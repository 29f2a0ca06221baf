------------------------------- MODULE NodeEnv -------------------------------
(***************************************************************************)
(* The environment files of a node (backups.py, files.py, logs.py,         *)
(* alerts.py, mesh.py and their steps in steps.py): app.env with the       *)
(* STORAGE_* block appended to it, logs.env, alert.env and backup.env.     *)
(* `up` plans a push where a digest it recorded differs from the secrets,  *)
(* moves the file into place, restarts what reads it and only then records *)
(* the digest.  What runs on the node reads its file when it starts: a     *)
(* color of the application, Vector, the mail relay.                       *)
(*                                                                         *)
(* A file's contents are the number of a version; 0 is no file, and an     *)
(* incomplete set of credentials.  A scenario names the files whose        *)
(* secrets and tables of stack.toml change.  Given "flip", a release is    *)
(* deployed while `up` runs; else only in between.                         *)
(***************************************************************************)
EXTENDS Commands, Naturals

CONSTANT MaxVersion     \* bound: versions of a file's secrets

ASSUME NodeEnvAssumption == MaxVersion \in Nat \ {0}

VARIABLES secret,       \* secret[f]: the secrets a file is rendered from
          tables,       \* the files that stack.toml has a table for
          recorded,     \* recorded[f]: the digest in the state file
          disk,         \* disk[f]: what the node's file holds
          daemon,       \* daemon[f]: what Vector and the relay run with
          failed,       \* the ones of them that did not come up
          color,        \* active-color
          started,      \* started[c]: the app.env that color c started with
          deploying,    \* a release deploy holds deploy.lock
          built,        \* the node runs the configuration of the checkout
          joined,       \* warp-cli reports Connected
          todo,         \* todo[t]: the steps that the plan of t has left
          copy,         \* copy[t]: the secrets t decrypted when it began
          chosen        \* chosen[t]: the color t read and will restart

nodeEnvVars == <<secret, tables, recorded, disk, daemon, failed, color, started, deploying, built,
                 joined, todo, copy, chosen>>

EnvFiles == {"app", "storage", "logs", "alert", "backup"}
Daemons == {"logs", "alert"}            \* with a unit that reads the file
AppParts == {"app", "storage"}          \* in one file, app.env
Tables == {"storage", "logs", "alert"}  \* rendered only if there is a table
Colors == {"blue", "green"}
Contents == 0..MaxVersion
NoFiles == [f \in EnvFiles |-> 0]
NotStarted == [f \in AppParts |-> 0]

\* plan: what the rebuild starts has its file before, the rest after.
StepOrder == [logs |-> 1, alert |-> 2, rebuild |-> 3, app |-> 4, backup |-> 5, mesh |-> 6]
Steps == DOMAIN StepOrder

First(steps) == CHOOSE step \in steps : \A other \in steps : StepOrder[step] <= StepOrder[other]

NodeEnvTypeOK ==
  /\ {secret, recorded, disk} \subseteq [EnvFiles -> Contents] /\ tables \subseteq Tables
  /\ daemon \in [Daemons -> Contents] /\ failed \subseteq Daemons
  /\ color \in Colors \cup {"none"}
  /\ started \in [Colors -> [AppParts -> Contents]]
  /\ {deploying, built, joined} \subseteq BOOLEAN
  /\ todo \in [Terminals -> SUBSET Steps]
  /\ copy \in [Terminals -> [EnvFiles -> Contents]]
  /\ chosen \in [Terminals -> Colors \cup {"none"}]

\* A node that was set up and rebuilt, without alerts, logs or a release.
NodeEnvInit ==
  /\ secret = [f \in EnvFiles |-> IF f = "app" THEN 1 ELSE 0] /\ tables = {}
  /\ recorded = NoFiles /\ disk = NoFiles
  /\ daemon = [f \in Daemons |-> 0] /\ failed = {}
  /\ color = "none" /\ started = [c \in Colors |-> NotStarted]
  /\ deploying = FALSE /\ built = TRUE /\ joined = FALSE
  /\ todo = [t \in Terminals |-> {}]
  /\ copy = [t \in Terminals |-> NoFiles]
  /\ chosen = [t \in Terminals |-> "none"]

NoneRuns == \A t \in Terminals : Prompt(t)

-----------------------------------------------------------------------------
(* What stack.toml and the secrets ask for                                 *)

\* The STORAGE_* lines, all of them or, without a bucket, none.
StorageEnvLines == IF "storage" \in tables THEN secret["storage"] ELSE 0

\* All values or none; what no table asks for is not even looked at.
LogsEnvContent   == IF "logs" \in tables THEN secret["logs"] ELSE 0
AlertEnvContent  == IF "alert" \in tables THEN secret["alert"] ELSE 0
BackupEnvContent == secret["backup"]

LocalFacts == [app |-> secret["app"], storage |-> StorageEnvLines, logs |-> LogsEnvContent,
               alert |-> AlertEnvContent, backup |-> BackupEnvContent]

\* The refusals of `up`: incomplete credentials of a table, for backups only
\* a warning; and a bucket for the application without an app_env.
CheckStorage          == "storage" \in tables => StorageEnvLines # 0 /\ secret["app"] # 0
CheckLogsCredentials  == "logs" \in tables => LogsEnvContent # 0
CheckAlertCredentials == "alert" \in tables => AlertEnvContent # 0

Complete == CheckStorage /\ CheckLogsCredentials /\ CheckAlertCredentials

-----------------------------------------------------------------------------
(* What the operator and others do meanwhile                               *)

\* Only given "revert" is a change taken back that a failed run had pushed.
MayChange(f) ==
  LET new == LocalFacts'[f]
  IN  new # LocalFacts[f] /\ new = recorded[f] /\ disk[f] # recorded[f] => Given("revert")

\* secrets set or unset.
ChangeSecret(f, v) ==
  /\ Happens(f) /\ NoneRuns
  /\ v # secret[f]
  /\ secret' = [secret EXCEPT ![f] = v]
  /\ tables' = tables
  /\ MayChange(f)
  /\ UNCHANGED <<run, recorded, disk, daemon, failed, color, started, deploying, built, joined,
                 todo, copy, chosen>>

\* A table of stack.toml comes or goes.  Those of units are read by the
\* node's configuration too, which is then not that of the checkout.
ChangeTable(f) ==
  /\ Happens(f) /\ NoneRuns
  /\ tables' = IF f \in tables THEN tables \ {f} ELSE tables \cup {f}
  /\ secret' = secret
  /\ MayChange(f)
  /\ built' = (built /\ f \notin Daemons)
  /\ UNCHANGED <<run, recorded, disk, daemon, failed, color, started, deploying, joined,
                 todo, copy, chosen>>

OtherColor == IF color = "blue" THEN "green" ELSE "blue"

\* stack-deploy starts the idle color, which reads app.env ...
StartIdleColor ==
  /\ Happens("release") /\ ~deploying
  /\ Given("flip") \/ NoneRuns
  /\ deploying' = TRUE
  /\ started' = [started EXCEPT ![OtherColor] = [f \in AppParts |-> disk[f]]]
  /\ UNCHANGED <<run, secret, tables, recorded, disk, daemon, failed, color, built, joined, todo, copy, chosen>>

\* ... and makes it the active one; the other stops.
FlipColor ==
  /\ deploying
  /\ deploying' = FALSE
  /\ color' = OtherColor
  /\ started' = [c \in Colors |-> IF c = OtherColor THEN started[c] ELSE NotStarted]
  /\ UNCHANGED <<run, secret, tables, recorded, disk, daemon, failed, built, joined, todo, copy, chosen>>

-----------------------------------------------------------------------------
(* up: plan                                                                *)

\* A mutant: a block that is gone from stack.toml needs no push.
NeedsAppEnvWhileThere(secrets) ==
  \/ secrets["storage"] # 0 /\ recorded["storage"] # secrets["storage"]
  \/ secrets["app"] # 0 /\ recorded["app"] # secrets["app"]

\* _needs_app_env: the block has a digest of its own; secrets without an
\* app_env neither push nor remove; a block that is gone is stripped.
NeedsAppEnv(secrets) ==
  \/ secrets["storage"] # 0 /\ recorded["storage"] # secrets["storage"]
  \/ secrets["app"] # 0 /\ secrets["storage"] = 0 /\ recorded["storage"] # 0
  \/ secrets["app"] # 0 /\ recorded["app"] # secrets["app"]

\* _needs_logs_env, _needs_alert_env, _needs_backup_env.
NeedsFile(secrets, f) == secrets[f] # 0 /\ recorded[f] # secrets[f]

Needed(secrets, step) ==
  CASE step = "app"     -> NeedsAppEnv(secrets)
    [] step = "rebuild" -> ~built
    [] step = "mesh"    -> ~joined
    [] OTHER            -> NeedsFile(secrets, step)

Plan(secrets) == {step \in Steps : Needed(secrets, step)}

\* apply: the steps in their order, and the end of the run after the last.
NextStep(t) ==
  /\ todo' = [todo EXCEPT ![t] = @ \ {First(@)}]
  /\ chosen' = [chosen EXCEPT ![t] = "none"]
  /\ IF todo'[t] = {}
     THEN Return(t) /\ copy' = [copy EXCEPT ![t] = NoFiles]
     ELSE Go(t, "push") /\ copy' = copy

Stop(t) ==
  /\ Return(t)
  /\ todo' = [todo EXCEPT ![t] = {}]
  /\ copy' = [copy EXCEPT ![t] = NoFiles]
  /\ chosen' = [chosen EXCEPT ![t] = "none"]

PlanEnv(t) ==
  /\ Typed(t, "up-env")
  /\ deploying => Given("flip")
  /\ Complete
  /\ Plan(LocalFacts) # {}
  /\ copy' = [copy EXCEPT ![t] = LocalFacts]
  /\ todo' = [todo EXCEPT ![t] = Plan(LocalFacts)]
  /\ Enter(t, "up-env", "push")
  /\ UNCHANGED <<secret, tables, recorded, disk, daemon, failed, color, started, deploying, built, joined, chosen>>

Doing(t, steps, at) == At(t, {"up-env"}, at) /\ todo[t] # {} /\ First(todo[t]) \in steps

-----------------------------------------------------------------------------
(* up: apply                                                               *)

\* Every file is written under a .new name, and moved.  One that the step
\* does not render is left alone.
Push(t, step, parts, next) ==
  /\ Doing(t, {step}, "push")
  /\ disk' = [f \in EnvFiles |-> IF f \in parts THEN copy[t][f] ELSE disk[f]]
  /\ Go(t, next)
  /\ UNCHANGED <<secret, tables, recorded, daemon, failed, color, started, deploying, built, joined,
                 todo, copy, chosen>>

\* app.env is one file: both parts change together.
EnsureAppEnv(t)    == Push(t, "app", AppParts, "color")
EnsureBackupEnv(t) == Push(t, "backup", {"backup"}, "record")
EnsureLogsEnv(t)   == Push(t, "logs", {"logs"}, "restart")
EnsureAlertEnv(t)  == Push(t, "alert", {"alert"}, "restart")

\* What a unit of the node makes of its file when it is started.
ComesUp(f) == daemon' = [daemon EXCEPT ![f] = disk[f]] /\ failed' = failed \ {f}
StaysDown(f) ==
  Happens("fail") /\ daemon' = [daemon EXCEPT ![f] = 0] /\ failed' = failed \cup {f}

\* Vector is restarted if it is active; one that is not is left to the
\* rebuild.  Bad values keep it down, but systemd has started it by then.
RestartVector(t) ==
  /\ Doing(t, {"logs"}, "restart")
  /\ IF daemon["logs"] # 0 THEN ComesUp("logs") \/ StaysDown("logs") ELSE UNCHANGED <<daemon, failed>>
  /\ Go(t, "record")
  /\ UNCHANGED <<secret, tables, recorded, disk, color, started, deploying, built, joined, todo, copy, chosen>>

\* The oneshot of the relay also if it has failed, and if it fails so does up.
RestartRelay(t) ==
  /\ Doing(t, {"alert"}, "restart")
  /\ \/ /\ daemon["alert"] # 0 \/ "alert" \in failed
        /\ \/ ComesUp("alert") /\ Go(t, "record") /\ UNCHANGED <<todo, copy, chosen>>
           \/ StaysDown("alert") /\ Stop(t)
     \/ /\ daemon["alert"] = 0 /\ "alert" \notin failed
        /\ Go(t, "record") /\ UNCHANGED <<daemon, failed, todo, copy, chosen>>
  /\ UNCHANGED <<secret, tables, recorded, disk, color, started, deploying, built, joined>>

\* _restart_active_color: active-color is read without the lock ...
ReadColor(t) ==
  /\ Doing(t, {"app"}, "color")
  /\ chosen' = [chosen EXCEPT ![t] = color]
  /\ Go(t, IF color = "none" THEN "record" ELSE "restart")
  /\ UNCHANGED <<secret, tables, recorded, disk, daemon, failed, color, started, deploying, built, joined, todo, copy>>

\* ... and the unit restarted under it; try-restart leaves a stopped color
\* stopped.
RestartColor(t) ==
  /\ Doing(t, {"app"}, "restart")
  /\ ~deploying
  /\ started' = IF chosen[t] = color
                THEN [started EXCEPT ![chosen[t]] = [f \in AppParts |-> disk[f]]]
                ELSE started
  /\ Go(t, "record")
  /\ UNCHANGED <<secret, tables, recorded, disk, daemon, failed, color, deploying, built, joined, todo, copy, chosen>>

\* A mutant: the digest of a block that is gone is not cleared.
RecordWithoutClearing(t) ==
  /\ Doing(t, {"logs", "alert", "app", "backup"}, "record")
  /\ LET step == First(todo[t])
         parts == IF step # "app" THEN {step} ELSE {f \in AppParts : copy[t][f] # 0}
     IN  recorded' = [f \in EnvFiles |-> IF f \in parts THEN copy[t][f] ELSE recorded[f]]
  /\ NextStep(t)
  /\ UNCHANGED <<secret, tables, disk, daemon, failed, color, started, deploying, built, joined>>

\* The digest is recorded last; without [files] the one of the block is
\* cleared, and without app_env the one of app_env is left as it is.
Record(t) ==
  /\ Doing(t, {"logs", "alert", "app", "backup"}, "record")
  /\ LET step == First(todo[t])
         parts == IF step # "app" THEN {step}
                  ELSE {"storage"} \cup {f \in {"app"} : copy[t][f] # 0}
     IN  recorded' = [f \in EnvFiles |-> IF f \in parts THEN copy[t][f] ELSE recorded[f]]
  /\ NextStep(t)
  /\ UNCHANGED <<secret, tables, disk, daemon, failed, color, started, deploying, built, joined>>

\* nixos-rebuild switch stops the Vector and the relay that stack.toml no
\* longer asks for, starts the others, restarts one that runs or failed only
\* perhaps, and fails if one cannot start without its file.
Rebuild(t) ==
  /\ Doing(t, {"rebuild"}, "push")
  /\ LET on == {f \in Daemons : copy[t][f] # 0}
         missing == {f \in on : disk[f] = 0}
     IN  /\ \E kept \in SUBSET {f \in on : daemon[f] # 0 \/ f \in failed} :
               /\ daemon' = [f \in Daemons |-> IF f \notin on THEN 0
                                               ELSE IF f \in kept THEN daemon[f] ELSE disk[f]]
               /\ failed' = (failed \cap kept) \cup missing
         /\ IF missing = {}
            THEN built' = TRUE /\ NextStep(t)
            ELSE built' = built /\ Stop(t)
  /\ UNCHANGED <<secret, tables, recorded, disk, color, started, deploying, joined>>

\* _ensure_mesh: a failed `connector new` does not matter if `connect` works.
EnsureMesh(t) ==
  /\ Doing(t, {"mesh"}, "push")
  /\ joined' = TRUE
  /\ NextStep(t)
  /\ UNCHANGED <<secret, tables, recorded, disk, daemon, failed, color, started, deploying, built>>

\* ssh fails or up is killed: nothing more is done, and no digest recorded.
EnvFails(t) ==
  /\ Happens("fail") /\ run[t].command = "up-env"
  /\ Stop(t)
  /\ UNCHANGED <<secret, tables, recorded, disk, daemon, failed, color, started, deploying, built, joined>>

EnvStep(t) ==
  \/ PlanEnv(t)
  \/ EnsureAppEnv(t) \/ EnsureBackupEnv(t) \/ EnsureLogsEnv(t) \/ EnsureAlertEnv(t)
  \/ RestartVector(t) \/ RestartRelay(t) \/ ReadColor(t) \/ RestartColor(t)
  \/ Record(t) \/ Rebuild(t) \/ EnsureMesh(t)

NodeEnvNext ==
  \/ \E t \in Terminals : EnvStep(t) \/ EnvFails(t)
  \/ \E f \in EnvFiles, v \in Contents : ChangeSecret(f, v)
  \/ \E f \in Tables : ChangeTable(f)
  \/ StartIdleColor \/ FlipColor

-----------------------------------------------------------------------------

\* When `up` has nothing left to do for the environment files, the node has
\* what the secrets render to, and what runs has read it: the digests are
\* recorded only after the restart (steps.py:776).  Three exceptions: a change
\* taken back after a failed run is not pushed back (steps.py:776); a release
\* deployed while `up` ran may serve an older app.env (steps.py:823); and
\* Vector may be down, which no later push restarts (steps.py:952).  All that
\* is claimed for one `up` at a time: of two, each may record what the other
\* has not restarted yet.  And a rebuild finds the files of everything it
\* starts (reconcile.py:1183), however many run.
QuietIsServed ==
  /\ LET want == LocalFacts
     IN  NoneRuns /\ Complete /\ Plan(want) = {} /\ Free({"revert"}) /\ ~Overlapping =>
           /\ \A f \in EnvFiles : want[f] # 0 => disk[f] = want[f]
           /\ want["app"] # 0 /\ want["storage"] = 0 => disk["storage"] = 0
           /\ daemon["alert"] = want["alert"]
           /\ "logs" \notin failed => daemon["logs"] = want["logs"]
           /\ color # "none" /\ want["app"] # 0 /\ Free({"flip"}) =>
                \A f \in AppParts : started[color][f] = want[f]
  /\ \A t \in Terminals : Doing(t, {"rebuild"}, "push") =>
       \A f \in Daemons : copy[t][f] # 0 => disk[f] # 0

=============================================================================
