------------------------------ MODULE StackDeploy ------------------------------
(***************************************************************************)
(* The per-node release engine, nixos/deploy/stack-deploy.sh, with the     *)
(* systemd units nixos/deploy.nix gives it: two app instances (blue and    *)
(* green), one socket symlink nginx follows, a boot unit and one drain     *)
(* timer per colour.                                                       *)
(*                                                                         *)
(* Every invocation of the script is a process that walks through the      *)
(* script one shell command at a time, so that a failing command, the      *)
(* death of the process, a power loss and a timer can fall between any two *)
(* commands.  A command that can fail is a disjunction of its success and  *)
(* of what the script does about its failure.                              *)
(*                                                                         *)
(* Abstractions: a release is its version number, ordered as `sort -V`     *)
(* orders them, and a directory under releases/ is there or not (what may  *)
(* be left of one is module Releases'); a health check passes or fails     *)
(* freely; rename(2) is atomic and durable.                                *)
(* A full disk lets atomic_write rename an empty temporary file into place *)
(* and report success: the file is then Empty, or Blank if it is a number. *)
(***************************************************************************)
EXTENDS Integers, FiniteSets

CONSTANTS
  Procs,          \* stack-deploy processes that may run at the same time
  NoProc,         \* the deploy lock's value when nobody holds it
  Versions,       \* release versions, as positive numbers in `sort -V` order
  Keep,           \* STACK_KEEP: how many releases prune retains
  Commands,       \* the subcommands operators and clients invoke
  FaultModels,    \* the sets of faults to consider
  MaxGeneration   \* bound: no deploy or rollback starts at this generation

ASSUME ProcsAssumption == NoProc \notin Procs
ASSUME VersionsAssumption == Versions \subseteq Nat \ {0} /\ IsFiniteSet(Versions)
ASSUME KeepAssumption == Keep \in Nat \ {0}
ASSUME CommandsAssumption == Commands \subseteq {"deploy", "rollback", "unpack", "prune"}

\* What may go wrong: a command fails, a process dies, the power is lost, the
\* disk fills up, or somebody passes `deploy --tarball ... --force`.
ASSUME FaultsAssumption ==
  FaultModels \subseteq SUBSET {"step", "death", "power", "disk", "force"}
ASSUME BoundAssumption == MaxGeneration \in Nat

VARIABLES
  \* Files under the state directory and /opt: they survive a power loss.
  active,       \* active-color; "none" when the file is absent, or Empty
  pending,      \* pending-color, the intent file; "none" when absent, or Empty
  generation,   \* generation; 0 when absent, or Blank
  marker,       \* drain-pending-<color>; 0 when absent, or Blank
  link,         \* the target of <color>/current; NoVersion when absent
  releases,     \* the directories under releases/
  \* /run and systemd: wiped by a power loss.
  sock,         \* the color app.sock points at; "none" when absent
  unit,         \* the release each app@<color> unit runs; Stopped when it does not
  armed,        \* stackbase-drain@<color>.timer is counting down
  bootDue,      \* stackbase-app-boot is about to be started
  \* The processes.
  lock,         \* the holder of deploy.lock
  pc,           \* the command each process executes next
  job,          \* the arguments and local variables of each process
  \* History.
  proven,       \* the releases that ever passed a deploy's health check
  faults        \* what may go wrong in this behaviour: it never changes

disk  == <<active, pending, generation, marker, link, releases>>
host  == <<sock, unit, armed, bootDue>>
procs == <<lock, pc, job>>
vars  == <<disk, host, procs, proven, faults>>

-----------------------------------------------------------------------------
Colors == {"blue", "green"}
NoColor == "none"
Empty == "empty"
Blank == -1
NoVersion == 0
Stopped == 0

Other(c) == IF c = "blue" THEN "green" ELSE "blue"

\* Mutation of IdleFor: deploys onto the color that is serving.
IdleForSame(a) == IF a = NoColor THEN "blue" ELSE a

\* idle_for: the color the next activation targets.
IdleFor(a) == IF a = NoColor THEN "blue" ELSE Other(a)

\* `[ -e <color>/current ]`: false for an absent link and for a dangling one.
Linked(c) == link[c] \in releases

NoJob == [cmd |-> "none", ver |-> NoVersion, mode |-> "none",
          color |-> NoColor, prev |-> NoColor, target |-> NoVersion, gen |-> 0]

\* What a `deploy` brings along: nothing (the release was unpacked before),
\* a tarball, or a tarball and --force.
Modes == {"unpacked", "tarball"} \cup (IF "force" \in faults THEN {"force"} ELSE {})

Init ==
  /\ active = NoColor
  /\ pending = NoColor
  /\ generation = 0
  /\ marker = [c \in Colors |-> 0]
  /\ link = [c \in Colors |-> NoVersion]
  /\ releases = {}
  /\ sock = NoColor
  /\ unit = [c \in Colors |-> Stopped]
  /\ armed = [c \in Colors |-> FALSE]
  /\ bootDue = TRUE
  /\ lock = NoProc
  /\ pc = [p \in Procs |-> "free"]
  /\ job = [p \in Procs |-> NoJob]
  /\ proven = {}
  /\ faults \in FaultModels

-----------------------------------------------------------------------------
(* Control flow of one process. *)

MayFail == "step" \in faults

\* What a state file holds after an atomic_write that reported success: its
\* printf is not checked, only the rename is.
Written(value, blank) == {value} \cup (IF "disk" \in faults THEN {blank} ELSE {})

\* Mutation of Acquire: a process that loses `flock -n` goes on.
AcquireIgnoringLock(p, j, first) ==
  /\ pc[p] = "free"
  /\ lock' = p
  /\ job' = [job EXCEPT ![p] = j]
  /\ pc' = [pc EXCEPT ![p] = first]

\* acquire_lock: `flock -n` succeeds only when nobody holds the lock; whoever
\* loses exits at once, with nothing changed.
Acquire(p, j, first) ==
  /\ pc[p] = "free"
  /\ lock = NoProc
  /\ lock' = p
  /\ job' = [job EXCEPT ![p] = j]
  /\ pc' = [pc EXCEPT ![p] = first]

Goto(p, next) ==
  /\ pc' = [pc EXCEPT ![p] = next]
  /\ UNCHANGED <<lock, job>>

\* The process ends; closing descriptor 9 releases the lock.
Exit(p) ==
  /\ pc' = [pc EXCEPT ![p] = "free"]
  /\ job' = [job EXCEPT ![p] = NoJob]
  /\ lock' = NoProc

-----------------------------------------------------------------------------
(* Invocations: the subcommands of main, up to the lock. *)

Job(cmd) == [NoJob EXCEPT !.cmd = cmd]

Deploy(p) ==
  /\ "deploy" \in Commands
  /\ generation < MaxGeneration
  /\ \E v \in Versions, m \in Modes :
       Acquire(p, [Job("deploy") EXCEPT !.ver = v, !.mode = m], "resolve")
  /\ UNCHANGED <<disk, host, proven, faults>>

Rollback(p) ==
  /\ "rollback" \in Commands
  /\ generation < MaxGeneration
  /\ Acquire(p, Job("rollback"), "resolve")
  /\ UNCHANGED <<disk, host, proven, faults>>

Unpack(p) ==
  /\ "unpack" \in Commands
  /\ \E v \in Versions :
       Acquire(p, [Job("unpack") EXCEPT !.ver = v, !.mode = "tarball"], "unpack")
  /\ UNCHANGED <<disk, host, proven, faults>>

Prune(p) ==
  /\ "prune" \in Commands
  /\ Acquire(p, Job("prune"), "prune")
  /\ UNCHANGED <<disk, host, proven, faults>>

\* stackbase-app-boot.service: a oneshot, so losing the lock is final.
Boot(p) ==
  /\ bootDue
  /\ Acquire(p, Job("boot"), "resolve")
  /\ bootDue' = FALSE
  /\ UNCHANGED <<disk, sock, unit, armed, proven, faults>>

BootLosesLock ==
  /\ bootDue
  /\ lock # NoProc
  /\ bootDue' = FALSE
  /\ UNCHANGED <<disk, sock, unit, armed, procs, proven, faults>>

\* stackbase-drain@c.timer elapses and starts `internal-drain-stop c`.
DrainFires(p, c) ==
  /\ armed[c]
  /\ Acquire(p, [Job("drain") EXCEPT !.color = c], "drain")
  /\ armed' = [armed EXCEPT ![c] = FALSE]
  /\ UNCHANGED <<disk, sock, unit, bootDue, proven, faults>>

DrainLosesLock(c) ==
  /\ armed[c]
  /\ lock # NoProc
  /\ armed' = [armed EXCEPT ![c] = FALSE]
  /\ UNCHANGED <<disk, sock, unit, bootDue, procs, proven, faults>>

-----------------------------------------------------------------------------
(* resolve_pending_color. *)

\* Where a command continues once no intent is left over.
Body(p) == CASE job[p].cmd = "deploy"   -> "unpack"
             [] job[p].cmd = "rollback" -> "select"
             [] OTHER                   -> "point"

Started(c) == [unit EXCEPT ![c] = IF @ = Stopped THEN link[c] ELSE @]

Resolve(p) ==
  /\ pc[p] = "resolve"
  /\ \/ pending = NoColor /\ Goto(p, Body(p)) /\ UNCHANGED unit
     \/ pending = Empty /\ Exit(p) /\ UNCHANGED unit
     \/ pending \in Colors /\ ~Linked(pending) /\ Goto(p, "settle") /\ UNCHANGED unit
     \/ /\ pending \in Colors /\ Linked(pending)
        /\ \/ Goto(p, "resume") /\ unit' = Started(pending)
           \/ MayFail /\ Goto(p, "fallback") /\ UNCHANGED unit
  /\ UNCHANGED <<disk, sock, armed, bootDue, proven, faults>>

Resume(p) ==
  /\ pc[p] = "resume"
  /\ Goto(p, "reflip") \/ Goto(p, "fallback")
  /\ UNCHANGED <<disk, host, proven, faults>>

Reflip(p) ==
  /\ pc[p] = "reflip"
  /\ \/ sock' = pending /\ Goto(p, "rerecord")
     \/ MayFail /\ Exit(p) /\ UNCHANGED sock
  /\ UNCHANGED <<disk, unit, armed, bootDue, proven, faults>>

\* Mutation of Rerecord: the resumed swap is never written to active-color.
RerecordSkipped(p) ==
  /\ pc[p] = "rerecord"
  /\ Goto(p, "settle")
  /\ UNCHANGED <<disk, host, proven, faults>>

Rerecord(p) ==
  /\ pc[p] = "rerecord"
  /\ \/ active' \in Written(pending, Empty) /\ Goto(p, "settle")
     \/ MayFail /\ Exit(p) /\ UNCHANGED active
  /\ UNCHANGED <<pending, generation, marker, link, releases, host, proven, faults>>

\* Mutation of Fallback: keeps trying the unhealthy color.
FallbackRetries(p) ==
  /\ pc[p] = "fallback"
  /\ Goto(p, "resume")
  /\ UNCHANGED <<disk, host, proven, faults>>

\* Mutation of Fallback: stops the color it falls back to.
FallbackStopsActive(p) ==
  /\ pc[p] = "fallback"
  /\ Goto(p, "settle")
  /\ unit' = [unit EXCEPT ![active] = Stopped]
  /\ UNCHANGED <<disk, sock, armed, bootDue, proven, faults>>

\* The interrupted swap's color is not healthy: stop it (`|| true`).
Fallback(p) ==
  /\ pc[p] = "fallback"
  /\ Goto(p, "settle")
  /\ \/ unit' = [unit EXCEPT ![pending] = Stopped]
     \/ MayFail /\ UNCHANGED unit
  /\ UNCHANGED <<disk, sock, armed, bootDue, proven, faults>>

\* Mutation of Settle: the resolved intent is left in place.
SettleKeepsIntent(p) ==
  /\ pc[p] = "settle"
  /\ Goto(p, Body(p))
  /\ UNCHANGED <<disk, host, proven, faults>>

Settle(p) ==
  /\ pc[p] = "settle"
  /\ \/ pending' = NoColor /\ Goto(p, Body(p))
     \/ MayFail /\ Exit(p) /\ UNCHANGED pending
  /\ UNCHANGED <<active, generation, marker, link, releases, host, proven, faults>>

-----------------------------------------------------------------------------
(* deploy_unpack_tarball. *)

AfterUnpack(p) == IF job[p].cmd = "unpack" THEN Exit(p) ELSE Goto(p, "link")

\* Mutation of UnpackCheck: a deploy does not check the release was unpacked.
UnpackCheckTrusting(p) ==
  /\ pc[p] = "unpack"
  /\ LET present == job[p].ver \in releases
         mode == job[p].mode
     IN \/ mode = "unpacked" /\ Goto(p, "link")
        \/ mode = "tarball" /\ present /\ AfterUnpack(p)
        \/ mode = "tarball" /\ ~present /\ Goto(p, "install")
        \/ Exit(p)
  /\ UNCHANGED <<disk, host, proven, faults>>

\* An existing release is kept when the tarball is the same, refused when it
\* differs; a tarball that fails verification is refused.  --force overwrites.
UnpackCheck(p) ==
  /\ pc[p] = "unpack"
  /\ LET present == job[p].ver \in releases
         mode == job[p].mode
     IN \/ mode = "unpacked" /\ present /\ Goto(p, "link")
        \/ mode = "tarball" /\ present /\ AfterUnpack(p)
        \/ mode = "tarball" /\ ~present /\ Goto(p, "install")
        \/ mode = "force" /\ Goto(p, IF present THEN "remove" ELSE "install")
        \/ Exit(p)
  /\ UNCHANGED <<disk, host, proven, faults>>

UnpackRemove(p) ==
  /\ pc[p] = "remove"
  /\ \/ releases' = releases \ {job[p].ver} /\ Goto(p, "install")
     \/ MayFail /\ Exit(p) /\ UNCHANGED releases
  /\ UNCHANGED <<active, pending, generation, marker, link, host, proven, faults>>

UnpackInstall(p) ==
  /\ pc[p] = "install"
  /\ \/ releases' = releases \cup {job[p].ver} /\ AfterUnpack(p)
     \/ MayFail /\ Exit(p) /\ UNCHANGED releases
  /\ UNCHANGED <<active, pending, generation, marker, link, host, proven, faults>>

-----------------------------------------------------------------------------
(* cmd_deploy and cmd_rollback up to activate_color. *)

\* Remember what the idle color's link points at, then repoint it.  idle_for
\* dies on an empty active-color.
RepointIdle(p) ==
  /\ pc[p] = "link"
  /\ LET idle == IdleFor(active) IN
     \/ /\ active # Empty
        /\ link' = [link EXCEPT ![idle] = job[p].ver]
        /\ job' = [job EXCEPT ![p].color = idle,
                              ![p].prev = active,
                              ![p].target = IF Linked(idle) THEN link[idle] ELSE NoVersion]
        /\ pc' = [pc EXCEPT ![p] = "start"]
        /\ UNCHANGED lock
     \/ (active = Empty \/ MayFail) /\ Exit(p) /\ UNCHANGED link
  /\ UNCHANGED <<active, pending, generation, marker, releases, host, proven, faults>>

\* A rollback activates what the idle color already links, or refuses.
SelectIdle(p) ==
  /\ pc[p] = "select"
  /\ LET idle == IdleFor(active) IN
     IF active \in Colors /\ Linked(idle)
       THEN /\ job' = [job EXCEPT ![p].color = idle, ![p].prev = active]
            /\ pc' = [pc EXCEPT ![p] = "start"]
            /\ UNCHANGED lock
       ELSE Exit(p)
  /\ UNCHANGED <<disk, host, proven, faults>>

-----------------------------------------------------------------------------
(* activate_color, before the flip: a failure ends at "restore". *)

RestartIdle(p) ==
  /\ pc[p] = "start"
  /\ LET c == job[p].color IN
     \/ unit' = [unit EXCEPT ![c] = link[c]] /\ Goto(p, "probe")
     \/ /\ MayFail
        /\ \E left \in {unit[c], Stopped} : unit' = [unit EXCEPT ![c] = left]
        /\ Goto(p, "restore")
  /\ UNCHANGED <<disk, sock, armed, bootDue, proven, faults>>

Probe(p) ==
  /\ pc[p] = "probe"
  /\ \/ Goto(p, "intent") /\ proven' = proven \cup {link[job[p].color]}
     \/ Goto(p, "abort") /\ UNCHANGED proven
  /\ UNCHANGED <<disk, host, faults>>

StopCandidate(p) ==
  /\ pc[p] = "abort"
  /\ Goto(p, "restore")
  /\ \/ unit' = [unit EXCEPT ![job[p].color] = Stopped]
     \/ MayFail /\ UNCHANGED unit
  /\ UNCHANGED <<disk, sock, armed, bootDue, proven, faults>>

\* Mutation of WriteIntent: the flip is not announced.
WriteIntentSkipped(p) ==
  /\ pc[p] = "intent"
  /\ Goto(p, "flip")
  /\ UNCHANGED <<disk, host, proven, faults>>

WriteIntent(p) ==
  /\ pc[p] = "intent"
  /\ \/ pending' \in Written(job[p].color, Empty) /\ Goto(p, "flip")
     \/ MayFail /\ Goto(p, "abort") /\ UNCHANGED pending
  /\ UNCHANGED <<active, generation, marker, link, releases, host, proven, faults>>

\* Mutation of RestoreLink: the broken candidate stays linked.
RestoreNothing(p) ==
  /\ pc[p] = "restore"
  /\ Exit(p)
  /\ UNCHANGED <<disk, host, proven, faults>>

\* cmd_deploy puts the idle color's link back; cmd_rollback has nothing to
\* restore.  Both exit 1.
RestoreLink(p) ==
  /\ pc[p] = "restore"
  /\ Exit(p)
  /\ \/ /\ job[p].cmd = "deploy"
        /\ link' = [link EXCEPT ![job[p].color] = job[p].target]
     \/ (job[p].cmd = "rollback" \/ MayFail) /\ UNCHANGED link
  /\ UNCHANGED <<active, pending, generation, marker, releases, host, proven, faults>>

-----------------------------------------------------------------------------
(* activate_color, from the flip on: a failure ends the process and leaves  *)
(* the intent for resolve_pending_color.                                    *)

FlipTraffic(p) ==
  /\ pc[p] = "flip"
  /\ \/ sock' = job[p].color /\ Goto(p, "record")
     \/ MayFail /\ Exit(p) /\ UNCHANGED sock
  /\ UNCHANGED <<disk, unit, armed, bootDue, proven, faults>>

RecordActive(p) ==
  /\ pc[p] = "record"
  /\ \/ active' \in Written(job[p].color, Empty) /\ Goto(p, "clear")
     \/ MayFail /\ Exit(p) /\ UNCHANGED active
  /\ UNCHANGED <<pending, generation, marker, link, releases, host, proven, faults>>

\* A deploy prunes at the end; a rollback is done.
Finish(p) == IF job[p].cmd = "deploy" THEN Goto(p, "prune") ELSE Exit(p)

ClearIntent(p) ==
  /\ pc[p] = "clear"
  /\ \/ /\ pending' = NoColor
        /\ IF job[p].prev = NoColor THEN Finish(p) ELSE Goto(p, "bump")
     \/ MayFail /\ Exit(p) /\ UNCHANGED pending
  /\ UNCHANGED <<active, generation, marker, link, releases, host, proven, faults>>

\* Mutation of BumpGeneration: the counter runs backwards.
BumpDown(p) ==
  /\ pc[p] = "bump"
  /\ generation' = generation - 2
  /\ Goto(p, "mark")
  /\ UNCHANGED <<active, pending, marker, link, releases, host, proven, faults>>

\* next_generation: a counter that is blank or cannot be read counts from 0.
\* Failing to schedule the drain is only a warning.
BumpGeneration(p) ==
  /\ pc[p] = "bump"
  /\ \/ \E read \in {generation} \cup (IF MayFail THEN {0} ELSE {}) :
          LET next == IF read = Blank THEN 1 ELSE read + 1 IN
          /\ generation' \in Written(next, Blank)
          /\ job' = [job EXCEPT ![p].gen = next]
          /\ pc' = [pc EXCEPT ![p] = "mark"]
          /\ UNCHANGED lock
     \/ MayFail /\ Finish(p) /\ UNCHANGED generation
  /\ UNCHANGED <<active, pending, marker, link, releases, host, proven, faults>>

MarkDrain(p) ==
  /\ pc[p] = "mark"
  /\ \/ /\ \E gen \in Written(job[p].gen, Blank) :
             marker' = [marker EXCEPT ![job[p].prev] = gen]
        /\ Goto(p, "arm")
     \/ MayFail /\ Finish(p) /\ UNCHANGED marker
  /\ UNCHANGED <<active, pending, generation, link, releases, host, proven, faults>>

ArmTimer(p) ==
  /\ pc[p] = "arm"
  /\ Finish(p)
  /\ \/ armed' = [armed EXCEPT ![job[p].prev] = TRUE]
     \/ MayFail /\ UNCHANGED armed
  /\ UNCHANGED <<disk, sock, unit, bootDue, proven, faults>>

\* Mutation of Prunable: a linked release is pruned like any other.
PrunableLinked == {v \in releases : Cardinality({w \in releases : w > v}) >= Keep}

\* prune_releases: all but the Keep newest, never one a color links.
Prunable ==
  {v \in releases : Cardinality({w \in releases : w > v}) >= Keep}
    \ {link[c] : c \in Colors}

PruneReleases(p) ==
  /\ pc[p] = "prune"
  /\ Exit(p)
  /\ \E spared \in SUBSET Prunable :
       /\ spared = {} \/ faults \ {"force"} # {}
       /\ releases' = releases \ (Prunable \ spared)
  /\ UNCHANGED <<active, pending, generation, marker, link, host, proven, faults>>

-----------------------------------------------------------------------------
(* cmd_boot after resolve_pending_color. *)

PointAtActive(p) ==
  /\ pc[p] = "point"
  /\ IF active \in Colors /\ Linked(active)
       THEN \/ sock' = active /\ Goto(p, "bootstart")
            \/ MayFail /\ Exit(p) /\ UNCHANGED sock
       ELSE Exit(p) /\ UNCHANGED sock
  /\ UNCHANGED <<disk, unit, armed, bootDue, proven, faults>>

\* Neither a failed start nor a failed health check fails the boot.
StartActive(p) ==
  /\ pc[p] = "bootstart"
  /\ Exit(p)
  /\ \/ unit' = Started(active)
     \/ MayFail /\ UNCHANGED unit
  /\ UNCHANGED <<disk, sock, armed, bootDue, proven, faults>>

-----------------------------------------------------------------------------
(* cmd_internal_drain_stop. *)

\* Mutation of DrainCheck: trusts the marker and the generation alone.
DrainCheckMarkerOnly(p) ==
  /\ pc[p] = "drain"
  /\ LET c == job[p].color IN
     IF marker[c] # 0 /\ marker[c] = generation
       THEN Goto(p, "drainstop")
       ELSE Exit(p)
  /\ UNCHANGED <<disk, host, proven, faults>>

DrainCheck(p) ==
  /\ pc[p] = "drain"
  /\ LET c == job[p].color IN
     IF active # c /\ marker[c] # 0 /\ marker[c] = generation
       THEN Goto(p, "drainstop")
       ELSE Exit(p)
  /\ UNCHANGED <<disk, host, proven, faults>>

DrainStop(p) ==
  /\ pc[p] = "drainstop"
  /\ \/ unit' = [unit EXCEPT ![job[p].color] = Stopped] /\ Goto(p, "unmark")
     \/ MayFail /\ Exit(p) /\ UNCHANGED unit
  /\ UNCHANGED <<disk, sock, armed, bootDue, proven, faults>>

Unmark(p) ==
  /\ pc[p] = "unmark"
  /\ Exit(p)
  /\ \/ marker' = [marker EXCEPT ![job[p].color] = 0]
     \/ MayFail /\ UNCHANGED marker
  /\ UNCHANGED <<active, pending, generation, link, releases, host, proven, faults>>

-----------------------------------------------------------------------------
(* The environment. *)

\* The process dies between two commands; the kernel drops its flock.
Die(p) ==
  /\ "death" \in faults
  /\ pc[p] # "free"
  /\ Exit(p)
  /\ UNCHANGED <<disk, host, proven, faults>>

\* Everything under /run, every unit, timer and process is gone; the files
\* stay.  The boot unit is due again.
PowerLoss ==
  /\ "power" \in faults
  /\ sock' = NoColor
  /\ unit' = [c \in Colors |-> Stopped]
  /\ armed' = [c \in Colors |-> FALSE]
  /\ bootDue' = TRUE
  /\ lock' = NoProc
  /\ pc' = [p \in Procs |-> "free"]
  /\ job' = [p \in Procs |-> NoJob]
  /\ UNCHANGED <<disk, proven, faults>>

\* An instance crashes and Restart=on-failure starts it again, from whatever
\* its link names by then.
AppRestarts(c) ==
  /\ unit[c] # Stopped
  /\ Linked(c)
  /\ unit' = [unit EXCEPT ![c] = link[c]]
  /\ UNCHANGED <<disk, sock, armed, bootDue, procs, proven, faults>>

\* `nixos-rebuild switch` starts the boot unit again when its definition
\* changed or it had failed.
SwitchStartsBoot ==
  /\ ~bootDue
  /\ bootDue' = TRUE
  /\ UNCHANGED <<disk, sock, unit, armed, procs, proven, faults>>

-----------------------------------------------------------------------------
Invoke(p) ==
  \/ Deploy(p) \/ Rollback(p) \/ Unpack(p) \/ Prune(p)
  \/ Boot(p) \/ \E c \in Colors : DrainFires(p, c)

\* One command of a process that holds the lock.
Step(p) ==
  \/ Resolve(p) \/ Resume(p) \/ Reflip(p) \/ Rerecord(p) \/ Fallback(p) \/ Settle(p)
  \/ UnpackCheck(p) \/ UnpackRemove(p) \/ UnpackInstall(p)
  \/ RepointIdle(p) \/ SelectIdle(p)
  \/ RestartIdle(p) \/ Probe(p) \/ StopCandidate(p) \/ WriteIntent(p) \/ RestoreLink(p)
  \/ FlipTraffic(p) \/ RecordActive(p) \/ ClearIntent(p)
  \/ BumpGeneration(p) \/ MarkDrain(p) \/ ArmTimer(p) \/ PruneReleases(p)
  \/ PointAtActive(p) \/ StartActive(p)
  \/ DrainCheck(p) \/ DrainStop(p) \/ Unmark(p)

Environment ==
  \/ BootLosesLock \/ \E c \in Colors : DrainLosesLock(c) \/ AppRestarts(c)
  \/ \E p \in Procs : Die(p)
  \/ PowerLoss \/ SwitchStartsBoot

Next == (\E p \in Procs : Invoke(p) \/ Step(p)) \/ Environment

Spec == Init /\ [][Next]_vars

\* The shell always executes its next command, and every health check gives
\* up after STACK_DEPLOY_HEALTH_TRIES bounded tries: a process that holds the
\* lock keeps going.  systemd starts the boot unit it is due to start.
Fairness ==
  /\ \A p \in Procs : WF_vars(Step(p))
  /\ WF_vars(BootLosesLock \/ \E p \in Procs : Boot(p))

FairSpec == Spec /\ Fairness

-----------------------------------------------------------------------------
Labels ==
  {"free", "resolve", "resume", "reflip", "rerecord", "fallback", "settle",
   "unpack", "remove", "install", "link", "select", "start", "probe", "abort",
   "intent", "restore", "flip", "record", "clear", "bump", "mark", "arm",
   "prune", "point", "bootstart", "drain", "drainstop", "unmark"}

JobType == [cmd : {"none", "deploy", "rollback", "unpack", "prune", "boot", "drain"},
            ver : Versions \cup {NoVersion},
            mode : {"none", "unpacked", "tarball", "force"},
            color : Colors \cup {NoColor},
            prev : Colors \cup {NoColor},
            target : Versions \cup {NoVersion},
            gen : Nat]

\* The type invariant: every file, link, unit and local variable holds a value
\* of its kind; in particular no link, unit or routing state is ever set from
\* an unset local.
TypeOK ==
  /\ active \in Colors \cup {NoColor, Empty}
  /\ pending \in Colors \cup {NoColor, Empty}
  /\ generation \in Nat \cup {Blank}
  /\ marker \in [Colors -> Nat \cup {Blank}]
  /\ link \in [Colors -> Versions \cup {NoVersion}]
  /\ releases \in SUBSET Versions
  /\ sock \in Colors \cup {NoColor}
  /\ unit \in [Colors -> Versions \cup {Stopped}]
  /\ armed \in [Colors -> BOOLEAN]
  /\ bootDue \in BOOLEAN
  /\ lock \in Procs \cup {NoProc}
  /\ pc \in [Procs -> Labels]
  /\ job \in [Procs -> JobType]
  /\ proven \in SUBSET (Versions \cup {NoVersion})
  /\ faults \in FaultModels

-----------------------------------------------------------------------------
(* Safety. *)

\* deploy.lock serialises every command that writes state, whatever dies and
\* whatever races: no two processes are past acquire_lock (acquire_lock and
\* the drain's own flock).
MutualExclusion ==
  \A p, q \in Procs : pc[p] # "free" /\ pc[q] # "free" => p = q

\* The boot unit never finds state file and release directory out of sync
\* (the die in cmd_boot), after any crash, failed deploy, prune or power loss:
\* the active color always links a release that is on disk.
BootFindsRelease ==
  "force" \in faults \/ (active \in Colors => Linked(active))

\* No deploy, failed or interrupted, and no prune leaves a color's link
\* dangling: prune_releases spares linked releases, and a link is only ever
\* pointed or restored to a release that is on disk.
LinksResolve ==
  "force" \in faults \/ \A c \in Colors : link[c] = NoVersion \/ Linked(c)

\* What the active color's unit runs is what its link names: a restart by
\* systemd or a reboot never silently changes the release in production,
\* although deploys repoint links under units that still drain.
ActiveRunsItsLink ==
  active \in Colors => unit[active] \in {Stopped, link[active]}

\* Traffic is accounted for: app.sock is absent, or on the recorded color, or
\* on the color the intent file names.
Recorded == sock \in {NoColor, active, pending}

\* Once accounted for, traffic stays so across every step, crash and power
\* loss, with one exception: resolve_pending_color dropping an intent.  (A full
\* disk empties active-color and pending-color under a swap.)
OnlySettlingLosesTraffic ==
  [][Recorded /\ "disk" \notin faults => Recorded' \/ \E p \in Procs : Settle(p)]_vars

\* Whatever fails, dies, races or fills the disk, nothing stops the recorded
\* color's running unit but the loss of power and resolve_pending_color, which
\* stops it as unhealthy if its intent was left behind.  In particular a drain
\* timer that goes off late, twice or after newer deploys does not, even if its
\* generation was handed out again (next_generation counts from 0 over an
\* unreadable counter) or a full disk blanked both the marker and the counter;
\* nor does a failed deploy or rollback clearing away its candidate.
RecordedNeverStopped ==
  [][\A c \in Colors :
        active = c /\ unit[c] # Stopped /\ unit'[c] = Stopped
          => PowerLoss \/ \E p \in Procs : Fallback(p)]_vars

\* Nothing but power losses, and whatever is overwritten with --force.
OnlyPower == faults \subseteq {"power", "force"}

\* However often the power fails, no stack-deploy command stops the unit that is
\* receiving traffic.
TrafficNeverStopped ==
  [][\A c \in Colors :
       OnlyPower /\ sock = c /\ unit[c] # Stopped /\ sock' = c => unit'[c] # Stopped]_vars

\* However often the power fails: with the lock free and no intent left,
\* app.sock is on the recorded color.
TrafficOnActive ==
  OnlyPower /\ lock = NoProc /\ pending = NoColor => sock \in {NoColor, active}

\* next_generation's comment says a drain never kills a color that should not
\* be killed: the color app.sock points at is not drained.  It does not hold:
\* between the flip and the active-color write that color is not yet recorded.
DrainSparesTraffic ==
  [][\A p \in Procs :
       pc[p] = "drainstop" /\ pc'[p] = "unmark" => sock # job[p].color]_vars

\* resolve_pending_color says it falls back to active-color when the pending
\* color is unhealthy: with a release recorded, no intent left and the lock
\* free, traffic goes to the recorded color.  It does not hold: app.sock stays
\* on the color that was just stopped.
FallbackReturnsToActive ==
  lock = NoProc /\ pending = NoColor /\ active # NoColor
    => sock \in {NoColor, active}

\* When only health checks fail, whatever a rollback would activate has passed
\* one: a deploy whose candidate was unhealthy leaves no trace of it in a link.
RollbackTargetProven ==
  faults = {} /\ lock = NoProc => \A c \in Colors : link[c] \in proven \cup {NoVersion}

-----------------------------------------------------------------------------
(* Liveness. *)

\* The deploy lock is always given back: no command waits for ever.
LockReleased == \A p \in Procs : lock = p ~> lock # p

PowerStays == <>[][~PowerLoss]_vars

Holding(cmds) == \E p \in Procs : lock = p /\ job[p].cmd \in cmds

\* Somebody who calls resolve_pending_color is at work, or will be.
SettlerComing == bootDue \/ Holding({"deploy", "rollback", "boot"})

\* Unpack and prune take deploy.lock too, but do not resolve: a boot unit that
\* finds one of them at work gives up, and leaves the swap to the next deploy,
\* rollback or boot.
BootBeaten == bootDue /\ Holding({"unpack", "prune"})

\* A swap cut short by power losses is finished or discarded once the power
\* stays on: by the boot unit, unless an unpack or a prune got to the lock
\* before it, and by every deploy and rollback.
SwapSettles ==
  OnlyPower /\ PowerStays =>
    (pending # NoColor /\ SettlerComing ~> pending = NoColor \/ BootBeaten)

=============================================================================
