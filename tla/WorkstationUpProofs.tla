------------------------ MODULE WorkstationUpProofs ------------------------
(***************************************************************************)
(* Proofs about what `up` does, for any terminals and scenarios: that the  *)
(* environment files it leaves are the wanted ones and are in use, that it *)
(* takes nothing away at the providers, and the types of the workstation.  *)
(***************************************************************************)
EXTENDS WorkstationProofs, FiniteSetTheorems, SequenceTheorems

-----------------------------------------------------------------------------
(* What the definitions of NodeEnv say                                     *)

LEMMA StepsAre == Steps = {"logs", "alert", "rebuild", "app", "backup", "mesh"}
  BY DEF Steps, StepOrder

\* The first step is one of the steps, and none of the others comes before it.
LEMMA FirstIs ==
  ASSUME NEW steps \in SUBSET Steps, steps # {}
  PROVE  /\ First(steps) \in steps
         /\ \A other \in steps : StepOrder[First(steps)] <= StepOrder[other]
  <1>1. \E step \in steps : \A other \in steps : StepOrder[step] <= StepOrder[other]
    <2>1. CASE "logs" \in steps
      BY <2>1, StepsAre DEF StepOrder
    <2>2. CASE "logs" \notin steps /\ "alert" \in steps
      BY <2>2, StepsAre DEF StepOrder
    <2>3. CASE {"logs", "alert"} \cap steps = {} /\ "rebuild" \in steps
      BY <2>3, StepsAre DEF StepOrder
    <2>4. CASE {"logs", "alert", "rebuild"} \cap steps = {} /\ "app" \in steps
      BY <2>4, StepsAre DEF StepOrder
    <2>5. CASE {"logs", "alert", "rebuild", "app"} \cap steps = {} /\ "backup" \in steps
      BY <2>5, StepsAre DEF StepOrder
    <2>6. CASE {"logs", "alert", "rebuild", "app", "backup"} \cap steps = {}
      <3>1. steps = {"mesh"}
        BY <2>6, StepsAre
      <3>2. QED
        BY <3>1 DEF StepOrder
    <2>7. QED
      BY <2>1, <2>2, <2>3, <2>4, <2>5, <2>6
  <1>2. QED
    BY <1>1 DEF First

LEMMA NothingIsContents == 0 \in Contents
  BY NodeEnvAssumption DEF Contents

LEMMA FactsAre ==
  ASSUME NodeEnvTypeOK
  PROVE  LocalFacts \in [EnvFiles -> Contents]
  <1>1. \A f \in EnvFiles : secret[f] \in Contents
    BY DEF NodeEnvTypeOK
  <1>2. /\ secret["app"] \in Contents /\ StorageEnvLines \in Contents /\ LogsEnvContent \in Contents
        /\ AlertEnvContent \in Contents /\ BackupEnvContent \in Contents
    BY <1>1, NothingIsContents
       DEF EnvFiles, StorageEnvLines, LogsEnvContent, AlertEnvContent, BackupEnvContent
  <1>3. QED
    BY <1>2 DEF LocalFacts, EnvFiles

LEMMA NoFilesTyped == NoFiles \in [EnvFiles -> Contents]
  BY NothingIsContents DEF NoFiles

-----------------------------------------------------------------------------
(* The types of NodeEnv                                                    *)

\* What is left to do, what was decrypted and what was read, of one process.
EnvProcessTyped(t) ==
  /\ todo \in [Terminals -> SUBSET Steps]
  /\ copy \in [Terminals -> [EnvFiles -> Contents]]
  /\ chosen \in [Terminals -> Colors \cup {"none"}]

LEMMA NextStepTyped ==
  ASSUME NodeEnvTypeOK, NEW t \in Terminals, NextStep(t) \/ Stop(t)
  PROVE  EnvProcessTyped(t)'
  <1>1. CASE NextStep(t)
    <2>1. todo' \in [Terminals -> SUBSET Steps] /\ chosen' \in [Terminals -> Colors \cup {"none"}]
      BY <1>1 DEF NextStep, NodeEnvTypeOK
    <2>2. copy' \in [Terminals -> [EnvFiles -> Contents]]
      BY <1>1, NoFilesTyped DEF NextStep, NodeEnvTypeOK
    <2>3. QED
      BY <2>1, <2>2 DEF EnvProcessTyped
  <1>2. CASE Stop(t)
    <2>1. todo' \in [Terminals -> SUBSET Steps] /\ chosen' \in [Terminals -> Colors \cup {"none"}]
      BY <1>2 DEF Stop, NodeEnvTypeOK
    <2>2. copy' \in [Terminals -> [EnvFiles -> Contents]]
      BY <1>2, NoFilesTyped DEF Stop, NodeEnvTypeOK
    <2>3. QED
      BY <2>1, <2>2 DEF EnvProcessTyped
  <1>3. QED
    BY <1>1, <1>2

LEMMA EnvStepTyped ==
  ASSUME NodeEnvTypeOK, NEW t \in Terminals, EnvStep(t) \/ EnvFails(t)
  PROVE  NodeEnvTypeOK'
  <1>1. CASE PlanEnv(t)
    <2>1. /\ todo' \in [Terminals -> SUBSET Steps]
          /\ copy' \in [Terminals -> [EnvFiles -> Contents]]
      BY <1>1, FactsAre DEF PlanEnv, Plan, NodeEnvTypeOK
    <2>2. QED
      BY <1>1, <2>1 DEF PlanEnv, NodeEnvTypeOK
  <1>2. CASE EnsureAppEnv(t) \/ EnsureBackupEnv(t) \/ EnsureLogsEnv(t) \/ EnsureAlertEnv(t)
    <2>1. PICK parts : /\ disk' = [f \in EnvFiles |-> IF f \in parts THEN copy[t][f] ELSE disk[f]]
                       /\ UNCHANGED <<secret, tables, recorded, daemon, failed, color, started,
                                      deploying, built, joined, todo, copy, chosen>>
      BY <1>2 DEF EnsureAppEnv, EnsureBackupEnv, EnsureLogsEnv, EnsureAlertEnv, Push
    <2>2. copy[t] \in [EnvFiles -> Contents] /\ disk \in [EnvFiles -> Contents]
      BY DEF NodeEnvTypeOK
    <2>3. disk' \in [EnvFiles -> Contents]
      BY <2>1, <2>2
    <2>4. QED
      BY <2>1, <2>3 DEF NodeEnvTypeOK
  <1>3. CASE RestartVector(t) \/ RestartRelay(t)
    <2>1. disk["logs"] \in Contents /\ disk["alert"] \in Contents /\ daemon \in [Daemons -> Contents]
          /\ failed \subseteq Daemons
      BY DEF NodeEnvTypeOK, EnvFiles
    <2>2. daemon' \in [Daemons -> Contents] /\ failed' \subseteq Daemons
      BY <1>3, <2>1, NothingIsContents DEF RestartVector, RestartRelay, ComesUp, StaysDown, Daemons
    <2>3. EnvProcessTyped(t)'
      <3>1. UNCHANGED <<todo, copy, chosen>> \/ Stop(t)
        BY <1>3 DEF RestartVector, RestartRelay
      <3>2. QED
        BY <3>1, NextStepTyped DEF NodeEnvTypeOK, EnvProcessTyped
    <2>4. QED
      BY <1>3, <2>2, <2>3 DEF RestartVector, RestartRelay, NodeEnvTypeOK, EnvProcessTyped
  <1>4. CASE ReadColor(t) \/ RestartColor(t)
    <2>1. chosen' \in [Terminals -> Colors \cup {"none"}]
      BY <1>4 DEF ReadColor, RestartColor, NodeEnvTypeOK
    <2>2. started' \in [Colors -> [AppParts -> Contents]]
      <3>1. [f \in AppParts |-> disk[f]] \in [AppParts -> Contents]
        BY DEF NodeEnvTypeOK, AppParts, EnvFiles
      <3>2. QED
        BY <1>4, <3>1 DEF ReadColor, RestartColor, NodeEnvTypeOK
    <2>3. QED
      BY <1>4, <2>1, <2>2 DEF ReadColor, RestartColor, NodeEnvTypeOK
  <1>5. CASE Record(t)
    <2>1. PICK parts : recorded' = [f \in EnvFiles |-> IF f \in parts THEN copy[t][f] ELSE recorded[f]]
      BY <1>5 DEF Record
    <2>2. copy[t] \in [EnvFiles -> Contents] /\ recorded \in [EnvFiles -> Contents]
      BY DEF NodeEnvTypeOK
    <2>3. recorded' \in [EnvFiles -> Contents]
      BY <2>1, <2>2
    <2>4. EnvProcessTyped(t)'
      BY <1>5, NextStepTyped DEF Record
    <2>5. QED
      BY <1>5, <2>3, <2>4 DEF Record, NodeEnvTypeOK, EnvProcessTyped
  <1>6. CASE Rebuild(t)
    <2>1. daemon \in [Daemons -> Contents] /\ disk \in [EnvFiles -> Contents]
          /\ failed \subseteq Daemons /\ Daemons \subseteq EnvFiles
      BY DEF NodeEnvTypeOK, Daemons, EnvFiles
    <2>2. PICK on \in SUBSET Daemons, missing \in SUBSET Daemons, kept \in SUBSET Daemons :
            /\ daemon' = [f \in Daemons |-> IF f \notin on THEN 0
                                            ELSE IF f \in kept THEN daemon[f] ELSE disk[f]]
            /\ failed' = (failed \cap kept) \cup missing
      <3>1. PICK kept \in SUBSET {f \in {g \in Daemons : copy[t][g] # 0} : daemon[f] # 0 \/ f \in failed} :
              /\ daemon' = [f \in Daemons |-> IF f \notin {g \in Daemons : copy[t][g] # 0} THEN 0
                                              ELSE IF f \in kept THEN daemon[f] ELSE disk[f]]
              /\ failed' = (failed \cap kept) \cup {f \in {g \in Daemons : copy[t][g] # 0} : disk[f] = 0}
        BY <1>6 DEF Rebuild
      <3>2. QED
        BY <3>1
    <2>3. daemon' \in [Daemons -> Contents] /\ failed' \subseteq Daemons
      BY <2>1, <2>2, NothingIsContents
    <2>4. EnvProcessTyped(t)' /\ built' \in BOOLEAN
      <3>1. built \in BOOLEAN
        BY DEF NodeEnvTypeOK
      <3>2. (built' = TRUE /\ NextStep(t)) \/ (built' = built /\ Stop(t))
        BY <1>6 DEF Rebuild
      <3>3. QED
        BY <3>1, <3>2, NextStepTyped
    <2>5. QED
      BY <1>6, <2>3, <2>4 DEF Rebuild, NodeEnvTypeOK, EnvProcessTyped
  <1>7. CASE EnsureMesh(t)
    BY <1>7, NextStepTyped DEF EnsureMesh, NodeEnvTypeOK, EnvProcessTyped
  <1>8. CASE EnvFails(t)
    BY <1>8, NextStepTyped DEF EnvFails, NodeEnvTypeOK, EnvProcessTyped
  <1>9. QED
    BY <1>1, <1>2, <1>3, <1>4, <1>5, <1>6, <1>7, <1>8 DEF EnvStep

LEMMA NodeEnvTyped ==
  ASSUME NodeEnvTypeOK, NodeEnvNext
  PROVE  NodeEnvTypeOK'
  <1>1. ASSUME NEW f \in EnvFiles, NEW v \in Contents, ChangeSecret(f, v)
        PROVE  NodeEnvTypeOK'
    BY <1>1 DEF ChangeSecret, NodeEnvTypeOK
  <1>2. ASSUME NEW f \in Tables, ChangeTable(f)
        PROVE  NodeEnvTypeOK'
    <2>1. tables' \subseteq Tables
      BY <1>2 DEF ChangeTable, NodeEnvTypeOK
    <2>2. built' \in BOOLEAN
      BY <1>2 DEF ChangeTable
    <2>3. QED
      BY <1>2, <2>1, <2>2 DEF ChangeTable, NodeEnvTypeOK
  <1>3. CASE StartIdleColor \/ FlipColor
    <2>1. /\ [f \in AppParts |-> disk[f]] \in [AppParts -> Contents]
          /\ NotStarted \in [AppParts -> Contents]
      BY NothingIsContents DEF NodeEnvTypeOK, AppParts, EnvFiles, NotStarted
    <2>2. started' \in [Colors -> [AppParts -> Contents]]
      BY <1>3, <2>1 DEF StartIdleColor, FlipColor, NodeEnvTypeOK
    <2>3. color' \in Colors \cup {"none"} /\ deploying' \in BOOLEAN
      BY <1>3 DEF StartIdleColor, FlipColor, OtherColor, Colors, NodeEnvTypeOK
    <2>4. QED
      BY <1>3, <2>2, <2>3 DEF StartIdleColor, FlipColor, NodeEnvTypeOK
  <1>4. QED
    BY <1>1, <1>2, <1>3, EnvStepTyped DEF NodeEnvNext

LEMMA InitEnvTyped ==
  ASSUME NodeEnvInit
  PROVE  NodeEnvTypeOK
  <1>1. 0 \in Contents /\ 1 \in Contents
    BY NodeEnvAssumption DEF Contents
  <1>2. {secret, recorded, disk} \subseteq [EnvFiles -> Contents]
    BY <1>1 DEF NodeEnvInit, NoFiles
  <1>3. QED
    BY <1>1, <1>2 DEF NodeEnvInit, NodeEnvTypeOK, NoFiles, NotStarted

-----------------------------------------------------------------------------
(* What the other commands leave to an `up` that is at work                *)

UpPlaces == {"push", "color", "restart", "record", "ask", "write"}

Runs(t, c) == run[t].command = c

\* A step of one terminal keeps the other processes where they are, and begins
\* no command of one kind where there was none.
LEMMA StaysOut ==
  ASSUME Processes, NEW t \in Terminals, NEW c, c # "none",
         \/ ~Runs(t, c) /\ \E step : Go(t, step)
         \/ Return(t)
         \/ \E other, step : other # c /\ Enter(t, other, step)
  PROVE  \A u \in Terminals : run'[u] = run[u] \/ ~Runs(u, c)'
  <1>1. \A u \in Terminals \ {t} : run'[u] = run[u]
    BY DEF Processes, Go, Return, Enter
  <1>2. CASE ~Runs(t, c) /\ \E step : Go(t, step)
    BY <1>1, <1>2, GoIs DEF Runs
  <1>3. CASE Return(t)
    BY <1>1, <1>3, ReturnIs DEF Runs
  <1>4. CASE \E other, step : other # c /\ Enter(t, other, step)
    <2>1. PICK other, step : other # c /\ Enter(t, other, step)
      BY <1>4
    <2>2. run'[t].command = other
      BY <2>1 DEF Enter, Processes
    <2>3. QED
      BY <1>1, <2>1, <2>2 DEF Runs
  <1>5. QED
    BY <1>2, <1>3, <1>4

\* The commands that work on secrets go on from places where `up` never is when
\* it is at work on environment files or providers.
LEMMA SecretsLeaveUp ==
  ASSUME Processes, SecretsNext, NEW c \in {"up-env", "up-providers"},
         \A t \in Terminals : Runs(t, c) => run[t].at \in UpPlaces
  PROVE  \A u \in Terminals : run'[u] = run[u] \/ ~Runs(u, c)'
  <1>1. ASSUME NEW t \in Terminals, SecretsStep(t)
        PROVE  \A u \in Terminals : run'[u] = run[u] \/ ~Runs(u, c)'
    <2>1. CASE SetKey(t) \/ UnsetKey(t) \/ EditKey(t) \/ DeployKeyInit(t) \/ CiSetup(t) \/ Up(t)
      <3>1. \E other, step : other # c /\ Enter(t, other, step)
        BY <2>1 DEF SetKey, UnsetKey, EditKey, DeployKeyInit, CiSetup, Up, DeployKeyCommands
      <3>2. QED
        BY <3>1, StaysOut
    <2>2. CASE EditorCloses(t) \/ Keygen(t) \/ ReplaceBundle(t) \/ ReplaceDeployKey(t)
               \/ PublishKey(t) \/ ReadKey(t) \/ SendKey(t)
      <3>1. ~Runs(t, c)
        BY <2>2 DEF Runs, EditorCloses, Keygen, ReplaceBundle, ReplaceDeployKey, PublishKey, ReadKey,
           SendKey, At, DeployKeyCommands
      <3>2. Return(t) \/ \E step : Go(t, step)
        BY <2>2 DEF EditorCloses, Keygen, ReplaceBundle, ReplaceDeployKey, PublishKey, ReadKey,
           SendKey, LeaveRam, End
      <3>3. QED
        BY <3>1, <3>2, StaysOut
    <2>3. CASE EnsureOriginCert(t) \/ StageKey(t) \/ StageCert(t) \/ MoveKey(t) \/ MoveCert(t)
               \/ NothingToMove(t)
      <3>1. ~Runs(t, c)
        BY <2>3 DEF Runs, EnsureOriginCert, StageKey, StageCert, MoveKey, MoveCert, NothingToMove, At
      <3>2. Return(t) \/ \E step : Go(t, step)
        BY <2>3 DEF EnsureOriginCert, StageKey, StageCert, Stage, MoveKey, MoveCert, NothingToMove, End
      <3>3. QED
        BY <3>1, <3>2, StaysOut
    <2>4. CASE Encrypt(t)
      <3>1. ~Runs(t, c)
        BY <2>4 DEF Encrypt, UpPlaces
      <3>2. Go(t, "replace")
        BY <2>4 DEF Encrypt
      <3>3. QED
        BY <3>1, <3>2, StaysOut
    <2>5. CASE SecretsFail(t)
      <3>1. Return(t) \/ (Go(t, "wipe") /\ ~Runs(t, c))
        BY <2>5 DEF SecretsFail, LeaveRam, End, Runs, UpPlaces, DeployKeyCommands
      <3>2. QED
        BY <3>1, StaysOut
    <2>6. CASE SecretsKilled(t)
      BY <2>6, StaysOut DEF SecretsKilled, Killed
    <2>7. CASE RamStep(t)
      <3>1. ~Runs(t, c)
        BY <2>7, RamStepMoves DEF RamCommands, Runs
      <3>2. Return(t) \/ \E step : Go(t, step)
        BY <2>7 DEF RamStep, OpenDirectory, AttachDisk, NoRamToBeHad, Format, FormatFails, Wipe,
           Detach, Onward
      <3>3. QED
        BY <3>1, <3>2, StaysOut
    <2>8. QED
      BY <1>1, <2>1, <2>2, <2>3, <2>4, <2>5, <2>6, <2>7 DEF SecretsStep
  <1>2. ASSUME NEW f \in Files, EditRecipients(f)
        PROVE  \A u \in Terminals : run'[u] = run[u] \/ ~Runs(u, c)'
    BY <1>2 DEF EditRecipients
  <1>3. QED
    BY <1>1, <1>2 DEF SecretsNext

\* So do a step of each other module of Workstation.
LEMMA OthersLeaveUp ==
  ASSUME Processes, NEW c \in {"up-env", "up-providers"},
         \A t \in Terminals : Runs(t, c) => run[t].at \in UpPlaces,
         \/ SecretsNext /\ OnSecrets
         \/ ReleaseBuildNext /\ OnRelease
         \/ NodeEnvNext /\ OnNodeEnv /\ c = "up-providers"
         \/ ProvidersNext /\ OnProviders /\ c = "up-env"
         \/ CalmDown \/ UNCHANGED vars
  PROVE  /\ scenario' = scenario
         /\ c = "up-env" => UNCHANGED nodeEnvVars
         /\ c = "up-providers" => UNCHANGED providersVars
         /\ \A u \in Terminals : run'[u] = run[u] \/ ~Runs(u, c)'
  <1>1. /\ scenario' = scenario
        /\ c = "up-env" => UNCHANGED nodeEnvVars
        /\ c = "up-providers" => UNCHANGED providersVars
    BY DEF OnSecrets, OnRelease, OnNodeEnv, OnProviders, CalmDown, vars, commandVars
  <1>2. ASSUME NEW other \in {"deploy", "up-env", "up-providers"} \ {c},
               run' = run \/ \E t \in Terminals : Moves(t, {other})
        PROVE  \A u \in Terminals : run'[u] = run[u] \/ ~Runs(u, c)'
    BY <1>2 DEF Moves, Runs
  <1>3. CASE CalmDown \/ UNCHANGED vars
    BY <1>3 DEF CalmDown, vars, commandVars
  <1>4. QED
    BY <1>1, <1>2, <1>3, SecretsLeaveUp, ReleaseBuildMoves, EnvMoves, ProvidersMoves

Upping(t) == Runs(t, "up-env")
EnvPlaces == {"push", "color", "restart", "record"}

-----------------------------------------------------------------------------
(* A rebuild finds the files of what it starts                             *)

Pushed == {"logs", "alert", "app", "backup"}    \* the steps that push a file
PartsOf(step) == IF step = "app" THEN AppParts ELSE {step}
Now(t) == First(todo[t])

\* An `up` at work has the present secrets, since nobody changes them meanwhile.
\* It pushes only files that have contents; what its step pushed is on the
\* node; and a file of a daemon that was never recorded is still to be pushed.
Along(t) ==
  /\ run[t].at \in EnvPlaces
  /\ copy[t] = LocalFacts /\ Complete
  /\ todo[t] # {}
  /\ run[t].at # "push" => Now(t) \in Pushed /\ \A f \in PartsOf(Now(t)) : disk[f] = LocalFacts[f]
  /\ \A step \in todo[t] \cap Pushed : LocalFacts[step] # 0
  /\ \A f \in Daemons : LocalFacts[f] # 0 /\ recorded[f] = 0 => f \in todo[t]

\* A daemon's file that is recorded is there.
Fed == \A f \in Daemons : recorded[f] # 0 => disk[f] # 0

UpInv ==
  /\ Processes /\ NodeEnvTypeOK
  /\ Fed
  /\ \A t \in Terminals : Upping(t) => Along(t)

LEMMA PartsAre ==
  /\ Pushed \subseteq Steps /\ Daemons \subseteq Pushed
  /\ \A step \in Pushed : PartsOf(step) \subseteq EnvFiles /\ step \in EnvFiles /\ step \in PartsOf(step)
  /\ \A f \in Daemons : PartsOf(f) = {f}
  /\ \A step \in Pushed, f \in Daemons : f \in PartsOf(step) => step = f
  BY StepsAre DEF Pushed, Daemons, PartsOf, AppParts, EnvFiles

LEMMA SameFacts ==
  ASSUME UNCHANGED <<secret, tables>>
  PROVE  LocalFacts' = LocalFacts /\ Complete' = Complete
  BY DEF LocalFacts, StorageEnvLines, LogsEnvContent, AlertEnvContent, BackupEnvContent,
     Complete, CheckStorage, CheckLogsCredentials, CheckAlertCredentials

\* Who is at work notices of the others only that they push the same files and
\* record more digests.
LEMMA AlongKept ==
  ASSUME NEW t \in Terminals, Along(t),
         run'[t] = run[t], todo'[t] = todo[t], copy'[t] = copy[t], UNCHANGED <<secret, tables>>,
         \A f \in EnvFiles : disk'[f] \in {disk[f], LocalFacts[f]},
         \A f \in Daemons : recorded[f] # 0 => recorded'[f] # 0
  PROVE  Along(t)'
  <1>1. LocalFacts' = LocalFacts /\ Complete' = Complete
    BY SameFacts
  <1>2. Now(t)' = Now(t)
    BY DEF Now
  <1>3. ASSUME run[t].at # "push", NEW f \in PartsOf(Now(t))
        PROVE  disk'[f] = LocalFacts[f]
    BY <1>3, PartsAre DEF Along
  <1>4. QED
    BY <1>1, <1>2, <1>3 DEF Along

\* What a step of one `up` leaves to the others.
LEMMA EnvFrame ==
  ASSUME Processes, NodeEnvTypeOK, NEW t \in Terminals, EnvStep(t) \/ EnvFails(t)
  PROVE  /\ UNCHANGED <<secret, tables>>
         /\ \A u \in Terminals \ {t} : /\ run'[u] = run[u] /\ todo'[u] = todo[u]
                                       /\ copy'[u] = copy[u] /\ chosen'[u] = chosen[u]
  <1> USE DEF Processes, NodeEnvTypeOK
  <1>1. CASE PlanEnv(t)
    BY <1>1 DEF PlanEnv, Enter
  <1>2. CASE EnsureAppEnv(t) \/ EnsureBackupEnv(t) \/ EnsureLogsEnv(t) \/ EnsureAlertEnv(t)
    BY <1>2 DEF EnsureAppEnv, EnsureBackupEnv, EnsureLogsEnv, EnsureAlertEnv, Push, Go
  <1>3. CASE RestartVector(t) \/ RestartRelay(t) \/ ReadColor(t) \/ RestartColor(t)
    BY <1>3 DEF RestartVector, RestartRelay, ReadColor, RestartColor, Stop, Return, Go
  <1>4. CASE Record(t) \/ Rebuild(t) \/ EnsureMesh(t) \/ EnvFails(t)
    <2>1. (NextStep(t) \/ Stop(t)) /\ UNCHANGED <<secret, tables>>
      BY <1>4 DEF Record, Rebuild, EnsureMesh, EnvFails
    <2>2. QED
      BY <2>1 DEF NextStep, Stop, Return, Go
  <1>5. QED
    BY <1>1, <1>2, <1>3, <1>4 DEF EnvStep

LEMMA StopIs ==
  ASSUME Processes, NEW t \in Terminals, Stop(t)
  PROVE  ~Upping(t)'
  BY DEF Processes, Stop, Return, Idle, Upping, Runs

\* The next step is one of those that were left, or there is none and the
\* command ends.
LEMMA NextStepIs ==
  ASSUME Processes, NodeEnvTypeOK, NEW t \in Terminals, NextStep(t), Upping(t)'
  PROVE  /\ run'[t].at = "push" /\ copy'[t] = copy[t]
         /\ todo'[t] = todo[t] \ {Now(t)} /\ todo'[t] # {}
  <1>1. todo'[t] = todo[t] \ {Now(t)}
    BY DEF NextStep, NodeEnvTypeOK, Now
  <1>2. CASE todo'[t] = {}
    BY <1>2, ReturnIs DEF NextStep, Upping, Runs
  <1>3. CASE todo'[t] # {}
    BY <1>1, <1>3, GoIs DEF NextStep
  <1>4. QED
    BY <1>2, <1>3

LEMMA PlanIsAlong ==
  ASSUME UpInv, NEW t \in Terminals, PlanEnv(t)
  PROVE  Along(t)'
  <1>1. run'[t].at = "push" /\ copy'[t] = LocalFacts /\ todo'[t] = Plan(LocalFacts)
    BY DEF PlanEnv, Enter, UpInv, Processes, NodeEnvTypeOK
  <1>2. LocalFacts' = LocalFacts /\ Complete' = Complete
    BY SameFacts DEF PlanEnv
  <1>3. ASSUME NEW step \in Plan(LocalFacts) \cap Pushed
        PROVE  LocalFacts[step] # 0
    <2>1. Needed(LocalFacts, step)
      BY DEF Plan
    <2>2. CASE step = "app"
      BY <2>1, <2>2 DEF Needed, NeedsAppEnv, PlanEnv, Complete, CheckStorage, LocalFacts, StorageEnvLines
    <2>3. CASE step # "app"
      BY <2>1, <2>3 DEF Needed, NeedsFile, Pushed
    <2>4. QED
      BY <2>2, <2>3
  <1>4. ASSUME NEW f \in Daemons, LocalFacts[f] # 0, recorded[f] = 0
        PROVE  f \in Plan(LocalFacts)
    BY <1>4, StepsAre DEF Daemons, Plan, Needed, NeedsFile
  <1>5. recorded' = recorded /\ Plan(LocalFacts) # {} /\ Complete
    BY DEF PlanEnv
  <1>6. QED
    BY <1>1, <1>2, <1>3, <1>4, <1>5 DEF Along, EnvPlaces

\* A push brings the node the present contents of its files.
LEMMA PushIs ==
  ASSUME UpInv, NEW t \in Terminals,
         EnsureAppEnv(t) \/ EnsureBackupEnv(t) \/ EnsureLogsEnv(t) \/ EnsureAlertEnv(t)
  PROVE  /\ Upping(t) /\ run[t].at = "push" /\ Now(t) \in Pushed /\ Now(t) \in todo[t]
         /\ run'[t].at \in {"color", "restart", "record"}
         /\ Now(t) \in Daemons => run'[t].at = "restart"
         /\ Now(t) = "app" => run'[t].at = "color"
         /\ disk' = [f \in EnvFiles |-> IF f \in PartsOf(Now(t)) THEN LocalFacts[f] ELSE disk[f]]
         /\ UNCHANGED <<secret, tables, recorded, daemon, failed, color, started, deploying, built,
                        joined, todo, copy, chosen>>
  <1>1. PICK step \in Pushed, next \in {"color", "restart", "record"} :
          /\ Push(t, step, PartsOf(step), next)
          /\ step \in Daemons => next = "restart"
          /\ step = "app" => next = "color"
    BY DEF EnsureAppEnv, EnsureBackupEnv, EnsureLogsEnv, EnsureAlertEnv, Pushed, PartsOf, Daemons
  <1>2. Upping(t) /\ run[t].at = "push" /\ Now(t) = step /\ todo[t] # {}
    BY <1>1 DEF Push, Doing, At, Upping, Runs, Now
  <1>3. copy[t] = LocalFacts /\ Now(t) \in todo[t]
    BY <1>2, FirstIs DEF UpInv, Along, NodeEnvTypeOK, Now
  <1>4. run'[t].at = next
    BY <1>1, GoIs DEF Push, UpInv
  <1>5. QED
    BY <1>1, <1>2, <1>3, <1>4 DEF Push

\* Where the steps of `up` are taken, and what they change.
LEMMA DoingIs ==
  ASSUME UpInv, NEW t \in Terminals, NEW steps, NEW at, Doing(t, steps, at)
  PROVE  /\ Upping(t) /\ Along(t) /\ run[t].at = at
         /\ Now(t) \in steps /\ Now(t) \in todo[t] /\ Now(t) \in Steps
         /\ \A other \in todo[t] : StepOrder[Now(t)] <= StepOrder[other]
  BY FirstIs DEF UpInv, NodeEnvTypeOK, Doing, At, Upping, Runs, Now

\* What was pushed is recorded.
LEMMA RecordIs ==
  ASSUME UpInv, NEW t \in Terminals, Record(t)
  PROVE  /\ Upping(t) /\ Along(t) /\ run[t].at = "record" /\ Now(t) \in Pushed /\ Now(t) \in todo[t]
         /\ recorded' = [f \in EnvFiles |-> IF f \in PartsOf(Now(t)) THEN LocalFacts[f] ELSE recorded[f]]
         /\ LocalFacts[Now(t)] # 0 /\ \A f \in PartsOf(Now(t)) : disk[f] = LocalFacts[f]
         /\ NextStep(t)
         /\ UNCHANGED <<secret, tables, disk, daemon, failed, color, started, deploying, built, joined>>
  <1>1. /\ Upping(t) /\ Along(t) /\ run[t].at = "record" /\ Now(t) \in Pushed /\ Now(t) \in todo[t]
    BY DoingIs DEF Record, Pushed
  <1>2. /\ LocalFacts[Now(t)] # 0 /\ \A f \in PartsOf(Now(t)) : disk[f] = LocalFacts[f]
        /\ copy[t] = LocalFacts
    BY <1>1 DEF Along
  <1>3. PICK parts : /\ parts = IF Now(t) # "app" THEN {Now(t)}
                                 ELSE {"storage"} \cup {f \in {"app"} : copy[t][f] # 0}
                     /\ recorded' = [f \in EnvFiles |-> IF f \in parts THEN copy[t][f] ELSE recorded[f]]
    BY DEF Record, Now
  <1>4. parts = PartsOf(Now(t))
    <2>1. CASE Now(t) = "app"
      BY <1>2, <1>3, <2>1 DEF PartsOf, AppParts
    <2>2. CASE Now(t) # "app"
      BY <1>3, <2>2 DEF PartsOf
    <2>3. QED
      BY <2>1, <2>2
  <1>5. QED
    BY <1>1, <1>2, <1>3, <1>4 DEF Record

\* A run that goes on with its next step.
LEMMA AlongNext ==
  ASSUME UpInv, NEW t \in Terminals, Along(t), NextStep(t), Upping(t)',
         UNCHANGED <<secret, tables>>,
         \A f \in Daemons : recorded[f] # 0 \/ f = Now(t) => recorded'[f] # 0 \/ LocalFacts[f] = 0
  PROVE  Along(t)'
  <1>1. /\ run'[t].at = "push" /\ copy'[t] = copy[t]
        /\ todo'[t] = todo[t] \ {Now(t)} /\ todo'[t] # {}
    BY NextStepIs DEF UpInv
  <1>2. LocalFacts' = LocalFacts /\ Complete' = Complete
    BY SameFacts
  <1>3. QED
    BY <1>1, <1>2 DEF Along, EnvPlaces

LEMMA EnvStepKeepsUp ==
  ASSUME UpInv, NEW t \in Terminals, EnvStep(t) \/ EnvFails(t), Processes'
  PROVE  UpInv'
  <1>1. NodeEnvTypeOK'
    BY EnvStepTyped DEF UpInv
  <1>2. /\ UNCHANGED <<secret, tables>>
        /\ \A u \in Terminals \ {t} : run'[u] = run[u] /\ todo'[u] = todo[u] /\ copy'[u] = copy[u]
    BY EnvFrame DEF UpInv
  <1>3. ASSUME \A f \in EnvFiles : disk'[f] \in {disk[f], LocalFacts[f]},
               \A f \in Daemons : recorded[f] # 0 => recorded'[f] # 0,
               Fed', Upping(t)' => Along(t)'
        PROVE  UpInv'
    <2>1. ASSUME NEW u \in Terminals, Upping(u)'
          PROVE  Along(u)'
      BY <1>2, <1>3, <2>1, AlongKept DEF UpInv, Upping, Runs
    <2>2. QED
      BY <1>1, <1>3, <2>1 DEF UpInv
  <1>4. CASE PlanEnv(t)
    <2>1. UNCHANGED <<disk, recorded>>
      BY <1>4 DEF PlanEnv
    <2>2. QED
      BY <1>3, <1>4, <2>1, PlanIsAlong DEF UpInv, Fed
  <1>5. CASE EnsureAppEnv(t) \/ EnsureBackupEnv(t) \/ EnsureLogsEnv(t) \/ EnsureAlertEnv(t)
    <2>1. /\ Upping(t) /\ Now(t) \in Pushed /\ Now(t) \in todo[t]
          /\ run'[t].at \in {"color", "restart", "record"}
          /\ disk' = [f \in EnvFiles |-> IF f \in PartsOf(Now(t)) THEN LocalFacts[f] ELSE disk[f]]
          /\ UNCHANGED <<secret, tables, recorded, todo, copy>>
      BY <1>5, PushIs
    <2>2. \A f \in EnvFiles : disk'[f] \in {disk[f], LocalFacts[f]}
      BY <2>1
    <2>3. Along(t) /\ LocalFacts[Now(t)] # 0
      BY <2>1 DEF UpInv, Along
    <2>4. Fed'
      <3>1. ASSUME NEW f \in Daemons, recorded[f] # 0
            PROVE  disk'[f] # 0
        BY <2>1, <2>3, <3>1, PartsAre DEF UpInv, Fed
      <3>2. QED
        BY <2>1, <3>1 DEF Fed
    <2>5. Along(t)'
      <3>1. LocalFacts' = LocalFacts /\ Complete' = Complete /\ Now(t)' = Now(t)
        BY <2>1, SameFacts DEF Now
      <3>2. \A f \in PartsOf(Now(t)) : disk'[f] = LocalFacts[f]
        BY <2>1, PartsAre
      <3>3. QED
        BY <2>1, <2>3, <3>1, <3>2 DEF Along, EnvPlaces
    <2>6. QED
      BY <1>3, <2>1, <2>2, <2>4, <2>5
  <1>6. CASE RestartVector(t) \/ RestartRelay(t) \/ ReadColor(t) \/ RestartColor(t)
    <2>1. UNCHANGED <<disk, recorded>> /\ Upping(t) /\ Along(t)
      BY <1>6, DoingIs DEF RestartVector, RestartRelay, ReadColor, RestartColor
    <2>2. CASE \E step \in EnvPlaces \ {"push"} : Go(t, step) /\ UNCHANGED <<todo, copy>> /\ run[t].at # "push"
      <3>1. LocalFacts' = LocalFacts /\ Complete' = Complete /\ Now(t)' = Now(t)
        BY <1>2, <2>2, SameFacts DEF Now
      <3>2. run'[t].at \in EnvPlaces
        BY <2>2, GoIs DEF UpInv
      <3>3. Along(t)'
        BY <2>1, <2>2, <3>1, <3>2 DEF Along
      <3>4. QED
        BY <1>3, <2>1, <3>3 DEF UpInv, Fed
    <2>3. CASE Stop(t)
      BY <1>3, <2>1, <2>3, StopIs DEF UpInv, Fed
    <2>4. (\E step \in EnvPlaces \ {"push"} : Go(t, step) /\ UNCHANGED <<todo, copy>> /\ run[t].at # "push") \/ Stop(t)
      BY <1>6 DEF RestartVector, RestartRelay, ReadColor, RestartColor, Doing, At, EnvPlaces
    <2>5. QED
      BY <2>2, <2>3, <2>4
  <1>7. CASE Record(t)
    <2>1. /\ Along(t) /\ Now(t) \in Pushed /\ LocalFacts[Now(t)] # 0 /\ NextStep(t)
          /\ recorded' = [f \in EnvFiles |-> IF f \in PartsOf(Now(t)) THEN LocalFacts[f] ELSE recorded[f]]
          /\ \A f \in PartsOf(Now(t)) : disk[f] = LocalFacts[f]
          /\ disk' = disk
      BY <1>7, RecordIs
    <2>2. \A f \in Daemons : recorded'[f] = IF f = Now(t) THEN LocalFacts[f] ELSE recorded[f]
      BY <2>1, PartsAre
    <2>3. Fed'
      BY <2>1, <2>2, PartsAre DEF UpInv, Fed
    <2>4. Upping(t)' => Along(t)'
      BY <1>2, <2>1, <2>2, AlongNext
    <2>5. QED
      BY <1>3, <2>1, <2>2, <2>3, <2>4
  <1>8. CASE Rebuild(t) \/ EnsureMesh(t)
    <2>1. UNCHANGED <<disk, recorded>> /\ Along(t) /\ Now(t) \notin Daemons
      BY <1>8, DoingIs DEF Rebuild, EnsureMesh, Daemons
    <2>2. NextStep(t) \/ Stop(t)
      BY <1>8 DEF Rebuild, EnsureMesh
    <2>3. Upping(t)' => Along(t)'
      BY <1>2, <2>1, <2>2, StopIs, AlongNext DEF UpInv
    <2>4. QED
      BY <1>3, <2>1, <2>3 DEF UpInv, Fed
  <1>9. CASE EnvFails(t)
    BY <1>3, <1>9, StopIs DEF EnvFails, UpInv, Fed
  <1>10. QED
    BY <1>4, <1>5, <1>6, <1>7, <1>8, <1>9 DEF EnvStep

LEMMA EnvKeepsUp ==
  ASSUME UpInv, NodeEnvNext, Processes'
  PROVE  UpInv'
  <1>1. NodeEnvTypeOK'
    BY NodeEnvTyped DEF UpInv
  <1>2. ASSUME NoneRuns, UNCHANGED <<run, recorded, disk>>
        PROVE  UpInv'
    BY <1>1, <1>2 DEF UpInv, Fed, NoneRuns, Prompt, Idle, Upping, Runs
  <1>3. CASE StartIdleColor \/ FlipColor
    <2>1. UNCHANGED <<run, secret, tables, recorded, disk, todo, copy>>
      BY <1>3 DEF StartIdleColor, FlipColor
    <2>2. \A t \in Terminals : Upping(t)' => Along(t)'
      BY <2>1, AlongKept DEF UpInv, Upping, Runs
    <2>3. QED
      BY <1>1, <2>1, <2>2 DEF UpInv, Fed
  <1>4. QED
    BY <1>2, <1>3, EnvStepKeepsUp DEF NodeEnvNext, ChangeSecret, ChangeTable

LEMMA NextKeepsUp ==
  ASSUME UpInv, [Next]_vars, Processes'
  PROVE  UpInv'
  <1>1. CASE NodeEnvNext /\ OnNodeEnv
    BY <1>1, EnvKeepsUp
  <1>2. CASE ~(NodeEnvNext /\ OnNodeEnv)
    <2>1. \A t \in Terminals : Upping(t) => run[t].at \in EnvPlaces
      BY DEF UpInv, Along
    <2>2. /\ UNCHANGED nodeEnvVars
          /\ \A u \in Terminals : run'[u] = run[u] \/ ~Upping(u)'
      <3>1. \/ SecretsNext /\ OnSecrets
            \/ ReleaseBuildNext /\ OnRelease
            \/ ProvidersNext /\ OnProviders
            \/ CalmDown \/ UNCHANGED vars
        BY <1>2 DEF Next
      <3>2. Processes /\ \A t \in Terminals : Runs(t, "up-env") => run[t].at \in UpPlaces
        BY <2>1 DEF UpInv, Upping, Runs, EnvPlaces, UpPlaces
      <3>3. QED
        BY <3>1, <3>2, OthersLeaveUp DEF Upping, Runs
    <2>3. UNCHANGED <<secret, tables, recorded, disk, daemon, failed, color, started, deploying, built,
                      joined, todo, copy, chosen>>
      BY <2>2 DEF nodeEnvVars
    <2>4. NodeEnvTypeOK' /\ Fed'
      BY <2>3 DEF UpInv, NodeEnvTypeOK, Fed
    <2>5. ASSUME NEW t \in Terminals, Upping(t)'
          PROVE  Along(t)'
      BY <2>2, <2>3, <2>5, AlongKept DEF UpInv, Upping, Runs
    <2>6. QED
      BY <2>4, <2>5 DEF UpInv
  <1>3. QED
    BY <1>1, <1>2

LEMMA InitUp ==
  ASSUME Init
  PROVE  UpInv
  <1>1. Processes
    BY InitWhole DEF BundleInv
  <1>2. recorded = NoFiles /\ \A t \in Terminals : ~Upping(t)
    BY DEF Init, NodeEnvInit, CommandsInit, Idle, Upping, Runs
  <1>3. QED
    BY <1>1, <1>2, InitEnvTyped DEF Init, UpInv, Fed, NoFiles, Daemons, EnvFiles

-----------------------------------------------------------------------------
(* What `up` leaves is in use                                              *)

\* A daemon does not run with an old file, and the relay did not fail.
HasRead(f) == daemon[f] \in {0, disk[f]} /\ (f = "alert" => f \notin failed)

AppIsServed == color # "none" => \A f \in AppParts : started[color][f] = disk[f]

\* A run that nobody disturbs: each push it has left has something to record;
\* what it is about to record has been read; and it restarts the active color.
Alone(t) ==
  /\ \A step \in todo[t] \cap Pushed : \E f \in PartsOf(step) : recorded[f] # LocalFacts[f]
  /\ run[t].at = "record" /\ Now(t) \in Daemons => HasRead(Now(t))
  /\ Free({"flip"}) /\ Now(t) = "app" =>
       /\ run[t].at = "record" => AppIsServed
       /\ run[t].at = "restart" => chosen[t] = color /\ color # "none"

\* A file that is as recorded has been read.
RecordedIsRead == \A f \in Daemons : disk[f] = recorded[f] /\ disk[f] # 0 => HasRead(f)

\* The configuration starts the daemons that have a table, and no other.
BuiltRuns == built =>
  \A f \in Daemons : IF f \in tables THEN daemon[f] # 0 \/ f \in failed ELSE daemon[f] = 0

\* What needs no push is on the node.
WantedIsThere == \A f \in EnvFiles : recorded[f] = LocalFacts[f] => disk[f] = recorded[f]

RecordedIsServed == (\A f \in AppParts : disk[f] = recorded[f]) => AppIsServed

\* A release that is on its way started with the present app.env.
ReleaseServes == deploying =>
  /\ \A t \in Terminals : ~Upping(t)
  /\ \A f \in AppParts : started[OtherColor][f] = disk[f]

UpAlone ==
  /\ \A t \in Terminals : Upping(t) => Alone(t)
  /\ RecordedIsRead /\ BuiltRuns
  /\ Free({"revert"}) => WantedIsThere
  /\ Free({"flip"}) => RecordedIsServed /\ ReleaseServes

LEMMA OthersArePrompt ==
  ASSUME Processes, ~Overlapping, NEW t \in Terminals, t \in scenario.terminals
  PROVE  \A u \in Terminals \ {t} : Prompt(u) /\ ~Upping(u)
  BY DEF Processes, Overlapping, Prompt, Idle, Upping, Runs

\* Steps by which one `up` at work changes nothing but what it has to do.
LEMMA AloneStays ==
  ASSUME UpAlone, NEW t \in Terminals, \A u \in Terminals \ {t} : ~Upping(u)',
         UNCHANGED <<scenario, secret, tables, recorded, disk, daemon, failed, color, started,
                     deploying, built>>,
         Upping(t)' => Alone(t)', Free({"flip"}) /\ deploying => ~Upping(t)'
  PROVE  UpAlone'
  <1>1. LocalFacts' = LocalFacts
    BY SameFacts
  <1>2. Free({"flip"})' = Free({"flip"}) /\ Free({"revert"})' = Free({"revert"})
    BY DEF Free
  <1>3. RecordedIsRead' /\ BuiltRuns' /\ (Free({"revert"}) => WantedIsThere)'
    BY <1>1, <1>2 DEF UpAlone, RecordedIsRead, HasRead, BuiltRuns, WantedIsThere
  <1>4. (Free({"flip"}) => RecordedIsServed /\ ReleaseServes)'
    BY <1>2 DEF UpAlone, RecordedIsServed, AppIsServed, ReleaseServes, OtherColor
  <1>5. QED
    BY <1>3, <1>4 DEF UpAlone

LEMMA PlanKeepsAlone ==
  ASSUME UpInv, UpAlone, NEW t \in Terminals, PlanEnv(t), scenario' = scenario,
         \A u \in Terminals \ {t} : ~Upping(u)'
  PROVE  UpAlone'
  <1>1. run'[t].at = "push" /\ todo'[t] = Plan(LocalFacts) /\ recorded' = recorded
    BY DEF PlanEnv, Enter, UpInv, Processes, NodeEnvTypeOK
  <1>2. LocalFacts' = LocalFacts
    BY SameFacts DEF PlanEnv
  <1>3. ASSUME NEW step \in Plan(LocalFacts) \cap Pushed
        PROVE  \E f \in PartsOf(step) : recorded[f] # LocalFacts[f]
    <2>1. Needed(LocalFacts, step)
      BY DEF Plan
    <2>2. CASE step = "app"
      BY <2>1, <2>2 DEF Needed, NeedsAppEnv, PartsOf, AppParts
    <2>3. CASE step # "app"
      BY <2>1, <2>3 DEF Needed, NeedsFile, Pushed, PartsOf
    <2>4. QED
      BY <2>2, <2>3
  <1>4. Alone(t)'
    BY <1>1, <1>2, <1>3 DEF Alone
  <1>5. Free({"flip"}) => ~deploying
    BY DEF PlanEnv, Free, Given
  <1>6. QED
    BY <1>4, <1>5, AloneStays DEF PlanEnv

LEMMA PushKeepsAlone ==
  ASSUME UpInv, UpAlone, NEW t \in Terminals, scenario' = scenario,
         EnsureAppEnv(t) \/ EnsureBackupEnv(t) \/ EnsureLogsEnv(t) \/ EnsureAlertEnv(t),
         \A u \in Terminals \ {t} : ~Upping(u)'
  PROVE  UpAlone'
  <1>1. /\ Upping(t) /\ run[t].at = "push" /\ Now(t) \in Pushed /\ Now(t) \in todo[t]
        /\ Now(t) \in Daemons => run'[t].at = "restart"
        /\ Now(t) = "app" => run'[t].at = "color"
        /\ disk' = [f \in EnvFiles |-> IF f \in PartsOf(Now(t)) THEN LocalFacts[f] ELSE disk[f]]
        /\ UNCHANGED <<secret, tables, recorded, daemon, failed, color, started, deploying, built,
                       joined, todo, copy, chosen>>
    BY PushIs
  <1>2. LocalFacts' = LocalFacts /\ Now(t)' = Now(t)
    BY <1>1, SameFacts DEF Now
  <1>3. Free({"flip"})' = Free({"flip"}) /\ Free({"revert"})' = Free({"revert"})
    BY DEF Free
  <1>4. PICK f \in PartsOf(Now(t)) : recorded[f] # LocalFacts[f]
    BY <1>1 DEF UpAlone, Alone
  <1>5. Alone(t)'
    BY <1>1, <1>2 DEF UpAlone, Alone
  <1>6. RecordedIsRead'
    <2>1. ASSUME NEW g \in Daemons, disk'[g] = recorded[g], disk'[g] # 0
          PROVE  HasRead(g)'
      <3>1. g # Now(t)
        BY <1>1, <1>4, <2>1, PartsAre
      <3>2. disk'[g] = disk[g]
        BY <1>1, <3>1, PartsAre
      <3>3. QED
        BY <1>1, <2>1, <3>2 DEF UpAlone, RecordedIsRead, HasRead
    <2>2. QED
      BY <1>1, <2>1 DEF RecordedIsRead
  <1>7. BuiltRuns'
    BY <1>1 DEF UpAlone, BuiltRuns
  <1>8. Free({"revert"}) => WantedIsThere'
    BY <1>1, <1>2 DEF UpAlone, WantedIsThere
  <1>9. Free({"flip"}) => RecordedIsServed'
    <2>1. CASE Now(t) = "app"
      BY <1>1, <1>4, <2>1 DEF RecordedIsServed, PartsOf, AppParts, EnvFiles
    <2>2. CASE Now(t) # "app"
      <3>1. \A g \in AppParts : disk'[g] = disk[g]
        BY <1>1, <2>2 DEF PartsOf, AppParts, EnvFiles, Pushed
      <3>2. QED
        BY <1>1, <3>1 DEF UpAlone, RecordedIsServed, AppIsServed
    <2>3. QED
      BY <2>1, <2>2
  <1>10. Free({"flip"}) => ~deploying
    BY <1>1 DEF UpAlone, ReleaseServes
  <1>11. QED
    BY <1>1, <1>3, <1>5, <1>6, <1>7, <1>8, <1>9, <1>10 DEF UpAlone, ReleaseServes

\* A restart of a daemon's unit, after its file was pushed.
LEMMA RestartKeepsAlone ==
  ASSUME UpInv, UpAlone, NEW t \in Terminals, scenario' = scenario,
         RestartVector(t) \/ RestartRelay(t), \A u \in Terminals \ {t} : ~Upping(u)'
  PROVE  UpAlone'
  <1>1. PICK f \in Daemons : /\ Doing(t, {f}, "restart")
                             /\ (f = "logs" /\ RestartVector(t)) \/ (f = "alert" /\ RestartRelay(t))
    BY DEF RestartVector, RestartRelay, Daemons
  <1>2. /\ Upping(t) /\ run[t].at = "restart" /\ Now(t) = f /\ f \in todo[t]
        /\ disk[f] = LocalFacts[f] /\ LocalFacts[f] # 0 /\ recorded[f] # LocalFacts[f]
    <2>1. Upping(t) /\ Along(t) /\ run[t].at = "restart" /\ Now(t) = f /\ f \in todo[t]
      BY <1>1, DoingIs
    <2>2. Alone(t) /\ f \in Pushed /\ PartsOf(f) = {f}
      BY <2>1, PartsAre DEF UpAlone
    <2>3. QED
      BY <2>1, <2>2 DEF Along, Alone
  <1>3. UNCHANGED <<secret, tables, recorded, disk, color, started, deploying, built, joined>>
    BY DEF RestartVector, RestartRelay
  <1>4. LocalFacts' = LocalFacts /\ Free({"flip"})' = Free({"flip"}) /\ Free({"revert"})' = Free({"revert"})
    BY <1>3, SameFacts DEF Free
  <1>5. \A g \in Daemons \ {f} : daemon'[g] = daemon[g] /\ (g \in failed' <=> g \in failed)
    BY <1>1 DEF RestartVector, RestartRelay, ComesUp, StaysDown, UpInv, NodeEnvTypeOK, Daemons
  <1>6. BuiltRuns'
    <2>1. ASSUME built, f \in tables
          PROVE  daemon'[f] # 0 \/ f \in failed'
      BY <1>1, <1>2, <2>1 DEF RestartVector, RestartRelay, ComesUp, StaysDown, UpInv, NodeEnvTypeOK,
         UpAlone, BuiltRuns
    <2>2. f \in tables
      BY <1>2 DEF LocalFacts, LogsEnvContent, AlertEnvContent, Daemons
    <2>3. QED
      BY <1>3, <1>5, <2>1, <2>2 DEF UpAlone, BuiltRuns
  <1>7. RecordedIsRead'
    BY <1>2, <1>3, <1>5 DEF UpAlone, RecordedIsRead, HasRead
  <1>8. Alone(t)' \/ ~Upping(t)'
    <2>1. CASE Stop(t)
      BY <2>1, StopIs DEF UpInv
    <2>2. CASE Go(t, "record") /\ UNCHANGED <<todo, copy, chosen>>
      <3>1. run'[t].at = "record" /\ Now(t)' = f
        BY <1>2, <2>2, GoIs DEF UpInv, Now
      <3>2. ~Stop(t)
        BY <1>2, <2>2, <3>1, StopIs, GoIs DEF UpInv, Upping, Runs
      <3>3. HasRead(f)'
        BY <1>1, <1>2, <1>3, <3>2 DEF RestartVector, RestartRelay, ComesUp, StaysDown, UpInv,
           NodeEnvTypeOK, HasRead
      <3>4. f # "app"
        BY DEF Daemons
      <3>5. QED
        BY <1>2, <1>3, <1>4, <2>2, <3>1, <3>3, <3>4 DEF UpAlone, Alone
    <2>3. QED
      BY <2>1, <2>2 DEF RestartVector, RestartRelay
  <1>9. Free({"flip"}) => ~deploying
    BY <1>2 DEF UpAlone, ReleaseServes
  <1>10. (Free({"revert"}) => WantedIsThere)' /\ (Free({"flip"}) => RecordedIsServed)'
    BY <1>3, <1>4 DEF UpAlone, WantedIsThere, RecordedIsServed, AppIsServed
  <1>11. QED
    BY <1>3, <1>4, <1>6, <1>7, <1>8, <1>9, <1>10 DEF UpAlone, ReleaseServes

\* The active color is read and restarted with the app.env that was pushed.
LEMMA ColorKeepsAlone ==
  ASSUME UpInv, UpAlone, NEW t \in Terminals, scenario' = scenario,
         ReadColor(t) \/ RestartColor(t), \A u \in Terminals \ {t} : ~Upping(u)'
  PROVE  UpAlone'
  <1>1. /\ Upping(t) /\ Now(t) = "app" /\ (ReadColor(t) \/ run[t].at = "restart")
    BY DoingIs DEF ReadColor, RestartColor
  <1>2. UNCHANGED <<secret, tables, recorded, disk, daemon, failed, color, deploying, built, joined, todo, copy>>
    BY DEF ReadColor, RestartColor
  <1>3. /\ LocalFacts' = LocalFacts /\ Now(t)' = Now(t)
        /\ Free({"flip"})' = Free({"flip"}) /\ Free({"revert"})' = Free({"revert"})
    BY <1>2, SameFacts DEF Free, Now
  <1>4. Free({"flip"}) => ~deploying
    BY <1>1 DEF UpAlone, ReleaseServes
  <1>5. CASE ReadColor(t)
    <2>1. run'[t].at = (IF color = "none" THEN "record" ELSE "restart") /\ chosen'[t] = color
      BY <1>5, GoIs DEF ReadColor, UpInv, NodeEnvTypeOK
    <2>2. Alone(t)'
      BY <1>1, <1>2, <1>3, <2>1 DEF UpAlone, Alone, AppIsServed, Daemons
    <2>3. started' = started
      BY <1>5 DEF ReadColor
    <2>4. QED
      BY <1>2, <1>4, <2>2, <2>3, AloneStays
  <1>6. CASE RestartColor(t)
    <2>1. run'[t].at = "record"
      BY <1>6, GoIs DEF RestartColor, UpInv
    <2>2. Free({"flip"}) => AppIsServed'
      <3>1. ASSUME Free({"flip"})
            PROVE  started' = [started EXCEPT ![color] = [f \in AppParts |-> disk[f]]] /\ color \in Colors
        BY <1>1, <1>6, <3>1 DEF RestartColor, UpAlone, Alone, UpInv, NodeEnvTypeOK, Doing, At
      <3>2. DOMAIN started = Colors
        BY DEF UpInv, NodeEnvTypeOK
      <3>3. QED
        BY <1>2, <3>1, <3>2 DEF AppIsServed
    <2>3. Alone(t)'
      BY <1>1, <1>2, <1>3, <2>1, <2>2 DEF UpAlone, Alone, Daemons
    <2>4. RecordedIsRead' /\ BuiltRuns' /\ (Free({"revert"}) => WantedIsThere)'
      BY <1>2, <1>3 DEF UpAlone, RecordedIsRead, HasRead, BuiltRuns, WantedIsThere
    <2>5. (Free({"flip"}) => RecordedIsServed /\ ReleaseServes)'
      BY <1>2, <1>3, <1>4, <2>2 DEF RecordedIsServed, ReleaseServes
    <2>6. QED
      BY <2>3, <2>4, <2>5 DEF UpAlone
  <1>7. QED
    BY <1>5, <1>6

\* The next step has as much to record as before, unless it was recorded now.
LEMMA AloneNext ==
  ASSUME UpInv, UpAlone, NEW t \in Terminals, Upping(t), NextStep(t), Upping(t)',
         UNCHANGED <<secret, tables>>,
         \A step \in todo[t] \cap Pushed : step # Now(t) =>
           \A f \in PartsOf(step) : recorded'[f] = recorded[f]
  PROVE  Alone(t)'
  <1>1. run'[t].at = "push" /\ todo'[t] = todo[t] \ {Now(t)}
    BY NextStepIs DEF UpInv
  <1>2. LocalFacts' = LocalFacts
    BY SameFacts
  <1>3. QED
    BY <1>1, <1>2 DEF UpAlone, Alone

LEMMA RecordKeepsAlone ==
  ASSUME UpInv, UpAlone, NEW t \in Terminals, scenario' = scenario,
         Record(t), \A u \in Terminals \ {t} : ~Upping(u)'
  PROVE  UpAlone'
  <1>1. /\ Upping(t) /\ run[t].at = "record" /\ Now(t) \in Pushed /\ Now(t) \in todo[t]
        /\ recorded' = [f \in EnvFiles |-> IF f \in PartsOf(Now(t)) THEN LocalFacts[f] ELSE recorded[f]]
        /\ \A f \in PartsOf(Now(t)) : disk[f] = LocalFacts[f]
        /\ NextStep(t)
        /\ UNCHANGED <<secret, tables, disk, daemon, failed, color, started, deploying, built, joined>>
    BY RecordIs
  <1>2. LocalFacts' = LocalFacts /\ Free({"flip"})' = Free({"flip"}) /\ Free({"revert"})' = Free({"revert"})
    BY <1>1, SameFacts DEF Free
  <1>3. Upping(t)' => Alone(t)'
    <2>1. ASSUME NEW step \in todo[t] \cap Pushed, step # Now(t), NEW f \in PartsOf(step)
          PROVE  recorded'[f] = recorded[f]
      <3>1. f \in EnvFiles /\ f \notin PartsOf(Now(t))
        BY <1>1, <2>1 DEF Pushed, PartsOf, AppParts, EnvFiles
      <3>2. QED
        BY <1>1, <3>1
    <2>2. QED
      BY <1>1, <2>1, AloneNext
  <1>4. RecordedIsRead'
    <2>1. ASSUME NEW f \in Daemons, disk[f] = recorded'[f], disk[f] # 0
          PROVE  HasRead(f)
      <3>1. CASE f = Now(t)
        BY <1>1, <3>1 DEF UpAlone, Alone
      <3>2. CASE f # Now(t)
        <4>1. recorded'[f] = recorded[f]
          BY <1>1, <3>2, PartsAre
        <4>2. QED
          BY <2>1, <4>1 DEF UpAlone, RecordedIsRead
      <3>3. QED
        BY <3>1, <3>2
    <2>2. QED
      BY <1>1, <2>1 DEF RecordedIsRead, HasRead
  <1>5. BuiltRuns'
    BY <1>1 DEF UpAlone, BuiltRuns
  <1>6. Free({"revert"}) => WantedIsThere'
    BY <1>1, <1>2 DEF UpAlone, WantedIsThere
  <1>7. Free({"flip"}) => RecordedIsServed'
    <2>1. CASE Now(t) = "app"
      BY <1>1, <2>1 DEF UpAlone, Alone, RecordedIsServed, AppIsServed
    <2>2. CASE Now(t) # "app"
      <3>1. \A g \in AppParts : recorded'[g] = recorded[g]
        BY <1>1, <2>2 DEF PartsOf, AppParts, EnvFiles, Pushed
      <3>2. QED
        BY <1>1, <3>1 DEF UpAlone, RecordedIsServed, AppIsServed
    <2>3. QED
      BY <2>1, <2>2
  <1>8. Free({"flip"}) => ~deploying
    BY <1>1 DEF UpAlone, ReleaseServes
  <1>9. QED
    BY <1>1, <1>2, <1>3, <1>4, <1>5, <1>6, <1>7, <1>8 DEF UpAlone, ReleaseServes

\* The files of what a rebuild starts are there.
LEMMA RebuildFinds ==
  ASSUME UpInv, NEW t \in Terminals, Doing(t, {"rebuild"}, "push"), NEW f \in Daemons, copy[t][f] # 0
  PROVE  disk[f] # 0
  <1>1. /\ Along(t) /\ Now(t) = "rebuild"
        /\ \A other \in todo[t] : StepOrder[Now(t)] <= StepOrder[other]
    BY DoingIs
  <1>2. f \notin todo[t]
    BY <1>1 DEF StepOrder, Daemons
  <1>3. recorded[f] # 0
    BY <1>1, <1>2 DEF Along
  <1>4. QED
    BY <1>3 DEF UpInv, Fed

LEMMA RebuildKeepsAlone ==
  ASSUME UpInv, UpAlone, NEW t \in Terminals, scenario' = scenario,
         Rebuild(t), \A u \in Terminals \ {t} : ~Upping(u)'
  PROVE  UpAlone'
  <1> DEFINE on == {f \in Daemons : LocalFacts[f] # 0}
  <1>1. Upping(t) /\ Along(t) /\ Now(t) = "rebuild" /\ Doing(t, {"rebuild"}, "push") /\ copy[t] = LocalFacts
    BY DoingIs DEF Rebuild, Along
  <1>2. {f \in on : disk[f] = 0} = {}
    BY <1>1, RebuildFinds
  <1>3. PICK kept \in SUBSET {f \in on : daemon[f] # 0 \/ f \in failed} :
          /\ daemon' = [f \in Daemons |-> IF f \notin on THEN 0
                                          ELSE IF f \in kept THEN daemon[f] ELSE disk[f]]
          /\ failed' = failed \cap kept
    BY <1>1, <1>2 DEF Rebuild
  <1>4. built' = TRUE /\ NextStep(t)
    BY <1>1, <1>2 DEF Rebuild
  <1>5. UNCHANGED <<secret, tables, recorded, disk, color, started, deploying, joined>>
    BY DEF Rebuild
  <1>6. LocalFacts' = LocalFacts /\ Free({"flip"})' = Free({"flip"}) /\ Free({"revert"})' = Free({"revert"})
    BY <1>5, SameFacts DEF Free
  <1>7. \A f \in Daemons : f \in on <=> f \in tables
    BY <1>1 DEF Along, Complete, CheckLogsCredentials, CheckAlertCredentials, LocalFacts,
       LogsEnvContent, AlertEnvContent, Daemons
  <1>8. BuiltRuns'
    <2>1. ASSUME NEW f \in Daemons
          PROVE  IF f \in tables THEN daemon'[f] # 0 \/ f \in failed' ELSE daemon'[f] = 0
      BY <1>2, <1>3, <1>7
    <2>2. QED
      BY <1>5, <2>1 DEF BuiltRuns
  <1>9. RecordedIsRead'
    <2>1. ASSUME NEW f \in Daemons, disk[f] = recorded[f], disk[f] # 0
          PROVE  daemon'[f] \in {0, disk[f]} /\ (f = "alert" => f \notin failed')
      <3>1. HasRead(f)
        BY <2>1 DEF UpAlone, RecordedIsRead
      <3>2. QED
        BY <1>3, <3>1 DEF HasRead
    <2>2. QED
      BY <1>5, <2>1 DEF RecordedIsRead, HasRead
  <1>10. Upping(t)' => Alone(t)'
    BY <1>1, <1>4, <1>5, AloneNext
  <1>11. Free({"flip"}) => ~deploying
    BY <1>1 DEF UpAlone, ReleaseServes
  <1>12. (Free({"revert"}) => WantedIsThere)' /\ (Free({"flip"}) => RecordedIsServed)'
    BY <1>5, <1>6 DEF UpAlone, WantedIsThere, RecordedIsServed, AppIsServed
  <1>13. QED
    BY <1>5, <1>6, <1>8, <1>9, <1>10, <1>11, <1>12 DEF UpAlone, ReleaseServes

\* A terminal where a command is typed, or at work, is one of the scenario.
LEMMA EnvTerminal ==
  ASSUME Processes, NEW t \in Terminals, EnvStep(t) \/ EnvFails(t)
  PROVE  t \in scenario.terminals
  <1>1. PlanEnv(t) \/ Upping(t)
    BY DEF EnvStep, EnsureAppEnv, EnsureBackupEnv, EnsureLogsEnv, EnsureAlertEnv, Push, RestartVector,
       RestartRelay, ReadColor, RestartColor, Record, Rebuild, EnsureMesh, Doing, At, EnvFails, Upping, Runs
  <1>2. QED
    BY <1>1 DEF PlanEnv, Typed, Upping, Runs, Processes, Prompt, Idle

LEMMA EnvStepKeepsAlone ==
  ASSUME UpInv, UpAlone, ~Overlapping, NEW t \in Terminals, EnvStep(t) \/ EnvFails(t), scenario' = scenario
  PROVE  UpAlone'
  <1>1. \A u \in Terminals \ {t} : ~Upping(u)'
    BY EnvTerminal, OthersArePrompt, EnvFrame DEF UpInv, Upping, Runs
  <1>2. CASE EnsureMesh(t)
    <2>1. Upping(t) /\ NextStep(t)
      BY <1>2, DoingIs DEF EnsureMesh
    <2>2. UNCHANGED <<secret, tables, recorded, disk, daemon, failed, color, started, deploying, built>>
      BY <1>2 DEF EnsureMesh
    <2>3. Upping(t)' => Alone(t)'
      BY <2>1, <2>2, AloneNext
    <2>4. Free({"flip"}) => ~deploying
      BY <2>1 DEF UpAlone, ReleaseServes
    <2>5. QED
      BY <1>1, <2>2, <2>3, <2>4, AloneStays
  <1>3. CASE EnvFails(t)
    <2>1. ~Upping(t)'
      BY <1>3, StopIs DEF EnvFails, UpInv
    <2>2. QED
      BY <1>1, <1>3, <2>1, AloneStays DEF EnvFails
  <1>4. QED
    BY <1>1, <1>2, <1>3, PlanKeepsAlone, PushKeepsAlone, RestartKeepsAlone, ColorKeepsAlone,
       RecordKeepsAlone, RebuildKeepsAlone DEF EnvStep

\* The operator changes what is wanted, never back to what a failed run pushed.
LEMMA ChangeKeepsAlone ==
  ASSUME UpInv, UpAlone, scenario' = scenario,
         \/ \E f \in EnvFiles, v \in Contents : ChangeSecret(f, v)
         \/ \E f \in Tables : ChangeTable(f)
  PROVE  UpAlone'
  <1>1. /\ NoneRuns
        /\ UNCHANGED <<run, recorded, disk, daemon, failed, color, started, deploying, joined, todo, copy, chosen>>
    BY DEF ChangeSecret, ChangeTable
  <1>2. PICK f \in EnvFiles :
          /\ MayChange(f)
          /\ \A g \in EnvFiles \ {f} : secret'[g] = secret[g] /\ (g \in tables' <=> g \in tables)
          /\ built' => built /\ \A g \in Daemons : g \in tables' <=> g \in tables
    <2>1. ASSUME NEW f \in EnvFiles, NEW v \in Contents, ChangeSecret(f, v)
          PROVE  /\ MayChange(f)
                 /\ \A g \in EnvFiles \ {f} : secret'[g] = secret[g] /\ (g \in tables' <=> g \in tables)
                 /\ built' => built /\ \A g \in Daemons : g \in tables' <=> g \in tables
      BY <2>1 DEF ChangeSecret, UpInv, NodeEnvTypeOK
    <2>2. ASSUME NEW f \in Tables, ChangeTable(f)
          PROVE  /\ f \in EnvFiles /\ MayChange(f)
                 /\ \A g \in EnvFiles \ {f} : secret'[g] = secret[g] /\ (g \in tables' <=> g \in tables)
                 /\ built' => built /\ \A g \in Daemons : g \in tables' <=> g \in tables
      <3>1. f \in EnvFiles /\ MayChange(f) /\ secret' = secret
        BY <2>2 DEF ChangeTable, Tables, EnvFiles
      <3>2. tables' = IF f \in tables THEN tables \ {f} ELSE tables \cup {f}
        BY <2>2 DEF ChangeTable
      <3>3. built' => built /\ f \notin Daemons
        BY <2>2 DEF ChangeTable
      <3>4. QED
        BY <3>1, <3>2, <3>3
    <2>3. QED
      BY <2>1, <2>2
  <1>3. \A g \in EnvFiles \ {f} : LocalFacts'[g] = LocalFacts[g]
    BY <1>2 DEF LocalFacts, StorageEnvLines, LogsEnvContent, AlertEnvContent, BackupEnvContent, EnvFiles
  <1>4. Free({"flip"})' = Free({"flip"}) /\ Free({"revert"})' = Free({"revert"})
    BY DEF Free
  <1>5. Free({"revert"}) => WantedIsThere'
    <2>1. ASSUME Free({"revert"}), NEW g \in EnvFiles, recorded[g] = LocalFacts'[g]
          PROVE  disk[g] = recorded[g]
      <3>1. CASE LocalFacts'[g] = LocalFacts[g]
        BY <2>1, <3>1 DEF UpAlone, WantedIsThere
      <3>2. CASE LocalFacts'[g] # LocalFacts[g]
        BY <1>2, <1>3, <2>1, <3>2 DEF MayChange, Free, Given
      <3>3. QED
        BY <3>1, <3>2
    <2>2. QED
      BY <1>1, <2>1 DEF WantedIsThere
  <1>6. RecordedIsRead' /\ BuiltRuns'
    BY <1>1, <1>2 DEF UpAlone, RecordedIsRead, HasRead, BuiltRuns
  <1>7. \A t \in Terminals : ~Upping(t)'
    BY <1>1 DEF NoneRuns, Prompt, Idle, Upping, Runs
  <1>8. (Free({"flip"}) => RecordedIsServed /\ ReleaseServes)'
    BY <1>1, <1>4, <1>7 DEF UpAlone, RecordedIsServed, AppIsServed, ReleaseServes, OtherColor
  <1>9. QED
    BY <1>4, <1>5, <1>6, <1>7, <1>8 DEF UpAlone

\* A release comes between the runs, unless the scenario lets it come during one.
LEMMA ReleaseKeepsAlone ==
  ASSUME UpInv, UpAlone, scenario' = scenario, StartIdleColor \/ FlipColor
  PROVE  UpAlone'
  <1>1. UNCHANGED <<run, secret, tables, recorded, disk, daemon, failed, built, joined, todo, copy, chosen>>
    BY DEF StartIdleColor, FlipColor
  <1>2. /\ LocalFacts' = LocalFacts
        /\ Free({"flip"})' = Free({"flip"}) /\ Free({"revert"})' = Free({"revert"})
    BY <1>1, SameFacts DEF Free
  <1>3. RecordedIsRead' /\ BuiltRuns' /\ (Free({"revert"}) => WantedIsThere)'
    BY <1>1, <1>2 DEF UpAlone, RecordedIsRead, HasRead, BuiltRuns, WantedIsThere
  <1>4. Free({"flip"}) => RecordedIsServed' /\ ReleaseServes' /\ \A t \in Terminals : ~Upping(t)
    <2> SUFFICES ASSUME Free({"flip"})
                 PROVE  RecordedIsServed' /\ ReleaseServes' /\ \A t \in Terminals : ~Upping(t)
      OBVIOUS
    <2>1. DOMAIN started = Colors /\ color \in Colors \cup {"none"} /\ OtherColor \in Colors /\ OtherColor # color
      BY DEF UpInv, NodeEnvTypeOK, OtherColor, Colors
    <2>2. CASE StartIdleColor
      <3>1. NoneRuns
        BY <2>2 DEF StartIdleColor, Free, Given
      <3>2. \A t \in Terminals : ~Upping(t) /\ ~Upping(t)'
        BY <1>1, <3>1 DEF NoneRuns, Prompt, Idle, Upping, Runs
      <3>3. color' = color /\ started' = [started EXCEPT ![OtherColor] = [f \in AppParts |-> disk[f]]]
        BY <2>2 DEF StartIdleColor
      <3>4. AppIsServed => AppIsServed'
        BY <1>1, <2>1, <3>3 DEF AppIsServed
      <3>5. ReleaseServes'
        BY <1>1, <2>1, <3>2, <3>3 DEF ReleaseServes, OtherColor
      <3>6. QED
        BY <1>1, <3>2, <3>4, <3>5 DEF UpAlone, RecordedIsServed
    <2>3. CASE FlipColor
      <3>1. /\ \A t \in Terminals : ~Upping(t)
            /\ \A f \in AppParts : started[OtherColor][f] = disk[f]
        BY <2>3 DEF FlipColor, UpAlone, ReleaseServes
      <3>2. /\ color' = OtherColor /\ deploying' = FALSE
            /\ started' = [c \in Colors |-> IF c = OtherColor THEN started[c] ELSE NotStarted]
        BY <2>3 DEF FlipColor
      <3>3. AppIsServed'
        BY <1>1, <2>1, <3>1, <3>2 DEF AppIsServed
      <3>4. QED
        BY <3>1, <3>2, <3>3 DEF RecordedIsServed, ReleaseServes
    <2>4. QED
      BY <2>2, <2>3
  <1>5. ASSUME NEW t \in Terminals, Upping(t)'
        PROVE  Alone(t)'
    <2>1. Upping(t) /\ Now(t)' = Now(t) /\ ~Free({"flip"})
      BY <1>1, <1>4, <1>5 DEF Upping, Runs, Now
    <2>2. QED
      BY <1>1, <1>2, <2>1 DEF UpAlone, Alone, HasRead
  <1>6. QED
    BY <1>2, <1>3, <1>4, <1>5 DEF UpAlone

LEMMA NextKeepsAlone ==
  ASSUME UpInv, UpAlone, ~Overlapping, [Next]_vars
  PROVE  UpAlone'
  <1>1. CASE NodeEnvNext /\ OnNodeEnv
    <2>1. scenario' = scenario
      BY <1>1 DEF OnNodeEnv
    <2>2. QED
      BY <1>1, <2>1, EnvStepKeepsAlone, ChangeKeepsAlone, ReleaseKeepsAlone DEF NodeEnvNext
  <1>2. CASE ~(NodeEnvNext /\ OnNodeEnv)
    <2>1. /\ UNCHANGED <<scenario, nodeEnvVars>>
          /\ \A u \in Terminals : run'[u] = run[u] \/ ~Upping(u)'
      <3>1. \/ SecretsNext /\ OnSecrets
            \/ ReleaseBuildNext /\ OnRelease
            \/ ProvidersNext /\ OnProviders
            \/ CalmDown \/ UNCHANGED vars
        BY <1>2 DEF Next
      <3>2. Processes /\ \A t \in Terminals : Runs(t, "up-env") => run[t].at \in UpPlaces
        BY DEF UpInv, Along, Upping, Runs, EnvPlaces, UpPlaces
      <3>3. QED
        BY <3>1, <3>2, OthersLeaveUp DEF Upping, Runs
    <2>2. UNCHANGED <<scenario, secret, tables, recorded, disk, daemon, failed, color, started, deploying,
                      built, joined, todo, copy, chosen>>
      BY <2>1 DEF nodeEnvVars
    <2>3. LocalFacts' = LocalFacts /\ Free({"flip"})' = Free({"flip"}) /\ Free({"revert"})' = Free({"revert"})
      BY <2>2, SameFacts DEF Free
    <2>4. ASSUME NEW t \in Terminals, Upping(t)'
          PROVE  Alone(t)'
      <3>1. run'[t] = run[t] /\ Upping(t) /\ Now(t)' = Now(t)
        BY <2>1, <2>2, <2>4 DEF Upping, Runs, Now
      <3>2. QED
        BY <2>2, <2>3, <3>1 DEF UpAlone, Alone, HasRead, AppIsServed
    <2>5. RecordedIsRead' /\ BuiltRuns' /\ (Free({"revert"}) => WantedIsThere)'
      BY <2>2, <2>3 DEF UpAlone, RecordedIsRead, HasRead, BuiltRuns, WantedIsThere
    <2>6. \A t \in Terminals : ~Upping(t) => ~Upping(t)'
      BY <2>1 DEF Upping, Runs
    <2>7. (Free({"flip"}) => RecordedIsServed /\ ReleaseServes)'
      BY <2>2, <2>3, <2>6 DEF UpAlone, RecordedIsServed, AppIsServed, ReleaseServes, OtherColor
    <2>8. QED
      BY <2>4, <2>5, <2>7 DEF UpAlone
  <1>3. QED
    BY <1>1, <1>2

LEMMA InitAlone ==
  ASSUME Init
  PROVE  UpAlone
  <1>1. \A t \in Terminals : ~Upping(t)
    BY DEF Init, CommandsInit, Idle, Upping, Runs
  <1>2. RecordedIsRead /\ BuiltRuns
    BY DEF Init, NodeEnvInit, RecordedIsRead, BuiltRuns, NoFiles, Daemons, EnvFiles
  <1>3. WantedIsThere
    BY DEF Init, NodeEnvInit, WantedIsThere, NoFiles
  <1>4. RecordedIsServed /\ ReleaseServes
    BY DEF Init, NodeEnvInit, RecordedIsServed, AppIsServed, ReleaseServes
  <1>5. QED
    BY <1>1, <1>2, <1>3, <1>4 DEF UpAlone

\* Nothing left to do means that nothing is missing.
LEMMA NothingToDoIs ==
  ASSUME UpInv, UpAlone, NoneRuns, Complete, Plan(LocalFacts) = {}, Free({"revert"})
  PROVE  /\ \A f \in EnvFiles : LocalFacts[f] # 0 => recorded[f] = LocalFacts[f] /\ disk[f] = LocalFacts[f]
         /\ LocalFacts["app"] # 0 => \A f \in AppParts : disk[f] = LocalFacts[f] /\ recorded[f] = LocalFacts[f]
         /\ built
  <1>1. \A step \in Steps : ~Needed(LocalFacts, step)
    BY DEF Plan
  <1>2. /\ ~NeedsAppEnv(LocalFacts) /\ built
        /\ \A f \in {"logs", "alert", "backup"} : ~NeedsFile(LocalFacts, f)
    BY <1>1, StepsAre DEF Needed
  <1>3. \A f \in EnvFiles : recorded[f] = LocalFacts[f] => disk[f] = LocalFacts[f]
    BY DEF UpAlone, WantedIsThere
  <1>4. LocalFacts["storage"] # 0 => LocalFacts["app"] # 0
    BY DEF Complete, CheckStorage, LocalFacts, StorageEnvLines
  <1>5. \A f \in EnvFiles : LocalFacts[f] # 0 => recorded[f] = LocalFacts[f]
    BY <1>2, <1>4 DEF NeedsAppEnv, NeedsFile, EnvFiles
  <1>6. LocalFacts["app"] # 0 => \A f \in AppParts : recorded[f] = LocalFacts[f]
    BY <1>2, <1>5 DEF NeedsAppEnv, AppParts, EnvFiles
  <1>7. AppParts \subseteq EnvFiles
    BY DEF AppParts, EnvFiles
  <1>8. QED
    BY <1>2, <1>3, <1>5, <1>6, <1>7

LEMMA DaemonsAreRight ==
  ASSUME UpInv, UpAlone, NoneRuns, Complete, Plan(LocalFacts) = {}, Free({"revert"}), NEW f \in Daemons
  PROVE  f \notin failed \/ f = "alert" => daemon[f] = LocalFacts[f]
  <1>1. built /\ (LocalFacts[f] # 0 => recorded[f] = LocalFacts[f] /\ disk[f] = LocalFacts[f])
    BY NothingToDoIs DEF Daemons, EnvFiles
  <1>2. f \in tables <=> LocalFacts[f] # 0
    BY DEF Complete, CheckLogsCredentials, CheckAlertCredentials, LocalFacts, LogsEnvContent,
       AlertEnvContent, Daemons
  <1>3. CASE f \in tables
    BY <1>1, <1>2, <1>3 DEF UpAlone, RecordedIsRead, HasRead, BuiltRuns
  <1>4. CASE f \notin tables
    BY <1>1, <1>2, <1>4 DEF UpAlone, BuiltRuns
  <1>5. QED
    BY <1>3, <1>4

LEMMA UpServes ==
  ASSUME UpInv, ~Overlapping => UpAlone
  PROVE  QuietIsServed
  <1>1. ASSUME NoneRuns, Complete, Plan(LocalFacts) = {}, Free({"revert"}), ~Overlapping
        PROVE  /\ \A f \in EnvFiles : LocalFacts[f] # 0 => disk[f] = LocalFacts[f]
               /\ LocalFacts["app"] # 0 /\ LocalFacts["storage"] = 0 => disk["storage"] = 0
               /\ daemon["alert"] = LocalFacts["alert"]
               /\ "logs" \notin failed => daemon["logs"] = LocalFacts["logs"]
               /\ color # "none" /\ LocalFacts["app"] # 0 /\ Free({"flip"}) =>
                    \A f \in AppParts : started[color][f] = LocalFacts[f]
    <2>1. UpAlone
      BY <1>1
    <2>2. /\ \A f \in EnvFiles : LocalFacts[f] # 0 => recorded[f] = LocalFacts[f] /\ disk[f] = LocalFacts[f]
          /\ LocalFacts["app"] # 0 => \A f \in AppParts : disk[f] = LocalFacts[f] /\ recorded[f] = LocalFacts[f]
      BY <1>1, <2>1, NothingToDoIs
    <2>3. daemon["alert"] = LocalFacts["alert"] /\ ("logs" \notin failed => daemon["logs"] = LocalFacts["logs"])
      BY <1>1, <2>1, DaemonsAreRight DEF Daemons
    <2>4. ASSUME color # "none", LocalFacts["app"] # 0, Free({"flip"}), NEW f \in AppParts
          PROVE  started[color][f] = LocalFacts[f]
      BY <2>1, <2>2, <2>4 DEF UpAlone, RecordedIsServed, AppIsServed
    <2>5. QED
      BY <2>2, <2>3, <2>4 DEF AppParts
  <1>2. QED
    BY <1>1, RebuildFinds DEF QuietIsServed

\* Whatever fails or is changed between two runs of `up`, a run that finds
\* nothing to do leaves a node with what the secrets ask for, and in use.
THEOREM UpServesWhatIsWanted == Spec => []QuietIsServed
  <1> DEFINE Inv == BundleInv /\ UpInv /\ (~Overlapping => UpAlone)
  <1>1. Init => Inv
    BY InitWhole, InitUp, InitAlone
  <1>2. Inv /\ [Next]_vars => Inv'
    <2> SUFFICES ASSUME Inv, [Next]_vars
                 PROVE  Inv'
      OBVIOUS
    <2>1. BundleInv' /\ UpInv'
      BY NextKeepsWhole, NextKeepsUp DEF BundleInv
    <2>2. scenario' = scenario
      BY DEF Next, OnSecrets, OnRelease, OnNodeEnv, OnProviders, CalmDown, vars, commandVars
    <2>3. ~Overlapping' => UpAlone'
      BY <2>2, NextKeepsAlone DEF Overlapping
    <2>4. QED
      BY <2>1, <2>3
  <1>3. Inv => QuietIsServed
    BY UpServes
  <1>4. QED
    BY <1>1, <1>2, <1>3, PTL DEF Spec

-----------------------------------------------------------------------------
(* The requests of a step                                                  *)

\* SetToSeq lists the elements of a finite set, and nothing else.
LEMMA SetToSeqIs ==
  ASSUME NEW S, IsFiniteSet(S)
  PROVE  /\ Cardinality(S) \in Nat
         /\ SetToSeq(S) \in [1..Cardinality(S) -> S]
         /\ \A x \in S : \E i \in 1..Cardinality(S) : SetToSeq(S)[i] = x
  <1> DEFINE n == Cardinality(S)
  <1>1. n \in Nat /\ \E f \in [1..n -> S] : IsInjective(f)
    BY FS_CardinalityType DEF ExistsBijection, Bijection, Injection
  <1>2. SetToSeq(S) \in Injection(1..n, S)
    BY <1>1 DEF SetToSeq, Injection
  <1>3. Cardinality(1..n) = n
    BY <1>1, FS_Interval
  <1>4. SetToSeq(S) \in Surjection(1..n, S)
    BY <1>2, <1>3, FS_Injection
  <1>5. QED
    BY <1>1, <1>2, <1>4 DEF Injection, Surjection

LEMMA PortsFinite == \A ports \in SUBSET Ports : IsFiniteSet(ports)
  <1>1. IsFiniteSet(Ports)
    <2>1. IsFiniteSet({"22"})
      BY FS_Singleton
    <2>2. IsFiniteSet({"22"} \cup {"443"})
      BY <2>1, FS_AddElement
    <2>3. IsFiniteSet(({"22"} \cup {"443"}) \cup {"other"})
      BY <2>2, FS_AddElement
    <2>4. Ports = ({"22"} \cup {"443"}) \cup {"other"}
      BY DEF Ports
    <2>5. QED
      BY <2>3, <2>4
  <1>2. QED
    BY <1>1, FS_Subset

FirewallRequests ==
  {Write("create", "wall"), Write("activate", "wall")}
    \cup {Write("add", p) : p \in Ports} \cup {Write("remove", p) : p \in Ports \ Desired}

Each(what, ports) == [i \in 1..Cardinality(ports) |-> Write(what, SetToSeq(ports)[i])]

\* One request of a kind for each port.
LEMMA EachIs ==
  ASSUME NEW what \in {"add", "remove"}, NEW ports \in SUBSET Ports,
         what = "remove" => ports \cap Desired = {}
  PROVE  /\ Each(what, ports) \in Seq(FirewallRequests)
         /\ \A i \in 1..Len(Each(what, ports)) : Each(what, ports)[i].what = what
         /\ \A p \in ports : \E i \in 1..Len(Each(what, ports)) : Each(what, ports)[i] = Write(what, p)
  <1> DEFINE n == Cardinality(ports)
             s == Each(what, ports)
  <1>1. /\ n \in Nat /\ SetToSeq(ports) \in [1..n -> ports]
        /\ \A p \in ports : \E i \in 1..n : SetToSeq(ports)[i] = p
    BY PortsFinite, SetToSeqIs
  <1>2. \A i \in 1..n : s[i] = Write(what, SetToSeq(ports)[i])
    BY DEF Each
  <1>3. \A p \in ports : Write(what, p) \in FirewallRequests /\ Write(what, p).what = what
    BY DEF FirewallRequests, Write
  <1>4. \A i \in 1..n : s[i] \in FirewallRequests /\ s[i].what = what
    BY <1>1, <1>2, <1>3
  <1>5. s \in [1..n -> FirewallRequests]
    BY <1>4 DEF Each
  <1>6. s \in Seq(FirewallRequests) /\ Len(s) = n
    BY <1>1, <1>5
  <1>7. QED
    BY <1>1, <1>2, <1>4, <1>6

\* What ensure_firewall will do: create a firewall if there is none, then add
\* and remove ports, and activate it last.
FirewallWork(t) ==
  LET writes == work[t].writes
  IN  /\ work[t].read \in {{}, {"created"}}
      /\ writes \in Seq(FirewallRequests) /\ writes # <<>>
      /\ writes[1].what = "create" \/ cloud.walls # <<>>
      /\ \A i \in 2..Len(writes) : writes[i].what # "create"
      /\ \A i \in 1..Len(writes) : writes[i].what = "activate" => i = Len(writes)

OtherRequests ==
  {Write("register", "key"), Write("post", "record"), Write("patch", "record")}
    \cup {Write("make", BucketOf(k)) : k \in Kinds}

OtherWork(t) ==
  /\ Step(t) \notin Kinds \cup {"firewall"}
  /\ \E w \in OtherRequests : work[t].writes = <<w>>

\* A rule is put among the rules that the step has read.
RuleWork(t) ==
  \E k \in Kinds : /\ Step(t) = k /\ work[t].writes = <<Write("put", k)>>
                    /\ work[t].read = work[t].there /\ work[t].read \subseteq ForeignRules

\* What a run has read and has to write, step by step.
Supplied(t) ==
  /\ run[t].at \in {"ask", "write"}
  /\ run[t].at = "ask" => work[t].read = {}
  /\ run[t].at = "write" => \/ RuleWork(t) \/ OtherWork(t)
                            \/ Step(t) = "firewall" /\ FirewallWork(t)

Supplying(t) == Runs(t, "up-providers")

Buckets == {BucketOf(k) : k \in Kinds}
Clouds == [keys : Nat, walls : Seq([Ports -> Nat]), active : Nat, made : SUBSET Buckets,
           own : [Kinds -> OwnRule], foreign : [Kinds -> SUBSET ForeignRules],
           records : Seq({"here", "elsewhere"})]
CloudFits(c) == c \in Clouds /\ c.active \in 0..Len(c.walls)

WorkTypes ==
  /\ DOMAIN work = Terminals
  /\ \A t \in Terminals : DOMAIN work[t] = DOMAIN Start /\ work[t].tries \in 1..MaxTries

ProvidersInv ==
  /\ Processes /\ CloudFits(cloud) /\ WorkTypes
  /\ known \in [{"key", "wall", "record"} -> Nat]
  /\ \A t \in Terminals : Supplying(t) => Supplied(t)

LEMMA StartIs ==
  /\ DOMAIN Start = {"todo", "writes", "tries", "read", "there", "created"}
  /\ Start.tries \in 1..MaxTries /\ Start.read = {}
  BY ProvidersAssumption DEF Start

\* The requests of each kind, and where they occur.
LEMMA WritingIs ==
  ASSUME ProvidersInv, NEW t \in Terminals, Working(t, "write")
  PROVE  LET w == Head(work[t].writes)
         IN  /\ Supplied(t)
             /\ \/ \E k \in Kinds : /\ w = Write("put", k) /\ Step(t) = k /\ Len(work[t].writes) = 1
                                   /\ work[t].read = work[t].there /\ work[t].read \subseteq ForeignRules
                \/ w \in FirewallRequests /\ Step(t) = "firewall" /\ FirewallWork(t)
                \/ w \in OtherRequests /\ Step(t) \notin Kinds \cup {"firewall"} /\ Len(work[t].writes) = 1
  <1>1. Supplied(t) /\ run[t].at = "write"
    BY DEF Working, At, ProvidersInv, Supplying, Runs
  <1>2. CASE RuleWork(t)
    <2>1. PICK k \in Kinds : /\ Step(t) = k /\ work[t].writes = <<Write("put", k)>>
                            /\ work[t].read = work[t].there /\ work[t].read \subseteq ForeignRules
      BY <1>2 DEF RuleWork
    <2>2. Head(work[t].writes) = Write("put", k) /\ Len(work[t].writes) = 1
      BY <2>1
    <2>3. QED
      BY <1>1, <2>1, <2>2
  <1>3. CASE Step(t) = "firewall" /\ FirewallWork(t)
    <2>1. Head(work[t].writes) \in FirewallRequests
      BY <1>3 DEF FirewallWork
    <2>2. QED
      BY <1>1, <1>3, <2>1
  <1>4. CASE OtherWork(t)
    <2>1. PICK w \in OtherRequests : work[t].writes = <<w>>
      BY <1>4 DEF OtherWork
    <2>2. Head(work[t].writes) = w /\ Len(work[t].writes) = 1
      BY <2>1
    <2>3. QED
      BY <1>1, <1>4, <2>1, <2>2 DEF OtherWork
  <1>5. QED
    BY <1>1, <1>2, <1>3, <1>4 DEF Supplied

LEMMA HeadIs ==
  ASSUME NEW t, FirewallWork(t)
  PROVE  /\ Head(work[t].writes) = work[t].writes[1] /\ Head(work[t].writes) \in FirewallRequests
         /\ Len(work[t].writes) \in Nat \ {0}
  <1>1. work[t].writes \in Seq(FirewallRequests) /\ work[t].writes # <<>>
    BY DEF FirewallWork
  <1>2. QED
    BY <1>1, HeadTailProperties, EmptySeq, LenProperties

\* The firewall a step works on is there, unless it is about to be created.
LEMMA WallIs ==
  ASSUME ProvidersInv, NEW t \in Terminals, FirewallWork(t), cloud.walls # <<>>
  PROVE  /\ Len(cloud.walls) \in Nat \ {0} /\ WallOf(t) \in 1..Len(cloud.walls)
         /\ cloud.walls[WallOf(t)] \in [Ports -> Nat]
  <1>1. cloud.walls \in Seq([Ports -> Nat])
    BY DEF ProvidersInv, CloudFits, Clouds
  <1>2. Len(cloud.walls) \in Nat \ {0}
    BY <1>1, EmptySeq, LenProperties
  <1>3. WallOf(t) \in 1..Len(cloud.walls)
    BY <1>2 DEF WallOf, Wall
  <1>4. QED
    BY <1>1, <1>2, <1>3, ElementOfSeq

\* What a request does, kind by kind, and what it leaves at the providers.
LEMMA CarriedIs ==
  ASSUME NEW t, NEW w
  PROVE  /\ w.what = "register" => Carried(t, w) = [cloud EXCEPT !.keys = cloud.keys + 1]
         /\ w.what = "create" => Carried(t, w) = [cloud EXCEPT !.walls = Append(cloud.walls, [p \in Ports |-> 0])]
         /\ w.what = "activate" => Carried(t, w) = [cloud EXCEPT !.active = WallOf(t)]
         /\ w.what = "make" => Carried(t, w) = [cloud EXCEPT !.made = cloud.made \cup {w.arg}]
         /\ w.what = "post" => Carried(t, w) = [cloud EXCEPT !.records = Append(cloud.records, "here")]
         /\ w.what = "patch" => Carried(t, w) = [cloud EXCEPT !.records = [cloud.records EXCEPT ![1] = "here"]]
  BY DEF Carried

LEMMA CarriedInto ==
  ASSUME NEW t, NEW w
  PROVE  /\ w.what = "add" => Carried(t, w) =
              [cloud EXCEPT !.walls = [cloud.walls EXCEPT ![WallOf(t)] =
                [cloud.walls[WallOf(t)] EXCEPT ![w.arg] = cloud.walls[WallOf(t)][w.arg] + 1]]]
         /\ w.what = "remove" => Carried(t, w) =
              [cloud EXCEPT !.walls = [cloud.walls EXCEPT ![WallOf(t)] =
                [cloud.walls[WallOf(t)] EXCEPT ![w.arg] = cloud.walls[WallOf(t)][w.arg] - 1]]]
         /\ w.what = "put" => Carried(t, w) =
              [cloud EXCEPT !.own = [cloud.own EXCEPT ![w.arg] = "as wanted"],
                            !.foreign = [cloud.foreign EXCEPT ![w.arg] = work[t].read]]
  BY DEF Carried

LEMMA WriteIs ==
  ASSUME NEW what, NEW arg
  PROVE  Write(what, arg).what = what /\ Write(what, arg).arg = arg
  BY DEF Write

LEMMA RefusalIs ==
  ASSUME NEW t, NEW w, Accepted(t, w)
  PROVE  /\ w.what = "remove" => cloud.walls[WallOf(t)][w.arg] # 0
         /\ w.what = "patch" => cloud.records # <<>>
  BY DEF Accepted

LEMMA CloudFields ==
  ASSUME CloudFits(cloud)
  PROVE  /\ \A n \in Nat : CloudFits([cloud EXCEPT !.keys = n])
         /\ \A s \in Seq([Ports -> Nat]) :
              Len(s) >= Len(cloud.walls) => CloudFits([cloud EXCEPT !.walls = s])
         /\ \A i \in 0..Len(cloud.walls) : CloudFits([cloud EXCEPT !.active = i])
         /\ \A made \in SUBSET Buckets : CloudFits([cloud EXCEPT !.made = made])
         /\ \A s \in Seq({"here", "elsewhere"}) : CloudFits([cloud EXCEPT !.records = s])
  <1>1. cloud \in Clouds /\ cloud.active \in 0..Len(cloud.walls) /\ Len(cloud.walls) \in Nat
    BY LenProperties DEF CloudFits, Clouds
  <1>2. ASSUME NEW n \in Nat PROVE CloudFits([cloud EXCEPT !.keys = n])
    BY <1>1 DEF CloudFits, Clouds
  <1>3. ASSUME NEW s \in Seq([Ports -> Nat]), Len(s) >= Len(cloud.walls)
        PROVE  CloudFits([cloud EXCEPT !.walls = s])
    <2>1. Len(s) \in Nat
      BY <1>3, LenProperties
    <2>2. [cloud EXCEPT !.walls = s] \in Clouds
      BY <1>1, <1>3 DEF Clouds
    <2>3. [cloud EXCEPT !.walls = s].walls = s /\ [cloud EXCEPT !.walls = s].active = cloud.active
      BY <1>1 DEF Clouds
    <2>4. QED
      BY <1>1, <1>3, <2>1, <2>2, <2>3 DEF CloudFits
  <1>4. ASSUME NEW i \in 0..Len(cloud.walls) PROVE CloudFits([cloud EXCEPT !.active = i])
    <2>1. [cloud EXCEPT !.active = i] \in Clouds
      <3>1. i \in Nat
        BY <1>1
      <3>2. QED
        BY <1>1, <3>1 DEF Clouds
    <2>2. [cloud EXCEPT !.active = i].active = i /\ [cloud EXCEPT !.active = i].walls = cloud.walls
      BY <1>1 DEF Clouds
    <2>3. QED
      BY <1>4, <2>1, <2>2 DEF CloudFits
  <1>5. ASSUME NEW made \in SUBSET Buckets PROVE CloudFits([cloud EXCEPT !.made = made])
    BY <1>1 DEF CloudFits, Clouds
  <1>6. ASSUME NEW s \in Seq({"here", "elsewhere"}) PROVE CloudFits([cloud EXCEPT !.records = s])
    BY <1>1 DEF CloudFits, Clouds
  <1>7. QED
    BY <1>2, <1>3, <1>4, <1>5, <1>6

LEMMA RulesFit ==
  ASSUME CloudFits(cloud), NEW own \in [Kinds -> OwnRule], NEW foreign \in [Kinds -> SUBSET ForeignRules]
  PROVE  CloudFits([cloud EXCEPT !.own = own, !.foreign = foreign])
  BY DEF CloudFits, Clouds

LEMMA RequestsAre ==
  /\ \A w \in FirewallRequests : \/ w.what \in {"create", "activate"}
                                 \/ w.what = "add" /\ w.arg \in Ports
                                 \/ w.what = "remove" /\ w.arg \in Ports \ Desired
  /\ \A w \in OtherRequests : w.what \in {"register", "post", "patch"} \/ (w.what = "make" /\ w.arg \in Buckets)
  <1>1. ASSUME NEW w \in FirewallRequests
        PROVE  \/ w.what \in {"create", "activate"}
               \/ w.what = "add" /\ w.arg \in Ports
               \/ w.what = "remove" /\ w.arg \in Ports \ Desired
    BY WriteIs DEF FirewallRequests
  <1>2. ASSUME NEW w \in OtherRequests
        PROVE  w.what \in {"register", "post", "patch"} \/ (w.what = "make" /\ w.arg \in Buckets)
    BY WriteIs DEF OtherRequests, Buckets
  <1>3. QED
    BY <1>1, <1>2

LEMMA DoneFits ==
  ASSUME ProvidersInv, NEW t \in Terminals, NEW w, Accepted(t, w),
         \/ w.what = "put" /\ w.arg \in Kinds /\ work[t].read \subseteq ForeignRules
         \/ w \in FirewallRequests /\ FirewallWork(t) /\ (w.what = "create" \/ cloud.walls # <<>>)
         \/ w \in OtherRequests
  PROVE  CloudFits(Carried(t, w))
  <1>2. CloudFits(cloud) /\ cloud \in Clouds
    BY DEF ProvidersInv, CloudFits
  <1>3. CASE w.what = "put" /\ w.arg \in Kinds /\ work[t].read \subseteq ForeignRules
    <2>2. /\ [cloud.own EXCEPT ![w.arg] = "as wanted"] \in [Kinds -> OwnRule]
          /\ [cloud.foreign EXCEPT ![w.arg] = work[t].read] \in [Kinds -> SUBSET ForeignRules]
      BY <1>2, <1>3 DEF Clouds, OwnRule
    <2> DEFINE put == [cloud EXCEPT !.own = [cloud.own EXCEPT ![w.arg] = "as wanted"],
                                    !.foreign = [cloud.foreign EXCEPT ![w.arg] = work[t].read]]
    <2>3. Carried(t, w) = put
      BY <1>3, CarriedInto
    <2>4. CloudFits(put)
      BY <1>2, <2>2, RulesFit
    <2>5. QED
      BY <2>3, <2>4
  <1>4. CASE w \in OtherRequests
    <2>1. CASE w.what = "register"
      <3>1. cloud.keys + 1 \in Nat
        BY <1>2 DEF Clouds
      <3>3. Carried(t, w) = [cloud EXCEPT !.keys = cloud.keys + 1]
        BY <2>1, CarriedIs
      <3>4. CloudFits([cloud EXCEPT !.keys = cloud.keys + 1])
        BY <1>2, <3>1, CloudFields
      <3>5. QED
        BY <3>3, <3>4
    <2>2. CASE w.what = "post"
      <3>1. Append(cloud.records, "here") \in Seq({"here", "elsewhere"})
        BY <1>2, AppendProperties DEF Clouds
      <3>3. Carried(t, w) = [cloud EXCEPT !.records = Append(cloud.records, "here")]
        BY <2>2, CarriedIs
      <3>4. CloudFits([cloud EXCEPT !.records = Append(cloud.records, "here")])
        BY <1>2, <3>1, CloudFields
      <3>5. QED
        BY <3>3, <3>4
    <2>3. CASE w.what = "patch"
      <3>1. cloud.records # <<>> /\ cloud.records \in Seq({"here", "elsewhere"})
        BY <1>2, <2>3, RefusalIs DEF Clouds
      <3>2. 1 \in 1..Len(cloud.records)
        BY <3>1, EmptySeq, LenProperties
      <3>3. [cloud.records EXCEPT ![1] = "here"] \in Seq({"here", "elsewhere"})
        BY <3>1, <3>2, ExceptSeq
      <3>4. Carried(t, w) = [cloud EXCEPT !.records = [cloud.records EXCEPT ![1] = "here"]]
        BY <2>3, CarriedIs
      <3>5. CloudFits([cloud EXCEPT !.records = [cloud.records EXCEPT ![1] = "here"]])
        BY <1>2, <3>3, CloudFields
      <3>6. QED
        BY <3>4, <3>5
    <2>4. CASE w.what = "make" /\ w.arg \in Buckets
      <3>2. cloud.made \cup {w.arg} \in SUBSET Buckets
        BY <1>2, <2>4 DEF Clouds
      <3>3. Carried(t, w) = [cloud EXCEPT !.made = cloud.made \cup {w.arg}]
        BY <2>4, CarriedIs
      <3>4. CloudFits([cloud EXCEPT !.made = cloud.made \cup {w.arg}])
        BY <1>2, <3>2, CloudFields
      <3>5. QED
        BY <3>3, <3>4
    <2>5. QED
      BY <1>4, <2>1, <2>2, <2>3, <2>4, RequestsAre
  <1>5. CASE w \in FirewallRequests /\ FirewallWork(t) /\ (w.what = "create" \/ cloud.walls # <<>>)
    <2>1. cloud.walls \in Seq([Ports -> Nat]) /\ Len(cloud.walls) \in Nat
      BY <1>2, LenProperties DEF Clouds
    <2>2. CASE w.what = "create"
      <3>1. [p \in Ports |-> 0] \in [Ports -> Nat]
        OBVIOUS
      <3>2. /\ Append(cloud.walls, [p \in Ports |-> 0]) \in Seq([Ports -> Nat])
            /\ Len(Append(cloud.walls, [p \in Ports |-> 0])) = Len(cloud.walls) + 1
        BY <2>1, <3>1, AppendProperties
      <3>3. Carried(t, w) = [cloud EXCEPT !.walls = Append(cloud.walls, [p \in Ports |-> 0])]
        BY <2>2, CarriedIs
      <3>4. CloudFits([cloud EXCEPT !.walls = Append(cloud.walls, [p \in Ports |-> 0])])
        <4>1. Len(Append(cloud.walls, [p \in Ports |-> 0])) >= Len(cloud.walls)
          BY <2>1, <3>2
        <4>2. QED
          BY <1>2, <3>2, <4>1, CloudFields, Zenon
      <3>5. QED
        BY <3>3, <3>4
    <2>3. CASE w.what # "create"
      <3>2. cloud.walls # <<>>
        BY <1>5, <2>3
      <3>3. WallOf(t) \in 1..Len(cloud.walls) /\ cloud.walls[WallOf(t)] \in [Ports -> Nat]
        BY <1>5, <3>2, WallIs
      <3>4. ASSUME NEW rules \in [Ports -> Nat]
            PROVE  CloudFits([cloud EXCEPT !.walls = [cloud.walls EXCEPT ![WallOf(t)] = rules]])
        <4>1. /\ [cloud.walls EXCEPT ![WallOf(t)] = rules] \in Seq([Ports -> Nat])
              /\ Len([cloud.walls EXCEPT ![WallOf(t)] = rules]) = Len(cloud.walls)
          BY <2>1, <3>3, ExceptSeq
        <4>2. QED
          <5>1. Len([cloud.walls EXCEPT ![WallOf(t)] = rules]) >= Len(cloud.walls)
            BY <2>1, <4>1
          <5>2. QED
            BY <1>2, <4>1, <5>1, CloudFields, Zenon
      <3>5. CASE w.what = "activate"
        <4>1. WallOf(t) \in 0..Len(cloud.walls)
          BY <2>1, <3>3
        <4>2. Carried(t, w) = [cloud EXCEPT !.active = WallOf(t)]
          BY <3>5, CarriedIs
        <4>3. CloudFits([cloud EXCEPT !.active = WallOf(t)])
          BY <1>2, <4>1, CloudFields
        <4>4. QED
          BY <4>2, <4>3
      <3>6. CASE w.what = "add" /\ w.arg \in Ports
        <4>2. [cloud.walls[WallOf(t)] EXCEPT ![w.arg] = cloud.walls[WallOf(t)][w.arg] + 1] \in [Ports -> Nat]
          BY <3>3, <3>6
        <4>3. Carried(t, w) = [cloud EXCEPT !.walls = [cloud.walls EXCEPT ![WallOf(t)] =
                [cloud.walls[WallOf(t)] EXCEPT ![w.arg] = cloud.walls[WallOf(t)][w.arg] + 1]]]
          BY <3>6, CarriedInto
        <4>4. CloudFits([cloud EXCEPT !.walls = [cloud.walls EXCEPT ![WallOf(t)] =
                [cloud.walls[WallOf(t)] EXCEPT ![w.arg] = cloud.walls[WallOf(t)][w.arg] + 1]]])
          BY <3>4, <4>2
        <4>5. QED
          BY <4>3, <4>4
      <3>7. CASE w.what = "remove" /\ w.arg \in Ports
        <4>2. cloud.walls[WallOf(t)][w.arg] # 0
          BY <3>7, RefusalIs
        <4>3. [cloud.walls[WallOf(t)] EXCEPT ![w.arg] = cloud.walls[WallOf(t)][w.arg] - 1] \in [Ports -> Nat]
          BY <3>3, <3>7, <4>2
        <4>4. Carried(t, w) = [cloud EXCEPT !.walls = [cloud.walls EXCEPT ![WallOf(t)] =
                [cloud.walls[WallOf(t)] EXCEPT ![w.arg] = cloud.walls[WallOf(t)][w.arg] - 1]]]
          BY <3>7, CarriedInto
        <4>5. CloudFits([cloud EXCEPT !.walls = [cloud.walls EXCEPT ![WallOf(t)] =
                [cloud.walls[WallOf(t)] EXCEPT ![w.arg] = cloud.walls[WallOf(t)][w.arg] - 1]]])
          BY <3>4, <4>3
        <4>6. QED
          BY <4>4, <4>5
      <3>8. QED
        BY <1>5, <2>3, <3>5, <3>6, <3>7, RequestsAre
    <2>4. QED
      BY <2>2, <2>3
  <1>6. QED
    BY <1>3, <1>4, <1>5

LEMMA CarriedFits ==
  ASSUME ProvidersInv, NEW t \in Terminals, Working(t, "write"), Accepted(t, Head(work[t].writes))
  PROVE  CloudFits(Carried(t, Head(work[t].writes)))
  <1> DEFINE w == Head(work[t].writes)
  <1>1. CASE \E k \in Kinds : w = Write("put", k) /\ work[t].read \subseteq ForeignRules
    <2>1. w.what = "put" /\ w.arg \in Kinds
      BY <1>1, WriteIs
    <2>2. QED
      BY <1>1, <2>1, DoneFits
  <1>2. CASE w \in FirewallRequests /\ FirewallWork(t)
    <2>1. w.what = "create" \/ cloud.walls # <<>>
      BY <1>2, HeadIs DEF FirewallWork
    <2>2. QED
      BY <1>2, <2>1, DoneFits
  <1>3. CASE w \in OtherRequests
    BY <1>3, DoneFits
  <1>4. QED
    BY <1>1, <1>2, <1>3, WritingIs

\* What a request that is carried out leaves of the firewalls: none is removed.
LEMMA WallsStay ==
  ASSUME ProvidersInv, NEW t \in Terminals, NEW w, cloud.walls # <<>>,
         w.what \in {"register", "create", "add", "remove", "activate", "make", "put", "post", "patch"}
  PROVE  Carried(t, w).walls # <<>>
  <1>1. cloud \in Clouds /\ cloud.walls \in Seq([Ports -> Nat])
    BY DEF ProvidersInv, CloudFits, Clouds
  <1>2. Len(cloud.walls) # 0
    BY <1>1, EmptySeq
  <1>3. CASE w.what = "create"
    <2> DEFINE closed == [p \in Ports |-> 0]
    <2>1. Carried(t, w).walls = Append(cloud.walls, closed)
      <3>1. Carried(t, w) = [cloud EXCEPT !.walls = Append(cloud.walls, closed)]
        BY <1>3, CarriedIs
      <3>2. QED
        BY <1>1, <3>1 DEF Clouds
    <2>2. closed \in [Ports -> Nat]
      OBVIOUS
    <2>3. Append(cloud.walls, closed) # <<>>
      <3> HIDE DEF closed
      <3>1. QED
        BY <1>1, <2>2, AppendProperties
    <2>4. QED
      BY <2>1, <2>3
  <1>4. ASSUME NEW i, NEW rules, Carried(t, w) = [cloud EXCEPT !.walls = [cloud.walls EXCEPT ![i] = rules]]
        PROVE  Carried(t, w).walls # <<>>
    <2>1. Carried(t, w).walls = [cloud.walls EXCEPT ![i] = rules]
      BY <1>1, <1>4 DEF Clouds
    <2>2. DOMAIN Carried(t, w).walls = 1..Len(cloud.walls)
      BY <1>1, <2>1
    <2>3. 1 \in 1..Len(cloud.walls)
      BY <1>1, <1>2, LenProperties
    <2>4. QED
      BY <2>2, <2>3
  <1>5. CASE w.what = "add"
    <2> DEFINE rules == [cloud.walls[WallOf(t)] EXCEPT ![w.arg] = cloud.walls[WallOf(t)][w.arg] + 1]
    <2>1. Carried(t, w) = [cloud EXCEPT !.walls = [cloud.walls EXCEPT ![WallOf(t)] = rules]]
      BY <1>5, CarriedInto
    <2> HIDE DEF rules
    <2>2. QED
      BY <1>4, <2>1
  <1>6. CASE w.what = "remove"
    <2> DEFINE rules == [cloud.walls[WallOf(t)] EXCEPT ![w.arg] = cloud.walls[WallOf(t)][w.arg] - 1]
    <2>1. Carried(t, w) = [cloud EXCEPT !.walls = [cloud.walls EXCEPT ![WallOf(t)] = rules]]
      BY <1>6, CarriedInto
    <2> HIDE DEF rules
    <2>2. QED
      BY <1>4, <2>1
  <1>8. CASE w.what = "register"
    <2>1. Carried(t, w) = [cloud EXCEPT !.keys = cloud.keys + 1]
      BY <1>8, CarriedIs
    <2>2. [cloud EXCEPT !.keys = cloud.keys + 1].walls = cloud.walls
      BY <1>1 DEF Clouds
    <2>3. QED
      BY <2>1, <2>2
  <1>9. CASE w.what = "activate"
    <2>1. Carried(t, w) = [cloud EXCEPT !.active = WallOf(t)]
      BY <1>9, CarriedIs
    <2>2. [cloud EXCEPT !.active = WallOf(t)].walls = cloud.walls
      BY <1>1 DEF Clouds
    <2>3. QED
      BY <2>1, <2>2
  <1>10. CASE w.what = "make"
    <2>1. Carried(t, w) = [cloud EXCEPT !.made = cloud.made \cup {w.arg}]
      BY <1>10, CarriedIs
    <2>2. [cloud EXCEPT !.made = cloud.made \cup {w.arg}].walls = cloud.walls
      BY <1>1 DEF Clouds
    <2>3. QED
      BY <2>1, <2>2
  <1>11. CASE w.what = "put"
    <2> DEFINE own == [cloud.own EXCEPT ![w.arg] = "as wanted"]
               foreign == [cloud.foreign EXCEPT ![w.arg] = work[t].read]
    <2>1. Carried(t, w) = [cloud EXCEPT !.own = own, !.foreign = foreign]
      BY <1>11, CarriedInto
    <2>2. [cloud EXCEPT !.own = own, !.foreign = foreign].walls = cloud.walls
      BY <1>1 DEF Clouds
    <2>3. QED
      BY <2>1, <2>2
  <1>12. CASE w.what \in {"post", "patch"}
    <2>1. \E r : Carried(t, w) = [cloud EXCEPT !.records = r]
      BY <1>12, CarriedIs
    <2>2. PICK r : Carried(t, w) = [cloud EXCEPT !.records = r]
      BY <2>1
    <2>3. [cloud EXCEPT !.records = r].walls = cloud.walls
      BY <1>1 DEF Clouds
    <2>4. QED
      BY <2>2, <2>3
  <1>13. QED
    BY <1>3, <1>5, <1>6, <1>8, <1>9, <1>10, <1>11, <1>12

LEMMA SuppliedKept ==
  ASSUME NEW t, Supplied(t), scenario' = scenario, run'[t].at = run[t].at, work'[t].todo = work[t].todo,
         work'[t].writes = work[t].writes, work'[t].read = work[t].read, work'[t].there = work[t].there,
         cloud.walls # <<>> => cloud'.walls # <<>>
  PROVE  Supplied(t)'
  <1>1. Step(t)' = Step(t)
    BY DEF Step
  <1>2. FirewallWork(t) => FirewallWork(t)'
    BY DEF FirewallWork
  <1>3. RuleWork(t) => RuleWork(t)'
    BY <1>1 DEF RuleWork
  <1>4. OtherWork(t) => OtherWork(t)'
    BY <1>1 DEF OtherWork, OtherRequests, BucketOf, Given
  <1>5. QED
    BY <1>1, <1>2, <1>3, <1>4 DEF Supplied

\* One terminal's step on what the providers hold.
LEMMA StepSupplies ==
  ASSUME ProvidersInv, NEW t \in Terminals, scenario' = scenario, Processes', CloudFits(cloud)',
         cloud.walls # <<>> => cloud'.walls # <<>>,
         known' \in [{"key", "wall", "record"} -> Nat],
         \A u \in Terminals \ {t} : run'[u] = run[u] /\ work'[u] = work[u],
         DOMAIN work' = Terminals, DOMAIN work'[t] = DOMAIN Start, work'[t].tries \in 1..MaxTries,
         Supplying(t)' => Supplied(t)'
  PROVE  ProvidersInv'
  <1>1. WorkTypes'
    BY DEF ProvidersInv, WorkTypes
  <1>2. ASSUME NEW u \in Terminals, Supplying(u)'
        PROVE  Supplied(u)'
    BY <1>2, SuppliedKept DEF ProvidersInv, Supplying, Runs
  <1>3. QED
    BY <1>1, <1>2 DEF ProvidersInv

\* The memory of a process that is set anew.
LEMMA FreshWork ==
  ASSUME ProvidersInv, NEW t \in Terminals, NEW todo_, NEW created_,
         \/ work' = [work EXCEPT ![t] = Start] \/ work' = [work EXCEPT ![t] = [Start EXCEPT !.todo = todo_]]
         \/ work' = [work EXCEPT ![t] = [Start EXCEPT !.todo = todo_, !.created = created_]]
  PROVE  /\ DOMAIN work' = Terminals /\ DOMAIN work'[t] = DOMAIN Start /\ work'[t].tries \in 1..MaxTries
         /\ work'[t].read = {}
         /\ \A u \in Terminals \ {t} : work'[u] = work[u]
  BY StartIs DEF ProvidersInv, WorkTypes, Start

LEMMA FitsNext ==
  ASSUME NEW c, CloudFits(c), cloud' = c, scenario' = scenario
  PROVE  CloudFits(cloud)'
  BY DEF CloudFits, Clouds, Buckets, BucketOf, Given

LEMMA OneMoves ==
  ASSUME Processes, NEW t \in Terminals, NEW step, NEW command,
         Go(t, step) \/ Return(t) \/ Enter(t, command, step)
  PROVE  /\ \A u \in Terminals \ {t} : run'[u] = run[u]
         /\ Return(t) \/ run'[t].at = step
  BY DEF Processes, Go, Return, Enter

\* A process whose memory is fresh has read nothing.
LEMMA FreshSupplies ==
  ASSUME ProvidersInv, NEW t \in Terminals, scenario' = scenario, Processes', CloudFits(cloud)',
         cloud.walls # <<>> => cloud'.walls # <<>>,
         known' \in [{"key", "wall", "record"} -> Nat],
         Go(t, "ask") \/ Return(t) \/ Enter(t, "up-providers", "ask"),
         \/ work' = [work EXCEPT ![t] = Start]
         \/ \E todo_ : work' = [work EXCEPT ![t] = [Start EXCEPT !.todo = todo_]]
         \/ \E todo_, created_ : work' = [work EXCEPT ![t] = [Start EXCEPT !.todo = todo_, !.created = created_]]
  PROVE  ProvidersInv'
  <1>1. /\ DOMAIN work' = Terminals /\ DOMAIN work'[t] = DOMAIN Start /\ work'[t].tries \in 1..MaxTries
        /\ work'[t].read = {}
        /\ \A u \in Terminals \ {t} : work'[u] = work[u]
    BY FreshWork
  <1>2. /\ \A u \in Terminals \ {t} : run'[u] = run[u]
        /\ run'[t].at = "ask" \/ Return(t)
    BY OneMoves DEF ProvidersInv
  <1>3. ASSUME Supplying(t)'
        PROVE  Supplied(t)'
    <2>1. ~Return(t)
      BY <1>3, ReturnIs DEF ProvidersInv, Supplying, Runs
    <2>2. QED
      BY <1>1, <1>2, <2>1 DEF Supplied
  <1>4. QED
    BY <1>1, <1>2, <1>3, StepSupplies

\* A process that has decided what to write.
LEMMA DecideIs ==
  ASSUME ProvidersInv, NEW t \in Terminals, NEW writes, Decide(t, writes)
  PROVE  /\ work'[t].writes = writes /\ Step(t)' = Step(t)
         /\ work'[t].read = work[t].read /\ work'[t].tries = work[t].tries
         /\ DOMAIN work' = Terminals /\ DOMAIN work'[t] = DOMAIN Start
         /\ \A u \in Terminals \ {t} : work'[u] = work[u] /\ run'[u] = run[u]
         /\ run'[t].at = "write" /\ UNCHANGED <<cloud, known>>
  <1>1. work' = [work EXCEPT ![t] = [work[t] EXCEPT !.writes = writes]] /\ UNCHANGED <<cloud, known>>
    BY DEF Decide
  <1>2. DOMAIN work = Terminals /\ DOMAIN work[t] = {"todo", "writes", "tries", "read", "there", "created"}
    BY StartIs DEF ProvidersInv, WorkTypes
  <1>3. /\ work'[t] = [work[t] EXCEPT !.writes = writes] /\ DOMAIN work' = Terminals
        /\ \A u \in Terminals \ {t} : work'[u] = work[u]
    BY <1>1, <1>2
  <1>4. /\ work'[t].writes = writes /\ work'[t].todo = work[t].todo /\ work'[t].read = work[t].read
        /\ work'[t].tries = work[t].tries /\ DOMAIN work'[t] = DOMAIN work[t]
    BY <1>2, <1>3
  <1>5. run'[t].at = "write" /\ \A u \in Terminals \ {t} : run'[u] = run[u]
    BY GoIs, OneMoves DEF Decide, ProvidersInv
  <1>6. QED
    BY <1>1, <1>2, <1>3, <1>4, <1>5, StartIs DEF Step

LEMMA DecideSupplies ==
  ASSUME ProvidersInv, NEW t \in Terminals, scenario' = scenario, Processes',
         NEW writes, Decide(t, writes), OtherWork(t)' \/ (Step(t) = "firewall" /\ FirewallWork(t)')
  PROVE  ProvidersInv'
  <1>1. /\ work'[t].writes = writes /\ Step(t)' = Step(t) /\ work'[t].tries = work[t].tries
        /\ DOMAIN work' = Terminals /\ DOMAIN work'[t] = DOMAIN Start
        /\ \A u \in Terminals \ {t} : work'[u] = work[u] /\ run'[u] = run[u]
        /\ run'[t].at = "write" /\ UNCHANGED <<cloud, known>>
    BY DecideIs
  <1>2. CloudFits(cloud)' /\ known' \in [{"key", "wall", "record"} -> Nat] /\ work'[t].tries \in 1..MaxTries
    BY <1>1, FitsNext DEF ProvidersInv, WorkTypes
  <1>3. Supplied(t)'
    BY <1>1 DEF Supplied
  <1>4. QED
    BY <1>1, <1>2, <1>3, StepSupplies

LEMMA JoinedIs ==
  ASSUME NEW S, NEW a \in Seq(S), NEW b \in Seq(S)
  PROVE  /\ a \o b \in Seq(S) /\ Len(a \o b) = Len(a) + Len(b)
         /\ Len(a) \in Nat /\ Len(b) \in Nat
         /\ \A i \in 1..Len(a) : i \in 1..Len(a \o b) /\ (a \o b)[i] = a[i]
         /\ \A j \in 1..Len(b) : Len(a) + j \in 1..Len(a \o b) /\ (a \o b)[Len(a) + j] = b[j]
         /\ \A i \in 1..Len(a \o b) : \/ i \in 1..Len(a) /\ (a \o b)[i] = a[i]
                                      \/ i - Len(a) \in 1..Len(b) /\ (a \o b)[i] = b[i - Len(a)]
  <1>1. /\ a \o b \in Seq(S) /\ Len(a \o b) = Len(a) + Len(b)
        /\ \A i \in 1..Len(a) + Len(b) : (a \o b)[i] = IF i <= Len(a) THEN a[i] ELSE b[i - Len(a)]
    BY ConcatProperties
  <1>2. Len(a) \in Nat /\ Len(b) \in Nat
    BY LenProperties
  <1>3. ASSUME NEW i \in 1..Len(a)
        PROVE  i \in 1..Len(a \o b) /\ (a \o b)[i] = a[i]
    BY <1>1, <1>2
  <1>4. ASSUME NEW j \in 1..Len(b)
        PROVE  Len(a) + j \in 1..Len(a \o b) /\ (a \o b)[Len(a) + j] = b[j]
    <2>1. Len(a) + j \in 1..Len(a) + Len(b) /\ ~(Len(a) + j <= Len(a)) /\ Len(a) + j - Len(a) = j
      BY <1>2
    <2>2. QED
      BY <1>1, <2>1
  <1>5. ASSUME NEW i \in 1..Len(a \o b)
        PROVE  \/ i \in 1..Len(a) /\ (a \o b)[i] = a[i]
               \/ i - Len(a) \in 1..Len(b) /\ (a \o b)[i] = b[i - Len(a)]
    <2>1. CASE i <= Len(a)
      BY <1>1, <1>2, <2>1
    <2>2. CASE ~(i <= Len(a))
      <3>1. i \in 1..Len(a) + Len(b) /\ i - Len(a) \in 1..Len(b)
        BY <1>1, <1>2, <2>2
      <3>2. QED
        BY <1>1, <2>2, <3>1
    <2>3. QED
      BY <2>1, <2>2
  <1>6. QED
    BY <1>1, <1>2, <1>3, <1>4, <1>5

\* The requests so far create a firewall only if there is none, before all
\* else, and open the ports.
Prepares(s, fresh, ports) ==
  /\ s \in Seq(FirewallRequests)
  /\ fresh => Len(s) # 0 /\ s[1].what = "create"
  /\ \A i \in 1..Len(s) : s[i].what # "activate" /\ (s[i].what = "create" => fresh /\ i = 1)
  /\ \A p \in ports : \E i \in 1..Len(s) : s[i] = Write("add", p)

LEMMA PreparesMore ==
  ASSUME NEW s, NEW fresh, NEW ports, Prepares(s, fresh, ports), NEW more, NEW others,
         more \in Seq(FirewallRequests), \A i \in 1..Len(more) : more[i].what \in {"add", "remove"},
         \A p \in others : \E i \in 1..Len(more) : more[i] = Write("add", p)
  PROVE  Prepares(s \o more, fresh, ports \cup others)
  <1> DEFINE both == s \o more
  <1>0. s \in Seq(FirewallRequests)
    BY DEF Prepares
  <1>1. /\ both \in Seq(FirewallRequests) /\ Len(both) = Len(s) + Len(more)
        /\ Len(s) \in Nat /\ Len(more) \in Nat
        /\ \A i \in 1..Len(s) : i \in 1..Len(both) /\ both[i] = s[i]
        /\ \A j \in 1..Len(more) : Len(s) + j \in 1..Len(both) /\ both[Len(s) + j] = more[j]
        /\ \A i \in 1..Len(both) : \/ i \in 1..Len(s) /\ both[i] = s[i]
                                   \/ i - Len(s) \in 1..Len(more) /\ both[i] = more[i - Len(s)]
    BY <1>0, JoinedIs
  <1> HIDE DEF both
  <1>2. fresh => Len(both) # 0 /\ both[1].what = "create"
    BY <1>1 DEF Prepares
  <1>3. ASSUME NEW i \in 1..Len(both)
        PROVE  both[i].what # "activate" /\ (both[i].what = "create" => fresh /\ i = 1)
    BY <1>1 DEF Prepares
  <1>4. ASSUME NEW p \in ports \cup others
        PROVE  \E i \in 1..Len(both) : both[i] = Write("add", p)
    <2>1. CASE p \in ports
      <3>1. PICK i \in 1..Len(s) : s[i] = Write("add", p)
        BY <2>1 DEF Prepares
      <3>2. i \in 1..Len(both) /\ both[i] = Write("add", p)
        BY <1>1, <3>1
      <3>3. QED
        BY <3>2
    <2>2. CASE p \in others
      <3>1. PICK j \in 1..Len(more) : more[j] = Write("add", p)
        BY <2>2
      <3>2. Len(s) + j \in 1..Len(both) /\ both[Len(s) + j] = Write("add", p)
        BY <1>1, <3>1
      <3>3. QED
        BY <3>2
    <2>3. QED
      BY <2>1, <2>2
  <1>5. Prepares(both, fresh, ports \cup others)
    BY <1>1, <1>2, <1>3, <1>4 DEF Prepares
  <1>6. QED
    BY <1>5 DEF both

\* What ensure_firewall decides to do about the ports it finds open.
Asked(fresh, current) ==
  (IF fresh THEN <<Write("create", "wall")>> ELSE <<>>)
    \o Each("add", Desired \ current) \o Each("remove", current \ Desired)
    \o <<Write("activate", "wall")>>

LEMMA AskedIs ==
  ASSUME NEW fresh \in BOOLEAN, NEW current \in SUBSET Ports, NEW writes, writes = Asked(fresh, current)
  PROVE  /\ writes \in Seq(FirewallRequests) /\ writes # <<>>
         /\ writes[1].what = "create" <=> fresh
         /\ \A i \in 2..Len(writes) : writes[i].what # "create"
         /\ \A i \in 1..Len(writes) : writes[i].what = "activate" => i = Len(writes)
         /\ \A p \in Desired \ current : \E i \in 1..Len(writes) : writes[i] = Write("add", p)
  <1> DEFINE first == IF fresh THEN <<Write("create", "wall")>> ELSE <<>>
             adds == Each("add", Desired \ current)
             removes == Each("remove", current \ Desired)
             last == <<Write("activate", "wall")>>
             front == (first \o adds) \o removes
  <1>1. Prepares(first, fresh, {})
    <2>1. CASE fresh
      <3>1. first = <<Write("create", "wall")>> /\ Write("create", "wall") \in FirewallRequests
        BY <2>1 DEF FirewallRequests
      <3>2. Len(first) = 1 /\ first[1].what = "create" /\ first \in Seq(FirewallRequests)
        BY <3>1, WriteIs
      <3>3. QED
        BY <2>1, <3>2 DEF Prepares
    <2>2. CASE ~fresh
      BY <2>2, EmptySeq DEF Prepares
    <2>3. QED
      BY <2>1, <2>2
  <1>2. Prepares(first \o adds, fresh, {} \cup (Desired \ current))
    <2>1. /\ adds \in Seq(FirewallRequests) /\ \A i \in 1..Len(adds) : adds[i].what = "add"
          /\ \A p \in Desired \ current : \E i \in 1..Len(adds) : adds[i] = Write("add", p)
      <3>1. Desired \ current \in SUBSET Ports
        BY DEF Desired, Ports
      <3>2. QED
        BY <3>1, EachIs
    <2> HIDE DEF first, adds
    <2>2. QED
      BY <1>1, <2>1, PreparesMore
  <1>3. Prepares(front, fresh, ({} \cup (Desired \ current)) \cup {})
    <2>1. /\ removes \in Seq(FirewallRequests) /\ \A i \in 1..Len(removes) : removes[i].what = "remove"
      BY EachIs
    <2> HIDE DEF first, adds, removes
    <2>2. QED
      BY <1>2, <2>1, PreparesMore
  <1>4. Prepares(front, fresh, Desired \ current)
    <2> HIDE DEF first, adds, removes
    <2>1. ({} \cup (Desired \ current)) \cup {} = Desired \ current
      OBVIOUS
    <2>2. QED
      BY <1>3, <2>1
  <1>5. last \in Seq(FirewallRequests) /\ Len(last) = 1 /\ last[1].what = "activate" /\ last[1].what # "create"
    <2>1. Write("activate", "wall") \in FirewallRequests
      BY DEF FirewallRequests
    <2>2. QED
      BY <2>1, WriteIs
  <1>6. writes = front \o last
    BY DEF Asked
  <1> HIDE DEF front, last
  <1>7. /\ writes \in Seq(FirewallRequests) /\ Len(writes) = Len(front) + Len(last) /\ Len(front) \in Nat
        /\ \A i \in 1..Len(front) : i \in 1..Len(writes) /\ writes[i] = front[i]
        /\ \A i \in 1..Len(writes) : \/ i \in 1..Len(front) /\ writes[i] = front[i]
                                     \/ i - Len(front) \in 1..Len(last) /\ writes[i] = last[i - Len(front)]
    <2>1. front \in Seq(FirewallRequests) /\ last \in Seq(FirewallRequests)
      BY <1>4, <1>5 DEF Prepares
    <2> DEFINE all == front \o last
    <2>2. /\ all \in Seq(FirewallRequests) /\ Len(all) = Len(front) + Len(last) /\ Len(front) \in Nat
          /\ \A i \in 1..Len(front) : i \in 1..Len(all) /\ all[i] = front[i]
          /\ \A i \in 1..Len(all) : \/ i \in 1..Len(front) /\ all[i] = front[i]
                                    \/ i - Len(front) \in 1..Len(last) /\ all[i] = last[i - Len(front)]
      BY <2>1, JoinedIs
    <2>3. writes = all
      BY <1>6
    <2> HIDE DEF all
    <2>4. QED
      BY <2>2, <2>3
  <1>8. writes # <<>>
    BY <1>5, <1>7, EmptySeq
  <1>9. ASSUME NEW i \in 1..Len(writes)
        PROVE  /\ writes[i].what = "create" => fresh /\ i = 1
               /\ writes[i].what = "activate" => i = Len(writes)
    <2>1. CASE i \in 1..Len(front)
      BY <1>4, <1>7, <2>1 DEF Prepares
    <2>2. CASE i \notin 1..Len(front)
      <3>0. i - Len(front) \in 1..Len(last) /\ writes[i] = last[i - Len(front)] /\ Len(front) \in Nat
        BY <1>7, <2>2
      <3>1. i = Len(front) + 1 /\ i - Len(front) = 1 /\ writes[i] = last[1]
        BY <1>5, <3>0
      <3>2. QED
        BY <1>5, <1>7, <3>1
    <2>3. QED
      BY <2>1, <2>2
  <1>10. ASSUME fresh
         PROVE  writes[1].what = "create"
    <2>1. Len(front) # 0 /\ front[1].what = "create" /\ Len(front) \in Nat
      BY <1>4, <1>7, <1>10 DEF Prepares
    <2>2. 1 \in 1..Len(front)
      BY <2>1
    <2>3. QED
      BY <1>7, <2>1, <2>2
  <1>11. 1 \in 1..Len(writes)
    BY <1>5, <1>7
  <1>12. ASSUME NEW p \in Desired \ current
         PROVE  \E i \in 1..Len(writes) : writes[i] = Write("add", p)
    BY <1>4, <1>7 DEF Prepares
  <1>13. \A i \in 2..Len(writes) : i \in 1..Len(writes) /\ i # 1
    BY <1>7
  <1>14. \A i \in 2..Len(writes) : writes[i].what # "create"
    BY <1>9, <1>13
  <1>15. writes[1].what = "create" <=> fresh
    BY <1>9, <1>10, <1>11
  <1>16. QED
    BY <1>7, <1>8, <1>9, <1>12, <1>14, <1>15

LEMMA FinishSupplies ==
  ASSUME ProvidersInv, NEW t \in Terminals, scenario' = scenario, Processes', CloudFits(cloud)',
         cloud.walls # <<>> => cloud'.walls # <<>>,
         known' \in [{"key", "wall", "record"} -> Nat], NEW buckets, Finish(t, buckets)
  PROVE  ProvidersInv'
  <1>1. CASE Len(work[t].todo) = 1
    <2>1. Return(t) /\ work' = [work EXCEPT ![t] = Start]
      BY <1>1 DEF Finish
    <2>2. QED
      BY <2>1, FreshSupplies
  <1>2. CASE Len(work[t].todo) # 1
    <2>1. Go(t, "ask") /\ \E todo_, created_ : work' = [work EXCEPT ![t] = [Start EXCEPT !.todo = todo_, !.created = created_]]
      BY <1>2 DEF Finish
    <2>2. QED
      BY <2>1, FreshSupplies
  <1>3. QED
    BY <1>1, <1>2

Current == IF cloud.walls = <<>> THEN {} ELSE Unfolded(cloud.walls[1])

LEMMA AskFirewallIs ==
  ASSUME NEW t, AskFirewall(t)
  PROVE  /\ Working(t, "ask") /\ Step(t) = "firewall" /\ Current \in SUBSET Ports
         /\ Decide(t, Asked(cloud.walls = <<>>, Current))
  BY DEF AskFirewall, Asked, Each, Current, Unfolded

LEMMA AskFirewallSupplies ==
  ASSUME ProvidersInv, NEW t \in Terminals, scenario' = scenario, Processes', AskFirewall(t)
  PROVE  ProvidersInv'
  <1> DEFINE writes == Asked(cloud.walls = <<>>, Current)
  <1>1. /\ run[t].at = "ask" /\ Runs(t, "up-providers") /\ Step(t) = "firewall"
        /\ Current \in SUBSET Ports /\ Decide(t, writes)
    BY AskFirewallIs DEF Working, At, Runs
  <1>2. work[t].read = {}
    BY <1>1 DEF ProvidersInv, Supplying, Supplied
  <1> HIDE DEF writes
  <1>3. /\ writes \in Seq(FirewallRequests) /\ writes # <<>>
        /\ writes[1].what = "create" <=> cloud.walls = <<>>
        /\ \A i \in 2..Len(writes) : writes[i].what # "create"
        /\ \A i \in 1..Len(writes) : writes[i].what = "activate" => i = Len(writes)
    BY <1>1, AskedIs DEF writes
  <1>4. work'[t].writes = writes /\ work'[t].read = {} /\ cloud' = cloud
    BY <1>1, <1>2, DecideIs
  <1>5. FirewallWork(t)'
    BY <1>3, <1>4 DEF FirewallWork
  <1>6. QED
    BY <1>1, <1>5, DecideSupplies

\* The other steps of an `up` that reads.
LEMMA AskSupplies ==
  ASSUME ProvidersInv, NEW t \in Terminals, scenario' = scenario, Processes',
         AskKeys(t) \/ AskBucket(t) \/ AskDns(t)
  PROVE  ProvidersInv'
  <1>1. CloudFits(cloud) /\ known \in [{"key", "wall", "record"} -> Nat]
    BY DEF ProvidersInv
  <1>2. ASSUME NEW w \in OtherRequests, Decide(t, <<w>>), Step(t) \notin Kinds \cup {"firewall"}
        PROVE  ProvidersInv'
    <2>1. work'[t].writes = <<w>> /\ Step(t)' = Step(t)
      BY <1>2, DecideIs
    <2>2. w \in OtherRequests'
      BY <1>2 DEF OtherRequests, BucketOf, Given
    <2>3. OtherWork(t)'
      BY <1>2, <2>1, <2>2 DEF OtherWork
    <2>4. \E writes : Decide(t, writes)
      BY <1>2
    <2>5. QED
      BY <2>3, <2>4, DecideSupplies
  <1>3. ASSUME NEW k \in {"key", "record"}, Finish(t, {}), known' = [known EXCEPT ![k] = 1], cloud' = cloud
        PROVE  ProvidersInv'
    <2>1. CloudFits(cloud)' /\ known' \in [{"key", "wall", "record"} -> Nat]
      BY <1>1, <1>3, FitsNext
    <2>2. QED
      BY <1>3, <2>1, FinishSupplies
  <1>4. CASE AskKeys(t)
    <2>1. Step(t) \notin Kinds \cup {"firewall"} /\ Write("register", "key") \in OtherRequests
      BY <1>4 DEF AskKeys, Kinds, OtherRequests
    <2>2. \/ Decide(t, <<Write("register", "key")>>)
          \/ Finish(t, {}) /\ known' = [known EXCEPT !["key"] = 1] /\ cloud' = cloud
      BY <1>4 DEF AskKeys
    <2>3. QED
      BY <1>2, <1>3, <2>1, <2>2
  <1>5. CASE AskBucket(t)
    <2>1. PICK k \in Kinds : Step(t) = BucketStep(k) /\ Decide(t, <<Write("make", BucketOf(k))>>)
      BY <1>5 DEF AskBucket
    <2>2. Step(t) \notin Kinds \cup {"firewall"}
      BY <2>1 DEF BucketStep, Kinds
    <2>3. Write("make", BucketOf(k)) \in OtherRequests
      BY <2>1 DEF OtherRequests
    <2>4. QED
      BY <1>2, <2>1, <2>2, <2>3
  <1>6. CASE AskDns(t)
    <2>1. /\ Step(t) \notin Kinds \cup {"firewall"}
          /\ Write("post", "record") \in OtherRequests /\ Write("patch", "record") \in OtherRequests
      BY <1>6 DEF AskDns, Kinds, OtherRequests
    <2>2. \/ Decide(t, <<Write("post", "record")>>)
          \/ Decide(t, <<Write("patch", "record")>>)
          \/ Finish(t, {}) /\ known' = [known EXCEPT !["record"] = 1] /\ cloud' = cloud
      BY <1>6 DEF AskDns
    <2>3. QED
      BY <1>2, <1>3, <2>1, <2>2
  <1>7. QED
    BY <1>4, <1>5, <1>6

\* The rules of a bucket are those that were just read; those of a bucket that
\* is known to have none are none.
LEMMA RuleRead ==
  ASSUME NEW k \in Kinds, NEW answer \in Answers(k), Understood(answer, TRUE)
  PROVE  (IF answer = "list" THEN cloud.foreign[k] ELSE {}) = cloud.foreign[k]
  BY DEF Answers, Understood, NoList

LEMMA AskRuleSupplies ==
  ASSUME ProvidersInv, NEW t \in Terminals, scenario' = scenario, Processes', AskRule(t)
  PROVE  ProvidersInv'
  <1>0. PICK k \in Kinds : \E answer \in Answers(k) :
          /\ Step(t) = k
          /\ Understood(answer, BucketOf(k) \in work[t].created)
          /\ work' = [work EXCEPT ![t].read = IF answer = "list" THEN cloud.foreign[k] ELSE {},
                                  ![t].there = cloud.foreign[k],
                                  ![t].writes = <<Write("put", k)>>]
    BY DEF AskRule
  <1>1. PICK answer \in Answers(k) :
          /\ Step(t) = k
          /\ Understood(answer, BucketOf(k) \in work[t].created)
          /\ work' = [work EXCEPT ![t].read = IF answer = "list" THEN cloud.foreign[k] ELSE {},
                                  ![t].there = cloud.foreign[k],
                                  ![t].writes = <<Write("put", k)>>]
    BY <1>0
  <1> DEFINE read == IF answer = "list" THEN cloud.foreign[k] ELSE {}
             there == cloud.foreign[k]
             writes == <<Write("put", k)>>
  <1>2. Go(t, "write") /\ UNCHANGED <<cloud, known>>
    BY DEF AskRule
  <1>3. read = there
    BY <1>1, RuleRead DEF Understood
  <1>4. DOMAIN work = Terminals /\ DOMAIN work[t] = {"todo", "writes", "tries", "read", "there", "created"}
    BY StartIs DEF ProvidersInv, WorkTypes
  <1>5. there \subseteq ForeignRules
    BY DEF ProvidersInv, CloudFits, Clouds
  <1>6. /\ DOMAIN work' = Terminals /\ DOMAIN work'[t] = DOMAIN work[t]
        /\ \A u \in Terminals \ {t} : work'[u] = work[u]
        /\ work'[t].read = read /\ work'[t].there = there /\ work'[t].writes = writes
        /\ work'[t].tries = work[t].tries /\ work'[t].todo = work[t].todo
    <2> HIDE DEF read, there, writes
    <2>1. work' = [work EXCEPT ![t].read = read, ![t].there = there, ![t].writes = writes]
      BY <1>1 DEF read, there, writes
    <2>2. QED
      BY <1>4, <2>1
  <1>7. /\ \A u \in Terminals \ {t} : run'[u] = run[u]
        /\ run'[t].at = "write"
    BY <1>2, GoIs, OneMoves DEF ProvidersInv
  <1>8. RuleWork(t)'
    BY <1>1, <1>3, <1>5, <1>6 DEF RuleWork, Step
  <1>9. Supplied(t)'
    BY <1>7, <1>8 DEF Supplied
  <1>10. CloudFits(cloud)' /\ known' \in [{"key", "wall", "record"} -> Nat] /\ work[t].tries \in 1..MaxTries
    BY <1>2, FitsNext DEF ProvidersInv, WorkTypes
  <1>11. QED
    BY <1>2, <1>4, <1>6, <1>7, <1>9, <1>10, StepSupplies, StartIs

\* A firewall's next request comes after this one.
LEMMA NextRequest ==
  ASSUME NEW t, FirewallWork(t), Len(work[t].writes) > 1
  PROVE  LET rest == Tail(work[t].writes)
         IN  /\ rest \in Seq(FirewallRequests) /\ rest # <<>> /\ rest[1].what # "create"
             /\ Len(rest) = Len(work[t].writes) - 1 /\ Len(rest) \in Nat
             /\ \A i \in 1..Len(rest) : rest[i] = work[t].writes[i + 1]
             /\ \A i \in 2..Len(rest) : rest[i].what # "create"
             /\ \A i \in 1..Len(rest) : rest[i].what = "activate" => i = Len(rest)
  <1>1. PICK writes : writes = work[t].writes
    OBVIOUS
  <1> DEFINE rest == Tail(writes)
  <1>2. /\ writes \in Seq(FirewallRequests) /\ writes # <<>>
        /\ \A i \in 2..Len(writes) : writes[i].what # "create"
        /\ \A i \in 1..Len(writes) : writes[i].what = "activate" => i = Len(writes)
    BY <1>1 DEF FirewallWork
  <1>3. Len(writes) \in Nat /\ Len(writes) > 1
    BY <1>1, <1>2, LenProperties
  <1>4. /\ rest \in Seq(FirewallRequests) /\ Len(rest) = Len(writes) - 1
        /\ \A i \in 1..Len(rest) : rest[i] = writes[i + 1]
    BY <1>2, HeadTailProperties
  <1> HIDE DEF rest
  <1>5. Len(rest) \in Nat /\ Len(rest) # 0 /\ rest # <<>>
    BY <1>3, <1>4, EmptySeq
  <1>6. ASSUME NEW i \in 1..Len(rest)
        PROVE  rest[i].what # "create" /\ (rest[i].what = "activate" => i = Len(rest))
    <2>1. i + 1 \in 2..Len(writes) /\ i + 1 \in 1..Len(writes) /\ (i + 1 = Len(writes) => i = Len(rest))
      BY <1>3, <1>4
    <2>2. QED
      BY <1>2, <1>4, <2>1
  <1>7. 1 \in 1..Len(rest) /\ \A i \in 2..Len(rest) : i \in 1..Len(rest)
    BY <1>5
  <1>8. /\ rest[1].what # "create" /\ \A i \in 2..Len(rest) : rest[i].what # "create"
        /\ \A i \in 1..Len(rest) : rest[i].what = "activate" => i = Len(rest)
    BY <1>6, <1>7
  <1>9. QED
    BY <1>1, <1>3, <1>4, <1>5, <1>8 DEF rest

LEMMA CreateMakes ==
  ASSUME ProvidersInv, NEW t, NEW w, w.what = "create"
  PROVE  Carried(t, w).walls = Append(cloud.walls, [p \in Ports |-> 0]) /\ Carried(t, w).walls # <<>>
  <1>1. cloud \in Clouds /\ cloud.walls \in Seq([Ports -> Nat])
    BY DEF ProvidersInv, CloudFits, Clouds
  <1> DEFINE closed == [p \in Ports |-> 0]
  <1>2. Carried(t, w).walls = Append(cloud.walls, closed)
    <2>1. Carried(t, w) = [cloud EXCEPT !.walls = Append(cloud.walls, closed)]
      BY CarriedIs
    <2>2. QED
      BY <1>1, <2>1 DEF Clouds
  <1>3. Append(cloud.walls, closed) # <<>>
    <2>1. closed \in [Ports -> Nat]
      OBVIOUS
    <2>2. cloud.walls \in Seq([Ports -> Nat]) /\ Len(cloud.walls) \in Nat
      BY <1>1, LenProperties
    <2> DEFINE longer == Append(cloud.walls, closed)
    <2>3. longer \in Seq([Ports -> Nat]) /\ Len(longer) = Len(cloud.walls) + 1
      BY <2>1, <2>2, AppendProperties
    <2>4. longer # <<>>
      <3> HIDE DEF longer
      <3>1. QED
        BY <2>2, <2>3, EmptySeq
    <2>5. QED
      BY <2>4
  <1>4. QED
    BY <1>2, <1>3

\* What a request that is sent may leave at the providers.
LEMMA SentFits ==
  ASSUME ProvidersInv, NEW t \in Terminals, scenario' = scenario, Working(t, "write"),
         \/ cloud' = cloud
         \/ /\ Accepted(t, Head(work[t].writes))
            /\ cloud' = Carried(t, Head(work[t].writes))
  PROVE  CloudFits(cloud)' /\ (cloud.walls # <<>> => cloud'.walls # <<>>)
  <1>1. CASE cloud' = cloud
    BY <1>1, FitsNext DEF ProvidersInv
  <1>2. CASE cloud' = Carried(t, Head(work[t].writes)) /\ Accepted(t, Head(work[t].writes))
    <2>1. PICK w : w = Head(work[t].writes)
      OBVIOUS
    <2>2. CloudFits(cloud)'
      BY <1>2, CarriedFits, FitsNext
    <2>3. w.what \in {"register", "create", "add", "remove", "activate", "make", "put", "post", "patch"}
      <3>1. CASE w \in FirewallRequests \/ w \in OtherRequests
        BY <3>1, RequestsAre
      <3>2. CASE \E k \in Kinds : w = Write("put", k)
        BY <3>2, WriteIs
      <3>3. QED
        BY <2>1, <3>1, <3>2, WritingIs
    <2>4. cloud.walls # <<>> => Carried(t, w).walls # <<>>
      BY <2>3, WallsStay
    <2>5. QED
      BY <1>2, <2>1, <2>2, <2>4
  <1>3. QED
    BY <1>1, <1>2

LEMMA LostSupplies ==
  ASSUME ProvidersInv, NEW t \in Terminals, scenario' = scenario, Processes', Lost(t)
  PROVE  ProvidersInv'
  <1>1. Working(t, "write") /\ run[t].at = "write" /\ known' = known /\ Supplying(t)
    BY DEF Lost, Working, At, Supplying, Runs
  <1>2. CloudFits(cloud)' /\ (cloud.walls # <<>> => cloud'.walls # <<>>)
    <2>1. \/ cloud' = cloud
          \/ /\ Accepted(t, Head(work[t].writes))
             /\ cloud' = Carried(t, Head(work[t].writes))
      BY DEF Lost
    <2>2. QED
      BY <1>1, <2>1, SentFits
  <1>3. CASE work[t].tries > 1
    <2>1. work' = [work EXCEPT ![t] = [work[t] EXCEPT !.tries = work[t].tries - 1]] /\ run' = run
      BY <1>3 DEF Lost
    <2>2. /\ DOMAIN work = Terminals /\ work[t].tries \in 1..MaxTries
          /\ DOMAIN work[t] = {"todo", "writes", "tries", "read", "there", "created"}
      BY StartIs DEF ProvidersInv, WorkTypes
    <2>3. /\ work'[t] = [work[t] EXCEPT !.tries = work[t].tries - 1] /\ DOMAIN work' = Terminals
          /\ \A u \in Terminals \ {t} : work'[u] = work[u]
      BY <2>1, <2>2
    <2>4. /\ work'[t].todo = work[t].todo /\ work'[t].writes = work[t].writes
          /\ work'[t].read = work[t].read /\ work'[t].there = work[t].there
          /\ work'[t].tries = work[t].tries - 1 /\ DOMAIN work'[t] = DOMAIN work[t]
      BY <2>2, <2>3
    <2>5. work'[t].tries \in 1..MaxTries
      BY <1>3, <2>2, <2>4, ProvidersAssumption
    <2>6. Supplied(t)'
      BY <1>1, <1>2, <2>1, <2>4, SuppliedKept DEF ProvidersInv
    <2>7. QED
      BY <1>1, <1>2, <2>1, <2>2, <2>3, <2>4, <2>5, <2>6, StepSupplies, StartIs DEF ProvidersInv
  <1>4. CASE ~(work[t].tries > 1)
    <2>1. Return(t) /\ work' = [work EXCEPT ![t] = Start]
      BY <1>4 DEF Lost, GiveUp
    <2>2. QED
      BY <1>1, <1>2, <2>1, FreshSupplies DEF ProvidersInv
  <1>5. QED
    BY <1>3, <1>4

\* The request that is answered, with others of the step after it.
LEMMA AnsweredIs ==
  ASSUME ProvidersInv, NEW t \in Terminals, Answered(t), Len(work[t].writes) > 1
  PROVE  /\ Step(t) = "firewall" /\ FirewallWork(t) /\ Step(t)' = Step(t)
         /\ Head(work[t].writes) = work[t].writes[1]
         /\ work'[t].writes = Tail(work[t].writes) /\ work'[t].tries = MaxTries
         /\ work'[t].read = IF work[t].writes[1].what = "create" THEN {"created"} ELSE work[t].read
         /\ DOMAIN work' = Terminals /\ DOMAIN work'[t] = DOMAIN Start
         /\ \A u \in Terminals \ {t} : work'[u] = work[u]
         /\ UNCHANGED <<run, known>>
  <1>1. Working(t, "write")
    BY DEF Answered
  <1>2. Step(t) = "firewall" /\ FirewallWork(t)
    <2>1. Len(work[t].writes) # 1
      <3>1. ASSUME NEW n, n > 1 PROVE n # 1
        BY <3>1
      <3>2. QED
        BY <3>1
    <2>2. QED
      BY <1>1, <2>1, WritingIs, Zenon
  <1>3. Head(work[t].writes) = work[t].writes[1]
    BY <1>2, HeadIs
  <1> DEFINE rest == Tail(work[t].writes)
             read == IF work[t].writes[1].what = "create" THEN {"created"} ELSE work[t].read
  <1>4. /\ work' = [work EXCEPT ![t].writes = rest, ![t].tries = MaxTries, ![t].read = read]
        /\ UNCHANGED <<run, known>>
    BY <1>3 DEF Answered
  <1>5. DOMAIN work = Terminals /\ DOMAIN work[t] = {"todo", "writes", "tries", "read", "there", "created"}
    BY StartIs DEF ProvidersInv, WorkTypes
  <1> HIDE DEF rest, read
  <1>6. /\ work'[t].writes = rest /\ work'[t].tries = MaxTries /\ work'[t].read = read
        /\ work'[t].todo = work[t].todo
        /\ DOMAIN work' = Terminals /\ DOMAIN work'[t] = DOMAIN work[t]
        /\ \A u \in Terminals \ {t} : work'[u] = work[u]
    BY <1>4, <1>5
  <1>7. QED
    BY <1>2, <1>3, <1>4, <1>5, <1>6, StartIs DEF rest, read, Step

LEMMA AnsweredSupplies ==
  ASSUME ProvidersInv, NEW t \in Terminals, scenario' = scenario, Processes', Answered(t)
  PROVE  ProvidersInv'
  <1>1. Working(t, "write") /\ run[t].at = "write"
    BY DEF Answered, Working, At
  <1>2. /\ Accepted(t, Head(work[t].writes)) /\ cloud' = Carried(t, Head(work[t].writes))
    BY DEF Answered
  <1>3. CloudFits(cloud)' /\ (cloud.walls # <<>> => cloud'.walls # <<>>)
    BY <1>1, <1>2, SentFits
  <1>4. CASE Len(work[t].writes) > 1
    <2>1. /\ Step(t) = "firewall" /\ FirewallWork(t) /\ Step(t)' = Step(t)
          /\ Head(work[t].writes) = work[t].writes[1]
          /\ work'[t].writes = Tail(work[t].writes) /\ work'[t].tries = MaxTries
          /\ work'[t].read = IF work[t].writes[1].what = "create" THEN {"created"} ELSE work[t].read
          /\ DOMAIN work' = Terminals /\ DOMAIN work'[t] = DOMAIN Start
          /\ \A u \in Terminals \ {t} : work'[u] = work[u]
          /\ UNCHANGED <<run, known>>
      BY <1>4, AnsweredIs
    <2>2. cloud'.walls # <<>>
      <3>1. CASE work[t].writes[1].what = "create"
        BY <1>2, <2>1, <3>1, CreateMakes
      <3>2. CASE work[t].writes[1].what # "create"
        BY <1>3, <2>1, <3>2 DEF FirewallWork
      <3>3. QED
        BY <3>1, <3>2
    <2>3. work'[t].read \in {{}, {"created"}}
      BY <2>1 DEF FirewallWork
    <2>4. FirewallWork(t)'
      <3> DEFINE rest == Tail(work[t].writes)
      <3>1. /\ rest \in Seq(FirewallRequests) /\ rest # <<>>
            /\ \A i \in 2..Len(rest) : rest[i].what # "create"
            /\ \A i \in 1..Len(rest) : rest[i].what = "activate" => i = Len(rest)
        BY <1>4, <2>1, NextRequest
      <3>2. work'[t].writes = rest
        BY <2>1
      <3> HIDE DEF rest
      <3>3. QED
        BY <2>2, <2>3, <3>1, <3>2 DEF FirewallWork
    <2>5. Supplied(t)'
      BY <1>1, <2>1, <2>4 DEF Supplied
    <2>6. known' \in [{"key", "wall", "record"} -> Nat] /\ work'[t].tries \in 1..MaxTries
      BY <2>1, ProvidersAssumption DEF ProvidersInv
    <2>7. QED
      BY <1>3, <2>1, <2>5, <2>6, StepSupplies
  <1>5. CASE ~(Len(work[t].writes) > 1)
    <2>1. \E buckets : Finish(t, buckets)
      BY <1>5 DEF Answered
    <2>2. known' \in [{"key", "wall", "record"} -> Nat]
      <3>1. cloud'.keys \in Nat
        BY <1>3 DEF CloudFits, Clouds
      <3>2. WallOf(t) \in Nat
        <4>1. Len(cloud.walls) \in Nat
          BY LenProperties DEF ProvidersInv, CloudFits, Clouds
        <4>2. QED
          BY <4>1 DEF WallOf, Wall
      <3>3. \/ known' = known \/ known' = [known EXCEPT !.key = cloud'.keys]
            \/ known' = [known EXCEPT !.wall = WallOf(t)] \/ known' = [known EXCEPT !.record = 1]
        BY <1>5 DEF Answered
      <3>4. QED
        BY <3>1, <3>2, <3>3 DEF ProvidersInv
    <2>3. QED
      BY <1>3, <2>1, <2>2, FinishSupplies
  <1>6. QED
    BY <1>4, <1>5

LEMMA StepKeepsProviders ==
  ASSUME ProvidersInv, NEW t \in Terminals, scenario' = scenario, Processes',
         ProvidersStep(t) \/ Lost(t) \/ Refused(t)
  PROVE  ProvidersInv'
  <1>1. ASSUME UNCHANGED <<cloud, known>>
        PROVE  CloudFits(cloud)' /\ known' \in [{"key", "wall", "record"} -> Nat] /\ cloud'.walls = cloud.walls
    BY <1>1, FitsNext DEF ProvidersInv
  <1>2. CASE PlanProviders(t)
    <2>1. /\ work' = [work EXCEPT ![t] = [Start EXCEPT !.todo = ProvidersPlan]]
          /\ Enter(t, "up-providers", "ask") /\ UNCHANGED <<cloud, known>>
      BY <1>2 DEF PlanProviders
    <2>2. QED
      BY <1>1, <2>1, FreshSupplies
  <1>3. CASE Refused(t)
    <2>1. Return(t) /\ work' = [work EXCEPT ![t] = Start] /\ UNCHANGED <<cloud, known>>
      BY <1>3 DEF Refused, GiveUp
    <2>2. QED
      BY <1>1, <2>1, FreshSupplies
  <1>4. QED
    BY <1>2, <1>3, AskSupplies, AskFirewallSupplies, AskRuleSupplies, AnsweredSupplies, LostSupplies
       DEF ProvidersStep

\* What others at the dashboards leave.
LEMMA OthersFit ==
  ASSUME ProvidersInv, scenario' = scenario, Others
  PROVE  /\ CloudFits(cloud)' /\ (cloud.walls # <<>> => cloud'.walls # <<>>)
         /\ known' \in [{"key", "wall", "record"} -> Nat] /\ UNCHANGED <<run, work>>
  <1>1. CloudFits(cloud) /\ cloud \in Clouds /\ cloud.walls \in Seq([Ports -> Nat])
    BY DEF ProvidersInv, CloudFits, Clouds
  <1>2. known' \in [{"key", "wall", "record"} -> Nat] /\ UNCHANGED <<run, work>>
    <2>1. UNCHANGED <<run, work>> /\ (known' = known \/ known' = [known EXCEPT !.record = 0])
      BY DEF Others
    <2>2. QED
      BY <2>1 DEF ProvidersInv
  <1>3. ASSUME NEW p \in Ports, NEW n \in 0..1, cloud' = [cloud EXCEPT !.walls[1][p] = n], cloud.walls # <<>>
        PROVE  CloudFits(cloud)' /\ cloud'.walls # <<>>
    <2> DEFINE rules == [cloud.walls[1] EXCEPT ![p] = n]
               walls == [cloud.walls EXCEPT ![1] = rules]
    <2>1. 1 \in 1..Len(cloud.walls) /\ Len(cloud.walls) \in Nat
      BY <1>1, <1>3, EmptySeq, LenProperties
    <2>2. cloud.walls[1] \in [Ports -> Nat]
      BY <1>1, <2>1, ElementOfSeq
    <2>3. rules \in [Ports -> Nat]
      BY <2>2
    <2>4. cloud' = [cloud EXCEPT !.walls = walls]
      BY <1>3
    <2>5. walls \in Seq([Ports -> Nat]) /\ Len(walls) = Len(cloud.walls)
      <3> HIDE DEF rules
      <3>1. QED
        BY <1>1, <2>1, <2>3, ExceptSeq
    <2> HIDE DEF walls
    <2>6. CloudFits([cloud EXCEPT !.walls = walls])
      <3>1. Len(walls) >= Len(cloud.walls)
        BY <2>1, <2>5
      <3>2. QED
        BY <1>1, <2>5, <3>1, CloudFields
    <2>7. walls # <<>>
      BY <2>1, <2>5, EmptySeq
    <2>8. cloud'.walls = walls
      BY <1>1, <2>4 DEF Clouds
    <2>9. QED
      BY <2>4, <2>6, <2>7, <2>8, FitsNext
  <1>4. ASSUME NEW own \in [Kinds -> OwnRule], NEW foreign \in [Kinds -> SUBSET ForeignRules],
               cloud' = [cloud EXCEPT !.own = own, !.foreign = foreign]
        PROVE  CloudFits(cloud)' /\ cloud'.walls = cloud.walls
    <2>1. CloudFits([cloud EXCEPT !.own = own, !.foreign = foreign])
      BY <1>1, RulesFit
    <2>2. cloud'.walls = cloud.walls
      BY <1>1, <1>4 DEF Clouds
    <2>3. QED
      BY <1>4, <2>1, <2>2, FitsNext
  <1>5. ASSUME NEW records \in Seq({"here", "elsewhere"}), cloud' = [cloud EXCEPT !.records = records]
        PROVE  CloudFits(cloud)' /\ cloud'.walls = cloud.walls
    <2>1. CloudFits([cloud EXCEPT !.records = records])
      BY <1>1, CloudFields
    <2>2. cloud'.walls = cloud.walls
      BY <1>1, <1>5 DEF Clouds
    <2>3. QED
      BY <1>5, <2>1, <2>2, FitsNext
  <1>6. CASE cloud.walls # <<>> /\ \E p \in Ports, n \in 0..1 : cloud' = [cloud EXCEPT !.walls[1][p] = n]
    BY <1>2, <1>3, <1>6
  <1>7. ASSUME NEW k \in Kinds, NEW rules \in SUBSET ForeignRules, cloud' = [cloud EXCEPT !.foreign[k] = rules]
        PROVE  CloudFits(cloud)' /\ cloud'.walls = cloud.walls
    <2>1. [cloud.foreign EXCEPT ![k] = rules] \in [Kinds -> SUBSET ForeignRules] /\ cloud.own \in [Kinds -> OwnRule]
      BY <1>1 DEF Clouds
    <2>2. cloud' = [cloud EXCEPT !.own = cloud.own, !.foreign = [cloud.foreign EXCEPT ![k] = rules]]
      BY <1>1, <1>7 DEF Clouds
    <2>3. QED
      BY <1>4, <2>1, <2>2
  <1>8. ASSUME NEW k \in Kinds, cloud' = [cloud EXCEPT !.own[k] = "outdated"]
        PROVE  CloudFits(cloud)' /\ cloud'.walls = cloud.walls
    <2>1. [cloud.own EXCEPT ![k] = "outdated"] \in [Kinds -> OwnRule] /\ cloud.foreign \in [Kinds -> SUBSET ForeignRules]
      BY <1>1 DEF Clouds, OwnRule
    <2>2. cloud' = [cloud EXCEPT !.own = [cloud.own EXCEPT ![k] = "outdated"], !.foreign = cloud.foreign]
      BY <1>1, <1>8 DEF Clouds
    <2>3. QED
      BY <1>4, <2>1, <2>2
  <1>9. {<<>>, <<"here">>, <<"elsewhere">>} \subseteq Seq({"here", "elsewhere"})
    OBVIOUS
  <1>10. QED
    BY <1>2, <1>5, <1>6, <1>7, <1>8, <1>9 DEF Others

LEMMA NextKeepsProviders ==
  ASSUME ProvidersInv, [Next]_vars, Processes'
  PROVE  ProvidersInv'
  <1>1. CASE ProvidersNext /\ OnProviders
    <2>1. scenario' = scenario
      BY <1>1 DEF OnProviders
    <2>2. CASE \E t \in Terminals : ProvidersStep(t) \/ Lost(t) \/ Refused(t)
      BY <2>1, <2>2, StepKeepsProviders
    <2>3. CASE Others
      <3>1. /\ CloudFits(cloud)' /\ (cloud.walls # <<>> => cloud'.walls # <<>>)
            /\ known' \in [{"key", "wall", "record"} -> Nat] /\ UNCHANGED <<run, work>>
        BY <2>1, <2>3, OthersFit
      <3>2. ASSUME NEW t \in Terminals, Supplying(t)'
            PROVE  Supplied(t)'
        BY <2>1, <3>1, <3>2, SuppliedKept DEF ProvidersInv, Supplying, Runs
      <3>3. WorkTypes'
        BY <3>1 DEF ProvidersInv, WorkTypes
      <3>4. QED
        BY <3>1, <3>2, <3>3 DEF ProvidersInv
    <2>4. QED
      BY <1>1, <2>2, <2>3 DEF ProvidersNext
  <1>2. CASE ~(ProvidersNext /\ OnProviders)
    <2>1. /\ UNCHANGED <<scenario, providersVars>>
          /\ \A u \in Terminals : run'[u] = run[u] \/ ~Supplying(u)'
      <3>1. \/ SecretsNext /\ OnSecrets
            \/ ReleaseBuildNext /\ OnRelease
            \/ NodeEnvNext /\ OnNodeEnv
            \/ CalmDown \/ UNCHANGED vars
        BY <1>2 DEF Next
      <3>2. Processes /\ \A t \in Terminals : Runs(t, "up-providers") => run[t].at \in UpPlaces
        BY DEF ProvidersInv, Supplying, Supplied, UpPlaces
      <3>3. QED
        BY <3>1, <3>2, OthersLeaveUp DEF Supplying
    <2>2. UNCHANGED <<cloud, known, work>>
      BY <2>1 DEF providersVars
    <2>3. CloudFits(cloud)' /\ WorkTypes' /\ known' \in [{"key", "wall", "record"} -> Nat]
      BY <2>1, <2>2, FitsNext DEF ProvidersInv, WorkTypes
    <2>4. ASSUME NEW t \in Terminals, Supplying(t)'
          PROVE  Supplied(t)'
      <3>1. run'[t] = run[t]
        BY <2>1, <2>4
      <3>2. Supplied(t)
        BY <2>4, <3>1 DEF ProvidersInv, Supplying, Runs
      <3>3. QED
        BY <2>1, <2>2, <3>1, <3>2, SuppliedKept
    <2>5. QED
      BY <2>3, <2>4 DEF ProvidersInv
  <1>3. QED
    BY <1>1, <1>2

LEMMA InitSupplied ==
  ASSUME Init
  PROVE  ProvidersInv
  <1>1. Processes
    BY InitWhole DEF BundleInv
  <1>2. work = [t \in Terminals |-> Start] /\ WorkTypes
    BY StartIs DEF Init, ProvidersInit, WorkTypes
  <1>3. \A t \in Terminals : ~Supplying(t)
    BY DEF Init, CommandsInit, Idle, Supplying, Runs
  <1>4. ASSUME NEW walls, NEW active, NEW keys, NEW made, NEW own, NEW records,
               \/ walls = <<>> /\ active = 0
               \/ walls = <<Served>> /\ active = 1,
               keys \in 0..1, made \subseteq Buckets, own \in [Kinds -> OwnRule],
               records \in {<<>>, <<"here">>}
        PROVE  CloudFits([keys |-> keys, walls |-> walls, active |-> active, made |-> made, own |-> own,
                          foreign |-> [k \in Kinds |-> {}], records |-> records])
    <2>1. Served \in [Ports -> Nat]
      BY DEF Served
    <2>2. walls \in Seq([Ports -> Nat]) /\ active \in Nat /\ active \in 0..Len(walls)
      <3>1. CASE walls = <<>> /\ active = 0
        BY <3>1
      <3>2. CASE walls = <<Served>> /\ active = 1
        <4>1. <<Served>> \in Seq([Ports -> Nat]) /\ Len(<<Served>>) = 1
          BY <2>1
        <4>2. QED
          BY <3>2, <4>1
      <3>3. QED
        BY <1>4, <3>1, <3>2
    <2>3. records \in Seq({"here", "elsewhere"}) /\ keys \in Nat
      <3>1. <<>> \in Seq({"here", "elsewhere"}) /\ <<"here">> \in Seq({"here", "elsewhere"})
        OBVIOUS
      <3>2. keys \in Nat
        BY <1>4
      <3>3. records = <<>> \/ records = <<"here">>
        BY <1>4
      <3>4. QED
        BY <3>1, <3>2, <3>3, Zenon
    <2> DEFINE c == [keys |-> keys, walls |-> walls, active |-> active, made |-> made, own |-> own,
                     foreign |-> [k \in Kinds |-> {}], records |-> records]
    <2>4. c \in Clouds /\ c.active = active /\ c.walls = walls
      BY <1>4, <2>2, <2>3 DEF Clouds
    <2> HIDE DEF c
    <2>5. CloudFits(c)
      BY <2>2, <2>4 DEF CloudFits
    <2>6. QED
      BY <2>5 DEF c
  <1>5. CloudFits(cloud)
    <2> DEFINE walls == IF Given("firewall") THEN <<>> ELSE <<Served>>
               active == IF Given("firewall") THEN 0 ELSE 1
               keys == IF Given("keys") THEN 0 ELSE 1
               made == IF Given("r2") THEN {} ELSE {BucketOf(k) : k \in Kinds}
               own == [k \in Kinds |-> IF Given("r2") THEN "none" ELSE "as wanted"]
               records == IF Given("dns") THEN <<>> ELSE <<"here">>
    <2>1. cloud = [keys |-> keys, walls |-> walls, active |-> active, made |-> made, own |-> own,
                   foreign |-> [k \in Kinds |-> {}], records |-> records]
      BY DEF Init, ProvidersInit
    <2>2. \/ walls = <<>> /\ active = 0
          \/ walls = <<Served>> /\ active = 1
      OBVIOUS
    <2>3. keys \in 0..1 /\ made \subseteq Buckets /\ own \in [Kinds -> OwnRule] /\ records \in {<<>>, <<"here">>}
      BY DEF Buckets, OwnRule
    <2> HIDE DEF walls, active, keys, made, own, records
    <2>4. QED
      BY <1>4, <2>1, <2>2, <2>3
  <1>6. known \in [{"key", "wall", "record"} -> Nat]
    <2>1. cloud.keys \in Nat /\ cloud.active \in Nat /\ Len(cloud.records) \in Nat
      BY <1>5, LenProperties DEF CloudFits, Clouds
    <2>2. known = [key |-> cloud.keys, wall |-> cloud.active, record |-> Len(cloud.records)]
      BY DEF Init, ProvidersInit
    <2>3. QED
      BY <2>1, <2>2
  <1>7. QED
    BY <1>1, <1>2, <1>3, <1>5, <1>6 DEF ProvidersInv

-----------------------------------------------------------------------------
(* A firewall in use keeps what should be open                             *)

\* No request of a firewall's step closes a port that should be open.
LEMMA PortsStay ==
  ASSUME ProvidersInv, NEW t \in Terminals, NEW w \in FirewallRequests, FirewallWork(t), Accepted(t, w),
         w.what = "create" \/ cloud.walls # <<>>
  PROVE  LET c == Carried(t, w)
         IN  /\ \A i \in 1..Len(cloud.walls), p \in Desired : cloud.walls[i][p] # 0 => c.walls[i][p] # 0
             /\ w.what # "create" => Len(c.walls) = Len(cloud.walls) /\ (c.walls = <<>> <=> cloud.walls = <<>>)
             /\ c.active = IF w.what = "activate" THEN WallOf(t) ELSE cloud.active
             /\ w.what = "add" => c.walls[WallOf(t)][w.arg] # 0
  <1> DEFINE c == Carried(t, w)
             at == WallOf(t)
  <1>1. cloud \in Clouds /\ cloud.walls \in Seq([Ports -> Nat]) /\ Len(cloud.walls) \in Nat
    BY LenProperties DEF ProvidersInv, CloudFits, Clouds
  <1>2. Desired \subseteq Ports
    BY DEF Desired, Ports
  <1>3. \A i \in 1..Len(cloud.walls) : cloud.walls[i] \in [Ports -> Nat]
    BY <1>1, ElementOfSeq
  <1>4. CASE w.what = "create"
    <2> DEFINE closed == [p \in Ports |-> 0]
    <2>1. c = [cloud EXCEPT !.walls = Append(cloud.walls, closed)]
      BY <1>4, CarriedIs
    <2>2. c.walls = Append(cloud.walls, closed) /\ c.active = cloud.active
      BY <1>1, <2>1 DEF Clouds
    <2>3. \A i \in 1..Len(cloud.walls) : Append(cloud.walls, closed)[i] = cloud.walls[i]
      <3>1. closed \in [Ports -> Nat]
        OBVIOUS
      <3> HIDE DEF closed
      <3>2. QED
        BY <1>1, <3>1, AppendProperties
    <2> HIDE DEF closed
    <2>4. QED
      BY <1>4, <2>2, <2>3
  <1>5. CASE w.what = "activate"
    <2>1. c = [cloud EXCEPT !.active = at]
      BY <1>5, CarriedIs
    <2>2. c.walls = cloud.walls /\ c.active = at
      BY <1>1, <2>1 DEF Clouds
    <2>3. QED
      BY <1>5, <2>2
  <1>6. ASSUME w.what # "create"
        PROVE  at \in 1..Len(cloud.walls) /\ cloud.walls # <<>>
    BY <1>6, WallIs
  <1>7. ASSUME NEW rules, w.what # "create", w.what # "activate",
               c = [cloud EXCEPT !.walls = [cloud.walls EXCEPT ![at] = rules]],
               \A p \in Desired : cloud.walls[at][p] # 0 => rules[p] # 0,
               rules \in [Ports -> Nat], w.what = "add" => rules[w.arg] # 0
        PROVE  /\ \A i \in 1..Len(cloud.walls), p \in Desired : cloud.walls[i][p] # 0 => c.walls[i][p] # 0
               /\ w.what # "create" => Len(c.walls) = Len(cloud.walls) /\ (c.walls = <<>> <=> cloud.walls = <<>>)
               /\ c.active = IF w.what = "activate" THEN at ELSE cloud.active
               /\ w.what = "add" => c.walls[at][w.arg] # 0
    <2>1. c.walls = [cloud.walls EXCEPT ![at] = rules] /\ c.active = cloud.active
      BY <1>1, <1>7 DEF Clouds
    <2>2. at \in 1..Len(cloud.walls) /\ cloud.walls # <<>>
      BY <1>6, <1>7
    <2>3. /\ [cloud.walls EXCEPT ![at] = rules] \in Seq([Ports -> Nat])
          /\ Len([cloud.walls EXCEPT ![at] = rules]) = Len(cloud.walls)
          /\ \A i \in 1..Len(cloud.walls) :
               [cloud.walls EXCEPT ![at] = rules][i] = IF i = at THEN rules ELSE cloud.walls[i]
      BY <1>1, <1>7, <2>2, ExceptSeq
    <2> HIDE DEF c, at
    <2>4. c.walls \in Seq([Ports -> Nat]) /\ Len(c.walls) = Len(cloud.walls) /\ c.active = cloud.active
      BY <2>1, <2>3
    <2>5. \A i \in 1..Len(cloud.walls) : c.walls[i] = IF i = at THEN rules ELSE cloud.walls[i]
      BY <2>1, <2>3
    <2>6. c.walls = <<>> <=> cloud.walls = <<>>
      BY <1>1, <2>2, <2>4, EmptySeq
    <2>7. \A i \in 1..Len(cloud.walls), p \in Desired : cloud.walls[i][p] # 0 => c.walls[i][p] # 0
      BY <1>7, <2>5
    <2>8. w.what = "add" => c.walls[at][w.arg] # 0
      BY <1>7, <2>2, <2>5
    <2>9. QED
      BY <1>7, <2>4, <2>6, <2>7, <2>8
  <1>8. CASE w.what = "add" /\ w.arg \in Ports
    <2> DEFINE rules == [cloud.walls[at] EXCEPT ![w.arg] = cloud.walls[at][w.arg] + 1]
    <2>1. c = [cloud EXCEPT !.walls = [cloud.walls EXCEPT ![at] = rules]]
      BY <1>8, CarriedInto
    <2>2. cloud.walls[at] \in [Ports -> Nat]
      BY <1>3, <1>6, <1>8
    <2>3. /\ rules \in [Ports -> Nat] /\ rules[w.arg] # 0
          /\ \A p \in Desired : cloud.walls[at][p] # 0 => rules[p] # 0
      <3> HIDE DEF at
      <3>1. QED
        BY <1>2, <1>8, <2>2
    <2> HIDE DEF rules
    <2>4. QED
      BY <1>7, <1>8, <2>1, <2>3
  <1>9. CASE w.what = "remove" /\ w.arg \in Ports \ Desired
    <2> DEFINE rules == [cloud.walls[at] EXCEPT ![w.arg] = cloud.walls[at][w.arg] - 1]
    <2>1. c = [cloud EXCEPT !.walls = [cloud.walls EXCEPT ![at] = rules]]
      BY <1>9, CarriedInto
    <2>2. cloud.walls[at] \in [Ports -> Nat]
      BY <1>3, <1>6, <1>9
    <2>3. cloud.walls[at][w.arg] # 0
      BY <1>9, RefusalIs
    <2>4. rules \in [Ports -> Nat] /\ \A p \in Desired : cloud.walls[at][p] # 0 => rules[p] # 0
      <3> HIDE DEF at
      <3>1. QED
        BY <1>2, <1>9, <2>2, <2>3
    <2> HIDE DEF rules
    <2>5. QED
      BY <1>7, <1>9, <2>1, <2>4
  <1>10. QED
    BY <1>4, <1>5, <1>8, <1>9, RequestsAre

Opening(t) == Supplying(t) /\ run[t].at = "write" /\ Step(t) = "firewall"

\* A port that should be open is open in the firewall of the step, or among
\* the requests that are still to be sent.
Opens(t) ==
  LET writes == work[t].writes
  IN  \A p \in Desired : \/ writes[1].what # "create" /\ cloud.walls[WallOf(t)][p] # 0
                         \/ \E i \in 1..Len(writes) : writes[i] = Write("add", p)

UpOpens == \A t \in Terminals : Opening(t) => Opens(t)

\* A request of the step that is carried out, and what it leaves to the others.
LEMMA RequestOpens ==
  ASSUME ProvidersInv, NEW t \in Terminals, Opening(t), Opens(t), Accepted(t, Head(work[t].writes)),
         NEW p \in Desired
  PROVE  LET w == work[t].writes[1]
             c == Carried(t, w)
         IN  \/ w.what # "create" /\ c.walls[WallOf(t)][p] # 0
             \/ \E i \in 2..Len(work[t].writes) : work[t].writes[i] = Write("add", p)
  <1> DEFINE writes == work[t].writes
             w == writes[1]
             c == Carried(t, w)
  <1>1. FirewallWork(t) /\ w = Head(writes) /\ w \in FirewallRequests /\ Len(writes) \in Nat \ {0}
    <2>1. Working(t, "write") /\ Step(t) = "firewall"
      BY DEF Opening, Supplying, Runs, Working, At
    <2>2. FirewallWork(t)
      BY <2>1, WritingIs DEF Kinds
    <2>3. QED
      BY <2>2, HeadIs
  <1>2. Accepted(t, w)
    BY <1>1
  <1>3. w.what = "create" \/ cloud.walls # <<>>
    BY <1>1 DEF FirewallWork
  <1>4. /\ \A i \in 1..Len(cloud.walls), q \in Desired : cloud.walls[i][q] # 0 => c.walls[i][q] # 0
        /\ w.what = "add" => c.walls[WallOf(t)][w.arg] # 0
    BY <1>1, <1>2, <1>3, PortsStay
  <1>5. CASE w.what # "create" /\ cloud.walls[WallOf(t)][p] # 0
    <2>1. WallOf(t) \in 1..Len(cloud.walls)
      BY <1>1, <1>3, <1>5, WallIs
    <2>2. QED
      BY <1>4, <1>5, <2>1
  <1>6. ASSUME NEW i \in 1..Len(writes), writes[i] = Write("add", p)
        PROVE  \/ w.what # "create" /\ c.walls[WallOf(t)][p] # 0
               \/ \E j \in 2..Len(writes) : writes[j] = Write("add", p)
    <2>1. CASE i = 1
      <3>1. w.what = "add" /\ w.arg = p
        BY <1>6, <2>1, WriteIs
      <3>2. QED
        BY <1>4, <3>1
    <2>2. CASE i # 1
      <3>1. i \in 2..Len(writes)
        BY <1>1, <2>2
      <3>2. QED
        BY <1>6, <3>1
    <2>3. QED
      BY <2>1, <2>2
  <1>7. QED
    BY <1>5, <1>6 DEF Opens

LEMMA AnsweredOpens ==
  ASSUME ProvidersInv, NEW t \in Terminals, Answered(t), Opening(t), Opens(t), Len(work[t].writes) > 1
  PROVE  Opens(t)'
  <1> DEFINE writes == work[t].writes
             rest == Tail(writes)
             w == writes[1]
             c == Carried(t, w)
  <1>1. /\ FirewallWork(t) /\ Head(writes) = w /\ work'[t].writes = rest
        /\ work'[t].read = IF w.what = "create" THEN {"created"} ELSE work[t].read
    BY AnsweredIs
  <1>2. cloud' = c /\ Accepted(t, Head(writes))
    BY <1>1 DEF Answered
  <1>3. /\ rest[1].what # "create" /\ Len(rest) = Len(writes) - 1 /\ Len(rest) \in Nat
        /\ \A i \in 1..Len(rest) : rest[i] = writes[i + 1]
    BY <1>1, NextRequest
  <1>4. w.what # "create" => WallOf(t)' = WallOf(t)
    <2>1. w \in FirewallRequests /\ (w.what = "create" \/ cloud.walls # <<>>)
      BY <1>1, HeadIs DEF FirewallWork
    <2>2. w.what # "create" => Len(c.walls) = Len(cloud.walls) /\ (c.walls = <<>> <=> cloud.walls = <<>>)
      BY <1>1, <1>2, <2>1, PortsStay
    <2> HIDE DEF c
    <2>3. QED
      BY <1>1, <1>2, <2>2 DEF WallOf, Wall, Created
  <1>5. ASSUME NEW p \in Desired
        PROVE  \/ rest[1].what # "create" /\ cloud'.walls[WallOf(t)'][p] # 0
               \/ \E i \in 1..Len(rest) : rest[i] = Write("add", p)
    <2>1. CASE w.what # "create" /\ c.walls[WallOf(t)][p] # 0
      BY <1>2, <1>3, <1>4, <2>1
    <2>2. CASE \E j \in 2..Len(writes) : writes[j] = Write("add", p)
      <3>1. PICK j \in 2..Len(writes) : writes[j] = Write("add", p)
        BY <2>2
      <3>2. j - 1 \in 1..Len(rest) /\ (j - 1) + 1 = j
        BY <1>3
      <3>3. rest[j - 1] = Write("add", p)
        BY <1>3, <3>1, <3>2
      <3>4. QED
        BY <3>2, <3>3
    <2>3. QED
      BY <1>2, <2>1, <2>2, RequestOpens
  <1> HIDE DEF rest
  <1>6. QED
    BY <1>1, <1>5 DEF Opens

LEMMA LostOpens ==
  ASSUME ProvidersInv, NEW t \in Terminals, Lost(t), Opening(t), Opens(t), work[t].tries > 1
  PROVE  Opens(t)'
  <1> DEFINE writes == work[t].writes
             w == writes[1]
  <1>1. FirewallWork(t) /\ w = Head(writes) /\ w \in FirewallRequests
    <2>1. Working(t, "write") /\ Step(t) = "firewall"
      BY DEF Opening, Supplying, Runs, Working, At
    <2>2. FirewallWork(t)
      BY <2>1, WritingIs DEF Kinds
    <2>3. QED
      BY <2>2, HeadIs
  <1>2. work'[t].writes = writes /\ work'[t].read = work[t].read
    <2>1. work' = [work EXCEPT ![t] = [work[t] EXCEPT !.tries = work[t].tries - 1]]
      BY DEF Lost
    <2>2. DOMAIN work = Terminals /\ DOMAIN work[t] = {"todo", "writes", "tries", "read", "there", "created"}
      BY StartIs DEF ProvidersInv, WorkTypes
    <2>3. QED
      BY <2>1, <2>2
  <1>3. CASE cloud' = cloud
    <2>1. WallOf(t)' = WallOf(t)
      BY <1>2, <1>3 DEF WallOf, Wall, Created
    <2>2. QED
      BY <1>2, <1>3, <2>1 DEF Opens
  <1>4. CASE cloud' = Carried(t, w) /\ Accepted(t, Head(writes))
    <2> DEFINE c == Carried(t, w)
    <2>1. w.what = "create" \/ cloud.walls # <<>>
      BY <1>1 DEF FirewallWork
    <2>2. w.what # "create" => WallOf(t)' = WallOf(t)
      <3>1. w.what # "create" => Len(c.walls) = Len(cloud.walls) /\ (c.walls = <<>> <=> cloud.walls = <<>>)
        BY <1>1, <1>4, <2>1, PortsStay
      <3> HIDE DEF c
      <3>2. cloud' = c
        BY <1>4 DEF c
      <3>3. QED
        BY <1>2, <3>1, <3>2 DEF WallOf, Wall, Created
    <2>3. ASSUME NEW p \in Desired
          PROVE  \/ w.what # "create" /\ cloud'.walls[WallOf(t)'][p] # 0
                 \/ \E i \in 1..Len(writes) : writes[i] = Write("add", p)
      <3>1. \A j \in 2..Len(writes) : j \in 1..Len(writes)
        BY <1>1, HeadIs
      <3>2. QED
        BY <1>4, <2>2, <3>1, RequestOpens
    <2>4. QED
      BY <1>2, <2>3 DEF Opens
  <1>5. QED
    BY <1>1, <1>3, <1>4 DEF Lost

LEMMA AskOpens ==
  ASSUME ProvidersInv, NEW t \in Terminals, AskFirewall(t)
  PROVE  Opens(t)'
  <1> DEFINE writes == Asked(cloud.walls = <<>>, Current)
  <1>1. /\ run[t].at = "ask" /\ Runs(t, "up-providers")
        /\ Current \in SUBSET Ports /\ Decide(t, writes)
    BY AskFirewallIs DEF Working, At, Runs
  <1>2. work[t].read = {}
    BY <1>1 DEF ProvidersInv, Supplying, Supplied
  <1>3. work'[t].writes = writes /\ work'[t].read = {} /\ cloud' = cloud
    BY <1>1, <1>2, DecideIs
  <1> HIDE DEF writes
  <1>4. /\ writes[1].what = "create" <=> cloud.walls = <<>>
        /\ \A p \in Desired \ Current : \E i \in 1..Len(writes) : writes[i] = Write("add", p)
    <2> DEFINE fresh == cloud.walls = <<>>
    <2>1. fresh \in BOOLEAN /\ writes = Asked(fresh, Current)
      BY DEF writes
    <2> HIDE DEF fresh
    <2>2. /\ writes[1].what = "create" <=> fresh
          /\ \A p \in Desired \ Current : \E i \in 1..Len(writes) : writes[i] = Write("add", p)
      BY <1>1, <2>1, AskedIs
    <2>3. QED
      BY <2>2 DEF fresh
  <1>5. ASSUME NEW p \in Desired, p \in Current
        PROVE  writes[1].what # "create" /\ cloud'.walls[WallOf(t)'][p] # 0
    <2>1. cloud.walls # <<>> /\ cloud.walls[1][p] # 0
      BY <1>5 DEF Current, Unfolded
    <2>2. WallOf(t)' = 1
      BY <1>3, <2>1 DEF WallOf, Wall, Created
    <2>3. QED
      BY <1>3, <1>4, <2>1, <2>2
  <1>6. ASSUME NEW p \in Desired
        PROVE  \/ writes[1].what # "create" /\ cloud'.walls[WallOf(t)'][p] # 0
               \/ \E i \in 1..Len(writes) : writes[i] = Write("add", p)
    BY <1>4, <1>5
  <1>7. QED
    BY <1>3, <1>6 DEF Opens

LEMMA EndsOpening ==
  ASSUME ProvidersInv, NEW t \in Terminals, Go(t, "ask") \/ Return(t) \/ Enter(t, "up-providers", "ask")
  PROVE  ~Opening(t)'
  <1>1. run'[t].at = "ask" \/ Return(t)
    BY OneMoves DEF ProvidersInv
  <1>2. Return(t) => ~Supplying(t)'
    BY ReturnIs DEF ProvidersInv, Supplying, Runs
  <1>3. QED
    BY <1>1, <1>2 DEF Opening

LEMMA FinishEnds ==
  ASSUME ProvidersInv, NEW t \in Terminals, NEW buckets, Finish(t, buckets)
  PROVE  ~Opening(t)'
  <1>1. Go(t, "ask") \/ Return(t)
    BY DEF Finish
  <1>2. QED
    BY <1>1, EndsOpening

LEMMA OpeningKept ==
  ASSUME ProvidersInv, UpOpens, NEW t \in Terminals, Opening(t)',
         ProvidersStep(t) \/ Lost(t) \/ Refused(t)
  PROVE  Opens(t)'
  <1>1. ~PlanProviders(t) /\ ~Refused(t)
    BY EndsOpening DEF PlanProviders, Refused, GiveUp
  <1>2. ASSUME NEW writes, Decide(t, writes), Step(t) # "firewall"
        PROVE  FALSE
    BY <1>2, DecideIs DEF Opening
  <1>3. ~AskKeys(t)
    <2>1. ASSUME AskKeys(t) PROVE FALSE
      <3>1. Step(t) # "firewall" /\ ((\E writes : Decide(t, writes)) \/ Finish(t, {}))
        BY <2>1 DEF AskKeys
      <3>2. QED
        BY <1>2, <3>1, FinishEnds
    <2>2. QED
      BY <2>1
  <1>4. ~AskDns(t)
    <2>1. ASSUME AskDns(t) PROVE FALSE
      <3>1. Step(t) # "firewall" /\ ((\E writes : Decide(t, writes)) \/ Finish(t, {}))
        BY <2>1 DEF AskDns
      <3>2. QED
        BY <1>2, <3>1, FinishEnds
    <2>2. QED
      BY <2>1
  <1>5. ~AskBucket(t)
    <2>1. ASSUME AskBucket(t) PROVE FALSE
      <3>1. Step(t) # "firewall" /\ \E writes : Decide(t, writes)
        BY <2>1 DEF AskBucket, BucketStep
      <3>2. QED
        BY <1>2, <3>1
    <2>2. QED
      BY <2>1
  <1>6. ~AskRule(t)
    <2>1. ASSUME NEW k \in Kinds, NEW read, NEW there, NEW writes, Step(t) = k,
                 work' = [work EXCEPT ![t].read = read, ![t].there = there, ![t].writes = writes]
          PROVE  FALSE
      <3>1. DOMAIN work = Terminals /\ DOMAIN work[t] = {"todo", "writes", "tries", "read", "there", "created"}
        BY StartIs DEF ProvidersInv, WorkTypes
      <3>2. work'[t].todo = work[t].todo
        BY <2>1, <3>1
      <3>3. QED
        BY <2>1, <3>2 DEF Opening, Step, Kinds
    <2>2. ASSUME AskRule(t) PROVE FALSE
      <3>1. PICK k \in Kinds : \E answer \in Answers(k) :
              /\ Step(t) = k
              /\ work' = [work EXCEPT ![t].read = IF answer = "list" THEN cloud.foreign[k] ELSE {},
                                      ![t].there = cloud.foreign[k],
                                      ![t].writes = <<Write("put", k)>>]
        BY <2>2 DEF AskRule
      <3>2. PICK answer \in Answers(k) :
              work' = [work EXCEPT ![t].read = IF answer = "list" THEN cloud.foreign[k] ELSE {},
                                   ![t].there = cloud.foreign[k],
                                   ![t].writes = <<Write("put", k)>>]
        BY <3>1
      <3> DEFINE read == IF answer = "list" THEN cloud.foreign[k] ELSE {}
                 there == cloud.foreign[k]
                 writes == <<Write("put", k)>>
      <3>3. work' = [work EXCEPT ![t].read = read, ![t].there = there, ![t].writes = writes]
        BY <3>2
      <3> HIDE DEF read, there, writes
      <3>4. QED
        BY <2>1, <3>1, <3>3
    <2>3. QED
      BY <2>2
  <1>7. CASE AskFirewall(t)
    BY <1>7, AskOpens
  <1>8. CASE Answered(t)
    <2>1. Len(work[t].writes) > 1
      <3>1. ASSUME ~(Len(work[t].writes) > 1) PROVE FALSE
        <4>1. \E buckets : Finish(t, buckets)
          BY <1>8, <3>1 DEF Answered
        <4>2. QED
          BY <4>1, FinishEnds
      <3>2. QED
        BY <3>1
    <2>2. Opening(t)
      BY <1>8, <2>1, AnsweredIs DEF Opening, Supplying, Runs
    <2>3. QED
      BY <1>8, <2>1, <2>2, AnsweredOpens DEF UpOpens
  <1>9. CASE Lost(t)
    <2>1. work[t].tries > 1
      BY <1>9, EndsOpening DEF Lost, GiveUp
    <2>2. work' = [work EXCEPT ![t] = [work[t] EXCEPT !.tries = work[t].tries - 1]] /\ run' = run
      BY <1>9, <2>1 DEF Lost
    <2>3. DOMAIN work = Terminals /\ DOMAIN work[t] = {"todo", "writes", "tries", "read", "there", "created"}
      BY StartIs DEF ProvidersInv, WorkTypes
    <2>4. Opening(t)
      <3>1. work'[t].todo = work[t].todo
        BY <2>2, <2>3
      <3>2. QED
        BY <2>2, <3>1 DEF Opening, Step, Supplying, Runs
    <2>5. QED
      BY <1>9, <2>1, <2>4, LostOpens DEF UpOpens
  <1>10. QED
    BY <1>1, <1>3, <1>4, <1>5, <1>6, <1>7, <1>8, <1>9 DEF ProvidersStep

LEMMA NextKeepsOpens ==
  ASSUME ProvidersInv, UpOpens, ~Overlapping, Free({"race"}), [Next]_vars
  PROVE  UpOpens'
  <1>1. CASE ProvidersNext /\ OnProviders
    <2>1. scenario' = scenario
      BY <1>1 DEF OnProviders
    <2>2. ASSUME NEW t \in Terminals, ProvidersStep(t) \/ Lost(t) \/ Refused(t)
          PROVE  UpOpens'
      <3>1. t \in scenario.terminals
        <4>1. PlanProviders(t) \/ Runs(t, "up-providers") \/ ~Prompt(t)
          BY <2>2 DEF ProvidersStep, AskKeys, AskFirewall, AskBucket, AskRule, AskDns, Answered, Lost,
             Refused, Working, At, Runs
        <4>2. QED
          BY <4>1 DEF PlanProviders, Typed, Runs, Prompt, Idle, ProvidersInv, Processes
      <3>2. \A u \in Terminals \ {t} : Prompt(u)
        BY <3>1, OthersArePrompt DEF ProvidersInv
      <3>3. run' = run \/ (\E step : Go(t, step)) \/ Return(t) \/ (\E step : Enter(t, "up-providers", step))
        BY <2>2 DEF ProvidersStep, PlanProviders, AskKeys, AskFirewall, AskBucket, AskRule, AskDns, Answered,
           Decide, Finish, Lost, Refused, GiveUp
      <3>4. \A u \in Terminals \ {t} : run'[u] = run[u]
        BY <3>3, OneMoves DEF ProvidersInv
      <3>5. \A u \in Terminals \ {t} : ~Opening(u)'
        BY <3>2, <3>4 DEF Opening, Supplying, Runs, Prompt, Idle
      <3>6. Opening(t)' => Opens(t)'
        BY <2>2, OpeningKept
      <3>7. QED
        BY <3>5, <3>6 DEF UpOpens
    <2>3. CASE Others
      <3>1. \A t \in Terminals : Prompt(t) /\ run'[t] = run[t]
        BY <2>3 DEF Others, Free, Given
      <3>2. QED
        BY <3>1 DEF UpOpens, Opening, Supplying, Runs, Prompt, Idle
    <2>4. QED
      BY <1>1, <2>2, <2>3 DEF ProvidersNext
  <1>2. CASE ~(ProvidersNext /\ OnProviders)
    <2>1. /\ UNCHANGED <<scenario, providersVars>>
          /\ \A u \in Terminals : run'[u] = run[u] \/ ~Supplying(u)'
      <3>1. \/ SecretsNext /\ OnSecrets
            \/ ReleaseBuildNext /\ OnRelease
            \/ NodeEnvNext /\ OnNodeEnv
            \/ CalmDown \/ UNCHANGED vars
        BY <1>2 DEF Next
      <3>2. Processes /\ \A t \in Terminals : Runs(t, "up-providers") => run[t].at \in UpPlaces
        BY DEF ProvidersInv, Supplying, Supplied, UpPlaces
      <3>3. QED
        BY <3>1, <3>2, OthersLeaveUp DEF Supplying
    <2>2. UNCHANGED <<cloud, known, work>>
      BY <2>1 DEF providersVars
    <2>3. ASSUME NEW t \in Terminals, Opening(t)'
          PROVE  Opens(t)'
      <3>1. run'[t] = run[t]
        BY <2>1, <2>3 DEF Opening
      <3>2. Opening(t)
        BY <2>2, <2>3, <3>1 DEF Opening, Supplying, Runs, Step
      <3>3. QED
        BY <2>2, <3>2 DEF UpOpens, Opens, WallOf, Wall, Created
    <2>4. QED
      BY <2>3 DEF UpOpens
  <1>3. QED
    BY <1>1, <1>2

\* The requests of the other steps have nothing to do with a firewall.
LEMMA OtherRequestsKeep ==
  ASSUME ProvidersInv, NEW t \in Terminals, NEW w, w.what \in {"register", "make", "put", "post", "patch"}
  PROVE  Carried(t, w).walls = cloud.walls /\ Carried(t, w).active = cloud.active
  <1>1. cloud \in Clouds
    BY DEF ProvidersInv, CloudFits
  <1>2. CASE w.what = "register"
    <2>1. Carried(t, w) = [cloud EXCEPT !.keys = cloud.keys + 1]
      BY <1>2, CarriedIs
    <2>2. QED
      BY <1>1, <2>1 DEF Clouds
  <1>3. CASE w.what = "make"
    <2>1. Carried(t, w) = [cloud EXCEPT !.made = cloud.made \cup {w.arg}]
      BY <1>3, CarriedIs
    <2>2. QED
      BY <1>1, <2>1 DEF Clouds
  <1>4. CASE w.what = "put"
    <2> DEFINE own == [cloud.own EXCEPT ![w.arg] = "as wanted"]
               foreign == [cloud.foreign EXCEPT ![w.arg] = work[t].read]
    <2>1. Carried(t, w) = [cloud EXCEPT !.own = own, !.foreign = foreign]
      BY <1>4, CarriedInto
    <2>2. QED
      BY <1>1, <2>1 DEF Clouds
  <1>5. CASE w.what \in {"post", "patch"}
    <2>1. \E r : Carried(t, w) = [cloud EXCEPT !.records = r]
      BY <1>5, CarriedIs
    <2>2. PICK r : Carried(t, w) = [cloud EXCEPT !.records = r]
      BY <2>1
    <2>3. QED
      BY <1>1, <2>2 DEF Clouds
  <1>6. QED
    BY <1>2, <1>3, <1>4, <1>5

LEMMA RuleKept ==
  ASSUME ProvidersInv, NEW t \in Terminals, Working(t, "write"), NEW k \in Kinds, Step(t) = k,
         cloud' = cloud \/ cloud' = Carried(t, Head(work[t].writes))
  PROVE  cloud.foreign[k] \cap work[t].there \subseteq cloud'.foreign[k]
  <1>1. PICK w : w = Head(work[t].writes)
    OBVIOUS
  <1>2. w = Write("put", k) /\ work[t].read = work[t].there
    <2>1. Step(t) # "firewall"
      BY DEF Kinds
    <2>2. QED
      BY <1>1, <2>1, WritingIs
  <1>3. cloud \in Clouds
    BY DEF ProvidersInv, CloudFits
  <1>4. CASE cloud' = cloud
    BY <1>4
  <1>5. CASE cloud' = Carried(t, w)
    <2> DEFINE own == [cloud.own EXCEPT ![w.arg] = "as wanted"]
               foreign == [cloud.foreign EXCEPT ![w.arg] = work[t].read]
    <2>1. w.what = "put" /\ w.arg = k
      BY <1>2, WriteIs
    <2>2. Carried(t, w) = [cloud EXCEPT !.own = own, !.foreign = foreign]
      BY <2>1, CarriedInto
    <2>3. Carried(t, w).foreign = foreign
      BY <1>3, <2>2 DEF Clouds
    <2>4. foreign[k] = work[t].read
      BY <1>3, <2>1 DEF Clouds
    <2>5. QED
      BY <1>2, <1>5, <2>3, <2>4
  <1>6. QED
    BY <1>1, <1>4, <1>5

LEMMA WallKept ==
  ASSUME ProvidersInv, NEW t \in Terminals, Working(t, "write"), Opening(t) => Opens(t), cloud.active # 0,
         \/ cloud' = cloud
         \/ Accepted(t, Head(work[t].writes)) /\ cloud' = Carried(t, Head(work[t].writes))
  PROVE  /\ cloud'.active # 0
         /\ Desired \cap Unfolded(cloud.walls[cloud.active]) \subseteq Unfolded(cloud'.walls[cloud'.active])
  <1>1. CASE cloud'.walls = cloud.walls /\ cloud'.active = cloud.active
    BY <1>1
  <1>2. cloud.active \in 1..Len(cloud.walls) /\ Desired \subseteq Ports
    BY LenProperties DEF ProvidersInv, CloudFits, Clouds, Desired, Ports
  <1>3. ASSUME Accepted(t, Head(work[t].writes)), cloud' = Carried(t, Head(work[t].writes)), Step(t) = "firewall"
        PROVE  /\ cloud'.active # 0
               /\ Desired \cap Unfolded(cloud.walls[cloud.active]) \subseteq Unfolded(cloud'.walls[cloud'.active])
    <2> DEFINE writes == work[t].writes
               w == writes[1]
               c == Carried(t, w)
    <2>1. FirewallWork(t) /\ w = Head(writes) /\ w \in FirewallRequests /\ Len(writes) \in Nat \ {0}
      <3>1. FirewallWork(t)
        BY <1>3, WritingIs DEF Kinds
      <3>2. QED
        BY <3>1, HeadIs
    <2>2. w.what = "create" \/ cloud.walls # <<>>
      BY <2>1 DEF FirewallWork
    <2>3. Accepted(t, w) /\ cloud' = c
      BY <1>3, <2>1
    <2>4. /\ \A i \in 1..Len(cloud.walls), p \in Desired : cloud.walls[i][p] # 0 => c.walls[i][p] # 0
          /\ c.active = IF w.what = "activate" THEN WallOf(t) ELSE cloud.active
      BY <2>1, <2>2, <2>3, PortsStay
    <2>5. CASE w.what # "activate"
      BY <1>2, <2>3, <2>4, <2>5 DEF Unfolded
    <2>6. CASE w.what = "activate"
      <3>1. Opens(t)
        BY <1>3 DEF Opening, Working, At, Supplying, Runs
      <3>2. Len(writes) = 1
        <4>1. 1 \in 1..Len(writes)
          BY <2>1
        <4>2. \A i \in 1..Len(writes) : writes[i].what = "activate" => i = Len(writes)
          BY <2>1 DEF FirewallWork
        <4>3. QED
          BY <2>6, <4>1, <4>2
      <3>3. WallOf(t) \in 1..Len(cloud.walls)
        BY <2>1, <2>2, <2>6, WallIs
      <3>4. ASSUME NEW p \in Desired
            PROVE  cloud.walls[WallOf(t)][p] # 0
        <4>1. ASSUME NEW i \in 1..Len(writes), writes[i] = Write("add", p)
              PROVE  FALSE
          BY <2>6, <3>2, <4>1, WriteIs
        <4>2. QED
          BY <3>1, <4>1 DEF Opens
      <3>5. \A p \in Desired : cloud'.walls[WallOf(t)][p] # 0
        BY <2>3, <2>4, <3>3, <3>4
      <3>6. cloud'.active = WallOf(t) /\ cloud'.active # 0
        BY <2>3, <2>4, <2>6, <3>3
      <3>7. QED
        BY <1>2, <3>5, <3>6 DEF Unfolded
    <2>7. QED
      BY <2>5, <2>6
  <1>4. ASSUME cloud' = Carried(t, Head(work[t].writes)), Step(t) # "firewall"
        PROVE  cloud'.walls = cloud.walls /\ cloud'.active = cloud.active
    <2>1. PICK w : w = Head(work[t].writes)
      OBVIOUS
    <2>2. (\E k \in Kinds : w = Write("put", k)) \/ w \in OtherRequests
      BY <1>4, <2>1, WritingIs
    <2>3. w.what \in {"register", "make", "put", "post", "patch"}
      BY <2>2, WriteIs, RequestsAre
    <2>4. QED
      BY <1>4, <2>1, <2>3, OtherRequestsKeep
  <1>5. QED
    BY <1>1, <1>3, <1>4

\* Whatever answers a run loses or does not understand, it takes nothing away
\* at the providers that others need: the rules they had on a bucket when it
\* read them, and, one run at a time and with nobody else at the dashboard,
\* the ports of the firewall in use that should be open.
THEOREM UpTakesNothing == Spec => NothingTakenAway
  <1> DEFINE Inv == BundleInv /\ ProvidersInv /\ (~Overlapping /\ Free({"race"}) => UpOpens)
             Keeps == \A t \in Terminals : Answered(t) \/ Lost(t) =>
               /\ \A k \in Kinds : Step(t) = k =>
                    cloud.foreign[k] \cap work[t].there \subseteq cloud'.foreign[k]
               /\ ~Overlapping /\ Free({"race"}) /\ cloud.active # 0 => cloud'.active # 0 /\
                    Desired \cap Unfolded(cloud.walls[cloud.active])
                      \subseteq Unfolded(cloud'.walls[cloud'.active])
  <1>1. Init => Inv
    <2> SUFFICES ASSUME Init
                 PROVE  Inv
      OBVIOUS
    <2>1. UpOpens
      BY DEF Init, CommandsInit, Idle, UpOpens, Opening, Supplying, Runs
    <2>2. QED
      BY <2>1, InitWhole, InitSupplied
  <1>2. Inv /\ [Next]_vars => Inv'
    <2> SUFFICES ASSUME Inv, [Next]_vars
                 PROVE  Inv'
      OBVIOUS
    <2>1. BundleInv' /\ ProvidersInv'
      BY NextKeepsWhole, NextKeepsProviders DEF BundleInv
    <2>2. scenario' = scenario
      BY DEF Next, OnSecrets, OnRelease, OnNodeEnv, OnProviders, CalmDown, vars, commandVars
    <2>3. ~Overlapping' /\ Free({"race"})' => UpOpens'
      BY <2>2, NextKeepsOpens DEF Overlapping, Free
    <2>4. QED
      BY <2>1, <2>3
  <1>3. Inv /\ [Next]_vars => [Keeps]_<<commandVars, providersVars>>
    <2> SUFFICES ASSUME Inv, NEW t \in Terminals, Answered(t) \/ Lost(t)
                 PROVE  /\ \A k \in Kinds : Step(t) = k =>
                             cloud.foreign[k] \cap work[t].there \subseteq cloud'.foreign[k]
                        /\ ~Overlapping /\ Free({"race"}) /\ cloud.active # 0 => cloud'.active # 0 /\
                             Desired \cap Unfolded(cloud.walls[cloud.active])
                               \subseteq Unfolded(cloud'.walls[cloud'.active])
      OBVIOUS
    <2>1. /\ Working(t, "write")
          /\ \/ cloud' = cloud
             \/ Accepted(t, Head(work[t].writes)) /\ cloud' = Carried(t, Head(work[t].writes))
      BY DEF Answered, Lost
    <2>2. \A k \in Kinds : Step(t) = k => cloud.foreign[k] \cap work[t].there \subseteq cloud'.foreign[k]
      BY <2>1, RuleKept
    <2>3. ASSUME ~Overlapping, Free({"race"}), cloud.active # 0
          PROVE  /\ cloud'.active # 0
                 /\ Desired \cap Unfolded(cloud.walls[cloud.active])
                      \subseteq Unfolded(cloud'.walls[cloud'.active])
      BY <2>1, <2>3, WallKept DEF UpOpens
    <2>4. QED
      BY <2>2, <2>3
  <1>4. QED
    BY <1>1, <1>2, <1>3, PTL DEF Spec, NothingTakenAway

-----------------------------------------------------------------------------
(* Types                                                                   *)

\* Every process is at a step of one of the scenario's commands.
Placed == run \in [Terminals -> [command : scenario.commands \cup {"none"}, at : Places]]

\* A step of the process of t, if any, of those there are.
Proceeds(t) ==
  \/ \E c : \E step \in Places : Typed(t, c) /\ Enter(t, c, step)
  \/ \E step \in Places : Go(t, step)
  \/ Return(t)
  \/ run' = run

LEMMA ProceedingIsPlaced ==
  ASSUME Placed, NEW t \in Terminals, Proceeds(t), scenario' = scenario
  PROVE  Placed'
  <1>1. CASE \E c : \E step \in Places : Typed(t, c) /\ Enter(t, c, step)
    <2>1. PICK c : \E step \in Places : Typed(t, c) /\ Enter(t, c, step)
      BY <1>1
    <2>2. PICK step \in Places : Typed(t, c) /\ Enter(t, c, step)
      BY <2>1
    <2>3. [command |-> c, at |-> step] \in [command : scenario.commands \cup {"none"}, at : Places]
      BY <2>2 DEF Typed
    <2>4. QED
      BY <2>2, <2>3 DEF Placed, Enter
  <1>2. CASE \E step \in Places : Go(t, step)
    <2>1. PICK step \in Places : run' = [run EXCEPT ![t] = [run[t] EXCEPT !.at = step]]
      BY <1>2 DEF Go
    <2>2. [run[t] EXCEPT !.at = step] \in [command : scenario.commands \cup {"none"}, at : Places]
      BY DEF Placed
    <2>3. QED
      BY <2>1, <2>2 DEF Placed
  <1>3. CASE Return(t)
    <2>1. Idle \in [command : scenario.commands \cup {"none"}, at : Places]
      BY DEF Idle, Places
    <2>2. QED
      BY <1>3, <2>1 DEF Placed, Return
  <1>4. CASE run' = run
    BY <1>4 DEF Placed
  <1>5. QED
    BY <1>1, <1>2, <1>3, <1>4 DEF Proceeds

LEMMA RamProceeds ==
  ASSUME NEW t \in Terminals, RamStep(t)
  PROVE  Proceeds(t)
  <1>1. Body(run[t].command) \in Places /\ Behind(run[t].command) \in Places
    <2>1. Body(run[t].command) \in {"editor", "ship", "keygen"}
      BY Zenon DEF Body
    <2>2. Behind(run[t].command) \in {"encrypt", "publish"}
      BY Zenon DEF Behind
    <2>3. QED
      BY <2>1, <2>2 DEF Places
  <1>2. (\E step \in Places : Go(t, step)) \/ Return(t)
    BY <1>1 DEF RamStep, OpenDirectory, AttachDisk, NoRamToBeHad, Format, FormatFails, Wipe, Detach,
           Onward, Places
  <1>3. QED
    BY <1>2 DEF Proceeds

LEMMA SecretsProceed ==
  ASSUME NEW t \in Terminals, SecretsStep(t)
  PROVE  Proceeds(t)
  <1>1. CASE SetKey(t) \/ UnsetKey(t) \/ EditKey(t) \/ DeployKeyInit(t) \/ CiSetup(t) \/ Up(t)
    <2>1. \E c : \E step \in Places : Typed(t, c) /\ Enter(t, c, step)
      BY <1>1 DEF SetKey, UnsetKey, EditKey, DeployKeyInit, CiSetup, Up, DeployKeyCommands, Places
    <2>2. QED
      BY <2>1 DEF Proceeds
  <1>2. CASE ~(SetKey(t) \/ UnsetKey(t) \/ EditKey(t) \/ DeployKeyInit(t) \/ CiSetup(t) \/ Up(t))
    <2>1. CASE RamStep(t)
      BY <2>1, RamProceeds
    <2>2. CASE ~RamStep(t)
      <3>1. (\E step \in Places : Go(t, step)) \/ Return(t)
        BY <1>2, <2>2 DEF SecretsStep, EditorCloses, Keygen, Encrypt, ReplaceBundle, ReplaceDeployKey,
           PublishKey, ReadKey, SendKey, EnsureOriginCert, StageKey, StageCert, Stage, MoveKey, MoveCert,
           NothingToMove, SecretsFail, SecretsKilled, Killed, LeaveRam, End, Places
      <3>2. QED
        BY <3>1 DEF Proceeds
    <2>3. QED
      BY <2>1, <2>2
  <1>3. QED
    BY <1>1, <1>2

LEMMA ReleaseProceeds ==
  ASSUME NEW t \in Terminals, ReleaseBuildStep(t)
  PROVE  Proceeds(t)
  <1>1. CASE VerifyVersion(t) \/ DeployTarball(t)
    BY <1>1 DEF VerifyVersion, DeployTarball, Proceeds, Places
  <1>2. CASE ~(VerifyVersion(t) \/ DeployTarball(t))
    <2>1. (\E step \in Places : Go(t, step)) \/ Return(t)
      BY <1>2 DEF ReleaseBuildStep, TagCommitTimestamp, ReleaseWorktree, CargoBuild, BuildCss, CopyBinary,
           Package, DeployIdentity, Ship, DeployFails, EndDeploy, LeaveRam, Places
    <2>2. QED
      BY <2>1 DEF Proceeds
  <1>3. QED
    BY <1>1, <1>2

LEMMA EnvProceeds ==
  ASSUME NEW t \in Terminals, EnvStep(t) \/ EnvFails(t)
  PROVE  Proceeds(t)
  <1>1. CASE PlanEnv(t)
    BY <1>1 DEF PlanEnv, Proceeds, Places
  <1>2. CASE ~PlanEnv(t)
    <2>1. (\E step \in Places : Go(t, step)) \/ Return(t)
      BY <1>2 DEF EnvStep, EnvFails, EnsureAppEnv, EnsureBackupEnv, EnsureLogsEnv, EnsureAlertEnv, Push,
           RestartVector, RestartRelay, ReadColor, RestartColor, Record, Rebuild, EnsureMesh,
           NextStep, Stop, Places
    <2>2. QED
      BY <2>1 DEF Proceeds
  <1>3. QED
    BY <1>1, <1>2

LEMMA ProvidersProceed ==
  ASSUME NEW t \in Terminals, ProvidersStep(t) \/ Lost(t) \/ Refused(t)
  PROVE  Proceeds(t)
  <1>1. CASE PlanProviders(t)
    BY <1>1 DEF PlanProviders, Proceeds, Places
  <1>2. CASE ~PlanProviders(t)
    <2>1. run' = run \/ (\E step \in Places : Go(t, step)) \/ Return(t)
      BY <1>2 DEF ProvidersStep, AskKeys, AskFirewall, AskBucket, AskRule, AskDns, Answered,
             Decide, Finish, Lost, Refused, GiveUp, Places
    <2>2. QED
      BY <2>1 DEF Proceeds
  <1>3. QED
    BY <1>1, <1>2

LEMMA NextIsPlaced ==
  ASSUME Placed, [Next]_vars
  PROVE  Placed'
  <1>1. scenario' = scenario
    BY DEF Next, OnSecrets, OnRelease, OnNodeEnv, OnProviders, CalmDown, vars, commandVars
  <1>2. run' = run \/ \E t \in Terminals : Proceeds(t)
    <2>1. CASE SecretsNext
      BY <2>1, SecretsProceed DEF SecretsNext, EditRecipients
    <2>2. CASE ReleaseBuildNext
      BY <2>2, ReleaseProceeds DEF ReleaseBuildNext, Tag
    <2>3. CASE NodeEnvNext
      BY <2>3, EnvProceeds DEF NodeEnvNext, ChangeSecret, ChangeTable, StartIdleColor, FlipColor
    <2>4. CASE ProvidersNext
      BY <2>4, ProvidersProceed DEF ProvidersNext, Others
    <2>5. CASE CalmDown \/ UNCHANGED vars
      BY <2>5 DEF CalmDown, vars, commandVars
    <2>6. QED
      BY <2>1, <2>2, <2>3, <2>4, <2>5 DEF Next
  <1>3. QED
    BY <1>1, <1>2, ProceedingIsPlaced DEF Placed

-----------------------------------------------------------------------------
(* The types of Secrets                                                    *)

\* What secrets.age may hold, and a process in its memory.
Stored == [Keys -> Values]

Memory == [data : Stored, own : SUBSET Keys, key : Generations, to : SUBSET People]

SecretsTypes ==
  /\ bundle \in Stored /\ told \in Stored
  /\ readers \in [Files -> SUBSET People] /\ recipients \in [Files -> SUBSET People]
  /\ deployKey \in Generations /\ deployPub \in Generations
  /\ ciKey \in Generations /\ minted \in Generations
  /\ mem \in [Terminals -> Memory]
  /\ staged \in [Pair -> Values] /\ served \in [Pair -> Values]

LEMMA GenerationsAre ==
  /\ 0 \in Generations /\ Generations \subseteq Nat
  /\ \A n \in Generations : n < MaxMinted => n + 1 \in Generations
  /\ 0 \in Values /\ 1 \in Values
  /\ \A n \in Generations : Generated(n) \in Values
  BY SecretsAssumption DEF Generations, Values, Empty, Generated

LEMMA TypedFit ==
  /\ TypedKeys \subseteq Keys
  /\ \A k \in TypedKeys : TypedValues(k) \subseteq Values
  /\ \A k \in Keys : TypedValues(k) \subseteq Values
  <1>1. TypedKeys \subseteq Keys
    BY DEF TypedKeys, Keys
  <1>2. ASSUME NEW k PROVE TypedValues(k) \subseteq Values
    <2>1. 1..MaxValue \subseteq Values /\ Empty \in Values
      BY SecretsAssumption DEF Values, Empty
    <2>2. QED
      BY <2>1 DEF TypedValues
  <1>3. QED
    BY <1>1, <1>2

LEMMA ChangedFits ==
  ASSUME NEW data \in Stored, NEW keys, NEW v \in Values
  PROVE  Changed(data, keys, v) \in Stored
  <1>1. \A k \in Keys : (IF k \in keys THEN v ELSE data[k]) \in Values
    BY DEF Stored
  <1>2. QED
    BY <1>1 DEF Changed, Stored

LEMMA NoMemory == NoMem \in Memory
  <1>1. [k \in Keys |-> 0] \in Stored
    BY GenerationsAre DEF Stored
  <1>2. QED
    BY <1>1, GenerationsAre DEF NoMem, Memory

LEMMA MemoryKept ==
  ASSUME SecretsTypes, NEW t \in Terminals, NEW r \in Memory, mem' = [mem EXCEPT ![t] = r]
  PROVE  mem' \in [Terminals -> Memory]
  BY DEF SecretsTypes

\* set, unset, edit and up begin.
LEMMA LoadedFits ==
  ASSUME SecretsTypes, NEW t \in Terminals, NEW own \in SUBSET Keys, NEW data \in Stored, Load(t, own, data)
  PROVE  mem' \in [Terminals -> Memory]
  <1>1. PICK r : r = [NoMem EXCEPT !.data = data, !.own = own]
    OBVIOUS
  <1>2. r \in Memory
    BY <1>1, NoMemory DEF Memory
  <1>3. QED
    BY <1>1, <1>2, MemoryKept DEF Load

LEMMA BeginningFits ==
  ASSUME SecretsTypes, NEW t \in Terminals, SetKey(t) \/ UnsetKey(t) \/ EditKey(t) \/ Up(t)
  PROVE  SecretsTypes'
  <1>1. UNCHANGED <<bundle, readers, recipients, deployKey, deployPub, ciKey, minted, staged, served, told>>
    BY DEF SetKey, UnsetKey, EditKey, Up
  <1>2. mem' \in [Terminals -> Memory]
    <2>1. CASE SetKey(t)
      <3>1. PICK k \in TypedKeys : \E v \in TypedValues(k) : Load(t, {k}, Changed(bundle, {k}, v))
        BY <2>1 DEF SetKey
      <3>2. PICK v \in TypedValues(k) : Load(t, {k}, Changed(bundle, {k}, v))
        BY <3>1
      <3>3. v \in Values /\ {k} \in SUBSET Keys
        BY TypedFit
      <3>4. Changed(bundle, {k}, v) \in Stored
        BY <3>3, ChangedFits DEF SecretsTypes
      <3>5. QED
        BY <3>2, <3>3, <3>4, LoadedFits
    <2>2. CASE UnsetKey(t)
      <3>1. PICK k \in Keys \ {RequiredKey} : Load(t, {k}, Changed(bundle, {k}, 0))
        BY <2>2 DEF UnsetKey
      <3>2. Changed(bundle, {k}, 0) \in Stored
        BY GenerationsAre, ChangedFits DEF SecretsTypes
      <3>3. QED
        BY <3>1, <3>2, LoadedFits
    <2>3. CASE EditKey(t)
      <3>1. PICK k \in TypedKeys : Load(t, {k}, bundle)
        BY <2>3 DEF EditKey
      <3>2. {k} \in SUBSET Keys
        BY TypedFit
      <3>3. QED
        BY <3>1, <3>2, LoadedFits DEF SecretsTypes
    <2>4. CASE Up(t)
      BY <2>4, LoadedFits DEF Up, SecretsTypes
    <2>5. QED
      BY <2>1, <2>2, <2>3, <2>4
  <1>3. QED
    BY <1>1, <1>2 DEF SecretsTypes

\* A step that leaves what is stored, and all memory but that of t, which it
\* may clear.
LEMMA LeftAlone ==
  ASSUME SecretsTypes, NEW t \in Terminals, mem' = mem \/ mem' = [mem EXCEPT ![t] = NoMem]
  PROVE  mem' \in [Terminals -> Memory]
  BY NoMemory, MemoryKept DEF SecretsTypes

\* A process changes its memory, and perhaps the number of key pairs made.
LEMMA WorkingFits ==
  ASSUME SecretsTypes, NEW t \in Terminals,
         EditorCloses(t) \/ Keygen(t) \/ Encrypt(t) \/ ReadKey(t) \/ EnsureOriginCert(t)
  PROVE  SecretsTypes'
  <1>1. UNCHANGED <<bundle, readers, recipients, deployKey, deployPub, ciKey, staged, served, told>>
    BY DEF EditorCloses, Keygen, Encrypt, ReadKey, EnsureOriginCert
  <1>2. mem[t] \in Memory /\ mem[t].data \in Stored
    BY DEF SecretsTypes, Memory
  <1>3. minted' \in Generations
    <2>1. minted' = minted \/ (minted < MaxMinted /\ minted' = minted + 1)
      BY DEF EditorCloses, Keygen, Encrypt, ReadKey, EnsureOriginCert
    <2>2. QED
      BY <2>1, GenerationsAre DEF SecretsTypes
  <1>4. ASSUME NEW data \in Stored
        PROVE  [mem[t] EXCEPT !.data = data] \in Memory
    BY <1>2 DEF Memory
  <1>5. ASSUME NEW key \in Generations
        PROVE  [mem[t] EXCEPT !.key = key] \in Memory
    BY <1>2 DEF Memory
  <1>6. mem' \in [Terminals -> Memory]
    <2>1. CASE EditorCloses(t)
      <3>1. mem' = mem \/ \E k \in mem[t].own : \E v \in TypedValues(k) :
                             mem' = [mem EXCEPT ![t].data = Changed(@, {k}, v)]
        BY <2>1 DEF EditorCloses
      <3>2. ASSUME NEW k \in mem[t].own, NEW v \in TypedValues(k),
                   mem' = [mem EXCEPT ![t].data = Changed(@, {k}, v)]
            PROVE  mem' \in [Terminals -> Memory]
        <4>1. k \in Keys
          BY <1>2 DEF Memory
        <4>2. v \in Values
          BY <4>1, TypedFit
        <4> DEFINE data == Changed(mem[t].data, {k}, v)
        <4>3. data \in Stored
          BY <1>2, <4>2, ChangedFits
        <4>4. mem' = [mem EXCEPT ![t] = [mem[t] EXCEPT !.data = data]]
          BY <3>2
        <4> HIDE DEF data
        <4>5. QED
          BY <1>4, <4>3, <4>4, MemoryKept
      <3>3. QED
        BY <3>1, <3>2 DEF SecretsTypes
    <2>2. CASE Keygen(t)
      <3>1. mem' = [mem EXCEPT ![t] = [mem[t] EXCEPT !.key = minted']]
        BY <2>2 DEF Keygen
      <3>2. QED
        BY <1>3, <1>5, <3>1, MemoryKept
    <2>3. CASE Encrypt(t)
      <3>1. recipients[FileOf(t)] \in SUBSET People
        BY DEF SecretsTypes, FileOf, Files
      <3>2. [mem[t] EXCEPT !.to = recipients[FileOf(t)]] \in Memory
        BY <1>2, <3>1 DEF Memory
      <3>3. mem' = [mem EXCEPT ![t] = [mem[t] EXCEPT !.to = recipients[FileOf(t)]]]
        BY <2>3 DEF Encrypt
      <3>4. QED
        BY <3>2, <3>3, MemoryKept
    <2>4. CASE ReadKey(t)
      <3>1. \/ mem' = [mem EXCEPT ![t] = [mem[t] EXCEPT !.key = deployKey]]
            \/ mem' = [mem EXCEPT ![t] = NoMem]
        BY <2>4 DEF ReadKey, End
      <3>2. [mem[t] EXCEPT !.key = deployKey] \in Memory
        BY <1>5 DEF SecretsTypes
      <3>3. QED
        BY <3>1, <3>2, MemoryKept, LeftAlone
    <2>5. CASE EnsureOriginCert(t)
      <3>1. mem' = [mem EXCEPT ![t].data = Changed(@, Pair, Generated(minted')), ![t].own = Pair]
        BY <2>5 DEF EnsureOriginCert
      <3> DEFINE data == Changed(mem[t].data, Pair, Generated(minted'))
      <3>2. data \in Stored
        <4>1. Generated(minted') \in Values
          BY <1>3, GenerationsAre
        <4>2. QED
          BY <1>2, <4>1, ChangedFits
      <3>3. [mem[t] EXCEPT !.data = data, !.own = Pair] \in Memory
        <4> HIDE DEF data
        <4>1. QED
          BY <1>2, <3>2 DEF Memory, Keys
      <3>4. mem' = [mem EXCEPT ![t] = [mem[t] EXCEPT !.data = data, !.own = Pair]]
        BY <3>1 DEF SecretsTypes
      <3>5. QED
        BY <3>3, <3>4, MemoryKept
    <2>6. QED
      BY <2>1, <2>2, <2>3, <2>4, <2>5
  <1>7. QED
    BY <1>1, <1>3, <1>6 DEF SecretsTypes

\* secrets.age, deploy.age or a copy of its key is written.
LEMMA WritingFits ==
  ASSUME SecretsTypes, NEW t \in Terminals,
         ReplaceBundle(t) \/ ReplaceDeployKey(t) \/ PublishKey(t) \/ SendKey(t)
  PROVE  SecretsTypes'
  <1>1. UNCHANGED <<recipients, minted, staged, served>>
    BY DEF ReplaceBundle, ReplaceDeployKey, PublishKey, SendKey
  <1>2. /\ mem[t].data \in Stored
        /\ mem[t].key \in Generations /\ mem[t].to \in SUBSET People
    BY DEF SecretsTypes, Memory
  <1>3. mem' \in [Terminals -> Memory]
    <2>1. mem' = mem \/ mem' = [mem EXCEPT ![t] = NoMem]
      BY DEF ReplaceBundle, ReplaceDeployKey, PublishKey, SendKey, End
    <2>2. QED
      BY <2>1, LeftAlone
  <1>4. bundle' \in Stored /\ told' \in Stored
    <2>1. \/ UNCHANGED <<bundle, told>>
          \/ /\ bundle' = mem[t].data
             /\ told' = [k \in Keys |-> IF k \in mem[t].own THEN mem[t].data[k] ELSE told[k]]
      BY DEF ReplaceBundle, ReplaceDeployKey, PublishKey, SendKey
    <2>2. [k \in Keys |-> IF k \in mem[t].own THEN mem[t].data[k] ELSE told[k]] \in Stored
      BY <1>2 DEF SecretsTypes, Stored
    <2>3. QED
      BY <1>2, <2>1, <2>2 DEF SecretsTypes
  <1>5. readers' \in [Files -> SUBSET People]
    <2>1. readers' = readers \/ \E f \in Files : readers' = [readers EXCEPT ![f] = mem[t].to]
      BY DEF ReplaceBundle, ReplaceDeployKey, PublishKey, SendKey, Files
    <2>2. QED
      BY <1>2, <2>1 DEF SecretsTypes
  <1>6. deployKey' \in Generations /\ deployPub' \in Generations /\ ciKey' \in Generations
    BY <1>2 DEF ReplaceBundle, ReplaceDeployKey, PublishKey, SendKey, SecretsTypes
  <1>7. QED
    BY <1>1, <1>3, <1>4, <1>5, <1>6 DEF SecretsTypes

\* The certificate goes to the node.
LEMMA StagingFits ==
  ASSUME SecretsTypes, NEW t \in Terminals,
         StageKey(t) \/ StageCert(t) \/ MoveKey(t) \/ MoveCert(t) \/ NothingToMove(t)
  PROVE  SecretsTypes'
  <1>1. UNCHANGED <<bundle, readers, recipients, deployKey, deployPub, ciKey, minted, told>>
    BY DEF StageKey, StageCert, Stage, MoveKey, MoveCert, Move, NothingToMove
  <1>2. mem' \in [Terminals -> Memory]
    <2>1. mem' = mem \/ mem' = [mem EXCEPT ![t] = NoMem]
      BY DEF StageKey, StageCert, Stage, MoveKey, MoveCert, Move, NothingToMove, End
    <2>2. QED
      BY <2>1, LeftAlone
  <1>3. \A k \in Pair : k \in Keys /\ mem[t].data[k] \in Values
    BY DEF Keys, SecretsTypes, Memory, Stored
  <1>4. \/ UNCHANGED <<staged, served>>
        \/ \E k \in Pair : Stage(t, k, "stage cert") \/ Stage(t, k, "move key") \/ Move(t, k)
    BY DEF StageKey, StageCert, MoveKey, MoveCert, NothingToMove, Pair
  <1>5. staged' \in [Pair -> Values] /\ served' \in [Pair -> Values]
    BY <1>3, <1>4, GenerationsAre DEF Stage, Move, SecretsTypes
  <1>6. QED
    BY <1>1, <1>2, <1>5 DEF SecretsTypes

LEMMA SecretsFit ==
  ASSUME SecretsTypes, SecretsNext
  PROVE  SecretsTypes'
  <1>1. ASSUME NEW t \in Terminals, SecretsStep(t)
        PROVE  SecretsTypes'
    <2>1. CASE SetKey(t) \/ UnsetKey(t) \/ EditKey(t) \/ Up(t)
      BY <2>1, BeginningFits
    <2>2. CASE EditorCloses(t) \/ Keygen(t) \/ Encrypt(t) \/ ReadKey(t) \/ EnsureOriginCert(t)
      BY <2>2, WorkingFits
    <2>3. CASE ReplaceBundle(t) \/ ReplaceDeployKey(t) \/ PublishKey(t) \/ SendKey(t)
      BY <2>3, WritingFits
    <2>4. CASE StageKey(t) \/ StageCert(t) \/ MoveKey(t) \/ MoveCert(t) \/ NothingToMove(t)
      BY <2>4, StagingFits
    <2>5. CASE \/ DeployKeyInit(t) \/ CiSetup(t) \/ SecretsFail(t) \/ SecretsKilled(t)
               \/ /\ RamStep(t)
                  /\ mem' = IF run'[t] = Idle THEN [mem EXCEPT ![t] = NoMem] ELSE mem
                  /\ UNCHANGED <<bundle, readers, recipients, deployKey, deployPub, ciKey, minted,
                                 staged, served, told>>
      <3>1. /\ UNCHANGED <<bundle, readers, recipients, deployKey, deployPub, ciKey, minted, staged,
                           served, told>>
            /\ mem' = mem \/ mem' = [mem EXCEPT ![t] = NoMem]
        BY <2>5 DEF DeployKeyInit, CiSetup, SecretsFail, SecretsKilled, End
      <3>2. QED
        BY <3>1, LeftAlone DEF SecretsTypes
    <2>6. QED
      BY <1>1, <2>1, <2>2, <2>3, <2>4, <2>5 DEF SecretsStep
  <1>2. ASSUME NEW f \in Files, EditRecipients(f)
        PROVE  SecretsTypes'
    <2>1. /\ UNCHANGED <<bundle, readers, deployKey, deployPub, ciKey, minted, mem, staged, served, told>>
          /\ \E list \in SUBSET People : recipients' = [recipients EXCEPT ![f] = list]
      BY <1>2 DEF EditRecipients
    <2>2. QED
      BY <2>1 DEF SecretsTypes
  <1>3. QED
    BY <1>1, <1>2 DEF SecretsNext

LEMMA SecretsStuttering ==
  ASSUME SecretsTypes, UNCHANGED secretsVars
  PROVE  SecretsTypes'
  BY DEF SecretsTypes, secretsVars

LEMMA NextKeepsSecrets ==
  ASSUME SecretsTypes, Processes, [Next]_vars
  PROVE  SecretsTypes'
  <1>1. CASE SecretsNext
    BY <1>1, SecretsFit
  <1>2. CASE ReleaseBuildNext
    BY <1>2, ReleaseBuildMoves, SecretsStuttering
  <1>3. CASE OnNodeEnv \/ OnProviders \/ CalmDown \/ UNCHANGED vars
    <2>1. UNCHANGED secretsVars
      BY <1>3 DEF OnNodeEnv, OnProviders, CalmDown, vars
    <2>2. QED
      BY <2>1, SecretsStuttering
  <1>4. QED
    BY <1>1, <1>2, <1>3 DEF Next

LEMMA InitSecrets ==
  ASSUME Init
  PROVE  SecretsTypes
  <1>1. bundle = [k \in Keys |-> IF k \in OperatorKeys THEN 1 ELSE 0] /\ told = bundle
    BY DEF Init, SecretsInit
  <1>2. \A k \in Keys : (IF k \in OperatorKeys THEN 1 ELSE 0) \in Values
    BY GenerationsAre
  <1>3. bundle \in Stored
    BY <1>1, <1>2 DEF Stored
  <1>4. recipients \in [Files -> SUBSET People] /\ readers \in [Files -> SUBSET People]
    BY SecretsAssumption DEF Init, SecretsInit
  <1>5. /\ deployKey \in Generations /\ deployPub \in Generations
        /\ ciKey \in Generations /\ minted \in Generations
        /\ staged \in [Pair -> Values] /\ served \in [Pair -> Values]
    BY GenerationsAre DEF Init, SecretsInit, NoPair
  <1>6. mem \in [Terminals -> Memory]
    BY NoMemory DEF Init, SecretsInit
  <1>7. QED
    BY <1>1, <1>3, <1>4, <1>5, <1>6 DEF SecretsTypes

LEMMA SecretsTyped ==
  ASSUME SecretsTypes
  PROVE  SecretsTypeOK
  BY DEF SecretsTypes, SecretsTypeOK, Stored, Memory

LEMMA CloudTyped ==
  ASSUME CloudFits(cloud)
  PROVE  CloudTypeOK
  <1>1. cloud \in Clouds /\ cloud.walls \in Seq([Ports -> Nat])
    BY DEF CloudFits, Clouds
  <1>2. \A i \in DOMAIN cloud.walls : cloud.walls[i] \in [Ports -> Nat]
    BY <1>1
  <1>3. QED
    BY <1>1, <1>2 DEF CloudFits, Clouds, CloudTypeOK, Buckets

-----------------------------------------------------------------------------

\* The invariants that the types of all modules follow from: Placed and
\* SecretsTypes are about types alone, the others hold them among much else.
TypeInv == Placed /\ RamInv /\ BundleInv /\ SecretsTypes /\ ReleaseInv /\ UpInv /\ ProvidersInv

\* Every process is at a step of a command of its scenario, and what the
\* commands keep in RAM, in the secrets, in the checkout, on the node and at the
\* providers is what the modules say, for any people, terminals, scenarios and
\* bounds.
THEOREM WorkstationTypes == Spec => []TypeOK
  <1>1. ASSUME Init
        PROVE  TypeInv
    <2>1. Placed
      BY <1>1 DEF Init, CommandsInit, Idle, Placed, Places
    <2>2. QED
      BY <1>1, <2>1, InitRam, InitWhole, InitSecrets, InitRelease, InitUp, InitSupplied DEF TypeInv
  <1>2. ASSUME TypeInv, [Next]_vars
        PROVE  TypeInv'
    BY <1>2, NextIsPlaced, NextKeepsRam, NextKeepsWhole, NextKeepsSecrets, NextKeepsRelease, NextKeepsUp,
       NextKeepsProviders DEF TypeInv, BundleInv
  <1>3. ASSUME TypeInv
        PROVE  TypeOK
    <2>1. RamTypeOK /\ ReleaseBuildTypeOK /\ NodeEnvTypeOK
      BY <1>3 DEF TypeInv, RamInv, ReleaseInv, UpInv
    <2>2. SecretsTypeOK
      BY <1>3, SecretsTyped DEF TypeInv
    <2>3. ProvidersTypeOK
      BY <1>3, CloudTyped DEF TypeInv, ProvidersInv, WorkTypes, ProvidersTypeOK
    <2>4. QED
      BY <1>3, <2>1, <2>2, <2>3 DEF TypeInv, Placed, TypeOK
  <1>4. QED
    BY <1>1, <1>2, <1>3, PTL DEF Spec

=============================================================================
