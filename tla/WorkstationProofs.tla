------------------------- MODULE WorkstationProofs -------------------------
(***************************************************************************)
(* Proofs about Workstation, for any people, terminals and scenarios: what *)
(* the commands may leave in RAM and in secrets.age.                       *)
(***************************************************************************)
EXTENDS Workstation, TLAPS

Bundlers == {"set", "unset", "edit", "up"}      \* they write secrets.age

\* One process per terminal, and only in the terminals of the scenario.
Processes ==
  /\ DOMAIN run = Terminals
  /\ \A t \in Terminals : /\ DOMAIN run[t] = {"command", "at"}
                          /\ ~Prompt(t) => t \in scenario.terminals

-----------------------------------------------------------------------------
(* What the commands of the other modules do to the processes              *)

\* A step in which one terminal's process, of one of these commands, ends, goes on
\* or begins; the others stay where they are.
Moves(t, commands) ==
  /\ \A u \in Terminals \ {t} : run'[u] = run[u]
  /\ run[t].command \in commands \cup {"none"}
  /\ run'[t].command \in commands \cup {"none"}
  /\ DOMAIN run' = Terminals /\ DOMAIN run'[t] = {"command", "at"}
  /\ t \in scenario.terminals

LEMMA Entering ==
  ASSUME Processes, NEW t \in Terminals, NEW c, NEW step, Typed(t, c), Enter(t, c, step)
  PROVE  Moves(t, {c})
  BY DEF Processes, Typed, Prompt, Idle, Enter, Moves

LEMMA Going ==
  ASSUME Processes, NEW t \in Terminals, NEW step, ~Prompt(t), Go(t, step)
  PROVE  Moves(t, {run[t].command})
  BY DEF Processes, Go, Moves

LEMMA Returning ==
  ASSUME Processes, NEW t \in Terminals, ~Prompt(t), Return(t)
  PROVE  Moves(t, {run[t].command})
  BY DEF Processes, Return, Idle, Moves

LEMMA EnvMoves ==
  ASSUME Processes, NodeEnvNext
  PROVE  run' = run \/ \E t \in Terminals : Moves(t, {"up-env"})
  <1>1. ASSUME NEW t \in Terminals, EnvStep(t)
        PROVE  run' = run \/ Moves(t, {"up-env"})
    <2>1. CASE PlanEnv(t)
      BY <2>1, Entering DEF PlanEnv
    <2>2. CASE ~PlanEnv(t)
      <3>1. run[t].command = "up-env"
        BY <1>1, <2>2 DEF EnvStep, EnsureAppEnv, EnsureBackupEnv, EnsureLogsEnv, EnsureAlertEnv, Push,
             RestartVector, RestartRelay, ReadColor, RestartColor, Record, Rebuild, EnsureMesh,
             Doing, At
      <3>2. (\E step : Go(t, step)) \/ Return(t)
        BY <1>1, <2>2 DEF EnvStep, EnsureAppEnv, EnsureBackupEnv, EnsureLogsEnv, EnsureAlertEnv, Push,
             RestartVector, RestartRelay, ReadColor, RestartColor, Record, Rebuild, EnsureMesh,
             NextStep, Stop
      <3>3. QED
        BY <3>1, <3>2, Going, Returning DEF Prompt, Idle
    <2>3. QED
      BY <2>1, <2>2
  <1>2. ASSUME NEW t \in Terminals, EnvFails(t)
        PROVE  Moves(t, {"up-env"})
    <2>1. run[t].command = "up-env" /\ Return(t)
      BY <1>2 DEF EnvFails, Stop
    <2>2. ~Prompt(t)
      BY <2>1 DEF Prompt, Idle
    <2>3. QED
      BY <2>1, <2>2, Returning
  <1>3. ASSUME ~(\E t \in Terminals : EnvStep(t) \/ EnvFails(t))
        PROVE  run' = run
    BY <1>3 DEF NodeEnvNext, ChangeSecret, ChangeTable, StartIdleColor, FlipColor
  <1>4. QED
    BY <1>1, <1>2, <1>3

LEMMA ProvidersMoves ==
  ASSUME Processes, ProvidersNext
  PROVE  run' = run \/ \E t \in Terminals : Moves(t, {"up-providers"})
  <1>1. ASSUME NEW t \in Terminals, ProvidersStep(t)
        PROVE  run' = run \/ Moves(t, {"up-providers"})
    <2>1. CASE PlanProviders(t)
      BY <2>1, Entering DEF PlanProviders
    <2>2. CASE ~PlanProviders(t)
      <3>1. run[t].command = "up-providers"
        BY <1>1, <2>2 DEF ProvidersStep, AskKeys, AskFirewall, AskBucket, AskRule, AskDns, Answered,
             Working, At
      <3>2. run' = run \/ (\E step : Go(t, step)) \/ Return(t)
        BY <1>1, <2>2 DEF ProvidersStep, AskKeys, AskFirewall, AskBucket, AskRule, AskDns, Answered,
             Decide, Finish
      <3>3. QED
        BY <3>1, <3>2, Going, Returning DEF Prompt, Idle
    <2>3. QED
      BY <2>1, <2>2
  <1>2. ASSUME NEW t \in Terminals, Lost(t) \/ Refused(t)
        PROVE  run' = run \/ Moves(t, {"up-providers"})
    <2>1. run[t].command = "up-providers"
      BY <1>2 DEF Lost, Refused, Working, At
    <2>2. run' = run \/ Return(t)
      BY <1>2 DEF Lost, Refused, GiveUp
    <2>3. ~Prompt(t)
      BY <2>1 DEF Prompt, Idle
    <2>4. QED
      BY <2>1, <2>2, <2>3, Returning
  <1>3. ASSUME Others
        PROVE  run' = run
    BY <1>3 DEF Others
  <1>4. QED
    BY <1>1, <1>2, <1>3 DEF ProvidersNext

LEMMA ReleaseBuildMoves ==
  ASSUME Processes, ReleaseBuildNext
  PROVE  /\ secretsVars' = secretsVars
         /\ (run' = run /\ ram' = ram) \/ \E t \in Terminals : Moves(t, {"deploy"})
  <1>1. ASSUME NEW t \in Terminals, VerifyVersion(t) \/ DeployTarball(t)
        PROVE  secretsVars' = secretsVars /\ Moves(t, {"deploy"})
    <2>1. Typed(t, "deploy") /\ (\E step : Enter(t, "deploy", step)) /\ secretsVars' = secretsVars
      BY <1>1 DEF VerifyVersion, DeployTarball
    <2>2. QED
      BY <2>1, Entering
  <1>2. ASSUME NEW t \in Terminals,
               \/ TagCommitTimestamp(t) \/ ReleaseWorktree(t) \/ CargoBuild(t) \/ BuildCss(t)
               \/ CopyBinary(t) \/ Package(t) \/ DeployIdentity(t) \/ Ship(t) \/ DeployFails(t)
        PROVE  secretsVars' = secretsVars /\ Moves(t, {"deploy"})
    <2>1. run[t].command = "deploy" /\ secretsVars' = secretsVars
      BY <1>2 DEF TagCommitTimestamp, ReleaseWorktree, CargoBuild, BuildCss, CopyBinary, Package,
           DeployIdentity, Ship, DeployFails, Works, At
    <2>2. (\E step : Go(t, step)) \/ Return(t)
      BY <1>2 DEF TagCommitTimestamp, ReleaseWorktree, CargoBuild, BuildCss, CopyBinary, Package,
           DeployIdentity, Ship, DeployFails, EndDeploy, LeaveRam
    <2>3. ~Prompt(t)
      BY <2>1 DEF Prompt, Idle
    <2>4. QED
      BY <2>1, <2>2, <2>3, Going, Returning
  <1>3. ASSUME NEW v \in Releases, NEW c \in Commits, Tag(v, c)
        PROVE  secretsVars' = secretsVars /\ run' = run /\ ram' = ram
    BY <1>3 DEF Tag, ramVars
  <1>4. QED
    BY <1>1, <1>2, <1>3 DEF ReleaseBuildNext, ReleaseBuildStep

-----------------------------------------------------------------------------
(* Nothing is left behind in RAM                                           *)

\* Where a command has something secret in its RAM directory.
SecretSteps ==
  {<<"edit", "editor">>, <<"edit", "wipe">>, <<"deploy", "ship">>, <<"deploy", "wipe">>}
    \cup DeployKeyCommands \X {"keygen", "encrypt", "replace", "wipe"}

InHand(t) == <<run[t].command, run[t].at>> \in SecretSteps

RamInv ==
  /\ Processes /\ RamTypeOK
  /\ Free({"kill"}) => \A t \in Terminals : ram[t].secret => InHand(t)

\* A step of one terminal that leaves what it has in RAM where it should be.
LEMMA RamInvKept ==
  ASSUME RamInv, NEW t \in Terminals, NEW commands, Moves(t, commands), RamTypeOK',
         scenario' = scenario,
         \A u \in Terminals \ {t} : ram'[u] = ram[u],
         Free({"kill"}) /\ ram'[t].secret => InHand(t)'
  PROVE  RamInv'
  <1>1. Processes'
    BY DEF RamInv, Processes, Moves, Prompt
  <1>2. QED
    BY <1>1 DEF RamInv, Free, InHand, Moves

\* Where a command has nothing there, it may go where it likes.
LEMMA RamInvUntouched ==
  ASSUME RamInv, NEW t \in Terminals, NEW commands, Moves(t, commands),
         scenario' = scenario, ram' = ram, Free({"kill"}) => ~InHand(t)
  PROVE  RamInv'
  <1>1. RamTypeOK'
    BY DEF RamInv, RamTypeOK
  <1>2. Free({"kill"}) => ~ram'[t].secret
    BY DEF RamInv
  <1>3. QED
    BY <1>1, <1>2, RamInvKept

LEMMA RamStepMoves ==
  ASSUME Processes, NEW t \in Terminals, RamStep(t)
  PROVE  ~Prompt(t) /\ run[t].command \in RamCommands /\ Moves(t, {run[t].command})
  <1>1. run[t].command \in RamCommands
    BY DEF RamStep, OpenDirectory, AttachDisk, NoRamToBeHad, Format, FormatFails, Wipe, Detach, At
  <1>2. ~Prompt(t)
    BY <1>1 DEF RamCommands, Prompt, Idle
  <1>3. (\E step : Go(t, step)) \/ Return(t)
    BY DEF RamStep, OpenDirectory, AttachDisk, NoRamToBeHad, Format, FormatFails, Wipe, Detach,
           Onward
  <1>4. QED
    BY <1>1, <1>2, <1>3, Going, Returning

LEMMA RamStepKeepsRam ==
  ASSUME RamInv, NEW t \in Terminals, RamStep(t), scenario' = scenario
  PROVE  RamInv'
  <1>1. ~Prompt(t) /\ run[t].command \in RamCommands /\ Moves(t, {run[t].command})
    BY RamStepMoves DEF RamInv
  <1>4. PICK r \in [disk : BOOLEAN, secret : BOOLEAN, raising : BOOLEAN] :
          ram' = [ram EXCEPT ![t] = r]
    <2>1. ram[t] \in [disk : BOOLEAN, secret : BOOLEAN, raising : BOOLEAN]
      BY DEF RamInv, RamTypeOK
    <2>2. CASE OpenDirectory(t)
      BY <2>2 DEF OpenDirectory, NoRam
    <2>3. CASE AttachDisk(t)
      BY <2>3 DEF AttachDisk, NoRam
    <2>4. CASE NoRamToBeHad(t)
      <3>1. PICK attached \in BOOLEAN : ram' = [ram EXCEPT ![t] = [NoRam EXCEPT !.disk = attached]]
        <4>1. Given("macos") \in BOOLEAN
          BY DEF Given
        <4>2. QED
          BY <2>4, <4>1 DEF NoRamToBeHad
      <3>2. [NoRam EXCEPT !.disk = attached] \in [disk : BOOLEAN, secret : BOOLEAN, raising : BOOLEAN]
        BY DEF NoRam
      <3>3. QED
        BY <3>1, <3>2
    <2>5. CASE Format(t)
      <3>1. ram' = [ram EXCEPT ![t] = [ram[t] EXCEPT !.secret = TRUE]]
        BY <2>5 DEF Format
      <3>2. [ram[t] EXCEPT !.secret = TRUE] \in [disk : BOOLEAN, secret : BOOLEAN, raising : BOOLEAN]
        BY <2>1
      <3>3. QED
        BY <3>1, <3>2
    <2>6. CASE FormatFails(t)
      <3>1. ram' = [ram EXCEPT ![t] = [ram[t] EXCEPT !.raising = TRUE]]
        BY <2>6 DEF FormatFails
      <3>2. [ram[t] EXCEPT !.raising = TRUE] \in [disk : BOOLEAN, secret : BOOLEAN, raising : BOOLEAN]
        BY <2>1
      <3>3. QED
        BY <3>1, <3>2
    <2>7. CASE Wipe(t)
      <3>1. ram' = [ram EXCEPT ![t] = [ram[t] EXCEPT !.secret = FALSE]]
        BY <2>7 DEF Wipe
      <3>2. [ram[t] EXCEPT !.secret = FALSE] \in [disk : BOOLEAN, secret : BOOLEAN, raising : BOOLEAN]
        BY <2>1
      <3>3. QED
        BY <3>1, <3>2
    <2>8. CASE Detach(t)
      <3>1. PICK left \in BOOLEAN : ram' = [ram EXCEPT ![t] = [ram[t] EXCEPT !.disk = left]]
        BY <2>8 DEF Detach
      <3>2. [ram[t] EXCEPT !.disk = left] \in [disk : BOOLEAN, secret : BOOLEAN, raising : BOOLEAN]
        BY <2>1
      <3>3. QED
        BY <3>1, <3>2
    <2>9. QED
      BY <2>2, <2>3, <2>4, <2>5, <2>6, <2>7, <2>8 DEF RamStep
  <1>5. RamTypeOK' /\ \A u \in Terminals \ {t} : ram'[u] = ram[u]
    BY <1>4 DEF RamInv, RamTypeOK
  <1>6. ASSUME Free({"kill"}), ram'[t].secret
        PROVE  InHand(t)'
    <2>1. DOMAIN run = Terminals /\ t \in DOMAIN ram /\ DOMAIN run[t] = {"command", "at"}
      BY DEF RamInv, RamTypeOK, Processes
    <2>2. CASE OpenDirectory(t) \/ Format(t)
      <3>1. Go(t, Body(run[t].command))
        BY <2>2 DEF OpenDirectory, Format
      <3>2. run'[t].command = run[t].command /\ run'[t].at = Body(run[t].command)
        BY <3>1, <2>1 DEF Go
      <3>3. QED
        BY <3>2, <1>1 DEF Body, InHand, SecretSteps, DeployKeyCommands, RamCommands
    <2>3. CASE AttachDisk(t) \/ NoRamToBeHad(t)
      BY <1>6, <2>1, <2>3 DEF AttachDisk, NoRamToBeHad, NoRam, Given
    <2>4. CASE Wipe(t)
      <3>1. ram[t] \in [disk : BOOLEAN, secret : BOOLEAN, raising : BOOLEAN]
        BY DEF RamInv, RamTypeOK
      <3>2. ram'[t] = [ram[t] EXCEPT !.secret = FALSE]
        BY <2>1, <2>4 DEF Wipe
      <3>3. QED
        BY <1>6, <3>1, <3>2
    <2>5. CASE FormatFails(t) \/ Detach(t)
      <3>1. ~ram[t].secret
        BY <1>6, <2>5 DEF FormatFails, Detach, At, RamInv, InHand, SecretSteps, DeployKeyCommands
      <3>2. ram[t] \in [disk : BOOLEAN, secret : BOOLEAN, raising : BOOLEAN]
        BY DEF RamInv, RamTypeOK
      <3>3. ram'[t].secret = ram[t].secret
        BY <2>1, <2>5, <3>2 DEF FormatFails, Detach
      <3>4. QED
        BY <1>6, <3>1, <3>3
    <2>6. QED
      BY <2>2, <2>3, <2>4, <2>5 DEF RamStep
  <1>7. QED
    BY <1>1, <1>5, <1>6, RamInvKept

LEMMA RamInvStuttering ==
  ASSUME RamInv, UNCHANGED <<scenario, run, ram>>
  PROVE  RamInv'
  BY DEF RamInv, Processes, Prompt, RamTypeOK, Free, InHand

\* A step that hands on what is in RAM, or ends with nothing there.
LEMMA RamInvHandedOn ==
  ASSUME RamInv, NEW t \in Terminals, ~Prompt(t), scenario' = scenario,
         \/ /\ ram' = ram
            /\ \E step : Go(t, step) /\ (InHand(t) => <<run[t].command, step>> \in SecretSteps)
         \/ \E raising \in BOOLEAN :
              LeaveRam(t, raising) /\ run[t].command \in {"edit", "deploy"} \cup DeployKeyCommands
         \/ Return(t) /\ ram' = ram /\ (Free({"kill"}) => ~InHand(t))
  PROVE  RamInv'
  <1>1. DOMAIN run = Terminals /\ DOMAIN run[t] = {"command", "at"}
    BY DEF RamInv, Processes
  <1>2. CASE ram' = ram /\ \E step : Go(t, step) /\ (InHand(t) => <<run[t].command, step>> \in SecretSteps)
    <2>1. PICK step : Go(t, step) /\ (InHand(t) => <<run[t].command, step>> \in SecretSteps)
      BY <1>2
    <2>2. Moves(t, {run[t].command})
      BY <2>1, Going DEF RamInv
    <2>3. run'[t].command = run[t].command /\ run'[t].at = step
      BY <1>1, <2>1 DEF Go
    <2>4. Free({"kill"}) /\ ram'[t].secret => InHand(t)'
      BY <1>2, <2>1, <2>3 DEF RamInv, InHand, SecretSteps
    <2>5. QED
      BY <1>2, <2>2, <2>4, RamInvKept DEF RamInv, RamTypeOK
  <1>3. CASE \E raising \in BOOLEAN :
               LeaveRam(t, raising) /\ run[t].command \in {"edit", "deploy"} \cup DeployKeyCommands
    <2>1. PICK raising \in BOOLEAN : LeaveRam(t, raising)
      BY <1>3
    <2>2. Moves(t, {run[t].command})
      BY <2>1, Going DEF RamInv, LeaveRam
    <2>3. run'[t].command = run[t].command /\ run'[t].at = "wipe"
      BY <1>1, <2>1 DEF LeaveRam, Go
    <2>4. InHand(t)'
      BY <1>3, <2>3 DEF InHand, SecretSteps, DeployKeyCommands
    <2>5. RamTypeOK' /\ \A u \in Terminals \ {t} : ram'[u] = ram[u]
      <3>1. ram[t] \in [disk : BOOLEAN, secret : BOOLEAN, raising : BOOLEAN]
        BY DEF RamInv, RamTypeOK
      <3>2. [ram[t] EXCEPT !.raising = raising] \in [disk : BOOLEAN, secret : BOOLEAN, raising : BOOLEAN]
        BY <3>1
      <3>3. ram' = [ram EXCEPT ![t] = [ram[t] EXCEPT !.raising = raising]]
        BY <2>1 DEF LeaveRam
      <3>4. QED
        BY <3>2, <3>3 DEF RamInv, RamTypeOK
    <2>6. QED
      BY <2>2, <2>4, <2>5, RamInvKept
  <1>4. CASE Return(t) /\ ram' = ram /\ (Free({"kill"}) => ~InHand(t))
    BY <1>4, Returning, RamInvUntouched DEF RamInv
  <1>5. QED
    BY <1>2, <1>3, <1>4

LEMMA ReleaseBuildKeepsRam ==
  ASSUME RamInv, ReleaseBuildNext, scenario' = scenario
  PROVE  RamInv'
  <1>1. ASSUME NEW t \in Terminals, VerifyVersion(t) \/ DeployTarball(t)
        PROVE  RamInv'
    <2>1. Typed(t, "deploy") /\ (\E step : Enter(t, "deploy", step)) /\ ram' = ram
      BY <1>1 DEF VerifyVersion, DeployTarball, ramVars
    <2>2. Moves(t, {"deploy"})
      BY <2>1, Entering DEF RamInv
    <2>3. ~InHand(t)
      BY <2>1 DEF Typed, Prompt, Idle, InHand, SecretSteps, DeployKeyCommands
    <2>4. QED
      BY <2>1, <2>2, <2>3, RamInvUntouched
  <1>2. ASSUME NEW t \in Terminals,
               \/ TagCommitTimestamp(t) \/ ReleaseWorktree(t) \/ CargoBuild(t) \/ BuildCss(t)
               \/ CopyBinary(t) \/ Package(t) \/ DeployIdentity(t)
        PROVE  RamInv'
    <2>1. /\ run[t].command = "deploy" /\ ram' = ram
          /\ run[t].at \in {"timestamp", "worktree", "cargo", "css", "copy", "package", "identity"}
      BY <1>2 DEF TagCommitTimestamp, ReleaseWorktree, CargoBuild, BuildCss, CopyBinary, Package,
           DeployIdentity, Works, At, ramVars
    <2>2. (\E step : Go(t, step)) \/ Return(t)
      BY <1>2 DEF TagCommitTimestamp, ReleaseWorktree, CargoBuild, BuildCss, CopyBinary, Package,
           DeployIdentity
    <2>3. ~InHand(t) /\ ~Prompt(t)
      BY <2>1 DEF InHand, SecretSteps, DeployKeyCommands, Prompt, Idle
    <2>4. QED
      BY <2>1, <2>2, <2>3, RamInvHandedOn
  <1>3. ASSUME NEW t \in Terminals, Ship(t) \/ DeployFails(t)
        PROVE  RamInv'
    <2>1. run[t].command = "deploy" /\ ~Prompt(t)
      <3>1. run[t].command = "deploy"
        BY <1>3 DEF Ship, DeployFails, Works, At
      <3>2. QED
        BY <3>1 DEF Prompt, Idle
    <2>2. CASE \E raising \in BOOLEAN : EndDeploy(t, raising)
      <3>1. (\E raising \in BOOLEAN : LeaveRam(t, raising)) \/ (~ram[t].secret /\ Return(t) /\ ram' = ram)
        BY <2>2 DEF EndDeploy
      <3>2. CASE \E raising \in BOOLEAN : LeaveRam(t, raising)
        BY <2>1, <3>2, RamInvHandedOn
      <3>3. CASE ~ram[t].secret /\ Return(t) /\ ram' = ram
        BY <3>3, <2>1, Returning, RamInvKept DEF RamInv, RamTypeOK
      <3>4. QED
        BY <3>1, <3>2, <3>3
    <2>3. CASE run[t].at # "ship" /\ DeployFails(t)
      <3>1. ram' = ram /\ Return(t) /\ run[t].at \in {"timestamp", "worktree", "cargo", "css", "copy", "package", "identity"}
        BY <2>3 DEF DeployFails
      <3>2. ~InHand(t)
        BY <2>1, <3>1 DEF InHand, SecretSteps, DeployKeyCommands
      <3>3. QED
        BY <2>1, <3>1, <3>2, RamInvHandedOn
    <2>4. QED
      BY <1>3, <2>2, <2>3 DEF Ship, DeployFails
  <1>4. ASSUME NEW v \in Releases, NEW c \in Commits, Tag(v, c)
        PROVE  RamInv'
    BY <1>4, RamInvStuttering DEF Tag, ramVars
  <1>5. QED
    BY <1>1, <1>2, <1>3, <1>4 DEF ReleaseBuildNext, ReleaseBuildStep

LEMMA SecretsKeepRam ==
  ASSUME RamInv, SecretsNext, scenario' = scenario
  PROVE  RamInv'
  <1> USE DEF ramVars
  <1>1. ASSUME NEW t \in Terminals,
               SetKey(t) \/ UnsetKey(t) \/ EditKey(t) \/ DeployKeyInit(t) \/ CiSetup(t) \/ Up(t)
        PROVE  RamInv'
    <2>1. ram' = ram
      BY <1>1 DEF SetKey, UnsetKey, EditKey, DeployKeyInit, CiSetup, Up
    <2>2. PICK c, step : Typed(t, c) /\ Enter(t, c, step)
      <3>1. CASE SetKey(t) \/ UnsetKey(t) \/ EditKey(t)
        BY <3>1 DEF SetKey, UnsetKey, EditKey
      <3>2. CASE DeployKeyInit(t)
        BY <3>2 DEF DeployKeyInit
      <3>3. CASE CiSetup(t)
        BY <3>3 DEF CiSetup
      <3>4. CASE Up(t)
        BY <3>4 DEF Up
      <3>5. QED
        BY <1>1, <3>1, <3>2, <3>3, <3>4
    <2>3. Moves(t, {c})
      BY <2>2, Entering DEF RamInv
    <2>4. ~InHand(t)
      BY <2>2 DEF Typed, Prompt, Idle, InHand, SecretSteps, DeployKeyCommands
    <2>5. QED
      BY <2>1, <2>3, <2>4, RamInvUntouched
  <1>2. ASSUME NEW t \in Terminals,
               \/ ReplaceBundle(t) \/ PublishKey(t) \/ ReadKey(t) \/ SendKey(t)
               \/ EnsureOriginCert(t) \/ StageKey(t) \/ StageCert(t) \/ MoveKey(t)
               \/ MoveCert(t) \/ NothingToMove(t)
        PROVE  RamInv'
    <2>1. /\ run[t].command \in Bundlers \cup DeployKeyCommands
          /\ \/ run[t].command \in Bundlers /\ run[t].at = "replace"
             \/ run[t].at \in {"publish", "read key", "gh", "mint", "stage key", "stage cert",
                               "move key", "move cert"}
      BY <1>2 DEF ReplaceBundle, PublishKey, ReadKey, SendKey, EnsureOriginCert, StageKey,
           StageCert, MoveKey, MoveCert, NothingToMove, At, Bundlers, DeployKeyCommands
    <2>2. ram' = ram /\ ((\E step : Go(t, step)) \/ Return(t))
      BY <1>2 DEF ReplaceBundle, PublishKey, ReadKey, SendKey, EnsureOriginCert, StageKey,
           StageCert, MoveKey, MoveCert, NothingToMove, Stage, Move, End
    <2>3. ~InHand(t)
      <3>1. CASE run[t].command \in Bundlers /\ run[t].at = "replace"
        BY <3>1 DEF InHand, SecretSteps, Bundlers, DeployKeyCommands
      <3>2. CASE run[t].at \notin {"editor", "wipe", "ship", "keygen", "encrypt", "replace"}
        BY <3>2 DEF InHand, SecretSteps
      <3>3. QED
        BY <2>1, <3>1, <3>2
    <2>4. ~Prompt(t)
      <3>1. run[t].command # "none"
        BY <2>1 DEF Bundlers, DeployKeyCommands
      <3>2. QED
        BY <3>1 DEF Prompt, Idle
    <2>5. QED
      BY <2>2, <2>3, <2>4, RamInvHandedOn
  <1>3. ASSUME NEW t \in Terminals, EditorCloses(t)
        PROVE  RamInv'
    <2>1. run[t].command = "edit" /\ (\E raising \in BOOLEAN : LeaveRam(t, raising))
      BY <1>3 DEF EditorCloses, At
    <2>2. ~Prompt(t)
      BY <2>1 DEF Prompt, Idle
    <2>3. QED
      BY <2>1, <2>2, RamInvHandedOn
  <1>4. ASSUME NEW t \in Terminals, Keygen(t)
        PROVE  RamInv'
    <2>1. run[t].command \in DeployKeyCommands /\ ram' = ram /\ Go(t, "encrypt")
      BY <1>4 DEF Keygen, At
    <2>2. ~Prompt(t) /\ <<run[t].command, "encrypt">> \in SecretSteps
      BY <2>1 DEF Prompt, Idle, DeployKeyCommands, SecretSteps
    <2>3. QED
      BY <2>1, <2>2, RamInvHandedOn
  <1>5. ASSUME NEW t \in Terminals, Encrypt(t)
        PROVE  RamInv'
    <2>1. run[t].at = "encrypt" /\ ram' = ram /\ Go(t, "replace")
      BY <1>5 DEF Encrypt
    <2>2. ~Prompt(t)
      BY <2>1 DEF Prompt, Idle
    <2>3. InHand(t) => <<run[t].command, "replace">> \in SecretSteps
      BY <2>1 DEF InHand, SecretSteps, DeployKeyCommands
    <2>4. QED
      BY <2>1, <2>2, <2>3, RamInvHandedOn
  <1>6. ASSUME NEW t \in Terminals, ReplaceDeployKey(t)
        PROVE  RamInv'
    <2>1. run[t].command \in DeployKeyCommands /\ LeaveRam(t, FALSE)
      BY <1>6 DEF ReplaceDeployKey, At
    <2>2. ~Prompt(t)
      BY <2>1 DEF Prompt, Idle, DeployKeyCommands
    <2>3. QED
      BY <2>1, <2>2, RamInvHandedOn
  <1>7. ASSUME NEW t \in Terminals, SecretsFail(t)
        PROVE  RamInv'
    <2>1. ~Prompt(t)
      BY <1>7 DEF SecretsFail, Raises
    <2>2. CASE LeaveRam(t, TRUE) /\ run[t].command \in DeployKeyCommands
      BY <2>1, <2>2, RamInvHandedOn
    <2>3. CASE LeaveRam(t, TRUE) /\ run[t].at = "keygen" /\ run[t].command \notin DeployKeyCommands
      <3>1. ~InHand(t)
        BY <2>3 DEF InHand, SecretSteps
      <3>2. DOMAIN run = Terminals /\ ram[t] \in [disk : BOOLEAN, secret : BOOLEAN, raising : BOOLEAN]
        BY DEF RamInv, Processes, RamTypeOK
      <3>3. ram' = [ram EXCEPT ![t] = [ram[t] EXCEPT !.raising = TRUE]]
        BY <2>3 DEF LeaveRam
      <3>4. RamTypeOK' /\ (\A u \in Terminals \ {t} : ram'[u] = ram[u]) /\ ram'[t].secret = ram[t].secret
        BY <3>2, <3>3 DEF RamInv, RamTypeOK
      <3>5. Moves(t, {run[t].command})
        BY <2>1, <2>3, Going DEF RamInv, LeaveRam
      <3>6. Free({"kill"}) => ~ram'[t].secret
        BY <3>1, <3>4 DEF RamInv
      <3>7. QED
        BY <3>4, <3>5, <3>6, RamInvKept
    <2>4. CASE /\ Return(t) /\ ram' = ram
               /\ \/ run[t].at \in {"encrypt", "replace"} /\ run[t].command \notin DeployKeyCommands
                  \/ run[t].at \in {"mint", "publish", "read key", "gh",
                                    "stage key", "stage cert", "move key", "move cert"}
      <3>1. ~InHand(t)
        BY <2>4 DEF InHand, SecretSteps, DeployKeyCommands
      <3>2. QED
        BY <2>1, <2>4, <3>1, RamInvHandedOn
    <2>5. QED
      BY <1>7, <2>2, <2>3, <2>4 DEF SecretsFail, End
  <1>8. ASSUME NEW t \in Terminals, SecretsKilled(t)
        PROVE  RamInv'
    <2>1. Return(t) /\ ram' = ram /\ ~Prompt(t) /\ ~Free({"kill"})
      BY <1>8 DEF SecretsKilled, Killed, Happens, Given, Free
    <2>2. QED
      BY <2>1, RamInvHandedOn
  <1>9. ASSUME NEW f \in Files, EditRecipients(f)
        PROVE  RamInv'
    BY <1>9, RamInvStuttering DEF EditRecipients
  <1>10. QED
    BY <1>1, <1>2, <1>3, <1>4, <1>5, <1>6, <1>7, <1>8, <1>9, RamStepKeepsRam
       DEF SecretsNext, SecretsStep

LEMMA NextKeepsRam ==
  ASSUME RamInv, [Next]_vars
  PROVE  RamInv'
  <1>1. CASE SecretsNext /\ OnSecrets
    BY <1>1, SecretsKeepRam DEF OnSecrets
  <1>2. CASE ReleaseBuildNext /\ OnRelease
    BY <1>2, ReleaseBuildKeepsRam DEF OnRelease
  <1>3. ASSUME UNCHANGED <<scenario, ram>>,
               run' = run \/ \E t \in Terminals : Moves(t, {"up-env"}) \/ Moves(t, {"up-providers"})
        PROVE  RamInv'
    <2>1. CASE run' = run
      BY <1>3, <2>1, RamInvStuttering
    <2>2. ASSUME NEW t \in Terminals, Moves(t, {"up-env"}) \/ Moves(t, {"up-providers"})
          PROVE  RamInv'
      <3>1. ~InHand(t)
        BY <2>2 DEF Moves, InHand, SecretSteps, DeployKeyCommands
      <3>2. QED
        BY <1>3, <2>2, <3>1, RamInvUntouched
    <2>3. QED
      BY <1>3, <2>1, <2>2
  <1>4. CASE NodeEnvNext /\ OnNodeEnv
    BY <1>3, <1>4, EnvMoves DEF OnNodeEnv, ramVars, RamInv
  <1>5. CASE ProvidersNext /\ OnProviders
    BY <1>3, <1>5, ProvidersMoves DEF OnProviders, ramVars, RamInv
  <1>6. CASE CalmDown \/ UNCHANGED vars
    BY <1>6, RamInvStuttering DEF CalmDown, vars, commandVars, ramVars
  <1>7. QED
    BY <1>1, <1>2, <1>4, <1>5, <1>6 DEF Next

\* At first nobody is at work and nothing is in memory.
LEMMA InitRam ==
  ASSUME Init
  PROVE  RamInv
  <1>1. /\ run = [t \in Terminals |-> [command |-> "none", at |-> "prompt"]]
        /\ ram = [t \in Terminals |-> [disk |-> FALSE, secret |-> FALSE, raising |-> FALSE]]
    BY DEF Init, CommandsInit, RamInit, Idle, NoRam
  <1>2. Processes
    BY <1>1 DEF Processes, Prompt, Idle
  <1>3. RamTypeOK /\ \A t \in Terminals : ~ram[t].secret
    BY <1>1 DEF RamTypeOK
  <1>4. QED
    BY <1>2, <1>3 DEF RamInv

\* What a command takes out of its memory is wiped when it ends, unless it
\* is killed: in every scenario of any number of terminals.
THEOREM NothingLeftBehindHolds == Spec => []NothingLeftBehind
  <1>1. Init => RamInv
    BY InitRam
  <1>2. RamInv /\ [Next]_vars => RamInv'
    BY NextKeepsRam
  <1>3. RamInv => NothingLeftBehind
    <2>1. ASSUME NEW t \in Terminals, Prompt(t)
          PROVE  ~InHand(t)
      BY <2>1 DEF Prompt, Idle, InHand, SecretSteps, DeployKeyCommands
    <2>2. QED
      BY <2>1 DEF RamInv, NothingLeftBehind
  <1>4. QED
    BY <1>1, <1>2, <1>3, PTL DEF Spec

-----------------------------------------------------------------------------
(* secrets.age stays whole                                                 *)

\* A bundle with an entry for the token, and no halves of two generated pairs.
Fit(data) ==
  /\ data[RequiredKey] # 0
  /\ (\E k \in Pair : data[k] <= MaxValue) \/ data["origin_cert"] = data["origin_key"]

MemType == [data : [Keys -> Int], own : SUBSET Keys, key : Nat, to : SUBSET People]

BundleTypes ==
  /\ bundle \in [Keys -> Int] /\ told \in [Keys -> Int]
  /\ minted \in Nat /\ deployKey \in Nat
  /\ recipients \in [Files -> SUBSET People]
  /\ mem \in [Terminals -> MemType]

\* What a command that will write secrets.age has in its memory: a bundle that
\* may be stored, and, when nobody else is at work, the stored one but for its
\* own keys.
Holds(t) ==
  /\ Fit(mem[t].data)
  /\ run[t].command = "up" => mem[t].own \subseteq Pair
  /\ ~Overlapping => \A k \in Keys \ mem[t].own : mem[t].data[k] = bundle[k]

BundleInv ==
  /\ Processes /\ BundleTypes
  /\ Fit(bundle)
  /\ ~Overlapping => told = bundle
  /\ \A t \in Terminals : run[t].command \in Bundlers => Holds(t)

LEMMA KeysAre == Keys = {"hostinger_token", "app_env", "origin_cert", "origin_key"}
  BY DEF Keys, OperatorKeys, RequiredKey, Pair

LEMMA NoMemTyped == NoMem \in MemType
  BY DEF NoMem, MemType

\* A step of one terminal that does not write secrets.age.
LEMMA BundleInvKept ==
  ASSUME BundleInv, NEW t \in Terminals, NEW commands, Moves(t, commands), BundleTypes',
         UNCHANGED <<scenario, bundle, told>>,
         \A u \in Terminals \ {t} : mem'[u] = mem[u],
         run'[t].command \in Bundlers => Holds(t)'
  PROVE  BundleInv'
  <1>1. Processes'
    BY DEF BundleInv, Processes, Moves, Prompt
  <1>2. Fit(bundle)' /\ (~Overlapping => told = bundle)'
    BY DEF BundleInv, Fit, Overlapping
  <1>3. ASSUME NEW u \in Terminals \ {t}, run'[u].command \in Bundlers
        PROVE  Holds(u)'
    <2>1. run'[u] = run[u] /\ mem'[u] = mem[u]
      BY DEF Moves
    <2>2. Holds(u)
      BY <1>3, <2>1 DEF BundleInv
    <2>3. QED
      BY <2>1, <2>2 DEF Holds, Fit, Overlapping
  <1>4. QED
    BY <1>1, <1>2, <1>3 DEF BundleInv

\* A command of another kind, or one that ends, has nothing to hold.
LEMMA BundleInvLeft ==
  ASSUME BundleInv, NEW t \in Terminals, NEW commands, Moves(t, commands),
         run'[t].command \notin Bundlers, NEW r \in MemType,
         mem' = [mem EXCEPT ![t] = r],
         UNCHANGED <<scenario, bundle, told, recipients>>, minted' \in Nat, deployKey' \in Nat
  PROVE  BundleInv'
  <1>1. BundleTypes'
    BY DEF BundleInv, BundleTypes
  <1>2. \A u \in Terminals \ {t} : mem'[u] = mem[u]
    BY DEF BundleInv, BundleTypes
  <1>3. QED
    BY <1>1, <1>2, BundleInvKept

\* A command goes on with the same bundle in its memory.
LEMMA BundleInvSame ==
  ASSUME BundleInv, NEW t \in Terminals, Moves(t, {run[t].command}),
         NEW r \in MemType, r.data = mem[t].data, r.own = mem[t].own,
         mem' = [mem EXCEPT ![t] = r],
         UNCHANGED <<scenario, bundle, told, recipients>>, minted' \in Nat, deployKey' \in Nat
  PROVE  BundleInv'
  <1>1. BundleTypes' /\ mem'[t] = r /\ \A u \in Terminals \ {t} : mem'[u] = mem[u]
    BY DEF BundleInv, BundleTypes
  <1>2. ASSUME run'[t].command \in Bundlers
        PROVE  Holds(t)'
    <2>1. run'[t].command = run[t].command
      BY <1>2 DEF Moves, Bundlers
    <2>2. Holds(t)
      BY <1>2, <2>1 DEF BundleInv
    <2>3. QED
      BY <1>1, <2>1, <2>2 DEF Holds, Fit, Overlapping
  <1>3. QED
    BY <1>1, <1>2, BundleInvKept

\* A command that begins with the bundle, its own keys changed.
LEMMA BundleInvLoaded ==
  ASSUME BundleInv, NEW t \in Terminals, NEW c, Moves(t, {c}),
         NEW own \in SUBSET Keys, NEW data \in [Keys -> Int], Load(t, own, data),
         Fit(data), c = "up" => own \subseteq Pair,
         \A k \in Keys \ own : data[k] = bundle[k],
         UNCHANGED <<scenario, bundle, told, recipients, minted, deployKey>>
  PROVE  BundleInv'
  <1>1. PICK r : r = [NoMem EXCEPT !.data = data, !.own = own]
    OBVIOUS
  <1>2. r \in MemType /\ r.data = data /\ r.own = own
    BY <1>1, NoMemTyped DEF MemType
  <1>3. mem' = [mem EXCEPT ![t] = r]
    BY <1>1 DEF Load
  <1>4. BundleTypes' /\ mem'[t] = r /\ \A u \in Terminals \ {t} : mem'[u] = mem[u]
    BY <1>2, <1>3 DEF BundleInv, BundleTypes
  <1>5. run'[t].command \in {c, "none"}
    BY DEF Moves
  <1>6. mem'[t].data = data /\ mem'[t].own = own
    BY <1>2, <1>4
  <1>7. run'[t].command \in Bundlers => Holds(t)'
    <2>1. Fit(mem[t].data)'
      BY <1>6 DEF Fit
    <2>2. (\A k \in Keys \ mem[t].own : mem[t].data[k] = bundle[k])'
      BY <1>6
    <2>3. (run[t].command = "up" => mem[t].own \subseteq Pair)'
      BY <1>5, <1>6
    <2>4. QED
      BY <2>1, <2>2, <2>3 DEF Holds
  <1>8. QED
    BY <1>4, <1>7, BundleInvKept

LEMMA BundleInvStuttering ==
  ASSUME BundleInv, UNCHANGED <<scenario, run, secretsVars>>
  PROVE  BundleInv'
  BY DEF BundleInv, Processes, Prompt, BundleTypes, Fit, Overlapping, Holds, secretsVars

LEMMA ChangedIs ==
  ASSUME NEW data \in [Keys -> Int], NEW keys, NEW v \in Int
  PROVE  /\ Changed(data, keys, v) \in [Keys -> Int]
         /\ \A k \in Keys : Changed(data, keys, v)[k] = IF k \in keys THEN v ELSE data[k]
  BY DEF Changed

\* What an operator types is not 0, and no generated half.
LEMMA TypedAre ==
  /\ \A k : \A v \in TypedValues(k) : v \in Int /\ v # 0 /\ v <= MaxValue
  /\ TypedKeys \subseteq Keys /\ MaxValue \in Nat \ {0}
  BY SecretsAssumption DEF TypedValues, TypedKeys, Keys, Empty

\* A key changed to what may be typed for it, or removed, leaves a bundle fit.
LEMMA TypedFits ==
  ASSUME NEW data \in [Keys -> Int], Fit(data), NEW k \in Keys, NEW v \in Int,
         v <= MaxValue, v = 0 => k # RequiredKey
  PROVE  Fit(Changed(data, {k}, v))
  <1> DEFINE new == Changed(data, {k}, v)
  <1>1. \A j \in Keys : new[j] = IF j = k THEN v ELSE data[j]
    BY ChangedIs
  <1>2. RequiredKey \in Keys /\ Pair = {"origin_cert", "origin_key"} /\ Pair \subseteq Keys
    BY DEF Keys, OperatorKeys, Pair
  <1>3. new[RequiredKey] # 0
    BY <1>1, <1>2 DEF Fit
  <1>4. CASE k \in Pair
    BY <1>1, <1>2, <1>3, <1>4 DEF Fit
  <1>5. CASE k \notin Pair
    BY <1>1, <1>2, <1>3, <1>5 DEF Fit
  <1>6. QED
    BY <1>4, <1>5

\* set, unset, edit and up begin.
LEMMA BeginningKeepsWhole ==
  ASSUME BundleInv, NEW t \in Terminals, SetKey(t) \/ UnsetKey(t) \/ EditKey(t) \/ Up(t),
         scenario' = scenario
  PROVE  BundleInv'
  <1>1. bundle \in [Keys -> Int] /\ Fit(bundle) /\ Processes
    BY DEF BundleInv, BundleTypes
  <1>2. UNCHANGED <<scenario, bundle, told, recipients, minted, deployKey>>
    BY DEF SetKey, UnsetKey, EditKey, Up
  <1>3. CASE SetKey(t)
    <2>0. PICK k \in TypedKeys : \E v \in TypedValues(k) :
            Load(t, {k}, Changed(bundle, {k}, v)) /\ Enter(t, "set", "encrypt")
      BY <1>3 DEF SetKey
    <2>1. PICK v \in TypedValues(k) :
            Load(t, {k}, Changed(bundle, {k}, v)) /\ Enter(t, "set", "encrypt")
      BY <2>0
    <2>2. Moves(t, {"set"})
      <3>1. Typed(t, "set") /\ \E step : Enter(t, "set", step)
        BY <1>3 DEF SetKey
      <3>2. QED
        BY <1>1, <3>1, Entering
    <2>3. k \in Keys /\ v \in Int /\ v # 0 /\ v <= MaxValue
      BY TypedAre
    <2>4. Fit(Changed(bundle, {k}, v))
      BY <1>1, <2>3, TypedFits
    <2>5. /\ {k} \in SUBSET Keys /\ Changed(bundle, {k}, v) \in [Keys -> Int]
          /\ \A j \in Keys \ {k} : Changed(bundle, {k}, v)[j] = bundle[j]
      BY <1>1, <2>3, ChangedIs
    <2>6. "set" = "up" => {k} \subseteq Pair
      OBVIOUS
    <2>7. QED
      BY <1>2, <2>1, <2>2, <2>3, <2>4, <2>5, <2>6, BundleInvLoaded
  <1>4. CASE UnsetKey(t)
    <2>1. PICK k \in Keys \ {RequiredKey} :
            Load(t, {k}, Changed(bundle, {k}, 0)) /\ Enter(t, "unset", "encrypt")
      BY <1>4 DEF UnsetKey
    <2>2. Moves(t, {"unset"})
      <3>1. Typed(t, "unset") /\ \E step : Enter(t, "unset", step)
        BY <1>4 DEF UnsetKey
      <3>2. QED
        BY <1>1, <3>1, Entering
    <2>3. Fit(Changed(bundle, {k}, 0))
      <3>1. 0 \in Int /\ 0 <= MaxValue
        BY TypedAre
      <3>2. k \in Keys /\ k # RequiredKey
        BY <2>1
      <3>3. QED
        BY <1>1, <3>1, <3>2, TypedFits
    <2>4. {k} \in SUBSET Keys /\ Changed(bundle, {k}, 0) \in [Keys -> Int]
      BY <1>1, <2>1, ChangedIs
    <2>5. \A j \in Keys \ {k} : Changed(bundle, {k}, 0)[j] = bundle[j]
      BY <1>1, <2>1, ChangedIs
    <2>6. "unset" = "up" => {k} \subseteq Pair
      OBVIOUS
    <2>7. QED
      BY <1>2, <2>1, <2>2, <2>3, <2>4, <2>5, <2>6, BundleInvLoaded
  <1>5. CASE EditKey(t)
    <2>1. PICK k \in TypedKeys : Load(t, {k}, bundle)
      BY <1>5 DEF EditKey
    <2>2. Moves(t, {"edit"})
      <3>1. Typed(t, "edit") /\ \E step : Enter(t, "edit", step)
        BY <1>5 DEF EditKey
      <3>2. QED
        BY <1>1, <3>1, Entering
    <2>3. {k} \in SUBSET Keys /\ ("edit" = "up" => {k} \subseteq Pair)
      BY TypedAre
    <2>4. QED
      BY <1>1, <1>2, <2>1, <2>2, <2>3, BundleInvLoaded
  <1>6. CASE Up(t)
    <2>1. Load(t, {}, bundle) /\ Typed(t, "up") /\ \E step : Enter(t, "up", step)
      BY <1>6 DEF Up
    <2>2. Moves(t, {"up"})
      BY <1>1, <2>1, Entering
    <2>3. {} \in SUBSET Keys /\ ("up" = "up" => {} \subseteq Pair) /\ (\A k \in Keys \ {} : bundle[k] = bundle[k])
      OBVIOUS
    <2>4. QED
      BY <1>1, <1>2, <2>1, <2>2, <2>3, BundleInvLoaded
  <1>7. QED
    BY <1>3, <1>4, <1>5, <1>6

\* Commands that end, or are not about secrets.age.
LEMMA EndingKeepsWhole ==
  ASSUME BundleInv, NEW t \in Terminals, NEW c, Moves(t, {c}),
         run'[t].command \notin Bundlers, mem' = [mem EXCEPT ![t] = NoMem],
         UNCHANGED <<scenario, bundle, told, recipients, minted, deployKey>>
  PROVE  BundleInv'
  <1>1. minted' \in Nat /\ deployKey' \in Nat
    BY DEF BundleInv, BundleTypes
  <1>2. QED
    BY <1>1, NoMemTyped, BundleInvLeft

\* A command goes on and leaves its memory as it is.
LEMMA GoingOnKeepsWhole ==
  ASSUME BundleInv, NEW t \in Terminals, Moves(t, {run[t].command}), mem' = mem,
         UNCHANGED <<scenario, bundle, told, recipients, minted>>, deployKey' \in Nat
  PROVE  BundleInv'
  <1>1. minted' \in Nat /\ mem[t] \in MemType /\ mem' = [mem EXCEPT ![t] = mem[t]]
    BY DEF BundleInv, BundleTypes
  <1>2. QED
    BY <1>1, BundleInvSame

\* The one moment secrets.age changes: what is stored is what the command held,
\* and another command that holds a copy is at work only if two overlap.
LEMMA ReplacingKeepsWhole ==
  ASSUME BundleInv, NEW t \in Terminals, ReplaceBundle(t), scenario' = scenario
  PROVE  BundleInv'
  <1>1. run[t].command \in Bundlers /\ ~Prompt(t)
    <2>1. run[t].command \in Bundlers
      BY DEF ReplaceBundle, At, Bundlers
    <2>2. QED
      BY <2>1 DEF Bundlers, Prompt, Idle
  <1>2. Holds(t) /\ mem[t] \in MemType
    BY <1>1 DEF BundleInv, BundleTypes
  <1>3. mem[t].data \in [Keys -> Int]
    BY <1>2 DEF MemType
  <1>4. (\E step : Go(t, step)) \/ Return(t)
    BY DEF ReplaceBundle, End
  <1>5. Moves(t, {run[t].command})
    BY <1>1, <1>4, Going, Returning DEF BundleInv
  <1>6. bundle' = mem[t].data
        /\ told' = [k \in Keys |-> IF k \in mem[t].own THEN mem[t].data[k] ELSE told[k]]
    BY DEF ReplaceBundle
  <1>7. PICK r \in MemType : mem' = [mem EXCEPT ![t] = r] /\ (run'[t].command \in Bundlers => r = mem[t])
    <2>1. CASE run[t].command = "up"
      <3>1. mem' = [mem EXCEPT ![t] = mem[t]]
        BY <2>1 DEF ReplaceBundle, BundleInv, BundleTypes
      <3>2. QED
        BY <1>2, <3>1
    <2>2. CASE run[t].command # "up"
      <3>1. Return(t) /\ mem' = [mem EXCEPT ![t] = NoMem]
        BY <2>2 DEF ReplaceBundle, End
      <3>2. run'[t] = Idle
        BY <3>1 DEF Return, BundleInv, Processes
      <3>3. run'[t].command \notin Bundlers
        BY <3>2 DEF Idle, Bundlers
      <3>4. QED
        BY <3>1, <3>3, NoMemTyped
    <2>3. QED
      BY <2>1, <2>2
  <1>8. BundleTypes' /\ mem'[t] = r /\ \A u \in Terminals \ {t} : mem'[u] = mem[u]
    <2>1. told' \in [Keys -> Int]
      BY <1>3, <1>6 DEF BundleInv, BundleTypes
    <2>2. UNCHANGED <<recipients, minted, deployKey>>
      BY DEF ReplaceBundle
    <2>3. QED
      BY <1>3, <1>6, <1>7, <2>1, <2>2 DEF BundleInv, BundleTypes
  <1>9. Fit(bundle)'
    BY <1>2, <1>6 DEF Holds, Fit
  <1>10. ASSUME ~Overlapping
         PROVE  told' = bundle'
    <2>1. \A k \in Keys : told'[k] = bundle'[k]
      BY <1>2, <1>6, <1>10 DEF Holds, BundleInv
    <2>2. QED
      BY <2>1, <1>8 DEF BundleTypes
  <1>11. ASSUME NEW u \in Terminals, run'[u].command \in Bundlers
         PROVE  Holds(u)'
    <2>1. CASE u = t
      <3>1. mem'[t] = mem[t] /\ run'[t].command = run[t].command
        BY <1>5, <1>7, <1>8, <1>11, <2>1 DEF Moves, Bundlers
      <3>2. QED
        BY <1>2, <1>6, <2>1, <3>1 DEF Holds, Fit
    <2>2. CASE u # t
      <3>1. run'[u] = run[u] /\ mem'[u] = mem[u]
        BY <1>5, <1>8, <2>2 DEF Moves
      <3>2. Holds(u)
        BY <1>11, <3>1 DEF BundleInv
      <3>3. ~Prompt(u)
        BY <1>11, <3>1 DEF Bundlers, Prompt, Idle
      <3>4. Overlapping
        BY <1>1, <2>2, <3>3 DEF Overlapping, BundleInv, Processes
      <3>5. Overlapping'
        BY <3>4 DEF Overlapping
      <3>6. QED
        BY <3>1, <3>2, <3>5 DEF Holds, Fit
    <2>3. QED
      BY <2>1, <2>2
  <1>12. Processes'
    BY <1>5 DEF BundleInv, Processes, Moves, Prompt
  <1>13. (~Overlapping => told = bundle)'
    BY <1>10 DEF Overlapping
  <1>14. QED
    BY <1>8, <1>9, <1>11, <1>12, <1>13 DEF BundleInv

LEMMA AtWork ==
  ASSUME NEW t \in Terminals, run[t].at # "prompt"
  PROVE  ~Prompt(t)
  BY DEF Prompt, Idle

LEMMA EndKeepsWhole ==
  ASSUME BundleInv, NEW t \in Terminals, ~Prompt(t), Return(t), mem' = [mem EXCEPT ![t] = NoMem],
         UNCHANGED <<scenario, bundle, told, recipients, minted, deployKey>>
  PROVE  BundleInv'
  <1>1. Moves(t, {run[t].command})
    BY Returning DEF BundleInv
  <1>2. run'[t] = Idle
    BY DEF Return, BundleInv, Processes
  <1>3. run'[t].command \notin Bundlers
    BY <1>2 DEF Idle, Bundlers
  <1>4. QED
    BY <1>1, <1>3, EndingKeepsWhole

LEMMA GoKeepsWhole ==
  ASSUME BundleInv, NEW t \in Terminals, run[t].at # "prompt", NEW step, Go(t, step), mem' = mem,
         UNCHANGED <<scenario, bundle, told, recipients, minted>>, deployKey' \in Nat
  PROVE  BundleInv'
  <1>1. ~Prompt(t)
    BY DEF Prompt, Idle
  <1>2. Moves(t, {run[t].command})
    BY <1>1, Going DEF BundleInv
  <1>3. QED
    BY <1>2, GoingOnKeepsWhole

\* Commands about deploy.age alone.
LEMMA DeployKeyKeepsWhole ==
  ASSUME BundleInv, NEW t \in Terminals, scenario' = scenario,
         \/ DeployKeyInit(t) \/ CiSetup(t) \/ Keygen(t) \/ ReplaceDeployKey(t)
         \/ PublishKey(t) \/ ReadKey(t) \/ SendKey(t)
  PROVE  BundleInv'
  <1>1. CASE DeployKeyInit(t) \/ CiSetup(t)
    <2>1. PICK c \in DeployKeyCommands : Typed(t, c) /\ \E step : Enter(t, c, step)
      BY <1>1 DEF DeployKeyInit, CiSetup, DeployKeyCommands
    <2>2. Moves(t, {c})
      BY <2>1, Entering DEF BundleInv
    <2>3. run'[t].command \notin Bundlers
      BY <2>1, <2>2 DEF Moves, Bundlers, DeployKeyCommands
    <2>4. /\ mem' = [mem EXCEPT ![t] = NoMem]
          /\ UNCHANGED <<scenario, bundle, told, recipients, minted, deployKey>>
      BY <1>1 DEF DeployKeyInit, CiSetup
    <2>5. QED
      BY <2>2, <2>3, <2>4, EndingKeepsWhole
  <1>2. CASE Keygen(t)
    <2>1. run[t].at = "keygen" /\ Go(t, "encrypt") /\ minted' = minted + 1
      BY <1>2 DEF Keygen, At
    <2>2. Moves(t, {run[t].command})
      BY <2>1, Going DEF BundleInv, Prompt, Idle
    <2>3. minted' \in Nat /\ mem[t] \in MemType /\ deployKey \in Nat
      BY <2>1 DEF BundleInv, BundleTypes
    <2>4. PICK r : r = [mem[t] EXCEPT !.key = minted']
      OBVIOUS
    <2>5. r \in MemType /\ r.data = mem[t].data /\ r.own = mem[t].own
      BY <2>3, <2>4 DEF MemType
    <2>6. mem' = [mem EXCEPT ![t] = r] /\ UNCHANGED <<scenario, bundle, told, recipients, deployKey>>
      BY <1>2, <2>4 DEF Keygen
    <2>7. QED
      BY <2>2, <2>3, <2>5, <2>6, BundleInvSame
  <1>3. CASE ReplaceDeployKey(t)
    <2>1. run[t].at = "replace" /\ Go(t, "wipe") /\ mem' = mem /\ deployKey' = mem[t].key
      BY <1>3 DEF ReplaceDeployKey, At, LeaveRam
    <2>2. deployKey' \in Nat
      BY <2>1 DEF BundleInv, BundleTypes, MemType
    <2>3. UNCHANGED <<scenario, bundle, told, recipients, minted>>
      BY <1>3 DEF ReplaceDeployKey
    <2>4. QED
      BY <2>1, <2>2, <2>3, GoKeepsWhole
  <1>4. CASE PublishKey(t)
    <2>1. run[t].at = "publish" /\ UNCHANGED <<scenario, bundle, told, recipients, minted, deployKey>>
      BY <1>4 DEF PublishKey, At
    <2>2. CASE Go(t, "read key") /\ mem' = mem
      BY <2>1, <2>2, GoKeepsWhole DEF BundleInv, BundleTypes
    <2>3. CASE End(t)
      BY <2>1, <2>3, EndKeepsWhole, AtWork DEF End
    <2>4. QED
      BY <1>4, <2>2, <2>3 DEF PublishKey
  <1>5. CASE ReadKey(t)
    <2>1. run[t].at = "read key" /\ UNCHANGED <<scenario, bundle, told, recipients, minted, deployKey>>
      BY <1>5 DEF ReadKey, At
    <2>2. CASE mem' = [mem EXCEPT ![t].key = deployKey] /\ Go(t, "gh")
      <3>1. Moves(t, {run[t].command})
        <4>1. run[t].at = "read key"
          BY <2>1
        <4>2. ~Prompt(t)
          BY <4>1, AtWork
        <4>3. QED
          BY <2>2, <4>2, Going DEF BundleInv
      <3>2. minted' \in Nat /\ mem[t] \in MemType /\ deployKey \in Nat
        BY <2>1 DEF BundleInv, BundleTypes
      <3>3. PICK r : r = [mem[t] EXCEPT !.key = deployKey]
        OBVIOUS
      <3>4. r \in MemType /\ r.data = mem[t].data /\ r.own = mem[t].own
        BY <3>2, <3>3 DEF MemType
      <3>5. mem' = [mem EXCEPT ![t] = r]
        BY <2>2, <3>3
      <3>6. QED
        BY <2>1, <3>1, <3>2, <3>4, <3>5, BundleInvSame
    <2>3. CASE End(t)
      BY <2>1, <2>3, EndKeepsWhole, AtWork DEF End
    <2>4. QED
      BY <1>5, <2>2, <2>3 DEF ReadKey
  <1>6. CASE SendKey(t)
    <2>1. End(t) /\ UNCHANGED <<scenario, bundle, told, recipients, minted, deployKey>>
      BY <1>6 DEF SendKey
    <2>2. run[t].at = "gh"
      BY <1>6 DEF SendKey, At
    <2>3. QED
      BY <2>1, <2>2, EndKeepsWhole, AtWork DEF End
  <1>7. QED
    BY <1>1, <1>2, <1>3, <1>4, <1>5, <1>6

\* The editor, the certificate, age, and the copies of the pair on the node.
LEMMA WorkingKeepsWhole ==
  ASSUME BundleInv, NEW t \in Terminals, scenario' = scenario,
         \/ EditorCloses(t) \/ Encrypt(t) \/ EnsureOriginCert(t) \/ StageKey(t) \/ StageCert(t)
         \/ MoveKey(t) \/ MoveCert(t) \/ NothingToMove(t)
  PROVE  BundleInv'
  <1>1. BundleTypes /\ mem[t] \in MemType /\ minted \in Nat /\ deployKey \in Nat
    BY DEF BundleInv, BundleTypes
  <1>2. CASE EditorCloses(t)
    <2>1. /\ run[t].command = "edit" /\ run[t].at = "editor"
          /\ UNCHANGED <<scenario, bundle, told, recipients, minted, deployKey>>
      BY <1>2 DEF EditorCloses, At
    <2>2. PICK raising \in BOOLEAN : LeaveRam(t, raising)
      BY <1>2 DEF EditorCloses
    <2>3. Go(t, "wipe")
      BY <2>2 DEF LeaveRam
    <2>4. CASE mem' = mem
      BY <1>1, <2>1, <2>3, <2>4, GoKeepsWhole
    <2>5. ASSUME NEW k \in mem[t].own, NEW v \in TypedValues(k),
                 mem' = [mem EXCEPT ![t].data = Changed(@, {k}, v)]
          PROVE  BundleInv'
      <3>1. Holds(t)
        BY <2>1 DEF BundleInv, Bundlers
      <3>2. PICK r : r = [mem[t] EXCEPT !.data = Changed(mem[t].data, {k}, v)]
        OBVIOUS
      <3>3. mem[t].data \in [Keys -> Int] /\ k \in Keys /\ v \in Int /\ v # 0 /\ v <= MaxValue
        BY <1>1, TypedAre DEF MemType
      <3>4. /\ Changed(mem[t].data, {k}, v) \in [Keys -> Int]
            /\ \A j \in Keys : Changed(mem[t].data, {k}, v)[j] = IF j \in {k} THEN v ELSE mem[t].data[j]
        BY <3>3, ChangedIs
      <3>5. r \in MemType /\ r.data = Changed(mem[t].data, {k}, v) /\ r.own = mem[t].own
        BY <1>1, <3>2, <3>4 DEF MemType
      <3>6. mem' = [mem EXCEPT ![t] = r]
        BY <2>5, <3>2
      <3>7. BundleTypes' /\ mem'[t] = r /\ \A u \in Terminals \ {t} : mem'[u] = mem[u]
        BY <1>1, <2>1, <3>5, <3>6 DEF BundleTypes
      <3>8. Moves(t, {"edit"})
        BY <2>1, <2>3, Going DEF BundleInv, Prompt, Idle
      <3>9. Fit(r.data)
        <4>1. Fit(mem[t].data)
          BY <3>1 DEF Holds
        <4>2. Fit(Changed(mem[t].data, {k}, v))
          BY <3>3, <4>1, TypedFits
        <4>3. QED
          BY <3>5, <4>2
      <3>10. ~Overlapping => \A j \in Keys \ r.own : r.data[j] = bundle[j]
        BY <3>1, <3>4, <3>5 DEF Holds
      <3>11. run'[t].command \in {"edit", "none"}
        BY <3>8 DEF Moves
      <3>12. run'[t].command \in Bundlers => Holds(t)'
        BY <2>1, <3>7, <3>9, <3>10, <3>11 DEF Holds, Fit, Overlapping, Bundlers
      <3>13. QED
        BY <2>1, <3>7, <3>8, <3>12, BundleInvKept
    <2>6. QED
      BY <1>2, <2>4, <2>5 DEF EditorCloses
  <1>3. CASE Encrypt(t)
    <2>1. run[t].at = "encrypt" /\ Go(t, "replace")
      BY <1>3 DEF Encrypt
    <2>2. Moves(t, {run[t].command})
      BY <2>1, Going DEF BundleInv, Prompt, Idle
    <2>3. recipients[FileOf(t)] \in SUBSET People
      BY <1>1 DEF BundleTypes, FileOf, Files
    <2>4. PICK r : r = [mem[t] EXCEPT !.to = recipients[FileOf(t)]]
      OBVIOUS
    <2>5. r \in MemType /\ r.data = mem[t].data /\ r.own = mem[t].own
      BY <1>1, <2>3, <2>4 DEF MemType
    <2>6. /\ mem' = [mem EXCEPT ![t] = r]
          /\ UNCHANGED <<scenario, bundle, told, recipients, minted, deployKey>>
      BY <1>3, <2>4 DEF Encrypt
    <2>7. QED
      BY <1>1, <2>2, <2>5, <2>6, BundleInvSame
  <1>4. CASE EnsureOriginCert(t)
    <2>1. /\ run[t].command = "up" /\ run[t].at = "mint" /\ Go(t, "encrypt")
          /\ minted' = minted + 1 /\ UNCHANGED <<scenario, bundle, told, recipients, deployKey>>
      BY <1>4 DEF EnsureOriginCert, At
    <2>2. Holds(t)
      BY <2>1 DEF BundleInv, Bundlers
    <2>0. PICK new \in Int : new = Generated(minted')
      BY <1>1, <2>1, TypedAre DEF Generated
    <2>3. PICK r : r = [mem[t] EXCEPT !.data = Changed(mem[t].data, Pair, new), !.own = Pair]
      OBVIOUS
    <2>4. mem[t].data \in [Keys -> Int] /\ minted' \in Nat
      BY <1>1, <2>1 DEF MemType
    <2>5. /\ Changed(mem[t].data, Pair, new) \in [Keys -> Int]
          /\ \A j \in Keys : Changed(mem[t].data, Pair, new)[j]
                               = IF j \in Pair THEN new ELSE mem[t].data[j]
      BY <2>0, <2>4, ChangedIs
    <2>6. r \in MemType /\ r.data = Changed(mem[t].data, Pair, new) /\ r.own = Pair
      BY <1>1, <2>3, <2>5 DEF MemType, Keys
    <2>7. mem' = [mem EXCEPT ![t] = r]
      <3>1. mem' = [mem EXCEPT ![t].data = Changed(@, Pair, Generated(minted')), ![t].own = Pair]
        BY <1>4 DEF EnsureOriginCert
      <3>2. QED
        BY <1>1, <2>0, <2>3, <3>1 DEF BundleTypes
    <2>8. BundleTypes' /\ mem'[t] = r /\ \A u \in Terminals \ {t} : mem'[u] = mem[u]
      BY <1>1, <2>1, <2>4, <2>6, <2>7 DEF BundleTypes
    <2>9. Moves(t, {"up"})
      BY <2>1, Going DEF BundleInv, Prompt, Idle
    <2>10. Fit(r.data)
      BY <2>2, <2>5, <2>6, KeysAre DEF Holds, Fit, Pair, RequiredKey
    <2>11. ~Overlapping => \A j \in Keys \ r.own : r.data[j] = bundle[j]
      BY <2>1, <2>2, <2>5, <2>6 DEF Holds
    <2>12. run'[t].command \in {"up", "none"}
      BY <2>9 DEF Moves
    <2>13. run'[t].command \in Bundlers => Holds(t)'
      BY <2>1, <2>6, <2>8, <2>10, <2>11, <2>12 DEF Holds, Fit, Overlapping, Bundlers
    <2>14. QED
      BY <2>1, <2>8, <2>9, <2>13, BundleInvKept
  <1>5. CASE StageKey(t) \/ StageCert(t) \/ MoveKey(t)
    <2>1. /\ run[t].at \in {"stage key", "stage cert", "move key"} /\ (\E step : Go(t, step))
          /\ mem' = mem /\ UNCHANGED <<scenario, bundle, told, recipients, minted, deployKey>>
      BY <1>5 DEF StageKey, StageCert, MoveKey, Stage, Move, At
    <2>2. QED
      BY <1>1, <2>1, GoKeepsWhole
  <1>6. CASE MoveCert(t) \/ NothingToMove(t)
    <2>1. End(t) /\ UNCHANGED <<scenario, bundle, told, recipients, minted, deployKey>>
      BY <1>6 DEF MoveCert, NothingToMove, Move
    <2>2. run[t].at \in {"move key", "move cert"}
      BY <1>6 DEF MoveCert, NothingToMove, At
    <2>3. QED
      BY <2>1, <2>2, EndKeepsWhole, AtWork DEF End
  <1>7. QED
    BY <1>2, <1>3, <1>4, <1>5, <1>6

LEMMA SecretsKeepWhole ==
  ASSUME BundleInv, SecretsNext, scenario' = scenario
  PROVE  BundleInv'
  <1>1. ASSUME NEW t \in Terminals, SecretsFail(t)
        PROVE  BundleInv'
    <2>1. run[t].at # "prompt" \/ End(t)
      BY <1>1 DEF SecretsFail
    <2>2. UNCHANGED <<scenario, bundle, told, recipients, minted, deployKey>>
      BY <1>1 DEF SecretsFail
    <2>3. CASE LeaveRam(t, TRUE) /\ mem' = mem
      <3>1. Go(t, "wipe")
        BY <2>3 DEF LeaveRam
      <3>2. run[t].at # "prompt"
        BY <1>1, <2>1, <2>3 DEF SecretsFail
      <3>3. QED
        BY <2>2, <2>3, <3>1, <3>2, GoKeepsWhole DEF BundleInv, BundleTypes
    <2>4. CASE End(t)
      <3>1. ~Prompt(t)
        BY <1>1 DEF SecretsFail, Raises
      <3>2. QED
        BY <2>2, <2>4, <3>1, EndKeepsWhole DEF End
    <2>5. QED
      BY <1>1, <2>3, <2>4 DEF SecretsFail
  <1>2. ASSUME NEW t \in Terminals, SecretsKilled(t)
        PROVE  BundleInv'
    <2>1. /\ ~Prompt(t) /\ Return(t) /\ mem' = [mem EXCEPT ![t] = NoMem]
          /\ UNCHANGED <<scenario, bundle, told, recipients, minted, deployKey>>
      BY <1>2 DEF SecretsKilled, Killed
    <2>2. QED
      BY <2>1, EndKeepsWhole
  <1>3. ASSUME NEW t \in Terminals, RamStep(t),
               mem' = IF run'[t] = Idle THEN [mem EXCEPT ![t] = NoMem] ELSE mem,
               UNCHANGED <<bundle, readers, recipients, deployKey, deployPub, ciKey, minted,
                           staged, served, told>>
        PROVE  BundleInv'
    <2>1. UNCHANGED <<scenario, bundle, told, recipients, minted, deployKey>>
      BY <1>3
    <2>2. Moves(t, {run[t].command})
      BY <1>3, RamStepMoves DEF BundleInv
    <2>3. CASE run'[t] = Idle
      <3>1. run'[t].command \notin Bundlers
        BY <2>3 DEF Idle, Bundlers
      <3>2. QED
        BY <1>3, <2>1, <2>2, <2>3, <3>1, EndingKeepsWhole
    <2>4. CASE run'[t] # Idle
      BY <1>3, <2>1, <2>2, <2>4, GoingOnKeepsWhole DEF BundleInv, BundleTypes
    <2>5. QED
      BY <2>3, <2>4
  <1>4. ASSUME NEW f \in Files, EditRecipients(f)
        PROVE  BundleInv'
    <2>1. PICK list \in SUBSET People : recipients' = [recipients EXCEPT ![f] = list]
      BY <1>4 DEF EditRecipients
    <2>2. UNCHANGED <<scenario, run, bundle, told, mem, minted, deployKey>>
      BY <1>4 DEF EditRecipients
    <2>3. BundleTypes'
      BY <2>1, <2>2 DEF BundleInv, BundleTypes
    <2>4. QED
      BY <2>2, <2>3 DEF BundleInv, Processes, Prompt, Fit, Holds, Overlapping
  <1>5. QED
    BY <1>1, <1>2, <1>3, <1>4, BeginningKeepsWhole, ReplacingKeepsWhole, DeployKeyKeepsWhole,
       WorkingKeepsWhole DEF SecretsNext, SecretsStep

LEMMA NextKeepsWhole ==
  ASSUME BundleInv, [Next]_vars
  PROVE  BundleInv'
  <1>1. CASE SecretsNext /\ OnSecrets
    BY <1>1, SecretsKeepWhole DEF OnSecrets
  <1>2. ASSUME UNCHANGED <<scenario, secretsVars>>, NEW c \in {"deploy", "up-env", "up-providers"},
               run' = run \/ \E t \in Terminals : Moves(t, {c})
        PROVE  BundleInv'
    <2>1. CASE run' = run
      BY <1>2, <2>1, BundleInvStuttering
    <2>2. ASSUME NEW t \in Terminals, Moves(t, {c})
          PROVE  BundleInv'
      <3>1. run'[t].command \notin Bundlers
        BY <2>2 DEF Moves, Bundlers
      <3>2. UNCHANGED <<scenario, bundle, told, recipients, minted, deployKey, mem>>
        BY <1>2 DEF secretsVars
      <3>3. BundleTypes'
        BY <3>2 DEF BundleInv, BundleTypes
      <3>4. QED
        BY <2>2, <3>1, <3>2, <3>3, BundleInvKept
    <2>3. QED
      BY <1>2, <2>1, <2>2
  <1>3. CASE ReleaseBuildNext /\ OnRelease
    <2>1. UNCHANGED <<scenario, secretsVars>>
      BY <1>3, ReleaseBuildMoves DEF OnRelease, BundleInv
    <2>2. QED
      BY <1>2, <1>3, <2>1, ReleaseBuildMoves DEF BundleInv
  <1>4. CASE NodeEnvNext /\ OnNodeEnv
    BY <1>2, <1>4, EnvMoves DEF OnNodeEnv, BundleInv
  <1>5. CASE ProvidersNext /\ OnProviders
    BY <1>2, <1>5, ProvidersMoves DEF OnProviders, BundleInv
  <1>6. CASE CalmDown \/ UNCHANGED vars
    BY <1>6, BundleInvStuttering DEF CalmDown, vars, commandVars
  <1>7. QED
    BY <1>1, <1>3, <1>4, <1>5, <1>6 DEF Next

\* At first secrets.age holds what the operator keeps in it.
LEMMA InitWhole ==
  ASSUME Init
  PROVE  BundleInv
  <1>1. run = [t \in Terminals |-> [command |-> "none", at |-> "prompt"]]
    BY DEF Init, CommandsInit, Idle
  <1>2. bundle = [k \in Keys |-> IF k \in OperatorKeys THEN 1 ELSE 0] /\ told = bundle
    BY DEF Init, SecretsInit
  <1>3. Processes
    BY <1>1 DEF Processes, Prompt, Idle
  <1>4. BundleTypes
    <2>1. mem = [t \in Terminals |-> NoMem] /\ minted = 0 /\ deployKey = 0
      BY DEF Init, SecretsInit
    <2>2. recipients = [f \in Files |-> {You}] /\ You \in People
      BY SecretsAssumption DEF Init, SecretsInit
    <2>3. QED
      BY <1>2, <2>1, <2>2, NoMemTyped DEF BundleTypes
  <1>5. Fit(bundle)
    BY <1>2, KeysAre DEF Fit, OperatorKeys, RequiredKey
  <1>6. \A t \in Terminals : run[t].command \notin Bundlers
    BY <1>1 DEF Bundlers
  <1>7. QED
    BY <1>2, <1>3, <1>4, <1>5, <1>6 DEF BundleInv

\* Whatever is typed, overlaps, fails or is killed, secrets.age keeps its token's
\* entry and never mixes two generated pairs; and one command at a time loses
\* nobody's change.
THEOREM BundleStaysWhole == Spec => []BundleIsWhole
  <1>1. Init => BundleInv
    BY InitWhole
  <1>2. BundleInv /\ [Next]_vars => BundleInv'
    BY NextKeepsWhole
  <1>3. BundleInv => BundleIsWhole
    BY DEF BundleInv, BundleIsWhole, Fit
  <1>4. QED
    BY <1>1, <1>2, <1>3, PTL DEF Spec

-----------------------------------------------------------------------------
(* What succeeds leaves matching halves                                    *)

\* What a command about the deploy key relies on, while it is alone: everybody
\* who must be able to read deploy.age is on its list, then among those the
\* file is being encrypted to, then among those it is encrypted to; and from
\* there on deploy.age holds the key that is in memory.
DeployKeyHalves(t) ==
  run[t].command \in DeployKeyCommands =>
    /\ run[t].at \in {"ram", "format", "keygen", "encrypt"} =>
         recipients["secrets.age"] \subseteq recipients["deploy.age"]
    /\ run[t].at = "replace" => recipients["secrets.age"] \subseteq mem[t].to
    /\ run[t].at = "publish" \/ (run[t].at \in {"wipe", "detach"} /\ ~ram[t].raising) =>
         /\ mem[t].key = deployKey
         /\ recipients["secrets.age"] \subseteq readers["deploy.age"]
    /\ run[t].at = "gh" => mem[t].key = deployKey

\* And `up`: that the pair in its memory is the one stored, and half after half
\* the one on the node.
CertHalves(t) ==
  run[t].command = "up" =>
    /\ run[t].at \in {"stage key", "stage cert", "move key", "move cert"} =>
         \A k \in Pair : mem[t].data[k] = bundle[k]
    /\ run[t].at \in {"stage cert", "move key"} =>
         staged["origin_key"] = mem[t].data["origin_key"]
    /\ run[t].at \in {"move key", "move cert"} =>
         staged["origin_cert"] = mem[t].data["origin_cert"]
    /\ run[t].at = "move cert" => served["origin_key"] = mem[t].data["origin_key"]

Halves(t) == DeployKeyHalves(t) /\ CertHalves(t)

HalvesTypes ==
  /\ readers \in [Files -> SUBSET People]
  /\ staged \in [Pair -> Int] /\ served \in [Pair -> Int]

HalvesInv ==
  /\ BundleInv /\ RamInv /\ HalvesTypes
  /\ ~Overlapping => \A t \in Terminals : Halves(t)

LEMMA PairWritten ==
  ASSUME NEW f \in [Pair -> Int], NEW k \in Pair, NEW v \in Int
  PROVE  [f EXCEPT ![k] = v] \in [Pair -> Int]
  OBVIOUS

\* Who takes a step is alone, or commands overlap.
LEMMA HalvesKept ==
  ASSUME HalvesInv, BundleInv', RamInv', HalvesTypes', scenario' = scenario,
         NEW t \in Terminals, NEW commands, Moves(t, commands), ~Overlapping => Halves(t)'
  PROVE  HalvesInv'
  <1>1. ASSUME ~Overlapping', NEW u \in Terminals
        PROVE  Halves(u)'
    <2>1. ~Overlapping
      BY <1>1 DEF Overlapping
    <2>2. CASE u = t
      BY <2>1, <2>2
    <2>3. CASE u # t
      <3>1. u \notin scenario.terminals
        BY <2>1, <2>3 DEF Overlapping, Moves
      <3>2. Prompt(u)
        BY <3>1 DEF HalvesInv, BundleInv, Processes
      <3>3. run'[u].command = "none"
        BY <2>3, <3>2 DEF Moves, Prompt, Idle
      <3>4. QED
        BY <3>3 DEF Halves, DeployKeyHalves, CertHalves, DeployKeyCommands
    <2>4. QED
      BY <2>2, <2>3
  <1>2. QED
    BY <1>1 DEF HalvesInv

LEMMA HalvesElsewhere ==
  ASSUME HalvesInv, BundleInv', RamInv', HalvesTypes', scenario' = scenario,
         NEW t \in Terminals, NEW commands, Moves(t, commands),
         run'[t].command \notin DeployKeyCommands \cup {"up"}
  PROVE  HalvesInv'
  <1>1. Halves(t)'
    BY DEF Halves, DeployKeyHalves, CertHalves
  <1>2. QED
    BY <1>1, HalvesKept

LEMMA HalvesStuttering ==
  ASSUME HalvesInv, BundleInv', RamInv', UNCHANGED <<scenario, run, ram, secretsVars>>
  PROVE  HalvesInv'
  <1>1. UNCHANGED <<scenario, run, ram, mem, bundle, readers, recipients, deployKey, staged, served>>
    BY DEF secretsVars
  <1>2. HalvesTypes'
    BY <1>1 DEF HalvesInv, HalvesTypes
  <1>3. ~Overlapping' => ~Overlapping
    BY <1>1 DEF Overlapping
  <1>4. ASSUME NEW t \in Terminals, Halves(t)
        PROVE  Halves(t)'
    BY <1>1, <1>4 DEF Halves, DeployKeyHalves, CertHalves
  <1>5. QED
    BY <1>2, <1>3, <1>4 DEF HalvesInv

LEMMA GoIs ==
  ASSUME Processes, NEW t \in Terminals, NEW step, Go(t, step)
  PROVE  run'[t].command = run[t].command /\ run'[t].at = step
  BY DEF Processes, Go

LEMMA ReturnIs ==
  ASSUME Processes, NEW t \in Terminals, Return(t)
  PROVE  run'[t].command = "none"
  BY DEF Processes, Return, Idle

LEMMA HalvesEnd ==
  ASSUME HalvesInv, BundleInv', RamInv', HalvesTypes', scenario' = scenario,
         NEW t \in Terminals, ~Prompt(t), Return(t)
  PROVE  HalvesInv'
  <1>1. Processes
    BY DEF HalvesInv, BundleInv
  <1>2. Moves(t, {run[t].command}) /\ run'[t].command = "none"
    BY <1>1, Returning, ReturnIs
  <1>3. QED
    BY <1>2, HalvesElsewhere DEF DeployKeyCommands

\* Commands go on from one step to the next.
LEMMA HalvesGo ==
  ASSUME HalvesInv, BundleInv', RamInv', HalvesTypes', scenario' = scenario,
         NEW t \in Terminals, NEW step, ~Prompt(t), Go(t, step),
         ~Overlapping /\ Halves(t) /\ run'[t].command = run[t].command /\ run'[t].at = step
           => Halves(t)'
  PROVE  HalvesInv'
  <1>1. Processes
    BY DEF HalvesInv, BundleInv
  <1>2. Moves(t, {run[t].command}) /\ run'[t].command = run[t].command /\ run'[t].at = step
    BY <1>1, Going, GoIs
  <1>3. ~Overlapping => Halves(t)'
    BY <1>2 DEF HalvesInv
  <1>4. QED
    BY <1>2, <1>3, HalvesKept

LEMMA RamStepKeepsHalves ==
  ASSUME HalvesInv, BundleInv', RamInv', scenario' = scenario, NEW t \in Terminals, RamStep(t),
         mem' = IF run'[t] = Idle THEN [mem EXCEPT ![t] = NoMem] ELSE mem,
         UNCHANGED <<bundle, readers, recipients, deployKey, staged, served>>
  PROVE  HalvesInv'
  <1>1. /\ Processes /\ DOMAIN ram = Terminals
        /\ ram[t] \in [disk : BOOLEAN, secret : BOOLEAN, raising : BOOLEAN]
    BY DEF HalvesInv, RamInv, RamTypeOK
  <1>2. ~Prompt(t) /\ Moves(t, {run[t].command})
    BY <1>1, RamStepMoves
  <1>3. HalvesTypes'
    BY DEF HalvesInv, HalvesTypes
  <1>4. CASE Return(t)
    BY <1>2, <1>3, <1>4, HalvesEnd
  <1>5. ASSUME NEW step, Go(t, step), step # "prompt",
               \/ /\ run[t].at \in {"ram", "format"}
                  /\ step \in {"format"} \cup {Body(run[t].command)} \/ (step = "detach" /\ ram'[t].raising)
               \/ /\ run[t].at \in {"wipe", "detach"} /\ ram'[t].raising = ram[t].raising
                  /\ step = "detach" \/ (~ram[t].raising /\ run[t].command # "deploy"
                                           /\ step = Behind(run[t].command))
        PROVE  HalvesInv'
    <2>1. run'[t].command = run[t].command /\ run'[t].at = step
      BY <1>1, <1>5, GoIs
    <2>2. mem' = mem
      BY <1>5, <2>1 DEF Idle
    <2>3. ASSUME run[t].command \in DeployKeyCommands
          PROVE  Body(run[t].command) = "keygen" /\ Behind(run[t].command) = "publish"
      BY <2>3 DEF DeployKeyCommands, Body, Behind
    <2>4. Halves(t) => DeployKeyHalves(t)'
      BY <1>5, <2>1, <2>2, <2>3 DEF Halves, DeployKeyHalves
    <2>5. CertHalves(t)'
      <3>1. run[t].command # "up"
        BY RamStepMoves, <1>1 DEF RamCommands
      <3>2. QED
        BY <2>1, <3>1 DEF CertHalves
    <2>6. Halves(t) => Halves(t)'
      BY <2>4, <2>5 DEF Halves
    <2>7. QED
      BY <1>2, <1>3, <1>5, <2>6, HalvesGo
  <1>6. CASE OpenDirectory(t) \/ AttachDisk(t) \/ Format(t)
    <2>1. run[t].at \in {"ram", "format"}
      BY <1>6 DEF OpenDirectory, AttachDisk, Format, At
    <2>2. Go(t, "format") \/ Go(t, Body(run[t].command))
      BY <1>6 DEF OpenDirectory, AttachDisk, Format
    <2>3. Body(run[t].command) # "prompt"
      BY DEF Body
    <2>4. QED
      BY <1>5, <2>1, <2>2, <2>3
  <1>7. CASE FormatFails(t)
    <2>1. run[t].at = "format" /\ Go(t, "detach") /\ ram' = [ram EXCEPT ![t] = [ram[t] EXCEPT !.raising = TRUE]]
      BY <1>7 DEF FormatFails, At
    <2>2. ram'[t].raising
      BY <1>1, <2>1
    <2>3. QED
      BY <1>5, <2>1, <2>2
  <1>8. CASE Wipe(t) \/ Detach(t)
    <2>1. run[t].at \in {"wipe", "detach"}
      BY <1>8 DEF Wipe, Detach, At
    <2>2. ram'[t].raising = ram[t].raising
      BY <1>1, <1>8 DEF Wipe, Detach
    <2>3. \/ Go(t, "detach") \/ Return(t)
          \/ ~ram[t].raising /\ run[t].command # "deploy" /\ Go(t, Behind(run[t].command))
      BY <1>8 DEF Wipe, Detach, Onward
    <2>4. Behind(run[t].command) # "prompt"
      BY DEF Behind
    <2>5. QED
      BY <1>4, <1>5, <2>1, <2>2, <2>3, <2>4
  <1>9. QED
    BY <1>4, <1>6, <1>7, <1>8 DEF RamStep, NoRamToBeHad

\* deploy-key init, rotate and ci-setup.
LEMMA DeployKeyKeepsHalves ==
  ASSUME HalvesInv, BundleInv', RamInv', scenario' = scenario, NEW t \in Terminals,
         \/ DeployKeyInit(t) \/ CiSetup(t) \/ Keygen(t) \/ ReplaceDeployKey(t)
         \/ PublishKey(t) \/ ReadKey(t) \/ SendKey(t)
  PROVE  HalvesInv'
  <1>1. /\ Processes /\ mem[t] \in MemType /\ DOMAIN mem = Terminals /\ DOMAIN ram = Terminals
        /\ readers \in [Files -> SUBSET People] /\ recipients \in [Files -> SUBSET People]
        /\ ram[t] \in [disk : BOOLEAN, secret : BOOLEAN, raising : BOOLEAN]
    BY DEF HalvesInv, BundleInv, BundleTypes, HalvesTypes, RamInv, RamTypeOK
  <1>2. HalvesTypes'
    <2>1. staged' = staged /\ served' = served
      BY DEF DeployKeyInit, CiSetup, Keygen, ReplaceDeployKey, PublishKey, ReadKey, SendKey
    <2>2. readers' \in [Files -> SUBSET People]
      <3>1. CASE ReplaceDeployKey(t)
        <4>1. mem[t].to \in SUBSET People
          BY <1>1 DEF MemType
        <4>2. readers' = [readers EXCEPT !["deploy.age"] = mem[t].to]
          BY <3>1 DEF ReplaceDeployKey
        <4>3. QED
          BY <1>1, <4>1, <4>2
      <3>2. CASE ~ReplaceDeployKey(t)
        <4>1. readers' = readers
          BY <3>2 DEF DeployKeyInit, CiSetup, Keygen, PublishKey, ReadKey, SendKey
        <4>2. QED
          BY <1>1, <4>1
      <3>3. QED
        BY <3>1, <3>2
    <2>3. QED
      BY <2>1, <2>2 DEF HalvesInv, HalvesTypes
  <1>3. CASE DeployKeyInit(t) \/ CiSetup(t)
    <2>1. PICK c \in DeployKeyCommands : Typed(t, c) /\ \E step : Enter(t, c, step)
      BY <1>3 DEF DeployKeyInit, CiSetup, DeployKeyCommands
    <2>2. Moves(t, {c})
      BY <1>1, <2>1, Entering
    <2>3. run'[t].command # "up"
      BY <2>1, <2>2 DEF Moves, DeployKeyCommands
    <2>4. CASE DeployKeyInit(t)
      <3>1. /\ recipients' = recipients /\ recipients["secrets.age"] \subseteq recipients["deploy.age"]
            /\ \E d : Enter(t, d, "ram")
        BY <2>4 DEF DeployKeyInit, DeployListComplete
      <3>2. run'[t].at = "ram"
        BY <1>1, <3>1 DEF Enter, Processes
      <3>3. Halves(t)'
        BY <2>3, <3>1, <3>2 DEF Halves, DeployKeyHalves, CertHalves
      <3>4. QED
        BY <1>2, <2>2, <3>3, HalvesKept
    <2>5. CASE CiSetup(t)
      <3>1. run'[t].at = "read key"
        BY <1>1, <2>5 DEF CiSetup, Enter, Processes
      <3>2. Halves(t)'
        BY <2>3, <3>1 DEF Halves, DeployKeyHalves, CertHalves
      <3>3. QED
        BY <1>2, <2>2, <3>2, HalvesKept
    <2>6. QED
      BY <1>3, <2>4, <2>5
  <1>4. CASE Keygen(t)
    <2>1. /\ run[t].at = "keygen" /\ run[t].command \in DeployKeyCommands /\ Go(t, "encrypt")
          /\ UNCHANGED <<recipients>>
      BY <1>4 DEF Keygen, At
    <2>2. ~Prompt(t)
      BY <2>1, AtWork
    <2>3. ASSUME Halves(t), run'[t].command = run[t].command, run'[t].at = "encrypt"
          PROVE  Halves(t)'
      BY <2>1, <2>3 DEF Halves, DeployKeyHalves, CertHalves, DeployKeyCommands
    <2>4. QED
      BY <1>2, <2>1, <2>2, <2>3, HalvesGo
  <1>5. CASE ReplaceDeployKey(t)
    <2>1. /\ run[t].at = "replace" /\ run[t].command \in DeployKeyCommands /\ Go(t, "wipe")
          /\ UNCHANGED <<recipients, mem>> /\ deployKey' = mem[t].key
          /\ readers' = [readers EXCEPT !["deploy.age"] = mem[t].to]
      BY <1>5 DEF ReplaceDeployKey, LeaveRam, At
    <2>2. ~Prompt(t)
      BY <2>1, AtWork
    <2>3. readers'["deploy.age"] = mem[t].to
      BY <1>1, <2>1 DEF Files
    <2>4. ASSUME Halves(t), run'[t].command = run[t].command, run'[t].at = "wipe"
          PROVE  Halves(t)'
      BY <2>1, <2>3, <2>4 DEF Halves, DeployKeyHalves, CertHalves, DeployKeyCommands
    <2>5. QED
      BY <1>2, <2>1, <2>2, <2>4, HalvesGo
  <1>6. CASE PublishKey(t)
    <2>1. /\ run[t].at = "publish" /\ run[t].command \in DeployKeyCommands
          /\ Go(t, "read key") \/ Return(t)
      BY <1>6 DEF PublishKey, At, End
    <2>2. ~Prompt(t)
      BY <2>1, AtWork
    <2>3. ASSUME run'[t].command = run[t].command, run'[t].at = "read key"
          PROVE  Halves(t)'
      BY <2>1, <2>3 DEF Halves, DeployKeyHalves, CertHalves, DeployKeyCommands
    <2>4. QED
      BY <1>2, <2>1, <2>2, <2>3, HalvesGo, HalvesEnd
  <1>7. CASE ReadKey(t)
    <2>1. /\ run[t].at = "read key" /\ run[t].command \in DeployKeyCommands /\ deployKey' = deployKey
          /\ \/ Go(t, "gh") /\ mem' = [mem EXCEPT ![t] = [mem[t] EXCEPT !.key = deployKey]]
             \/ Return(t)
      BY <1>7 DEF ReadKey, At, End, DeployKeyCommands
    <2>2. ~Prompt(t)
      BY <2>1, AtWork
    <2>3. ASSUME mem' = [mem EXCEPT ![t] = [mem[t] EXCEPT !.key = deployKey]],
                 run'[t].command = run[t].command, run'[t].at = "gh"
          PROVE  Halves(t)'
      <3>1. mem'[t] = [mem[t] EXCEPT !.key = deployKey]
        BY <1>1, <2>3
      <3>2. mem'[t].key = deployKey
        BY <1>1, <3>1 DEF MemType
      <3>3. QED
        BY <2>1, <2>3, <3>2 DEF Halves, DeployKeyHalves, CertHalves, DeployKeyCommands
    <2>4. QED
      BY <1>2, <2>1, <2>2, <2>3, HalvesGo, HalvesEnd
  <1>8. CASE SendKey(t)
    <2>1. run[t].at = "gh" /\ Return(t)
      BY <1>8 DEF SendKey, At, End
    <2>2. QED
      BY <1>2, <2>1, AtWork, HalvesEnd
  <1>9. QED
    BY <1>3, <1>4, <1>5, <1>6, <1>7, <1>8

\* What both files have in common: age, and the moment secrets.age changes.
LEMMA SavingKeepsHalves ==
  ASSUME HalvesInv, BundleInv', RamInv', scenario' = scenario, NEW t \in Terminals,
         Encrypt(t) \/ ReplaceBundle(t)
  PROVE  HalvesInv'
  <1>1. /\ Processes /\ mem[t] \in MemType /\ DOMAIN mem = Terminals
        /\ readers \in [Files -> SUBSET People]
        /\ staged \in [Pair -> Int] /\ served \in [Pair -> Int]
    BY DEF HalvesInv, BundleInv, BundleTypes, HalvesTypes
  <1>2. CASE Encrypt(t)
    <2>1. /\ run[t].at = "encrypt" /\ Go(t, "replace") /\ UNCHANGED <<recipients, readers, staged, served>>
          /\ mem' = [mem EXCEPT ![t] = [mem[t] EXCEPT !.to = recipients[FileOf(t)]]]
      BY <1>2 DEF Encrypt
    <2>2. HalvesTypes'
      BY <1>1, <2>1 DEF HalvesTypes
    <2>3. ~Prompt(t)
      BY <2>1, AtWork
    <2>4. mem'[t] = [mem[t] EXCEPT !.to = recipients[FileOf(t)]]
      BY <1>1, <2>1
    <2>5. mem'[t].to = recipients[FileOf(t)]
      BY <1>1, <2>4 DEF MemType
    <2>6. ASSUME Halves(t), run'[t].command = run[t].command, run'[t].at = "replace"
          PROVE  Halves(t)'
      <3>1. DeployKeyHalves(t)'
        BY <2>1, <2>5, <2>6 DEF Halves, DeployKeyHalves, FileOf
      <3>2. CertHalves(t)'
        BY <2>6 DEF CertHalves
      <3>3. QED
        BY <3>1, <3>2 DEF Halves
    <2>7. QED
      BY <2>1, <2>2, <2>3, <2>6, HalvesGo
  <1>3. CASE ReplaceBundle(t)
    <2>1. /\ run[t].at = "replace" /\ run[t].command \in {"set", "unset", "edit", "up"}
          /\ bundle' = mem[t].data /\ UNCHANGED <<staged, served>>
          /\ readers' = [readers EXCEPT !["secrets.age"] = mem[t].to]
          /\ \/ run[t].command = "up" /\ Go(t, "stage key") /\ mem' = mem
             \/ Return(t)
      BY <1>3 DEF ReplaceBundle, At, End
    <2>2. HalvesTypes'
      <3>1. mem[t].to \in SUBSET People
        BY <1>1 DEF MemType
      <3>2. QED
        BY <1>1, <2>1, <3>1 DEF HalvesTypes
    <2>3. ~Prompt(t)
      BY <2>1, AtWork
    <2>4. ASSUME run[t].command = "up", mem' = mem,
                 run'[t].command = run[t].command, run'[t].at = "stage key"
          PROVE  Halves(t)'
      BY <2>1, <2>4 DEF Halves, DeployKeyHalves, CertHalves, DeployKeyCommands
    <2>5. QED
      BY <2>1, <2>2, <2>3, <2>4, HalvesGo, HalvesEnd
  <1>4. QED
    BY <1>2, <1>3

\* The certificate, on its way to the node.
LEMMA UpKeepsHalves ==
  ASSUME HalvesInv, BundleInv', RamInv', scenario' = scenario, NEW t \in Terminals,
         \/ Up(t) \/ EnsureOriginCert(t) \/ StageKey(t) \/ StageCert(t)
         \/ MoveKey(t) \/ MoveCert(t) \/ NothingToMove(t)
  PROVE  HalvesInv'
  <1>1. /\ Processes /\ mem[t] \in MemType /\ DOMAIN mem = Terminals
        /\ readers \in [Files -> SUBSET People]
        /\ staged \in [Pair -> Int] /\ served \in [Pair -> Int]
    BY DEF HalvesInv, BundleInv, BundleTypes, HalvesTypes
  <1>2. mem[t].data \in [Keys -> Int] /\ \A k \in Pair : k \in Keys
    BY <1>1 DEF MemType, Keys
  <1>3. CASE Up(t)
    <2>1. /\ Typed(t, "up") /\ Load(t, {}, bundle)
          /\ UNCHANGED <<bundle, readers, staged, served>>
          /\ Enter(t, "up", "mint") \/ Enter(t, "up", "stage key")
      BY <1>3 DEF Up
    <2>2. HalvesTypes'
      BY <1>1, <2>1 DEF HalvesTypes
    <2>3. Moves(t, {"up"})
      BY <1>1, <2>1, Entering
    <2>4. run'[t].command = "up" /\ run'[t].at \in {"mint", "stage key"}
      <3>1. ASSUME NEW step, Enter(t, "up", step)
            PROVE  run'[t].command = "up" /\ run'[t].at = step
        BY <1>1, <3>1 DEF Enter, Processes
      <3>2. QED
        BY <2>1, <3>1
    <2>5. mem'[t].data = bundle
      <3>1. mem'[t] = [NoMem EXCEPT !.data = bundle, !.own = {}]
        BY <1>1, <2>1 DEF Load
      <3>2. QED
        BY <3>1, NoMemTyped DEF MemType
    <2>6. Halves(t)'
      BY <2>1, <2>4, <2>5 DEF Halves, DeployKeyHalves, CertHalves, DeployKeyCommands
    <2>7. QED
      BY <2>2, <2>3, <2>6, HalvesKept
  <1>4. CASE EnsureOriginCert(t)
    <2>1. /\ run[t].at = "mint" /\ run[t].command = "up" /\ Go(t, "encrypt")
          /\ UNCHANGED <<readers, staged, served>>
      BY <1>4 DEF EnsureOriginCert, At
    <2>2. HalvesTypes'
      BY <1>1, <2>1 DEF HalvesTypes
    <2>3. ASSUME run'[t].command = run[t].command, run'[t].at = "encrypt"
          PROVE  Halves(t)'
      BY <2>1, <2>3 DEF Halves, DeployKeyHalves, CertHalves, DeployKeyCommands
    <2>4. QED
      BY <2>1, <2>2, <2>3, AtWork, HalvesGo
  <1>5. CASE StageKey(t) \/ StageCert(t)
    <2>0. PICK k \in Pair, step \in {"stage cert", "move key"} :
            /\ run[t].command = "up" /\ Stage(t, k, step)
            /\ \/ run[t].at = "stage key" /\ k = "origin_key" /\ step = "stage cert"
               \/ run[t].at = "stage cert" /\ k = "origin_cert" /\ step = "move key"
      BY <1>5 DEF StageKey, StageCert, At, Pair
    <2>1. /\ staged' = [staged EXCEPT ![k] = mem[t].data[k]] /\ Go(t, step)
          /\ UNCHANGED <<bundle, readers, mem, served>>
      BY <2>0 DEF Stage
    <2>2. HalvesTypes'
      BY <1>1, <1>2, <2>1 DEF HalvesTypes
    <2>3. /\ staged'[k] = mem[t].data[k]
          /\ \A j \in Pair \ {k} : staged'[j] = staged[j]
      BY <1>1, <2>1
    <2>4. ASSUME Halves(t), run'[t].command = run[t].command, run'[t].at = step
          PROVE  Halves(t)'
      <3>1. DeployKeyHalves(t)'
        BY <2>0, <2>4 DEF DeployKeyHalves, DeployKeyCommands
      <3>2. CertHalves(t)'
        BY <2>0, <2>1, <2>3, <2>4 DEF Halves, CertHalves, Pair
      <3>3. QED
        BY <3>1, <3>2 DEF Halves
    <2>5. ~Prompt(t)
      BY <2>0, AtWork
    <2>6. QED
      BY <2>1, <2>2, <2>4, <2>5, HalvesGo
  <1>6. CASE MoveKey(t)
    <2>1. /\ run[t].at = "move key" /\ run[t].command = "up" /\ Go(t, "move cert")
          /\ served' = [served EXCEPT !["origin_key"] = staged["origin_key"]]
          /\ staged' = [staged EXCEPT !["origin_key"] = 0]
          /\ UNCHANGED <<bundle, readers, mem>>
      BY <1>6 DEF MoveKey, Move, At
    <2>2. HalvesTypes'
      <3>1. "origin_key" \in Pair /\ 0 \in Int /\ staged["origin_key"] \in Int
        BY <1>1 DEF HalvesTypes, Pair
      <3>2. staged' \in [Pair -> Int] /\ served' \in [Pair -> Int]
        BY <1>1, <2>1, <3>1, PairWritten DEF HalvesTypes
      <3>3. QED
        BY <1>1, <2>1, <3>2 DEF HalvesTypes
    <2>3. served'["origin_key"] = staged["origin_key"] /\ staged'["origin_cert"] = staged["origin_cert"]
      BY <1>1, <2>1 DEF Pair
    <2>4. ASSUME Halves(t), run'[t].command = run[t].command, run'[t].at = "move cert"
          PROVE  Halves(t)'
      <3>1. DeployKeyHalves(t)'
        BY <2>1, <2>4 DEF DeployKeyHalves, DeployKeyCommands
      <3>2. CertHalves(t)'
        BY <2>1, <2>3, <2>4 DEF Halves, CertHalves
      <3>3. QED
        BY <3>1, <3>2 DEF Halves
    <2>5. QED
      BY <2>1, <2>2, <2>4, AtWork, HalvesGo
  <1>7. CASE MoveCert(t)
    <2>1. /\ run[t].at = "move cert" /\ Return(t)
          /\ served' = [served EXCEPT !["origin_cert"] = staged["origin_cert"]]
          /\ staged' = [staged EXCEPT !["origin_cert"] = 0]
          /\ readers' = readers
      BY <1>7 DEF MoveCert, Move, At, End
    <2>2. HalvesTypes'
      <3>1. "origin_cert" \in Pair /\ 0 \in Int /\ staged["origin_cert"] \in Int
        BY <1>1 DEF HalvesTypes, Pair
      <3>2. staged' \in [Pair -> Int] /\ served' \in [Pair -> Int]
        BY <1>1, <2>1, <3>1, PairWritten DEF HalvesTypes
      <3>3. QED
        BY <1>1, <2>1, <3>2 DEF HalvesTypes
    <2>3. QED
      BY <2>1, <2>2, AtWork, HalvesEnd
  <1>8. CASE NothingToMove(t)
    <2>1. /\ run[t].at \in {"move key", "move cert"} /\ Return(t)
          /\ UNCHANGED <<readers, staged, served>>
      BY <1>8 DEF NothingToMove, At, End
    <2>2. HalvesTypes'
      BY <1>1, <2>1 DEF HalvesTypes
    <2>3. QED
      BY <2>1, <2>2, AtWork, HalvesEnd
  <1>9. QED
    BY <1>3, <1>4, <1>5, <1>6, <1>7, <1>8

LEMMA SecretsKeepHalves ==
  ASSUME HalvesInv, BundleInv', RamInv', SecretsNext, scenario' = scenario
  PROVE  HalvesInv'
  <1>1. Processes /\ HalvesTypes
    BY DEF HalvesInv, BundleInv
  <1>2. ASSUME NEW t \in Terminals, SetKey(t) \/ UnsetKey(t) \/ EditKey(t)
        PROVE  HalvesInv'
    <2>1. PICK c \in {"set", "unset", "edit"} : Typed(t, c) /\ \E step : Enter(t, c, step)
      BY <1>2 DEF SetKey, UnsetKey, EditKey
    <2>2. Moves(t, {c})
      BY <1>1, <2>1, Entering
    <2>3. UNCHANGED <<readers, staged, served>>
      BY <1>2 DEF SetKey, UnsetKey, EditKey
    <2>4. HalvesTypes'
      BY <1>1, <2>3 DEF HalvesTypes
    <2>5. run'[t].command \notin DeployKeyCommands \cup {"up"}
      BY <2>1, <2>2 DEF Moves, DeployKeyCommands
    <2>6. QED
      BY <2>2, <2>4, <2>5, HalvesElsewhere
  <1>3. ASSUME NEW t \in Terminals, EditorCloses(t)
        PROVE  HalvesInv'
    <2>1. /\ run[t].command = "edit" /\ run[t].at = "editor" /\ Go(t, "wipe")
          /\ UNCHANGED <<readers, staged, served>>
      BY <1>3 DEF EditorCloses, LeaveRam, At
    <2>2. HalvesTypes'
      BY <1>1, <2>1 DEF HalvesTypes
    <2>3. ASSUME run'[t].command = run[t].command
          PROVE  Halves(t)'
      BY <2>1, <2>3 DEF Halves, DeployKeyHalves, CertHalves, DeployKeyCommands
    <2>4. QED
      BY <2>1, <2>2, <2>3, AtWork, HalvesGo
  <1>4. ASSUME NEW t \in Terminals, SecretsFail(t)
        PROVE  HalvesInv'
    <2>1. ~Prompt(t) /\ UNCHANGED <<recipients, readers, staged, served>>
      BY <1>4 DEF SecretsFail, Raises
    <2>2. HalvesTypes'
      BY <1>1, <2>1 DEF HalvesTypes
    <2>3. CASE LeaveRam(t, TRUE)
      <3>1. Go(t, "wipe") /\ ram' = [ram EXCEPT ![t] = [ram[t] EXCEPT !.raising = TRUE]]
        BY <2>3 DEF LeaveRam
      <3>2. ram'[t].raising
        BY <3>1 DEF HalvesInv, RamInv, RamTypeOK
      <3>3. ASSUME run'[t].command = run[t].command, run'[t].at = "wipe"
            PROVE  Halves(t)'
        BY <3>2, <3>3 DEF Halves, DeployKeyHalves, CertHalves
      <3>4. QED
        BY <2>1, <2>2, <3>1, <3>3, HalvesGo
    <2>4. CASE Return(t)
      BY <2>1, <2>2, <2>4, HalvesEnd
    <2>5. QED
      BY <1>4, <2>3, <2>4 DEF SecretsFail, End
  <1>5. ASSUME NEW t \in Terminals, SecretsKilled(t)
        PROVE  HalvesInv'
    <2>1. ~Prompt(t) /\ Return(t) /\ UNCHANGED <<readers, staged, served>>
      BY <1>5 DEF SecretsKilled, Killed
    <2>2. HalvesTypes'
      BY <1>1, <2>1 DEF HalvesTypes
    <2>3. QED
      BY <2>1, <2>2, HalvesEnd
  <1>6. ASSUME NEW f \in Files, EditRecipients(f)
        PROVE  HalvesInv'
    <2>1. UNCHANGED <<run, readers, staged, served>> /\ (Overlapping \/ \A u \in Terminals : Prompt(u))
      BY <1>6 DEF EditRecipients
    <2>2. HalvesTypes'
      BY <1>1, <2>1 DEF HalvesTypes
    <2>3. ASSUME NEW t \in Terminals, Prompt(t)
          PROVE  Halves(t)'
      <3>1. run'[t].command = "none"
        BY <2>1, <2>3 DEF Prompt, Idle
      <3>2. QED
        BY <3>1 DEF Halves, DeployKeyHalves, CertHalves, DeployKeyCommands
    <2>4. ~Overlapping' => ~Overlapping
      BY DEF Overlapping
    <2>5. QED
      BY <2>1, <2>2, <2>3, <2>4 DEF HalvesInv
  <1>7. QED
    BY <1>2, <1>3, <1>4, <1>5, <1>6, DeployKeyKeepsHalves, SavingKeepsHalves, UpKeepsHalves,
       RamStepKeepsHalves DEF SecretsNext, SecretsStep

LEMMA NextKeepsHalves ==
  ASSUME HalvesInv, [Next]_vars
  PROVE  HalvesInv'
  <1>1. BundleInv' /\ RamInv' /\ Processes
    BY NextKeepsWhole, NextKeepsRam DEF HalvesInv, BundleInv
  <1>2. CASE SecretsNext /\ OnSecrets
    BY <1>1, <1>2, SecretsKeepHalves DEF OnSecrets
  <1>3. ASSUME UNCHANGED <<scenario, secretsVars>>, NEW t \in Terminals,
               NEW c \in {"deploy", "up-env", "up-providers"}, Moves(t, {c})
        PROVE  HalvesInv'
    <2>1. HalvesTypes'
      BY <1>3 DEF HalvesInv, HalvesTypes, secretsVars
    <2>2. run'[t].command \notin DeployKeyCommands \cup {"up"}
      BY <1>3 DEF Moves, DeployKeyCommands
    <2>3. QED
      BY <1>1, <1>3, <2>1, <2>2, HalvesElsewhere
  <1>4. CASE ReleaseBuildNext /\ OnRelease
    <2>1. \/ UNCHANGED <<scenario, run, ram, secretsVars>>
          \/ UNCHANGED <<scenario, secretsVars>> /\ \E t \in Terminals : Moves(t, {"deploy"})
      BY <1>1, <1>4, ReleaseBuildMoves DEF OnRelease
    <2>2. QED
      BY <1>1, <1>3, <2>1, HalvesStuttering
  <1>5. CASE NodeEnvNext /\ OnNodeEnv
    <2>1. UNCHANGED <<scenario, ram, secretsVars>>
          /\ (run' = run \/ \E t \in Terminals : Moves(t, {"up-env"}))
      BY <1>1, <1>5, EnvMoves DEF OnNodeEnv, ramVars
    <2>2. QED
      BY <1>1, <1>3, <2>1, HalvesStuttering
  <1>6. CASE ProvidersNext /\ OnProviders
    <2>1. UNCHANGED <<scenario, ram, secretsVars>>
          /\ (run' = run \/ \E t \in Terminals : Moves(t, {"up-providers"}))
      BY <1>1, <1>6, ProvidersMoves DEF OnProviders, ramVars
    <2>2. QED
      BY <1>1, <1>3, <2>1, HalvesStuttering
  <1>7. CASE CalmDown \/ UNCHANGED vars
    <2>1. UNCHANGED <<scenario, run, ram, secretsVars>>
      BY <1>7 DEF CalmDown, vars, commandVars, ramVars
    <2>2. QED
      BY <1>1, <2>1, HalvesStuttering
  <1>8. QED
    BY <1>2, <1>4, <1>5, <1>6, <1>7 DEF Next

\* A command that succeeds leaves halves that match, whatever earlier commands
\* that failed or were killed left behind, as long as it is alone.
THEOREM SuccessLeavesMatchingHalves == Spec => MatchingHalves
  <1>1. ASSUME Init
        PROVE  HalvesInv
    <2>1. BundleInv /\ RamInv
      BY <1>1, InitWhole, InitRam
    <2>2. run = [t \in Terminals |-> [command |-> "none", at |-> "prompt"]]
      BY <1>1 DEF Init, CommandsInit, Idle
    <2>3. HalvesTypes
      <3>1. /\ readers = [f \in Files |-> IF f = "secrets.age" THEN {You} ELSE {}]
            /\ staged = NoPair /\ served = NoPair /\ You \in People
        BY <1>1, SecretsAssumption DEF Init, SecretsInit
      <3>2. QED
        BY <3>1 DEF HalvesTypes, NoPair
    <2>4. ASSUME NEW t \in Terminals
          PROVE  Halves(t)
      <3>1. run[t].command = "none"
        BY <2>2
      <3>2. QED
        BY <3>1 DEF Halves, DeployKeyHalves, CertHalves, DeployKeyCommands
    <2>5. QED
      BY <2>1, <2>3, <2>4 DEF HalvesInv
  <1>2. HalvesInv /\ [Next]_vars => HalvesInv'
    BY NextKeepsHalves
  <1>3. ASSUME HalvesInv, NEW t \in Terminals, ~Overlapping
        PROVE  /\ PublishKey(t) => /\ deployPub' = deployKey'
                                   /\ recipients["secrets.age"] \subseteq readers'["deploy.age"]
               /\ SendKey(t) => ciKey' = deployKey'
               /\ MoveCert(t) => \A k \in Pair : served'[k] = bundle'[k]
    <2>1. Halves(t) /\ served \in [Pair -> Int]
      BY <1>3 DEF HalvesInv, HalvesTypes
    <2>2. ASSUME PublishKey(t)
          PROVE  deployPub' = deployKey' /\ recipients["secrets.age"] \subseteq readers'["deploy.age"]
      <3>1. /\ run[t].command \in DeployKeyCommands /\ run[t].at = "publish"
            /\ deployPub' = mem[t].key /\ deployKey' = deployKey /\ readers' = readers
        BY <2>2 DEF PublishKey, At
      <3>2. QED
        BY <2>1, <3>1 DEF Halves, DeployKeyHalves
    <2>3. ASSUME SendKey(t)
          PROVE  ciKey' = deployKey'
      <3>1. /\ run[t].command \in DeployKeyCommands /\ run[t].at = "gh"
            /\ ciKey' = mem[t].key /\ deployKey' = deployKey
        BY <2>3 DEF SendKey, At, DeployKeyCommands
      <3>2. QED
        BY <2>1, <3>1 DEF Halves, DeployKeyHalves
    <2>4. ASSUME MoveCert(t)
          PROVE  \A k \in Pair : served'[k] = bundle'[k]
      <3>1. /\ run[t].command = "up" /\ run[t].at = "move cert" /\ bundle' = bundle
            /\ served' = [served EXCEPT !["origin_cert"] = staged["origin_cert"]]
        BY <2>4 DEF MoveCert, Move, At
      <3>2. /\ \A k \in Pair : mem[t].data[k] = bundle[k]
            /\ staged["origin_cert"] = mem[t].data["origin_cert"]
            /\ served["origin_key"] = mem[t].data["origin_key"]
        BY <2>1, <3>1 DEF Halves, CertHalves
      <3>3. QED
        BY <2>1, <3>1, <3>2 DEF Pair
    <2>5. QED
      BY <2>2, <2>3, <2>4
  <1>4. HalvesInv /\ [Next]_vars =>
          [\A t \in Terminals : ~Overlapping =>
             /\ PublishKey(t) =>
                  /\ deployPub' = deployKey'
                  /\ recipients["secrets.age"] \subseteq readers'["deploy.age"]
             /\ SendKey(t) => ciKey' = deployKey'
             /\ MoveCert(t) => \A k \in Pair : served'[k] = bundle'[k]]_<<commandVars, secretsVars>>
    BY <1>3
  <1>5. QED
    BY <1>1, <1>2, <1>4, PTL DEF Spec, MatchingHalves

-----------------------------------------------------------------------------
(* What is packaged is the tag                                             *)

\* The steps of a deploy that has verified its version and builds it.
BuildSteps == {"timestamp", "worktree", "cargo", "css", "copy", "package"}
Building(t) == run[t].command = "deploy" /\ run[t].at \in BuildSteps

DeskType == [version : Releases \cup {0}, bundle : Tarballs, tarball : Tarballs]

\* What PackagedIsTheTag asks of a tarball of version v, and why its files
\* declare that version.
IsTheTag(v, tarball) ==
  /\ tarball.source \in Commits
  /\ Free({"moved"}) => /\ tarball.source = tags[v] /\ tarball.mtime = tags[v]
                        /\ Declares(tags[v]) = v
  /\ ~Overlapping /\ Free({"renamed"}) => tarball.binary = tarball.source

Packed(t) ==
  desk[t].tarball # Nothing =>
    desk[t].version \in Releases /\ IsTheTag(desk[t].version, desk[t].tarball)

\* How a build gets there: the tag was verified and is still what it was, the
\* worktree is checked out from it, and from cargo on, alone, the cache holds
\* under this commit's name what was built from this commit.
Built(t) ==
  Building(t) =>
    /\ desk[t].version \in Releases /\ tags[desk[t].version] # 0
    /\ Free({"moved"}) => Declares(tags[desk[t].version]) = desk[t].version
    /\ Free({"moved"}) /\ run[t].at # "timestamp" =>
         desk[t].bundle.mtime = tags[desk[t].version]
    /\ run[t].at \in {"cargo", "css", "copy", "package"} =>
         /\ desk[t].bundle.source \in Commits
         /\ Free({"moved"}) => desk[t].bundle.source = tags[desk[t].version]
    /\ ~Overlapping /\ Free({"renamed"}) =>
         /\ run[t].at \in {"css", "copy"} =>
              cache[Builds(desk[t].bundle.source)] = desk[t].bundle.source
         /\ run[t].at = "package" => desk[t].bundle.binary = desk[t].bundle.source

ReleaseInv ==
  /\ Processes /\ ReleaseBuildTypeOK
  /\ \A t \in Terminals : Packed(t) /\ Built(t)
  /\ \A v \in Releases : shipped[v].source # 0 => IsTheTag(v, shipped[v])

\* Who builds nothing now, or goes on as before, has nothing new to show.
LEMMA ReleaseInvUntouched ==
  ASSUME ReleaseInv, Processes', scenario' = scenario, UNCHANGED releaseBuildVars,
         \A t \in Terminals : run'[t] = run[t] \/ ~Building(t)'
  PROVE  ReleaseInv'
  <1>1. UNCHANGED <<tags, cache, desk, shipped>>
    BY DEF releaseBuildVars
  <1>2. ReleaseBuildTypeOK'
    BY <1>1 DEF ReleaseInv, ReleaseBuildTypeOK
  <1>3. Overlapping' <=> Overlapping
    BY DEF Overlapping
  <1>4. \A v, b : IsTheTag(v, b)' <=> IsTheTag(v, b)
    BY <1>1, <1>3 DEF IsTheTag, Free
  <1>5. ASSUME NEW t \in Terminals
        PROVE  Packed(t)' /\ Built(t)'
    <2>1. Packed(t) /\ Built(t)
      BY DEF ReleaseInv
    <2>2. Packed(t)'
      BY <1>1, <1>4, <2>1 DEF Packed
    <2>3. CASE ~Building(t)'
      BY <2>2, <2>3 DEF Built
    <2>4. CASE run'[t] = run[t]
      BY <1>1, <1>3, <2>1, <2>2, <2>4 DEF Built, Building, Free
    <2>5. QED
      BY <2>3, <2>4
  <1>6. QED
    BY <1>1, <1>2, <1>4, <1>5 DEF ReleaseInv

\* One deploy goes on: another one that builds meanwhile makes the two overlap,
\* and then nobody relies on the cache.
LEMMA ReleaseInvKept ==
  ASSUME ReleaseInv, Processes', ReleaseBuildTypeOK', scenario' = scenario, tags' = tags,
         NEW t \in Terminals, NEW commands, Moves(t, commands),
         \A u \in Terminals \ {t} : desk'[u] = desk[u],
         Packed(t)', Built(t)',
         \A v \in Releases : shipped'[v].source # 0 => IsTheTag(v, shipped'[v])
  PROVE  ReleaseInv'
  <1>1. Overlapping' <=> Overlapping
    BY DEF Overlapping
  <1>2. \A v, b : IsTheTag(v, b)' <=> IsTheTag(v, b)
    BY <1>1 DEF IsTheTag, Free
  <1>3. ASSUME NEW u \in Terminals \ {t}
        PROVE  Packed(u)' /\ Built(u)'
    <2>1. Packed(u) /\ Built(u) /\ run'[u] = run[u] /\ desk'[u] = desk[u]
      BY DEF ReleaseInv, Moves
    <2>2. Packed(u)'
      BY <1>2, <2>1 DEF Packed
    <2>3. Building(u) => Overlapping
      <3>1. Building(u) => ~Prompt(u)
        BY DEF Building, Prompt, Idle
      <3>2. QED
        BY <3>1 DEF ReleaseInv, Processes, Moves, Overlapping
    <2>4. Built(u)'
      BY <1>1, <2>1, <2>3 DEF Built, Building, Free
    <2>5. QED
      BY <2>2, <2>4
  <1>4. \A v \in Releases : shipped'[v].source # 0 => IsTheTag(v, shipped[v])'
    BY <1>1 DEF IsTheTag, Free
  <1>5. QED
    BY <1>3, <1>4 DEF ReleaseInv

\* The steps of a release change the desk of the terminal they are taken in.
LEMMA DeskStep ==
  ASSUME ReleaseInv, NEW t \in Terminals, NEW d \in DeskType, desk' = [desk EXCEPT ![t] = d]
  PROVE  /\ desk' \in [Terminals -> DeskType] /\ desk'[t] = d
         /\ \A u \in Terminals \ {t} : desk'[u] = desk[u]
  BY DEF ReleaseInv, ReleaseBuildTypeOK, DeskType

LEMMA NoReleaseTyped ==
  /\ NoRelease \in DeskType /\ NoRelease.tarball = Nothing
  /\ \A v \in Releases : [NoRelease EXCEPT !.version = v] \in DeskType
  BY DEF NoRelease, Nothing, DeskType, Tarballs, Sources

\* What a step of a build shows of the record it leaves on the desk.
LEMMA ReleaseInvStep ==
  ASSUME ReleaseInv, Processes', ReleaseBuildTypeOK, scenario' = scenario,
         NEW t \in Terminals, Moves(t, {"deploy"}), NEW d \in DeskType,
         desk' = [desk EXCEPT ![t] = d], tags' = tags, shipped' = shipped,
         cache' \in [Binaries -> Sources],
         d.tarball # Nothing => d.version \in Releases /\ IsTheTag(d.version, d.tarball),
         desk'[t] = d => Built(t)'
  PROVE  ReleaseInv'
  <1>1. /\ desk' \in [Terminals -> DeskType] /\ desk'[t] = d
        /\ \A u \in Terminals \ {t} : desk'[u] = desk[u]
    BY DeskStep
  <1>2. ReleaseBuildTypeOK'
    BY <1>1 DEF ReleaseInv, ReleaseBuildTypeOK, DeskType
  <1>3. Packed(t)'
    <2>1. Overlapping' <=> Overlapping
      BY DEF Overlapping
    <2>2. QED
      BY <1>1, <2>1 DEF Packed, IsTheTag, Free
  <1>4. \A v \in Releases : shipped'[v].source # 0 => IsTheTag(v, shipped'[v])
    BY DEF ReleaseInv
  <1>5. QED
    BY <1>1, <1>2, <1>3, <1>4, ReleaseInvKept

\* A build that ends, whichever way, leaves nothing on the desk.
LEMMA ReleaseInvEnd ==
  ASSUME ReleaseInv, Processes', scenario' = scenario, NEW t \in Terminals,
         Moves(t, {"deploy"}), run'[t].at \notin BuildSteps,
         desk' = [desk EXCEPT ![t] = NoRelease], tags' = tags, shipped' = shipped,
         cache' \in [Binaries -> Sources]
  PROVE  ReleaseInv'
  <1>1. Built(t)'
    BY DEF Built, Building
  <1>2. ReleaseBuildTypeOK
    BY DEF ReleaseInv
  <1>3. QED
    BY <1>1, <1>2, NoReleaseTyped, ReleaseInvStep

LEMMA BeginsKeepRelease ==
  ASSUME ReleaseInv, Processes', scenario' = scenario, NEW t \in Terminals,
         VerifyVersion(t) \/ DeployTarball(t)
  PROVE  ReleaseInv'
  <1>1. ReleaseBuildTypeOK /\ Processes /\ tags' = tags /\ shipped' = shipped
        /\ cache' = cache /\ cache \in [Binaries -> Sources]
    BY DEF ReleaseInv, ReleaseBuildTypeOK, VerifyVersion, DeployTarball
  <1>2. PICK v \in Releases :
          /\ desk' = [desk EXCEPT ![t] = [NoRelease EXCEPT !.version = v]]
          /\ VerifyVersion(t) => tags[v] # 0 /\ Declares(tags[v]) = v
    BY DEF VerifyVersion, DeployTarball
  <1>3. PICK step \in {"timestamp", "identity"} :
          /\ Typed(t, "deploy") /\ Enter(t, "deploy", step)
          /\ step = "timestamp" => VerifyVersion(t)
    BY DEF VerifyVersion, DeployTarball
  <1>4. Moves(t, {"deploy"}) /\ run'[t].at = step
    BY <1>1, <1>3, Entering DEF Enter, Processes
  <1>5. DEFINE d == [NoRelease EXCEPT !.version = v]
  <1>6. d \in DeskType /\ d.tarball = Nothing /\ d.version = v
    BY NoReleaseTyped DEF NoRelease
  <1>7. ASSUME desk'[t] = d
        PROVE  Built(t)'
    BY <1>1, <1>2, <1>3, <1>4, <1>6, <1>7 DEF Built, Building, BuildSteps
  <1>8. QED
    BY <1>1, <1>2, <1>4, <1>6, <1>7, ReleaseInvStep

\* At work on a release: what the steps start from.
LEMMA WorkingIs ==
  ASSUME ReleaseInv, NEW t \in Terminals, NEW at \in BuildSteps \cup {"identity"}, Works(t, at)
  PROVE  /\ ~Prompt(t) /\ Packed(t)
         /\ run[t].command = "deploy" /\ run[t].at = at
         /\ desk[t] \in DeskType /\ desk[t].bundle \in Tarballs
         /\ tags \in [Releases -> Sources] /\ cache \in [Binaries -> Sources]
         /\ \A v \in Releases : tags[v] # 0 => tags[v] \in Commits
         /\ at # "identity" => Building(t) /\ Built(t)
         /\ \A step : Go(t, step) =>
              Moves(t, {"deploy"}) /\ run'[t].at = step /\ run'[t].command = "deploy"
         /\ Return(t) => Moves(t, {"deploy"}) /\ run'[t].at = "prompt"
  <1>1. run[t].command = "deploy" /\ run[t].at = at /\ Processes
    BY DEF Works, At, ReleaseInv
  <1>2. ~Prompt(t)
    BY <1>1 DEF Prompt, Idle
  <1>3. ASSUME NEW step, Go(t, step)
        PROVE  Moves(t, {"deploy"}) /\ run'[t].at = step /\ run'[t].command = "deploy"
    BY <1>1, <1>2, <1>3, Going, GoIs
  <1>4. ASSUME Return(t)
        PROVE  Moves(t, {"deploy"}) /\ run'[t].at = "prompt"
    BY <1>1, <1>2, <1>4, Returning DEF Return, Idle, Processes
  <1>5. desk[t] \in DeskType /\ desk[t].bundle \in Tarballs
    BY DEF ReleaseInv, ReleaseBuildTypeOK, DeskType
  <1>6. /\ tags \in [Releases -> Sources] /\ cache \in [Binaries -> Sources]
        /\ Packed(t) /\ Built(t)
    BY DEF ReleaseInv, ReleaseBuildTypeOK
  <1>7. at # "identity" => Building(t)
    BY <1>1 DEF Building
  <1>8. \A v \in Releases : tags[v] # 0 => tags[v] \in Commits
    BY <1>6 DEF Sources
  <1>9. QED
    BY <1>1, <1>2, <1>3, <1>4, <1>5, <1>6, <1>7, <1>8

LEMMA CheckoutKeepsRelease ==
  ASSUME ReleaseInv, Processes', scenario' = scenario, NEW t \in Terminals,
         TagCommitTimestamp(t) \/ ReleaseWorktree(t)
  PROVE  ReleaseInv'
  <1>1. /\ ReleaseBuildTypeOK /\ tags' = tags /\ shipped' = shipped /\ cache' = cache
        /\ Works(t, "timestamp") \/ Works(t, "worktree")
    BY DEF ReleaseInv, TagCommitTimestamp, ReleaseWorktree
  <1>2. /\ Building(t) /\ Built(t) /\ Packed(t) /\ desk[t] \in DeskType /\ desk[t].bundle \in Tarballs
        /\ tags \in [Releases -> Sources] /\ cache \in [Binaries -> Sources]
        /\ Tagged(t) = tags[desk[t].version] /\ desk[t].version \in Releases /\ Tagged(t) \in Commits
    BY <1>1, WorkingIs DEF BuildSteps, Built, Tagged
  <1>3. CASE TagCommitTimestamp(t)
    <2>1. /\ Works(t, "timestamp") /\ Go(t, "worktree")
          /\ desk' = [desk EXCEPT ![t].bundle.mtime = Tagged(t)]
      BY <1>3 DEF TagCommitTimestamp
    <2>2. Moves(t, {"deploy"}) /\ run'[t].at = "worktree"
      BY <2>1, WorkingIs DEF BuildSteps
    <2>3. DEFINE b == [desk[t].bundle EXCEPT !.mtime = Tagged(t)]
                 d == [desk[t] EXCEPT !.bundle = b]
    <2>4. b \in Tarballs /\ b.mtime = Tagged(t)
      BY <1>2 DEF Tarballs, Sources
    <2>5. /\ d \in DeskType /\ d.bundle = b
          /\ d.version = desk[t].version /\ d.tarball = desk[t].tarball
      BY <1>2, <2>4 DEF DeskType
    <2>6. desk' = [desk EXCEPT ![t] = d]
      BY <2>1
    <2>7. ASSUME desk'[t] = d
          PROVE  Built(t)'
      BY <1>1, <1>2, <2>2, <2>4, <2>5, <2>7 DEF Built, Building, BuildSteps, Free
    <2>8. d.tarball # Nothing => d.version \in Releases /\ IsTheTag(d.version, d.tarball)
      BY <1>2, <2>5 DEF Packed
    <2>9. QED
      BY <1>1, <1>2, <2>2, <2>5, <2>6, <2>7, <2>8, ReleaseInvStep
  <1>4. CASE ReleaseWorktree(t)
    <2>1. Works(t, "worktree") /\ run[t].at = "worktree"
      BY <1>4 DEF ReleaseWorktree, Works, At
    <2>2. CASE desk' = [desk EXCEPT ![t].bundle.source = Tagged(t)] /\ Go(t, "cargo")
      <3>1. Moves(t, {"deploy"}) /\ run'[t].at = "cargo"
        BY <2>1, <2>2, WorkingIs DEF BuildSteps
      <3>2. DEFINE b == [desk[t].bundle EXCEPT !.source = Tagged(t)]
                   d == [desk[t] EXCEPT !.bundle = b]
      <3>3. b \in Tarballs /\ b.source = Tagged(t) /\ b.mtime = desk[t].bundle.mtime
        BY <1>2 DEF Tarballs, Sources
      <3>4. /\ d \in DeskType /\ d.bundle = b
            /\ d.version = desk[t].version /\ d.tarball = desk[t].tarball
        BY <1>2, <3>3 DEF DeskType
      <3>5. desk' = [desk EXCEPT ![t] = d]
        BY <2>2
      <3>6. ASSUME desk'[t] = d
            PROVE  Built(t)'
        BY <1>1, <1>2, <2>1, <3>1, <3>3, <3>4, <3>6 DEF Built, Building, BuildSteps, Free
      <3>7. d.tarball # Nothing => d.version \in Releases /\ IsTheTag(d.version, d.tarball)
        BY <1>2, <3>4 DEF Packed
      <3>8. QED
        BY <1>1, <1>2, <3>1, <3>4, <3>5, <3>6, <3>7, ReleaseInvStep
    <2>3. CASE desk' = [desk EXCEPT ![t] = NoRelease] /\ Return(t)
      <3>1. Moves(t, {"deploy"}) /\ run'[t].at = "prompt"
        BY <2>1, <2>3, WorkingIs DEF BuildSteps
      <3>2. QED
        BY <1>1, <1>2, <2>3, <3>1, ReleaseInvEnd DEF BuildSteps
    <2>4. QED
      BY <1>4, <2>2, <2>3 DEF ReleaseWorktree
  <1>5. QED
    BY <1>3, <1>4

LEMMA CompilationKeepsRelease ==
  ASSUME ReleaseInv, Processes', scenario' = scenario, NEW t \in Terminals,
         CargoBuild(t) \/ BuildCss(t) \/ CopyBinary(t)
  PROVE  ReleaseInv'
  <1>1. /\ ReleaseBuildTypeOK /\ tags' = tags /\ shipped' = shipped
        /\ Works(t, "cargo") \/ Works(t, "css") \/ Works(t, "copy")
    BY DEF ReleaseInv, CargoBuild, BuildCss, CopyBinary
  <1>2. /\ Building(t) /\ Built(t) /\ Packed(t) /\ desk[t] \in DeskType /\ desk[t].bundle \in Tarballs
        /\ cache \in [Binaries -> Sources] /\ run[t].at \in {"cargo", "css", "copy"}
    BY <1>1, WorkingIs DEF BuildSteps
  <1>3. desk[t].bundle.source \in Commits /\ Builds(desk[t].bundle.source) \in Binaries
    BY <1>2 DEF Built, Binaries
  <1>4. Overlapping' <=> Overlapping
    BY DEF Overlapping
  <1>5. ASSUME NEW step \in {"css", "copy"}, Go(t, step), desk' = desk,
               cache' \in [Binaries -> Sources],
               ~Overlapping /\ Free({"renamed"}) =>
                 cache'[Builds(desk[t].bundle.source)] = desk[t].bundle.source
        PROVE  ReleaseInv'
    <2>1. Moves(t, {"deploy"}) /\ run'[t].at = step
      BY <1>1, <1>5, WorkingIs DEF BuildSteps
    <2>2. desk' = [desk EXCEPT ![t] = desk[t]]
      BY <1>5 DEF ReleaseInv, ReleaseBuildTypeOK
    <2>3. Built(t)'
      BY <1>1, <1>2, <1>3, <1>4, <1>5, <2>1 DEF Built, Building, BuildSteps, Free
    <2>4. QED
      BY <1>1, <1>2, <1>5, <2>1, <2>2, <2>3, ReleaseInvStep DEF Packed
  <1>6. CASE CargoBuild(t)
    <2>1. /\ Go(t, "css") /\ desk' = desk
          /\ cache' = [cache EXCEPT ![Builds(desk[t].bundle.source)] = desk[t].bundle.source]
      BY <1>6 DEF CargoBuild
    <2>2. /\ cache' \in [Binaries -> Sources]
          /\ cache'[Builds(desk[t].bundle.source)] = desk[t].bundle.source
      BY <1>2, <1>3, <2>1 DEF Sources
    <2>3. QED
      BY <1>5, <2>1, <2>2
  <1>7. CASE BuildCss(t)
    <2>1. Go(t, "copy") /\ desk' = desk /\ cache' = cache /\ run[t].at = "css"
      BY <1>7 DEF BuildCss, Works, At
    <2>2. ~Overlapping /\ Free({"renamed"}) =>
            cache[Builds(desk[t].bundle.source)] = desk[t].bundle.source
      BY <1>2, <2>1 DEF Built
    <2>3. QED
      BY <1>2, <1>5, <2>1, <2>2
  <1>8. CASE CopyBinary(t)
    <2>1. Works(t, "copy") /\ run[t].at = "copy" /\ cache' = cache
      BY <1>8 DEF CopyBinary, Works, At
    <2>2. DEFINE binary == cache[BinaryOf(desk[t].bundle.source)]
    <2>3. CASE binary # 0 /\ desk' = [desk EXCEPT ![t].bundle.binary = binary] /\ Go(t, "package")
      <3>1. Moves(t, {"deploy"}) /\ run'[t].at = "package"
        BY <2>1, <2>3, WorkingIs DEF BuildSteps
      <3>2. DEFINE b == [desk[t].bundle EXCEPT !.binary = binary]
                   d == [desk[t] EXCEPT !.bundle = b]
      <3>3. binary \in Sources
        BY <1>2, <1>3 DEF BinaryOf, Binaries
      <3>4. /\ b \in Tarballs /\ b.binary = binary
            /\ b.mtime = desk[t].bundle.mtime /\ b.source = desk[t].bundle.source
        BY <1>2, <3>3 DEF Tarballs
      <3>5. /\ d \in DeskType /\ d.bundle = b
            /\ d.version = desk[t].version /\ d.tarball = desk[t].tarball
        BY <1>2, <3>4 DEF DeskType
      <3>6. desk' = [desk EXCEPT ![t] = d]
        BY <2>3
      <3>7. ~Overlapping /\ Free({"renamed"}) => binary = desk[t].bundle.source
        BY <1>2, <2>1 DEF Built, BinaryOf, Free, Given
      <3>8. ASSUME desk'[t] = d
            PROVE  Built(t)'
        <4>1. /\ desk'[t].version = desk[t].version
              /\ desk'[t].bundle.source = desk[t].bundle.source
              /\ desk'[t].bundle.mtime = desk[t].bundle.mtime
              /\ ~Overlapping /\ Free({"renamed"}) =>
                   desk'[t].bundle.binary = desk[t].bundle.source
          BY <3>4, <3>5, <3>7, <3>8
        <4>2. /\ desk[t].version \in Releases /\ tags[desk[t].version] # 0
              /\ Free({"moved"}) => /\ Declares(tags[desk[t].version]) = desk[t].version
                                    /\ desk[t].bundle.mtime = tags[desk[t].version]
                                    /\ desk[t].bundle.source = tags[desk[t].version]
          BY <1>2, <2>1 DEF Built
        <4>3. QED
          BY <1>1, <1>3, <1>4, <3>1, <4>1, <4>2 DEF Built, Free
      <3>9. d.tarball # Nothing => d.version \in Releases /\ IsTheTag(d.version, d.tarball)
        BY <1>2, <3>5 DEF Packed
      <3>10. QED
        BY <1>1, <1>2, <2>1, <3>1, <3>5, <3>6, <3>8, <3>9, ReleaseInvStep
    <2>4. CASE desk' = [desk EXCEPT ![t] = NoRelease] /\ Return(t)
      <3>1. Moves(t, {"deploy"}) /\ run'[t].at = "prompt"
        BY <2>1, <2>4, WorkingIs DEF BuildSteps
      <3>2. QED
        BY <1>1, <1>2, <2>1, <2>4, <3>1, ReleaseInvEnd DEF BuildSteps
    <2>5. QED
      BY <1>8, <2>3, <2>4 DEF CopyBinary
  <1>9. QED
    BY <1>6, <1>7, <1>8

LEMMA PackageKeepsRelease ==
  ASSUME ReleaseInv, Processes', scenario' = scenario, NEW t \in Terminals,
         Package(t) \/ DeployIdentity(t)
  PROVE  ReleaseInv'
  <1>1. /\ ReleaseBuildTypeOK /\ tags' = tags /\ shipped' = shipped /\ cache' = cache
        /\ Works(t, "package") \/ Works(t, "identity")
    BY DEF ReleaseInv, Package, DeployIdentity
  <1>2. /\ Packed(t) /\ desk[t] \in DeskType /\ desk[t].bundle \in Tarballs
        /\ cache \in [Binaries -> Sources]
    BY <1>1, WorkingIs DEF BuildSteps
  <1>3. ASSUME NEW d \in DeskType, desk' = [desk EXCEPT ![t] = d],
               d.tarball # Nothing => d.version \in Releases /\ IsTheTag(d.version, d.tarball),
               NEW step, step \notin BuildSteps, Go(t, step)
        PROVE  ReleaseInv'
    <2>1. Moves(t, {"deploy"}) /\ run'[t].at = step
      BY <1>1, <1>3, WorkingIs DEF BuildSteps
    <2>2. Built(t)'
      BY <1>3, <2>1 DEF Built, Building
    <2>3. QED
      BY <1>1, <1>2, <1>3, <2>1, <2>2, ReleaseInvStep
  <1>4. CASE Package(t)
    <2>1. /\ Works(t, "package") /\ Go(t, "identity") /\ run[t].at = "package"
          /\ desk' = [desk EXCEPT ![t].tarball = desk[t].bundle]
      BY <1>4 DEF Package, Works, At
    <2>2. Building(t) /\ Built(t)
      BY <2>1, WorkingIs DEF BuildSteps
    <2>3. DEFINE d == [desk[t] EXCEPT !.tarball = desk[t].bundle]
    <2>4. d \in DeskType /\ d.tarball = desk[t].bundle /\ d.version = desk[t].version
      BY <1>2 DEF DeskType
    <2>5. d.version \in Releases /\ IsTheTag(d.version, d.tarball)
      BY <2>1, <2>2, <2>4 DEF Built, IsTheTag
    <2>6. desk' = [desk EXCEPT ![t] = d]
      BY <2>1
    <2>7. QED
      BY <1>3, <2>1, <2>4, <2>5, <2>6 DEF BuildSteps
  <1>5. CASE DeployIdentity(t)
    <2>1. Works(t, "identity")
      BY <1>5 DEF DeployIdentity
    <2>2. CASE desk' = desk /\ (Go(t, "ship") \/ Go(t, "ram"))
      <3>1. desk' = [desk EXCEPT ![t] = desk[t]]
        BY <2>2 DEF ReleaseInv, ReleaseBuildTypeOK
      <3>2. QED
        BY <1>2, <1>3, <2>2, <3>1 DEF Packed, BuildSteps
    <2>3. CASE Return(t) /\ desk' = [desk EXCEPT ![t] = NoRelease]
      <3>1. Moves(t, {"deploy"}) /\ run'[t].at = "prompt"
        BY <2>1, <2>3, WorkingIs
      <3>2. QED
        BY <1>1, <1>2, <2>3, <3>1, ReleaseInvEnd DEF BuildSteps
    <2>4. QED
      BY <1>5, <2>2, <2>3 DEF DeployIdentity
  <1>6. QED
    BY <1>4, <1>5

\* The end of a deploy, in the RAM directory or out of it.
LEMMA EndDeployIs ==
  ASSUME ReleaseInv, NEW t \in Terminals, NEW raising, run[t].command = "deploy",
         EndDeploy(t, raising)
  PROVE  /\ Moves(t, {"deploy"}) /\ run'[t].at \notin BuildSteps
         /\ desk' = [desk EXCEPT ![t] = NoRelease]
  <1>1. Processes /\ ~Prompt(t)
    BY DEF ReleaseInv, Prompt, Idle
  <1>2. CASE Go(t, "wipe")
    BY <1>1, <1>2, Going, GoIs DEF EndDeploy, BuildSteps
  <1>3. CASE Return(t)
    <2>1. run'[t].at = "prompt"
      BY <1>1, <1>3 DEF Return, Idle, Processes
    <2>2. QED
      BY <1>1, <1>3, <2>1, Returning DEF EndDeploy, BuildSteps
  <1>4. QED
    BY <1>2, <1>3 DEF EndDeploy, LeaveRam

LEMMA ShipKeepsRelease ==
  ASSUME ReleaseInv, Processes', scenario' = scenario, NEW t \in Terminals, Ship(t)
  PROVE  ReleaseInv'
  <1>1. /\ run[t].command = "deploy" /\ EndDeploy(t, FALSE) /\ tags' = tags /\ cache' = cache
        /\ shipped' = IF desk[t].tarball = Nothing THEN shipped
                      ELSE [shipped EXCEPT ![desk[t].version] = desk[t].tarball]
    BY DEF Ship, Works, At
  <1>2. /\ Moves(t, {"deploy"}) /\ run'[t].at \notin BuildSteps
        /\ desk' = [desk EXCEPT ![t] = NoRelease]
    BY <1>1, EndDeployIs
  <1>3. /\ desk' \in [Terminals -> DeskType] /\ desk'[t] = NoRelease
        /\ \A u \in Terminals \ {t} : desk'[u] = desk[u]
    BY <1>2, DeskStep, NoReleaseTyped
  <1>4. Packed(t)' /\ Built(t)'
    BY <1>2, <1>3, NoReleaseTyped DEF Packed, Built, Building
  <1>5. /\ Packed(t) /\ desk[t].tarball \in Tarballs /\ ReleaseBuildTypeOK
        /\ \A v \in Releases : shipped[v].source # 0 => IsTheTag(v, shipped[v])
    BY DEF ReleaseInv, ReleaseBuildTypeOK
  <1>6. /\ shipped' \in [Releases -> Tarballs]
        /\ \A v \in Releases : shipped'[v].source # 0 => IsTheTag(v, shipped'[v])
    <2>1. CASE desk[t].tarball = Nothing
      BY <1>1, <1>5, <2>1 DEF ReleaseBuildTypeOK
    <2>2. CASE desk[t].tarball # Nothing
      <3>1. desk[t].version \in Releases /\ IsTheTag(desk[t].version, desk[t].tarball)
        BY <1>5, <2>2 DEF Packed
      <3>2. /\ shipped \in [Releases -> Tarballs]
            /\ shipped' = [shipped EXCEPT ![desk[t].version] = desk[t].tarball]
        BY <1>1, <1>5, <2>2 DEF ReleaseBuildTypeOK
      <3>3. QED
        BY <1>5, <3>1, <3>2
    <2>3. QED
      BY <2>1, <2>2
  <1>7. ReleaseBuildTypeOK'
    BY <1>1, <1>3, <1>5, <1>6 DEF ReleaseBuildTypeOK, DeskType
  <1>8. QED
    BY <1>1, <1>2, <1>3, <1>4, <1>6, <1>7, ReleaseInvKept

LEMMA FailureKeepsRelease ==
  ASSUME ReleaseInv, Processes', scenario' = scenario, NEW t \in Terminals, DeployFails(t)
  PROVE  ReleaseInv'
  <1>1. /\ run[t].command = "deploy" /\ tags' = tags /\ shipped' = shipped
        /\ \/ EndDeploy(t, TRUE)
           \/ Return(t) /\ desk' = [desk EXCEPT ![t] = NoRelease]
    BY DEF DeployFails
  <1>2. /\ Moves(t, {"deploy"}) /\ run'[t].at \notin BuildSteps
        /\ desk' = [desk EXCEPT ![t] = NoRelease]
    <2>1. CASE EndDeploy(t, TRUE)
      BY <1>1, <2>1, EndDeployIs
    <2>2. CASE Return(t) /\ desk' = [desk EXCEPT ![t] = NoRelease]
      <3>1. ~Prompt(t) /\ Processes
        BY <1>1 DEF Prompt, Idle, ReleaseInv
      <3>2. run'[t].at = "prompt"
        BY <2>2, <3>1 DEF Return, Idle, Processes
      <3>3. QED
        BY <1>1, <2>2, <3>1, <3>2, Returning DEF BuildSteps
    <2>3. QED
      BY <1>1, <2>1, <2>2
  <1>3. cache' \in [Binaries -> Sources]
    <2>1. cache \in [Binaries -> Sources]
      BY DEF ReleaseInv, ReleaseBuildTypeOK
    <2>2. cache' = cache \/ \E c \in Commits : cache' = [cache EXCEPT ![Builds(c)] = c]
      BY DEF DeployFails
    <2>3. QED
      BY <2>1, <2>2 DEF Sources
  <1>4. QED
    BY <1>1, <1>2, <1>3, ReleaseInvEnd

\* A tag that is made was not relied on, and one that is moved is one nobody
\* relies on.
LEMMA TagKeepsRelease ==
  ASSUME ReleaseInv, Processes', scenario' = scenario,
         NEW v \in Releases, NEW c \in Commits, Tag(v, c)
  PROVE  ReleaseInv'
  <1>1. /\ tags \in [Releases -> Sources] /\ tags' = [tags EXCEPT ![v] = c]
        /\ UNCHANGED <<run, cache, desk, shipped>>
        /\ tags[v] = 0 \/ ~Free({"moved"})
    BY DEF ReleaseInv, ReleaseBuildTypeOK, Tag, Given, Free
  <1>2. 0 \notin Commits
    BY ReleaseBuildAssumption
  <1>3. Overlapping' <=> Overlapping
    BY DEF Overlapping
  <1>4. \A w \in Releases : /\ tags[w] # 0 => tags'[w] # 0
                            /\ tags[w] # 0 /\ Free({"moved"}) => tags'[w] = tags[w]
    BY <1>1, <1>2
  <1>5. ASSUME NEW w \in Releases, NEW b, IsTheTag(w, b)
        PROVE  IsTheTag(w, b)'
    <2>1. Free({"moved"}) => tags[w] # 0
      BY <1>2, <1>5 DEF IsTheTag
    <2>2. QED
      BY <1>3, <1>4, <1>5, <2>1 DEF IsTheTag, Free
  <1>6. ASSUME NEW t \in Terminals
        PROVE  Packed(t)' /\ Built(t)'
    <2>1. Packed(t) /\ Built(t)
      BY DEF ReleaseInv
    <2>2. Packed(t)'
      BY <1>1, <1>5, <2>1 DEF Packed
    <2>3. Built(t)'
      BY <1>1, <1>3, <1>4, <2>1 DEF Built, Building, Free
    <2>4. QED
      BY <2>2, <2>3
  <1>7. ReleaseBuildTypeOK'
    BY <1>1 DEF ReleaseInv, ReleaseBuildTypeOK, Sources
  <1>8. QED
    BY <1>1, <1>5, <1>6, <1>7 DEF ReleaseInv

\* A command that is not building goes on somewhere else, or one begins that
\* is not a deploy.
LEMMA StaysOutOfBuilding ==
  ASSUME Processes, NEW t \in Terminals,
         \/ \E step : step \notin BuildSteps /\ Go(t, step)
         \/ Return(t)
         \/ \E c, step : c # "deploy" /\ Enter(t, c, step)
  PROVE  \A u \in Terminals : run'[u] = run[u] \/ ~Building(u)'
  <1>1. \A u \in Terminals \ {t} : run'[u] = run[u]
    BY DEF Processes, Go, Return, Enter
  <1>2. CASE \E step : step \notin BuildSteps /\ Go(t, step)
    BY <1>1, <1>2, GoIs DEF Building
  <1>3. CASE Return(t)
    BY <1>1, <1>3, ReturnIs DEF Building
  <1>4. CASE \E c, step : c # "deploy" /\ Enter(t, c, step)
    <2>1. PICK c, step : c # "deploy" /\ Enter(t, c, step)
      BY <1>4
    <2>2. run'[t].command = c
      BY <2>1 DEF Enter, Processes
    <2>3. QED
      BY <1>1, <2>1, <2>2 DEF Building
  <1>5. QED
    BY <1>2, <1>3, <1>4

LEMMA SecretsBuildNothing ==
  ASSUME Processes, SecretsNext
  PROVE  \A u \in Terminals : run'[u] = run[u] \/ ~Building(u)'
  <1>1. ASSUME NEW t \in Terminals, SecretsStep(t)
        PROVE  \A u \in Terminals : run'[u] = run[u] \/ ~Building(u)'
    <2>1. CASE SetKey(t) \/ UnsetKey(t) \/ EditKey(t) \/ DeployKeyInit(t) \/ CiSetup(t) \/ Up(t)
      <3>1. \E c, step : c # "deploy" /\ Enter(t, c, step)
        BY <2>1 DEF SetKey, UnsetKey, EditKey, DeployKeyInit, CiSetup, Up, DeployKeyCommands
      <3>2. QED
        BY <3>1, StaysOutOfBuilding
    <2>2. CASE \/ EditorCloses(t) \/ Keygen(t) \/ Encrypt(t) \/ ReplaceBundle(t)
               \/ ReplaceDeployKey(t) \/ PublishKey(t) \/ ReadKey(t) \/ SendKey(t)
      <3>1. \/ Return(t) \/ Go(t, "wipe") \/ Go(t, "encrypt") \/ Go(t, "replace")
            \/ Go(t, "stage key") \/ Go(t, "read key") \/ Go(t, "gh")
        BY <2>2 DEF EditorCloses, Keygen, Encrypt, ReplaceBundle, ReplaceDeployKey, PublishKey,
           ReadKey, SendKey, LeaveRam, End
      <3>2. QED
        BY <3>1, StaysOutOfBuilding DEF BuildSteps
    <2>3. CASE \/ EnsureOriginCert(t) \/ StageKey(t) \/ StageCert(t) \/ MoveKey(t) \/ MoveCert(t)
               \/ NothingToMove(t) \/ SecretsFail(t) \/ SecretsKilled(t)
      <3>1. \/ Return(t) \/ Go(t, "wipe") \/ Go(t, "encrypt") \/ Go(t, "stage cert")
            \/ Go(t, "move key") \/ Go(t, "move cert")
        BY <2>3 DEF EnsureOriginCert, StageKey, StageCert, Stage, MoveKey, MoveCert, NothingToMove,
           SecretsFail, SecretsKilled, Killed, LeaveRam, End
      <3>2. QED
        BY <3>1, StaysOutOfBuilding DEF BuildSteps
    <2>4. CASE RamStep(t)
      <3>1. \/ Return(t) \/ Go(t, "format") \/ Go(t, "detach")
            \/ Go(t, Body(run[t].command)) \/ Go(t, Behind(run[t].command))
        BY <2>4 DEF RamStep, OpenDirectory, AttachDisk, NoRamToBeHad, Format, FormatFails, Wipe,
           Detach, Onward
      <3>2. Body(run[t].command) \notin BuildSteps /\ Behind(run[t].command) \notin BuildSteps
        BY DEF Body, Behind, BuildSteps
      <3>3. "format" \notin BuildSteps /\ "detach" \notin BuildSteps
        BY DEF BuildSteps
      <3>4. QED
        BY <3>1, <3>2, <3>3, StaysOutOfBuilding
    <2>5. QED
      BY <1>1, <2>1, <2>2, <2>3, <2>4 DEF SecretsStep
  <1>2. ASSUME NEW f \in Files, EditRecipients(f)
        PROVE  \A u \in Terminals : run'[u] = run[u] \/ ~Building(u)'
    BY <1>2 DEF EditRecipients
  <1>3. QED
    BY <1>1, <1>2 DEF SecretsNext

LEMMA NextKeepsRelease ==
  ASSUME BundleInv, ReleaseInv, [Next]_vars
  PROVE  ReleaseInv'
  <1>1. Processes /\ Processes'
    BY NextKeepsWhole DEF BundleInv
  <1>2. CASE SecretsNext /\ OnSecrets
    BY <1>1, <1>2, SecretsBuildNothing, ReleaseInvUntouched DEF OnSecrets
  <1>3. CASE ReleaseBuildNext /\ OnRelease
    <2>1. scenario' = scenario
      BY <1>3 DEF OnRelease
    <2>2. QED
      BY <1>1, <1>3, <2>1, BeginsKeepRelease, CheckoutKeepsRelease, CompilationKeepsRelease,
         PackageKeepsRelease, ShipKeepsRelease, FailureKeepsRelease, TagKeepsRelease
         DEF ReleaseBuildNext, ReleaseBuildStep
  <1>4. CASE (NodeEnvNext /\ OnNodeEnv) \/ (ProvidersNext /\ OnProviders)
    <2>1. UNCHANGED <<scenario, releaseBuildVars>>
      BY <1>4 DEF OnNodeEnv, OnProviders
    <2>2. run' = run \/ \E t \in Terminals : Moves(t, {"up-env"}) \/ Moves(t, {"up-providers"})
      BY <1>1, <1>4, EnvMoves, ProvidersMoves
    <2>3. \A u \in Terminals : run'[u] = run[u] \/ ~Building(u)'
      BY <2>2 DEF Moves, Building
    <2>4. QED
      BY <1>1, <2>1, <2>3, ReleaseInvUntouched
  <1>5. CASE CalmDown \/ UNCHANGED vars
    <2>1. UNCHANGED <<scenario, run, releaseBuildVars>>
      BY <1>5 DEF CalmDown, vars, commandVars
    <2>2. QED
      BY <1>1, <2>1, ReleaseInvUntouched
  <1>6. QED
    BY <1>2, <1>3, <1>4, <1>5 DEF Next

\* At first nothing is tagged, built or shipped.
LEMMA InitRelease ==
  ASSUME Init
  PROVE  ReleaseInv
  <1>1. Processes
    BY InitWhole DEF BundleInv
  <1>2. /\ tags = [v \in Releases |-> 0] /\ cache = [b \in Binaries |-> 0]
        /\ desk = [t \in Terminals |-> NoRelease] /\ shipped = [v \in Releases |-> Nothing]
        /\ run = [t \in Terminals |-> [command |-> "none", at |-> "prompt"]]
    BY DEF Init, ReleaseBuildInit, CommandsInit, Idle
  <1>3. Nothing \in Tarballs /\ Nothing.source = 0
    BY DEF Nothing, Tarballs, Sources
  <1>4. ReleaseBuildTypeOK
    BY <1>2, <1>3, NoReleaseTyped DEF ReleaseBuildTypeOK, DeskType, Sources
  <1>5. ASSUME NEW t \in Terminals
        PROVE  Packed(t) /\ Built(t)
    BY <1>2, NoReleaseTyped DEF Packed, Built, Building
  <1>6. QED
    BY <1>1, <1>2, <1>3, <1>4, <1>5 DEF ReleaseInv

\* What is shipped is what was tagged, whatever earlier builds that failed left
\* in the cache; the program too, as long as deploys do not overlap.
THEOREM ShippedIsTheTag == Spec => []PackagedIsTheTag
  <1>1. Init => BundleInv
    BY InitWhole
  <1>2. Init => ReleaseInv
    BY InitRelease
  <1>3. BundleInv /\ ReleaseInv /\ [Next]_vars => BundleInv' /\ ReleaseInv'
    BY NextKeepsWhole, NextKeepsRelease
  <1>4. ReleaseInv => PackagedIsTheTag
    BY DEF ReleaseInv, PackagedIsTheTag, IsTheTag
  <1>5. QED
    BY <1>1, <1>2, <1>3, <1>4, PTL DEF Spec

=============================================================================
