----------------------- MODULE StackDeployRefinesProofs -----------------------
(***************************************************************************)
(* The engine implements the traffic contract of BlueGreen for every set   *)
(* of processes and versions and every combination of failing commands,    *)
(* deaths and power losses; a full disk empties the state files it speaks  *)
(* of.                                                                     *)
(***************************************************************************)
EXTENDS StackDeployRefines, StackDeployProofs

\* The contract over the files themselves, which is what it sees of them as
\* long as no full disk empties them.
Plain == INSTANCE BlueGreen WITH recorded <- active, live <- sock, intent <- pending, up <- Up

\* What a step of the engine is to the contract.
Allowed == Plain!Next \/ UNCHANGED Plain!vars

\* The contract sees nothing of a step that leaves routing, records and units.
LEMMA Unseen ==
  ASSUME UNCHANGED <<active, sock, pending, unit>>
  PROVE  Allowed
  BY DEF Allowed, Plain!vars, Up

\* Starting, restarting or stopping one unit.
LEMMA UnitStep ==
  ASSUME TypeOK, NEW c \in Colors, NEW r,
         unit' = [unit EXCEPT ![c] = r],
         UNCHANGED <<active, sock, pending>>,
         r = Stopped /\ unit[c] # Stopped => c # active \/ c = pending
  PROVE  Allowed
  <1>1. unit \in [Colors -> Versions \cup {Stopped}]
    BY DEF TypeOK
  <1>2. CASE r = Stopped /\ unit[c] # Stopped
    <2>1. c \in Up /\ Up' = Up \ {c}
      BY <1>1, <1>2 DEF Up
    <2>2. Plain!Stop(c)
      BY <1>2, <2>1 DEF Plain!Stop
    <2>3. QED
      BY <2>2 DEF Allowed, Plain!Next
  <1>3. CASE r # Stopped /\ unit[c] = Stopped
    <2>1. c \notin Up /\ Up' = Up \cup {c}
      BY <1>1, <1>3 DEF Up
    <2>2. Plain!Start(c)
      BY <2>1 DEF Plain!Start
    <2>3. QED
      BY <2>2 DEF Allowed, Plain!Next
  <1>4. CASE r = Stopped <=> unit[c] = Stopped
    <2>1. Up' = Up
      BY <1>1, <1>4 DEF Up
    <2>2. QED
      BY <2>1 DEF Allowed, Plain!vars
  <1>5. QED
    BY <1>2, <1>3, <1>4

\* resolve_pending_color, step by step.
LEMMA ResolveAllowed ==
  ASSUME "disk" \notin faults, IInv, NEW p \in Procs,
         Resolve(p) \/ Resume(p) \/ Reflip(p) \/ Rerecord(p) \/ Fallback(p) \/ Settle(p)
  PROVE  Allowed
  <1>1. TypeOK /\ Where(p)
    BY DEF IInv
  <1>2. pending \in Colors \cup {NoColor, Empty} /\ Stopped = NoVersion
    BY <1>1 DEF TypeOK, Stopped, NoVersion
  <1>3. CASE Resolve(p)
    <2>1. CASE unit' = unit
      BY <1>3, <2>1, Unseen DEF Resolve, disk
    <2>2. CASE unit' # unit
      <3>1. /\ pending \in Colors /\ Linked(pending) /\ unit' = Started(pending)
            /\ UNCHANGED <<active, sock, pending>>
        BY <1>2, <1>3, <2>2 DEF Resolve, disk
      <3>2. unit' = [unit EXCEPT ![pending] = IF unit[pending] = Stopped THEN link[pending] ELSE unit[pending]]
        BY <3>1 DEF Started
      <3>3. QED
        BY <1>1, <3>1, <3>2, UnitStep
    <2>3. QED
      BY <2>1, <2>2
  <1>4. CASE Resume(p)
    BY <1>4, Unseen DEF Resume, disk, host
  <1>5. CASE Reflip(p)
    <2>1. CASE sock' = pending
      <3>1. pending \in Up
        BY <1>1, <1>2, <1>5 DEF Reflip, Where, Resolving, Up
      <3>2. Plain!Switch
        BY <1>5, <2>1, <3>1 DEF Reflip, disk, Plain!Switch, Up
      <3>3. QED
        BY <3>2 DEF Allowed, Plain!Next
    <2>2. CASE sock' # pending
      BY <1>5, <2>2, Unseen DEF Reflip, disk
    <2>3. QED
      BY <2>1, <2>2
  <1>6. CASE Rerecord(p)
    <2>1. CASE active' = pending
      <3>1. Plain!Record
        BY <1>1, <1>6, <2>1 DEF Colors, NoColor, Rerecord, Written, host, Where, Resolving, Plain!Record, Up
      <3>2. QED
        BY <3>1 DEF Allowed, Plain!Next
    <2>2. CASE active' # pending
      BY <1>6, <2>2, Unseen DEF Rerecord, Written, host
    <2>3. QED
      BY <2>1, <2>2
  <1>7. CASE Fallback(p)
    <2>1. pending \in Colors /\ UNCHANGED <<active, sock, pending>>
      BY <1>1, <1>2, <1>7 DEF Fallback, Where, Resolving, disk
    <2>2. unit' = unit \/ unit' = [unit EXCEPT ![pending] = Stopped]
      BY <1>7 DEF Fallback
    <2>3. QED
      BY <1>1, <2>1, <2>2, UnitStep, Unseen
  <1>8. CASE Settle(p)
    <2>1. CASE pending' = NoColor
      <3>1. Plain!Close
        BY <1>1, <1>8, <2>1 DEF Colors, NoColor, Settle, host, Where, Resolving, Plain!Close, Up
      <3>2. QED
        BY <3>1 DEF Allowed, Plain!Next
    <2>2. CASE pending' # NoColor
      BY <1>8, <2>2, Unseen DEF Settle, host
    <2>3. QED
      BY <2>1, <2>2
  <1>9. QED
    BY <1>3, <1>4, <1>5, <1>6, <1>7, <1>8

\* activate_color, step by step.
LEMMA ActivateAllowed ==
  ASSUME "disk" \notin faults, IInv, NEW p \in Procs,
         RestartIdle(p) \/ Probe(p) \/ StopCandidate(p) \/ WriteIntent(p) \/
         RestoreLink(p) \/ FlipTraffic(p) \/ RecordActive(p) \/ ClearIntent(p)
  PROVE  Allowed
  <1>1. TypeOK /\ Where(p)
    BY DEF IInv
  <1>2. CASE RestartIdle(p)
    <2>1. /\ job[p].color \in Colors /\ job[p].color # active
          /\ UNCHANGED <<active, sock, pending>>
      BY <1>1, <1>2 DEF RestartIdle, Where, Activating, disk
    <2>2. \E r : unit' = [unit EXCEPT ![job[p].color] = r]
      BY <1>2 DEF RestartIdle
    <2>3. QED
      BY <1>1, <2>1, <2>2, UnitStep
  <1>3. CASE Probe(p)
    BY <1>3, Unseen DEF Probe, disk, host
  <1>4. CASE StopCandidate(p)
    <2>1. /\ job[p].color \in Colors /\ job[p].color # active
          /\ UNCHANGED <<active, sock, pending>>
      BY <1>1, <1>4 DEF StopCandidate, Where, Activating, disk
    <2>2. unit' = unit \/ unit' = [unit EXCEPT ![job[p].color] = Stopped]
      BY <1>4 DEF StopCandidate
    <2>3. QED
      BY <1>1, <2>1, <2>2, UnitStep, Unseen
  <1>5. CASE WriteIntent(p)
    <2>1. CASE pending' = pending
      BY <1>5, <2>1, Unseen DEF WriteIntent, Written, host
    <2>2. CASE pending' # pending
      <3>1. /\ job[p].color \in Colors /\ job[p].color \in Up
            /\ job[p].color # active /\ pending' = job[p].color
            /\ UNCHANGED <<active, sock, unit>>
        BY <1>1, <1>5, <2>2 DEF WriteIntent, Written, Where, Activating, Up, host
      <3>2. Plain!Announce(job[p].color)
        BY <3>1 DEF Plain!Announce, Up
      <3>3. QED
        BY <3>1, <3>2 DEF Allowed, Plain!Next
    <2>3. QED
      BY <2>1, <2>2
  <1>6. CASE RestoreLink(p)
    BY <1>6, Unseen DEF RestoreLink, host
  <1>7. CASE FlipTraffic(p)
    <2>1. CASE sock' = sock
      BY <1>7, <2>1, Unseen DEF FlipTraffic, disk
    <2>2. CASE sock' # sock
      <3>1. /\ pending \in Up /\ sock' = pending
            /\ UNCHANGED <<active, pending, unit>>
        BY <1>1, <1>7, <2>2 DEF FlipTraffic, Written, Where, Activating, Up, disk
      <3>2. Plain!Switch
        BY <3>1 DEF Plain!Switch, Up
      <3>3. QED
        BY <3>2 DEF Allowed, Plain!Next
    <2>3. QED
      BY <2>1, <2>2
  <1>8. CASE RecordActive(p)
    <2>1. CASE active' = active
      BY <1>8, <2>1, Unseen DEF RecordActive, Written, host
    <2>2. CASE active' # active
      <3>1. /\ pending # NoColor /\ sock = pending /\ active' = pending
            /\ UNCHANGED <<sock, pending, unit>>
        BY <1>1, <1>8, <2>2 DEF RecordActive, Written, Where, Activating, host, Colors, NoColor
      <3>2. Plain!Record
        BY <3>1 DEF Plain!Record, Up
      <3>3. QED
        BY <3>2 DEF Allowed, Plain!Next
    <2>3. QED
      BY <2>1, <2>2
  <1>9. CASE ClearIntent(p)
    <2>1. CASE pending' = pending
      BY <1>9, <2>1, Unseen DEF ClearIntent, host
    <2>2. CASE pending' # pending
      <3>1. Plain!Close
        BY <1>1, <1>9, <2>2 DEF ClearIntent, host, Where, Plain!Close, Up
      <3>2. QED
        BY <3>1 DEF Allowed, Plain!Next
    <2>3. QED
      BY <2>1, <2>2
  <1>10. QED
    BY <1>2, <1>3, <1>4, <1>5, <1>6, <1>7, <1>8, <1>9

\* cmd_boot and cmd_internal_drain_stop, step by step.
LEMMA BootDrainAllowed ==
  ASSUME IInv, NEW p \in Procs,
         PointAtActive(p) \/ StartActive(p) \/ DrainCheck(p) \/ DrainStop(p) \/ Unmark(p)
  PROVE  Allowed
  <1>1. TypeOK /\ Where(p)
    BY DEF IInv
  <1>2. CASE PointAtActive(p)
    <2>1. CASE sock' = sock
      BY <1>2, <2>1, Unseen DEF PointAtActive, disk
    <2>2. CASE sock' # sock
      <3>1. /\ pending = NoColor /\ active # NoColor /\ sock' = active
            /\ UNCHANGED <<active, pending, unit>>
        BY <1>1, <1>2, <2>2 DEF Colors, NoColor, PointAtActive, Where, NoIntentOpen, disk
      <3>2. Plain!Restore
        BY <3>1 DEF Plain!Restore, Up
      <3>3. QED
        BY <3>2 DEF Allowed, Plain!Next
    <2>3. QED
      BY <2>1, <2>2
  <1>3. CASE StartActive(p)
    <2>1. active \in Colors /\ UNCHANGED <<active, sock, pending>>
      BY <1>1, <1>3 DEF StartActive, Where, disk
    <2>2. \/ unit' = unit
          \/ unit' = [unit EXCEPT ![active] = IF unit[active] = Stopped THEN link[active] ELSE unit[active]]
      BY <1>3 DEF StartActive, Started
    <2>3. QED
      BY <1>1, <2>1, <2>2, UnitStep, Unseen
  <1>4. CASE DrainCheck(p)
    BY <1>4, Unseen DEF DrainCheck, disk, host
  <1>5. CASE DrainStop(p)
    <2>1. /\ job[p].color \in Colors /\ job[p].color # active
          /\ UNCHANGED <<active, sock, pending>>
      BY <1>1, <1>5 DEF DrainStop, Where, disk
    <2>2. unit' = unit \/ unit' = [unit EXCEPT ![job[p].color] = Stopped]
      BY <1>5 DEF DrainStop
    <2>3. QED
      BY <1>1, <2>1, <2>2, UnitStep, Unseen
  <1>6. CASE Unmark(p)
    BY <1>6, Unseen DEF Unmark, host
  <1>7. QED
    BY <1>2, <1>3, <1>4, <1>5, <1>6

\* Timers, power losses and units that systemd restarts.
LEMMA EnvironmentAllowed ==
  ASSUME IInv, Environment
  PROVE  Allowed
  <1>1. TypeOK
    BY DEF IInv
  <1>2. CASE BootLosesLock \/ SwitchStartsBoot \/ (\E c \in Colors : DrainLosesLock(c))
              \/ \E p \in Procs : Die(p)
    BY <1>2, Unseen DEF BootLosesLock, SwitchStartsBoot, DrainLosesLock, Die, disk, host
  <1>3. ASSUME NEW c \in Colors, AppRestarts(c)
        PROVE  Allowed
    <2>1. link[c] # Stopped
      BY <1>1, <1>3, VersionsAssumption DEF AppRestarts, Linked, TypeOK, Stopped
    <2>2. QED
      BY <1>1, <1>3, <2>1, UnitStep DEF AppRestarts, disk
  <1>4. CASE PowerLoss
    <2>1. Up' = {}
      BY <1>4 DEF PowerLoss, Up
    <2>2. Plain!PowerLoss
      BY <1>4, <2>1 DEF PowerLoss, disk, Plain!PowerLoss
    <2>3. QED
      BY <2>2 DEF Allowed, Plain!Next
  <1>5. QED
    BY <1>2, <1>3, <1>4 DEF Environment

LEMMA EngineAllowed ==
  ASSUME IInv, [Next]_vars, "disk" \notin faults
  PROVE  Allowed
  <1>1. ASSUME NEW p \in Procs, Step(p) PROVE Allowed
    <2>1. CASE UnpackCheck(p) \/ UnpackRemove(p) \/ UnpackInstall(p) \/ RepointIdle(p) \/ SelectIdle(p)
      BY <2>1, Unseen DEF UnpackCheck, UnpackRemove, UnpackInstall, RepointIdle, SelectIdle, disk, host
    <2>2. CASE BumpGeneration(p) \/ MarkDrain(p) \/ ArmTimer(p) \/ PruneReleases(p)
      BY <2>2, Unseen DEF BumpGeneration, MarkDrain, ArmTimer, PruneReleases, disk, host
    <2>3. QED
      BY <1>1, <2>1, <2>2, ResolveAllowed, ActivateAllowed, BootDrainAllowed DEF Step
  <1>2. ASSUME NEW p \in Procs, Invoke(p) PROVE Allowed
    BY <1>2, Unseen DEF Invoke, Deploy, Rollback, Unpack, Prune, Boot, DrainFires, disk, host
  <1>3. CASE UNCHANGED vars
    BY <1>3, Unseen DEF vars, disk, host
  <1>4. QED
    BY <1>1, <1>2, <1>3, EnvironmentAllowed DEF Next

LEMMA FaultsFixed ==
  ASSUME [Next]_vars
  PROVE  faults' = faults
  <1>1. ASSUME NEW p \in Procs, Invoke(p) PROVE faults' = faults
    BY <1>1 DEF Invoke, Deploy, Rollback, Unpack, Prune, Boot, DrainFires
  <1>2. ASSUME NEW p \in Procs, Step(p) PROVE faults' = faults
    BY <1>2 DEF Step, Resolve, Resume, Reflip, Rerecord, Fallback, Settle, UnpackCheck, UnpackRemove,
                UnpackInstall, RepointIdle, SelectIdle, RestartIdle, Probe, StopCandidate, WriteIntent,
                RestoreLink, FlipTraffic, RecordActive, ClearIntent, BumpGeneration, MarkDrain, ArmTimer,
                PruneReleases, PointAtActive, StartActive, DrainCheck, DrainStop, Unmark
  <1>3. CASE Environment \/ UNCHANGED vars
    BY <1>3 DEF Environment, BootLosesLock, DrainLosesLock, AppRestarts, Die, PowerLoss, SwitchStartsBoot, vars
  <1>4. QED
    BY <1>1, <1>2, <1>3 DEF Next

\* What the contract allows over the files it allows over what it sees of them.
LEMMA AllowedIsSeen ==
  ASSUME Allowed, "disk" \notin faults, faults' = faults
  PROVE  [BG!Next]_(BG!vars)
  <1>1. ASSUME NEW c \in Colors, Plain!Start(c) \/ Plain!Stop(c) \/ Plain!Announce(c)
        PROVE  BG!Start(c) \/ BG!Stop(c) \/ BG!Announce(c)
    BY <1>1 DEF Plain!Start, Plain!Stop, Plain!Announce, BG!Start, BG!Stop, BG!Announce, Seen
  <1>2. CASE Plain!Switch \/ Plain!Record \/ Plain!Close \/ Plain!Restore \/ Plain!PowerLoss
    BY <1>2 DEF Plain!Switch, Plain!Record, Plain!Close, Plain!Restore, Plain!PowerLoss,
                BG!Switch, BG!Record, BG!Close, BG!Restore, BG!PowerLoss, BG!Next, Seen
  <1>3. CASE UNCHANGED Plain!vars
    BY <1>3 DEF Plain!vars, BG!vars, Seen
  <1>4. QED
    BY <1>1, <1>2, <1>3 DEF Allowed, Plain!Next, BG!Next

\* Whatever command fails, whichever process dies and whenever the power goes,
\* what the engine does to traffic, records and instances is what the contract
\* of activate_color and resolve_pending_color allows, unless a full disk
\* empties the files the contract is about.
THEOREM EngineImplementsBlueGreen == Spec => ImplementsBlueGreen
  <1>1. Init => BG!Init
    BY DEF Init, BG!Init, Up, Seen
  <1>2. IInv /\ [Next]_vars => [BG!Next]_(BG!vars)
    <2> SUFFICES ASSUME IInv, [Next]_vars PROVE [BG!Next]_(BG!vars)
      OBVIOUS
    <2>1. faults' = faults
      BY FaultsFixed
    <2>2. CASE "disk" \in faults
      BY <2>1, <2>2 DEF BG!vars, Seen
    <2>3. CASE "disk" \notin faults
      BY <2>1, <2>3, EngineAllowed, AllowedIsSeen
    <2>4. QED
      BY <2>2, <2>3
  <1>3. QED
    BY <1>1, <1>2, Invariance, PTL DEF Spec, ImplementsBlueGreen, BG!Spec

===============================================================================
