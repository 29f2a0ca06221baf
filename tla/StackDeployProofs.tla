--------------------------- MODULE StackDeployProofs ---------------------------
(***************************************************************************)
(* What StackDeploy guarantees for every set of processes and versions,    *)
(* every combination of faults and every retention count.                  *)
(***************************************************************************)
EXTENDS StackDeploy, TLAPS

-----------------------------------------------------------------------------
(* The inductive invariant. *)

Resolving == {"resume", "reflip", "rerecord", "fallback", "settle"}
Unpacking == {"unpack", "remove", "install", "link"}
Activating == {"start", "probe", "abort", "intent", "restore", "flip", "record"}
NoIntentOpen == {"link", "select", "start", "probe", "abort", "intent", "restore", "point"}

\* Whoever is past acquire_lock is the one that holds the lock.
LockInv == \A p \in Procs : lock = p <=> pc[p] # "free"

\* What a process may rely on at the command it executes next.
Where(p) ==
  LET l == pc[p]
      j == job[p]
  IN /\ l # "free" /\ j.cmd \in {"deploy", "unpack"} => j.ver \in Versions
     /\ l # "free" /\ j.cmd = "unpack" => j.mode = "tarball"
     /\ l # "free" => "force" \in faults \/ (j.mode # "force" /\ l # "remove")
     /\ l \in Unpacking => /\ j.cmd \in {"deploy", "unpack"}
                           /\ pending = NoColor \/ j.cmd = "unpack"
     /\ l = "link" => j.cmd # "unpack" /\ j.ver \in releases
     /\ l = "select" => j.cmd = "rollback"
     /\ l \in NoIntentOpen => pending = NoColor
     /\ l \in Resolving => pending \in Colors
     /\ l \in {"resume", "reflip", "rerecord"} => Linked(pending) /\ unit[pending] # Stopped
     /\ l = "rerecord" => sock = pending
     /\ l \in Activating => /\ j.color \in Colors /\ j.color # active
                            /\ j.prev = active
                            /\ Linked(j.color)
                            /\ j.cmd = "deploy" => j.target \in releases \cup {NoVersion}
     /\ l \in {"probe", "intent", "flip", "record"} =>
          unit[j.color] # Stopped /\ unit[j.color] = link[j.color]
     /\ l \in {"flip", "record"} => pending \in Written(j.color, Empty)
     /\ l = "record" => sock = j.color
     /\ l = "clear" => pending # NoColor /\ (pending = active \/ "disk" \in faults)
     /\ l = "bootstart" => active \in Colors
     /\ l \in {"drain", "drainstop"} => j.color \in Colors
     /\ l = "drainstop" => active # j.color

\* A color a swap was announced to was restarted since its link last changed.
PendingRunsItsLink == pending \in Colors => unit[pending] \in {Stopped, link[pending]}

Global == ActiveRunsItsLink /\ PendingRunsItsLink /\ BootFindsRelease /\ LinksResolve

IInv == TypeOK /\ LockInv /\ Global /\ \A p \in Procs : Where(p)

-----------------------------------------------------------------------------
(* Type correctness. *)

TypeProcs ==
  /\ lock \in Procs \cup {NoProc}
  /\ pc \in [Procs -> Labels]
  /\ job \in [Procs -> JobType]

LEMMA NoJobType == NoJob \in JobType
  BY DEF NoJob, JobType, NoColor, NoVersion, Colors

LEMMA JobOfCommand ==
  ASSUME NEW cmd \in {"none", "deploy", "rollback", "unpack", "prune", "boot", "drain"},
         NEW v \in Versions \cup {NoVersion},
         NEW m \in {"none", "unpacked", "tarball", "force"},
         NEW c \in Colors \cup {NoColor}
  PROVE  /\ Job(cmd) \in JobType
         /\ [Job(cmd) EXCEPT !.ver = v, !.mode = m] \in JobType
         /\ [Job(cmd) EXCEPT !.color = c] \in JobType
  BY DEF Job, NoJob, JobType, NoColor, NoVersion, Colors

LEMMA GotoType ==
  ASSUME TypeProcs, NEW p \in Procs, NEW l \in Labels, Goto(p, l)
  PROVE  TypeProcs'
  BY DEF TypeProcs, Goto

LEMMA ExitType ==
  ASSUME TypeProcs, NEW p \in Procs, Exit(p)
  PROVE  TypeProcs'
  <1>1. "free" \in Labels
    BY DEF Labels
  <1>2. QED
    BY <1>1, NoJobType DEF TypeProcs, Exit

LEMMA AcquireType ==
  ASSUME TypeProcs, NEW p \in Procs, NEW j \in JobType, NEW l \in Labels, Acquire(p, j, l)
  PROVE  TypeProcs'
  BY DEF TypeProcs, Acquire

LEMMA BodyLabel == \A p \in Procs : Body(p) \in Labels
  BY DEF Body, Labels

LEMMA FinishType ==
  ASSUME TypeProcs, NEW p \in Procs, Finish(p)
  PROVE  TypeProcs'
  <1>1. "prune" \in Labels
    BY DEF Labels
  <1>2. QED
    BY <1>1, GotoType, ExitType DEF Finish

LEMMA AfterUnpackType ==
  ASSUME TypeProcs, NEW p \in Procs, AfterUnpack(p)
  PROVE  TypeProcs'
  <1>1. "link" \in Labels
    BY DEF Labels
  <1>2. QED
    BY <1>1, GotoType, ExitType DEF AfterUnpack

LEMMA IdleForType == \A a \in Colors \cup {NoColor} : IdleFor(a) \in Colors /\ IdleFor(a) # a
  BY DEF IdleFor, Other, Colors, NoColor

\* A process starting a subcommand: type correctness.
LEMMA InvokeType ==
  ASSUME TypeOK, NEW p \in Procs, Invoke(p)
  PROVE  TypeOK'
  <1> TypeProcs
    BY DEF TypeOK, TypeProcs
  <1> {"resolve", "unpack", "prune", "drain"} \subseteq Labels
    BY DEF Labels
  <1>1. SUFFICES TypeProcs' /\ (armed' \in [Colors -> BOOLEAN]) /\ bootDue' \in BOOLEAN
                  /\ UNCHANGED <<disk, sock, unit, proven, faults>>
    BY DEF TypeOK, TypeProcs, disk
  <1>2. CASE Deploy(p)
    <2>1. PICK v \in Versions, m \in Modes :
            Acquire(p, [Job("deploy") EXCEPT !.ver = v, !.mode = m], "resolve")
      BY <1>2 DEF Deploy
    <2>2. m \in {"none", "unpacked", "tarball", "force"}
      BY DEF Modes
    <2>3. TypeProcs'
      BY <2>1, <2>2, AcquireType, JobOfCommand
    <2>4. QED
      BY <1>2, <2>3 DEF Deploy, host, TypeOK
  <1>3. CASE Rollback(p)
    BY <1>3, AcquireType, JobOfCommand DEF Rollback, host, TypeOK
  <1>4. CASE Unpack(p)
    BY <1>4, AcquireType, JobOfCommand DEF Unpack, host, TypeOK
  <1>5. CASE Prune(p)
    BY <1>5, AcquireType, JobOfCommand DEF Prune, host, TypeOK
  <1>6. CASE Boot(p)
    BY <1>6, AcquireType, JobOfCommand DEF Boot, host, TypeOK
  <1>7. ASSUME NEW c \in Colors, DrainFires(p, c)
        PROVE  TypeProcs' /\ (armed' \in [Colors -> BOOLEAN]) /\ bootDue' \in BOOLEAN
                  /\ UNCHANGED <<disk, sock, unit, proven, faults>>
    BY <1>7, AcquireType, JobOfCommand DEF DrainFires, host, TypeOK
  <1>8. QED
    BY <1>2, <1>3, <1>4, <1>5, <1>6, <1>7 DEF Invoke

-----------------------------------------------------------------------------
(* How a process moves. *)

\* A process that is not running relies on nothing.
LEMMA FreeWhere ==
  ASSUME NEW p \in Procs, pc'[p] = "free"
  PROVE  Where(p)'
  BY DEF Where, Unpacking, NoIntentOpen, Resolving, Activating

\* One process going on to its next command keeps the lock invariant, and only
\* its own obligations are at stake.
LEMMA MoveStep ==
  ASSUME TypeOK, LockInv, NEW p \in Procs, pc[p] # "free",
         NEW l \in Labels \ {"free"},
         pc' = [pc EXCEPT ![p] = l], lock' = lock, Where(p)'
  PROVE  LockInv' /\ \A q \in Procs : Where(q)'
  <1>1. pc \in [Procs -> Labels]
    BY DEF TypeOK
  <1>2. LockInv'
    BY <1>1 DEF LockInv
  <1>3. \A q \in Procs : q # p => pc'[q] = "free"
    BY <1>1 DEF LockInv
  <1>4. \A q \in Procs : Where(q)'
    <2>1. TAKE q \in Procs
    <2>2. CASE q = p
      BY <2>2 DEF Where, Unpacking, NoIntentOpen, Resolving, Activating
    <2>3. CASE q # p
      BY <1>3, <2>3, FreeWhere
    <2>4. QED
      BY <2>2, <2>3
  <1>5. QED
    BY <1>2, <1>4

\* A process ending leaves every process free and the lock with nobody.
LEMMA ExitStep ==
  ASSUME TypeOK, LockInv, NEW p \in Procs, pc[p] # "free", Exit(p)
  PROVE  LockInv' /\ \A q \in Procs : Where(q)'
  <1>1. pc \in [Procs -> Labels]
    BY DEF TypeOK
  <1>2. \A q \in Procs : pc'[q] = "free"
    BY <1>1 DEF LockInv, Exit
  <1>3. LockInv'
    BY <1>2, ProcsAssumption DEF LockInv, Exit
  <1>4. ASSUME NEW q \in Procs
        PROVE  Where(q)'
    BY <1>2, FreeWhere
  <1>5. QED
    BY <1>3, <1>4

\* A process taking the lock is the only one past acquire_lock.
LEMMA AcquireStep ==
  ASSUME TypeOK, LockInv, NEW p \in Procs, NEW j, NEW l \in Labels \ {"free"},
         Acquire(p, j, l), Where(p)'
  PROVE  LockInv' /\ \A q \in Procs : Where(q)'
  <1>1. pc \in [Procs -> Labels]
    BY DEF TypeOK
  <1>2. \A q \in Procs : pc[q] = "free"
    BY <1>1, ProcsAssumption DEF LockInv, Acquire
  <1>3. LockInv' /\ \A q \in Procs : q # p => pc'[q] = "free"
    BY <1>1, <1>2 DEF LockInv, Acquire
  <1>4. \A q \in Procs : Where(q)'
    <2>1. TAKE q \in Procs
    <2>2. CASE q = p
      BY <2>2 DEF Where, Unpacking, NoIntentOpen, Resolving, Activating
    <2>3. CASE q # p
      BY <1>3, <2>3, FreeWhere
    <2>4. QED
      BY <2>2, <2>3
  <1>5. QED
    BY <1>3, <1>4

\* One command of a process that held the lock: the process ends or goes on.
LEMMA CommandStep ==
  ASSUME IInv, NEW p \in Procs, pc[p] # "free",
         TypeOK', Global', Where(p)',
         Exit(p) \/ \E l \in Labels \ {"free"} : pc' = [pc EXCEPT ![p] = l] /\ lock' = lock
  PROVE  IInv'
  <1>1. TypeOK /\ LockInv
    BY DEF IInv
  <1>2. LockInv' /\ \A q \in Procs : Where(q)'
    BY <1>1, MoveStep, ExitStep
  <1>3. QED
    BY <1>2 DEF IInv

\* The global facts look at links, releases, units and routing only.
LEMMA GlobalUnchanged ==
  ASSUME Global, UNCHANGED <<active, pending, link, releases, unit, faults>>
  PROVE  Global'
  BY DEF Global, ActiveRunsItsLink, PendingRunsItsLink, BootFindsRelease, LinksResolve, Linked

-----------------------------------------------------------------------------
(* resolve_pending_color keeps the invariant. *)

LEMMA ResolveInv ==
  ASSUME IInv, NEW p \in Procs,
         Resolve(p) \/ Resume(p) \/ Reflip(p) \/ Rerecord(p) \/ Fallback(p) \/ Settle(p)
  PROVE  IInv'
  <1>1. TypeOK /\ TypeProcs /\ Global /\ Where(p)
    BY DEF IInv, TypeOK, TypeProcs
  <1>2. /\ {"resume", "reflip", "rerecord", "fallback", "settle"} \subseteq Labels \ {"free"}
        /\ Body(p) \in Labels \ {"free"}
    BY DEF Labels, Body
  <1>3. CASE Resolve(p)
    <2>1. TypeProcs'
      BY <1>1, <1>2, <1>3, GotoType, ExitType DEF Resolve
    <2>2. TypeOK'
      BY <1>1, <1>3, <2>1 DEF Resolve, TypeOK, TypeProcs, disk, Started, Stopped, NoVersion
    <2>3. Global'
      BY <1>1, <1>3, VersionsAssumption DEF Resolve, disk, Started, TypeOK, Stopped, NoVersion, Global, ActiveRunsItsLink, PendingRunsItsLink, BootFindsRelease, LinksResolve, Linked
    <2>4. Where(p)'
      BY <1>1, <1>3, VersionsAssumption DEF Resolve, Goto, Exit, Body, disk, TypeOK, Started, Stopped, NoVersion, Where, Unpacking, NoIntentOpen, Resolving, Activating, Linked
    <2>5. QED
      BY <1>2, <1>3, <2>2, <2>3, <2>4, CommandStep DEF Resolve, Goto, Exit, Body
  <1>4. CASE Resume(p)
    <2>1. TypeProcs'
      BY <1>1, <1>2, <1>4, GotoType DEF Resume
    <2>2. TypeOK'
      BY <1>1, <1>4, <2>1 DEF Resume, TypeOK, TypeProcs, disk, host
    <2>3. Global'
      BY <1>1, <1>4, GlobalUnchanged DEF Resume, disk, host
    <2>4. Where(p)'
      BY <1>1, <1>4 DEF Resume, Goto, disk, host, TypeOK, Where, Unpacking, NoIntentOpen, Resolving, Activating, Linked
    <2>5. QED
      BY <1>2, <1>4, <2>2, <2>3, <2>4, CommandStep DEF Resume, Goto
  <1>5. CASE Reflip(p)
    <2>1. TypeProcs'
      BY <1>1, <1>2, <1>5, GotoType, ExitType DEF Reflip
    <2>2. TypeOK'
      BY <1>1, <1>5, <2>1 DEF Reflip, Where, Resolving, TypeOK, TypeProcs, disk, Colors
    <2>3. Global'
      BY <1>1, <1>5, GlobalUnchanged DEF Reflip, disk
    <2>4. Where(p)'
      BY <1>1, <1>5 DEF Reflip, Goto, Exit, disk, TypeOK, Where, Unpacking, NoIntentOpen, Resolving, Activating, Linked
    <2>5. QED
      BY <1>2, <1>5, <2>2, <2>3, <2>4, CommandStep DEF Reflip, Goto
  <1>6. CASE Rerecord(p)
    <2>1. TypeProcs'
      BY <1>1, <1>2, <1>6, GotoType, ExitType DEF Rerecord
    <2>2. TypeOK'
      BY <1>1, <1>6, <2>1 DEF Rerecord, Written, Where, Resolving, Empty, TypeOK, TypeProcs, host
    <2>3. Global'
      BY <1>1, <1>6 DEF Rerecord, Written, Resolving, Colors, Empty, host, Global, ActiveRunsItsLink, PendingRunsItsLink, BootFindsRelease, LinksResolve, Linked, Where
    <2>4. Where(p)'
      BY <1>1, <1>6 DEF Rerecord, Goto, Exit, host, TypeOK, Where, Unpacking, NoIntentOpen, Resolving, Activating, Linked
    <2>5. QED
      BY <1>2, <1>6, <2>2, <2>3, <2>4, CommandStep DEF Rerecord, Goto
  <1>7. CASE Fallback(p)
    <2>1. TypeProcs'
      BY <1>1, <1>2, <1>7, GotoType DEF Fallback
    <2>2. TypeOK'
      BY <1>1, <1>7, <2>1 DEF Fallback, TypeOK, TypeProcs, disk
    <2>3. Global'
      BY <1>1, <1>7 DEF Fallback, disk, TypeOK, Global, ActiveRunsItsLink, PendingRunsItsLink, BootFindsRelease, LinksResolve, Linked
    <2>4. Where(p)'
      BY <1>1, <1>7 DEF Fallback, Goto, disk, TypeOK, Where, Unpacking, NoIntentOpen, Resolving, Activating, Linked
    <2>5. QED
      BY <1>2, <1>7, <2>2, <2>3, <2>4, CommandStep DEF Fallback, Goto
  <1>8. CASE Settle(p)
    <2>1. TypeProcs'
      BY <1>1, <1>2, <1>8, GotoType, ExitType DEF Settle
    <2>2. TypeOK'
      BY <1>1, <1>8, <2>1 DEF Settle, TypeOK, TypeProcs, host
    <2>3. Global'
      BY <1>1, <1>8 DEF Settle, Colors, NoColor, host, Global, ActiveRunsItsLink, PendingRunsItsLink, BootFindsRelease, LinksResolve, Linked
    <2>4. Where(p)'
      BY <1>1, <1>8 DEF Settle, Goto, Exit, Body, host, TypeOK, Where, Unpacking, NoIntentOpen, Resolving, Activating, Linked
    <2>5. QED
      BY <1>2, <1>8, <2>2, <2>3, <2>4, CommandStep DEF Settle, Goto
  <1>9. QED
    BY <1>3, <1>4, <1>5, <1>6, <1>7, <1>8

-----------------------------------------------------------------------------
(* deploy_unpack_tarball and the choice of the idle color keep the invariant. *)

LEMMA PrepareInv ==
  ASSUME IInv, NEW p \in Procs,
         UnpackCheck(p) \/ UnpackRemove(p) \/ UnpackInstall(p) \/ RepointIdle(p) \/
         SelectIdle(p)
  PROVE  IInv'
  <1>1. TypeOK /\ TypeProcs /\ Global /\ Where(p)
    BY DEF IInv, TypeOK, TypeProcs
  <1>2. {"link", "install", "remove", "start"} \subseteq Labels \ {"free"}
    BY DEF Labels
  <1>3. CASE UnpackCheck(p)
    <2>1. TypeProcs'
      BY <1>1, <1>2, <1>3, GotoType, ExitType, AfterUnpackType DEF UnpackCheck
    <2>2. TypeOK'
      BY <1>1, <1>3, <2>1 DEF UnpackCheck, TypeOK, TypeProcs, disk, host, Where, Unpacking, Activating
    <2>3. Global'
      BY <1>1, <1>3, GlobalUnchanged DEF UnpackCheck, disk, host
    <2>4. Where(p)'
      BY <1>1, <1>3 DEF UnpackCheck, AfterUnpack, Goto, Exit, disk, host, TypeOK, Where, Unpacking, NoIntentOpen, Resolving, Activating, Linked
    <2>5. QED
      BY <1>2, <1>3, <2>2, <2>3, <2>4, CommandStep DEF UnpackCheck, Goto, AfterUnpack
  <1>4. CASE UnpackRemove(p)
    <2>1. TypeProcs'
      BY <1>1, <1>2, <1>4, GotoType, ExitType DEF UnpackRemove
    <2>2. TypeOK'
      BY <1>1, <1>4, <2>1 DEF UnpackRemove, TypeOK, TypeProcs, host
    <2>3. Global'
      BY <1>1, <1>4 DEF UnpackRemove, host, Where, Global, ActiveRunsItsLink, PendingRunsItsLink, BootFindsRelease, LinksResolve, Linked
    <2>4. Where(p)'
      BY <1>1, <1>4 DEF UnpackRemove, Goto, Exit, host, TypeOK, Where, Unpacking, NoIntentOpen, Resolving, Activating, Linked
    <2>5. QED
      BY <1>2, <1>4, <2>2, <2>3, <2>4, CommandStep DEF UnpackRemove, Goto
  <1>5. CASE UnpackInstall(p)
    <2>1. TypeProcs'
      BY <1>1, <1>2, <1>5, ExitType, AfterUnpackType DEF UnpackInstall
    <2>2. TypeOK'
      BY <1>1, <1>5, <2>1 DEF UnpackInstall, TypeOK, TypeProcs, host, Where, Unpacking, Activating
    <2>3. Global'
      BY <1>1, <1>5 DEF UnpackInstall, host, Global, ActiveRunsItsLink, PendingRunsItsLink, BootFindsRelease, LinksResolve, Linked
    <2>4. Where(p)'
      BY <1>1, <1>5 DEF UnpackInstall, AfterUnpack, Goto, Exit, host, TypeOK, Where, Unpacking, NoIntentOpen, Resolving, Activating, Linked
    <2>5. QED
      BY <1>2, <1>5, <2>2, <2>3, <2>4, CommandStep DEF UnpackInstall, Goto, AfterUnpack
  <1>6. CASE RepointIdle(p)
    <2>1. CASE Exit(p) /\ UNCHANGED link
      <3>1. TypeProcs'
        BY <1>1, <2>1, ExitType
      <3>2. TypeOK'
        BY <1>1, <1>6, <2>1, <3>1 DEF RepointIdle, TypeOK, TypeProcs, host
      <3>3. Global'
        BY <1>1, <1>6, <2>1, GlobalUnchanged DEF RepointIdle, host
      <3>4. Where(p)'
        BY <1>1, <2>1, FreeWhere DEF Exit, TypeOK
      <3>5. QED
        BY <1>6, <2>1, <3>2, <3>3, <3>4, CommandStep DEF RepointIdle
    <2>2. CASE ~(Exit(p) /\ UNCHANGED link)
      <3>1. active \in Colors \cup {NoColor}
        BY <1>1, <1>6, <2>2 DEF RepointIdle, TypeOK
      <3>2. PICK idle \in Colors : idle = IdleFor(active) /\ idle # active
        BY <3>1, IdleForType
      <3>3. /\ link' = [link EXCEPT ![idle] = job[p].ver]
            /\ job' = [job EXCEPT ![p].color = idle, ![p].prev = active,
                                  ![p].target = IF Linked(idle) THEN link[idle] ELSE NoVersion]
            /\ pc' = [pc EXCEPT ![p] = "start"] /\ lock' = lock
            /\ UNCHANGED <<active, pending, generation, marker, releases, host, proven, faults>>
        BY <1>6, <2>2, <3>2 DEF RepointIdle
      <3>4. /\ pc[p] = "link" /\ pending = NoColor
            /\ job[p].ver \in releases /\ job[p].cmd # "unpack"
            /\ job[p].cmd = "deploy" /\ job[p].ver \in Versions
            /\ "force" \in faults \/ job[p].mode # "force"
        BY <1>1, <1>6 DEF RepointIdle, Where, Unpacking, NoIntentOpen
      <3>5. TypeProcs'
        <4>1. PICK target \in Versions \cup {NoVersion} :
                target = IF Linked(idle) THEN link[idle] ELSE NoVersion
          BY <1>1 DEF TypeOK, Linked
        <4>2. [job[p] EXCEPT !.color = idle, !.prev = active, !.target = target] \in JobType
          BY <1>1, <3>1 DEF TypeProcs, JobType
        <4>3. QED
          BY <1>1, <1>2, <3>3, <4>1, <4>2 DEF TypeProcs
      <3>6. TypeOK'
        BY <1>1, <3>3, <3>4, <3>5 DEF TypeOK, TypeProcs, host
      <3>7. Global'
        BY <1>1, <3>2, <3>3, <3>4 DEF host, TypeOK, NoColor, Colors, Global, ActiveRunsItsLink, PendingRunsItsLink, BootFindsRelease, LinksResolve, Linked
      <3>8. /\ pc'[p] = "start" /\ link'[idle] = job[p].ver
            /\ job'[p].color = idle /\ job'[p].prev = active
            /\ job'[p].target \in releases \cup {NoVersion}
            /\ job'[p].cmd = job[p].cmd /\ job'[p].ver = job[p].ver
            /\ job'[p].mode = job[p].mode
        BY <1>1, <3>2, <3>3 DEF TypeOK, JobType, Linked
      <3>9. Where(p)'
        BY <3>2, <3>3, <3>4, <3>8 DEF Where, Unpacking, NoIntentOpen, Resolving, Activating, Linked
      <3>10. QED
        BY <1>2, <3>3, <3>4, <3>6, <3>7, <3>9, CommandStep
    <2>3. QED
      BY <2>1, <2>2
  <1>7. CASE SelectIdle(p)
    <2>1. TypeProcs'
      <3>1. CASE Exit(p)
        BY <1>1, <3>1, ExitType
      <3>2. CASE ~Exit(p)
        <4>1. active \in Colors /\ IdleFor(active) \in Colors
          BY <1>7, <3>2, IdleForType DEF SelectIdle
        <4>2. [job[p] EXCEPT !.color = IdleFor(active), !.prev = active] \in JobType
          BY <1>1, <4>1 DEF TypeProcs, JobType
        <4>3. QED
          BY <1>1, <1>2, <1>7, <3>2, <4>2 DEF SelectIdle, TypeProcs
      <3>3. QED
        BY <3>1, <3>2
    <2>2. TypeOK'
      BY <1>1, <1>7, <2>1 DEF SelectIdle, TypeOK, TypeProcs, disk, host
    <2>3. Global'
      BY <1>1, <1>7, GlobalUnchanged DEF SelectIdle, disk, host
    <2>4. Where(p)'
      BY <1>1, <1>7, IdleForType DEF SelectIdle, NoColor, Empty, Goto, Exit, disk, host, TypeOK, JobType, Where, Unpacking, NoIntentOpen, Resolving, Activating, Linked
    <2>5. QED
      BY <1>2, <1>7, <2>2, <2>3, <2>4, CommandStep DEF SelectIdle, Goto
  <1>8. QED
    BY <1>3, <1>4, <1>5, <1>6, <1>7

-----------------------------------------------------------------------------
(* activate_color keeps the invariant. *)

LEMMA ActivateInv ==
  ASSUME IInv, NEW p \in Procs,
         RestartIdle(p) \/ Probe(p) \/ StopCandidate(p) \/ WriteIntent(p) \/
         RestoreLink(p) \/ FlipTraffic(p) \/ RecordActive(p) \/ ClearIntent(p)
  PROVE  IInv'
  <1>1. TypeOK /\ TypeProcs /\ Global /\ Where(p)
    BY DEF IInv, TypeOK, TypeProcs
  <1>2. {"probe", "restore", "intent", "abort", "flip", "record", "clear", "bump", "prune"} \subseteq Labels \ {"free"}
    BY DEF Labels
  <1>3. CASE RestartIdle(p)
    <2>1. TypeProcs'
      BY <1>1, <1>2, <1>3, GotoType DEF RestartIdle
    <2>2. /\ job[p].color \in Colors /\ job[p].color # active
          /\ pending = NoColor /\ Linked(job[p].color)
      BY <1>1, <1>3 DEF RestartIdle, Where, Activating, NoIntentOpen
    <2>3. /\ link \in [Colors -> Versions \cup {NoVersion}]
          /\ unit \in [Colors -> Versions \cup {Stopped}]
          /\ releases \in SUBSET Versions
      BY <1>1 DEF TypeOK
    <2>4. PICK r \in Versions \cup {Stopped} :
            /\ unit' = [unit EXCEPT ![job[p].color] = r]
            /\ \/ r = link[job[p].color] /\ Goto(p, "probe")
               \/ Goto(p, "restore")
      BY <1>3, <2>2, <2>3 DEF RestartIdle, Stopped, NoVersion
    <2>5. TypeOK'
      <3>1. unit' \in [Colors -> Versions \cup {Stopped}]
        BY <2>3, <2>4
      <3>2. QED
        BY <1>1, <1>3, <2>1, <3>1 DEF RestartIdle, TypeOK, TypeProcs, disk
    <2>6. Global'
      <3>1. active \in Colors => unit'[active] = unit[active]
        BY <2>2, <2>3, <2>4
      <3>2. QED
        BY <1>1, <1>3, <2>2, <3>1 DEF RestartIdle, disk, TypeOK, Global, ActiveRunsItsLink, PendingRunsItsLink, BootFindsRelease, LinksResolve, Linked
    <2>7. Where(p)'
      <3>1. pc[p] = "start" /\ pc \in [Procs -> Labels]
        BY <1>1, <1>3 DEF RestartIdle, TypeOK
      <3>2. unit'[job[p].color] = r
        BY <2>2, <2>3, <2>4
      <3>3. link[job[p].color] # Stopped
        BY <2>2, <2>3, VersionsAssumption DEF Linked, Stopped
      <3>4. QED
        BY <1>1, <1>3, <2>2, <2>4, <3>1, <3>2, <3>3 DEF RestartIdle, Goto, disk, Where, Unpacking, NoIntentOpen, Resolving, Activating, Linked
    <2>8. QED
      BY <1>2, <1>3, <2>4, <2>5, <2>6, <2>7, CommandStep DEF RestartIdle, Goto
  <1>4. CASE Probe(p)
    <2>1. TypeProcs'
      BY <1>1, <1>2, <1>4, GotoType DEF Probe
    <2>2. TypeOK'
      BY <1>1, <1>4, <2>1 DEF Probe, TypeOK, TypeProcs, disk, host, Where, Unpacking, Activating
    <2>3. Global'
      BY <1>1, <1>4, GlobalUnchanged DEF Probe, disk, host
    <2>4. Where(p)'
      BY <1>1, <1>4 DEF Probe, Goto, disk, host, TypeOK, Where, Unpacking, NoIntentOpen, Resolving, Activating, Linked
    <2>5. QED
      BY <1>2, <1>4, <2>2, <2>3, <2>4, CommandStep DEF Probe, Goto
  <1>5. CASE StopCandidate(p)
    <2>1. TypeProcs'
      BY <1>1, <1>2, <1>5, GotoType DEF StopCandidate
    <2>2. TypeOK'
      BY <1>1, <1>5, <2>1 DEF StopCandidate, TypeOK, TypeProcs, disk, Where, Unpacking, Activating
    <2>3. Global'
      BY <1>1, <1>5 DEF StopCandidate, disk, TypeOK, Where, Activating, Global, ActiveRunsItsLink, PendingRunsItsLink, BootFindsRelease, LinksResolve, Linked
    <2>4. Where(p)'
      BY <1>1, <1>5 DEF StopCandidate, Goto, disk, TypeOK, Where, Unpacking, NoIntentOpen, Resolving, Activating, Linked
    <2>5. QED
      BY <1>2, <1>5, <2>2, <2>3, <2>4, CommandStep DEF StopCandidate, Goto
  <1>6. CASE WriteIntent(p)
    <2>1. TypeProcs'
      BY <1>1, <1>2, <1>6, GotoType DEF WriteIntent
    <2>2. TypeOK'
      BY <1>1, <1>6, <2>1 DEF WriteIntent, Written, Empty, TypeOK, TypeProcs, host, Where, Unpacking, Activating
    <2>3. Global'
      BY <1>1, <1>6 DEF WriteIntent, Written, Empty, Colors, host, TypeOK, Where, Activating, Global, ActiveRunsItsLink, PendingRunsItsLink, BootFindsRelease, LinksResolve, Linked
    <2>4. Where(p)'
      BY <1>1, <1>6 DEF WriteIntent, Written, Empty, Goto, host, TypeOK, Where, Unpacking, NoIntentOpen, Resolving, Activating, Linked
    <2>5. QED
      BY <1>2, <1>6, <2>2, <2>3, <2>4, CommandStep DEF WriteIntent, Goto
  <1>7. CASE RestoreLink(p)
    <2>1. TypeProcs'
      BY <1>1, <1>2, <1>7, ExitType DEF RestoreLink
    <2>2. TypeOK'
      BY <1>1, <1>7, <2>1 DEF RestoreLink, TypeOK, TypeProcs, host, Where, Unpacking, Activating
    <2>3. Global'
      BY <1>1, <1>7 DEF RestoreLink, NoColor, Colors, host, TypeOK, Where, Activating, NoIntentOpen, Global, ActiveRunsItsLink, PendingRunsItsLink, BootFindsRelease, LinksResolve, Linked
    <2>4. Where(p)'
      BY <1>1, <1>7 DEF RestoreLink, Exit, host, TypeOK, Where, Unpacking, NoIntentOpen, Resolving, Activating, Linked
    <2>5. QED
      BY <1>2, <1>7, <2>2, <2>3, <2>4, CommandStep DEF RestoreLink, Goto
  <1>8. CASE FlipTraffic(p)
    <2>1. TypeProcs'
      BY <1>1, <1>2, <1>8, GotoType, ExitType DEF FlipTraffic
    <2>2. TypeOK'
      BY <1>1, <1>8, <2>1 DEF FlipTraffic, TypeOK, TypeProcs, disk, Where, Unpacking, Activating
    <2>3. Global'
      BY <1>1, <1>8, GlobalUnchanged DEF FlipTraffic, disk
    <2>4. Where(p)'
      BY <1>1, <1>8 DEF FlipTraffic, Written, Goto, Exit, disk, TypeOK, Where, Unpacking, NoIntentOpen, Resolving, Activating, Linked
    <2>5. QED
      BY <1>2, <1>8, <2>2, <2>3, <2>4, CommandStep DEF FlipTraffic, Goto
  <1>9. CASE RecordActive(p)
    <2>1. TypeProcs'
      BY <1>1, <1>2, <1>9, GotoType, ExitType DEF RecordActive
    <2>2. TypeOK'
      BY <1>1, <1>9, <2>1 DEF RecordActive, Written, Empty, TypeOK, TypeProcs, host, Where, Unpacking, Activating
    <2>3. Global'
      <3>1. /\ job[p].color \in Colors /\ Linked(job[p].color)
            /\ unit[job[p].color] = link[job[p].color]
        BY <1>1, <1>9 DEF RecordActive, Where, Activating
      <3>2. UNCHANGED <<pending, link, releases, unit, faults>> /\ active' \in {active, job[p].color, Empty}
        BY <1>9 DEF RecordActive, Written, host
      <3>3. QED
        BY <1>1, <3>1, <3>2 DEF Empty, Colors, Global, ActiveRunsItsLink, PendingRunsItsLink, BootFindsRelease, LinksResolve, Linked
    <2>4. Where(p)'
      <3>1. CASE Exit(p)
        BY <1>1, <3>1, FreeWhere DEF Exit, TypeOK
      <3>2. CASE ~Exit(p)
        <4>1. /\ pc'[p] = "clear" /\ UNCHANGED <<job, pending, faults>> /\ pc[p] # "free"
          BY <1>1, <1>9, <3>2 DEF RecordActive, Goto, TypeOK
        <4>2. pending # NoColor /\ (pending = active' \/ "disk" \in faults)
          BY <1>1, <1>9, <3>2 DEF RecordActive, Written, Empty, Where, Activating, Colors, NoColor
        <4>3. QED
          BY <1>1, <4>1, <4>2 DEF Where, Unpacking, NoIntentOpen, Resolving, Activating
      <3>3. QED
        BY <3>1, <3>2
    <2>5. QED
      BY <1>2, <1>9, <2>2, <2>3, <2>4, CommandStep DEF RecordActive, Goto
  <1>10. CASE ClearIntent(p)
    <2>1. TypeProcs'
      BY <1>1, <1>2, <1>10, GotoType, ExitType, FinishType DEF ClearIntent
    <2>2. TypeOK'
      BY <1>1, <1>10, <2>1 DEF ClearIntent, TypeOK, TypeProcs, host, Where, Unpacking, Activating
    <2>3. Global'
      BY <1>1, <1>10 DEF ClearIntent, Colors, NoColor, host, TypeOK, Where, Global, ActiveRunsItsLink, PendingRunsItsLink, BootFindsRelease, LinksResolve, Linked
    <2>4. Where(p)'
      BY <1>1, <1>10 DEF ClearIntent, Finish, Goto, Exit, host, TypeOK, Where, Unpacking, NoIntentOpen, Resolving, Activating, Linked
    <2>5. QED
      BY <1>2, <1>10, <2>2, <2>3, <2>4, CommandStep DEF ClearIntent, Goto, Finish
  <1>11. QED
    BY <1>3, <1>4, <1>5, <1>6, <1>7, <1>8, <1>9, <1>10

-----------------------------------------------------------------------------
(* drain scheduling and prune_releases keep the invariant. *)

LEMMA ScheduleInv ==
  ASSUME IInv, NEW p \in Procs,
         BumpGeneration(p) \/ MarkDrain(p) \/ ArmTimer(p) \/ PruneReleases(p)
  PROVE  IInv'
  <1>1. TypeOK /\ TypeProcs /\ Global /\ Where(p)
    BY DEF IInv, TypeOK, TypeProcs
  <1>2. {"mark", "arm", "prune"} \subseteq Labels \ {"free"}
    BY DEF Labels
  <1>3. CASE BumpGeneration(p)
    <2>1. TypeProcs' /\ generation' \in Nat \cup {Blank}
      <3>1. CASE Finish(p) /\ UNCHANGED generation
        BY <1>1, <3>1, FinishType DEF TypeOK
      <3>2. CASE ~(Finish(p) /\ UNCHANGED generation)
        <4>1. PICK next \in Nat :
                /\ generation' \in Written(next, Blank)
                /\ job' = [job EXCEPT ![p].gen = next]
                /\ pc' = [pc EXCEPT ![p] = "mark"]
                /\ lock' = lock
          BY <1>1, <1>3, <3>2 DEF BumpGeneration, TypeOK, Blank
        <4>2. [job[p] EXCEPT !.gen = next] \in JobType
          BY <1>1 DEF TypeProcs, JobType
        <4>3. QED
          BY <1>1, <1>2, <4>1, <4>2 DEF TypeProcs, Written
      <3>3. QED
        BY <3>1, <3>2
    <2>2. TypeOK'
      BY <1>1, <1>3, <2>1 DEF BumpGeneration, TypeOK, TypeProcs, host, Where, Unpacking, Activating
    <2>3. Global'
      BY <1>1, <1>3, GlobalUnchanged DEF BumpGeneration, host
    <2>4. Where(p)'
      <3>1. /\ pc[p] = "bump" /\ faults' = faults /\ pc'[p] \in {"mark", "prune", "free"}
            /\ pc'[p] # "free" => /\ job'[p].cmd = job[p].cmd
                                  /\ job'[p].ver = job[p].ver
                                  /\ job'[p].mode = job[p].mode
        BY <1>1, <1>3 DEF BumpGeneration, Finish, Goto, Exit, TypeOK, JobType
      <3>2. QED
        BY <1>1, <3>1 DEF Where, Unpacking, NoIntentOpen, Resolving, Activating
    <2>5. QED
      BY <1>2, <1>3, <2>2, <2>3, <2>4, CommandStep DEF BumpGeneration, Goto, Finish
  <1>4. CASE MarkDrain(p)
    <2>1. TypeProcs'
      BY <1>1, <1>2, <1>4, GotoType, FinishType DEF MarkDrain
    <2>2. TypeOK'
      <3>1. job[p].gen \in Nat
        BY <1>1 DEF TypeProcs, JobType
      <3>2. marker' \in [Colors -> Nat \cup {Blank}]
        BY <1>1, <1>4, <3>1 DEF MarkDrain, Written, TypeOK
      <3>3. QED
        BY <1>1, <1>4, <2>1, <3>2 DEF MarkDrain, TypeOK, TypeProcs, host
    <2>3. Global'
      BY <1>1, <1>4, GlobalUnchanged DEF MarkDrain, host
    <2>4. Where(p)'
      BY <1>1, <1>4 DEF MarkDrain, Written, Finish, Goto, Exit, host, TypeOK, Where, Unpacking, NoIntentOpen, Resolving, Activating, Linked
    <2>5. QED
      BY <1>2, <1>4, <2>2, <2>3, <2>4, CommandStep DEF MarkDrain, Goto, Finish
  <1>5. CASE ArmTimer(p)
    <2>1. TypeProcs'
      BY <1>1, <1>2, <1>5, FinishType DEF ArmTimer
    <2>2. TypeOK'
      BY <1>1, <1>5, <2>1 DEF ArmTimer, TypeOK, TypeProcs, disk, Where, Unpacking, Activating
    <2>3. Global'
      BY <1>1, <1>5, GlobalUnchanged DEF ArmTimer, disk
    <2>4. Where(p)'
      BY <1>1, <1>5 DEF ArmTimer, Finish, Goto, Exit, disk, TypeOK, Where, Unpacking, NoIntentOpen, Resolving, Activating, Linked
    <2>5. QED
      BY <1>2, <1>5, <2>2, <2>3, <2>4, CommandStep DEF ArmTimer, Goto, Finish
  <1>6. CASE PruneReleases(p)
    <2>1. TypeProcs'
      BY <1>1, <1>2, <1>6, ExitType DEF PruneReleases
    <2>2. TypeOK'
      BY <1>1, <1>6, <2>1 DEF PruneReleases, TypeOK, TypeProcs, host, Where, Unpacking, Activating
    <2>3. Global'
      <3>1. /\ \A c \in Colors : link[c] \in releases => link[c] \in releases'
            /\ UNCHANGED <<active, pending, link, unit, faults>>
        BY <1>6 DEF PruneReleases, Prunable, host
      <3>2. active \in Colors \cup {NoColor, Empty}
        BY <1>1 DEF TypeOK
      <3>3. QED
        BY <1>1, <3>1, <3>2 DEF Global, ActiveRunsItsLink, PendingRunsItsLink, BootFindsRelease, LinksResolve, Linked
    <2>4. Where(p)'
      BY <1>1, <1>6, FreeWhere DEF PruneReleases, Exit, TypeOK
    <2>5. QED
      BY <1>2, <1>6, <2>2, <2>3, <2>4, CommandStep DEF PruneReleases, Goto
  <1>7. QED
    BY <1>3, <1>4, <1>5, <1>6

-----------------------------------------------------------------------------
(* cmd_boot and cmd_internal_drain_stop keep the invariant. *)

LEMMA BootDrainInv ==
  ASSUME IInv, NEW p \in Procs,
         PointAtActive(p) \/ StartActive(p) \/ DrainCheck(p) \/ DrainStop(p) \/
         Unmark(p)
  PROVE  IInv'
  <1>1. TypeOK /\ TypeProcs /\ Global /\ Where(p)
    BY DEF IInv, TypeOK, TypeProcs
  <1>2. {"bootstart", "drainstop", "unmark"} \subseteq Labels \ {"free"}
    BY DEF Labels
  <1>3. CASE PointAtActive(p)
    <2>1. TypeProcs'
      BY <1>1, <1>2, <1>3, GotoType, ExitType DEF PointAtActive
    <2>2. TypeOK'
      BY <1>1, <1>3, <2>1 DEF PointAtActive, TypeOK, TypeProcs, disk
    <2>3. Global'
      BY <1>1, <1>3, GlobalUnchanged DEF PointAtActive, disk
    <2>4. Where(p)'
      BY <1>1, <1>3 DEF PointAtActive, Goto, Exit, disk, TypeOK, Where, Unpacking, NoIntentOpen, Resolving, Activating, Linked
    <2>5. QED
      BY <1>2, <1>3, <2>2, <2>3, <2>4, CommandStep DEF PointAtActive, Goto
  <1>4. CASE StartActive(p)
    <2>1. TypeProcs'
      BY <1>1, <1>2, <1>4, ExitType DEF StartActive
    <2>2. TypeOK'
      BY <1>1, <1>4, <2>1 DEF StartActive, TypeOK, TypeProcs, disk, Started, Stopped, NoVersion
    <2>3. Global'
      BY <1>1, <1>4 DEF StartActive, Started, disk, TypeOK, Where, Stopped, Global, ActiveRunsItsLink, PendingRunsItsLink, BootFindsRelease, LinksResolve, Linked
    <2>4. Where(p)'
      BY <1>1, <1>4, FreeWhere DEF StartActive, Exit, TypeOK
    <2>5. QED
      BY <1>2, <1>4, <2>2, <2>3, <2>4, CommandStep DEF StartActive, Goto
  <1>5. CASE DrainCheck(p)
    <2>1. TypeProcs'
      BY <1>1, <1>2, <1>5, GotoType, ExitType DEF DrainCheck
    <2>2. TypeOK'
      BY <1>1, <1>5, <2>1 DEF DrainCheck, TypeOK, TypeProcs, disk, host
    <2>3. Global'
      BY <1>1, <1>5, GlobalUnchanged DEF DrainCheck, disk, host
    <2>4. Where(p)'
      BY <1>1, <1>5 DEF DrainCheck, Goto, Exit, disk, host, TypeOK, Where, Unpacking, NoIntentOpen, Resolving, Activating, Linked
    <2>5. QED
      BY <1>2, <1>5, <2>2, <2>3, <2>4, CommandStep DEF DrainCheck, Goto
  <1>6. CASE DrainStop(p)
    <2>1. TypeProcs'
      BY <1>1, <1>2, <1>6, GotoType, ExitType DEF DrainStop
    <2>2. TypeOK'
      BY <1>1, <1>6, <2>1 DEF DrainStop, TypeOK, TypeProcs, disk
    <2>3. Global'
      BY <1>1, <1>6 DEF DrainStop, disk, TypeOK, Where, Stopped, Global, ActiveRunsItsLink, PendingRunsItsLink, BootFindsRelease, LinksResolve, Linked
    <2>4. Where(p)'
      BY <1>1, <1>6 DEF DrainStop, Goto, Exit, disk, TypeOK, Where, Unpacking, NoIntentOpen, Resolving, Activating, Linked
    <2>5. QED
      BY <1>2, <1>6, <2>2, <2>3, <2>4, CommandStep DEF DrainStop, Goto
  <1>7. CASE Unmark(p)
    <2>1. TypeProcs'
      BY <1>1, <1>2, <1>7, ExitType DEF Unmark
    <2>2. TypeOK'
      BY <1>1, <1>7, <2>1 DEF Unmark, TypeOK, TypeProcs, host
    <2>3. Global'
      BY <1>1, <1>7, GlobalUnchanged DEF Unmark, host
    <2>4. Where(p)'
      BY <1>1, <1>7, FreeWhere DEF Unmark, Exit, TypeOK
    <2>5. QED
      BY <1>2, <1>7, <2>2, <2>3, <2>4, CommandStep DEF Unmark, Goto
  <1>8. QED
    BY <1>3, <1>4, <1>5, <1>6, <1>7

-----------------------------------------------------------------------------
(* Starting a subcommand keeps the invariant. *)

LEMMA InvokeInv ==
  ASSUME IInv, NEW p \in Procs, Invoke(p)
  PROVE  IInv'
  <1>1. TypeOK /\ LockInv /\ Global
    BY DEF IInv
  <1>2. TypeOK'
    BY <1>1, InvokeType
  <1>3. UNCHANGED <<disk, sock, unit, faults>>
    BY DEF Invoke, Deploy, Rollback, Unpack, Prune, Boot, DrainFires, host
  <1>4. Global'
    BY <1>1, <1>3, GlobalUnchanged DEF disk
  <1>5. {"resolve", "unpack", "prune", "drain"} \subseteq Labels \ {"free"}
    BY DEF Labels
  <1>6. ASSUME NEW j, NEW l \in {"resolve", "unpack", "prune", "drain"}, Acquire(p, j, l),
               j.cmd \in {"deploy", "unpack"} => j.ver \in Versions,
               j.cmd = "unpack" => j.mode = "tarball",
               "force" \in faults \/ j.mode # "force",
               l = "unpack" => j.cmd = "unpack",
               l = "drain" => j.color \in Colors
        PROVE  IInv'
    <2>1. pc'[p] = l /\ job'[p] = j
      BY <1>1, <1>6 DEF Acquire, TypeOK
    <2>2. Where(p)'
      BY <1>3, <1>6, <2>1 DEF Where, Unpacking, NoIntentOpen, Resolving, Activating
    <2>3. QED
      BY <1>1, <1>2, <1>4, <1>5, <1>6, <2>2, AcquireStep DEF IInv
  <1>7. CASE Deploy(p)
    <2>1. PICK v \in Versions, m \in Modes :
            Acquire(p, [Job("deploy") EXCEPT !.ver = v, !.mode = m], "resolve")
      BY <1>7 DEF Deploy
    <2>2. "force" \in faults \/ m # "force"
      BY DEF Modes
    <2>3. QED
      BY <1>6, <2>1, <2>2 DEF Job, NoJob
  <1>8. CASE Rollback(p)
    BY <1>6, <1>8 DEF Rollback, Job, NoJob
  <1>9. CASE Unpack(p)
    BY <1>6, <1>9 DEF Unpack, Job, NoJob
  <1>10. CASE Prune(p)
    BY <1>6, <1>10 DEF Prune, Job, NoJob
  <1>11. CASE Boot(p)
    BY <1>6, <1>11 DEF Boot, Job, NoJob
  <1>12. ASSUME NEW c \in Colors, DrainFires(p, c)
         PROVE  IInv'
    BY <1>6, <1>12 DEF DrainFires, Job, NoJob
  <1>13. QED
    BY <1>7, <1>8, <1>9, <1>10, <1>11, <1>12 DEF Invoke

-----------------------------------------------------------------------------
(* Deaths, power losses, lost timers and restarted units keep the invariant. *)

LEMMA EnvironmentInv ==
  ASSUME IInv, Environment
  PROVE  IInv'
  <1>1. TypeOK /\ TypeProcs /\ LockInv /\ Global
    BY DEF IInv, TypeOK, TypeProcs
  <1>2. ASSUME UNCHANGED <<disk, sock, unit, procs, proven, faults>>, TypeOK'
        PROVE  IInv'
    <2>1. Global'
      BY <1>1, <1>2, GlobalUnchanged DEF disk
    <2>2. LockInv'
      BY <1>1, <1>2 DEF LockInv, procs
    <2>3. ASSUME NEW q \in Procs PROVE Where(q)'
      BY <1>2 DEF IInv, Where, Written, disk, procs, Linked
    <2>4. QED
      BY <1>2, <2>1, <2>2, <2>3 DEF IInv
  <1>3. CASE BootLosesLock
    BY <1>1, <1>2, <1>3 DEF BootLosesLock, TypeOK, disk, procs
  <1>4. ASSUME NEW c \in Colors, DrainLosesLock(c)
        PROVE  IInv'
    BY <1>1, <1>2, <1>4 DEF DrainLosesLock, TypeOK, disk, procs
  <1>5. CASE SwitchStartsBoot
    BY <1>1, <1>2, <1>5 DEF SwitchStartsBoot, TypeOK, disk, procs
  <1>6. ASSUME NEW c \in Colors, AppRestarts(c)
        PROVE  IInv'
    <2>1. link[c] \in Versions /\ link[c] # Stopped /\ unit' = [unit EXCEPT ![c] = link[c]]
      BY <1>1, <1>6, VersionsAssumption DEF AppRestarts, Linked, TypeOK, Stopped
    <2>2. UNCHANGED <<disk, sock, procs, faults>>
      BY <1>6 DEF AppRestarts
    <2>3. TypeOK'
      BY <1>1, <1>6, <2>1 DEF AppRestarts, TypeOK, disk, procs
    <2>4. \A d \in Colors : unit'[d] \in {unit[d], link[d]} /\ (unit[d] # Stopped => unit'[d] # Stopped)
      BY <1>1, <2>1 DEF TypeOK
    <2>5. Global'
      BY <1>1, <2>2, <2>4 DEF disk, TypeOK, Global, ActiveRunsItsLink, PendingRunsItsLink, BootFindsRelease, LinksResolve, Linked
    <2>6. LockInv'
      BY <1>1, <2>2 DEF LockInv, procs
    <2>7. ASSUME NEW q \in Procs PROVE Where(q)'
      <3>1. Where(q) /\ pending \in Colors \cup {NoColor, Empty}
        BY <1>1 DEF IInv, TypeOK
      <3>2. QED
        BY <2>2, <2>4, <3>1 DEF Where, Written, disk, procs, Linked, Activating, Resolving
    <2>8. QED
      BY <2>3, <2>5, <2>6, <2>7 DEF IInv
  <1>7. ASSUME NEW p \in Procs, Die(p)
        PROVE  IInv'
    <2>1. LockInv' /\ \A q \in Procs : Where(q)'
      BY <1>1, <1>7, ExitStep DEF Die
    <2>2. TypeProcs'
      BY <1>1, <1>7, ExitType DEF Die
    <2>3. TypeOK'
      BY <1>1, <1>7, <2>2 DEF Die, TypeOK, TypeProcs, disk, host
    <2>4. Global'
      BY <1>1, <1>7, GlobalUnchanged DEF Die, disk, host
    <2>5. QED
      BY <2>1, <2>3, <2>4 DEF IInv
  <1>8. CASE PowerLoss
    <2>1. \A q \in Procs : pc'[q] = "free" /\ Where(q)'
      BY <1>8, FreeWhere DEF PowerLoss
    <2>2. LockInv'
      BY <1>8, <2>1, ProcsAssumption DEF LockInv, PowerLoss
    <2>3. "free" \in Labels
      BY DEF Labels
    <2>4. TypeOK'
      BY <1>1, <1>8, <2>3, NoJobType DEF PowerLoss, TypeOK, disk, NoColor, Stopped
    <2>5. Global'
      BY <1>1, <1>8 DEF PowerLoss, disk, TypeOK, Global, ActiveRunsItsLink, PendingRunsItsLink, BootFindsRelease, LinksResolve, Linked
    <2>6. QED
      BY <2>1, <2>2, <2>4, <2>5 DEF IInv
  <1>9. QED
    BY <1>3, <1>4, <1>5, <1>6, <1>7, <1>8 DEF Environment

-----------------------------------------------------------------------------
(* What may go wrong is settled at the start. *)

LEMMA FaultsNeverChange == [Next]_vars => faults' = faults
  <1> SUFFICES ASSUME [Next]_vars PROVE faults' = faults
    OBVIOUS
  <1>1. ASSUME NEW p \in Procs, Invoke(p) PROVE faults' = faults
    BY <1>1 DEF Invoke, Deploy, Rollback, Unpack, Prune, Boot, DrainFires
  <1>2. ASSUME NEW p \in Procs, Step(p) PROVE faults' = faults
    BY <1>2 DEF Step, Resolve, Resume, Reflip, Rerecord, Fallback, Settle, UnpackCheck, UnpackRemove,
       UnpackInstall, RepointIdle, SelectIdle, RestartIdle, Probe, StopCandidate, WriteIntent,
       RestoreLink, FlipTraffic, RecordActive, ClearIntent, BumpGeneration, MarkDrain, ArmTimer,
       PruneReleases, PointAtActive, StartActive, DrainCheck, DrainStop, Unmark
  <1>3. CASE Environment
    BY <1>3 DEF Environment, BootLosesLock, DrainLosesLock, AppRestarts, Die, PowerLoss, SwitchStartsBoot
  <1>4. CASE UNCHANGED vars
    BY <1>4 DEF vars
  <1>5. QED
    BY <1>1, <1>2, <1>3, <1>4 DEF Next

-----------------------------------------------------------------------------
(* The invariant holds in every reachable state. *)

LEMMA InitInv == Init => IInv
  <1> SUFFICES ASSUME Init PROVE IInv
    OBVIOUS
  <1>1. TypeOK
    <2>1. "free" \in Labels
      BY DEF Labels
    <2>2. QED
      BY <2>1, NoJobType DEF Init, TypeOK, NoColor, NoVersion, Stopped
  <1>2. LockInv
    BY ProcsAssumption DEF Init, LockInv
  <1>3. Global
    BY DEF Init, Colors, NoColor, Global, ActiveRunsItsLink, PendingRunsItsLink, BootFindsRelease, LinksResolve, Linked
  <1>4. ASSUME NEW p \in Procs PROVE Where(p)
    BY DEF Init, Where, Unpacking, NoIntentOpen, Resolving, Activating
  <1>5. QED
    BY <1>1, <1>2, <1>3, <1>4 DEF IInv

LEMMA StutterInv == IInv /\ UNCHANGED vars => IInv'
  <1> SUFFICES ASSUME IInv, UNCHANGED vars PROVE IInv'
    OBVIOUS
  <1>1. TypeOK' /\ LockInv' /\ Global'
    BY DEF IInv, vars, disk, host, procs, TypeOK, LockInv, Global, ActiveRunsItsLink, PendingRunsItsLink, BootFindsRelease, LinksResolve, Linked
  <1>2. ASSUME NEW p \in Procs PROVE Where(p)'
    BY DEF IInv, vars, disk, host, procs, Where, Written, Linked
  <1>3. QED
    BY <1>1, <1>2 DEF IInv

LEMMA NextInv == IInv /\ [Next]_vars => IInv'
  <1> SUFFICES ASSUME IInv, [Next]_vars PROVE IInv'
    OBVIOUS
  <1>1. ASSUME NEW p \in Procs, Step(p) PROVE IInv'
    BY <1>1, ResolveInv, PrepareInv, ActivateInv, ScheduleInv, BootDrainInv DEF Step
  <1>2. QED
    BY <1>1, InvokeInv, EnvironmentInv, StutterInv DEF Next

\* Everything the proofs below rely on, in every reachable state: the types,
\* who holds the lock, the global facts, and what each process may assume at
\* the command it executes next.
THEOREM Invariance == Spec => []IInv
  BY InitInv, NextInv, PTL DEF Spec

-----------------------------------------------------------------------------
(* Safety, for every value of the constants. *)

\* Every file, link, unit and local variable always holds a value of its kind.
THEOREM TypeCorrect == Spec => []TypeOK
  <1>1. IInv => TypeOK
    BY DEF IInv
  <1>2. QED
    BY <1>1, Invariance, PTL

\* However many processes, timers and boot units race for deploy.lock and die
\* holding it, at most one is past acquire_lock.
THEOREM Exclusion == Spec => []MutualExclusion
  <1>1. IInv => MutualExclusion
    BY DEF IInv, LockInv, MutualExclusion
  <1>2. QED
    BY <1>1, Invariance, PTL

\* As long as nobody overwrites a release with --force, the boot unit always
\* finds the recorded release on disk.
THEOREM BootAlwaysFindsRelease == Spec => []BootFindsRelease
  <1>1. IInv => BootFindsRelease
    BY DEF IInv, Global
  <1>2. QED
    BY <1>1, Invariance, PTL

\* As long as nobody overwrites a release with --force, no link dangles:
\* prune_releases and the link restore of a failed deploy included.
THEOREM LinksAlwaysResolve == Spec => []LinksResolve
  <1>1. IInv => LinksResolve
    BY DEF IInv, Global
  <1>2. QED
    BY <1>1, Invariance, PTL

\* The unit of the recorded color runs the release its link names, so a
\* restart by systemd or a reboot never changes the release in production.
THEOREM ActiveAlwaysRunsItsLink == Spec => []ActiveRunsItsLink
  <1>1. IInv => ActiveRunsItsLink
    BY DEF IInv, Global
  <1>2. QED
    BY <1>1, Invariance, PTL

-----------------------------------------------------------------------------
(* What a step may never do. *)

\* Starting any unit, or stopping another one, leaves c running.
LEMMA OtherStopped ==
  ASSUME TypeOK, NEW c \in Colors, unit[c] # Stopped, NEW d, NEW r,
         unit' = [unit EXCEPT ![d] = r], d # c \/ r # Stopped
  PROVE  unit'[c] # Stopped
  BY DEF TypeOK

LEMMA RecordedKeepsRunning ==
  ASSUME IInv, NEW c \in Colors, active = c, unit[c] # Stopped,
         NEW p \in Procs, Step(p)
  PROVE  unit'[c] # Stopped \/ Fallback(p)
  <1>1. TypeOK /\ Where(p) /\ ActiveRunsItsLink
    BY DEF IInv, Global
  <1>2. CASE Resolve(p)
    <2>1. unit' = unit \/ unit' = Started(pending)
      BY <1>2 DEF Resolve
    <2>2. CASE unit' = Started(pending)
      <3>1. unit' = [unit EXCEPT ![pending] = IF unit[pending] = Stopped THEN link[pending] ELSE unit[pending]]
        BY <2>2 DEF Started
      <3>2. CASE pending = c
        BY <1>1, <3>1, <3>2 DEF TypeOK
      <3>3. QED
        BY <1>1, <3>1, <3>2, OtherStopped
    <2>3. QED
      BY <2>1, <2>2
  <1>3. CASE RestartIdle(p)
    <2>1. job[p].color # c
      BY <1>1, <1>3 DEF RestartIdle, Where, Activating
    <2>2. \E r : unit' = [unit EXCEPT ![job[p].color] = r]
      BY <1>3 DEF RestartIdle
    <2>3. QED
      BY <1>1, <2>1, <2>2, OtherStopped
  <1>4. CASE StopCandidate(p)
    <2>1. job[p].color # c
      BY <1>1, <1>4 DEF StopCandidate, Where, Activating
    <2>2. unit' = unit \/ unit' = [unit EXCEPT ![job[p].color] = Stopped]
      BY <1>4 DEF StopCandidate
    <2>3. QED
      BY <1>1, <2>1, <2>2, OtherStopped
  <1>5. CASE DrainStop(p)
    <2>1. job[p].color # c
      BY <1>1, <1>5 DEF DrainStop, Where
    <2>2. unit' = unit \/ unit' = [unit EXCEPT ![job[p].color] = Stopped]
      BY <1>5 DEF DrainStop
    <2>3. QED
      BY <1>1, <2>1, <2>2, OtherStopped
  <1>6. CASE StartActive(p)
    <2>1. unit' = unit \/ unit' = Started(active)
      BY <1>6 DEF StartActive
    <2>2. QED
      BY <1>1, <2>1 DEF Started, TypeOK
  <1>7. CASE \/ Resume(p) \/ Reflip(p) \/ Rerecord(p) \/ Settle(p) \/ UnpackCheck(p) \/ UnpackRemove(p)
             \/ UnpackInstall(p) \/ RepointIdle(p) \/ SelectIdle(p) \/ Probe(p) \/ WriteIntent(p)
    BY <1>7 DEF Resume, Reflip, Rerecord, Settle, UnpackCheck, UnpackRemove, UnpackInstall, RepointIdle,
                SelectIdle, Probe, WriteIntent, host
  <1>8. CASE \/ RestoreLink(p) \/ FlipTraffic(p) \/ RecordActive(p) \/ ClearIntent(p) \/ BumpGeneration(p)
             \/ MarkDrain(p) \/ ArmTimer(p) \/ PruneReleases(p) \/ PointAtActive(p) \/ DrainCheck(p) \/ Unmark(p)
    BY <1>8 DEF RestoreLink, FlipTraffic, RecordActive, ClearIntent, BumpGeneration, MarkDrain, ArmTimer,
                PruneReleases, PointAtActive, DrainCheck, Unmark, host
  <1>9. QED
    BY <1>2, <1>3, <1>4, <1>5, <1>6, <1>7, <1>8 DEF Step

\* Whatever fails, dies or fills the disk, and whatever generation a drain was
\* scheduled under: only a power loss, and the fallback from an unhealthy
\* intent, stop the recorded color's running unit.
THEOREM RecordedIsNeverStopped == Spec => RecordedNeverStopped
  <1>1. ASSUME IInv, [Next]_vars, NEW c \in Colors, active = c, unit[c] # Stopped, ~PowerLoss
        PROVE  unit'[c] # Stopped \/ \E p \in Procs : Fallback(p)
    <2>1. ASSUME NEW p \in Procs, Invoke(p) PROVE unit' = unit
      BY <2>1 DEF Invoke, Deploy, Rollback, Unpack, Prune, Boot, DrainFires, host
    <2>2. ASSUME NEW d \in Colors, AppRestarts(d) PROVE unit'[c] # Stopped
      <3>1. TypeOK
        BY <1>1 DEF IInv
      <3>2. link[d] # Stopped
        BY <2>2, <3>1, VersionsAssumption DEF AppRestarts, Linked, TypeOK, Stopped
      <3>3. QED
        BY <1>1, <2>2, <3>1, <3>2, OtherStopped DEF AppRestarts
    <2>3. CASE \/ BootLosesLock \/ SwitchStartsBoot \/ (\E d \in Colors : DrainLosesLock(d))
               \/ (\E p \in Procs : Die(p)) \/ UNCHANGED vars
      BY <1>1, <2>3 DEF BootLosesLock, SwitchStartsBoot, DrainLosesLock, Die, vars, host
    <2>4. QED
      BY <1>1, <2>1, <2>2, <2>3, RecordedKeepsRunning DEF Next, Environment
  <1>2. IInv /\ [Next]_vars =>
          \A c \in Colors : active = c /\ unit[c] # Stopped /\ unit'[c] = Stopped
                             => PowerLoss \/ \E p \in Procs : Fallback(p)
    BY <1>1
  <1>3. QED
    BY <1>2, Invariance, PTL DEF Spec, RecordedNeverStopped

\* The steps that touch neither the routing nor the two records of it.
LEMMA RecordedUnchanged ==
  ASSUME Recorded, UNCHANGED <<sock, active, pending>>
  PROVE  Recorded'
  BY DEF Recorded

LEMMA RecordedStep ==
  ASSUME "disk" \notin faults, IInv, Recorded, NEW p \in Procs, Step(p)
  PROVE  Recorded' \/ Settle(p)
  <1>1. Where(p)
    BY DEF IInv
  <1>2. CASE Reflip(p)
    BY <1>2 DEF Reflip, disk, Recorded
  <1>3. CASE Rerecord(p)
    BY <1>1, <1>3 DEF Rerecord, Written, host, Where, Recorded
  <1>4. CASE WriteIntent(p)
    BY <1>1, <1>4 DEF WriteIntent, host, Where, NoIntentOpen, Recorded
  <1>5. CASE FlipTraffic(p)
    BY <1>1, <1>5 DEF FlipTraffic, Written, disk, Where, Recorded
  <1>6. CASE RecordActive(p)
    BY <1>1, <1>6 DEF RecordActive, Written, host, Where, Recorded
  <1>7. CASE ClearIntent(p)
    BY <1>1, <1>7 DEF ClearIntent, host, Where, Recorded
  <1>8. CASE PointAtActive(p)
    BY <1>8 DEF PointAtActive, disk, Recorded
  <1>9. CASE Resolve(p) \/ Resume(p) \/ Fallback(p) \/ UnpackCheck(p) \/ UnpackRemove(p)
             \/ UnpackInstall(p) \/ RepointIdle(p) \/ SelectIdle(p)
    BY <1>9, RecordedUnchanged DEF Resolve, Resume, Fallback, UnpackCheck, UnpackRemove, UnpackInstall, RepointIdle, SelectIdle, disk, host
  <1>10. CASE RestartIdle(p) \/ Probe(p) \/ StopCandidate(p) \/ RestoreLink(p)
              \/ BumpGeneration(p) \/ MarkDrain(p) \/ ArmTimer(p) \/ PruneReleases(p)
    BY <1>10, RecordedUnchanged DEF RestartIdle, Probe, StopCandidate, RestoreLink, BumpGeneration, MarkDrain, ArmTimer, PruneReleases, disk, host
  <1>11. CASE StartActive(p) \/ DrainCheck(p) \/ DrainStop(p) \/ Unmark(p)
    BY <1>11, RecordedUnchanged DEF StartActive, DrainCheck, DrainStop, Unmark, disk, host
  <1>12. QED
    BY <1>2, <1>3, <1>4, <1>5, <1>6, <1>7, <1>8, <1>9, <1>10, <1>11 DEF Step

\* Traffic that is on a recorded or announced color stays so through every
\* command, crash and power loss but the one that drops an intent, as long as
\* no full disk empties a state file.
THEOREM SettlingAloneLosesTraffic == Spec => OnlySettlingLosesTraffic
  <1>1. IInv /\ [Next]_vars =>
          (Recorded /\ "disk" \notin faults => Recorded' \/ \E p \in Procs : Settle(p))
    <2> SUFFICES ASSUME "disk" \notin faults, IInv, Recorded, [Next]_vars
                 PROVE  Recorded' \/ \E p \in Procs : Settle(p)
      OBVIOUS
    <2>1. ASSUME NEW p \in Procs, Invoke(p) PROVE Recorded'
      BY <2>1, RecordedUnchanged DEF Invoke, Deploy, Rollback, Unpack, Prune, Boot, DrainFires, disk, host
    <2>2. CASE PowerLoss
      BY <2>2 DEF PowerLoss, Recorded
    <2>3. CASE BootLosesLock \/ SwitchStartsBoot
                \/ (\E c \in Colors : DrainLosesLock(c) \/ AppRestarts(c))
                \/ \E p \in Procs : Die(p)
      BY <2>3, RecordedUnchanged DEF BootLosesLock, SwitchStartsBoot, DrainLosesLock, AppRestarts, Die, disk, host
    <2>4. CASE UNCHANGED vars
      BY <2>4, RecordedUnchanged DEF vars, disk, host
    <2>5. QED
      BY <2>1, <2>2, <2>3, <2>4, RecordedStep DEF Next, Environment
  <1>2. QED
    BY <1>1, Invariance, PTL DEF Spec, OnlySettlingLosesTraffic

-----------------------------------------------------------------------------
(* Without failures: power losses alone never put traffic on a color that  *)
(* is neither recorded nor about to be, and without them a rollback always *)
(* has a release to return to that was healthy once.                       *)

\* Traffic is on the recorded color, or on the one its process records next.
Following == \/ sock \in {NoColor, active}
             \/ \E p \in Procs : pc[p] \in {"rerecord", "record"} /\ sock = pending

\* While an intent is open and its process is gone there is no routing at all.
NoRouting == pending # NoColor /\ sock # NoColor =>
               \E p \in Procs : pc[p] \in {"flip", "record", "clear", "rerecord", "settle"}

QuietInv == Following /\ NoRouting

\* A process about to route, record or settle is the only one running.
LEMMA Alone ==
  ASSUME IInv, NEW p \in Procs, pc[p] # "free"
  PROVE  \A q \in Procs : pc[q] # "free" => q = p
  BY DEF IInv, LockInv, TypeOK

LEMMA QuietUnchanged ==
  ASSUME QuietInv, UNCHANGED <<active, pending, sock, pc>>
  PROVE  QuietInv'
  BY DEF QuietInv, Following, NoRouting

\* Steps of a process that is not in the middle of a swap leave the routing
\* and its records alone.
LEMMA QuietElsewhere ==
  ASSUME IInv, QuietInv, NEW p \in Procs, pc[p] # "free",
         pc[p] \notin {"flip", "record", "clear", "rerecord", "settle"},
         UNCHANGED <<active, pending, sock>>, NEW l, pc' = [pc EXCEPT ![p] = l]
  PROVE  QuietInv'
  <1>1. \A q \in Procs : pc[q] \notin {"flip", "record", "clear", "rerecord", "settle"}
    BY Alone
  <1>2. QED
    BY <1>1 DEF QuietInv, Following, NoRouting

LEMMA QuietStep ==
  ASSUME OnlyPower, IInv, QuietInv, NEW p \in Procs, Step(p)
  PROVE  QuietInv'
  <1>1. ~MayFail /\ "disk" \notin faults /\ Where(p) /\ TypeOK
    BY DEF OnlyPower, MayFail, IInv
  <1>2. pc \in [Procs -> Labels]
    BY <1>1 DEF TypeOK
  <1>3. CASE Reflip(p)
    <2>1. sock' = pending /\ pc'[p] = "rerecord" /\ UNCHANGED <<active, pending>>
      BY <1>1, <1>2, <1>3 DEF Reflip, Goto, disk
    <2>2. QED
      BY <2>1 DEF QuietInv, Following, NoRouting
  <1>4. CASE Rerecord(p)
    <2>1. sock = pending /\ active' = pending /\ pc'[p] = "settle" /\ UNCHANGED <<sock, pending>>
      BY <1>1, <1>2, <1>4 DEF Rerecord, Written, Goto, host, Where
    <2>2. QED
      BY <2>1 DEF QuietInv, Following, NoRouting
  <1>5. CASE Settle(p)
    <2>1. pending' = NoColor /\ UNCHANGED <<sock, active>> /\ pc[p] = "settle"
      BY <1>1, <1>5 DEF Settle, host
    <2>2. sock \in {NoColor, active}
      BY <2>1, Alone DEF QuietInv, Following
    <2>3. QED
      BY <2>1, <2>2 DEF QuietInv, Following, NoRouting
  <1>6. CASE WriteIntent(p)
    <2>1. pc'[p] = "flip" /\ UNCHANGED <<sock, active>> /\ pc[p] = "intent"
      BY <1>1, <1>2, <1>6 DEF WriteIntent, Goto, host
    <2>2. sock \in {NoColor, active}
      BY <2>1, Alone DEF QuietInv, Following
    <2>3. QED
      BY <2>1, <2>2 DEF QuietInv, Following, NoRouting
  <1>7. CASE FlipTraffic(p)
    <2>1. sock' = pending /\ pc'[p] = "record" /\ UNCHANGED <<active, pending>>
      BY <1>1, <1>2, <1>7 DEF FlipTraffic, Written, Goto, disk, Where
    <2>2. QED
      BY <2>1 DEF QuietInv, Following, NoRouting
  <1>8. CASE RecordActive(p)
    <2>1. active' = sock /\ pc'[p] = "clear" /\ UNCHANGED <<sock, pending>>
      BY <1>1, <1>2, <1>8 DEF RecordActive, Written, Goto, host, Where
    <2>2. QED
      BY <2>1 DEF QuietInv, Following, NoRouting
  <1>9. CASE ClearIntent(p)
    <2>1. pending' = NoColor /\ UNCHANGED <<sock, active>> /\ pc[p] = "clear"
      BY <1>1, <1>9 DEF ClearIntent, host
    <2>2. sock \in {NoColor, active}
      BY <2>1, Alone DEF QuietInv, Following
    <2>3. QED
      BY <2>1, <2>2 DEF QuietInv, Following, NoRouting
  <1>10. CASE PointAtActive(p)
    <2>1. /\ pending = NoColor /\ sock' \in {sock, active} /\ pc[p] = "point"
          /\ UNCHANGED <<active, pending>>
      BY <1>1, <1>10 DEF PointAtActive, Where, NoIntentOpen, disk
    <2>2. sock \in {NoColor, active}
      BY <2>1, Alone DEF QuietInv, Following
    <2>3. QED
      BY <2>1, <2>2 DEF QuietInv, Following, NoRouting
  <1>11. CASE Resolve(p) \/ Resume(p) \/ Fallback(p) \/ UnpackCheck(p) \/ UnpackRemove(p)
              \/ UnpackInstall(p) \/ RepointIdle(p) \/ SelectIdle(p)
    BY <1>11, QuietElsewhere DEF Resolve, Resume, Fallback, UnpackCheck, UnpackRemove, UnpackInstall, RepointIdle, SelectIdle, AfterUnpack, Goto, Exit, disk, host
  <1>12. CASE RestartIdle(p) \/ Probe(p) \/ StopCandidate(p) \/ RestoreLink(p)
              \/ BumpGeneration(p) \/ MarkDrain(p) \/ ArmTimer(p) \/ PruneReleases(p)
    BY <1>12, QuietElsewhere DEF RestartIdle, Probe, StopCandidate, RestoreLink, BumpGeneration, MarkDrain, ArmTimer, PruneReleases, Finish, Goto, Exit, disk, host
  <1>13. CASE StartActive(p) \/ DrainCheck(p) \/ DrainStop(p) \/ Unmark(p)
    BY <1>13, QuietElsewhere DEF StartActive, DrainCheck, DrainStop, Unmark, Goto, Exit, disk, host
  <1>14. QED
    BY <1>3, <1>4, <1>5, <1>6, <1>7, <1>8, <1>9, <1>10, <1>11, <1>12, <1>13 DEF Step

LEMMA QuietNext ==
  ASSUME OnlyPower, IInv, QuietInv, [Next]_vars
  PROVE  QuietInv'
  <1>1. ASSUME NEW p \in Procs, Invoke(p) PROVE QuietInv'
    <2>1. \E j, l : Acquire(p, j, l) /\ UNCHANGED <<disk, sock>>
      BY <1>1 DEF Invoke, Deploy, Rollback, Unpack, Prune, Boot, DrainFires, host
    <2>2. \A q \in Procs : pc[q] = "free"
      BY <2>1, ProcsAssumption DEF Acquire, IInv, LockInv, TypeOK
    <2>3. QED
      BY <2>1, <2>2 DEF disk, QuietInv, Following, NoRouting
  <1>2. CASE PowerLoss
    BY <1>2 DEF PowerLoss, QuietInv, Following, NoRouting
  <1>3. CASE BootLosesLock \/ SwitchStartsBoot \/ \E c \in Colors : DrainLosesLock(c) \/ AppRestarts(c)
    BY <1>3, QuietUnchanged DEF BootLosesLock, SwitchStartsBoot, DrainLosesLock, AppRestarts, disk, procs
  <1>4. ~\E p \in Procs : Die(p)
    BY DEF Die, OnlyPower
  <1>5. CASE UNCHANGED vars
    BY <1>5, QuietUnchanged DEF vars, disk, host, procs
  <1>6. QED
    BY <1>1, <1>2, <1>3, <1>4, <1>5, QuietStep DEF Next, Environment

LEMMA QuietInvariance == Spec => [](OnlyPower => QuietInv)
  <1>1. Init => QuietInv
    BY DEF Init, QuietInv, Following, NoRouting
  <1>2. IInv /\ (OnlyPower => QuietInv) /\ [Next]_vars => (OnlyPower => QuietInv)'
    BY QuietNext, FaultsNeverChange DEF OnlyPower
  <1>3. QED
    BY <1>1, <1>2, Invariance, PTL DEF Spec

\* When nothing but the power fails, traffic is on the recorded color (or
\* nowhere, before the boot unit ran) whenever no command is at work and no
\* swap is open.
THEOREM TrafficStaysOnActive == Spec => []TrafficOnActive
  <1>1. IInv /\ (OnlyPower => QuietInv) => TrafficOnActive
    BY ProcsAssumption DEF IInv, LockInv, QuietInv, Following, TrafficOnActive
  <1>2. QED
    BY <1>1, Invariance, QuietInvariance, PTL

-----------------------------------------------------------------------------
(* The serving unit is never stopped. *)

LEMMA ServingStep ==
  ASSUME OnlyPower, IInv, QuietInv, NEW p \in Procs, Step(p), NEW c \in Colors,
         sock = c, unit[c] # Stopped, sock' = c
  PROVE  unit'[c] # Stopped
  <1>1. ~MayFail /\ Where(p) /\ TypeOK /\ unit \in [Colors -> Versions \cup {Stopped}]
    BY DEF OnlyPower, MayFail, IInv, TypeOK
  <1>2. sock # NoColor
    BY DEF Colors, NoColor
  <1>3. CASE Resolve(p)
    BY <1>1, <1>3 DEF Resolve, Started
  <1>4. CASE Fallback(p)
    <2>1. pc[p] = "fallback" /\ pending # NoColor
      BY <1>1, <1>4 DEF Colors, NoColor, Fallback, Where, Resolving
    <2>2. QED
      BY <1>2, <2>1, Alone DEF QuietInv, NoRouting
  <1>5. CASE RestartIdle(p)
    <2>1. link[job[p].color] # Stopped
      BY <1>1, <1>5, VersionsAssumption DEF RestartIdle, Where, Activating, Linked, TypeOK, Stopped
    <2>2. QED
      BY <1>1, <1>5, <2>1 DEF RestartIdle
  <1>6. CASE StopCandidate(p)
    <2>1. pc[p] = "abort" /\ job[p].color # active
      BY <1>1, <1>6 DEF StopCandidate, Where, Activating
    <2>2. sock \in {NoColor, active}
      BY <2>1, Alone DEF QuietInv, Following
    <2>3. QED
      BY <1>1, <1>2, <1>6, <2>1, <2>2 DEF StopCandidate
  <1>7. CASE StartActive(p)
    BY <1>1, <1>7 DEF StartActive, Started
  <1>8. CASE DrainStop(p)
    <2>1. pc[p] = "drainstop" /\ job[p].color # active
      BY <1>1, <1>8 DEF DrainStop, Where
    <2>2. sock \in {NoColor, active}
      BY <2>1, Alone DEF QuietInv, Following
    <2>3. QED
      BY <1>1, <1>2, <1>8, <2>1, <2>2 DEF DrainStop
  <1>9. CASE unit' = unit
    BY <1>9
  <1>10. QED
    BY <1>3, <1>4, <1>5, <1>6, <1>7, <1>8, <1>9 DEF Step, Resume, Reflip, Rerecord, Settle,
       UnpackCheck, UnpackRemove, UnpackInstall, RepointIdle, SelectIdle, Probe, WriteIntent,
       RestoreLink, FlipTraffic, RecordActive, ClearIntent, BumpGeneration, MarkDrain, ArmTimer,
       PruneReleases, PointAtActive, DrainCheck, Unmark, disk, host

\* When nothing but the power fails, no command, timer or boot ever stops the
\* unit traffic goes to.
THEOREM TrafficIsNeverStopped == Spec => TrafficNeverStopped
  <1>1. IInv /\ (OnlyPower => QuietInv) /\ [Next]_vars =>
          \A c \in Colors : OnlyPower /\ sock = c /\ unit[c] # Stopped /\ sock' = c => unit'[c] # Stopped
    <2> SUFFICES ASSUME OnlyPower, IInv, QuietInv, [Next]_vars, NEW c \in Colors,
                        sock = c, unit[c] # Stopped, sock' = c
                 PROVE  unit'[c] # Stopped
      OBVIOUS
    <2>1. ASSUME NEW p \in Procs, Invoke(p) PROVE unit' = unit
      BY <2>1 DEF Invoke, Deploy, Rollback, Unpack, Prune, Boot, DrainFires, host
    <2>2. CASE PowerLoss
      BY <2>2 DEF PowerLoss, Colors, NoColor
    <2>3. ASSUME NEW d \in Colors, AppRestarts(d) PROVE unit'[c] # Stopped
      BY <2>3, VersionsAssumption DEF AppRestarts, Linked, IInv, TypeOK, Stopped
    <2>4. CASE BootLosesLock \/ SwitchStartsBoot \/ \E d \in Colors : DrainLosesLock(d)
      BY <2>4 DEF BootLosesLock, SwitchStartsBoot, DrainLosesLock
    <2>5. CASE UNCHANGED vars
      BY <2>5 DEF vars, host
    <2>6. ~\E p \in Procs : Die(p)
      BY DEF Die, OnlyPower
    <2>7. QED
      BY <2>1, <2>2, <2>3, <2>4, <2>5, <2>6, ServingStep DEF Next, Environment
  <1>2. QED
    BY <1>1, Invariance, QuietInvariance, PTL DEF Spec, TrafficNeverStopped

-----------------------------------------------------------------------------
(* What a rollback would activate was healthy once. *)

Healthy == proven \cup {NoVersion}

\* A deploy's process while its candidate is linked but not proven.
Trying(p) == pc[p] \in {"start", "probe", "abort", "restore"} /\ job[p].cmd = "deploy"

HealthInv ==
  /\ \A c \in Colors : link[c] \in Healthy \/ \E p \in Procs : Trying(p) /\ job[p].color = c
  /\ \A p \in Procs : Trying(p) => job[p].target \in Healthy
  /\ \A p \in Procs : pc[p] = "link" => job[p].cmd = "deploy"

\* A step outside the trial of a candidate, which leaves links alone.
LEMMA HealthElsewhere ==
  ASSUME HealthInv, IInv, NEW p \in Procs, ~Trying(p),
         UNCHANGED <<link, proven, faults>>, \A q \in Procs : q # p => UNCHANGED <<pc[q], job[q]>>,
         pc'[p] \notin {"start", "probe", "abort", "restore"},
         pc'[p] = "link" => job'[p].cmd = "deploy"
  PROVE  HealthInv'
  BY DEF HealthInv, Trying, Healthy

LEMMA HealthStep ==
  ASSUME faults = {}, IInv, HealthInv, NEW p \in Procs, Step(p)
  PROVE  HealthInv'
  <1>1. /\ ~MayFail /\ Where(p) /\ TypeOK
        /\ pc \in [Procs -> Labels] /\ job \in [Procs -> JobType]
        /\ link \in [Colors -> Versions \cup {NoVersion}]
    BY DEF MayFail, IInv, TypeOK
  <1>2. pc[p] # "free"
    BY DEF Step, Resolve, Resume, Reflip, Rerecord, Fallback, Settle, UnpackCheck, UnpackRemove,
       UnpackInstall, RepointIdle, SelectIdle, RestartIdle, Probe, StopCandidate, WriteIntent,
       RestoreLink, FlipTraffic, RecordActive, ClearIntent, BumpGeneration, MarkDrain, ArmTimer,
       PruneReleases, PointAtActive, StartActive, DrainCheck, DrainStop, Unmark
  <1>3. \A q \in Procs : q # p => pc[q] = "free" /\ ~Trying(q)
    BY <1>2, Alone DEF Trying
  <1>4. CASE RepointIdle(p) /\ active # Empty
    <2>1. PICK idle \in Colors : idle = IdleFor(active)
      BY <1>1, <1>4, IdleForType DEF TypeOK
    <2>2. pc[p] = "link" /\ job[p].cmd = "deploy" /\ \A c \in Colors : link[c] \in Healthy
      BY <1>3, <1>4 DEF RepointIdle, HealthInv, Trying
    <2>3. /\ link' = [link EXCEPT ![idle] = job[p].ver]
          /\ job'[p].color = idle /\ job'[p].cmd = "deploy"
          /\ job'[p].target \in {link[idle], NoVersion}
          /\ pc' = [pc EXCEPT ![p] = "start"] /\ proven' = proven
      BY <1>1, <1>4, <2>1, <2>2 DEF RepointIdle, JobType
    <2>4. \A q \in Procs : q # p => ~Trying(q)' /\ pc'[q] = "free"
      BY <1>3, <2>3 DEF Trying
    <2>5. Trying(p)' /\ pc'[p] = "start"
      BY <1>1, <2>3 DEF Trying
    <2>6. QED
      BY <1>1, <2>2, <2>3, <2>4, <2>5 DEF HealthInv, Healthy
  <1>4a. CASE RepointIdle(p) /\ active = Empty
    BY <1>1, <1>4a, HealthElsewhere DEF RepointIdle, Exit, Trying
  <1>5. CASE SelectIdle(p)
    <2>1. pc[p] = "select" /\ job[p].cmd = "rollback" /\ \A c \in Colors : link[c] \in Healthy
      BY <1>1, <1>3, <1>5 DEF SelectIdle, Where, HealthInv, Trying
    <2>2. /\ UNCHANGED <<link, proven, faults>> /\ pc'[p] \in {"start", "free"}
          /\ job'[p].cmd # "deploy" \/ pc'[p] = "free"
          /\ \A q \in Procs : q # p => pc'[q] = pc[q]
      BY <1>1, <1>5, <2>1 DEF SelectIdle, Exit, disk, JobType
    <2>3. QED
      BY <1>3, <2>1, <2>2 DEF HealthInv, Healthy, Trying
  <1>6. CASE RestartIdle(p)
    <2>1. pc' = [pc EXCEPT ![p] = "probe"] /\ pc[p] = "start" /\ UNCHANGED <<job, link, proven, faults>>
      BY <1>1, <1>6 DEF RestartIdle, Goto, disk
    <2>2. QED
      BY <1>1, <2>1 DEF HealthInv, Healthy, Trying
  <1>7. CASE Probe(p)
    <2>1. /\ pc[p] = "probe" /\ UNCHANGED <<job, link>>
          /\ \/ pc' = [pc EXCEPT ![p] = "intent"] /\ proven' = proven \cup {link[job[p].color]}
             \/ pc' = [pc EXCEPT ![p] = "abort"] /\ proven' = proven
      BY <1>7 DEF Probe, Goto, disk
    <2>2. CASE pc' = [pc EXCEPT ![p] = "intent"] /\ proven' = proven \cup {link[job[p].color]}
      <3>1. \A c \in Colors : link[c] \in Healthy \/ c = job[p].color
        BY <1>3 DEF HealthInv
      <3>2. \A c \in Colors : link'[c] \in Healthy'
        BY <2>1, <2>2, <3>1 DEF Healthy
      <3>3. \A q \in Procs : ~Trying(q)' /\ pc'[q] # "link"
        BY <1>1, <1>3, <2>2 DEF Trying
      <3>4. QED
        BY <3>2, <3>3 DEF HealthInv
    <2>3. CASE pc' = [pc EXCEPT ![p] = "abort"] /\ proven' = proven
      BY <1>1, <2>1, <2>3 DEF HealthInv, Healthy, Trying
    <2>4. QED
      BY <2>1, <2>2, <2>3
  <1>8. CASE StopCandidate(p)
    <2>1. pc' = [pc EXCEPT ![p] = "restore"] /\ pc[p] = "abort" /\ UNCHANGED <<job, link, proven, faults>>
      BY <1>8 DEF StopCandidate, Goto, disk
    <2>2. QED
      BY <1>1, <2>1 DEF HealthInv, Healthy, Trying
  <1>9. CASE RestoreLink(p)
    <2>1. \A q \in Procs : pc'[q] = "free" /\ ~Trying(q)'
      BY <1>1, <1>3, <1>9 DEF RestoreLink, Exit, Trying
    <2>2. /\ proven' = proven
          /\ \/ Trying(p) /\ link' = [link EXCEPT ![job[p].color] = job[p].target]
             \/ ~Trying(p) /\ link' = link
      BY <1>1, <1>9 DEF RestoreLink, Trying
    <2>3. \A c \in Colors : link'[c] \in Healthy'
      BY <1>1, <1>3, <2>2 DEF HealthInv, Healthy
    <2>4. QED
      BY <2>1, <2>3 DEF HealthInv
  <1>10. CASE Resolve(p) \/ Resume(p) \/ Reflip(p) \/ Rerecord(p) \/ Fallback(p) \/ Settle(p)
    BY <1>1, <1>10, HealthElsewhere DEF Resolve, Resume, Reflip, Rerecord, Fallback, Settle, Body, Trying, Goto, Exit, disk, host
  <1>11. CASE UnpackCheck(p) \/ UnpackRemove(p) \/ UnpackInstall(p)
    <2>1. job[p].cmd \in {"deploy", "unpack"} /\ (job[p].cmd = "unpack" => job[p].mode = "tarball")
      BY <1>1, <1>11 DEF UnpackCheck, UnpackRemove, UnpackInstall, Where, Unpacking
    <2>2. QED
      BY <1>1, <1>11, <2>1, HealthElsewhere DEF UnpackCheck, UnpackRemove, UnpackInstall, AfterUnpack, Trying, Goto, Exit, disk, host
  <1>12. CASE WriteIntent(p) \/ FlipTraffic(p) \/ RecordActive(p) \/ ClearIntent(p)
    BY <1>1, <1>12, HealthElsewhere DEF WriteIntent, FlipTraffic, RecordActive, ClearIntent, Finish, Trying, Goto, Exit, disk, host
  <1>13. CASE BumpGeneration(p) \/ MarkDrain(p) \/ ArmTimer(p) \/ PruneReleases(p)
    BY <1>1, <1>13, HealthElsewhere DEF BumpGeneration, MarkDrain, ArmTimer, PruneReleases, Finish, Trying, Goto, Exit, disk, host
  <1>14. CASE PointAtActive(p) \/ StartActive(p) \/ DrainCheck(p) \/ DrainStop(p) \/ Unmark(p)
    BY <1>1, <1>14, HealthElsewhere DEF PointAtActive, StartActive, DrainCheck, DrainStop, Unmark, Trying, Goto, Exit, disk, host
  <1>15. QED
    BY <1>4, <1>5, <1>6, <1>7, <1>8, <1>9, <1>10, <1>11, <1>12, <1>13, <1>14, <1>4a DEF Step

LEMMA HealthNext ==
  ASSUME faults = {}, IInv, HealthInv, [Next]_vars
  PROVE  HealthInv'
  <1>1. ASSUME NEW p \in Procs, Invoke(p) PROVE HealthInv'
    <2>1. PICK l \in {"resolve", "unpack", "prune", "drain"} :
            /\ \E j : Acquire(p, j, l)
            /\ UNCHANGED <<link, proven, faults>>
      BY <1>1 DEF Invoke, Deploy, Rollback, Unpack, Prune, Boot, DrainFires, disk
    <2>2. \A q \in Procs : pc[q] = "free"
      BY <2>1, ProcsAssumption DEF Acquire, IInv, LockInv, TypeOK
    <2>3. \A q \in Procs : pc'[q] \in {"free", l}
      BY <2>1, <2>2 DEF Acquire, IInv, TypeOK
    <2>4. QED
      BY <2>1, <2>2, <2>3 DEF HealthInv, Trying, Healthy
  <1>2. CASE BootLosesLock \/ SwitchStartsBoot \/ \E c \in Colors : DrainLosesLock(c) \/ AppRestarts(c)
    BY <1>2 DEF BootLosesLock, SwitchStartsBoot, DrainLosesLock, AppRestarts, disk, procs, HealthInv, Trying, Healthy
  <1>3. ~PowerLoss /\ ~\E p \in Procs : Die(p)
    BY DEF Die, PowerLoss
  <1>4. CASE UNCHANGED vars
    BY <1>4 DEF vars, disk, procs, HealthInv, Trying, Healthy
  <1>5. QED
    BY <1>1, <1>2, <1>3, <1>4, HealthStep DEF Next, Environment

\* When every command finishes, what a rollback would activate passed a
\* deploy's health check: no unhealthy candidate is left behind in a link.
THEOREM RollbackTargetIsProven == Spec => []RollbackTargetProven
  <1> DEFINE Inv == faults = {} => HealthInv
  <1>1. Init => Inv
    BY DEF Init, HealthInv, Trying, Healthy
  <1>2. IInv /\ Inv /\ [Next]_vars => Inv'
    BY HealthNext, FaultsNeverChange
  <1>3. IInv /\ Inv => RollbackTargetProven
    BY ProcsAssumption DEF IInv, LockInv, HealthInv, Trying, Healthy, RollbackTargetProven
  <1>4. QED
    BY <1>1, <1>2, <1>3, Invariance, PTL DEF Spec

===============================================================================
