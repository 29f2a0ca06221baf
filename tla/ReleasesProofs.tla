----------------------------- MODULE ReleasesProofs -----------------------------
(***************************************************************************)
(* Proofs about Releases, for every number of sessions, versions and       *)
(* tarballs and every Keep.                                                *)
(***************************************************************************)
EXTENDS Releases, TLAPS

\* What the code relies on at each of a session's steps.
Where(s) ==
  /\ lock = s => pc[s] # "free"
  /\ pc[s] \in {"check", "remove", "install", "repoint", "activate", "list", "prune"} => lock = s
  /\ pc[s] \in {"stream", "lock", "check", "remove", "install"} => job[s].build \in Builds
  /\ pc[s] \notin {"free", "list", "prune"} => job[s].ver \in Versions
  /\ pc[s] \in {"remove", "install"} => file[s] = job[s].build
  /\ pc[s] = "remove" => job[s].cmd = "force"
  /\ job[s].cmd = "force" => "force" \in faults
  /\ pc[s] = "install" => ~Present(job[s].ver)
  /\ pc[s] \in {"repoint", "activate", "list", "prune"} => job[s].cmd # "upload"
  /\ pc[s] = "prune" => active \notin job[s].left /\ idle \notin job[s].left

IInv == TypeOK /\ WholeIsVerified /\ \A s \in Sessions : Where(s)

\* Nothing is half removed except by the session at work on it.
Removing(s, v) ==
  \/ pc[s] = "prune" /\ v \in job[s].left
  \/ pc[s] = "remove" /\ v = job[s].ver

Clean ==
  \A v \in Versions : dir[v].state = "partial" => \E s \in Sessions : lock = s /\ Removing(s, v)

-----------------------------------------------------------------------------
USE SessionsAssumption, BuildsAssumption DEF NoVersion, Running

LEMMA InitEstablishesIInv == Init => IInv
  BY DEF Init, IInv, TypeOK, WholeIsVerified, Where, Present, Absent, NoJob, Job, JobType, DirType

\* A directory changes only under its session's lock, so no other session
\* notices.
LEMMA OthersKeep ==
  ASSUME IInv, NEW s \in Sessions, NEW t \in Sessions, t # s, faults' = faults,
         pc'[t] = pc[t], job'[t] = job[t], file'[t] = file[t],
         lock' = lock \/ (lock \in {NoSession, s} /\ lock' \in {NoSession, s}),
         UNCHANGED <<dir, active, idle>> \/ lock = s
  PROVE  Where(t)'
  BY DEF IInv, Where, Present

\* The job records a session writes are well typed.
LEMMA JobPrev ==
  ASSUME NEW j \in JobType, NEW v \in Versions \cup {NoVersion}, NEW k, k = [j EXCEPT !.prev = v]
  PROVE  k \in JobType
  BY DEF JobType

\* k is j but for what it has left to remove, S, and whether it failed.
JobWith(k, j, S) == k \in JobType /\ k.left = S /\ k.cmd = j.cmd

Removable(S) == S \subseteq Versions

LEMMA JobLeft ==
  ASSUME NEW j \in JobType, NEW S, Removable(S), NEW k, k = [j EXCEPT !.left = S]
  PROVE  JobWith(k, j, S)
  BY DEF JobType, JobWith, Removable

LEMMA JobFailed ==
  ASSUME NEW j \in JobType, NEW S, Removable(S), NEW k, k = [j EXCEPT !.left = S, !.failed = TRUE]
  PROVE  JobWith(k, j, S)
  BY DEF JobType, JobWith, Removable

LEMMA GuttedIsPartial ==
  ASSUME TypeOK, NEW v \in Versions, NEW d \in Gutted(dir[v])
  PROVE  d \in DirType /\ d.state = "partial"
  <1>1. dir[v] \in DirType
    BY DEF TypeOK
  <1>2. dir[v].build \in Builds \cup {NoBuild, Cut} /\ dir[v].stamp \in Builds \cup {NoBuild, Cut}
    BY <1>1 DEF DirType
  <1>3. PICK stamp \in Builds \cup {NoBuild, Cut} :
          d = [state |-> "partial", build |-> dir[v].build, stamp |-> stamp]
    BY <1>2 DEF Gutted
  <1>4. QED
    BY <1>2, <1>3 DEF DirType

\* A session that ends leaves a consistent state, whatever it was doing.
LEMMA EndKeeps ==
  ASSUME IInv, NEW s \in Sessions, NEW c \in {0, 1, 3, 4, Running}, End(s, c),
         TypeOK!1', TypeOK!2', TypeOK!3', WholeIsVerified', UNCHANGED <<dir, active, idle>> \/ lock = s, faults' = faults
  PROVE  IInv'
  <1>1. TypeOK'
    BY DEF IInv, TypeOK, End, NoJob, Job, JobType
  <1>2. Where(s)'
    BY DEF IInv, TypeOK, End, Where, NoJob, Job
  <1>3. \A t \in Sessions : t # s => Where(t)'
    <2>1. TAKE t \in Sessions
    <2>2. CASE lock = s
      BY <2>2, OthersKeep DEF IInv, TypeOK, End
    <2>3. CASE lock # s
      BY <2>3, OthersKeep DEF IInv, TypeOK, End
    <2>4. QED
      BY <2>2, <2>3
  <1>4. QED
    BY <1>1, <1>2, <1>3 DEF IInv

\* So does one that only goes on to its next step.
LEMMA GotoKeeps ==
  ASSUME IInv, NEW s \in Sessions, NEW l, Goto(s, l), TypeOK!1', TypeOK!2', TypeOK!3',
         l \in {"check", "remove", "install", "repoint", "activate", "list", "prune"},
         WholeIsVerified', UNCHANGED <<dir, active, idle>> \/ lock = s, Where(s)', faults' = faults
  PROVE  IInv'
  <1>1. TypeOK'
    BY DEF IInv, TypeOK, Goto
  <1>2. \A t \in Sessions : t # s => Where(t)'
    BY OthersKeep DEF IInv, TypeOK, Goto
  <1>3. QED
    BY <1>1, <1>2 DEF IInv

LEMMA UnpackedKeeps ==
  ASSUME IInv, NEW s \in Sessions, Unpacked(s), TypeOK!1', TypeOK!2', TypeOK!3',
         lock = s, job[s].ver \in Versions, WholeIsVerified', faults' = faults
  PROVE  IInv'
  <1>1. CASE job[s].cmd = "upload"
    BY <1>1, EndKeeps DEF Unpacked
  <1>2. CASE job[s].cmd # "upload"
    <2>1. Goto(s, "repoint")
      BY <1>2 DEF Unpacked
    <2>2. Where(s)'
      BY <1>2, <2>1 DEF Goto, Where, IInv, TypeOK, JobType
    <2>3. QED
      BY <2>1, <2>2, GotoKeeps
  <1>3. QED
    BY <1>1, <1>2

LEMMA BeginKeeps ==
  ASSUME IInv, NEW s \in Sessions,
         Upload(s) \/ Deploy(s) \/ DeployTarball(s) \/ Rollback(s) \/ Prune(s)
  PROVE  IInv'
  <1>1. TypeOK'
    <2>1. PICK cmd \in {"upload", "deploy", "tarball", "force", "rollback", "prune"},
               v \in Versions \cup {NoVersion}, b \in Builds \cup {NoBuild},
               l \in {"stream", "check", "repoint", "list"} : Begin(s, cmd, v, b, l)
      <3>1. CASE Upload(s)
        BY <3>1 DEF Upload
      <3>2. CASE Deploy(s)
        BY <3>2 DEF Deploy
      <3>3. CASE DeployTarball(s)
        BY <3>3 DEF DeployTarball
      <3>4. CASE Rollback(s)
        BY <3>4 DEF Rollback, IInv, TypeOK
      <3>5. CASE Prune(s)
        BY <3>5 DEF Prune
      <3>6. QED
        BY <3>1, <3>2, <3>3, <3>4, <3>5
    <2>2. /\ UNCHANGED <<dir, active, idle, faults>> /\ lock' \in {lock, s}
          /\ file' \in [Sessions -> Builds \cup {NoBuild, Cut}]
      BY DEF IInv, TypeOK, Upload, Deploy, DeployTarball, Rollback, Prune, Store
    <2>3. job' \in [Sessions -> JobType]
      BY <2>1 DEF IInv, TypeOK, Begin, Job, JobType
    <2>4. QED
      BY <2>1, <2>2, <2>3 DEF IInv, TypeOK, Begin
  <1>2. WholeIsVerified'
    BY DEF IInv, WholeIsVerified, Upload, Deploy, DeployTarball, Rollback, Prune, Store
  <1>3. Where(s)'
    BY DEF IInv, TypeOK, Where, Upload, Deploy, DeployTarball, Rollback, Prune, Begin, Job, Store, Present
  <1>4. \A t \in Sessions : t # s => Where(t)'
    BY OthersKeep DEF IInv, TypeOK, Upload, Deploy, DeployTarball, Rollback, Prune, Begin, Store
  <1>5. QED
    BY <1>1, <1>2, <1>3, <1>4 DEF IInv

LEMMA UnpackKeeps ==
  ASSUME IInv, NEW s \in Sessions,
         Stream(s) \/ TakeLock(s) \/ Check(s) \/ RemoveOld(s) \/ Install(s)
  PROVE  IInv'
  <1>0. TypeOK /\ WholeIsVerified /\ Where(s)
    BY DEF IInv
  <1>1. CASE Stream(s)
    <2>1. UNCHANGED <<Store, faults>>
      BY <1>1 DEF Stream
    <2>2. CASE End(s, 1)
      BY <1>0, <2>1, <2>2, EndKeeps DEF Store, TypeOK, WholeIsVerified
    <2>3. CASE ~End(s, 1)
      <3>1. /\ file' \in [Sessions -> Builds \cup {NoBuild, Cut}] /\ pc[s] = "stream"
            /\ pc' = [pc EXCEPT ![s] = "lock"] /\ UNCHANGED <<job, code, lock>>
            /\ \A t \in Sessions : t # s => file'[t] = file[t]
        BY <1>0, <1>1, <2>3 DEF Stream, TypeOK, Where
      <3>2. TypeOK' /\ WholeIsVerified' /\ Where(s)'
        BY <1>0, <2>1, <3>1 DEF Store, TypeOK, WholeIsVerified, Where
      <3>3. \A t \in Sessions : t # s => Where(t)'
        BY <1>0, <2>1, <3>1, OthersKeep DEF Store, TypeOK
      <3>4. QED
        BY <3>2, <3>3 DEF IInv
    <2>4. QED
      BY <2>2, <2>3
  <1>2. CASE TakeLock(s)
    <2>1. UNCHANGED <<Store, faults>> /\ pc[s] = "lock"
      BY <1>2 DEF TakeLock
    <2>2. CASE End(s, 3)
      BY <1>0, <2>1, <2>2, EndKeeps DEF Store, TypeOK, WholeIsVerified
    <2>3. CASE ~End(s, 3)
      <3>1. /\ lock = NoSession /\ lock' = s /\ pc' = [pc EXCEPT ![s] = "check"]
            /\ UNCHANGED <<job, file, code>>
        BY <1>2, <2>3 DEF TakeLock
      <3>2. TypeOK' /\ WholeIsVerified' /\ Where(s)'
        BY <1>0, <2>1, <3>1 DEF Store, TypeOK, WholeIsVerified, Where
      <3>3. \A t \in Sessions : t # s => Where(t)'
        BY <1>0, <2>1, <3>1, OthersKeep DEF Store, TypeOK
      <3>4. QED
        BY <3>2, <3>3 DEF IInv
    <2>4. QED
      BY <2>2, <2>3
  <1>3. CASE Check(s)
    <2>1. UNCHANGED <<Store, faults>> /\ pc[s] = "check" /\ lock = s /\ job[s].ver \in Versions
      BY <1>0, <1>3 DEF Check, Where
    <2>2. TypeOK!1' /\ TypeOK!2' /\ TypeOK!3' /\ WholeIsVerified'
      BY <1>0, <2>1 DEF Store, TypeOK, WholeIsVerified
    <2>3. CASE Unpacked(s)
      BY <2>1, <2>2, <2>3, UnpackedKeeps
    <2>4. CASE End(s, 1) \/ End(s, 4)
      BY <2>1, <2>2, <2>4, EndKeeps DEF Store
    <2>5. CASE /\ file[s] = job[s].build /\ job[s].cmd = "force"
               /\ Present(job[s].ver) /\ Goto(s, "remove")
      <3>1. Where(s)'
        BY <1>0, <2>1, <2>5 DEF Goto, TypeOK, Where
      <3>2. QED
        BY <2>1, <2>2, <2>5, <3>1, GotoKeeps
    <2>6. CASE file[s] = job[s].build /\ ~Present(job[s].ver) /\ Goto(s, "install")
      <3>1. Where(s)'
        BY <1>0, <2>1, <2>6 DEF Goto, TypeOK, Where, Present, Store
      <3>2. QED
        BY <2>1, <2>2, <2>6, <3>1, GotoKeeps
    <2>7. QED
      BY <1>3, <2>3, <2>4, <2>5, <2>6 DEF Check
  <1>4. CASE RemoveOld(s)
    <2>1. /\ pc[s] = "remove" /\ lock = s /\ job[s].ver \in Versions
          /\ UNCHANGED <<active, idle, faults>>
      BY <1>0, <1>4 DEF RemoveOld, Where
    <2>2. CASE /\ \E d \in Gutted(dir[job[s].ver]) : dir' = [dir EXCEPT ![job[s].ver] = d]
               /\ UNCHANGED <<pc, job, file, code, lock>>
      <3>1. TypeOK' /\ WholeIsVerified'
        <4>1. \A d \in Gutted(dir[job[s].ver]) : d \in DirType /\ d.state = "partial"
          BY <1>0, <2>1, GuttedIsPartial
        <4>2. QED
          BY <1>0, <2>1, <2>2, <4>1 DEF TypeOK, WholeIsVerified
      <3>2. Where(s)'
        BY <1>0, <2>1, <2>2 DEF Where
      <3>3. \A t \in Sessions : t # s => Where(t)'
        BY <2>1, <2>2, OthersKeep
      <3>4. QED
        BY <3>1, <3>2, <3>3 DEF IInv
    <2>3. CASE dir' = [dir EXCEPT ![job[s].ver] = Absent] /\ Goto(s, "install")
      <3>1. TypeOK!1' /\ TypeOK!2' /\ TypeOK!3' /\ WholeIsVerified'
        BY <1>0, <2>1, <2>3 DEF TypeOK, DirType, WholeIsVerified, Absent
      <3>2. Where(s)'
        BY <1>0, <2>1, <2>3 DEF TypeOK, Where, Goto, Present, Absent
      <3>3. QED
        BY <2>1, <2>3, <3>1, <3>2, GotoKeeps
    <2>4. CASE GivesUp(s)
      BY <1>0, <2>1, <2>4, EndKeeps DEF GivesUp, TypeOK, WholeIsVerified
    <2>5. QED
      BY <1>4, <2>2, <2>3, <2>4 DEF RemoveOld
  <1>5. CASE Install(s)
    <2>1. /\ pc[s] = "install" /\ lock = s /\ job[s].ver \in Versions /\ file[s] \in Builds
          /\ UNCHANGED <<active, idle, faults>>
      BY <1>0, <1>5 DEF Install, Where
    <2>2. CASE dir' = [dir EXCEPT ![job[s].ver] = Whole(file[s])] /\ Unpacked(s)
      <3>1. TypeOK!1' /\ TypeOK!2' /\ TypeOK!3' /\ WholeIsVerified'
        BY <1>0, <2>1, <2>2 DEF TypeOK, DirType, WholeIsVerified, Whole
      <3>2. QED
        BY <2>1, <2>2, <3>1, UnpackedKeeps
    <2>3. CASE GivesUp(s)
      BY <1>0, <2>1, <2>3, EndKeeps DEF GivesUp, TypeOK, WholeIsVerified
    <2>4. QED
      BY <1>5, <2>2, <2>3 DEF Install
  <1>6. QED
    BY <1>1, <1>2, <1>3, <1>4, <1>5

LEMMA SwapKeeps ==
  ASSUME IInv, NEW s \in Sessions, Repoint(s) \/ Activate(s)
  PROVE  IInv'
  <1>0. TypeOK /\ WholeIsVerified /\ Where(s)
    BY DEF IInv
  <1>1. UNCHANGED <<dir, faults>> /\ lock = s /\ WholeIsVerified'
    BY <1>0 DEF Repoint, Activate, Where, WholeIsVerified
  <1>2. CASE Repoint(s)
    <2>1. CASE End(s, 1)
      <3>1. TypeOK!1' /\ TypeOK!2' /\ TypeOK!3'
        BY <1>0, <1>2, <2>1 DEF TypeOK, Repoint, Where
      <3>2. QED
        BY <1>1, <2>1, <3>1, EndKeeps
    <2>2. CASE ~End(s, 1)
      <3>1. /\ idle' = job[s].ver /\ job' = [job EXCEPT ![s].prev = idle] /\ pc[s] = "repoint"
            /\ pc' = [pc EXCEPT ![s] = "activate"] /\ UNCHANGED <<active, file, code, lock>>
        BY <1>2, <2>2 DEF Repoint
      <3>2. job'[s].ver = job[s].ver /\ job'[s].cmd = job[s].cmd
        BY <1>0, <3>1 DEF TypeOK, JobType
      <3>3. TypeOK'
        <4>1. /\ job'[s] = [job[s] EXCEPT !.prev = idle]
              /\ job' = [job EXCEPT ![s] = job'[s]]
          BY <1>0, <3>1 DEF TypeOK
        <4>2. idle \in Versions \cup {NoVersion} /\ job[s] \in JobType
          BY <1>0 DEF TypeOK
        <4>3. job'[s] \in JobType
          BY <4>1, <4>2, JobPrev, Zenon
        <4>4. job' \in [Sessions -> JobType]
          BY <1>0, <4>1, <4>3 DEF TypeOK
        <4>5. QED
          BY <1>0, <1>1, <3>1, <4>4 DEF TypeOK, Where
      <3>4. Where(s)'
        BY <1>0, <1>1, <3>1, <3>2 DEF TypeOK, Where
      <3>5. \A t \in Sessions : t # s => Where(t)'
        BY <1>0, <1>1, <3>1, OthersKeep DEF TypeOK
      <3>6. QED
        BY <1>1, <3>3, <3>4, <3>5 DEF IInv
    <2>3. QED
      BY <2>1, <2>2
  <1>3. CASE Activate(s)
    <2>1. TypeOK!1' /\ TypeOK!2' /\ TypeOK!3'
      BY <1>0, <1>3 DEF TypeOK, JobType, Activate
    <2>2. CASE End(s, 0) \/ End(s, 1)
      BY <1>1, <2>1, <2>2, EndKeeps
    <2>3. CASE Goto(s, "list")
      <3>1. Where(s)'
        BY <1>0, <1>1, <1>3, <2>3 DEF TypeOK, Where, Goto, Activate
      <3>2. QED
        BY <1>1, <2>1, <2>3, <3>1, GotoKeeps
    <2>4. QED
      BY <1>3, <2>2, <2>3 DEF Activate
  <1>4. QED
    BY <1>2, <1>3

LEMMA PruneKeeps ==
  ASSUME IInv, NEW s \in Sessions, ListReleases(s) \/ PruneOne(s) \/ PruneDone(s)
  PROVE  IInv'
  <1>0. TypeOK /\ WholeIsVerified /\ Where(s)
    BY DEF IInv
  <1>1. CASE ListReleases(s)
    <2>1. /\ pc[s] = "list" /\ lock = s /\ UNCHANGED <<dir, active, idle, lock, file, code, faults>>
          /\ pc' = [pc EXCEPT ![s] = "prune"] /\ job' = [job EXCEPT ![s].left = Prunable]
      BY <1>0, <1>1 DEF ListReleases, Store, Where
    <2>2. Prunable \subseteq Versions /\ active \notin Prunable /\ idle \notin Prunable
      BY DEF Prunable
    <2>3. job'[s] \in JobType /\ job'[s].left = Prunable /\ job'[s].cmd = job[s].cmd
      <3>1. job[s] \in JobType /\ job'[s] = [job[s] EXCEPT !.left = Prunable]
        BY <1>0, <2>1 DEF TypeOK
      <3>2. Removable(Prunable)
        BY <2>2 DEF Removable
      <3>3. JobWith(job'[s], job[s], Prunable)
        BY <3>1, <3>2, JobLeft, Zenon
      <3>4. QED
        BY <3>3 DEF JobWith
    <2>4. TypeOK' /\ WholeIsVerified'
      BY <1>0, <2>1, <2>3 DEF TypeOK, WholeIsVerified
    <2>5. Where(s)'
      BY <1>0, <2>1, <2>2, <2>3 DEF Where, TypeOK
    <2>6. \A t \in Sessions : t # s => Where(t)'
      BY <1>0, <2>1, OthersKeep DEF TypeOK
    <2>7. QED
      BY <2>4, <2>5, <2>6 DEF IInv
  <1>2. CASE PruneOne(s)
    <2>1. /\ pc[s] = "prune" /\ lock = s /\ UNCHANGED <<active, idle, lock, pc, file, code, faults>>
      BY <1>0, <1>2 DEF PruneOne, Where
    <2>2. PICK v \in job[s].left :
            \/ \E d \in Gutted(dir[v]) : dir' = [dir EXCEPT ![v] = d] /\ job' = job
            \/ dir' = [dir EXCEPT ![v] = Absent] /\ job' = [job EXCEPT ![s].left = @ \ {v}]
            \/ dir' = dir /\ job' = [job EXCEPT ![s].left = @ \ {v}, ![s].failed = TRUE]
      BY <1>2 DEF PruneOne
    <2>3. v \in Versions /\ job[s].left \subseteq Versions
      BY <1>0, <2>2 DEF TypeOK, JobType
    <2>4. \A d \in Gutted(dir[v]) \cup {Absent} : d \in DirType /\ d.state # "whole"
      BY <1>0, <2>3, GuttedIsPartial DEF DirType, Absent
    <2>5. dir' \in [Versions -> DirType] /\ WholeIsVerified'
      BY <1>0, <2>2, <2>3, <2>4 DEF TypeOK, WholeIsVerified
    <2>6. /\ job'[s] \in JobType /\ job'[s].left \subseteq job[s].left /\ job'[s].cmd = job[s].cmd
          /\ \A t \in Sessions : t # s => job'[t] = job[t]
      <3>1. job[s] \in JobType /\ \A t \in Sessions : t # s => job'[t] = job[t]
        BY <1>0, <2>2 DEF TypeOK
      <3>2. \/ job'[s] = job[s]
            \/ job'[s] = [job[s] EXCEPT !.left = @ \ {v}]
            \/ job'[s] = [job[s] EXCEPT !.left = @ \ {v}, !.failed = TRUE]
        BY <1>0, <2>2 DEF TypeOK
      <3>3. Removable(job[s].left \ {v})
        BY <2>3 DEF Removable
      <3>4. job'[s] = job[s] \/ JobWith(job'[s], job[s], job[s].left \ {v})
        <4>1. CASE job'[s] = job[s]
          BY <4>1
        <4>2. CASE job'[s] = [job[s] EXCEPT !.left = @ \ {v}]
          BY <3>1, <3>3, <4>2, JobLeft, Zenon
        <4>3. CASE job'[s] = [job[s] EXCEPT !.left = @ \ {v}, !.failed = TRUE]
          BY <3>1, <3>3, <4>3, JobFailed, Zenon
        <4>4. QED
          BY <3>2, <4>1, <4>2, <4>3
      <3>5. QED
        BY <3>1, <3>4 DEF JobWith
    <2>7. job' \in [Sessions -> JobType]
      <3>1. job' = [t \in Sessions |-> job'[t]]
        BY <1>0, <2>2 DEF TypeOK
      <3>2. \A t \in Sessions : job'[t] \in JobType
        BY <1>0, <2>6 DEF TypeOK
      <3>3. QED
        BY <3>1, <3>2
    <2>8. TypeOK'
      BY <1>0, <2>1, <2>5, <2>7 DEF TypeOK
    <2>9. Where(s)'
      BY <1>0, <2>1, <2>6 DEF Where
    <2>10. \A t \in Sessions : t # s => Where(t)'
      BY <2>1, <2>6, OthersKeep
    <2>11. QED
      BY <2>5, <2>8, <2>9, <2>10 DEF IInv
  <1>3. CASE PruneDone(s)
    BY <1>0, <1>3, EndKeeps DEF PruneDone, Store, TypeOK, WholeIsVerified
  <1>4. QED
    BY <1>1, <1>2, <1>3

LEMMA CrashKeeps ==
  ASSUME IInv, PowerLoss \/ \E s \in Sessions : Kill(s)
  PROVE  IInv'
  <1>0. TypeOK /\ WholeIsVerified
    BY DEF IInv
  <1>1. CASE PowerLoss
    <2>1. TypeOK' /\ WholeIsVerified'
      BY <1>0, <1>1 DEF PowerLoss, Store, NoJob, Job, JobType, TypeOK, WholeIsVerified
    <2>2. \A s \in Sessions : Where(s)'
      BY <1>1 DEF PowerLoss, Where, NoJob, Job
    <2>3. QED
      BY <2>1, <2>2 DEF IInv
  <1>2. ASSUME NEW s \in Sessions, Kill(s) PROVE IInv'
    BY <1>0, <1>2, EndKeeps DEF Kill, Store, TypeOK, WholeIsVerified
  <1>3. QED
    BY <1>1, <1>2

LEMMA NextKeepsIInv == IInv /\ [Next]_vars => IInv'
  <1> SUFFICES ASSUME IInv, [Next]_vars PROVE IInv'
    OBVIOUS
  <1>1. CASE UNCHANGED vars
    BY <1>1 DEF vars, IInv, TypeOK, WholeIsVerified, Where, Present
  <1>2. CASE Next
    BY <1>2, BeginKeeps, UnpackKeeps, SwapKeeps, PruneKeeps, CrashKeeps DEF Next, Step
  <1>3. QED
    BY <1>1, <1>2

LEMMA Inductive == Spec => []IInv
  BY InitEstablishesIInv, NextKeepsIInv, PTL DEF Spec

-----------------------------------------------------------------------------
(* The theorems that hold whatever goes wrong. *)

\* Directories, links and sessions hold values of their kind.
THEOREM ReleasesTypeCorrect == Spec => []TypeOK
  <1>1. IInv => TypeOK
    BY DEF IInv
  <1>2. QED
    BY Inductive, <1>1, PTL

\* Whatever deploy_unpack_tarball and its interruptions leave under releases/,
\* a whole directory is a tarball some client built, with its own stamp.
THEOREM WholeAlwaysVerified == Spec => []WholeIsVerified
  <1>1. IInv => WholeIsVerified
    BY DEF IInv
  <1>2. QED
    BY Inductive, <1>1, PTL

\* The steps that change what is under releases/.
LEMMA WhoWritesDir ==
  ASSUME IInv, [Next]_vars, dir' # dir
  PROVE  \E s \in Sessions : RemoveOld(s) \/ Install(s) \/ PruneOne(s)
  BY DEF Next, Step, Upload, Deploy, DeployTarball, Rollback, Prune, Stream, TakeLock, Check, Repoint, Activate, ListReleases, PruneDone, Kill, PowerLoss, Store, vars

\* No step of any session, crash or fault replaces a published release.
THEOREM PublishedIsImmutable == Spec => PublishedNeverChanges
  <1>1. ASSUME IInv, [Next]_vars, NEW v \in Versions, dir[v].state = "whole", dir'[v].state = "whole"
        PROVE  dir'[v] = dir[v]
    <2>1. SUFFICES ASSUME dir' # dir PROVE dir'[v] = dir[v]
      OBVIOUS
    <2>2. PICK s \in Sessions : RemoveOld(s) \/ Install(s) \/ PruneOne(s)
      BY <1>1, <2>1, WhoWritesDir
    <2>3. TypeOK /\ Where(s)
      BY <1>1 DEF IInv
    <2>4. CASE Install(s)
      BY <1>1, <2>3, <2>4 DEF Install, GivesUp, Where, Present, TypeOK
    <2>5. CASE RemoveOld(s)
      BY <1>1, <2>3, <2>5, GuttedIsPartial DEF RemoveOld, GivesUp, Where, TypeOK, Absent
    <2>6. CASE PruneOne(s)
      <3>1. PICK w \in Versions : \E d \in Gutted(dir[w]) \cup {Absent} : dir' = [dir EXCEPT ![w] = d]
        BY <2>1, <2>3, <2>6 DEF PruneOne, TypeOK, JobType
      <3>2. QED
        BY <1>1, <2>3, <3>1, GuttedIsPartial DEF TypeOK, Absent
    <2>7. QED
      BY <2>2, <2>4, <2>5, <2>6
  <1>2. IInv /\ [Next]_vars =>
          [\A v \in Versions :
             dir[v].state = "whole" /\ dir'[v].state = "whole" => dir'[v] = dir[v]]_vars
    BY <1>1
  <1>3. QED
    BY <1>2, Inductive, PTL DEF Spec, PublishedNeverChanges

-----------------------------------------------------------------------------
(* What holds as long as no removal is cut short. *)

NoPartial == \A v \in Versions : dir[v].state # "partial"

\* A session that holds the lock and removes nothing finds every release
\* whole.
LEMMA HolderFindsWhole ==
  ASSUME Clean, IInv, NEW s \in Sessions, lock = s, pc[s] \notin {"prune", "remove"}
  PROVE  NoPartial
  BY DEF Clean, Removing, NoPartial

\* A step that leaves releases/ and the session at work on it alone.
LEMMA CleanElsewhere ==
  ASSUME Clean, dir' = dir, NEW s \in Sessions,
         lock \notin {NoSession, s} => lock' = lock,
         \A t \in Sessions : t # s => pc'[t] = pc[t] /\ job'[t] = job[t],
         lock = s => pc[s] \notin {"prune", "remove"}
  PROVE  Clean'
  BY DEF Clean, Removing

LEMMA CleanPruneOne ==
  ASSUME NothingHalf, Clean, IInv, NEW s \in Sessions, PruneOne(s)
  PROVE  Clean'
  <1>1. /\ pc[s] = "prune" /\ lock = s /\ UNCHANGED <<lock, pc>> /\ TypeOK
    BY DEF IInv, Where, PruneOne
  <1>2. PICK v \in job[s].left :
          \/ \E d \in Gutted(dir[v]) : dir' = [dir EXCEPT ![v] = d] /\ job' = job
          \/ dir' = [dir EXCEPT ![v] = Absent] /\ job' = [job EXCEPT ![s].left = @ \ {v}]
    BY DEF PruneOne, NothingHalf
  <1>3. v \in Versions /\ job[s] \in JobType
    BY <1>1, <1>2 DEF TypeOK, JobType
  <1>4. SUFFICES ASSUME NEW w \in Versions, dir'[w].state = "partial" PROVE w \in job'[s].left
    BY <1>1 DEF Clean, Removing
  <1>5. CASE w = v
    BY <1>1, <1>2, <1>3, <1>4, <1>5 DEF TypeOK, Absent
  <1>6. CASE w # v
    <2>1. w \in job[s].left
      BY <1>1, <1>2, <1>3, <1>4, <1>6 DEF Clean, Removing, TypeOK
    <2>2. QED
      BY <1>1, <1>2, <1>3, <1>6, <2>1 DEF TypeOK, JobType
  <1>7. QED
    BY <1>5, <1>6

LEMMA CleanNext ==
  ASSUME NothingHalf, Clean, IInv, [Next]_vars
  PROVE  Clean'
  <1>0. TypeOK /\ \A s \in Sessions : Where(s)
    BY DEF IInv
  <1>1. CASE UNCHANGED vars
    BY <1>1 DEF vars, Clean, Removing
  <1>2. ASSUME NEW s \in Sessions, Upload(s) \/ Deploy(s) \/ DeployTarball(s) \/ Rollback(s) \/ Prune(s)
        PROVE  Clean'
    <2>1. pc[s] = "free" /\ lock # s
      <3>1. pc[s] = "free"
        BY <1>2 DEF Upload, Deploy, DeployTarball, Rollback, Prune, Begin
      <3>2. QED
        BY <1>0, <3>1 DEF Where
    <2>2. QED
      BY <1>0, <1>2, <2>1, CleanElsewhere DEF Upload, Deploy, DeployTarball, Rollback, Prune, Begin, Store, TypeOK
  <1>3. ASSUME NEW s \in Sessions, Stream(s) \/ TakeLock(s) \/ Check(s) \/ ListReleases(s)
        PROVE  Clean'
    <2>1. UNCHANGED Store /\ pc[s] \notin {"prune", "remove"}
      BY <1>3 DEF Stream, TakeLock, Check, ListReleases
    <2>2. CASE End(s, 0) \/ End(s, 1) \/ End(s, 3) \/ End(s, 4)
      BY <1>0, <2>1, <2>2, CleanElsewhere DEF End, Store, TypeOK
    <2>3. CASE \E l : Goto(s, l)
      BY <1>0, <2>1, <2>3, CleanElsewhere DEF Goto, Store, TypeOK
    <2>4. CASE UNCHANGED <<job, lock>> /\ pc' = [pc EXCEPT ![s] = "lock"]
      BY <1>0, <2>1, <2>4, CleanElsewhere DEF Store, TypeOK
    <2>5. CASE lock = NoSession /\ lock' = s /\ UNCHANGED job /\ pc' = [pc EXCEPT ![s] = "check"]
      BY <1>0, <2>1, <2>5, CleanElsewhere DEF Store, TypeOK
    <2>6. CASE ListReleases(s)
      BY <1>0, <2>1, <2>6, CleanElsewhere DEF ListReleases, Store, TypeOK
    <2>7. QED
      BY <1>3, <2>2, <2>3, <2>4, <2>5, <2>6 DEF Stream, TakeLock, Check, Unpacked
  <1>4. ASSUME NEW s \in Sessions, Install(s)
        PROVE  Clean'
    BY <1>0, <1>4, HolderFindsWhole DEF Install, GivesUp, NothingHalf, Where, NoPartial, Clean, Whole, TypeOK
  <1>5. ASSUME NEW s \in Sessions, RemoveOld(s)
        PROVE  Clean'
    <2>1. /\ lock = s /\ pc[s] = "remove" /\ job[s].ver \in Versions
          /\ \A v \in Versions : v # job[s].ver => dir'[v].state # "partial"
      BY <1>0, <1>5 DEF RemoveOld, GivesUp, NothingHalf, Where, TypeOK, Clean, Removing
    <2>2. CASE UNCHANGED <<pc, job, file, code, lock>>
      BY <2>1, <2>2 DEF Clean, Removing
    <2>3. CASE dir' = [dir EXCEPT ![job[s].ver] = Absent]
      BY <1>0, <2>1, <2>3 DEF Clean, TypeOK, Absent
    <2>4. QED
      BY <1>5, <2>2, <2>3 DEF RemoveOld, GivesUp, NothingHalf
  <1>6. ASSUME NEW s \in Sessions, Repoint(s) \/ Activate(s)
        PROVE  Clean'
    <2>1. NoPartial /\ UNCHANGED dir
      BY <1>0, <1>6, HolderFindsWhole DEF Repoint, Activate, Where
    <2>2. QED
      BY <2>1 DEF NoPartial, Clean
  <1>7. ASSUME NEW s \in Sessions, PruneDone(s)
        PROVE  Clean'
    BY <1>0, <1>7 DEF PruneDone, Where, Clean, Removing, Store
  <1>8. QED
    BY <1>1, <1>2, <1>3, <1>4, <1>5, <1>6, <1>7, CleanPruneOne DEF Next, Step, NothingHalf, Kill, PowerLoss

\* What may go wrong is settled at the start.
LEMMA FaultsNeverChange == [Next]_vars => faults' = faults
  BY DEF Next, Step, Upload, Deploy, DeployTarball, Rollback, Prune, Stream, TakeLock, Check, RemoveOld, Install, Repoint, Activate, ListReleases, PruneOne, PruneDone, Kill, PowerLoss, vars

LEMMA CleanAlways == Spec => [](IInv /\ (NothingHalf => Clean))
  <1>1. Init => Clean
    BY DEF Init, Clean, Absent
  <1>2. IInv /\ (NothingHalf => Clean) /\ [Next]_vars => (NothingHalf => Clean)'
    BY CleanNext, FaultsNeverChange DEF NothingHalf
  <1>3. QED
    BY <1>1, <1>2, Inductive, PTL DEF Spec

-----------------------------------------------------------------------------
(* What the door tells the client of an upload. *)

\* What is left of a stamp is the stamp of what the directory held.
Stamped == \A v \in Versions : dir[v].stamp \in {NoBuild, dir[v].build}

LEMMA StampsFit == Spec => []Stamped
  <1>1. Init => Stamped
    BY DEF Init, Stamped, Absent
  <1>2. ASSUME IInv, Stamped, [Next]_vars PROVE Stamped'
    <2>1. CASE dir' = dir
      BY <1>2, <2>1 DEF Stamped
    <2>2. CASE dir' # dir
      <3>1. PICK s \in Sessions : RemoveOld(s) \/ Install(s) \/ PruneOne(s)
        BY <1>2, <2>2, WhoWritesDir
      <3>2. TypeOK /\ Where(s)
        BY <1>2 DEF IInv
      <3>3. PICK v \in Versions : \E d \in Gutted(dir[v]) \cup {Absent, Whole(file[s])} :
              dir' = [dir EXCEPT ![v] = d]
        <4>1. CASE RemoveOld(s)
          BY <2>2, <3>2, <4>1 DEF RemoveOld, GivesUp, Where
        <4>2. CASE Install(s)
          BY <2>2, <3>2, <4>2 DEF Install, GivesUp, Where
        <4>3. CASE PruneOne(s)
          <5>1. job[s].left \subseteq Versions
            BY <3>2 DEF TypeOK, JobType
          <5>2. QED
            BY <2>2, <4>3, <5>1 DEF PruneOne
        <4>4. QED
          BY <3>1, <4>1, <4>2, <4>3
      <3>4. \A d \in Gutted(dir[v]) \cup {Absent, Whole(file[s])} : d.stamp \in {NoBuild, d.build}
        BY <1>2, <3>3 DEF Stamped, Gutted, Absent, Whole
      <3>5. QED
        BY <1>2, <3>2, <3>3, <3>4 DEF Stamped, TypeOK
    <2>3. QED
      BY <2>1, <2>2
  <1>3. QED
    BY <1>1, <1>2, Inductive, PTL DEF Spec

\* Only the comparison, the rename and the steps before the lock end an upload
\* with an exit code.
LEMMA WhoAnswers ==
  ASSUME IInv, [Next]_vars, NEW s \in Sessions,
         job[s].cmd = "upload", pc[s] # "free", pc'[s] = "free", code'[s] \in {0, 4}
  PROVE  \/ Check(s) /\ (End(s, 0) \/ End(s, 4)) /\ Present(job[s].ver)
         \/ Install(s) /\ End(s, 0) /\ ~GivesUp(s)
  <1>0. TypeOK /\ Where(s)
    BY DEF IInv
  <1>1. ~(End(s, 1) \/ End(s, 3) \/ End(s, Running))
    BY <1>0 DEF End, Goto, TypeOK
  <1>2. CASE Check(s)
    <2>1. ~Goto(s, "remove") /\ ~Goto(s, "install")
      BY <1>0 DEF Goto, TypeOK
    <2>2. QED
      BY <1>1, <1>2, <2>1 DEF Check, Unpacked
  <1>3. CASE Install(s)
    BY <1>1, <1>3 DEF Install, Unpacked, GivesUp
  <1>4. CASE Stream(s) \/ TakeLock(s)
    BY <1>0, <1>1, <1>4 DEF Stream, TakeLock, TypeOK
  <1>5. ~RemoveOld(s)
    BY <1>0 DEF RemoveOld, Where
  <1>6. ~(Repoint(s) \/ Activate(s) \/ ListReleases(s) \/ PruneOne(s) \/ PruneDone(s))
    BY <1>0 DEF Repoint, Activate, ListReleases, PruneOne, PruneDone, Where
  <1>7. ~(Upload(s) \/ Deploy(s) \/ DeployTarball(s) \/ Rollback(s) \/ Prune(s))
    BY DEF Upload, Deploy, DeployTarball, Rollback, Prune, Begin
  <1>8. ~UNCHANGED vars
    BY DEF vars
  <1>9. ~Kill(s) /\ ~PowerLoss
    BY <1>1 DEF Kill, PowerLoss
  <1>10. ASSUME NEW t \in Sessions, t # s
         PROVE  ~(Upload(t) \/ Deploy(t) \/ DeployTarball(t) \/ Rollback(t) \/ Prune(t) \/ Step(t) \/ Kill(t))
    <2>1. pc'[s] # pc[s]
      OBVIOUS
    <2>2. QED
      BY <1>0, <1>10, <2>1 DEF Upload, Deploy, DeployTarball, Rollback, Prune, Begin, Step, Stream, TakeLock, Check, RemoveOld, Install, GivesUp, Unpacked, Repoint, Activate, ListReleases, PruneOne, PruneDone, Kill, Goto, End, TypeOK
  <1>11. QED
    BY <1>2, <1>3, <1>4, <1>5, <1>6, <1>7, <1>8, <1>9, <1>10 DEF Next, Step

\* Whatever fails or crashes, the door's exit code tells the client what is
\* there of its upload; and if no removal was cut short, what is there is whole.
THEOREM UploadsTellTheTruth == Spec => UploadTellsTruth
  <1> DEFINE d(s) == dir'[job[s].ver]
             Answer(s) == /\ code'[s] = 0 => d(s).build = job[s].build /\ d(s).stamp = job[s].build
                          /\ code'[s] = 4 => d(s) # Whole(job[s].build) /\ d(s).state # "absent"
                          /\ NothingHalf => d(s).state = "whole"
  <1>1. ASSUME IInv, Stamped, NothingHalf => Clean, [Next]_vars, NEW s \in Sessions,
               job[s].cmd = "upload", pc[s] # "free", pc'[s] = "free", code'[s] \in {0, 4}
        PROVE  Answer(s)
    <2>1. TypeOK /\ WholeIsVerified /\ Where(s)
      BY <1>1 DEF IInv
    <2>2. ASSUME Check(s), End(s, 0) \/ End(s, 4), Present(job[s].ver)
          PROVE  Answer(s)
      <3>1. /\ UNCHANGED dir /\ job[s].ver \in Versions /\ dir[job[s].ver] \in DirType
            /\ lock = s /\ pc[s] = "check"
        BY <2>1, <2>2 DEF Check, Where, Store, TypeOK
      <3>2. NothingHalf => dir[job[s].ver].state = "whole"
        BY <1>1, <2>2, <3>1, HolderFindsWhole DEF NoPartial, Present, DirType
      <3>3. /\ code'[s] = 0 => dir[job[s].ver].stamp = job[s].build
            /\ code'[s] = 4 => dir[job[s].ver].stamp # job[s].build
        <4>1. /\ End(s, 0) => ~End(s, 4) /\ ~End(s, 1) /\ code'[s] = 0
              /\ End(s, 4) => ~End(s, 0) /\ ~End(s, 1) /\ code'[s] = 4
          BY <2>1 DEF End, TypeOK
        <4>2. ~Goto(s, "remove") /\ ~Goto(s, "install")
          BY <1>1, <2>1 DEF Goto, TypeOK
        <4>3. QED
          BY <1>1, <2>2, <4>1, <4>2 DEF Check, Unpacked
      <3>4. dir[job[s].ver].stamp \in {NoBuild, dir[job[s].ver].build} /\ job[s].build \in Builds
        BY <1>1, <2>1, <3>1 DEF Stamped, Where
      <3>5. QED
        BY <1>1, <2>2, <3>1, <3>2, <3>3, <3>4 DEF Whole, Present
    <2>3. ASSUME Install(s), End(s, 0), ~GivesUp(s)
          PROVE  Answer(s)
      <3>1. file[s] = job[s].build /\ job[s].ver \in Versions /\ code'[s] = 0
        BY <2>1, <2>3 DEF Install, Where, End, TypeOK
      <3>2. dir'[job[s].ver] = Whole(job[s].build)
        BY <2>1, <2>3, <3>1 DEF Install, TypeOK
      <3>3. QED
        BY <3>1, <3>2 DEF Whole
    <2>4. QED
      BY <1>1, <2>2, <2>3, WhoAnswers
  <1>2. IInv /\ Stamped /\ (NothingHalf => Clean) /\ [Next]_vars => [\A s \in Sessions : ToldTruth(s)]_vars
    BY <1>1 DEF ToldTruth
  <1>3. QED
    BY <1>2, CleanAlways, StampsFit, PTL DEF Spec, UploadTellsTruth

-----------------------------------------------------------------------------
(* What the colors link. *)

\* What is not to be touched: the releases the colors link, and those a deploy
\* under way goes back to.
Held(v) ==
  /\ v # NoVersion
  /\ \/ v \in {active, idle}
     \/ \E s \in Sessions : pc[s] = "activate" /\ v = job[s].prev

HeldPresent == \A v \in Versions : Held(v) => Present(v)

HeldWhole == \A v \in Versions : Held(v) => dir[v].state = "whole"

\* A step that leaves links and releases alone gives nothing to hold.
LEMMA HeldElsewhere ==
  ASSUME UNCHANGED <<dir, active, idle>>, NEW s \in Sessions, pc'[s] # "activate",
         \A t \in Sessions : t # s => pc'[t] = pc[t] /\ job'[t] = job[t],
         NEW v, Held(v)'
  PROVE  Held(v) /\ dir'[v] = dir[v]
  BY DEF Held

\* Without --force no session touches a release that is held, and only a deploy
\* that finds its release there gives one to hold.
LEMMA HeldStep ==
  ASSUME "force" \notin faults, IInv, HeldPresent, [Next]_vars, NEW v \in Versions, Held(v)'
  PROVE  /\ dir'[v] = dir[v]
         /\ \/ Held(v)
            \/ Present(v) /\ (\E s \in Sessions : lock = s /\ pc[s] = "repoint")
  <1>0. TypeOK /\ \A s \in Sessions : Where(s)
    BY DEF IInv
  <1>1. CASE UNCHANGED vars
    BY <1>1 DEF vars, Held
  <1>2. ASSUME NEW s \in Sessions, Upload(s) \/ Deploy(s) \/ DeployTarball(s) \/ Rollback(s) \/ Prune(s)
        PROVE  Held(v) /\ dir'[v] = dir[v]
    <2>1. UNCHANGED <<dir, active, idle>>
      BY <1>2 DEF Upload, Deploy, DeployTarball, Rollback, Prune, Store
    <2>2. /\ \E l \in {"stream", "check", "repoint", "list"} : pc' = [pc EXCEPT ![s] = l]
          /\ \A t \in Sessions : t # s => job'[t] = job[t]
      BY <1>0, <1>2 DEF Upload, Deploy, DeployTarball, Rollback, Prune, Begin, TypeOK
    <2>3. pc'[s] # "activate" /\ \A t \in Sessions : t # s => pc'[t] = pc[t]
      BY <1>0, <2>2 DEF TypeOK
    <2>4. QED
      BY <2>1, <2>2, <2>3, HeldElsewhere
  <1>3. ASSUME NEW s \in Sessions,
               Stream(s) \/ TakeLock(s) \/ Check(s) \/ ListReleases(s) \/ PruneDone(s) \/ Kill(s)
        PROVE  Held(v) /\ dir'[v] = dir[v]
    <2>1. UNCHANGED <<dir, active, idle>>
      BY <1>3 DEF Stream, TakeLock, Check, ListReleases, PruneDone, Kill, Store
    <2>2. /\ \E l \in {"free", "lock", "check", "remove", "install", "repoint", "prune"} :
               pc' = [pc EXCEPT ![s] = l]
          /\ \A t \in Sessions : t # s => job'[t] = job[t]
      BY <1>0, <1>3 DEF Stream, TakeLock, Check, Unpacked, ListReleases, PruneDone, Kill, Goto, End, TypeOK
    <2>3. pc'[s] # "activate" /\ \A t \in Sessions : t # s => pc'[t] = pc[t]
      BY <1>0, <2>2 DEF TypeOK
    <2>4. QED
      BY <2>1, <2>2, <2>3, HeldElsewhere
  <1>4. CASE PowerLoss
    BY <1>4 DEF PowerLoss, Store, Held
  <1>5. ASSUME NEW s \in Sessions, Install(s)
        PROVE  Held(v) /\ dir'[v] = dir[v]
    <2>1. UNCHANGED <<active, idle>> /\ job[s].ver \in Versions /\ ~Present(job[s].ver)
      BY <1>0, <1>5 DEF Install, Where
    <2>2. pc'[s] # "activate" /\ \A t \in Sessions : t # s => pc'[t] = pc[t] /\ job'[t] = job[t]
      BY <1>0, <1>5 DEF Install, GivesUp, Unpacked, Goto, End, TypeOK
    <2>3. Held(v)
      BY <2>1, <2>2 DEF Held
    <2>4. v # job[s].ver
      BY <2>1, <2>3 DEF HeldPresent
    <2>5. QED
      BY <1>0, <1>5, <2>3, <2>4 DEF Install, GivesUp, TypeOK
  <1>6. ASSUME NEW s \in Sessions, PruneOne(s)
        PROVE  Held(v) /\ dir'[v] = dir[v]
    <2>1. /\ pc[s] = "prune" /\ lock = s /\ UNCHANGED <<active, idle, pc>>
          /\ active \notin job[s].left /\ idle \notin job[s].left
      BY <1>0, <1>6 DEF PruneOne, Where
    <2>2. \A t \in Sessions : pc[t] # "activate"
      BY <1>0, <2>1 DEF Where
    <2>3. v \in {active, idle} /\ Held(v)
      BY <2>1, <2>2 DEF Held
    <2>4. QED
      BY <1>0, <1>6, <2>1, <2>3 DEF PruneOne, TypeOK
  <1>7. ASSUME NEW s \in Sessions, Repoint(s)
        PROVE  /\ dir'[v] = dir[v]
               /\ Held(v) \/ (Present(v) /\ lock = s /\ pc[s] = "repoint")
    <2>1. UNCHANGED <<dir, active>> /\ lock = s /\ pc[s] = "repoint"
      BY <1>0, <1>7 DEF Repoint, Where
    <2>2. CASE UNCHANGED idle /\ End(s, 1)
      <3>1. pc'[s] # "activate" /\ \A t \in Sessions : t # s => pc'[t] = pc[t] /\ job'[t] = job[t]
        BY <1>0, <2>2 DEF End, TypeOK
      <3>2. QED
        BY <2>1, <2>2, <3>1, HeldElsewhere
    <2>3. CASE Present(job[s].ver) /\ idle' = job[s].ver /\ job' = [job EXCEPT ![s].prev = idle]
                 /\ pc' = [pc EXCEPT ![s] = "activate"]
      <3>1. /\ job'[s].prev = idle
            /\ \A t \in Sessions : t # s => pc'[t] = pc[t] /\ job'[t] = job[t]
        BY <1>0, <2>3 DEF TypeOK, JobType
      <3>2. \/ v \in {active, idle, job[s].ver}
            \/ \E t \in Sessions : pc[t] = "activate" /\ v = job[t].prev
        BY <2>1, <2>3, <3>1 DEF Held
      <3>3. v # NoVersion
        BY DEF Held
      <3>4. QED
        BY <2>1, <2>3, <3>2, <3>3 DEF Held
    <2>4. QED
      BY <1>7, <2>2, <2>3 DEF Repoint
  <1>8. ASSUME NEW s \in Sessions, Activate(s)
        PROVE  Held(v) /\ dir'[v] = dir[v]
    <2>1. /\ UNCHANGED dir /\ lock = s /\ active' \in {active, idle}
          /\ idle' \in {active, job[s].prev} /\ pc[s] = "activate"
      BY <1>0, <1>8 DEF Activate, Where
    <2>2. \A t \in Sessions : pc'[t] # "activate"
      BY <1>0, <1>8, <2>1 DEF Activate, End, Goto, Where, TypeOK
    <2>3. QED
      BY <2>1, <2>2 DEF Held
  <1>9. ~\E s \in Sessions : RemoveOld(s)
    BY <1>0 DEF RemoveOld, Where
  <1>10. QED
    BY <1>1, <1>2, <1>3, <1>4, <1>5, <1>6, <1>7, <1>8, <1>9 DEF Next, Step

LEMMA HeldAlways ==
  Spec => []("force" \notin faults => HeldPresent /\ (NothingHalf => HeldWhole))
  <1> DEFINE Inv == "force" \notin faults => HeldPresent /\ (NothingHalf => HeldWhole)
  <1>1. Init => Inv
    BY DEF Init, HeldPresent, HeldWhole, Held
  <1>2. ASSUME IInv, NothingHalf => Clean, Inv, [Next]_vars PROVE Inv'
    <2>1. SUFFICES ASSUME "force" \notin faults, NEW v \in Versions, Held(v)'
                   PROVE  Present(v)' /\ (NothingHalf => dir'[v].state = "whole")
      BY <1>2, FaultsNeverChange DEF HeldPresent, HeldWhole, NothingHalf
    <2>2. /\ dir'[v] = dir[v]
          /\ \/ Held(v)
             \/ Present(v) /\ (\E s \in Sessions : lock = s /\ pc[s] = "repoint")
      BY <1>2, <2>1, HeldStep
    <2>3. CASE Held(v)
      BY <1>2, <2>1, <2>2, <2>3 DEF HeldPresent, HeldWhole, Present
    <2>4. ASSUME Present(v), NEW s \in Sessions, lock = s, pc[s] = "repoint"
          PROVE  Present(v)' /\ (NothingHalf => dir'[v].state = "whole")
      <3>1. NothingHalf => NoPartial
        BY <1>2, <2>4, HolderFindsWhole
      <3>2. dir[v] \in DirType
        BY <1>2 DEF IInv, TypeOK
      <3>3. QED
        BY <2>2, <2>4, <3>1, <3>2 DEF Present, NoPartial, DirType
    <2>5. QED
      BY <2>2, <2>3, <2>4
  <1>3. IInv /\ (NothingHalf => Clean) /\ Inv /\ [Next]_vars => Inv'
    BY <1>2
  <1>4. QED
    BY <1>1, <1>3, CleanAlways, PTL DEF Spec

\* Unless root forces, no session touches what a color links, whatever
\* interleaves, fails or crashes; and if no removal is cut short, what a color
\* links is whole.
THEOREM LinkedReleasesLeftAlone == Spec => LinkedIsLeftAlone
  <1> DEFINE Inv == "force" \notin faults => HeldPresent /\ (NothingHalf => HeldWhole)
             Alone == \A v \in {active', idle'} \ {NoVersion} : "force" \notin faults =>
                        /\ Present(v) /\ dir'[v] = dir[v]
                        /\ NothingHalf => dir[v].state = "whole"
  <1>1. ASSUME IInv, IInv', Inv, Inv', [Next]_vars PROVE Alone
    <2>1. SUFFICES ASSUME NEW v \in {active', idle'} \ {NoVersion}, "force" \notin faults
                   PROVE  /\ Present(v) /\ dir'[v] = dir[v]
                          /\ NothingHalf => dir[v].state = "whole"
      OBVIOUS
    <2>2. v \in Versions /\ Held(v)' /\ faults' = faults
      BY <1>1, <2>1, FaultsNeverChange DEF IInv, TypeOK, Held
    <2>3. dir'[v] = dir[v]
      BY <1>1, <2>1, <2>2, HeldStep
    <2>4. Present(v)' /\ (NothingHalf => dir'[v].state = "whole")
      BY <1>1, <2>1, <2>2 DEF HeldPresent, HeldWhole, NothingHalf
    <2>5. QED
      BY <2>3, <2>4 DEF Present
  <1>2. IInv /\ IInv' /\ Inv /\ Inv' /\ [Next]_vars => [Alone]_vars
    BY <1>1
  <1>3. QED
    BY <1>2, HeldAlways, Inductive, PTL DEF Spec, LinkedIsLeftAlone

=================================================================================
