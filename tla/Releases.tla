-------------------------------- MODULE Releases --------------------------------
(***************************************************************************)
(* The contents of a node's release directories: what the deploy door      *)
(* nixos/deploy/stack-deploy-ssh.sh lets a client upload, and what         *)
(* deploy_unpack_tarball and prune_releases of stack-deploy.sh do with it. *)
(*                                                                         *)
(* StackDeploy takes a release directory as whole or absent.  Here it has  *)
(* a content and a stamp, the .stackbase-sha256 file inside it, and can be *)
(* half removed.  An upload is streamed without the deploy lock, so a      *)
(* second session, a lost connection, a full disk, a kill or a power loss  *)
(* can fall between any two steps, and `rm` and `mv` may fail.             *)
(*                                                                         *)
(* Abstractions: a tarball is identified with its sha256; extraction and   *)
(* mode normalisation happen in a private directory, where a full disk     *)
(* ends them, and show only at the rename, which is atomic and durable; a  *)
(* swap of traffic is one step (StackDeploy opens it up).                  *)
(***************************************************************************)
EXTENDS Naturals, FiniteSets

CONSTANTS
  Sessions,    \* door sessions and local stack-deploy processes
  NoSession,   \* the deploy lock's value when nobody holds it
  Versions,    \* release versions, as positive numbers in `sort -V` order
  Builds,      \* the different tarballs clients built for a version
  NoBuild,     \* a stamp that is missing
  Cut,         \* what arrived of a tarball whose connection was lost
  Keep,        \* STACK_KEEP
  FaultModels  \* the sets of faults to consider

ASSUME SessionsAssumption == NoSession \notin Sessions
ASSUME VersionsAssumption == Versions \subseteq Nat \ {0} /\ IsFiniteSet(Versions)
ASSUME BuildsAssumption == NoBuild \notin Builds /\ Cut \notin Builds
ASSUME KeepAssumption == Keep \in Nat \ {0}

\* What may go wrong: a lost connection, a full disk, files that cannot be
\* removed or renamed, a killed session, a power loss, or root running
\* `deploy --tarball ... --force`.
ASSUME FaultsAssumption ==
  FaultModels \subseteq SUBSET {"cut", "full", "io", "kill", "power", "force"}

VARIABLES
  dir,     \* releases/<version>: its state, its content and its stamp
  active,  \* the release the recorded color links; 0 when there is none
  idle,    \* the release the other color links; 0 when there is none
  lock,    \* the holder of deploy.lock
  pc,      \* the step each session takes next
  job,     \* the words of each session's command
  file,    \* the tarball on disk a session works from
  code,    \* the exit code of each session that ended
  faults   \* what may go wrong in this behaviour: it never changes

vars == <<dir, active, idle, lock, pc, job, file, code, faults>>

NoVersion == 0
Running == 255  \* no exit code yet, or killed

Absent == [state |-> "absent", build |-> NoBuild, stamp |-> NoBuild]
Whole(b) == [state |-> "whole", build |-> b, stamp |-> b]

\* A directory `rm -rf` has begun to remove: any file may be gone, the stamp
\* among them.
Gutted(d) == {[state |-> "partial", build |-> d.build, stamp |-> s] : s \in {d.stamp, NoBuild}}

Present(v) == dir[v].state # "absent"

\* `prev` is what the idle color linked before the deploy repointed it, `left`
\* what a prune has still to remove, `failed` whether it could not remove one.
Job(cmd, v, b) == [cmd |-> cmd, ver |-> v, build |-> b, prev |-> NoVersion,
                   left |-> {}, failed |-> FALSE]
NoJob == Job("none", NoVersion, NoBuild)

Init ==
  /\ dir = [v \in Versions |-> Absent]
  /\ active = NoVersion
  /\ idle = NoVersion
  /\ lock = NoSession
  /\ pc = [s \in Sessions |-> "free"]
  /\ job = [s \in Sessions |-> NoJob]
  /\ file = [s \in Sessions |-> NoBuild]
  /\ code = [s \in Sessions |-> Running]
  /\ faults \in FaultModels

-----------------------------------------------------------------------------
(* A session's life. *)

Begin(s, cmd, v, b, first) ==
  /\ pc[s] = "free"
  /\ pc' = [pc EXCEPT ![s] = first]
  /\ job' = [job EXCEPT ![s] = Job(cmd, v, b)]
  /\ code' = [code EXCEPT ![s] = Running]

Goto(s, next) ==
  /\ pc' = [pc EXCEPT ![s] = next]
  /\ UNCHANGED <<job, file, code, lock>>

\* The session ends with an exit code; its upload is removed (the EXIT trap)
\* and its lock, if it holds it, is released.
End(s, c) ==
  /\ pc' = [pc EXCEPT ![s] = "free"]
  /\ code' = [code EXCEPT ![s] = c]
  /\ file' = [file EXCEPT ![s] = NoBuild]
  /\ lock' = IF lock = s THEN NoSession ELSE lock
  /\ job' = [job EXCEPT ![s] = NoJob]

Store == <<dir, active, idle>>

-----------------------------------------------------------------------------
(* upload: stream first, then `stack-deploy unpack`. *)

Upload(s) ==
  /\ \E v \in Versions, b \in Builds : Begin(s, "upload", v, b, "stream")
  /\ UNCHANGED <<Store, lock, file, faults>>

\* A lost connection ends the stream like its end does; a full disk or an
\* upload above the cap ends the session.
Stream(s) ==
  /\ pc[s] = "stream"
  /\ \/ /\ \E f \in {job[s].build} \cup (IF "cut" \in faults THEN {Cut} ELSE {}) :
             file' = [file EXCEPT ![s] = f]
        /\ pc' = [pc EXCEPT ![s] = "lock"]
        /\ UNCHANGED <<job, code, lock>>
     \/ "full" \in faults /\ End(s, 1)
  /\ UNCHANGED <<Store, faults>>

\* Mutation of TakeLock: cmd_unpack forgets acquire_lock.
TakeLockNever(s) ==
  /\ pc[s] = "lock"
  /\ Goto(s, "check")
  /\ UNCHANGED <<Store, faults>>

TakeLock(s) ==
  /\ pc[s] = "lock"
  /\ \/ /\ lock = NoSession
        /\ lock' = s
        /\ pc' = [pc EXCEPT ![s] = "check"]
        /\ UNCHANGED <<job, file, code>>
     \/ lock # NoSession /\ End(s, 3)
  /\ UNCHANGED <<Store, faults>>

\* The release is in place: an upload is done, a deploy goes on to activate it.
Unpacked(s) == IF job[s].cmd = "upload" THEN End(s, 0) ELSE Goto(s, "repoint")

\* Mutation of Check: any release of that version counts as the same content.
CheckAnyContent(s) ==
  /\ pc[s] = "check"
  /\ LET v == job[s].ver IN
     \/ Present(v) /\ Unpacked(s)
     \/ ~Present(v) /\ file[s] = job[s].build /\ Goto(s, "install")
     \/ End(s, 1)
  /\ UNCHANGED <<Store, faults>>

\* Mutation of Check: the tarball is not hashed.
CheckWithoutHash(s) ==
  /\ pc[s] = "check"
  /\ LET v == job[s].ver IN
     \/ Present(v) /\ dir[v].stamp = job[s].build /\ Unpacked(s)
     \/ Present(v) /\ dir[v].stamp # job[s].build /\ End(s, 4)
     \/ ~Present(v) /\ Goto(s, "install")
  /\ UNCHANGED <<Store, faults>>

\* An existing release is compared by its stamp alone, unless --force is given;
\* anything else must hash to the sha256 the caller gave, pass the member checks
\* and fit on the disk.
Check(s) ==
  /\ pc[s] = "check"
  /\ LET v == job[s].ver
         kept == Present(v) /\ job[s].cmd # "force"
     IN \/ kept /\ dir[v].stamp = job[s].build /\ Unpacked(s)
        \/ kept /\ dir[v].stamp # job[s].build /\ End(s, 4)
        \/ ~kept /\ file[s] = job[s].build /\ Goto(s, IF Present(v) THEN "remove" ELSE "install")
        \/ ~kept /\ End(s, 1)
  /\ UNCHANGED <<Store, faults>>

\* A failing `rm` or `mv` ends an unpack where it is.
GivesUp(s) == "io" \in faults /\ End(s, 1) /\ UNCHANGED dir

\* The extracted and stamped directory is renamed into place.
Install(s) ==
  /\ pc[s] = "install"
  /\ \/ /\ dir' = [dir EXCEPT ![job[s].ver] = Whole(file[s])]
        /\ Unpacked(s)
     \/ GivesUp(s)
  /\ UNCHANGED <<active, idle, faults>>

\* --force removes the old directory first, one file after the other.
RemoveOld(s) ==
  /\ pc[s] = "remove"
  /\ LET v == job[s].ver IN
     \/ /\ \E d \in Gutted(dir[v]) : dir' = [dir EXCEPT ![v] = d]
        /\ UNCHANGED <<pc, job, file, code, lock>>
     \/ /\ dir' = [dir EXCEPT ![v] = Absent]
        /\ Goto(s, "install")
     \/ GivesUp(s)
  /\ UNCHANGED <<active, idle, faults>>

-----------------------------------------------------------------------------
(* deploy, deploy --tarball, rollback and prune. *)

Deploy(s) ==
  /\ lock = NoSession
  /\ lock' = s
  /\ \E v \in Versions : Begin(s, "deploy", v, NoBuild, "repoint")
  /\ UNCHANGED <<Store, file, faults>>

\* A tarball already on the node; only root's local command line can name one.
DeployTarball(s) ==
  /\ lock = NoSession
  /\ lock' = s
  /\ \E v \in Versions, b \in Builds, cmd \in {"tarball"} \cup (IF "force" \in faults THEN {"force"} ELSE {}) :
       /\ Begin(s, cmd, v, b, "check")
       /\ file' = [file EXCEPT ![s] = b]
  /\ UNCHANGED <<Store, faults>>

Rollback(s) ==
  /\ lock = NoSession
  /\ active # NoVersion
  /\ idle # NoVersion
  /\ lock' = s
  /\ Begin(s, "rollback", idle, NoBuild, "repoint")
  /\ UNCHANGED <<Store, file, faults>>

Prune(s) ==
  /\ lock = NoSession
  /\ lock' = s
  /\ Begin(s, "prune", NoVersion, NoBuild, "list")
  /\ UNCHANGED <<Store, file, faults>>

\* The idle color is linked to the release, if it is there.  A rollback finds
\* the link as it wants it and only checks that it resolves.
Repoint(s) ==
  /\ pc[s] = "repoint"
  /\ \/ /\ Present(job[s].ver)
        /\ idle' = job[s].ver
        /\ job' = [job EXCEPT ![s].prev = idle]
        /\ pc' = [pc EXCEPT ![s] = "activate"]
        /\ UNCHANGED <<file, code, lock>>
     \/ ~Present(job[s].ver) /\ End(s, 1) /\ UNCHANGED idle
  /\ UNCHANGED <<dir, active, faults>>

\* Mutation of Activate: a failed deploy links its build, not what was linked.
ActivateBuild(s) ==
  /\ pc[s] = "activate"
  /\ \/ active' = idle /\ idle' = active /\ Goto(s, "list")
     \/ idle' = job[s].build /\ End(s, 1) /\ UNCHANGED active
  /\ UNCHANGED <<dir, faults>>

\* A directory that is there may pass or fail its health check, and so may one
\* that has lost some of its files.  A swap that fails after traffic moved
\* keeps the new release; one that fails before restores the link.
Activate(s) ==
  /\ pc[s] = "activate"
  /\ \/ /\ active' = idle
        /\ idle' = active
        /\ \/ IF job[s].cmd = "rollback" THEN End(s, 0) ELSE Goto(s, "list")
           \/ End(s, 1)
     \/ idle' = job[s].prev /\ End(s, 1) /\ UNCHANGED active
  /\ UNCHANGED <<dir, faults>>

\* Mutation of Prunable: forgets what the colors link.
PrunableLinked == {v \in Versions : Present(v) /\ Cardinality({w \in Versions : Present(w) /\ w > v}) >= Keep}

Prunable ==
  {v \in Versions : Present(v) /\ Cardinality({w \in Versions : Present(w) /\ w > v}) >= Keep}
    \ {active, idle}

\* prune_releases lists what goes once, and then removes it, oldest first.
ListReleases(s) ==
  /\ pc[s] = "list"
  /\ job' = [job EXCEPT ![s].left = Prunable]
  /\ pc' = [pc EXCEPT ![s] = "prune"]
  /\ UNCHANGED <<Store, lock, file, code, faults>>

\* One `rm -rf` after the other.  One that fails, perhaps half-way, is counted,
\* and the next release is turned to.
PruneOne(s) ==
  /\ pc[s] = "prune"
  /\ \E v \in job[s].left :
       /\ \A w \in job[s].left : v <= w
       /\ \/ /\ \E d \in Gutted(dir[v]) : dir' = [dir EXCEPT ![v] = d]
             /\ UNCHANGED job
          \/ /\ dir' = [dir EXCEPT ![v] = Absent]
             /\ job' = [job EXCEPT ![s].left = @ \ {v}]
          \/ /\ "io" \in faults
             /\ job' = [job EXCEPT ![s].left = @ \ {v}, ![s].failed = TRUE]
             /\ UNCHANGED dir
  /\ UNCHANGED <<active, idle, lock, pc, file, code, faults>>

\* To a deploy a release it could not prune is only worth a warning.
PruneDone(s) ==
  /\ pc[s] = "prune"
  /\ job[s].left = {}
  /\ End(s, IF job[s].failed /\ job[s].cmd = "prune" THEN 1 ELSE 0)
  /\ UNCHANGED <<Store, faults>>

-----------------------------------------------------------------------------
(* The environment. *)

\* SIGKILL: no trap runs, the kernel drops the lock.
Kill(s) ==
  /\ "kill" \in faults
  /\ pc[s] # "free"
  /\ End(s, Running)
  /\ UNCHANGED <<Store, faults>>

PowerLoss ==
  /\ "power" \in faults
  /\ pc' = [s \in Sessions |-> "free"]
  /\ code' = [s \in Sessions |-> Running]
  /\ file' = [s \in Sessions |-> NoBuild]
  /\ lock' = NoSession
  /\ job' = [s \in Sessions |-> NoJob]
  /\ UNCHANGED <<Store, faults>>

Step(s) ==
  \/ Stream(s) \/ TakeLock(s) \/ Check(s) \/ RemoveOld(s) \/ Install(s)
  \/ Repoint(s) \/ Activate(s) \/ ListReleases(s) \/ PruneOne(s) \/ PruneDone(s)

Next ==
  \/ \E s \in Sessions : Upload(s) \/ Deploy(s) \/ DeployTarball(s) \/ Rollback(s)
                        \/ Prune(s) \/ Step(s) \/ Kill(s)
  \/ PowerLoss

Spec == Init /\ [][Next]_vars

-----------------------------------------------------------------------------
DirType ==
  [state : {"absent", "whole", "partial"},
   build : Builds \cup {NoBuild, Cut},
   stamp : Builds \cup {NoBuild, Cut}]

JobType ==
  [cmd : {"none", "upload", "deploy", "tarball", "force", "rollback", "prune"},
   ver : Versions \cup {NoVersion}, build : Builds \cup {NoBuild},
   prev : Versions \cup {NoVersion}, left : SUBSET Versions, failed : BOOLEAN]

\* The type invariant: directories, links and sessions hold values of their
\* kind.
TypeOK ==
  /\ dir \in [Versions -> DirType]
  /\ active \in Versions \cup {NoVersion}
  /\ idle \in Versions \cup {NoVersion}
  /\ lock \in Sessions \cup {NoSession}
  /\ pc \in [Sessions -> {"free", "stream", "lock", "check", "remove", "install",
                          "repoint", "activate", "list", "prune"}]
  /\ job \in [Sessions -> JobType]
  /\ file \in [Sessions -> Builds \cup {NoBuild, Cut}]
  /\ code \in [Sessions -> {0, 1, 3, 4, Running}]
  /\ faults \in FaultModels

-----------------------------------------------------------------------------
(* Safety. *)

\* A release directory that is whole holds a complete tarball some client built
\* for that version, and its stamp says which one: no lost connection, racing
\* upload, overwrite or crash ever publishes anything else.
WholeIsVerified ==
  \A v \in Versions :
    dir[v].state = "whole" => dir[v].build \in Builds /\ dir[v].stamp = dir[v].build

\* "A published version must never change": whatever is uploaded again, by
\* whoever, and whatever fails, a whole release is never replaced by another
\* content in one step, nor by what only looks like it; it is first removed.
PublishedNeverChanges ==
  [][\A v \in Versions :
       dir[v].state = "whole" /\ dir'[v].state = "whole" => dir'[v] = dir[v]]_vars

\* No session is killed, the power stays on, and what is to be removed can be:
\* no removal ends half-way.
NothingHalf == faults \cap {"io", "kill", "power"} = {}

\* What a color links is there and no session touches it, however uploads,
\* deploys, failed deploys and prunes of other versions interleave, fail
\* half-way and crash: only --force overwrites a linked release.  A color can
\* be given a release that a removal cut short left there in part, for a deploy
\* asks no more than that the directory exists; if none is cut short, what is
\* linked is whole.
LinkedIsLeftAlone ==
  [][\A v \in {active', idle'} \ {NoVersion} : "force" \notin faults =>
       /\ Present(v) /\ dir'[v] = dir[v]
       /\ NothingHalf => dir[v].state = "whole"]_vars

\* What the door tells the client of an upload: exit 0, that what is there is of
\* the client's content, and exit 4, that something else is.
ToldTruth(s) ==
  job[s].cmd = "upload" /\ pc[s] # "free" /\ pc'[s] = "free" /\ code'[s] \in {0, 4} =>
    LET d == dir'[job[s].ver] IN
    /\ code'[s] = 0 => d.build = job[s].build /\ d.stamp = job[s].build
    /\ code'[s] = 4 => d # Whole(job[s].build) /\ d.state # "absent"
    /\ NothingHalf => d.state = "whole"

\* No lost connection, full disk, racing upload, prune, overwrite, failing
\* removal or crash makes that answer wrong; and unless a removal was cut short
\* what is there is whole.  (What a failed or interrupted removal left may still
\* have its stamp, and an upload of the same tarball is then answered with
\* "already uploaded".)
UploadTellsTruth == [][\A s \in Sessions : ToldTruth(s)]_vars

=================================================================================
