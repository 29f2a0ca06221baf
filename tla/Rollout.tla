---------------------------------- MODULE Rollout ----------------------------------
(***************************************************************************)
(* `stackbase deploy` and `stackbase rollback` over the nodes of an        *)
(* environment: ship, rollback_nodes and _node_order of                    *)
(* src/stackbase/release.py, and the sessions they open at each node's     *)
(* deploy door.                                                            *)
(*                                                                         *)
(* A node is what StackDeploy promises of it: a release that serves, one   *)
(* the idle color links, and a lock.  A client waits for its session's     *)
(* exit code; when its connection is lost or it is interrupted the session *)
(* goes on at the node without it, to its end or until it is killed by its *)
(* first write to the connection.                                          *)
(*                                                                         *)
(* Abstractions: a node's command is its start, which takes the lock, and  *)
(* its end (StackDeploy opens it up); unpacking an upload is one step      *)
(* (Releases opens it up); releases that fail every health check are Bad,  *)
(* any other one fails it only when "fail" is a fault.                     *)
(***************************************************************************)
EXTENDS Naturals

CONSTANTS
  Clients,     \* machines that run stackbase
  NoClient,    \* the owner of a session whose client is gone
  Nodes,       \* the environment's nodes, numbered in declaration order
  Primary,     \* the node with role = "primary"; the others are replicas
  Versions,    \* release versions
  Bad,         \* the versions that fail every health check
  Goal,        \* the version operators deploy once they are calm
  Practices,   \* the ways operators may work, as sets of habits
  Faults       \* what may go wrong: "cut", "fail", "flip"

NoVersion == 0

ASSUME ClientsAssumption == NoClient \notin Clients
ASSUME NodesAssumption == Nodes \subseteq Nat /\ Primary \in Nodes
ASSUME VersionsAssumption == NoVersion \notin Versions /\ Bad \subseteq Versions /\ Goal \in Versions \ Bad

\* Operators may use --node, and may start a run only when no other is in progress.
ASSUME PracticesAssumption == Practices \subseteq SUBSET {"only", "serial"}
ASSUME FaultsAssumption == Faults \subseteq {"cut", "fail", "flip"}

VARIABLES
  live,      \* the release that serves on each node
  idle,      \* the release each node's idle color links
  sessions,  \* the commands that hold a node's lock
  pc,        \* the step each client takes next
  job,       \* its subcommand and version
  left,      \* the selected nodes whose turn is still to come or has begun
  done,      \* the nodes whose switch was reported with exit code 0
  calm,      \* from now on nothing fails and every run deploys Goal
  habits     \* how operators work in this behaviour: it never changes

nodeVars == <<live, idle>>
clientVars == <<pc, job, left, done>>
vars == <<live, idle, sessions, pc, job, left, done, calm, habits>>

Replicas == Nodes \ {Primary}
May(fault) == fault \in Faults /\ ~calm
Running == {"upload", "switch", "wait"}

\* Mutation of Locked: the lock is lost with the client's connection.
LockedWhileHeard(n) == \E x \in sessions : x.node = n /\ x.by # NoClient

Locked(n) == \E x \in sessions : x.node = n

Init ==
  /\ live = [n \in Nodes |-> NoVersion]
  /\ idle = [n \in Nodes |-> NoVersion]
  /\ sessions = {}
  /\ pc = [c \in Clients |-> "ready"]
  /\ job = [c \in Clients |-> [cmd |-> "none", ver |-> NoVersion]]
  /\ left = [c \in Clients |-> {}]
  /\ done = [c \in Clients |-> {}]
  /\ calm = FALSE
  /\ habits \in Practices

-----------------------------------------------------------------------------
(* _node_order. *)

\* Mutation of Before: the same order for both subcommands.
BeforePrimaryFirst(m, n, cmd) ==
  IF (m = Primary) = (n = Primary) THEN m < n ELSE m = Primary

\* deploy takes the replicas first, rollback the primary; otherwise the order is
\* that of stack.toml.
Before(m, n, cmd) ==
  IF (m = Primary) = (n = Primary) THEN m < n ELSE (m = Primary) = (cmd = "rollback")

Turn(c, n) == n \in left[c] /\ \A m \in left[c] \ {n} : Before(n, m, job[c].cmd)

First(cmd) == IF cmd = "deploy" THEN "upload" ELSE "switch"

-----------------------------------------------------------------------------
(* A client. *)

Start(c, cmd, v, only) ==
  /\ pc[c] \notin Running
  /\ "serial" \in habits => \A d \in Clients : pc[d] \notin Running
  /\ calm => cmd = "deploy" /\ v = Goal /\ only = Nodes
  /\ pc' = [pc EXCEPT ![c] = First(cmd)]
  /\ job' = [job EXCEPT ![c] = [cmd |-> cmd, ver |-> v]]
  /\ left' = [left EXCEPT ![c] = only]
  /\ done' = [done EXCEPT ![c] = {}]
  /\ UNCHANGED <<nodeVars, sessions, calm, habits>>

\* Mutation of Selections: a --node that stack.toml does not have is accepted.
SelectionsUnchecked == {Nodes} \cup (IF "only" \in habits THEN {{n} : n \in Nodes \cup {0}} ELSE {})

Selections == {Nodes} \cup (IF "only" \in habits THEN {{n} : n \in Nodes} ELSE {})

RunDeploy(c) == \E v \in Versions, only \in Selections : Start(c, "deploy", v, only)
RunRollback(c) == \E only \in Selections : Start(c, "rollback", NoVersion, only)

\* The run stops at the first failure.
Stop(c) ==
  /\ pc' = [pc EXCEPT ![c] = "failed"]
  /\ UNCHANGED <<job, left, done>>

\* `upload <version> <sha256>`; the unpack needs the node's lock.
Upload(c) ==
  /\ pc[c] = "upload"
  /\ \E n \in Nodes :
       /\ Turn(c, n)
       /\ \/ /\ ~Locked(n)
             /\ pc' = [pc EXCEPT ![c] = "switch"]
             /\ UNCHANGED <<job, left, done>>
          \/ (Locked(n) \/ May("fail") \/ May("cut")) /\ Stop(c)
  /\ UNCHANGED <<nodeVars, sessions, calm, habits>>

\* `deploy <version>` or `rollback`; exit code 3 if the lock is taken.
Switch(c) ==
  /\ pc[c] = "switch"
  /\ \E n \in Nodes :
       /\ Turn(c, n)
       /\ \/ /\ ~Locked(n)
             /\ sessions' = sessions \cup {[node |-> n, cmd |-> job[c].cmd, ver |-> job[c].ver, by |-> c]}
             /\ pc' = [pc EXCEPT ![c] = "wait"]
             /\ UNCHANGED <<job, left, done>>
          \/ (Locked(n) \/ May("cut")) /\ Stop(c) /\ UNCHANGED sessions
  /\ UNCHANGED <<nodeVars, calm, habits>>

\* The connection is lost, or the operator presses Ctrl-C, while the node works.
Disconnect(c) ==
  /\ May("cut")
  /\ pc[c] = "wait"
  /\ Stop(c)
  /\ sessions' = {IF x.by = c THEN [x EXCEPT !.by = NoClient] ELSE x : x \in sessions}
  /\ UNCHANGED <<nodeVars, calm, habits>>

-----------------------------------------------------------------------------
(* A node. *)

\* Mutation of Report: a lock is only given back to a client that listens.
ReportKeepsLock(x, ok) ==
  /\ x.by # NoClient
  /\ sessions' = sessions \ {x}
  /\ IF ok
     THEN /\ left' = [left EXCEPT ![x.by] = @ \ {x.node}]
          /\ done' = [done EXCEPT ![x.by] = @ \cup {x.node}]
          /\ pc' = [pc EXCEPT ![x.by] = IF left[x.by] = {x.node} THEN "ok" ELSE First(x.cmd)]
          /\ UNCHANGED job
     ELSE Stop(x.by)
  /\ UNCHANGED <<calm, habits>>

\* The session ends; its client, if it still listens, reads the exit code and
\* goes on to the next node or stops.
Report(x, ok) ==
  /\ sessions' = sessions \ {x}
  /\ \/ /\ x.by = NoClient
        /\ UNCHANGED clientVars
     \/ /\ x.by # NoClient /\ ~ok
        /\ Stop(x.by)
     \/ /\ x.by # NoClient /\ ok
        /\ left' = [left EXCEPT ![x.by] = @ \ {x.node}]
        /\ done' = [done EXCEPT ![x.by] = @ \cup {x.node}]
        /\ pc' = [pc EXCEPT ![x.by] = IF left[x.by] = {x.node} THEN "ok" ELSE First(x.cmd)]
        /\ UNCHANGED job
  /\ UNCHANGED <<calm, habits>>

Target(x) == IF x.cmd = "deploy" THEN x.ver ELSE idle[x.node]

\* A rollback needs something that serves and something to go back to.
Possible(x) == x.cmd = "deploy" \/ (live[x.node] # NoVersion /\ idle[x.node] # NoVersion)
Healthy(x) == Possible(x) /\ Target(x) \notin Bad

Swap(x) ==
  /\ live' = [live EXCEPT ![x.node] = Target(x)]
  /\ idle' = [idle EXCEPT ![x.node] = live[x.node]]

Succeed(x) == Healthy(x) /\ Swap(x) /\ Report(x, TRUE)

\* The candidate is refused and the idle link restored.
Refuse(x) ==
  /\ ~Healthy(x) \/ May("fail")
  /\ Report(x, FALSE)
  /\ UNCHANGED nodeVars

\* Traffic moved, but a later step of the swap failed: exit code 1.
FailAfterFlip(x) == May("flip") /\ Healthy(x) /\ Swap(x) /\ Report(x, FALSE)

\* A session without its client is killed by a write to the lost connection:
\* before it linked its candidate, after that, or after traffic moved.
DieAlone(x) ==
  /\ x.by = NoClient
  /\ Report(x, FALSE)
  /\ \/ UNCHANGED nodeVars
     \/ x.cmd = "deploy" /\ idle' = [idle EXCEPT ![x.node] = x.ver] /\ UNCHANGED live
     \/ Healthy(x) /\ Swap(x)

Finish(x) == Succeed(x) \/ Refuse(x) \/ FailAfterFlip(x) \/ DieAlone(x)

CalmDown ==
  /\ ~calm
  /\ calm' = TRUE
  /\ UNCHANGED <<nodeVars, sessions, clientVars, habits>>

Next ==
  \/ \E c \in Clients : RunDeploy(c) \/ RunRollback(c) \/ Upload(c) \/ Switch(c) \/ Disconnect(c)
  \/ \E x \in sessions : Finish(x)
  \/ CalmDown

Spec == Init /\ [][Next]_vars

Satisfied(c) == pc[c] = "ok" /\ job[c] = [cmd |-> "deploy", ver |-> Goal] /\ done[c] = Nodes

\* Nodes and clients go on, and operators run their deploy again until it works.
FairSpec ==
  /\ Spec
  /\ \A n \in Nodes : WF_vars(\E x \in sessions : x.node = n /\ Finish(x))
  /\ \A c \in Clients :
       /\ WF_vars(Upload(c) \/ Switch(c))
       /\ WF_vars(calm /\ ~Satisfied(c) /\ RunDeploy(c))

-----------------------------------------------------------------------------
\* The type invariant: releases, sessions and clients hold values of their kind.
TypeOK ==
  /\ live \in [Nodes -> Versions \cup {NoVersion}]
  /\ idle \in [Nodes -> Versions \cup {NoVersion}]
  /\ sessions \subseteq [node : Nodes, cmd : {"deploy", "rollback"},
                         ver : Versions \cup {NoVersion}, by : Clients \cup {NoClient}]
  /\ pc \in [Clients -> Running \cup {"ready", "ok", "failed"}]
  /\ job \in [Clients -> [cmd : {"none", "deploy", "rollback"}, ver : Versions \cup {NoVersion}]]
  /\ left \in [Clients -> SUBSET Nodes]
  /\ done \in [Clients -> SUBSET Nodes]
  /\ calm \in BOOLEAN
  /\ habits \in Practices

-----------------------------------------------------------------------------
(* Safety. *)

\* "A bad release is caught before the node serving traffic is touched": without
\* --node, and with a replica to try it on, no deploy of a bad version is ever
\* started on the primary, whoever deploys what at the same time and whatever
\* sessions their lost clients left behind.
BadNeverReachesPrimary ==
  "only" \notin habits /\ Replicas # {} =>
    \A x \in sessions : x.node = Primary /\ x.cmd = "deploy" => x.ver \notin Bad

\* When runs do not overlap, success means that every selected node serves the
\* version: no session an interrupted run left behind changes a node again.
SuccessMeansServed ==
  [][\A c \in Clients :
       "serial" \in habits /\ pc[c] # "ok" /\ pc'[c] = "ok" /\ job[c].cmd = "deploy" =>
         \A n \in done'[c] : live'[n] = job[c].ver]_vars

-----------------------------------------------------------------------------
(* Liveness. *)

\* A rollout that failed half-way, with whatever it left behind, is completed by
\* running it again: once failures stop, every node serves the version.
RerunConverges == [](calm => <>[](\A n \in Nodes : live[n] = Goal))

-----------------------------------------------------------------------------
(* What the documentation says and the code does not do. *)

\* README.md on rollback: "swap back to the previously-active release".  Refuted
\* by deploying a version twice, as a re-run of a rollout does on the nodes it
\* had reached: both colors link it, and the rollback succeeds without effect.
RollbackReturns ==
  [][\A c \in Clients, n \in Nodes :
       job[c].cmd = "rollback" /\ n \in done'[c] \ done[c] => live'[n] # live[n]]_vars

=====================================================================================
