------------------------------ MODULE RolloutProofs ------------------------------
(***************************************************************************)
(* Proofs about Rollout, for every number of clients, nodes and versions.  *)
(***************************************************************************)
EXTENDS Rollout, TLAPS

\* A session its client listens to is the one the client waits for.
Listened ==
  \A x \in sessions :
    x.by # NoClient => /\ pc[x.by] = "wait"
                       /\ job[x.by] = [cmd |-> x.cmd, ver |-> x.ver]
                       /\ x.node \in left[x.by]

OneEach == \A x, y \in sessions : x.by = y.by /\ x.by # NoClient => x = y

\* A run has every selected node still before it or behind it.
Accounted ==
  \A c \in Clients : pc[c] \in Running =>
    /\ left[c] \cap done[c] = {}
    /\ job[c].cmd # "none"
    /\ "only" \notin habits => left[c] \cup done[c] = Nodes

\* What one node has accepted is not bad.
DoneIsGood ==
  \A c \in Clients : job[c].cmd = "deploy" /\ done[c] # {} => job[c].ver \notin Bad

IInv == TypeOK /\ Listened /\ OneEach /\ Accounted /\ DoneIsGood /\ BadNeverReachesPrimary

\* When runs do not overlap: one client at a time, one session per node, and
\* what was reported as switched serves and stays as it is.
Alone == \A c, d \in Clients : pc[c] \in Running /\ pc[d] \in Running => c = d
OnePerNode == \A x, y \in sessions : x.node = y.node => x = y
DoneServed ==
  \A c \in Clients : pc[c] \in Running /\ job[c].cmd = "deploy" =>
    \A n \in done[c] : live[n] = job[c].ver /\ ~Locked(n)

Serial == Alone /\ OnePerNode /\ DoneServed

-----------------------------------------------------------------------------
USE ClientsAssumption, NodesAssumption, VersionsAssumption DEF NoVersion, Running

LEMMA InitEstablishesIInv == Init => IInv
  <1> SUFFICES ASSUME Init PROVE IInv
    OBVIOUS
  <1>1. TypeOK
    BY DEF Init, TypeOK
  <1>2. Listened /\ OneEach /\ Accounted /\ DoneIsGood /\ BadNeverReachesPrimary
    BY DEF Init, Listened, OneEach, Accounted, DoneIsGood, BadNeverReachesPrimary
  <1>3. QED
    BY <1>1, <1>2 DEF IInv

LEMMA StartKeeps ==
  ASSUME IInv, NEW c \in Clients, RunDeploy(c) \/ RunRollback(c)
  PROVE  IInv'
  <1>1. PICK cmd \in {"deploy", "rollback"}, v \in Versions \cup {NoVersion}, only \in Selections :
          Start(c, cmd, v, only)
    BY DEF RunDeploy, RunRollback
  <1>2. only \subseteq Nodes /\ ("only" \notin habits => only = Nodes)
    BY <1>1 DEF Selections
  <1>3. pc[c] # "wait" /\ First(cmd) \in {"upload", "switch"}
    BY <1>1 DEF Start, First
  <1>4. TypeOK'
    BY <1>1, <1>2, <1>3 DEF IInv, TypeOK, Start, nodeVars
  <1>5. Listened' /\ OneEach' /\ BadNeverReachesPrimary'
    BY <1>1, <1>3 DEF IInv, TypeOK, Listened, OneEach, BadNeverReachesPrimary, Start
  <1>6. Accounted' /\ DoneIsGood'
    BY <1>1, <1>2 DEF IInv, TypeOK, Accounted, DoneIsGood, Start
  <1>7. QED
    BY <1>4, <1>5, <1>6 DEF IInv

LEMMA StopKeeps ==
  ASSUME IInv, NEW c \in Clients, Stop(c), UNCHANGED <<live, idle, calm, habits>>,
         sessions' \subseteq sessions, \A x \in sessions' : x.by # c
  PROVE  IInv'
  BY DEF IInv, TypeOK, Listened, OneEach, Accounted, DoneIsGood, BadNeverReachesPrimary, Stop

\* When it is the primary's turn in a deploy, every other node has had its own.
LEMMA PrimaryIsLast ==
  ASSUME IInv, NEW c \in Clients, pc[c] \in Running, job[c].cmd = "deploy", "only" \notin habits,
         Turn(c, Primary)
  PROVE  Replicas \subseteq done[c]
  BY DEF IInv, TypeOK, Accounted, Turn, Before, Replicas

LEMMA ClientKeeps ==
  ASSUME IInv, NEW c \in Clients, Upload(c) \/ Switch(c) \/ Disconnect(c)
  PROVE  IInv'
  <1>0. TypeOK /\ Listened
    BY DEF IInv
  <1>1. CASE Upload(c)
    <2>1. pc[c] = "upload" /\ UNCHANGED <<live, idle, sessions, calm, habits>> /\ \A x \in sessions : x.by # c
      <3>1. pc[c] = "upload" /\ UNCHANGED <<nodeVars, sessions, calm, habits>>
        BY <1>1 DEF Upload
      <3>2. \A x \in sessions : x.by # c
        BY <1>0, <3>1 DEF Listened
      <3>3. QED
        BY <3>1, <3>2 DEF nodeVars
    <2>2. CASE Stop(c)
      BY <2>1, <2>2, StopKeeps
    <2>3. CASE pc' = [pc EXCEPT ![c] = "switch"] /\ UNCHANGED <<job, left, done>>
      BY <2>1, <2>3 DEF IInv, TypeOK, Listened, OneEach, Accounted, DoneIsGood, BadNeverReachesPrimary
    <2>4. QED
      BY <1>1, <2>2, <2>3 DEF Upload
  <1>2. CASE Switch(c)
    <2>1. pc[c] = "switch" /\ UNCHANGED <<live, idle, calm, habits>> /\ \A x \in sessions : x.by # c
      <3>1. pc[c] = "switch" /\ UNCHANGED <<nodeVars, calm, habits>>
        BY <1>2 DEF Switch
      <3>2. \A x \in sessions : x.by # c
        BY <1>0, <3>1 DEF Listened
      <3>3. QED
        BY <3>1, <3>2 DEF nodeVars
    <2>2. CASE Stop(c) /\ UNCHANGED sessions
      BY <2>1, <2>2, StopKeeps
    <2>3. ASSUME NEW n \in Nodes, Turn(c, n), pc' = [pc EXCEPT ![c] = "wait"], UNCHANGED <<job, left, done>>,
                 sessions' = sessions \cup {[node |-> n, cmd |-> job[c].cmd, ver |-> job[c].ver, by |-> c]}
          PROVE  IInv'
      <3>0. job[c].cmd \in {"deploy", "rollback"}
        BY <1>0, <2>1 DEF IInv, TypeOK, Accounted
      <3> DEFINE x == [node |-> n, cmd |-> job[c].cmd, ver |-> job[c].ver, by |-> c]
      <3>1. TypeOK'
        BY <1>0, <2>1, <2>3, <3>0 DEF TypeOK
      <3>2. Listened' /\ OneEach'
        <4>1. x.by = c /\ x.node = n /\ x.cmd = job[c].cmd /\ x.ver = job[c].ver
          OBVIOUS
        <4>2. job[c] = [cmd |-> x.cmd, ver |-> x.ver]
          BY <1>0, <4>1 DEF TypeOK
        <4>3. n \in left[c]
          BY <2>3 DEF Turn
        <4>4. QED
          BY <1>0, <2>1, <2>3, <4>1, <4>2, <4>3 DEF IInv, TypeOK, Listened, OneEach
      <3>3. Accounted' /\ DoneIsGood'
        BY <1>0, <2>1, <2>3 DEF IInv, TypeOK, Accounted, DoneIsGood
      <3>4. BadNeverReachesPrimary'
        <4>1. SUFFICES ASSUME "only" \notin habits, Replicas # {}, n = Primary, job[c].cmd = "deploy"
                       PROVE  job[c].ver \notin Bad
          BY <2>1, <2>3 DEF IInv, BadNeverReachesPrimary
        <4>2. done[c] # {}
          BY <2>1, <2>3, <4>1, PrimaryIsLast
        <4>3. QED
          BY <4>1, <4>2 DEF IInv, DoneIsGood
      <3>5. QED
        BY <3>1, <3>2, <3>3, <3>4 DEF IInv
    <2>4. QED
      BY <1>2, <2>1, <2>2, <2>3 DEF Switch
  <1>3. CASE Disconnect(c)
    <2> DEFINE lost(x) == IF x.by = c THEN [x EXCEPT !.by = NoClient] ELSE x
    <2>1. pc[c] = "wait" /\ Stop(c) /\ UNCHANGED <<live, idle, calm, habits>> /\ sessions' = {lost(x) : x \in sessions}
      BY <1>3 DEF Disconnect, nodeVars
    <2>2. ASSUME NEW x \in sessions
          PROVE  /\ lost(x).node = x.node /\ lost(x).cmd = x.cmd /\ lost(x).ver = x.ver /\ lost(x).by # c
                 /\ lost(x) \in [node : Nodes, cmd : {"deploy", "rollback"},
                                 ver : Versions \cup {NoVersion}, by : Clients \cup {NoClient}]
                 /\ lost(x).by # NoClient => lost(x) = x
      BY <1>0 DEF TypeOK
    <2> HIDE DEF lost
    <2>3. TypeOK' /\ Accounted' /\ DoneIsGood'
      BY <1>0, <2>1, <2>2 DEF IInv, TypeOK, Accounted, DoneIsGood, Stop
    <2>4. Listened' /\ OneEach' /\ BadNeverReachesPrimary'
      BY <1>0, <2>1, <2>2 DEF IInv, TypeOK, Listened, OneEach, BadNeverReachesPrimary, Stop
    <2>5. QED
      BY <2>3, <2>4 DEF IInv
  <1>4. QED
    BY <1>1, <1>2, <1>3

LEMMA FinishKeeps ==
  ASSUME IInv, NEW x \in sessions, Finish(x)
  PROVE  IInv'
  <1>0. TypeOK /\ Listened /\ OneEach
    BY DEF IInv
  <1>1. /\ x.node \in Nodes /\ x.cmd \in {"deploy", "rollback"} /\ x.by \in Clients \cup {NoClient}
        /\ x.ver \in Versions \cup {NoVersion}
    BY <1>0 DEF TypeOK
  <1>2. live' \in [Nodes -> Versions \cup {NoVersion}] /\ idle' \in [Nodes -> Versions \cup {NoVersion}]
    BY <1>0, <1>1 DEF Finish, Succeed, Refuse, FailAfterFlip, DieAlone, Swap, Target, nodeVars, TypeOK
  <1>3. \E ok \in BOOLEAN : Report(x, ok) /\ (ok => Healthy(x))
    BY DEF Finish, Succeed, Refuse, FailAfterFlip, DieAlone
  <1>4. sessions' = sessions \ {x} /\ UNCHANGED <<calm, habits>>
    BY <1>3 DEF Report
  <1>5. x.cmd = "deploy" /\ Healthy(x) => x.ver \notin Bad
    BY DEF Healthy, Target
  <1>6. CASE x.by = NoClient
    <2>1. UNCHANGED <<pc, job, left, done>>
      BY <1>3, <1>6 DEF Report, clientVars
    <2>2. QED
      BY <1>0, <1>2, <1>4, <1>6, <2>1 DEF IInv, TypeOK, Listened, OneEach, Accounted, DoneIsGood, BadNeverReachesPrimary
  <1>7. CASE x.by # NoClient
    <2> DEFINE c == x.by
    <2>1. c \in Clients /\ pc[c] = "wait" /\ x.node \in left[c] /\ job[c] = [cmd |-> x.cmd, ver |-> x.ver]
      BY <1>0, <1>1, <1>7 DEF Listened
    <2>2. \A y \in sessions' : y.by # c
      BY <1>0, <1>4, <1>7 DEF OneEach
    <2>3. CASE Stop(c)
      BY <1>0, <1>2, <1>4, <2>1, <2>2, <2>3 DEF IInv, TypeOK, Listened, OneEach, Accounted, DoneIsGood, BadNeverReachesPrimary, Stop
    <2>4. CASE ~Stop(c)
      <3>1. /\ left' = [left EXCEPT ![c] = @ \ {x.node}]
            /\ done' = [done EXCEPT ![c] = @ \cup {x.node}]
            /\ pc' = [pc EXCEPT ![c] = IF left[c] = {x.node} THEN "ok" ELSE First(x.cmd)]
            /\ UNCHANGED job /\ Healthy(x)
        BY <1>3, <1>7, <2>4 DEF Report
      <3>2. First(x.cmd) \in {"upload", "switch"}
        BY DEF First
      <3>3. TypeOK'
        BY <1>0, <1>1, <1>2, <1>4, <2>1, <3>1, <3>2 DEF TypeOK
      <3>4. Listened' /\ OneEach' /\ BadNeverReachesPrimary'
        BY <1>0, <1>4, <2>1, <2>2, <3>1 DEF IInv, TypeOK, Listened, OneEach, BadNeverReachesPrimary
      <3>5. Accounted'
        BY <1>0, <1>1, <1>4, <2>1, <3>1 DEF IInv, TypeOK, Accounted
      <3>6. DoneIsGood'
        BY <1>0, <1>5, <2>1, <3>1 DEF IInv, TypeOK, DoneIsGood
      <3>7. QED
        BY <3>3, <3>4, <3>5, <3>6 DEF IInv
    <2>5. QED
      BY <2>3, <2>4
  <1>8. QED
    BY <1>6, <1>7

LEMMA NextKeepsIInv == IInv /\ [Next]_vars => IInv'
  <1> SUFFICES ASSUME IInv, [Next]_vars PROVE IInv'
    OBVIOUS
  <1>1. CASE UNCHANGED vars
    BY <1>1 DEF vars, IInv, TypeOK, Listened, OneEach, Accounted, DoneIsGood, BadNeverReachesPrimary
  <1>2. CASE CalmDown
    BY <1>2 DEF CalmDown, nodeVars, clientVars, IInv, TypeOK, Listened, OneEach, Accounted, DoneIsGood, BadNeverReachesPrimary
  <1>3. QED
    BY <1>1, <1>2, StartKeeps, ClientKeeps, FinishKeeps DEF Next

LEMMA Inductive == Spec => []IInv
  BY InitEstablishesIInv, NextKeepsIInv, PTL DEF Spec

\* Releases, sessions and clients hold values of their kind.
THEOREM RolloutTypeCorrect == Spec => []TypeOK
  <1>1. IInv => TypeOK
    BY DEF IInv
  <1>2. QED
    BY Inductive, <1>1, PTL

\* However runs overlap, fail and lose their sessions, no deploy of a version a
\* replica would have refused is started on the primary.
THEOREM PrimaryIsSpared == Spec => []BadNeverReachesPrimary
  <1>1. IInv => BadNeverReachesPrimary
    BY DEF IInv
  <1>2. QED
    BY Inductive, <1>1, PTL
-----------------------------------------------------------------------------
(* Runs that do not overlap. *)

\* The end of a session leaves every node it did not run on as it was, and what
\* it reports as switched serves its version.
LEMMA FinishServes ==
  ASSUME IInv, Serial, NEW x \in sessions, Finish(x)
  PROVE  /\ Serial'
         /\ \A c \in Clients : pc[c] # "ok" /\ pc'[c] = "ok" /\ job[c].cmd = "deploy" =>
              \A n \in done'[c] : live'[n] = job[c].ver
  <1>0. TypeOK /\ Listened
    BY DEF IInv
  <1>1. x.node \in Nodes /\ sessions' = sessions \ {x} /\ \A n \in Nodes : n # x.node => live'[n] = live[n]
    BY <1>0 DEF Finish, Succeed, Refuse, FailAfterFlip, DieAlone, Report, Swap, nodeVars, TypeOK
  <1>2. OnePerNode' /\ ~Locked(x.node)'
    BY <1>1 DEF Serial, OnePerNode, Locked
  <1>3. \A n \in Nodes : ~Locked(n) => ~Locked(n)' /\ n # x.node
    BY <1>1 DEF Locked
  <1>4. CASE UNCHANGED <<job, done>> /\ \A c \in Clients : pc'[c] \in {pc[c], "failed"}
    <2>1. Alone'
      BY <1>4 DEF Serial, Alone
    <2>2. DoneServed'
      BY <1>0, <1>1, <1>3, <1>4 DEF Serial, DoneServed, TypeOK
    <2>3. QED
      BY <1>2, <1>4, <2>1, <2>2 DEF Serial
  <1>5. CASE Succeed(x) /\ x.by # NoClient
    <2> DEFINE c == x.by
    <2>1. c \in Clients /\ pc[c] = "wait" /\ job[c] = [cmd |-> x.cmd, ver |-> x.ver]
      BY <1>0, <1>5 DEF Listened, TypeOK
    <2>2. /\ done' = [done EXCEPT ![c] = @ \cup {x.node}] /\ UNCHANGED job
          /\ pc' = [pc EXCEPT ![c] = IF left[c] = {x.node} THEN "ok" ELSE First(x.cmd)]
      BY <1>5 DEF Succeed, Report, Stop
    <2>3. \A d \in Clients : d # c => pc'[d] = pc[d] /\ pc[d] \notin Running
      BY <1>0, <2>1, <2>2 DEF TypeOK, Serial, Alone
    <2>4. Alone'
      BY <2>3 DEF Alone
    <2>5. x.cmd = "deploy" => live'[x.node] = x.ver
      BY <1>0, <1>1, <1>5 DEF Succeed, Swap, Target, TypeOK
    <2>6. job[c].cmd = "deploy" => \A n \in done'[c] : live'[n] = job[c].ver /\ ~Locked(n)'
      BY <1>0, <1>1, <1>2, <1>3, <2>1, <2>2, <2>5 DEF Serial, DoneServed, TypeOK
    <2>7. DoneServed'
      BY <1>0, <2>2, <2>3, <2>6 DEF DoneServed, TypeOK
    <2>8. QED
      BY <1>2, <2>3, <2>4, <2>6, <2>7 DEF Serial
  <1>6. QED
    <2>1. CASE x.by = NoClient
      BY <1>4, <2>1 DEF Finish, Succeed, Refuse, FailAfterFlip, DieAlone, Report, clientVars
    <2>2. CASE x.by # NoClient /\ Stop(x.by)
      <3>1. UNCHANGED <<job, done>> /\ \A c \in Clients : pc'[c] \in {pc[c], "failed"}
        BY <1>0, <2>2 DEF Stop, TypeOK
      <3>2. QED
        BY <1>4, <3>1
    <2>3. CASE x.by # NoClient /\ ~Stop(x.by)
      BY <1>5, <2>3 DEF Finish, Succeed, Refuse, FailAfterFlip, DieAlone, Report
    <2>4. QED
      BY <2>1, <2>2, <2>3

LEMMA SerialNext ==
  ASSUME "serial" \in habits, IInv, Serial, [Next]_vars
  PROVE  Serial'
  <1>0. TypeOK /\ Listened /\ Accounted
    BY DEF IInv
  <1>1. CASE UNCHANGED <<live, sessions, pc, job, done>>
    BY <1>1 DEF Serial, Alone, OnePerNode, DoneServed, Locked
  <1>2. CASE CalmDown \/ UNCHANGED vars
    BY <1>1, <1>2 DEF CalmDown, nodeVars, clientVars, vars
  <1>3. ASSUME NEW c \in Clients, RunDeploy(c) \/ RunRollback(c)
        PROVE  Serial'
    <2>1. PICK cmd, v, only : Start(c, cmd, v, only)
      BY <1>3 DEF RunDeploy, RunRollback
    <2>2. /\ UNCHANGED <<live, sessions>> /\ done'[c] = {} /\ \A d \in Clients : pc[d] \notin Running
          /\ \A d \in Clients : d # c => pc'[d] = pc[d]
      BY <1>0, <2>1 DEF Start, nodeVars, TypeOK
    <2>3. QED
      BY <2>2 DEF Serial, Alone, OnePerNode, DoneServed
  <1>4. ASSUME NEW c \in Clients, Upload(c) \/ Switch(c) \/ Disconnect(c)
        PROVE  Serial'
    <2>1. UNCHANGED <<live, job, left, done>> /\ pc[c] \in Running
      BY <1>4 DEF Upload, Switch, Disconnect, Stop, nodeVars
    <2>2. \A d \in Clients : d # c => pc'[d] = pc[d]
      BY <1>0, <1>4 DEF Upload, Switch, Disconnect, Stop, TypeOK
    <2>3. Alone' /\ \A d \in Clients : pc'[d] \in Running => d = c
      BY <2>1, <2>2 DEF Serial, Alone
    <2>4. CASE UNCHANGED sessions
      BY <2>1, <2>2, <2>3, <2>4 DEF Serial, OnePerNode, DoneServed, Locked
    <2>5. ASSUME NEW n \in left[c], ~Locked(n),
                 sessions' = sessions \cup {[node |-> n, cmd |-> job[c].cmd, ver |-> job[c].ver, by |-> c]}
          PROVE  Serial'
      <3>1. n \notin done[c]
        BY <1>0, <2>1, <2>5 DEF Accounted
      <3>2. OnePerNode'
        BY <2>5 DEF Serial, OnePerNode, Locked
      <3>3. DoneServed'
        BY <2>1, <2>3, <2>5, <3>1 DEF Serial, DoneServed, Locked
      <3>4. QED
        BY <2>3, <3>2, <3>3 DEF Serial
    <2>6. CASE Disconnect(c)
      <3> DEFINE lost(x) == IF x.by = c THEN [x EXCEPT !.by = NoClient] ELSE x
      <3>1. sessions' = {lost(x) : x \in sessions}
        BY <2>6 DEF Disconnect
      <3>2. \A x \in sessions : lost(x).node = x.node
        BY <1>0 DEF TypeOK
      <3> HIDE DEF lost
      <3>3. OnePerNode'
        BY <3>1, <3>2 DEF Serial, OnePerNode
      <3>4. DoneServed'
        BY <2>1, <2>2, <2>3, <3>1, <3>2 DEF Serial, DoneServed, Locked
      <3>5. QED
        BY <2>3, <3>3, <3>4 DEF Serial
    <2>7. QED
      BY <1>4, <2>4, <2>5, <2>6 DEF Upload, Switch, Turn
  <1>5. ASSUME NEW x \in sessions, Finish(x)
        PROVE  Serial'
    BY <1>5, FinishServes DEF Serial
  <1>6. QED
    BY <1>2, <1>3, <1>4, <1>5 DEF Next

\* How operators work is settled at the start.
LEMMA HabitsNeverChange == [Next]_vars => habits' = habits
  BY DEF Next, RunDeploy, RunRollback, Start, Upload, Switch, Disconnect, Finish, Succeed, Refuse, FailAfterFlip, DieAlone, Report, CalmDown, vars

LEMMA SerialAlways == Spec => [](IInv /\ ("serial" \in habits => Serial))
  <1>1. Init => Serial
    BY DEF Init, Serial, Alone, OnePerNode, DoneServed
  <1>2. IInv /\ ("serial" \in habits => Serial) /\ [Next]_vars => ("serial" \in habits => Serial)'
    BY SerialNext, HabitsNeverChange
  <1>3. QED
    BY <1>1, <1>2, Inductive, PTL DEF Spec

\* If runs do not overlap, a run that reports success leaves every node it
\* selected on its version, whatever earlier runs left behind.
THEOREM SuccessIsServed == Spec => SuccessMeansServed
  <1>1. ASSUME "serial" \in habits, IInv, Serial, [Next]_vars, NEW c \in Clients,
               pc[c] # "ok", pc'[c] = "ok", job[c].cmd = "deploy"
        PROVE  \A n \in done'[c] : live'[n] = job[c].ver
    <2>1. TypeOK
      BY <1>1 DEF IInv
    <2>2. CASE \E x \in sessions : Finish(x)
      BY <1>1, <2>2, FinishServes
    <2>3. ASSUME NEW d \in Clients, RunDeploy(d) \/ RunRollback(d) \/ Upload(d) \/ Switch(d) \/ Disconnect(d)
          PROVE  FALSE
      BY <1>1, <2>1, <2>3 DEF RunDeploy, RunRollback, Start, First, Upload, Switch, Disconnect, Stop, TypeOK
    <2>4. QED
      BY <1>1, <2>2, <2>3 DEF Next, CalmDown, clientVars, vars
  <1>2. IInv /\ ("serial" \in habits => Serial) /\ [Next]_vars =>
          [\A c \in Clients :
             "serial" \in habits /\ pc[c] # "ok" /\ pc'[c] = "ok" /\ job[c].cmd = "deploy" =>
               \A n \in done'[c] : live'[n] = job[c].ver]_vars
    BY <1>1
  <1>3. QED
    BY <1>2, SerialAlways, PTL DEF Spec, SuccessMeansServed

====================================================================================
