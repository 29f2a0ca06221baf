----------------------------- MODULE ReconcileProofs -----------------------------
(***************************************************************************)
(* Proofs about Reconcile, for every set of nodes, servers, configurations *)
(* and fault models.                                                       *)
(***************************************************************************)
EXTENDS Reconcile, FiniteSetTheorems, TLAPS

USE NodesAssumption, ServersAssumption, TreesAssumption DEF None

-----------------------------------------------------------------------------
(* Types. *)

LEMMA RevsTyped ==
  ASSUME TypeOK PROVE Rev \in Revs /\ NoRev \in Revs
  BY DEF TypeOK, Rev, NoRev, Revs

LEMMA FreshTyped == NoServer \in Machines /\ Fresh \in NodeStates
  <1>1. NoRev \in Revs
    BY DEF NoRev, Revs
  <1>2. QED
    BY <1>1 DEF NoServer, Machines, Fresh, NodeStates

LEMMA WithTyped ==
  ASSUME TypeOK, NEW n \in Nodes, NEW node \in NodeStates
  PROVE  With(n, node) \in StateFiles
  BY DEF TypeOK, With, StateFiles

LEMMA NodeTyped ==
  ASSUME TypeOK, NEW n \in Nodes
  PROVE  /\ mem.nodes[n] \in NodeStates
         /\ mem.nodes[n].vps \in Servers \cup {None}
         /\ mem.nodes[n].ip \in Servers \cup {None}
         /\ \A v \in Servers \cup {None} :
              /\ [mem.nodes[n] EXCEPT !.vps = v] \in NodeStates
              /\ [mem.nodes[n] EXCEPT !.pending = v] \in NodeStates
              /\ [mem.nodes[n] EXCEPT !.vps = v, !.pending = None] \in NodeStates
              /\ [mem.nodes[n] EXCEPT !.ip = v] \in NodeStates
         /\ [mem.nodes[n] EXCEPT !.pinned = FALSE, !.captured = FALSE] \in NodeStates
         /\ [mem.nodes[n] EXCEPT !.pinned = TRUE] \in NodeStates
         /\ [mem.nodes[n] EXCEPT !.captured = TRUE] \in NodeStates
         /\ [mem.nodes[n] EXCEPT !.applied = Rev] \in NodeStates
  <1>1. mem.nodes[n] \in NodeStates
    BY DEF TypeOK, StateFiles
  <1>2. QED
    BY <1>1, RevsTyped DEF NodeStates

LEMMA SeenTyped ==
  ASSUME TypeOK, NEW n \in Nodes PROVE Seen(n) \in Servers \cup {None}
  <1>1. file.nodes[n].vps \in Servers \cup {None}
    BY DEF TypeOK, StateFiles, NodeStates
  <1>2. Adoptable(n) # {} => (CHOOSE v \in Adoptable(n) : TRUE) \in Adoptable(n)
    OBVIOUS
  <1>3. Adoptable(n) \subseteq Servers
    BY DEF Adoptable
  <1>4. QED
    BY <1>1, <1>2, <1>3 DEF Seen

LEMMA PlanTyped ==
  ASSUME TypeOK
  PROVE  \A x \in Plan : /\ x.node \in Nodes
                         /\ x.vps \in {Seen(x.node), None}
  <1>1. ASSUME NEW acts, NEW n, NEW x \in Steps(acts, n)
        PROVE  x.node = n /\ x.vps \in {Seen(n), None}
    BY <1>1 DEF Steps
  <1> SUFFICES ASSUME NEW x \in Plan PROVE x.node \in Nodes /\ x.vps \in {Seen(x.node), None}
    OBVIOUS
  <1>2. CASE x \in UNION {Steps(Provisioning(n) \cup Deploying(n), n) : n \in Nodes}
    <2>1. PICK n \in Nodes : x \in Steps(Provisioning(n) \cup Deploying(n), n)
      BY <1>2
    <2>2. QED
      BY <1>1, <2>1
  <1>3. CASE x \in Steps(When(CertPending, "cert"), Primary)
    BY <1>1, <1>3
  <1>4. CASE x \in Steps(When(token /\ ~DnsConverged, "dns"), Primary)
    BY <1>1, <1>4
  <1>5. QED
    BY <1>2, <1>3, <1>4 DEF Plan

LEMMA InitTyped == Init => TypeOK
  <1> SUFFICES ASSUME Init PROVE TypeOK
    OBVIOUS
  <1>1. vm \in [Servers -> Machines] /\ file \in StateFiles /\ mem \in StateFiles
    BY FreshTyped DEF Init, StateFiles
  <1>2. QED
    BY <1>1 DEF Init, TypeOK

\* What a step may do to a machine.
LEMMA MachineTyped ==
  ASSUME TypeOK, NEW v \in Servers
  PROVE  /\ vm[v] \in Machines
         /\ vm[v].disk \in Disks \cup {None}
         /\ {vm[v].pushed, vm[v].active, vm[v].boot} \subseteq Revs
         /\ \A st \in {"initial", "installing"} : [vm[v] EXCEPT !.state = st] \in Machines
         /\ \A n \in Nodes \cup {None} : [vm[v] EXCEPT !.state = "installing", !.name = n] \in Machines
         /\ vm[v].for \in Nodes \cup {None}
         /\ [vm[v] EXCEPT !.wall = TRUE] \in Machines
         /\ [vm[v] EXCEPT !.pushed = Rev, !.cert = @ \/ token] \in Machines
         /\ [vm[v] EXCEPT !.active = vm[v].pushed] \in Machines
         /\ [vm[v] EXCEPT !.active = vm[v].boot] \in Machines
         /\ [vm[v] EXCEPT !.active = vm[v].pushed, !.boot = vm[v].pushed] \in Machines
         /\ \A d \in Disks : [vm[v] EXCEPT !.state = "running", !.disk = d, !.cert = FALSE,
                                            !.pushed = NoRev, !.active = NoRev, !.boot = NoRev] \in Machines
         /\ \A n \in Nodes, m \in Nodes \cup {None}, st \in {"paid", "installing"} :
              [NoServer EXCEPT !.state = st, !.for = n, !.name = m] \in Machines
  <1>1. vm[v] \in Machines
    BY DEF TypeOK
  <1>2. token \in BOOLEAN
    BY DEF TypeOK
  <1>3. [vm[v] EXCEPT !.pushed = Rev, !.cert = @ \/ token] \in Machines
    <2>1. vm[v].cert \in BOOLEAN
      BY <1>1 DEF Machines
    <2>2. (vm[v].cert \/ token) \in BOOLEAN
      OBVIOUS
    <2>3. \A b \in BOOLEAN : [vm[v] EXCEPT !.pushed = Rev, !.cert = b] \in Machines
      BY <1>1, RevsTyped DEF Machines
    <2>4. QED
      BY <2>2, <2>3
  <1>4. \A d \in Disks : [vm[v] EXCEPT !.state = "running", !.disk = d, !.cert = FALSE,
                                      !.pushed = NoRev, !.active = NoRev, !.boot = NoRev] \in Machines
    BY <1>1, RevsTyped DEF Machines
  <1>5. \A n \in Nodes, m \in Nodes \cup {None}, st \in {"paid", "installing"} :
          [NoServer EXCEPT !.state = st, !.for = n, !.name = m] \in Machines
    BY FreshTyped DEF Machines
  <1>6. \A n \in Nodes \cup {None} : [vm[v] EXCEPT !.state = "installing", !.name = n] \in Machines
    BY <1>1 DEF Machines
  <1>7. /\ vm[v].disk \in Disks \cup {None}
        /\ {vm[v].pushed, vm[v].active, vm[v].boot} \subseteq Revs
        /\ vm[v].for \in Nodes \cup {None}
        /\ \A st \in {"initial", "installing"} : [vm[v] EXCEPT !.state = st] \in Machines
        /\ [vm[v] EXCEPT !.wall = TRUE] \in Machines
    BY <1>1 DEF Machines
  <1>8. /\ [vm[v] EXCEPT !.active = vm[v].pushed] \in Machines
        /\ [vm[v] EXCEPT !.active = vm[v].boot] \in Machines
        /\ [vm[v] EXCEPT !.active = vm[v].pushed, !.boot = vm[v].pushed] \in Machines
    BY <1>1 DEF Machines
  <1>9. QED
    BY <1>1, <1>3, <1>4, <1>5, <1>6, <1>7, <1>8

LEMMA UpTyped == ASSUME TypeOK, Up PROVE TypeOK'
  <1>1. \A x \in Plan : x.node \in Nodes /\ x.vps \in Servers \cup {None}
    BY PlanTyped, SeenTyped
  <1>2. QED
    BY <1>1 DEF Up, TypeOK, infraVars, secretVars

LEMMA BookkeepingTyped ==
  ASSUME TypeOK, Save \/ SaveMarker \/ EnsureCert \/ UpsertDns \/ Raise \/ Kill \/ EditTree
                 \/ AddToken \/ CalmDown
  PROVE  TypeOK'
  <1>1. CASE Save \/ SaveMarker
    BY <1>1 DEF Save, SaveMarker, TypeOK, infraVars, secretVars
  <1>2. CASE EnsureCert
    BY <1>2 DEF EnsureCert, Return, TypeOK, infraVars, secretVars
  <1>3. CASE UpsertDns
    <2>1. mem.nodes[Primary].ip \in Servers \cup {None} /\ [mem EXCEPT !.dns = TRUE] \in StateFiles
      BY NodeTyped DEF TypeOK, StateFiles
    <2>2. QED
      BY <1>3, <2>1 DEF UpsertDns, Return, TypeOK, infraVars, secretVars
  <1>4. CASE Raise \/ Kill
    BY <1>4 DEF Raise, Kill, End, TypeOK, infraVars, secretVars
  <1>5. CASE EditTree \/ AddToken \/ CalmDown
    BY <1>5 DEF EditTree, AddToken, CalmDown, TypeOK, infraVars, secretVars, runVars
  <1>6. QED
    BY <1>1, <1>2, <1>3, <1>4, <1>5

LEMMA WorkTyped ==
  ASSUME TypeOK, NEW n \in Nodes, Work(n) PROVE TypeOK'
  <1> USE DEF infraVars, secretVars, runVars
  <1> DEFINE s == mem.nodes[n]
  <1>1. CASE Purchase(n)
    <2>1. PICK v \in Servers : /\ Bought(v, n, "installing", n)
                               /\ \/ Return(With(n, [s EXCEPT !.vps = v]))
                                  \/ End /\ UNCHANGED <<file, calm, faults>>
      BY <1>1 DEF Purchase
    <2>2. vm' \in [Servers -> Machines]
      BY <2>1, MachineTyped DEF Bought, TypeOK
    <2>3. With(n, [s EXCEPT !.vps = v]) \in StateFiles
      BY WithTyped, NodeTyped
    <2>4. QED
      BY <1>1, <2>1, <2>2, <2>3 DEF Purchase, Return, End, TypeOK
  <1>2. CASE PurchasePending(n)
    <2>1. PICK v \in Servers : /\ Bought(v, n, "paid", None)
                               /\ \/ /\ mem' = With(n, [s EXCEPT !.pending = v])
                                     /\ pc' = "marker"
                                     /\ UNCHANGED todo
                                  \/ End
      BY <1>2 DEF PurchasePending
    <2>2. vm' \in [Servers -> Machines]
      BY <2>1, MachineTyped DEF Bought, TypeOK
    <2>3. With(n, [s EXCEPT !.pending = v]) \in StateFiles
      BY WithTyped, NodeTyped
    <2>4. QED
      BY <1>2, <2>1, <2>2, <2>3 DEF PurchasePending, End, TypeOK
  <1>3. CASE Adopt(n)
    <2>1. PICK x \in todo : Return(With(n, [s EXCEPT !.vps = x.vps, !.pending = None]))
      BY <1>3 DEF Adopt
    <2>2. With(n, [s EXCEPT !.vps = x.vps, !.pending = None]) \in StateFiles
      BY WithTyped, NodeTyped DEF TypeOK
    <2>3. QED
      BY <1>3, <2>1, <2>2 DEF Adopt, Return, TypeOK
  <1>4. CASE Setup(n)
    <2>1. vm' \in [Servers -> Machines]
      BY <1>4, MachineTyped DEF Setup, TypeOK
    <2>2. QED
      BY <1>4, <2>1 DEF Setup, TypeOK
  <1>5. CASE Unpin(n)
    <2>1. With(n, [s EXCEPT !.pinned = FALSE, !.captured = FALSE]) \in StateFiles
      BY WithTyped, NodeTyped
    <2>2. pin' \in [Servers -> {"none", "current", "stale"}]
      BY <1>5 DEF Unpin, TypeOK
    <2>3. QED
      BY <1>5, <2>1, <2>2 DEF Unpin, Return, TypeOK
  <1>6. CASE WaitRunning(n)
    <2>1. With(n, [s EXCEPT !.ip = s.vps]) \in StateFiles
      BY WithTyped, NodeTyped
    <2>2. QED
      BY <1>6, <2>1 DEF WaitRunning, Return, TypeOK
  <1>7. CASE Firewall(n)
    <2>1. vm' \in [Servers -> Machines]
      BY <1>7, MachineTyped DEF Firewall, TypeOK
    <2>2. QED
      BY <1>7, <2>1 DEF Firewall, Return, TypeOK
  <1>8. CASE Pin(n)
    <2>1. With(n, [s EXCEPT !.pinned = TRUE]) \in StateFiles
      BY WithTyped, NodeTyped
    <2>2. pin' \in [Servers -> {"none", "current", "stale"}]
      BY <1>8 DEF Pin, TypeOK
    <2>3. QED
      BY <1>8, <2>1, <2>2 DEF Pin, Return, TypeOK
  <1>9. CASE Capture(n)
    <2>1. With(n, [s EXCEPT !.captured = TRUE]) \in StateFiles
      BY WithTyped, NodeTyped
    <2>2. s.ip \in Servers /\ hardware' = [hardware EXCEPT ![n] = vm[s.ip].disk]
      BY <1>9, NodeTyped DEF Capture, Reached
    <2>3. hardware' \in [Nodes -> Disks \cup {None}]
      BY <2>2, MachineTyped DEF TypeOK
    <2>4. QED
      BY <1>9, <2>1, <2>3 DEF Capture, Return, TypeOK
  <1>10. CASE Push(n)
    <2>1. vm' \in [Servers -> Machines]
      BY <1>10, MachineTyped, NodeTyped DEF Push, Reached, TypeOK
    <2>2. QED
      BY <1>10, <2>1 DEF Push, Return, TypeOK
  <1>11. CASE Test(n)
    <2>1. vm' \in [Servers -> Machines]
      BY <1>11, MachineTyped, NodeTyped DEF Test, Reached, TypeOK
    <2>2. QED
      BY <1>11, <2>1 DEF Test, TypeOK
  <1>12. CASE Probe(n)
    BY <1>12 DEF Probe, TypeOK
  <1>13. CASE Switch(n)
    <2>1. With(n, [s EXCEPT !.applied = Rev]) \in StateFiles
      BY WithTyped, NodeTyped
    <2>2. vm' \in [Servers -> Machines]
      BY <1>13, MachineTyped, NodeTyped DEF Switch, Reached, TypeOK
    <2>3. QED
      BY <1>13, <2>1, <2>2 DEF Switch, Return, TypeOK
  <1>14. QED
    BY <1>1, <1>2, <1>3, <1>4, <1>5, <1>6, <1>7, <1>8, <1>9, <1>10, <1>11, <1>12, <1>13 DEF Work

LEMMA MachineStepTyped ==
  ASSUME TypeOK, NEW v \in Servers, Machine(v) PROVE TypeOK'
  <1> USE DEF infraVars, secretVars, runVars
  <1>1. vm' \in [Servers -> Machines]
    <2>1. CASE Provision(v)
      <3>1. vm \in [Servers -> Machines]
        BY DEF TypeOK
      <3>2. \/ vm' = [vm EXCEPT ![v] = [vm[v] EXCEPT !.state = "initial"]]
            \/ vm' = [vm EXCEPT ![v] = [vm[v] EXCEPT !.state = "installing", !.name = vm[v].for]]
        BY <2>1, <3>1 DEF Provision
      <3>3. CASE vm' = [vm EXCEPT ![v] = [vm[v] EXCEPT !.state = "initial"]]
        BY <3>1, <3>3, MachineTyped
      <3>4. CASE vm' = [vm EXCEPT ![v] = [vm[v] EXCEPT !.state = "installing", !.name = vm[v].for]]
        <4>1. [vm[v] EXCEPT !.state = "installing", !.name = vm[v].for] \in Machines
          BY MachineTyped
        <4>2. QED
          BY <3>1, <3>4, <4>1
      <3>5. QED
        BY <3>2, <3>3, <3>4
    <2>2. CASE Install(v)
      <3>1. PICK d \in Disks :
              vm' = [vm EXCEPT ![v] = [vm[v] EXCEPT !.state = "running", !.disk = d, !.cert = FALSE,
                                                    !.pushed = NoRev, !.active = NoRev, !.boot = NoRev]]
        BY <2>2 DEF Install, TypeOK
      <3>2. QED
        BY <3>1, MachineTyped DEF TypeOK
    <2>3. CASE Reset(v)
      BY <2>3, MachineTyped DEF Reset, TypeOK
    <2>4. CASE Reboot(v)
      BY <2>4, MachineTyped DEF Reboot, TypeOK
    <2>5. CASE ForgetKey(v)
      BY <2>5 DEF ForgetKey, TypeOK
    <2>6. QED
      BY <2>1, <2>2, <2>3, <2>4, <2>5 DEF Machine
  <1>2. pin' \in [Servers -> {"none", "current", "stale"}]
    BY DEF Machine, Provision, Install, Reset, Reboot, ForgetKey, TypeOK
  <1>3. QED
    BY <1>1, <1>2 DEF Machine, Provision, Install, Reset, Reboot, ForgetKey, TypeOK

LEMMA TypesKept == ASSUME TypeOK, [Next]_vars PROVE TypeOK'
  <1>1. CASE UNCHANGED vars
    BY <1>1 DEF vars, infraVars, secretVars, runVars, TypeOK
  <1>2. CASE Next
    BY <1>2, UpTyped, BookkeepingTyped, WorkTyped, MachineStepTyped DEF Next, Run
  <1>3. QED
    BY <1>1, <1>2

\* Whatever happens, servers, the state file and the run hold values of their kind.
THEOREM ReconcileTypeCorrect == Spec => []TypeOK
  BY InitTyped, TypesKept, PTL DEF Spec

-----------------------------------------------------------------------------
(* Whose server it is. *)

\* What is recorded or planned for a node was bought for it, and a hostname is
\* only given to the server of the node it names.
Of(v, n) == v # None => vm[v].state # "none" /\ vm[v].for = n
OwnIn(st) == \A n \in Nodes : Of(st.nodes[n].vps, n) /\ Of(st.nodes[n].pending, n)
Names == \A v \in Servers : vm[v].name # None => vm[v].name = vm[v].for
Planned == \A x \in todo : Of(x.vps, x.node)

OwnInv == TypeOK /\ Names /\ OwnIn(file) /\ OwnIn(mem) /\ Planned

\* A server, once bought, stays the server of the node it was bought for, and
\* once it is listed under a hostname it stays so.
Kept(v) ==
  vm[v].state # "none" =>
    /\ vm'[v].state # "none" /\ vm'[v].for = vm[v].for
    /\ Listed(v) => vm'[v].state \in {"initial", "installing", "running"}
    /\ vm[v].name # None => vm'[v].name = vm[v].name

\* No server is bought.
NoneBought == \A v \in Servers : vm'[v].for = vm[v].for

\* The same as a step of one machine.
Turned(v) ==
  /\ \A w \in Servers \ {v} : vm'[w] = vm[w]
  /\ vm'[v].state # "none" /\ vm'[v].for = vm[v].for
  /\ Listed(v) => vm'[v].state \in {"initial", "installing", "running"}
  /\ vm'[v].name \in {vm[v].name, vm[v].for}

LEMMA TurnedIsKept ==
  ASSUME OwnInv, NEW v \in Servers, Turned(v)
  PROVE  (\A w \in Servers : Kept(w)) /\ Names' /\ NoneBought
  BY DEF OwnInv, Turned, Kept, Names, Listed, NoneBought

LEMMA SameIsKept ==
  ASSUME OwnInv, UNCHANGED vm PROVE (\A w \in Servers : Kept(w)) /\ Names' /\ NoneBought
  BY DEF OwnInv, Kept, Names, Listed, NoneBought

LEMMA NodeServer ==
  ASSUME OwnInv, NEW n \in Nodes
  PROVE  /\ mem.nodes[n].vps \in Servers \cup {None} /\ mem.nodes[n].ip \in Servers \cup {None}
         /\ mem.nodes[n].vps # None => vm[mem.nodes[n].vps].for = n /\ vm[mem.nodes[n].vps].state # "none"
  BY NodeTyped DEF OwnInv, OwnIn, Of

LEMMA WorkKeepsServers ==
  ASSUME OwnInv, NEW n \in Nodes, Work(n)
  PROVE  (\A w \in Servers : Kept(w)) /\ Names' /\ (NoneBought \/ Purchase(n) \/ PurchasePending(n))
  <1> USE DEF infraVars, secretVars
  <1>t. vm \in [Servers -> Machines] /\ \A v \in Servers : vm[v] \in Machines
    BY DEF OwnInv, TypeOK
  <1>1. CASE Purchase(n) \/ PurchasePending(n)
    <2>1. PICK v \in Servers, st \in {"installing", "paid"}, m \in {n, None} :
            NextServer(v) /\ Bought(v, n, st, m)
      BY <1>1 DEF Purchase, PurchasePending
    <2>2. /\ vm[v].state = "none"
          /\ vm' = [vm EXCEPT ![v] = [NoServer EXCEPT !.state = st, !.for = n, !.name = m]]
      BY <2>1 DEF NextServer, Bought
    <2>3. vm'[v].state # "none" /\ vm'[v].for = n /\ vm'[v].name \in {n, None} /\ \A w \in Servers \ {v} : vm'[w] = vm[w]
      BY <1>t, <2>2 DEF NoServer
    <2>4. QED
      BY <1>1, <2>2, <2>3 DEF Kept, Names, OwnInv, Listed
  <1>2. CASE Setup(n)
    <2>1. mem.nodes[n].vps \in Servers => Turned(mem.nodes[n].vps)
      <3> DEFINE v == mem.nodes[n].vps
      <3>1. vm' = [vm EXCEPT ![v] = [vm[v] EXCEPT !.state = "installing", !.name = n]]
        BY <1>2, <1>t DEF Setup
      <3>2. QED
        BY <3>1, <1>t, NodeServer DEF Turned, Machines, Listed
    <2>2. mem.nodes[n].vps = None => UNCHANGED vm
      BY <1>2, <1>t DEF Setup
    <2>3. QED
      BY <2>1, <2>2, TurnedIsKept, SameIsKept, NodeServer
  <1>3. CASE Firewall(n)
    <2>1. mem.nodes[n].vps \in Servers => Turned(mem.nodes[n].vps)
      BY <1>3, <1>t, NodeServer DEF Firewall, Turned, Machines, Listed
    <2>2. mem.nodes[n].vps = None => UNCHANGED vm
      BY <1>3, <1>t DEF Firewall
    <2>3. QED
      BY <2>1, <2>2, TurnedIsKept, SameIsKept, NodeServer
  <1>4. CASE Push(n) \/ Test(n) \/ Switch(n)
    <2>1. mem.nodes[n].ip \in Servers /\ vm[mem.nodes[n].ip].state = "running"
      BY <1>4, NodeServer DEF Push, Test, Switch, Reached, Answers
    <2> DEFINE v == mem.nodes[n].ip
    <2>2. /\ \A w \in Servers \ {v} : vm'[w] = vm[w]
          /\ vm'[v].state = vm[v].state /\ vm'[v].for = vm[v].for /\ vm'[v].name = vm[v].name
      <3>1. CASE Push(n)
        <4>1. vm' = [vm EXCEPT ![v] = [vm[v] EXCEPT !.pushed = Rev, !.cert = @ \/ token]]
          BY <3>1, <1>t DEF Push
        <4>2. QED
          BY <4>1, <1>t, <2>1 DEF Machines
      <3>2. CASE Test(n)
        BY <3>2, <1>t, <2>1 DEF Test, Machines
      <3>3. CASE Switch(n)
        <4>1. vm' = [vm EXCEPT ![v] = [vm[v] EXCEPT !.active = vm[v].pushed, !.boot = vm[v].pushed]]
          BY <3>3, <1>t DEF Switch
        <4>2. QED
          BY <4>1, <1>t, <2>1 DEF Machines
      <3>4. QED
        BY <1>4, <3>1, <3>2, <3>3
    <2>3. QED
      BY <2>1, <2>2, TurnedIsKept DEF Turned, Listed
  <1>5. CASE Adopt(n) \/ Unpin(n) \/ WaitRunning(n) \/ Pin(n) \/ Capture(n) \/ Probe(n)
    BY <1>5, SameIsKept DEF Adopt, Unpin, WaitRunning, Pin, Capture, Probe
  <1>6. QED
    BY <1>1, <1>2, <1>3, <1>4, <1>5 DEF Work

LEMMA MachineKeepsServers ==
  ASSUME OwnInv, NEW v \in Servers, Machine(v)
  PROVE  (\A w \in Servers : Kept(w)) /\ Names' /\ NoneBought
  <1>t. vm \in [Servers -> Machines] /\ \A w \in Servers : vm[w] \in Machines
    BY DEF OwnInv, TypeOK
  <1>1. CASE Provision(v) \/ Install(v) \/ Reset(v) \/ Reboot(v)
    <2>1. Turned(v)
      <3>1. CASE Provision(v)
        BY <3>1, <1>t DEF Provision, Turned, Machines, Listed
      <3>2. CASE Install(v)
        <4>1. PICK d \in Disks :
                vm' = [vm EXCEPT ![v] = [vm[v] EXCEPT !.state = "running", !.disk = d, !.cert = FALSE,
                                                      !.pushed = NoRev, !.active = NoRev, !.boot = NoRev]]
          BY <3>2, <1>t DEF Install
        <4>2. QED
          BY <4>1, <1>t DEF Turned, Machines, Listed
      <3>3. CASE Reset(v)
        BY <3>3, <1>t DEF Reset, Turned, Machines, Listed
      <3>4. CASE Reboot(v)
        BY <3>4, <1>t DEF Reboot, Turned, Machines, Listed
      <3>5. QED
        BY <1>1, <3>1, <3>2, <3>3, <3>4
    <2>2. QED
      BY <2>1, TurnedIsKept
  <1>2. CASE ForgetKey(v)
    BY <1>2, SameIsKept DEF ForgetKey
  <1>3. QED
    BY <1>1, <1>2 DEF Machine

LEMMA NextKeepsServers ==
  ASSUME OwnInv, [Next]_vars
  PROVE  /\ \A w \in Servers : Kept(w)
         /\ Names'
         /\ NoneBought \/ \E n \in Nodes : Purchase(n) \/ PurchasePending(n)
  <1>1. CASE Up \/ Save \/ SaveMarker \/ EnsureCert \/ UpsertDns \/ Raise \/ Kill \/ EditTree
             \/ AddToken \/ CalmDown \/ UNCHANGED vars
    BY <1>1, SameIsKept DEF Up, Save, SaveMarker, EnsureCert, UpsertDns, Raise, Kill, EditTree,
                            AddToken, CalmDown, vars
  <1>2. QED
    BY <1>1, WorkKeepsServers, MachineKeepsServers DEF Next, Run

\* What is known of a server stays true.
StillOf(v, n) == v # None => vm'[v].state # "none" /\ vm'[v].for = n

LEMMA OfKept ==
  ASSUME OwnInv, [Next]_vars, NEW v \in Servers \cup {None}, NEW n \in Nodes, Of(v, n)
  PROVE  StillOf(v, n)
  BY NextKeepsServers DEF Of, StillOf, Kept

LEMMA SeenIsOwn ==
  ASSUME OwnInv, NEW n \in Nodes PROVE Of(Seen(n), n)
  <1>1. CASE file.nodes[n].vps # None
    BY <1>1 DEF OwnInv, OwnIn, Seen
  <1>2. CASE file.nodes[n].vps = None /\ Adoptable(n) # {}
    <2>1. Seen(n) \in Adoptable(n)
      BY <1>2 DEF Seen
    <2>2. Seen(n) \in Servers /\ Listed(Seen(n))
      BY <2>1 DEF Adoptable
    <2>3. IF file.nodes[n].pending # None THEN Seen(n) = file.nodes[n].pending ELSE vm[Seen(n)].name = n
      BY <2>1 DEF Adoptable
    <2>4. vm[Seen(n)].for = n
      BY <2>2, <2>3 DEF OwnInv, OwnIn, Of, Names
    <2>5. QED
      BY <2>2, <2>4 DEF Of, Listed
  <1>3. CASE file.nodes[n].vps = None /\ Adoptable(n) = {}
    BY <1>3 DEF Seen, Of
  <1>4. QED
    BY <1>1, <1>2, <1>3

\* What is known of node n.
Known(n) == {file.nodes[n].vps, file.nodes[n].pending, mem.nodes[n].vps, mem.nodes[n].pending}

LEMMA KnownKept ==
  ASSUME OwnInv, [Next]_vars, NEW n \in Nodes, NEW v \in Known(n)
  PROVE  StillOf(v, n)
  <1>1. v \in Servers \cup {None}
    BY DEF OwnInv, TypeOK, StateFiles, NodeStates, Known
  <1>2. Of(v, n)
    BY DEF OwnInv, OwnIn, Known
  <1>3. QED
    BY <1>1, <1>2, OfKept

\* What makes a state file, and the whole state, hold servers of their nodes only.
LEMMA FileKept ==
  ASSUME \A n \in Nodes : StillOf(file'.nodes[n].vps, n) /\ StillOf(file'.nodes[n].pending, n)
  PROVE  OwnIn(file)'
  BY DEF OwnIn, Of, StillOf

LEMMA MemKept ==
  ASSUME \A n \in Nodes : StillOf(mem'.nodes[n].vps, n) /\ StillOf(mem'.nodes[n].pending, n)
  PROVE  OwnIn(mem)'
  BY DEF OwnIn, Of, StillOf

LEMMA PlannedKept ==
  ASSUME OwnInv, [Next]_vars, todo' \subseteq todo PROVE Planned'
  <1>1. \A x \in todo : x.node \in Nodes /\ x.vps \in Servers \cup {None} /\ Of(x.vps, x.node)
    BY DEF OwnInv, TypeOK, Planned
  <1>2. \A x \in todo : StillOf(x.vps, x.node)
    BY <1>1, OfKept
  <1>3. QED
    BY <1>2 DEF Planned, Of, StillOf

\* A step that records nothing new.
LEMMA NothingNew ==
  ASSUME OwnInv, [Next]_vars, file' \in {file, mem}, mem' \in {file, mem}, todo' \subseteq todo
  PROVE  OwnInv'
  <1>1. TypeOK' /\ Names' /\ Planned'
    BY TypesKept, NextKeepsServers, PlannedKept DEF OwnInv
  <1>2. \A n \in Nodes : /\ file'.nodes[n].vps \in Known(n) /\ file'.nodes[n].pending \in Known(n)
                        /\ mem'.nodes[n].vps \in Known(n) /\ mem'.nodes[n].pending \in Known(n)
    BY DEF Known
  <1>3. OwnIn(file)' /\ OwnIn(mem)'
    BY <1>2, KnownKept, FileKept, MemKept
  <1>4. QED
    BY <1>1, <1>3 DEF OwnInv

\* A step that records one server of a node, which is its own.
LEMMA OneNew ==
  ASSUME OwnInv, [Next]_vars, NEW n \in Nodes, NEW node \in NodeStates, mem' = With(n, node),
         StillOf(node.vps, n), StillOf(node.pending, n), file' = file, todo' \subseteq todo
  PROVE  OwnInv'
  <1>1. TypeOK' /\ Names' /\ Planned'
    BY TypesKept, NextKeepsServers, PlannedKept DEF OwnInv
  <1>2. \A m \in Nodes : /\ file.nodes[m].vps \in Known(m) /\ file.nodes[m].pending \in Known(m)
                        /\ mem.nodes[m].vps \in Known(m) /\ mem.nodes[m].pending \in Known(m)
    BY DEF Known
  <1>3. OwnIn(file)'
    BY <1>2, KnownKept, FileKept
  <1>4. OwnIn(mem)'
    <2>1. \A m \in Nodes : mem'.nodes[m] = IF m = n THEN node ELSE mem.nodes[m]
      BY DEF With, OwnInv, TypeOK, StateFiles
    <2>2. \A m \in Nodes : StillOf(mem.nodes[m].vps, m) /\ StillOf(mem.nodes[m].pending, m)
      BY <1>2, KnownKept
    <2>3. SUFFICES ASSUME NEW m \in Nodes
                   PROVE  StillOf(mem'.nodes[m].vps, m) /\ StillOf(mem'.nodes[m].pending, m)
      BY MemKept
    <2>4. CASE m = n
      BY <2>1, <2>4
    <2>5. CASE m # n
      BY <2>1, <2>2, <2>5
    <2>6. QED
      BY <2>4, <2>5
  <1>5. QED
    BY <1>1, <1>3, <1>4 DEF OwnInv

LEMMA InitOwn == Init => OwnInv
  <1> SUFFICES ASSUME Init PROVE OwnInv
    OBVIOUS
  <1>1. TypeOK
    BY InitTyped
  <1>2. /\ \A v \in Servers : vm[v].name = None
        /\ \A n \in Nodes : file.nodes[n] = Fresh
        /\ mem = file /\ todo = {}
    BY DEF Init, NoServer
  <1>3. Names
    BY <1>2 DEF Names
  <1>4. OwnIn(file) /\ OwnIn(mem)
    <2>1. Fresh.vps = None /\ Fresh.pending = None
      BY DEF Fresh
    <2>2. OwnIn(file)
      BY <1>2, <2>1 DEF OwnIn, Of
    <2>3. QED
      BY <1>2, <2>2
  <1>5. Planned
    BY <1>2 DEF Planned
  <1>6. QED
    BY <1>1, <1>3, <1>4, <1>5 DEF OwnInv

LEMMA UpOwn == ASSUME OwnInv, Up PROVE OwnInv'
  <1>1. TypeOK' /\ Names'
    BY TypesKept, NextKeepsServers DEF OwnInv, Next
  <1>2. OwnIn(file)' /\ OwnIn(mem)'
    BY DEF Up, OwnInv, OwnIn, Of
  <1>3. \A x \in Plan : Of(x.vps, x.node)
    BY PlanTyped, SeenIsOwn DEF OwnInv, Of
  <1>4. Planned'
    BY <1>3 DEF Up, Planned, Of
  <1>5. QED
    BY <1>1, <1>2, <1>4 DEF OwnInv

\* What a step of the run records of its node.
LEMMA WorkOwn ==
  ASSUME OwnInv, NEW n \in Nodes, Work(n) PROVE OwnInv'
  <1> USE DEF infraVars, secretVars, runVars
  <1> DEFINE s == mem.nodes[n]
  <1>a. [Next]_vars
    BY DEF Next, Run
  <1>b. s \in NodeStates /\ mem \in StateFiles /\ vm \in [Servers -> Machines]
    BY NodeTyped DEF OwnInv, TypeOK
  <1>c. StillOf(s.vps, n) /\ StillOf(s.pending, n)
    BY <1>a, KnownKept DEF Known
  <1>d. StillOf(None, n)
    BY DEF StillOf
  <1>1. CASE Purchase(n)
    <2>1. PICK v \in Servers :
            /\ Bought(v, n, "installing", n)
            /\ \/ Return(With(n, [s EXCEPT !.vps = v]))
               \/ End /\ UNCHANGED file
      BY <1>1 DEF Purchase
    <2>2. CASE Return(With(n, [s EXCEPT !.vps = v]))
      <3>1. vm'[v].state # "none" /\ vm'[v].for = n
        BY <2>1, <1>b DEF Bought, NoServer
      <3>2. [s EXCEPT !.vps = v] \in NodeStates /\ [s EXCEPT !.vps = v].vps = v
            /\ [s EXCEPT !.vps = v].pending = s.pending
        BY <1>b DEF NodeStates
      <3>3. StillOf(v, n)
        BY <3>1 DEF StillOf
      <3>4. QED
        BY <2>2, <3>2, <3>3, <1>a, <1>c, OneNew DEF Return
    <2>3. CASE End /\ UNCHANGED file
      BY <2>3, <1>a, NothingNew DEF End
    <2>4. QED
      BY <2>1, <2>2, <2>3
  <1>2. CASE PurchasePending(n)
    <2>1. PICK v \in Servers :
            /\ Bought(v, n, "paid", None)
            /\ UNCHANGED file
            /\ \/ mem' = With(n, [s EXCEPT !.pending = v]) /\ UNCHANGED todo
               \/ End
      BY <1>2 DEF PurchasePending
    <2>2. CASE mem' = With(n, [s EXCEPT !.pending = v]) /\ UNCHANGED todo
      <3>1. vm'[v].state # "none" /\ vm'[v].for = n
        BY <2>1, <1>b DEF Bought, NoServer
      <3>2. [s EXCEPT !.pending = v] \in NodeStates /\ [s EXCEPT !.pending = v].pending = v
            /\ [s EXCEPT !.pending = v].vps = s.vps
        BY <1>b DEF NodeStates
      <3>3. StillOf(v, n)
        BY <3>1 DEF StillOf
      <3>4. QED
        BY <2>1, <2>2, <3>2, <3>3, <1>a, <1>c, OneNew
    <2>3. CASE End
      BY <2>1, <2>3, <1>a, NothingNew DEF End
    <2>4. QED
      BY <2>1, <2>2, <2>3
  <1>3. CASE Adopt(n)
    <2>1. PICK x \in todo : x.node = n /\ Return(With(n, [s EXCEPT !.vps = x.vps, !.pending = None]))
      BY <1>3 DEF Adopt, Doing
    <2> DEFINE node == [s EXCEPT !.vps = x.vps, !.pending = None]
    <2>2. x.vps \in Servers \cup {None} /\ Of(x.vps, n)
      BY <2>1 DEF OwnInv, TypeOK, Planned
    <2>3. StillOf(x.vps, n)
      BY <2>2, <1>a, OfKept
    <2>4. node \in NodeStates /\ node.vps = x.vps /\ node.pending = None
      BY <1>b, <2>2 DEF NodeStates
    <2>5. mem' = With(n, node) /\ file' = file /\ todo' = todo
      BY <2>1 DEF Return
    <2> HIDE DEF node
    <2>6. QED
      BY <2>3, <2>4, <2>5, <1>a, <1>d, OneNew
  <1>4. CASE Unpin(n) \/ WaitRunning(n) \/ Pin(n) \/ Capture(n) \/ Switch(n)
    <2>1. PICK node \in NodeStates : /\ mem' = With(n, node) /\ file' = file /\ todo' = todo
                                     /\ node.vps = s.vps /\ node.pending = s.pending
      <3>1. CASE Unpin(n)
        <4> DEFINE node == [s EXCEPT !.pinned = FALSE, !.captured = FALSE]
        <4>1. node \in NodeStates
          BY NodeTyped DEF OwnInv
        <4>2. node.vps = s.vps /\ node.pending = s.pending
          BY <1>b DEF NodeStates
        <4>3. mem' = With(n, node) /\ file' = file /\ todo' = todo
          BY <3>1 DEF Unpin, Return
        <4> HIDE DEF node
        <4>4. QED
          BY <4>1, <4>2, <4>3
      <3>2. CASE WaitRunning(n)
        <4> DEFINE node == [s EXCEPT !.ip = s.vps]
        <4>1. node \in NodeStates
          BY NodeTyped, <1>b DEF OwnInv
        <4>2. node.vps = s.vps /\ node.pending = s.pending
          BY <1>b DEF NodeStates
        <4>3. mem' = With(n, node) /\ file' = file /\ todo' = todo
          BY <3>2 DEF WaitRunning, Return
        <4> HIDE DEF node
        <4>4. QED
          BY <4>1, <4>2, <4>3
      <3>3. CASE Pin(n)
        <4> DEFINE node == [s EXCEPT !.pinned = TRUE]
        <4>1. node \in NodeStates
          BY NodeTyped DEF OwnInv
        <4>2. node.vps = s.vps /\ node.pending = s.pending
          BY <1>b DEF NodeStates
        <4>3. mem' = With(n, node) /\ file' = file /\ todo' = todo
          BY <3>3 DEF Pin, Return
        <4> HIDE DEF node
        <4>4. QED
          BY <4>1, <4>2, <4>3
      <3>4. CASE Capture(n)
        <4> DEFINE node == [s EXCEPT !.captured = TRUE]
        <4>1. node \in NodeStates
          BY NodeTyped DEF OwnInv
        <4>2. node.vps = s.vps /\ node.pending = s.pending
          BY <1>b DEF NodeStates
        <4>3. mem' = With(n, node) /\ file' = file /\ todo' = todo
          BY <3>4 DEF Capture, Return
        <4> HIDE DEF node
        <4>4. QED
          BY <4>1, <4>2, <4>3
      <3>5. CASE Switch(n)
        <4> DEFINE node == [s EXCEPT !.applied = Rev]
        <4>1. node \in NodeStates
          BY NodeTyped DEF OwnInv
        <4>2. node.vps = s.vps /\ node.pending = s.pending
          BY <1>b DEF NodeStates
        <4>3. mem' = With(n, node) /\ file' = file /\ todo' = todo
          BY <3>5 DEF Switch, Return
        <4> HIDE DEF node
        <4>4. QED
          BY <4>1, <4>2, <4>3
      <3>6. QED
        BY <1>4, <3>1, <3>2, <3>3, <3>4, <3>5
    <2>2. QED
      BY <2>1, <1>a, <1>c, OneNew
  <1>5. CASE Setup(n) \/ Firewall(n) \/ Push(n) \/ Test(n) \/ Probe(n)
    <2>1. UNCHANGED <<file, mem, todo>>
      BY <1>5 DEF Setup, Firewall, Push, Test, Probe, Return
    <2>2. QED
      BY <2>1, <1>a, NothingNew
  <1>6. QED
    BY <1>1, <1>2, <1>3, <1>4, <1>5 DEF Work

LEMMA OtherOwn ==
  ASSUME OwnInv,
         \/ Save \/ SaveMarker \/ EnsureCert \/ UpsertDns \/ Raise \/ Kill
         \/ EditTree \/ AddToken \/ CalmDown \/ (\E v \in Servers : Machine(v)) \/ UNCHANGED vars
  PROVE  OwnInv'
  <1> USE DEF infraVars, secretVars, runVars
  <1>a. [Next]_vars
    BY DEF Next, Run
  <1>1. CASE UpsertDns
    <2>1. TypeOK' /\ Names' /\ Planned'
      BY <1>1, <1>a, TypesKept, NextKeepsServers, PlannedKept DEF OwnInv, UpsertDns, Return
    <2>2. OwnIn(file)' /\ OwnIn(mem)'
      BY <1>1 DEF UpsertDns, Return, OwnInv, OwnIn, Of, TypeOK, StateFiles
    <2>3. QED
      BY <2>1, <2>2 DEF OwnInv
  <1>2. CASE Save
    BY <1>2, <1>a, NothingNew DEF Save
  <1>3. CASE SaveMarker \/ EnsureCert \/ Raise \/ Kill
    BY <1>3, <1>a, NothingNew DEF SaveMarker, EnsureCert, Raise, Kill, End, Return
  <1>4. CASE EditTree \/ AddToken \/ CalmDown \/ UNCHANGED vars
    BY <1>4, <1>a, NothingNew DEF EditTree, AddToken, CalmDown, vars
  <1>5. CASE \E v \in Servers : Machine(v)
    <2>1. UNCHANGED <<file, mem, todo>>
      BY <1>5 DEF Machine, Provision, Install, Reset, Reboot, ForgetKey
    <2>2. QED
      BY <2>1, <1>a, NothingNew
  <1>6. QED
    BY <1>1, <1>2, <1>3, <1>4, <1>5

LEMMA OwnKept == ASSUME OwnInv, [Next]_vars PROVE OwnInv'
  BY UpOwn, WorkOwn, OtherOwn DEF Next, Run

\* No node takes over a server that was bought for another one, whatever is lost,
\* killed, reinstalled, and whichever names the servers have.
THEOREM ServersAreOwn == Spec => []OwnServer
  <1>1. Init => OwnInv
    BY InitOwn
  <1>2. OwnInv /\ [Next]_vars => OwnInv'
    BY OwnKept
  <1>3. OwnInv => OwnServer
    BY DEF OwnInv, OwnIn, Of, OwnServer
  <1>4. QED
    BY <1>1, <1>2, <1>3, PTL DEF Spec

-----------------------------------------------------------------------------
(* A configuration that locks everyone out is not made permanent. *)

\* Node n is between `nixos-rebuild test` and the end of `switch`.
Testing(n) == At("probe", "rebuild", n) \/ At("switch", "rebuild", n)

\* What is active on the machine under test is what was pushed, so that an answer
\* of the machine speaks for what is going to be switched to.
Activated ==
  \A n \in Nodes : Testing(n) => LET v == mem.nodes[n].ip
                                IN v # None /\ vm[v].active = vm[v].pushed

SafeBoot == \A v \in Servers : vm[v].boot.tree \notin Locking

SafeInv == TypeOK /\ (Free({"reboot"}) => SafeBoot /\ Activated)

LEMMA StageTyped == \A a : Stage(a) \in Nat /\ Rank(a) \in Nat
  BY DEF Stage, Rank

\* One step at a time is at work.
LEMMA OneCurrent ==
  ASSUME TypeOK, NEW x \in todo, NEW y \in todo, Current(x), Current(y)
  PROVE  x = y
  <1> SUFFICES ASSUME x # y PROVE FALSE
    OBVIOUS
  <1>1. Precedes(x, y) /\ Precedes(y, x)
    BY DEF Current
  <1>2. x.node \in Nat /\ y.node \in Nat
    BY DEF TypeOK
  <1>3. Stage(x.act) \in Nat /\ Stage(y.act) \in Nat /\ Rank(x.act) \in Nat /\ Rank(y.act) \in Nat
    BY StageTyped
  <1>4. QED
    BY <1>1, <1>2, <1>3 DEF Precedes

LEMMA OneNode ==
  ASSUME TypeOK, NEW l1, NEW l2, NEW a1, NEW a2, NEW n, NEW m, At(l1, a1, n), At(l2, a2, m)
  PROVE  n = m /\ a1 = a2
  <1>1. PICK x \in todo : x.act = a1 /\ x.node = n /\ Current(x)
    BY DEF At, Doing
  <1>2. PICK y \in todo : y.act = a2 /\ y.node = m /\ Current(y)
    BY DEF At, Doing
  <1>3. x = y
    BY <1>1, <1>2, OneCurrent
  <1>4. QED
    BY <1>1, <1>2, <1>3

LEMMA NoRevIsSafe == NoRev.tree \notin Locking
  BY DEF NoRev

\* A step that leaves nothing under test.
LEMMA NothingTested ==
  ASSUME pc' \notin {"probe", "switch"} PROVE Activated'
  BY DEF Activated, Testing, At

\* A step of no machine's configuration that leaves the run where it is.
LEMMA SameTested ==
  ASSUME TypeOK, Activated, UNCHANGED <<pc, todo, mem>>,
         \A v \in Servers : vm'[v].active = vm'[v].pushed \/ (/\ vm'[v].active = vm[v].active
                                                           /\ vm'[v].pushed = vm[v].pushed)
  PROVE  Activated'
  <1>1. \A n \in Nodes : Testing(n)' <=> Testing(n)
    BY DEF Testing, At, Doing, Current
  <1>2. \A n \in Nodes : mem.nodes[n].ip \in Servers \cup {None}
    BY NodeTyped
  <1>3. QED
    BY <1>1, <1>2 DEF Activated

LEMMA SameBoots ==
  ASSUME SafeBoot, \A v \in Servers : vm'[v].boot \in {vm[v].boot, NoRev} PROVE SafeBoot'
  BY NoRevIsSafe DEF SafeBoot

LEMMA WorkIsSafe ==
  ASSUME SafeInv, Free({"reboot"}), NEW n \in Nodes, Work(n)
  PROVE  (SafeBoot /\ Activated)'
  <1> USE DEF infraVars, secretVars, runVars
  <1>t. TypeOK /\ vm \in [Servers -> Machines] /\ SafeBoot /\ Activated
    BY DEF SafeInv, TypeOK
  <1>1. CASE Purchase(n) \/ PurchasePending(n)
    <2>1. PICK v \in Servers, state \in {"installing", "paid"}, name \in {n, None} : Bought(v, n, state, name)
      BY <1>1 DEF Purchase, PurchasePending
    <2>2. \A w \in Servers : vm'[w].boot \in {vm[w].boot, NoRev}
      BY <2>1, <1>t DEF Bought, NoServer, Machines
    <2>3. pc' \notin {"probe", "switch"}
      BY <1>1 DEF Purchase, PurchasePending, Return, End
    <2>4. QED
      BY <2>2, <2>3, <1>t, SameBoots, NothingTested
  <1>2. CASE Adopt(n) \/ Unpin(n) \/ WaitRunning(n) \/ Pin(n) \/ Capture(n)
    <2>1. pc' \notin {"probe", "switch"} /\ vm' = vm
      BY <1>2 DEF Adopt, Unpin, WaitRunning, Pin, Capture, Return
    <2>2. QED
      BY <2>1, <1>t, SameBoots, NothingTested
  <1>3. CASE Setup(n) \/ Firewall(n) \/ Push(n)
    <2>1. pc' \notin {"probe", "switch"}
      BY <1>3 DEF Setup, Firewall, Push, Return
    <2>2. \A w \in Servers : vm'[w].boot = vm[w].boot
      <3>1. CASE Setup(n)
        BY <3>1, <1>t DEF Setup, Machines
      <3>2. CASE Firewall(n)
        BY <3>2, <1>t DEF Firewall, Machines
      <3>3. CASE Push(n)
        BY <3>3, <1>t DEF Push, Machines
      <3>4. QED
        BY <1>3, <3>1, <3>2, <3>3
    <2>3. QED
      BY <2>1, <2>2, <1>t, SameBoots, NothingTested
  <1>4. CASE Test(n)
    <2> DEFINE v == mem.nodes[n].ip
    <2>1. /\ v \in Servers
          /\ vm' = [vm EXCEPT ![v].active = vm[v].pushed]
          /\ UNCHANGED <<mem, todo>> /\ At("run", "rebuild", n) /\ pc' = "probe"
      BY <1>4, <1>t, NodeTyped DEF Test, Reached
    <2>2. vm'[v].active = vm'[v].pushed /\ \A w \in Servers : vm'[w].boot = vm[w].boot
      BY <2>1, <1>t DEF Machines
    <2>3. \A m \in Nodes : Testing(m)' => At("run", "rebuild", m)
      BY <2>1 DEF Testing, At, Doing, Current
    <2>4. \A m \in Nodes : Testing(m)' => m = n
      BY <2>1, <2>3, <1>t, OneNode
    <2>5. Activated'
      BY <2>1, <2>2, <2>4 DEF Activated
    <2>6. QED
      BY <2>2, <2>5, <1>t, SameBoots
  <1>5. CASE Probe(n)
    <2>1. /\ UNCHANGED <<vm, mem, todo>> /\ pc' = "switch" /\ At("probe", "rebuild", n)
      BY <1>5 DEF Probe
    <2>2. \A m \in Nodes : Testing(m)' => Testing(m)
      BY <2>1 DEF Testing, At, Doing, Current
    <2>3. Activated'
      BY <2>1, <2>2, <1>t DEF Activated
    <2>4. QED
      BY <2>1, <2>3, <1>t, SameBoots
  <1>6. CASE Switch(n)
    <2> DEFINE v == mem.nodes[n].ip
    <2>1. /\ v \in Servers /\ vm[v].active.tree \notin Locking
          /\ vm' = [vm EXCEPT ![v] = [vm[v] EXCEPT !.active = vm[v].pushed, !.boot = vm[v].pushed]]
          /\ pc' = "save" /\ Testing(n)
      BY <1>6, <1>t, NodeTyped DEF Switch, Reached, Answers, Return, Testing
    <2>2. vm[v].active = vm[v].pushed
      BY <2>1, <1>t DEF Activated
    <2>3. \A w \in Servers : vm'[w].boot = IF w = v THEN vm[v].pushed ELSE vm[w].boot
      BY <2>1, <1>t DEF Machines
    <2>4. SafeBoot'
      BY <2>1, <2>2, <2>3, <1>t DEF SafeBoot
    <2>5. QED
      BY <2>1, <2>4, NothingTested
  <1>7. QED
    BY <1>1, <1>2, <1>3, <1>4, <1>5, <1>6 DEF Work

LEMMA MachineIsSafe ==
  ASSUME SafeInv, Free({"reboot"}), NEW v \in Servers, Machine(v)
  PROVE  (SafeBoot /\ Activated)'
  <1> USE DEF infraVars, secretVars, runVars
  <1>t. TypeOK /\ vm \in [Servers -> Machines] /\ SafeBoot /\ Activated
    BY DEF SafeInv, TypeOK
  <1>1. CASE Provision(v) \/ Reset(v) \/ ForgetKey(v)
    <2>1. \A w \in Servers : /\ vm'[w].boot = vm[w].boot /\ vm'[w].active = vm[w].active
                            /\ vm'[w].pushed = vm[w].pushed
      <3>1. CASE Provision(v)
        BY <3>1, <1>t DEF Provision, Machines
      <3>2. CASE Reset(v)
        BY <3>2, <1>t DEF Reset, Machines
      <3>3. CASE ForgetKey(v)
        BY <3>3 DEF ForgetKey
      <3>4. QED
        BY <1>1, <3>1, <3>2, <3>3
    <2>2. UNCHANGED <<pc, todo, mem>>
      BY <1>1 DEF Provision, Reset, ForgetKey
    <2>3. QED
      BY <2>1, <2>2, <1>t, SameBoots, SameTested
  <1>2. CASE Install(v)
    <2>1. PICK d \in Disks :
            vm' = [vm EXCEPT ![v] = [vm[v] EXCEPT !.state = "running", !.disk = d, !.cert = FALSE,
                                                  !.pushed = NoRev, !.active = NoRev, !.boot = NoRev]]
      BY <1>2, <1>t DEF Install
    <2>2. \A w \in Servers : vm'[w].boot \in {vm[w].boot, NoRev}
      BY <2>1, <1>t DEF Machines
    <2>3. \A w \in Servers : vm'[w].active = vm'[w].pushed \/ (/\ vm'[w].active = vm[w].active
                                                           /\ vm'[w].pushed = vm[w].pushed)
      BY <2>1, <1>t DEF Machines
    <2>4. UNCHANGED <<pc, todo, mem>>
      BY <1>2 DEF Install
    <2>5. QED
      BY <2>2, <2>3, <2>4, <1>t, SameBoots, SameTested
  <1>3. CASE Reboot(v)
    <2>1. UNCHANGED <<pc, todo, mem>> /\ \A w \in Servers : vm'[w].boot = vm[w].boot
      BY <1>3, <1>t DEF Reboot, Machines
    <2>2. pc' \notin {"probe", "switch"}
      BY <1>3 DEF Reboot, May, Free
    <2>3. QED
      BY <2>1, <2>2, <1>t, SameBoots, NothingTested
  <1>4. QED
    BY <1>1, <1>2, <1>3 DEF Machine

LEMMA FaultsFixed == ASSUME [Next]_vars PROVE faults' = faults
  <1> USE DEF infraVars, secretVars, runVars, Return, End
  <1>1. ASSUME NEW n \in Nodes, Work(n) PROVE faults' = faults
    BY <1>1 DEF Work, Purchase, PurchasePending, Adopt, Setup, Unpin, WaitRunning, Firewall, Pin,
                Capture, Push, Test, Probe, Switch
  <1>2. ASSUME NEW v \in Servers, Machine(v) PROVE faults' = faults
    BY <1>2 DEF Machine, Provision, Install, Reset, Reboot, ForgetKey
  <1>3. CASE Up \/ Save \/ SaveMarker \/ EnsureCert \/ UpsertDns \/ Raise \/ Kill
             \/ EditTree \/ AddToken \/ CalmDown \/ UNCHANGED vars
    BY <1>3 DEF Up, Save, SaveMarker, EnsureCert, UpsertDns, Raise, Kill, EditTree, AddToken,
                CalmDown, vars
  <1>4. QED
    BY <1>1, <1>2, <1>3 DEF Next, Run

LEMMA OtherIsSafe ==
  ASSUME SafeInv, Free({"reboot"}),
         \/ Up \/ Save \/ SaveMarker \/ EnsureCert \/ UpsertDns \/ Raise \/ Kill
         \/ EditTree \/ AddToken \/ CalmDown \/ UNCHANGED vars
  PROVE  (SafeBoot /\ Activated)'
  <1> USE DEF infraVars, secretVars, runVars
  <1>t. TypeOK /\ SafeBoot /\ Activated
    BY DEF SafeInv
  <1>1. vm' = vm
    BY DEF Up, Save, SaveMarker, EnsureCert, UpsertDns, Raise, Kill, EditTree, AddToken, CalmDown,
           vars
  <1>2. SafeBoot'
    BY <1>1, <1>t, SameBoots
  <1>3. CASE Up \/ Save \/ SaveMarker \/ EnsureCert \/ UpsertDns \/ Raise \/ Kill
    <2>1. pc' \notin {"probe", "switch"}
      BY <1>3 DEF Up, Save, SaveMarker, EnsureCert, UpsertDns, Raise, Kill, Return, End
    <2>2. QED
      BY <1>2, <2>1, NothingTested
  <1>4. CASE EditTree \/ AddToken \/ CalmDown \/ UNCHANGED vars
    <2>1. UNCHANGED <<pc, todo, mem>>
      BY <1>4 DEF EditTree, AddToken, CalmDown, vars
    <2>2. QED
      BY <1>1, <1>2, <2>1, <1>t, SameTested
  <1>5. QED
    BY <1>3, <1>4

LEMMA SafeKept == ASSUME SafeInv, [Next]_vars PROVE SafeInv'
  <1>1. TypeOK'
    BY TypesKept DEF SafeInv
  <1>2. Free({"reboot"})' => Free({"reboot"})
    BY FaultsFixed DEF Free
  <1>3. ASSUME Free({"reboot"}) PROVE (SafeBoot /\ Activated)'
    BY <1>3, WorkIsSafe, MachineIsSafe, OtherIsSafe DEF Next, Run
  <1>4. QED
    BY <1>1, <1>2, <1>3 DEF SafeInv

\* A configuration that locks stack-base out is never the one that a machine boots,
\* as long as no machine reboots while it is tested, whatever else goes wrong.
THEOREM SwitchingIsSafe == Spec => []SwitchIsSafe
  <1>1. Init => SafeInv
    <2>1. Init => SafeBoot
      BY NoRevIsSafe DEF Init, SafeBoot, NoServer
    <2>2. Init => Activated
      BY DEF Init, Activated, Testing, At
    <2>3. QED
      BY <2>1, <2>2, InitTyped DEF SafeInv
  <1>2. SafeInv /\ [Next]_vars => SafeInv'
    BY SafeKept
  <1>3. SafeInv => SwitchIsSafe
    BY DEF SafeInv, SafeBoot, SwitchIsSafe
  <1>4. QED
    BY <1>1, <1>2, <1>3, PTL DEF Spec

-----------------------------------------------------------------------------
(* One server for every node. *)

\* What `up` finds a node's server by: the state file, or the hostname.
KnownIn(st, n) == st.nodes[n].vps # None \/ st.nodes[n].pending # None
Findable(v, n) == Listed(v) /\ vm[v].name = n

\* No server was bought twice, and every one that was is found again: even one
\* whose run never heard of it or did not live to save what it heard.
Once == \A v, w \in Servers : vm[v].for # None /\ vm[v].for = vm[w].for => v = w
Found ==
  \A v \in Servers : vm[v].for # None =>
    \/ KnownIn(file, vm[v].for) \/ Findable(v, vm[v].for)
    \/ pc = "marker" /\ KnownIn(mem, vm[v].for)

\* A purchase that is still to be made is of a node that has none.
Buying(n) == \E x \in todo : /\ x.act = "purchase" /\ x.node = n
                             /\ ~(pc \in {"save", "marker"} /\ Current(x))
Wanted == \A n \in Nodes : Buying(n) => \A v \in Servers : vm[v].for # n

\* The run forgets nothing that is in the state file, and adopts what it saw.
Remembered == \A n \in Nodes : KnownIn(file, n) => KnownIn(mem, n)
Adopting == \A x \in todo : x.act = "adopt" => x.vps # None

OnceInv ==
  /\ OwnInv /\ Remembered /\ Adopting
  /\ Free({"deaf"}) => Once /\ Found /\ Wanted

\* What the plan does about a node without a server.
LEMMA PlanProvisions ==
  ASSUME TypeOK, NEW x \in Plan
  PROVE  /\ x.act = "adopt" => x.vps = Seen(x.node) /\ x.vps # None
         /\ x.act = "purchase" => ~KnownIn(file, x.node) /\ Seen(x.node) = None
  <1>1. CASE x \in UNION {Steps(Provisioning(n) \cup Deploying(n), n) : n \in Nodes}
    <2>1. PICK n \in Nodes : x \in Steps(Provisioning(n) \cup Deploying(n), n)
      BY <1>1
    <2>2. PICK a \in Provisioning(n) \cup Deploying(n) :
            x = [act |-> a, node |-> n, vps |-> IF a = "adopt" THEN Seen(n) ELSE None]
      BY <2>1 DEF Steps
    <2>3. x.act = a /\ x.node = n /\ (a = "adopt" => x.vps = Seen(n))
      BY <2>2
    <2>4. a \in {"adopt", "purchase"} => a \in Provisioning(n)
      BY <2>2 DEF Deploying
    <2>5. a = "adopt" => Seen(n) # None
      BY <2>4 DEF Provisioning, When
    <2>6. a = "purchase" => ~KnownIn(file, n) /\ Seen(n) = None
      BY <2>4 DEF Provisioning, When, KnownIn
    <2>7. QED
      BY <2>3, <2>5, <2>6
  <1>2. CASE x \in Steps(When(CertPending, "cert"), Primary)
             \/ x \in Steps(When(token /\ ~DnsConverged, "dns"), Primary)
    <2>1. x.act \in {"cert", "dns"}
      BY <1>2 DEF Steps, When
    <2>2. QED
      BY <2>1
  <1>3. QED
    BY <1>1, <1>2 DEF Plan

\* A run forgets no server.
LEMMA RecordRemembered ==
  ASSUME TypeOK, Remembered, file' = file, NEW n \in Nodes, NEW node, mem' = With(n, node),
         KnownIn(mem, n) => node.vps # None \/ node.pending # None
  PROVE  Remembered'
  <1>1. \A m \in Nodes : mem'.nodes[m] = IF m = n THEN node ELSE mem.nodes[m]
    BY DEF With, TypeOK, StateFiles
  <1>2. QED
    BY <1>1 DEF Remembered, KnownIn

LEMMA WorkRemembers ==
  ASSUME OnceInv, NEW n \in Nodes, Work(n) PROVE Remembered'
  <1> USE DEF infraVars, secretVars, runVars
  <1>t. TypeOK /\ Remembered /\ Adopting /\ None \notin Servers
    BY DEF OnceInv, OwnInv
  <1> DEFINE s == mem.nodes[n]
  <1>s. s \in NodeStates
    BY <1>t, NodeTyped
  <1>1. CASE Purchase(n) \/ PurchasePending(n)
    <2>1. \/ file' = file /\ mem' = file
          \/ \E v \in Servers : mem' = With(n, [s EXCEPT !.vps = v]) /\ file' = file
          \/ \E v \in Servers : mem' = With(n, [s EXCEPT !.pending = v]) /\ file' = file
      BY <1>1 DEF Purchase, PurchasePending, Return, End
    <2>2. CASE file' = file /\ mem' = file
      BY <2>2 DEF Remembered
    <2>3. ASSUME NEW v \in Servers, mem' = With(n, [s EXCEPT !.vps = v]), file' = file
          PROVE  Remembered'
      <3>1. [s EXCEPT !.vps = v].vps = v
        BY <1>s DEF NodeStates
      <3>2. QED
        BY <2>3, <3>1, <1>t, RecordRemembered
    <2>4. ASSUME NEW v \in Servers, mem' = With(n, [s EXCEPT !.pending = v]), file' = file
          PROVE  Remembered'
      <3>1. [s EXCEPT !.pending = v].pending = v
        BY <1>s DEF NodeStates
      <3>2. QED
        BY <2>4, <3>1, <1>t, RecordRemembered
    <2>5. QED
      BY <2>1, <2>2, <2>3, <2>4
  <1>2. CASE Adopt(n)
    <2>1. PICK x \in todo : /\ x.act = "adopt"
                            /\ mem' = With(n, [s EXCEPT !.vps = x.vps, !.pending = None])
      BY <1>2 DEF Adopt, Doing, Return
    <2>2. [s EXCEPT !.vps = x.vps, !.pending = None].vps = x.vps
      BY <1>s DEF NodeStates
    <2>3. x.vps # None /\ file' = file
      BY <1>2, <2>1, <1>t DEF Adopting, Adopt, Return
    <2>4. QED
      BY <2>1, <2>2, <2>3, <1>t, RecordRemembered
  <1>3. CASE Unpin(n) \/ WaitRunning(n) \/ Pin(n) \/ Capture(n) \/ Switch(n)
    <2>1. file' = file /\ mem' \in {With(n, [s EXCEPT !.pinned = FALSE, !.captured = FALSE]),
                                    With(n, [s EXCEPT !.ip = s.vps]),
                                    With(n, [s EXCEPT !.pinned = TRUE]),
                                    With(n, [s EXCEPT !.captured = TRUE]),
                                    With(n, [s EXCEPT !.applied = Rev])}
      BY <1>3 DEF Unpin, WaitRunning, Pin, Capture, Switch, Return
    <2>2. PICK node \in {[s EXCEPT !.pinned = FALSE, !.captured = FALSE], [s EXCEPT !.ip = s.vps],
                         [s EXCEPT !.pinned = TRUE], [s EXCEPT !.captured = TRUE],
                         [s EXCEPT !.applied = Rev]} : mem' = With(n, node)
      BY <2>1
    <2>3. node.vps = s.vps /\ node.pending = s.pending
      BY <1>s DEF NodeStates
    <2>4. QED
      BY <2>1, <2>2, <2>3, <1>t, RecordRemembered DEF KnownIn
  <1>4. CASE Setup(n) \/ Firewall(n) \/ Push(n) \/ Test(n) \/ Probe(n)
    <2>1. mem' = mem /\ file' = file
      BY <1>4 DEF Setup, Firewall, Push, Test, Probe, Return
    <2>2. QED
      BY <2>1, <1>t DEF Remembered
  <1>5. QED
    BY <1>1, <1>2, <1>3, <1>4 DEF Work

LEMMA RememberedKept ==
  ASSUME OnceInv, [Next]_vars PROVE Remembered'
  <1> USE DEF infraVars, secretVars, runVars
  <1>t. Remembered /\ TypeOK
    BY DEF OnceInv, OwnInv
  <1>1. CASE Up \/ Raise \/ Kill
    BY <1>1 DEF Up, Raise, Kill, End, Remembered
  <1>2. CASE Save \/ SaveMarker
    BY <1>2 DEF Save, SaveMarker, Remembered
  <1>3. CASE EnsureCert \/ EditTree \/ AddToken \/ CalmDown \/ UNCHANGED vars
    BY <1>3, <1>t DEF EnsureCert, Return, EditTree, AddToken, CalmDown, vars, Remembered
  <1>4. CASE UpsertDns
    <2>1. mem'.nodes = mem.nodes /\ file' = file
      BY <1>4, <1>t DEF UpsertDns, Return, TypeOK, StateFiles
    <2>2. QED
      BY <2>1, <1>t DEF Remembered, KnownIn
  <1>5. CASE \E v \in Servers : Machine(v)
    BY <1>5, <1>t DEF Machine, Provision, Install, Reset, Reboot, ForgetKey, Remembered
  <1>6. QED
    BY <1>1, <1>2, <1>3, <1>4, <1>5, WorkRemembers DEF Next, Run

\* Apart from a new plan, steps are only removed.
LEMMA TodoShrinks ==
  ASSUME [Next]_vars
  PROVE  \/ Up
         \/ todo' = {}
         \/ UNCHANGED <<pc, todo>>
         \/ pc \notin {"save", "marker"} /\ todo' = todo
         \/ Save
  <1> USE DEF infraVars, secretVars, runVars, Return, End
  <1>1. ASSUME NEW n \in Nodes, Work(n)
        PROVE  todo' = {} \/ (pc \notin {"save", "marker"} /\ todo' = todo)
    <2>1. CASE Purchase(n) \/ PurchasePending(n) \/ Adopt(n)
      BY <2>1 DEF Purchase, PurchasePending, Adopt, At
    <2>2. CASE Setup(n) \/ Unpin(n) \/ WaitRunning(n) \/ Firewall(n) \/ Pin(n) \/ Capture(n)
      BY <2>2 DEF Setup, Unpin, WaitRunning, Firewall, Pin, Capture, At
    <2>3. CASE Push(n) \/ Test(n) \/ Probe(n) \/ Switch(n)
      BY <2>3 DEF Push, Test, Probe, Switch, At
    <2>4. QED
      BY <1>1, <2>1, <2>2, <2>3 DEF Work
  <1>2. ASSUME NEW v \in Servers, Machine(v) PROVE UNCHANGED <<pc, todo>>
    BY <1>2 DEF Machine, Provision, Install, Reset, Reboot, ForgetKey
  <1>3. CASE EnsureCert \/ UpsertDns
    BY <1>3 DEF EnsureCert, UpsertDns, At
  <1>4. CASE SaveMarker \/ Raise \/ Kill
    BY <1>4 DEF SaveMarker, Raise, Kill
  <1>5. CASE EditTree \/ AddToken \/ CalmDown \/ UNCHANGED vars
    BY <1>5 DEF EditTree, AddToken, CalmDown, vars
  <1>6. QED
    BY <1>1, <1>2, <1>3, <1>4, <1>5 DEF Next, Run

LEMMA AdoptingKept ==
  ASSUME TypeOK, Adopting, [Next]_vars PROVE Adopting'
  <1>1. CASE Up
    BY <1>1, PlanProvisions DEF Up, Adopting
  <1>2. CASE todo' \subseteq todo
    BY <1>2 DEF Adopting
  <1>3. QED
    BY <1>1, <1>2, TodoShrinks DEF Save

\* Purchases are not planned while a run is under way.
LEMMA BuyingKept ==
  ASSUME [Next]_vars, ~Up, NEW n \in Nodes, Buying(n)' PROVE Buying(n)
  <1>1. CASE todo' = {}
    BY <1>1 DEF Buying
  <1>2. CASE UNCHANGED <<pc, todo>>
    BY <1>2 DEF Buying, Current
  <1>3. CASE pc \notin {"save", "marker"} /\ todo' = todo
    BY <1>3 DEF Buying
  <1>4. CASE Save
    BY <1>4 DEF Save, Buying
  <1>5. QED
    BY <1>1, <1>2, <1>3, <1>4, TodoShrinks

\* What a purchase changes.
LEMMA WhatIsBought ==
  ASSUME OnceInv, Free({"deaf"}), NEW n \in Nodes, Purchase(n) \/ PurchasePending(n)
  PROVE  \E v \in Servers :
           /\ \A w \in Servers \ {v} : vm'[w] = vm[w]
           /\ vm'[v].for = n
           /\ Findable(v, n)' \/ (pc' = "marker" /\ KnownIn(mem, n)')
           /\ todo' = {} \/ (/\ pc = "run" /\ pc' \in {"save", "marker"} /\ todo' = todo
                             /\ \E x \in todo : Doing(x, "purchase", n))
  <1>t. TypeOK /\ None \notin Servers /\ mem.nodes[n] \in NodeStates
    BY NodeTyped DEF OnceInv, OwnInv
  <1>1. CASE Purchase(n)
    <2>1. PICK v \in Servers : /\ Bought(v, n, "installing", n)
                               /\ \/ pc' = "save" /\ todo' = todo
                                  \/ todo' = {}
      BY <1>1 DEF Purchase, Return, End
    <2>2. /\ \A w \in Servers \ {v} : vm'[w] = vm[w]
          /\ vm'[v].for = n /\ vm'[v].state = "installing" /\ vm'[v].name = n
      BY <1>t, <2>1 DEF Bought, NoServer, TypeOK
    <2>3. Findable(v, n)'
      BY <2>2 DEF Findable, Listed
    <2>4. pc = "run" /\ \E x \in todo : Doing(x, "purchase", n)
      BY <1>1 DEF Purchase, At
    <2>5. QED
      BY <2>1, <2>2, <2>3, <2>4
  <1>2. CASE PurchasePending(n)
    <2>1. PICK v \in Servers : /\ Bought(v, n, "paid", None)
                               /\ mem' = With(n, [mem.nodes[n] EXCEPT !.pending = v])
                               /\ pc' = "marker" /\ todo' = todo
      BY <1>2 DEF PurchasePending, May, Free
    <2>2. /\ \A w \in Servers \ {v} : vm'[w] = vm[w]
          /\ vm'[v].for = n
      BY <1>t, <2>1 DEF Bought, NoServer, TypeOK
    <2>3. mem'.nodes[n] = [mem.nodes[n] EXCEPT !.pending = v]
      BY <1>t, <2>1 DEF With, TypeOK, StateFiles
    <2>4. mem'.nodes[n].pending = v
      BY <1>t, <2>3 DEF NodeStates
    <2>5. KnownIn(mem, n)'
      BY <2>4, <1>t DEF KnownIn
    <2>6. pc = "run" /\ \E x \in todo : Doing(x, "purchase", n)
      BY <1>2 DEF PurchasePending, At
    <2>7. QED
      BY <2>1, <2>2, <2>5, <2>6
  <1>3. QED
    BY <1>1, <1>2

\* What the state file knows it keeps, and the marker of a paid purchase is not
\* lost before it is saved.
LEMMA KnowledgeKept ==
  ASSUME OnceInv, Free({"deaf"}), [Next]_vars, NEW n \in Nodes
  PROVE  /\ KnownIn(file, n) => KnownIn(file, n)'
         /\ pc = "marker" /\ KnownIn(mem, n) => KnownIn(file, n)' \/ (pc' = "marker" /\ KnownIn(mem, n)')
  <1> USE DEF infraVars, secretVars, runVars, Return, End
  <1>t. Remembered
    BY DEF OnceInv
  <1>1. ASSUME NEW m \in Nodes, Work(m) PROVE file' = file /\ pc # "marker"
    <2>1. CASE Purchase(m) \/ PurchasePending(m) \/ Adopt(m)
      BY <2>1 DEF Purchase, PurchasePending, Adopt, At
    <2>2. CASE Setup(m) \/ Unpin(m) \/ WaitRunning(m) \/ Firewall(m) \/ Pin(m) \/ Capture(m)
      BY <2>2 DEF Setup, Unpin, WaitRunning, Firewall, Pin, Capture, At
    <2>3. CASE Push(m) \/ Test(m) \/ Probe(m) \/ Switch(m)
      BY <2>3 DEF Push, Test, Probe, Switch, At
    <2>4. QED
      BY <1>1, <2>1, <2>2, <2>3 DEF Work
  <1>2. ASSUME NEW v \in Servers, Machine(v) PROVE UNCHANGED <<file, pc, mem>>
    BY <1>2 DEF Machine, Provision, Install, Reset, Reboot, ForgetKey
  <1>3. CASE EnsureCert \/ UpsertDns \/ Up
    <2>1. file' = file /\ pc # "marker"
      BY <1>3 DEF EnsureCert, UpsertDns, Up, At
    <2>2. QED
      BY <2>1 DEF KnownIn
  <1>4. CASE Save \/ SaveMarker
    <2>1. file' = mem
      BY <1>4 DEF Save, SaveMarker
    <2>2. QED
      BY <2>1, <1>t DEF Remembered, KnownIn
  <1>5. CASE Raise \/ Kill
    <2>1. file' = file
      BY <1>5 DEF Raise, Kill
    <2>2. pc # "marker"
      BY <1>5 DEF Raise, Kill, Impossible, At, May, Free
    <2>3. QED
      BY <2>1, <2>2 DEF KnownIn
  <1>6. CASE EditTree \/ AddToken \/ CalmDown \/ UNCHANGED vars
    <2>1. UNCHANGED <<file, pc, mem>>
      BY <1>6 DEF EditTree, AddToken, CalmDown, vars
    <2>2. QED
      BY <2>1 DEF KnownIn
  <1>7. ASSUME NEW m \in Nodes, Work(m) PROVE KnownIn(file, n) => KnownIn(file, n)'
    BY <1>1, <1>7 DEF KnownIn
  <1>8. ASSUME NEW v \in Servers, Machine(v)
        PROVE  (KnownIn(file, n) => KnownIn(file, n)') /\ (KnownIn(mem, n) => KnownIn(mem, n)') /\ pc' = pc
    BY <1>2, <1>8 DEF KnownIn
  <1>9. QED
    BY <1>1, <1>3, <1>4, <1>5, <1>6, <1>7, <1>8 DEF Next, Run

LEMMA FoundKept ==
  ASSUME OnceInv, Free({"deaf"}), [Next]_vars PROVE Found'
  <1>t. OwnInv /\ Found /\ TypeOK'
    BY TypesKept DEF OnceInv, OwnInv
  <1>1. SUFFICES ASSUME NEW v \in Servers, NEW n \in Nodes, vm'[v].for = n
                 PROVE  \/ KnownIn(file, n)' \/ Findable(v, n)'
                        \/ pc' = "marker" /\ KnownIn(mem, n)'
    <2>1. \A v \in Servers : vm'[v].for \in Nodes \cup {None}
      BY <1>t DEF TypeOK, Machines
    <2>2. SUFFICES ASSUME NEW v \in Servers, vm'[v].for # None
                   PROVE  \/ KnownIn(file', vm'[v].for)
                          \/ vm'[v].state \in {"initial", "installing", "running"} /\ vm'[v].name = vm'[v].for
                          \/ pc' = "marker" /\ KnownIn(mem', vm'[v].for)
      BY DEF Found, Findable, Listed
    <2>3. QED
      BY <2>1, <2>2, <1>1 DEF KnownIn, Findable, Listed
  <1>2. CASE vm[v].for = n
    <2>1. KnownIn(file, n) \/ Findable(v, n) \/ (pc = "marker" /\ KnownIn(mem, n))
      BY <1>2, <1>t DEF Found
    <2>2. Findable(v, n) => Findable(v, n)'
      BY <1>t, NextKeepsServers DEF Kept, Findable, Listed
    <2>3. QED
      BY <2>1, <2>2, KnowledgeKept
  <1>3. CASE vm[v].for # n
    <2>1. PICK m \in Nodes : Purchase(m) \/ PurchasePending(m)
      BY <1>1, <1>3, <1>t, NextKeepsServers DEF NoneBought
    <2>2. PICK w \in Servers : /\ \A u \in Servers \ {w} : vm'[u] = vm[u]
                               /\ vm'[w].for = m
                               /\ Findable(w, m)' \/ (pc' = "marker" /\ KnownIn(mem, m)')
      BY <2>1, WhatIsBought
    <2>3. v = w /\ n = m
      BY <1>1, <1>3, <2>2
    <2>4. QED
      BY <2>2, <2>3
  <1>4. QED
    BY <1>2, <1>3

\* Only a node without a server is bought one.
LEMMA OnceKept ==
  ASSUME OnceInv, Free({"deaf"}), [Next]_vars PROVE Once' /\ Wanted'
  <1>t. OwnInv /\ TypeOK /\ Once /\ Found /\ Wanted
    BY DEF OnceInv, OwnInv
  <1>1. CASE Up
    <2>1. vm' = vm /\ todo' = Plan /\ pc = "idle"
      BY <1>1 DEF Up
    <2>2. Once'
      BY <2>1, <1>t DEF Once
    <2>3. ASSUME NEW n \in Nodes, NEW x \in Plan, x.act = "purchase", x.node = n,
                 NEW v \in Servers, vm[v].for = n
          PROVE  FALSE
      <3>1. ~KnownIn(file, n) /\ Seen(n) = None
        BY <2>3, <1>t, PlanProvisions
      <3>2. Findable(v, n)
        BY <2>1, <2>3, <3>1, <1>t DEF Found
      <3>3. v \in Adoptable(n)
        BY <3>1, <3>2 DEF Adoptable, Findable, KnownIn
      <3>4. Seen(n) \in Adoptable(n)
        BY <3>1, <3>3 DEF Seen, KnownIn
      <3>5. QED
        BY <3>1, <3>4 DEF Adoptable
    <2>4. Wanted'
      BY <2>1, <2>3 DEF Wanted, Buying
    <2>5. QED
      BY <2>2, <2>4
  <1>2. CASE ~Up /\ NoneBought
    BY <1>2, <1>t, BuyingKept DEF NoneBought, Once, Wanted
  <1>3. ASSUME ~Up, NEW n \in Nodes, Purchase(n) \/ PurchasePending(n)
        PROVE  Once' /\ Wanted'
    <2>1. Buying(n)
      <3>1. pc = "run" /\ \E x \in todo : x.act = "purchase" /\ x.node = n
        BY <1>3 DEF Purchase, PurchasePending, At, Doing
      <3>2. QED
        BY <3>1 DEF Buying
    <2>2. \A w \in Servers : vm[w].for # n
      BY <2>1, <1>t DEF Wanted
    <2>3. PICK v \in Servers :
            /\ \A w \in Servers \ {v} : vm'[w] = vm[w]
            /\ vm'[v].for = n
            /\ todo' = {} \/ (/\ pc = "run" /\ pc' \in {"save", "marker"} /\ todo' = todo
                              /\ \E x \in todo : Doing(x, "purchase", n))
      BY <1>3, WhatIsBought
    <2>4. Once'
      BY <2>2, <2>3, <1>t DEF Once
    <2>5. ~Buying(n)'
      <3>1. CASE todo' = {}
        BY <3>1 DEF Buying
      <3>2. ASSUME pc' \in {"save", "marker"}, todo' = todo, NEW x \in todo, Doing(x, "purchase", n),
                   NEW y \in todo, y.act = "purchase", y.node = n
            PROVE  y = x
        <4>1. y # x => Precedes(x, y)
          BY <3>2 DEF Doing, Current
        <4>2. x.act = y.act /\ x.node = y.node
          BY <3>2 DEF Doing
        <4>3. n \in Nat /\ Stage(x.act) \in Nat /\ Rank(x.act) \in Nat
          BY StageTyped
        <4>4. ~Precedes(x, y)
          BY <4>2, <4>3, <3>2 DEF Precedes
        <4>5. QED
          BY <4>1, <4>4
      <3>3. CASE /\ pc' \in {"save", "marker"} /\ todo' = todo
                 /\ \E x \in todo : Doing(x, "purchase", n)
        <4>1. PICK x \in todo : Doing(x, "purchase", n)
          BY <3>3
        <4>2. \A y \in todo : y.act = "purchase" /\ y.node = n => y = x
          BY <3>2, <3>3, <4>1
        <4>3. Current(x)'
          BY <3>3, <4>1 DEF Doing, Current
        <4>4. QED
          BY <3>3, <4>2, <4>3 DEF Buying
      <3>4. QED
        BY <2>3, <3>1, <3>3
    <2>6. ASSUME NEW m \in Nodes, Buying(m)', NEW w \in Servers PROVE vm'[w].for # m
      <3>1. m # n
        BY <2>5, <2>6
      <3>2. vm[w].for # m
        BY <1>3, <2>6, <1>t, BuyingKept DEF Wanted
      <3>3. QED
        BY <2>3, <3>1, <3>2
    <2>7. Wanted'
      BY <2>6 DEF Wanted
    <2>8. QED
      BY <2>4, <2>7
  <1>4. QED
    BY <1>1, <1>2, <1>3, <1>t, NextKeepsServers

\* Whatever is interrupted, lost or repeated, no node is bought a second server, as
\* long as every answer that names a subscription is heard.
THEOREM EveryNodeIsBoughtOnce == Spec => []BoughtOnce
  <1>1. Init => OnceInv
    <2> SUFFICES ASSUME Init PROVE OnceInv
      OBVIOUS
    <2>1. (\A v \in Servers : vm[v].for = None) /\ todo = {} /\ mem = file
      BY DEF Init, NoServer
    <2>2. Once /\ Found /\ Wanted /\ Remembered /\ Adopting
      BY <2>1 DEF Once, Found, Wanted, Buying, Remembered, Adopting
    <2>3. QED
      BY <2>2, InitOwn DEF OnceInv
  <1>2. OnceInv /\ [Next]_vars => OnceInv'
    <2> SUFFICES ASSUME OnceInv, [Next]_vars PROVE OnceInv'
      OBVIOUS
    <2>1. Free({"deaf"})' => Free({"deaf"})
      BY FaultsFixed DEF Free
    <2>2. OwnInv' /\ Remembered' /\ Adopting'
      BY OwnKept, RememberedKept, AdoptingKept DEF OnceInv, OwnInv
    <2>3. Free({"deaf"}) => Once' /\ Found' /\ Wanted'
      BY OnceKept, FoundKept
    <2>4. QED
      BY <2>1, <2>2, <2>3 DEF OnceInv
  <1>3. OnceInv => BoughtOnce
    <2> SUFFICES ASSUME OnceInv, Free({"deaf"}), NEW n \in Nodes
                 PROVE  Cardinality({v \in Servers : vm[v].for = n}) <= 1
      BY DEF BoughtOnce
    <2> DEFINE mine == {v \in Servers : vm[v].for = n}
    <2>1. \A v, w \in mine : v = w
      BY DEF OnceInv, Once
    <2>2. CASE mine = {}
      <3>1. Cardinality(mine) = 0
        BY <2>2, FS_EmptySet
      <3>2. QED
        BY <3>1
    <2>3. CASE mine # {}
      <3>1. PICK v \in mine : mine = {v}
        BY <2>1, <2>3
      <3>2. Cardinality(mine) = 1
        BY <3>1, FS_Singleton
      <3>3. QED
        BY <3>2
    <2>4. QED
      BY <2>2, <2>3
  <1>4. QED
    BY <1>1, <1>2, <1>3, PTL DEF Spec

=============================================================================
