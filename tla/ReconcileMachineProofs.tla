-------------------------- MODULE ReconcileMachineProofs --------------------------
(***************************************************************************)
(* Proofs about what Reconcile knows of the machines.  Of one that it      *)
(* reinstalls: its pinned host key and its captured hardware, as long as   *)
(* no run is killed.  Of one that it rebuilt: that it runs what is         *)
(* recorded of it, so that `nothing to do` is true and the name only       *)
(* resolves to a machine that serves.  Of all of them: that they are       *)
(* provisioned before the first is deployed to.                            *)
(***************************************************************************)
EXTENDS ReconcileProofs

USE NodesAssumption, ServersAssumption, TreesAssumption, DisksAssumption DEF None

-----------------------------------------------------------------------------
(* What a run still has to do. *)

\* One of these steps of node n is still to be done.
Ahead(acts, n) ==
  \E x \in todo : x.act \in acts /\ x.node = n /\ ~(pc \in {"save", "marker"} /\ Current(x))

\* Only `up` plans.
LEMMA AheadBefore ==
  ASSUME [Next]_vars, ~Up, NEW acts, NEW n \in Nodes, Ahead(acts, n)'
  PROVE  Ahead(acts, n)
  <1>1. CASE todo' = {}
    BY <1>1 DEF Ahead
  <1>2. CASE UNCHANGED <<pc, todo>>
    BY <1>2 DEF Ahead, Current
  <1>3. CASE pc \notin {"save", "marker"} /\ todo' = todo
    BY <1>3 DEF Ahead
  <1>4. CASE Save
    BY <1>4 DEF Save, Ahead
  <1>5. QED
    BY <1>1, <1>2, <1>3, <1>4, TodoShrinks

\* A step that is at work leaves the others ahead.
LEMMA AheadStays ==
  ASSUME TypeOK, NEW l, NEW a, NEW m, At(l, a, m), todo' = todo,
         NEW acts, NEW n, a \notin acts \/ m # n, Ahead(acts, n)
  PROVE  Ahead(acts, n)'
  <1>1. PICK x \in todo : x.act \in acts /\ x.node = n
    BY DEF Ahead
  <1>2. PICK y \in todo : y.act = a /\ y.node = m /\ Current(y)
    BY DEF At, Doing
  <1>3. ~Current(x)
    BY <1>1, <1>2, OneCurrent
  <1>4. ~Current(x)'
    BY <1>3 DEF Current
  <1>5. QED
    BY <1>1, <1>4 DEF Ahead

LEMMA AheadNow ==
  ASSUME NEW l, NEW a, NEW n, At(l, a, n), l \notin {"save", "marker"}, NEW acts, a \in acts
  PROVE  Ahead(acts, n)
  BY DEF At, Doing, Ahead

\* While a step is at work, no earlier one of its node is ahead.
LEMMA NothingBefore ==
  ASSUME TypeOK, NEW l, NEW a, NEW n, At(l, a, n), l \notin {"save", "marker"}, NEW b, b # a,
         \/ Stage(b) < Stage(a)
         \/ Stage(b) = Stage(a) /\ Rank(b) <= Rank(a)
  PROVE  ~Ahead({b}, n)
  <1> SUFFICES ASSUME NEW x \in todo, x.act = b, x.node = n PROVE FALSE
    BY DEF Ahead
  <1>1. PICK y \in todo : y.act = a /\ y.node = n /\ Current(y)
    BY DEF At, Doing
  <1>2. Precedes(y, x)
    BY <1>1 DEF Current
  <1>3. /\ Stage(a) \in Nat /\ Stage(b) \in Nat /\ Rank(a) \in Nat /\ Rank(b) \in Nat
        /\ n \in Nat
    BY <1>1, StageTyped DEF TypeOK
  <1>4. QED
    BY <1>1, <1>2, <1>3 DEF Precedes

-----------------------------------------------------------------------------
(* The invariant. *)

\* Between two steps the state file is what the run knows.
Saved == pc \notin {"save", "marker"} => mem = file

\* Between the reinstall request and the clearing of what was known.
Unpinning(n) == At("unpin", "setup", n)

\* A node's address is that of its server; a server is only added to a node without.
OwnAddress == \A n \in Nodes : LET s == mem.nodes[n] IN s.ip # None => s.ip = s.vps /\ Listed(s.ip)
Adding == \A n \in Nodes : Ahead({"purchase", "adopt"}, n) => mem.nodes[n].vps = None

\* A key is pinned of the machine whose node knows of the pin, and that machine is
\* only reinstalled by a setup that is about to remove it.
Keys ==
  \A v \in Servers : pin[v] # "none" =>
    /\ vm[v].for # None /\ mem.nodes[vm[v].for].ip = v /\ mem.nodes[vm[v].for].pinned
    /\ pin[v] = "stale" \/ vm[v].state = "installing" => Unpinning(vm[v].for)

\* A node whose hardware counts as captured has its machine's hardware in infra/.
Captured ==
  \A n \in Nodes : LET s == mem.nodes[n]
                   IN s.captured => /\ s.ip # None
                                    /\ \/ Unpinning(n)
                                       \/ hardware[n] = vm[s.ip].disk /\ vm[s.ip].state # "installing"

\* Before a node is pushed to it is captured, and so it is after a setup.
Prepared ==
  \A n \in Nodes :
    /\ Ahead({"push"}, n) => mem.nodes[n].captured \/ Ahead({"capture", "wait_purchase"}, n)
    /\ Ahead({"setup"}, n) => Ahead({"capture"}, n)

\* What is on a machine was made with its own disk facts.
Fits(r, v) == r # NoRev => r.hardware[vm[v].for] = vm[v].disk
OwnFacts == \A v \in Servers : Fits(vm[v].pushed, v) /\ Fits(vm[v].active, v) /\ Fits(vm[v].boot, v)

Facts == OwnAddress /\ Keys /\ Captured /\ OwnFacts
MachineInv == OwnInv /\ Saved /\ (Free({"kill"}) => Facts /\ Adding /\ Prepared)

\* Hypotheses of the step lemmas.
Unkilled == MachineInv /\ Free({"kill"})

LEMMA InvariantParts ==
  ASSUME Unkilled
  PROVE  /\ TypeOK /\ OwnInv /\ Saved /\ OwnAddress /\ Keys /\ Captured /\ OwnFacts /\ Adding /\ Prepared
         /\ vm \in [Servers -> Machines] /\ \A v \in Servers : vm[v] \in Machines
         /\ pin \in [Servers -> {"none", "current", "stale"}]
         /\ hardware \in [Nodes -> Disks \cup {None}]
         /\ \A n \in Nodes : mem.nodes[n] \in NodeStates
         /\ None \notin Servers
  BY NodeTyped DEF Unkilled, MachineInv, Facts, OwnInv, TypeOK

LEMMA RecordedNode ==
  ASSUME TypeOK, NEW n \in Nodes, NEW node, mem' = With(n, node)
  PROVE  mem'.nodes[n] = node /\ \A m \in Nodes \ {n} : mem'.nodes[m] = mem.nodes[m]
  BY DEF With, TypeOK, StateFiles

-----------------------------------------------------------------------------
(* Steps that are about no machine. *)

LEMMA SavedKept ==
  ASSUME Saved, [Next]_vars PROVE Saved'
  <1> USE DEF infraVars, secretVars, runVars, Return, End
  <1>1. ASSUME NEW n \in Nodes, Work(n) PROVE Saved'
    <2>1. CASE Purchase(n) \/ PurchasePending(n) \/ Adopt(n)
      BY <2>1 DEF Purchase, PurchasePending, Adopt, Saved
    <2>2. CASE Unpin(n) \/ WaitRunning(n) \/ Firewall(n) \/ Pin(n) \/ Capture(n) \/ Push(n) \/ Switch(n)
      BY <2>2 DEF Unpin, WaitRunning, Firewall, Pin, Capture, Push, Switch, Saved
    <2>3. CASE Setup(n) \/ Test(n) \/ Probe(n)
      BY <2>3 DEF Setup, Test, Probe, At, Saved
    <2>4. QED
      BY <1>1, <2>1, <2>2, <2>3 DEF Work
  <1>2. ASSUME NEW v \in Servers, Machine(v) PROVE Saved'
    BY <1>2 DEF Machine, Provision, Install, Reset, Reboot, ForgetKey, Saved
  <1>3. CASE Up \/ Save \/ SaveMarker \/ EnsureCert \/ UpsertDns \/ Raise \/ Kill
    BY <1>3 DEF Up, Save, SaveMarker, EnsureCert, UpsertDns, Raise, Kill, Saved
  <1>4. CASE EditTree \/ AddToken \/ CalmDown \/ UNCHANGED vars
    BY <1>4 DEF EditTree, AddToken, CalmDown, vars, Saved
  <1>5. QED
    BY <1>1, <1>2, <1>3, <1>4 DEF Next, Run

\* A step that changes no machine and nothing that is known of one.
LEMMA SameFacts ==
  ASSUME Unkilled, UNCHANGED <<vm, pin, hardware>>, mem'.nodes = mem.nodes,
         \A n \in Nodes : Unpinning(n) => Unpinning(n)'
  PROVE  Facts'
  <1>1. OwnAddress'
    BY InvariantParts DEF OwnAddress, Listed
  <1>2. Keys'
    <2>1. \A v \in Servers : vm[v].for \in Nodes \cup {None}
      BY InvariantParts DEF Machines
    <2>2. QED
      BY <2>1, InvariantParts DEF Keys
  <1>3. Captured'
    BY InvariantParts DEF Captured
  <1>4. OwnFacts'
    BY InvariantParts DEF OwnFacts, Fits
  <1>5. QED
    BY <1>1, <1>2, <1>3, <1>4 DEF Facts

LEMMA BookkeepingKeeps ==
  ASSUME Unkilled,
         \/ Up \/ Save \/ SaveMarker \/ EnsureCert \/ UpsertDns \/ Raise \/ Kill
         \/ EditTree \/ AddToken \/ CalmDown \/ UNCHANGED vars
  PROVE  /\ UNCHANGED <<vm, pin, hardware>> /\ mem'.nodes = mem.nodes
         /\ \A n \in Nodes : Unpinning(n) => Unpinning(n)'
  <1> USE DEF infraVars, secretVars, runVars, Return, End
  <1>1. UNCHANGED <<vm, pin, hardware>>
    BY DEF Up, Save, SaveMarker, EnsureCert, UpsertDns, Raise, Kill, EditTree, AddToken, CalmDown, vars
  <1>2. CASE Up \/ Raise \/ Kill
    <2>1. pc \notin {"save", "marker", "unpin"}
      <3>1. ~Kill
        BY DEF Unkilled, Kill, May, Free
      <3>2. QED
        BY <1>2, <3>1 DEF Up, Raise, Impossible, At
    <2>2. mem' = mem
      BY <1>2, <2>1, InvariantParts DEF Up, Raise, Kill, Saved
    <2>3. QED
      BY <1>1, <2>1, <2>2 DEF Unpinning, At
  <1>3. CASE Save \/ SaveMarker \/ EnsureCert
    <2>1. pc # "unpin" /\ mem' = mem
      BY <1>3 DEF Save, SaveMarker, EnsureCert, At
    <2>2. QED
      BY <1>1, <2>1 DEF Unpinning, At
  <1>4. CASE UpsertDns
    <2>1. pc # "unpin" /\ mem'.nodes = mem.nodes
      BY <1>4, InvariantParts DEF UpsertDns, At, TypeOK, StateFiles
    <2>2. QED
      BY <1>1, <2>1 DEF Unpinning, At
  <1>5. CASE EditTree \/ AddToken \/ CalmDown \/ UNCHANGED vars
    <2>1. UNCHANGED <<pc, todo, mem>>
      BY <1>5 DEF EditTree, AddToken, CalmDown, vars
    <2>2. QED
      BY <1>1, <2>1 DEF Unpinning, At, Doing, Current
  <1>6. QED
    BY <1>2, <1>3, <1>4, <1>5

-----------------------------------------------------------------------------
(* Steps of a machine. *)

\* Only machine v changes, and its pin.
LEMMA MachineFacts ==
  ASSUME Unkilled, NEW v \in Servers, Machine(v) PROVE Facts'
  <1> USE DEF infraVars, secretVars, runVars
  <1> DEFINE n == vm[v].for
  <1>1. UNCHANGED <<hardware, mem, pc, todo>>
    BY DEF Machine, Provision, Install, Reset, Reboot, ForgetKey
  <1>2. \A m \in Nodes : Unpinning(m)' <=> Unpinning(m)
    BY <1>1 DEF Unpinning, At, Doing, Current
  <1>3. /\ \A w \in Servers \ {v} : vm'[w] = vm[w] /\ pin'[w] = pin[w]
        /\ vm'[v].for = n
        /\ Listed(v) => vm'[v].state \in {"initial", "installing", "running"}
        /\ vm'[v].state = "installing" => vm[v].state \in {"paid", "installing"}
        /\ pin'[v] # "none" => pin[v] # "none"
        /\ pin'[v] = "stale" => pin[v] = "stale" \/ vm[v].state = "installing"
        /\ vm'[v].disk # vm[v].disk => vm[v].state = "installing"
        /\ \/ /\ vm'[v].pushed = NoRev /\ vm'[v].active = NoRev /\ vm'[v].boot = NoRev
           \/ /\ vm'[v].disk = vm[v].disk /\ vm'[v].pushed = vm[v].pushed /\ vm'[v].boot = vm[v].boot
              /\ vm'[v].active \in {vm[v].active, vm[v].boot}
    <2>1. CASE Provision(v)
      BY <2>1, InvariantParts DEF Provision, Machines, Listed
    <2>2. CASE Install(v)
      <3>1. PICK d \in Disks :
              vm' = [vm EXCEPT ![v] = [vm[v] EXCEPT !.state = "running", !.disk = d, !.cert = FALSE,
                                                    !.pushed = NoRev, !.active = NoRev, !.boot = NoRev]]
        BY <2>2, InvariantParts DEF Install
      <3>2. /\ vm[v].state = "installing"
            /\ pin' = [pin EXCEPT ![v] = IF pin[v] = "current" THEN "stale" ELSE pin[v]]
        BY <2>2, InvariantParts DEF Install
      <3>3. /\ \A w \in Servers \ {v} : vm'[w] = vm[w]
            /\ vm'[v].for = n /\ vm'[v].state = "running"
            /\ vm'[v].pushed = NoRev /\ vm'[v].active = NoRev /\ vm'[v].boot = NoRev
        BY <3>1, InvariantParts DEF Machines
      <3>4. /\ \A w \in Servers \ {v} : pin'[w] = pin[w]
            /\ pin'[v] # "none" => pin[v] # "none"
        BY <3>2, InvariantParts
      <3>5. QED
        BY <3>2, <3>3, <3>4
    <2>3. CASE Reset(v)
      BY <2>3, InvariantParts DEF Reset, Machines, Listed
    <2>4. CASE Reboot(v)
      BY <2>4, InvariantParts DEF Reboot, Machines, Listed
    <2>5. CASE ForgetKey(v)
      BY <2>5, InvariantParts DEF ForgetKey, Listed
    <2>6. QED
      BY <2>1, <2>2, <2>3, <2>4, <2>5 DEF Machine
  <1>4. OwnAddress'
    <2>1. \A w \in Servers : Listed(w) => vm'[w].state \in {"initial", "installing", "running"}
      BY <1>3 DEF Listed
    <2>2. \A m \in Nodes : mem.nodes[m].ip \in Servers \cup {None}
      BY InvariantParts DEF NodeStates
    <2>3. QED
      BY <1>1, <2>1, <2>2, InvariantParts DEF OwnAddress, Listed
  <1>5. Keys'
    <2> SUFFICES ASSUME NEW w \in Servers, pin'[w] # "none"
                 PROVE  /\ vm'[w].for # None
                        /\ mem'.nodes[vm'[w].for].ip = w /\ mem'.nodes[vm'[w].for].pinned
                        /\ pin'[w] = "stale" \/ vm'[w].state = "installing" => Unpinning(vm[w].for)'
                        /\ vm'[w].for = vm[w].for
      <3>1. (\A w \in Servers : vm'[w].for = vm[w].for) /\ \A w \in Servers : vm[w].for \in Nodes \cup {None}
        BY <1>3, InvariantParts DEF Machines
      <3>2. QED
        BY <3>1 DEF Keys
    <2>1. vm'[w].for = vm[w].for /\ pin[w] # "none"
      BY <1>3
    <2>2. /\ vm[w].for \in Nodes /\ mem.nodes[vm[w].for].ip = w /\ mem.nodes[vm[w].for].pinned
          /\ pin[w] = "stale" \/ vm[w].state = "installing" => Unpinning(vm[w].for)
      BY <2>1, InvariantParts DEF Keys, Machines
    <2>3. Listed(w)
      BY <2>2, InvariantParts DEF OwnAddress
    <2>4. pin'[w] = "stale" \/ vm'[w].state = "installing" => pin[w] = "stale" \/ vm[w].state = "installing"
      BY <1>3, <2>3 DEF Listed
    <2>5. QED
      BY <1>1, <1>2, <2>1, <2>2, <2>4
  <1>6. Captured'
    <2> SUFFICES ASSUME NEW m \in Nodes, mem'.nodes[m].captured
                 PROVE  /\ mem'.nodes[m].ip # None
                        /\ \/ Unpinning(m)'
                           \/ /\ hardware'[m] = vm'[mem'.nodes[m].ip].disk
                              /\ vm'[mem'.nodes[m].ip].state # "installing"
      BY DEF Captured
    <2> DEFINE w == mem.nodes[m].ip
    <2>1. /\ w \in Servers /\ Listed(w)
          /\ (Unpinning(m) \/ (hardware[m] = vm[w].disk /\ vm[w].state # "installing"))
      BY <1>1, InvariantParts DEF Captured, OwnAddress, NodeStates
    <2>2. CASE Unpinning(m)
      BY <1>1, <1>2, <2>1, <2>2
    <2>3. CASE hardware[m] = vm[w].disk /\ vm[w].state # "installing"
      <3>1. vm'[w].disk = vm[w].disk /\ vm'[w].state # "installing"
        BY <1>3, <2>1, <2>3 DEF Listed
      <3>2. QED
        BY <1>1, <2>1, <2>3, <3>1
    <2>4. QED
      BY <2>1, <2>2, <2>3
  <1>7. OwnFacts'
    BY <1>3, InvariantParts DEF OwnFacts, Fits
  <1>8. QED
    BY <1>4, <1>5, <1>6, <1>7 DEF Facts

-----------------------------------------------------------------------------
(* Steps of the run. *)

\* While nothing is being unpinned.
LEMMA NotUnpinning ==
  ASSUME Unkilled, pc # "unpin"
  PROVE  /\ \A v \in Servers : pin[v] # "none" =>
              /\ pin[v] = "current" /\ vm[v].state # "installing"
              /\ vm[v].for \in Nodes /\ mem.nodes[vm[v].for].ip = v /\ mem.nodes[vm[v].for].pinned
         /\ \A n \in Nodes : mem.nodes[n].captured =>
              /\ mem.nodes[n].ip \in Servers
              /\ hardware[n] = vm[mem.nodes[n].ip].disk /\ vm[mem.nodes[n].ip].state # "installing"
         /\ \A n \in Nodes : mem.nodes[n].ip # None =>
              /\ mem.nodes[n].ip \in Servers /\ mem.nodes[n].ip = mem.nodes[n].vps /\ Listed(mem.nodes[n].ip)
              /\ vm[mem.nodes[n].ip].for = n
  <1>1. \A n \in Nodes : ~Unpinning(n)
    BY DEF Unpinning, At
  <1>2. \A v \in Servers : vm[v].for \in Nodes \cup {None}
    BY InvariantParts DEF Machines
  <1>3. \A n \in Nodes : mem.nodes[n].ip \in Servers \cup {None}
    BY InvariantParts DEF NodeStates
  <1>4. \A n \in Nodes : mem.nodes[n].vps # None => vm[mem.nodes[n].vps].for = n
    BY NodeServer, InvariantParts
  <1>5. \A v \in Servers : pin[v] # "none" =>
          /\ pin[v] = "current" /\ vm[v].state # "installing"
          /\ vm[v].for \in Nodes /\ mem.nodes[vm[v].for].ip = v /\ mem.nodes[vm[v].for].pinned
    BY <1>1, <1>2, InvariantParts DEF Keys
  <1>6. \A n \in Nodes : mem.nodes[n].ip # None =>
          /\ mem.nodes[n].ip \in Servers /\ mem.nodes[n].ip = mem.nodes[n].vps /\ Listed(mem.nodes[n].ip)
          /\ vm[mem.nodes[n].ip].for = n
    <2>1. OwnAddress
      BY InvariantParts
    <2>2. QED
      BY <1>3, <1>4, <2>1 DEF OwnAddress
  <1>7. \A n \in Nodes : mem.nodes[n].captured =>
          /\ mem.nodes[n].ip \in Servers
          /\ hardware[n] = vm[mem.nodes[n].ip].disk /\ vm[mem.nodes[n].ip].state # "installing"
    <2>1. Captured
      BY InvariantParts
    <2>2. QED
      BY <1>1, <1>3, <2>1 DEF Captured
  <1>8. QED
    BY <1>5, <1>6, <1>7

\* The same, as what a step has to show that leaves nothing being unpinned.
LEMMA NowUnpinning ==
  ASSUME /\ \A v \in Servers : pin'[v] # "none" =>
              /\ pin'[v] # "stale" /\ vm'[v].state # "installing"
              /\ vm'[v].for # None /\ mem'.nodes[vm'[v].for].ip = v /\ mem'.nodes[vm'[v].for].pinned,
         \A n \in Nodes : mem'.nodes[n].captured =>
              /\ mem'.nodes[n].ip # None
              /\ hardware'[n] = vm'[mem'.nodes[n].ip].disk /\ vm'[mem'.nodes[n].ip].state # "installing",
         \A n \in Nodes : mem'.nodes[n].ip # None =>
              /\ mem'.nodes[n].ip = mem'.nodes[n].vps
              /\ vm'[mem'.nodes[n].ip].state \in {"initial", "installing", "running"},
         OwnFacts'
  PROVE  Facts'
  <1>1. Keys'
    BY DEF Keys
  <1>2. Captured'
    BY DEF Captured
  <1>3. OwnAddress'
    BY DEF OwnAddress, Listed
  <1>4. QED
    BY <1>1, <1>2, <1>3 DEF Facts

\* A server is added.
LEMMA ServerFacts ==
  ASSUME Unkilled, NEW n \in Nodes, Purchase(n) \/ PurchasePending(n) \/ Adopt(n) PROVE Facts'
  <1> USE DEF infraVars, secretVars, runVars, Return, End
  <1> DEFINE s == mem.nodes[n]
  <1>1. pc = "run" /\ pc' # "unpin" /\ UNCHANGED <<pin, hardware>>
    BY DEF Purchase, PurchasePending, Adopt, At
  <1>2. s.vps = None
    <2>1. At("run", "purchase", n) \/ At("run", "adopt", n)
      BY DEF Purchase, PurchasePending, Adopt, At
    <2>2. Ahead({"purchase", "adopt"}, n)
      BY <2>1, AheadNow
    <2>3. QED
      BY <2>2, InvariantParts DEF Adding
  <1>3. /\ \A m \in Nodes \ {n} : mem'.nodes[m] = mem.nodes[m]
        /\ mem'.nodes[n].ip = s.ip /\ mem'.nodes[n].captured = s.captured
    <2>1. \/ mem' = mem
          \/ \E v \in Servers : mem' = With(n, [s EXCEPT !.vps = v])
          \/ \E v \in Servers : mem' = With(n, [s EXCEPT !.pending = v])
          \/ \E x \in todo : mem' = With(n, [s EXCEPT !.vps = x.vps, !.pending = None])
      BY <1>1, InvariantParts DEF Purchase, PurchasePending, Adopt, Saved
    <2>2. ASSUME NEW node, node.ip = s.ip /\ node.captured = s.captured, mem' = With(n, node)
          PROVE  <1>3!:
      BY <2>2, RecordedNode, InvariantParts
    <2>3. \A v : /\ [s EXCEPT !.vps = v].ip = s.ip /\ [s EXCEPT !.vps = v].captured = s.captured
                 /\ [s EXCEPT !.pending = v].ip = s.ip /\ [s EXCEPT !.pending = v].captured = s.captured
                 /\ [s EXCEPT !.vps = v, !.pending = None].ip = s.ip
                 /\ [s EXCEPT !.vps = v, !.pending = None].captured = s.captured
      BY InvariantParts DEF NodeStates
    <2>4. QED
      BY <2>1, <2>2, <2>3
  <1>4. s.ip = None /\ ~s.captured
    BY <1>1, <1>2, NotUnpinning
  <1>5. \A w \in Servers : vm[w].state # "none" => vm'[w] = vm[w]
    BY InvariantParts DEF Purchase, PurchasePending, Adopt, NextServer, Bought
  <1>6. OwnFacts'
    <2>1. \A w \in Servers : vm'[w] = vm[w] \/ (/\ vm'[w].pushed = NoRev /\ vm'[w].active = NoRev
                                                /\ vm'[w].boot = NoRev)
      <3>1. CASE Adopt(n)
        BY <3>1 DEF Adopt
      <3>2. CASE Purchase(n) \/ PurchasePending(n)
        <4>1. PICK v \in Servers, st \in {"installing", "paid"}, m \in {n, None} : Bought(v, n, st, m)
          BY <3>2 DEF Purchase, PurchasePending
        <4>2. vm' = [vm EXCEPT ![v] = [NoServer EXCEPT !.state = st, !.for = n, !.name = m]]
          BY <4>1 DEF Bought
        <4>3. /\ \A w \in Servers \ {v} : vm'[w] = vm[w]
              /\ vm'[v].pushed = NoRev /\ vm'[v].active = NoRev /\ vm'[v].boot = NoRev
          BY <4>2, InvariantParts DEF NoServer
        <4>4. QED
          BY <4>3
      <3>3. QED
        BY <3>1, <3>2
    <2>2. QED
      BY <2>1, InvariantParts DEF OwnFacts, Fits
  <1>7. \A m \in Nodes : mem'.nodes[m].ip # None \/ mem'.nodes[m].captured =>
          m # n /\ mem'.nodes[m] = mem.nodes[m]
    BY <1>3, <1>4
  <1>8. \A m \in Nodes : mem'.nodes[m].ip # None =>
          /\ mem'.nodes[m].ip \in Servers /\ mem'.nodes[m].ip = mem'.nodes[m].vps
          /\ vm'[mem'.nodes[m].ip].state \in {"initial", "installing", "running"}
          /\ vm'[mem'.nodes[m].ip] = vm[mem.nodes[m].ip]
    <2>1. \A m \in Nodes : mem.nodes[m].ip # None =>
            /\ mem.nodes[m].ip \in Servers /\ mem.nodes[m].ip = mem.nodes[m].vps
            /\ vm[mem.nodes[m].ip].state \in {"initial", "installing", "running"}
      BY <1>1, NotUnpinning DEF Listed
    <2>2. \A m \in Nodes : mem.nodes[m].ip # None => vm'[mem.nodes[m].ip] = vm[mem.nodes[m].ip]
      BY <1>5, <2>1
    <2>3. QED
      BY <1>7, <2>1, <2>2
  <1>9. \A m \in Nodes : mem'.nodes[m].captured =>
          /\ mem'.nodes[m].ip # None
          /\ hardware'[m] = vm'[mem'.nodes[m].ip].disk /\ vm'[mem'.nodes[m].ip].state # "installing"
    BY <1>1, <1>7, <1>8, NotUnpinning
  <1>10. \A v \in Servers : pin'[v] # "none" =>
           /\ pin'[v] # "stale" /\ vm'[v].state # "installing"
           /\ vm'[v].for # None /\ mem'.nodes[vm'[v].for].ip = v /\ mem'.nodes[vm'[v].for].pinned
    <2> SUFFICES ASSUME NEW v \in Servers, pin[v] # "none"
                 PROVE  /\ pin[v] # "stale" /\ vm'[v].state # "installing"
                        /\ vm'[v].for # None /\ mem'.nodes[vm'[v].for].ip = v /\ mem'.nodes[vm'[v].for].pinned
      BY <1>1
    <2>1. /\ pin[v] = "current" /\ vm[v].state # "installing"
          /\ vm[v].for \in Nodes /\ mem.nodes[vm[v].for].ip = v /\ mem.nodes[vm[v].for].pinned
      BY <1>1, NotUnpinning
    <2>2. vm'[v] = vm[v]
      <3>1. v # None => vm[mem.nodes[vm[v].for].ip].state \in {"initial", "installing", "running"}
        BY <1>1, <2>1, NotUnpinning DEF Listed
      <3>2. QED
        BY <1>5, <2>1, <3>1, InvariantParts
    <2>3. vm[v].for # n
      BY <1>4, <2>1
    <2>4. QED
      BY <1>3, <2>1, <2>2, <2>3
  <1>11. QED
    BY <1>6, <1>8, <1>9, <1>10, NowUnpinning

\* A setup is requested ...
LEMMA SetupFacts ==
  ASSUME Unkilled, NEW n \in Nodes, Setup(n) PROVE Facts'
  <1> USE DEF infraVars, secretVars, runVars
  <1> DEFINE v == mem.nodes[n].vps
  <1>1. pc = "run" /\ UNCHANGED <<pin, hardware, mem>>
    BY DEF Setup, At
  <1>2. Unpinning(n)'
    BY DEF Setup, Unpinning, At, Doing, Current
  <1>3. vm' = [vm EXCEPT ![v] = [vm[v] EXCEPT !.state = "installing", !.name = n]]
    BY InvariantParts DEF Setup
  <1>4. v \in Servers \cup {None} /\ (v # None => vm[v].for = n)
    BY NodeServer, InvariantParts
  <1>5. \A w \in Servers : /\ vm'[w].for = vm[w].for /\ vm'[w].disk = vm[w].disk
                           /\ vm'[w].pushed = vm[w].pushed /\ vm'[w].active = vm[w].active
                           /\ vm'[w].boot = vm[w].boot
                           /\ vm'[w].state = vm[w].state \/ (vm'[w].state = "installing" /\ vm[w].for = n)
    BY <1>3, <1>4, InvariantParts DEF Machines
  <1>6. OwnFacts'
    BY <1>5, InvariantParts DEF OwnFacts, Fits
  <1>7. OwnAddress'
    <2>1. \A m \in Nodes : mem.nodes[m].ip # None =>
            /\ mem.nodes[m].ip \in Servers /\ mem.nodes[m].ip = mem.nodes[m].vps /\ Listed(mem.nodes[m].ip)
      BY <1>1, NotUnpinning
    <2>2. QED
      BY <1>1, <1>5, <2>1 DEF OwnAddress, Listed
  <1>8. Keys'
    <2> SUFFICES ASSUME NEW w \in Servers, pin[w] # "none"
                 PROVE  /\ vm[w].for # None /\ mem.nodes[vm[w].for].ip = w /\ mem.nodes[vm[w].for].pinned
                        /\ pin[w] = "stale" \/ vm'[w].state = "installing" => vm[w].for = n
      <3>1. ASSUME NEW w \in Servers, pin'[w] # "none"
            PROVE  /\ vm'[w].for # None /\ mem'.nodes[vm'[w].for].ip = w /\ mem'.nodes[vm'[w].for].pinned
                   /\ pin'[w] = "stale" \/ vm'[w].state = "installing" => Unpinning(vm[w].for)'
        <4>1. vm'[w].for = vm[w].for /\ pin' = pin /\ mem' = mem
          BY <1>1, <1>5
        <4>2. vm[w].for = n => Unpinning(vm[w].for)'
          BY <1>2, <4>1 DEF Unpinning, At
        <4>3. QED
          BY <3>1, <4>1, <4>2
      <3>2. QED
        BY <3>1 DEF Keys
    <2>1. /\ pin[w] = "current" /\ vm[w].state # "installing"
          /\ vm[w].for \in Nodes /\ mem.nodes[vm[w].for].ip = w /\ mem.nodes[vm[w].for].pinned
      BY <1>1, NotUnpinning
    <2>2. QED
      BY <1>5, <2>1
  <1>9. Captured'
    <2> SUFFICES ASSUME NEW m \in Nodes, mem.nodes[m].captured, m # n
                 PROVE  /\ mem.nodes[m].ip # None
                        /\ hardware[m] = vm'[mem.nodes[m].ip].disk
                        /\ vm'[mem.nodes[m].ip].state # "installing"
      <3>1. mem.nodes[n].captured => mem.nodes[n].ip # None
        BY <1>1, NotUnpinning
      <3>2. QED
        BY <1>1, <1>2, <3>1 DEF Captured
    <2>1. /\ mem.nodes[m].ip \in Servers /\ vm[mem.nodes[m].ip].for = m
          /\ hardware[m] = vm[mem.nodes[m].ip].disk /\ vm[mem.nodes[m].ip].state # "installing"
      BY <1>1, NotUnpinning
    <2>2. QED
      BY <1>5, <2>1
  <1>10. QED
    BY <1>6, <1>7, <1>8, <1>9 DEF Facts

\* ... and what was known of the old machine is forgotten.
LEMMA UnpinFacts ==
  ASSUME Unkilled, NEW n \in Nodes, Unpin(n) PROVE Facts'
  <1> USE DEF infraVars, secretVars, runVars, Return
  <1> DEFINE s == mem.nodes[n]
             forgotten == [s EXCEPT !.pinned = FALSE, !.captured = FALSE]
  <1>1. UNCHANGED <<vm, hardware>> /\ mem' = With(n, forgotten) /\ Unpinning(n)
    BY DEF Unpin, Unpinning
  <1>2. pin' = IF s.pinned /\ s.ip # None THEN [pin EXCEPT ![s.ip] = "none"] ELSE pin
    BY DEF Unpin
  <1>3. /\ mem'.nodes[n] = forgotten /\ \A m \in Nodes \ {n} : mem'.nodes[m] = mem.nodes[m]
        /\ forgotten.ip = s.ip /\ forgotten.vps = s.vps /\ forgotten.captured = FALSE
    <2>1. forgotten.ip = s.ip /\ forgotten.vps = s.vps /\ forgotten.captured = FALSE
      BY InvariantParts DEF NodeStates
    <2>2. QED
      BY <1>1, <2>1, RecordedNode, InvariantParts
  <1>4. \A m \in Nodes \ {n} : ~Unpinning(m)
    BY <1>1, OneNode, InvariantParts DEF Unpinning
  <1>5. OwnFacts'
    BY <1>1, InvariantParts DEF OwnFacts, Fits
  <1>6. \A m \in Nodes : mem'.nodes[m].ip # None =>
          /\ mem'.nodes[m].ip = mem'.nodes[m].vps
          /\ vm'[mem'.nodes[m].ip].state \in {"initial", "installing", "running"}
    <2>1. \A m \in Nodes : mem'.nodes[m].ip = mem.nodes[m].ip /\ mem'.nodes[m].vps = mem.nodes[m].vps
      BY <1>3
    <2>2. QED
      BY <1>1, <2>1, InvariantParts DEF OwnAddress, Listed
  <1>7. \A m \in Nodes : mem'.nodes[m].captured =>
          /\ mem'.nodes[m].ip # None
          /\ hardware'[m] = vm'[mem'.nodes[m].ip].disk /\ vm'[mem'.nodes[m].ip].state # "installing"
    <2>1. \A m \in Nodes : mem'.nodes[m].captured => m # n /\ mem'.nodes[m] = mem.nodes[m]
      BY <1>3
    <2>2. QED
      BY <1>1, <1>4, <2>1, InvariantParts DEF Captured
  <1>8. \A v \in Servers : pin'[v] # "none" =>
          /\ pin'[v] # "stale" /\ vm'[v].state # "installing"
          /\ vm'[v].for # None /\ mem'.nodes[vm'[v].for].ip = v /\ mem'.nodes[vm'[v].for].pinned
    <2> SUFFICES ASSUME NEW v \in Servers, pin'[v] # "none"
                 PROVE  /\ pin'[v] # "stale" /\ vm[v].state # "installing"
                        /\ vm[v].for # None /\ mem'.nodes[vm[v].for].ip = v /\ mem'.nodes[vm[v].for].pinned
      BY <1>1
    <2>1. pin'[v] = pin[v]
      BY <1>2, InvariantParts
    <2>2. /\ vm[v].for \in Nodes /\ mem.nodes[vm[v].for].ip = v /\ mem.nodes[vm[v].for].pinned
          /\ pin[v] = "stale" \/ vm[v].state = "installing" => Unpinning(vm[v].for)
      BY <2>1, InvariantParts DEF Keys, Machines
    <2>3. vm[v].for # n
      <3> SUFFICES ASSUME vm[v].for = n PROVE FALSE
        OBVIOUS
      <3>1. s.pinned /\ s.ip = v /\ v # None
        BY <2>2, InvariantParts
      <3>2. pin'[v] = "none"
        BY <1>2, <3>1, InvariantParts
      <3>3. QED
        BY <3>2
    <2>4. QED
      BY <1>3, <1>4, <2>1, <2>2, <2>3
  <1>9. QED
    BY <1>5, <1>6, <1>7, <1>8, NowUnpinning

\* A step of node n that leaves every machine what it is.
LEMMA StepFacts ==
  ASSUME Unkilled, pc # "unpin", NEW n \in Nodes, OwnFacts',
         \A w \in Servers : /\ vm'[w].for = vm[w].for /\ vm'[w].disk = vm[w].disk
                            /\ vm'[w].state = vm[w].state,
         \A m \in Nodes \ {n} : mem'.nodes[m] = mem.nodes[m] /\ hardware'[m] = hardware[m],
         mem'.nodes[n].vps = mem.nodes[n].vps,
         mem.nodes[n].ip # None => mem'.nodes[n].ip = mem.nodes[n].ip,
         mem'.nodes[n].ip # mem.nodes[n].ip =>
           mem'.nodes[n].ip = mem.nodes[n].vps /\ vm[mem.nodes[n].vps].state = "running",
         mem.nodes[n].pinned => mem'.nodes[n].pinned,
         mem'.nodes[n].captured =>
           \/ mem.nodes[n].captured /\ hardware'[n] = hardware[n]
           \/ /\ mem.nodes[n].ip # None /\ vm[mem.nodes[n].ip].state = "running"
              /\ hardware'[n] = vm[mem.nodes[n].ip].disk,
         \A w \in Servers : \/ pin'[w] = pin[w]
                            \/ /\ pin'[w] = "current" /\ w = mem.nodes[n].ip
                               /\ vm[w].state = "running" /\ mem'.nodes[n].pinned
  PROVE  Facts'
  <1> DEFINE s == mem.nodes[n]
  <1>1. s.vps \in Servers \cup {None} /\ s.ip \in Servers \cup {None}
    BY InvariantParts DEF NodeStates
  <1>2. \A m \in Nodes : mem.nodes[m].ip # None =>
          /\ mem.nodes[m].ip \in Servers /\ mem.nodes[m].ip = mem.nodes[m].vps
          /\ vm[mem.nodes[m].ip].state \in {"initial", "installing", "running"}
          /\ vm[mem.nodes[m].ip].for = m
    BY NotUnpinning DEF Listed
  <1>3. ASSUME NEW m \in Nodes, mem'.nodes[m].ip # None
        PROVE  /\ mem'.nodes[m].ip \in Servers
               /\ mem'.nodes[m].ip = mem'.nodes[m].vps
               /\ vm'[mem'.nodes[m].ip].state \in {"initial", "installing", "running"}
    <2>1. CASE m = n /\ mem'.nodes[n].ip # s.ip
      <3>1. mem'.nodes[n].ip = s.vps /\ vm[s.vps].state = "running" /\ s.vps \in Servers
        BY <1>1, <1>3, <2>1
      <3>2. vm'[s.vps].state = "running"
        BY <3>1
      <3>3. QED
        BY <2>1, <3>1, <3>2
    <2>2. CASE m # n \/ mem'.nodes[n].ip = s.ip
      <3>1. mem'.nodes[m].ip = mem.nodes[m].ip /\ mem'.nodes[m].vps = mem.nodes[m].vps
        BY <2>2
      <3>2. /\ mem.nodes[m].ip \in Servers /\ mem.nodes[m].ip = mem.nodes[m].vps
            /\ vm[mem.nodes[m].ip].state \in {"initial", "installing", "running"}
        BY <1>2, <1>3, <3>1
      <3>3. vm'[mem.nodes[m].ip].state = vm[mem.nodes[m].ip].state
        BY <3>2
      <3>4. QED
        BY <3>1, <3>2, <3>3
    <2>3. QED
      BY <2>1, <2>2
  <1>4. ASSUME NEW m \in Nodes, mem'.nodes[m].captured
        PROVE  /\ mem'.nodes[m].ip # None
               /\ hardware'[m] = vm'[mem'.nodes[m].ip].disk /\ vm'[mem'.nodes[m].ip].state # "installing"
    <2>1. CASE m = n /\ /\ s.ip # None /\ vm[s.ip].state = "running"
                        /\ hardware'[n] = vm[s.ip].disk
      <3>1. vm'[s.ip].disk = vm[s.ip].disk /\ vm'[s.ip].state = vm[s.ip].state
        BY <1>1, <2>1
      <3>2. mem'.nodes[m].ip = s.ip
        BY <2>1
      <3>3. QED
        BY <2>1, <3>1, <3>2
    <2>2. CASE mem.nodes[m].captured /\ hardware'[m] = hardware[m]
      <3>1. /\ mem.nodes[m].ip \in Servers
            /\ hardware[m] = vm[mem.nodes[m].ip].disk /\ vm[mem.nodes[m].ip].state # "installing"
        BY <2>2, NotUnpinning
      <3>2. mem'.nodes[m].ip = mem.nodes[m].ip
        BY <3>1, InvariantParts
      <3>3. QED
        BY <2>2, <3>1, <3>2, InvariantParts
    <2>3. QED
      BY <1>4, <2>1, <2>2
  <1>5. ASSUME NEW v \in Servers, pin'[v] # "none"
        PROVE  /\ pin'[v] # "stale" /\ vm'[v].state # "installing"
               /\ vm'[v].for # None /\ mem'.nodes[vm'[v].for].ip = v /\ mem'.nodes[vm'[v].for].pinned
    <2>1. CASE pin'[v] = pin[v]
      <3>1. /\ pin[v] = "current" /\ vm[v].state # "installing"
            /\ vm[v].for \in Nodes /\ mem.nodes[vm[v].for].ip = v /\ mem.nodes[vm[v].for].pinned
        BY <1>5, <2>1, NotUnpinning
      <3>2. mem'.nodes[vm[v].for].ip = v /\ mem'.nodes[vm[v].for].pinned
        <4>1. CASE vm[v].for = n
          BY <3>1, <4>1, InvariantParts
        <4>2. CASE vm[v].for # n
          BY <3>1, <4>2
        <4>3. QED
          BY <4>1, <4>2
      <3>3. vm'[v].for = vm[v].for /\ vm'[v].state = vm[v].state
        OBVIOUS
      <3>4. QED
        BY <2>1, <3>1, <3>2, <3>3
    <2>2. CASE pin'[v] = "current" /\ v = s.ip /\ vm[v].state = "running" /\ mem'.nodes[n].pinned
      <3>1. vm[v].for = n /\ v # None
        BY <1>2, <2>2, InvariantParts
      <3>2. mem'.nodes[n].ip = v
        BY <2>2, <3>1
      <3>3. QED
        BY <2>2, <3>1, <3>2
    <2>3. QED
      BY <2>1, <2>2
  <1>6. QED
    BY <1>3, <1>4, <1>5, NowUnpinning

\* A configuration is only pushed to a machine whose hardware is captured.
LEMMA PushIsPrepared ==
  ASSUME Unkilled, NEW n \in Nodes, At("run", "push", n)
  PROVE  mem.nodes[n].captured
  <1>1. Ahead({"push"}, n)
    BY AheadNow
  <1>2. ~Ahead({"capture"}, n) /\ ~Ahead({"wait_purchase"}, n)
    <2>1. Stage("capture") < Stage("push") /\ Stage("wait_purchase") < Stage("push")
      BY DEF Stage
    <2>2. ~Ahead({"capture"}, n)
      BY <2>1, NothingBefore, InvariantParts
    <2>3. ~Ahead({"wait_purchase"}, n)
      BY <2>1, NothingBefore, InvariantParts
    <2>4. QED
      BY <2>2, <2>3
  <1>3. ~Ahead({"capture", "wait_purchase"}, n)
    BY <1>2 DEF Ahead
  <1>4. QED
    BY <1>1, <1>3, InvariantParts DEF Prepared

LEMMA RunFacts ==
  ASSUME Unkilled, NEW n \in Nodes,
         \/ WaitRunning(n) \/ Firewall(n) \/ Pin(n) \/ Capture(n)
         \/ Push(n) \/ Test(n) \/ Probe(n) \/ Switch(n)
  PROVE  Facts'
  <1> USE DEF infraVars, secretVars, runVars, Return
  <1> DEFINE s == mem.nodes[n]
  <1>1. pc # "unpin"
    BY DEF WaitRunning, Firewall, Pin, Capture, Push, Test, Probe, Switch, At
  <1>2. s \in NodeStates /\ s.vps \in Servers \cup {None} /\ s.ip \in Servers \cup {None}
    BY InvariantParts DEF NodeStates
  <1>3. s.ip # None => s.ip \in Servers /\ s.ip = s.vps /\ vm[s.ip].for = n
    BY <1>1, NotUnpinning
  <1>4. ASSUME UNCHANGED vm PROVE OwnFacts'
    BY <1>4, InvariantParts DEF OwnFacts, Fits
  <1>5. CASE WaitRunning(n)
    <2> DEFINE node == [s EXCEPT !.ip = s.vps]
    <2>1. mem' = With(n, node) /\ UNCHANGED <<vm, pin, hardware>> /\ vm[s.vps].state = "running"
      BY <1>5 DEF WaitRunning, Answers
    <2>2. node.ip = s.vps /\ node.vps = s.vps /\ node.pinned = s.pinned /\ node.captured = s.captured
      BY <1>2 DEF NodeStates
    <2>3. mem'.nodes[n] = node /\ \A m \in Nodes \ {n} : mem'.nodes[m] = mem.nodes[m]
      BY <2>1, RecordedNode, InvariantParts
    <2>4. QED
      BY <1>1, <1>3, <1>4, <2>1, <2>2, <2>3, StepFacts
  <1>6. CASE Pin(n)
    <2> DEFINE node == [s EXCEPT !.pinned = TRUE]
    <2>1. /\ mem' = With(n, node) /\ UNCHANGED <<vm, hardware>>
          /\ pin' = [pin EXCEPT ![s.ip] = "current"] /\ vm[s.ip].state = "running"
      BY <1>6 DEF Pin, Answers
    <2>2. node.ip = s.ip /\ node.vps = s.vps /\ node.pinned /\ node.captured = s.captured
      BY <1>2 DEF NodeStates
    <2>3. mem'.nodes[n] = node /\ \A m \in Nodes \ {n} : mem'.nodes[m] = mem.nodes[m]
      BY <2>1, RecordedNode, InvariantParts
    <2>4. \A w \in Servers : pin'[w] = pin[w] \/ (pin'[w] = "current" /\ w = s.ip)
      BY <2>1, InvariantParts
    <2>5. mem'.nodes[n].ip = s.ip /\ mem'.nodes[n].vps = s.vps /\ mem'.nodes[n].captured = s.captured
      BY <2>2, <2>3
    <2>6. mem'.nodes[n].pinned
      BY <2>2, <2>3
    <2>7. \A w \in Servers : \/ pin'[w] = pin[w]
                             \/ /\ pin'[w] = "current" /\ w = s.ip
                                /\ vm[w].state = "running" /\ mem'.nodes[n].pinned
      BY <2>1, <2>4, <2>6
    <2>8. OwnFacts' /\ vm' = vm /\ hardware' = hardware
      BY <1>4, <2>1
    <2> HIDE DEF node
    <2>9. QED
      BY <1>1, <2>3, <2>5, <2>6, <2>7, <2>8, StepFacts
  <1>7. CASE Capture(n)
    <2> DEFINE node == [s EXCEPT !.captured = TRUE]
    <2>1. /\ mem' = With(n, node) /\ UNCHANGED <<vm, pin>>
          /\ hardware' = [hardware EXCEPT ![n] = vm[s.ip].disk]
          /\ s.ip # None /\ vm[s.ip].state = "running"
      BY <1>7 DEF Capture, Reached, Answers
    <2>2. node.ip = s.ip /\ node.vps = s.vps /\ node.pinned = s.pinned
      BY <1>2 DEF NodeStates
    <2>3. mem'.nodes[n] = node /\ \A m \in Nodes \ {n} : mem'.nodes[m] = mem.nodes[m]
      BY <2>1, RecordedNode, InvariantParts
    <2>4. hardware'[n] = vm[s.ip].disk /\ \A m \in Nodes \ {n} : hardware'[m] = hardware[m]
      BY <2>1, InvariantParts
    <2>5. QED
      BY <1>1, <1>4, <2>1, <2>2, <2>3, <2>4, StepFacts
  <1>8. CASE Probe(n)
    <2>1. UNCHANGED <<vm, pin, hardware, mem>>
      BY <1>8 DEF Probe
    <2>2. QED
      BY <1>1, <1>4, <2>1, StepFacts
  <1>9. CASE Firewall(n)
    <2>1. UNCHANGED <<pin, hardware, mem>>
      BY <1>9 DEF Firewall
    <2>2. \A w \in Servers : /\ vm'[w].for = vm[w].for /\ vm'[w].disk = vm[w].disk
                             /\ vm'[w].state = vm[w].state /\ vm'[w].pushed = vm[w].pushed
                             /\ vm'[w].active = vm[w].active /\ vm'[w].boot = vm[w].boot
      BY <1>9, InvariantParts DEF Firewall, Machines
    <2>3. OwnFacts'
      BY <2>2, InvariantParts DEF OwnFacts, Fits
    <2>4. QED
      BY <1>1, <2>1, <2>2, <2>3, StepFacts
  <1>10. CASE Push(n)
    <2>1. UNCHANGED <<pin, hardware, mem>> /\ s.ip \in Servers /\ At("run", "push", n)
      BY <1>2, <1>10 DEF Push, Reached
    <2>2. vm' = [vm EXCEPT ![s.ip] = [vm[s.ip] EXCEPT !.pushed = Rev, !.cert = @ \/ token]]
      BY <1>10, InvariantParts DEF Push
    <2>3. \A w \in Servers : /\ vm'[w].for = vm[w].for /\ vm'[w].disk = vm[w].disk
                             /\ vm'[w].state = vm[w].state
                             /\ vm'[w].active = vm[w].active /\ vm'[w].boot = vm[w].boot
                             /\ vm'[w].pushed = IF w = s.ip THEN Rev ELSE vm[w].pushed
      BY <2>1, <2>2, InvariantParts DEF Machines
    <2>4. hardware[n] = vm[s.ip].disk
      BY <1>1, <2>1, PushIsPrepared, NotUnpinning
    <2>5. Rev.hardware[vm[s.ip].for] = vm[s.ip].disk
      BY <1>3, <2>1, <2>4, InvariantParts DEF Rev
    <2>6. OwnFacts'
      BY <2>3, <2>5, InvariantParts DEF OwnFacts, Fits
    <2>7. QED
      BY <1>1, <2>1, <2>3, <2>6, StepFacts
  <1>11. CASE Test(n) \/ Switch(n)
    <2>1. UNCHANGED <<pin, hardware>> /\ s.ip \in Servers
      BY <1>2, <1>11 DEF Test, Switch, Reached
    <2>2. \/ vm' = [vm EXCEPT ![s.ip] = [vm[s.ip] EXCEPT !.active = vm[s.ip].pushed]]
          \/ vm' = [vm EXCEPT ![s.ip] = [vm[s.ip] EXCEPT !.active = vm[s.ip].pushed,
                                                         !.boot = vm[s.ip].pushed]]
      BY <1>11, InvariantParts DEF Test, Switch
    <2>3. \A w \in Servers : /\ vm'[w].for = vm[w].for /\ vm'[w].disk = vm[w].disk
                             /\ vm'[w].state = vm[w].state /\ vm'[w].pushed = vm[w].pushed
                             /\ vm'[w].active \in {vm[w].active, vm[w].pushed}
                             /\ vm'[w].boot \in {vm[w].boot, vm[w].pushed}
      <3>1. ASSUME vm' = [vm EXCEPT ![s.ip] = [vm[s.ip] EXCEPT !.active = vm[s.ip].pushed]]
            PROVE  <2>3!:
        BY <2>1, <3>1, InvariantParts DEF Machines
      <3>2. ASSUME vm' = [vm EXCEPT ![s.ip] = [vm[s.ip] EXCEPT !.active = vm[s.ip].pushed,
                                                               !.boot = vm[s.ip].pushed]]
            PROVE  <2>3!:
        BY <2>1, <3>2, InvariantParts DEF Machines
      <3>3. QED
        BY <2>2, <3>1, <3>2
    <2>4. OwnFacts'
      BY <2>3, InvariantParts DEF OwnFacts, Fits
    <2>5. /\ \A m \in Nodes \ {n} : mem'.nodes[m] = mem.nodes[m]
          /\ mem'.nodes[n].ip = s.ip /\ mem'.nodes[n].vps = s.vps
          /\ mem'.nodes[n].pinned = s.pinned /\ mem'.nodes[n].captured = s.captured
      <3>1. mem' = mem \/ mem' = With(n, [s EXCEPT !.applied = Rev])
        BY <1>11 DEF Test, Switch
      <3>2. /\ [s EXCEPT !.applied = Rev].ip = s.ip /\ [s EXCEPT !.applied = Rev].vps = s.vps
            /\ [s EXCEPT !.applied = Rev].pinned = s.pinned
            /\ [s EXCEPT !.applied = Rev].captured = s.captured
        BY <1>2 DEF NodeStates
      <3>3. QED
        BY <3>1, <3>2, RecordedNode, InvariantParts
    <2>6. QED
      BY <1>1, <2>1, <2>3, <2>4, <2>5, StepFacts
  <1>12. QED
    BY <1>5, <1>6, <1>7, <1>8, <1>9, <1>10, <1>11

LEMMA FactsKept ==
  ASSUME Unkilled, [Next]_vars PROVE Facts'
  <1>1. ASSUME NEW n \in Nodes, Work(n) PROVE Facts'
    BY <1>1, ServerFacts, SetupFacts, UnpinFacts, RunFacts DEF Work
  <1>2. QED
    BY <1>1, MachineFacts, BookkeepingKeeps, SameFacts DEF Next, Run

-----------------------------------------------------------------------------
(* The order of the steps. *)

LEMMA PlanOfNode ==
  ASSUME TypeOK
  PROVE  /\ \A x \in Plan : x.act \in {"adopt", "purchase", "setup"} => x.act \in Provisioning(x.node)
         /\ \A n \in Nodes : \A a \in Provisioning(n) : \E x \in Plan : x.act = a /\ x.node = n
  <1>1. ASSUME NEW x \in Plan, x.act \in {"adopt", "purchase", "setup"}
        PROVE  x.act \in Provisioning(x.node)
    <2>1. CASE x \in UNION {Steps(Provisioning(n) \cup Deploying(n), n) : n \in Nodes}
      <3>1. PICK n \in Nodes : x \in Steps(Provisioning(n) \cup Deploying(n), n)
        BY <2>1
      <3>2. x.node = n /\ x.act \in Provisioning(n) \cup Deploying(n)
        BY <3>1 DEF Steps
      <3>3. QED
        BY <1>1, <3>2 DEF Deploying
    <2>2. CASE x \in Steps(When(CertPending, "cert"), Primary)
               \/ x \in Steps(When(token /\ ~DnsConverged, "dns"), Primary)
      <3>1. x.act \in {"cert", "dns"}
        BY <2>2 DEF Steps, When
      <3>2. QED
        BY <1>1, <3>1
    <2>3. QED
      BY <2>1, <2>2 DEF Plan
  <1>2. ASSUME NEW n \in Nodes, NEW a \in Provisioning(n)
        PROVE  \E x \in Plan : x.act = a /\ x.node = n
    <2> DEFINE x == [act |-> a, node |-> n, vps |-> IF a = "adopt" THEN Seen(n) ELSE None]
    <2>1. x \in Steps(Provisioning(n) \cup Deploying(n), n)
      BY <1>2 DEF Steps
    <2>2. x \in Plan
      BY <2>1 DEF Plan
    <2>3. x.act = a /\ x.node = n
      OBVIOUS
    <2>4. QED
      BY <2>2, <2>3
  <1>3. QED
    BY <1>1, <1>2

\* What the plan says of a node that is pushed to, set up or given a server.
LEMMA PlanIsPrepared ==
  ASSUME Unkilled, Up, NEW n \in Nodes
  PROVE  /\ Ahead({"purchase", "adopt"}, n)' => mem'.nodes[n].vps = None
         /\ Ahead({"push"}, n)' => mem'.nodes[n].captured \/ Ahead({"capture", "wait_purchase"}, n)'
         /\ Ahead({"setup"}, n)' => Ahead({"capture"}, n)'
  <1>1. pc = "idle" /\ pc' = "run" /\ todo' = Plan /\ mem' = file /\ mem = file
    BY InvariantParts DEF Up, Saved
  <1>2. \A acts : Ahead(acts, n)' <=> \E x \in Plan : x.act \in acts /\ x.node = n
    BY <1>1 DEF Ahead
  <1> DEFINE s == file.nodes[n]
  <1>3. s.captured => s.vps # None
    <2>1. mem.nodes[n].captured => mem.nodes[n].ip # None
      BY InvariantParts DEF Captured
    <2>2. mem.nodes[n].ip # None => mem.nodes[n].vps # None
      BY InvariantParts DEF OwnAddress
    <2>3. QED
      BY <1>1, <2>1, <2>2
  <1>4. {"purchase", "adopt"} \cap Provisioning(n) # {} => s.vps = None
    BY DEF Provisioning, When
  <1>5. s.captured \/ "capture" \in Provisioning(n) \/ "wait_purchase" \in Provisioning(n)
    BY DEF Provisioning, When
  <1>6. "setup" \in Provisioning(n) => "capture" \in Provisioning(n)
    BY DEF Provisioning, When
  <1>7. Ahead({"purchase", "adopt"}, n)' => mem'.nodes[n].vps = None
    BY <1>1, <1>2, <1>4, PlanOfNode, InvariantParts
  <1>8. mem'.nodes[n].captured \/ Ahead({"capture", "wait_purchase"}, n)'
    BY <1>1, <1>2, <1>5, PlanOfNode, InvariantParts
  <1>9. ASSUME Ahead({"setup"}, n)' PROVE Ahead({"capture"}, n)'
    <2>1. PICK x \in Plan : x.act \in {"setup"} /\ x.node = n
      BY <1>2, <1>9
    <2>2. "capture" \in Provisioning(n)
      BY <1>6, <2>1, PlanOfNode, InvariantParts
    <2>3. PICK y \in Plan : y.act = "capture" /\ y.node = n
      BY <2>2, PlanOfNode, InvariantParts
    <2>4. QED
      BY <1>2, <2>3
  <1>10. QED
    BY <1>7, <1>8, <1>9

\* The action that does such a step.
Takes(a, n) ==
  /\ a = "purchase" => Purchase(n) \/ PurchasePending(n)
  /\ a = "adopt" => Adopt(n)
  /\ a = "wait_running" => WaitRunning(n)
  /\ a = "firewall" => Firewall(n)
  /\ a = "pin" => Pin(n)
  /\ a = "capture" => Capture(n)
  /\ a = "push" => Push(n)

\* What a step of the run is about, and what it records.
LEMMA WorkIsAt ==
  ASSUME NEW n \in Nodes, Work(n)
  PROVE  /\ \E l, a : /\ At(l, a, n) /\ a # "wait_purchase" /\ l \notin {"save", "marker"}
                      /\ Takes(a, n)
         /\ todo' = todo \/ todo' = {}
         /\ file' = file
  <1> USE DEF infraVars, secretVars, runVars, Return, End
  <1>1. \E l, a : /\ At(l, a, n) /\ a # "wait_purchase" /\ l \notin {"save", "marker"}
                  /\ Takes(a, n)
    <2>1. Purchase(n) \/ PurchasePending(n) => At("run", "purchase", n)
      BY DEF Purchase, PurchasePending
    <2>2. Adopt(n) => At("run", "adopt", n)
      BY DEF Adopt, At
    <2>3. /\ Setup(n) => At("run", "setup", n)
          /\ Unpin(n) => At("unpin", "setup", n)
          /\ WaitRunning(n) => At("run", "wait_running", n)
          /\ Firewall(n) => At("run", "firewall", n)
          /\ Pin(n) => At("run", "pin", n)
          /\ Capture(n) => At("run", "capture", n)
          /\ Push(n) => At("run", "push", n)
          /\ Test(n) => At("run", "rebuild", n)
          /\ Probe(n) => At("probe", "rebuild", n)
          /\ Switch(n) => At("switch", "rebuild", n)
      BY DEF Setup, Unpin, WaitRunning, Firewall, Pin, Capture, Push, Test, Probe, Switch
    <2>4. QED
      BY <2>1, <2>2, <2>3 DEF Work, Takes
  <1>2. todo' = todo \/ todo' = {}
    BY DEF Work, Purchase, PurchasePending, Adopt, Setup, Unpin, WaitRunning, Firewall, Pin, Capture,
           Push, Test, Probe, Switch
  <1>3. file' = file
    BY DEF Work, Purchase, PurchasePending, Adopt, Setup, Unpin, WaitRunning, Firewall, Pin, Capture,
           Push, Test, Probe, Switch
  <1>4. QED
    BY <1>1, <1>2, <1>3

\* What a step of node n may make of what is recorded of it.
Becomes(n, node) ==
  LET s == mem.nodes[n]
  IN /\ node.vps = s.vps \/ Purchase(n) \/ Adopt(n)
     /\ node.captured = s.captured \/ Unpin(n) \/ Capture(n)
     /\ Capture(n) => node.captured
     /\ s.pinned => node.pinned \/ Unpin(n)
     /\ \/ node.ip = s.ip
        \/ WaitRunning(n) /\ node.ip = s.vps /\ node.vps = s.vps /\ vm[s.vps].state = "running"
     /\ node.applied = s.applied \/ (Switch(n) /\ node.applied = Rev)

LEMMA WorkRecords ==
  ASSUME TypeOK, Saved, NEW n \in Nodes, Work(n)
  PROVE  /\ Becomes(n, mem'.nodes[n])
         /\ \A m \in Nodes \ {n} : mem'.nodes[m] = mem.nodes[m]
  <1> USE DEF infraVars, secretVars, runVars, Return, End
  <1> DEFINE s == mem.nodes[n]
  <1>1. s \in NodeStates
    BY NodeTyped
  <1>2. ASSUME NEW node, mem' = With(n, node), Becomes(n, node)
        PROVE  Becomes(n, mem'.nodes[n]) /\ \A m \in Nodes \ {n} : mem'.nodes[m] = mem.nodes[m]
    BY <1>2, RecordedNode
  <1>3. ASSUME mem' = mem, ~Capture(n)
        PROVE  Becomes(n, mem'.nodes[n]) /\ \A m \in Nodes \ {n} : mem'.nodes[m] = mem.nodes[m]
    BY <1>3 DEF Becomes
  <1>4. \A l1, a1, l2, a2 : At(l1, a1, n) /\ At(l2, a2, n) => a1 = a2
    BY OneNode
  <1>5. CASE Purchase(n) \/ PurchasePending(n) \/ Adopt(n)
    <2>1. ~Capture(n)
      <3>1. At("run", "purchase", n) \/ At("run", "adopt", n)
        BY <1>5 DEF Purchase, PurchasePending, Adopt, At
      <3>2. QED
        BY <3>1, <1>4 DEF Capture
    <2>2. mem = file
      BY <1>5 DEF Purchase, PurchasePending, Adopt, At, Saved
    <2>3. ASSUME NEW v, mem' = With(n, [s EXCEPT !.vps = v]), Purchase(n)
          PROVE  Becomes(n, [s EXCEPT !.vps = v])
      BY <1>1, <2>1, <2>3 DEF NodeStates, Becomes
    <2>4. ASSUME NEW v, mem' = With(n, [s EXCEPT !.pending = v])
          PROVE  Becomes(n, [s EXCEPT !.pending = v])
      BY <1>1, <2>1, <2>4 DEF NodeStates, Becomes
    <2>5. ASSUME NEW v, mem' = With(n, [s EXCEPT !.vps = v, !.pending = None]), Adopt(n)
          PROVE  Becomes(n, [s EXCEPT !.vps = v, !.pending = None])
      BY <1>1, <2>1, <2>5 DEF NodeStates, Becomes
    <2>6. \/ mem' = mem
          \/ \E v \in Servers : mem' = With(n, [s EXCEPT !.vps = v]) /\ Purchase(n)
          \/ \E v \in Servers : mem' = With(n, [s EXCEPT !.pending = v])
          \/ \E x \in todo : mem' = With(n, [s EXCEPT !.vps = x.vps, !.pending = None]) /\ Adopt(n)
      BY <1>5, <2>2 DEF Purchase, PurchasePending, Adopt
    <2>7. QED
      BY <1>2, <1>3, <2>1, <2>3, <2>4, <2>5, <2>6
  <1>6. CASE Capture(n)
    <2> DEFINE node == [s EXCEPT !.captured = TRUE]
    <2>1. mem' = With(n, node)
      BY <1>6 DEF Capture
    <2>2. /\ node.captured /\ (s.pinned => node.pinned)
          /\ node.vps = s.vps /\ node.ip = s.ip /\ node.applied = s.applied
      BY <1>1 DEF NodeStates
    <2> HIDE DEF node
    <2>3. QED
      BY <1>2, <1>6, <2>1, <2>2 DEF Becomes
  <1>7. CASE Unpin(n) \/ WaitRunning(n) \/ Pin(n) \/ Switch(n)
    <2>1. ~Capture(n)
      <3>1. \/ At("unpin", "setup", n) \/ At("run", "wait_running", n)
            \/ At("run", "pin", n) \/ At("switch", "rebuild", n)
        BY <1>7 DEF Unpin, WaitRunning, Pin, Switch
      <3>2. QED
        BY <3>1, <1>4 DEF Capture
    <2>2. \/ mem' = With(n, [s EXCEPT !.pinned = FALSE, !.captured = FALSE]) /\ Unpin(n)
          \/ mem' = With(n, [s EXCEPT !.ip = s.vps]) /\ WaitRunning(n) /\ vm[s.vps].state = "running"
          \/ mem' = With(n, [s EXCEPT !.pinned = TRUE])
          \/ mem' = With(n, [s EXCEPT !.applied = Rev]) /\ Switch(n)
      BY <1>7 DEF Unpin, WaitRunning, Answers, Pin, Switch
    <2>3. Unpin(n) => Becomes(n, [s EXCEPT !.pinned = FALSE, !.captured = FALSE])
      BY <1>1, <2>1 DEF NodeStates, Becomes
    <2>4. WaitRunning(n) /\ vm[s.vps].state = "running" => Becomes(n, [s EXCEPT !.ip = s.vps])
      BY <1>1, <2>1 DEF NodeStates, Becomes
    <2>5. Becomes(n, [s EXCEPT !.pinned = TRUE])
      BY <1>1, <2>1 DEF NodeStates, Becomes
    <2>6. Switch(n) => Becomes(n, [s EXCEPT !.applied = Rev])
      BY <1>1, <2>1 DEF NodeStates, Becomes
    <2>7. QED
      BY <1>2, <2>2, <2>3, <2>4, <2>5, <2>6
  <1>8. CASE Setup(n) \/ Firewall(n) \/ Push(n) \/ Test(n) \/ Probe(n)
    <2>1. mem' = mem
      BY <1>8 DEF Setup, Firewall, Push, Test, Probe
    <2>2. ~Capture(n)
      <3>1. \/ At("run", "setup", n) \/ At("run", "firewall", n) \/ At("run", "push", n)
            \/ At("run", "rebuild", n) \/ At("probe", "rebuild", n)
        BY <1>8 DEF Setup, Firewall, Push, Test, Probe
      <3>2. QED
        BY <3>1, <1>4 DEF Capture
    <2>3. QED
      BY <1>3, <2>1, <2>2
  <1>9. QED
    BY <1>5, <1>6, <1>7, <1>8 DEF Work

\* Such a step of node n is still ahead until its action is taken.
LEMMA AheadRemains ==
  ASSUME TypeOK, [Next]_vars, ~Up, NEW n \in Nodes, todo' # {},
         NEW acts, acts \subseteq {"wait_purchase", "purchase", "adopt", "wait_running", "firewall", "pin",
                                   "capture", "push"},
         \A a \in acts : ~Takes(a, n) \/ a = "wait_purchase", Ahead(acts, n)
  PROVE  Ahead(acts, n)'
  <1> USE DEF infraVars, secretVars, runVars, Return, End
  <1>1. ASSUME NEW m \in Nodes, Work(m) PROVE Ahead(acts, n)'
    <2>1. PICK l, a : At(l, a, m) /\ a # "wait_purchase" /\ Takes(a, m)
      BY <1>1, WorkIsAt
    <2>2. todo' = todo
      BY <1>1, WorkIsAt
    <2>3. a \notin acts \/ m # n
      BY <2>1
    <2>4. QED
      BY <2>1, <2>2, <2>3, AheadStays
  <1>2. CASE EnsureCert \/ UpsertDns
    <2>1. PICK a \in {"cert", "dns"} : At("run", a, Primary)
      BY <1>2 DEF EnsureCert, UpsertDns
    <2>2. todo' = todo /\ a \notin acts
      BY <1>2 DEF EnsureCert, UpsertDns
    <2>3. QED
      BY <2>1, <2>2, AheadStays
  <1>3. CASE SaveMarker \/ Raise \/ Kill
    BY <1>3 DEF SaveMarker, Raise, Kill
  <1>4. CASE Save
    <2>1. pc = "save" /\ pc' = "run" /\ todo' = {y \in todo : ~Current(y)}
      BY <1>4 DEF Save
    <2>2. QED
      BY <2>1 DEF Ahead
  <1>5. CASE (\E v \in Servers : Machine(v)) \/ EditTree \/ AddToken \/ CalmDown \/ UNCHANGED vars
    <2>1. UNCHANGED <<pc, todo>>
      BY <1>5 DEF Machine, Provision, Install, Reset, Reboot, ForgetKey, EditTree, AddToken, CalmDown, vars
    <2>2. QED
      BY <2>1 DEF Ahead, Current
  <1>6. QED
    BY <1>1, <1>2, <1>3, <1>4, <1>5 DEF Next, Run

\* What a step changes of a node.
LEMMA NodeChanges ==
  ASSUME Unkilled, [Next]_vars, NEW n \in Nodes
  PROVE  /\ mem'.nodes[n].vps = mem.nodes[n].vps \/ Purchase(n) \/ Adopt(n)
         /\ mem'.nodes[n].captured = mem.nodes[n].captured \/ Unpin(n) \/ Capture(n)
         /\ Capture(n) => mem'.nodes[n].captured
  <1>1. Capture(n) => mem'.nodes[n].captured
    BY WorkRecords, InvariantParts DEF Work, Becomes
  <1>2. ASSUME NEW m \in Nodes, Work(m)
        PROVE  /\ mem'.nodes[n].vps = mem.nodes[n].vps \/ Purchase(n) \/ Adopt(n)
               /\ mem'.nodes[n].captured = mem.nodes[n].captured \/ Unpin(n) \/ Capture(n)
    <2>1. CASE m = n
      BY <1>2, <2>1, WorkRecords, InvariantParts DEF Becomes
    <2>2. CASE m # n
      <3>1. mem'.nodes[n] = mem.nodes[n]
        BY <1>2, <2>2, WorkRecords, InvariantParts
      <3>2. QED
        BY <3>1
    <2>3. QED
      BY <2>1, <2>2
  <1>3. ASSUME NEW v \in Servers, Machine(v) PROVE mem' = mem
    BY <1>3 DEF Machine, Provision, Install, Reset, Reboot, ForgetKey, runVars
  <1>4. CASE \/ Up \/ Save \/ SaveMarker \/ EnsureCert \/ UpsertDns \/ Raise \/ Kill
             \/ EditTree \/ AddToken \/ CalmDown \/ UNCHANGED vars
    <2>1. mem'.nodes = mem.nodes
      BY <1>4, BookkeepingKeeps
    <2>2. QED
      BY <1>1, <2>1
  <1>5. QED
    BY <1>1, <1>2, <1>3, <1>4 DEF Next, Run

\* A step that is done is not ahead any more, nor is one of the same rank.
LEMMA NothingMore ==
  ASSUME NEW n \in Nodes, NEW l, NEW a, At(l, a, n), NEW acts,
         \A b \in acts : Stage(b) = Stage(a) /\ Rank(b) = Rank(a),
         todo' = {} \/ (todo' = todo /\ pc' = "save")
  PROVE  ~Ahead(acts, n)'
  <1>1. PICK x \in todo : x.act = a /\ x.node = n /\ Current(x)
    BY DEF At, Doing
  <1>2. \A y \in todo : y.act \in acts /\ y.node = n => y = x
    <2> SUFFICES ASSUME NEW y \in todo, y.act \in acts, y.node = n, y # x PROVE FALSE
      OBVIOUS
    <2>1. Precedes(x, y)
      BY <1>1 DEF Current
    <2>2. Stage(a) \in Nat /\ Rank(a) \in Nat /\ n \in Nat
      BY StageTyped
    <2>3. QED
      BY <1>1, <2>1, <2>2 DEF Precedes
  <1>3. CASE todo' = {}
    BY <1>3 DEF Ahead
  <1>4. CASE todo' = todo /\ pc' = "save"
    <2>1. Current(x)'
      BY <1>1, <1>4 DEF Current
    <2>2. QED
      BY <1>2, <1>4, <2>1 DEF Ahead
  <1>5. QED
    BY <1>3, <1>4

\* The server that a step adds to a node is the last one that a run adds to it.
LEMMA NothingMoreToAdd ==
  ASSUME NEW n \in Nodes, Purchase(n) \/ Adopt(n)
  PROVE  ~Ahead({"purchase", "adopt"}, n)'
  <1> USE DEF Return, End
  <1>1. PICK a \in {"purchase", "adopt"} : At("run", a, n)
    BY DEF Purchase, Adopt, At
  <1>2. \A b \in {"purchase", "adopt"} : Stage(b) = Stage(a) /\ Rank(b) = Rank(a)
    BY DEF Stage, Rank
  <1>3. todo' = {} \/ (todo' = todo /\ pc' = "save")
    BY DEF Purchase, Adopt
  <1>4. QED
    BY <1>1, <1>2, <1>3, NothingMore

LEMMA OrderKept ==
  ASSUME Unkilled, [Next]_vars, NEW n \in Nodes
  PROVE  /\ Ahead({"purchase", "adopt"}, n)' => mem'.nodes[n].vps = None
         /\ Ahead({"push"}, n)' => mem'.nodes[n].captured \/ Ahead({"capture", "wait_purchase"}, n)'
         /\ Ahead({"setup"}, n)' => Ahead({"capture"}, n)'
  <1>1. CASE Up
    BY <1>1, PlanIsPrepared
  <1>2. CASE ~Up
    <2>1. ASSUME Ahead({"purchase", "adopt"}, n)' PROVE mem'.nodes[n].vps = None
      <3>1. mem.nodes[n].vps = None
        BY <1>2, <2>1, AheadBefore, InvariantParts DEF Adding
      <3>2. QED
        BY <2>1, <3>1, NodeChanges, NothingMoreToAdd
    <2>2. ASSUME Ahead({"setup"}, n)' PROVE Ahead({"capture"}, n)'
      <3>1. Ahead({"setup"}, n) /\ Ahead({"capture"}, n)
        BY <1>2, <2>2, AheadBefore, InvariantParts DEF Prepared
      <3>2. ~Capture(n)
        <4>1. Stage("setup") = Stage("capture") /\ Rank("setup") <= Rank("capture")
          BY DEF Stage, Rank
        <4>2. At("run", "capture", n) => ~Ahead({"setup"}, n)
          BY <4>1, NothingBefore, InvariantParts
        <4>3. QED
          BY <3>1, <4>2 DEF Capture
      <3>3. todo' # {}
        BY <2>2 DEF Ahead
      <3>4. QED
        BY <1>2, <3>1, <3>2, <3>3, AheadRemains, InvariantParts DEF Takes
    <2>3. ASSUME Ahead({"push"}, n)', ~mem'.nodes[n].captured
          PROVE  Ahead({"capture", "wait_purchase"}, n)'
      <3>1. todo' # {} /\ ~Capture(n)
        BY <2>3, NodeChanges DEF Ahead
      <3>2. Ahead({"push"}, n)
        BY <1>2, <2>3, AheadBefore
      <3>3. Ahead({"capture", "wait_purchase"}, n)
        <4>1. CASE Unpin(n)
          <5>1. Ahead({"setup"}, n)
            BY <4>1, AheadNow DEF Unpin
          <5>2. Ahead({"capture"}, n)
            BY <5>1, InvariantParts DEF Prepared
          <5>3. QED
            BY <5>2 DEF Ahead
        <4>2. CASE ~Unpin(n)
          BY <2>3, <3>1, <3>2, <4>2, NodeChanges, InvariantParts DEF Prepared
        <4>3. QED
          BY <4>1, <4>2
      <3>4. QED
        BY <1>2, <3>1, <3>3, AheadRemains, InvariantParts DEF Takes
    <2>4. QED
      BY <2>1, <2>2, <2>3
  <1>3. QED
    BY <1>1, <1>2

-----------------------------------------------------------------------------
(* The theorems. *)

LEMMA MachineInvHolds == Spec => []MachineInv
  <1>1. Init => MachineInv
    <2> SUFFICES ASSUME Init PROVE MachineInv
      OBVIOUS
    <2>1. /\ \A v \in Servers : vm[v] = NoServer /\ pin[v] = "none"
          /\ \A n \in Nodes : mem.nodes[n] = Fresh
          /\ mem = file /\ todo = {}
      BY DEF Init
    <2>2. Fresh.ip = None /\ Fresh.captured = FALSE
      BY DEF Fresh
    <2>3. OwnAddress /\ Keys /\ Captured
      BY <2>1, <2>2 DEF OwnAddress, Keys, Captured
    <2>4. OwnFacts
      <3>1. NoServer.pushed = NoRev /\ NoServer.active = NoRev /\ NoServer.boot = NoRev
        BY DEF NoServer
      <3>2. QED
        BY <2>1, <3>1 DEF OwnFacts, Fits
    <2>5. Adding /\ Prepared /\ Saved
      BY <2>1 DEF Adding, Prepared, Ahead, Saved
    <2>6. QED
      BY <2>3, <2>4, <2>5, InitOwn DEF MachineInv, Facts
  <1>2. MachineInv /\ [Next]_vars => MachineInv'
    <2> SUFFICES ASSUME MachineInv, [Next]_vars PROVE MachineInv'
      OBVIOUS
    <2>1. OwnInv' /\ Saved'
      BY OwnKept, SavedKept DEF MachineInv
    <2>2. Free({"kill"})' => Free({"kill"})
      BY FaultsFixed DEF Free
    <2>3. ASSUME Free({"kill"}) PROVE Facts' /\ Adding' /\ Prepared'
      <3>1. Unkilled
        BY <2>3 DEF Unkilled
      <3>2. Facts'
        BY <3>1, FactsKept
      <3>3. Adding' /\ Prepared'
        BY <3>1, OrderKept DEF Adding, Prepared
      <3>4. QED
        BY <3>2, <3>3
    <2>4. QED
      BY <2>1, <2>2, <2>3 DEF MachineInv
  <1>3. QED
    BY <1>1, <1>2, PTL DEF Spec

\* As long as no run is killed, the host key of a machine that stack-base reinstalls
\* never meets its old pin.
THEOREM ReinstalledKeysAreExpected == Spec => []ExpectedKeys
  <1>1. MachineInv => ExpectedKeys
    <2> SUFFICES ASSUME MachineInv, Free({"kill"}), pc # "unpin", NEW v \in Servers
                 PROVE  pin[v] # "stale"
      BY DEF ExpectedKeys
    <2>1. Unkilled
      BY DEF Unkilled
    <2>2. pin[v] # "none" => pin[v] = "current"
      BY <2>1, NotUnpinning
    <2>3. QED
      BY <2>2
  <1>2. QED
    BY <1>1, MachineInvHolds, PTL

\* As long as no run is killed, what a machine runs was made with its own disk
\* facts, however often it was reinstalled.
THEOREM HardwareIsOwn == Spec => []OwnHardware
  <1>1. MachineInv => OwnHardware
    <2> SUFFICES ASSUME MachineInv, Free({"kill"}), NEW n \in Nodes, file.nodes[n].vps # None,
                        vm[file.nodes[n].vps].active # NoRev
                 PROVE  vm[file.nodes[n].vps].active.hardware[n] = vm[file.nodes[n].vps].disk
      BY DEF OwnHardware
    <2> DEFINE v == file.nodes[n].vps
    <2>1. v \in Servers /\ vm[v].for = n
      BY DEF MachineInv, OwnInv, TypeOK, StateFiles, NodeStates, OwnIn, Of
    <2>2. Fits(vm[v].active, v)
      BY <2>1 DEF MachineInv, Facts, OwnFacts
    <2>3. QED
      BY <2>1, <2>2 DEF Fits
  <1>2. QED
    BY <1>1, MachineInvHolds, PTL

-----------------------------------------------------------------------------
(* Machines that nobody resets. *)

\* A node's address is that of its server, which runs.
Addressed(st) == \A n \in Nodes : LET s == st.nodes[n]
                                  IN s.ip # None => s.ip = s.vps /\ vm[s.ip].state = "running"

\* A run only adds to the servers and addresses of the state file.
Grown == \A n \in Nodes : /\ file.nodes[n].vps # None => mem.nodes[n].vps = file.nodes[n].vps
                          /\ file.nodes[n].ip # None => mem.nodes[n].ip = file.nodes[n].ip

\* Captured disk facts are those of a machine that the state file has.
Disk == \A n \in Nodes : hardware[n] # None =>
          file.nodes[n].ip # None /\ hardware[n] = vm[file.nodes[n].ip].disk

Idle == pc = "idle" => todo = {}
Steady == Addressed(file) /\ Addressed(mem) /\ Grown /\ Adding /\ Disk
SteadyInv == OwnInv /\ Saved /\ Idle /\ (Free({"reset"}) => Steady)

\* Hypotheses of the step lemmas.
Unreset == SteadyInv /\ Free({"reset"})

LEMMA SteadyParts ==
  ASSUME Unreset
  PROVE  /\ TypeOK /\ OwnInv /\ Saved /\ Idle
         /\ Addressed(file) /\ Addressed(mem) /\ Grown /\ Adding /\ Disk
         /\ vm \in [Servers -> Machines] /\ \A v \in Servers : vm[v] \in Machines
         /\ hardware \in [Nodes -> Disks \cup {None}] /\ tree \in Nat /\ lock \in BOOLEAN
         /\ \A n \in Nodes : mem.nodes[n] \in NodeStates /\ file.nodes[n] \in NodeStates
         /\ None \notin Servers
         /\ ~May("reset")
  <1>1. TypeOK
    BY DEF Unreset, SteadyInv, OwnInv
  <1>2. \A n \in Nodes : mem.nodes[n] \in NodeStates /\ file.nodes[n] \in NodeStates
    BY <1>1 DEF TypeOK, StateFiles
  <1>3. ~May("reset")
    BY DEF Unreset, Free, May
  <1>4. vm \in [Servers -> Machines] /\ (\A v \in Servers : vm[v] \in Machines)
        /\ hardware \in [Nodes -> Disks \cup {None}] /\ tree \in Nat /\ lock \in BOOLEAN
    BY <1>1 DEF TypeOK
  <1>5. QED
    BY <1>1, <1>2, <1>3, <1>4 DEF Unreset, SteadyInv, Steady

\* The machine at the address of a node, of the file or of the run.
LEMMA MachineOf ==
  ASSUME Unreset, NEW st \in {file, mem}, NEW n \in Nodes, st.nodes[n].ip # None
  PROVE  /\ st.nodes[n].ip \in Servers /\ st.nodes[n].ip = st.nodes[n].vps
         /\ vm[st.nodes[n].ip].state = "running" /\ vm[st.nodes[n].ip].for = n
  <1>1. Addressed(st) /\ OwnIn(st) /\ st.nodes[n] \in NodeStates
    BY SteadyParts DEF OwnInv
  <1>2. st.nodes[n].ip \in Servers
    BY <1>1 DEF NodeStates
  <1>3. QED
    BY <1>1, <1>2 DEF Addressed, OwnIn, Of

\* How the run's copy changes.
LEMMA MemChanges ==
  ASSUME TypeOK, Saved, [Next]_vars
  PROVE  \/ mem' = file /\ file' = file /\ (Up \/ todo' = {})
         \/ /\ file' \in {file, mem}
            /\ \/ mem'.nodes = mem.nodes
               \/ \E n \in Nodes : /\ Work(n) /\ Becomes(n, mem'.nodes[n]) /\ file' = file
                                   /\ \A m \in Nodes \ {n} : mem'.nodes[m] = mem.nodes[m]
  <1> USE DEF infraVars, secretVars, runVars, Return, End
  <1>1. CASE Up \/ Raise \/ Kill
    BY <1>1 DEF Up, Raise, Kill
  <1>2. CASE Save \/ SaveMarker \/ EnsureCert \/ EditTree \/ AddToken \/ CalmDown \/ UNCHANGED vars
    BY <1>2 DEF Save, SaveMarker, EnsureCert, EditTree, AddToken, CalmDown, vars
  <1>3. CASE UpsertDns
    <2>1. file' = file /\ mem' = [mem EXCEPT !.dns = TRUE]
      BY <1>3 DEF UpsertDns
    <2>2. mem'.nodes = mem.nodes
      BY <2>1 DEF TypeOK, StateFiles
    <2>3. QED
      BY <2>1, <2>2
  <1>4. CASE \E v \in Servers : Machine(v)
    BY <1>4 DEF Machine, Provision, Install, Reset, Reboot, ForgetKey
  <1>5. ASSUME NEW n \in Nodes, Work(n)
        PROVE  /\ file' = file /\ Becomes(n, mem'.nodes[n])
               /\ \A m \in Nodes \ {n} : mem'.nodes[m] = mem.nodes[m]
    BY <1>5, WorkIsAt, WorkRecords
  <1>6. QED
    BY <1>1, <1>2, <1>3, <1>4, <1>5 DEF Next, Run

\* The same for one node: without a new plan the run's copy of it is set back to the
\* file, or keeps what it has or gets it from a step.
LEMMA NodeBecomes ==
  ASSUME TypeOK, Saved, [Next]_vars, NEW n \in Nodes
  PROVE  \/ mem' = file /\ file' = file /\ (Up \/ todo' = {})
         \/ file' \in {file, mem} /\ mem'.nodes[n] = mem.nodes[n]
         \/ file' = file /\ Becomes(n, mem'.nodes[n]) /\ Work(n)
  BY MemChanges

\* What a step may do to a machine that runs.
LEMMA RunningStays ==
  ASSUME Unreset, [Next]_vars, NEW v \in Servers, vm[v].state = "running"
  PROVE  /\ vm'[v].state = "running" /\ vm'[v].disk = vm[v].disk /\ vm'[v].for = vm[v].for
         /\ vm[v].cert => vm'[v].cert
         /\ \/ vm'[v].pushed = vm[v].pushed
            \/ \E n \in Nodes : /\ Push(n) /\ mem.nodes[n].ip = v
                                /\ vm'[v].pushed = Rev /\ (token => vm'[v].cert)
         /\ \/ vm'[v].boot = vm[v].boot /\ vm'[v].active \in {vm[v].active, vm[v].boot}
            \/ \E n \in Nodes : /\ Test(n) \/ Switch(n)
                                /\ mem.nodes[n].ip = v /\ vm'[v].active = vm[v].pushed
                                /\ vm'[v].boot = IF Switch(n) THEN vm[v].pushed ELSE vm[v].boot
  <1> USE DEF infraVars, secretVars, runVars
  <1> DEFINE Goal == /\ vm'[v].state = "running" /\ vm'[v].disk = vm[v].disk /\ vm'[v].for = vm[v].for
                     /\ vm[v].cert => vm'[v].cert
                     /\ \/ vm'[v].pushed = vm[v].pushed
                        \/ \E n \in Nodes : /\ Push(n) /\ mem.nodes[n].ip = v
                                            /\ vm'[v].pushed = Rev /\ (token => vm'[v].cert)
                     /\ \/ vm'[v].boot = vm[v].boot /\ vm'[v].active \in {vm[v].active, vm[v].boot}
                        \/ \E n \in Nodes : /\ Test(n) \/ Switch(n)
                                            /\ mem.nodes[n].ip = v /\ vm'[v].active = vm[v].pushed
                                            /\ vm'[v].boot = IF Switch(n) THEN vm[v].pushed ELSE vm[v].boot
  <1>1. CASE vm'[v] = vm[v]
    BY <1>1
  <1>2. ASSUME NEW n \in Nodes, Work(n) PROVE Goal
    <2>1. CASE Purchase(n) \/ PurchasePending(n)
      <3>1. PICK w \in Servers, u \in Machines : vm[w].state = "none" /\ vm' = [vm EXCEPT ![w] = u]
        <4>1. PICK w \in Servers, st \in {"installing", "paid"}, m \in {n, None} :
                     NextServer(w) /\ Bought(w, n, st, m)
          BY <2>1 DEF Purchase, PurchasePending
        <4>2. [NoServer EXCEPT !.state = st, !.for = n, !.name = m] \in Machines
          BY MachineTyped, SteadyParts
        <4>3. QED
          BY <4>1, <4>2 DEF NextServer, Bought
      <3>2. w # v
        BY <3>1
      <3>3. QED
        BY <1>1, <3>1, <3>2, SteadyParts
    <2>2. CASE Setup(n)
      <3> DEFINE w == mem.nodes[n].vps
      <3>1. /\ vm' = [vm EXCEPT ![w] = [vm[w] EXCEPT !.state = "installing", !.name = n]]
            /\ vm[w].state = "initial"
        BY <2>2, SteadyParts DEF Setup
      <3>2. w # v
        BY <3>1
      <3>3. QED
        BY <1>1, <3>1, <3>2, SteadyParts
    <2>3. CASE Firewall(n)
      BY <2>3, SteadyParts DEF Firewall, Machines
    <2>4. CASE Push(n)
      <3> DEFINE w == mem.nodes[n].ip
      <3>1. vm' = [vm EXCEPT ![w] = [vm[w] EXCEPT !.pushed = Rev, !.cert = vm[w].cert \/ token]]
        BY <2>4, SteadyParts DEF Push
      <3>2. CASE w = v
        <4>1. /\ vm'[v].state = "running" /\ vm'[v].disk = vm[v].disk /\ vm'[v].for = vm[v].for
              /\ vm'[v].pushed = Rev /\ vm'[v].active = vm[v].active /\ vm'[v].boot = vm[v].boot
          BY <3>1, <3>2, SteadyParts DEF Machines
        <4>2. vm'[v].cert = (vm[v].cert \/ token)
          BY <3>1, <3>2, SteadyParts DEF Machines
        <4>3. (vm[v].cert => vm'[v].cert) /\ (token => vm'[v].cert)
          BY <4>2
        <4>4. QED
          BY <2>4, <3>2, <4>1, <4>3
      <3>3. CASE w # v
        BY <1>1, <3>1, <3>3, SteadyParts
      <3>4. QED
        BY <3>2, <3>3
    <2>5. CASE Test(n)
      <3> DEFINE w == mem.nodes[n].ip
      <3>1. vm' = [vm EXCEPT ![w] = [vm[w] EXCEPT !.active = vm[w].pushed]] /\ ~Switch(n)
        BY <2>5, SteadyParts DEF Test, Switch, At
      <3>2. CASE w = v
        BY <2>5, <3>1, <3>2, SteadyParts DEF Machines
      <3>3. CASE w # v
        BY <1>1, <3>1, <3>3, SteadyParts
      <3>4. QED
        BY <3>2, <3>3
    <2>6. CASE Switch(n)
      <3> DEFINE w == mem.nodes[n].ip
      <3>1. vm' = [vm EXCEPT ![w] = [vm[w] EXCEPT !.active = vm[w].pushed, !.boot = vm[w].pushed]]
        BY <2>6, SteadyParts DEF Switch
      <3>2. CASE w = v
        BY <2>6, <3>1, <3>2, SteadyParts DEF Machines
      <3>3. CASE w # v
        BY <1>1, <3>1, <3>3, SteadyParts
      <3>4. QED
        BY <3>2, <3>3
    <2>7. CASE Adopt(n) \/ Unpin(n) \/ WaitRunning(n) \/ Pin(n) \/ Capture(n) \/ Probe(n)
      BY <1>1, <2>7 DEF Adopt, Unpin, WaitRunning, Pin, Capture, Probe
    <2>8. QED
      BY <1>2, <2>1, <2>2, <2>3, <2>4, <2>5, <2>6, <2>7 DEF Work
  <1>3. ASSUME NEW w \in Servers, Machine(w) PROVE Goal
    <2>1. CASE Reboot(w)
      BY <2>1, SteadyParts DEF Reboot, Machines
    <2>2. CASE Provision(w) \/ Install(w)
      <3>1. vm[w].state # "running" /\ \A u \in Servers \ {w} : vm'[u] = vm[u]
        BY <2>2, SteadyParts DEF Provision, Install
      <3>2. QED
        BY <1>1, <3>1
    <2>3. CASE ForgetKey(w)
      BY <1>1, <2>3 DEF ForgetKey
    <2>4. ~Reset(w)
      BY SteadyParts DEF Reset
    <2>5. QED
      BY <1>3, <2>1, <2>2, <2>3, <2>4 DEF Machine
  <1>4. CASE Up \/ Save \/ SaveMarker \/ EnsureCert \/ UpsertDns \/ Raise \/ Kill \/ EditTree
             \/ AddToken \/ CalmDown \/ UNCHANGED vars
    BY <1>1, <1>4 DEF Up, Save, SaveMarker, EnsureCert, UpsertDns, Raise, Kill, EditTree,
                      AddToken, CalmDown, vars
  <1>5. QED
    BY <1>2, <1>3, <1>4 DEF Next, Run

LEMMA IdleKept == ASSUME Idle, [Next]_vars PROVE Idle'
  <1> USE DEF infraVars, secretVars, runVars, Return, End
  <1>1. ASSUME NEW n \in Nodes, Work(n) PROVE pc' = "idle" => todo' = {}
    BY <1>1 DEF Work, Purchase, PurchasePending, Adopt, Setup, Unpin, WaitRunning, Firewall, Pin, Capture,
                Push, Test, Probe, Switch
  <1>2. CASE \/ Up \/ Save \/ SaveMarker \/ EnsureCert \/ UpsertDns \/ Raise \/ Kill
    BY <1>2 DEF Up, Save, SaveMarker, EnsureCert, UpsertDns, Raise, Kill, Idle
  <1>3. CASE \/ EditTree \/ AddToken \/ CalmDown \/ UNCHANGED vars \/ \E v \in Servers : Machine(v)
    BY <1>3 DEF EditTree, AddToken, CalmDown, vars, Machine, Provision, Install, Reset, Reboot,
                ForgetKey, Idle
  <1>4. QED
    BY <1>1, <1>2, <1>3 DEF Next, Run, Idle

\* The parts that are about servers and addresses.
LEMMA AddressedKept ==
  ASSUME Unreset, [Next]_vars PROVE Addressed(file)' /\ Addressed(mem)'
  <1>1. ASSUME NEW st \in {file, mem}, NEW n \in Nodes, st.nodes[n].ip # None
        PROVE  /\ st.nodes[n].ip = st.nodes[n].vps /\ st.nodes[n].ip \in Servers
               /\ vm'[st.nodes[n].ip].state = "running"
    <2>1. /\ st.nodes[n].ip = st.nodes[n].vps /\ st.nodes[n].ip \in Servers
          /\ vm[st.nodes[n].ip].state = "running"
      BY <1>1, MachineOf
    <2>2. vm'[st.nodes[n].ip].state = "running"
      BY <2>1, RunningStays
    <2>3. QED
      BY <2>1, <2>2
  <1>2. file' \in {file, mem}
    BY MemChanges, SteadyParts
  <1>3. Addressed(file)'
    BY <1>1, <1>2 DEF Addressed
  <1>4. ASSUME NEW n \in Nodes, mem'.nodes[n].ip # None
        PROVE  mem'.nodes[n].ip = mem'.nodes[n].vps /\ vm'[mem'.nodes[n].ip].state = "running"
    <2> DEFINE s == mem.nodes[n]
    <2>1. CASE mem' = file \/ mem'.nodes[n] = s
      BY <1>1, <1>4, <2>1
    <2>2. CASE Becomes(n, mem'.nodes[n]) /\ Work(n)
      <3>1. CASE /\ WaitRunning(n) /\ mem'.nodes[n].ip = s.vps /\ mem'.nodes[n].vps = s.vps
                 /\ vm[s.vps].state = "running"
        <4>1. s.vps \in Servers
          BY <1>4, <3>1, SteadyParts DEF NodeStates
        <4>2. vm'[s.vps].state = "running"
          BY <3>1, <4>1, RunningStays
        <4>3. QED
          BY <3>1, <4>2
      <3>2. CASE mem'.nodes[n].ip = s.ip
        <4>1. s.vps # None
          BY <1>1, <1>4, <3>2, SteadyParts
        <4>2. ~Purchase(n) /\ ~Adopt(n)
          <5>1. Purchase(n) \/ Adopt(n) => Ahead({"purchase", "adopt"}, n)
            <6>1. Purchase(n) \/ Adopt(n) => At("run", "purchase", n) \/ At("run", "adopt", n)
              BY DEF Purchase, Adopt, At
            <6>2. QED
              BY <6>1, AheadNow
          <5>2. QED
            BY <4>1, <5>1, SteadyParts DEF Adding
        <4>3. mem'.nodes[n].vps = s.vps
          BY <2>2, <4>2 DEF Becomes
        <4>4. QED
          BY <1>1, <1>4, <3>2, <4>3
      <3>3. QED
        BY <2>2, <3>1, <3>2 DEF Becomes
    <2>3. QED
      BY <2>1, <2>2, NodeBecomes, SteadyParts
  <1>5. Addressed(mem)'
    BY <1>4 DEF Addressed
  <1>6. QED
    BY <1>3, <1>5

\* Servers are only added to nodes that have none.
LEMMA AddsToNone ==
  ASSUME TypeOK, Adding, NEW n \in Nodes, Purchase(n) \/ Adopt(n) PROVE mem.nodes[n].vps = None
  <1>1. At("run", "purchase", n) \/ At("run", "adopt", n)
    BY DEF Purchase, Adopt, At
  <1>2. Ahead({"purchase", "adopt"}, n)
    BY <1>1, AheadNow
  <1>3. QED
    BY <1>2 DEF Adding

LEMMA GrownKept ==
  ASSUME Unreset, [Next]_vars PROVE Grown'
  <1> SUFFICES ASSUME NEW n \in Nodes
               PROVE  /\ file'.nodes[n].vps # None => mem'.nodes[n].vps = file'.nodes[n].vps
                      /\ file'.nodes[n].ip # None => mem'.nodes[n].ip = file'.nodes[n].ip
    BY DEF Grown
  <1> DEFINE s == mem.nodes[n]
  <1>1. /\ file.nodes[n].vps # None => s.vps = file.nodes[n].vps
        /\ file.nodes[n].ip # None => s.ip = file.nodes[n].ip
    BY SteadyParts DEF Grown
  <1>2. CASE mem' = file /\ file' = file
    BY <1>2
  <1>3. CASE file' \in {file, mem} /\ mem'.nodes[n] = mem.nodes[n]
    BY <1>1, <1>3
  <1>4. CASE file' = file /\ Becomes(n, mem'.nodes[n])
    <2>1. file.nodes[n].vps # None => mem'.nodes[n].vps = s.vps
      BY <1>1, <1>4, AddsToNone, SteadyParts DEF Becomes
    <2>2. file.nodes[n].ip # None => mem'.nodes[n].ip = s.ip
      BY <1>1, <1>4, SteadyParts DEF Becomes, Addressed
    <2>3. QED
      BY <1>1, <1>4, <2>1, <2>2
  <1>5. QED
    BY <1>2, <1>3, <1>4, NodeBecomes, SteadyParts

LEMMA AddingKept ==
  ASSUME Unreset, [Next]_vars PROVE Adding'
  <1> SUFFICES ASSUME NEW n \in Nodes, Ahead({"purchase", "adopt"}, n)' PROVE mem'.nodes[n].vps = None
    BY DEF Adding
  <1>1. CASE Up
    <2>1. mem' = file /\ todo' = Plan
      BY <1>1 DEF Up
    <2>2. {"purchase", "adopt"} \cap Provisioning(n) # {} => file.nodes[n].vps = None
      BY DEF Provisioning, When
    <2>3. PICK x \in Plan : x.act \in {"purchase", "adopt"} /\ x.node = n
      BY <2>1 DEF Ahead
    <2>4. QED
      BY <2>1, <2>2, <2>3, PlanOfNode, SteadyParts
  <1>2. CASE ~Up
    <2>1. mem.nodes[n].vps = None
      BY <1>2, AheadBefore, SteadyParts DEF Adding
    <2>2. todo' # {}
      BY DEF Ahead
    <2>3. ~Purchase(n) /\ ~Adopt(n)
      BY NothingMoreToAdd
    <2>4. QED
      BY <1>2, <2>1, <2>2, <2>3, NodeBecomes, SteadyParts DEF Becomes
  <1>3. QED
    BY <1>1, <1>2

LEMMA DiskKept ==
  ASSUME Unreset, [Next]_vars PROVE Disk'
  <1> SUFFICES ASSUME NEW n \in Nodes, hardware'[n] # None
               PROVE  file'.nodes[n].ip # None /\ hardware'[n] = vm'[file'.nodes[n].ip].disk
    BY DEF Disk
  <1>1. ASSUME file.nodes[n].ip # None, hardware'[n] = vm[file.nodes[n].ip].disk
        PROVE  file'.nodes[n].ip # None /\ hardware'[n] = vm'[file'.nodes[n].ip].disk
    <2>1. file.nodes[n].ip \in Servers /\ vm'[file.nodes[n].ip].disk = vm[file.nodes[n].ip].disk
      BY <1>1, MachineOf, RunningStays
    <2>2. file'.nodes[n].ip = file.nodes[n].ip
      <3>1. file' \in {file, mem}
        BY MemChanges, SteadyParts
      <3>2. QED
        BY <1>1, <3>1, SteadyParts DEF Grown
    <2>3. QED
      BY <1>1, <2>1, <2>2
  <1>2. CASE hardware'[n] = hardware[n]
    BY <1>1, <1>2, SteadyParts DEF Disk
  <1>3. CASE Capture(n)
    <2>1. /\ hardware' = [hardware EXCEPT ![n] = vm[mem.nodes[n].ip].disk]
          /\ mem.nodes[n].ip # None /\ mem = file
      BY <1>3, SteadyParts DEF Capture, Reached, At, Saved
    <2>2. QED
      BY <1>1, <2>1, SteadyParts
  <1>4. CASE ~Capture(n)
    <2> USE DEF infraVars, secretVars, runVars, Return
    <2>1. ASSUME NEW m \in Nodes, Work(m) PROVE hardware'[n] = hardware[n]
      <3>1. CASE Capture(m)
        BY <1>4, <3>1, SteadyParts DEF Capture
      <3>2. CASE ~Capture(m)
        BY <2>1, <3>2 DEF Work, Purchase, PurchasePending, Adopt, Setup, Unpin, WaitRunning, Firewall,
                          Pin, Push, Test, Probe, Switch
      <3>3. QED
        BY <3>1, <3>2
    <2>2. Up \/ Save \/ SaveMarker \/ EnsureCert \/ UpsertDns \/ Raise \/ Kill => hardware' = hardware
      BY DEF Up, Save, SaveMarker, EnsureCert, UpsertDns, Raise, Kill
    <2>3. CalmDown \/ EditTree \/ AddToken \/ UNCHANGED vars => hardware' = hardware
      BY DEF CalmDown, vars, EditTree, AddToken
    <2>4. (\E v \in Servers : Machine(v)) => hardware' = hardware
      BY DEF Machine, Provision, Install, Reset, Reboot, ForgetKey
    <2>5. QED
      BY <1>2, <2>1, <2>2, <2>3, <2>4 DEF Next, Run
  <1>5. QED
    BY <1>3, <1>4

LEMMA InitSteady == Init => SteadyInv
  <1> SUFFICES ASSUME Init PROVE SteadyInv
    OBVIOUS
  <1>1. /\ \A n \in Nodes : mem.nodes[n] = Fresh /\ file.nodes[n] = Fresh /\ hardware[n] = None
        /\ mem = file /\ todo = {}
    BY DEF Init
  <1>2. Fresh.ip = None /\ Fresh.vps = None
    BY DEF Fresh
  <1>3. Addressed(file) /\ Addressed(mem) /\ Grown
    BY <1>1, <1>2 DEF Addressed, Grown
  <1>4. Adding /\ Disk /\ Saved /\ Idle
    BY <1>1 DEF Adding, Disk, Ahead, Saved, Idle
  <1>5. QED
    BY <1>3, <1>4, InitOwn DEF SteadyInv, Steady

LEMMA SteadyKept == ASSUME SteadyInv, [Next]_vars PROVE SteadyInv'
  <1>1. OwnInv' /\ Saved' /\ Idle'
    BY OwnKept, SavedKept, IdleKept DEF SteadyInv
  <1>2. Free({"reset"})' => Free({"reset"})
    BY FaultsFixed DEF Free
  <1>3. ASSUME Free({"reset"}) PROVE Steady'
    <2>1. Unreset
      BY <1>3 DEF Unreset
    <2>2. Addressed(file)' /\ Addressed(mem)' /\ Grown' /\ Adding' /\ Disk'
      BY <2>1, AddressedKept, GrownKept, AddingKept, DiskKept
    <2>3. QED
      BY <2>2 DEF Steady
  <1>4. QED
    BY <1>1, <1>2, <1>3 DEF SteadyInv

-----------------------------------------------------------------------------
(* What `nothing to do` means. *)

\* infra/ has only been added to since it had revision r.
Older(r) == r.tree <= tree /\ (r.lock => lock) /\ \A n \in Nodes : r.hardware[n] \in {None, hardware[n]}

\* A machine runs the revision that is recorded of it, as long as infra/ is that.
Applied(st) ==
  \A n \in Nodes : LET s == st.nodes[n]
                   IN s.applied # NoRev =>
                        /\ s.ip # None /\ Older(s.applied)
                        /\ token => vm[s.ip].cert
                        /\ s.applied = Rev => vm[s.ip].boot = Rev /\ vm[s.ip].active = Rev

\* A node is only rebuilt from what was just pushed to it.
First(n) == \A x \in todo : Stage(x.act) >= 3 /\ (Stage(x.act) = 3 => x.node >= n)
Ready(n) == /\ mem.nodes[n].ip # None
            /\ vm[mem.nodes[n].ip].pushed = Rev /\ (token => vm[mem.nodes[n].ip].cert)
Rebuilding == \A n \in Nodes : Ahead({"rebuild"}, n) => Ahead({"push"}, n) \/ (First(n) /\ Ready(n))

Settled == Applied(file) /\ Applied(mem) /\ Rebuilding
SettledInv == SteadyInv /\ (Free(Surprises) => Settled)

\* Hypotheses of the step lemmas.
Unsurprised == SettledInv /\ Free(Surprises)

LEMMA SettledIsSteady == Unsurprised => Unreset
  BY DEF Unsurprised, SettledInv, Unreset, Free, Surprises

LEMMA SettledParts ==
  ASSUME Unsurprised
  PROVE  /\ TypeOK /\ OwnInv /\ Saved /\ Idle
         /\ Addressed(file) /\ Addressed(mem) /\ Grown /\ Adding /\ Disk
         /\ Applied(file) /\ Applied(mem) /\ Rebuilding
         /\ vm \in [Servers -> Machines] /\ \A v \in Servers : vm[v] \in Machines
         /\ hardware \in [Nodes -> Disks \cup {None}] /\ tree \in Nat /\ lock \in BOOLEAN
         /\ \A n \in Nodes : mem.nodes[n] \in NodeStates /\ file.nodes[n] \in NodeStates
         /\ None \notin Servers
         /\ ~May("reset") /\ ~May("midrun") /\ ~May("revert") /\ ~May("late")
  <1>1. ~May("midrun") /\ ~May("revert") /\ ~May("late")
    BY DEF Unsurprised, Free, Surprises, May
  <1>2. QED
    BY <1>1, SettledIsSteady, SteadyParts DEF Unsurprised, SettledInv, Settled

\* What is configured, and the token: neither is taken back.
LEMMA RevGrows ==
  ASSUME Unsurprised, [Next]_vars
  PROVE  /\ tree <= tree' /\ tree' \in Nat /\ (lock => lock') /\ lock' \in BOOLEAN
         /\ \A n \in Nodes : hardware[n] \in {None, hardware'[n]}
         /\ hardware' \in [Nodes -> Disks \cup {None}]
         /\ token' = token
  <1> USE DEF infraVars, secretVars, runVars, Return
  <1>1. TypeOK'
    BY TypesKept, SettledParts
  <1>2. tree' \in Nat /\ lock' \in BOOLEAN /\ hardware' \in [Nodes -> Disks \cup {None}]
    BY <1>1 DEF TypeOK
  <1>3. CASE UNCHANGED <<tree, lock, hardware, token>>
    BY <1>2, <1>3, SettledParts
  <1>4. CASE EditTree
    <2>1. UNCHANGED <<lock, hardware, token>> /\ tree <= tree'
      BY <1>2, <1>4, SettledParts DEF EditTree
    <2>2. QED
      BY <1>2, <2>1, SettledParts
  <1>5. ASSUME NEW n \in Nodes, Capture(n) PROVE \A m \in Nodes : hardware[m] \in {None, hardware'[m]}
    <2>1. hardware' = [hardware EXCEPT ![n] = vm[mem.nodes[n].ip].disk]
      BY <1>5 DEF Capture
    <2>2. mem = file
      BY <1>5, SettledParts DEF Capture, At, Saved
    <2>3. hardware[n] # None => hardware[n] = vm[mem.nodes[n].ip].disk
      BY <2>2, SettledParts DEF Disk
    <2>4. QED
      BY <2>1, <2>3, SettledParts
  <1>6. ASSUME NEW n \in Nodes, Capture(n) PROVE UNCHANGED <<tree, lock, token>>
    BY <1>6 DEF Capture
  <1>7. ASSUME NEW n \in Nodes, Switch(n) PROVE UNCHANGED <<tree, hardware, token>> /\ (lock => lock')
    <2>1. UNCHANGED <<tree, hardware, token>> /\ lock' \in {lock, TRUE}
      BY <1>7 DEF Switch
    <2>2. lock => lock'
      BY <2>1
    <2>3. QED
      BY <2>1, <2>2
  <1>8. ASSUME NEW n \in Nodes, Work(n), ~Capture(n), ~Switch(n)
        PROVE  UNCHANGED <<tree, lock, hardware, token>>
    BY <1>8 DEF Work, Purchase, PurchasePending, Adopt, Setup, Unpin, WaitRunning, Firewall, Pin, Push,
                Test, Probe
  <1>9. ~AddToken
    BY SettledParts DEF AddToken
  <1>10. CASE \/ Up \/ Save \/ SaveMarker \/ EnsureCert \/ UpsertDns \/ Raise \/ Kill \/ CalmDown
              \/ UNCHANGED vars \/ \E v \in Servers : Machine(v)
    <2>1. UNCHANGED <<tree, lock, hardware, token>>
      BY <1>10 DEF Up, Save, SaveMarker, EnsureCert, UpsertDns, Raise, Kill, CalmDown, vars,
                   Machine, Provision, Install, Reset, Reboot, ForgetKey
    <2>2. QED
      BY <1>3, <2>1
  <1>11. ASSUME NEW n \in Nodes, Work(n)
         PROVE  /\ tree <= tree' /\ (lock => lock') /\ token' = token
                /\ \A m \in Nodes : hardware[m] \in {None, hardware'[m]}
    <2>1. CASE Capture(n)
      BY <1>5, <1>6, <2>1, SettledParts
    <2>2. CASE Switch(n)
      BY <1>7, <2>2, SettledParts
    <2>3. CASE ~Capture(n) /\ ~Switch(n)
      BY <1>3, <1>8, <1>11, <2>3
    <2>4. QED
      BY <2>1, <2>2, <2>3
  <1>12. QED
    BY <1>2, <1>4, <1>9, <1>10, <1>11 DEF Next, Run

\* A revision of the past does not come back.
LEMMA OlderKept ==
  ASSUME Unsurprised, [Next]_vars, NEW r \in Revs, Older(r)
  PROVE  Older(r)' /\ (r = Rev' => r = Rev)
  <1>1. /\ tree <= tree' /\ tree' \in Nat /\ tree \in Nat /\ (lock => lock') /\ lock' \in BOOLEAN
        /\ lock \in BOOLEAN
        /\ \A n \in Nodes : hardware[n] \in {None, hardware'[n]}
    BY RevGrows, SettledParts
  <1>h. hardware' \in [Nodes -> Disks \cup {None}] /\ hardware \in [Nodes -> Disks \cup {None}]
    BY RevGrows, SettledParts
  <1>2. /\ r = [tree |-> r.tree, lock |-> r.lock, hardware |-> r.hardware]
        /\ r.tree \in Nat /\ r.lock \in BOOLEAN
    <2>1. r \in [tree : Trees \cup {None}, lock : BOOLEAN, hardware : [Nodes -> Disks \cup {None}]]
      BY DEF Revs
    <2>2. r.tree \in Trees \cup {None} /\ r.lock \in BOOLEAN
      BY <2>1
    <2>3. r = [tree |-> r.tree, lock |-> r.lock, hardware |-> r.hardware]
      BY <2>1
    <2>4. QED
      BY <2>2, <2>3
  <1>3. /\ r.tree <= tree /\ (r.lock => lock) /\ \A n \in Nodes : r.hardware[n] \in {None, hardware[n]}
    BY DEF Older
  <1>4. Older(r)'
    <2>1. r.tree <= tree' /\ (r.lock => lock')
      BY <1>1, <1>2, <1>3
    <2>2. \A n \in Nodes : r.hardware[n] \in {None, hardware'[n]}
      BY <1>1, <1>3
    <2>3. QED
      BY <2>1, <2>2 DEF Older
  <1>5. ASSUME r = Rev' PROVE r = Rev
    <2>1. r.tree = tree' /\ r.lock = lock' /\ r.hardware = hardware'
      BY <1>5 DEF Rev
    <2>2. tree' = tree
      BY <1>1, <1>3, <2>1
    <2>3. lock' = lock
      BY <1>1, <1>3, <2>1
    <2>4. ASSUME NEW n \in Nodes PROVE hardware'[n] = hardware[n]
      <3>1. hardware'[n] = None \/ hardware'[n] = hardware[n]
        BY <1>3, <2>1
      <3>2. hardware[n] = None \/ hardware[n] = hardware'[n]
        BY <1>1
      <3>3. QED
        BY <3>1, <3>2
    <2>5. hardware' = hardware
      <3>1. hardware' = [n \in Nodes |-> hardware'[n]] /\ hardware = [n \in Nodes |-> hardware[n]]
        BY <1>h
      <3>2. [n \in Nodes |-> hardware'[n]] = [n \in Nodes |-> hardware[n]]
        BY <2>4
      <3>3. QED
        BY <3>1, <3>2
    <2>6. QED
      BY <1>5, <2>2, <2>3, <2>5 DEF Rev
  <1>6. QED
    BY <1>4, <1>5

\* A node is rebuilt when what was pushed to it is what infra/ is now.
LEMMA ReadyToRebuild ==
  ASSUME Unsurprised, NEW n \in Nodes, Test(n) \/ Switch(n)
  PROVE  First(n) /\ Ready(n)
  <1>1. PICK l \in {"run", "switch"} : At(l, "rebuild", n)
    BY DEF Test, Switch
  <1>2. Ahead({"rebuild"}, n)
    BY <1>1, AheadNow
  <1>3. ~Ahead({"push"}, n)
    <2>1. Stage("push") = Stage("rebuild") /\ Rank("push") <= Rank("rebuild")
      BY DEF Stage, Rank
    <2>2. QED
      BY <1>1, <2>1, NothingBefore, SettledParts
  <1>4. QED
    BY <1>2, <1>3, SettledParts DEF Rebuilding

\* What is recorded as applied stays on the machine.
LEMMA AppliedStays ==
  ASSUME Unsurprised, [Next]_vars, NEW st \in {file, mem}, NEW n \in Nodes,
         NEW r, r = st.nodes[n].applied, r # NoRev, NEW v, v = st.nodes[n].ip
  PROVE  /\ v # None /\ Older(r)'
         /\ token' => vm'[v].cert
         /\ r = Rev' => vm'[v].boot = Rev' /\ vm'[v].active = Rev'
  <1>1. /\ v # None /\ Older(r) /\ (token => vm[v].cert)
        /\ r = Rev => vm[v].boot = Rev /\ vm[v].active = Rev
    <2>1. Applied(st)
      BY SettledParts
    <2>2. QED
      BY <2>1 DEF Applied
  <1>2. v \in Servers /\ vm[v].state = "running"
    BY <1>1, MachineOf, SettledIsSteady
  <1>3. r \in Revs
    BY SettledParts DEF NodeStates
  <1>4. Older(r)' /\ (r = Rev' => r = Rev)
    BY <1>1, <1>3, OlderKept
  <1>5. /\ vm[v].cert => vm'[v].cert
        /\ \/ vm'[v].boot = vm[v].boot /\ vm'[v].active \in {vm[v].active, vm[v].boot}
           \/ \E m \in Nodes : /\ Test(m) \/ Switch(m)
                               /\ mem.nodes[m].ip = v /\ vm'[v].active = vm[v].pushed
                               /\ vm'[v].boot = IF Switch(m) THEN vm[v].pushed ELSE vm[v].boot
    BY <1>2, RunningStays, SettledIsSteady
  <1>6. token' => vm'[v].cert
    BY <1>1, <1>5, RevGrows
  <1>7. ASSUME r = Rev' PROVE vm'[v].boot = r /\ vm'[v].active = r
    <2>1. r = Rev /\ vm[v].boot = r /\ vm[v].active = r
      BY <1>1, <1>4, <1>7
    <2>2. ASSUME NEW m \in Nodes, Test(m) \/ Switch(m), mem.nodes[m].ip = v PROVE vm[v].pushed = r
      BY <2>1, <2>2, ReadyToRebuild DEF Ready
    <2>3. QED
      BY <1>5, <2>1, <2>2
  <1>8. QED
    BY <1>1, <1>4, <1>6, <1>7

\* A switch makes permanent what it records.
LEMMA SwitchApplies ==
  ASSUME Unsurprised, [Next]_vars, NEW n \in Nodes, Switch(n),
         NEW r, r = Rev, NEW v, v = mem.nodes[n].ip
  PROVE  /\ v # None /\ Older(r)'
         /\ token' => vm'[v].cert
         /\ r = Rev' => vm'[v].boot = Rev' /\ vm'[v].active = Rev'
  <1>1. v # None /\ vm[v].pushed = r /\ (token => vm[v].cert)
    BY ReadyToRebuild DEF Ready
  <1>2. v \in Servers /\ vm[v].state = "running"
    BY <1>1, MachineOf, SettledIsSteady
  <1>3. r \in Revs /\ Older(r)
    <2>1. r.tree = tree /\ r.lock = lock /\ r.hardware = hardware
      BY DEF Rev
    <2>2. Older(r)
      BY <2>1, SettledParts DEF Older
    <2>3. r \in Revs
      BY SettledParts DEF Rev, Revs, TypeOK
    <2>4. QED
      BY <2>2, <2>3
  <1>4. Older(r)'
    BY <1>3, OlderKept
  <1>5. vm'[v].boot = r /\ vm'[v].active = r
    BY <1>1, <1>2, SettledParts DEF Switch, Machines
  <1>6. vm[v].cert => vm'[v].cert
    BY <1>2, RunningStays, SettledIsSteady
  <1>7. token' = token
    BY RevGrows
  <1>8. QED
    BY <1>1, <1>4, <1>5, <1>6, <1>7

LEMMA AppliedKept ==
  ASSUME Unsurprised, [Next]_vars PROVE Applied(file)' /\ Applied(mem)'
  <1>1. file' \in {file, mem}
    BY MemChanges, SettledParts
  <1>2. ASSUME NEW n \in Nodes, file'.nodes[n].applied # NoRev
        PROVE  /\ file'.nodes[n].ip # None /\ Older(file.nodes[n].applied)'
               /\ token' => vm'[file'.nodes[n].ip].cert
               /\ file'.nodes[n].applied = Rev' => /\ vm'[file'.nodes[n].ip].boot = Rev'
                                                   /\ vm'[file'.nodes[n].ip].active = Rev'
    <2>1. PICK st \in {file, mem} : file' = st
      BY <1>1
    <2>2. PICK r, v : r = st.nodes[n].applied /\ v = st.nodes[n].ip
      OBVIOUS
    <2>3. /\ v # None /\ Older(r)'
          /\ token' => vm'[v].cert
          /\ r = Rev' => vm'[v].boot = Rev' /\ vm'[v].active = Rev'
      BY <1>2, <2>1, <2>2, AppliedStays
    <2>4. Older(file.nodes[n].applied)'
      BY <2>1, <2>2, <2>3 DEF Older
    <2>5. QED
      BY <2>1, <2>2, <2>3, <2>4
  <1>3. ASSUME NEW n \in Nodes, mem'.nodes[n].applied # NoRev
        PROVE  /\ mem'.nodes[n].ip # None /\ Older(mem.nodes[n].applied)'
               /\ token' => vm'[mem'.nodes[n].ip].cert
               /\ mem'.nodes[n].applied = Rev' => /\ vm'[mem'.nodes[n].ip].boot = Rev'
                                                  /\ vm'[mem'.nodes[n].ip].active = Rev'
    <2> DEFINE s == mem.nodes[n]
    <2>1. PICK r, v : r = mem'.nodes[n].applied /\ v = mem'.nodes[n].ip
      OBVIOUS
    <2>2. /\ v # None /\ Older(r)'
          /\ token' => vm'[v].cert
          /\ r = Rev' => vm'[v].boot = Rev' /\ vm'[v].active = Rev'
      <3>1. CASE mem' = file \/ mem'.nodes[n] = s
        BY <1>3, <2>1, <3>1, AppliedStays
      <3>2. CASE Becomes(n, mem'.nodes[n]) /\ r = s.applied
        <4>1. s.ip # None
          BY <1>3, <2>1, <3>2, SettledParts DEF Applied
        <4>2. v = s.ip
          BY <2>1, <3>2, <4>1, MachineOf, SettledIsSteady DEF Becomes
        <4>3. QED
          BY <1>3, <2>1, <3>2, <4>2, AppliedStays
      <3>3. CASE Becomes(n, mem'.nodes[n]) /\ Switch(n) /\ r = Rev
        <4>1. v = s.ip
          BY <2>1, <3>3 DEF Becomes, WaitRunning, Switch, At
        <4>2. QED
          BY <3>3, <4>1, SwitchApplies
      <3>4. QED
        BY <2>1, <3>1, <3>2, <3>3, NodeBecomes, SettledParts DEF Becomes
    <2>3. Older(mem.nodes[n].applied)'
      BY <2>1, <2>2 DEF Older
    <2>4. QED
      BY <2>1, <2>2, <2>3
  <1>4. QED
    BY <1>2, <1>3 DEF Applied

\* Nothing of infra/ changes between the push and the rebuild of a node.
LEMMA RevStays ==
  ASSUME Unsurprised, [Next]_vars, ~Up, NEW n \in Nodes, First(n),
         Ahead({"rebuild"}, n), Ahead({"rebuild"}, n)'
  PROVE  Rev' = Rev
  <1> USE DEF infraVars, secretVars, runVars, Return
  <1>1. ~EditTree
    <2>1. pc # "idle"
      BY SettledParts DEF Idle, Ahead
    <2>2. QED
      BY <2>1, SettledParts DEF EditTree
  <1>2. ASSUME NEW m \in Nodes, Capture(m) PROVE FALSE
    <2>1. PICK x \in todo : x.act = "capture"
      BY <1>2 DEF Capture, At, Doing
    <2>2. Stage(x.act) = 1
      BY <2>1 DEF Stage
    <2>3. QED
      BY <2>2 DEF First
  <1>3. ASSUME NEW m \in Nodes, Switch(m) PROVE FALSE
    <2>1. At("switch", "rebuild", m) /\ todo' = todo /\ pc' = "save" /\ pc = "switch"
      BY <1>3 DEF Switch, At
    <2>2. PICK x \in todo : x.act = "rebuild" /\ x.node = m /\ Current(x)
      BY <2>1 DEF At, Doing
    <2>3. PICK y \in todo : y.act = "rebuild" /\ y.node = n
      BY DEF Ahead
    <2>4. Stage("rebuild") = 3 /\ Rank("rebuild") = 2
      BY DEF Stage, Rank
    <2>5. m \in Nat /\ n \in Nat /\ m >= n
      BY <2>2, <2>4 DEF First
    <2>6. y = x
      <3> SUFFICES ASSUME y # x PROVE FALSE
        OBVIOUS
      <3>1. Precedes(x, y)
        BY <2>2, <2>3 DEF Current
      <3>2. QED
        BY <2>2, <2>3, <2>4, <2>5, <3>1 DEF Precedes
    <2>7. m = n
      BY <2>2, <2>3, <2>6
    <2>8. ~Ahead({"rebuild"}, n)'
      BY <2>1, <2>7, NothingMore
    <2>9. QED
      BY <2>8
  <1>4. ASSUME NEW m \in Nodes, Work(m) PROVE UNCHANGED <<tree, lock, hardware>>
    BY <1>2, <1>3, <1>4 DEF Work, Purchase, PurchasePending, Adopt, Setup, Unpin, WaitRunning, Firewall,
                            Pin, Push, Test, Probe
  <1>5. Save \/ SaveMarker \/ EnsureCert \/ UpsertDns \/ Raise \/ Kill => UNCHANGED <<tree, lock, hardware>>
    BY DEF Save, SaveMarker, EnsureCert, UpsertDns, Raise, Kill
  <1>6. AddToken \/ CalmDown \/ UNCHANGED vars => UNCHANGED <<tree, lock, hardware>>
    BY DEF AddToken, CalmDown, vars
  <1>7. (\E v \in Servers : Machine(v)) => UNCHANGED <<tree, lock, hardware>>
    BY DEF Machine, Provision, Install, Reset, Reboot, ForgetKey
  <1>8. UNCHANGED <<tree, lock, hardware>>
    BY <1>1, <1>4, <1>5, <1>6, <1>7 DEF Next, Run
  <1>9. QED
    BY <1>8 DEF Rev

\* The steps of the plan go on in their order.
LEMMA FirstStays ==
  ASSUME [Next]_vars, ~Up, NEW n, First(n)
  PROVE  First(n)'
  <1>1. todo' \subseteq todo
    BY TodoShrinks DEF Save
  <1>2. QED
    BY <1>1 DEF First

LEMMA PlanPushes ==
  ASSUME NEW n \in Nodes, NEW x \in Plan, x.act = "rebuild", x.node = n
  PROVE  \E y \in Plan : y.act = "push" /\ y.node = n
  <1>1. PICK m \in Nodes : x \in Steps(Provisioning(m) \cup Deploying(m), m)
    <2>1. x \notin Steps(When(CertPending, "cert"), Primary)
      BY DEF Steps, When
    <2>2. x \notin Steps(When(token /\ ~DnsConverged, "dns"), Primary)
      BY DEF Steps, When
    <2>3. QED
      BY <2>1, <2>2 DEF Plan
  <1>2. m = n /\ "rebuild" \in Provisioning(n) \cup Deploying(n)
    BY <1>1 DEF Steps
  <1>3. "rebuild" \notin Provisioning(n)
    BY DEF Provisioning, When
  <1>4. "push" \in Deploying(n)
    BY <1>2, <1>3 DEF Deploying
  <1> DEFINE y == [act |-> "push", node |-> n, vps |-> IF "push" = "adopt" THEN Seen(n) ELSE None]
  <1>5. y \in Steps(Provisioning(n) \cup Deploying(n), n)
    BY <1>4 DEF Steps
  <1>6. y \in Plan
    BY <1>5 DEF Plan
  <1>7. y.act = "push" /\ y.node = n
    OBVIOUS
  <1>8. QED
    BY <1>6, <1>7

\* After the push a node is the first to be rebuilt, and has what infra/ is.
LEMMA PushedIsReady ==
  ASSUME Unsurprised, NEW n \in Nodes, Push(n)
  PROVE  First(n)' /\ Ready(n)'
  <1> USE DEF infraVars, secretVars, Return
  <1>1. First(n)'
    <2>1. PICK x \in todo : x.act = "push" /\ x.node = n /\ Current(x)
      BY DEF Push, At, Doing
    <2>2. Stage("push") = 3 /\ n \in Nat
      BY DEF Stage
    <2>3. ASSUME NEW y \in todo PROVE Stage(y.act) >= 3 /\ (Stage(y.act) = 3 => y.node >= n)
      <3>1. CASE y = x
        BY <2>1, <2>2, <3>1
      <3>2. CASE y # x
        <4>1. Precedes(x, y)
          BY <2>1, <3>2 DEF Current
        <4>2. Stage(y.act) \in Nat /\ y.node \in Nat
          BY StageTyped, SettledParts DEF TypeOK
        <4>3. QED
          BY <2>1, <2>2, <4>1, <4>2 DEF Precedes
      <3>3. QED
        BY <3>1, <3>2
    <2>4. todo' = todo
      BY DEF Push
    <2>5. QED
      BY <2>3, <2>4 DEF First
  <1>2. PICK v : v = mem.nodes[n].ip
    OBVIOUS
  <1>3. /\ mem' = mem /\ Reached(v) /\ UNCHANGED <<tree, lock, hardware, token>>
        /\ vm' = [vm EXCEPT ![v] = [vm[v] EXCEPT !.pushed = Rev, !.cert = vm[v].cert \/ token]]
    BY <1>2, SettledParts DEF Push
  <1>4. v # None /\ v \in Servers
    BY <1>2, <1>3, MachineOf, SettledIsSteady DEF Reached
  <1>5. vm'[v].pushed = Rev
    BY <1>3, <1>4, SettledParts DEF Machines
  <1>6. vm'[v].cert = (vm[v].cert \/ token)
    BY <1>3, <1>4, SettledParts DEF Machines
  <1>7. Rev' = Rev
    BY <1>3 DEF Rev
  <1>8. token' => vm'[v].cert
    BY <1>3, <1>6
  <1>9. mem'.nodes[n].ip = v
    BY <1>2, <1>3
  <1>10. Ready(n)'
    BY <1>4, <1>5, <1>7, <1>8, <1>9 DEF Ready
  <1>11. QED
    BY <1>1, <1>10

LEMMA RebuildingKept ==
  ASSUME Unsurprised, [Next]_vars PROVE Rebuilding'
  <1> SUFFICES ASSUME NEW n \in Nodes, Ahead({"rebuild"}, n)', ~Ahead({"push"}, n)'
               PROVE  First(n)' /\ Ready(n)'
    BY DEF Rebuilding
  <1>1. todo' # {}
    BY DEF Ahead
  <1>2. ~Up
    <2> SUFFICES ASSUME Up PROVE FALSE
      OBVIOUS
    <2>1. todo' = Plan /\ pc' = "run"
      BY DEF Up
    <2>2. PICK x \in Plan : x.act = "rebuild" /\ x.node = n
      BY <2>1 DEF Ahead
    <2>3. PICK y \in Plan : y.act = "push" /\ y.node = n
      BY <2>2, PlanPushes
    <2>4. Ahead({"push"}, n)'
      BY <2>1, <2>3 DEF Ahead
    <2>5. QED
      BY <2>4
  <1>3. Ahead({"rebuild"}, n)
    BY <1>2, AheadBefore
  <1>4. CASE Push(n)
    BY <1>4, PushedIsReady
  <1>5. CASE ~Push(n)
    <2>1. ~Ahead({"push"}, n)
      BY <1>1, <1>2, <1>5, AheadRemains, SettledParts DEF Takes
    <2>2. First(n) /\ Ready(n)
      BY <1>3, <2>1, SettledParts DEF Rebuilding
    <2>3. PICK v : v = mem.nodes[n].ip
      OBVIOUS
    <2>4. v # None /\ vm[v].pushed = Rev /\ (token => vm[v].cert)
      BY <2>2, <2>3 DEF Ready
    <2>5. v \in Servers /\ vm[v].state = "running" /\ v = mem.nodes[n].vps
      BY <2>3, <2>4, MachineOf, SettledIsSteady
    <2>6. /\ vm[v].cert => vm'[v].cert
          /\ vm'[v].pushed = vm[v].pushed \/ vm'[v].pushed = Rev
      BY <2>5, RunningStays, SettledIsSteady
    <2>7. Rev' = Rev /\ token' = token
      BY <1>2, <1>3, <2>2, RevStays, RevGrows
    <2>8. mem'.nodes[n].ip = v
      BY <1>1, <1>2, <2>3, <2>5, NodeBecomes, SettledParts DEF Becomes
    <2>9. vm'[v].pushed = Rev' /\ (token' => vm'[v].cert)
      BY <2>4, <2>6, <2>7
    <2>10. Ready(n)'
      BY <2>4, <2>8, <2>9 DEF Ready
    <2>11. First(n)'
      BY <1>2, <2>2, FirstStays
    <2>12. QED
      BY <2>10, <2>11
  <1>6. QED
    BY <1>4, <1>5

LEMMA SettledInvHolds == Spec => []SettledInv
  <1>1. Init => SettledInv
    <2> SUFFICES ASSUME Init PROVE SettledInv
      OBVIOUS
    <2>1. /\ \A n \in Nodes : mem.nodes[n] = Fresh /\ file.nodes[n] = Fresh
          /\ todo = {}
      BY DEF Init
    <2>2. Fresh.applied = NoRev
      BY DEF Fresh
    <2>3. Applied(file) /\ Applied(mem) /\ Rebuilding
      BY <2>1, <2>2 DEF Applied, Rebuilding, Ahead
    <2>4. QED
      BY <2>3, InitSteady DEF SettledInv, Settled
  <1>2. SettledInv /\ [Next]_vars => SettledInv'
    <2> SUFFICES ASSUME SettledInv, [Next]_vars PROVE SettledInv'
      OBVIOUS
    <2>1. SteadyInv'
      BY SteadyKept DEF SettledInv
    <2>2. Free(Surprises)' => Free(Surprises)
      BY FaultsFixed DEF Free, Surprises
    <2>3. ASSUME Free(Surprises) PROVE Settled'
      <3>1. Unsurprised
        BY <2>3 DEF Unsurprised
      <3>2. Applied(file)' /\ Applied(mem)' /\ Rebuilding'
        BY <3>1, AppliedKept, RebuildingKept
      <3>3. QED
        BY <3>2 DEF Settled
    <2>4. QED
      BY <2>1, <2>2, <2>3 DEF SettledInv
  <1>3. QED
    BY <1>1, <1>2, PTL DEF Spec

\* When `up` finds nothing to do, every node runs what infra/ describes and will
\* after a reboot, with its certificate, whatever earlier runs were cut short.
THEOREM NothingToDoIsHonest == Spec => []NothingToDoIsTrue
  <1>1. SettledInv => NothingToDoIsTrue
    <2> SUFFICES ASSUME SettledInv, NothingToDo, Free(Surprises), NEW n \in Nodes PROVE UpToDate(n)
      BY DEF NothingToDoIsTrue
    <2>1. Unsurprised
      BY DEF Unsurprised
    <2> DEFINE s == file.nodes[n]
    <2>2. Provisioning(n) = {} /\ Deploying(n) = {}
      <3>1. Steps(Provisioning(n) \cup Deploying(n), n) = {}
        BY DEF NothingToDo, Plan
      <3>2. ASSUME NEW a \in Provisioning(n) \cup Deploying(n) PROVE FALSE
        <4>1. [act |-> a, node |-> n, vps |-> IF a = "adopt" THEN Seen(n) ELSE None]
                \in Steps(Provisioning(n) \cup Deploying(n), n)
          BY DEF Steps
        <4>2. QED
          BY <3>1, <4>1
      <3>3. QED
        BY <3>2
    <2>3. s.applied = Rev
      BY <2>2 DEF Deploying, NeedsDeploy
    <2>4. s.vps # None /\ vm[s.vps].state = "running" /\ s.ip = s.vps /\ vm[s.vps].wall
      <3>1. s.vps # None
        BY <2>2 DEF Provisioning, When
      <3>2. Seen(n) = s.vps
        BY <3>1 DEF Seen
      <3>3. QED
        BY <2>2, <3>1, <3>2 DEF Provisioning, When
    <2>5. Rev # NoRev
      <3>1. Rev.tree = tree /\ NoRev.tree = None /\ tree # None
        BY <2>1, SettledParts DEF Rev, NoRev, TypeOK
      <3>2. QED
        BY <3>1
    <2>6. (token => vm[s.ip].cert) /\ vm[s.ip].boot = Rev /\ vm[s.ip].active = Rev
      BY <2>1, <2>3, <2>5, SettledParts DEF Applied
    <2>7. QED
      BY <2>4, <2>6 DEF UpToDate
  <1>2. QED
    BY <1>1, SettledInvHolds, PTL

-----------------------------------------------------------------------------
(* Every node is provisioned first. *)

Walled(v) == v # None /\ vm[v].wall
HasDisk == \A v \in Servers : vm[v].state = "running" => vm[v].disk # None

\* The server that is still to be adopted has its firewall already.
WalledAdoption(n) ==
  Ahead({"adopt"}, n) /\ \A x \in todo : x.act = "adopt" /\ x.node = n => Walled(x.vps)

\* What a node lacks is ahead; a purchase that is waited for ends the run.
Provisioned(n) ==
  LET s == mem.nodes[n]
  IN \/ Ahead({"wait_purchase"}, n)
     \/ /\ s.vps # None \/ Ahead({"purchase", "adopt"}, n)
        /\ (s.ip # None /\ s.ip = s.vps) \/ Ahead({"wait_running"}, n)
        /\ Walled(s.vps) \/ Ahead({"firewall"}, n) \/ WalledAdoption(n)
        /\ s.pinned \/ Ahead({"pin"}, n)
        /\ (s.captured /\ hardware[n] # None) \/ Ahead({"capture"}, n)

\* What a step takes from a node is given back by a later one.
Ordered(n) ==
  /\ Ahead({"setup"}, n) => Ahead({"pin"}, n) /\ Ahead({"capture"}, n)
  /\ Ahead({"purchase", "adopt"}, n) => /\ Ahead({"wait_running"}, n)
                                        /\ Ahead({"firewall"}, n) \/ WalledAdoption(n)

ProvisionInv ==
  /\ OwnInv /\ Saved /\ Adopting /\ HasDisk
  /\ todo # {} /\ pc # "marker" => \A n \in Nodes : Provisioned(n) /\ Ordered(n)

LEMMA ProvisionParts ==
  ASSUME ProvisionInv
  PROVE  /\ TypeOK /\ OwnInv /\ Saved /\ Adopting /\ HasDisk
         /\ vm \in [Servers -> Machines] /\ \A v \in Servers : vm[v] \in Machines
         /\ hardware \in [Nodes -> Disks \cup {None}]
         /\ \A n \in Nodes : mem.nodes[n] \in NodeStates
         /\ None \notin Servers
  <1>1. TypeOK
    BY DEF ProvisionInv, OwnInv
  <1>2. \A n \in Nodes : mem.nodes[n] \in NodeStates
    BY <1>1 DEF TypeOK, StateFiles
  <1>3. vm \in [Servers -> Machines] /\ (\A v \in Servers : vm[v] \in Machines)
        /\ hardware \in [Nodes -> Disks \cup {None}]
    BY <1>1 DEF TypeOK
  <1>4. QED
    BY <1>1, <1>2, <1>3 DEF ProvisionInv

\* A server keeps its firewall, and a running one has disk facts.
LEMMA WallStays ==
  ASSUME ProvisionInv, [Next]_vars, NEW v \in Servers
  PROVE  /\ vm[v].state # "none" /\ vm[v].wall => vm'[v].wall
         /\ vm'[v].state = "running" => vm'[v].disk # None
  <1> USE DEF infraVars, secretVars, runVars
  <1> DEFINE Goal == /\ vm[v].state # "none" /\ vm[v].wall => vm'[v].wall
                     /\ vm'[v].state = "running" => vm'[v].disk # None
  <1>1. CASE vm'[v] = vm[v]
    BY <1>1, ProvisionParts DEF HasDisk
  <1>2. ASSUME vm'[v].state = vm[v].state, vm'[v].disk = vm[v].disk, vm[v].wall => vm'[v].wall PROVE Goal
    BY <1>2, ProvisionParts DEF HasDisk
  <1>3. ASSUME NEW w, NEW u, vm' = [vm EXCEPT ![w] = u], w = v => Goal PROVE Goal
    BY <1>1, <1>3, ProvisionParts
  <1>4. ASSUME NEW n \in Nodes, Work(n) PROVE Goal
    <2>1. CASE Purchase(n) \/ PurchasePending(n)
      <3>1. PICK w \in Servers, st \in {"installing", "paid"}, m \in {n, None} :
              NextServer(w) /\ Bought(w, n, st, m)
        BY <2>1 DEF Purchase, PurchasePending
      <3>2. w = v => vm[v].state = "none" /\ vm'[v].state = st
        BY <3>1, ProvisionParts DEF NextServer, Bought, NoServer
      <3>3. QED
        BY <1>3, <3>1, <3>2 DEF Bought
    <2>2. CASE Setup(n)
      <3> DEFINE w == mem.nodes[n].vps
      <3>1. vm' = [vm EXCEPT ![w] = [vm[w] EXCEPT !.state = "installing", !.name = n]]
        BY <2>2, ProvisionParts DEF Setup
      <3>2. w = v => vm'[v].state = "installing" /\ vm'[v].wall = vm[v].wall
        BY <3>1, ProvisionParts DEF Machines
      <3>3. QED
        BY <1>3, <3>1, <3>2
    <2>3. CASE Firewall(n)
      <3>1. vm' = [vm EXCEPT ![mem.nodes[n].vps] = [vm[mem.nodes[n].vps] EXCEPT !.wall = TRUE]]
        BY <2>3, ProvisionParts DEF Firewall
      <3>2. mem.nodes[n].vps = v => vm'[v].state = vm[v].state /\ vm'[v].disk = vm[v].disk /\ vm'[v].wall
        BY <3>1, ProvisionParts DEF Machines
      <3>3. QED
        BY <1>2, <1>3, <3>1, <3>2
    <2>4. CASE Push(n) \/ Test(n) \/ Switch(n)
      <3> DEFINE w == mem.nodes[n].ip
      <3>1. \/ vm' = [vm EXCEPT ![w] = [vm[w] EXCEPT !.pushed = Rev, !.cert = vm[w].cert \/ token]]
            \/ vm' = [vm EXCEPT ![w] = [vm[w] EXCEPT !.active = vm[w].pushed]]
            \/ vm' = [vm EXCEPT ![w] = [vm[w] EXCEPT !.active = vm[w].pushed, !.boot = vm[w].pushed]]
        BY <2>4, ProvisionParts DEF Push, Test, Switch
      <3>2. CASE w = v
        <4> DEFINE Same == vm'[v].state = vm[v].state /\ vm'[v].disk = vm[v].disk /\ vm'[v].wall = vm[v].wall
        <4>1. vm' = [vm EXCEPT ![w] = [vm[w] EXCEPT !.pushed = Rev, !.cert = vm[w].cert \/ token]] => Same
          BY <3>2, ProvisionParts DEF Machines
        <4>2. vm' = [vm EXCEPT ![w] = [vm[w] EXCEPT !.active = vm[w].pushed]] => Same
          BY <3>2, ProvisionParts DEF Machines
        <4>3. vm' = [vm EXCEPT ![w] = [vm[w] EXCEPT !.active = vm[w].pushed, !.boot = vm[w].pushed]] => Same
          BY <3>2, ProvisionParts DEF Machines
        <4>4. QED
          BY <1>2, <3>1, <4>1, <4>2, <4>3
      <3>3. CASE w # v
        <4>1. vm'[v] = vm[v]
          BY <3>1, <3>3, ProvisionParts
        <4>2. QED
          BY <1>1, <4>1
      <3>4. QED
        BY <3>2, <3>3
    <2>5. CASE Adopt(n) \/ Unpin(n) \/ WaitRunning(n) \/ Pin(n) \/ Capture(n) \/ Probe(n)
      BY <1>1, <2>5 DEF Adopt, Unpin, WaitRunning, Pin, Capture, Probe
    <2>6. QED
      BY <1>4, <2>1, <2>2, <2>3, <2>4, <2>5 DEF Work
  <1>5. ASSUME NEW w \in Servers, Machine(w) PROVE Goal
    <2>1. CASE Provision(w) \/ Reset(w)
      <3>1. w # v => vm'[v] = vm[v]
        BY <2>1, ProvisionParts DEF Provision, Reset
      <3>2. w = v => vm'[v].state # "running" /\ vm'[v].wall = vm[v].wall
        BY <2>1, ProvisionParts DEF Provision, Reset, Machines
      <3>3. QED
        BY <1>1, <3>1, <3>2
    <2>2. CASE Install(w)
      <3>1. w # v => vm'[v] = vm[v]
        BY <2>2, ProvisionParts DEF Install
      <3>2. w = v => vm'[v].disk \in Disks /\ vm'[v].wall = vm[v].wall
        BY <2>2, ProvisionParts DEF Install, Machines
      <3>3. QED
        BY <1>1, <3>1, <3>2
    <2>3. CASE Reboot(w)
      <3>1. w # v => vm'[v] = vm[v]
        BY <2>3, ProvisionParts DEF Reboot
      <3>2. w = v => vm'[v].state = vm[v].state /\ vm'[v].disk = vm[v].disk /\ vm'[v].wall = vm[v].wall
        BY <2>3, ProvisionParts DEF Reboot, Machines
      <3>3. QED
        BY <1>1, <1>2, <3>1, <3>2
    <2>4. CASE ForgetKey(w)
      BY <1>1, <2>4 DEF ForgetKey
    <2>5. QED
      BY <1>5, <2>1, <2>2, <2>3, <2>4 DEF Machine
  <1>6. CASE Up \/ Save \/ SaveMarker \/ EnsureCert \/ UpsertDns \/ Raise \/ Kill \/ EditTree
             \/ AddToken \/ CalmDown \/ UNCHANGED vars
    BY <1>1, <1>6 DEF Up, Save, SaveMarker, EnsureCert, UpsertDns, Raise, Kill, EditTree,
                      AddToken, CalmDown, vars
  <1>7. QED
    BY <1>4, <1>5, <1>6 DEF Next, Run

\* What the steps record that provision a node.
LEMMA ProvisionRecords ==
  ASSUME ProvisionInv, NEW n \in Nodes
  PROVE  LET s == mem.nodes[n] IN
         /\ WaitRunning(n) => mem'.nodes[n].ip = s.vps /\ mem'.nodes[n].vps = s.vps
         /\ Pin(n) => mem'.nodes[n].pinned
         /\ Capture(n) => mem'.nodes[n].captured /\ hardware'[n] # None
         /\ Adopt(n) => \E x \in todo : x.act = "adopt" /\ x.node = n /\ mem'.nodes[n].vps = x.vps
         /\ Purchase(n) => todo' = {} \/ mem'.nodes[n].vps \in Servers
         /\ Firewall(n) /\ s.vps # None => mem' = mem /\ vm'[s.vps].wall
  <1> USE DEF infraVars, secretVars, runVars, Return, End
  <1> DEFINE s == mem.nodes[n]
  <1>s. s \in NodeStates /\ TypeOK
    BY ProvisionParts
  <1>1. ASSUME WaitRunning(n) PROVE mem'.nodes[n].ip = s.vps /\ mem'.nodes[n].vps = s.vps
    <2>1. mem' = With(n, [s EXCEPT !.ip = s.vps])
      BY <1>1 DEF WaitRunning
    <2>2. mem'.nodes[n] = [s EXCEPT !.ip = s.vps]
      BY <1>s, <2>1, RecordedNode
    <2>3. QED
      BY <1>s, <2>2 DEF NodeStates
  <1>2. ASSUME Pin(n) PROVE mem'.nodes[n].pinned
    <2>1. mem' = With(n, [s EXCEPT !.pinned = TRUE])
      BY <1>2 DEF Pin
    <2>2. mem'.nodes[n] = [s EXCEPT !.pinned = TRUE]
      BY <1>s, <2>1, RecordedNode
    <2>3. QED
      BY <1>s, <2>2 DEF NodeStates
  <1>3. ASSUME Capture(n) PROVE mem'.nodes[n].captured /\ hardware'[n] # None
    <2>1. mem' = With(n, [s EXCEPT !.captured = TRUE])
      BY <1>3 DEF Capture
    <2>2. mem'.nodes[n] = [s EXCEPT !.captured = TRUE]
      BY <1>s, <2>1, RecordedNode
    <2>3. mem'.nodes[n].captured
      BY <1>s, <2>2 DEF NodeStates
    <2>4. s.ip \in Servers /\ vm[s.ip].state = "running" /\ hardware'[n] = vm[s.ip].disk
      BY <1>3, <1>s, ProvisionParts DEF Capture, Reached, Answers, NodeStates
    <2>5. QED
      BY <2>3, <2>4, ProvisionParts DEF HasDisk
  <1>4. ASSUME Adopt(n) PROVE \E x \in todo : x.act = "adopt" /\ x.node = n /\ mem'.nodes[n].vps = x.vps
    <2>1. PICK x \in todo : Doing(x, "adopt", n) /\ mem' = With(n, [s EXCEPT !.vps = x.vps, !.pending = None])
      BY <1>4 DEF Adopt
    <2>2. mem'.nodes[n] = [s EXCEPT !.vps = x.vps, !.pending = None]
      BY <1>s, <2>1, RecordedNode
    <2>3. mem'.nodes[n].vps = x.vps
      BY <1>s, <2>2 DEF NodeStates
    <2>4. QED
      BY <2>1, <2>3 DEF Doing
  <1>5. ASSUME Purchase(n), todo' # {} PROVE mem'.nodes[n].vps \in Servers
    <2>1. PICK v \in Servers : mem' = With(n, [s EXCEPT !.vps = v])
      BY <1>5 DEF Purchase
    <2>2. mem'.nodes[n] = [s EXCEPT !.vps = v]
      BY <1>s, <2>1, RecordedNode
    <2>3. QED
      BY <1>s, <2>2 DEF NodeStates
  <1>6. ASSUME Firewall(n), s.vps # None PROVE mem' = mem /\ vm'[s.vps].wall
    <2>1. s.vps \in Servers /\ mem' = mem /\ vm' = [vm EXCEPT ![s.vps] = [vm[s.vps] EXCEPT !.wall = TRUE]]
      BY <1>6, <1>s DEF Firewall, NodeStates
    <2>2. QED
      BY <2>1, ProvisionParts DEF Machines
  <1>7. QED
    BY <1>1, <1>2, <1>3, <1>4, <1>5, <1>6

\* Disk facts are replaced, never removed.
LEMMA HardwareStays ==
  ASSUME ProvisionInv, [Next]_vars, NEW n \in Nodes, hardware[n] # None
  PROVE  hardware'[n] # None
  <1> USE DEF infraVars, secretVars, runVars, Return
  <1>1. ASSUME NEW m \in Nodes, Work(m) PROVE hardware'[n] # None
    <2>1. CASE Capture(m)
      <3>1. hardware' = [hardware EXCEPT ![m] = vm[mem.nodes[m].ip].disk]
        BY <2>1 DEF Capture
      <3>2. CASE m = n
        BY <2>1, <3>2, ProvisionRecords
      <3>3. CASE m # n
        BY <3>1, <3>3, ProvisionParts
      <3>4. QED
        BY <3>2, <3>3
    <2>2. CASE ~Capture(m)
      BY <1>1, <2>2 DEF Work, Purchase, PurchasePending, Adopt, Setup, Unpin, WaitRunning, Firewall,
                        Pin, Push, Test, Probe, Switch
    <2>3. QED
      BY <2>1, <2>2
  <1>2. Up \/ Save \/ SaveMarker \/ EnsureCert \/ UpsertDns \/ Raise \/ Kill => hardware' = hardware
    BY DEF Up, Save, SaveMarker, EnsureCert, UpsertDns, Raise, Kill
  <1>3. CalmDown \/ EditTree \/ AddToken \/ UNCHANGED vars => hardware' = hardware
    BY DEF CalmDown, vars, EditTree, AddToken
  <1>4. (\E v \in Servers : Machine(v)) => hardware' = hardware
    BY DEF Machine, Provision, Install, Reset, Reboot, ForgetKey
  <1>5. QED
    BY <1>1, <1>2, <1>3, <1>4 DEF Next, Run

\* A plan provides for what a node lacks.
LEMMA PlanIsComplete ==
  ASSUME ProvisionInv, Up, NEW n \in Nodes
  PROVE  Provisioned(n)' /\ Ordered(n)'
  <1> DEFINE s == file.nodes[n]
             v == Seen(n)
             P == Provisioning(n)
  <1>1. mem' = file /\ todo' = Plan /\ pc' = "run" /\ vm' = vm /\ hardware' = hardware
    BY DEF Up, infraVars
  <1>2. \A acts : Ahead(acts, n)' <=> \E x \in Plan : x.act \in acts /\ x.node = n
    BY <1>1 DEF Ahead
  <1>3. \A a \in P : Ahead({a}, n)'
    BY <1>2, PlanOfNode, ProvisionParts
  <1>4. /\ Ahead({"setup"}, n)' => "setup" \in P
        /\ Ahead({"purchase", "adopt"}, n)' => "purchase" \in P \/ "adopt" \in P
    BY <1>2, PlanOfNode, ProvisionParts
  <1>5. s.vps # None => v = s.vps
    BY DEF Seen
  <1>6. \/ "wait_purchase" \in P
        \/ /\ s.vps # None \/ "purchase" \in P \/ "adopt" \in P
           /\ (s.ip # None /\ s.ip = s.vps) \/ "wait_running" \in P
           /\ "firewall" \in P \/ (Walled(v) /\ (s.vps = v \/ "adopt" \in P))
           /\ s.pinned \/ "pin" \in P
           /\ (s.captured /\ hardware[n] # None) \/ "capture" \in P
    BY <1>5 DEF Provisioning, When, Walled
  <1>7. /\ "setup" \in P => "pin" \in P /\ "capture" \in P
        /\ "purchase" \in P \/ "adopt" \in P => "wait_running" \in P
        /\ "purchase" \in P => "firewall" \in P
        /\ "adopt" \in P => "firewall" \in P \/ Walled(v)
    BY DEF Provisioning, When, Walled
  <1>8. "adopt" \in P /\ Walled(v) => WalledAdoption(n)'
    <2>1. \A x \in Plan : x.act = "adopt" /\ x.node = n => x.vps = v
      BY PlanProvisions, ProvisionParts
    <2>2. Walled(v) => \A x \in todo' : x.act = "adopt" /\ x.node = n => x.vps # None /\ vm'[x.vps].wall
      BY <1>1, <2>1 DEF Walled
    <2>3. QED
      BY <1>3, <2>2 DEF WalledAdoption, Walled
  <1>9. Walled(v) /\ s.vps = v => Walled(mem.nodes[n].vps)'
    BY <1>1 DEF Walled
  <1>10. "purchase" \in P \/ "adopt" \in P => Ahead({"purchase", "adopt"}, n)'
    BY <1>2, PlanOfNode, ProvisionParts
  <1>11. Provisioned(n)'
    <2>1. CASE "wait_purchase" \in P
      BY <1>3, <2>1 DEF Provisioned
    <2>2. CASE "wait_purchase" \notin P
      BY <1>1, <1>3, <1>6, <1>8, <1>9, <1>10, <2>2 DEF Provisioned
    <2>3. QED
      BY <2>1, <2>2
  <1>12. Ordered(n)'
    BY <1>3, <1>4, <1>7, <1>8 DEF Ordered
  <1>13. QED
    BY <1>11, <1>12

\* Steps of a higher rank wait for those of a lower one.
LEMMA Waiting ==
  ASSUME ProvisionInv, NEW n \in Nodes
  PROVE  /\ Ahead({"purchase", "adopt"}, n) => ~WaitRunning(n) /\ ~Firewall(n) /\ ~Pin(n) /\ ~Capture(n)
         /\ Ahead({"setup"}, n) => ~Pin(n) /\ ~Capture(n)
         /\ Ahead({"adopt"}, n) => ~Purchase(n) /\ ~PurchasePending(n)
  <1>1. \A a \in {"wait_running", "firewall", "pin", "capture"} :
          At("run", a, n) => ~Ahead({"purchase"}, n) /\ ~Ahead({"adopt"}, n)
    <2> SUFFICES ASSUME NEW a \in {"wait_running", "firewall", "pin", "capture"}, At("run", a, n)
                 PROVE  ~Ahead({"purchase"}, n) /\ ~Ahead({"adopt"}, n)
      OBVIOUS
    <2>1. \A b \in {"purchase", "adopt"} : b # a /\ Stage(b) = Stage(a) /\ Rank(b) <= Rank(a)
      BY DEF Stage, Rank
    <2>2. QED
      BY <2>1, NothingBefore, ProvisionParts
  <1>2. \A a \in {"pin", "capture"} : At("run", a, n) => ~Ahead({"setup"}, n)
    <2> SUFFICES ASSUME NEW a \in {"pin", "capture"}, At("run", a, n) PROVE ~Ahead({"setup"}, n)
      OBVIOUS
    <2>1. "setup" # a /\ Stage("setup") = Stage(a) /\ Rank("setup") <= Rank(a)
      BY DEF Stage, Rank
    <2>2. QED
      BY <2>1, NothingBefore, ProvisionParts
  <1>3. At("run", "purchase", n) => ~Ahead({"adopt"}, n)
    <2>1. Stage("adopt") = Stage("purchase") /\ Rank("adopt") <= Rank("purchase")
      BY DEF Stage, Rank
    <2>2. QED
      BY <2>1, NothingBefore, ProvisionParts
  <1>4. Ahead({"purchase", "adopt"}, n) => Ahead({"purchase"}, n) \/ Ahead({"adopt"}, n)
    BY DEF Ahead
  <1>5. /\ WaitRunning(n) => At("run", "wait_running", n)
        /\ Firewall(n) => At("run", "firewall", n)
        /\ Pin(n) => At("run", "pin", n)
        /\ Capture(n) => At("run", "capture", n)
        /\ Purchase(n) \/ PurchasePending(n) => At("run", "purchase", n)
    BY DEF WaitRunning, Firewall, Pin, Capture, Purchase, PurchasePending
  <1>6. QED
    BY <1>1, <1>2, <1>3, <1>4, <1>5

\* What was to be done of a node stays so, or is done.
LEMMA StillAhead ==
  ASSUME ProvisionInv, [Next]_vars, ~Up, todo' # {}, NEW n \in Nodes
  PROVE  /\ Ahead({"wait_purchase"}, n) => Ahead({"wait_purchase"}, n)'
         /\ Ahead({"wait_running"}, n) => Ahead({"wait_running"}, n)' \/ WaitRunning(n)
         /\ Ahead({"firewall"}, n) => Ahead({"firewall"}, n)' \/ Firewall(n)
         /\ Ahead({"pin"}, n) => Ahead({"pin"}, n)' \/ Pin(n)
         /\ Ahead({"capture"}, n) => Ahead({"capture"}, n)' \/ Capture(n)
         /\ Ahead({"adopt"}, n) => Ahead({"adopt"}, n)' \/ Adopt(n)
         /\ Ahead({"purchase", "adopt"}, n) =>
              Ahead({"purchase", "adopt"}, n)' \/ Purchase(n) \/ PurchasePending(n) \/ Adopt(n)
  <1>1. /\ Ahead({"wait_purchase"}, n) => Ahead({"wait_purchase"}, n)'
        /\ Ahead({"wait_running"}, n) => Ahead({"wait_running"}, n)' \/ WaitRunning(n)
        /\ Ahead({"firewall"}, n) => Ahead({"firewall"}, n)' \/ Firewall(n)
    BY AheadRemains, ProvisionParts DEF Takes
  <1>2. /\ Ahead({"pin"}, n) => Ahead({"pin"}, n)' \/ Pin(n)
        /\ Ahead({"capture"}, n) => Ahead({"capture"}, n)' \/ Capture(n)
        /\ Ahead({"adopt"}, n) => Ahead({"adopt"}, n)' \/ Adopt(n)
    BY AheadRemains, ProvisionParts DEF Takes
  <1>3. Ahead({"purchase", "adopt"}, n) =>
          Ahead({"purchase", "adopt"}, n)' \/ Purchase(n) \/ PurchasePending(n) \/ Adopt(n)
    BY AheadRemains, ProvisionParts DEF Takes
  <1>4. QED
    BY <1>1, <1>2, <1>3

\* A server that is recorded or planned keeps its firewall.
LEMMA WalledStays ==
  ASSUME ProvisionInv, [Next]_vars
  PROVE  /\ \A n \in Nodes : \A v : v = mem.nodes[n].vps /\ Walled(v) => Walled(v)'
         /\ \A x \in todo : \A v : v = x.vps /\ Walled(v) => Walled(v)'
  <1>1. ASSUME NEW v \in Servers, vm[v].state # "none", Walled(v) PROVE Walled(v)'
    BY <1>1, WallStays DEF Walled
  <1>2. ASSUME NEW n \in Nodes, NEW v, v = mem.nodes[n].vps, Walled(v) PROVE Walled(v)'
    <2>1. v \in Servers /\ vm[v].state # "none"
      BY <1>2, NodeServer, ProvisionParts DEF Walled
    <2>2. QED
      BY <1>1, <1>2, <2>1
  <1>3. ASSUME NEW x \in todo, NEW v, v = x.vps, Walled(v) PROVE Walled(v)'
    <2>1. v \in Servers /\ vm[v].state # "none"
      BY <1>3, ProvisionParts DEF Walled, TypeOK, OwnInv, Planned, Of
    <2>2. QED
      BY <1>1, <1>3, <2>1
  <1>4. QED
    BY <1>2, <1>3

LEMMA AdoptionStays ==
  ASSUME ProvisionInv, [Next]_vars, ~Up, todo' # {}, NEW n \in Nodes, WalledAdoption(n), ~Adopt(n)
  PROVE  WalledAdoption(n)'
  <1>1. Ahead({"adopt"}, n)'
    BY StillAhead DEF WalledAdoption
  <1>2. todo' \subseteq todo
    BY TodoShrinks DEF Save
  <1>3. ASSUME NEW x \in todo, x.act = "adopt", x.node = n PROVE x.vps # None /\ vm'[x.vps].wall
    <2>1. PICK v : v = x.vps
      OBVIOUS
    <2>2. Walled(v)
      BY <1>3, <2>1 DEF WalledAdoption
    <2>3. Walled(v)'
      BY <2>1, <2>2, WalledStays
    <2>4. QED
      BY <2>1, <2>3 DEF Walled
  <1>4. QED
    BY <1>1, <1>2, <1>3 DEF WalledAdoption, Walled

LEMMA OrderedKept ==
  ASSUME ProvisionInv, [Next]_vars, ~Up, todo' # {}, NEW n \in Nodes, Ordered(n)
  PROVE  Ordered(n)'
  <1>1. ASSUME Ahead({"setup"}, n)' PROVE Ahead({"pin"}, n)' /\ Ahead({"capture"}, n)'
    <2>1. Ahead({"setup"}, n)
      BY <1>1, AheadBefore
    <2>2. QED
      BY <2>1, Waiting, StillAhead DEF Ordered
  <1>2. ASSUME Ahead({"purchase", "adopt"}, n)'
        PROVE  Ahead({"wait_running"}, n)' /\ (Ahead({"firewall"}, n)' \/ WalledAdoption(n)')
    <2>1. Ahead({"purchase", "adopt"}, n)
      BY <1>2, AheadBefore
    <2>2. ~Adopt(n)
      BY <1>2, NothingMoreToAdd
    <2>3. Ahead({"wait_running"}, n) /\ (Ahead({"firewall"}, n) \/ WalledAdoption(n))
      BY <2>1 DEF Ordered
    <2>4. ~WaitRunning(n) /\ ~Firewall(n)
      BY <2>1, Waiting
    <2>5. QED
      BY <2>2, <2>3, <2>4, StillAhead, AdoptionStays
  <1>3. QED
    BY <1>1, <1>2 DEF Ordered

LEMMA ProvisionedKept ==
  ASSUME ProvisionInv, [Next]_vars, ~Up, todo' # {}, pc' # "marker", NEW n \in Nodes,
         Ordered(n), Provisioned(n)
  PROVE  Provisioned(n)'
  <1> DEFINE s == mem.nodes[n]
             t == mem'.nodes[n]
             adding == Ahead({"purchase", "adopt"}, n)
  <1>r. \/ t = s
        \/ Becomes(n, t) /\ Work(n)
    BY NodeBecomes, ProvisionParts
  <1>p. ~PurchasePending(n)
    BY DEF PurchasePending, End
  <1>a. Purchase(n) \/ Adopt(n) => adding
    <2>1. Purchase(n) \/ Adopt(n) => At("run", "purchase", n) \/ At("run", "adopt", n)
      BY DEF Purchase, Adopt, At
    <2>2. QED
      BY <2>1, AheadNow
  <1>u. Unpin(n) => Ahead({"setup"}, n)
    BY AheadNow DEF Unpin
  <1>v. /\ t.vps = s.vps \/ Purchase(n) \/ Adopt(n)
        /\ t.ip = s.ip \/ WaitRunning(n)
        /\ s.pinned => t.pinned \/ Unpin(n)
        /\ s.captured => t.captured \/ Unpin(n)
    BY <1>r, ProvisionRecords DEF Becomes
  <1>1. CASE Ahead({"wait_purchase"}, n)
    BY <1>1, StillAhead DEF Provisioned
  <1>2. CASE ~Ahead({"wait_purchase"}, n)
    <2>1. t.vps # None \/ Ahead({"purchase", "adopt"}, n)'
      <3>1. Purchase(n) => t.vps # None
        BY ProvisionRecords, ProvisionParts
      <3>2. Adopt(n) => t.vps # None
        BY ProvisionRecords, ProvisionParts DEF Adopting
      <3>3. s.vps # None \/ adding
        BY <1>2 DEF Provisioned
      <3>4. QED
        BY <1>p, <1>v, <3>1, <3>2, <3>3, StillAhead
    <2>2. (t.ip # None /\ t.ip = t.vps) \/ Ahead({"wait_running"}, n)'
      <3>1. CASE WaitRunning(n)
        <4>1. s.vps # None
          BY <1>2, <3>1, Waiting DEF Provisioned
        <4>2. QED
          BY <3>1, <4>1, ProvisionRecords
      <3>2. CASE ~WaitRunning(n) /\ (Purchase(n) \/ Adopt(n))
        BY <1>a, <3>2, StillAhead DEF Ordered
      <3>3. CASE ~WaitRunning(n) /\ ~Purchase(n) /\ ~Adopt(n)
        BY <1>2, <1>v, <3>3, StillAhead DEF Provisioned
      <3>4. QED
        BY <3>1, <3>2, <3>3
    <2>3. (t.vps # None /\ vm'[t.vps].wall) \/ Ahead({"firewall"}, n)' \/ WalledAdoption(n)'
      <3>1. CASE Adopt(n)
        <4>1. Ahead({"firewall"}, n) \/ WalledAdoption(n)
          BY <1>a, <3>1 DEF Ordered
        <4>2. ~Firewall(n)
          BY <1>a, <3>1, Waiting
        <4>3. CASE WalledAdoption(n)
          <5>1. PICK x \in todo : x.act = "adopt" /\ x.node = n /\ t.vps = x.vps
            BY <3>1, ProvisionRecords
          <5>2. PICK v : v = x.vps
            OBVIOUS
          <5>3. Walled(v)
            BY <4>3, <5>1, <5>2 DEF WalledAdoption
          <5>4. Walled(v)'
            BY <5>1, <5>2, <5>3, WalledStays
          <5>5. QED
            BY <5>1, <5>2, <5>4 DEF Walled
        <4>4. QED
          BY <4>1, <4>2, <4>3, StillAhead
      <3>2. CASE Purchase(n)
        <4>1. Ahead({"firewall"}, n) \/ WalledAdoption(n)
          BY <1>a, <3>2 DEF Ordered
        <4>2. ~Firewall(n)
          BY <1>a, <3>2, Waiting
        <4>3. ~WalledAdoption(n)
          BY <3>2, Waiting DEF WalledAdoption
        <4>4. QED
          BY <4>1, <4>2, <4>3, StillAhead
      <3>3. CASE Firewall(n)
        <4>1. s.vps # None
          BY <1>2, <3>3, Waiting DEF Provisioned
        <4>2. QED
          BY <3>3, <4>1, ProvisionRecords
      <3>4. CASE ~Adopt(n) /\ ~Purchase(n) /\ ~Firewall(n)
        <4>1. t.vps = s.vps
          BY <1>v, <3>4
        <4>2. CASE Walled(s.vps)
          <5>1. PICK v : v = s.vps
            OBVIOUS
          <5>2. Walled(v)'
            BY <4>2, <5>1, WalledStays
          <5>3. QED
            BY <4>1, <5>1, <5>2 DEF Walled
        <4>3. CASE ~Walled(s.vps)
          BY <1>2, <3>4, <4>3, StillAhead, AdoptionStays DEF Provisioned
        <4>4. QED
          BY <4>2, <4>3
      <3>5. QED
        BY <3>1, <3>2, <3>3, <3>4
    <2>4. t.pinned \/ Ahead({"pin"}, n)'
      <3>1. CASE Unpin(n)
        BY <1>u, <3>1, Waiting, StillAhead DEF Ordered
      <3>2. CASE ~Unpin(n)
        BY <1>2, <1>v, <3>2, StillAhead, ProvisionRecords DEF Provisioned
      <3>3. QED
        BY <3>1, <3>2
    <2>5. (t.captured /\ hardware'[n] # None) \/ Ahead({"capture"}, n)'
      <3>1. CASE Unpin(n)
        BY <1>u, <3>1, Waiting, StillAhead DEF Ordered
      <3>2. CASE ~Unpin(n)
        BY <1>2, <1>v, <3>2, StillAhead, ProvisionRecords, HardwareStays DEF Provisioned
      <3>3. QED
        BY <3>1, <3>2
    <2>6. QED
      BY <2>1, <2>2, <2>3, <2>4, <2>5 DEF Provisioned, Walled
  <1>3. QED
    BY <1>1, <1>2

LEMMA ProvisionInvHolds == Spec => []ProvisionInv
  <1>1. Init => ProvisionInv
    <2> SUFFICES ASSUME Init PROVE ProvisionInv
      OBVIOUS
    <2>1. (\A v \in Servers : vm[v].state = "none") /\ todo = {} /\ mem = file
      BY DEF Init, NoServer
    <2>2. Saved /\ Adopting /\ HasDisk
      BY <2>1 DEF Saved, Adopting, HasDisk
    <2>3. QED
      BY <2>1, <2>2, InitOwn DEF ProvisionInv
  <1>2. ProvisionInv /\ [Next]_vars => ProvisionInv'
    <2> SUFFICES ASSUME ProvisionInv, [Next]_vars PROVE ProvisionInv'
      OBVIOUS
    <2>1. OwnInv' /\ Saved' /\ Adopting'
      BY OwnKept, SavedKept, AdoptingKept, ProvisionParts
    <2>2. HasDisk'
      BY WallStays DEF HasDisk
    <2>3. ASSUME todo' # {}, pc' # "marker", NEW n \in Nodes PROVE Provisioned(n)' /\ Ordered(n)'
      <3>1. CASE Up
        BY <3>1, PlanIsComplete
      <3>2. CASE ~Up
        <4>1. todo # {} /\ pc # "marker"
          BY <2>3, <3>2, TodoShrinks DEF Save
        <4>2. Provisioned(n) /\ Ordered(n)
          BY <4>1 DEF ProvisionInv
        <4>3. QED
          BY <2>3, <3>2, <4>2, OrderedKept, ProvisionedKept
      <3>3. QED
        BY <3>1, <3>2
    <2>4. QED
      BY <2>1, <2>2, <2>3 DEF ProvisionInv
  <1>3. QED
    BY <1>1, <1>2, PTL DEF Spec

\* When a node's configuration is activated, every node has its address, firewall
\* and hardware files, whatever failed, was killed or was reinstalled before.
THEOREM EveryNodeIsProvisionedFirst == Spec => ProvisionedFirst
  <1>1. ASSUME ProvisionInv, [Next]_vars, pc = "run", pc' = "probe", NEW n \in Nodes
        PROVE  LET s == mem.nodes[n]
               IN /\ s.ip # None /\ s.pinned /\ s.captured
                  /\ vm[s.ip].wall /\ hardware[n] # None
    <2>1. PICK m \in Nodes : Test(m)
      <3> USE DEF infraVars, secretVars, runVars, Return, End
      <3>1. ~Save /\ ~SaveMarker /\ ~EnsureCert /\ ~UpsertDns /\ ~Raise /\ ~Kill /\ ~Up
        BY <1>1 DEF Save, SaveMarker, EnsureCert, UpsertDns, Raise, Kill, Up
      <3>2. ~EditTree /\ ~AddToken /\ ~CalmDown /\ ~UNCHANGED vars
        BY <1>1 DEF EditTree, AddToken, CalmDown, vars
      <3>3. \A v \in Servers : ~Machine(v)
        BY <1>1 DEF Machine, Provision, Install, Reset, Reboot, ForgetKey
      <3>4. PICK m \in Nodes : Work(m)
        BY <1>1, <3>1, <3>2, <3>3 DEF Next, Run
      <3>5. Test(m)
        BY <1>1, <3>4 DEF Work, Purchase, PurchasePending, Adopt, Setup, Unpin, WaitRunning, Firewall, Pin,
                          Capture, Push, Probe, Switch, At
      <3>6. QED
        BY <3>5
    <2>2. PICK y \in todo : y.act = "rebuild" /\ Current(y)
      BY <2>1 DEF Test, At, Doing
    <2>3. ASSUME NEW acts, \A a \in acts : Stage(a) = 1 PROVE ~Ahead(acts, n)
      <3> SUFFICES ASSUME NEW x \in todo, x.act \in acts PROVE FALSE
        BY DEF Ahead
      <3>1. Stage(x.act) = 1 /\ Stage(y.act) = 3
        BY <2>2, <2>3 DEF Stage
      <3>2. Precedes(y, x)
        BY <2>2, <3>1 DEF Current
      <3>3. QED
        BY <3>1, <3>2 DEF Precedes
    <2>4. \A a \in {"wait_purchase", "purchase", "adopt", "wait_running", "firewall", "pin", "capture"} :
            Stage(a) = 1
      BY DEF Stage
    <2>5. /\ ~Ahead({"wait_purchase"}, n) /\ ~Ahead({"purchase", "adopt"}, n) /\ ~Ahead({"adopt"}, n)
          /\ ~Ahead({"wait_running"}, n) /\ ~Ahead({"firewall"}, n) /\ ~Ahead({"pin"}, n)
          /\ ~Ahead({"capture"}, n)
      BY <2>3, <2>4
    <2>6. Provisioned(n)
      BY <1>1, <2>2 DEF ProvisionInv
    <2>7. QED
      BY <2>5, <2>6 DEF Provisioned, WalledAdoption, Walled
  <1>2. ProvisionInv /\ [Next]_vars =>
          [pc = "run" /\ pc' = "probe" =>
             \A n \in Nodes : LET s == mem.nodes[n]
                              IN /\ s.ip # None /\ s.pinned /\ s.captured
                                 /\ vm[s.ip].wall /\ hardware[n] # None]_vars
    BY <1>1
  <1>3. QED
    BY <1>2, ProvisionInvHolds, PTL DEF Spec, ProvisionedFirst

-----------------------------------------------------------------------------
(* The name only resolves to a node that serves. *)

\* A node with an applied revision boots some revision, and has its certificate.
Booted(v) == v # None /\ vm[v].boot # NoRev /\ (token => vm[v].cert)
Serves(st) == \A n \in Nodes : LET s == st.nodes[n] IN s.applied # NoRev => Booted(s.ip)

\* A node is only rebuilt from something that was pushed to it.
Supplied(v) == v # None /\ vm[v].pushed # NoRev /\ (token => vm[v].cert)
Supplying == \A n \in Nodes : Ahead({"rebuild"}, n) => Ahead({"push"}, n) \/ Supplied(mem.nodes[n].ip)

\* A node without an applied revision is still to be rebuilt.
WillServe == todo # {} => \A n \in Nodes : mem.nodes[n].applied # NoRev \/ Ahead({"rebuild"}, n)

\* The name is only planned with a token.
Tokened == \A x \in todo : x.act = "dns" => token

Naming == Serves(file) /\ Serves(mem) /\ Supplying /\ WillServe /\ Tokened
NamedInv == SteadyInv /\ (Free({"reset", "late"}) => Naming)

\* Hypotheses of the step lemmas.
Named == NamedInv /\ Free({"reset", "late"})

LEMMA NamedIsSteady == Named => Unreset
  BY DEF Named, NamedInv, Unreset, Free

LEMMA RevIsSome == ASSUME TypeOK PROVE Rev # NoRev
  <1>1. Rev.tree = tree /\ NoRev.tree = None /\ tree # None
    BY DEF Rev, NoRev, TypeOK
  <1>2. QED
    BY <1>1

LEMMA TokenStays == ASSUME Named, [Next]_vars PROVE token' = token
  <1> USE DEF infraVars, secretVars, runVars, Return, End
  <1>1. ~AddToken
    BY DEF Named, Free, AddToken, May
  <1>2. Up \/ Save \/ SaveMarker \/ EnsureCert \/ UpsertDns \/ Raise \/ Kill => token' = token
    BY DEF Up, Save, SaveMarker, EnsureCert, UpsertDns, Raise, Kill
  <1>3. EditTree \/ CalmDown \/ UNCHANGED vars \/ (\E v \in Servers : Machine(v)) => token' = token
    BY DEF EditTree, CalmDown, vars, Machine, Provision, Install, Reset, Reboot, ForgetKey
  <1>4. \A n \in Nodes : Work(n) => token' = token
    BY DEF Work, Purchase, PurchasePending, Adopt, Setup, Unpin, WaitRunning, Firewall, Pin, Capture,
           Push, Test, Probe, Switch
  <1>5. QED
    BY <1>1, <1>2, <1>3, <1>4 DEF Next, Run

\* What is rebuilt was supplied.
LEMMA RebuiltIsSupplied ==
  ASSUME Named, NEW n \in Nodes, Test(n) \/ Switch(n)
  PROVE  Supplied(mem.nodes[n].ip)
  <1>1. PICK l \in {"run", "switch"} : At(l, "rebuild", n)
    BY DEF Test, Switch
  <1>2. Ahead({"rebuild"}, n)
    BY <1>1, AheadNow
  <1>3. ~Ahead({"push"}, n)
    <2>1. Stage("push") = Stage("rebuild") /\ Rank("push") <= Rank("rebuild")
      BY DEF Stage, Rank
    <2>2. QED
      BY <1>1, <2>1, NothingBefore, NamedIsSteady, SteadyParts
  <1>4. QED
    BY <1>2, <1>3 DEF Named, NamedInv, Naming, Supplying

\* A machine that runs keeps what it was given.
LEMMA GivenStays ==
  ASSUME Named, [Next]_vars, NEW v \in Servers, vm[v].state = "running"
  PROVE  /\ Booted(v) => Booted(v)'
         /\ Supplied(v) => Supplied(v)'
  <1>1. /\ vm[v].cert => vm'[v].cert
        /\ \/ vm'[v].pushed = vm[v].pushed
           \/ \E n \in Nodes : /\ Push(n) /\ mem.nodes[n].ip = v
                               /\ vm'[v].pushed = Rev /\ (token => vm'[v].cert)
        /\ \/ vm'[v].boot = vm[v].boot /\ vm'[v].active \in {vm[v].active, vm[v].boot}
           \/ \E n \in Nodes : /\ Test(n) \/ Switch(n)
                               /\ mem.nodes[n].ip = v /\ vm'[v].active = vm[v].pushed
                               /\ vm'[v].boot = IF Switch(n) THEN vm[v].pushed ELSE vm[v].boot
    BY NamedIsSteady, RunningStays
  <1>2. token' = token
    BY TokenStays
  <1>3. Rev # NoRev
    BY RevIsSome, NamedIsSteady, SteadyParts
  <1>4. ASSUME NEW n \in Nodes, Test(n) \/ Switch(n), mem.nodes[n].ip = v PROVE vm[v].pushed # NoRev
    BY <1>4, RebuiltIsSupplied DEF Supplied
  <1>5. Booted(v) => Booted(v)'
    BY <1>1, <1>2, <1>4 DEF Booted
  <1>6. Supplied(v) => Supplied(v)'
    BY <1>1, <1>2, <1>3 DEF Supplied
  <1>7. QED
    BY <1>5, <1>6

LEMMA ServesKept ==
  ASSUME Named, [Next]_vars PROVE Serves(file)' /\ Serves(mem)'
  <1>1. ASSUME NEW st \in {file, mem}, NEW n \in Nodes, NEW v, v = st.nodes[n].ip, st.nodes[n].applied # NoRev
        PROVE  Booted(v) /\ Booted(v)'
    <2>1. Booted(v)
      BY <1>1 DEF Named, NamedInv, Naming, Serves
    <2>2. v \in Servers /\ vm[v].state = "running"
      <3>1. st.nodes[n].ip # None
        BY <1>1, <2>1 DEF Booted
      <3>2. st.nodes[n].ip \in Servers /\ vm[st.nodes[n].ip].state = "running"
        BY <3>1, MachineOf, NamedIsSteady
      <3>3. QED
        BY <1>1, <3>2
    <2>3. Booted(v)'
      BY <2>1, <2>2, GivenStays
    <2>4. QED
      BY <2>1, <2>3
  <1>2. file' \in {file, mem}
    BY MemChanges, NamedIsSteady, SteadyParts
  <1>3. ASSUME NEW n \in Nodes, NEW v, v = file'.nodes[n].ip, file'.nodes[n].applied # NoRev PROVE Booted(v)'
    BY <1>1, <1>2, <1>3
  <1>4. ASSUME NEW n \in Nodes, NEW v, v = mem'.nodes[n].ip, mem'.nodes[n].applied # NoRev PROVE Booted(v)'
    <2> DEFINE s == mem.nodes[n]
    <2>1. CASE mem' = file \/ mem'.nodes[n] = s
      BY <1>1, <1>4, <2>1
    <2>2. CASE Becomes(n, mem'.nodes[n]) /\ mem'.nodes[n].applied = s.applied
      <3>1. s.ip # None
        BY <1>1, <1>4, <2>2 DEF Booted
      <3>2. v = s.ip
        BY <1>4, <2>2, <3>1, MachineOf, NamedIsSteady DEF Becomes
      <3>3. QED
        BY <1>1, <1>4, <2>2, <3>2
    <2>3. CASE Becomes(n, mem'.nodes[n]) /\ Switch(n)
      <3>1. v = s.ip
        BY <1>4, <2>3 DEF Becomes, WaitRunning, Switch, At
      <3>2. Supplied(v)
        BY <2>3, <3>1, RebuiltIsSupplied
      <3>3. v \in Servers /\ vm[v].state = "running"
        BY <3>1, <3>2, MachineOf, NamedIsSteady DEF Supplied
      <3>4. Supplied(v)'
        BY <3>2, <3>3, GivenStays
      <3>5. vm'[v].boot = vm[v].pushed
        BY <2>3, <3>1, <3>3, NamedIsSteady, SteadyParts DEF Switch, Machines
      <3>6. QED
        BY <3>2, <3>4, <3>5 DEF Supplied, Booted
    <2>4. QED
      BY <2>1, <2>2, <2>3, NodeBecomes, NamedIsSteady, SteadyParts DEF Becomes
  <1>5. ASSUME NEW n \in Nodes, file'.nodes[n].applied # NoRev
        PROVE  LET v == file'.nodes[n].ip IN v # None /\ vm'[v].boot # NoRev /\ (token' => vm'[v].cert)
    <2>1. PICK v : v = file'.nodes[n].ip
      OBVIOUS
    <2>2. QED
      BY <1>3, <1>5, <2>1 DEF Booted
  <1>6. ASSUME NEW n \in Nodes, mem'.nodes[n].applied # NoRev
        PROVE  LET v == mem'.nodes[n].ip IN v # None /\ vm'[v].boot # NoRev /\ (token' => vm'[v].cert)
    <2>1. PICK v : v = mem'.nodes[n].ip
      OBVIOUS
    <2>2. QED
      BY <1>4, <1>6, <2>1 DEF Booted
  <1>7. QED
    BY <1>5, <1>6 DEF Serves, Booted

LEMMA SupplyingKept ==
  ASSUME Named, [Next]_vars PROVE Supplying'
  <1> USE DEF infraVars, secretVars, Return
  <1> SUFFICES ASSUME NEW n \in Nodes, Ahead({"rebuild"}, n)', ~Ahead({"push"}, n)'
               PROVE  LET v == mem'.nodes[n].ip IN v # None /\ vm'[v].pushed # NoRev /\ (token' => vm'[v].cert)
    BY DEF Supplying, Supplied
  <1>1. todo' # {}
    BY DEF Ahead
  <1>2. ~Up
    <2> SUFFICES ASSUME Up PROVE FALSE
      OBVIOUS
    <2>1. todo' = Plan /\ pc' = "run"
      BY DEF Up
    <2>2. PICK x \in Plan : x.act = "rebuild" /\ x.node = n
      BY <2>1 DEF Ahead
    <2>3. PICK y \in Plan : y.act = "push" /\ y.node = n
      BY <2>2, PlanPushes
    <2>4. Ahead({"push"}, n)'
      BY <2>1, <2>3 DEF Ahead
    <2>5. QED
      BY <2>4
  <1>3. PICK v : v = mem.nodes[n].ip
    OBVIOUS
  <1>4. CASE Push(n)
    <2>1. /\ mem' = mem /\ Reached(v)
          /\ vm' = [vm EXCEPT ![v] = [vm[v] EXCEPT !.pushed = Rev, !.cert = vm[v].cert \/ token]]
      BY <1>3, <1>4, NamedIsSteady, SteadyParts DEF Push
    <2>2. v # None /\ v \in Servers
      BY <1>3, <2>1, MachineOf, NamedIsSteady DEF Reached
    <2>3. vm'[v].pushed = Rev
      BY <2>1, <2>2, NamedIsSteady, SteadyParts DEF Machines
    <2>4. vm'[v].cert = (vm[v].cert \/ token)
      BY <2>1, <2>2, NamedIsSteady, SteadyParts DEF Machines
    <2>5. token' => vm'[v].cert
      BY <2>4, TokenStays
    <2>6. Rev # NoRev
      BY RevIsSome, NamedIsSteady, SteadyParts
    <2>7. QED
      BY <1>3, <2>1, <2>2, <2>3, <2>5, <2>6
  <1>5. CASE ~Push(n)
    <2>1. Ahead({"rebuild"}, n)
      BY <1>2, AheadBefore
    <2>2. ~Ahead({"push"}, n)
      BY <1>1, <1>2, <1>5, AheadRemains, NamedIsSteady, SteadyParts DEF Takes
    <2>3. Supplied(v)
      BY <1>3, <2>1, <2>2 DEF Named, NamedInv, Naming, Supplying
    <2>4. v \in Servers /\ vm[v].state = "running" /\ v = mem.nodes[n].vps
      BY <1>3, <2>3, MachineOf, NamedIsSteady DEF Supplied
    <2>5. Supplied(v)'
      BY <2>3, <2>4, GivenStays
    <2>6. mem'.nodes[n].ip = v
      BY <1>1, <1>2, <1>3, <2>4, NodeBecomes, NamedIsSteady, SteadyParts DEF Becomes
    <2>7. QED
      BY <2>5, <2>6 DEF Supplied
  <1>6. QED
    BY <1>4, <1>5

\* A rebuild is ahead until it has switched.
LEMMA RebuildStays ==
  ASSUME TypeOK, [Next]_vars, ~Up, todo' # {}, NEW n \in Nodes, ~Switch(n), Ahead({"rebuild"}, n)
  PROVE  Ahead({"rebuild"}, n)'
  <1> USE DEF infraVars, secretVars, runVars, Return, End
  <1>1. ASSUME NEW m \in Nodes, Work(m) PROVE Ahead({"rebuild"}, n)'
    <2>1. CASE Test(m) \/ Probe(m)
      <3>1. todo' = todo /\ pc' \in {"probe", "switch"}
        BY <2>1 DEF Test, Probe
      <3>2. QED
        BY <3>1 DEF Ahead
    <2>2. CASE ~Test(m) /\ ~Probe(m)
      <3>1. PICK l, a : At(l, a, m) /\ (a # "rebuild" \/ m # n)
        <4>1. /\ Purchase(m) \/ PurchasePending(m) => At("run", "purchase", m)
              /\ Adopt(m) => At("run", "adopt", m)
              /\ Setup(m) => At("run", "setup", m)
              /\ Unpin(m) => At("unpin", "setup", m)
              /\ WaitRunning(m) => At("run", "wait_running", m)
              /\ Firewall(m) => At("run", "firewall", m)
              /\ Pin(m) => At("run", "pin", m)
              /\ Capture(m) => At("run", "capture", m)
              /\ Push(m) => At("run", "push", m)
              /\ Switch(m) => At("switch", "rebuild", m) /\ m # n
          BY DEF Purchase, PurchasePending, Adopt, Setup, Unpin, WaitRunning, Firewall, Pin, Capture, Push,
                 Switch, At
        <4>2. QED
          BY <1>1, <2>2, <4>1 DEF Work
      <3>2. todo' = todo
        BY <1>1, WorkIsAt
      <3>3. QED
        BY <3>1, <3>2, AheadStays
    <2>3. QED
      BY <2>1, <2>2
  <1>2. CASE EnsureCert \/ UpsertDns
    <2>1. PICK a \in {"cert", "dns"} : At("run", a, Primary)
      BY <1>2 DEF EnsureCert, UpsertDns
    <2>2. todo' = todo
      BY <1>2 DEF EnsureCert, UpsertDns
    <2>3. QED
      BY <2>1, <2>2, AheadStays
  <1>3. CASE SaveMarker \/ Raise \/ Kill
    BY <1>3 DEF SaveMarker, Raise, Kill
  <1>4. CASE Save
    <2>1. pc = "save" /\ pc' = "run" /\ todo' = {y \in todo : ~Current(y)}
      BY <1>4 DEF Save
    <2>2. QED
      BY <2>1 DEF Ahead
  <1>5. CASE (\E v \in Servers : Machine(v)) \/ EditTree \/ AddToken \/ CalmDown \/ UNCHANGED vars
    <2>1. UNCHANGED <<pc, todo>>
      BY <1>5 DEF Machine, Provision, Install, Reset, Reboot, ForgetKey, EditTree, AddToken, CalmDown, vars
    <2>2. QED
      BY <2>1 DEF Ahead, Current
  <1>6. QED
    BY <1>1, <1>2, <1>3, <1>4, <1>5 DEF Next, Run

LEMMA WillServeKept ==
  ASSUME Named, [Next]_vars PROVE WillServe' /\ Tokened'
  <1>r. Rev # NoRev /\ TypeOK /\ Saved
    BY RevIsSome, NamedIsSteady, SteadyParts
  <1>w. WillServe /\ Tokened
    BY DEF Named, NamedInv, Naming
  <1>1. ASSUME todo' # {}, NEW n \in Nodes PROVE mem'.nodes[n].applied # NoRev \/ Ahead({"rebuild"}, n)'
    <2> DEFINE s == mem.nodes[n]
    <2>1. CASE Up
      <3>1. mem' = file /\ todo' = Plan /\ pc' = "run"
        BY <2>1 DEF Up
      <3>2. CASE file.nodes[n].applied = NoRev
        <4>1. "rebuild" \in Deploying(n)
          BY <1>r, <3>2 DEF Deploying, NeedsDeploy
        <4> DEFINE x == [act |-> "rebuild", node |-> n, vps |-> IF "rebuild" = "adopt" THEN Seen(n) ELSE None]
        <4>2. x \in Steps(Provisioning(n) \cup Deploying(n), n)
          BY <4>1 DEF Steps
        <4>3. x \in Plan
          BY <4>2 DEF Plan
        <4>4. x.act = "rebuild" /\ x.node = n
          OBVIOUS
        <4>5. QED
          BY <3>1, <4>3, <4>4 DEF Ahead
      <3>3. QED
        BY <3>1, <3>2
    <2>2. CASE ~Up /\ Switch(n)
      <3>1. mem' = With(n, [s EXCEPT !.applied = Rev])
        BY <2>2 DEF Switch, Return
      <3>2. mem'.nodes[n] = [s EXCEPT !.applied = Rev]
        BY <1>r, <3>1, RecordedNode
      <3>3. mem'.nodes[n].applied = Rev
        BY <3>2, NamedIsSteady, SteadyParts DEF NodeStates
      <3>4. QED
        BY <1>r, <3>3
    <2>3. CASE ~Up /\ ~Switch(n)
      <3>1. todo # {}
        BY <1>1, <2>3, TodoShrinks DEF Save
      <3>2. mem'.nodes[n].applied = s.applied
        BY <1>1, <1>r, <2>3, NodeBecomes DEF Becomes
      <3>3. QED
        BY <1>1, <1>r, <1>w, <2>3, <3>1, <3>2, RebuildStays DEF WillServe
    <2>4. QED
      BY <2>1, <2>2, <2>3
  <1>2. ASSUME NEW x \in todo', x.act = "dns" PROVE token'
    <2>1. token' = token
      BY TokenStays
    <2>2. CASE Up
      <3>1. x \in Plan
        BY <1>2, <2>2 DEF Up
      <3>2. \A n \in Nodes : x \notin Steps(Provisioning(n) \cup Deploying(n), n)
        BY <1>2 DEF Steps, Provisioning, Deploying, When
      <3>3. x \notin Steps(When(CertPending, "cert"), Primary)
        BY <1>2 DEF Steps, When
      <3>4. x \in Steps(When(token /\ ~DnsConverged, "dns"), Primary)
        BY <3>1, <3>2, <3>3 DEF Plan
      <3>5. QED
        BY <2>1, <3>4 DEF Steps, When
    <2>3. CASE ~Up
      <3>1. x \in todo
        BY <1>2, <2>3, TodoShrinks DEF Save
      <3>2. QED
        BY <1>2, <1>w, <2>1, <3>1 DEF Tokened
    <2>4. QED
      BY <2>2, <2>3
  <1>3. QED
    BY <1>1, <1>2 DEF WillServe, Tokened

LEMMA NamedInvHolds == Spec => []NamedInv
  <1>1. Init => NamedInv
    <2> SUFFICES ASSUME Init PROVE NamedInv
      OBVIOUS
    <2>1. (\A n \in Nodes : mem.nodes[n] = Fresh /\ file.nodes[n] = Fresh) /\ todo = {}
      BY DEF Init
    <2>2. Fresh.applied = NoRev
      BY DEF Fresh
    <2>3. Naming
      BY <2>1, <2>2 DEF Naming, Serves, Supplying, Ahead, WillServe, Tokened
    <2>4. QED
      BY <2>3, InitSteady DEF NamedInv
  <1>2. NamedInv /\ [Next]_vars => NamedInv'
    <2> SUFFICES ASSUME NamedInv, [Next]_vars PROVE NamedInv'
      OBVIOUS
    <2>1. SteadyInv'
      BY SteadyKept DEF NamedInv
    <2>2. Free({"reset", "late"})' => Free({"reset", "late"})
      BY FaultsFixed DEF Free
    <2>3. ASSUME Free({"reset", "late"}) PROVE Naming'
      <3>1. Named
        BY <2>3 DEF Named
      <3>2. QED
        BY <3>1, ServesKept, SupplyingKept, WillServeKept DEF Naming
    <2>4. QED
      BY <2>1, <2>2, <2>3 DEF NamedInv
  <1>3. QED
    BY <1>1, <1>2, PTL DEF Spec

\* The domain is only pointed at a machine that boots a revision and has the origin
\* certificate, whatever failed, was killed or was edited before, unless a machine
\* is reset behind stack-base's back or the token arrives late.
THEOREM NameIsServed == Spec => NamedBoxServes
  <1>1. ASSUME NamedInv, [Next]_vars, Free({"reset", "late"}), dns' # dns
        PROVE  vm[dns'].boot # NoRev /\ vm[dns'].cert
    <2>1. Named
      BY <1>1 DEF Named
    <2>2. UpsertDns
      <3> USE DEF infraVars, secretVars, runVars, Return, End
      <3>1. Up \/ Save \/ SaveMarker \/ EnsureCert \/ Raise \/ Kill => dns' = dns
        BY DEF Up, Save, SaveMarker, EnsureCert, Raise, Kill
      <3>2. EditTree \/ AddToken \/ CalmDown \/ UNCHANGED vars => dns' = dns
        BY DEF EditTree, AddToken, CalmDown, vars
      <3>3. (\E v \in Servers : Machine(v)) => dns' = dns
        BY DEF Machine, Provision, Install, Reset, Reboot, ForgetKey
      <3>4. \A n \in Nodes : Work(n) => dns' = dns
        BY DEF Work, Purchase, PurchasePending, Adopt, Setup, Unpin, WaitRunning, Firewall, Pin, Capture,
               Push, Test, Probe, Switch
      <3>5. QED
        BY <1>1, <3>1, <3>2, <3>3, <3>4 DEF Next, Run
    <2>3. At("run", "dns", Primary) /\ dns' = mem.nodes[Primary].ip
      BY <2>2 DEF UpsertDns
    <2>4. PICK x \in todo : x.act = "dns"
      BY <2>3 DEF At, Doing
    <2>5. ~Ahead({"rebuild"}, Primary)
      <3>1. Stage("rebuild") < Stage("dns")
        BY DEF Stage
      <3>2. QED
        BY <2>1, <2>3, <3>1, NothingBefore, NamedIsSteady, SteadyParts
    <2>6. mem.nodes[Primary].applied # NoRev /\ token
      BY <2>1, <2>4, <2>5 DEF Named, NamedInv, Naming, WillServe, Tokened
    <2>7. Booted(mem.nodes[Primary].ip)
      BY <2>1, <2>6 DEF Named, NamedInv, Naming, Serves
    <2>8. QED
      BY <2>3, <2>6, <2>7 DEF Booted
  <1>2. NamedInv /\ [Next]_vars =>
          [Free({"reset", "late"}) /\ dns' # dns => vm[dns'].boot # NoRev /\ vm[dns'].cert]_vars
    BY <1>1
  <1>3. QED
    BY <1>2, NamedInvHolds, PTL DEF Spec, NamedBoxServes
=============================================================================
