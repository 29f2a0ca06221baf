--------------------------------- MODULE Reconcile ---------------------------------
(***************************************************************************)
(* `stackbase up`: observe and plan of src/stackbase/reconcile.py, apply,  *)
(* the executors of src/stackbase/steps.py, and the state file.  One run   *)
(* at a time, over the nodes of one environment.  A run plans from what it *)
(* observed, executes its steps in order and saves the state file after    *)
(* each; it may be killed at any point, a step may raise, and servers,     *)
(* the operator and infra/ change under it.                                *)
(*                                                                         *)
(* Abstractions: a server is the number of its purchase, which is also its *)
(* subscription and its address; the observation and the plan are one      *)
(* step; the tree of infra/ is its content without the hardware files; the *)
(* disk facts of a machine may or may not change when it is installed.     *)
(* Keys, R2 rules and the environment files are left out.                  *)
(***************************************************************************)
EXTENDS Naturals, FiniteSets

CONSTANTS
  Nodes,        \* the environment's nodes, numbered in declaration order
  Primary,      \* the node the domain points at
  Servers,      \* what may be bought: 1, 2, ...
  Trees,        \* contents of infra/, numbered in the order they are written
  Locking,      \* the ones whose configuration breaks sshd or the network
  Disks,        \* hardware facts of a machine
  Resettable,   \* the servers that may be put back to their initial state
  FaultModels   \* the sets of faults to consider

None == 0

ASSUME NodesAssumption == Nodes \subseteq Nat \ {0} /\ Primary \in Nodes
ASSUME ServersAssumption == Servers \subseteq Nat \ {0} /\ IsFiniteSet(Servers)
ASSUME TreesAssumption == Trees \subseteq Nat \ {0} /\ Locking \subseteq Trees
ASSUME DisksAssumption == None \notin Disks

\* What may go wrong: a step raises ("fail"), the run is killed ("kill"), the
\* answer to a purchase is lost ("lost"), or the one that says that the payment
\* is being processed ("deaf"); a machine is put back to its initial state in
\* hPanel ("reset"); infra/ is edited during a run ("midrun") or put back to what
\* it was ("revert"); the Cloudflare token is only added later ("late"); a machine
\* reboots while a run tests its new configuration ("reboot").
ASSUME FaultsAssumption ==
  FaultModels \subseteq SUBSET {"fail", "kill", "lost", "deaf", "reset", "edit", "midrun", "revert", "late", "reboot"}

VARIABLES
  vm,         \* the servers at Hostinger
  dns,        \* the address the domain's A record holds
  tree,       \* infra/: the working tree
  lock,       \* infra/flake.lock is there
  hardware,   \* infra/nodes/<node>/: captured disk facts
  pin,        \* infra/known_hosts: is the pinned key the machine's current one?
  token,      \* secrets.age has a cloudflare_token
  cert,       \* secrets.age has the origin certificate and its key
  file,       \* the environment's state file
  mem,        \* the run's copy of it
  todo,       \* the steps of the plan that are still to come, or at work
  pc,         \* where the run is in the current step
  calm,       \* from now on nothing goes wrong and nothing is edited
  faults      \* what may go wrong in this behaviour: it never changes

infraVars == <<tree, lock, hardware, pin>>
secretVars == <<token, cert>>
runVars == <<mem, todo, pc>>
vars == <<vm, dns, infraVars, secretVars, file, runVars, calm, faults>>

May(fault) == fault \in faults /\ ~calm

-----------------------------------------------------------------------------
\* Mutation of Rev: the fingerprint leaves out the hardware files.
RevNoHardware == [tree |-> tree, lock |-> lock]

\* compute_rev: one fingerprint of everything under infra/ that is pushed, the
\* captured hardware of every node included, secrets and state excluded.
Rev == [tree |-> tree, lock |-> lock, hardware |-> hardware]
NoRev == [tree |-> None, lock |-> FALSE, hardware |-> [n \in Nodes |-> None]]
Revs == [tree : Trees \cup {None}, lock : BOOLEAN, hardware : [Nodes -> Disks \cup {None}]]

NoServer == [state |-> "none", for |-> None, name |-> None, wall |-> FALSE, disk |-> None,
             cert |-> FALSE, pushed |-> NoRev, active |-> NoRev, boot |-> NoRev]

\* NodeState.
Fresh == [vps |-> None, pending |-> None, ip |-> None, pinned |-> FALSE,
          captured |-> FALSE, applied |-> NoRev]

Init ==
  /\ vm = [v \in Servers |-> NoServer]
  /\ dns = None
  /\ tree \in Trees /\ \A t \in Trees : tree <= t
  /\ lock = FALSE
  /\ hardware = [n \in Nodes |-> None]
  /\ pin = [v \in Servers |-> "none"]
  /\ faults \in FaultModels
  /\ token \in (IF "late" \in faults THEN {FALSE} ELSE BOOLEAN)
  /\ cert = FALSE
  /\ file = [nodes |-> [n \in Nodes |-> Fresh], dns |-> FALSE]
  /\ mem = file
  /\ todo = {}
  /\ pc = "idle"
  /\ calm = FALSE

Listed(v) == vm[v].state \in {"initial", "installing", "running"}

\* A connection is made when the machine runs, its configuration lets sshd answer
\* and the key it shows is the pinned one.
Answers(v) == vm[v].state = "running" /\ vm[v].active.tree \notin Locking
Reached(v) == v # None /\ Answers(v) /\ pin[v] = "current"

-----------------------------------------------------------------------------
(* observe and plan. *)

\* Mutation of Adoptable: any server with one of the project's hostnames.
AdoptableAnyName(n) ==
  LET pending == file.nodes[n].pending
  IN {v \in Servers : Listed(v) /\ IF pending # None THEN v = pending ELSE vm[v].name # None}

\* _find_adoptable_vms: a node with a pending purchase takes the server of that
\* subscription, any other one the server with its hostname.
Adoptable(n) ==
  LET pending == file.nodes[n].pending
  IN {v \in Servers : Listed(v) /\ IF pending # None THEN v = pending ELSE vm[v].name = n}

\* "stack-base will not guess which one to adopt".
Ambiguous == \E n \in Nodes : file.nodes[n].vps = None /\ Cardinality(Adoptable(n)) > 1

Seen(n) ==
  IF file.nodes[n].vps # None THEN file.nodes[n].vps
  ELSE IF Adoptable(n) # {} THEN CHOOSE v \in Adoptable(n) : TRUE ELSE None

When(condition, act) == IF condition THEN {act} ELSE {}

\* Mutation of Provisioning: a pending purchase is waited for although its server is there.
ProvisioningNeverAdopts(n) ==
  LET s == file.nodes[n]
      v == Seen(n)
      missing == s.vps = None
      setup == v # None /\ vm[v].state = "initial"
  IN IF missing /\ s.pending # None
     THEN {"wait_purchase"}
     ELSE When(missing /\ v # None, "adopt") \cup When(missing /\ v = None, "purchase")
          \cup When(setup, "setup")
          \cup When(missing \/ vm[v].state # "running" \/ s.ip # v, "wait_running")
          \cup When(v = None \/ ~vm[v].wall, "firewall")
          \cup When(~s.pinned \/ setup \/ s.ip # v \/ pin[v] = "none", "pin")
          \cup When(~s.captured \/ setup \/ hardware[n] = None, "capture")

\* _provisioning_steps.
Provisioning(n) ==
  LET s == file.nodes[n]
      v == Seen(n)
      missing == s.vps = None
      setup == v # None /\ vm[v].state = "initial"
  IN IF missing /\ v = None /\ s.pending # None
     THEN {"wait_purchase"}
     ELSE When(missing /\ v # None, "adopt") \cup When(missing /\ v = None, "purchase")
          \cup When(setup, "setup")
          \cup When(missing \/ vm[v].state # "running" \/ s.ip # v, "wait_running")
          \cup When(v = None \/ ~vm[v].wall, "firewall")
          \cup When(~s.pinned \/ setup \/ s.ip # v \/ pin[v] = "none", "pin")
          \cup When(~s.captured \/ setup \/ hardware[n] = None, "capture")

CertPending == token /\ ~cert

\* _needs_deploy.
NeedsDeploy(n) == CertPending \/ file.nodes[n].applied # Rev
Deploying(n) == IF NeedsDeploy(n) THEN {"push", "rebuild"} ELSE {}

\* _dns_converged.
DnsConverged == file.dns /\ dns # None /\ dns = Seen(Primary)

\* ADOPT takes the server that was seen.
Steps(acts, n) ==
  {[act |-> a, node |-> n, vps |-> IF a = "adopt" THEN Seen(n) ELSE None] : a \in acts}

Plan ==
  (UNION {Steps(Provisioning(n) \cup Deploying(n), n) : n \in Nodes})
  \cup Steps(When(CertPending, "cert"), Primary)
  \cup Steps(When(token /\ ~DnsConverged, "dns"), Primary)

\* Mutation of Stage: DNS with the certificate, before any node serves.
StageDnsFirst(a) == CASE a = "cert" -> 2 [] a = "dns" -> 3 [] a \in {"push", "rebuild"} -> 4 [] OTHER -> 1

\* Every node is provisioned before anything is deployed, and DNS comes last.
Stage(a) == CASE a = "cert" -> 2 [] a \in {"push", "rebuild"} -> 3 [] a = "dns" -> 4 [] OTHER -> 1

Rank(a) ==
  CASE a \in {"adopt", "purchase", "wait_purchase", "push"} -> 1
    [] a \in {"setup", "rebuild"} -> 2
    [] a = "wait_running" -> 3
    [] a = "firewall" -> 4
    [] a = "pin" -> 5
    [] OTHER -> 6

\* Mutation of Precedes: one node after the other, from its purchase to its rebuild.
PrecedesNodeByNode(x, y) ==
  \/ x.node < y.node
  \/ x.node = y.node /\ Stage(x.act) < Stage(y.act)
  \/ x.node = y.node /\ Stage(x.act) = Stage(y.act) /\ Rank(x.act) < Rank(y.act)

Precedes(x, y) ==
  \/ Stage(x.act) < Stage(y.act)
  \/ Stage(x.act) = Stage(y.act) /\ x.node < y.node
  \/ Stage(x.act) = Stage(y.act) /\ x.node = y.node /\ Rank(x.act) < Rank(y.act)

Current(x) == x \in todo /\ \A y \in todo \ {x} : Precedes(x, y)

Doing(x, act, n) == x.act = act /\ x.node = n /\ Current(x)
At(label, act, n) == pc = label /\ \E x \in todo : Doing(x, act, n)

-----------------------------------------------------------------------------
(* A run. *)

\* A raised error or a kill ends the run; what was not saved is gone.
End ==
  /\ pc' = "idle"
  /\ todo' = {}
  /\ mem' = file

\* A run that may not buy, or has nothing to do, changes nothing and is no step.
Up ==
  /\ pc = "idle"
  /\ ~Ambiguous
  /\ Plan # {}
  /\ pc' = "run"
  /\ todo' = Plan
  /\ mem' = file
  /\ UNCHANGED <<vm, dns, infraVars, secretVars, file, calm, faults>>

\* apply: the step returned, and the state file is saved.
Save ==
  /\ pc = "save"
  /\ file' = mem
  /\ todo' = {y \in todo : ~Current(y)}
  /\ pc' = IF todo' = {} THEN "idle" ELSE "run"
  /\ UNCHANGED <<vm, dns, infraVars, secretVars, mem, calm, faults>>

Return(state) ==
  /\ mem' = state
  /\ pc' = "save"
  /\ UNCHANGED <<todo, file, calm, faults>>

\* What a node's NodeState becomes.
With(n, node) == [mem EXCEPT !.nodes[n] = node]

NextServer(v) == vm[v].state = "none" /\ \A w \in Servers : w < v => vm[w].state # "none"

Bought(v, n, state, name) ==
  vm' = [vm EXCEPT ![v] = [NoServer EXCEPT !.state = state, !.for = n, !.name = name]]

\* _purchase, with HTTP 200: the server was set up in the same call.
Purchase(n) ==
  /\ At("run", "purchase", n)
  /\ \E v \in Servers :
       /\ NextServer(v)
       /\ Bought(v, n, "installing", n)
       /\ \/ Return(With(n, [mem.nodes[n] EXCEPT !.vps = v]))
          \/ May("lost") /\ End /\ UNCHANGED <<file, calm, faults>>
  /\ UNCHANGED <<dns, infraVars, secretVars>>

\* _purchase, with HTTP 202: paid for, but there is no server yet.
PurchasePending(n) ==
  /\ At("run", "purchase", n)
  /\ \E v \in Servers :
       /\ NextServer(v)
       /\ Bought(v, n, "paid", None)
       /\ \/ /\ mem' = With(n, [mem.nodes[n] EXCEPT !.pending = v])
             /\ pc' = "marker"
             /\ UNCHANGED todo
          \/ May("deaf") /\ End
  /\ UNCHANGED <<dns, infraVars, secretVars, file, calm, faults>>

\* Mutation of SaveMarker: the marker is left to apply, which does not save when a step raises.
SaveMarkerNever ==
  /\ pc = "marker"
  /\ End
  /\ UNCHANGED <<vm, dns, infraVars, secretVars, file, calm, faults>>

\* The marker is saved at once, and the step raises.
SaveMarker ==
  /\ pc = "marker"
  /\ file' = mem
  /\ pc' = "idle"
  /\ todo' = {}
  /\ UNCHANGED <<vm, dns, infraVars, secretVars, mem, calm, faults>>

\* _adopt: the server observe found, and the pending purchase has landed.
Adopt(n) ==
  /\ pc = "run"
  /\ \E x \in todo :
       /\ Doing(x, "adopt", n)
       /\ Return(With(n, [mem.nodes[n] EXCEPT !.vps = x.vps, !.pending = None]))
  /\ UNCHANGED <<vm, dns, infraVars, secretVars>>

\* _setup: the reinstall is requested ...
Setup(n) ==
  /\ At("run", "setup", n)
  /\ LET v == mem.nodes[n].vps
     IN /\ vm[v].state = "initial"
        /\ vm' = [vm EXCEPT ![v].state = "installing", ![v].name = n]
  /\ pc' = "unpin"
  /\ UNCHANGED <<dns, infraVars, secretVars, file, mem, todo, calm, faults>>

\* Mutation of Unpin: known_hosts is left alone.
UnpinKeepsPin(n) ==
  /\ At("unpin", "setup", n)
  /\ Return(With(n, [mem.nodes[n] EXCEPT !.pinned = FALSE, !.captured = FALSE]))
  /\ UNCHANGED <<vm, dns, infraVars, secretVars>>

\* Mutation of Unpin: hardware_captured is not cleared.
UnpinKeepsHardware(n) ==
  /\ At("unpin", "setup", n)
  /\ LET s == mem.nodes[n]
     IN /\ pin' = IF s.pinned /\ s.ip # None THEN [pin EXCEPT ![s.ip] = "none"] ELSE pin
        /\ Return(With(n, [s EXCEPT !.pinned = FALSE]))
  /\ UNCHANGED <<vm, dns, tree, lock, hardware, secretVars>>

\* ... and what was known of the old machine forgotten.
Unpin(n) ==
  /\ At("unpin", "setup", n)
  /\ LET s == mem.nodes[n]
     IN /\ pin' = IF s.pinned /\ s.ip # None THEN [pin EXCEPT ![s.ip] = "none"] ELSE pin
        /\ Return(With(n, [s EXCEPT !.pinned = FALSE, !.captured = FALSE]))
  /\ UNCHANGED <<vm, dns, tree, lock, hardware, secretVars>>

\* _wait_running, and wait_port of the address.
WaitRunning(n) ==
  /\ At("run", "wait_running", n)
  /\ LET v == mem.nodes[n].vps
     IN Answers(v) /\ Return(With(n, [mem.nodes[n] EXCEPT !.ip = v]))
  /\ UNCHANGED <<vm, dns, infraVars, secretVars>>

Firewall(n) ==
  /\ At("run", "firewall", n)
  /\ vm' = [vm EXCEPT ![mem.nodes[n].vps].wall = TRUE]
  /\ Return(mem)
  /\ UNCHANGED <<dns, infraVars, secretVars>>

\* _pin_host_key: on first contact, or the same key again.
Pin(n) ==
  /\ At("run", "pin", n)
  /\ LET v == mem.nodes[n].ip
     IN /\ Answers(v) /\ pin[v] # "stale"
        /\ pin' = [pin EXCEPT ![v] = "current"]
  /\ Return(With(n, [mem.nodes[n] EXCEPT !.pinned = TRUE]))
  /\ UNCHANGED <<vm, dns, tree, lock, hardware, secretVars>>

Capture(n) ==
  /\ At("run", "capture", n)
  /\ LET v == mem.nodes[n].ip
     IN Reached(v) /\ hardware' = [hardware EXCEPT ![n] = vm[v].disk]
  /\ Return(With(n, [mem.nodes[n] EXCEPT !.captured = TRUE]))
  /\ UNCHANGED <<vm, dns, tree, lock, pin, secretVars>>

\* _ensure_origin_cert: secrets.age is saved by the step itself.
EnsureCert ==
  /\ At("run", "cert", Primary)
  /\ cert' = TRUE
  /\ Return(mem)
  /\ UNCHANGED <<vm, dns, infraVars, token>>

\* _push_config: infra/ and, with a token, the origin certificate.
Push(n) ==
  /\ At("run", "push", n)
  /\ LET v == mem.nodes[n].ip
     IN Reached(v) /\ vm' = [vm EXCEPT ![v].pushed = Rev, ![v].cert = @ \/ token]
  /\ Return(mem)
  /\ UNCHANGED <<dns, infraVars, secretVars>>

\* Mutation of Test: `nixos-rebuild switch` at once.
TestSwitches(n) ==
  /\ At("run", "rebuild", n)
  /\ LET v == mem.nodes[n].ip
     IN Reached(v) /\ vm' = [vm EXCEPT ![v].active = vm[v].pushed, ![v].boot = vm[v].pushed]
  /\ pc' = "probe"
  /\ UNCHANGED <<dns, infraVars, secretVars, file, mem, todo, calm, faults>>

\* _rebuild: `nixos-rebuild test` activates what was pushed ...
Test(n) ==
  /\ At("run", "rebuild", n)
  /\ LET v == mem.nodes[n].ip
     IN Reached(v) /\ vm' = [vm EXCEPT ![v].active = vm[v].pushed]
  /\ pc' = "probe"
  /\ UNCHANGED <<dns, infraVars, secretVars, file, mem, todo, calm, faults>>

\* ... a new connection proves that it can still be reached ...
Probe(n) ==
  /\ At("probe", "rebuild", n)
  /\ Reached(mem.nodes[n].ip)
  /\ pc' = "switch"
  /\ UNCHANGED <<vm, dns, infraVars, secretVars, file, mem, todo, calm, faults>>

\* Mutation of Switch: the lock file is fetched before the revision is recorded.
SwitchFetchesFirst(n) ==
  /\ At("switch", "rebuild", n)
  /\ LET v == mem.nodes[n].ip
     IN Reached(v) /\ vm' = [vm EXCEPT ![v].active = vm[v].pushed, ![v].boot = vm[v].pushed]
  /\ lock' \in {lock, TRUE}
  /\ UNCHANGED <<dns, tree, hardware, pin, secretVars>>
  /\ Return(With(n, [mem.nodes[n] EXCEPT !.applied = Rev']))

\* ... and `nixos-rebuild switch` makes it permanent.  The revision recorded is
\* that of infra/ by now; the flake.lock that the node wrote is fetched after that.
Switch(n) ==
  /\ At("switch", "rebuild", n)
  /\ LET v == mem.nodes[n].ip
     IN Reached(v) /\ vm' = [vm EXCEPT ![v].active = vm[v].pushed, ![v].boot = vm[v].pushed]
  /\ Return(With(n, [mem.nodes[n] EXCEPT !.applied = Rev]))
  /\ lock' \in {lock, TRUE}
  /\ UNCHANGED <<dns, tree, hardware, pin, secretVars>>

UpsertDns ==
  /\ At("run", "dns", Primary)
  /\ dns' = mem.nodes[Primary].ip
  /\ Return([mem EXCEPT !.dns = TRUE])
  /\ UNCHANGED <<vm, infraVars, secretVars>>

\* The steps that cannot be done now and raise: a purchase still processing or
\* refused, a server that is not to be set up, or not running in time, one that
\* does not answer or shows another key.
Impossible(n) ==
  LET s == mem.nodes[n]
  IN \/ At("run", "wait_purchase", n)
     \/ At("run", "purchase", n) /\ \A v \in Servers : vm[v].state # "none"
     \/ At("run", "setup", n) /\ vm[s.vps].state # "initial"
     \/ At("run", "wait_running", n) /\ ~Answers(s.vps)
     \/ At("run", "pin", n) /\ (~Answers(s.ip) \/ pin[s.ip] = "stale")
     \/ /\ \/ At("run", "capture", n) \/ At("run", "push", n) \/ At("run", "rebuild", n)
           \/ At("probe", "rebuild", n) \/ At("switch", "rebuild", n)
        /\ ~Reached(s.ip)

Raise ==
  /\ \/ \E n \in Nodes : Impossible(n)
     \/ May("fail") /\ pc \in {"run", "probe", "switch"}
  /\ End
  /\ UNCHANGED <<vm, dns, infraVars, secretVars, file, calm, faults>>

\* Ctrl-C, a closed laptop: at any point.  Before the marker of a 202 purchase is
\* saved that is one more way not to hear the answer.
Kill ==
  /\ May("kill") /\ pc # "idle"
  /\ pc = "marker" => May("deaf")
  /\ End
  /\ UNCHANGED <<vm, dns, infraVars, secretVars, file, calm, faults>>

-----------------------------------------------------------------------------
(* Hostinger, the machines and the operator. *)

\* A 202 purchase is provisioned, and waits for its setup or is set up at once.
Provision(v) ==
  /\ vm[v].state = "paid"
  /\ \/ vm' = [vm EXCEPT ![v].state = "initial"]
     \/ vm' = [vm EXCEPT ![v].state = "installing", ![v].name = vm[v].for]
  /\ UNCHANGED <<dns, infraVars, secretVars, file, runVars, calm, faults>>

\* A new machine: other keys, perhaps other disks, and nothing on it.
Install(v) ==
  /\ vm[v].state = "installing"
  /\ \E d \in Disks :
       vm' = [vm EXCEPT ![v] = [@ EXCEPT !.state = "running", !.disk = d, !.cert = FALSE,
                                         !.pushed = NoRev, !.active = NoRev, !.boot = NoRev]]
  /\ pin' = [pin EXCEPT ![v] = IF @ = "current" THEN "stale" ELSE @]
  /\ UNCHANGED <<dns, tree, lock, hardware, secretVars, file, runVars, calm, faults>>

Reset(v) ==
  /\ May("reset")
  /\ v \in Resettable /\ vm[v].state = "running"
  /\ vm' = [vm EXCEPT ![v].state = "initial"]
  /\ UNCHANGED <<dns, infraVars, secretVars, file, runVars, calm, faults>>

Reboot(v) ==
  /\ vm[v].state = "running" /\ vm[v].active # vm[v].boot
  /\ pc \in {"probe", "switch"} => May("reboot")
  /\ vm' = [vm EXCEPT ![v].active = vm[v].boot]
  /\ UNCHANGED <<dns, infraVars, secretVars, file, runVars, calm, faults>>

\* The hint of a host key mismatch: remove the line if the server was reinstalled.
ForgetKey(v) ==
  /\ pin[v] = "stale"
  /\ pin' = [pin EXCEPT ![v] = "none"]
  /\ UNCHANGED <<vm, dns, tree, lock, hardware, secretVars, file, runVars, calm, faults>>

EditTree ==
  /\ May(IF pc = "idle" THEN "edit" ELSE "midrun")
  /\ \E t \in Trees \ {tree} : (t < tree => May("revert")) /\ tree' = t
  /\ UNCHANGED <<vm, dns, lock, hardware, pin, secretVars, file, runVars, calm, faults>>

AddToken ==
  /\ May("late") /\ ~token /\ pc = "idle"
  /\ token' = TRUE
  /\ UNCHANGED <<vm, dns, infraVars, cert, file, runVars, calm, faults>>

CalmDown ==
  /\ ~calm /\ tree \notin Locking
  /\ calm' = TRUE
  /\ UNCHANGED <<vm, dns, infraVars, secretVars, file, runVars, faults>>

-----------------------------------------------------------------------------
Work(n) ==
  \/ Purchase(n) \/ PurchasePending(n) \/ Adopt(n) \/ Setup(n) \/ Unpin(n) \/ WaitRunning(n)
  \/ Firewall(n) \/ Pin(n) \/ Capture(n) \/ Push(n) \/ Test(n) \/ Probe(n) \/ Switch(n)

Run == Save \/ SaveMarker \/ EnsureCert \/ UpsertDns \/ Raise \/ \E n \in Nodes : Work(n)

Machine(v) == Provision(v) \/ Install(v) \/ Reset(v) \/ Reboot(v) \/ ForgetKey(v)

Next == Up \/ Run \/ Kill \/ EditTree \/ AddToken \/ CalmDown \/ \E v \in Servers : Machine(v)

Spec == Init /\ [][Next]_vars

\* Runs and installations go on, and the operator follows the hints: runs `up`
\* again, reboots a server that locked itself out, removes a stale key.
FairSpec ==
  /\ Spec
  /\ WF_vars(Run)
  /\ WF_vars(calm /\ Up)
  /\ \A v \in Servers :
       /\ WF_vars(Provision(v)) /\ WF_vars(Install(v)) /\ WF_vars(ForgetKey(v))
       /\ WF_vars(~Answers(v) /\ Reboot(v))

-----------------------------------------------------------------------------
Machines ==
  [state : {"none", "paid", "initial", "installing", "running"},
   for : Nodes \cup {None}, name : Nodes \cup {None}, wall : BOOLEAN,
   disk : Disks \cup {None}, cert : BOOLEAN, pushed : Revs, active : Revs, boot : Revs]

NodeStates ==
  [vps : Servers \cup {None}, pending : Servers \cup {None}, ip : Servers \cup {None},
   pinned : BOOLEAN, captured : BOOLEAN, applied : Revs]

StateFiles == [nodes : [Nodes -> NodeStates], dns : BOOLEAN]

\* The type invariant: servers, files and the run hold values of their kind.
TypeOK ==
  /\ vm \in [Servers -> Machines]
  /\ dns \in Servers \cup {None}
  /\ tree \in Trees
  /\ hardware \in [Nodes -> Disks \cup {None}]
  /\ pin \in [Servers -> {"none", "current", "stale"}]
  /\ lock \in BOOLEAN /\ token \in BOOLEAN /\ cert \in BOOLEAN /\ calm \in BOOLEAN
  /\ file \in StateFiles /\ mem \in StateFiles
  /\ \A x \in todo : x.node \in Nodes /\ x.vps \in Servers \cup {None}
  /\ pc \in {"idle", "run", "save", "marker", "unpin", "probe", "switch"}
  /\ faults \in FaultModels

-----------------------------------------------------------------------------
(* Safety. *)

Free(bad) == faults \cap bad = {}

\* A purchase whose answer is lost, or whose run is killed before the state file
\* is saved, is found again instead of repeated: a node is bought one server, as
\* long as every answer that names a subscription is heard.
BoughtOnce ==
  Free({"deaf"}) => \A n \in Nodes : Cardinality({v \in Servers : vm[v].for = n}) <= 1

\* No node takes over a server that was bought for another one, whatever answers
\* were lost and whatever names the servers have by then.
OwnServer ==
  \A n \in Nodes : file.nodes[n].vps # None => vm[file.nodes[n].vps].for = n

\* "Every node is fully provisioned before anything is deployed" (plan): when a
\* node's configuration is activated, every node has its address, firewall and
\* hardware files.
ProvisionedFirst ==
  [][pc = "run" /\ pc' = "probe" =>
       \A n \in Nodes : LET s == mem.nodes[n]
                        IN /\ s.ip # None /\ s.pinned /\ s.captured
                           /\ vm[s.ip].wall /\ hardware[n] # None]_vars

\* A machine is never given another machine's disk facts, although it may have
\* been reinstalled at any time (a run killed in the middle of _setup excepted).
OwnHardware ==
  Free({"kill"}) =>
    \A n \in Nodes : LET v == file.nodes[n].vps
                     IN v # None /\ vm[v].active # NoRev => vm[v].active.hardware[n] = vm[v].disk

\* "If that fails, the configuration is locking us out and switch -- which would
\* make it permanent -- is never issued" (_rebuild).
SwitchIsSafe ==
  Free({"reboot"}) => \A v \in Servers : vm[v].boot.tree \notin Locking

\* A host key that changes because stack-base reinstalled the machine never meets
\* its old pin (_setup): the operator is only asked about other changes.
ExpectedKeys ==
  Free({"kill"}) /\ pc # "unpin" => \A v \in Servers : pin[v] # "stale"

\* The name never resolves to a box that isn't serving yet: it has been rebuilt
\* and has the origin certificate.
NamedBoxServes ==
  [][Free({"reset", "late"}) /\ dns' # dns => vm[dns'].boot # NoRev /\ vm[dns'].cert]_vars

\* A node as infra/ and the secrets describe it.
UpToDate(n) ==
  LET v == file.nodes[n].vps
  IN /\ v # None
     /\ vm[v].state = "running" /\ vm[v].wall
     /\ vm[v].boot = Rev /\ vm[v].active = Rev
     /\ token => vm[v].cert

NothingToDo == pc = "idle" /\ ~Ambiguous /\ Plan = {}

\* What the state file does not notice: a machine reinstalled with the same disk
\* facts, an edit during a rebuild or one that is taken back, a later token.
Surprises == {"reset", "midrun", "revert", "late"}

\* When `up` finds nothing to do, every node runs what infra/ describes and will
\* after a reboot, with its certificate, whatever earlier runs were cut short.
NothingToDoIsTrue ==
  NothingToDo /\ Free(Surprises) => \A n \in Nodes : UpToDate(n)

\* "A run against a converged stack prints `nothing to do`", and one against any
\* other does not.
OnlyConvergedIsQuiet == NothingToDo => \A n \in Nodes : UpToDate(n)

-----------------------------------------------------------------------------
(* Liveness. *)

\* "A re-run after any failure must converge".
RerunConverges ==
  Free(Surprises \cup {"deaf", "reboot"}) => [](calm => <>[](NothingToDo /\ \A n \in Nodes : UpToDate(n)))

=============================================================================
