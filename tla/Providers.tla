------------------------------ MODULE Providers ------------------------------
(***************************************************************************)
(* What `up` keeps at Hostinger and Cloudflare for a node that exists      *)
(* already (hostinger.py, cloudflare.py, r2.py and their steps): the       *)
(* registered SSH key, the firewall, the R2 buckets with one lifecycle and *)
(* one lock rule of their own, the A record.  Every step reads, and writes *)
(* what is missing with one request after the other.                       *)
(*                                                                         *)
(* A request is tried again when its answer is lost or is a gateway error  *)
(* (http.py), whether the provider carried it out or not.  Others use the  *)
(* same accounts: by hand, between the runs or, given "race", during one.  *)
(* A scenario names the parts that are not yet there or that they touch.   *)
(***************************************************************************)
EXTENDS Commands, Naturals, SequencesExt, FiniteSets

CONSTANTS MaxTries,     \* attempts of a request; 4 in the code
          ForeignRules  \* rules others keep on a bucket

ASSUME ProvidersAssumption == MaxTries \in Nat \ {0}

VARIABLES cloud,        \* what the providers hold
          known,        \* the ids in the state file; for the record, whether
                        \* it is the id of the one there
          work          \* work[t]: what the process of t has read and has to do

providersVars == <<cloud, known, work>>

Ports == {"22", "443", "other"}
Desired == {"22", "443"}
Kinds == {"logs", "files"}

\* A bucket can serve both; the lifecycle and the lock are separate lists.
BucketOf(kind) == IF Given("shared") THEN "logs" ELSE kind

\* own[kind]: our rule as of which stack.toml; "as wanted" is the present one.
OwnRule == {"none", "outdated", "as wanted"}

\* keys: how often the key is registered; walls: the firewalls of our name,
\* oldest first, each with how many rules it has for a port; active: the one
\* the server uses; records: the A records of the domain.
CloudTypeOK ==
  /\ cloud.keys \in Nat
  /\ \A i \in DOMAIN cloud.walls : cloud.walls[i] \in [Ports -> Nat]
  /\ cloud.active \in 0..Len(cloud.walls)
  /\ cloud.made \subseteq {BucketOf(k) : k \in Kinds}
  /\ cloud.own \in [Kinds -> OwnRule]
  /\ cloud.foreign \in [Kinds -> SUBSET ForeignRules]
  /\ cloud.records \in Seq({"here", "elsewhere"})

Start == [todo |-> <<>>, writes |-> <<>>, tries |-> MaxTries,
          read |-> {}, there |-> {}, created |-> {}]

ProvidersTypeOK ==
  /\ CloudTypeOK
  /\ known \in [{"key", "wall", "record"} -> Nat]
  /\ \A t \in Terminals : DOMAIN work[t] = DOMAIN Start /\ work[t].tries \in 1..MaxTries

Served == [p \in Ports |-> IF p \in Desired THEN 1 ELSE 0]

ProvidersInit ==
  /\ cloud = [keys |-> IF Given("keys") THEN 0 ELSE 1,
              walls |-> IF Given("firewall") THEN <<>> ELSE <<Served>>,
              active |-> IF Given("firewall") THEN 0 ELSE 1,
              made |-> IF Given("r2") THEN {} ELSE {BucketOf(k) : k \in Kinds},
              own |-> [k \in Kinds |-> IF Given("r2") THEN "none" ELSE "as wanted"],
              foreign |-> [k \in Kinds |-> {}],
              records |-> IF Given("dns") THEN <<>> ELSE <<"here">>]
  /\ known = [key |-> cloud.keys, wall |-> cloud.active, record |-> Len(cloud.records)]
  /\ work = [t \in Terminals |-> Start]

-----------------------------------------------------------------------------
(* plan: a read of everything, and the steps that are needed               *)

Unfolded(wall) == {p \in Ports : wall[p] # 0}

\* _observe_public_keys takes the last of several registrations.
KeysConverged == cloud.keys # 0 /\ known.key = cloud.keys

FirewallConverged ==
  /\ cloud.walls # <<>>
  /\ Unfolded(cloud.walls[1]) = Desired
  /\ known.wall = 1 /\ cloud.active = 1

\* _observe_record: exactly one, which points at the primary and is the known one.
DnsConverged == cloud.records = <<"here">> /\ known.record = 1

StepKinds == <<"keys", "firewall", "bucket logs", "logs", "bucket files", "files", "dns">>

StepNeeded(step) ==
  CASE step = "keys"         -> ~KeysConverged
    [] step = "firewall"     -> ~FirewallConverged
    [] step = "bucket logs"  -> BucketOf("logs") \notin cloud.made
    [] step = "bucket files" -> BucketOf("files") \notin cloud.made /\ ~Given("shared")
    [] step = "dns"          -> ~DnsConverged
    [] OTHER                 -> cloud.own[step] # "as wanted"

ProvidersPlan == SelectSeq(StepKinds, StepNeeded)

\* What R2 answers to a GET of a bucket's rules: the list; perhaps, if there
\* are none, an answer without a list; or something else.
NoList(kind) == Given("omits") /\ cloud.own[kind] = "none" /\ cloud.foreign[kind] = {}

Answers(kind) ==
  {IF NoList(kind) THEN "no list" ELSE "list"} \cup {a \in {"unreadable"} : Happens("fail")}

\* A mutant: whatever is not a list counts as no rules.
UnderstoodAnyway(answer, fresh) == TRUE

\* _rules: only of a bucket this run created is no list known to be no rules.
Understood(answer, fresh) == answer = "list" \/ (answer = "no list" /\ fresh)

\* observe_r2 reads the rules of the buckets there are, and must understand.
Observable == \A k \in Kinds : BucketOf(k) \in cloud.made => ~NoList(k)

PlanProviders(t) ==
  /\ Typed(t, "up-providers")
  /\ Observable
  /\ ProvidersPlan # <<>>
  /\ work' = [work EXCEPT ![t] = [Start EXCEPT !.todo = ProvidersPlan]]
  /\ Enter(t, "up-providers", "ask")
  /\ UNCHANGED <<cloud, known>>

Working(t, at) == At(t, {"up-providers"}, at)
Step(t) == Head(work[t].todo)

-----------------------------------------------------------------------------
(* A step reads what is there and decides which requests to make           *)

Write(what, arg) == [what |-> what, arg |-> arg]

Decide(t, writes) ==
  /\ work' = [work EXCEPT ![t].writes = writes]
  /\ Go(t, "write")
  /\ UNCHANGED <<cloud, known>>

\* The end of a step, which may have created a bucket: on to the next one.
Finish(t, buckets) ==
  LET left == work[t].todo
      created == work[t].created \cup buckets
  IN  IF Len(left) = 1
      THEN Return(t) /\ work' = [work EXCEPT ![t] = Start]
      ELSE Go(t, "ask") /\ work' = [work EXCEPT ![t] = [Start EXCEPT !.todo = Tail(left), !.created = created]]

\* ensure_public_key takes the first of several registrations.
AskKeys(t) ==
  /\ Working(t, "ask") /\ Step(t) = "keys"
  /\ IF cloud.keys = 0
     THEN Decide(t, <<Write("register", "key")>>)
     ELSE Finish(t, {}) /\ known' = [known EXCEPT !.key = 1] /\ cloud' = cloud

\* ensure_firewall: find or create; add what is missing, then remove what is
\* not wanted; activate_firewall.
AskFirewall(t) ==
  /\ Working(t, "ask") /\ Step(t) = "firewall"
  /\ LET current == IF cloud.walls = <<>> THEN {} ELSE Unfolded(cloud.walls[1])
         each(what, ports) == [i \in 1..Cardinality(ports) |-> Write(what, SetToSeq(ports)[i])]
     IN  Decide(t, (IF cloud.walls = <<>> THEN <<Write("create", "wall")>> ELSE <<>>)
                     \o each("add", Desired \ current) \o each("remove", current \ Desired)
                     \o <<Write("activate", "wall")>>)

BucketStep(kind) == IF kind = "logs" THEN "bucket logs" ELSE "bucket files"

AskBucket(t) ==
  /\ Working(t, "ask")
  /\ \E k \in Kinds : /\ Step(t) = BucketStep(k)
                      /\ Decide(t, <<Write("make", BucketOf(k))>>)

\* ensure_lifecycle_rule, ensure_lock_rule: all rules are read again, and
\* merge_rule puts ours among them.
AskRule(t) ==
  /\ Working(t, "ask")
  /\ \E k \in Kinds : \E answer \in Answers(k) :
        /\ Step(t) = k
        /\ Understood(answer, BucketOf(k) \in work[t].created)
        /\ work' = [work EXCEPT ![t].read = IF answer = "list" THEN cloud.foreign[k] ELSE {},
                                ![t].there = cloud.foreign[k],
                                ![t].writes = <<Write("put", k)>>]
  /\ Go(t, "write")
  /\ UNCHANGED <<cloud, known>>

\* upsert_a_record: never a choice between two; no write if it is right.
AskDns(t) ==
  /\ Working(t, "ask") /\ Step(t) = "dns"
  /\ Len(cloud.records) <= 1
  /\ CASE cloud.records = <<>>            -> Decide(t, <<Write("post", "record")>>)
       [] cloud.records = <<"elsewhere">> -> Decide(t, <<Write("patch", "record")>>)
       [] OTHER -> Finish(t, {}) /\ known' = [known EXCEPT !.record = 1] /\ cloud' = cloud

-----------------------------------------------------------------------------
(* A request                                                               *)

\* The firewall of this step: the first by name, or the one just created.
Wall == IF cloud.walls = <<>> THEN 0 ELSE 1
Created(t) == work[t].read = {"created"}
WallOf(t) == IF Created(t) THEN Len(cloud.walls) ELSE Wall

\* Providers refuse to make or to remove something twice.
Accepted(t, w) ==
  CASE w.what = "make"   -> w.arg \notin cloud.made
    [] w.what = "remove" -> cloud.walls[WallOf(t)][w.arg] # 0
    [] w.what = "patch"  -> cloud.records # <<>>
    [] OTHER             -> TRUE

\* What a request does when it is carried out; one that makes something new
\* makes another each time it is repeated.
Carried(t, w) ==
  CASE w.what = "register" -> [cloud EXCEPT !.keys = @ + 1]
    [] w.what = "create"   -> [cloud EXCEPT !.walls = Append(@, [p \in Ports |-> 0])]
    [] w.what = "add"      -> [cloud EXCEPT !.walls[WallOf(t)][w.arg] = @ + 1]
    [] w.what = "remove"   -> [cloud EXCEPT !.walls[WallOf(t)][w.arg] = @ - 1]
    [] w.what = "activate" -> [cloud EXCEPT !.active = WallOf(t)]
    [] w.what = "make"     -> [cloud EXCEPT !.made = @ \cup {w.arg}]
    [] w.what = "put"      -> [cloud EXCEPT !.own[w.arg] = "as wanted",
                                            !.foreign[w.arg] = work[t].read]
    [] w.what = "post"     -> [cloud EXCEPT !.records = Append(@, "here")]
    [] w.what = "patch"    -> [cloud EXCEPT !.records[1] = "here"]

\* The answer comes: the next request of the step, or the end of the step,
\* after which the ids it got are saved.
Answered(t) ==
  /\ Working(t, "write")
  /\ LET w == Head(work[t].writes)
     IN  /\ Accepted(t, w)
         /\ cloud' = Carried(t, w)
         /\ IF Len(work[t].writes) > 1
            THEN /\ work' = [work EXCEPT ![t].writes = Tail(@), ![t].tries = MaxTries,
                                         ![t].read = IF w.what = "create" THEN {"created"} ELSE @]
                 /\ UNCHANGED <<run, known>>
            ELSE /\ known' = CASE Step(t) = "keys"     -> [known EXCEPT !.key = cloud'.keys]
                               [] Step(t) = "firewall" -> [known EXCEPT !.wall = WallOf(t)]
                               [] Step(t) = "dns"      -> [known EXCEPT !.record = 1]
                               [] OTHER                -> known
                 /\ Finish(t, {b \in {w.arg} : w.what = "make"})

GiveUp(t) == Return(t) /\ work' = [work EXCEPT ![t] = Start]

\* A mutant: one attempt more than there are.
LostOnceMore(t) ==
  /\ Working(t, "write") /\ Happens("fail")
  /\ LET w == Head(work[t].writes)
     IN  cloud' \in {cloud} \cup {c \in {Carried(t, w)} : Accepted(t, w)}
  /\ IF work[t].tries >= 1
     THEN work' = [work EXCEPT ![t].tries = @ - 1] /\ run' = run
     ELSE GiveUp(t)
  /\ known' = known

\* No answer, or a gateway's: carried out or not, and made again.
Lost(t) ==
  /\ Working(t, "write") /\ Happens("fail")
  /\ LET w == Head(work[t].writes)
     IN  cloud' \in {cloud} \cup {c \in {Carried(t, w)} : Accepted(t, w)}
  /\ IF work[t].tries > 1
     THEN work' = [work EXCEPT ![t].tries = @ - 1] /\ run' = run
     ELSE GiveUp(t)
  /\ known' = known

\* A refusal ends the command at once; so does an answer it cannot use, a
\* second A record, and Ctrl-C.
Refused(t) ==
  /\ \/ Working(t, "write") /\ ~Accepted(t, Head(work[t].writes))
     \/ Working(t, "ask") /\ Step(t) = "dns" /\ Len(cloud.records) > 1
     \/ Working(t, "ask") /\ \E k \in Kinds : \E answer \in Answers(k) :
          Step(t) = k /\ ~Understood(answer, BucketOf(k) \in work[t].created)
     \/ run[t].command = "up-providers" /\ Happens("fail")
  /\ GiveUp(t)
  /\ UNCHANGED <<cloud, known>>

-----------------------------------------------------------------------------

\* Others at the dashboards, and a stack.toml that names another retention.
Others ==
  /\ Happens("others")
  /\ Given("race") \/ \A t \in Terminals : Prompt(t)
  /\ \/ /\ Given("firewall") /\ cloud.walls # <<>>
        /\ \E p \in Ports, n \in 0..1 :
             cloud' = [cloud EXCEPT !.walls[1][p] = n]
     \/ /\ Given("r2")
        /\ \E k \in Kinds, rules \in SUBSET ForeignRules :
             BucketOf(k) \in cloud.made /\ cloud' = [cloud EXCEPT !.foreign[k] = rules]
     \/ /\ Given("r2")
        /\ \E k \in Kinds : cloud.own[k] = "as wanted" /\ cloud' = [cloud EXCEPT !.own[k] = "outdated"]
     \/ /\ Given("dns")
        /\ \E records \in {<<>>, <<"here">>, <<"elsewhere">>} : cloud' = [cloud EXCEPT !.records = records]
  \* A record made by hand has another id, one edited by hand has not.
  /\ known' \in {known} \cup {k \in {[known EXCEPT !.record = 0]} : cloud'.records # cloud.records}
  /\ UNCHANGED <<run, work>>

ProvidersStep(t) ==
  \/ PlanProviders(t) \/ AskKeys(t) \/ AskFirewall(t) \/ AskBucket(t) \/ AskRule(t)
  \/ AskDns(t) \/ Answered(t)

ProvidersNext ==
  \/ \E t \in Terminals : ProvidersStep(t) \/ Lost(t) \/ Refused(t)
  \/ Others

-----------------------------------------------------------------------------

\* The ends that no rerun gets out of: the same key registered twice, whose
\* first registration a run takes and whose last the plan compares; a second
\* A record, which is for the operator to resolve; a bucket without rules of
\* which R2 answers no list, left by a run that ended after creating it.
Stuck == cloud.keys > 1 \/ Len(cloud.records) > 1 \/ ~Observable

\* A run takes nothing away that others need, whatever answers it loses or
\* does not understand: a rule that others had on a bucket when the run read
\* it stays (r2.py:176, "a legal-hold lock included") unless they remove it
\* themselves; and, one run at a time and with nobody at the dashboard during
\* it, the ports of a firewall in use that should be open stay open while it
\* is changed (add before remove, hostinger.py:424).
NothingTakenAway ==
  [][\A t \in Terminals : Answered(t) \/ Lost(t) =>
       /\ \A k \in Kinds : Step(t) = k =>
            cloud.foreign[k] \cap work[t].there \subseteq cloud'.foreign[k]
       /\ ~Overlapping /\ Free({"race"}) /\ cloud.active # 0 => cloud'.active # 0 /\
            Desired \cap Unfolded(cloud.walls[cloud.active])
              \subseteq Unfolded(cloud'.walls[cloud'.active])]_<<commandVars, providersVars>>

=============================================================================
