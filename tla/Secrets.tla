------------------------------- MODULE Secrets -------------------------------
(***************************************************************************)
(* The two encrypted files of a project and the commands that write them   *)
(* (secrets.py, secrets_cli.py, ci.py, and the origin certificate of `up`  *)
(* in steps.py).  secrets.age is one bundle of keys and values: every      *)
(* command decrypts the whole of it, changes some keys in its memory and   *)
(* encrypts the whole again, seconds or, in an editor, hours later.        *)
(* deploy.age holds the private deploy key, whose public half and whose    *)
(* copies at CI live elsewhere.                                            *)
(*                                                                         *)
(* A value is a number, 0 for a key that is not stored: 1..MaxValue are     *)
(* what an operator types, Empty an empty text, and the halves of a        *)
(* generated pair share a number above.  A deploy key is the number of its *)
(* pair.                                                                   *)
(***************************************************************************)
EXTENDS RamDir, Integers

CONSTANTS People, You,  \* who may hold age identities; who uses the terminals
          MaxValue,     \* bound: versions of a value an operator types
          MaxMinted     \* bound: key pairs generated

ASSUME SecretsAssumption == You \in People /\ {MaxValue, MaxMinted} \subseteq Nat \ {0}

VARIABLES bundle,       \* bundle[k]: what secrets.age decrypts to
          readers,      \* readers[f]: whom file f is encrypted to
          recipients,   \* recipients[f]: the list of recipients kept for f
          deployKey,    \* the private key in deploy.age
          deployPub,    \* the key of keys/deploy.pub
          ciKey,        \* the key GitHub Actions holds
          minted,       \* key pairs generated so far
          mem,          \* mem[t]: what the process of terminal t has decrypted
          staged,       \* origin.key.new and origin.crt.new on the node
          served,       \* origin.key and origin.crt on the node
          told          \* told[k]: what the operator was last told to be stored

secretsVars == <<bundle, readers, recipients, deployKey, deployPub, ciKey, minted,
                 mem, staged, served, told>>

RequiredKey == "hostinger_token"
OperatorKeys == {RequiredKey, "app_env"}        \* what an operator types in
Pair == {"origin_cert", "origin_key"}           \* what `up` generates
Keys == OperatorKeys \cup Pair
Files == {"secrets.age", "deploy.age"}

\* own: the keys this process changes; key: a deploy key; to: age's recipients.
NoMem == [data |-> [k \in Keys |-> 0], own |-> {}, key |-> 0, to |-> {}]
NoPair == [k \in Pair |-> 0]

Empty == -1
Missing(v) == v \in {0, Empty}          \* `if not token`: to `up` empty is as good as none
Generated(n) == MaxValue + n             \* the halves of the n-th pair
Generations == 0..MaxMinted
Values == Empty..(MaxValue + MaxMinted)

SecretsTypeOK ==
  /\ bundle \in [Keys -> Values] /\ told \in [Keys -> Values]
  /\ readers \in [Files -> SUBSET People] /\ recipients \in [Files -> SUBSET People]
  /\ {deployKey, deployPub, ciKey, minted} \subseteq Generations
  /\ mem \in [Terminals -> [data : [Keys -> Values], own : SUBSET Keys,
                            key : Generations, to : SUBSET People]]
  /\ staged \in [Pair -> Values] /\ served \in [Pair -> Values]

\* A project set up as the README says: the required token, and an app_env.
SecretsInit ==
  /\ bundle = [k \in Keys |-> IF k \in OperatorKeys THEN 1 ELSE 0]
  /\ told = bundle
  /\ recipients = [f \in Files |-> {You}]
  /\ readers = [f \in Files |-> IF f = "secrets.age" THEN {You} ELSE {}]
  /\ deployKey = 0 /\ deployPub = 0 /\ ciKey = 0 /\ minted = 0
  /\ mem = [t \in Terminals |-> NoMem]
  /\ staged = NoPair /\ served = NoPair

\* The process of t ends, and its memory with it.
End(t) == Return(t) /\ mem' = [mem EXCEPT ![t] = NoMem]

Load(t, own, data) ==
  /\ You \in readers["secrets.age"]
  /\ mem' = [mem EXCEPT ![t] = [NoMem EXCEPT !.data = data, !.own = own]]

Changed(data, keys, v) == [k \in Keys |-> IF k \in keys THEN v ELSE data[k]]

\* Any key can be typed, the pair's too: they are if "halves" is given.
TypedKeys == OperatorKeys \cup (IF Given("halves") THEN Pair ELSE {})

\* Only an app_env is validated, and then is not empty.
TypedValues(k) == (1..MaxValue) \cup (IF k = "app_env" THEN {} ELSE {Empty})

\* secrets set: validates before it saves, so an app_env that is not valid (or
\* a terminal for stdin, or an identity that is no recipient) changes nothing.
SetKey(t) ==
  /\ Typed(t, "set")
  /\ \E k \in TypedKeys : \E v \in TypedValues(k) :
        /\ Load(t, {k}, Changed(bundle, {k}, v))
        /\ Enter(t, "set", "encrypt")
  /\ UNCHANGED <<ram, bundle, readers, recipients, deployKey, deployPub, ciKey, minted,
                 staged, served, told>>

\* secrets unset: refuses the key `up` cannot do without; a key that is not
\* stored is nothing to do, an empty one goes.
UnsetKey(t) ==
  /\ Typed(t, "unset")
  /\ \E k \in Keys \ {RequiredKey} :
        /\ bundle[k] # 0
        /\ Load(t, {k}, Changed(bundle, {k}, 0))
        /\ Enter(t, "unset", "encrypt")
  /\ UNCHANGED <<ram, bundle, readers, recipients, deployKey, deployPub, ciKey, minted,
                 staged, served, told>>

\* secrets edit: the whole bundle is in memory while the editor is open.
EditKey(t) ==
  /\ Typed(t, "edit")
  /\ \E k \in TypedKeys : Load(t, {k}, bundle)
  /\ Enter(t, "edit", "ram")
  /\ UNCHANGED <<ram, bundle, readers, recipients, deployKey, deployPub, ciKey, minted,
                 staged, served, told>>

\* What the editor shows: nothing, for a key that is not stored.
Text(v) == IF Missing(v) THEN Empty ELSE v

\* The editor is closed: with another text, or unchanged, with an error or
\* with an app_env that is not valid, and then nothing is saved.
EditorCloses(t) ==
  /\ At(t, {"edit"}, "editor")
  /\ \/ \E k \in mem[t].own : \E v \in TypedValues(k) :
           /\ v # Text(mem[t].data[k])
           /\ mem' = [mem EXCEPT ![t].data = Changed(@, {k}, v)]
           /\ LeaveRam(t, FALSE)
     \/ LeaveRam(t, TRUE) /\ mem' = mem
  /\ UNCHANGED <<bundle, readers, recipients, deployKey, deployPub, ciKey, minted,
                 staged, served, told>>

\* check_recipients_superset: skipped while the deploy list is empty.
DeployListComplete ==
  recipients["deploy.age"] = {} \/ recipients["secrets.age"] \subseteq recipients["deploy.age"]

DeployKeyCommands == {"init", "rotate", "ci-setup"}

\* deploy-key init refuses to replace a key without --rotate, a list with no
\* recipients and one that has drifted; ci-setup calls it if there is no key.
DeployKeyInit(t) ==
  /\ \E c \in DeployKeyCommands :
        /\ Typed(t, c)
        /\ c # "rotate" => deployKey = 0
        /\ recipients["deploy.age"] # {} /\ DeployListComplete
        /\ Enter(t, c, "ram")
  /\ mem' = [mem EXCEPT ![t] = NoMem]
  /\ UNCHANGED <<ram, bundle, readers, recipients, deployKey, deployPub, ciKey, minted,
                 staged, served, told>>

\* ssh-keygen in the RAM directory.
Keygen(t) ==
  /\ At(t, DeployKeyCommands, "keygen")
  /\ minted < MaxMinted
  /\ minted' = minted + 1
  /\ mem' = [mem EXCEPT ![t].key = minted']
  /\ Go(t, "encrypt")
  /\ UNCHANGED <<ram, bundle, readers, recipients, deployKey, deployPub, ciKey,
                 staged, served, told>>

FileOf(t) == IF run[t].command \in DeployKeyCommands THEN "deploy.age" ELSE "secrets.age"

\* save_secrets, first half: age -R encrypts to a temporary file named after
\* the process; an empty or unreadable list is refused by age.
Encrypt(t) ==
  /\ run[t].at = "encrypt"
  /\ recipients[FileOf(t)] # {}
  /\ mem' = [mem EXCEPT ![t].to = recipients[FileOf(t)]]
  /\ Go(t, "replace")
  /\ UNCHANGED <<ram, bundle, readers, recipients, deployKey, deployPub, ciKey, minted,
                 staged, served, told>>

\* save_secrets, second half: os.replace, the one moment the file changes.
ReplaceBundle(t) ==
  /\ At(t, {"set", "unset", "edit", "up"}, "replace")
  /\ bundle' = mem[t].data
  /\ readers' = [readers EXCEPT !["secrets.age"] = mem[t].to]
  /\ told' = [k \in Keys |-> IF k \in mem[t].own THEN mem[t].data[k] ELSE told[k]]
  /\ IF run[t].command = "up" THEN Go(t, "stage key") /\ mem' = mem ELSE End(t)
  /\ UNCHANGED <<ram, recipients, deployKey, deployPub, ciKey, minted, staged, served>>

ReplaceDeployKey(t) ==
  /\ At(t, DeployKeyCommands, "replace")
  /\ deployKey' = mem[t].key
  /\ readers' = [readers EXCEPT !["deploy.age"] = mem[t].to]
  /\ LeaveRam(t, FALSE)
  /\ UNCHANGED <<bundle, recipients, deployPub, ciKey, minted, mem, staged, served, told>>

\* A mutant: a public key that is there already is kept.
PublishKeyOnce(t) ==
  /\ At(t, DeployKeyCommands, "publish")
  /\ deployPub' = IF deployPub = 0 THEN mem[t].key ELSE deployPub
  /\ IF run[t].command = "ci-setup" THEN Go(t, "read key") /\ mem' = mem ELSE End(t)
  /\ UNCHANGED <<ram, bundle, readers, recipients, deployKey, ciKey, minted, staged, served, told>>

\* write_public_key, once the RAM directory is gone.
PublishKey(t) ==
  /\ At(t, DeployKeyCommands, "publish")
  /\ deployPub' = mem[t].key
  /\ IF run[t].command = "ci-setup" THEN Go(t, "read key") /\ mem' = mem ELSE End(t)
  /\ UNCHANGED <<ram, bundle, readers, recipients, deployKey, ciKey, minted, staged, served, told>>

\* ci-setup with a key there already starts here.
CiSetup(t) ==
  /\ Typed(t, "ci-setup") /\ deployKey # 0
  /\ Enter(t, "ci-setup", "read key")
  /\ mem' = [mem EXCEPT ![t] = NoMem]
  /\ UNCHANGED <<ram, bundle, readers, recipients, deployKey, deployPub, ciKey, minted,
                 staged, served, told>>

\* ci-setup sends what deploy.age holds, not what it generated itself.
ReadKey(t) ==
  /\ At(t, {"ci-setup"}, "read key")
  /\ IF You \in readers["deploy.age"]
     THEN mem' = [mem EXCEPT ![t].key = deployKey] /\ Go(t, "gh")
     ELSE End(t)
  /\ UNCHANGED <<ram, bundle, readers, recipients, deployKey, deployPub, ciKey, minted,
                 staged, served, told>>

SendKey(t) ==
  /\ At(t, {"ci-setup"}, "gh")
  /\ ciKey' = mem[t].key
  /\ End(t)
  /\ UNCHANGED <<ram, bundle, readers, recipients, deployKey, deployPub, minted,
                 staged, served, told>>

\* up: the bundle is decrypted once, at the start; a certificate is made if
\* either half is missing or empty, and pushed with the configuration if there is a
\* change to push.
Up(t) ==
  /\ Typed(t, "up")
  /\ DeployListComplete
  /\ ~Missing(bundle[RequiredKey])
  /\ Load(t, {}, bundle)
  /\ IF \E k \in Pair : Missing(bundle[k])
     THEN Enter(t, "up", "mint")
     ELSE Enter(t, "up", "stage key")
  /\ UNCHANGED <<ram, bundle, readers, recipients, deployKey, deployPub, ciKey, minted,
                 staged, served, told>>

\* A mutant: only a half that is missing is stored.
EnsureMissingHalf(t) ==
  /\ At(t, {"up"}, "mint")
  /\ minted < MaxMinted
  /\ minted' = minted + 1
  /\ LET halves == {k \in Pair : Missing(mem[t].data[k])}
     IN  mem' = [mem EXCEPT ![t].data = Changed(@, halves, Generated(minted')), ![t].own = halves]
  /\ Go(t, "encrypt")
  /\ UNCHANGED <<ram, bundle, readers, recipients, deployKey, deployPub, ciKey,
                 staged, served, told>>

\* _ensure_origin_cert: openssl, then one request (retries=1); a certificate
\* whose answer is lost belongs to nobody.
EnsureOriginCert(t) ==
  /\ At(t, {"up"}, "mint")
  /\ minted < MaxMinted
  /\ minted' = minted + 1
  /\ mem' = [mem EXCEPT ![t].data = Changed(@, Pair, Generated(minted')), ![t].own = Pair]
  /\ Go(t, "encrypt")
  /\ UNCHANGED <<ram, bundle, readers, recipients, deployKey, deployPub, ciKey,
                 staged, served, told>>

\* _push_origin_cert: both halves under .new names, and then one remote
\* command that renames the key and renames the certificate.
Stage(t, k, step) ==
  /\ staged' = [staged EXCEPT ![k] = mem[t].data[k]]
  /\ Go(t, step)
  /\ UNCHANGED <<ram, bundle, readers, recipients, deployKey, deployPub, ciKey, minted, mem,
                 served, told>>

StageKey(t)  == At(t, {"up"}, "stage key")  /\ Stage(t, "origin_key", "stage cert")
StageCert(t) == At(t, {"up"}, "stage cert") /\ Stage(t, "origin_cert", "move key")

\* mv of a name another `up` has just moved fails, and with it the command.
Move(t, k) ==
  /\ staged[k] # 0
  /\ served' = [served EXCEPT ![k] = staged[k]]
  /\ staged' = [staged EXCEPT ![k] = 0]
  /\ UNCHANGED <<ram, bundle, readers, recipients, deployKey, deployPub, ciKey, minted, told>>

MoveKey(t) ==
  At(t, {"up"}, "move key") /\ Move(t, "origin_key") /\ Go(t, "move cert") /\ mem' = mem

MoveCert(t) == At(t, {"up"}, "move cert") /\ Move(t, "origin_cert") /\ End(t)

NothingToMove(t) ==
  /\ \/ At(t, {"up"}, "move key") /\ staged["origin_key"] = 0
     \/ At(t, {"up"}, "move cert") /\ staged["origin_cert"] = 0
  /\ End(t)
  /\ UNCHANGED <<ram, bundle, readers, recipients, deployKey, deployPub, ciKey, minted,
                 staged, served, told>>

\* The operator edits a list of recipients; while a command runs, that is two
\* hands in one checkout.
EditRecipients(f) ==
  /\ Happens("lists")
  /\ Overlapping \/ \A u \in Terminals : Prompt(u)
  /\ \E list \in SUBSET People : recipients' = [recipients EXCEPT ![f] = list]
  /\ UNCHANGED <<run, ram, bundle, readers, deployKey, deployPub, ciKey, minted, mem,
                 staged, served, told>>

\* A step fails.  Inside the RAM directory it is wiped first; a temporary file
\* is removed; the two renames are one command of the node, cut in between
\* only if the node goes down.
SecretsFail(t) ==
  LET saving == run[t].at \in {"encrypt", "replace"}
      deployKeys == run[t].command \in DeployKeyCommands
  IN  /\ Raises(t)
      /\ \/ /\ run[t].at = "keygen" \/ (saving /\ deployKeys)
            /\ LeaveRam(t, TRUE)
            /\ mem' = mem
         \/ /\ \/ saving /\ ~deployKeys
               \/ run[t].at \in {"mint", "publish", "read key", "gh",
                                 "stage key", "stage cert", "move key"}
               \/ run[t].at = "move cert" /\ Given("reboot")
            /\ End(t)
            /\ ram' = ram
      /\ UNCHANGED <<bundle, readers, recipients, deployKey, deployPub, ciKey, minted,
                     staged, served, told>>

\* A client killed during the node's two renames does not stop them.
SecretsKilled(t) ==
  /\ Killed(t) /\ run[t].at # "move cert"
  /\ mem' = [mem EXCEPT ![t] = NoMem]
  /\ UNCHANGED <<ram, bundle, readers, recipients, deployKey, deployPub, ciKey, minted,
                 staged, served, told>>

SecretsStep(t) ==
  \/ SetKey(t) \/ UnsetKey(t) \/ EditKey(t) \/ EditorCloses(t)
  \/ DeployKeyInit(t) \/ Keygen(t) \/ Encrypt(t) \/ ReplaceBundle(t)
  \/ ReplaceDeployKey(t) \/ PublishKey(t) \/ CiSetup(t) \/ ReadKey(t) \/ SendKey(t)
  \/ Up(t) \/ EnsureOriginCert(t) \/ StageKey(t) \/ StageCert(t) \/ MoveKey(t)
  \/ MoveCert(t) \/ NothingToMove(t)
  \/ SecretsFail(t) \/ SecretsKilled(t)
  \/ /\ RamStep(t)
     /\ mem' = IF run'[t] = Idle THEN [mem EXCEPT ![t] = NoMem] ELSE mem
     /\ UNCHANGED <<bundle, readers, recipients, deployKey, deployPub, ciKey, minted,
                    staged, served, told>>

SecretsNext ==
  \/ \E t \in Terminals : SecretsStep(t)
  \/ \E f \in Files : EditRecipients(f)

-----------------------------------------------------------------------------

\* Whatever is typed, and whatever commands overlap, fail or are killed,
\* secrets.age keeps an entry for the token `up` cannot run without, and never
\* holds the certificate of one generated pair and the key of another, even if
\* the operator removes, empties or types over one of them in between
\* (save_secrets writes the whole bundle in one rename; _ensure_origin_cert
\* makes and stores both halves if either is missing).  As long as no two
\* commands overlap, every key also has the value the operator was last told
\* was stored: a command that works on a copy loses nobody else's change.
BundleIsWhole ==
  /\ bundle[RequiredKey] # 0
  /\ \/ \E k \in Pair : bundle[k] <= MaxValue
     \/ bundle["origin_cert"] = bundle["origin_key"]
  /\ ~Overlapping => bundle = told

\* A command that ends in success leaves matching halves, whatever earlier
\* runs that failed or were killed left: deploy-key init a private and a public
\* half of one key, which every recipient of secrets.age can decrypt
\* (secrets_cli.py:343); ci-setup the key of deploy.age at CI; and `up` the
\* certificate and the key of the bundle on the node.
\* Two that overlap can cross: the claim is for one command at a time.
MatchingHalves ==
  [][\A t \in Terminals : ~Overlapping =>
       /\ PublishKey(t) =>
            /\ deployPub' = deployKey'
            /\ recipients["secrets.age"] \subseteq readers'["deploy.age"]
       /\ SendKey(t) => ciKey' = deployKey'
       /\ MoveCert(t) => \A k \in Pair : served'[k] = bundle'[k]]_<<commandVars, secretsVars>>

=============================================================================
