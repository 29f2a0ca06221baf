# A verification project for stack-base

stack-base brings up and runs small production nodes: a Python command line
(`stackbase/`) reconciles Hostinger VMs, Cloudflare DNS and R2, and secrets with
a `stack.toml`; NixOS modules (`nixos/`) give every node an app with two
instances, blue and green; a bash engine on the node
(`nixos/deploy/stack-deploy.sh`) deploys releases by moving traffic between the
two. This directory models the parts in which order, concurrency and failure
matter.

## 1. Inventory

| Component | State it keeps | Operations | Interacts with |
|---|---|---|---|
| Release engine, `nixos/deploy/stack-deploy.sh`, units in `nixos/deploy.nix` | `active-color`, `pending-color`, `generation`, `drain-pending-<color>`, `<color>/current`, `releases/`, `deploy.lock`; `/run/<project>/app.sock`; systemd units and timers | `deploy`, `rollback`, `unpack`, `prune`, `boot`, `internal-drain-stop`; read-only `status`, `colors`, `releases` | systemd (start, stop, timers), nginx (follows `app.sock`), deploy door |
| Deploy door, `nixos/deploy/stack-deploy-ssh.sh` | one temporary upload file | `upload`, `deploy`, `rollback`, `status`, `colors`, `releases` | SSH, engine |
| Rollout client, `stackbase/release.py` | git worktree, the project's cargo target directory, local tarball | verify, check out, build, package; `deploy`, `rollback`, `status` over several nodes, replicas first | git, cargo, npm; the deploy key; deploy door of each node |
| Reconciler, `stackbase/reconcile.py`, `steps.py` | `state/<env>.json` through `config.NodeState` | observe, plan, apply: purchase, adopt, setup, firewall, DNS, certificates, rebuild, env files, R2 | all clients below |
| Provider clients, `hostinger.py`, `cloudflare.py`, `http.py` | none | API calls with retries | HTTP APIs |
| R2, `r2.py` | none (rules live at Cloudflare) | read, merge, write of lifecycle and lock rules | HTTP API |
| Secrets, `secrets.py`, `secrets_cli.py` | `secrets.age`, `deploy.age`, `keys/deploy.pub`, lists of recipients | load, save, set, unset, edit, deploy-key init and rotate, `ci-setup` | age, editor, `up`, `deploy` |
| RAM directories, `ramdir.py` | a directory in `/dev/shm`, or a RAM disk on macOS | open, wipe, detach | editor, ssh-keygen, `deploy` |
| SSH, `ssh.py`, `smoke.py` | pinned `known_hosts` | pin, unpin, run, smoke test | nodes |
| Node services, `nixos/backups.nix`, `alerts.nix`, `logs.nix`, `mesh.nix` and their Python halves | `app.env`, `logs.env`, `alert.env`, `backup.env`, their digests in the state file; stamps and spool files | `up` renders, pushes and restarts; timers | secrets, `stack.toml`, engine, R2, mail |
| CI and templates, `ci.py`, `templates/` | the key at CI, files written once | `ci-setup`, scaffold | GitHub, operator's repository |

What makes each component correct:

* **Release engine.** One command at a time; after any crash the next command or
  the boot finishes or discards a half-done swap; traffic goes to a recorded or
  announced color; the unit that serves is not stopped; links never dangle; a
  rollback returns to something that was healthy.
* **Deploy door.** An upload never replaces a published release with different
  content; a repeated upload is harmless.
* **Rollout client.** The primary is deployed last and rolled back first; the
  rollout stops at the first failure; every node ends in one of the reported
  states; running it again completes it.
* **Reconciler.** A VM is bought at most once per node, adopted VMs are never
  shared; a crash between an API call and the state file is repaired by the
  next run; what `applied_rev` says was applied was applied to this machine.
* **Secrets.** `secrets.age` always has an entry for what `up` needs and never the
  halves of two generated certificates; a command that reports success stored what
  it said; both halves
  of the deploy key belong together; nothing readable stays in RAM.
* **Release build.** What is shipped as a version is its tag.
* **Environment files.** When nothing is left to do, the node has what the secrets
  say and what runs has read it.
* **Providers.** No rule and no open port others rely on is taken away; runs
  settle.

Hard behaviour, per line, is listed under `hazards` in `PROJECT.json`.

## 2. Plan

1. `StackDeploy`: the engine with crashes, deaths, failing commands and timers;
   `BlueGreen`: its abstract traffic contract; `StackDeployRefines`: the
   refinement; `StackDeployProofs`, `StackDeployRefinesProofs`: the theorems. *Done.*
2. `Releases`: contents of release directories, uploads through the deploy
   door, interrupted removals; `ReleasesProofs`. *Done.*
3. `Rollout`: the rollout over nodes, on top of what a node promises;
   `RolloutProofs`. *Done.*
4. `Reconcile`: `stackbase up` with purchase, adoption, setup, rebuild, DNS and
   the state file; `ReconcileProofs`, `ReconcileMachineProofs`. *Done.*
5. `Commands`, `RamDir`, `Secrets`, `ReleaseBuild`, `NodeEnv`, `Providers`: the
   other commands of the operator's machine, composed by `Workstation`;
   `WorkstationProofs`, `WorkstationUpProofs`. *Done.*

What could still follow: two runs of `up` over one state file; a node as the
engine promises it (what `Rollout` assumes) implemented by `StackDeploy`; a
release store that `Releases` implements; and the alert handler and the watchdog.

## 3. The release engine

### 3.1 State and actions

`StackDeploy.tla` models `stack-deploy.sh` together with the units `deploy.nix`
gives it. Every invocation is a process `p`; `pc[p]` names the shell command it
executes next and `job[p]` holds its arguments and local variables. One action
is one command that changes something, with the branches the script takes when
that command fails, so that another process, a timer, a kill or a power loss can
fall between any two commands.

| Variable | In the code |
|---|---|
| `active`, `pending`, `generation`, `marker[c]` | files `active-color`, `pending-color`, `generation`, `drain-pending-<c>` under the state directory |
| `link[c]`, `releases` | `/opt/<project>/<c>/current` and the directories under `releases/` |
| `sock` | the target of `/run/<project>/app.sock` |
| `unit[c]` | the release `app@<c>` runs, `Stopped` if none |
| `armed[c]` | `stackbase-drain@<c>.timer` is counting down |
| `bootDue` | systemd is about to start `stackbase-app-boot.service` |
| `lock` | the holder of `deploy.lock` (`flock -n`) |
| `proven` | history: the releases that passed a deploy's health check |
| `faults` | what may go wrong in this behaviour |

| Part of the script | Actions |
|---|---|
| `main`, `acquire_lock` | `Deploy`, `Rollback`, `Unpack`, `Prune`, `Boot`, `DrainFires`; `BootLosesLock`, `DrainLosesLock` |
| `resolve_pending_color` | `Resolve`, `Resume`, `Reflip`, `Rerecord`, `Fallback`, `Settle` |
| `deploy_unpack_tarball` | `UnpackCheck`, `UnpackRemove`, `UnpackInstall` |
| `cmd_deploy`, `cmd_rollback` | `RepointIdle`, `RestoreLink`, `SelectIdle` |
| `activate_color` | `RestartIdle`, `Probe`, `StopCandidate`, `WriteIntent`, `FlipTraffic`, `RecordActive`, `ClearIntent`, `BumpGeneration`, `MarkDrain`, `ArmTimer` |
| `prune_releases` | `PruneReleases` |
| `cmd_boot` | `PointAtActive`, `StartActive` |
| `cmd_internal_drain_stop` | `DrainCheck`, `DrainStop`, `Unmark` |
| systemd and the machine | `AppRestarts`, `SwitchStartsBoot`, `Die`, `PowerLoss` |

What may go wrong in a behaviour is the set `faults`. It is chosen once, from the
constant `FaultModels`, and never changes, so that one run compares fault models
and a property can say which of them it is about:

* `step`: any command whose failure the script handles may fail;
* `death`: a process may be killed before any command;
* `power`: the machine may lose power before any command; `/run`, units, timers
  and processes are gone, files stay;
* `disk`: the disk is full, and `atomic_write` puts an empty file in place of the
  old one and reports success (see 3.5);
* `force`: somebody overwrites a release with `deploy --tarball ... --force`.

Abstractions. A release is a number, ordered as `sort -V` orders versions; a
directory under `releases/` is there or not (module `Releases` opens it up). A
health check passes or fails freely. `rename(2)` is atomic and durable.
Tarball verification is the choice to refuse. `check_layout_version`, which only
refuses to run on an unknown layout, and the read-only subcommands `status`,
`colors`, `releases` are left out. A losing `flock -n` of an operator's command
changes nothing and is a stutter; that of the boot unit and of a drain is an
action of its own, because it uses up the only attempt.

### 3.2 Runs

Two colors, two versions and `Keep` = 1 always, so that pruning bites as early as
it can. `MaxGeneration` = 2 bounds how many swaps a behaviour starts after the
first one: a drain timer of an older swap then meets a newer one that uses the
drained color again.

| Run | Instance | Fault models | Shows |
|---|---|---|---|
| `engine_safety` | 2 processes, all subcommands | {`step`, `death`, `power`}, {`disk`}, {`power`, `force`}, {} | types, mutual exclusion, no dangling link, boot finds its release, the recorded unit runs its link and is stopped by nothing but a power loss and the fallback from an unhealthy intent, only `Settle` loses track of traffic, and the refinement of `BlueGreen`; where nothing but the power fails, traffic is on the recorded color whenever the engine is at rest and its unit is never stopped; where nothing but health checks fails, a rollback target was healthy once |
| `engine_liveness` | 1 process, all subcommands, fairness | {`power`}, {`step`, `death`} | the lock is given back, also by commands that fail or are killed; a swap that power losses cut short is settled |
| `engine_drain_kills`, `engine_fallback` | 1 process; up to 3 generations | {`death`} | the findings below |

Health checks may fail in every fault model.

`OnlySettlingLosesTraffic`, `RecordedNeverStopped`, `TrafficNeverStopped` are action
properties; `LockReleased` and `SwapSettles` are liveness properties. Two
processes suffice for the lock: every command takes it before it touches
anything and holds it to the end, so a third one can only lose it as the second
does. Processes are symmetric, and the symmetry is only used in runs without
liveness.

`RecordedNeverStopped` is about every command that stops a unit, drains above all:
a drain trusts a marker and a generation, and both may repeat, because
`next_generation` counts from 0 over a counter it cannot read, and because a full disk
blanks both. What then still protects the recorded color is the comparison with
`active-color` under the lock, which the run checks against every other process.
`resolve_pending_color` is excepted: an intent may be left behind after its color was
recorded, and if that color is then unhealthy, it is stopped.

`SwapSettles` says what is so and no more. `unpack` and `prune` take `deploy.lock`
without calling `resolve_pending_color` (`stack-deploy.sh:637`, `:820`). One that is at
work when the boot unit starts makes it give up, and the open swap stays until the
next deploy, rollback or boot. So the property starts from an open intent with a
boot due or somebody at work who resolves (`SettlerComing`), and ends with the intent gone or
with the boot unit beaten by an unpack or a prune (`BootBeaten`).

### 3.3 Fairness

`FairSpec` assumes weak fairness of every process's next command and of the boot
unit. The shell executes its next command; health checks are bounded by
`STACK_DEPLOY_HEALTH_TRIES`, `systemctl` calls return; nothing in the script
waits, because `flock` is always `-n`. No fairness is assumed of operators, of
timers, of deaths or of power losses: `SwapSettles` is
conditional on the power staying on (`PowerStays`) and on somebody who settles
being due or at work.

### 3.4 Proofs

`StackDeployProofs` proves for every set of processes and versions, every `Keep`
and every set of fault models. The inductive invariant
is

    IInv == TypeOK /\ LockInv /\ Global /\ \A p \in Procs : Where(p)

`LockInv` says that the lock's holder and nobody else is past `acquire_lock`;
it turns every other process's step into a non-event, so that a step's effect
has to be reconciled with one process only. `Where(p)` is what the script may rely on at each
command: that no intent is open while a candidate is being started, that the
candidate's link is not dangling, that the socket follows the intent before it is
recorded, that the color a drain is about to stop is still not the recorded one. `Global` adds
`PendingRunsItsLink` to the safety invariants, since an announced color may
become the recorded one. None of the safety invariants is inductive alone:
`LinksResolve` needs `Where` to know that the link a failed deploy restores still
names a release, `ActiveRunsItsLink` that the color about to be recorded was
restarted after its link changed. One lemma per group of actions proves
`IInv /\ [Next]_vars => IInv'`.

| Theorem | States |
|---|---|
| `TypeCorrect`, `Exclusion`, `BootAlwaysFindsRelease`, `LinksAlwaysResolve`, `ActiveAlwaysRunsItsLink` | the invariants of `engine_safety`, always |
| `RecordedIsNeverStopped` | that nothing but a power loss and the fallback stops the recorded color, under every fault and whatever generation is reused |
| `SettlingAloneLosesTraffic` | what it says is about behaviours without `disk` |
| `EngineImplementsBlueGreen` | the refinement; in a behaviour with `disk` the contract sees nothing (`Seen`), so it says something of the others |
| `TrafficStaysOnActive`, `TrafficIsNeverStopped` | what these two say is about behaviours with `power` and `force` only; `QuietInv` adds that an open intent with routing in place has a process at work on it |
| `RollbackTargetIsProven` | what it says is about behaviours without faults; `HealthInv` adds that an unproven link belongs to the deploy that is trying it |

The assumptions are those named in `StackDeploy.tla`. Liveness (`LockReleased`,
`SwapSettles`) is only model-checked, as are the two properties that do not
hold.

### 3.5 Findings

* **A drain can stop the serving color** (`engine_drain_kills`). A deploy killed
  between the socket flip and the `active-color` write leaves the old drain
  timer's checks satisfied: `active-color` names the other color and marker and
  generation agree. The drain stops the unit that receives traffic.
* **The fallback does not move traffic back** (`engine_fallback`). When the pending
  color turns out unhealthy, `resolve_pending_color` stops it and says it falls
  back to `active-color`, but `app.sock` still points at the stopped color.

Two more limits are modelled and have no property of their own, because nothing
better can be claimed:

* `BootLosesLock`: `cmd_boot` uses `flock -n` and is a oneshot; a command over SSH
  that takes the lock first makes it give up, and `app.sock` is not recreated
  unless that command flips. The comment at `stack-deploy.sh:863` takes the lock to be
  uncontended at boot.
* `Written`: `atomic_write` relies on `mv` failing when `printf` failed, but
  `mktemp` has already created the file, so on a full disk `mv` succeeds with an
  empty one; the deploy reports success and every later deploy, rollback or boot
  refuses the empty color. This is why `disk` is left out of the traffic
  properties and of the refinement.

## 4. Release contents and the deploy door

### 4.1 State and actions

`Releases.tla` opens up what `StackDeploy` takes as there or not: the
directories under `releases/`. `dir[v]` is the state of `releases/<v>` (absent,
whole, or partly removed), the tarball it came from and the
`.stackbase-sha256` inside it. A session is an SSH session at the deploy door or
a local `stack-deploy` command; `file[s]` is the tarball it works from, `code[s]`
the exit code its caller reads.

| Code | Actions |
|---|---|
| `upload` in `stack-deploy-ssh.sh` | `Upload`, `Stream` (no lock is held), then the unpack; `Unpacked` is its exit code |
| `cmd_unpack`, `deploy_unpack_tarball` | `TakeLock`, `Check`, `RemoveOld` (`--force`), `Install` |
| `cmd_deploy`, with `--tarball` and `--force` | `Deploy`, `DeployTarball`, `Repoint`, `Activate` |
| `cmd_rollback` | `Rollback`, `Repoint`, `Activate` |
| `cmd_prune`, `prune_releases` | `Prune`, `ListReleases`, `PruneOne`, `PruneDone` |
| the machine | `Kill`, `PowerLoss` |

`faults`, chosen once from `FaultModels`, is what may go wrong: `cut` (a connection lost while a tarball
streams, which ends the stream exactly as its end does), `full` (no room), `io` (an
`rm -rf` or `mv` that fails, an `rm -rf` perhaps after it removed some files), `kill`,
`power` and `force`. A removal that fails in a prune is counted, and the prune goes
on with the next release; the deploy that pruned only warns, `prune` itself exits 1.
One that fails under `--force` ends the command, and so does a failing rename, with
the old directory gone.

Abstractions. A tarball is identified with its sha256. Extraction, the member
checks and the mode normalisation happen in a private directory; what can fail in
them is one choice to refuse, and nothing shows before the rename, which is
atomic and durable. `rm -rf` removes files in any order, so a half-removed
directory may or may not have kept its stamp. A swap of traffic is one step with
the three outcomes the engine has: done, refused with the link restored, failed
after traffic moved.

### 4.2 Runs

| Run | Instance | Shows |
|---|---|---|
| `releases_safety` | 2 sessions, 2 versions, 2 builds; every fault at once, all but `force`, and, where no removal ends half-way (`NothingHalf`), `cut` and `full` with `force` and without | a whole directory is a verified tarball, and no step replaces a published one; only `--force` touches a linked release; exit codes of uploads tell whose content is there; and where `NothingHalf`, linked and acknowledged releases are whole |

`Keep` is 1, so that every successful deploy prunes whatever is not linked. Two
versions are enough for a prune to remove the one that another session has just
uploaded (with three the run takes minutes and shows the same). Two builds
of a version are a conflict; a third one is one more of the kind. Sessions and
builds are symmetric.

### 4.3 Proofs

`ReleasesProofs` proves, for all sets of sessions, versions and builds and every
`Keep`, `ReleasesTypeCorrect`, `WholeAlwaysVerified` and `PublishedIsImmutable`
under every combination of faults, from

    IInv == TypeOK /\ WholeIsVerified /\ \A s \in Sessions : Where(s)

where `Where(s)` says what a session relies on at each step: past `Check` it
holds the lock, the tarball it is about to install hashed to what the caller
gave, the directory it is about to fill is absent, and what it prunes is not
linked. Without the part about the tarball `WholeIsVerified` is not inductive;
without the lock another session could fill the directory in between.

`UploadsTellTheTruth` and `LinkedReleasesLeftAlone` hold under every combination of
faults too. The first adds that a stamp, where there is one, is that of the content
next to it, also in what is left of a directory (`Stamped`). The second adds that what a color links, or a
failed deploy would link again, is there (`HeldPresent`). The part of both
that speaks of whole directories is about behaviours with `NothingHalf` and needs that a directory
is half removed only while its remover holds the lock (`Clean`).

### 4.4 A limit

A power loss or a kill in the middle of a removal, or an `rm -rf` that fails half-way,
leaves a directory that may still have its stamp. `deploy_unpack_tarball` compares the
stamp alone, answers "already uploaded (same content)", and the deploy proceeds
with what is left. Uploading again cannot repair it; only `--force`, or pruning
it, does. For this reason `UploadTellsTruth` claims of exit 0 only that what is there
is of the caller's content, and `LinkedIsLeftAlone` of a linked release only that no
session touches it, unless `NothingHalf`.

## 5. The rollout

### 5.1 State and actions

`Rollout.tla` models `stackbase deploy` and `stackbase rollback` over several
nodes: `ship`, `rollback_nodes`, `_node_order` and `_select_nodes` of
`release.py`, and `Ssh.run_stream`. A node is what the engine promises of it:
the release that serves (`live`), the one its idle color links (`idle`), and a
lock. `sessions` are the commands that hold a lock; one whose client is gone goes
on (`by = NoClient`).

| Code | Actions |
|---|---|
| `run_deploy`, `run_rollback` | `RunDeploy`, `RunRollback` |
| `ship`, `rollback_nodes` | `Upload`, `Switch`, `Report`, `Stop` |
| `Ssh.run_stream` | `Disconnect` |
| `stack-deploy deploy`, `rollback` at the node | `Succeed`, `Refuse`, `FailAfterFlip`, `DieAlone` |
| the operators | `CalmDown`: failures stop, every run deploys `Goal` |

`habits`, chosen once from `Practices`, is how operators work: whether they use
`--node` (`only`), and whether they wait for each other's runs to end (`serial`).
`Faults`: `cut` (a connection lost before or during a command), `fail` (a healthy
release is refused), `flip` (a swap fails after traffic moved). A version in
`Bad` fails every health check on every node.

A version is its content here: how a tarball comes about from its tag is
`ReleaseBuild` (section 7), and `Releases` shows what an upload of another
content would get.

### 5.2 Runs

| Run | Instance | Shows |
|---|---|---|
| `rollout_safety` | 2 clients, 1 primary, 1 replica, 3 versions, every fault; overlapping and in turns | a bad version is not tried on the primary; in turns, success means served |
| `rollout_rerun` | 1 client, the same nodes, 2 versions, `--node`, every fault until calm, fairness | types; re-running converges |
| `rollout_redeploy` | as small as the counterexample allows | the finding below |

The primary is declared first, so that the declaration order, which `deploy` must
not follow, puts it before the replica. Two nodes show every order there is
between a replica and a primary; a second replica only adds a node that is
treated like the first. A re-run meets what any number of clients left behind as
sessions without a client, so `rollout_rerun` needs one. With two clients each may overtake the other between
two nodes; sessions without a client stand for any number of clients that are
gone.

`SuccessMeansServed` is stated for runs that do not overlap. Two overlapping runs
of different versions may both succeed and leave the nodes on different
versions; nothing in the code claims otherwise, and the workflow template
serialises runs with a concurrency group.

### 5.3 Fairness

`FairSpec` assumes that each node finishes the command it runs (the engine never
waits, see 3.3), that a client goes on to its next step, and that, once calm,
operators run the deploy again until it has succeeded. The last is what the
error messages ask them to do ("fix and re-run"); no fairness is assumed of
disconnections, nor that failures stop: `RerunConverges` is conditional on
`calm`.

### 5.4 Proofs

`RolloutProofs` proves for all finite or infinite sets of clients, nodes and
versions:

* `RolloutTypeCorrect`;
* `PrimaryIsSpared` (`BadNeverReachesPrimary`). A client reaches the primary only
  after every replica reported success for the same version (`Accounted`: a
  selected node is still to come or done; `DoneIsGood`: what is done was
  healthy), and a session somebody listens to belongs to its client's current run
  (`Listened`);
* `SuccessIsServed` (`SuccessMeansServed`), with `Serial`: at most one client is
  at work (`Alone`), at most one session holds a node (`OnePerNode`), and what is
  done still serves the version and has no session left that could change it
  (`DoneServed`).

`RerunConverges` is liveness and only model-checked.

### 5.5 Finding

* **Deploying a version twice leaves nothing to roll back to** (`rollout_redeploy`).
  `cmd_deploy` links the idle color to the requested version even if the active
  one already links it. A re-run of a half-finished rollout does that on every
  node it had reached; a later rollback exits 0 there without effect, while it
  takes effect on the others.

A swap that fails after traffic moved (`FailAfterFlip`) exits 1, as one that changed
nothing does, and `README.md:471` describes the second only; the properties above
hold in spite of it.

## 6. The reconciler

### 6.1 State and actions

`Reconcile.tla` models `stackbase up` over the nodes of one environment: what
`reconcile.observe` sees, what `reconcile.plan` makes of it, and what `apply`
does, step by step, with the executors of `steps.py`. `file` is the state file
and `mem` the run's copy of it: a step changes `mem`, `apply` saves it after the
step returned, and a run that raises or is killed in between loses it.

| Variable | In the code |
|---|---|
| `vm[v]` | the server at Hostinger: its state, whose purchase it was, hostname, firewall, disk facts; on it, what was pushed, what is active, what it boots, and the origin certificate |
| `dns` | the domain's A record |
| `tree`, `lock`, `hardware`, `pin` | infra/: its content, `flake.lock`, `nodes/<node>/`, `known_hosts` |
| `token`, `cert` | `cloudflare_token`, `origin_cert` in `secrets.age` |
| `file`, `mem` | `stack.state.json` and `ctx.state` |
| `todo`, `pc` | the plan's remaining steps, and how far the current one is |
| `faults`, `calm` | what may go wrong in this behaviour, and whether it still may |

| Code | Actions |
|---|---|
| `_up`: `observe`, `plan` | `Up`, with the operators `Adoptable`, `Provisioning`, `NeedsDeploy`, `DnsConverged`, `Plan` |
| `apply` | `Save`; `Raise` and `Kill` for a run that ends early |
| `_purchase`, `_wait_purchase`, `_adopt` | `Purchase`, `PurchasePending`, `SaveMarker`, `Adopt`; `Raise` |
| `_setup` | `Setup`, `Unpin` |
| `_wait_running`, `_ensure_firewall`, `_pin_host_key`, `_capture_hardware` | `WaitRunning`, `Firewall`, `Pin`, `Capture` |
| `_ensure_origin_cert`, `_push_config`, `_upsert_dns` | `EnsureCert`, `Push`, `UpsertDns` |
| `_rebuild` | `Test`, `Probe`, `Switch` |
| Hostinger, the machines | `Provision`, `Install`, `Reset`, `Reboot` |
| the operator | `EditTree`, `AddToken`, `ForgetKey`, `CalmDown` |

What may go wrong, chosen once per behaviour: `fail` (a step raises before its
effect is recorded), `kill` (at any point), `lost` (the answer to a purchase),
`deaf` (the answer that says that the payment is being processed, the only thing
that names the subscription), `reset` (a machine put back to its initial state in
hPanel), `edit`, `midrun`, `revert` (infra/ is edited between runs, during one,
or back to what it was), `late` (the Cloudflare token comes later), `reboot` (a
machine reboots between `nixos-rebuild test` and the end of `switch`).

Abstractions. A server is the number of its purchase, and so its subscription
and its address. Observation and plan are one step, since a plan is made from
what was just observed; what changes between the plan and a step is in the
model, and steps meet it. A tree of infra/ is a number, in the order written, and
those in `Locking` break sshd or the network once active. The revision
(`compute_rev`) is the tree, `flake.lock` and every node's hardware files.
Committing infra/ before a run (`check_infra_clean`), checks of the
configuration are left out; the registration of SSH keys, environment files, mesh
enrolment and R2 steps are in section 7. One run at a time.

### 6.2 Runs

| Run | Instance | Fault models | Shows |
|---|---|---|---|
| `reconcile_up` | 2 nodes, 2 servers, 3 trees, one of them locking; fairness | {`kill`, `lost`, `edit`}, {`fail`, `late`}, {`lost`, `deaf`}, {`kill`, `reboot`} | types; a node is bought one server and takes no other node's; nodes are provisioned before anything is deployed, and named when they serve; no locking boot default; an empty plan means converged; runs converge |
| `reconcile_reset` | 1 node, 2 servers, 3 trees | {`fail`, `reset`, `edit`}, {`kill`, `reset`}, {`fail`, `edit`, `revert`, `midrun`} | a reinstalled machine gets its own disk facts and never meets its old key |
| `reconcile_late_token` | 1 node, 1 server | {`fail`, `late`} | the finding below |

Two nodes are what it takes to give one node's server to another and to deploy
one before the other is there; a third one is provisioned like the second. Two
servers are one for each node, so that a second purchase for a node, which the
mutants make, has a server to take. Of three trees the middle one locks everyone
out: there is one to come from and one to repair it with. `CHECK_DEADLOCK` is off
because a converged system with no operator stops. What a purchase
answers (200 or 202), how a paid server is provisioned, and the facts of a newly
installed disk are free choices in every run.

What the properties leave out, by a condition on `faults`, is as much a result as
what they say:

* `BoughtOnce` leaves out `deaf`: when the 202 answer itself is lost, or the run
  is killed before the marker is saved, the server has no hostname to be found
  under until it is set up, and the next run buys another one. `OwnServer` holds
  all the same.
* `SwitchIsSafe` leaves out `reboot`: a machine that reboots after `test` answers
  the probe with the old configuration.
* `OwnHardware` and `ExpectedKeys` leave out `kill`: a kill in the middle of `_setup`
  leaves the pinned key and the captured files of the machine that is gone.
* `NothingToDoIsTrue` and `RerunConverges` leave out `reset` (`_setup` keeps
  `applied_rev`, so that a machine reinstalled with the same disk facts is taken
  to be up to date), `midrun` (the revision recorded after a rebuild is that of
  infra/ by then), `revert` (after a failed rebuild, a tree put back equals
  `applied_rev` while the node still runs the failed one) and `late` (the finding).

### 6.3 Fairness

`FairSpec` assumes that a run takes its next step, that Hostinger provisions and
installs what it was paid for, and that once calm the operator does what the
messages say: runs `up` again, reboots a machine that stopped answering
("reboot the VPS from hPanel"), removes a stale line of `known_hosts`. Each step's
waiting is bounded by a timeout in the code (`wait_running`, `wait_port`), after
which the step raises. `CalmDown` is never forced and only possible while infra/
does not lock everyone out: `RerunConverges` is conditional on it.

### 6.4 Proofs

`ReconcileProofs` proves for all finite sets of servers and all sets of nodes,
trees, disks and fault models:

* `ReconcileTypeCorrect`;
* `ServersAreOwn` (`OwnServer`), under every fault. The invariant `OwnInv` says of
  the state file, of the run's copy, of purchases still pending and of steps still
  planned that each server was bought for its node, and of hostnames that they
  are only given to the server of that node (`Names`). Without `Names`, adoption by
  hostname could take another node's server; without the part about plans,
  an adoption planned before a server changed could;
* `SwitchingIsSafe` (`SwitchIsSafe`). The invariant says that between test and
  switch what is active on the machine under test is what was pushed
  (`Activated`), so that an answer speaks for what is about to be switched to. It
  rests on there being one current step (`OneCurrent`: `Precedes` is asymmetric).

* `EveryNodeIsBoughtOnce` (`BoughtOnce`). The invariant `OnceInv` says that whatever
  was bought for a node is in the state file or will be found by the next run,
  under the subscription or the hostname (`Found`), that a purchase is only ahead
  for a node without a server (`Wanted`), and that the run's copy knows of every
  server the file knows of (`Remembered`).

`ReconcileMachineProofs` goes on with what is known of the machines:

* `ReinstalledKeysAreExpected` (`ExpectedKeys`) and `HardwareIsOwn` (`OwnHardware`).
  A key that is pinned, and hardware that counts as captured, are of the machine as
  it is now, or the step is at work that is about to forget them (`Keys`,
  `Captured`); and a node that is set up is captured again before it is pushed to
  (`Prepared`). The latter is where the order of the plan is needed: of two
  steps of a node, the one of the higher rank is still ahead while the other is
  at work (`NothingBefore`, `AheadStays`);
* `NothingToDoIsHonest` (`NothingToDoIsTrue`). What the state file records as applied
  is what its machine boots, as long as infra/ still is that (`Applied`). For this
  to survive an edit, infra/ must never come back to a revision it had before
  (`Older`: trees and captured hardware are only added to), and what a node is
  rebuilt from must be what infra/ is at that moment, although the other nodes' rebuilds
  fetch a lock file (`Rebuilding`: between a node's push and its rebuild it is the
  first of those still to come). Each of these is false with one of the faults that
  `Surprises` names.

* `EveryNodeIsProvisionedFirst` (`ProvisionedFirst`), under every fault. What a node
  lacks is still ahead in the plan, or a purchase is waited for that ends the run
  (`Provisioned`); and what purchase, adoption or setup takes from a node is given
  back by a step of a higher rank (`Ordered`). Activation is of a higher rank still,
  so nothing is ahead any more when it comes;
* `NameIsServed` (`NamedBoxServes`), without `reset` and `late`. A node with an
  applied revision boots some revision and has the certificate (`Serves`); a node is
  only rebuilt from something that was pushed (`Supplying`); the run that moves the
  name rebuilds first what was never rebuilt (`WillServe`), and only plans the name
  with a token (`Tokened`). It shares with `NothingToDoIsHonest` what holds of
  machines that nobody resets (`SteadyInv`).

Only `RerunConverges`, which is liveness, is model-checked and not proved.

### 6.5 Finding

* **A certificate that never reaches its nodes** (`reconcile_late_token`). The plan
  pushes the origin certificate as long as `secrets.age` does not hold one.
  A run that stores it and fails before `PUSH_CONFIG`, on nodes that are otherwise
  up to date, leaves nothing that says a push is due: the next run only moves the
  name, and the one after it prints `nothing to do`. The nodes serve their
  placeholder until infra/ changes.

## 7. The operator's machine

### 7.1 State and actions

Everything else that changes state happens in commands somebody types on one
machine, without any lock: two terminals can run any two of them. `Commands` has
the terminals, each with at most one process; `Secrets`, `ReleaseBuild`, `NodeEnv`
and `Providers` have the commands; `RamDir` has the directory in RAM that `Secrets`
and `ReleaseBuild` share; `Workstation` composes them. `up` is in three of the modules,
as `up` (the certificate), `up-env` (environment files) and `up-providers`: the
three share no state but the process, and the order between them does not matter
to any.

| Variable | In the code |
|---|---|
| `run[t]` | the process of a terminal: its command and the step it is at |
| `ram[t]` | the directory of `private_ram_dir`: a RAM disk, something secret in it, and whether the body raised |
| `bundle`, `deployKey`, `readers` | what `secrets.age` and `deploy.age` decrypt to, and for whom |
| `recipients` | `age-recipients.txt`, `deploy-recipients.txt` |
| `deployPub`, `ciKey` | `keys/deploy.pub`, the secret at GitHub |
| `mem[t]` | what the process holds decrypted |
| `staged`, `served` | `origin.{key,crt}.new` and `origin.{key,crt}` on a node |
| `told` | history: what commands that succeeded said was stored |
| `tags`, `cache`, `desk[t]`, `shipped` | git tags, cargo's target directory, the worktree and tarball of a run, what went to the nodes |
| `secret`, `tables` | what a file is rendered from: the secrets, the tables of `stack.toml` |
| `recorded`, `disk`, `daemon`, `failed` | the digests in the state file, the files on the node, what Vector and the mail relay run with |
| `color`, `started[c]`, `deploying` | `active-color`, the `app.env` a color started with, `deploy.lock` |
| `cloud`, `known`, `work[t]` | what the providers hold, the ids in the state file, what a run has read and has to do |

| Code | Actions |
|---|---|
| `private_ram_dir`, `_darwin_ram_disk` | `OpenDirectory`, `AttachDisk`, `Format`, `FormatFails`, `NoRamToBeHad`, `Wipe`, `Detach` |
| `set_key`, `unset_key`, `edit_key` | `SetKey`, `UnsetKey`, `EditKey`, `EditorCloses` |
| `save_secrets` | `Encrypt`, `ReplaceBundle`, `ReplaceDeployKey`; `SecretsFail` |
| `deploy_key_init`, `ci_setup` | `DeployKeyInit`, `Keygen`, `PublishKey`, `CiSetup`, `ReadKey`, `SendKey` |
| `_ensure_origin_cert`, `_push_origin_cert` | `Up`, `EnsureOriginCert`, `StageKey`, `StageCert`, `MoveKey`, `MoveCert`, `NothingToMove` |
| `run_deploy` up to `ship` | `VerifyVersion`, `DeployTarball`, `TagCommitTimestamp`, `ReleaseWorktree`, `CargoBuild`, `BuildCss`, `CopyBinary`, `Package`, `DeployIdentity`, `Ship`, `DeployFails` |
| `local_facts`, `plan`, `apply` for the environment files | `PlanEnv`, with `NeedsAppEnv`, `NeedsFile`, `Plan`; `EnsureAppEnv`, `EnsureBackupEnv`, `EnsureLogsEnv`, `EnsureAlertEnv`, `RestartVector`, `RestartRelay`, `ReadColor`, `RestartColor`, `Record`, `Rebuild`, `EnsureMesh`, `EnvFails` |
| the release engine meanwhile | `StartIdleColor`, `FlipColor` |
| keys, firewall, buckets, records | `PlanProviders`, `AskKeys`, `AskFirewall`, `AskBucket`, `AskRule`, `AskDns`; `Answered` |
| `http.request` | `Lost` (no answer, tried again), `Refused` |
| people | `EditRecipients`, `Tag`, `ChangeSecret`, `ChangeTable`, `Others`, `CalmDown` |

A behaviour follows one of `Scenarios`: which commands are used, in which terminals,
and what is given. `fail` is a step that raises or a request whose answer is lost;
`kill` a process killed outright; `reboot` the node going down between two renames;
`macos` a RAM disk; `lists` somebody edits the recipients; `tarball` `--skip-build`;
`moved`, `renamed` a tag that is moved, a binary named in `stack.toml`; the names of
files what changes in them; `release` a release is deployed in between, `flip` at any
time; `revert` a change taken back; `keys`, `firewall`, `r2`, `dns` what is not there
yet; `others`, `race` people at the dashboards, between runs or during one; `shared`
one bucket for logs and files; `omits` an R2 that answers without a list where there
are no rules; `halves` somebody types in a half of the certificate.

Abstractions. A value is the number of its version, a key the number of its
generation, a file the commit it comes from. In `Secrets` the values typed are
those `set` and `edit` accept: any for most keys, the empty text included, which `up` then
takes for missing (`Missing`); a valid one for `app_env`, which is never empty
once it is normalised. In `NodeEnv` they are what the validators of `up` accept, or
incomplete; one that cannot be decoded at all ends a command before it does anything. age, ssh-keygen, git, cargo and npm succeed or fail.
A rebuild either restarts a unit whose file changed or leaves it: both are what
`nixos-rebuild switch` may do. A firewall has one rule per port at most, unless a
repeated request made two. Requests of one step follow one another; the answer to
each is one step with its effect.

### 7.2 Run

`workstation` checks 26 scenarios, because each adds one thing to a system that is
otherwise at rest; one scenario with everything would have more states than can
be checked and would let most properties promise less.

| Property | Says |
|---|---|
| `BundleIsWhole` | whatever overlaps or fails, `secrets.age` keeps an entry for the required token and never holds halves of two generated pairs, even if one is removed, emptied or typed over in between; one command at a time loses no change |
| `MatchingHalves` | a command that succeeds leaves both halves of a key alike, whatever earlier failures left |
| `NothingLeftBehind` | what was in RAM is wiped when a command ends |
| `PackagedIsTheTag` | what ships as a version holds its tag's files, date and program |
| `QuietIsServed` | where the plan is empty and one `up` at a time ran, the files are on the node and what runs has read them; a rebuild finds the files of what it starts, however many run |
| `NothingTakenAway` | rules of others stay; one run at a time and with nobody at the dashboard, open ports stay open while a firewall is changed |
| `RerunsSettle` | `up`, run again and again after failures stop, has nothing left to do |

Two terminals, two people, two versions of a value, two generations of a key. Two
overlapping commands are where a loss begins; a second version of a value is one
that can be lost, a second generation one that can be mixed with the first. Three
commits are one for each release and a third that declares the second release
again, so that a tag can move; the second builds another binary. Two attempts of a
request instead of four: one that is lost and one that is answered. Two rules of
others, of which a run can keep one and lose the other. `CHECK_DEADLOCK` is off
because a settled system, or one that has used up its key generations, stops.

What the properties except is as much a result as what they say:

* Of two overlapping runs of `up`, one may activate the firewall that another has
  created and not filled, and one may record a digest whose file the other has pushed
  but not yet restarted anything for. Nothing in the code claims otherwise, so
  `QuietIsServed` and the ports of `NothingTakenAway` speak of one run at a time;
  the rules of others, and the files that a rebuild needs, survive any overlap.
* Two commands that overlap can lose a change, cross their key halves, or
  pack the other's binary: `set` and `edit` decrypt, change and encrypt the
  whole file without a lock (`secrets_cli.py:152`), and all releases share one
  target directory (`release.py:461`). What survives any order is in
  `BundleIsWhole` and in the first part of `PackagedIsTheTag`.
* `set` and `edit` validate only `app_env` (`secrets_cli.py:160`, `:261`). `secrets set
  hostinger_token` stores an empty token, which `up` then refuses as missing, although `unset`
  refuses to remove it; and `secrets set origin_cert` puts a certificate next to
  a key it does not belong to, which `up` pushes. `BundleIsWhole` claims neither
  that the token is usable nor that a pair an operator typed into matches: only that
  the entry is there, and that commands never mix two generated pairs, because
  `_ensure_origin_cert` replaces both halves whichever is missing or empty.
* `renamed`: with a binary named in `stack.toml`, a tag that does not build it packs
  what an earlier one left in the cache.
* A change taken back after a run failed between the move of a file and its
  record is not pushed back: the old digest matches (`steps.py:776`).
* A release deployed while `up` runs can leave the serving color with the old
  environment although the new digest is recorded: `active-color` is read without
  the lock (`steps.py:823`).
* Vector, once down, is restarted by no later push, because only an active unit is
  (`steps.py:952`); the next rebuild that changes it does.
* `Stuck`: an SSH key registered twice and a second A record (both requests are
  retried although they may have been carried out), and a bucket without rules
  that R2 answers without a list, left by a run that ended after creating it.
* Rules that others add between the read and the write of the same step are lost;
  the API has no conditional write. `NothingTakenAway` speaks of those that were there.

### 7.3 Fairness

`Spec` assumes that a process goes on to its next step and that an operator whose
`up` has something to do runs it again (`UpEnv`, `UpProviders`), and that a release
deploy that has the lock ends (3.3). "a re-run after any failure must converge"
(`docs/plan-01-stack-up.md:23`) is what the code sets out to do. No fairness is
assumed of failures, of people or of `CalmDown`: `RerunsSettle` is conditional on it.

### 7.4 Proofs

`WorkstationProofs` proves for all sets of terminals, people, releases and scenarios:

* `NothingLeftBehindHolds` (`NothingLeftBehind`). The invariant `RamInv` says where a
  command has something secret in RAM (`SecretSteps`): between the opening of the
  directory and the end of its wipe, and nowhere else unless something is killed;
* `BundleStaysWhole` (`BundleIsWhole`). `BundleIsWhole` alone is not inductive: what is
  stored next is in some command's memory. The invariant says of every command
  that will write the file that what it holds may be stored (`Fit`), that an `up`
  changes no key but the pair's, and that, when no two commands overlap, it
  otherwise equals what is stored (`Holds`). That a typed, emptied or removed half
  leaves a bundle `Fit` is a lemma (`TypedFits`). `Processes` says who can be
  at work at all: only terminals of the scenario, so a second process means
  an overlap.

* `SuccessLeavesMatchingHalves` (`MatchingHalves`), an action property: what publishes
  the second half compares nothing with the first. `HalvesInv` carries the match
  from step to step of a process that is alone: who may read, on the list, then
  among age's recipients, then in the file (`DeployKeyHalves`); the pair in
  memory, then staged, then half of it moved (`CertHalves`). The second conjunct
  is why a key left over from a failed command does no harm: each command
  ends with the key it has itself in memory, or reads the file again.
* `ShippedIsTheTag` (`PackagedIsTheTag`). `ReleaseInv` follows a build: the tag was
  verified and still is what it was (a tag that exists is only moved given
  "moved"), the worktree and its date come from it, and from `cargo` to the copy the
  shared cache holds this commit's program under this commit's name, which needs
  that nobody else is building (`Built`). What lies on the desk of a process that was
  killed satisfies the same (`Packed`), so it need not be cleaned up.

All rest on one lemma per module that says that its steps move one terminal's
process among that module's commands (`Moves`): what a module does not touch follows
from it.

`WorkstationUpProofs` continues with what `up` does on the node and at the providers,
and with the types:

* `UpServesWhatIsWanted` (`QuietIsServed`). Nothing in the empty plan speaks of the node:
  it compares the digests of the state file with the secrets. `UpInv`, which holds
  however many run, ties a run to the node while it works (`Along`): it has the
  present secrets, what its step pushed is on the node, and a daemon's file that was
  never recorded is still among its steps, which come before the rebuild
  (`First` takes them by rank); with `Fed`, that what is recorded is there, a rebuild
  finds its files. `UpAlone` holds for one run at a time and says what a digest is worth:
  what is recorded and unchanged has been read (`RecordedIsRead`), what needs no
  push is on the node (`WantedIsThere`, unless a change is taken back), a built
  configuration runs what its tables ask for (`BuiltRuns`), the active color has the
  recorded environment (`RecordedIsServed`, unless releases cross the run), and so
  will the color of a release on its way (`ReleaseServes`). `Alone` holds the same
  between a push, the restart and the record.
* `UpTakesNothing` (`NothingTakenAway`), an action property. `ProvidersInv` says what may
  be in a process's hands at a step (`Supplied`): a rule goes out with all rules that
  were read (`RuleWork`); a firewall is created first, changed, and activated last
  (`FirewallWork`); anything else is one request that touches neither. `UpOpens` adds,
  for one run at a time and a dashboard nobody touches, that a port which should be open
  is open or has its request still to come (`Opens`), in whatever prefix of the
  requests was answered, repeated or lost; this is what makes it safe to activate the
  firewall last.
* `WorkstationTypes` (`TypeOK`) of all six modules. A process is at a step of a command
  of its scenario (`Placed`); the types of the secrets need that what a
  process holds in memory has the types of the file it will be written to
  (`SecretsTypes`); the others are part of the invariants above.

`RerunsSettle` is liveness, and stays with TLC.

## 8. Not modelled

* Parsing and validating `stack.toml`, Cargo.toml and secrets: sequential checks
  that change nothing; the models have their outcome, a refusal.
* `status`, `colors`, `releases`, `logs` and the smoke test: they read.
* Two runs of `up` over one state file, and `up` while a rollout runs: nothing in
  the code claims that either works.
* Pagination of lists and the waiting time between retries.
* The backup script, the alert handler and the watchdog on the node: each keeps one
  time stamp, and what they promise is about hours.
* Templates, copied once into a repository.
