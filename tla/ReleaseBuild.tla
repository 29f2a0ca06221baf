---------------------------- MODULE ReleaseBuild ----------------------------
(***************************************************************************)
(* `deploy <version>` up to the moment it ships (release.py): the tag is   *)
(* verified, checked out into a worktree of its own and compiled there,    *)
(* but with one cargo target directory for all releases of the project;    *)
(* binary and files are packed, and the deploy key is decrypted into RAM   *)
(* for the ship phase, which Rollout models node by node.                  *)
(*                                                                         *)
(* A file is the commit it comes from.  Given "renamed", stack.toml names  *)
(* a binary that only some commits build; given "moved", a tag is moved    *)
(* after it was made; with two terminals, two deploys run on one machine.  *)
(***************************************************************************)
EXTENDS Secrets

CONSTANTS Releases,     \* versions
          Commits,      \* the commits one may tag
          Declares(_),  \* the version in a commit's Cargo.toml
          Builds(_)     \* the binary a commit builds

ASSUME ReleaseBuildAssumption ==
  /\ {Releases, Commits} \subseteq SUBSET (Nat \ {0})
  /\ \A c \in Commits : Declares(c) \in Releases

VARIABLES tags,         \* tags[v]: the commit v is the tag of, or 0
          cache,        \* cache[b]: the commit that binary b was built from
          desk,         \* desk[t]: the release the process of t works at
          shipped       \* shipped[v]: the tarball last built and shipped as v

releaseBuildVars == <<tags, cache, desk, shipped>>

Default == "app"        \* the project's name, which the server looks for
Binaries == {Builds(c) : c \in Commits} \cup {Default}

\* source: the files, from the worktree; mtime: the commit that dates them;
\* binary: the program.  What a tarball that was given holds is not known.
Nothing == [source |-> 0, mtime |-> 0, binary |-> 0]
NoRelease == [version |-> 0, bundle |-> Nothing, tarball |-> Nothing]
Sources == Commits \cup {0}
Tarballs == [source : Sources, mtime : Sources, binary : Sources]

ReleaseBuildTypeOK ==
  /\ tags \in [Releases -> Sources]
  /\ cache \in [Binaries -> Sources]
  /\ desk \in [Terminals -> [version : Releases \cup {0}, bundle : Tarballs, tarball : Tarballs]]
  /\ shipped \in [Releases -> Tarballs]

ReleaseBuildInit ==
  /\ tags = [v \in Releases |-> 0]
  /\ cache = [b \in Binaries |-> 0]
  /\ desk = [t \in Terminals |-> NoRelease]
  /\ shipped = [v \in Releases |-> Nothing]

\* git tag, and git tag --force.
Tag(v, c) ==
  /\ "deploy" \in scenario.commands /\ ~calm
  /\ tags[v] = 0 \/ (Given("moved") /\ tags[v] # c)
  /\ tags' = [tags EXCEPT ![v] = c]
  /\ UNCHANGED <<run, ramVars, secretsVars, cache, desk, shipped>>

\* verify_version: the tag exists, and its Cargo.toml declares that version.
VerifyVersion(t) ==
  /\ Typed(t, "deploy")
  /\ \E v \in Releases :
        /\ tags[v] # 0 /\ Declares(tags[v]) = v
        /\ desk' = [desk EXCEPT ![t] = [NoRelease EXCEPT !.version = v]]
  /\ Enter(t, "deploy", "timestamp")
  /\ UNCHANGED <<ramVars, secretsVars, tags, cache, shipped>>

\* --skip-build --tarball: nothing is verified but the form of the version.
DeployTarball(t) ==
  /\ Typed(t, "deploy") /\ Given("tarball")
  /\ \E v \in Releases : desk' = [desk EXCEPT ![t] = [NoRelease EXCEPT !.version = v]]
  /\ Enter(t, "deploy", "identity")
  /\ UNCHANGED <<ramVars, secretsVars, tags, cache, shipped>>

Works(t, at) == At(t, {"deploy"}, at)
Tagged(t) == tags[desk[t].version]

\* tag_commit_timestamp: the tag is looked up again.
TagCommitTimestamp(t) ==
  /\ Works(t, "timestamp")
  /\ desk' = [desk EXCEPT ![t].bundle.mtime = Tagged(t)]
  /\ Go(t, "worktree")
  /\ UNCHANGED <<ramVars, secretsVars, tags, cache, shipped>>

\* project_from_cargo_toml: stack.toml's name wins; else the commit's, which
\* must be the one the server looks for.
BinaryOf(c) == IF Given("renamed") THEN Default ELSE Builds(c)
ProjectOf(c) == Given("renamed") \/ Builds(c) = Default

\* release_worktree and read_project: and again.
ReleaseWorktree(t) ==
  /\ Works(t, "worktree")
  /\ IF ProjectOf(Tagged(t))
     THEN desk' = [desk EXCEPT ![t].bundle.source = Tagged(t)] /\ Go(t, "cargo")
     ELSE desk' = [desk EXCEPT ![t] = NoRelease] /\ Return(t)
  /\ UNCHANGED <<ramVars, secretsVars, tags, cache, shipped>>

\* A mutant: cargo's exit code is not looked at.
CargoBuildUnchecked(t) ==
  /\ Works(t, "cargo")
  /\ cache' \in {cache, [cache EXCEPT ![Builds(desk[t].bundle.source)] = desk[t].bundle.source]}
  /\ Go(t, "css")
  /\ UNCHANGED <<ramVars, secretsVars, tags, desk, shipped>>

\* build: cargo puts what this commit builds into the shared directory ...
CargoBuild(t) ==
  /\ Works(t, "cargo")
  /\ cache' = [cache EXCEPT ![Builds(desk[t].bundle.source)] = desk[t].bundle.source]
  /\ Go(t, "css")
  /\ UNCHANGED <<ramVars, secretsVars, tags, desk, shipped>>

\* ... npm takes its minutes over the CSS, in the worktree ...
BuildCss(t) ==
  /\ Works(t, "css")
  /\ Go(t, "copy")
  /\ UNCHANGED <<ramVars, secretsVars, tags, cache, desk, shipped>>

\* ... and only then the binary is looked for, by name.
CopyBinary(t) ==
  /\ Works(t, "copy")
  /\ LET binary == cache[BinaryOf(desk[t].bundle.source)]
     IN  IF binary # 0
         THEN desk' = [desk EXCEPT ![t].bundle.binary = binary] /\ Go(t, "package")
         ELSE desk' = [desk EXCEPT ![t] = NoRelease] /\ Return(t)
  /\ UNCHANGED <<ramVars, secretsVars, tags, cache, shipped>>

\* package: the bundle, dated by the tag, as the tarball of the run's own
\* directory; the worktree is removed.
Package(t) ==
  /\ Works(t, "package")
  /\ desk' = [desk EXCEPT ![t].tarball = desk[t].bundle]
  /\ Go(t, "identity")
  /\ UNCHANGED <<ramVars, secretsVars, tags, cache, shipped>>

\* deploy_identity: the operator's key or the agent's, if the project has none;
\* a deploy key that cannot be decrypted is a refusal.
DeployIdentity(t) ==
  /\ Works(t, "identity")
  /\ IF deployKey = 0
     THEN Go(t, "ship") /\ desk' = desk
     ELSE IF You \in readers["deploy.age"]
     THEN Go(t, "ram") /\ desk' = desk
     ELSE Return(t) /\ desk' = [desk EXCEPT ![t] = NoRelease]
  /\ UNCHANGED <<ramVars, secretsVars, tags, cache, shipped>>

EndDeploy(t, raising) ==
  /\ IF ram[t].secret THEN LeaveRam(t, raising) ELSE Return(t) /\ ram' = ram
  /\ desk' = [desk EXCEPT ![t] = NoRelease]

\* ship: the tarball goes to the nodes under the version's name.
Ship(t) ==
  /\ Works(t, "ship")
  /\ shipped' = IF desk[t].tarball = Nothing THEN shipped
                ELSE [shipped EXCEPT ![desk[t].version] = desk[t].tarball]
  /\ EndDeploy(t, FALSE)
  /\ UNCHANGED <<secretsVars, tags, cache>>

\* git, cargo, npm or a node fails, or Ctrl-C: worktree, work directory and
\* RAM directory are removed; what cargo had built stays in the cache.
DeployFails(t) ==
  /\ Raises(t)
  /\ run[t].command = "deploy"
  /\ run[t].at \in {"timestamp", "worktree", "cargo", "css", "copy", "package", "identity", "ship"}
  /\ IF run[t].at = "ship"
     THEN EndDeploy(t, TRUE)
     ELSE Return(t) /\ desk' = [desk EXCEPT ![t] = NoRelease] /\ ram' = ram
  /\ cache' \in {cache} \cup
       {[cache EXCEPT ![Builds(c)] = c] : c \in {desk[t].bundle.source} \cap (IF run[t].at = "cargo" THEN Commits ELSE {})}
  /\ UNCHANGED <<secretsVars, tags, shipped>>

ReleaseBuildStep(t) ==
  \/ VerifyVersion(t) \/ DeployTarball(t) \/ TagCommitTimestamp(t) \/ ReleaseWorktree(t)
  \/ CargoBuild(t) \/ BuildCss(t) \/ CopyBinary(t) \/ Package(t) \/ DeployIdentity(t) \/ Ship(t) \/ DeployFails(t)

ReleaseBuildNext ==
  \/ \E t \in Terminals : ReleaseBuildStep(t)
  \/ \E v \in Releases, c \in Commits : Tag(v, c)

-----------------------------------------------------------------------------

\* What is shipped as a version holds the files of its tag and the date of its
\* tag, unless the tag is moved, whatever else this machine builds at the time:
\* the worktree is the run's own.  The program in it comes from the same
\* commit, whatever earlier runs that failed left in the cache; but the cache
\* is the project's, so that holds only as long as no two deploys overlap and
\* the binary has the name the tag builds it under (release.py:461).
PackagedIsTheTag ==
  \A v \in Releases : shipped[v].source # 0 =>
    /\ Free({"moved"}) => shipped[v].source = tags[v] /\ shipped[v].mtime = tags[v]
    /\ ~Overlapping /\ Free({"renamed"}) => shipped[v].binary = shipped[v].source
    /\ Free({"moved"}) => Declares(shipped[v].source) = v

=============================================================================
