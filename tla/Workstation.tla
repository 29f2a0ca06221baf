----------------------------- MODULE Workstation -----------------------------
(***************************************************************************)
(* The workstation as a whole: the commands of Secrets, ReleaseBuild,      *)
(* NodeEnv and Providers in the terminals of Commands, over one RAM        *)
(* directory per process and one project.  `up` is in three of them, which *)
(* share no state but the process: the certificate ("up"), the environment *)
(* files ("up-env") and the providers ("up-providers").                    *)
(***************************************************************************)
EXTENDS ReleaseBuild, NodeEnv, Providers

vars == <<commandVars, ramVars, secretsVars, releaseBuildVars, nodeEnvVars, providersVars>>

\* Where a process can be: at the prompt, or at a step of RamDir, Secrets,
\* ReleaseBuild, NodeEnv or Providers.
Places ==
  {"prompt"}
    \cup {"ram", "format", "editor", "ship", "keygen", "wipe", "detach"}
    \cup {"encrypt", "replace", "publish", "read key", "gh", "mint",
          "stage key", "stage cert", "move key", "move cert"}
    \cup {"timestamp", "worktree", "cargo", "css", "copy", "package", "identity"}
    \cup {"push", "restart", "color", "record"}
    \cup {"ask", "write"}

TypeOK ==
  /\ run \in [Terminals -> [command : scenario.commands \cup {"none"}, at : Places]]
  /\ RamTypeOK /\ SecretsTypeOK /\ ReleaseBuildTypeOK /\ NodeEnvTypeOK /\ ProvidersTypeOK

Init ==
  /\ CommandsInit /\ RamInit /\ SecretsInit /\ ReleaseBuildInit
  /\ NodeEnvInit /\ ProvidersInit

\* From here on nothing fails and nobody changes anything: the secrets are
\* complete, and all that is left is to run the command again, if it is one
\* that is meant to be.
CalmDown ==
  /\ ~calm /\ Complete
  /\ scenario.commands \cap {"up-env", "up-providers"} # {}
  /\ calm' = TRUE
  /\ UNCHANGED <<scenario, run, ramVars, secretsVars, releaseBuildVars, nodeEnvVars, providersVars>>

OnSecrets   == UNCHANGED <<scenario, calm, releaseBuildVars, nodeEnvVars, providersVars>>
OnRelease   == UNCHANGED <<scenario, calm, nodeEnvVars, providersVars>>
OnNodeEnv   == UNCHANGED <<scenario, calm, ramVars, secretsVars, releaseBuildVars, providersVars>>
OnProviders == UNCHANGED <<scenario, calm, ramVars, secretsVars, releaseBuildVars, nodeEnvVars>>

Next ==
  \/ SecretsNext /\ OnSecrets
  \/ ReleaseBuildNext /\ OnRelease
  \/ NodeEnvNext /\ OnNodeEnv
  \/ ProvidersNext /\ OnProviders
  \/ CalmDown

UpEnv == \E t \in Terminals : EnvStep(t) /\ OnNodeEnv
UpProviders == \E t \in Terminals : (ProvidersStep(t) \/ Refused(t)) /\ OnProviders

\* A process that runs goes on, an operator whose `up` has something to do
\* runs it again, and a release deploy that has the lock ends.
Fairness ==
  /\ WF_vars(UpEnv)
  /\ WF_vars(FlipColor /\ OnNodeEnv)
  /\ WF_vars(UpProviders)

Spec == Init /\ [][Next]_vars /\ Fairness

-----------------------------------------------------------------------------

EnvSettled == Plan(LocalFacts) = {} /\ NoneRuns
ProvidersSettled == ProvidersPlan = <<>> /\ NoneRuns

\* "a re-run after any failure must converge" (docs/plan-01-stack-up.md:23):
\* once nothing fails any more, `up` run again and again has nothing left to
\* do, whatever lost answers, interrupted steps and the operator's changes
\* left: the digests are all recorded in the end, and what the providers hold
\* is what the plan asks for.  The ends of Stuck are the exceptions.
RerunsSettle ==
  /\ calm /\ "up-env" \in scenario.commands ~> EnvSettled
  /\ calm /\ "up-providers" \in scenario.commands ~> ProvidersSettled \/ Stuck

=============================================================================
