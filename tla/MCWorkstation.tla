---------------------------- MODULE MCWorkstation ----------------------------
(***************************************************************************)
(* Scenarios of Workstation for TLC.  Each names the commands that are     *)
(* used and what may happen meanwhile, and bounds nothing else.            *)
(***************************************************************************)
EXTENDS Workstation

Scenario(commands, given) ==
  [commands |-> commands, given |-> given, terminals |-> {CHOOSE t \in Terminals : TRUE}]

Overlap(commands, given) ==
  [commands |-> commands, given |-> given, terminals |-> Terminals]

SecretsScenarios ==
  { Overlap({"unset", "up"}, {}),
    Overlap({"set", "unset"}, {}),
    Overlap({"init"}, {}),
    Scenario({"set", "unset", "up"}, {"fail", "kill", "reboot"}),
    Scenario({"edit", "up"}, {"fail", "kill"}),
    Scenario({"set", "up"}, {"halves"}),
    Scenario({"edit", "unset"}, {"halves"}),
    Scenario({"init", "rotate", "ci-setup"}, {"fail", "kill", "lists"}),
    Scenario({"edit", "init"}, {"macos", "fail"}) }

ReleaseScenarios ==
  { Scenario({"deploy"}, {"fail", "tarball"}),
    Scenario({"deploy"}, {"fail", "moved"}),
    Scenario({"deploy", "init"}, {"lists"}),
    Scenario({"deploy", "init"}, {"fail", "macos"}),
    Scenario({"deploy"}, {"fail", "renamed"}),
    Overlap({"deploy"}, {}) }

EnvScenarios ==
  { Scenario({"up-env"}, {"app", "storage", "release", "fail"}),
    Scenario({"up-env"}, {"app", "release", "flip"}),
    Scenario({"up-env"}, {"logs", "alert", "fail"}),
    Scenario({"up-env"}, {"backup", "logs", "fail"}) }

RevertScenarios == { Scenario({"up-env"}, {"app", "fail", "revert"}) }

ProvidersScenarios ==
  { Scenario({"up-providers"}, {"keys", "fail"}),
    Scenario({"up-providers"}, {"keys", "dns", "fail"}),
    Scenario({"up-providers"}, {"firewall", "fail", "others"}),
    Scenario({"up-providers"}, {"r2", "fail", "others", "race"}),
    Scenario({"up-providers"}, {"r2", "fail", "shared", "omits", "others"}),
    Scenario({"up-providers"}, {"dns", "fail", "others"}) }

AllScenarios == SecretsScenarios \cup ReleaseScenarios \cup EnvScenarios
                  \cup RevertScenarios \cup ProvidersScenarios

\* Commit 2 renames the binary, commit 3 corrects release 2.
CargoVersion(c) == IF c = 3 THEN 2 ELSE c
CargoBinary(c) == IF c = 2 THEN "server" ELSE "app"

=============================================================================
