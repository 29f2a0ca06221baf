SPECIFICATION Spec
CONSTANTS
  Terminals = {t1, t2}
  Scenarios <- AllScenarios
  People = {you, colleague}
  You = you
  MaxValue = 2
  MaxMinted = 2
  Releases = {1, 2}
  Commits = {1, 2, 3}
  Declares <- CargoVersion
  Builds <- CargoBinary
  MaxVersion = 2
  MaxTries = 2
  ForeignRules = {"hold", "other"}
  t1 = t1
  t2 = t2
  you = you
  colleague = colleague
INVARIANTS TypeOK BundleIsWhole NothingLeftBehind QuietIsServed PackagedIsTheTag
PROPERTIES MatchingHalves NothingTakenAway RerunsSettle
CHECK_DEADLOCK FALSE
