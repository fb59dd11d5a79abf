SPECIFICATION Spec
CONSTANTS
  Literals = {"api", "users"}
  Methods = {"GET", "POST"}
  DefaultMethod = "GET"
  Base <- MCBase
  BaseRooted = TRUE
INVARIANTS
  UpgradesKeepThePlace
  RulesDueWithTheirInputs
  GatesAgree
  GatesProject
  GraphsOrderThemselves
  DeclaredCallsPass
  MergesAreBacked
  PromptsLeadOn
  WiringsComeOff
CHECK_DEADLOCK FALSE
