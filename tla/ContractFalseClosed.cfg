SPECIFICATION Spec
CONSTANTS
  Literals = {"api", "users"}
  Methods = {"GET", "POST"}
  DefaultMethod = "GET"
  Base <- MCBase
  BaseRooted = TRUE
INVARIANTS NoFalseClose
CHECK_DEADLOCK FALSE
