SPECIFICATION Spec
CONSTANTS
  None = None
  Unset = ""
  Types = {"Ready", "Degraded"}
  Reasons = {"Ready", "Failed"}
  HTTPStatus = {403, 429}
  Failures <- SomeFailures
  Codes = {"RateLimit"}
  MaxErrors = 2
  MaxLayers = 2
  MaxTime = 1
  MaxWrites = 3
CHECK_DEADLOCK FALSE
INVARIANTS
  IInv
  ConditionsTellTheLatest
  RecentErrorsTellTheFailures
