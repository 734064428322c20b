SPECIFICATION Spec
CONSTANTS
  Flows = {f1}
  Reqs = {p1}
  MaxOTPAttempts = 2
  MaxTokens = 1
  MaxFailures = 1
  NoFlow = NoFlow
INVARIANT ConsumedIsComplete
CHECK_DEADLOCK FALSE
