SPECIFICATION Spec
CONSTANTS
  Flows = {f1}
  Reqs = {p1, p2}
  MaxOTPAttempts = 2
  MaxTokens = 2
  MaxFailures = 0
  NoFlow = NoFlow
PROPERTY ConsumedIsFinal
CHECK_DEADLOCK FALSE
