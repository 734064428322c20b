SPECIFICATION Spec
CONSTANTS
  Flows = {f1, f2}
  Reqs = {p1, p2}
  MaxOTPAttempts = 2
  MaxTokens = 2
  MaxFailures = 1
  NoFlow = NoFlow
SYMMETRY Symmetry
INVARIANTS TypeOK ResetNeedsVerifiedOTP ConsumedAfterChange FlowResetsOnce FlowGuessesBounded
CHECK_DEADLOCK FALSE
