SPECIFICATION Spec
CONSTANTS
  Reqs = {p1, p2}
  Challenges = {c1}
  Ops = {"register", "login", "setup", "sensitive"}
  Demo = FALSE
  MaxPeriod = 1
  MaxSecrets = 1
  OTPMaxAttempts = 2
  LockoutPeriods = 1
  SetupPeriods = 2
  LoginPeriods = 2
  NoCred = NoCred
  NoChallenge = NoChallenge
INVARIANT GuessesBounded
