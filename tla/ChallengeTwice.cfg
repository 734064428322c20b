SPECIFICATION Spec
CONSTANTS
  Reqs = {p1, p2}
  Challenges = {c1}
  Ops = {"register", "login", "setup", "verify"}
  Demo = FALSE
  MaxPeriod = 2
  MaxSecrets = 1
  OTPMaxAttempts = 2
  LockoutPeriods = 1
  SetupPeriods = 2
  LoginPeriods = 2
  NoCred = NoCred
  NoChallenge = NoChallenge
INVARIANT ChallengeSingleUse
