SPECIFICATION Spec
CONSTANTS
  Reqs = {p1, p2}
  Challenges = {c1}
  Ops = {"register", "login", "setup", "sensitive", "reset"}
  Demo = FALSE
  MaxPeriod = 2
  MaxSecrets = 1
  OTPMaxAttempts = 1
  LockoutPeriods = 1
  SetupPeriods = 2
  LoginPeriods = 2
  NoCred = NoCred
  NoChallenge = NoChallenge
PROPERTY ResetSparesLockout
