SPECIFICATION Spec
CONSTANTS
  Reqs = {p1, p2}
  Challenges = {c1}
  Ops = {"register", "login", "setup", "verify", "reset"}
  Demo = TRUE
  MaxPeriod = 1
  MaxSecrets = 2
  OTPMaxAttempts = 1
  LockoutPeriods = 1
  SetupPeriods = 2
  LoginPeriods = 2
  NoCred = NoCred
  NoChallenge = NoChallenge
SYMMETRY Symmetry
INVARIANTS TypeOK EnabledSecretProven EnabledXorSetupToken
