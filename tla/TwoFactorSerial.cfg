SPECIFICATION Spec
CONSTANTS
  Reqs = {p1}
  Challenges = {c1, c2}
  Ops = {"register", "login", "setup", "verify", "sensitive", "reset"}
  Demo = TRUE
  MaxPeriod = 4
  MaxSecrets = 2
  OTPMaxAttempts = 2
  LockoutPeriods = 1
  SetupPeriods = 1
  LoginPeriods = 1
  NoCred = NoCred
  NoChallenge = NoChallenge
INVARIANTS NoCodeReplayed GuessesBounded ChallengeSingleUse
PROPERTY EnrolmentIsPermanent
