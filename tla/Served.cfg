SPECIFICATION ServedSpec
CONSTANTS
  Media = {m1, m2}
  Reqs = {p1, p2}
  MaxFailures = 1
  NoMedia = NoMedia
  minPasswordLength = 3
  otpLength = 3
  maxNameLength = 2
  MaxProbe = 4
  Variables = {"DATABASE_URL", "REDIS_ADDR"}
INVARIANTS
  TypeOK OnlyAvatarsAreDeleted AvatarIsStored NoOrphanedAvatar
  RequestsHaveStores CleanStopCutsNothing
  OTPGateIsExact
PROPERTY SignalStops
