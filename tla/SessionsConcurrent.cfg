SPECIFICATION Spec
CONSTANTS
  Users = {u1}
  Sids = {s1, s2}
  Reqs = {p1, p2}
  Ops = {"login", "refresh", "logout", "change", "reset", "delete"}
  NoUser = NoUser
  NoSid = NoSid
SYMMETRY Symmetry
INVARIANTS TypeOK CleanupOnlyDeadSessions CompletedLogoutIsFinal
PROPERTY SessionEndsForCause
