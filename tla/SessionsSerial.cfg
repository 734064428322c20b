SPECIFICATION Spec
CONSTANTS
  Users = {u1}
  Sids = {s1, s2, s3}
  Reqs = {p1}
  Ops = {"login", "refresh", "logout", "change", "reset", "delete"}
  NoUser = NoUser
  NoSid = NoSid
SYMMETRY Symmetry
INVARIANTS SingleSession LiveTokenIsActive TokenRotatesOnce EndedSessionsStayDead PendingAccountHasNoLiveToken
