SPECIFICATION LifecycleSpec
CONSTANTS
  Users = {u1}
  Sids = {s1, s2}
  Reqs = {p1, p2}
  Ops = {"login", "delete"}
  NoUser = NoUser
  NoSid = NoSid
  NumServices = 1
  Workers = {w1}
  MaxFailures = 0
  MaxAborts = 0
INVARIANT GoneAccountHasNothing
PROPERTY DeletionIsTotal
