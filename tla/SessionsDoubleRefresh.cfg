SPECIFICATION Spec
CONSTANTS
  Users = {u1}
  Sids = {s1, s2, s3}
  Reqs = {p1, p2}
  Ops = {"login", "refresh"}
  NoUser = NoUser
  NoSid = NoSid
INVARIANT TokenRotatesOnce
