SPECIFICATION Spec
CONSTANTS
  Users = {u1}
  Sids = {s1, s2}
  Reqs = {p1, p2}
  Ops = {"login"}
  NoUser = NoUser
  NoSid = NoSid
INVARIANT SingleSession
