SPECIFICATION Spec
CONSTANTS
  Users = {u1}
  Sids = {s1}
  Reqs = {p1}
  Ops = {"login", "logout"}
  NoUser = NoUser
  NoSid = NoSid
INVARIANT AckedLogoutIsDead
