SPECIFICATION Spec
CHECK_DEADLOCK FALSE
CONSTANTS
  User = {u1}
  Client = {c1}
  Primary = c2
  Session = {s1}
  Code = {k1}
  Token = {t1, t2}
  Req = {r1}
  None = None
  GrantSets <- BothGrants
  StatusInput = {"inactive"}

INVARIANT ArchivedUserHasNoSession
