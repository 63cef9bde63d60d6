SPECIFICATION Spec
CONSTANTS
  Email = {e1}
  Code = {c1}
  Req = {r1, r2}
  None = None
INVARIANT RetryLimit
