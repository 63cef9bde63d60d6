SPECIFICATION Spec
CONSTANTS
  Email = {e1}
  Code = {c1, c2, c3}
  Req = {r1, r2, r3}
  None = None
SYMMETRY Symmetry
INVARIANTS
  OtpInv
  GuessesAreBounded
PROPERTY DeadCodesStayDead
