CONSTANT Tab = {a, b}
SPECIFICATION Spec
SYMMETRY Symmetry
INVARIANTS
  ChallengeHoldsAccess
  SignedOutStaysOut
