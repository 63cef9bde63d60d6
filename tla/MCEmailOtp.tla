----------------------------- MODULE MCEmailOtp -----------------------------
(* Instances of EmailOtp for TLC.                                           *)
EXTENDS EmailOtp, TLC

Symmetry ==
  Permutations(Email) \cup Permutations(Code) \cup Permutations(Req)
=============================================================================
