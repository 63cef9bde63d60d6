-------------------------- MODULE MCTokenLifecycle --------------------------
(* Instances of TokenLifecycle for TLC.                                      *)
EXTENDS TokenLedger, TLC

\* Every client keeps both grants: the lists do not change.
BothGrants == {{"authorization_code", "refresh_token"}}

\* An administrator may take refresh_token away and give it back.
ChangingGrants ==
  {{"authorization_code", "refresh_token"}, {"client_credentials"}}

Symmetry == Permutations(Code) \cup Permutations(Token) \cup Permutations(Req)
===========================================================================
