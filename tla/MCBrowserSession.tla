------------------------- MODULE MCBrowserSession -------------------------
(* Instance of BrowserSession for TLC.                                      *)
EXTENDS BrowserSession, TLC

\* No action compares one tab with another.
Symmetry == Permutations(Tab)
===========================================================================
