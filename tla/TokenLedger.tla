---------------------------- MODULE TokenLedger ----------------------------
(* TokenLifecycle implements GrantLedger.                                    *)
EXTENDS TokenLifecycle

Heads(k) == {t \in Token : tok[t].root = k /\ Usable(t)}

\* What the tables and the requests in flight say of a code.
PhaseOf(k) ==
  IF Heads(k) # {} THEN "active"
  ELSE IF \E r \in Req : Exchanging(r, k) THEN "redeemed"
  ELSE IF code[k].st = "live" /\ ~code[k].used THEN "pending"
  ELSE IF code[k].st = "none" THEN "none"
  ELSE "closed"

HeadOf(k) ==
  IF Heads(k) = {} THEN None ELSE CHOOSE t \in Token : t \in Heads(k)

phases == [k \in Code |-> PhaseOf(k)]
heads == [k \in Code |-> HeadOf(k)]
retired == {t \in Token : tok[t].st # "none" /\ ~Usable(t)}

Ledger == INSTANCE GrantLedger WITH
  phase <- phases, head <- heads, spent <- retired

(***************************************************************************)
(* Every behaviour of the tables, with its races between exchanges,        *)
(* rotations, revocations and the janitor, is a behaviour of the ledger.   *)
(***************************************************************************)
ImplementsLedger == Ledger!Spec
===========================================================================
