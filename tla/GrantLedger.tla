---------------------------- MODULE GrantLedger ----------------------------
(***************************************************************************)
(* What the authorization-code grant promises, apart from how sessions,    *)
(* rows and requests bring it about: a code is redeemed at most once, a    *)
(* redeemed code stands behind at most one refresh token at a time, each   *)
(* replacement is a token never seen before, and a code that was closed    *)
(* stays closed.                                                           *)
(***************************************************************************)
CONSTANTS Code, Token, None

VARIABLES
  phase,  \* of each code
  head,   \* the refresh token a code stands behind, or None
  spent   \* refresh tokens that are no longer accepted

vars == <<phase, head, spent>>

Phases == {"none", "pending", "redeemed", "active", "closed"}

Init ==
  /\ phase = [k \in Code |-> "none"]
  /\ head = [k \in Code |-> None]
  /\ spent = {}

Fresh(t) == t \notin spent /\ \A k \in Code : head[k] # t

Issue(k) ==
  /\ phase[k] = "none"
  /\ phase' = [phase EXCEPT ![k] = "pending"]
  /\ UNCHANGED <<head, spent>>

Redeem(k) ==
  /\ phase[k] = "pending"
  /\ phase' = [phase EXCEPT ![k] = "redeemed"]
  /\ UNCHANGED <<head, spent>>

Activate(k, t) ==
  /\ phase[k] = "redeemed"
  /\ Fresh(t)
  /\ phase' = [phase EXCEPT ![k] = "active"]
  /\ head' = [head EXCEPT ![k] = t]
  /\ UNCHANGED spent

Replace(k, t) ==
  /\ phase[k] = "active"
  /\ Fresh(t)
  /\ head' = [head EXCEPT ![k] = t]
  /\ spent' = spent \cup {head[k]}
  /\ UNCHANGED phase

\* Expiry, logout, reuse, refusal, deletion: any set of codes at once.
Close(K) ==
  /\ \A k \in K : phase[k] \in {"pending", "redeemed", "active"}
  /\ phase' = [k \in Code |-> IF k \in K THEN "closed" ELSE phase[k]]
  /\ head' = [k \in Code |-> IF k \in K THEN None ELSE head[k]]
  /\ spent' = spent \cup {head[k] : k \in {j \in K : phase[j] = "active"}}

Next ==
  \/ \E k \in Code : Issue(k) \/ Redeem(k)
  \/ \E k \in Code, t \in Token : Activate(k, t) \/ Replace(k, t)
  \/ \E K \in SUBSET Code : Close(K)

Spec == Init /\ [][Next]_vars
===========================================================================
