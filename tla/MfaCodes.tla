------------------------------ MODULE MfaCodes ------------------------------
(***************************************************************************)
(* The codes of a second factor as the server tries them (mfa_service.go): *)
(* the six digits of an authenticator app, good as long as the app is      *)
(* connected, and the backup codes, each good once.  A backup code is      *)
(* found by one statement and deleted by another, whose error is dropped,  *)
(* and several requests do so at the same time.                            *)
(***************************************************************************)
EXTENDS AccountData

VARIABLES
  apps,    \* the rows of type totp, by the app that shows their digits
  codes,   \* the rows of type backup_code
  req,     \* the requests
  over,    \* what users were told is over: codes accepted, apps removed
  slipped  \* the codes whose deletion failed unnoticed

vars == <<apps, codes, req, over, slipped>>

Types == {"totp", "backup_code"}

\* A request: the statement it comes to, its code, and whether that code was
\* over when the request was made.
NoRequest == [pc |-> "none", type |-> "totp", code |-> None, late |-> FALSE]

TypeOK ==
  /\ apps \subseteq Keys /\ codes \subseteq Keys
  /\ req \in [Requests -> [pc : {"none", "fetch", "delete", "remove", "accepted",
                              "removed"},
                        type : Types, code : Keys \cup {None},
                        late : BOOLEAN]]
  /\ over \subseteq Types \X Keys /\ slipped \subseteq Keys

Init ==
  /\ apps \in SUBSET Keys /\ codes \in SUBSET Keys
  /\ req = [r \in Requests |-> NoRequest]
  /\ over = {} /\ slipped = {}

Comes(r, pc) == req' = [req EXCEPT ![r].pc = pc]
Ends(r) == req' = [req EXCEPT ![r] = NoRequest]

\* A request with a code; eight characters are a backup code, six an app's.
Starts(r, pc, type, k) ==
  /\ req[r] = NoRequest
  /\ req' = [req EXCEPT ![r] = [pc |-> pc, type |-> type, code |-> k,
                                late |-> <<type, k>> \in over]]
  /\ UNCHANGED <<apps, codes, over, slipped>>

PostVerifyMFA(r) == \E type \in Types, k \in Keys : Starts(r, "fetch", type, k)

\* An app is removed with its id from the list, where backup codes are not.
DeleteAuthenticator(r) == \E k \in Keys : Starts(r, "remove", "totp", k)

Matches(type, k) == k \in (IF type = "totp" THEN apps ELSE codes)

AfterMatchAccepts(type) == "accepted"
AfterMatch(type) == IF type = "totp" THEN "accepted" ELSE "delete"

\* VerifyCode: the rows of the type, compared one by one.
Fetch(r) ==
  /\ req[r].pc = "fetch"
  /\ IF Matches(req[r].type, req[r].code) THEN Comes(r, AfterMatch(req[r].type))
     ELSE Ends(r)
  /\ UNCHANGED <<apps, codes, over, slipped>>

\* Deleting the row that matched: an error, and a row already gone, are not
\* noticed.
DeleteCode(r) ==
  /\ req[r].pc = "delete"
  /\ \/ codes' = codes \ {req[r].code} /\ UNCHANGED slipped
     \/ slipped' = slipped \cup {req[r].code} /\ UNCHANGED codes
  /\ Comes(r, "accepted")
  /\ UNCHANGED <<apps, over>>

RemoveAuthenticator(r) ==
  /\ req[r].pc = "remove"
  /\ apps' = apps \ {req[r].code}
  /\ Comes(r, "removed")
  /\ UNCHANGED <<codes, over, slipped>>

\* A statement failed, or the process stopped.
Fails(r) ==
  /\ req[r].pc \in {"fetch", "delete", "remove"}
  /\ Ends(r)
  /\ UNCHANGED <<apps, codes, over, slipped>>

\* The user learns that the code was accepted, or the app removed.
Answer(r) ==
  /\ req[r].pc \in {"accepted", "removed"}
  /\ over' = IF req[r].pc = "removed" \/ req[r].type = "backup_code"
             THEN over \cup {<<req[r].type, req[r].code>>} ELSE over
  /\ Ends(r)
  /\ UNCHANGED <<apps, codes, slipped>>

Next ==
  \E r \in Requests : \/ PostVerifyMFA(r) \/ DeleteAuthenticator(r) \/ Fetch(r)
                   \/ DeleteCode(r) \/ RemoveAuthenticator(r) \/ Fails(r) \/ Answer(r)

Spec == Init /\ [][Next]_vars

---------------------------------------------------------------------------
\* Once the user was told that a backup code was accepted, or an app removed,
\* no request made later is accepted with it, unless the deletion failed
\* unnoticed: whatever the requests of the same code that were under way did.
OverIsRefused ==
  \A r \in Requests :
    req[r].pc = "accepted" /\ req[r].late => req[r].code \in slipped
=============================================================================
