------------------------------ MODULE EmailOtp ------------------------------
(***************************************************************************)
(* One-time passwords sent by e-mail: service/otp_service.go and           *)
(* repository/otp_repository.go.                                           *)
(*                                                                         *)
(* SendOTP and VerifyOTP read the newest code of an e-mail address and act *)
(* on it in a second statement, outside any transaction: other requests    *)
(* for the address may run in between.  Rows of otps are never deleted, so *)
(* a code drawn once cannot be inserted again.                             *)
(***************************************************************************)
EXTENDS Naturals, FiniteSets

CONSTANTS
  Email,  \* the addresses
  Code,   \* the six-digit codes, the primary key of otps
  Req,    \* slots for requests in flight
  None

ASSUME ReqAssumption == IsFiniteSet(Req)

ASSUME NoneAssumption == None \notin Email \cup Code

VARIABLES
  otps,    \* table otps
  newest,  \* the codes of an address that share its greatest created_at
  req      \* requests in flight

vars == <<otps, newest, req>>

OtpRow == [st: {"none", "live", "expired"}, email: Email \cup {None},
           used: BOOLEAN, attempts: Nat]

ReqRow == [pc: {"idle", "create", "wrong", "right"},
           email: Email \cup {None}, code: Code \cup {None}]

TypeOK ==
  /\ otps \in [Code -> OtpRow]
  /\ newest \in [Email -> SUBSET Code]
  /\ req \in [Req -> ReqRow]

Idle == [pc |-> "idle", email |-> None, code |-> None]

Init ==
  /\ otps = [o \in Code |-> [st |-> "none", email |-> None, used |-> FALSE,
                             attempts |-> 0]]
  /\ newest = [e \in Email |-> {}]
  /\ req = [r \in Req |-> Idle]

Go(r, pc, e, o) ==
  req' = [req EXCEPT ![r] = [pc |-> pc, email |-> e, code |-> o]]
Done(r) == req' = [req EXCEPT ![r] = Idle]

---------------------------------------------------------------------------
(* SendOTP.  An unused and unexpired newest code is reused, whatever its   *)
(* attempts; whether the e-mail leaves changes no state.                   *)
Active(o) == otps[o].st = "live" /\ ~otps[o].used

\* Nothing is written when the code is reused: only the other case leads on.
SendLookup(r, e) ==
  /\ req[r].pc = "idle"
  /\ newest[e] = {} \/ \E o \in newest[e] : ~Active(o)
  /\ Go(r, "create", e, None)
  /\ UNCHANGED <<otps, newest>>

\* The primary key refuses a code that has a row; no row is ever deleted.
FreeOnceExpired(o) == otps[o].st # "live"
Free(o) == otps[o].st = "none"

\* created_at has a resolution of one second: the row joins the newest ones
\* or becomes the newest.
CreateOTP(r, o) ==
  LET e == req[r].email IN
  /\ req[r].pc = "create"
  /\ Free(o)
  /\ otps' = [otps EXCEPT ![o] = [st |-> "live", email |-> e, used |-> FALSE,
                                  attempts |-> 0]]
  /\ \/ newest' = [newest EXCEPT ![e] = {o}]
     \/ /\ \A p \in newest[e] : otps[p].st = "live"
        /\ newest' = [newest EXCEPT ![e] = @ \cup {o}]
  /\ Done(r)

---------------------------------------------------------------------------
(* VerifyOTP.                                                              *)
AnyAttempts(o) == TRUE
AttemptsLeft(o) == otps[o].attempts < 3

Verifiable(o) == Active(o) /\ AttemptsLeft(o)

\* ORDER BY created_at DESC LIMIT 1, the checks, and the comparison.
VerifyLookup(r, e) ==
  /\ req[r].pc = "idle"
  /\ \E o \in newest[e] :
       /\ Verifiable(o)
       /\ \E pc \in {"wrong", "right"} : Go(r, pc, e, o)
  /\ UNCHANGED <<otps, newest>>

\* UPDATE otps SET attempts = attempts + 1 WHERE otp = ?
IncrementAttempts(r) ==
  /\ req[r].pc = "wrong"
  /\ otps' = [otps EXCEPT ![req[r].code].attempts = @ + 1]
  /\ Done(r)
  /\ UNCHANGED newest

\* UPDATE otps SET used_at = NOW() WHERE otp = ?, whoever was first.
MarkAsUsed(r) ==
  /\ req[r].pc = "right"
  /\ otps' = [otps EXCEPT ![req[r].code].used = TRUE]
  /\ Done(r)
  /\ UNCHANGED newest

\* A statement that errs (a code drawn before, for one) or a lost request.
Abort(r) ==
  /\ req[r].pc # "idle"
  /\ Done(r)
  /\ UNCHANGED <<otps, newest>>

\* Five minutes.
Expires(o) ==
  /\ otps[o].st = "live"
  /\ otps' = [otps EXCEPT ![o].st = "expired"]
  /\ UNCHANGED <<newest, req>>

---------------------------------------------------------------------------
Request(r) ==
  \/ \E e \in Email : SendLookup(r, e) \/ VerifyLookup(r, e)
  \/ \E o \in Code : CreateOTP(r, o)
  \/ IncrementAttempts(r) \/ MarkAsUsed(r) \/ Abort(r)

Next == (\E r \in Req : Request(r)) \/ (\E o \in Code : Expires(o))

Spec == Init /\ [][Next]_vars

---------------------------------------------------------------------------
\* The wrong guesses at o that were admitted and are not counted yet.
Guessing(o) == {r \in Req : req[r].pc = "wrong" /\ req[r].code = o}

(***************************************************************************)
(* Concurrent guesses are admitted on a count that is not theirs, yet only *)
(* so many: beyond the two that leave an attempt, a code can be guessed    *)
(* wrong at most once for every request that can be in flight at a time.   *)
(***************************************************************************)
GuessesAreBounded ==
  \A o \in Code :
    otps[o].attempts + Cardinality(Guessing(o)) <= 2 + Cardinality(Req)

\* A verification that begins now may accept the code.
Acceptable(o) == \E e \in Email : o \in newest[e] /\ Verifiable(o)

(***************************************************************************)
(* A code that was used, expired, guessed away or replaced by a newer one  *)
(* never comes back: no later SendOTP, whatever verification or second     *)
(* SendOTP it races with, makes VerifyOTP accept it again.                 *)
(***************************************************************************)
DeadCodesStayDead ==
  [][\A o \in Code : otps[o].st # "none" /\ ~Acceptable(o)
                       => ~Acceptable(o)']_vars

(***************************************************************************)
(* The comment on VerifyOTP: codes are checked respecting retry limits, so *)
(* no code is guessed wrong more than three times.                         *)
(***************************************************************************)
RetryLimit == \A o \in Code : otps[o].attempts <= 3

(***************************************************************************)
(* The inductive invariant.  A request that will update a code holds one   *)
(* that is in the table; the newest codes of an address are in it too.     *)
(***************************************************************************)
HoldsItsRow ==
  /\ \A r \in Req : req[r].pc \in {"wrong", "right"} =>
       req[r].code \in Code /\ otps[req[r].code].st # "none"
  /\ \A r \in Req : req[r].pc # "idle" => req[r].email \in Email
  /\ \A e \in Email : \A o \in newest[e] : otps[o].st # "none"

OtpInv == TypeOK /\ HoldsItsRow /\ GuessesAreBounded
=============================================================================
