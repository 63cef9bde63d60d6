--------------------------- MODULE EmailOtpProofs ---------------------------
(***************************************************************************)
(* OtpInv is inductive for any number of addresses, codes and concurrent   *)
(* requests, and a code that cannot be accepted any more stays so.         *)
(***************************************************************************)
EXTENDS EmailOtp, FiniteSetTheorems, TLAPS

LEMMA InitOtp ==
  ASSUME Init
  PROVE  OtpInv
  <1>1. TypeOK
    BY DEF Init, TypeOK, OtpRow, ReqRow, Idle
  <1>2. HoldsItsRow
    BY DEF Init, HoldsItsRow, Idle
  <1>3. \A o \in Code : Guessing(o) = {}
    BY DEF Init, Guessing, Idle
  <1>4. GuessesAreBounded
    BY <1>3, ReqAssumption, FS_EmptySet, FS_CardinalityType
       DEF GuessesAreBounded, Init
  <1>5. QED
    BY <1>1, <1>2, <1>4 DEF OtpInv

\* The slots an action moves: only r's.
LEMMA TypeStep ==
  ASSUME TypeOK, HoldsItsRow, [Next]_vars
  PROVE  TypeOK' /\ HoldsItsRow'
  <1> USE DEF TypeOK, OtpRow, ReqRow
  <1>1. ASSUME NEW r \in Req, NEW e \in Email, SendLookup(r, e)
        PROVE  TypeOK' /\ HoldsItsRow'
    BY <1>1 DEF SendLookup, Go, HoldsItsRow
  <1>2. ASSUME NEW r \in Req, NEW o \in Code, CreateOTP(r, o)
        PROVE  TypeOK' /\ HoldsItsRow'
    <2> DEFINE e == req[r].email
    <2>1. e \in Email
      BY <1>2 DEF CreateOTP, HoldsItsRow
    <2>2. /\ otps' \in [Code -> OtpRow] /\ req' \in [Req -> ReqRow]
          /\ otps'[o].st = "live"
          /\ \A p \in Code : p # o => otps'[p] = otps[p]
      BY <1>2, <2>1 DEF CreateOTP, Done, Idle
    <2>3. newest' \in [Email -> SUBSET Code]
          /\ \A a \in Email : newest'[a] \subseteq newest[a] \cup {o}
      <3>1. newest' = [newest EXCEPT ![e] = {o}]
            \/ newest' = [newest EXCEPT ![e] = newest[e] \cup {o}]
        BY <1>2 DEF CreateOTP
      <3> HIDE DEF e
      <3>2. CASE newest' = [newest EXCEPT ![e] = {o}]
        BY <2>1, <3>2
      <3>3. CASE newest' = [newest EXCEPT ![e] = newest[e] \cup {o}]
        BY <2>1, <3>3
      <3>4. QED
        BY <3>1, <3>2, <3>3
    <2>4. \A q \in Req : req'[q] = Idle \/ req'[q] = req[q]
      BY <1>2 DEF CreateOTP, Done
    <2>5. \A p \in Code : otps[p].st # "none" => otps'[p].st # "none"
      BY <2>2
    <2>6. \A a \in Email : \A p \in newest'[a] : otps'[p].st # "none"
      BY <2>2, <2>3, <2>5 DEF HoldsItsRow
    <2>7. HoldsItsRow'
      <3> HIDE DEF TypeOK, OtpRow, ReqRow
      <3>1. HoldsItsRow
        OBVIOUS
      <3>2. \A q \in Req : req'[q].pc # "idle" => req'[q] = req[q]
        BY <2>4 DEF Idle
      <3>3. \A q \in Req : req'[q].pc \in {"wrong", "right"} =>
              req'[q].code \in Code /\ otps'[req'[q].code].st # "none"
        BY <2>5, <3>1, <3>2 DEF HoldsItsRow
      <3>4. QED
        BY <2>6, <3>1, <3>2, <3>3 DEF HoldsItsRow
    <2>8. QED
      BY <2>2, <2>3, <2>7
  <1>3. ASSUME NEW r \in Req, NEW e \in Email, VerifyLookup(r, e)
        PROVE  TypeOK' /\ HoldsItsRow'
    <2>1. PICK o \in newest[e], pc \in {"wrong", "right"} : Go(r, pc, e, o)
      BY <1>3 DEF VerifyLookup
    <2>2. o \in Code /\ otps[o].st # "none"
      BY <2>1 DEF HoldsItsRow
    <2>3. UNCHANGED <<otps, newest>>
      BY <1>3 DEF VerifyLookup
    <2>4. QED
      BY <2>1, <2>2, <2>3 DEF Go, HoldsItsRow
  <1>4. ASSUME NEW r \in Req, IncrementAttempts(r) \/ MarkAsUsed(r) \/ Abort(r)
        PROVE  TypeOK' /\ HoldsItsRow'
    <2>1. req' \in [Req -> ReqRow]
          /\ \A q \in Req : req'[q] = Idle \/ req'[q] = req[q]
      <3>1. req' = [req EXCEPT ![r] = Idle] /\ Idle \in ReqRow
        BY <1>4 DEF IncrementAttempts, MarkAsUsed, Abort, Done, Idle
      <3>2. QED
        BY <3>1
    <2>2. otps' \in [Code -> OtpRow]
          /\ \A p \in Code : otps'[p].st = otps[p].st
      <3>1. CASE IncrementAttempts(r)
        BY <3>1 DEF IncrementAttempts, HoldsItsRow
      <3>2. CASE MarkAsUsed(r)
        <4> DEFINE c == req[r].code
        <4>1. c \in Code /\ otps' = [otps EXCEPT ![c].used = TRUE]
          BY <3>2 DEF MarkAsUsed, HoldsItsRow
        <4>2. [otps[c] EXCEPT !.used = TRUE] \in OtpRow
              /\ [otps[c] EXCEPT !.used = TRUE].st = otps[c].st
          <5>1. otps[c] \in OtpRow
            BY <4>1
          <5> HIDE DEF c
          <5>2. QED
            BY <5>1
        <4> HIDE DEF c
        <4>3. \A p \in Code : otps'[p].st = otps[p].st
          BY <4>1, <4>2
        <4>4. QED
          BY <4>1, <4>2, <4>3
      <3>3. CASE Abort(r)
        BY <3>3 DEF Abort
      <3>4. QED
        BY <1>4, <3>1, <3>2, <3>3
    <2>3. UNCHANGED newest
      BY <1>4 DEF IncrementAttempts, MarkAsUsed, Abort
    <2>4. QED
      BY <2>1, <2>2, <2>3 DEF HoldsItsRow, Idle
  <1>5. ASSUME NEW o \in Code, Expires(o)
        PROVE  TypeOK' /\ HoldsItsRow'
    <2>1. otps' = [otps EXCEPT ![o].st = "expired"]
          /\ UNCHANGED <<newest, req>>
      BY <1>5 DEF Expires
    <2>2. otps' \in [Code -> OtpRow]
          /\ otps'[o].st = "expired"
          /\ \A p \in Code : p # o => otps'[p] = otps[p]
      <3>1. otps[o] \in OtpRow
        OBVIOUS
      <3>2. [otps[o] EXCEPT !.st = "expired"] \in OtpRow
        BY <3>1
      <3>3. QED
        BY <2>1, <3>2
    <2>3. QED
      BY <2>1, <2>2 DEF HoldsItsRow
  <1>6. CASE UNCHANGED vars
    BY <1>6 DEF vars, HoldsItsRow
  <1>7. QED
    BY <1>1, <1>2, <1>3, <1>4, <1>5, <1>6 DEF Next, Request

LEMMA GuessesFinite ==
  ASSUME NEW S \in SUBSET Req
  PROVE  IsFiniteSet(S) /\ Cardinality(S) \in Nat
         /\ Cardinality(Req) \in Nat /\ Cardinality(S) <= Cardinality(Req)
  BY ReqAssumption, FS_Subset, FS_CardinalityType

\* A step that admits no wrong guess at o and counts none.
LEMMA FewerGuesses ==
  ASSUME NEW o \in Code, GuessesAreBounded, TypeOK,
         otps'[o].attempts = otps[o].attempts,
         Guessing(o)' \subseteq Guessing(o)
  PROVE  otps'[o].attempts + Cardinality(Guessing(o)')
           <= 2 + Cardinality(Req)
  <1>1. Guessing(o) \in SUBSET Req
    BY DEF Guessing
  <1>2. Cardinality(Guessing(o)') <= Cardinality(Guessing(o))
        /\ Cardinality(Guessing(o)') \in Nat
        /\ Cardinality(Guessing(o)) \in Nat
    BY <1>1, GuessesFinite, FS_Subset, FS_CardinalityType
  <1>3. otps[o].attempts \in Nat /\ Cardinality(Req) \in Nat
    BY <1>1, GuessesFinite DEF TypeOK, OtpRow
  <1>4. QED
    BY <1>2, <1>3 DEF GuessesAreBounded

LEMMA BoundStep ==
  ASSUME OtpInv, [Next]_vars
  PROVE  GuessesAreBounded'
  <1>1. TypeOK /\ HoldsItsRow /\ GuessesAreBounded
    BY DEF OtpInv
  <1> SUFFICES ASSUME NEW o \in Code
               PROVE  otps'[o].attempts + Cardinality(Guessing(o)')
                        <= 2 + Cardinality(Req)
    BY DEF GuessesAreBounded
  <1>2. ASSUME NEW r \in Req, NEW e \in Email, VerifyLookup(r, e)
        PROVE  otps'[o].attempts + Cardinality(Guessing(o)')
                 <= 2 + Cardinality(Req)
    <2>1. PICK p \in newest[e], pc \in {"wrong", "right"} :
            Verifiable(p) /\ Go(r, pc, e, p)
      BY <1>2 DEF VerifyLookup
    <2>2. UNCHANGED otps /\ otps[o].attempts \in Nat
      BY <1>1, <1>2 DEF VerifyLookup, TypeOK, OtpRow
    <2>3. CASE p = o
      <3>1. otps[o].attempts <= 2
        BY <2>1, <2>2, <2>3 DEF Verifiable, AttemptsLeft
      <3>2. Guessing(o)' \in SUBSET Req
        BY DEF Guessing
      <3>3. QED
        BY <2>2, <3>1, <3>2, GuessesFinite
    <2>4. CASE p # o
      <3>1. Guessing(o)' \subseteq Guessing(o)
        BY <1>1, <2>1, <2>4 DEF Go, Guessing, TypeOK
      <3>2. QED
        BY <1>1, <2>2, <3>1, FewerGuesses
    <2>5. QED
      BY <2>3, <2>4
  <1>3. ASSUME NEW r \in Req, IncrementAttempts(r)
        PROVE  otps'[o].attempts + Cardinality(Guessing(o)')
                 <= 2 + Cardinality(Req)
    <2>1. req' = [req EXCEPT ![r] = Idle] /\ req[r].pc = "wrong"
          /\ otps' = [otps EXCEPT ![req[r].code].attempts = @ + 1]
      BY <1>3 DEF IncrementAttempts, Done
    <2>2. CASE req[r].code = o
      <3>1. otps'[o].attempts = otps[o].attempts + 1
            /\ otps[o].attempts \in Nat
        BY <1>1, <2>1, <2>2 DEF TypeOK, OtpRow
      <3>2. Guessing(o)' = Guessing(o) \ {r} /\ r \in Guessing(o)
        BY <1>1, <2>1, <2>2 DEF Guessing, TypeOK, Idle
      <3>3. Guessing(o) \in SUBSET Req
        BY DEF Guessing
      <3>4. Cardinality(Guessing(o)') = Cardinality(Guessing(o)) - 1
        BY <3>2, <3>3, GuessesFinite, FS_RemoveElement
      <3>5. QED
        BY <1>1, <3>1, <3>3, <3>4, GuessesFinite DEF GuessesAreBounded
    <2>3. CASE req[r].code # o
      <3>1. otps'[o].attempts = otps[o].attempts
        BY <1>1, <2>1, <2>3 DEF TypeOK
      <3>2. Guessing(o)' \subseteq Guessing(o)
        BY <1>1, <2>1 DEF Guessing, TypeOK, Idle
      <3>3. QED
        BY <1>1, <3>1, <3>2, FewerGuesses
    <2>4. QED
      BY <2>2, <2>3
  <1>4. ASSUME NEW r \in Req, NEW p \in Code, CreateOTP(r, p)
        PROVE  otps'[o].attempts + Cardinality(Guessing(o)')
                 <= 2 + Cardinality(Req)
    <2>1. req' = [req EXCEPT ![r] = Idle] /\ Free(p)
          /\ otps' = [otps EXCEPT ![p] = [st |-> "live",
                        email |-> req[r].email, used |-> FALSE,
                        attempts |-> 0]]
      BY <1>4 DEF CreateOTP, Done
    <2>2. Guessing(o)' \subseteq Guessing(o)
      BY <1>1, <2>1 DEF Guessing, TypeOK, Idle
    <2>3. CASE p = o
      <3>1. otps'[o].attempts = 0
        BY <1>1, <2>1, <2>3 DEF TypeOK
      <3>2. Guessing(o)' \in SUBSET Req
        BY DEF Guessing
      <3>3. QED
        BY <3>1, <3>2, GuessesFinite
    <2>4. CASE p # o
      BY <1>1, <2>1, <2>2, <2>4, FewerGuesses DEF TypeOK
    <2>5. QED
      BY <2>3, <2>4
  <1>5. ASSUME NEW r \in Req,
               MarkAsUsed(r) \/ Abort(r) \/ \E e \in Email : SendLookup(r, e)
        PROVE  otps'[o].attempts + Cardinality(Guessing(o)')
                 <= 2 + Cardinality(Req)
    <2>1. otps'[o].attempts = otps[o].attempts
      BY <1>1, <1>5 DEF MarkAsUsed, Abort, SendLookup, TypeOK, OtpRow
    <2>2. Guessing(o)' \subseteq Guessing(o)
      BY <1>1, <1>5 DEF MarkAsUsed, Abort, SendLookup, Go, Done, Guessing,
                        TypeOK, Idle
    <2>3. QED
      BY <1>1, <2>1, <2>2, FewerGuesses
  <1>6. CASE UNCHANGED vars \/ \E p \in Code : Expires(p)
    <2>1. otps'[o].attempts = otps[o].attempts
      BY <1>1, <1>6 DEF Expires, TypeOK, OtpRow, vars
    <2>2. Guessing(o)' = Guessing(o)
      BY <1>6 DEF Expires, Guessing, vars
    <2>3. QED
      BY <1>1, <2>1, <2>2, FewerGuesses
  <1>7. QED
    BY <1>2, <1>3, <1>4, <1>5, <1>6 DEF Next, Request

(***************************************************************************)
(* OtpInv, and with it GuessesAreBounded, holds in every reachable state,  *)
(* whatever SendOTP and VerifyOTP requests race for the newest code.       *)
(***************************************************************************)
THEOREM OtpInvariant == Spec => []OtpInv
  <1>1. Init => OtpInv
    BY InitOtp
  <1>2. OtpInv /\ [Next]_vars => OtpInv'
    BY TypeStep, BoundStep DEF OtpInv
  <1>3. QED
    BY <1>1, <1>2, PTL DEF Spec

(***************************************************************************)
(* However many requests race, VerifyOTP admits at most two wrong guesses  *)
(* at a code more than there are requests in flight.                       *)
(***************************************************************************)
THEOREM GuessBound == Spec => []GuessesAreBounded
  <1>1. OtpInv => GuessesAreBounded
    BY DEF OtpInv
  <1>2. QED
    BY <1>1, OtpInvariant, PTL

\* A step that leaves a code's row no more verifiable and its place among
\* the newest no better.
LEMMA DeadStep ==
  ASSUME OtpInv, Next, NEW o \in Code, otps[o].st # "none", Acceptable(o)'
  PROVE  Acceptable(o)
  <1>1. TypeOK /\ HoldsItsRow /\ TypeOK'
    BY TypeStep DEF OtpInv
  <1>2. PICK e \in Email : o \in newest'[e] /\ Verifiable(o)'
    BY DEF Acceptable
  <1>3. ASSUME otps'[o].st = "live" => otps[o].st = "live",
               otps[o].used => otps'[o].used,
               otps[o].attempts <= otps'[o].attempts,
               o \in newest[e]
        PROVE  Acceptable(o)
    <2>1. otps'[o].st = "live" /\ ~otps'[o].used /\ otps'[o].attempts < 3
      BY <1>2 DEF Verifiable, Active, AttemptsLeft
    <2>2. e \in Email /\ otps[o].attempts \in Nat
      BY <1>1 DEF TypeOK, OtpRow
    <2>3. otps'[o].attempts \in Nat
      BY <1>1 DEF TypeOK, OtpRow
    <2>4. otps[o].attempts < 3
      BY <1>3, <2>1, <2>2, <2>3
    <2>5. QED
      BY <1>3, <2>1, <2>2, <2>4
         DEF Acceptable, Verifiable, Active, AttemptsLeft
  <1>4. ASSUME NEW r \in Req, NEW p \in Code, CreateOTP(r, p)
        PROVE  Acceptable(o)
    <2>1. p # o
      BY <1>4 DEF CreateOTP, Free
    <2>2. otps'[o] = otps[o] /\ otps[o].attempts \in Nat
      BY <1>1, <1>4, <2>1 DEF CreateOTP, TypeOK, OtpRow
    <2>3. \A a \in Email : newest'[a] \subseteq newest[a] \cup {p}
      BY <1>1, <1>4 DEF CreateOTP, TypeOK
    <2>4. QED
      BY <1>2, <1>3, <2>1, <2>2, <2>3
  <1>5. ASSUME NEW r \in Req,
               \/ IncrementAttempts(r) \/ MarkAsUsed(r) \/ Abort(r)
               \/ \E a \in Email : SendLookup(r, a) \/ VerifyLookup(r, a)
        PROVE  Acceptable(o)
    <2>1. UNCHANGED newest
      BY <1>5 DEF IncrementAttempts, MarkAsUsed, Abort, SendLookup,
                  VerifyLookup
    <2>2. /\ otps'[o].st = otps[o].st
          /\ otps[o].used => otps'[o].used
          /\ otps[o].attempts <= otps'[o].attempts
      BY <1>1, <1>5 DEF IncrementAttempts, MarkAsUsed, Abort, SendLookup,
                        VerifyLookup, TypeOK, OtpRow
    <2>3. QED
      BY <1>2, <1>3, <2>1, <2>2
  <1>6. ASSUME NEW p \in Code, Expires(p)
        PROVE  Acceptable(o)
    <2>1. /\ otps'[o].st = "live" => otps[o].st = "live"
          /\ otps'[o].used = otps[o].used
          /\ otps'[o].attempts = otps[o].attempts
          /\ otps[o].attempts \in Nat
          /\ UNCHANGED newest
      BY <1>1, <1>6 DEF Expires, TypeOK, OtpRow
    <2>2. QED
      BY <1>2, <1>3, <2>1
  <1>7. QED
    BY <1>4, <1>5, <1>6 DEF Next, Request

(***************************************************************************)
(* A code that was used, expired, guessed away or replaced is never        *)
(* accepted again, for every number of addresses, codes and requests.      *)
(***************************************************************************)
THEOREM DeadCodes == Spec => DeadCodesStayDead
  <1>1. OtpInv /\ [Next]_vars =>
          [\A o \in Code : otps[o].st # "none" /\ ~Acceptable(o)
                             => ~Acceptable(o)']_vars
    BY DeadStep
  <1>2. QED
    BY <1>1, OtpInvariant, PTL DEF Spec, DeadCodesStayDead
=============================================================================
