------------------------- MODULE SecondFactorProofs -------------------------
(***************************************************************************)
(* What is over is refused, for any number of requests, codes and          *)
(* challenges, within MCAccount: C is MfaCodes, K is PasskeyCeremonies.    *)
(*                                                                         *)
(* A backup code that was accepted has no row left, unless its deletion    *)
(* failed unnoticed; a challenge that was accepted is in neither of its    *)
(* two places, unless Redis failed to delete it, and no request that is    *)
(* under way puts it back.                                                 *)
(***************************************************************************)
EXTENDS MCAccount, Naturals, TLAPS

---------------------------------------------------------------------------
(***************************************************************************)
(* The codes.                                                              *)
(***************************************************************************)

\* Of what the user was told is over, no row is left.
CodesAreGone ==
  \A k \in Keys :
    /\ <<"totp", k>> \in over => k \notin apps
    /\ <<"backup_code", k>> \in over => k \notin codes \/ k \in slipped

\* Nor of what he is about to be told; and a request that came too late does
\* not get that far.
CodesInFlight ==
  \A r \in Requests :
    /\ req[r].pc # "none" => req[r].code \in Keys
    /\ req[r].late => <<req[r].type, req[r].code>> \in over
    /\ req[r].pc \in {"remove", "removed"} => req[r].type = "totp"
    /\ req[r].pc = "delete" => req[r].type = "backup_code"
    /\ req[r].pc = "removed" => req[r].code \notin apps
    /\ req[r].pc = "accepted" /\ req[r].type = "backup_code" =>
         req[r].code \notin codes \/ req[r].code \in slipped
    /\ req[r].pc \in {"delete", "accepted"} /\ req[r].late =>
         req[r].code \in slipped

CodesInv == C!TypeOK /\ CodesAreGone /\ CodesInFlight

LEMMA CodesInvInit == C!Init => CodesInv
  BY DEF C!Init, C!NoRequest, C!TypeOK, C!Types, CodesInv, CodesAreGone, CodesInFlight

LEMMA CodesInvStep ==
  ASSUME CodesInv, [C!Next]_vars
  PROVE  CodesInv'
  <1> USE DEF CodesInv, CodesAreGone, CodesInFlight, C!TypeOK, C!Types, C!NoRequest
  <1>1. ASSUME NEW r \in Requests, NEW pc \in {"fetch", "remove"}, NEW type \in C!Types,
               NEW k \in Keys, pc = "remove" => type = "totp", C!Starts(r, pc, type, k)
        PROVE  CodesInv'
    BY <1>1 DEF C!Starts
  <1>2. ASSUME NEW r \in Requests, C!Fetch(r)
        PROVE  CodesInv'
    <2>1. CASE ~C!Matches(req[r].type, req[r].code)
      <3>1. req' = [req EXCEPT ![r] = C!NoRequest]
        BY <1>2, <2>1 DEF C!Fetch, C!Matches, C!Ends
      <3>2. QED
        BY <1>2, <3>1 DEF C!Fetch
    <2>2. CASE /\ C!Matches(req[r].type, req[r].code)
               /\ req[r].type = "totp"
      <3>1. ~req[r].late /\ req' = [req EXCEPT ![r].pc = "accepted"]
        BY <1>2, <2>2 DEF C!Fetch, C!Matches, C!AfterMatch, C!Comes
      <3>2. QED
        BY <1>2, <2>2, <3>1 DEF C!Fetch
    <2>3. CASE /\ C!Matches(req[r].type, req[r].code)
               /\ req[r].type = "backup_code"
      <3>1. /\ req[r].late => req[r].code \in slipped
            /\ req' = [req EXCEPT ![r].pc = "delete"]
        BY <1>2, <2>3 DEF C!Fetch, C!Matches, C!AfterMatch, C!Comes
      <3>2. QED
        BY <1>2, <2>3, <3>1 DEF C!Fetch
    <2>4. QED
      BY <1>2, <2>1, <2>2, <2>3 DEF C!Fetch
  <1>3. ASSUME NEW r \in Requests, C!DeleteCode(r)
        PROVE  CodesInv'
    BY <1>3 DEF C!DeleteCode, C!Comes
  <1>4. ASSUME NEW r \in Requests, C!RemoveAuthenticator(r)
        PROVE  CodesInv'
    BY <1>4 DEF C!RemoveAuthenticator, C!Comes
  <1>5. ASSUME NEW r \in Requests, C!Fails(r)
        PROVE  CodesInv'
    BY <1>5 DEF C!Fails, C!Ends
  <1>6. ASSUME NEW r \in Requests, C!Answer(r)
        PROVE  CodesInv'
    BY <1>6 DEF C!Answer, C!Ends
  <1>7. CASE UNCHANGED vars
    BY <1>7 DEF vars
  <1>8. QED
    BY <1>1, <1>2, <1>3, <1>4, <1>5, <1>6, <1>7
       DEF C!Next, C!PostVerifyMFA, C!DeleteAuthenticator

---------------------------------------------------------------------------
(***************************************************************************)
(* The ceremonies.                                                         *)
(***************************************************************************)
Beginning(r) == req[r].pc \in {"set", "store"}
Answering(r) == req[r].pc \notin {"none", "set", "store"}

\* A challenge is kept under its own kind.
StoresSorted ==
  \A n \in K!Kinds :
    /\ redis[n] # None => drawn[redis[n]] = n
    /\ memory[n] # None => drawn[memory[n]] = n

\* A challenge that is being stored was sent to nobody yet.
BeginsFresh ==
  \A r \in Requests : Beginning(r) =>
    /\ req[r].of \in Challenges /\ req[r].of \notin told
    /\ drawn[req[r].of] = req[r].kind
    /\ \A q \in Requests : Beginning(q) /\ req[q].of = req[r].of => q = r

\* One that was sent, and so one that is answered, has a kind.
ToldDrawn == \A c \in told : drawn[c] # None

\* One that is answered was sent, under its own kind; it is accepted only if it
\* fits.
AnswersTold ==
  \A r \in Requests : Answering(r) =>
    /\ req[r].of \in told
    /\ drawn[req[r].of] = req[r].kind
    /\ req[r].pc \in {"save", "accepted"} => req[r].fits

\* What a request was too late for is its own challenge or its own passkey.
LateWasOver ==
  \A r \in Requests, c \in Challenges : Answering(r) =>
    /\ <<"challenge", c>> \in req[r].late =>
         c = req[r].of /\ <<"challenge", c>> \in over
    /\ <<"passkey", c>> \in req[r].late =>
         c = req[r].by /\ req[r].kind = "_auth" /\ <<"passkey", c>> \in over

\* What was accepted is in neither place, unless Redis failed to delete it.
ChallengesAreGone ==
  \A c \in Challenges : <<"challenge", c>> \in over =>
    /\ c \in told
    /\ <<"challenge", c>> \notin slipped =>
         \A n \in K!Kinds : redis[n] # c /\ memory[n] # c

PasskeysAreGone ==
  \A k \in Challenges :
    <<"passkey", k>> \in over /\ <<"passkey", k>> \notin slipped => passkeys[k] = 0

\* A request that read its challenge deletes it in one place after the other.
DeletesBoth ==
  \A r \in Requests : req[r].fits /\ <<"challenge", req[r].of>> \notin slipped =>
    /\ req[r].pc \in {"forget", "save", "accepted"} => redis[req[r].kind] # req[r].of
    /\ req[r].pc \in {"save", "accepted"} => memory[req[r].kind] # req[r].of

\* A request that came too late reads nothing that fits.
LateDoNotFit ==
  \A r \in Requests, c \in Challenges : req[r].fits =>
    /\ req[r].pc \in {"unset", "forget", "save", "accepted"} =>
         (<<"challenge", c>> \in req[r].late => <<"challenge", c>> \in slipped)
    /\ Answering(r) /\ req[r].pc # "user" =>
         (<<"passkey", c>> \in req[r].late => <<"passkey", c>> \in slipped)

CeremonyInv ==
  /\ K!TypeOK /\ StoresSorted /\ BeginsFresh /\ ToldDrawn /\ AnswersTold
  /\ LateWasOver /\ ChallengesAreGone /\ PasskeysAreGone /\ DeletesBoth
  /\ LateDoNotFit

LEMMA CeremonyInvInit == K!Init => CeremonyInv
  BY AccountAssumption
  DEF K!Init, K!TypeOK, K!NoRequest, K!Kinds, K!Things, K!MaxRows, CeremonyInv,
      StoresSorted, BeginsFresh, ToldDrawn, AnswersTold, LateWasOver,
      ChallengesAreGone, PasskeysAreGone, DeletesBoth, LateDoNotFit, Beginning,
      Answering

---------------------------------------------------------------------------
PCs == {"none", "set", "store", "user", "get", "unset", "forget", "save",
        "accepted"}
Row == [pc : PCs, kind : K!Kinds, of : Challenges \cup {None},
        by : Challenges \cup {None}, late : SUBSET K!Things, fits : BOOLEAN]

Others(r) == \A q \in Requests \ {r} : req'[q] = req[q]

\* Request r comes to pc with the same ceremony.
Moves(r, pc) ==
  /\ req' \in [Requests -> Row] /\ Others(r)
  /\ req'[r].pc = pc /\ req'[r].kind = req[r].kind
  /\ req'[r].of = req[r].of /\ req'[r].by = req[r].by /\ req'[r].late = req[r].late

Stops(r) == req' \in [Requests -> Row] /\ Others(r) /\ req'[r].pc = "none"

LEMMA MovesWith ==
  ASSUME K!TypeOK, NEW r \in Requests, NEW pc \in PCs, NEW b \in BOOLEAN,
         req' = [req EXCEPT ![r] = [req[r] EXCEPT !.pc = pc, !.fits = b]]
  PROVE  Moves(r, pc) /\ req'[r].fits = b
  <1>1. req \in [Requests -> Row]
    BY DEF K!TypeOK, Row, PCs
  <1> DEFINE row == [req[r] EXCEPT !.pc = pc, !.fits = b]
  <1>2. /\ row \in Row /\ row.pc = pc /\ row.fits = b /\ row.kind = req[r].kind
        /\ row.of = req[r].of /\ row.by = req[r].by /\ row.late = req[r].late
    BY <1>1 DEF Row
  <1> HIDE DEF row
  <1>3. QED
    BY <1>1, <1>2 DEF Moves, Others, row

LEMMA Comes ==
  ASSUME K!TypeOK, NEW r \in Requests, NEW pc \in PCs, K!Comes(r, pc)
  PROVE  Moves(r, pc) /\ req'[r].fits = req[r].fits
  <1>1. req[r] \in Row
    BY DEF K!TypeOK, Row, PCs
  <1>2. req[r].fits \in BOOLEAN /\ [req[r] EXCEPT !.pc = pc]
                                    = [req[r] EXCEPT !.pc = pc, !.fits = req[r].fits]
    BY <1>1 DEF Row
  <1>3. req' = [req EXCEPT ![r] = [req[r] EXCEPT !.pc = pc, !.fits = req[r].fits]]
    BY <1>2 DEF K!Comes
  <1>4. QED
    BY <1>2, <1>3, MovesWith

LEMMA Ends ==
  ASSUME K!TypeOK, NEW r \in Requests, K!Ends(r)
  PROVE  Stops(r)
  <1>1. K!NoRequest \in Row /\ K!NoRequest.pc = "none"
    BY DEF K!NoRequest, Row, PCs, K!Kinds
  <1>2. req \in [Requests -> Row]
    BY DEF K!TypeOK, Row, PCs
  <1>3. QED
    BY <1>1, <1>2 DEF K!Ends, Stops, Others

LEMMA Distinct == None \notin Challenges /\ None \notin K!Kinds
  BY AccountAssumption DEF AccountAssumption, K!Kinds

\* A step of one request that only reads, or deletes, or notes a slip.
LEMMA TakingBack ==
  ASSUME CeremonyInv, NEW r \in Requests, UNCHANGED <<drawn, told, over, passkeys>>,
         redis' \in [K!Kinds -> Challenges \cup {None}],
         memory' \in [K!Kinds -> Challenges \cup {None}],
         \A n \in K!Kinds : redis'[n] \in {redis[n], None},
         \A n \in K!Kinds : memory'[n] \in {memory[n], None},
         slipped \subseteq slipped', slipped' \subseteq K!Things,
         \/ Stops(r)
         \/ /\ Answering(r) /\ \E pc \in PCs \ {"none", "set", "store"} : Moves(r, pc)
            /\ req'[r].pc \in {"save", "accepted"} => req'[r].fits
            /\ req'[r].fits /\ <<"challenge", req[r].of>> \notin slipped' =>
                 /\ req'[r].pc \in {"forget", "save", "accepted"} =>
                      redis'[req[r].kind] # req[r].of
                 /\ req'[r].pc \in {"save", "accepted"} =>
                      memory'[req[r].kind] # req[r].of
            /\ req'[r].fits =>
                 /\ req'[r].pc \in {"unset", "forget", "save", "accepted"} =>
                      \A c \in Challenges : <<"challenge", c>> \in req[r].late =>
                        <<"challenge", c>> \in slipped'
                 /\ req'[r].pc # "user" =>
                      \A c \in Challenges : <<"passkey", c>> \in req[r].late =>
                        <<"passkey", c>> \in slipped'
  PROVE  CeremonyInv'
  <1>0. /\ req \in [Requests -> Row] /\ req' \in [Requests -> Row] /\ Others(r)
        /\ Answering(r)' => Answering(r) /\ req'[r].kind = req[r].kind
             /\ req'[r].of = req[r].of /\ req'[r].by = req[r].by
             /\ req'[r].late = req[r].late
        /\ ~Beginning(r)'
        /\ \A q \in Requests \ {r} : (Answering(q)' <=> Answering(q))
                                    /\ (Beginning(q)' <=> Beginning(q))
    BY DEF CeremonyInv, K!TypeOK, Row, PCs, Moves, Stops, Others, Answering, Beginning
  <1>1. K!TypeOK'
    BY <1>0 DEF CeremonyInv, K!TypeOK, Row, PCs
  <1>2. StoresSorted'
    BY DEF CeremonyInv, StoresSorted
  <1>3. BeginsFresh'
    BY <1>0 DEF CeremonyInv, BeginsFresh, Others
  <1>4. ToldDrawn'
    BY DEF CeremonyInv, ToldDrawn
  <1>5. AnswersTold'
    <2>1. ASSUME NEW q \in Requests, Answering(q)'
          PROVE  /\ req'[q].of \in told' /\ drawn'[req'[q].of] = req'[q].kind
                 /\ req'[q].pc \in {"save", "accepted"} => req'[q].fits
      <3>1. CASE q = r
        BY <1>0, <2>1, <3>1 DEF CeremonyInv, AnswersTold, Stops, Answering
      <3>2. CASE q # r
        BY <1>0, <2>1, <3>2 DEF CeremonyInv, AnswersTold, Others
      <3>3. QED
        BY <3>1, <3>2
    <2>2. QED
      BY <2>1 DEF AnswersTold
  <1>6. LateWasOver'
    BY <1>0 DEF CeremonyInv, LateWasOver, Others
  <1>7. ChallengesAreGone'
    BY Distinct DEF CeremonyInv, ChallengesAreGone
  <1>8. PasskeysAreGone'
    BY DEF CeremonyInv, PasskeysAreGone
  <1>9. DeletesBoth'
    <2>1. ASSUME NEW q \in Requests, req'[q].fits,
                 <<"challenge", req'[q].of>> \notin slipped'
          PROVE  /\ req'[q].pc \in {"forget", "save", "accepted"} =>
                      redis'[req'[q].kind] # req'[q].of
                 /\ req'[q].pc \in {"save", "accepted"} =>
                      memory'[req'[q].kind] # req'[q].of
      <3>1. CASE q = r
        BY <1>0, <2>1, <3>1 DEF Stops, Moves, Answering
      <3>2. CASE q # r
        <4>1. /\ req'[q] = req[q] /\ req[q].kind \in K!Kinds
              /\ Answering(q) => req[q].of \in Challenges
          BY <1>0, <3>2 DEF Others, Row, CeremonyInv, AnswersTold, K!TypeOK
        <4>2. CASE Answering(q)
          BY <2>1, <4>1, <4>2, Distinct DEF CeremonyInv, DeletesBoth
        <4>3. CASE ~Answering(q)
          BY <4>1, <4>3 DEF Answering
        <4>4. QED
          BY <4>2, <4>3
      <3>3. QED
        BY <3>1, <3>2
    <2>2. QED
      BY <2>1 DEF DeletesBoth
  <1>10. LateDoNotFit'
    BY <1>0 DEF CeremonyInv, LateDoNotFit, Answering, Others, Stops
  <1>11. QED
    BY <1>1, <1>2, <1>3, <1>4, <1>5, <1>6, <1>7, <1>8, <1>9, <1>10 DEF CeremonyInv

LEMMA CeremonyInvStep ==
  ASSUME CeremonyInv, [K!Next]_vars
  PROVE  CeremonyInv'
  <1>0. /\ K!TypeOK
        /\ \A r \in Requests : Answering(r) => req[r].of \in Challenges
        /\ req \in [Requests -> Row]
    BY DEF CeremonyInv, AnswersTold, K!TypeOK, Row, PCs
  <1>1. ASSUME NEW r \in Requests, NEW n \in K!Kinds, NEW c \in Challenges,
               K!Begin(r, n, c)
        PROVE  CeremonyInv'
    <2>1. /\ req' = [req EXCEPT ![r] = [K!NoRequest EXCEPT !.pc = "set", !.kind = n,
                                                         !.of = c]]
          /\ [K!NoRequest EXCEPT !.pc = "set", !.kind = n, !.of = c] \in Row
      BY <1>0, <1>1 DEF K!Begin, K!NoRequest, Row, PCs
    <2>2. /\ req' \in [Requests -> Row] /\ Others(r) /\ req'[r].pc = "set"
          /\ req'[r].kind = n /\ req'[r].of = c
      BY <1>0, <2>1 DEF Others, K!NoRequest
    <2>3. /\ drawn \in [Challenges -> K!Kinds \cup {None}]
          /\ drawn' = [drawn EXCEPT ![c] = n] /\ drawn[c] = None /\ n # None
          /\ UNCHANGED <<told, redis, memory, passkeys, over, slipped>>
      BY <1>0, <1>1, Distinct DEF K!Begin, K!TypeOK
    <2>4. K!TypeOK'
      <3>1. drawn' \in [Challenges -> K!Kinds \cup {None}]
        BY <2>3
      <3>2. QED
        BY <1>0, <2>2, <2>3, <3>1 DEF K!TypeOK, Row, PCs
    <2>5. StoresSorted' /\ ToldDrawn' /\ ChallengesAreGone' /\ PasskeysAreGone'
      <3>1. \A d \in Challenges : drawn[d] # None => drawn'[d] = drawn[d]
        BY <2>3
      <3>2. StoresSorted'
        BY <1>0, <2>3, <3>1, Distinct DEF CeremonyInv, StoresSorted, K!TypeOK
      <3>3. ToldDrawn'
        BY <1>0, <2>3, <3>1 DEF CeremonyInv, ToldDrawn, K!TypeOK
      <3>4. QED
        BY <2>3, <3>2, <3>3 DEF CeremonyInv, ChallengesAreGone, PasskeysAreGone
    <2>6. BeginsFresh'
      <3>1. /\ c \notin told /\ drawn'[c] = n
            /\ \A q \in Requests : Beginning(q) => req[q].of # c
            /\ \A d \in Challenges : d # c => drawn'[d] = drawn[d]
        BY <1>0, <2>3, Distinct DEF CeremonyInv, BeginsFresh, ToldDrawn, Row
      <3>2. QED
        BY <2>2, <2>3, <3>1 DEF CeremonyInv, BeginsFresh, Beginning, Others
    <2>7. AnswersTold'
      <3>1. \A d \in told : drawn'[d] = drawn[d]
        BY <1>0, <2>3 DEF CeremonyInv, ToldDrawn, K!TypeOK
      <3>2. QED
        BY <2>2, <2>3, <3>1 DEF CeremonyInv, AnswersTold, Answering, Others
    <2>8. LateWasOver' /\ LateDoNotFit'
      BY <2>2, <2>3 DEF CeremonyInv, LateWasOver, LateDoNotFit, Answering, Others
    <2>9. DeletesBoth'
      BY <2>2, <2>3 DEF CeremonyInv, DeletesBoth, Others
    <2>10. QED
      BY <2>4, <2>5, <2>6, <2>7, <2>8, <2>9 DEF CeremonyInv
  <1>2. ASSUME NEW r \in Requests, K!SetRedis(r)
        PROVE  CeremonyInv'
    <2>1. /\ Moves(r, "store") /\ req'[r].fits = req[r].fits /\ req[r].pc = "set"
          /\ UNCHANGED <<drawn, told, memory, passkeys, over, slipped>>
          /\ redis' \in {redis, [redis EXCEPT ![req[r].kind] = req[r].of]}
      BY <1>0, <1>2, Comes DEF K!SetRedis, PCs
    <2>2. /\ req[r].of \in Challenges /\ req[r].of \notin told
          /\ drawn[req[r].of] = req[r].kind /\ req[r].kind \in K!Kinds
          /\ redis \in [K!Kinds -> Challenges \cup {None}]
      <3>1. Beginning(r)
        BY <2>1 DEF Beginning
      <3>2. /\ req[r].of \in Challenges /\ req[r].of \notin told
            /\ drawn[req[r].of] = req[r].kind
        BY <3>1 DEF CeremonyInv, BeginsFresh
      <3>3. req[r].kind \in K!Kinds
        BY <1>0 DEF Row
      <3>4. redis \in [K!Kinds -> Challenges \cup {None}]
        BY <1>0 DEF K!TypeOK
      <3>5. QED
        BY <3>2, <3>3, <3>4
    <2>3. /\ redis' \in [K!Kinds -> Challenges \cup {None}]
          /\ \A n \in K!Kinds :
               \/ redis'[n] = redis[n]
               \/ n = req[r].kind /\ redis'[n] = req[r].of
      <3>1. CASE redis' = redis
        BY <2>2, <3>1
      <3>2. CASE redis' = [redis EXCEPT ![req[r].kind] = req[r].of]
        BY <2>2, <3>2
      <3>3. QED
        BY <2>1, <3>1, <3>2
    <2>4. K!TypeOK'
      BY <1>0, <2>1, <2>3 DEF Moves, K!TypeOK, Row, PCs
    <2>5. StoresSorted' /\ ToldDrawn' /\ ChallengesAreGone' /\ PasskeysAreGone'
      BY <2>1, <2>2, <2>3
      DEF CeremonyInv, StoresSorted, ToldDrawn, ChallengesAreGone, PasskeysAreGone
    <2>6. BeginsFresh'
      BY <2>1, <2>2 DEF CeremonyInv, BeginsFresh, Beginning, Moves, Others
    <2>7. AnswersTold'
      BY <2>1 DEF CeremonyInv, AnswersTold, Answering, Moves, Others
    <2>8. LateWasOver' /\ LateDoNotFit'
      BY <2>1 DEF CeremonyInv, LateWasOver, LateDoNotFit, Answering, Moves, Others
    <2>9. DeletesBoth'
      BY <1>0, <2>1, <2>2, <2>3
      DEF CeremonyInv, DeletesBoth, AnswersTold, Answering, Moves, Others, Row
    <2>10. QED
      BY <2>4, <2>5, <2>6, <2>7, <2>8, <2>9 DEF CeremonyInv
  <1>3. ASSUME NEW r \in Requests, K!StoreMemory(r)
        PROVE  CeremonyInv'
    <2>1. /\ Stops(r) /\ req[r].pc = "store" /\ told' = told \cup {req[r].of}
          /\ UNCHANGED <<drawn, redis, passkeys, over, slipped>>
          /\ memory' = [memory EXCEPT ![req[r].kind] = req[r].of]
      BY <1>0, <1>3, Ends DEF K!StoreMemory
    <2>2. /\ req[r].of \in Challenges /\ req[r].of \notin told
          /\ drawn[req[r].of] = req[r].kind /\ req[r].kind \in K!Kinds
          /\ req[r].kind # None
          /\ memory \in [K!Kinds -> Challenges \cup {None}]
      <3>1. Beginning(r)
        BY <2>1 DEF Beginning
      <3>2. /\ req[r].of \in Challenges /\ req[r].of \notin told
            /\ drawn[req[r].of] = req[r].kind
        BY <3>1 DEF CeremonyInv, BeginsFresh
      <3>3. req[r].kind \in K!Kinds
        BY <1>0 DEF Row
      <3>4. memory \in [K!Kinds -> Challenges \cup {None}]
        BY <1>0 DEF K!TypeOK
      <3>5. QED
        BY <3>2, <3>3, <3>4, Distinct
    <2>3. /\ memory' \in [K!Kinds -> Challenges \cup {None}]
          /\ \A n \in K!Kinds :
               \/ memory'[n] = memory[n]
               \/ n = req[r].kind /\ memory'[n] = req[r].of
      <3>1. memory' = [memory EXCEPT ![req[r].kind] = req[r].of]
        BY <2>1
      <3>2. QED
        BY <2>2, <3>1
    <2>4. K!TypeOK'
      BY <1>0, <2>1, <2>2, <2>3 DEF Stops, K!TypeOK, Row, PCs
    <2>5. StoresSorted' /\ ToldDrawn' /\ ChallengesAreGone' /\ PasskeysAreGone'
      BY <2>1, <2>2, <2>3
      DEF CeremonyInv, StoresSorted, ToldDrawn, ChallengesAreGone, PasskeysAreGone
    <2>6. BeginsFresh'
      BY <2>1, <2>2 DEF CeremonyInv, BeginsFresh, Beginning, Stops, Others
    <2>7. AnswersTold'
      BY <2>1 DEF CeremonyInv, AnswersTold, Answering, Stops, Others
    <2>8. LateWasOver' /\ LateDoNotFit'
      BY <2>1 DEF CeremonyInv, LateWasOver, LateDoNotFit, Answering, Stops, Others
    <2>9. DeletesBoth'
      BY <1>0, <2>1, <2>2, <2>3
      DEF CeremonyInv, DeletesBoth, AnswersTold, Answering, Stops, Others, Row
    <2>10. QED
      BY <2>4, <2>5, <2>6, <2>7, <2>8, <2>9 DEF CeremonyInv
  <1>4. ASSUME NEW r \in Requests, NEW c \in Challenges,
               NEW k \in Challenges \cup {None}, K!Finish(r, c, k)
        PROVE  CeremonyInv'
    <2> DEFINE row == [K!NoRequest EXCEPT !.pc = "user", !.kind = drawn[c], !.of = c,
                        !.by = k, !.late = K!Shown(drawn[c], c, k) \cap over]
    <2>1. /\ drawn[c] \in K!Kinds /\ c \in told
          /\ K!Shown(drawn[c], c, k) \cap over \subseteq K!Things
      BY <1>0, <1>4 DEF K!Finish, CeremonyInv, ToldDrawn, K!TypeOK
    <2>2. /\ row \in Row /\ row.pc = "user" /\ row.kind = drawn[c] /\ row.of = c
          /\ row.by = k /\ row.late = K!Shown(drawn[c], c, k) \cap over
      BY <2>1 DEF K!NoRequest, Row, PCs
    <2>3. req' = [req EXCEPT ![r] = row]
      BY <1>4 DEF K!Finish
    <2> HIDE DEF row
    <2>4. /\ req' \in [Requests -> Row] /\ Others(r) /\ req'[r].pc = "user"
          /\ req'[r].kind = drawn[c] /\ req'[r].of = c /\ req'[r].by = k
          /\ req'[r].late = K!Shown(drawn[c], c, k) \cap over
          /\ UNCHANGED <<drawn, told, redis, memory, passkeys, over, slipped>>
      BY <1>0, <1>4, <2>2, <2>3 DEF Others, K!Finish
    <2>5. K!TypeOK'
      BY <1>0, <2>4 DEF K!TypeOK, Row, PCs
    <2>6. StoresSorted' /\ ToldDrawn' /\ ChallengesAreGone' /\ PasskeysAreGone'
      BY <2>4
      DEF CeremonyInv, StoresSorted, ToldDrawn, ChallengesAreGone, PasskeysAreGone
    <2>7. BeginsFresh'
      BY <2>4 DEF CeremonyInv, BeginsFresh, Beginning, Others
    <2>8. AnswersTold'
      BY <2>1, <2>4 DEF CeremonyInv, AnswersTold, Answering, Others
    <2>9. LateWasOver'
      BY <2>4 DEF CeremonyInv, LateWasOver, Answering, Others, K!Shown
    <2>10. DeletesBoth' /\ LateDoNotFit'
      BY <2>4 DEF CeremonyInv, DeletesBoth, LateDoNotFit, Answering, Others
    <2>11. QED
      BY <2>5, <2>6, <2>7, <2>8, <2>9, <2>10 DEF CeremonyInv
  <1>5. ASSUME NEW r \in Requests, K!ReadPasskeys(r)
        PROVE  CeremonyInv'
    <2>1. PICK b \in BOOLEAN :
            /\ b => (req[r].kind = "_auth" => req[r].by \in K!Stored)
            /\ req' = [req EXCEPT ![r] = [req[r] EXCEPT !.pc = "get", !.fits = b]]
      <3> DEFINE b == req[r].kind = "_auth" => req[r].by \in K!Stored
      <3>1. req' = [req EXCEPT ![r] = [req[r] EXCEPT !.pc = "get", !.fits = b]]
        BY <1>0, <1>5 DEF K!ReadPasskeys
      <3>2. b \in BOOLEAN
        OBVIOUS
      <3>3. QED
        BY <3>1, <3>2
    <2>2. Moves(r, "get") /\ req'[r].fits = b
      BY <1>0, <2>1, MovesWith DEF PCs
    <2>3. /\ req[r].pc = "user" /\ Answering(r)
          /\ UNCHANGED <<drawn, told, redis, memory, passkeys, over, slipped>>
      BY <1>5 DEF K!ReadPasskeys, Answering
    <2>4. ASSUME NEW c \in Challenges, b, <<"passkey", c>> \in req[r].late
          PROVE  <<"passkey", c>> \in slipped
      <3>1. c = req[r].by /\ req[r].kind = "_auth" /\ <<"passkey", c>> \in over
        BY <2>3, <2>4 DEF CeremonyInv, LateWasOver
      <3>2. passkeys[c] > 0
        BY <2>1, <2>4, <3>1 DEF K!Stored
      <3>3. QED
        BY <3>1, <3>2 DEF CeremonyInv, PasskeysAreGone
    <2>5. QED
      BY <1>0, <2>2, <2>3, <2>4, TakingBack DEF K!TypeOK, Moves, PCs
  <1>6. ASSUME NEW r \in Requests, K!Get(r)
        PROVE  CeremonyInv'
    <2>1. PICK c \in {redis[req[r].kind], memory[req[r].kind]} :
            IF c = None THEN K!Ends(r)
            ELSE req' = [req EXCEPT ![r].pc = "unset", ![r].fits = @ /\ c = req[r].of]
      BY <1>6 DEF K!Get
    <2>2. /\ req[r].pc = "get" /\ Answering(r) /\ req[r].kind \in K!Kinds
          /\ req[r].fits \in BOOLEAN
          /\ UNCHANGED <<drawn, told, redis, memory, passkeys, over, slipped>>
      BY <1>0, <1>6 DEF K!Get, Answering, Row
    <2>3. CASE c = None
      BY <1>0, <2>1, <2>2, <2>3, Ends, TakingBack DEF K!TypeOK
    <2>4. CASE c # None
      <3>1. PICK b \in BOOLEAN :
              /\ b => req[r].fits /\ c = req[r].of
              /\ req' = [req EXCEPT ![r] = [req[r] EXCEPT !.pc = "unset", !.fits = b]]
        <4> DEFINE b == req[r].fits /\ c = req[r].of
        <4>1. req' = [req EXCEPT ![r] = [req[r] EXCEPT !.pc = "unset", !.fits = b]]
          BY <1>0, <2>1, <2>4
        <4>2. b \in BOOLEAN
          BY <2>2
        <4>3. QED
          BY <4>1, <4>2
      <3>2. Moves(r, "unset") /\ req'[r].fits = b
        BY <1>0, <3>1, MovesWith DEF PCs
      <3>3. ASSUME NEW d \in Challenges, b
            PROVE  /\ <<"challenge", d>> \in req[r].late =>
                        <<"challenge", d>> \in slipped
                   /\ <<"passkey", d>> \in req[r].late =>
                        <<"passkey", d>> \in slipped
        BY <1>0, <2>2, <3>1, <3>3
        DEF CeremonyInv, LateWasOver, ChallengesAreGone, LateDoNotFit
      <3>4. QED
        BY <1>0, <2>2, <3>2, <3>3, TakingBack DEF K!TypeOK, Moves, PCs
    <2>5. QED
      BY <2>3, <2>4

  <1>7. ASSUME NEW r \in Requests, K!Unset(r)
        PROVE  CeremonyInv'
    <2>1. Moves(r, "forget") /\ req'[r].fits = req[r].fits
      BY <1>0, <1>7, Comes DEF K!Unset, PCs
    <2>2. /\ req[r].pc = "unset" /\ Answering(r) /\ req[r].kind \in K!Kinds
          /\ req[r].of \in Challenges
          /\ UNCHANGED <<drawn, told, memory, passkeys, over>>
      BY <1>0, <1>7 DEF K!Unset, Answering, Row
    <2>3. /\ redis' \in [K!Kinds -> Challenges \cup {None}]
          /\ \A n \in K!Kinds : redis'[n] \in {redis[n], None}
          /\ slipped \subseteq slipped' /\ slipped' \subseteq K!Things
          /\ <<"challenge", req[r].of>> \notin slipped' =>
               redis'[req[r].kind] # req[r].of
      <3>1. CASE redis' = [redis EXCEPT ![req[r].kind] = None] /\ UNCHANGED slipped
        BY <1>0, <2>2, <3>1, Distinct DEF K!TypeOK
      <3>2. CASE /\ redis[req[r].kind] # None /\ UNCHANGED redis
                 /\ slipped' = slipped \cup {<<"challenge", redis[req[r].kind]>>}
        BY <1>0, <2>2, <3>2 DEF K!TypeOK, K!Things
      <3>3. QED
        BY <1>7, <3>1, <3>2 DEF K!Unset
    <2>4. req[r].fits =>
            \A c \in Challenges :
              /\ <<"challenge", c>> \in req[r].late => <<"challenge", c>> \in slipped
              /\ <<"passkey", c>> \in req[r].late => <<"passkey", c>> \in slipped
      BY <2>2 DEF CeremonyInv, LateDoNotFit
    <2>5. QED
      BY <1>0, <2>1, <2>2, <2>3, <2>4, TakingBack DEF K!TypeOK, Moves, PCs
  <1>8. ASSUME NEW r \in Requests, K!Forget(r)
        PROVE  CeremonyInv'
    <2>1. /\ req[r].pc = "forget" /\ Answering(r) /\ req[r].kind \in K!Kinds
          /\ req[r].of \in Challenges
          /\ memory' = [memory EXCEPT ![req[r].kind] = None]
          /\ UNCHANGED <<drawn, told, redis, passkeys, over, slipped>>
      BY <1>0, <1>8 DEF K!Forget, K!Without, Answering, Row
    <2>2. /\ memory' \in [K!Kinds -> Challenges \cup {None}]
          /\ \A n \in K!Kinds : memory'[n] \in {memory[n], None}
          /\ memory'[req[r].kind] # req[r].of
      BY <1>0, <2>1, Distinct DEF K!TypeOK
    <2>3. CASE ~req[r].fits
      <3>1. Stops(r)
        BY <1>0, <1>8, <2>3, Ends DEF K!Forget
      <3>2. QED
        BY <1>0, <2>1, <2>2, <3>1, TakingBack DEF K!TypeOK
    <2>4. CASE req[r].fits
      <3>1. Moves(r, "save") /\ req'[r].fits = req[r].fits
        BY <1>0, <1>8, <2>4, Comes DEF K!Forget, PCs
      <3>2. /\ <<"challenge", req[r].of>> \notin slipped =>
                 redis[req[r].kind] # req[r].of
            /\ \A c \in Challenges :
                 /\ <<"challenge", c>> \in req[r].late => <<"challenge", c>> \in slipped
                 /\ <<"passkey", c>> \in req[r].late => <<"passkey", c>> \in slipped
        BY <2>1, <2>4 DEF CeremonyInv, LateDoNotFit, DeletesBoth
      <3>3. QED
        BY <1>0, <2>1, <2>2, <2>4, <3>1, <3>2, TakingBack DEF K!TypeOK, Moves, PCs
    <2>5. QED
      BY <2>3, <2>4
  <1>9. ASSUME NEW r \in Requests, K!InsertPasskey(r)
        PROVE  CeremonyInv'
    <2>1. /\ Moves(r, "accepted") /\ req'[r].fits = req[r].fits /\ req[r].pc = "save"
          /\ UNCHANGED <<drawn, told, redis, memory, over>>
      BY <1>0, <1>9, Comes DEF K!InsertPasskey, PCs
    <2>2. /\ req[r].of \in Challenges /\ Answering(r)
          /\ passkeys \in [Challenges -> 0..K!MaxRows] /\ slipped \subseteq K!Things
          /\ over \subseteq K!Things
      BY <1>0, <2>1 DEF Answering, K!TypeOK
    <2>3. /\ passkeys' = [passkeys EXCEPT ![req[r].of] = @ + 1]
          /\ passkeys[req[r].of] < K!MaxRows
          /\ slipped' = IF req[r].of \in K!Stored \/ <<"passkey", req[r].of>> \in over
                        THEN slipped \cup {<<"passkey", req[r].of>>} ELSE slipped
      BY <1>9 DEF K!InsertPasskey
    <2>4. K!TypeOK'
      <3>1. passkeys' \in [Challenges -> 0..K!MaxRows]
        BY <2>2, <2>3 DEF K!MaxRows
      <3>2. slipped' \subseteq K!Things
        BY <2>2, <2>3 DEF K!Things
      <3>3. QED
        BY <1>0, <2>1, <3>1, <3>2 DEF Moves, K!TypeOK, Row, PCs
    <2>5. slipped \subseteq slipped'
      BY <2>3
    <2>6. StoresSorted' /\ ToldDrawn' /\ ChallengesAreGone'
      BY <2>1, <2>5 DEF CeremonyInv, StoresSorted, ToldDrawn, ChallengesAreGone
    <2>7. PasskeysAreGone'
      BY <2>1, <2>2, <2>3 DEF CeremonyInv, PasskeysAreGone
    <2>8. BeginsFresh'
      BY <2>1 DEF CeremonyInv, BeginsFresh, Beginning, Moves, Others
    <2>9. AnswersTold'
      BY <2>1 DEF CeremonyInv, AnswersTold, Answering, Moves, Others
    <2>10. LateWasOver' /\ LateDoNotFit'
      BY <2>1, <2>5 DEF CeremonyInv, LateWasOver, LateDoNotFit, Answering, Moves, Others
    <2>11. DeletesBoth'
      BY <2>1, <2>5 DEF CeremonyInv, DeletesBoth, Moves, Others
    <2>12. QED
      BY <2>4, <2>6, <2>7, <2>8, <2>9, <2>10, <2>11 DEF CeremonyInv
  <1>10. ASSUME NEW r \in Requests, K!UpdatePasskeySignCount(r)
         PROVE  CeremonyInv'
    <2>1. /\ Moves(r, "accepted") /\ req'[r].fits = req[r].fits /\ req[r].pc = "save"
          /\ Answering(r)
          /\ UNCHANGED <<drawn, told, redis, memory, passkeys, over, slipped>>
      BY <1>0, <1>10, Comes DEF K!UpdatePasskeySignCount, PCs, Answering
    <2>2. /\ req[r].fits
          /\ <<"challenge", req[r].of>> \notin slipped =>
               /\ redis[req[r].kind] # req[r].of /\ memory[req[r].kind] # req[r].of
          /\ \A c \in Challenges :
               /\ <<"challenge", c>> \in req[r].late => <<"challenge", c>> \in slipped
               /\ <<"passkey", c>> \in req[r].late => <<"passkey", c>> \in slipped
      BY <2>1 DEF CeremonyInv, AnswersTold, LateDoNotFit, DeletesBoth
    <2>3. QED
      BY <1>0, <2>1, <2>2, TakingBack DEF K!TypeOK, Moves, PCs
  <1>11. ASSUME NEW r \in Requests, K!Fails(r)
         PROVE  CeremonyInv'
    <2>1. Stops(r) /\ UNCHANGED <<drawn, told, redis, memory, passkeys, over, slipped>>
      BY <1>0, <1>11, Ends DEF K!Fails
    <2>2. QED
      BY <1>0, <2>1, TakingBack DEF K!TypeOK
  <1>12. ASSUME NEW r \in Requests, K!Answer(r)
         PROVE  CeremonyInv'
    <2>1. /\ Stops(r) /\ req[r].pc = "accepted" /\ Answering(r)
          /\ over' = over \cup {<<"challenge", req[r].of>>}
          /\ UNCHANGED <<drawn, told, redis, memory, passkeys, slipped>>
      BY <1>0, <1>12, Ends DEF K!Answer, Answering
    <2>2. /\ req[r].of \in Challenges /\ req[r].of \in told
          /\ drawn[req[r].of] = req[r].kind
          /\ <<"challenge", req[r].of>> \notin slipped =>
               /\ redis[req[r].kind] # req[r].of /\ memory[req[r].kind] # req[r].of
      BY <1>0, <2>1 DEF CeremonyInv, AnswersTold, DeletesBoth
    <2>3. K!TypeOK'
      BY <1>0, <2>1, <2>2 DEF Stops, K!TypeOK, K!Things, Row, PCs
    <2>4. StoresSorted' /\ ToldDrawn' /\ PasskeysAreGone'
      BY <2>1 DEF CeremonyInv, StoresSorted, ToldDrawn, PasskeysAreGone
    <2>5. ChallengesAreGone'
      BY <2>1, <2>2, Distinct DEF CeremonyInv, StoresSorted, ChallengesAreGone
    <2>6. BeginsFresh' /\ AnswersTold'
      BY <2>1
      DEF CeremonyInv, BeginsFresh, AnswersTold, Beginning, Answering, Stops, Others
    <2>7. LateWasOver' /\ LateDoNotFit'
      BY <2>1 DEF CeremonyInv, LateWasOver, LateDoNotFit, Answering, Stops, Others
    <2>8. DeletesBoth'
      BY <2>1 DEF CeremonyInv, DeletesBoth, Stops, Others
    <2>9. QED
      BY <2>3, <2>4, <2>5, <2>6, <2>7, <2>8 DEF CeremonyInv
  <1>13. ASSUME NEW c \in Challenges, K!RemovePasskey(c)
         PROVE  CeremonyInv'
    <2>1. /\ passkeys \in [Challenges -> 0..K!MaxRows] /\ passkeys[c] > 0
          /\ passkeys' = [passkeys EXCEPT ![c] = @ - 1]
          /\ over' = IF passkeys[c] = 1 THEN over \cup {<<"passkey", c>>} ELSE over
          /\ UNCHANGED <<drawn, told, redis, memory, req, slipped>>
      BY <1>0, <1>13 DEF K!RemovePasskey, K!Stored, K!TypeOK
    <2>2. /\ passkeys' \in [Challenges -> 0..K!MaxRows] /\ over \subseteq over'
          /\ \A d \in Challenges : passkeys[d] = 0 => passkeys'[d] = 0
          /\ \A d \in Challenges :
               /\ <<"challenge", d>> \in over' => <<"challenge", d>> \in over
               /\ <<"passkey", d>> \in over' =>
                    <<"passkey", d>> \in over \/ passkeys'[d] = 0
      BY <2>1 DEF K!MaxRows
    <2>3. K!TypeOK'
      BY <1>0, <2>1, <2>2 DEF K!TypeOK, K!Things
    <2>4. StoresSorted' /\ ToldDrawn' /\ BeginsFresh' /\ AnswersTold' /\ DeletesBoth'
      BY <2>1
      DEF CeremonyInv, StoresSorted, ToldDrawn, BeginsFresh, AnswersTold, DeletesBoth,
          Beginning, Answering
    <2>5. LateWasOver' /\ LateDoNotFit'
      BY <2>1, <2>2 DEF CeremonyInv, LateWasOver, LateDoNotFit, Answering
    <2>6. ChallengesAreGone' /\ PasskeysAreGone'
      BY <2>1, <2>2 DEF CeremonyInv, ChallengesAreGone, PasskeysAreGone
    <2>7. QED
      BY <2>3, <2>4, <2>5, <2>6 DEF CeremonyInv
  <1>14. ASSUME UNCHANGED <<drawn, told, passkeys, req, over, slipped>>,
                redis' \in [K!Kinds -> Challenges \cup {None}],
                memory' \in [K!Kinds -> Challenges \cup {None}],
                \A n \in K!Kinds : redis'[n] \in {redis[n], None},
                \A n \in K!Kinds : memory'[n] \in {memory[n], None}
         PROVE  CeremonyInv'
    <2>1. K!TypeOK'
      BY <1>0, <1>14 DEF K!TypeOK
    <2>2. /\ StoresSorted' /\ ToldDrawn' /\ BeginsFresh' /\ AnswersTold'
          /\ LateWasOver' /\ LateDoNotFit'
      BY <1>14
      DEF CeremonyInv, StoresSorted, ToldDrawn, BeginsFresh, AnswersTold, LateWasOver,
          LateDoNotFit, Beginning, Answering
    <2>3. ChallengesAreGone' /\ PasskeysAreGone'
      BY <1>14, Distinct DEF CeremonyInv, ChallengesAreGone, PasskeysAreGone
    <2>4. DeletesBoth'
      <3>1. \A r \in Requests :
              /\ req[r].kind \in K!Kinds
              /\ Answering(r) => req[r].of # None
        BY <1>0, Distinct DEF Row
      <3>2. QED
        <4>1. ASSUME NEW r \in Requests, req[r].fits,
                     req[r].pc \in {"forget", "save", "accepted"},
                     <<"challenge", req[r].of>> \notin slipped
              PROVE  /\ redis'[req[r].kind] # req[r].of
                     /\ req[r].pc \in {"save", "accepted"} =>
                          memory'[req[r].kind] # req[r].of
          <5>1. req[r].kind \in K!Kinds /\ req[r].of # None
            BY <3>1, <4>1 DEF Answering
          <5>2. /\ redis[req[r].kind] # req[r].of
                /\ req[r].pc \in {"save", "accepted"} =>
                     memory[req[r].kind] # req[r].of
            BY <4>1 DEF CeremonyInv, DeletesBoth
          <5>3. QED
            BY <1>14, <5>1, <5>2
        <4>2. QED
          BY <1>14, <4>1 DEF DeletesBoth
    <2>5. QED
      BY <2>1, <2>2, <2>3, <2>4 DEF CeremonyInv
  <1>15. ASSUME NEW n \in K!Kinds, K!RedisForgets(n) \/ K!MemoryForgets(n)
         PROVE  CeremonyInv'
    BY <1>0, <1>14, <1>15 DEF K!RedisForgets, K!MemoryForgets, K!TypeOK
  <1>16. CASE K!Restart
    <2>1. /\ memory' = [n \in K!Kinds |-> None]
          /\ UNCHANGED <<drawn, told, redis, passkeys, over, slipped>>
          /\ \A r \in Requests : req'[r].pc = "none"
      BY <1>16 DEF K!Restart, K!NoRequest
    <2>2. req' \in [Requests -> Row]
      BY <1>16 DEF K!Restart, K!NoRequest, Row, PCs, K!Kinds
    <2>3. K!TypeOK'
      BY <1>0, <2>1, <2>2 DEF K!TypeOK, Row, PCs
    <2>4. StoresSorted' /\ ToldDrawn' /\ ChallengesAreGone' /\ PasskeysAreGone'
      BY <2>1, Distinct
      DEF CeremonyInv, StoresSorted, ToldDrawn, ChallengesAreGone, PasskeysAreGone
    <2>5. BeginsFresh' /\ AnswersTold' /\ LateWasOver' /\ DeletesBoth' /\ LateDoNotFit'
      BY <2>1
      DEF BeginsFresh, AnswersTold, LateWasOver, DeletesBoth, LateDoNotFit, Beginning,
          Answering
    <2>6. QED
      BY <2>3, <2>4, <2>5 DEF CeremonyInv
  <1>17. CASE UNCHANGED vars
    BY <1>0, <1>14, <1>17 DEF vars, K!TypeOK
  <1>18. QED
    BY <1>1, <1>2, <1>3, <1>4, <1>5, <1>6, <1>7, <1>8, <1>9, <1>10, <1>11, <1>12, <1>13,
       <1>15, <1>16, <1>17
       DEF K!Next
---------------------------------------------------------------------------
(***************************************************************************)
(* Both, within MCAccount.                                                 *)
(***************************************************************************)
SecondFactorKept ==
  /\ which = "codes" => CodesInv
  /\ which = "ceremonies" => CeremonyInv

LEMMA SecondFactorKeptInit == Init => SecondFactorKept
  BY CodesInvInit, CeremonyInvInit DEF Init, SecondFactorKept

LEMMA SecondFactorKeptStep ==
  ASSUME SecondFactorKept, [Next]_vars
  PROVE  SecondFactorKept'
  <1>1. ASSUME which' = "codes"
        PROVE  CodesInv'
    <2>1. which = "codes" /\ [C!Next]_vars
      BY <1>1
      DEF Next, vars, BesideSecondFactorPage,
          BesidePasswordWizard, BesideInvitationSetup, BesideProfileEditor,
          BesideAuthenticators, BesideMfaCodes, BesidePasskeyCeremonies
    <2>2. QED
      BY <2>1, CodesInvStep DEF SecondFactorKept
  <1>2. ASSUME which' = "ceremonies"
        PROVE  CeremonyInv'
    <2>1. which = "ceremonies" /\ [K!Next]_vars
      BY <1>2
      DEF Next, vars, BesideSecondFactorPage,
          BesidePasswordWizard, BesideInvitationSetup, BesideProfileEditor,
          BesideAuthenticators, BesideMfaCodes, BesidePasskeyCeremonies
    <2>2. QED
      BY <2>1, CeremonyInvStep DEF SecondFactorKept
  <1>3. QED
    BY <1>1, <1>2 DEF SecondFactorKept

\* The inductive invariant: what the user was told is over has no row and no
\* stored challenge left, except what slipped, and nothing under way brings it
\* back (mfa_service.go, passkey_service.go).
THEOREM SecondFactorInvariant == Spec => []SecondFactorKept
  BY SecondFactorKeptInit, SecondFactorKeptStep, PTL DEF Spec

\* For any number of requests, backup codes, apps, challenges and passkeys:
\* what the user was told is over is not accepted later, unless a deletion
\* failed unnoticed or a passkey came back (VerifyTOTPOrBackup,
\* deleteSessionData, RemoveAuthenticator).
THEOREM OverStaysOver == Spec => []OverIsRefused
  <1>1. CodesInv => C!OverIsRefused
    BY DEF CodesInv, CodesInFlight, C!OverIsRefused
  <1>2. CeremonyInv => K!OverIsRefused
    <2>1. SUFFICES ASSUME CeremonyInv, NEW r \in Requests, req[r].pc = "accepted"
                   PROVE  req[r].late \subseteq slipped
      BY DEF K!OverIsRefused
    <2>2. req[r].late \subseteq K!Things
      <3>1. req \in [Requests -> Row]
        BY <2>1 DEF CeremonyInv, K!TypeOK, Row, PCs
      <3>2. QED
        BY <3>1 DEF Row
    <2>3. \A c \in Challenges :
            /\ <<"challenge", c>> \in req[r].late => <<"challenge", c>> \in slipped
            /\ <<"passkey", c>> \in req[r].late => <<"passkey", c>> \in slipped
      <3>1. Answering(r) /\ req[r].fits
        BY <2>1 DEF CeremonyInv, AnswersTold, Answering
      <3>2. QED
        BY <2>1, <3>1 DEF CeremonyInv, LateDoNotFit
    <2>4. ASSUME NEW x \in req[r].late
          PROVE  x \in slipped
      <3>1. PICK t \in {"challenge", "passkey"}, c \in Challenges : x = <<t, c>>
        BY <2>2 DEF K!Things
      <3>2. QED
        BY <2>3, <3>1
    <2>5. QED
      BY <2>4
  <1>3. SecondFactorKept => OverIsRefused
    BY <1>1, <1>2 DEF SecondFactorKept, OverIsRefused
  <1>4. QED
    BY <1>3, SecondFactorInvariant, PTL
=============================================================================
