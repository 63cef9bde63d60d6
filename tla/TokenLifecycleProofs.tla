----------------------- MODULE TokenLifecycleProofs -----------------------
(***************************************************************************)
(* LifecycleInv is inductive, for any number of users, clients, sessions,  *)
(* codes, refresh tokens and requests in flight.  Each lemma carries one   *)
(* conjunct through every action; the theorems that follow put them        *)
(* together, and the last part shows that the tables implement the ledger. *)
(***************************************************************************)
EXTENDS TokenLedger, TLAPS

---------------------------------------------------------------------------
(* The updates the actions make of a row keep its type.                    *)
LEMMA SessionRowUpdates ==
  ASSUME NEW row \in SessionRow
  PROVE  /\ GoneSession \in SessionRow
         /\ \A b \in BOOLEAN :
              [row EXCEPT !.st = Ended(@), !.killed = TRUE,
                          !.prior = @ \/ b] \in SessionRow
  BY DEF SessionRow, GoneSession, NoSession, Ended

LEMMA CodeRowUpdates ==
  ASSUME NEW row \in CodeRow
  PROVE  /\ GoneCode(row) \in CodeRow
         /\ [row EXCEPT !.st = "expired"] \in CodeRow
         /\ [row EXCEPT !.used = TRUE] \in CodeRow
         /\ \A b \in BOOLEAN :
              [row EXCEPT !.st = Ended(@), !.killed = TRUE,
                          !.prior = @ \/ b] \in CodeRow
  BY DEF CodeRow, GoneCode, Ended

LEMMA TokenRowUpdates ==
  ASSUME NEW row \in TokenRow
  PROVE  /\ GoneToken \in TokenRow
         /\ [row EXCEPT !.revoked = TRUE] \in TokenRow
         /\ \A st \in {"live", "now", "past"} :
              [row EXCEPT !.st = st] \in TokenRow
         /\ [row EXCEPT !.st = "live", !.killed = FALSE] \in TokenRow
         /\ \A a, b \in BOOLEAN :
              [row EXCEPT !.revoked = @ \/ a, !.killed = TRUE,
                          !.prior = @ \/ b] \in TokenRow
  BY DEF TokenRow, GoneToken, NoToken

LEMMA ReqRowUpdates ==
  ASSUME NEW row \in ReqRow
  PROVE  /\ Idle \in ReqRow
         /\ \A pc \in Steps : [row EXCEPT !.pc = pc] \in ReqRow
         /\ \A pc \in Steps, t \in Token :
              [row EXCEPT !.pc = pc, !.tok = t] \in ReqRow
         /\ \A pc \in Steps, u \in User, b \in BOOLEAN :
              [row EXCEPT !.pc = pc, !.user = u, !.prior = b] \in ReqRow
         /\ \A b \in BOOLEAN : [row EXCEPT !.prior = @ \/ b] \in ReqRow
  BY DEF ReqRow, Idle, Steps

---------------------------------------------------------------------------
(* What a kill-switch and a deletion leave of a row.                       *)
LEMMA KilledSession ==
  ASSUME TypeOK, NEW u \in User, NEW b \in BOOLEAN, InvalidateAll(u, b),
         NEW s \in Session
  PROVE  /\ sess'[s].user = sess[s].user
         /\ sess'[s].st # sess[s].st =>
              sess[s].st = "live" /\ sess'[s].st = "expired"
         /\ sess'[s].killed => sess[s].killed \/ sess'[s].st # "live"
  <1>1. sess[s] \in SessionRow
    BY DEF TypeOK
  <1>2. sess'[s] = IF sess[s].user = u /\ sess[s].st # "gone"
                     THEN [sess[s] EXCEPT !.st = Ended(@), !.killed = TRUE,
                                          !.prior = @ \/ b]
                     ELSE sess[s]
    BY DEF InvalidateAll
  <1>3. QED
    BY <1>1, <1>2 DEF SessionRow, Ended

LEMMA KilledCode ==
  ASSUME TypeOK, NEW u \in User, NEW b \in BOOLEAN, InvalidateAll(u, b),
         NEW k \in Code
  PROVE  /\ code'[k].used = code[k].used
         /\ code'[k].user = code[k].user
         /\ code'[k].client = code[k].client
         /\ code'[k].st # code[k].st =>
              code[k].st = "live" /\ code'[k].st = "expired"
         /\ code'[k].killed => code[k].killed \/ code'[k].st # "live"
  <1>1. code[k] \in CodeRow
    BY DEF TypeOK
  <1>2. code'[k] = IF code[k].user = u /\ code[k].st # "gone"
                     THEN [code[k] EXCEPT !.st = Ended(@), !.killed = TRUE,
                                          !.prior = @ \/ b]
                     ELSE code[k]
    BY DEF InvalidateAll
  <1>3. QED
    BY <1>1, <1>2 DEF CodeRow, Ended

LEMMA KilledToken ==
  ASSUME TypeOK, NEW u \in User, NEW b \in BOOLEAN, InvalidateAll(u, b),
         NEW t \in Token
  PROVE  /\ tok'[t].st = tok[t].st
         /\ tok'[t].user = tok[t].user
         /\ tok'[t].client = tok[t].client
         /\ tok'[t].root = tok[t].root
         /\ tok[t].revoked => tok'[t].revoked
         /\ tok'[t].killed => tok[t].killed \/ ~Usable(t)'
  <1>1. tok[t] \in TokenRow
    BY DEF TypeOK
  <1>2. tok'[t] = IF tok[t].user = u /\ tok[t].st # "gone"
                    THEN [tok[t] EXCEPT !.revoked = @ \/ RevokedByKill(t, u),
                                        !.killed = TRUE,
                                        !.prior = @ \/ b]
                    ELSE tok[t]
    BY DEF InvalidateAll
  <1>3. QED
    BY <1>1, <1>2 DEF TokenRow, RevokedByKill, Usable

LEMMA KilledRequest ==
  ASSUME TypeOK, NEW u \in User, NEW b \in BOOLEAN, InvalidateAll(u, b),
         NEW r \in Req
  PROVE  /\ req'[r].pc = req[r].pc
         /\ req'[r].user = req[r].user
         /\ req'[r].client = req[r].client
         /\ req'[r].code = req[r].code
         /\ req'[r].tok = req[r].tok
  BY DEF TypeOK, InvalidateAll, ReqRow

LEMMA DeletedCode ==
  ASSUME NEW row \in CodeRow
  PROVE  /\ GoneCode(row).st = "gone"
         /\ ~GoneCode(row).killed
         /\ GoneCode(row).used = row.used
         /\ GoneCode(row).user = row.user
         /\ GoneCode(row).client = row.client
  BY DEF CodeRow, GoneCode

\* The two handlers that run the kill-switch.
LEMMA KillCases ==
  ASSUME NEW u \in User, LogoutUser(u) \/ UpdateUserPassword(u)
  PROVE  /\ \E b \in BOOLEAN : InvalidateAll(u, b)
         /\ UserExists(u)
         /\ UNCHANGED <<users, clients, known, breached>>
  BY DEF LogoutUser, UpdateUserPassword

\* What the rotation procedure writes: the old row is revoked, the new one
\* takes its owner, client and root.
LEMMA SwapEffect ==
  ASSUME TypeOK, NEW r \in Req, NEW t \in Token, RotateSwap(r, t),
         req[r].tok \in Token
  PROVE  /\ t # req[r].tok
         /\ \A x \in Token \ {t, req[r].tok} : tok'[x] = tok[x]
         /\ tok'[t].st = "live"
         /\ tok'[req[r].tok].st = tok[req[r].tok].st
         /\ tok'[req[r].tok].revoked
         /\ \A x \in {t, req[r].tok} :
              /\ tok'[x].user = tok[req[r].tok].user
              /\ tok'[x].client = tok[req[r].tok].client
              /\ tok'[x].root = tok[req[r].tok].root
  <1> DEFINE old == req[r].tok
  <1>1. tok[old] \in TokenRow
    BY DEF TypeOK
  <1>2. /\ tok[old].st \in {"live", "now"} /\ tok[t].st = "none"
        /\ tok' = [tok EXCEPT ![old].revoked = TRUE,
                              ![t] = [tok[old] EXCEPT !.st = "live",
                                                      !.killed = FALSE]]
    BY DEF TypeOK, RotateSwap, Rotatable
  <1>3. t # old
    BY <1>2
  <1> HIDE DEF old
  <1>4. /\ tok'[t] = [tok[old] EXCEPT !.st = "live", !.killed = FALSE]
        /\ tok'[old] = [tok[old] EXCEPT !.revoked = TRUE]
        /\ \A x \in Token \ {t, old} : tok'[x] = tok[x]
    BY <1>2, <1>3 DEF TypeOK, old
  <1>5. /\ tok'[t].st = "live" /\ tok'[t].user = tok[old].user
        /\ tok'[t].client = tok[old].client /\ tok'[t].root = tok[old].root
    BY <1>1, <1>4 DEF TokenRow
  <1>6. /\ tok'[old].st = tok[old].st /\ tok'[old].revoked
        /\ tok'[old].user = tok[old].user
        /\ tok'[old].client = tok[old].client
        /\ tok'[old].root = tok[old].root
    BY <1>1, <1>4 DEF TokenRow
  <1>7. QED
    BY <1>3, <1>4, <1>5, <1>6 DEF old

\* The transaction that consumes a code changes nothing else of its row.
LEMMA ExchangeEffect ==
  ASSUME TypeOK, NEW r \in Req, ExchangeCode(r), req[r].code \in Code
  PROVE  /\ code[req[r].code].st = "live" /\ ~code[req[r].code].used
         /\ \A k \in Code : /\ code'[k].st = code[k].st
                            /\ code'[k].user = code[k].user
                            /\ code'[k].client = code[k].client
                            /\ code'[k].used = (code[k].used \/ k = req[r].code)
         /\ \A x \in Req \ {r} : req'[x] = req[x]
         /\ \/ req'[r] = Idle
            \/ /\ code[req[r].code].client = req[r].client
               /\ req'[r].pc = "xchg_claims"
               /\ req'[r].user = code[req[r].code].user
               /\ req'[r].client = req[r].client
               /\ req'[r].code = req[r].code
               /\ req'[r].tok = req[r].tok
  <1>1. code' = [code EXCEPT ![req[r].code].used = TRUE]
    BY DEF ExchangeCode
  <1>2. \A k \in Code : code[k] \in CodeRow
    BY DEF TypeOK
  <1>3. ASSUME NEW k \in Code
        PROVE  /\ code'[k].st = code[k].st
               /\ code'[k].user = code[k].user
               /\ code'[k].client = code[k].client
               /\ code'[k].used = (code[k].used \/ k = req[r].code)
    BY <1>1, <1>2 DEF TypeOK, CodeRow
  <1>4. /\ req[r] \in ReqRow
        /\ \/ req' = [req EXCEPT ![r] = Idle]
           \/ /\ code[req[r].code].client = req[r].client
              /\ req' = [req EXCEPT ![r] =
                          [req[r] EXCEPT !.pc = "xchg_claims",
                                         !.user = code[req[r].code].user,
                                         !.prior = code[req[r].code].prior]]
    BY DEF TypeOK, ExchangeCode, Go, Done, ClientMatches
  <1>5. /\ \A x \in Req \ {r} : req'[x] = req[x]
        /\ \/ req'[r] = Idle
           \/ /\ code[req[r].code].client = req[r].client
              /\ req'[r] = [req[r] EXCEPT !.pc = "xchg_claims",
                                          !.user = code[req[r].code].user,
                                          !.prior = code[req[r].code].prior]
    BY <1>4 DEF TypeOK
  <1>6. QED
    BY <1>3, <1>4, <1>5 DEF ExchangeCode, Consumable, ReqRow

---------------------------------------------------------------------------
\* TypeOK needs Complete: the fields a step reads are filled.
LEMMA TypeStep ==
  ASSUME TypeOK, Complete, [Next]_vars
  PROVE  TypeOK'
  <1> USE DEF TypeOK, Go, Done, users, clients, tables
  <1>1. ASSUME NEW r \in Req, NEW u \in User,
               LoginCheck(r, u)
        PROVE  TypeOK'
    BY <1>1 DEF LoginCheck, SessionRow, CodeRow, TokenRow, ReqRow, Steps, Idle
  <1>2. ASSUME NEW r \in Req,
               MfaLookup(r)
        PROVE  TypeOK'
    BY <1>2, ReqRowUpdates DEF MfaLookup, Steps
  <1>3. ASSUME NEW r \in Req, NEW s \in Session,
               CreateSession(r, s)
        PROVE  TypeOK'
    <2>1. req[r].user \in User /\ req[r] \in ReqRow
      BY <1>3 DEF CreateSession, Complete, RequestComplete
    <2>2. sess' \in [Session -> SessionRow]
      BY <1>3, <2>1 DEF CreateSession, SessionRow, ReqRow
    <2>3. Idle \in ReqRow /\ [req[r] EXCEPT !.pc = "mfa"] \in ReqRow
      BY <2>1, ReqRowUpdates DEF Steps
    <2>4. req' \in [Req -> ReqRow]
      BY <1>3, <2>3 DEF CreateSession, Go, Done
    <2>5. QED
      BY <1>3, <2>2, <2>4 DEF CreateSession
  <1>4. ASSUME NEW r \in Req, NEW s \in Session, NEW c \in Client,
               AuthorizeRead(r, s, c)
        PROVE  TypeOK'
    BY <1>4 DEF AuthorizeRead, SessionRow, CodeRow, TokenRow, ReqRow, Steps,
           Idle, Complete, RequestComplete
  <1>5. ASSUME NEW r \in Req, NEW k \in Code,
               StoreCode(r, k)
        PROVE  TypeOK'
    BY <1>5 DEF StoreCode, SessionRow, CodeRow, TokenRow, ReqRow, Steps,
           Idle, Complete, RequestComplete
  <1>6. ASSUME NEW r \in Req, NEW k \in Code, NEW c \in Client,
               ExchangeStart(r, k, c)
        PROVE  TypeOK'
    BY <1>6 DEF ExchangeStart, SessionRow, CodeRow, TokenRow, ReqRow, Steps,
           Idle
  <1>7. ASSUME NEW r \in Req,
               ExchangeCode(r)
        PROVE  TypeOK'
    <2>1. req[r].code \in Code /\ req[r] \in ReqRow
      BY <1>7 DEF ExchangeCode, Complete, RequestComplete
    <2>2. code[req[r].code].user \in User
          /\ code[req[r].code].prior \in BOOLEAN
      BY <1>7, <2>1 DEF ExchangeCode, Complete, RequestComplete, CodeRow
    <2>3. code' \in [Code -> CodeRow]
      BY <1>7, <2>1, CodeRowUpdates DEF ExchangeCode
    <2>4. Idle \in ReqRow
          /\ [req[r] EXCEPT !.pc = "xchg_claims",
                            !.user = code[req[r].code].user,
                            !.prior = code[req[r].code].prior] \in ReqRow
      BY <2>1, <2>2, ReqRowUpdates DEF Steps
    <2>5. req' \in [Req -> ReqRow]
      BY <1>7, <2>4 DEF ExchangeCode, Go, Done
    <2>6. QED
      BY <1>7, <2>3, <2>5 DEF ExchangeCode
  <1>8. ASSUME NEW r \in Req,
               ExchangeClaims(r)
        PROVE  TypeOK'
    <2>1. Idle \in ReqRow /\ [req[r] EXCEPT !.pc = "xchg_store"] \in ReqRow
      BY ReqRowUpdates DEF Steps
    <2>2. req' \in [Req -> ReqRow]
      BY <1>8, <2>1 DEF ExchangeClaims, Go, Done
    <2>3. QED
      BY <1>8, <2>2 DEF ExchangeClaims
  <1>9. ASSUME NEW r \in Req, NEW t \in Token,
               StoreRefreshToken(r, t)
        PROVE  TypeOK'
    BY <1>9 DEF StoreRefreshToken, SessionRow, CodeRow, TokenRow, ReqRow,
           Steps, Idle, Complete, RequestComplete
  <1>10. ASSUME NEW r \in Req, NEW t \in Token,
               RotateLookup(r, t)
        PROVE  TypeOK'
    BY <1>10 DEF RotateLookup, SessionRow, CodeRow, TokenRow, ReqRow, Steps,
           Idle, Complete, RequestComplete
  <1>11. ASSUME NEW r \in Req, NEW t \in Token,
               RotateSwap(r, t)
        PROVE  TypeOK'
    <2>1. req[r].tok \in Token
      BY <1>11 DEF RotateSwap, Complete, RequestComplete
    <2>2. tok' \in [Token -> TokenRow]
      BY <1>11, <2>1, TokenRowUpdates DEF RotateSwap
    <2>3. req' \in [Req -> ReqRow]
      BY <1>11, ReqRowUpdates DEF RotateSwap, Go, Steps
    <2>4. QED
      BY <1>11, <2>2, <2>3 DEF RotateSwap
  <1>12. ASSUME NEW r \in Req,
               RotateReuse(r)
        PROVE  TypeOK'
    <2>1. req[r].tok \in Token
      BY <1>12 DEF RotateReuse, Complete, RequestComplete
    <2>2. tok' \in [Token -> TokenRow]
      BY <1>12, <2>1, TokenRowUpdates DEF RotateReuse
    <2>3. req' \in [Req -> ReqRow]
      BY <1>12, ReqRowUpdates DEF RotateReuse, Go, Done
    <2>4. breached' \in SUBSET (Code \cup {None})
      BY <1>12, <2>1 DEF RotateReuse, TokenRow
    <2>5. QED
      BY <1>12, <2>2, <2>3, <2>4 DEF RotateReuse
  <1>13. ASSUME NEW r \in Req,
               RotateClaims(r)
        PROVE  TypeOK'
    BY <1>13 DEF RotateClaims, SessionRow, CodeRow, TokenRow, ReqRow, Steps,
           Idle, Complete, RequestComplete
  <1>14. ASSUME NEW r \in Req,
               Abort(r)
        PROVE  TypeOK'
    BY <1>14 DEF Abort, SessionRow, CodeRow, TokenRow, ReqRow, Steps, Idle
  <1>15. ASSUME NEW u \in User,
               LogoutUser(u) \/ UpdateUserPassword(u)
        PROVE  TypeOK'
    <2>1. PICK b \in BOOLEAN : InvalidateAll(u, b)
      BY <1>15, KillCases
    <2>2. UNCHANGED <<users, clients, known, breached>>
      BY <1>15, KillCases
    <2>3. sess' \in [Session -> SessionRow]
      BY <2>1, SessionRowUpdates DEF InvalidateAll
    <2>4. code' \in [Code -> CodeRow]
      BY <2>1, CodeRowUpdates DEF InvalidateAll
    <2>5. tok' \in [Token -> TokenRow]
      BY <2>1, TokenRowUpdates DEF InvalidateAll, RevokedByKill
    <2>6. req' \in [Req -> ReqRow]
      BY <2>1, ReqRowUpdates DEF InvalidateAll
    <2>7. QED
      BY <2>2, <2>3, <2>4, <2>5, <2>6
  <1>16. ASSUME NEW u \in User, NEW st \in StatusInput,
               UpdateUserStatus(u, st)
        PROVE  TypeOK'
    BY <1>16 DEF UpdateUserStatus, MapStatus
  <1>17. ASSUME NEW u \in User,
               ArchiveUser(u)
        PROVE  TypeOK'
    <2>1. code' \in [Code -> CodeRow]
      BY <1>17, CodeRowUpdates DEF ArchiveUser
    <2>2. tok' \in [Token -> TokenRow]
      BY <1>17, TokenRowUpdates DEF ArchiveUser
    <2>3. QED
      BY <1>17, <2>1, <2>2 DEF ArchiveUser
  <1>18. ASSUME NEW u \in User,
               RestoreUser(u)
        PROVE  TypeOK'
    BY <1>18 DEF RestoreUser
  <1>19. ASSUME NEW u \in User,
               HardDeleteUser(u)
        PROVE  TypeOK'
    <2>1. sess' \in [Session -> SessionRow]
      BY <1>19, SessionRowUpdates DEF HardDeleteUser
    <2>2. code' \in [Code -> CodeRow]
      BY <1>19, CodeRowUpdates DEF HardDeleteUser
    <2>3. tok' \in [Token -> TokenRow]
      BY <1>19, TokenRowUpdates DEF HardDeleteUser
    <2>4. QED
      BY <1>19, <2>1, <2>2, <2>3 DEF HardDeleteUser
  <1>20. ASSUME NEW c \in Client, NEW gs \in GrantSets,
               UpdateClient(c, gs)
        PROVE  TypeOK'
    BY <1>20 DEF UpdateClient
  <1>21. ASSUME NEW c \in Client,
               DeleteClient(c)
        PROVE  TypeOK'
    BY <1>21 DEF DeleteClient
  <1>22. ASSUME NEW s \in Session,
               SessionExpires(s)
        PROVE  TypeOK'
    BY <1>22 DEF SessionExpires, SessionRow
  <1>23. ASSUME NEW k \in Code,
               CodeExpires(k)
        PROVE  TypeOK'
    BY <1>23 DEF CodeExpires, CodeRow
  <1>24. ASSUME NEW t \in Token,
               TokenExpires(t)
        PROVE  TypeOK'
    BY <1>24, TokenRowUpdates DEF TokenExpires
  <1>25. CASE JanitorCodes
    BY <1>25, CodeRowUpdates DEF JanitorCodes
  <1>26. CASE JanitorTokens
    BY <1>26, TokenRowUpdates DEF JanitorTokens, Overdue
  <1>27. CASE JanitorSessions
    BY <1>27, SessionRowUpdates DEF JanitorSessions
  <1>28. CASE UNCHANGED vars
    BY <1>28 DEF vars
  <1>29. QED
    BY <1>1, <1>2, <1>3, <1>4, <1>5, <1>6, <1>7, <1>8, <1>9, <1>10,
       <1>11, <1>12, <1>13, <1>14, <1>15, <1>16, <1>17, <1>18, <1>19,
       <1>20, <1>21, <1>22, <1>23, <1>24, <1>25, <1>26, <1>27, <1>28 DEF
       Next, Login, Authorize, Exchange, Rotate, Admin, Clock, Janitor

\* Rows and requests in flight have their fields filled.
LEMMA CompleteStep ==
  ASSUME TypeOK, TypeOK', Complete, [Next]_vars
  PROVE  Complete'
  <1> USE DEF Complete, RequestComplete, UserExists, Go, Done, Ended,
         Consumable, ClientMatches, Rotatable, Idle, NoSession, NoCode,
         NoToken, GoneSession, GoneToken, Rows, TypeOK, SessionRow, CodeRow,
         TokenRow, ReqRow, users, clients, tables
  <1>1. ASSUME NEW r \in Req, NEW u \in User,
               LoginCheck(r, u)
        PROVE  Complete'
    BY <1>1 DEF LoginCheck
  <1>2. ASSUME NEW r \in Req,
               MfaLookup(r)
        PROVE  Complete'
    BY <1>2 DEF MfaLookup
  <1>3. ASSUME NEW r \in Req, NEW s \in Session,
               CreateSession(r, s)
        PROVE  Complete'
    <2>1. \A x \in Req :
             req'[x] \in {req[x], Idle, [req[r] EXCEPT !.pc = "mfa"]}
      BY <1>3 DEF CreateSession
    <2>2. \A x \in Req : RequestComplete(x)'
      BY <1>3, <2>1 DEF CreateSession
    <2>3. \A x \in Session : sess'[x].st = "live" => sess'[x].user \in User
      BY <1>3 DEF CreateSession
    <2>4. QED
      BY <1>3, <2>2, <2>3 DEF CreateSession
  <1>4. ASSUME NEW r \in Req, NEW s \in Session, NEW c \in Client,
               AuthorizeRead(r, s, c)
        PROVE  Complete'
    BY <1>4 DEF AuthorizeRead
  <1>5. ASSUME NEW r \in Req, NEW k \in Code,
               StoreCode(r, k)
        PROVE  Complete'
    <2>1. req[r].user \in User /\ req[r].client \in Client
      BY <1>5 DEF StoreCode
    <2>2. \A x \in Code : x # k => code'[x] = code[x]
      BY <1>5 DEF StoreCode
    <2>3. /\ code'[k].st = "live" /\ code'[k].user = req[r].user
          /\ code'[k].client = req[r].client
      BY <1>5 DEF StoreCode
    <2>4. \A x \in Req : RequestComplete(x)'
      BY <1>5, <2>2, <2>3 DEF StoreCode
    <2>5. QED
      BY <1>5, <2>1, <2>2, <2>3, <2>4 DEF StoreCode
  <1>6. ASSUME NEW r \in Req, NEW k \in Code, NEW c \in Client,
               ExchangeStart(r, k, c)
        PROVE  Complete'
    BY <1>6 DEF ExchangeStart
  <1>7. ASSUME NEW r \in Req,
               ExchangeCode(r)
        PROVE  Complete'
    <2>1. req[r].code \in Code /\ req[r].client \in Client
      BY <1>7 DEF ExchangeCode
    <2>2. \A k \in Code :
             IF code'[k].st = "none" THEN ~code'[k].used /\ code'[k].user = None
               ELSE code'[k].user \in User /\ code'[k].client \in Client
      BY <1>7, <2>1, ExchangeEffect, SMTT(30)
    <2>3. code[req[r].code].st = "live" /\ code[req[r].code].user \in User
      BY <1>7, <2>1, ExchangeEffect
    <2>4. \A k \in Code : code'[k].st = code[k].st
      BY <1>7, <2>1, ExchangeEffect
    <2>5. RequestComplete(r)'
      <3>1. CASE req'[r] = Idle
        BY <3>1
      <3>2. CASE req'[r] # Idle
        BY <1>7, <2>1, <2>3, <2>4, <3>2, ExchangeEffect
      <3>3. QED
        BY <3>1, <3>2
    <2>6. ASSUME NEW x \in Req \ {r}
          PROVE  RequestComplete(x)'
      <3>1. req'[x] = req[x]
        BY <1>7, <2>1, ExchangeEffect
      <3>2. tok' = tok
        BY <1>7 DEF ExchangeCode
      <3>3. QED
        BY <2>4, <3>1, <3>2
    <2>7. QED
      BY <1>7, <2>2, <2>5, <2>6 DEF ExchangeCode
  <1>8. ASSUME NEW r \in Req,
               ExchangeClaims(r)
        PROVE  Complete'
    BY <1>8 DEF ExchangeClaims
  <1>9. ASSUME NEW r \in Req, NEW t \in Token,
               StoreRefreshToken(r, t)
        PROVE  Complete'
    BY <1>9 DEF StoreRefreshToken
  <1>10. ASSUME NEW r \in Req, NEW t \in Token,
               RotateLookup(r, t)
        PROVE  Complete'
    <2>1. tok[t].st \in Rows /\ tok[t].client \in Client
      BY <1>10 DEF RotateLookup
    <2>2. QED
      BY <1>10, <2>1 DEF RotateLookup
  <1>11. ASSUME NEW r \in Req, NEW t \in Token,
               RotateSwap(r, t)
        PROVE  Complete'
    <2>1. req[r].tok \in Token /\ tok[req[r].tok].st \in Rows
      BY <1>11 DEF RotateSwap
    <2>2. \A x \in Token :
             /\ tok'[x].st \in Rows =>
                  tok'[x].user \in User /\ tok'[x].client \in Client
             /\ tok'[x].st = "none" =>
                  tok[x].st = "none" /\ x # t /\ tok'[x].user = None
      BY <1>11, <2>1, SwapEffect
    <2>3. RequestComplete(r)'
      <3>1. /\ req[r].user \in User /\ req[r].client \in Client
            /\ t \in Token /\ tok'[t].st # "none"
        BY <1>11, <2>2 DEF RotateSwap
      <3>2. /\ req'[r].pc = "rot_claims" /\ req'[r].tok = t
            /\ req'[r].user = req[r].user /\ req'[r].client = req[r].client
        BY <1>11 DEF RotateSwap
      <3> HIDE DEF TypeOK, Complete, TokenRow, CodeRow, ReqRow, SessionRow
      <3>3. QED
        BY <3>1, <3>2
    <2>4. ASSUME NEW x \in Req \ {r}
          PROVE  RequestComplete(x)'
      <3>1. req'[x] = req[x] /\ code' = code
        BY <1>11 DEF RotateSwap
      <3>2. QED
        BY <2>2, <3>1
    <2>5. /\ sess' = sess /\ code' = code /\ known' = known
          /\ known \subseteq Token
      BY <1>11 DEF RotateSwap
    <2>6. \A x \in Req : RequestComplete(x)'
      BY <2>3, <2>4
    <2> HIDE DEF TypeOK, RequestComplete
    <2>7. QED
      BY <2>2, <2>5, <2>6
  <1>12. ASSUME NEW r \in Req,
               RotateReuse(r)
        PROVE  Complete'
    BY <1>12 DEF RotateReuse
  <1>13. ASSUME NEW r \in Req,
               RotateClaims(r)
        PROVE  Complete'
    BY <1>13 DEF RotateClaims
  <1>14. ASSUME NEW r \in Req,
               Abort(r)
        PROVE  Complete'
    BY <1>14 DEF Abort
  <1>15. ASSUME NEW u \in User,
               LogoutUser(u) \/ UpdateUserPassword(u)
        PROVE  Complete'
    <2>1. PICK b \in BOOLEAN : InvalidateAll(u, b)
      BY <1>15, KillCases
    <2>2. UNCHANGED <<users, clients, known, breached>>
      BY <1>15, KillCases
    <2>3. QED
      BY <2>1, <2>2, KilledSession, KilledCode, KilledToken,
         KilledRequest, SMTT(30)
  <1>16. ASSUME NEW u \in User, NEW st \in StatusInput,
               UpdateUserStatus(u, st)
        PROVE  Complete'
    BY <1>16 DEF UpdateUserStatus
  <1>17. ASSUME NEW u \in User,
               ArchiveUser(u)
        PROVE  Complete'
    BY <1>17 DEF ArchiveUser
  <1>18. ASSUME NEW u \in User,
               RestoreUser(u)
        PROVE  Complete'
    BY <1>18 DEF RestoreUser
  <1>19. ASSUME NEW u \in User,
               HardDeleteUser(u)
        PROVE  Complete'
    <2>1. \A k \in Code : code'[k] = IF code[k].user = u
                                       THEN GoneCode(code[k]) ELSE code[k]
      BY <1>19 DEF HardDeleteUser
    <2>2. ASSUME NEW k \in Code
          PROVE  /\ code'[k].st = "none" <=> code[k].st = "none"
                 /\ code'[k].used = code[k].used
                 /\ code'[k].user = code[k].user
                 /\ code'[k].client = code[k].client
      BY <2>1, DeletedCode, NoneAssumption
    <2>3. \A t \in Token : tok'[t] \in {tok[t], GoneToken}
      BY <1>19 DEF HardDeleteUser
    <2>4. \A r \in Req : RequestComplete(r)'
      BY <1>19, <2>2, <2>3 DEF HardDeleteUser
    <2>5. \A s \in Session : sess'[s].st = "live" => sess'[s].user \in User
      BY <1>19 DEF HardDeleteUser
    <2>6. \A t \in known' : tok'[t].st # "none"
      BY <1>19, <2>3 DEF HardDeleteUser
    <2>7. \A t \in Token : tok'[t] = tok[t] \/ tok'[t].st = "gone"
      BY <2>3
    <2> HIDE DEF TypeOK, RequestComplete
    <2>8. QED
      BY <2>2, <2>4, <2>5, <2>6, <2>7
  <1>20. ASSUME NEW c \in Client, NEW gs \in GrantSets,
               UpdateClient(c, gs)
        PROVE  Complete'
    BY <1>20 DEF UpdateClient
  <1>21. ASSUME NEW c \in Client,
               DeleteClient(c)
        PROVE  Complete'
    BY <1>21 DEF DeleteClient
  <1>22. ASSUME NEW s \in Session,
               SessionExpires(s)
        PROVE  Complete'
    BY <1>22 DEF SessionExpires
  <1>23. ASSUME NEW k \in Code,
               CodeExpires(k)
        PROVE  Complete'
    BY <1>23 DEF CodeExpires
  <1>24. ASSUME NEW t \in Token,
               TokenExpires(t)
        PROVE  Complete'
    BY <1>24 DEF TokenExpires
  <1>25. CASE JanitorCodes
    BY <1>25, DeletedCode DEF JanitorCodes
  <1>26. CASE JanitorTokens
    BY <1>26 DEF JanitorTokens, Overdue
  <1>27. CASE JanitorSessions
    BY <1>27 DEF JanitorSessions
  <1>28. CASE UNCHANGED vars
    BY <1>28 DEF vars
  <1>29. QED
    BY <1>1, <1>2, <1>3, <1>4, <1>5, <1>6, <1>7, <1>8, <1>9, <1>10,
       <1>11, <1>12, <1>13, <1>14, <1>15, <1>16, <1>17, <1>18, <1>19,
       <1>20, <1>21, <1>22, <1>23, <1>24, <1>25, <1>26, <1>27, <1>28 DEF
       Next, Login, Authorize, Exchange, Rotate, Admin, Clock, Janitor

\* One request at a time stands between a consumed code and its token.
LEMMA ExclusiveStep ==
  ASSUME TypeOK, TypeOK', Complete, ExchangeIsExclusive,
         BreachedCodesAreUsed, TokensMatchTheirCode, [Next]_vars
  PROVE  ExchangeIsExclusive'
  <1> USE DEF ExchangeIsExclusive, Exchanging, BreachedCodesAreUsed,
         TokensMatchTheirCode, Complete, RequestComplete, UserExists, Go,
         Done, Ended, Consumable, ClientMatches, Rotatable, Idle, NoSession,
         NoCode, NoToken, GoneSession, GoneToken, Rows, TypeOK, SessionRow,
         CodeRow, TokenRow, ReqRow, users, clients, tables
  <1>1. ASSUME NEW r \in Req, NEW u \in User,
               LoginCheck(r, u)
        PROVE  ExchangeIsExclusive'
    BY <1>1 DEF LoginCheck
  <1>2. ASSUME NEW r \in Req,
               MfaLookup(r)
        PROVE  ExchangeIsExclusive'
    BY <1>2 DEF MfaLookup
  <1>3. ASSUME NEW r \in Req, NEW s \in Session,
               CreateSession(r, s)
        PROVE  ExchangeIsExclusive'
    <2>1. \A x \in Req : req'[x].pc \notin {"xchg_claims", "xchg_store"}
                           \/ req'[x] = req[x]
      BY <1>3 DEF CreateSession
    <2>2. code' = code /\ tok' = tok /\ breached' = breached
      BY <1>3 DEF CreateSession
    <2>3. QED
      BY <2>1, <2>2
  <1>4. ASSUME NEW r \in Req, NEW s \in Session, NEW c \in Client,
               AuthorizeRead(r, s, c)
        PROVE  ExchangeIsExclusive'
    BY <1>4 DEF AuthorizeRead
  <1>5. ASSUME NEW r \in Req, NEW k \in Code,
               StoreCode(r, k)
        PROVE  ExchangeIsExclusive'
    BY <1>5 DEF StoreCode
  <1>6. ASSUME NEW r \in Req, NEW k \in Code, NEW c \in Client,
               ExchangeStart(r, k, c)
        PROVE  ExchangeIsExclusive'
    BY <1>6 DEF ExchangeStart
  <1>7. ASSUME NEW r \in Req,
               ExchangeCode(r)
        PROVE  ExchangeIsExclusive'
    <2>1. req[r].code \in Code
      BY <1>7 DEF ExchangeCode
    <2>2. tok' = tok /\ breached' = breached
      BY <1>7 DEF ExchangeCode
    <2>3. \A x \in Req : ~Exchanging(x, req[r].code)
      BY <1>7, <2>1, ExchangeEffect
    <2>4. \A t \in Token : tok[t].st \in Rows => tok[t].root # req[r].code
      BY <1>7, <2>1, ExchangeEffect
    <2>5. req[r].code \notin breached
      BY <1>7, <2>1, ExchangeEffect
    <2>6. ASSUME NEW x \in Req, NEW k \in Code, Exchanging(x, k)'
          PROVE  /\ code'[k].used
                 /\ req'[x].user = code'[k].user
                 /\ req'[x].client = code'[k].client
                 /\ req'[x].pc = "xchg_store" => req'[x].client # Primary
                 /\ \A y \in Req : Exchanging(y, k)' => y = x
                 /\ \A t \in Token : tok'[t].st \in Rows => tok'[t].root # k
                 /\ k \notin breached'
      <3>1. CASE x = r
        BY <1>7, <2>1, <2>2, <2>3, <2>4, <2>5, <2>6, <3>1, ExchangeEffect
      <3>2. CASE x # r
        <4>1. req'[x] = req[x]
          BY <1>7, <2>1, <3>2, ExchangeEffect
        <4>2. Exchanging(x, k) /\ k # req[r].code
          BY <2>3, <2>6, <4>1
        <4>3. ASSUME NEW y \in Req, Exchanging(y, k)'
              PROVE  Exchanging(y, k)
          <5>1. y # r
            BY <1>7, <2>1, <4>2, <4>3, ExchangeEffect
          <5>2. req'[y] = req[y]
            BY <1>7, <2>1, <5>1, ExchangeEffect
          <5>3. QED
            BY <4>3, <5>2
        <4>4. /\ code'[k].used /\ code'[k].user = code[k].user
              /\ code'[k].client = code[k].client
          BY <1>7, <2>1, <4>2, ExchangeEffect
        <4>5. QED
          BY <2>2, <4>1, <4>2, <4>3, <4>4
      <3>3. QED
        BY <3>1, <3>2
    <2>7. QED
      BY <2>6
  <1>8. ASSUME NEW r \in Req,
               ExchangeClaims(r)
        PROVE  ExchangeIsExclusive'
    <2>1. code' = code /\ tok' = tok /\ breached' = breached
      BY <1>8 DEF ExchangeClaims
    <2>2. \A x \in Req \ {r} : req'[x] = req[x]
      BY <1>8 DEF ExchangeClaims
    <2>3. \/ req'[r] = Idle
          \/ /\ req[r].pc = "xchg_claims" /\ req[r].client # Primary
             /\ req'[r] = [req[r] EXCEPT !.pc = "xchg_store"]
      BY <1>8 DEF ExchangeClaims
    <2>4. \A x \in Req, k \in Code : Exchanging(x, k)' =>
             /\ Exchanging(x, k)
             /\ req'[x].user = req[x].user /\ req'[x].client = req[x].client
             /\ req'[x].pc = "xchg_store" => req'[x].client # Primary
      BY <2>2, <2>3, SMTT(30)
    <2> HIDE DEF TypeOK, Complete, RequestComplete
    <2>5. QED
      BY <2>1, <2>4
  <1>9. ASSUME NEW r \in Req, NEW t \in Token,
               StoreRefreshToken(r, t)
        PROVE  ExchangeIsExclusive'
    BY <1>9 DEF StoreRefreshToken
  <1>10. ASSUME NEW r \in Req, NEW t \in Token,
               RotateLookup(r, t)
        PROVE  ExchangeIsExclusive'
    BY <1>10 DEF RotateLookup
  <1>11. ASSUME NEW r \in Req, NEW t \in Token,
               RotateSwap(r, t)
        PROVE  ExchangeIsExclusive'
    <2>1. req[r].tok \in Token /\ tok[req[r].tok].st \in Rows
      BY <1>11 DEF RotateSwap
    <2>2. code' = code /\ breached' = breached
      BY <1>11 DEF RotateSwap
    <2>3. \A x \in Req : \/ req'[x] = req[x]
                         \/ req'[x].pc = "rot_claims"
      BY <1>11, SMTT(30) DEF RotateSwap
    <2>4. ASSUME NEW k \in Code, NEW x \in Token, tok'[x].st \in Rows,
                 \A y \in Token : tok[y].st \in Rows => tok[y].root # k
          PROVE  tok'[x].root # k
      <3>1. CASE x \in {t, req[r].tok}
        BY <1>11, <2>1, <2>4, <3>1, SwapEffect
      <3>2. CASE x \notin {t, req[r].tok}
        BY <1>11, <2>1, <2>4, <3>2, SwapEffect
      <3>3. QED
        BY <3>1, <3>2
    <2>5. \A x \in Req, k \in Code : Exchanging(x, k)' =>
             Exchanging(x, k) /\ req'[x] = req[x]
      BY <2>3
    <2> HIDE DEF TypeOK, Complete, RequestComplete
    <2>6. QED
      BY <2>2, <2>4, <2>5
  <1>12. ASSUME NEW r \in Req,
               RotateReuse(r)
        PROVE  ExchangeIsExclusive'
    BY <1>12 DEF RotateReuse
  <1>13. ASSUME NEW r \in Req,
               RotateClaims(r)
        PROVE  ExchangeIsExclusive'
    BY <1>13 DEF RotateClaims
  <1>14. ASSUME NEW r \in Req,
               Abort(r)
        PROVE  ExchangeIsExclusive'
    BY <1>14 DEF Abort
  <1>15. ASSUME NEW u \in User,
               LogoutUser(u) \/ UpdateUserPassword(u)
        PROVE  ExchangeIsExclusive'
    <2>1. PICK b \in BOOLEAN : InvalidateAll(u, b)
      BY <1>15, KillCases
    <2>2. UNCHANGED <<users, clients, known, breached>>
      BY <1>15, KillCases
    <2>3. QED
      BY <2>1, <2>2, KilledSession, KilledCode, KilledToken, KilledRequest
  <1>16. ASSUME NEW u \in User, NEW st \in StatusInput,
               UpdateUserStatus(u, st)
        PROVE  ExchangeIsExclusive'
    BY <1>16 DEF UpdateUserStatus
  <1>17. ASSUME NEW u \in User,
               ArchiveUser(u)
        PROVE  ExchangeIsExclusive'
    BY <1>17 DEF ArchiveUser
  <1>18. ASSUME NEW u \in User,
               RestoreUser(u)
        PROVE  ExchangeIsExclusive'
    BY <1>18 DEF RestoreUser
  <1>19. ASSUME NEW u \in User,
               HardDeleteUser(u)
        PROVE  ExchangeIsExclusive'
    BY <1>19, DeletedCode DEF HardDeleteUser
  <1>20. ASSUME NEW c \in Client, NEW gs \in GrantSets,
               UpdateClient(c, gs)
        PROVE  ExchangeIsExclusive'
    BY <1>20 DEF UpdateClient
  <1>21. ASSUME NEW c \in Client,
               DeleteClient(c)
        PROVE  ExchangeIsExclusive'
    BY <1>21 DEF DeleteClient
  <1>22. ASSUME NEW s \in Session,
               SessionExpires(s)
        PROVE  ExchangeIsExclusive'
    BY <1>22 DEF SessionExpires
  <1>23. ASSUME NEW k \in Code,
               CodeExpires(k)
        PROVE  ExchangeIsExclusive'
    BY <1>23 DEF CodeExpires
  <1>24. ASSUME NEW t \in Token,
               TokenExpires(t)
        PROVE  ExchangeIsExclusive'
    BY <1>24 DEF TokenExpires
  <1>25. CASE JanitorCodes
    BY <1>25, DeletedCode DEF JanitorCodes
  <1>26. CASE JanitorTokens
    BY <1>26 DEF JanitorTokens, Overdue
  <1>27. CASE JanitorSessions
    BY <1>27 DEF JanitorSessions
  <1>28. CASE UNCHANGED vars
    BY <1>28 DEF vars
  <1>29. QED
    BY <1>1, <1>2, <1>3, <1>4, <1>5, <1>6, <1>7, <1>8, <1>9, <1>10,
       <1>11, <1>12, <1>13, <1>14, <1>15, <1>16, <1>17, <1>18, <1>19,
       <1>20, <1>21, <1>22, <1>23, <1>24, <1>25, <1>26, <1>27, <1>28 DEF
       Next, Login, Authorize, Exchange, Rotate, Admin, Clock, Janitor

\* A breached code was consumed.
LEMMA BreachedStep ==
  ASSUME TypeOK, TypeOK', Complete, BreachedCodesAreUsed,
         TokensMatchTheirCode, [Next]_vars
  PROVE  BreachedCodesAreUsed'
  <1> USE DEF BreachedCodesAreUsed, TokensMatchTheirCode, Complete,
         RequestComplete, UserExists, Go, Done, Ended, Consumable,
         ClientMatches, Rotatable, Idle, NoSession, NoCode, NoToken,
         GoneSession, GoneToken, Rows, TypeOK, SessionRow, CodeRow,
         TokenRow, ReqRow, users, clients, tables
  <1>1. ASSUME NEW r \in Req, NEW u \in User,
               LoginCheck(r, u)
        PROVE  BreachedCodesAreUsed'
    BY <1>1 DEF LoginCheck
  <1>2. ASSUME NEW r \in Req,
               MfaLookup(r)
        PROVE  BreachedCodesAreUsed'
    BY <1>2 DEF MfaLookup
  <1>3. ASSUME NEW r \in Req, NEW s \in Session,
               CreateSession(r, s)
        PROVE  BreachedCodesAreUsed'
    BY <1>3 DEF CreateSession
  <1>4. ASSUME NEW r \in Req, NEW s \in Session, NEW c \in Client,
               AuthorizeRead(r, s, c)
        PROVE  BreachedCodesAreUsed'
    BY <1>4 DEF AuthorizeRead
  <1>5. ASSUME NEW r \in Req, NEW k \in Code,
               StoreCode(r, k)
        PROVE  BreachedCodesAreUsed'
    BY <1>5 DEF StoreCode
  <1>6. ASSUME NEW r \in Req, NEW k \in Code, NEW c \in Client,
               ExchangeStart(r, k, c)
        PROVE  BreachedCodesAreUsed'
    BY <1>6 DEF ExchangeStart
  <1>7. ASSUME NEW r \in Req,
               ExchangeCode(r)
        PROVE  BreachedCodesAreUsed'
    BY <1>7 DEF ExchangeCode
  <1>8. ASSUME NEW r \in Req,
               ExchangeClaims(r)
        PROVE  BreachedCodesAreUsed'
    BY <1>8 DEF ExchangeClaims
  <1>9. ASSUME NEW r \in Req, NEW t \in Token,
               StoreRefreshToken(r, t)
        PROVE  BreachedCodesAreUsed'
    BY <1>9 DEF StoreRefreshToken
  <1>10. ASSUME NEW r \in Req, NEW t \in Token,
               RotateLookup(r, t)
        PROVE  BreachedCodesAreUsed'
    BY <1>10 DEF RotateLookup
  <1>11. ASSUME NEW r \in Req, NEW t \in Token,
               RotateSwap(r, t)
        PROVE  BreachedCodesAreUsed'
    BY <1>11 DEF RotateSwap
  <1>12. ASSUME NEW r \in Req,
               RotateReuse(r)
        PROVE  BreachedCodesAreUsed'
    BY <1>12 DEF RotateReuse
  <1>13. ASSUME NEW r \in Req,
               RotateClaims(r)
        PROVE  BreachedCodesAreUsed'
    BY <1>13 DEF RotateClaims
  <1>14. ASSUME NEW r \in Req,
               Abort(r)
        PROVE  BreachedCodesAreUsed'
    BY <1>14 DEF Abort
  <1>15. ASSUME NEW u \in User,
               LogoutUser(u) \/ UpdateUserPassword(u)
        PROVE  BreachedCodesAreUsed'
    <2>1. PICK b \in BOOLEAN : InvalidateAll(u, b)
      BY <1>15, KillCases
    <2>2. UNCHANGED <<users, clients, known, breached>>
      BY <1>15, KillCases
    <2>3. QED
      BY <2>1, <2>2, KilledSession, KilledCode, KilledToken, KilledRequest
  <1>16. ASSUME NEW u \in User, NEW st \in StatusInput,
               UpdateUserStatus(u, st)
        PROVE  BreachedCodesAreUsed'
    BY <1>16 DEF UpdateUserStatus
  <1>17. ASSUME NEW u \in User,
               ArchiveUser(u)
        PROVE  BreachedCodesAreUsed'
    BY <1>17 DEF ArchiveUser
  <1>18. ASSUME NEW u \in User,
               RestoreUser(u)
        PROVE  BreachedCodesAreUsed'
    BY <1>18 DEF RestoreUser
  <1>19. ASSUME NEW u \in User,
               HardDeleteUser(u)
        PROVE  BreachedCodesAreUsed'
    BY <1>19, DeletedCode DEF HardDeleteUser
  <1>20. ASSUME NEW c \in Client, NEW gs \in GrantSets,
               UpdateClient(c, gs)
        PROVE  BreachedCodesAreUsed'
    BY <1>20 DEF UpdateClient
  <1>21. ASSUME NEW c \in Client,
               DeleteClient(c)
        PROVE  BreachedCodesAreUsed'
    BY <1>21 DEF DeleteClient
  <1>22. ASSUME NEW s \in Session,
               SessionExpires(s)
        PROVE  BreachedCodesAreUsed'
    BY <1>22 DEF SessionExpires
  <1>23. ASSUME NEW k \in Code,
               CodeExpires(k)
        PROVE  BreachedCodesAreUsed'
    BY <1>23 DEF CodeExpires
  <1>24. ASSUME NEW t \in Token,
               TokenExpires(t)
        PROVE  BreachedCodesAreUsed'
    BY <1>24 DEF TokenExpires
  <1>25. CASE JanitorCodes
    BY <1>25, DeletedCode DEF JanitorCodes
  <1>26. CASE JanitorTokens
    BY <1>26 DEF JanitorTokens, Overdue
  <1>27. CASE JanitorSessions
    BY <1>27 DEF JanitorSessions
  <1>28. CASE UNCHANGED vars
    BY <1>28 DEF vars
  <1>29. QED
    BY <1>1, <1>2, <1>3, <1>4, <1>5, <1>6, <1>7, <1>8, <1>9, <1>10,
       <1>11, <1>12, <1>13, <1>14, <1>15, <1>16, <1>17, <1>18, <1>19,
       <1>20, <1>21, <1>22, <1>23, <1>24, <1>25, <1>26, <1>27, <1>28 DEF
       Next, Login, Authorize, Exchange, Rotate, Admin, Clock, Janitor

\* A token keeps the owner and the client of its code.
LEMMA MatchStep ==
  ASSUME TypeOK, TypeOK', Complete, ExchangeIsExclusive,
         TokensMatchTheirCode, [Next]_vars
  PROVE  TokensMatchTheirCode'
  <1> USE DEF ExchangeIsExclusive, Exchanging, TokensMatchTheirCode,
         Complete, RequestComplete, UserExists, Go, Done, Ended, Consumable,
         ClientMatches, Rotatable, Idle, NoSession, NoCode, NoToken,
         GoneSession, GoneToken, Rows, TypeOK, SessionRow, CodeRow,
         TokenRow, ReqRow, users, clients, tables
  <1>1. ASSUME NEW r \in Req, NEW u \in User,
               LoginCheck(r, u)
        PROVE  TokensMatchTheirCode'
    BY <1>1 DEF LoginCheck
  <1>2. ASSUME NEW r \in Req,
               MfaLookup(r)
        PROVE  TokensMatchTheirCode'
    BY <1>2 DEF MfaLookup
  <1>3. ASSUME NEW r \in Req, NEW s \in Session,
               CreateSession(r, s)
        PROVE  TokensMatchTheirCode'
    BY <1>3 DEF CreateSession
  <1>4. ASSUME NEW r \in Req, NEW s \in Session, NEW c \in Client,
               AuthorizeRead(r, s, c)
        PROVE  TokensMatchTheirCode'
    BY <1>4 DEF AuthorizeRead
  <1>5. ASSUME NEW r \in Req, NEW k \in Code,
               StoreCode(r, k)
        PROVE  TokensMatchTheirCode'
    BY <1>5 DEF StoreCode
  <1>6. ASSUME NEW r \in Req, NEW k \in Code, NEW c \in Client,
               ExchangeStart(r, k, c)
        PROVE  TokensMatchTheirCode'
    BY <1>6 DEF ExchangeStart
  <1>7. ASSUME NEW r \in Req,
               ExchangeCode(r)
        PROVE  TokensMatchTheirCode'
    BY <1>7 DEF ExchangeCode
  <1>8. ASSUME NEW r \in Req,
               ExchangeClaims(r)
        PROVE  TokensMatchTheirCode'
    BY <1>8 DEF ExchangeClaims
  <1>9. ASSUME NEW r \in Req, NEW t \in Token,
               StoreRefreshToken(r, t)
        PROVE  TokensMatchTheirCode'
    BY <1>9 DEF StoreRefreshToken
  <1>10. ASSUME NEW r \in Req, NEW t \in Token,
               RotateLookup(r, t)
        PROVE  TokensMatchTheirCode'
    BY <1>10 DEF RotateLookup
  <1>11. ASSUME NEW r \in Req, NEW t \in Token,
               RotateSwap(r, t)
        PROVE  TokensMatchTheirCode'
    <2>1. req[r].tok \in Token /\ tok[req[r].tok].st \in Rows
      BY <1>11 DEF RotateSwap
    <2>2. code' = code
      BY <1>11 DEF RotateSwap
    <2> HIDE DEF TypeOK, Complete, RequestComplete
    <2>3. QED
      BY <1>11, <2>1, <2>2, SwapEffect
  <1>12. ASSUME NEW r \in Req,
               RotateReuse(r)
        PROVE  TokensMatchTheirCode'
    BY <1>12 DEF RotateReuse
  <1>13. ASSUME NEW r \in Req,
               RotateClaims(r)
        PROVE  TokensMatchTheirCode'
    BY <1>13 DEF RotateClaims
  <1>14. ASSUME NEW r \in Req,
               Abort(r)
        PROVE  TokensMatchTheirCode'
    BY <1>14 DEF Abort
  <1>15. ASSUME NEW u \in User,
               LogoutUser(u) \/ UpdateUserPassword(u)
        PROVE  TokensMatchTheirCode'
    <2>1. PICK b \in BOOLEAN : InvalidateAll(u, b)
      BY <1>15, KillCases
    <2>2. UNCHANGED <<users, clients, known, breached>>
      BY <1>15, KillCases
    <2>3. QED
      BY <2>1, <2>2, KilledSession, KilledCode, KilledToken, KilledRequest
  <1>16. ASSUME NEW u \in User, NEW st \in StatusInput,
               UpdateUserStatus(u, st)
        PROVE  TokensMatchTheirCode'
    BY <1>16 DEF UpdateUserStatus
  <1>17. ASSUME NEW u \in User,
               ArchiveUser(u)
        PROVE  TokensMatchTheirCode'
    BY <1>17 DEF ArchiveUser
  <1>18. ASSUME NEW u \in User,
               RestoreUser(u)
        PROVE  TokensMatchTheirCode'
    BY <1>18 DEF RestoreUser
  <1>19. ASSUME NEW u \in User,
               HardDeleteUser(u)
        PROVE  TokensMatchTheirCode'
    BY <1>19, DeletedCode DEF HardDeleteUser
  <1>20. ASSUME NEW c \in Client, NEW gs \in GrantSets,
               UpdateClient(c, gs)
        PROVE  TokensMatchTheirCode'
    BY <1>20 DEF UpdateClient
  <1>21. ASSUME NEW c \in Client,
               DeleteClient(c)
        PROVE  TokensMatchTheirCode'
    BY <1>21 DEF DeleteClient
  <1>22. ASSUME NEW s \in Session,
               SessionExpires(s)
        PROVE  TokensMatchTheirCode'
    BY <1>22 DEF SessionExpires
  <1>23. ASSUME NEW k \in Code,
               CodeExpires(k)
        PROVE  TokensMatchTheirCode'
    BY <1>23 DEF CodeExpires
  <1>24. ASSUME NEW t \in Token,
               TokenExpires(t)
        PROVE  TokensMatchTheirCode'
    BY <1>24 DEF TokenExpires
  <1>25. CASE JanitorCodes
    BY <1>25, DeletedCode DEF JanitorCodes
  <1>26. CASE JanitorTokens
    BY <1>26 DEF JanitorTokens, Overdue
  <1>27. CASE JanitorSessions
    BY <1>27 DEF JanitorSessions
  <1>28. CASE UNCHANGED vars
    BY <1>28 DEF vars
  <1>29. QED
    BY <1>1, <1>2, <1>3, <1>4, <1>5, <1>6, <1>7, <1>8, <1>9, <1>10,
       <1>11, <1>12, <1>13, <1>14, <1>15, <1>16, <1>17, <1>18, <1>19,
       <1>20, <1>21, <1>22, <1>23, <1>24, <1>25, <1>26, <1>27, <1>28 DEF
       Next, Login, Authorize, Exchange, Rotate, Admin, Clock, Janitor

\* A code has one usable token at most.
LEMMA OneUsableStep ==
  ASSUME TypeOK, TypeOK', Complete, ExchangeIsExclusive,
         OneUsableTokenPerCode, [Next]_vars
  PROVE  OneUsableTokenPerCode'
  <1> USE DEF ExchangeIsExclusive, Exchanging, OneUsableTokenPerCode,
         Usable, Complete, RequestComplete, UserExists, Go, Done, Ended,
         Consumable, ClientMatches, Rotatable, Idle, NoSession, NoCode,
         NoToken, GoneSession, GoneToken, Rows, TypeOK, SessionRow, CodeRow,
         TokenRow, ReqRow, users, clients, tables
  <1>1. ASSUME NEW r \in Req, NEW u \in User,
               LoginCheck(r, u)
        PROVE  OneUsableTokenPerCode'
    BY <1>1 DEF LoginCheck
  <1>2. ASSUME NEW r \in Req,
               MfaLookup(r)
        PROVE  OneUsableTokenPerCode'
    BY <1>2 DEF MfaLookup
  <1>3. ASSUME NEW r \in Req, NEW s \in Session,
               CreateSession(r, s)
        PROVE  OneUsableTokenPerCode'
    BY <1>3 DEF CreateSession
  <1>4. ASSUME NEW r \in Req, NEW s \in Session, NEW c \in Client,
               AuthorizeRead(r, s, c)
        PROVE  OneUsableTokenPerCode'
    BY <1>4 DEF AuthorizeRead
  <1>5. ASSUME NEW r \in Req, NEW k \in Code,
               StoreCode(r, k)
        PROVE  OneUsableTokenPerCode'
    BY <1>5 DEF StoreCode
  <1>6. ASSUME NEW r \in Req, NEW k \in Code, NEW c \in Client,
               ExchangeStart(r, k, c)
        PROVE  OneUsableTokenPerCode'
    BY <1>6 DEF ExchangeStart
  <1>7. ASSUME NEW r \in Req,
               ExchangeCode(r)
        PROVE  OneUsableTokenPerCode'
    BY <1>7 DEF ExchangeCode
  <1>8. ASSUME NEW r \in Req,
               ExchangeClaims(r)
        PROVE  OneUsableTokenPerCode'
    BY <1>8 DEF ExchangeClaims
  <1>9. ASSUME NEW r \in Req, NEW t \in Token,
               StoreRefreshToken(r, t)
        PROVE  OneUsableTokenPerCode'
    BY <1>9 DEF StoreRefreshToken
  <1>10. ASSUME NEW r \in Req, NEW t \in Token,
               RotateLookup(r, t)
        PROVE  OneUsableTokenPerCode'
    BY <1>10 DEF RotateLookup
  <1>11. ASSUME NEW r \in Req, NEW t \in Token,
               RotateSwap(r, t)
        PROVE  OneUsableTokenPerCode'
    BY <1>11, SMTT(30) DEF RotateSwap
  <1>12. ASSUME NEW r \in Req,
               RotateReuse(r)
        PROVE  OneUsableTokenPerCode'
    BY <1>12 DEF RotateReuse
  <1>13. ASSUME NEW r \in Req,
               RotateClaims(r)
        PROVE  OneUsableTokenPerCode'
    BY <1>13 DEF RotateClaims
  <1>14. ASSUME NEW r \in Req,
               Abort(r)
        PROVE  OneUsableTokenPerCode'
    BY <1>14 DEF Abort
  <1>15. ASSUME NEW u \in User,
               LogoutUser(u) \/ UpdateUserPassword(u)
        PROVE  OneUsableTokenPerCode'
    <2>1. PICK b \in BOOLEAN : InvalidateAll(u, b)
      BY <1>15, KillCases
    <2>2. UNCHANGED <<users, clients, known, breached>>
      BY <1>15, KillCases
    <2>3. QED
      BY <2>1, <2>2, KilledSession, KilledCode, KilledToken, KilledRequest
  <1>16. ASSUME NEW u \in User, NEW st \in StatusInput,
               UpdateUserStatus(u, st)
        PROVE  OneUsableTokenPerCode'
    BY <1>16 DEF UpdateUserStatus
  <1>17. ASSUME NEW u \in User,
               ArchiveUser(u)
        PROVE  OneUsableTokenPerCode'
    BY <1>17 DEF ArchiveUser
  <1>18. ASSUME NEW u \in User,
               RestoreUser(u)
        PROVE  OneUsableTokenPerCode'
    BY <1>18 DEF RestoreUser
  <1>19. ASSUME NEW u \in User,
               HardDeleteUser(u)
        PROVE  OneUsableTokenPerCode'
    BY <1>19, DeletedCode DEF HardDeleteUser
  <1>20. ASSUME NEW c \in Client, NEW gs \in GrantSets,
               UpdateClient(c, gs)
        PROVE  OneUsableTokenPerCode'
    BY <1>20 DEF UpdateClient
  <1>21. ASSUME NEW c \in Client,
               DeleteClient(c)
        PROVE  OneUsableTokenPerCode'
    BY <1>21 DEF DeleteClient
  <1>22. ASSUME NEW s \in Session,
               SessionExpires(s)
        PROVE  OneUsableTokenPerCode'
    BY <1>22 DEF SessionExpires
  <1>23. ASSUME NEW k \in Code,
               CodeExpires(k)
        PROVE  OneUsableTokenPerCode'
    BY <1>23 DEF CodeExpires
  <1>24. ASSUME NEW t \in Token,
               TokenExpires(t)
        PROVE  OneUsableTokenPerCode'
    BY <1>24 DEF TokenExpires
  <1>25. CASE JanitorCodes
    BY <1>25, DeletedCode DEF JanitorCodes
  <1>26. CASE JanitorTokens
    BY <1>26 DEF JanitorTokens, Overdue
  <1>27. CASE JanitorSessions
    BY <1>27 DEF JanitorSessions
  <1>28. CASE UNCHANGED vars
    BY <1>28 DEF vars
  <1>29. QED
    BY <1>1, <1>2, <1>3, <1>4, <1>5, <1>6, <1>7, <1>8, <1>9, <1>10,
       <1>11, <1>12, <1>13, <1>14, <1>15, <1>16, <1>17, <1>18, <1>19,
       <1>20, <1>21, <1>22, <1>23, <1>24, <1>25, <1>26, <1>27, <1>28 DEF
       Next, Login, Authorize, Exchange, Rotate, Admin, Clock, Janitor

\* After a reuse the family stays dead.
LEMMA ReuseStep ==
  ASSUME TypeOK, TypeOK', Complete, ExchangeIsExclusive, ReuseEndsFamily,
         TokensMatchTheirCode, [Next]_vars
  PROVE  ReuseEndsFamily'
  <1> USE DEF ExchangeIsExclusive, Exchanging, ReuseEndsFamily, Usable,
         HeldByPair, TokensMatchTheirCode, Complete, RequestComplete,
         UserExists, Go, Done, Ended, Consumable, ClientMatches, Rotatable,
         Idle, NoSession, NoCode, NoToken, GoneSession, GoneToken, Rows,
         TypeOK, SessionRow, CodeRow, TokenRow, ReqRow, users, clients,
         tables
  <1>1. ASSUME NEW r \in Req, NEW u \in User,
               LoginCheck(r, u)
        PROVE  ReuseEndsFamily'
    BY <1>1 DEF LoginCheck
  <1>2. ASSUME NEW r \in Req,
               MfaLookup(r)
        PROVE  ReuseEndsFamily'
    BY <1>2 DEF MfaLookup
  <1>3. ASSUME NEW r \in Req, NEW s \in Session,
               CreateSession(r, s)
        PROVE  ReuseEndsFamily'
    BY <1>3 DEF CreateSession
  <1>4. ASSUME NEW r \in Req, NEW s \in Session, NEW c \in Client,
               AuthorizeRead(r, s, c)
        PROVE  ReuseEndsFamily'
    BY <1>4 DEF AuthorizeRead
  <1>5. ASSUME NEW r \in Req, NEW k \in Code,
               StoreCode(r, k)
        PROVE  ReuseEndsFamily'
    BY <1>5 DEF StoreCode
  <1>6. ASSUME NEW r \in Req, NEW k \in Code, NEW c \in Client,
               ExchangeStart(r, k, c)
        PROVE  ReuseEndsFamily'
    BY <1>6 DEF ExchangeStart
  <1>7. ASSUME NEW r \in Req,
               ExchangeCode(r)
        PROVE  ReuseEndsFamily'
    BY <1>7 DEF ExchangeCode
  <1>8. ASSUME NEW r \in Req,
               ExchangeClaims(r)
        PROVE  ReuseEndsFamily'
    BY <1>8 DEF ExchangeClaims
  <1>9. ASSUME NEW r \in Req, NEW t \in Token,
               StoreRefreshToken(r, t)
        PROVE  ReuseEndsFamily'
    BY <1>9 DEF StoreRefreshToken
  <1>10. ASSUME NEW r \in Req, NEW t \in Token,
               RotateLookup(r, t)
        PROVE  ReuseEndsFamily'
    BY <1>10 DEF RotateLookup
  <1>11. ASSUME NEW r \in Req, NEW t \in Token,
               RotateSwap(r, t)
        PROVE  ReuseEndsFamily'
    BY <1>11, SMTT(30) DEF RotateSwap
  <1>12. ASSUME NEW r \in Req,
               RotateReuse(r)
        PROVE  ReuseEndsFamily'
    BY <1>12 DEF RotateReuse
  <1>13. ASSUME NEW r \in Req,
               RotateClaims(r)
        PROVE  ReuseEndsFamily'
    BY <1>13 DEF RotateClaims
  <1>14. ASSUME NEW r \in Req,
               Abort(r)
        PROVE  ReuseEndsFamily'
    BY <1>14 DEF Abort
  <1>15. ASSUME NEW u \in User,
               LogoutUser(u) \/ UpdateUserPassword(u)
        PROVE  ReuseEndsFamily'
    <2>1. PICK b \in BOOLEAN : InvalidateAll(u, b)
      BY <1>15, KillCases
    <2>2. UNCHANGED <<users, clients, known, breached>>
      BY <1>15, KillCases
    <2>3. QED
      BY <2>1, <2>2, KilledSession, KilledCode, KilledToken, KilledRequest
  <1>16. ASSUME NEW u \in User, NEW st \in StatusInput,
               UpdateUserStatus(u, st)
        PROVE  ReuseEndsFamily'
    BY <1>16 DEF UpdateUserStatus
  <1>17. ASSUME NEW u \in User,
               ArchiveUser(u)
        PROVE  ReuseEndsFamily'
    BY <1>17 DEF ArchiveUser
  <1>18. ASSUME NEW u \in User,
               RestoreUser(u)
        PROVE  ReuseEndsFamily'
    BY <1>18 DEF RestoreUser
  <1>19. ASSUME NEW u \in User,
               HardDeleteUser(u)
        PROVE  ReuseEndsFamily'
    BY <1>19, DeletedCode DEF HardDeleteUser
  <1>20. ASSUME NEW c \in Client, NEW gs \in GrantSets,
               UpdateClient(c, gs)
        PROVE  ReuseEndsFamily'
    BY <1>20 DEF UpdateClient
  <1>21. ASSUME NEW c \in Client,
               DeleteClient(c)
        PROVE  ReuseEndsFamily'
    BY <1>21 DEF DeleteClient
  <1>22. ASSUME NEW s \in Session,
               SessionExpires(s)
        PROVE  ReuseEndsFamily'
    BY <1>22 DEF SessionExpires
  <1>23. ASSUME NEW k \in Code,
               CodeExpires(k)
        PROVE  ReuseEndsFamily'
    BY <1>23 DEF CodeExpires
  <1>24. ASSUME NEW t \in Token,
               TokenExpires(t)
        PROVE  ReuseEndsFamily'
    BY <1>24 DEF TokenExpires
  <1>25. CASE JanitorCodes
    BY <1>25, DeletedCode DEF JanitorCodes
  <1>26. CASE JanitorTokens
    BY <1>26 DEF JanitorTokens, Overdue
  <1>27. CASE JanitorSessions
    BY <1>27 DEF JanitorSessions
  <1>28. CASE UNCHANGED vars
    BY <1>28 DEF vars
  <1>29. QED
    BY <1>1, <1>2, <1>3, <1>4, <1>5, <1>6, <1>7, <1>8, <1>9, <1>10,
       <1>11, <1>12, <1>13, <1>14, <1>15, <1>16, <1>17, <1>18, <1>19,
       <1>20, <1>21, <1>22, <1>23, <1>24, <1>25, <1>26, <1>27, <1>28 DEF
       Next, Login, Authorize, Exchange, Rotate, Admin, Clock, Janitor

\* What a kill-switch invalidated stays so.
LEMMA KillStep ==
  ASSUME TypeOK, TypeOK', KillSwitchIsFinal, [Next]_vars
  PROVE  KillSwitchIsFinal'
  <1> USE DEF KillSwitchIsFinal, Usable, UserExists, Go, Done, Ended,
         Consumable, ClientMatches, Rotatable, Idle, NoSession, NoCode,
         NoToken, GoneSession, GoneToken, Rows, TypeOK, SessionRow, CodeRow,
         TokenRow, ReqRow, users, clients, tables
  <1>1. ASSUME NEW r \in Req, NEW u \in User,
               LoginCheck(r, u)
        PROVE  KillSwitchIsFinal'
    BY <1>1 DEF LoginCheck
  <1>2. ASSUME NEW r \in Req,
               MfaLookup(r)
        PROVE  KillSwitchIsFinal'
    BY <1>2 DEF MfaLookup
  <1>3. ASSUME NEW r \in Req, NEW s \in Session,
               CreateSession(r, s)
        PROVE  KillSwitchIsFinal'
    BY <1>3 DEF CreateSession
  <1>4. ASSUME NEW r \in Req, NEW s \in Session, NEW c \in Client,
               AuthorizeRead(r, s, c)
        PROVE  KillSwitchIsFinal'
    BY <1>4 DEF AuthorizeRead
  <1>5. ASSUME NEW r \in Req, NEW k \in Code,
               StoreCode(r, k)
        PROVE  KillSwitchIsFinal'
    BY <1>5 DEF StoreCode
  <1>6. ASSUME NEW r \in Req, NEW k \in Code, NEW c \in Client,
               ExchangeStart(r, k, c)
        PROVE  KillSwitchIsFinal'
    BY <1>6 DEF ExchangeStart
  <1>7. ASSUME NEW r \in Req,
               ExchangeCode(r)
        PROVE  KillSwitchIsFinal'
    BY <1>7 DEF ExchangeCode
  <1>8. ASSUME NEW r \in Req,
               ExchangeClaims(r)
        PROVE  KillSwitchIsFinal'
    BY <1>8 DEF ExchangeClaims
  <1>9. ASSUME NEW r \in Req, NEW t \in Token,
               StoreRefreshToken(r, t)
        PROVE  KillSwitchIsFinal'
    BY <1>9 DEF StoreRefreshToken
  <1>10. ASSUME NEW r \in Req, NEW t \in Token,
               RotateLookup(r, t)
        PROVE  KillSwitchIsFinal'
    BY <1>10 DEF RotateLookup
  <1>11. ASSUME NEW r \in Req, NEW t \in Token,
               RotateSwap(r, t)
        PROVE  KillSwitchIsFinal'
    BY <1>11, SMTT(30) DEF RotateSwap
  <1>12. ASSUME NEW r \in Req,
               RotateReuse(r)
        PROVE  KillSwitchIsFinal'
    BY <1>12 DEF RotateReuse
  <1>13. ASSUME NEW r \in Req,
               RotateClaims(r)
        PROVE  KillSwitchIsFinal'
    BY <1>13 DEF RotateClaims
  <1>14. ASSUME NEW r \in Req,
               Abort(r)
        PROVE  KillSwitchIsFinal'
    BY <1>14 DEF Abort
  <1>15. ASSUME NEW u \in User,
               LogoutUser(u) \/ UpdateUserPassword(u)
        PROVE  KillSwitchIsFinal'
    <2>1. PICK b \in BOOLEAN : InvalidateAll(u, b)
      BY <1>15, KillCases
    <2>2. UNCHANGED <<users, clients, known, breached>>
      BY <1>15, KillCases
    <2>3. QED
      BY <2>1, <2>2, KilledSession, KilledCode, KilledToken, KilledRequest
  <1>16. ASSUME NEW u \in User, NEW st \in StatusInput,
               UpdateUserStatus(u, st)
        PROVE  KillSwitchIsFinal'
    BY <1>16 DEF UpdateUserStatus
  <1>17. ASSUME NEW u \in User,
               ArchiveUser(u)
        PROVE  KillSwitchIsFinal'
    BY <1>17 DEF ArchiveUser
  <1>18. ASSUME NEW u \in User,
               RestoreUser(u)
        PROVE  KillSwitchIsFinal'
    BY <1>18 DEF RestoreUser
  <1>19. ASSUME NEW u \in User,
               HardDeleteUser(u)
        PROVE  KillSwitchIsFinal'
    BY <1>19, DeletedCode DEF HardDeleteUser
  <1>20. ASSUME NEW c \in Client, NEW gs \in GrantSets,
               UpdateClient(c, gs)
        PROVE  KillSwitchIsFinal'
    BY <1>20 DEF UpdateClient
  <1>21. ASSUME NEW c \in Client,
               DeleteClient(c)
        PROVE  KillSwitchIsFinal'
    BY <1>21 DEF DeleteClient
  <1>22. ASSUME NEW s \in Session,
               SessionExpires(s)
        PROVE  KillSwitchIsFinal'
    BY <1>22 DEF SessionExpires
  <1>23. ASSUME NEW k \in Code,
               CodeExpires(k)
        PROVE  KillSwitchIsFinal'
    BY <1>23 DEF CodeExpires
  <1>24. ASSUME NEW t \in Token,
               TokenExpires(t)
        PROVE  KillSwitchIsFinal'
    BY <1>24 DEF TokenExpires
  <1>25. CASE JanitorCodes
    BY <1>25, DeletedCode DEF JanitorCodes
  <1>26. CASE JanitorTokens
    BY <1>26 DEF JanitorTokens, Overdue
  <1>27. CASE JanitorSessions
    BY <1>27 DEF JanitorSessions
  <1>28. CASE UNCHANGED vars
    BY <1>28 DEF vars
  <1>29. QED
    BY <1>1, <1>2, <1>3, <1>4, <1>5, <1>6, <1>7, <1>8, <1>9, <1>10,
       <1>11, <1>12, <1>13, <1>14, <1>15, <1>16, <1>17, <1>18, <1>19,
       <1>20, <1>21, <1>22, <1>23, <1>24, <1>25, <1>26, <1>27, <1>28 DEF
       Next, Login, Authorize, Exchange, Rotate, Admin, Clock, Janitor

\* A purged user stays without rows.
LEMMA PurgeStep ==
  ASSUME TypeOK, TypeOK', Complete, NoRowOfPurgedUser, [Next]_vars
  PROVE  NoRowOfPurgedUser'
  <1> USE DEF NoRowOfPurgedUser, MapStatus, UserExists, Go, Done, Ended,
         Consumable, ClientMatches, Rotatable, Idle, NoSession, NoCode,
         NoToken, GoneSession, GoneToken, Rows, TypeOK, SessionRow, CodeRow,
         TokenRow, ReqRow, users, clients, tables
  <1>1. ASSUME NEW r \in Req, NEW u \in User,
               LoginCheck(r, u)
        PROVE  NoRowOfPurgedUser'
    BY <1>1 DEF LoginCheck
  <1>2. ASSUME NEW r \in Req,
               MfaLookup(r)
        PROVE  NoRowOfPurgedUser'
    BY <1>2 DEF MfaLookup
  <1>3. ASSUME NEW r \in Req, NEW s \in Session,
               CreateSession(r, s)
        PROVE  NoRowOfPurgedUser'
    BY <1>3 DEF CreateSession
  <1>4. ASSUME NEW r \in Req, NEW s \in Session, NEW c \in Client,
               AuthorizeRead(r, s, c)
        PROVE  NoRowOfPurgedUser'
    BY <1>4 DEF AuthorizeRead
  <1>5. ASSUME NEW r \in Req, NEW k \in Code,
               StoreCode(r, k)
        PROVE  NoRowOfPurgedUser'
    BY <1>5 DEF StoreCode
  <1>6. ASSUME NEW r \in Req, NEW k \in Code, NEW c \in Client,
               ExchangeStart(r, k, c)
        PROVE  NoRowOfPurgedUser'
    BY <1>6 DEF ExchangeStart
  <1>7. ASSUME NEW r \in Req,
               ExchangeCode(r)
        PROVE  NoRowOfPurgedUser'
    BY <1>7 DEF ExchangeCode
  <1>8. ASSUME NEW r \in Req,
               ExchangeClaims(r)
        PROVE  NoRowOfPurgedUser'
    BY <1>8 DEF ExchangeClaims
  <1>9. ASSUME NEW r \in Req, NEW t \in Token,
               StoreRefreshToken(r, t)
        PROVE  NoRowOfPurgedUser'
    BY <1>9 DEF StoreRefreshToken
  <1>10. ASSUME NEW r \in Req, NEW t \in Token,
               RotateLookup(r, t)
        PROVE  NoRowOfPurgedUser'
    BY <1>10 DEF RotateLookup
  <1>11. ASSUME NEW r \in Req, NEW t \in Token,
               RotateSwap(r, t)
        PROVE  NoRowOfPurgedUser'
    <2>1. req[r].tok \in Token /\ tok[req[r].tok].st \in Rows
      BY <1>11 DEF RotateSwap, Complete, RequestComplete
    <2>2. UNCHANGED <<status, sess, code>>
      BY <1>11 DEF RotateSwap
    <2>3. QED
      BY <1>11, <2>1, <2>2, SwapEffect
  <1>12. ASSUME NEW r \in Req,
               RotateReuse(r)
        PROVE  NoRowOfPurgedUser'
    BY <1>12 DEF RotateReuse
  <1>13. ASSUME NEW r \in Req,
               RotateClaims(r)
        PROVE  NoRowOfPurgedUser'
    BY <1>13 DEF RotateClaims
  <1>14. ASSUME NEW r \in Req,
               Abort(r)
        PROVE  NoRowOfPurgedUser'
    BY <1>14 DEF Abort
  <1>15. ASSUME NEW u \in User,
               LogoutUser(u) \/ UpdateUserPassword(u)
        PROVE  NoRowOfPurgedUser'
    <2>1. PICK b \in BOOLEAN : InvalidateAll(u, b)
      BY <1>15, KillCases
    <2>2. UNCHANGED <<users, clients, known, breached>>
      BY <1>15, KillCases
    <2>3. QED
      BY <2>1, <2>2, KilledSession, KilledCode, KilledToken, KilledRequest
  <1>16. ASSUME NEW u \in User, NEW st \in StatusInput,
               UpdateUserStatus(u, st)
        PROVE  NoRowOfPurgedUser'
    BY <1>16 DEF UpdateUserStatus
  <1>17. ASSUME NEW u \in User,
               ArchiveUser(u)
        PROVE  NoRowOfPurgedUser'
    BY <1>17 DEF ArchiveUser
  <1>18. ASSUME NEW u \in User,
               RestoreUser(u)
        PROVE  NoRowOfPurgedUser'
    BY <1>18 DEF RestoreUser
  <1>19. ASSUME NEW u \in User,
               HardDeleteUser(u)
        PROVE  NoRowOfPurgedUser'
    BY <1>19, DeletedCode DEF HardDeleteUser
  <1>20. ASSUME NEW c \in Client, NEW gs \in GrantSets,
               UpdateClient(c, gs)
        PROVE  NoRowOfPurgedUser'
    BY <1>20 DEF UpdateClient
  <1>21. ASSUME NEW c \in Client,
               DeleteClient(c)
        PROVE  NoRowOfPurgedUser'
    BY <1>21 DEF DeleteClient
  <1>22. ASSUME NEW s \in Session,
               SessionExpires(s)
        PROVE  NoRowOfPurgedUser'
    BY <1>22 DEF SessionExpires
  <1>23. ASSUME NEW k \in Code,
               CodeExpires(k)
        PROVE  NoRowOfPurgedUser'
    BY <1>23 DEF CodeExpires
  <1>24. ASSUME NEW t \in Token,
               TokenExpires(t)
        PROVE  NoRowOfPurgedUser'
    BY <1>24 DEF TokenExpires
  <1>25. CASE JanitorCodes
    BY <1>25, DeletedCode DEF JanitorCodes
  <1>26. CASE JanitorTokens
    BY <1>26 DEF JanitorTokens, Overdue
  <1>27. CASE JanitorSessions
    BY <1>27 DEF JanitorSessions
  <1>28. CASE UNCHANGED vars
    BY <1>28 DEF vars
  <1>29. QED
    BY <1>1, <1>2, <1>3, <1>4, <1>5, <1>6, <1>7, <1>8, <1>9, <1>10,
       <1>11, <1>12, <1>13, <1>14, <1>15, <1>16, <1>17, <1>18, <1>19,
       <1>20, <1>21, <1>22, <1>23, <1>24, <1>25, <1>26, <1>27, <1>28 DEF
       Next, Login, Authorize, Exchange, Rotate, Admin, Clock, Janitor

---------------------------------------------------------------------------
LEMMA InitLifecycle ==
  ASSUME Init
  PROVE  LifecycleInv /\ KillSwitchIsFinal /\ NoRowOfPurgedUser
  <1> USE NoneAssumption DEF Init, NoSession, NoCode, NoToken, Idle
  <1>1. TypeOK
    BY DEF TypeOK, SessionRow, CodeRow, TokenRow, ReqRow, Steps
  <1>2. Complete
    BY DEF Complete, RequestComplete, Rows
  <1>3. ExchangeIsExclusive /\ BreachedCodesAreUsed
    BY DEF ExchangeIsExclusive, Exchanging, BreachedCodesAreUsed
  <1>4. TokensMatchTheirCode
    BY DEF TokensMatchTheirCode, Rows
  <1>5. OneUsableTokenPerCode /\ ReuseEndsFamily
    BY DEF OneUsableTokenPerCode, ReuseEndsFamily, Usable
  <1>6. KillSwitchIsFinal /\ NoRowOfPurgedUser
    BY DEF KillSwitchIsFinal, NoRowOfPurgedUser, Usable
  <1>7. QED
    BY <1>1, <1>2, <1>3, <1>4, <1>5, <1>6 DEF LifecycleInv

LEMMA NextLifecycle ==
  ASSUME LifecycleInv, [Next]_vars
  PROVE  LifecycleInv'
  <1>1. TypeOK'
    BY TypeStep DEF LifecycleInv
  <1>2. Complete'
    BY <1>1, CompleteStep DEF LifecycleInv
  <1>3. ExchangeIsExclusive'
    BY <1>1, ExclusiveStep DEF LifecycleInv
  <1>4. BreachedCodesAreUsed'
    BY <1>1, BreachedStep DEF LifecycleInv
  <1>5. TokensMatchTheirCode'
    BY <1>1, MatchStep DEF LifecycleInv
  <1>6. OneUsableTokenPerCode'
    BY <1>1, OneUsableStep DEF LifecycleInv
  <1>7. ReuseEndsFamily'
    BY <1>1, ReuseStep DEF LifecycleInv
  <1>8. QED
    BY <1>1, <1>2, <1>3, <1>4, <1>5, <1>6, <1>7 DEF LifecycleInv

(***************************************************************************)
(* The invariant of the tables and the requests in flight: every statement *)
(* of auth_service.go, the stored procedures and the janitor preserves it, *)
(* for any number of users, clients, rows and requests.                    *)
(***************************************************************************)
THEOREM LifecycleInvariant == Spec => []LifecycleInv
  <1>1. Init => LifecycleInv
    BY InitLifecycle
  <1>2. LifecycleInv /\ [Next]_vars => LifecycleInv'
    BY NextLifecycle
  <1>3. QED
    BY <1>1, <1>2, PTL DEF Spec

\* Rows and requests in flight have the values the schema gives them.
THEOREM TypeCorrect == Spec => []TypeOK
  <1>1. LifecycleInv => TypeOK
    BY DEF LifecycleInv
  <1>2. QED
    BY <1>1, LifecycleInvariant, PTL

\* ExchangeCodeForToken and RotateRefreshToken, raced and retried in any
\* way, leave a code with one usable refresh token at most.
THEOREM OneTokenPerCode == Spec => []OneUsableTokenPerCode
  <1>1. LifecycleInv => OneUsableTokenPerCode
    BY DEF LifecycleInv
  <1>2. QED
    BY <1>1, LifecycleInvariant, PTL

\* After the rotation procedure saw a revoked token, the whole family of its
\* code is dead for good.
THEOREM ReuseIsFinal == Spec => []ReuseEndsFamily
  <1>1. LifecycleInv => ReuseEndsFamily
    BY DEF LifecycleInv
  <1>2. QED
    BY <1>1, LifecycleInvariant, PTL

\* Rotation keeps a token with the user and client of its code, and the
\* primary client never gets one.
THEOREM TokensStayBound == Spec => []TokensMatchTheirCode
  <1>1. LifecycleInv => TokensMatchTheirCode
    BY DEF LifecycleInv
  <1>2. QED
    BY <1>1, LifecycleInvariant, PTL

\* What LogoutUser and UpdateUserPassword found in the tables is never
\* usable again.
THEOREM KillSwitch == Spec => []KillSwitchIsFinal
  <1>1. Init => KillSwitchIsFinal
    BY InitLifecycle
  <1>2. TypeOK /\ TypeOK' /\ KillSwitchIsFinal /\ [Next]_vars
          => KillSwitchIsFinal'
    BY KillStep
  <1>3. QED
    BY <1>1, <1>2, TypeCorrect, PTL DEF Spec

\* Once HardDeleteUser has run, no request in flight brings a row of that
\* user back.
THEOREM PurgeIsComplete == Spec => []NoRowOfPurgedUser
  <1>1. Init => NoRowOfPurgedUser
    BY InitLifecycle
  <1>2. /\ LifecycleInv /\ LifecycleInv' /\ NoRowOfPurgedUser /\ [Next]_vars
        => NoRowOfPurgedUser'
    BY PurgeStep DEF LifecycleInv
  <1>3. QED
    BY <1>1, <1>2, LifecycleInvariant, PTL DEF Spec

---------------------------------------------------------------------------
(***************************************************************************)
(* Every step of the tables is a step of the ledger or leaves it as it is. *)
(* Four actions move a code forward (StoreCode, ExchangeCode,              *)
(* StoreRefreshToken, RotateSwap); whatever else happens, to however many  *)
(* rows at once, can only close codes.                                     *)
(***************************************************************************)

InFlight(k) == \E r \in Req : Exchanging(r, k)

Redeemable(k) == code[k].st = "live" /\ ~code[k].used

\* The phases exclude each other, and a code has one head at most.
PhaseFacts(k) ==
  /\ Heads(k) # {} => phases[k] = "active" /\ ~InFlight(k)
                      /\ ~Redeemable(k) /\ code[k].st # "none"
  /\ InFlight(k) => phases[k] = "redeemed" /\ Heads(k) = {}
                    /\ ~Redeemable(k) /\ code[k].st # "none"
  /\ Redeemable(k) => phases[k] = "pending"
  /\ code[k].st = "none" => phases[k] = "none"
  /\ Heads(k) = {} /\ ~InFlight(k) /\ ~Redeemable(k) /\ code[k].st # "none"
       => phases[k] = "closed"
  /\ Heads(k) = {} => heads[k] = None
  /\ \A t \in Heads(k) : heads[k] = t

AllPhaseFacts == \A k \in Code : PhaseFacts(k)

LEMMA Phases == LifecycleInv => AllPhaseFacts
  <1> SUFFICES ASSUME LifecycleInv, NEW k \in Code
               PROVE  PhaseFacts(k)
    BY DEF AllPhaseFacts
  <1>1. Heads(k) # {} => ~InFlight(k) /\ code[k].used
    BY DEF LifecycleInv, ExchangeIsExclusive, TokensMatchTheirCode, Heads,
           Usable, Rows, InFlight
  <1>2. InFlight(k) => code[k].used
    BY DEF LifecycleInv, ExchangeIsExclusive, InFlight
  <1>3. code[k].st = "none" => ~code[k].used
    BY DEF LifecycleInv, Complete
  <1>4. \A t1, t2 \in Heads(k) : t1 = t2
    BY DEF LifecycleInv, OneUsableTokenPerCode, Heads
  <1>5. \A t \in Heads(k) : heads[k] = t
    BY <1>4 DEF heads, HeadOf, Heads
  <1>6. Heads(k) = {} => heads[k] = None
    BY DEF heads, HeadOf
  <1>7. QED
    BY <1>1, <1>2, <1>3, <1>5, <1>6 DEF PhaseFacts, phases, PhaseOf, InFlight,
       Redeemable

LEMMA PhasesNext == LifecycleInv' => AllPhaseFacts'
  BY Phases, PTL

\* The four things a phase and a head are read from.
LEMMA SamePhase ==
  ASSUME LifecycleInv, LifecycleInv', NEW k \in Code,
         Heads(k)' = Heads(k), InFlight(k)' <=> InFlight(k),
         Redeemable(k)' <=> Redeemable(k),
         code'[k].st = "none" <=> code[k].st = "none"
  PROVE  phases'[k] = phases[k] /\ heads'[k] = heads[k]
  <1>1. PhaseFacts(k) /\ PhaseFacts(k)'
    BY Phases, PhasesNext DEF AllPhaseFacts
  <1>2. CASE Heads(k) = {}
    BY <1>1, <1>2 DEF PhaseFacts
  <1>3. CASE Heads(k) # {}
    BY <1>1, <1>3 DEF PhaseFacts
  <1>4. QED
    BY <1>2, <1>3

\* Usable tokens have a code, and rows that were never inserted are not
\* usable.
LEMMA UsableHasRoot ==
  ASSUME LifecycleInv, NEW t \in Token, Usable(t)
  PROVE  tok[t].root \in Code /\ t \in Heads(tok[t].root)
  BY DEF LifecycleInv, TokensMatchTheirCode, Usable, Rows, Heads

\* What every action but the four promises.
Closing ==
  /\ \A t \in Token : Usable(t)' => Usable(t) /\ tok'[t].root = tok[t].root
  /\ \A t \in Token : tok'[t].st = "none" <=> tok[t].st = "none"
  /\ \A k \in Code : InFlight(k)' => InFlight(k)
  /\ \A k \in Code : Redeemable(k)' => Redeemable(k)
  /\ \A k \in Code : code'[k].st = "none" <=> code[k].st = "none"

LEMMA ClosingStep ==
  ASSUME LifecycleInv, LifecycleInv', Closing
  PROVE  Ledger!Next
  <1> DEFINE K == {k \in Code : phases'[k] # phases[k]}
  <1>1. \A k \in Code : Heads(k)' \subseteq Heads(k)
    BY DEF Closing, Heads
  <1>2. ASSUME NEW k \in Code, Heads(k)' # {}
        PROVE  Heads(k)' = Heads(k)
    BY <1>1, <1>2, Phases DEF AllPhaseFacts, PhaseFacts
  <1>3. ASSUME NEW k \in Code
        PROVE  \/ phases'[k] = phases[k] /\ heads'[k] = heads[k]
               \/ /\ phases[k] \in {"pending", "redeemed", "active"}
                  /\ phases'[k] = "closed" /\ heads'[k] = None
    <2>1. PhaseFacts(k) /\ PhaseFacts(k)'
      BY Phases, PhasesNext DEF AllPhaseFacts
    <2>2. CASE Heads(k)' # {}
      BY <1>2, <2>1, <2>2 DEF PhaseFacts
    <2>3. CASE Heads(k)' = {}
      BY <2>1, <2>3 DEF PhaseFacts, Closing
    <2>4. QED
      BY <2>2, <2>3
  <1>4. \A k \in Code : k \in K => phases'[k] = "closed" /\ heads'[k] = None
    BY <1>3
  <1>5. ASSUME NEW t \in Token
        PROVE  tok'[t].st # "none" /\ ~Usable(t)' <=>
                 \/ tok[t].st # "none" /\ ~Usable(t)
                 \/ \E k \in K : phases[k] = "active" /\ t = heads[k]
    <2>1. ASSUME Usable(t), ~Usable(t)'
          PROVE  \E k \in K : phases[k] = "active" /\ t = heads[k]
      <3>1. PICK k \in Code : t \in Heads(k)
        BY <2>1, UsableHasRoot
      <3>2. phases[k] = "active" /\ t = heads[k]
        BY <3>1, Phases DEF AllPhaseFacts, PhaseFacts
      <3>3. t \notin Heads(k)'
        BY <2>1 DEF Heads
      <3>4. Heads(k)' = {}
        BY <1>1, <1>2, <3>1, <3>3
      <3>5. phases'[k] # "active"
        BY <3>4 DEF phases, PhaseOf
      <3>6. QED
        BY <3>1, <3>2, <3>5
    <2>2. ASSUME NEW k \in K, phases[k] = "active", t = heads[k]
          PROVE  tok'[t].st # "none" /\ ~Usable(t)'
      <3>1. Heads(k) # {}
        BY <2>2 DEF phases, PhaseOf
      <3>2. t \in Heads(k)
        BY <2>2, <3>1, Phases DEF AllPhaseFacts, PhaseFacts
      <3>3. Heads(k)' = {}
        BY <1>4 DEF phases, PhaseOf
      <3>4. Usable(t) /\ tok[t].root = k
        BY <3>2 DEF Heads
      <3>5. ~Usable(t)'
        BY <3>3, <3>4 DEF Closing, Heads
      <3>6. tok[t].st # "none"
        BY <3>4 DEF Usable
      <3>7. QED
        BY <3>5, <3>6 DEF Closing
    <2>3. QED
      BY <2>1, <2>2 DEF Closing
  <1>6. \A k \in K : phases[k] \in {"pending", "redeemed", "active"}
    BY <1>3
  <1>7. phases' =
          [k \in Code |-> IF k \in K THEN "closed"
                                     ELSE phases[k]]
    BY <1>4 DEF phases
  <1>8. heads' =
          [k \in Code |-> IF k \in K THEN None
                                     ELSE heads[k]]
    BY <1>3, <1>4 DEF heads
  <1>9. retired' =
          retired \cup
          {heads[k] : k \in {j \in K : phases[j] = "active"}}
    <2>1. \A k \in K : phases[k] = "active" => heads[k] \in Token
      BY Phases DEF AllPhaseFacts, PhaseFacts, phases, PhaseOf, Heads
    <2>2. QED
      BY <1>5, <2>1 DEF retired
  <1>10. Ledger!Close(K)
    BY <1>6, <1>7, <1>8, <1>9 DEF Ledger!Close
  <1>11. QED
    BY <1>10 DEF Ledger!Next

---------------------------------------------------------------------------
\* The actions that move a code forward.
LEMMA StoreCodeIssues ==
  ASSUME LifecycleInv, LifecycleInv', NEW r \in Req, NEW k \in Code,
         StoreCode(r, k)
  PROVE  Ledger!Next
  <1>1. TypeOK /\ tok' = tok /\ code[k].st = "none"
    BY DEF StoreCode, LifecycleInv
  <1>2. code'[k].st = "live" /\ ~code'[k].used
        /\ \A j \in Code \ {k} : code'[j] = code[j]
    BY <1>1 DEF StoreCode, TypeOK
  <1>3. \A j \in Code : InFlight(j)' = InFlight(j)
    BY <1>1 DEF StoreCode, InFlight, Exchanging, Done, Go, Idle, TypeOK
  <1>4. \A j \in Code : Heads(j)' = Heads(j)
    BY <1>1 DEF Heads, Usable
  <1>5. phases'[k] = "pending" /\ phases[k] = "none" /\ heads'[k] = heads[k]
    BY <1>1, <1>2, <1>4, Phases, PhasesNext DEF AllPhaseFacts, PhaseFacts,
       Redeemable
  <1>6. \A j \in Code \ {k} : phases'[j] = phases[j] /\ heads'[j] = heads[j]
    <2>1. TAKE j \in Code \ {k}
    <2>2. Redeemable(j)' <=> Redeemable(j)
      BY <1>2 DEF Redeemable
    <2>3. code'[j].st = "none" <=> code[j].st = "none"
      BY <1>2
    <2>4. QED
      BY <1>3, <1>4, <2>2, <2>3, SamePhase
  <1>7. phases' = [phases EXCEPT ![k] = "pending"] /\ heads' = heads
    BY <1>5, <1>6 DEF phases, heads
  <1>8. retired' = retired
    BY <1>1 DEF retired, Usable
  <1>9. Ledger!Issue(k)
    BY <1>5, <1>7, <1>8 DEF Ledger!Issue
  <1>10. QED
    BY <1>9 DEF Ledger!Next

LEMMA ExchangeCodeRedeems ==
  ASSUME LifecycleInv, LifecycleInv', NEW r \in Req, ExchangeCode(r)
  PROVE  Ledger!Next
  <1>1. /\ TypeOK /\ tok' = tok /\ req[r].code \in Code
        /\ req[r].pc = "xchg_consume"
    BY DEF ExchangeCode, LifecycleInv, Complete, RequestComplete
  <1>2. PICK k \in Code : k = req[r].code
    BY <1>1
  <1>3. Redeemable(k) /\ ~Redeemable(k)'
    BY <1>1, <1>2, ExchangeEffect DEF Redeemable
  <1>4. \A j \in Code \ {k} : code'[j].st = code[j].st
                             /\ (code'[j].used <=> code[j].used)
    BY <1>1, <1>2, ExchangeEffect
  <1>5. code'[k].st = code[k].st
    BY <1>1, <1>2, ExchangeEffect
  <1>6. \A j \in Code : Heads(j)' = Heads(j)
    BY <1>1 DEF Heads, Usable
  <1>7. retired' = retired
    BY <1>1 DEF retired, Usable
  <1>8. CASE req'[r] = Idle
    <2>1. \A j \in Code : InFlight(j)' => InFlight(j)
      BY <1>1, <1>8, ExchangeEffect DEF InFlight, Exchanging, Idle
    <2>2. Closing
      BY <1>1, <1>3, <1>4, <1>5, <2>1 DEF Closing, Redeemable, Usable
    <2>3. QED
      BY <2>2, ClosingStep
  <1>9. CASE req'[r] # Idle
    <2>1. Exchanging(r, k)' /\ \A x \in Req \ {r} : req'[x] = req[x]
      BY <1>1, <1>2, <1>9, ExchangeEffect DEF Exchanging
    <2>2. InFlight(k)' /\ \A j \in Code \ {k} : InFlight(j)' = InFlight(j)
      BY <1>1, <1>2, <1>9, <2>1, ExchangeEffect DEF InFlight, Exchanging
    <2>3. /\ phases[k] = "pending" /\ phases'[k] = "redeemed"
          /\ heads'[k] = heads[k]
      BY <1>3, <1>6, <2>2, Phases, PhasesNext DEF AllPhaseFacts, PhaseFacts
    <2>4. \A j \in Code \ {k} : phases'[j] = phases[j]
                               /\ heads'[j] = heads[j]
      <3>1. TAKE j \in Code \ {k}
      <3>2. Redeemable(j)' <=> Redeemable(j)
        BY <1>4 DEF Redeemable
      <3>3. code'[j].st = "none" <=> code[j].st = "none"
        BY <1>4
      <3>4. QED
        BY <1>6, <2>2, <3>2, <3>3, SamePhase
    <2>5. phases' = [phases EXCEPT ![k] = "redeemed"] /\ heads' = heads
      BY <2>3, <2>4 DEF phases, heads
    <2>6. Ledger!Redeem(k)
      BY <1>7, <2>3, <2>5 DEF Ledger!Redeem
    <2>7. QED
      BY <2>6 DEF Ledger!Next
  <1>10. QED
    BY <1>8, <1>9

\* A token whose row was never inserted was never a head nor retired.
LEMMA FreshToken ==
  ASSUME LifecycleInv, NEW t \in Token, tok[t].st = "none"
  PROVE  Ledger!Fresh(t)
  <1>1. t \notin retired
    BY DEF retired
  <1>2. ASSUME NEW k \in Code
        PROVE  heads[k] # t
    <2>1. PhaseFacts(k)
      BY Phases DEF AllPhaseFacts
    <2>2. t \notin Heads(k)
      BY DEF Heads, Usable
    <2>3. CASE Heads(k) = {}
      BY <2>1, <2>3, NoneAssumption DEF PhaseFacts
    <2>4. CASE Heads(k) # {}
      BY <2>1, <2>2, <2>4 DEF PhaseFacts
    <2>5. QED
      BY <2>3, <2>4
  <1>3. QED
    BY <1>1, <1>2 DEF Ledger!Fresh

LEMMA StoreRefreshTokenActivates ==
  ASSUME LifecycleInv, LifecycleInv', NEW r \in Req, NEW t \in Token,
         StoreRefreshToken(r, t)
  PROVE  Ledger!Next
  <1>1. /\ TypeOK /\ code' = code /\ req[r].code \in Code
        /\ req[r].pc = "xchg_store" /\ tok[t].st = "none"
    BY DEF StoreRefreshToken, LifecycleInv, Complete, RequestComplete
  <1>2. PICK k \in Code : k = req[r].code
    BY <1>1
  <1>3. /\ tok'[t].st = "live" /\ ~tok'[t].revoked /\ tok'[t].root = k
        /\ \A x \in Token \ {t} : tok'[x] = tok[x]
    BY <1>1, <1>2 DEF StoreRefreshToken, TypeOK
  <1>4. ~Usable(t) /\ Usable(t)'
    BY <1>1, <1>3 DEF Usable
  <1>5. Exchanging(r, k)
    BY <1>1, <1>2 DEF Exchanging
  <1>6. /\ \A x \in Req \ {r} : req'[x] = req[x]
        /\ \A j \in Code : ~Exchanging(r, j)'
    BY <1>1 DEF StoreRefreshToken, Done, Go, Idle, TypeOK, Exchanging
  <1>7. phases[k] = "redeemed"
    BY <1>5, Phases DEF AllPhaseFacts, PhaseFacts, InFlight
  <1>8. t \in Heads(k)'
    BY <1>3, <1>4 DEF Heads
  <1>9. phases'[k] = "active" /\ heads'[k] = t
    BY <1>8, PhasesNext DEF AllPhaseFacts, PhaseFacts
  <1>10. \A j \in Code \ {k} :
           phases'[j] = phases[j] /\ heads'[j] = heads[j]
    <2>1. TAKE j \in Code \ {k}
    <2>2. ~Exchanging(r, j)
      BY <1>2 DEF Exchanging
    <2>3. \A x \in Req \ {r} : Exchanging(x, j)' <=> Exchanging(x, j)
      BY <1>6 DEF Exchanging
    <2>4. InFlight(j)' <=> InFlight(j)
      BY <1>6, <2>2, <2>3 DEF InFlight
    <2>5. \A x \in Token \ {t} : Usable(x)' <=> Usable(x)
      BY <1>3 DEF Usable
    <2>6. Heads(j)' = Heads(j)
      BY <1>3, <1>4, <2>5 DEF Heads
    <2>7. QED
      BY <1>1, <2>4, <2>6, SamePhase DEF Redeemable
  <1>11. phases' = [phases EXCEPT ![k] = "active"]
         /\ heads' = [heads EXCEPT ![k] = t]
    BY <1>9, <1>10 DEF phases, heads
  <1>12. retired' = retired
    BY <1>1, <1>3, <1>4 DEF retired, Usable
  <1>13. Ledger!Fresh(t)
    BY <1>1, FreshToken
  <1>14. Ledger!Activate(k, t)
    BY <1>7, <1>11, <1>12, <1>13 DEF Ledger!Activate
  <1>15. QED
    BY <1>14 DEF Ledger!Next

LEMMA RotateSwapReplaces ==
  ASSUME LifecycleInv, LifecycleInv', NEW r \in Req, NEW t \in Token,
         RotateSwap(r, t)
  PROVE  Ledger!Next
  <1>1. /\ TypeOK /\ code' = code /\ req[r].tok \in Token
        /\ req[r].pc = "rot_proc" /\ tok[t].st = "none"
        /\ Rotatable(req[r].tok)
    BY DEF RotateSwap, LifecycleInv, Complete, RequestComplete
  <1>2. PICK old \in Token : old = req[r].tok
    BY <1>1
  <1>3. Usable(old) /\ tok[old].root \in Code /\ old \in Heads(tok[old].root)
    BY <1>1, <1>2, UsableHasRoot DEF Usable, Rotatable
  <1>4. PICK k \in Code : k = tok[old].root
    BY <1>3
  <1>5. /\ t # old /\ tok'[t].st = "live" /\ tok'[t].root = k
        /\ tok'[old].st = tok[old].st /\ tok'[old].revoked
        /\ \A x \in Token \ {t, old} : tok'[x] = tok[x]
    BY <1>1, <1>2, <1>4, SwapEffect
  <1>6. ~tok'[t].revoked
    <2>1. tok[old] \in TokenRow /\ ~tok[old].revoked
      BY <1>1, <1>2 DEF TypeOK, Rotatable
    <2>2. tok'[t] = [tok[old] EXCEPT !.st = "live", !.killed = FALSE]
      BY <1>1, <1>2, <1>5 DEF RotateSwap, TypeOK
    <2>3. QED
      BY <2>1, <2>2 DEF TokenRow
  <1>7. ~Usable(t) /\ Usable(t)' /\ ~Usable(old)'
        /\ \A x \in Token \ {t, old} : Usable(x)' <=> Usable(x)
    BY <1>1, <1>5, <1>6 DEF Usable
  <1>8. \A x \in Req, j \in Code : Exchanging(x, j)' <=> Exchanging(x, j)
    <2>1. /\ \A x \in Req \ {r} : req'[x] = req[x]
          /\ req'[r].pc = "rot_claims"
      BY <1>1 DEF RotateSwap, Go, TypeOK, ReqRow
    <2>2. QED
      BY <1>1, <2>1 DEF Exchanging
  <1>9. phases[k] = "active" /\ heads[k] = old
    BY <1>3, <1>4, Phases DEF AllPhaseFacts, PhaseFacts
  <1>10. t \in Heads(k)'
    BY <1>5, <1>7 DEF Heads
  <1>11. phases'[k] = "active" /\ heads'[k] = t
    BY <1>10, PhasesNext DEF AllPhaseFacts, PhaseFacts
  <1>12. \A j \in Code \ {k} :
           phases'[j] = phases[j] /\ heads'[j] = heads[j]
    <2>1. TAKE j \in Code \ {k}
    <2>2. InFlight(j)' <=> InFlight(j)
      BY <1>8 DEF InFlight
    <2>3. Heads(j)' = Heads(j)
      BY <1>4, <1>5, <1>7 DEF Heads
    <2>4. QED
      BY <1>1, <2>2, <2>3, SamePhase DEF Redeemable
  <1>13. phases' = phases /\ heads' = [heads EXCEPT ![k] = t]
    BY <1>9, <1>11, <1>12 DEF phases, heads
  <1>14. retired' = retired \cup {heads[k]}
    <2>1. tok[old].st # "none" /\ tok'[old].st # "none"
      BY <1>3, <1>5 DEF Usable
    <2>2. \A x \in Token : x \in retired' <=> x \in retired \/ x = old
      BY <1>1, <1>5, <1>7, <2>1 DEF retired
    <2>3. QED
      BY <1>9, <2>2 DEF retired
  <1>15. Ledger!Fresh(t)
    BY <1>1, FreshToken
  <1>16. Ledger!Replace(k, t)
    BY <1>9, <1>13, <1>14, <1>15 DEF Ledger!Replace
  <1>17. QED
    BY <1>16 DEF Ledger!Next

---------------------------------------------------------------------------
\* A request that is not exchanging a code, or stays with the one it has.
LEMMA RequestsClosing ==
  ASSUME LifecycleInv, NEW r \in Req, code' = code, tok' = tok,
         \A x \in Req \ {r} : req'[x] = req[x],
         \/ req'[r].pc \notin {"xchg_claims", "xchg_store"}
         \/ /\ req[r].pc \in {"xchg_claims", "xchg_store"}
            /\ req'[r].code = req[r].code
  PROVE  Closing
  <1>1. \A k \in Code : InFlight(k)' => InFlight(k)
    BY DEF InFlight, Exchanging
  <1>2. QED
    BY <1>1 DEF Closing, Redeemable, Usable

LEMMA RequestStepsClose ==
  ASSUME LifecycleInv, NEW r \in Req,
         \/ \E u \in User : LoginCheck(r, u)
         \/ MfaLookup(r)
         \/ \E s \in Session : CreateSession(r, s)
         \/ \E s \in Session, c \in Client : AuthorizeRead(r, s, c)
         \/ \E k \in Code, c \in Client : ExchangeStart(r, k, c)
         \/ ExchangeClaims(r)
         \/ \E t \in Token : RotateLookup(r, t)
         \/ RotateClaims(r)
         \/ Abort(r)
  PROVE  Closing
  <1> USE DEF Go, Done, Idle, tables
  <1>1. TypeOK
    BY DEF LifecycleInv
  <1>2. req \in [Req -> ReqRow]
    BY <1>1 DEF TypeOK
  <1>3. PICK row : Go(r, row)
    BY DEF LoginCheck, MfaLookup, CreateSession, AuthorizeRead,
       ExchangeStart, ExchangeClaims, RotateLookup, RotateClaims, Abort
  <1>4. /\ req'[r] = row
        /\ \A x \in Req \ {r} : req'[x] = req[x]
    BY <1>2, <1>3
  <1>5. code' = code /\ tok' = tok
    BY DEF LoginCheck, MfaLookup, CreateSession, AuthorizeRead,
       ExchangeStart, ExchangeClaims, RotateLookup, RotateClaims, Abort
  <1>6. \/ req'[r].pc \notin {"xchg_claims", "xchg_store"}
        \/ /\ req[r].pc \in {"xchg_claims", "xchg_store"}
           /\ req'[r].code = req[r].code
    <2>1. req[r] \in ReqRow
      BY <1>2
    <2>2. ASSUME NEW u \in User, LoginCheck(r, u)
          PROVE  req'[r].pc = "mfa"
      BY <1>2, <2>2 DEF LoginCheck
    <2>3. ASSUME MfaLookup(r)
          PROVE  req'[r].pc = "mfa_ok"
      BY <1>2, <2>1, <2>3 DEF MfaLookup, ReqRow
    <2>4. ASSUME NEW s \in Session, CreateSession(r, s)
          PROVE  req'[r].pc \in {"idle", "mfa"}
      BY <1>2, <2>1, <2>4 DEF CreateSession, ReqRow
    <2>5. ASSUME NEW s \in Session, NEW c \in Client, AuthorizeRead(r, s, c)
          PROVE  req'[r].pc = "authz_store"
      BY <1>2, <2>5 DEF AuthorizeRead
    <2>6. ASSUME NEW k \in Code, NEW c \in Client, ExchangeStart(r, k, c)
          PROVE  req'[r].pc = "xchg_consume"
      BY <1>2, <2>6 DEF ExchangeStart
    <2>7. ASSUME ExchangeClaims(r)
          PROVE  \/ req'[r].pc = "idle"
                 \/ req[r].pc = "xchg_claims" /\ req'[r].code = req[r].code
      BY <1>2, <2>1, <2>7 DEF ExchangeClaims, ReqRow
    <2>8. ASSUME NEW t \in Token, RotateLookup(r, t)
          PROVE  req'[r].pc = "rot_proc"
      BY <1>2, <2>8 DEF RotateLookup
    <2>9. ASSUME RotateClaims(r) \/ Abort(r)
          PROVE  req'[r].pc = "idle"
      BY <1>2, <2>9 DEF RotateClaims, Abort
    <2>10. QED
      BY <2>2, <2>3, <2>4, <2>5, <2>6, <2>7, <2>8, <2>9
  <1>7. QED
    BY <1>4, <1>5, <1>6, RequestsClosing

\* The kill-switch, administration, the reuse branch, the clock and the
\* janitor.  Each closes rows and leaves requests where they are.
LEMMA KillCloses ==
  ASSUME LifecycleInv, NEW u \in User, LogoutUser(u) \/ UpdateUserPassword(u)
  PROVE  Closing
  <1>1. TypeOK
    BY DEF LifecycleInv
  <1>2. PICK b \in BOOLEAN : InvalidateAll(u, b)
    BY KillCases
  <1>3. \A k \in Code : InFlight(k)' => InFlight(k)
    BY <1>1, <1>2, KilledRequest DEF InFlight, Exchanging
  <1>4. \A t \in Token : /\ tok'[t].st = tok[t].st
                         /\ tok'[t].root = tok[t].root
                         /\ tok[t].revoked => tok'[t].revoked
    BY <1>1, <1>2, KilledToken
  <1>5. \A k \in Code : /\ code'[k].used = code[k].used
                        /\ code'[k].st # code[k].st =>
                             code[k].st = "live" /\ code'[k].st = "expired"
    BY <1>1, <1>2, KilledCode
  <1>6. \A k \in Code : Redeemable(k)' => Redeemable(k)
    BY <1>5 DEF Redeemable
  <1>7. \A t \in Token : Usable(t)' => Usable(t)
    BY <1>4 DEF Usable
  <1>8. QED
    BY <1>3, <1>4, <1>5, <1>6, <1>7 DEF Closing

LEMMA RowStepsClose ==
  ASSUME LifecycleInv,
         \/ \E r \in Req : RotateReuse(r)
         \/ \E u \in User, st \in StatusInput : UpdateUserStatus(u, st)
         \/ \E u \in User :
              ArchiveUser(u) \/ RestoreUser(u) \/ HardDeleteUser(u)
         \/ \E c \in Client, gs \in GrantSets : UpdateClient(c, gs)
         \/ \E c \in Client : DeleteClient(c)
         \/ Clock \/ Janitor \/ UNCHANGED vars
  PROVE  Closing
  <1>1. /\ tok \in [Token -> TokenRow] /\ code \in [Code -> CodeRow]
        /\ req \in [Req -> ReqRow]
    BY DEF LifecycleInv, TypeOK
  <1>2. /\ \A k \in Code : code[k].st = "none" => code[k].user = None
        /\ \A t \in Token : tok[t].st = "none" => tok[t].user = None
    BY DEF LifecycleInv, Complete
  <1> DEFINE TokensFall ==
        /\ \A t \in Token :
             Usable(t)' => Usable(t) /\ tok'[t].root = tok[t].root
        /\ \A t \in Token : tok'[t].st = "none" <=> tok[t].st = "none"
      CodesFall ==
        /\ \A k \in Code : Redeemable(k)' => Redeemable(k)
        /\ \A k \in Code : code'[k].st = "none" <=> code[k].st = "none"
      RequestsStay == \A k \in Code : InFlight(k)' => InFlight(k)
  <1>3. SUFFICES TokensFall /\ CodesFall /\ RequestsStay
    BY DEF Closing
  <1>4. tok' = tok => TokensFall
    BY DEF Usable
  <1>5. code' = code => CodesFall
    BY DEF Redeemable
  <1>6. req' = req => RequestsStay
    BY DEF InFlight, Exchanging
  <1>7. ASSUME NEW k \in Code
        PROVE  /\ GoneCode(code[k]).st = "gone"
               /\ GoneToken.st = "gone"
    BY <1>1 DEF GoneCode, GoneToken, NoToken, CodeRow
  <1>8. ASSUME NEW r \in Req, RotateReuse(r)
        PROVE  TokensFall /\ CodesFall /\ RequestsStay
    <2>1. code' = code
      BY <1>8 DEF RotateReuse
    <2>2. req'[r].pc = "idle" /\ \A x \in Req \ {r} : req'[x] = req[x]
      BY <1>1, <1>8 DEF RotateReuse, Done, Go, Idle
    <2>3. RequestsStay
      BY <2>2 DEF InFlight, Exchanging
    <2>4. ASSUME NEW t \in Token
          PROVE  /\ tok'[t].st = tok[t].st /\ tok'[t].root = tok[t].root
                 /\ tok[t].revoked => tok'[t].revoked
      BY <1>1, <1>8 DEF RotateReuse, TokenRow
    <2>5. TokensFall
      BY <2>4 DEF Usable
    <2>6. QED
      BY <1>5, <2>1, <2>3, <2>5
  <1>9. ASSUME \/ \E u \in User :
                    \/ \E st \in StatusInput : UpdateUserStatus(u, st)
                    \/ RestoreUser(u)
               \/ \E c \in Client :
                    \/ \E gs \in GrantSets : UpdateClient(c, gs)
                    \/ DeleteClient(c)
               \/ \E s \in Session : SessionExpires(s)
               \/ JanitorSessions \/ UNCHANGED vars
        PROVE  tok' = tok /\ code' = code /\ req' = req
    BY <1>9 DEF UpdateUserStatus, RestoreUser, UpdateClient, DeleteClient,
       SessionExpires, JanitorSessions, vars, tables
  <1>10. ASSUME NEW u \in User, ArchiveUser(u)
         PROVE  TokensFall /\ CodesFall /\ RequestsStay
    <2>1. req' = req
      BY <1>10 DEF ArchiveUser
    <2>2. ASSUME NEW t \in Token
          PROVE  /\ tok'[t].root = tok[t].root
                 /\ tok'[t].revoked = tok[t].revoked
                 /\ \/ tok'[t].st = tok[t].st
                    \/ tok[t].st = "live" /\ tok'[t].st = "now"
      BY <1>1, <1>10 DEF ArchiveUser, TokenRow
    <2>3. ASSUME NEW k \in Code
          PROVE  /\ code'[k].used = code[k].used
                 /\ \/ code'[k].st = code[k].st
                    \/ code[k].st = "live" /\ code'[k].st = "expired"
      BY <1>1, <1>10 DEF ArchiveUser, CodeRow
    <2>4. QED
      BY <1>6, <2>1, <2>2, <2>3 DEF Usable, Redeemable
  <1>11. ASSUME NEW u \in User, HardDeleteUser(u)
         PROVE  TokensFall /\ CodesFall /\ RequestsStay
    <2>1. req' = req
      BY <1>11 DEF HardDeleteUser
    <2>2. ASSUME NEW t \in Token
          PROVE  \/ tok'[t] = tok[t]
                 \/ tok[t].user = u /\ tok'[t] = GoneToken
      BY <1>11 DEF HardDeleteUser
    <2>3. ASSUME NEW k \in Code
          PROVE  \/ code'[k] = code[k]
                 \/ code[k].user = u /\ code'[k] = GoneCode(code[k])
      BY <1>11 DEF HardDeleteUser
    <2>4. TokensFall
      BY <1>2, <1>7, <2>2, NoneAssumption DEF Usable, GoneToken, NoToken
    <2>5. CodesFall
      BY <1>2, <1>7, <2>3, NoneAssumption DEF Redeemable
    <2>6. QED
      BY <1>6, <2>1, <2>4, <2>5
  <1>12. ASSUME NEW k \in Code, CodeExpires(k)
         PROVE  TokensFall /\ CodesFall /\ RequestsStay
    <2>1. ASSUME NEW j \in Code
          PROVE  /\ code'[j].used = code[j].used
                 /\ \/ code'[j].st = code[j].st
                    \/ code[j].st = "live" /\ code'[j].st = "expired"
      BY <1>1, <1>12 DEF CodeExpires, CodeRow
    <2>2. tok' = tok /\ req' = req
      BY <1>12 DEF CodeExpires
    <2>3. CodesFall
      BY <2>1 DEF Redeemable
    <2>4. QED
      BY <1>4, <1>6, <2>2, <2>3
  <1>13. ASSUME NEW t \in Token, TokenExpires(t)
         PROVE  TokensFall /\ CodesFall /\ RequestsStay
    <2>1. ASSUME NEW x \in Token
          PROVE  /\ tok'[x].root = tok[x].root
                 /\ tok'[x].revoked = tok[x].revoked
                 /\ \/ tok'[x].st = tok[x].st
                    \/ /\ tok[x].st \in {"live", "now"}
                       /\ tok'[x].st \in {"now", "past"}
      BY <1>1, <1>13 DEF TokenExpires, TokenRow
    <2>2. code' = code /\ req' = req
      BY <1>13 DEF TokenExpires
    <2>3. TokensFall
      BY <2>1 DEF Usable
    <2>4. QED
      BY <1>5, <1>6, <2>2, <2>3
  <1>14. ASSUME JanitorCodes
         PROVE  TokensFall /\ CodesFall /\ RequestsStay
    <2>1. ASSUME NEW k \in Code
          PROVE  \/ code'[k] = code[k]
                 \/ code[k].st = "expired" /\ code'[k] = GoneCode(code[k])
      BY <1>14 DEF JanitorCodes
    <2>2. tok' = tok /\ req' = req
      BY <1>14 DEF JanitorCodes
    <2>3. CodesFall
      BY <1>7, <2>1 DEF Redeemable
    <2>4. QED
      BY <1>4, <1>6, <2>2, <2>3
  <1>15. ASSUME JanitorTokens
         PROVE  TokensFall /\ CodesFall /\ RequestsStay
    <2>1. ASSUME NEW t \in Token
          PROVE  \/ tok'[t] = tok[t]
                 \/ tok[t].st = "past" /\ tok'[t] = GoneToken
      BY <1>15 DEF JanitorTokens, Overdue
    <2>2. code' = code /\ req' = req
      BY <1>15 DEF JanitorTokens, Overdue
    <2>3. TokensFall
      BY <2>1 DEF Usable, GoneToken, NoToken
    <2>4. QED
      BY <1>5, <1>6, <2>2, <2>3
  <1>16. QED
    <2>1. (tok' = tok /\ code' = code /\ req' = req)
            => TokensFall /\ CodesFall /\ RequestsStay
      BY <1>4, <1>5, <1>6
    <2> HIDE DEF TokensFall, CodesFall, RequestsStay
    <2>2. QED
      BY <1>8, <1>9, <1>10, <1>11, <1>12, <1>13, <1>14, <1>15, <2>1
         DEF Clock, Janitor

LEMMA LedgerStep ==
  ASSUME LifecycleInv, LifecycleInv', [Next]_vars
  PROVE  Ledger!Next
  <1>1. ASSUME Closing
        PROVE  Ledger!Next
    BY <1>1, ClosingStep
  <1>2. CASE UNCHANGED vars
    BY <1>1, <1>2, RowStepsClose
  <1>3. CASE Login
    BY <1>1, <1>3, RequestStepsClose DEF Login
  <1>4. CASE Authorize
    BY <1>1, <1>4, RequestStepsClose, StoreCodeIssues DEF Authorize
  <1>5. CASE Exchange
    BY <1>1, <1>5, RequestStepsClose, ExchangeCodeRedeems,
       StoreRefreshTokenActivates DEF Exchange
  <1>6. CASE Rotate
    BY <1>1, <1>6, RequestStepsClose, RowStepsClose, RotateSwapReplaces
       DEF Rotate
  <1>7. CASE \E r \in Req : Abort(r)
    BY <1>1, <1>7, RequestStepsClose
  <1>8. CASE Admin
    BY <1>1, <1>8, KillCloses, RowStepsClose DEF Admin
  <1>9. CASE Clock \/ Janitor
    BY <1>1, <1>9, RowStepsClose
  <1>10. QED
    BY <1>2, <1>3, <1>4, <1>5, <1>6, <1>7, <1>8, <1>9 DEF Next

LEMMA LedgerInit ==
  ASSUME Init
  PROVE  Ledger!Init
  <1>1. LifecycleInv
    BY InitLifecycle
  <1>2. \A k \in Code : code[k].st = "none"
    BY DEF Init, NoCode
  <1>3. \A t \in Token : tok[t].st = "none"
    BY DEF Init, NoToken
  <1>4. \A k \in Code : Heads(k) = {}
    BY <1>3 DEF Heads, Usable
  <1>5. \A k \in Code : phases[k] = "none" /\ heads[k] = None
    BY <1>1, <1>2, <1>4, Phases DEF AllPhaseFacts, PhaseFacts
  <1>6. retired = {}
    BY <1>3 DEF retired
  <1>7. phases = [k \in Code |-> "none"] /\ heads = [k \in Code |-> None]
    BY <1>5 DEF phases, heads
  <1>8. QED
    BY <1>6, <1>7 DEF Ledger!Init

(***************************************************************************)
(* The tables and the requests in flight implement the ledger: a code is   *)
(* redeemed once, stands behind one refresh token at a time, and once      *)
(* closed, by expiry, logout, reuse or deletion, it stays closed.          *)
(***************************************************************************)
THEOREM LedgerImplemented == Spec => ImplementsLedger
  <1>1. Init => Ledger!Init
    BY LedgerInit
  <1>2. LifecycleInv /\ LifecycleInv' /\ [Next]_vars
          => [Ledger!Next]_(Ledger!vars)
    BY LedgerStep
  <1>3. QED
    BY <1>1, <1>2, LifecycleInvariant, PTL
       DEF Spec, ImplementsLedger, Ledger!Spec
===========================================================================
