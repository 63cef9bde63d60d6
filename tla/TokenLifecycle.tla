-------------------------- MODULE TokenLifecycle --------------------------
(***************************************************************************)
(* Sessions, authorization codes and refresh tokens of the identity        *)
(* provider: service/auth_service.go, its repositories, the stored         *)
(* procedures it calls and the janitor.                                    *)
(*                                                                         *)
(* A database statement, a transaction or a stored procedure is one step;  *)
(* between two of them a request is in flight and every other request, the *)
(* administrators, the clock and the janitor may act.  A request slot r    *)
(* holds what the Go code keeps in local variables between statements.     *)
(*                                                                         *)
(* Time is the passage of single rows past their expires_at.  The stored   *)
(* procedures and the janitor compare expires_at < NOW() at a resolution   *)
(* of one second, so a refresh token has an instant "now" at which it is   *)
(* neither in the future nor refused.  Sessions and codes are compared in  *)
(* Go (time.Now().After), where that instant does not exist.               *)
(***************************************************************************)
EXTENDS Naturals, FiniteSets

CONSTANTS
  User, Client,          \* accounts and registered applications
  Primary,               \* the client whose id is the CLIENT_ID variable
  Session, Code, Token,  \* random identifiers, each drawn at most once
  Req,                   \* slots for requests in flight
  GrantSets,             \* the grant lists an administrator may configure
  StatusInput,           \* the status strings an administrator sends
  None

ASSUME NoneAssumption ==
  None \notin User \cup Client \cup Session \cup Code \cup Token

ASSUME GrantAssumption ==
  GrantSets \subseteq
    SUBSET {"authorization_code", "client_credentials", "refresh_token"}

VARIABLES
  status,     \* users.status, or "purged" once the row is deleted
  archived,   \* users whose deleted_at is set
  liveClient, \* clients whose deleted_at is null
  grants,     \* client_grant_types of each client
  sess,       \* table idp_sessions
  code,       \* table authorization_codes
  tok,        \* table refresh_tokens
  known,      \* refresh tokens an application holds (those with a row)
  breached,   \* ghost: codes a descendant of which was presented twice
  req         \* requests in flight

users   == <<status, archived>>
clients == <<liveClient, grants>>
tables  == <<sess, code, tok>>
vars == <<status, archived, liveClient, grants, sess, code, tok, known,
          breached, req>>

\* The status strings MapStatus lets through.
StatusUnchecked == {"active", "inactive", "suspended", "deleted", "banned"}
MapStatus == {"active", "inactive", "suspended", "deleted"}

(***************************************************************************)
(* A row is "none" before its identifier is drawn and "gone" after it was  *)
(* deleted.  killed and prior are ghosts: a row is killed when it existed  *)
(* at a logout or a password change of its user, and prior when the login  *)
(* it descends from began before a password change.                        *)
(***************************************************************************)
SessionRow == [st: {"none", "live", "expired", "gone"},
               user: User \cup {None}, killed: BOOLEAN, prior: BOOLEAN]

CodeRow == [st: {"none", "live", "expired", "gone"}, used: BOOLEAN,
            user: User \cup {None}, client: Client \cup {None},
            killed: BOOLEAN, prior: BOOLEAN]

TokenRow == [st: {"none", "live", "now", "past", "gone"}, revoked: BOOLEAN,
             user: User \cup {None}, client: Client \cup {None},
             root: Code \cup {None}, killed: BOOLEAN, prior: BOOLEAN]

Steps == {"idle", "mfa", "mfa_ok", "authz_store", "xchg_consume",
          "xchg_claims", "xchg_store", "rot_proc", "rot_claims"}

ReqRow == [pc: Steps, user: User \cup {None}, client: Client \cup {None},
           code: Code \cup {None}, tok: Token \cup {None}, prior: BOOLEAN]

NoSession == [st |-> "none", user |-> None, killed |-> FALSE, prior |-> FALSE]

NoCode == [st |-> "none", used |-> FALSE, user |-> None, client |-> None,
           killed |-> FALSE, prior |-> FALSE]

NoToken == [st |-> "none", revoked |-> FALSE, user |-> None, client |-> None,
            root |-> None, killed |-> FALSE, prior |-> FALSE]

\* A deleted row; of a code, its fields remain for the properties to name.
GoneSession == [NoSession EXCEPT !.st = "gone"]
GoneToken == [NoToken EXCEPT !.st = "gone"]
GoneCode(row) == [row EXCEPT !.st = "gone", !.killed = FALSE, !.prior = FALSE]

Idle == [pc |-> "idle", user |-> None, client |-> None, code |-> None,
         tok |-> None, prior |-> FALSE]

TypeOK ==
  /\ status \in [User -> {"active", "inactive", "suspended", "deleted",
                        "purged"}]
  /\ archived \in SUBSET User
  /\ liveClient \in SUBSET Client
  /\ grants \in [Client -> GrantSets]
  /\ sess \in [Session -> SessionRow]
  /\ code \in [Code -> CodeRow]
  /\ tok \in [Token -> TokenRow]
  /\ known \in SUBSET Token
  /\ breached \in SUBSET (Code \cup {None})
  /\ req \in [Req -> ReqRow]

Init ==
  /\ status = [u \in User |-> "active"]
  /\ archived = {}
  /\ liveClient = Client
  /\ grants \in [Client -> GrantSets]
  /\ sess = [s \in Session |-> NoSession]
  /\ code = [k \in Code |-> NoCode]
  /\ tok = [t \in Token |-> NoToken]
  /\ known = {}
  /\ breached = {}
  /\ req = [r \in Req |-> Idle]

---------------------------------------------------------------------------
(***************************************************************************)
(* Login.  LoginAndAuthorize answers with a signed pending-MFA token that  *)
(* lives in no table; PostVerifyMFA turns it into a session.               *)
(***************************************************************************)
\* The foreign keys on users(id) of the three tables.
UserMayBeGone(u) == TRUE
UserExists(u) == status[u] # "purged"

Go(r, row) == req' = [req EXCEPT ![r] = row]
Done(r) == Go(r, Idle)

\* GetUserForAuth skips deleted accounts, the service refuses suspended
\* ones; the password is right.
LoginCheck(r, u) ==
  /\ req[r].pc = "idle"
  /\ status[u] \in {"active", "inactive"}
  /\ Go(r, [Idle EXCEPT !.pc = "mfa", !.user = u])
  /\ UNCHANGED <<users, clients, tables, known, breached>>

\* The handler looks the account up again by e-mail (deleted_at IS NULL) and
\* checks the second factor.
MfaLookup(r) ==
  /\ req[r].pc = "mfa"
  /\ UserExists(req[r].user)
  /\ req[r].user \notin archived
  /\ Go(r, [req[r] EXCEPT !.pc = "mfa_ok"])
  /\ UNCHANGED <<users, clients, tables, known, breached>>

\* Inserts the session.  The pending token stays valid for its five minutes:
\* the browser may use it again.  The foreign key refuses a purged user.
CreateSession(r, s) ==
  LET u == req[r].user IN
  /\ req[r].pc = "mfa_ok"
  /\ sess[s].st = "none"
  /\ UserExists(u)
  /\ sess' = [sess EXCEPT ![s] = [st |-> "live", user |-> u, killed |-> FALSE,
                                  prior |-> req[r].prior]]
  /\ \/ Done(r)
     \/ Go(r, [req[r] EXCEPT !.pc = "mfa"])
  /\ UNCHANGED <<users, clients, code, tok, known, breached>>

---------------------------------------------------------------------------
(* Authorize: reads the session and the client, then stores a code.        *)
AuthorizeRead(r, s, c) ==
  /\ req[r].pc = "idle"
  /\ sess[s].st = "live"
  /\ c \in liveClient
  /\ Go(r, [Idle EXCEPT !.pc = "authz_store", !.user = sess[s].user,
                        !.client = c, !.prior = sess[s].prior])
  /\ UNCHANGED <<users, clients, tables, known, breached>>

StoreCode(r, k) ==
  LET q == req[r] IN
  /\ q.pc = "authz_store"
  /\ code[k].st = "none"
  /\ UserExists(q.user)
  /\ code' = [code EXCEPT ![k] = [st |-> "live", used |-> FALSE,
                                  user |-> q.user, client |-> q.client,
                                  killed |-> FALSE, prior |-> q.prior]]
  /\ Done(r)
  /\ UNCHANGED <<users, clients, sess, tok, known, breached>>

---------------------------------------------------------------------------
(***************************************************************************)
(* ExchangeCodeForToken: client authentication, the transaction that       *)
(* consumes the code, the reads of account and client, and the insertion   *)
(* of the refresh token.                                                   *)
(***************************************************************************)
ExchangeStart(r, k, c) ==
  /\ req[r].pc = "idle"
  /\ code[k].st # "none"
  /\ c \in liveClient
  /\ grants[c] \cap {"authorization_code", "client_credentials"} # {}
  /\ Go(r, [Idle EXCEPT !.pc = "xchg_consume", !.client = c, !.code = k])
  /\ UNCHANGED <<users, clients, tables, known, breached>>

\* What the transaction asks of the row, and the comparison after it.
ConsumableTwice(k) == code[k].st = "live"
Consumable(k) == code[k].st = "live" /\ ~code[k].used

AnyClient(k, c) == TRUE
ClientMatches(k, c) == code[k].client = c

\* SELECT ... FOR UPDATE, the tests on used_at and expires_at, and the update
\* commit together.  The code is consumed before its client is compared.
ExchangeCode(r) ==
  LET k == req[r].code IN
  /\ req[r].pc = "xchg_consume"
  /\ Consumable(k)
  /\ code' = [code EXCEPT ![k].used = TRUE]
  /\ IF ClientMatches(k, req[r].client)
       THEN Go(r, [req[r] EXCEPT !.pc = "xchg_claims", !.user = code[k].user,
                                 !.prior = code[k].prior])
       ELSE Done(r)
  /\ UNCHANGED <<users, clients, sess, tok, known, breached>>

\* GetClaimsByID wants an active account, GetByID an undeleted client.  The
\* primary client and clients without the grant get no refresh token.
ExchangeClaims(r) ==
  LET q == req[r] IN
  /\ q.pc = "xchg_claims"
  /\ status[q.user] = "active"
  /\ q.client \in liveClient
  /\ IF "refresh_token" \in grants[q.client] /\ q.client # Primary
       THEN Go(r, [q EXCEPT !.pc = "xchg_store"])
       ELSE Done(r)
  /\ UNCHANGED <<users, clients, tables, known, breached>>

\* The response with the token may be lost on its way to the application.
StoreRefreshToken(r, t) ==
  LET q == req[r] IN
  /\ q.pc = "xchg_store"
  /\ tok[t].st = "none"
  /\ UserExists(q.user)
  /\ tok' = [tok EXCEPT ![t] = [st |-> "live", revoked |-> FALSE,
                                user |-> q.user, client |-> q.client,
                                root |-> q.code, killed |-> FALSE,
                                prior |-> q.prior]]
  /\ known' \in {known, known \cup {t}}
  /\ Done(r)
  /\ UNCHANGED <<users, clients, sess, code, breached>>

---------------------------------------------------------------------------
(***************************************************************************)
(* RotateRefreshToken: reads of the token and its client, the stored       *)
(* procedure, then the account.  The procedure has committed when the      *)
(* account turns out not to be active.                                     *)
(***************************************************************************)
RotatableUnexpired(t) == tok[t].st \in {"live", "now"}
RotatableUnrevoked(t) == tok[t].st # "gone" /\ ~tok[t].revoked
Rotatable(t) == tok[t].st \in {"live", "now"} /\ ~tok[t].revoked

RotateLookup(r, t) ==
  /\ req[r].pc = "idle"
  /\ t \in known
  /\ tok[t].st # "gone"
  /\ tok[t].client \in liveClient
  /\ "refresh_token" \in grants[tok[t].client]
  /\ Go(r, [Idle EXCEPT !.pc = "rot_proc", !.user = tok[t].user,
                        !.client = tok[t].client, !.tok = t])
  /\ UNCHANGED <<users, clients, tables, known, breached>>

\* Steps 3 and 4 of the procedure: the row is locked, unrevoked, unexpired.
RotateSwap(r, new) ==
  LET old == req[r].tok IN
  /\ req[r].pc = "rot_proc"
  /\ Rotatable(old)
  /\ tok[new].st = "none"
  /\ tok' = [tok EXCEPT ![old].revoked = TRUE,
                        ![new] = [tok[old] EXCEPT !.st = "live",
                                                  !.killed = FALSE]]
  /\ Go(r, [req[r] EXCEPT !.pc = "rot_claims", !.tok = new])
  /\ UNCHANGED <<users, clients, sess, code, known, breached>>

\* The rows step 2 revokes.
HeldLive(t, old) ==
  tok[t].st = "live" /\ tok[t].user = tok[old].user
                     /\ tok[t].client = tok[old].client
HeldByPair(t, old) ==
  /\ tok[t].st \notin {"none", "gone"}
  /\ tok[t].user = tok[old].user
  /\ tok[t].client = tok[old].client

\* Step 2 of the procedure: a revoked token was presented.  Everything the
\* pair of user and client holds is revoked, expired or not, and the call
\* fails.
RotateReuse(r) ==
  LET old == req[r].tok IN
  /\ req[r].pc = "rot_proc"
  /\ tok[old].st # "gone"
  /\ tok[old].revoked
  /\ tok' = [t \in Token |->
               IF HeldByPair(t, old)
                 THEN [tok[t] EXCEPT !.revoked = TRUE] ELSE tok[t]]
  /\ breached' = breached \cup {tok[old].root}
  /\ Done(r)
  /\ UNCHANGED <<users, clients, sess, code, known>>

RotateClaims(r) ==
  /\ req[r].pc = "rot_claims"
  /\ status[req[r].user] = "active"
  /\ known' \in {known, known \cup {req[r].tok}}
  /\ Done(r)
  /\ UNCHANGED <<users, clients, tables, breached>>

\* A check that fails, a statement that errs, a caller that hangs up or a
\* process that dies: what was committed stays, the rest is not done.
Abort(r) ==
  /\ req[r].pc # "idle"
  /\ Done(r)
  /\ UNCHANGED <<users, clients, tables, known, breached>>

---------------------------------------------------------------------------
(***************************************************************************)
(* Accounts and clients.                                                   *)
(***************************************************************************)

\* The rows of refresh_tokens they revoke: all of the user's, expired or not.
RevokedWithSessions(t, u) == tok[t].user = u /\ tok[t].st = "live"
RevokedByKill(t, u) == tok[t].user = u /\ tok[t].st \notin {"none", "gone"}

\* expires_at = NOW() where it was later than that.
Ended(st) == IF st = "live" THEN "expired" ELSE st

\* The three updates LogoutUser and UpdateUserPassword share, in one
\* transaction.  Requests of the user that are in flight are untouched.
InvalidateAll(u, newPassword) ==
  /\ sess' = [s \in Session |->
                IF sess[s].user = u /\ sess[s].st # "gone"
                  THEN [sess[s] EXCEPT !.st = Ended(@), !.killed = TRUE,
                                       !.prior = @ \/ newPassword]
                  ELSE sess[s]]
  /\ tok' = [t \in Token |->
               IF tok[t].user = u /\ tok[t].st # "gone"
                 THEN [tok[t] EXCEPT !.revoked = @ \/ RevokedByKill(t, u),
                                     !.killed = TRUE,
                                     !.prior = @ \/ newPassword]
                 ELSE tok[t]]
  /\ code' = [k \in Code |->
                IF code[k].user = u /\ code[k].st # "gone"
                  THEN [code[k] EXCEPT !.st = Ended(@), !.killed = TRUE,
                                       !.prior = @ \/ newPassword]
                  ELSE code[k]]
  /\ req' = [r \in Req |-> IF req[r].user = u
                THEN [req[r] EXCEPT !.prior = @ \/ newPassword] ELSE req[r]]

LogoutUser(u) ==
  /\ UserExists(u)
  /\ InvalidateAll(u, FALSE)
  /\ UNCHANGED <<users, clients, known, breached>>

\* The password itself is outside the model.
UpdateUserPassword(u) ==
  /\ UserExists(u)
  /\ InvalidateAll(u, TRUE)
  /\ UNCHANGED <<users, clients, known, breached>>

\* Sets the column whatever deleted_at says and invalidates nothing.
UpdateUserStatus(u, st) ==
  /\ st \in MapStatus
  /\ UserExists(u)
  /\ status' = [status EXCEPT ![u] = st]
  /\ UNCHANGED <<archived, clients, tables, known, breached, req>>

\* Refresh tokens and codes get expires_at = NOW(); sessions do not.
ArchiveUser(u) ==
  /\ UserExists(u)
  /\ u \notin archived
  /\ status' = [status EXCEPT ![u] = "deleted"]
  /\ archived' = archived \cup {u}
  /\ tok' = [t \in Token |->
               IF tok[t].user = u /\ tok[t].st = "live"
                 THEN [tok[t] EXCEPT !.st = "now"] ELSE tok[t]]
  /\ code' = [k \in Code |->
                IF code[k].user = u /\ code[k].st = "live"
                  THEN [code[k] EXCEPT !.st = "expired"] ELSE code[k]]
  /\ UNCHANGED <<clients, sess, known, breached, req>>

RestoreUser(u) ==
  /\ UserExists(u)
  /\ status' = [status EXCEPT ![u] = "active"]
  /\ archived' = archived \ {u}
  /\ UNCHANGED <<clients, tables, known, breached, req>>

HardDeleteUser(u) ==
  /\ UserExists(u)
  /\ status' = [status EXCEPT ![u] = "purged"]
  /\ archived' = archived \ {u}
  /\ sess' = [s \in Session |-> IF sess[s].user = u
                THEN GoneSession ELSE sess[s]]
  /\ code' = [k \in Code |-> IF code[k].user = u
                THEN GoneCode(code[k]) ELSE code[k]]
  /\ tok' = [t \in Token |-> IF tok[t].user = u
                THEN GoneToken ELSE tok[t]]
  /\ known' = {t \in known : tok[t].user # u}
  /\ UNCHANGED <<clients, breached, req>>

\* The grants are replaced in a transaction of their own.
UpdateClient(c, gs) ==
  /\ c \in liveClient
  /\ grants' = [grants EXCEPT ![c] = gs]
  /\ UNCHANGED <<users, liveClient, tables, known, breached, req>>

\* Sets deleted_at; codes and tokens of the client stay.
DeleteClient(c) ==
  /\ c \in liveClient
  /\ liveClient' = liveClient \ {c}
  /\ UNCHANGED <<users, grants, tables, known, breached, req>>

---------------------------------------------------------------------------
(***************************************************************************)
(* The clock and the janitor, whose three statements are independent: one  *)
(* that fails is logged and the next one runs.                             *)
(***************************************************************************)
SessionExpires(s) ==
  /\ sess[s].st = "live"
  /\ sess' = [sess EXCEPT ![s].st = "expired"]
  /\ UNCHANGED <<users, clients, code, tok, known, breached, req>>

CodeExpires(k) ==
  /\ code[k].st = "live"
  /\ code' = [code EXCEPT ![k].st = "expired"]
  /\ UNCHANGED <<users, clients, sess, tok, known, breached, req>>

TokenExpires(t) ==
  /\ tok[t].st \in {"live", "now"}
  /\ tok' = [tok EXCEPT ![t].st = IF @ = "live" THEN "now" ELSE "past"]
  /\ UNCHANGED <<users, clients, sess, code, known, breached, req>>

\* DELETE FROM refresh_tokens WHERE expires_at < NOW(), revoked or not.
OverdueUnrevoked(t) == tok[t].st = "past" /\ ~tok[t].revoked
Overdue(t) == tok[t].st = "past"

JanitorCodes ==
  /\ \E k \in Code : code[k].st = "expired"
  /\ code' = [k \in Code |-> IF code[k].st = "expired"
                THEN GoneCode(code[k]) ELSE code[k]]
  /\ UNCHANGED <<users, clients, sess, tok, known, breached, req>>

JanitorTokens ==
  /\ \E t \in Token : Overdue(t)
  /\ tok' = [t \in Token |-> IF Overdue(t)
               THEN GoneToken ELSE tok[t]]
  /\ known' = {t \in known : ~Overdue(t)}
  /\ UNCHANGED <<users, clients, sess, code, breached, req>>

JanitorSessions ==
  /\ \E s \in Session : sess[s].st = "expired"
  /\ sess' = [s \in Session |-> IF sess[s].st = "expired"
                THEN GoneSession ELSE sess[s]]
  /\ UNCHANGED <<users, clients, code, tok, known, breached, req>>

Janitor == JanitorCodes \/ JanitorTokens \/ JanitorSessions

---------------------------------------------------------------------------
Login == \E r \in Req :
  \/ \E u \in User : LoginCheck(r, u)
  \/ MfaLookup(r)
  \/ \E s \in Session : CreateSession(r, s)

Authorize == \E r \in Req :
  \/ \E s \in Session, c \in Client : AuthorizeRead(r, s, c)
  \/ \E k \in Code : StoreCode(r, k)

Exchange == \E r \in Req :
  \/ \E k \in Code, c \in Client : ExchangeStart(r, k, c)
  \/ ExchangeCode(r)
  \/ ExchangeClaims(r)
  \/ \E t \in Token : StoreRefreshToken(r, t)

Rotate == \E r \in Req :
  \/ \E t \in Token : RotateLookup(r, t) \/ RotateSwap(r, t)
  \/ RotateReuse(r)
  \/ RotateClaims(r)

Admin ==
  \/ \E u \in User :
       \/ LogoutUser(u) \/ UpdateUserPassword(u)
       \/ \E st \in StatusInput : UpdateUserStatus(u, st)
       \/ ArchiveUser(u) \/ RestoreUser(u) \/ HardDeleteUser(u)
  \/ \E c \in Client :
       \/ \E gs \in GrantSets : UpdateClient(c, gs)
       \/ DeleteClient(c)

Clock ==
  \/ \E s \in Session : SessionExpires(s)
  \/ \E k \in Code : CodeExpires(k)
  \/ \E t \in Token : TokenExpires(t)

Next ==
  \/ Login \/ Authorize \/ Exchange \/ Rotate
  \/ \E r \in Req : Abort(r)
  \/ Admin \/ Clock \/ Janitor

Spec == Init /\ [][Next]_vars

\* StartJanitor runs the three statements at every tick for as long as the
\* process lives; time passes.
FairSpec ==
  /\ Spec
  /\ WF_vars(JanitorCodes) /\ WF_vars(JanitorTokens)
  /\ WF_vars(JanitorSessions) /\ WF_vars(Clock)

---------------------------------------------------------------------------
\* A refresh token the rotation procedure would accept.
Usable(t) == tok[t].st \in {"live", "now"} /\ ~tok[t].revoked

\* The states of a row that is in its table.
Rows == {"live", "expired", "now", "past"}

\* r consumed code k and has not answered yet.
Exchanging(r, k) ==
  req[r].pc \in {"xchg_claims", "xchg_store"} /\ req[r].code = k

(***************************************************************************)
(* One authorization code is worth one refresh token at a time, however    *)
(* its exchange and the rotations that follow are retried, raced or lost.  *)
(***************************************************************************)
OneUsableTokenPerCode ==
  \A t1, t2 \in Token :
    Usable(t1) /\ Usable(t2) /\ tok[t1].root = tok[t2].root => t1 = t2

(***************************************************************************)
(* Once a revoked token is presented to the rotation procedure, no token   *)
(* that descends from the same code is ever usable again, although a       *)
(* rotation of that family may be in flight.                               *)
(***************************************************************************)
ReuseEndsFamily ==
  \A t \in Token : tok[t].root \in breached => ~Usable(t)

(***************************************************************************)
(* What existed when LogoutUser or UpdateUserPassword ran stays unusable:  *)
(* no later rotation, restore, status change or exchange brings it back.   *)
(***************************************************************************)
KillSwitchIsFinal ==
  /\ \A s \in Session : sess[s].killed => sess[s].st # "live"
  /\ \A k \in Code : code[k].killed => code[k].st # "live"
  /\ \A t \in Token : tok[t].killed => ~Usable(t)

(***************************************************************************)
(* A refresh token belongs to the user and the client its code was issued  *)
(* to, and never to the primary client, across every rotation.             *)
(***************************************************************************)
TokensMatchTheirCode ==
  \A t \in Token : tok[t].st \in Rows =>
    /\ tok[t].root \in Code
    /\ code[tok[t].root].used
    /\ tok[t].user = code[tok[t].root].user
    /\ tok[t].client = code[tok[t].root].client
    /\ tok[t].client # Primary

(***************************************************************************)
(* HardDeleteUser leaves nothing behind, although requests of the deleted  *)
(* user that are in flight go on to insert sessions, codes and tokens.     *)
(***************************************************************************)
NoRowOfPurgedUser ==
  \A u \in User : status[u] = "purged" =>
    /\ \A s \in Session : sess[s].user = u => sess[s].st \notin Rows
    /\ \A k \in Code : code[k].user = u => code[k].st \notin Rows
    /\ \A t \in Token : tok[t].user = u => tok[t].st \notin Rows

(***************************************************************************)
(* Every row that was ever inserted leaves its table: nothing stays for    *)
(* ever because a status, a revocation or an archived account hides it     *)
(* from the janitor.                                                       *)
(***************************************************************************)
EveryRowIsSwept ==
  /\ \A s \in Session : sess[s].st = "live" ~> sess[s].st = "gone"
  /\ \A k \in Code : code[k].st = "live" ~> code[k].st = "gone"
  /\ \A t \in Token : tok[t].st = "live" ~> tok[t].st = "gone"

(***************************************************************************)
(* What the stored procedures' comments promise.                           *)
(* update_user_password_procedure.go: after a password change the user has *)
(* to log in again on all devices, so nothing usable descends from an      *)
(* earlier login.                                                          *)
(***************************************************************************)
KillSwitchForcesLogin ==
  /\ \A s \in Session : sess[s].prior => sess[s].st # "live"
  /\ \A t \in Token : tok[t].prior => ~Usable(t)

(***************************************************************************)
(* archive_user_procedure.go: archiving a user invalidates all active      *)
(* sessions, and an archived user opens no new one.                        *)
(***************************************************************************)
ArchivedUserHasNoSession ==
  \A s \in Session : sess[s].user \in archived => sess[s].st # "live"

---------------------------------------------------------------------------
(***************************************************************************)
(* Why these hold: an inductive invariant.  Complete says which fields a   *)
(* row or a request in flight has filled; ExchangeIsExclusive that at most *)
(* one request is between consuming a code and answering, and that no      *)
(* token of that code exists until it is done.                             *)
(***************************************************************************)
RequestComplete(r) ==
  /\ req[r].pc \notin {"idle", "xchg_consume"} => req[r].user \in User
  /\ req[r].pc \notin {"idle", "mfa", "mfa_ok"} => req[r].client \in Client
  /\ req[r].pc \in {"xchg_consume", "xchg_claims", "xchg_store"} =>
       req[r].code \in Code /\ code[req[r].code].st # "none"
  /\ req[r].pc \in {"rot_proc", "rot_claims"} =>
       req[r].tok \in Token /\ tok[req[r].tok].st # "none"

Complete ==
  /\ \A s \in Session : sess[s].st = "live" => sess[s].user \in User
  /\ \A k \in Code :
       IF code[k].st = "none" THEN ~code[k].used /\ code[k].user = None
         ELSE code[k].user \in User /\ code[k].client \in Client
  /\ \A t \in Token : tok[t].st \in Rows =>
       tok[t].user \in User /\ tok[t].client \in Client
  /\ \A t \in Token : tok[t].st = "none" => tok[t].user = None
  /\ \A t \in known : tok[t].st # "none"
  /\ \A r \in Req : RequestComplete(r)

ExchangeIsExclusive ==
  \A r \in Req, k \in Code : Exchanging(r, k) =>
    /\ code[k].used
    /\ req[r].user = code[k].user /\ req[r].client = code[k].client
    /\ req[r].pc = "xchg_store" => req[r].client # Primary
    /\ \A r2 \in Req : Exchanging(r2, k) => r2 = r
    /\ \A t \in Token : tok[t].st \in Rows => tok[t].root # k
    /\ k \notin breached

BreachedCodesAreUsed == \A k \in breached : k \in Code /\ code[k].used

(***************************************************************************)
(* The inductive invariant as a whole: the conjunction the proofs carry    *)
(* through every statement of login, exchange, rotation, administration    *)
(* and janitor.                                                            *)
(***************************************************************************)
LifecycleInv ==
  /\ TypeOK
  /\ Complete
  /\ ExchangeIsExclusive
  /\ BreachedCodesAreUsed
  /\ TokensMatchTheirCode
  /\ OneUsableTokenPerCode
  /\ ReuseEndsFamily
===========================================================================
