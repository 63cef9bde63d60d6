# Formal model of the Identity Provider

TLA+ specifications of the parts of this repository whose correctness depends
on the order in which requests, database statements, timers and background
jobs interleave, with TLC instances that check them and TLAPS proofs of what
matters most. Source paths below are relative to `src/backend/internal/`
unless they start with `frontend/`.

## 1. The system

The backend is one Go process (several may run) in front of MariaDB/MySQL and
Redis; the browser application is React. There are no locks in the Go code
that protect business state: what is atomic is a SQL statement, a
`BeginTxx ... Commit` block or a stored procedure, and one Redis command.
Everything else interleaves. A background goroutine (`database/janitor.go`)
deletes expired rows. In the browser nothing runs in parallel within a tab, but
between a request and its answer the user goes on clicking, answers come in any
order or not at all, effects and timers run later than what caused them, and
tabs share cookies and `localStorage`.

| Component | State | Operations | Interacts with |
|---|---|---|---|
| Sessions, codes, tokens (`service/auth_service.go`, `repository/authorization_repository.go`, `repository/session_repository.go`, `database/migrations/procedures/*`) | tables `idp_sessions`, `authorization_codes`, `refresh_tokens`; signed tokens that live nowhere | login, second factor, authorize, code exchange, refresh rotation with reuse detection, logout, internal refresh | accounts (status, foreign keys), clients (grants, deletion), janitor |
| Accounts (`service/user_service.go`, `repository/user_repository.go`) | table `users`: status, `deleted_at`, password, names, role, account type | create, update, password change (kills sessions), status, archive, restore, purge, cached lists | tokens (procedures), list cache |
| Clients (`service/client_service.go`, `repository/client_repository.go`) | `clients`, `client_grant_types`, icons in object storage | create, update, secret rotation, delete, cached lists | exchange and rotation read grants and deletion |
| Roles and permissions (`service/role_service.go`) | `roles`, `role_permissions`, `user_roles` | create, update, delete, cached lists | RBAC middleware |
| List cache (`cache/redis.go` and the three services above) | three version keys, pages with a TTL of 30 minutes | read version, look up page, two queries, store page; commit then `INCR` | Redis with `allkeys-lru` |
| E-mail OTP (`service/otp_service.go`) | table `otps` | send or reuse, verify, count attempts | pending login → session |
| TOTP and backup codes (`service/mfa_service.go`) | `user_authenticators` | enrol, verify, delete | pending login → session |
| Passkeys (`service/passkey_service.go`) | credentials; challenges in Redis and in process memory | begin/finish registration and verification | pending login → session |
| Invitation and registration (`service/registration_service.go`, `service/mail_service.go`) | `invitation_codes`, `account_types`, `preapproved_clients` | invite, check, activate, background synchronisation per account type | accounts, access assignments |
| Access assignments (`repository/client_allowed_user_repository.go`) | `client_allowed_users`, `admin_allowed_clients` | per-admin sync, pre-approved sync, batch assign | lists, authorization checks |
| Browser session (`frontend/src/auth`, `frontend/src/services/axiosInstance.js`) | access token cookie, pending challenge in `localStorage`, session marks and page per tab | load, guard, sign in, second factor, exchange, refresh on 401, sign out | the HTTP API, other tabs |
| Second factor page (`frontend/src/auth/components/LoginMfaFlow.jsx` and its steps) | step, method, flags, QR and backup codes | choose, send, verify, enrol, leave | OTP, TOTP, passkey requests |
| Password wizards (`RegisterForm.jsx`, `ForgotPasswordModal.jsx`, `ChangePasswordModal.jsx`) | step, address, code, countdown | send, resend, verify, set, close, reopen | OTP and password requests |
| Request cache and lists (`frontend/src/utils/requestCache.js`, `useUsers.js`, `useArchivedUsers.js`, `useRoles.js`, `useAppClients.js`) | cached answers, rows, filters, page, latest fetch | fetch, share, cancel, write and fetch again | the cached list requests |
| Client, user, role, registration pages (`frontend/src/features`) | dialogs, forms, details, selections, secrets | open, load details, edit, save as one or several requests, create, delete | lists, the HTTP API |
| Profile (`EditProfileModal.jsx`, `AuthenticatorsPanel.jsx`, `NewAuthenticatorModal.jsx`) | profile, dialog, authenticators, backup codes | rename, enrol, remove | the HTTP API |
| Audit log page (`AuditLogs.jsx`) | choice, rows, details | choose, cancel, load, show details | the HTTP API |
| Middleware, logs, metrics, reports, backups, storage, migrations | append-only or derived | | |

What is hard, component by component:

* **Tokens.** An exchange is five database calls in four transactions, a
  rotation four. Between any two of them the user may log out, change the
  password, be suspended, archived, restored or purged, the client may lose a
  grant, another request may present the same code or token, and the janitor
  may delete a row. Responses may be lost and retried. Correct means: a code
  is worth one usable refresh token at a time; presenting a revoked token ends
  its family for good; a logout or password change is final for what existed;
  a token stays with the user and client of its code; a purged user leaves no
  rows; rows do not accumulate.
* **List cache.** Nothing orders a list request's read of the version, its
  two queries and its store against a mutation's commit and its `INCR`; errors
  of Redis are dropped; version keys can be evicted; a mutation increments the
  key of the rows it writes, not of every list that shows them. Correct means:
  who was told that a mutation succeeded sees it in the lists whose key it
  increments, a list that is queried shows every mutation, and nothing stays
  stale for ever.
* **E-mail OTP.** Attempts are read in one statement and counted in another;
  several codes of one address may exist; the newest is chosen by a timestamp
  with a resolution of one second. Correct means: guessing stays bounded and
  dead codes stay dead.
* **Browser session.** A token answer may come after a sign-out, a refresh
  while a second factor is pending, a redirect before the state it depends on
  was cleared; several tabs do all that over one cookie. Correct means: no
  access token next to a second factor nobody passed; signed out stays out;
  every tab left alone comes to rest on a page it may show.
* **Lists.** An answer that was on its way when a write cleared the cache, two
  fetches answered in the wrong order, a filter that leaves the page behind.
  Correct means: a list at rest shows every write and the view that is chosen.
* **Dialogs and forms.** Details that arrive for another row, a save made of
  several requests that stops half way, an answer that meets another opening
  of the dialog, two submits, options that arrive after the dialog was filled.
  Correct means: what is saved is what was on the screen for that row, what
  was not touched is kept, what is reported done is done, what is told once
  (secrets, backup codes) is not lost.
* **Invitations.** Activation sets a password, assigns clients and deletes the
  invitation in separate statements, from any number of tabs, and the answer
  may be lost. Correct means: a link is used up by a completed activation only,
  and a page says "saved" or "unusable" only when it is so.
* **Backup codes and passkey challenges on the server.** A backup code is found
  by one statement and deleted by another; a challenge is kept in Redis and in
  process memory, read from either and deleted from one after the other; errors
  of both deletions are dropped, requests overlap, the process restarts.
  Correct means: once the user was told that a code or challenge was accepted,
  or an authenticator removed, nothing sent later is accepted with it.
* **Assignment sources.** Read, decide and write in separate statements; listed
  as hazards in `PROJECT.json`, not modelled (section 7).

## 2. Modules

| Module | Models | Extends |
|---|---|---|
| `TokenLifecycle` | sessions, authorization codes, refresh tokens, with accounts, clients, clock and janitor | |
| `GrantLedger` | abstract: what the authorization-code grant promises per code | |
| `TokenLedger` | the refinement mapping from `TokenLifecycle` to `GrantLedger` | `TokenLifecycle` |
| `MCTokenLifecycle` | TLC instance | `TokenLedger` |
| `TokenLifecycleProofs` | theorems, also of the refinement | `TokenLedger` |
| `ListCache` | versioned Redis cache of the user, client and role lists | |
| `ListCacheProofs` | theorems | `ListCache` |
| `EmailOtp` | one-time passwords by e-mail | |
| `MCEmailOtp`, `EmailOtpProofs` | TLC instance, theorems | `EmailOtp` |
| `BrowserSession` | sign-in state of any number of tabs | |
| `MCBrowserSession`, `BrowserSessionProofs` | TLC instance, theorems | `BrowserSession` |
| `SecondFactorPage` | the second factor of a sign-in | |
| `AccountData` | constants of the pages of one's own account | |
| `PasswordWizard` | signing up, forgotten password, change of password | `AccountData` |
| `InvitationSetup` | an invitation's link and the activation on the server | `AccountData` |
| `ProfileEditor` | one's own name | `AccountData` |
| `Authenticators` | one's own authenticators and their enrolment on the server | `AccountData` |
| `MfaCodes` | app digits and backup codes as the server tries them | `AccountData` |
| `PasskeyCeremonies` | passkey registrations and sign-ins on the server | `AccountData` |
| `MCAccount` | TLC instance of these six and of `SecondFactorPage` | `AccountData` |
| `SecondFactorProofs` | theorems about `MfaCodes` and `PasskeyCeremonies` | `MCAccount` |
| `AccountPageProofs` | theorems about the pages of one's own account and the second factor page | `SecondFactorProofs` |
| `ConsoleData` | constants of the console's screens | |
| `ConsoleList` | request cache and the four list hooks | `ConsoleData` |
| `ClientEditor` | client dialog, wizard, secrets | `ConsoleData` |
| `UserEditor`, `UserCreate` | user dialog; the wizard that adds a user | `ConsoleData` |
| `RoleEditor` | role dialog and form | `ConsoleData` |
| `RegistrationConfig` | account types and their clients | `ConsoleData` |
| `AuditLogs` | list and details of logs | `ConsoleData` |
| `MCConsole` | TLC instance of the screens and of one tab | `ConsoleData` |
| `ConsolePageProofs` | theorems about the pages of clients, users, roles, account types and logs | `MCConsole` |
| `ConsoleListProofs` | theorems about the lists | `ConsolePageProofs` |

### TokenLifecycle

A row of a table is a record with `st`, its age: `live`, `expired`, and for
refresh tokens `now` and `past`. The procedures and the janitor compare
`expires_at < NOW()` at a resolution of one second, so a token whose
`expires_at` was set to `NOW()` (by `ArchiveUser`) is still accepted by the
rotation procedure within that second: `now` is that instant. Codes and
sessions are compared in Go with `time.Now().After`, where that instant does
not exist. Identifiers are random in the code and drawn at most once in the
model.

A request slot `req[r]` holds the local variables of a Go call between two
database calls; `pc` names the statement it is about to execute:

| Steps | Code |
|---|---|
| `LoginCheck`, `MfaLookup`, `CreateSession` | `LoginAndAuthorize` checks the password and answers with a signed pending token; `PostVerifyMFA` (and the OTP and passkey handlers) look the account up again and insert the session |
| `AuthorizeRead`, `StoreCode` | session and client are read, then the code is inserted |
| `ExchangeStart`, `ExchangeCode`, `ExchangeClaims`, `StoreRefreshToken` | handler checks, the transaction that consumes the code, the reads of account and client, the insert |
| `RotateLookup`, `RotateSwap` / `RotateReuse`, `RotateClaims` | reads of token and client, the stored procedure (success or reuse), the account check after the procedure committed |
| `Abort` | any failing check or statement, a caller that hangs up, a crash: what was committed stays |
| `LogoutUser`, `UpdateUserPassword`, `UpdateUserStatus`, `ArchiveUser`, `RestoreUser`, `HardDeleteUser`, `UpdateClient`, `DeleteClient` | one procedure, transaction or statement each |
| `SessionExpires`, `CodeExpires`, `TokenExpires`, `JanitorCodes`, `JanitorTokens`, `JanitorSessions` | time and the three statements of `cleanExpiredRecords` |

`ExchangeClaims` and `RotateLookup` each stand for two or three adjacent reads
that decide nothing until the last of them has returned; the model takes them
at one instant. All reads that are followed by a write keep the write in a
later step. The lookup of a second factor is `MfaLookup`; the factor itself is
abstract. `known` is the set of refresh tokens an application received:
responses may be lost. Ghost fields: `killed` (the row existed at a logout or
password change of its user), `prior` (it descends from a login that began
before a password change) and `breached` (codes a descendant of which was
presented after revocation).

### GrantLedger and TokenLedger

The ledger knows, per code, a phase and the one refresh token it stands
behind. `Issue`, `Redeem`, `Activate`, `Replace` and `Close` are all that may
happen, `Replace` needs a token never seen before, and a closed code stays
closed. `TokenLedger` computes phase, head and spent tokens from the tables
and the requests in flight; `ImplementsLedger` says that every step of the
tables, whichever requests race, is a ledger step or none.

### ListCache

A page's content is the set of mutations its two queries reflected. A list
request reads the version key (`StartRead`), looks its page up (`Hit`,
`Miss`), queries twice and stores the page under the version it read first. A
mutation commits and then increments (`Commit`, `Bump`), may die in between
(`Die`), and its `INCR` may fail unnoticed. Redis may lose a page (`Expire`)
or a version key (`EvictVersion`), and a version that cannot be read counts as
`"0"`. `faulted` is a ghost: Redis lost a version key or failed to serve one.
`Bumped` gives the keys each kind of mutation increments: `managed` is
`SyncAdminClientAccess`, which increments the users' key although
`GetBoundClients`, stored under the clients', shows what it changed; `access` is
`SyncUserAccess` and increments none although `GetAllowedClients` and the lists
of users show it. The instance has the kinds user, client and access. `need`
keeps every mutation answered before a request came in, of any kind; `Missed`
is what an answer has not got of them. `ListsShowCountedWrites` says that a
list that was queried (`pc = "store"`) misses nothing, and that an answer, which
may come from the cache, misses nothing its key counts (`CountedBy`) unless
`faulted`. An answer with Redis healthy that misses an `access` mutation is a
reachable state: section 6.

### EmailOtp

`newest[e]` is the set of codes of an address that share the greatest
`created_at`; the query with `LIMIT 1` may return any of them. Rows are never
deleted. `SendLookup` leads to an insert only if the code read is used or
expired; `VerifyLookup` makes all of `VerifyOTP`'s checks on the row it read,
and `IncrementAttempts` or `MarkAsUsed` follows as a statement of its own.

### The browser modules

All of them are built alike. React state, refs and module variables are
variables; a handler, an effect, the answer to a request, and a timer are one
action each, with the handler's early returns as guards and every `set...` it
makes in its primed variables. A request is a record with what its closure
captured, because that is what its continuation uses when the answer comes:
`fetch`, `job`, `save`, `call`, `loads`. Where the server's work and the answer
can be told apart they are two steps, so that the answer may be lost after the
work was done. What a user types is abstracted to what the properties tell
apart: a field is changed or not, a form complete or not, a row is what it
reflects.

* `BrowserSession`: `Put` writes the row of a tab and the shared challenge;
  `Document` is a page load, which forgets everything of a tab but its
  `sessionStorage`. `Runs(t)` collects what happens by itself (effects,
  answers, navigation), `User(t)` what somebody does, `Fails(t)` refused and
  lost requests, `Time` what expires. `StoredCookie` is `storeTokenResponse`
  with its check for a pending challenge. The ghost `out` is `"clean"` while
  the last sign-out left no session and no token on its way in any tab.
* `SecondFactorPage`: `Request` and `Done` set and clear the flag of
  `FlagOf`, which several kinds of request share; `OneAtATime` says that two
  such requests are never unanswered at once. `TimerFires` is the redirect that
  is due after an error of the flow.
* `PasswordWizard`: `kind` chooses one of three wizards, `mine` marks requests
  of the present opening. `slips` records when a field was edited while a code
  was being sent, or an answer of an earlier opening arrived; properties that
  such a crossing breaks in the code are claimed without one only.
* `InvitationSetup`: `activation` is the program counter of `ActivateAccount`:
  `Find`, `SetPassword`, `AssignClients` (its error is dropped),
  `DeleteInvitation`, each of which may be refused, then `Answer`, or
  `NoAnswer` at any time. Bound: a tab has one activation on the server.
* `ProfileEditor`: `Filled` is the effect that fills the dialog when it opens;
  `Follows` what happens to an open one when the profile changes. `slips`:
  the dialog was opened next to an unanswered save, or a save was done whose
  answer was lost. Bound: no reload while a save is unanswered.
* `Authenticators`: the server inserts an authenticator and then its ten
  backup codes, `InsertAuthenticator` and `InsertCodes`; the modal may be left
  in between. Bounds: one removal per authenticator; the clipboard answers at
  once; the page stays; Escape closes the modal as its button does.
* `MfaCodes`: `Fetch` is the query and the comparison of `VerifyCode`,
  `DeleteCode` the deletion that follows (`slipped`: it failed, and nobody
  noticed), `RemoveAuthenticator` the removal of an app, `Answer` what the user
  is told. `late` says that a request was made after its code was over. App
  digits have no memory: the same digits are accepted as often as they are sent
  while they are current and the app is connected, and no property says
  otherwise.
* `PasskeyCeremonies`: one challenge per begin, named by the order they are
  drawn in. `SetRedis` and `StoreMemory` are `setSessionData`; `Get` is
  `getSessionData`, which asks the memory whenever Redis has nothing or fails,
  so that its two reads may be taken as one; `Unset` and `Forget` are the two
  halves of `deleteSessionData`, the second with the check of the answer that
  follows. A passkey is named by the challenge it answered. `slipped`: Redis
  failed to delete a challenge, or two overlapping answers stored one passkey
  twice or one stored it again after its removal. Bounds: two rows of one
  passkey; one process, as in `docker-compose.yml` (a second one would have a
  memory of its own, which the deletion does not reach).
* `ConsoleList`: a row is the number of writes it reflects, a filter, sorting
  or page a `view`. `Request`, `Joined` and `Answer` are `getCachedRequest` and
  the hook's continuation, `Cleared` is `clearCachedRequests`, `Applies` the
  hooks' comparison with `latestFetchRef` where they make it. `clean` says that
  no write crossed a fetch, a change of view or a lost answer.
* `ClientEditor`: `Cancelled` and `KeptOn` are what closing does to a details
  request, `Told` and `seen` follow a secret from the answer to the clipboard.
* `UserEditor`: `Rest` is the order of the requests `updateUser` makes for one
  save, `SaveWantsCode` the answer that asks for an authenticator code,
  `Refetches` what a stopped save does to the list.
* `UserCreate`: `createUser` makes an account, assigns clients and invites;
  `Failure` stops there. `mine` tells a call of the form on the screen.
* `RoleEditor`: `options` is the list of permissions, which may come after the
  dialog was filled; `Sent` is what a save sends.
* `RegistrationConfig`: `OpenRow` asks for details, `Filled` fills the dialog
  for the type it was opened for; `Fallback` is what the row opens with
  when its details fail; `Confirms` and `SyncEnds` are the prompt that updates the
  users of a type, whose work on the server is one step.
* `AuditLogs`: a changed choice cancels the request for the list, details are
  not cancelled. `may` stands for the permission that `PermissionRoute` has
  waited for. Two queries, pages and numbers of logs per type.

`MCConsole` and `MCAccount` put screens next to each other: `which` says which
one a behaviour is about, the variables of the others stay `None`. The screens
share no state but the server, of which every module has the part it works on,
so that nothing is lost by looking at one at a time, and one run answers for
all of them. Where two instances of one module make more cases reachable within
small bounds (`RegistrationConfig` with saves, and with two openings at once)
both are there.

## 3. Runs

| Run | Instance | Question |
|---|---|---|
| `token_rotation` | 1 user, 1 client, 1 session, 1 code, 3 tokens, 2 requests | Does one code stay worth one usable token, does reuse end the family, is a kill switch final, when two requests race and everything else acts in between? |
| `token_clients` | 1 user, 2 clients (one primary), 2 tokens, 1 request, grants that change, status changes | Does a token keep its user and client; does a purge leave nothing? |
| `token_ledger` | 1 user, 1 client, 1 code, 2 tokens, 2 requests | Does every step implement the ledger? |
| `token_swept` | 1 user, 1 client, 2 tokens, 1 request, with fairness | Is every row deleted in the end? |
| `kill_switch_forces_login` (violation) | | A login pending at a password change still becomes a session |
| `archived_user_has_no_session` (violation) | | Archiving leaves sessions alive |
| `list_cache` | 2 mutations of three kinds, 1 list request at a time, lists under two keys, with fairness | Does a list show every answered mutation that its version key counts, and a queried one all of them; does every stale page vanish? |
| `email_otp` | 1 address, 3 codes, 3 requests | Are wrong guesses bounded; do dead codes stay dead? |
| `otp_retry_limit` (violation) | 1 code, 2 requests | Two guesses are admitted on the same count |
| `console` | each screen of the console, two calls at a time (see below), and one tab with fairness | Do lists at rest show every write and the view chosen; does a dialog save what was on the screen for its row, keep the rest and report what happened; does a tab come to rest? |
| `browser_tabs` | two tabs over one cookie and one `localStorage` | Is a pending second factor respected and a sign-out final? |
| `account` | each page of one's own account, and the second factors on the server | Is a password set for the verified address, once; are links, names, authenticators and backup codes what the page says; is what is over refused? |

What the properties of the runs of the browser (`console`, `browser_tabs`, `account`) say:

| Property | Module | Claim |
|---|---|---|
| `FreshAfterWrite` | `ConsoleList` | a list at rest shows every write, unless one crossed a fetch or its answer was lost |
| `FitsView` | `ConsoleList`, `AuditLogs` | a list at rest is not loading and shows the view chosen, unless a write crossed a fetch or, where answers are not ordered, fetches overlapped; the audit log always does |
| `SecretIsNotLost` | `ClientEditor` | a secret that was told stays on the screen until it is copied, unless requests for two were unanswered at once |
| `SavesItsOwnFields` | `ClientEditor` | a client is saved with fields loaded for it |
| `EditsTheRow` | `UserEditor`, `AuditLogs` | a dialog is about the row it was opened for (the details of a log: unless those of another one were awaited) |
| `ShownIsSaved`, `ReportedSaved` | `UserEditor` | a save that stops half way is seen in the list; one reported done is done; unless saves crossed or an answer was lost (the latter: or a save had stopped half way) |
| `ReportedComplete`, `OneCall` | `UserCreate`, `RegistrationConfig` | a user reported created has all that was asked for; one call at a time |
| `KeepsUntouched`, `CreatesNamed` | `RoleEditor` | permissions nobody touched are kept; no role without its details |
| `SavesItsOwnClients`, `StartsFromServer` | `RegistrationConfig` | an account type is saved with the clients picked for it, starting from what the server had |
| `Settles` | `BrowserSession` | once nobody acts, a tab comes to rest where it may stay |
| `ChallengeHoldsAccess`, `SignedOutStaysOut` | `BrowserSession` | no access token next to a second factor nobody passed; no token after a sign-out with none on its way in any tab |
| `OneAtATime`, `ChangesTheVerified`, `CodeStepHasCode` | `SecondFactorPage`, `PasswordWizard` | one code or password at a time; a password is for the verified address; who is asked for a code was sent one; of the wizards: until an answer of an earlier opening arrives (`CodeStepHasCode`: or the address is edited while a code is being sent) |
| `LinkOutlivesActivation`, `SavedIsWritten`, `ForbiddenIsOver` | `InvitationSetup`, `Authenticators` | a link goes last; "saved" is true, also of backup codes, and of the list of authenticators unless something slipped; "forbidden" is true |
| `SavesKeepTheRest` | `ProfileEditor` | a save of one's name keeps the fields nobody touched, unless it crossed a reopening or an earlier answer was lost |
| `OverIsRefused` | `MfaCodes`, `PasskeyCeremonies` | a backup code or challenge the user was told is accepted, an app or passkey he was told is removed, is not accepted later, unless it slipped |

Every property of a passing run has a mutant: a plausible mistake in one
definition (`PROJECT.json`, "mutants") under which TLC finds it violated. The
mutated forms stand next to the definitions they replace.

**Bounds.** Identifiers bound the number of sessions, codes, tokens and
mutations; a request slot is reused without limit, so retries and sequences of
requests are as long as identifiers allow. Two concurrent requests and one
retired token suffice for each race listed under hazards (exchange/exchange,
rotation/rotation, rotation/reuse, any/kill switch, any/janitor); three tokens
let a rotation be in flight while an older token of the family is presented.
The properties quantify over pairs of rows of one code or one user, and rows
of different codes interact only through their user and client, which
`token_clients` varies; what the small instances cannot show is proved for any
number (section 5). Three OTP requests show an overshoot of more than one. In `list_cache` one list
request is in flight: it meets the two mutations at each of its steps and earlier
requests through the pages they stored, which is the only thing requests share. No
counter is cut off: `attempts` and the version keys are bounded by the
requests and mutations there are.

`console` has two fetches at once, two writes, two views, two clients, users
(one an administrator, with the fields `access` and `role`), roles, permissions
and account types, two secrets, one new address, two requests of a form and two
openings of a row. `PageJobs`, `PickClients` and `PickOpens` are smaller than the
sets of the other screens: one save of a role at a time, one job, one client and
one opening where account types are saved. `browser_tabs` has two tabs: one that acts and one whose
token, challenge or mark it meets in the store they share. `account` has two addresses, two requests of
a page, two tabs on one link, two fields with two values, one save of a name and
two authenticators, two backup codes, two challenges and two requests at the
server. Two of each is what the properties compare: the row a
dialog is about and another one, an answer and a later one, the tab that signs
out and one that does not. Single modules were also explored
beyond these bounds while they were chosen (account types with a client and two
openings of a row at once; authenticators without symmetry) and showed nothing
new. Ghosts (`slips`, `overlap`, `clean`, `out`) name the crossings the code
does not protect itself against; each only goes from "nothing happened" to
"this happened", a property that mentions one is a claim about behaviours
without that crossing, and behaviours with it stay in the model and under the
other properties. The notes of the hazards in `PROJECT.json` name, hazard by
hazard, the crossings no property speaks of.

**Deadlock.** `console` and `account` say `CHECK_DEADLOCK FALSE` because a
user may simply stop: a page with nothing to answer and nothing left within the
bounds has no step. The token runs say `CHECK_DEADLOCK FALSE`: once the users are
purged and the clients deleted nothing is left to do. The other runs check it.

**Symmetry** is used only for safety properties, over sets whose members no
definition tells apart. In `browser_tabs` the tabs are permuted. In `account` authenticators and requests
have the same names and are permuted together: no action compares one with
another, and no liveness is checked in either. Challenges are drawn in a fixed order and not permuted.
`console` uses none, because `Settles` is checked there. In `email_otp` the action property
`DeadCodesStayDead` is symmetric as well, and no liveness is checked there.

## 4. Fairness

* `token_swept`: weak fairness of each janitor statement, because the ticker
  of `StartJanitor` runs all three at every tick, and a failure is logged and
  returns; and of time. No request, user or administrator is assumed to act.
* `list_cache`: weak fairness of `Expire` for every list and version,
  because every page is stored with a TTL of 30 minutes and Redis removes it.
  List requests and mutations are not assumed to make progress.
* `console`: weak fairness of `TabRuns(t)`, what a tab does by itself: effects
  run after a render, a request that was sent is answered, a page that was
  asked for loads. Neither users nor failures nor the clock are assumed to act.
  `Settles` is conditional on `Still`: from some point on only such steps
  happen. It excludes redirect loops between the guard, the sign-in page and
  the second factor.

## 5. Proofs

All theorems hold for any sets of users, clients, rows, requests, lists and
codes; constants are assumed only to be disjoint from `None` (which is not the
name of a kind of ceremony either), grant lists to
consist of the three grant types, kinds and lists to be those of the code, and
(in `EmailOtp`) requests in flight to be finitely many. The theorems about tabs
speak of `BrowserSession`, those about a page of the specification of
`MCAccount` or `MCConsole`, for any values of its constants; each of these reduces to the instance it is about, because the
other disjuncts of `Next` belong to other values of `which`.

* `LifecycleInvariant`. `OneUsableTokenPerCode` is not inductive: a second
  exchange could be about to insert a token. `LifecycleInv` adds
  `ExchangeIsExclusive` (between consuming a code and answering, one request
  holds it, and no token of the code exists), `Complete` (which fields of rows
  and requests are filled), `BreachedCodesAreUsed` and `TokensMatchTheirCode`.
  `TypeOK` is its first part. From it follow `TypeCorrect`, `OneTokenPerCode`,
  `ReuseIsFinal` and `TokensStayBound`. One lemma per action, one step per
  conjunct it disturbs.
* `KillSwitch` and `PurgeIsComplete` have small inductive invariants of their
  own over types and completeness.
* `LedgerImplemented`: initial states map to initial states, and each action
  to a ledger step or a stutter, from `LifecycleInv`. The interesting cases
  are revocations, which close a set of codes at once, and `RotateSwap`, which
  is `Replace` because the old token is the head.
* `CacheInvariant` and `ListsAreFresh`. `QueriesAreComplete` holds whatever
  Redis does: what a request asked for was answered, hence committed, before
  either query. `Coherent` holds while Redis serves the version keys: a page or
  request at the current version of its key reflects every answered mutation
  that key counts, requests at the same version asked for the same of these, and
  no page is ahead of its key. `INCR` moves the key past all of them; storing
  under the version read first keeps pages behind. Storing a page under the
  version at the time of the store breaks it, which is the mutant. Nothing is
  claimed of a cached answer about mutations that leave the list's key alone.
* `OtpInvariant` and `GuessBound`: counted attempts plus admitted guesses stay
  within two plus the number of request slots, by the cardinality of the set
  of admitted guesses. `DeadCodes` is an action property: an unacceptable row
  never becomes acceptable.
* `ChallengeHolds` and `SignedOutHolds`, for any set of tabs. `BrowserInv` adds
  `CleanIsOver`: after a clean sign-out there is no cookie and no live session,
  and no tab has a token on its way or held back, which is what makes "no token
  comes back" inductive. Most steps change one row and bring no token: `Calm`
  says so of a row, one lemma per kind of step shows it (`CalmStep`,
  `ForgetStep`, `LeaveStep`), and only the steps that store a token need more.
* `InvitationSurvives` and `ForbiddenIsTrue`, for any number of tabs, and
  `SavedHolds`, the part about passwords. `Progress` says how far an activation
  has come can be read off the account: past the password it is written, past
  the clients they were tried, done means the link is gone.
* `SavedHolds`, the part about authenticators, for any number of them and of
  calls. `AuthInv` adds where the backup codes on the screen are kept
  (`CodesAreKept`), that one authenticator at a time is being connected, by the
  modal that is open (`OneEnrolment`), that a list that loads has an answer to
  come (`LoadIsAwaited`), and that what was read is the server's unless that has
  changed since (`ListedOrChanged`). The invariant was strengthened on the way:
  codes that are shown are stored also after the modal was left, which is now
  part of `SavedIsWritten`.
* `OneAtATimeHolds`, `VerifiedHolds` and `CodeStepHolds`, for any addresses and
  calls. `FactorInv`: the flag of an unanswered request is set, and no other
  request has it. `WizardInv`: until a closed dialog was crossed by an answer,
  a call belongs to the step that made it and to the address it was made for
  (`OnItsStep`, `SetsVerified`), and until the address was edited while a code
  was being sent, that code is for the address shown (`SendsShown`).
* `SavesAreFaithful` and `RolesAreNamed`, for any roles, permissions and number
  of saves. `RoleInv` says of the open dialog what `KeepsUntouched` says of a
  save: outside what was touched it has what the role had.
* `SecretsStay` and `FieldsAreOwn`, for any clients, secrets and requests.
  `ClientInv`: an open dialog, and the details it waits for, are about the
  client of its row (`OwnDetails`); unless requests overlapped, one secret at
  most is awaited, none is shown meanwhile, and what is marked as copied is what
  is shown (`OneTelling`).
* `ShownHolds` and `ReportsHold` (an action property), for any users, fields and
  saves. `UserInv` follows a save: what it still has to send covers every field
  in which the server differs from its form (`TodoIsTheRest`), the dialog
  started from what the server has (`BaseIsStored`), the list is the server's
  while no save has changed anything (`ListIsStored`).
* `CompleteHolds` and `OneCallHolds`. `AddInv`: one call is the form's, which
  stays busy and on the screen until it is answered (`OwnCall`), and what a call
  no longer has to do was done (`DoneOrToDo`); `OneUpdate` is the same of the
  prompt that updates the users of a type.
* `ClientsAreOwn` and `StartsHold`, for any types, clients and openings.
  `RegInv`: what is on the list, in an opening, in the dialog or in a save is
  something the server once had for that very type (`Known`, `OfItsType`).
  `past` only grows, so what was known stays so (`StaysKnown`).
* `RowsHold`: a dialog is about the row it was opened for, of users (from
  `UserInv`) and of logs: `LogInv` says that the request that was not cancelled
  is for the choice on the screen.
* `FreshHolds` and `ViewsHold`, for any number of fetches and writes. `ListInv`
  has two layers. `Shape` is who waits for whom: a fetch that shares a request
  waits for one that asks for the same view, a cached request names the fetch
  that made it, the users' hook asks for a view once at a time. Over it, while
  nothing crossed: an answer that was received is the server's (`GotFresh`), and
  so is the cache but between a write's commit and the refetch (`CacheFresh`);
  the fetches the screen awaits are for the view chosen (`AwaitedFit`), and rows
  nothing is awaited for are as fresh (`ShownFits`).
* `SavesHold`, for any fields, values and number of saves. `ProfileInv` adds
  that, without a slip, at most one save is unanswered, no profile is loaded
  next to it, and the dialog was filled with what the server has (`Sound`), and
  in any case that no empty field is sent (`SentIsWhole`).
* `OverStaysOver`, for any numbers of requests, codes and challenges.
  `OverIsRefused` speaks of requests that were accepted; the invariant follows
  the stores instead. `CodesInv`: what is over has no row left, nor has what is
  about to be told, unless it slipped. `CeremonyInv`: a challenge that is over is
  in neither store (`ChallengesAreGone`), because whoever is accepted has taken
  it from one after the other (`DeletesBoth`) and whoever still stores one stores
  a challenge nobody was sent (`BeginsFresh`), under its own kind
  (`StoresSorted`); so a late request reads nothing that fits
  (`LateDoNotFit`). One lemma, `TakingBack`, covers the steps that only read,
  delete or end.

* `AccountTypes` and `ConsoleTypes`: the type invariants. The types of most
  screens are part of the invariants above; two needed more. Where several rows
  of account types are opened, every write names a type (`WritesName`), or a
  commit would add a row without one.

The inductive invariants of the browser (`ListsKept`, `UsersKept`, `WizardKept`
and so on in the proof modules) hold in every state TLC reaches in `console`,
`browser_tabs` and `account`: conjuncts were added until no step of the module led out of them,
and none was kept that those instances contradict.

**Only model-checked**: liveness under fairness, which is out of the prover's
reach (`EveryRowIsSwept`, `StalePagesVanish`, `Settles`), and the three
violations, which are shown by counterexamples. Every other property of the
passing runs is a theorem.

## 6. Findings

* A login that passed the password check before a password change becomes a
  session after it (`kill_switch_forces_login`); the procedure's comment says
  the change forces a new login on all devices.
* `ArchiveUser` invalidates refresh tokens and codes but no session
  (`archived_user_has_no_session`); its comment says "Invalidate all active
  sessions/tokens".
* `VerifyOTP` admits more than three wrong guesses when requests overlap
  (`otp_retry_limit`); `GuessBound` gives the exact excess.

Met on the way, allowed by the model and worth knowing: a rotation commits
before the account is found inactive or the response is lost, so a retry with
the old token counts as reuse and revokes everything of that user at that
client; the memory of a used token ends when the janitor deletes its row. Some
dialogs take an answer to an earlier opening for one to the present: these are
crossings the ghosts name.

Lists are stale for up to 30 minutes, with Redis healthy, after a mutation that
increments another key than theirs or none: the bound clients after
`SyncAdminClientAccess` (users' key), the allowed clients and the clients shown
with each user after `SyncUserAccess` (none), the names of clients and roles in
lists of users after they were changed (clients' and roles' key). No comment of
the code promises otherwise, so this is stated here and in the properties'
restriction, not as a violation.

## 7. Not modelled

* Contents and signatures of access tokens, cookies' attributes, password
  hashing, rate limiting (a library's token bucket per address): stateless, or
  not this repository's code. WebAuthn and Redis are external: Redis is
  modelled from how `cache/redis.go` uses it.
* Whether two overlapping requests are both accepted with one backup code or one
  challenge: nothing in `service/mfa_service.go` or `service/passkey_service.go`
  excludes it, `MfaCodes` and `PasskeyCeremonies` allow it, and `OverIsRefused`
  is about what comes after an answer.
* The sources of client assignments (manual or pre-approved) and the background
  synchronisation of an account type's users, which `RegistrationConfig` takes
  as one step: its statements touch `client_allowed_users` only.
* In `BrowserSession`, the address to return to after a sign-in and the
  sign-ins of other applications.
* Other pages and widgets (dashboard, layout, theme, tables, uploads beyond a
  client's logo): a request and its answer, or rendering.
* Audit logging, metrics and reports: append-only rows and read-only
  aggregates. Backups, object storage, key files and migrations: input and
  output, and steps at start-up.
