-------------------------- MODULE BrowserSession --------------------------
(***************************************************************************)
(* Sign-in state of the browser application: what tabs of one browser do   *)
(* with the access token cookie, the pending second factor and the page    *)
(* they show (frontend/src/auth, services/axiosInstance.js).               *)
(*                                                                         *)
(* Cookies and localStorage are shared by the tabs; sessionStorage and the *)
(* rendered page belong to one tab.  Between sending a request and its     *)
(* answer everything else may happen.  The server is what these files see  *)
(* of it: a session cookie the scripts cannot read, access tokens that     *)
(* stay good until they expire, a cookie for the pending second factor.    *)
(* A set of tabs is fixed; return paths and other applications' sign-ins   *)
(* are left out.                                                           *)
(***************************************************************************)
EXTENDS Naturals, FiniteSets

CONSTANT Tab

VARIABLES
  cookie,     \* cookie access_token
  challenge,  \* localStorage idp.mfaChallengePending
  session,    \* the server's session, as the session cookie names it
  pending,    \* cookie idp_mfa_pending
  tab,        \* per tab: the page shown, sessionStorage, calls in flight
  out         \* ghost: "clean" when the last sign-out, if no sign-in followed
              \* it, left no session behind and no token on its way or held
              \* back in any tab

shared == <<cookie, challenge>>
server == <<session, pending>>
vars == <<cookie, challenge, session, pending, tab, out>>

Pages == {"root", "login", "mfa", "callback", "console", "denied", "logout"}

(***************************************************************************)
(* call is the request the page behind the guard waits for: the guard's    *)
(* own for the current user while loading, one of the page's when allowed. *)
(* It is sent, waits for a refresh of its token, or is sent again.         *)
(* own is the call of a public page.                                       *)
(***************************************************************************)
CallStates == {"idle", "sent", "refresh", "minted", "again"}
OwnCalls == {"idle", "login", "verify", "back", "exchange", "exchanged",
             "logout", "leave"}

TabRow == [page: Pages, guard: {"loading", "shown", "allowed"},
           nav: {"none", "authorize", "login", "home"}, ctx: BOOLEAN,
           verified: BOOLEAN, held: BOOLEAN, attempt: BOOLEAN,
           call: CallStates, own: OwnCalls]

TypeOK ==
  /\ cookie \in BOOLEAN
  /\ challenge \in BOOLEAN
  /\ session \in {"none", "live", "dead"}
  /\ pending \in BOOLEAN
  /\ tab \in [Tab -> TabRow]
  /\ out \in {"no", "clean"}

NewTab == [page |-> "console", guard |-> "loading", nav |-> "none",
           ctx |-> FALSE, verified |-> FALSE, held |-> FALSE,
           attempt |-> FALSE, call |-> "idle", own |-> "idle"]

Init ==
  /\ cookie = FALSE
  /\ challenge = FALSE
  /\ session = "none"
  /\ pending = FALSE
  /\ tab = [t \in Tab |-> NewTab]
  /\ out = "no"

---------------------------------------------------------------------------
(***************************************************************************)
(* Storage.                                                                *)
(***************************************************************************)
Challenged == challenge
Verified(t) == tab[t].verified
NeedsMfa(t) == Challenged /\ ~Verified(t)

\* A token the scripts can read; one held back is kept in sessionStorage.
HasToken == cookie

\* A login page in another tab hears of a changed challenge and runs its
\* effect again.
Put(t, row, ch) ==
  /\ challenge' = ch
  /\ tab' = [u \in Tab |->
               IF u = t THEN row
               ELSE IF ch # challenge /\ tab[u].page = "login"
                 THEN [tab[u] EXCEPT !.guard = "loading"]
                 ELSE tab[u]]

Show(row, p) == [row EXCEPT !.page = p, !.guard = "loading"]

\* A new document: component state and unanswered calls are gone.
Document(row, p) ==
  [row EXCEPT !.page = p, !.guard = "loading", !.nav = "none",
              !.ctx = FALSE, !.call = "idle", !.own = "idle"]

\* clearAuthState: the cookie and the challenge go with it.
ClearRow(row) == [row EXCEPT !.held = FALSE, !.verified = FALSE]
KeptCookie == cookie
ClearedCookie == FALSE

\* storeTokenResponse holds the answer back while a challenge is open.
StoredNever(t) == FALSE
StoredAlways(t) == TRUE
StoredCookie(t) == ~NeedsMfa(t)
HoldRow(t, row) == IF NeedsMfa(t) THEN [row EXCEPT !.held = TRUE] ELSE row

\* redirectAfterUnauthorized and redirectToAuthorize.
PublicPages == {"root", "login", "mfa", "callback", "logout"}
Bounced(row) ==
  IF row.page \in PublicPages THEN row
  ELSE [ClearRow(row) EXCEPT
          !.attempt = TRUE,
          !.nav = IF row.attempt THEN "login" ELSE "authorize"]

Bounces(t) == tab[t].page \notin PublicPages

OnItsWay(t) == tab[t].call = "minted" \/ tab[t].own = "exchanged"

\* A sign-out has completed in some tab.
SignedOut ==
  out' = IF \/ session' = "live"
            \/ \E t \in Tab : OnItsWay(t) \/ tab'[t].held
           THEN "no" ELSE "clean"

---------------------------------------------------------------------------
(***************************************************************************)
(* Documents: the address bar, location.replace and the authorize          *)
(* endpoint.                                                               *)
(***************************************************************************)
Open(t) ==
  /\ Put(t, Document(tab[t], "console"), challenge)
  /\ UNCHANGED <<cookie, server, out>>

LoadPage(t) ==
  /\ tab[t].nav \in {"login", "home"}
  /\ Put(t, Document(tab[t], IF tab[t].nav = "login" THEN "login"
                                                      ELSE "console"),
         challenge)
  /\ UNCHANGED <<cookie, server, out>>

LoadAuthorize(t) ==
  /\ tab[t].nav = "authorize"
  /\ IF session = "live"
       THEN /\ Put(t, [Document(tab[t], "callback") EXCEPT !.own = "exchange"],
                   challenge)
            /\ UNCHANGED <<cookie, session>>
       ELSE /\ Put(t, Document(tab[t], "login"), challenge)
            /\ session' = "none"
            /\ cookie' = (cookie /\ session = "none")
  /\ UNCHANGED <<pending, out>>

\* AuthorizeRedirect, the page at "/".
Root(t) ==
  /\ tab[t].page = "root" /\ tab[t].guard = "loading"
  /\ LET row == tab[t] IN
     \/ /\ NeedsMfa(t)
        /\ Put(t, [Show(row, "mfa") EXCEPT !.guard = "shown"], challenge)
     \/ /\ ~NeedsMfa(t) /\ HasToken
        /\ Put(t, [Show(row, "console") EXCEPT !.attempt = FALSE], challenge)
     \/ /\ ~NeedsMfa(t) /\ ~HasToken /\ ~row.attempt
        /\ Put(t, [row EXCEPT !.guard = "shown", !.attempt = TRUE,
                              !.nav = "authorize"], challenge)
     \/ /\ ~NeedsMfa(t) /\ ~HasToken /\ row.attempt
        /\ Put(t, Show(row, "login"), challenge)
  /\ UNCHANGED <<cookie, server, out>>

---------------------------------------------------------------------------
(***************************************************************************)
(* The login page and its two forms.                                       *)
(***************************************************************************)
LoginResolve(t) ==
  /\ tab[t].page = "login" /\ tab[t].guard = "loading"
  /\ Put(t, [tab[t] EXCEPT
               !.guard = "shown",
               !.nav = IF ~NeedsMfa(t) /\ HasToken THEN "home" ELSE @],
         challenge)
  /\ UNCHANGED <<cookie, server, out>>

FormShown(t) == /\ tab[t].page = "login" /\ tab[t].guard = "shown"
                /\ tab[t].nav = "none" /\ tab[t].own = "idle"
MfaShown(t) == /\ \/ tab[t].page = "mfa"
                  \/ (tab[t].page = "login" /\ NeedsMfa(t))
               /\ tab[t].guard = "shown" /\ tab[t].nav = "none"
               /\ tab[t].own = "idle"

Call(t, c) ==
  /\ Put(t, [tab[t] EXCEPT !.own = c], challenge)
  /\ UNCHANGED <<cookie, server, out>>

LoginSubmit(t) == FormShown(t) /\ ~NeedsMfa(t) /\ Call(t, "login")
MfaSubmit(t) == MfaShown(t) /\ Call(t, "verify")
BackToLogin(t) == MfaShown(t) /\ Call(t, "back")

\* beginPendingMfaSession drops the pending token the answer had stored.
LoginAnswer(t) ==
  /\ tab[t].own = "login"
  /\ LET row == [tab[t] EXCEPT !.own = "idle"] IN
     \/ /\ Put(t, [row EXCEPT !.page = "mfa", !.guard = "shown", !.ctx = TRUE,
                              !.verified = FALSE, !.held = FALSE], TRUE)
        /\ cookie' = FALSE
        /\ pending' = TRUE
     \/ /\ \/ Put(t, row, challenge)
           \/ Put(t, Show(row, "denied"), challenge)
        /\ UNCHANGED <<cookie, pending>>
  /\ UNCHANGED <<session, out>>

\* finishMfa: to the authorize endpoint, or on with a token held back.
FinishMfa(t) ==
  LET row == [tab[t] EXCEPT !.own = "idle", !.verified = TRUE] IN
  IF row.ctx
    THEN /\ Put(t, [row EXCEPT !.nav = "authorize"], FALSE)
         /\ UNCHANGED cookie
    ELSE /\ Put(t, [Show(row, "console") EXCEPT !.held = FALSE], FALSE)
         /\ cookie' = (cookie \/ row.held)

\* A code is also accepted without the pending cookie: then no session comes
\* of it.
MfaAnswer(t) ==
  /\ tab[t].own = "verify"
  /\ \/ /\ ~pending /\ FinishMfa(t)
        /\ UNCHANGED <<server, out>>
     \/ /\ pending
        /\ pending' = FALSE /\ session' = "live" /\ out' = "no"
        /\ FinishMfa(t)
     \/ /\ Put(t, [tab[t] EXCEPT !.own = IF pending THEN "idle" ELSE "back"],
               challenge)
        /\ UNCHANGED <<cookie, server, out>>

\* handleBackToLogin: checkSession, logout, and in any case clearAuthState.
BackDone(t) ==
  /\ tab[t].own = "back"
  /\ session' \in {session, "none"}
  /\ cookie' = ClearedCookie
  /\ Put(t, [Show(ClearRow(tab[t]), "login") EXCEPT
               !.own = "idle", !.ctx = FALSE], FALSE)
  /\ SignedOut
  /\ UNCHANGED pending

---------------------------------------------------------------------------
(***************************************************************************)
(* The callback page.                                                      *)
(***************************************************************************)
ExchangeMint(t) ==
  /\ tab[t].own = "exchange" /\ session = "live"
  /\ Call(t, "exchanged")

ExchangeStore(t) ==
  /\ tab[t].own = "exchanged"
  /\ cookie' = StoredCookie(t)
  /\ Put(t, [Show(HoldRow(t, tab[t]), "console") EXCEPT
               !.own = "idle", !.attempt = FALSE], challenge)
  /\ UNCHANGED <<server, out>>

ExchangeFail(t) ==
  /\ Put(t, [Show(tab[t], "denied") EXCEPT !.own = "idle", !.attempt = FALSE],
         challenge)
  /\ UNCHANGED <<cookie, server, out>>

ExchangeRefused(t) ==
  tab[t].own = "exchange" /\ session # "live" /\ ExchangeFail(t)
ExchangeLost(t) == tab[t].own \in {"exchange", "exchanged"} /\ ExchangeFail(t)

---------------------------------------------------------------------------
(***************************************************************************)
(* ProtectedRoute and the requests of a page behind it.                    *)
(***************************************************************************)
Validating(t) == tab[t].page = "console" /\ tab[t].guard = "loading"

Validate(t) ==
  /\ Validating(t) /\ tab[t].call = "idle"
  /\ LET row == tab[t] IN
     \/ /\ NeedsMfa(t)
        /\ Put(t, [Show(row, "mfa") EXCEPT !.guard = "shown"], challenge)
     \/ /\ ~NeedsMfa(t) /\ ~HasToken /\ ~row.held
        /\ Put(t, Show(row, "root"), challenge)
     \/ /\ ~NeedsMfa(t) /\ (HasToken \/ row.held)
        /\ Put(t, [row EXCEPT !.call = "sent"], challenge)
  /\ UNCHANGED <<cookie, server, out>>

MfaCompleted(t) == Verified(t) \/ (HasToken /\ ~Challenged)

\* The user is known: without roles access is denied.
MeOk(t) ==
  /\ Validating(t) /\ tab[t].call \in {"sent", "again"}
  /\ LET row == [tab[t] EXCEPT !.call = "idle"] IN
     \/ Put(t, Show(row, "denied"), challenge)
     \/ /\ MfaCompleted(t)
        /\ Put(t, [row EXCEPT !.guard = "allowed"], challenge)
     \/ /\ ~MfaCompleted(t)
        /\ Put(t, [Show(row, "mfa") EXCEPT !.guard = "shown"], challenge)
  /\ UNCHANGED <<cookie, server, out>>

\* The guard forgets the sign-in on every error but 403: p is the page it
\* goes to, "root" after a 401 and "login" after anything else.
GuardFails(t, row, p) ==
  /\ Validating(t)
  /\ Put(t, Show(ClearRow([row EXCEPT !.call = "idle"]), p), FALSE)
  /\ cookie' = ClearedCookie
  /\ UNCHANGED <<server, out>>

MeFails(t) ==
  \/ /\ tab[t].call \in {"sent", "again"}
     /\ \/ GuardFails(t, tab[t], "login")
        \/ GuardFails(t, Bounced(tab[t]), "root")
  \/ tab[t].call = "refresh" /\ GuardFails(t, Bounced(tab[t]), "login")

\* A refresh that is refused bounces on its own answer and then once more
\* where it was called.
MeRefused(t) ==
  /\ tab[t].call = "refresh" /\ session # "live"
  /\ GuardFails(t, Bounced(Bounced(tab[t])), "root")

\* A request of the page, answered with anything but 401.
ApiSend(t) ==
  /\ tab[t].page = "console" /\ tab[t].guard = "allowed"
  /\ tab[t].nav = "none" /\ tab[t].call = "idle"
  /\ Put(t, [tab[t] EXCEPT !.call = "sent"], challenge)
  /\ UNCHANGED <<cookie, server, out>>

ApiDone(t) ==
  /\ tab[t].call \in {"sent", "again"} /\ ~Validating(t)
  /\ Put(t, [tab[t] EXCEPT !.call = "idle"], challenge)
  /\ UNCHANGED <<cookie, server, out>>

ApiFails(t, row) ==
  /\ ~Validating(t)
  /\ IF Bounces(t)
       THEN Put(t, [row EXCEPT !.call = "idle"], FALSE) /\ cookie' = FALSE
       ELSE Put(t, [row EXCEPT !.call = "idle"], challenge) /\ UNCHANGED cookie
  /\ UNCHANGED <<server, out>>

ApiUnauthorized(t) ==
  /\ tab[t].call \in {"sent", "again", "refresh"}
  /\ ApiFails(t, Bounced(tab[t]))

ApiRefused(t) ==
  /\ tab[t].call = "refresh" /\ session # "live"
  /\ ApiFails(t, Bounced(Bounced(tab[t])))

\* 401 token_expired, the refresh, and the request sent again.
RefreshSend(t) ==
  /\ tab[t].call = "sent"
  /\ Put(t, [tab[t] EXCEPT !.call = "refresh"], challenge)
  /\ UNCHANGED <<cookie, server, out>>

RefreshMint(t) ==
  /\ tab[t].call = "refresh" /\ session = "live"
  /\ Put(t, [tab[t] EXCEPT !.call = "minted"], challenge)
  /\ UNCHANGED <<cookie, server, out>>

RefreshStore(t) ==
  /\ tab[t].call = "minted"
  /\ cookie' = StoredCookie(t)
  /\ Put(t, [HoldRow(t, tab[t]) EXCEPT !.call = "again"], challenge)
  /\ UNCHANGED <<server, out>>

\* Another page of the console: the guard runs again under the page shown.
Navigate(t) ==
  /\ tab[t].page = "console" /\ tab[t].guard = "allowed"
  /\ tab[t].nav = "none" /\ tab[t].call = "idle"
  /\ Put(t, [tab[t] EXCEPT !.guard = "loading"], challenge)
  /\ UNCHANGED <<cookie, server, out>>

---------------------------------------------------------------------------
(***************************************************************************)
(* Leaving.  The logout call may fail, and without the user's id, which    *)
(* the sidebar may not have, it is not made: then only the browser forgets.*)
(***************************************************************************)
LogoutStart(t) ==
  /\ tab[t].page = "console" /\ tab[t].guard = "allowed"
  /\ tab[t].nav = "none"
  /\ Put(t, [Show(tab[t], "logout") EXCEPT !.own = "logout"], challenge)
  /\ UNCHANGED <<cookie, server, out>>

LogoutDone(t) ==
  /\ tab[t].own = "logout"
  /\ session' \in {session, "none"}
  /\ cookie' = ClearedCookie
  /\ Put(t, [Show(ClearRow(tab[t]), "login") EXCEPT !.own = "idle"], FALSE)
  /\ SignedOut
  /\ UNCHANGED pending

\* AccessDenied: back to the login page, signing out where that works.
LeaveDenied(t) ==
  /\ tab[t].page = "denied" /\ tab[t].own = "idle" /\ tab[t].nav = "none"
  /\ Put(t, [tab[t] EXCEPT !.own = "leave", !.attempt = FALSE], challenge)
  /\ UNCHANGED <<cookie, server, out>>

LeaveDone(t) ==
  /\ tab[t].own = "leave"
  /\ session' \in {session, "none"}
  /\ cookie' = ClearedCookie
  /\ \E a \in {tab[t].attempt, TRUE} :
       Put(t, [ClearRow(tab[t]) EXCEPT !.own = "idle", !.nav = "login",
                                       !.attempt = a], FALSE)
  /\ SignedOut
  /\ UNCHANGED pending

---------------------------------------------------------------------------
(***************************************************************************)
(* Time, and the session's end elsewhere.                                  *)
(***************************************************************************)
CookieExpires ==
  /\ cookie
  /\ cookie' = FALSE
  /\ UNCHANGED <<challenge, server, tab, out>>

\* AUTHORIZE_ATTEMPT_WINDOW_MS has passed.
AttemptAges(t) ==
  /\ tab[t].attempt
  /\ tab' = [tab EXCEPT ![t].attempt = FALSE]
  /\ UNCHANGED <<shared, server, out>>

SessionEnds ==
  /\ session = "live"
  /\ session' = "dead"
  /\ UNCHANGED <<shared, pending, tab, out>>

PendingExpires ==
  /\ pending
  /\ pending' = FALSE
  /\ UNCHANGED <<shared, session, tab, out>>

Time == \/ CookieExpires \/ SessionEnds \/ PendingExpires
        \/ \E t \in Tab : AttemptAges(t)

User(t) == \/ Open(t) \/ LoginSubmit(t) \/ MfaSubmit(t) \/ BackToLogin(t)
           \/ ApiSend(t) \/ Navigate(t) \/ LogoutStart(t) \/ LeaveDenied(t)

\* What runs without the user: effects, answers, timers, page loads.
Runs(t) ==
  \/ LoadPage(t) \/ LoadAuthorize(t) \/ Root(t) \/ LoginResolve(t)
  \/ LoginAnswer(t) \/ MfaAnswer(t) \/ BackDone(t)
  \/ ExchangeMint(t) \/ ExchangeStore(t) \/ ExchangeRefused(t)
  \/ Validate(t) \/ MeOk(t) \/ MeRefused(t)
  \/ ApiDone(t) \/ ApiRefused(t)
  \/ RefreshSend(t) \/ RefreshMint(t) \/ RefreshStore(t)
  \/ LogoutDone(t) \/ LeaveDone(t)

\* Answers that are lost, and tokens that are refused.
Fails(t) == ExchangeLost(t) \/ MeFails(t) \/ ApiUnauthorized(t)

Next == Time \/ \E t \in Tab : User(t) \/ Runs(t) \/ Fails(t)

Spec == Init /\ [][Next]_vars

\* Every tab runs its effects and answers its calls.
FairSpec == Spec /\ \A t \in Tab : WF_vars(Runs(t))

---------------------------------------------------------------------------
(***************************************************************************)
(* Properties.                                                             *)
(***************************************************************************)

\* While a second factor is asked for there is no access token, unless a tab
\* has passed it: whatever the other tabs store, refresh or promote.
ChallengeHoldsAccess ==
  challenge /\ cookie => \E t \in Tab : tab[t].verified

\* After a sign-out that ended the session, with no token on its way or held
\* back in any tab, no tab brings an access token back before the next sign-in.
SignedOutStaysOut == out = "clean" => ~cookie

\* Once the user and the clock stand still and no answer fails, every tab
\* comes to rest on the page asked for, on a form or on the page that denies
\* access, and not in a circle of redirects between them.
Settled(t) ==
  /\ tab[t].nav = "none"
  /\ \/ tab[t].page = "console" /\ tab[t].guard = "allowed"
     \/ tab[t].page \in {"login", "mfa"} /\ tab[t].guard = "shown"
     \/ tab[t].page = "denied"
Still == <>[][\E t \in Tab : Runs(t)]_vars
Settles == Still => \A t \in Tab : <>[]Settled(t)
===========================================================================
