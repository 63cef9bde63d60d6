----------------------- MODULE BrowserSessionProofs -----------------------
(***************************************************************************)
(* The sign-in state of the browser, for any set of tabs: no access token  *)
(* next to a second factor nobody passed, and no token after a sign-out    *)
(* that left none on its way.                                              *)
(***************************************************************************)
EXTENDS BrowserSession, TLAPS

\* What a clean sign-out leaves, and what no step but a sign-in brings back.
CleanIsOver ==
  out = "clean" =>
    /\ ~cookie /\ session # "live"
    /\ \A t \in Tab : ~OnItsWay(t) /\ ~tab[t].held

BrowserInv == TypeOK /\ ChallengeHoldsAccess /\ CleanIsOver

\* A row that has no token on its way and none held back but those of q.
Calm(r, q) ==
  /\ r \in TabRow
  /\ r.call = "minted" => q.call = "minted"
  /\ r.own = "exchanged" => q.own = "exchanged"
  /\ r.held => q.held

---------------------------------------------------------------------------
(***************************************************************************)
(* The rows the steps are made of.                                         *)
(***************************************************************************)
LEMMA ShowRow ==
  ASSUME NEW r \in TabRow, NEW p \in Pages
  PROVE  /\ Calm(Show(r, p), r)
         /\ Show(r, p).verified = r.verified /\ Show(r, p).held = r.held
         /\ Show(r, p).call = r.call /\ Show(r, p).own = r.own
  BY DEF Show, TabRow, Calm

LEMMA DocumentRow ==
  ASSUME NEW r \in TabRow, NEW p \in Pages
  PROVE  /\ Calm(Document(r, p), r)
         /\ Document(r, p).verified = r.verified
  BY DEF Document, TabRow, Calm, CallStates, OwnCalls

LEMMA ClearedRow ==
  ASSUME NEW r \in TabRow
  PROVE  Calm(ClearRow(r), r) /\ ~ClearRow(r).held
  BY DEF ClearRow, TabRow, Calm

LEMMA BouncedRow ==
  ASSUME NEW r \in TabRow
  PROVE  Calm(Bounced(r), r)
  <1>1. CASE r.page \in PublicPages
    BY <1>1 DEF Bounced, Calm
  <1>2. CASE r.page \notin PublicPages
    <2> DEFINE c == ClearRow(r)
    <2>1. c \in TabRow /\ Calm(c, r)
      BY ClearedRow DEF Calm
    <2>2. Bounced(r) = [c EXCEPT !.attempt = TRUE,
                            !.nav = IF r.attempt THEN "login" ELSE "authorize"]
      BY <1>2 DEF Bounced
    <2> HIDE DEF c
    <2>3. QED
      BY <2>1, <2>2 DEF Calm, TabRow
  <1>3. QED
    BY <1>1, <1>2

LEMMA CalmCalm ==
  ASSUME NEW r, NEW q \in TabRow, NEW s, Calm(r, q), Calm(q, s)
  PROVE  Calm(r, s)
  BY DEF Calm

\* What Put does to the rows.
LEMMA PutRows ==
  ASSUME TypeOK, NEW t \in Tab, NEW r \in TabRow, NEW ch, Put(t, r, ch)
  PROVE  /\ tab' \in [Tab -> TabRow] /\ tab'[t] = r /\ challenge' = ch
         /\ \A u \in Tab \ {t} :
              /\ tab'[u].verified = tab[u].verified /\ tab'[u].held = tab[u].held
              /\ tab'[u].call = tab[u].call /\ tab'[u].own = tab[u].own
  <1> DEFINE g(u) == IF ch # challenge /\ tab[u].page = "login"
                       THEN [tab[u] EXCEPT !.guard = "loading"] ELSE tab[u]
  <1>1. tab' = [u \in Tab |-> IF u = t THEN r ELSE g(u)] /\ challenge' = ch
    BY DEF Put
  <1>2. \A u \in Tab : tab[u] \in TabRow
    BY DEF TypeOK
  <1>3. \A u \in Tab :
          /\ g(u) \in TabRow
          /\ g(u).verified = tab[u].verified /\ g(u).held = tab[u].held
          /\ g(u).call = tab[u].call /\ g(u).own = tab[u].own
    BY <1>2 DEF TabRow
  <1>4. tab'[t] = r /\ \A u \in Tab \ {t} : tab'[u] = g(u)
    BY <1>1
  <1>5. tab' \in [Tab -> TabRow]
    BY <1>1, <1>3
  <1> HIDE DEF g
  <1>6. QED
    BY <1>1, <1>3, <1>4, <1>5

---------------------------------------------------------------------------
(***************************************************************************)
(* Steps that put one row.                                                 *)
(***************************************************************************)
LEMMA PutStep ==
  ASSUME BrowserInv, NEW t \in Tab, NEW r \in TabRow, NEW ch \in BOOLEAN,
         Put(t, r, ch),
         cookie' \in BOOLEAN, pending' \in BOOLEAN,
         session' \in {"none", "live", "dead"}, out' \in {"no", "clean"},
         ch /\ cookie' => \/ r.verified
                          \/ /\ challenge /\ cookie
                             /\ tab[t].verified => r.verified,
         out' = "clean" =>
           /\ ~cookie' /\ session' # "live"
           /\ r.call # "minted" /\ r.own # "exchanged" /\ ~r.held
           /\ \A u \in Tab \ {t} : ~OnItsWay(u) /\ ~tab[u].held
  PROVE  BrowserInv'
  <1>1. /\ tab' \in [Tab -> TabRow] /\ tab'[t] = r /\ challenge' = ch
        /\ \A u \in Tab \ {t} :
             /\ tab'[u].verified = tab[u].verified /\ tab'[u].held = tab[u].held
             /\ tab'[u].call = tab[u].call /\ tab'[u].own = tab[u].own
    BY PutRows DEF BrowserInv
  <1>2. TypeOK'
    BY <1>1 DEF TypeOK
  <1>3. ChallengeHoldsAccess'
    BY <1>1 DEF ChallengeHoldsAccess, BrowserInv
  <1>4. CleanIsOver'
    BY <1>1 DEF CleanIsOver, OnItsWay
  <1>5. QED
    BY <1>2, <1>3, <1>4 DEF BrowserInv

\* A step that signs nobody in or out.
LEMMA CalmStep ==
  ASSUME BrowserInv, NEW t \in Tab, NEW r, Calm(r, tab[t]),
         tab[t].verified => r.verified,
         Put(t, r, challenge), UNCHANGED <<cookie, session, pending, out>>
  PROVE  BrowserInv'
  <1>1. r \in TabRow
    BY DEF Calm
  <1>2. challenge /\ cookie' => challenge /\ cookie /\ (tab[t].verified => r.verified)
    OBVIOUS
  <1>3. out' = "clean" =>
           /\ ~cookie' /\ session' # "live"
           /\ r.call # "minted" /\ r.own # "exchanged" /\ ~r.held
           /\ \A u \in Tab \ {t} : ~OnItsWay(u) /\ ~tab[u].held
    BY DEF BrowserInv, CleanIsOver, OnItsWay, Calm
  <1>4. QED
    BY <1>1, <1>2, <1>3, PutStep DEF BrowserInv, TypeOK

\* A step that forgets the sign-in.
LEMMA ForgetStep ==
  ASSUME BrowserInv, NEW t \in Tab, NEW r, Calm(r, tab[t]),
         Put(t, r, FALSE), cookie' = FALSE, UNCHANGED <<session, pending, out>>
  PROVE  BrowserInv'
  <1>1. r \in TabRow
    BY DEF Calm
  <1>2. out' = "clean" =>
           /\ ~cookie' /\ session' # "live"
           /\ r.call # "minted" /\ r.own # "exchanged" /\ ~r.held
           /\ \A u \in Tab \ {t} : ~OnItsWay(u) /\ ~tab[u].held
    BY DEF BrowserInv, CleanIsOver, OnItsWay, Calm
  <1>3. QED
    BY <1>1, <1>2, PutStep DEF BrowserInv, TypeOK

\* A sign-out.
LEMMA LeaveStep ==
  ASSUME BrowserInv, NEW t \in Tab, NEW r, Calm(r, tab[t]),
         Put(t, r, FALSE), cookie' = FALSE, session' \in {session, "none"},
         pending' = pending, SignedOut
  PROVE  BrowserInv'
  <1>1. r \in TabRow
    BY DEF Calm
  <1>2. tab'[t] = r /\ \A u \in Tab \ {t} : tab'[u].held = tab[u].held
    BY <1>1, PutRows DEF BrowserInv
  <1>3. out' = "clean" =>
           /\ ~cookie' /\ session' # "live"
           /\ r.call # "minted" /\ r.own # "exchanged" /\ ~r.held
           /\ \A u \in Tab \ {t} : ~OnItsWay(u) /\ ~tab[u].held
    BY <1>2 DEF SignedOut, OnItsWay, Calm
  <1>4. out' \in {"no", "clean"}
    BY DEF SignedOut
  <1>5. QED
    BY <1>1, <1>3, <1>4, PutStep DEF BrowserInv, TypeOK

---------------------------------------------------------------------------
(***************************************************************************)
(* The steps of the documents, the login page and the callback page.       *)
(***************************************************************************)
LEMMA InTabRow == ASSUME BrowserInv, NEW t \in Tab PROVE tab[t] \in TabRow
  BY DEF BrowserInv, TypeOK

\* Fields of a row that have nothing to do with tokens.
LEMMA PlainRow ==
  ASSUME NEW r \in TabRow, NEW g \in {"loading", "shown", "allowed"},
         NEW n \in {"none", "authorize", "login", "home"}, NEW a \in BOOLEAN
  PROVE  /\ Calm([r EXCEPT !.guard = g], r) /\ Calm([r EXCEPT !.nav = n], r)
         /\ Calm([r EXCEPT !.attempt = a], r)
  BY DEF Calm, TabRow

LEMMA OwnRow ==
  ASSUME NEW r \in TabRow, NEW c \in OwnCalls \ {"exchanged"}
  PROVE  Calm([r EXCEPT !.own = c], r)
  BY DEF Calm, TabRow

LEMMA CallRow ==
  ASSUME NEW r \in TabRow, NEW c \in CallStates \ {"minted"}
  PROVE  Calm([r EXCEPT !.call = c], r)
  BY DEF Calm, TabRow

LEMMA DocumentSteps ==
  ASSUME BrowserInv, NEW t \in Tab,
         \/ Open(t) \/ LoadPage(t) \/ LoadAuthorize(t) \/ Root(t)
         \/ LoginResolve(t)
  PROVE  BrowserInv'
  <1>a. tab[t] \in TabRow
    BY InTabRow
  <1>1. CASE Open(t) \/ LoadPage(t)
    <2>1. PICK p \in Pages : /\ Put(t, Document(tab[t], p), challenge)
                               /\ UNCHANGED <<cookie, server, out>>
      BY <1>1 DEF Open, LoadPage, Pages
    <2>2. QED
      BY <1>a, <2>1, DocumentRow, CalmStep DEF server
  <1>2. CASE LoadAuthorize(t)
    <2>1. CASE session = "live"
      <3> DEFINE d == Document(tab[t], "callback")
                 r == [d EXCEPT !.own = "exchange"]
      <3>1. d \in TabRow /\ Calm(d, tab[t]) /\ d.verified = tab[t].verified
        BY <1>a, DocumentRow DEF Calm, Pages
      <3>2. Put(t, r, challenge) /\ UNCHANGED <<cookie, session, pending, out>>
        BY <1>2, <2>1 DEF LoadAuthorize
      <3> HIDE DEF d
      <3>3. r.verified = d.verified /\ Calm(r, tab[t])
        BY <3>1 DEF TabRow, Calm, OwnCalls
      <3> HIDE DEF r
      <3>4. QED
        BY <3>1, <3>2, <3>3, CalmStep
    <2>2. CASE session # "live"
      <3> DEFINE d == Document(tab[t], "login")
      <3>1. d \in TabRow /\ Calm(d, tab[t]) /\ d.verified = tab[t].verified
        BY <1>a, DocumentRow DEF Calm, Pages
      <3>2. /\ Put(t, d, challenge) /\ session' = "none"
            /\ cookie' = (cookie /\ session = "none") /\ UNCHANGED <<pending, out>>
        BY <1>2, <2>2 DEF LoadAuthorize
      <3> HIDE DEF d
      <3>3. out' = "clean" =>
              /\ ~cookie' /\ session' # "live"
              /\ d.call # "minted" /\ d.own # "exchanged" /\ ~d.held
              /\ \A u \in Tab \ {t} : ~OnItsWay(u) /\ ~tab[u].held
        BY <3>1, <3>2 DEF BrowserInv, CleanIsOver, OnItsWay, Calm
      <3>4. cookie' \in BOOLEAN /\ (cookie' => cookie)
        BY <3>2 DEF BrowserInv, TypeOK
      <3>5. QED
        BY <3>1, <3>2, <3>3, <3>4, PutStep DEF BrowserInv, TypeOK
    <2>3. QED
      BY <2>1, <2>2
  <1>3. CASE Root(t)
    <2> DEFINE row == tab[t]
    <2>1. PICK r : /\ r \in { [Show(row, "mfa") EXCEPT !.guard = "shown"],
                              [Show(row, "console") EXCEPT !.attempt = FALSE],
                              [row EXCEPT !.guard = "shown", !.attempt = TRUE,
                                          !.nav = "authorize"],
                              Show(row, "login") }
                   /\ Put(t, r, challenge)
      BY <1>3 DEF Root
    <2>2. UNCHANGED <<cookie, session, pending, out>>
      BY <1>3 DEF Root, server
    <2>3. Calm(r, tab[t]) /\ r.verified = tab[t].verified
      BY <1>a, <2>1 DEF Show, TabRow, Calm, Pages
    <2>4. QED
      BY <2>1, <2>2, <2>3, CalmStep
  <1>4. CASE LoginResolve(t)
    <2> DEFINE r == [tab[t] EXCEPT
                       !.guard = "shown",
                       !.nav = IF ~NeedsMfa(t) /\ HasToken THEN "home" ELSE @]
    <2>1. Put(t, r, challenge) /\ UNCHANGED <<cookie, session, pending, out>>
      BY <1>4 DEF LoginResolve, server
    <2>2. Calm(r, tab[t]) /\ r.verified = tab[t].verified
      BY <1>a DEF TabRow, Calm
    <2> HIDE DEF r
    <2>3. QED
      BY <2>1, <2>2, CalmStep
  <1>5. QED
    BY <1>1, <1>2, <1>3, <1>4

\* The calls of the public pages, sent and refused.
LEMMA OwnCallStep ==
  ASSUME BrowserInv, NEW t \in Tab, NEW c \in OwnCalls \ {"exchanged"}, Call(t, c)
  PROVE  BrowserInv'
  <1>1. tab[t] \in TabRow
    BY InTabRow
  <1>2. [tab[t] EXCEPT !.own = c].verified = tab[t].verified
    BY <1>1 DEF TabRow
  <1>3. QED
    BY <1>1, <1>2, OwnRow, CalmStep DEF Call, server

LEMMA LoginSteps ==
  ASSUME BrowserInv, NEW t \in Tab,
         LoginSubmit(t) \/ MfaSubmit(t) \/ BackToLogin(t) \/ LoginAnswer(t)
  PROVE  BrowserInv'
  <1>a. tab[t] \in TabRow
    BY InTabRow
  <1>1. CASE LoginSubmit(t) \/ MfaSubmit(t) \/ BackToLogin(t)
    BY <1>1, OwnCallStep DEF LoginSubmit, MfaSubmit, BackToLogin, OwnCalls
  <1>2. CASE LoginAnswer(t)
    <2> DEFINE row == [tab[t] EXCEPT !.own = "idle"]
               r == [row EXCEPT !.page = "mfa", !.guard = "shown", !.ctx = TRUE,
                                !.verified = FALSE, !.held = FALSE]
    <2>1. Calm(row, tab[t]) /\ row \in TabRow /\ row.verified = tab[t].verified
      BY <1>a, OwnRow DEF TabRow, Calm, OwnCalls
    <2>2. Calm(r, tab[t]) /\ ~r.held
      BY <1>a DEF TabRow, Calm, OwnCalls, Pages
    <2>3. \/ /\ Put(t, r, TRUE) /\ cookie' = FALSE /\ pending' = TRUE
             /\ UNCHANGED <<session, out>>
          \/ /\ Put(t, row, challenge) \/ Put(t, Show(row, "denied"), challenge)
             /\ UNCHANGED <<cookie, session, pending, out>>
      BY <1>2 DEF LoginAnswer
    <2> HIDE DEF row, r
    <2>4. Calm(Show(row, "denied"), tab[t])
          /\ Show(row, "denied").verified = tab[t].verified
      <3>1. Calm(Show(row, "denied"), row) /\ Show(row, "denied").verified = row.verified
        BY <2>1, ShowRow DEF Pages
      <3>2. QED
        BY <2>1, <3>1 DEF Calm
    <2>5. CASE /\ Put(t, r, TRUE) /\ cookie' = FALSE /\ pending' = TRUE
               /\ UNCHANGED <<session, out>>
      <3>1. r \in TabRow
        BY <2>2 DEF Calm
      <3>2. out' = "clean" =>
              /\ ~cookie' /\ session' # "live"
              /\ r.call # "minted" /\ r.own # "exchanged" /\ ~r.held
              /\ \A u \in Tab \ {t} : ~OnItsWay(u) /\ ~tab[u].held
        BY <2>2, <2>5 DEF BrowserInv, CleanIsOver, OnItsWay, Calm
      <3>3. QED
        BY <2>5, <3>1, <3>2, PutStep DEF BrowserInv, TypeOK
    <2>6. CASE /\ Put(t, row, challenge) \/ Put(t, Show(row, "denied"), challenge)
               /\ UNCHANGED <<cookie, session, pending, out>>
      BY <2>1, <2>4, <2>6, CalmStep
    <2>7. QED
      BY <2>3, <2>5, <2>6
  <1>3. QED
    BY <1>1, <1>2

\* The second factor is passed: whether or not a session comes of it.
LEMMA FinishStep ==
  ASSUME BrowserInv, NEW t \in Tab, FinishMfa(t), pending' \in BOOLEAN,
         \/ UNCHANGED <<session, out>>
         \/ session' = "live" /\ out' = "no"
  PROVE  BrowserInv'
  <1> DEFINE row == [tab[t] EXCEPT !.own = "idle", !.verified = TRUE]
  <1>a. tab[t] \in TabRow
    BY InTabRow
  <1>b. row \in TabRow /\ Calm(row, tab[t]) /\ row.ctx = tab[t].ctx
        /\ row.held = tab[t].held
    BY <1>a DEF TabRow, Calm, OwnCalls
  <1>1. PICK r : /\ Put(t, r, FALSE)
                 /\ r \in {[row EXCEPT !.nav = "authorize"],
                           [Show(row, "console") EXCEPT !.held = FALSE]}
                 /\ cookie' = cookie \/ cookie' = (cookie \/ row.held)
    BY DEF FinishMfa
  <1> HIDE DEF row
  <1>2. Calm(r, row)
    BY <1>b, <1>1 DEF Show, TabRow, Calm, Pages
  <1>3. Calm(r, tab[t]) /\ r \in TabRow
    BY <1>a, <1>b, <1>2 DEF Calm
  <1>4. out' = "clean" => out = "clean" /\ session' = session
    OBVIOUS
  <1>5. out' = "clean" =>
          /\ ~cookie' /\ session' # "live"
          /\ r.call # "minted" /\ r.own # "exchanged" /\ ~r.held
          /\ \A u \in Tab \ {t} : ~OnItsWay(u) /\ ~tab[u].held
    BY <1>b, <1>1, <1>3, <1>4 DEF BrowserInv, CleanIsOver, OnItsWay, Calm
  <1>6. cookie' \in BOOLEAN /\ session' \in {"none", "live", "dead"}
        /\ out' \in {"no", "clean"}
    BY <1>b, <1>1 DEF BrowserInv, TypeOK, TabRow
  <1>7. QED
    BY <1>1, <1>3, <1>5, <1>6, PutStep

LEMMA MfaAnswerStep ==
  ASSUME BrowserInv, NEW t \in Tab, MfaAnswer(t)
  PROVE  BrowserInv'
  <1>a. tab[t] \in TabRow
    BY InTabRow
  <1>1. CASE ~pending /\ FinishMfa(t) /\ UNCHANGED <<server, out>>
    BY <1>1, FinishStep DEF server, BrowserInv, TypeOK
  <1>2. CASE pending' = FALSE /\ session' = "live" /\ out' = "no" /\ FinishMfa(t)
    BY <1>2, FinishStep
  <1>3. ASSUME NEW c \in {"idle", "back"},
               Put(t, [tab[t] EXCEPT !.own = c], challenge),
               UNCHANGED <<cookie, server, out>>
        PROVE  BrowserInv'
    BY <1>3, OwnCallStep DEF Call, OwnCalls
  <1>4. QED
    BY <1>1, <1>2, <1>3 DEF MfaAnswer

LEMMA ExchangeSteps ==
  ASSUME BrowserInv, NEW t \in Tab,
         \/ ExchangeMint(t) \/ ExchangeStore(t) \/ ExchangeRefused(t)
         \/ ExchangeLost(t)
  PROVE  BrowserInv'
  <1>a. tab[t] \in TabRow
    BY InTabRow
  <1>1. CASE ExchangeMint(t)
    <2> DEFINE r == [tab[t] EXCEPT !.own = "exchanged"]
    <2>1. r \in TabRow /\ r.verified = tab[t].verified
      BY <1>a DEF TabRow, OwnCalls
    <2>2. Put(t, r, challenge) /\ UNCHANGED <<cookie, session, pending, out>>
      BY <1>1 DEF ExchangeMint, Call, server
    <2>3. out' # "clean"
      BY <1>1, <2>2 DEF ExchangeMint, BrowserInv, CleanIsOver
    <2> HIDE DEF r
    <2>4. QED
      BY <2>1, <2>2, <2>3, PutStep DEF BrowserInv, TypeOK
  <1>2. CASE ExchangeStore(t)
    <2> DEFINE h == HoldRow(t, tab[t])
               r == [Show(h, "console") EXCEPT !.own = "idle", !.attempt = FALSE]
    <2>1. h \in TabRow /\ h.verified = tab[t].verified
      BY <1>a DEF HoldRow, TabRow
    <2>2. Put(t, r, challenge) /\ cookie' = ~NeedsMfa(t)
          /\ UNCHANGED <<session, pending, out>>
      BY <1>2 DEF ExchangeStore, StoredCookie, server
    <2> HIDE DEF h
    <2>3. r \in TabRow /\ r.verified = tab[t].verified
      BY <2>1 DEF Show, TabRow, Pages, OwnCalls
    <2> HIDE DEF r
    <2>4. out' # "clean"
      BY <1>2, <2>2 DEF ExchangeStore, BrowserInv, CleanIsOver, OnItsWay
    <2>5. challenge /\ cookie' => r.verified
      BY <2>2, <2>3 DEF NeedsMfa, Challenged, Verified
    <2>6. cookie' \in BOOLEAN
      BY <2>2 DEF NeedsMfa, Challenged, Verified
    <2>7. QED
      BY <2>2, <2>3, <2>4, <2>5, <2>6, PutStep DEF BrowserInv, TypeOK
  <1>3. CASE ExchangeRefused(t) \/ ExchangeLost(t)
    <2> DEFINE r == [Show(tab[t], "denied") EXCEPT !.own = "idle", !.attempt = FALSE]
    <2>1. Put(t, r, challenge) /\ UNCHANGED <<cookie, session, pending, out>>
      BY <1>3 DEF ExchangeRefused, ExchangeLost, ExchangeFail, server
    <2>2. Calm(r, tab[t]) /\ r.verified = tab[t].verified
      BY <1>a DEF Show, TabRow, Calm, Pages, OwnCalls
    <2> HIDE DEF r
    <2>3. QED
      BY <2>1, <2>2, CalmStep
  <1>4. QED
    BY <1>1, <1>2, <1>3

---------------------------------------------------------------------------
(***************************************************************************)
(* The steps of the guard and of the calls behind it.                      *)
(***************************************************************************)
LEMMA GuardSteps ==
  ASSUME BrowserInv, NEW t \in Tab,
         \/ Validate(t) \/ MeOk(t) \/ ApiSend(t) \/ ApiDone(t)
         \/ RefreshSend(t) \/ Navigate(t)
  PROVE  BrowserInv'
  <1>a. tab[t] \in TabRow
    BY InTabRow
  <1>b. Calm(tab[t], tab[t])
    BY <1>a DEF Calm
  <1>1. UNCHANGED <<cookie, session, pending, out>>
    BY DEF Validate, MeOk, ApiSend, ApiDone, RefreshSend, Navigate, server
  <1>2. CASE Validate(t)
    <2>1. PICK r : /\ r \in { [Show(tab[t], "mfa") EXCEPT !.guard = "shown"],
                              Show(tab[t], "root"),
                              [tab[t] EXCEPT !.call = "sent"] }
                   /\ Put(t, r, challenge)
      BY <1>2 DEF Validate
    <2>2. Calm(r, tab[t]) /\ r.verified = tab[t].verified
      BY <1>a, <2>1 DEF Show, TabRow, Calm, Pages, CallStates
    <2>3. QED
      BY <1>1, <2>1, <2>2, CalmStep
  <1>3. CASE MeOk(t)
    <2> DEFINE row == [tab[t] EXCEPT !.call = "idle"]
    <2>1. row \in TabRow /\ Calm(row, tab[t]) /\ row.verified = tab[t].verified
      BY <1>a DEF TabRow, Calm, CallStates
    <2>2. PICK r : /\ r \in { Show(row, "denied"), [row EXCEPT !.guard = "allowed"],
                              [Show(row, "mfa") EXCEPT !.guard = "shown"] }
                   /\ Put(t, r, challenge)
      BY <1>3 DEF MeOk
    <2> HIDE DEF row
    <2>3. Calm(r, row) /\ r.verified = row.verified
      BY <2>1, <2>2 DEF Show, TabRow, Calm, Pages
    <2>4. Calm(r, tab[t])
      BY <2>1, <2>3 DEF Calm
    <2>5. QED
      BY <1>1, <2>1, <2>2, <2>3, <2>4, CalmStep
  <1>4. CASE ApiSend(t) \/ ApiDone(t) \/ RefreshSend(t) \/ Navigate(t)
    <2>1. PICK r : /\ \/ r \in {[tab[t] EXCEPT !.call = c] : c \in {"sent", "idle", "refresh"}}
                      \/ r = [tab[t] EXCEPT !.guard = "loading"]
                   /\ Put(t, r, challenge)
      BY <1>4 DEF ApiSend, ApiDone, RefreshSend, Navigate
    <2>2. Calm(r, tab[t]) /\ r.verified = tab[t].verified
      BY <1>a, <2>1 DEF TabRow, Calm, CallStates
    <2>3. QED
      BY <1>1, <2>1, <2>2, CalmStep
  <1>5. QED
    BY <1>2, <1>3, <1>4

LEMMA RefreshSteps ==
  ASSUME BrowserInv, NEW t \in Tab, RefreshMint(t) \/ RefreshStore(t)
  PROVE  BrowserInv'
  <1>a. tab[t] \in TabRow
    BY InTabRow
  <1>1. CASE RefreshMint(t)
    <2> DEFINE r == [tab[t] EXCEPT !.call = "minted"]
    <2>1. r \in TabRow /\ r.verified = tab[t].verified
      BY <1>a DEF TabRow, CallStates
    <2>2. Put(t, r, challenge) /\ UNCHANGED <<cookie, session, pending, out>>
      BY <1>1 DEF RefreshMint, server
    <2>3. out' # "clean"
      BY <1>1, <2>2 DEF RefreshMint, BrowserInv, CleanIsOver
    <2> HIDE DEF r
    <2>4. QED
      BY <2>1, <2>2, <2>3, PutStep DEF BrowserInv, TypeOK
  <1>2. CASE RefreshStore(t)
    <2> DEFINE h == HoldRow(t, tab[t])
               r == [h EXCEPT !.call = "again"]
    <2>1. h \in TabRow /\ h.verified = tab[t].verified
      BY <1>a DEF HoldRow, TabRow
    <2>2. Put(t, r, challenge) /\ cookie' = ~NeedsMfa(t)
          /\ UNCHANGED <<session, pending, out>>
      BY <1>2 DEF RefreshStore, StoredCookie, server
    <2> HIDE DEF h
    <2>3. r \in TabRow /\ r.verified = tab[t].verified
      BY <2>1 DEF TabRow, CallStates
    <2> HIDE DEF r
    <2>4. out' # "clean"
      BY <1>2, <2>2 DEF RefreshStore, BrowserInv, CleanIsOver, OnItsWay
    <2>5. (challenge /\ cookie' => r.verified) /\ cookie' \in BOOLEAN
      BY <2>2, <2>3 DEF NeedsMfa, Challenged, Verified
    <2>6. QED
      BY <2>2, <2>3, <2>4, <2>5, PutStep DEF BrowserInv, TypeOK
  <1>3. QED
    BY <1>1, <1>2

\* Errors of the guard's own call: it forgets the sign-in.
LEMMA GuardFailsStep ==
  ASSUME BrowserInv, NEW t \in Tab, NEW r \in TabRow, Calm(r, tab[t]),
         NEW p \in Pages, GuardFails(t, r, p)
  PROVE  BrowserInv'
  <1> DEFINE i == [r EXCEPT !.call = "idle"]
             c == ClearRow(i)
             s == Show(c, p)
  <1>1. /\ Put(t, s, FALSE) /\ cookie' = FALSE
        /\ UNCHANGED <<session, pending, out>>
    BY DEF GuardFails, ClearedCookie, server
  <1>2. i \in TabRow /\ Calm(i, tab[t])
    BY DEF TabRow, Calm, CallStates
  <1> HIDE DEF i
  <1>3. c \in TabRow /\ Calm(c, tab[t])
    BY <1>2, ClearedRow DEF Calm
  <1> HIDE DEF c
  <1>4. Calm(s, tab[t])
    BY <1>3, ShowRow DEF Calm
  <1> HIDE DEF s
  <1>5. QED
    BY <1>1, <1>4, ForgetStep

\* Errors of a page's call: behind the guard they forget the sign-in too.
LEMMA ApiFailsStep ==
  ASSUME BrowserInv, NEW t \in Tab, NEW r \in TabRow, Calm(r, tab[t]),
         ~Bounces(t) => r = tab[t], ApiFails(t, r)
  PROVE  BrowserInv'
  <1> DEFINE i == [r EXCEPT !.call = "idle"]
  <1>1. i \in TabRow /\ Calm(i, tab[t]) /\ i.verified = r.verified
    BY DEF TabRow, Calm, CallStates
  <1>2. /\ IF Bounces(t) THEN Put(t, i, FALSE) /\ cookie' = FALSE
                           ELSE Put(t, i, challenge) /\ UNCHANGED cookie
        /\ UNCHANGED <<session, pending, out>>
    BY DEF ApiFails, server
  <1> HIDE DEF i
  <1>3. CASE Bounces(t)
    BY <1>1, <1>2, <1>3, ForgetStep
  <1>4. CASE ~Bounces(t)
    BY <1>1, <1>2, <1>4, CalmStep
  <1>5. QED
    BY <1>3, <1>4

LEMMA FailSteps ==
  ASSUME BrowserInv, NEW t \in Tab,
         \/ MeFails(t) \/ MeRefused(t) \/ ApiUnauthorized(t) \/ ApiRefused(t)
  PROVE  BrowserInv'
  <1> DEFINE b == Bounced(tab[t])
             bb == Bounced(b)
  <1>a. tab[t] \in TabRow /\ Calm(tab[t], tab[t])
    BY InTabRow DEF Calm
  <1>b. b \in TabRow /\ Calm(b, tab[t])
    BY <1>a, BouncedRow DEF Calm
  <1>c. ~Bounces(t) => b = tab[t] /\ bb = tab[t]
    BY DEF Bounces, Bounced
  <1>1. \/ \E r \in {tab[t], b, bb}, p \in {"login", "root"} : GuardFails(t, r, p)
        \/ \E r \in {b, bb} : ApiFails(t, r)
    BY DEF MeFails, MeRefused, ApiUnauthorized, ApiRefused
  <1> HIDE DEF b
  <1>d. bb \in TabRow /\ Calm(bb, tab[t])
    BY <1>b, BouncedRow DEF Calm
  <1> HIDE DEF bb
  <1>2. CASE \E r \in {tab[t], b, bb}, p \in {"login", "root"} : GuardFails(t, r, p)
    BY <1>a, <1>b, <1>d, <1>2, GuardFailsStep DEF Pages
  <1>3. CASE \E r \in {b, bb} : ApiFails(t, r)
    BY <1>b, <1>c, <1>d, <1>3, ApiFailsStep
  <1>4. QED
    BY <1>1, <1>2, <1>3

---------------------------------------------------------------------------
(***************************************************************************)
(* Leaving, and time.                                                      *)
(***************************************************************************)
LEMMA LeaveStarts ==
  ASSUME BrowserInv, NEW t \in Tab, LogoutStart(t) \/ LeaveDenied(t)
  PROVE  BrowserInv'
  <1>1. tab[t] \in TabRow
    BY InTabRow
  <1>2. PICK r : /\ r \in {[Show(tab[t], "logout") EXCEPT !.own = "logout"],
                          [tab[t] EXCEPT !.own = "leave", !.attempt = FALSE]}
                 /\ Put(t, r, challenge)
    BY DEF LogoutStart, LeaveDenied
  <1>3. UNCHANGED <<cookie, session, pending, out>>
    BY DEF LogoutStart, LeaveDenied, server
  <1>4. Calm(r, tab[t]) /\ r.verified = tab[t].verified
    BY <1>1, <1>2 DEF Show, TabRow, Calm, Pages, OwnCalls
  <1>5. QED
    BY <1>2, <1>3, <1>4, CalmStep

LEMMA LeaveSteps ==
  ASSUME BrowserInv, NEW t \in Tab, BackDone(t) \/ LogoutDone(t) \/ LeaveDone(t)
  PROVE  BrowserInv'
  <1> DEFINE c == ClearRow(tab[t])
  <1>1. tab[t] \in TabRow
    BY InTabRow
  <1>2. c \in TabRow /\ Calm(c, tab[t])
    BY <1>1, ClearedRow DEF Calm
  <1>3. PICK r : /\ \/ r \in {[Show(c, "login") EXCEPT !.own = "idle", !.ctx = FALSE],
                             [Show(c, "login") EXCEPT !.own = "idle"]}
                    \/ \E a \in BOOLEAN :
                         r = [c EXCEPT !.own = "idle", !.nav = "login", !.attempt = a]
                 /\ Put(t, r, FALSE)
    <2>1. CASE BackDone(t) \/ LogoutDone(t)
      BY <2>1 DEF BackDone, LogoutDone
    <2>2. CASE LeaveDone(t)
      BY <1>1, <2>2 DEF LeaveDone, TabRow
    <2>3. QED
      BY <2>1, <2>2
  <1>4. /\ cookie' = FALSE /\ session' \in {session, "none"}
        /\ pending' = pending /\ SignedOut
    BY DEF BackDone, LogoutDone, LeaveDone, ClearedCookie
  <1> HIDE DEF c
  <1>5. Calm(r, c)
    BY <1>2, <1>3 DEF Show, TabRow, Calm, Pages, OwnCalls
  <1>6. Calm(r, tab[t])
    BY <1>2, <1>5 DEF Calm
  <1>7. QED
    BY <1>3, <1>4, <1>6, LeaveStep

LEMMA TimeStep ==
  ASSUME BrowserInv, Time
  PROVE  BrowserInv'
  <1>1. CASE CookieExpires \/ SessionEnds \/ PendingExpires
    <2>1. UNCHANGED <<challenge, tab, out>> /\ (cookie' => cookie)
          /\ (session' = "live" => session = "live")
      BY <1>1 DEF CookieExpires, SessionEnds, PendingExpires, shared, server
    <2>2. TypeOK'
      BY <1>1 DEF CookieExpires, SessionEnds, PendingExpires, shared, server,
                  BrowserInv, TypeOK
    <2>3. QED
      BY <2>1, <2>2 DEF BrowserInv, ChallengeHoldsAccess, CleanIsOver, OnItsWay
  <1>2. ASSUME NEW t \in Tab, AttemptAges(t)
        PROVE  BrowserInv'
    <2>1. /\ tab' = [tab EXCEPT ![t].attempt = FALSE]
          /\ UNCHANGED <<cookie, challenge, session, pending, out>>
      BY <1>2 DEF AttemptAges, shared, server
    <2>2. \A u \in Tab : tab[u] \in TabRow
      BY DEF BrowserInv, TypeOK
    <2>3. /\ tab' \in [Tab -> TabRow]
          /\ \A u \in Tab :
               /\ tab'[u].verified = tab[u].verified /\ tab'[u].held = tab[u].held
               /\ tab'[u].call = tab[u].call /\ tab'[u].own = tab[u].own
      <3>1. tab = [u \in Tab |-> tab[u]]
        BY DEF BrowserInv, TypeOK
      <3>2. \A u \in Tab : tab'[u] = IF u = t THEN [tab[u] EXCEPT !.attempt = FALSE]
                                             ELSE tab[u]
        BY <2>1, <3>1
      <3>3. tab' \in [Tab -> TabRow]
        BY <2>1, <2>2, <3>1 DEF TabRow
      <3>4. QED
        BY <2>2, <3>2, <3>3 DEF TabRow
    <2>4. QED
      BY <2>1, <2>3 DEF BrowserInv, TypeOK, ChallengeHoldsAccess, CleanIsOver,
                        OnItsWay
  <1>3. QED
    BY <1>1, <1>2 DEF Time

---------------------------------------------------------------------------
LEMMA BrowserInit == Init => BrowserInv
  <1>1. NewTab \in TabRow
    BY DEF NewTab, TabRow, Pages, CallStates, OwnCalls
  <1>2. Init => TypeOK
    BY <1>1 DEF Init, TypeOK
  <1>3. Init => ~cookie /\ out # "clean"
    BY DEF Init
  <1>4. QED
    BY <1>2, <1>3 DEF BrowserInv, ChallengeHoldsAccess, CleanIsOver

LEMMA BrowserStep ==
  ASSUME BrowserInv, [Next]_vars
  PROVE  BrowserInv'
  <1>1. ASSUME NEW t \in Tab, User(t) \/ Runs(t) \/ Fails(t)
        PROVE  BrowserInv'
    BY <1>1, DocumentSteps, LoginSteps, MfaAnswerStep, ExchangeSteps,
       GuardSteps, RefreshSteps, FailSteps, LeaveStarts, LeaveSteps
       DEF User, Runs, Fails
  <1>2. CASE UNCHANGED vars
    BY <1>2 DEF vars, BrowserInv, TypeOK, ChallengeHoldsAccess, CleanIsOver,
                OnItsWay
  <1>3. QED
    BY <1>1, <1>2, TimeStep DEF Next

---------------------------------------------------------------------------
\* The inductive invariant: types, no token next to a challenge nobody passed,
\* and what a clean sign-out leaves (axiosInstance.js, authCookies.js).
THEOREM BrowserInvariant == Spec => []BrowserInv
  BY BrowserInit, BrowserStep, PTL DEF Spec

\* For any number of tabs there is no access token next to a pending second
\* factor unless a tab has passed it (storeTokenResponse of axiosInstance.js).
THEOREM ChallengeHolds == Spec => []ChallengeHoldsAccess
  BY BrowserInvariant, PTL DEF BrowserInv

\* After a sign-out that left nothing behind no tab brings a token back before
\* the next sign-in (clearAuthState, Logout.jsx).
THEOREM SignedOutHolds == Spec => []SignedOutStaysOut
  <1>1. BrowserInv => SignedOutStaysOut
    BY DEF BrowserInv, CleanIsOver, SignedOutStaysOut
  <1>2. QED
    BY <1>1, BrowserInvariant, PTL
===========================================================================
