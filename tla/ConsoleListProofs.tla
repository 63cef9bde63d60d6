------------------------- MODULE ConsoleListProofs -------------------------
(***************************************************************************)
(* The lists of the console, for any number of fetches and writes at the   *)
(* same time: a list that is at rest shows the view chosen, and every      *)
(* write.  L is ConsoleList, within MCConsole.  At the end, the types of   *)
(* all that MCConsole puts on the screen.                                  *)
(***************************************************************************)
EXTENDS ConsolePageProofs

FetchRow == [view : L!Views, loud : BOOLEAN, src : Fetches, got : L!Answers]
CacheRow == [src : Fetches \cup {0}, ans : L!Answers]

\* A write that was committed and has not yet emptied the cache.
Stale == \E w \in Writers : write[w].st = "committed"
Busy  == \E w \in Writers : write[w].st # "idle"

\* A fetch waits for one that asks the server for the same view.
FollowsLeader ==
  \A f \in L!Waiting :
    fetch[f].src \in L!Leaders /\ fetch[fetch[f].src].view = fetch[f].view

\* A cached request that is unanswered is the one of a fetch for its view.
CacheNamesLeader ==
  \A v \in L!Views :
    cache[v].src # 0 => cache[v].src \in L!Leaders /\ fetch[cache[v].src].view = v

\* The hook of the users asks for one view once at a time.
OneLeader ==
  kind = "users" =>
    \A f, g \in L!Leaders : fetch[f].view = fetch[g].view => f = g

\* A write is about a view.
WritesAsk == \A w \in Writers : write[w].st # "idle" => write[w].view \in L!Views

Shape ==
  L!TypeOK /\ FollowsLeader /\ CacheNamesLeader /\ OneLeader /\ WritesAsk

\* What the server answered is what it has.
GotFresh ==
  clean => \A f \in L!Waiting : fetch[f].got # L!Unread => fetch[f].got.ver = db

\* So is what the cache answers, but between a write and the refetch.
CacheFresh ==
  clean /\ ~Stale =>
    \A v \in L!Views : cache[v].ans # L!Unread => cache[v].ans.ver = db

\* A view is left when nothing goes on for it.
DueIsBare == clean /\ due => ~Busy /\ (kind # "users" => L!Waiting = {})
WritesFit == clean => \A w \in Writers : write[w].st # "idle" => write[w].view = view

\* The fetches whose answers the screen will show.
Awaited    == IF kind = "users" THEN L!Waiting \cap {latest} ELSE L!Waiting
AwaitedFit == clean /\ ~due => \A f \in Awaited : fetch[f].view = view

\* Rows nothing is awaited for are those of the view, and as fresh.
ShownFits ==
  clean /\ ~due /\ Awaited = {} /\ shown # L!Nothing =>
    shown.view = view /\ (Stale \/ shown.ver = db)

\* A list that loads has an answer to come that ends it.
LoadingAwaits ==
  clean /\ loading /\ ~due =>
    \E f \in L!Waiting :
      /\ fetch[f].loud
      /\ kind = "users" => latest \in L!Waiting /\ fetch[f].src = fetch[latest].src

ListInv ==
  /\ Shape
  /\ GotFresh /\ CacheFresh
  /\ DueIsBare /\ WritesFit /\ AwaitedFit /\ ShownFits /\ LoadingAwaits

---------------------------------------------------------------------------
LEMMA ListTypes ==
  ASSUME L!TypeOK
  PROVE  /\ kind \in Kinds /\ db \in 0..MaxWrites
         /\ pages \in L!Views /\ view \in L!Views /\ due \in BOOLEAN
         /\ loading \in BOOLEAN /\ dialog \in BOOLEAN /\ clean \in BOOLEAN
         /\ cache \in [L!Views -> CacheRow]
         /\ fetch \in [Fetches -> FetchRow \cup {L!NoFetch}]
         /\ latest \in Fetches \cup {0}
         /\ write \in [Writers -> L!Writes]
  BY DEF L!TypeOK, CacheRow, FetchRow

\* No number of a fetch is 0, so what waits differs from what does not.
LEMMA EmptyRows ==
  /\ 0 \notin Fetches
  /\ L!NoFetch \notin FetchRow /\ L!NoFetch.src = 0
  /\ L!Missing \in CacheRow /\ L!Missing.src = 0 /\ L!Missing.ans = L!Unread
  /\ L!Unread \in L!Answers
  /\ L!NoWrite \in L!Writes /\ L!NoWrite.st = "idle"
  /\ \A a \in L!Answers : a # L!Unread => a.ver \in 0..MaxWrites /\ a.pages \in L!Views
  <1>1. 0 \notin Fetches
    BY ConsoleAssumption
  <1>2. L!Unread \in L!Answers
        /\ \A a \in L!Answers : a # L!Unread => a.ver \in 0..MaxWrites /\ a.pages \in L!Views
    BY DEF L!Answers, L!Unread
  <1>3. L!NoFetch \notin FetchRow /\ L!NoFetch.src = 0
    BY DEF L!NoFetch, FetchRow, L!Views
  <1>4. L!Missing \in CacheRow /\ L!Missing.src = 0 /\ L!Missing.ans = L!Unread
    BY <1>2 DEF L!Missing, CacheRow
  <1>5. L!NoWrite \in L!Writes /\ L!NoWrite.st = "idle"
    BY DEF L!NoWrite, L!Writes
  <1>6. QED
    BY <1>1, <1>2, <1>3, <1>4, <1>5

LEMMA WaitingRows ==
  ASSUME L!TypeOK
  PROVE  \A f \in Fetches :
           /\ f \in L!Waiting => fetch[f] \in FetchRow
           /\ f \in L!Waiting <=> fetch[f].src # 0
           /\ f \in L!Leaders <=> fetch[f].src = f
  <1> SUFFICES ASSUME NEW f \in Fetches
               PROVE  /\ f \in L!Waiting => fetch[f] \in FetchRow
                      /\ f \in L!Waiting <=> fetch[f].src # 0
                      /\ f \in L!Leaders <=> fetch[f].src = f
    OBVIOUS
  <1>1. fetch[f] \in FetchRow \cup {L!NoFetch}
    BY ListTypes
  <1>2. CASE fetch[f] = L!NoFetch
    BY <1>2, EmptyRows DEF L!Waiting, L!Leaders
  <1>3. CASE fetch[f] # L!NoFetch
    <2>1. fetch[f] \in FetchRow /\ fetch[f].src \in Fetches
      BY <1>1, <1>3 DEF FetchRow
    <2>2. QED
      BY <1>3, <2>1, EmptyRows DEF L!Waiting, L!Leaders
  <1>4. QED
    BY <1>2, <1>3

LEMMA ListInvInit == L!Init => ListInv
  <1> SUFFICES ASSUME L!Init
               PROVE  ListInv
    OBVIOUS
  <1>1. /\ kind \in Kinds /\ db = 0 /\ pages \in L!Views /\ view = 1 /\ due = TRUE
        /\ shown = L!Nothing /\ loading = TRUE /\ latest = 0 /\ dialog = FALSE
        /\ cache = [v \in L!Views |-> L!Missing]
        /\ fetch = [f \in Fetches |-> L!NoFetch]
        /\ write = [w \in Writers |-> L!NoWrite]
        /\ clean = TRUE
    BY DEF L!Init, L!Views
  <1>2. L!TypeOK
    <2>1. 0 \in 0..MaxWrites /\ 1 \in L!Views
      BY ConsoleAssumption DEF L!Views
    <2>2. QED
      BY <1>1, <2>1, EmptyRows DEF L!TypeOK, CacheRow
  <1>3. L!Waiting = {}
    BY <1>1 DEF L!Waiting
  <1>4. Shape
    BY <1>1, <1>2, <1>3, EmptyRows
    DEF Shape, FollowsLeader, CacheNamesLeader, OneLeader, WritesAsk, L!Leaders
  <1>5. ~Busy /\ ~Stale
    BY <1>1, EmptyRows DEF Busy, Stale
  <1>6. GotFresh /\ CacheFresh /\ DueIsBare /\ WritesFit /\ AwaitedFit /\ ShownFits
        /\ LoadingAwaits
    BY <1>1, <1>3, <1>5, EmptyRows
    DEF GotFresh, CacheFresh, DueIsBare, WritesFit, AwaitedFit, ShownFits, LoadingAwaits
  <1>7. QED
    BY <1>4, <1>6 DEF ListInv

---------------------------------------------------------------------------
\* A step of the dialog alone.
LEMMA SameListStep ==
  ASSUME ListInv, dialog' \in BOOLEAN,
         UNCHANGED <<kind, db, pages, view, due, shown, loading, cache, fetch,
                     latest, write, clean>>
  PROVE  ListInv'
  <1>1. Shape'
    BY DEF ListInv, Shape, L!TypeOK, FollowsLeader, CacheNamesLeader, OneLeader,
           WritesAsk, L!Waiting, L!Leaders
  <1>2. Stale' = Stale /\ Busy' = Busy /\ L!Waiting' = L!Waiting /\ Awaited' = Awaited
    BY DEF Stale, Busy, L!Waiting, Awaited
  <1>3. GotFresh' /\ CacheFresh' /\ DueIsBare' /\ WritesFit'
    BY <1>2 DEF ListInv, GotFresh, CacheFresh, DueIsBare, WritesFit
  <1>4. AwaitedFit' /\ ShownFits' /\ LoadingAwaits'
    BY <1>2 DEF ListInv, AwaitedFit, ShownFits, LoadingAwaits
  <1>5. QED
    BY <1>1, <1>3, <1>4 DEF ListInv

\* A new fetch joins one for its view, or asks the server.
LEMMA RequestStep ==
  ASSUME L!TypeOK, FollowsLeader, OneLeader, UNCHANGED kind,
         NEW f \in Fetches, f \notin L!Waiting, NEW v \in L!Views, NEW loud \in BOOLEAN,
         NEW c \in [L!Views -> CacheRow],
         \A u \in L!Views : c[u].src # 0 => c[u].src \in L!Leaders /\ fetch[c[u].src].view = u,
         L!Request(f, v, loud, c)
  PROVE  \E src \in Fetches :
           /\ \/ src = f
              \/ src \in L!Leaders /\ fetch[src].view = v
           /\ fetch' = [fetch EXCEPT ![f] =
                [view |-> v, loud |-> loud, src |-> src, got |-> L!Unread]]
           /\ fetch' \in [Fetches -> FetchRow \cup {L!NoFetch}]
           /\ L!Waiting' = L!Waiting \cup {f}
           /\ L!Leaders' = IF src = f THEN L!Leaders \cup {f} ELSE L!Leaders
           /\ cache' \in [L!Views -> CacheRow]
           /\ \A u \in L!Views : cache'[u].ans # L!Unread => cache'[u] = c[u]
           /\ FollowsLeader' /\ CacheNamesLeader' /\ OneLeader'
  <1> DEFINE J == L!Joined(v, c)
             src == IF J # {} THEN CHOOSE g \in J : TRUE ELSE f
             r == [view |-> v, loud |-> loud, src |-> src, got |-> L!Unread]
  <1>1. \A g \in J : g \in L!Leaders /\ fetch[g].view = v
    BY EmptyRows DEF L!Joined
  <1>2. kind = "users" /\ J = {} => \A g \in L!Leaders : fetch[g].view # v
    BY DEF L!Joined
  <1>3. fetch' = [fetch EXCEPT ![f] = r]
        /\ cache' = IF src = f THEN [c EXCEPT ![v] = L!Pending(f)] ELSE c
    BY DEF L!Request
  <1>4. J # {} => src \in J
    OBVIOUS
  <1>5. J = {} => src = f
    OBVIOUS
  <1>6. f \notin L!Leaders
    BY DEF L!Leaders
  <1> HIDE DEF src, J
  <1>7. src \in Fetches
    BY <1>1, <1>4, <1>5 DEF L!Leaders, L!Waiting
  <1>8. r \in FetchRow /\ r # L!NoFetch /\ r.view = v /\ r.src = src
    BY <1>7, EmptyRows DEF FetchRow
  <1> HIDE DEF r
  <1>9. /\ fetch' \in [Fetches -> FetchRow \cup {L!NoFetch}]
        /\ \A g \in Fetches : fetch'[g] = IF g = f THEN r ELSE fetch[g]
    BY <1>3, <1>8, ListTypes
  <1>10. L!Waiting' = L!Waiting \cup {f}
    BY <1>8, <1>9 DEF L!Waiting
  <1>11. L!Leaders' = IF src = f THEN L!Leaders \cup {f} ELSE L!Leaders
    <2>1. \A g \in Fetches : g \in L!Leaders' <=> IF g = f THEN src = f ELSE g \in L!Leaders
      BY <1>8, <1>9, <1>10 DEF L!Leaders, L!Waiting
    <2>2. L!Leaders \subseteq Fetches /\ L!Leaders' \subseteq Fetches
      BY DEF L!Leaders, L!Waiting
    <2>3. QED
      BY <2>1, <2>2, <1>6
  <1>12. \/ src = f
         \/ src \in L!Leaders /\ fetch[src].view = v
    BY <1>1, <1>4, <1>5
  <1>13. FollowsLeader'
    <2> SUFFICES ASSUME NEW g \in L!Waiting'
                 PROVE  /\ fetch'[g].src \in L!Leaders'
                        /\ fetch'[fetch'[g].src].view = fetch'[g].view
      BY DEF FollowsLeader
    <2>1. CASE g = f
      BY <2>1, <1>6, <1>7, <1>8, <1>9, <1>11, <1>12
    <2>2. CASE g # f
      <3>1. g \in L!Waiting /\ fetch'[g] = fetch[g]
        BY <2>2, <1>9, <1>10 DEF L!Waiting
      <3>2. fetch[g].src \in L!Leaders /\ fetch[fetch[g].src].view = fetch[g].view
        BY <3>1 DEF FollowsLeader
      <3>3. fetch[g].src \in Fetches /\ fetch[g].src # f
        BY <3>2, <1>6 DEF L!Leaders, L!Waiting
      <3>4. QED
        BY <3>1, <3>2, <3>3, <1>9, <1>11
    <2>3. QED
      BY <2>1, <2>2
  <1>14. cache' \in [L!Views -> CacheRow]
         /\ \A u \in L!Views :
              cache'[u] = IF src = f /\ u = v THEN L!Pending(f) ELSE c[u]
    <2>1. L!Pending(f) \in CacheRow
      BY EmptyRows DEF L!Pending, CacheRow
    <2>2. QED
      BY <1>3, <2>1
  <1>15. L!Pending(f).src = f /\ L!Pending(f).ans = L!Unread
    BY DEF L!Pending
  <1>16. CacheNamesLeader'
    <2> SUFFICES ASSUME NEW u \in L!Views, cache'[u].src # 0
                 PROVE  cache'[u].src \in L!Leaders' /\ fetch'[cache'[u].src].view = u
      BY DEF CacheNamesLeader, L!Views
    <2>1. CASE src = f /\ u = v
      BY <2>1, <1>8, <1>9, <1>11, <1>14, <1>15
    <2>2. CASE ~(src = f /\ u = v)
      <3>1. cache'[u] = c[u] /\ c[u].src \in L!Leaders /\ fetch[c[u].src].view = u
        BY <2>2, <1>14
      <3>2. c[u].src \in Fetches /\ c[u].src # f
        BY <3>1, <1>6 DEF L!Leaders, L!Waiting
      <3>3. QED
        BY <3>1, <3>2, <1>9, <1>11
    <2>3. QED
      BY <2>1, <2>2
  <1>17. OneLeader'
    <2> SUFFICES ASSUME kind = "users", NEW g \in L!Leaders', NEW h \in L!Leaders',
                        fetch'[g].view = fetch'[h].view
                 PROVE  g = h
      BY DEF OneLeader
    <2>1. J # {} => src # f
      BY <1>1, <1>4, <1>6
    <2>2. \A k \in L!Leaders : k \in Fetches /\ k # f /\ fetch'[k] = fetch[k]
      BY <1>6, <1>9 DEF L!Leaders, L!Waiting
    <2>3. CASE src = f
      BY <2>1, <2>2, <2>3, <1>2, <1>8, <1>9, <1>11 DEF OneLeader
    <2>4. CASE src # f
      BY <2>2, <2>4, <1>11 DEF OneLeader
    <2>5. QED
      BY <2>3, <2>4
  <1>18. \A u \in L!Views : cache'[u].ans # L!Unread => cache'[u] = c[u]
    BY <1>14, <1>15
  <1>19. fetch' = [fetch EXCEPT ![f] =
                [view |-> v, loud |-> loud, src |-> src, got |-> L!Unread]]
    BY <1>3 DEF r
  <1>20. QED
    BY <1>7, <1>9, <1>10, <1>11, <1>12, <1>13, <1>14, <1>16, <1>17, <1>18, <1>19

---------------------------------------------------------------------------
\* The fetches that share an answer end together.
LEMMA EndsFacts ==
  ASSUME L!TypeOK, FollowsLeader, NEW f \in L!Leaders, L!Ends(f, L!Sharing(f))
  PROVE  /\ f \in Fetches /\ f \in L!Sharing(f) /\ fetch[f] \in FetchRow
         /\ L!Sharing(f) \subseteq L!Waiting
         /\ \A g \in L!Sharing(f) : fetch[g].view = fetch[f].view
         /\ fetch' \in [Fetches -> FetchRow \cup {L!NoFetch}]
         /\ L!Waiting' = L!Waiting \ L!Sharing(f)
         /\ L!Leaders' = L!Leaders \ {f}
         /\ \A g \in L!Waiting' : fetch'[g] = fetch[g]
         /\ write' \in [Writers -> L!Writes]
         /\ \A w \in Writers : \/ write'[w] = write[w]
                               \/ write[w].st = "refetch" /\ write'[w].st = "idle"
         /\ Stale' = Stale
         /\ loading' = (loading /\ ~(/\ \E g \in L!Sharing(f) : fetch[g].loud
                                     /\ L!Applies(L!Sharing(f))))
         /\ dialog' \in BOOLEAN
  <1> DEFINE ids == L!Sharing(f)
  <1>1. f \in Fetches /\ fetch[f] \in FetchRow /\ f \in ids /\ fetch[f].src = f
    BY WaitingRows DEF L!Leaders, L!Waiting, L!Sharing
  <1>2. ids \subseteq L!Waiting
        /\ \A g \in L!Waiting : g \in ids <=> fetch[g].src = f
    BY DEF L!Sharing
  <1>3. \A g \in ids : fetch[g].view = fetch[f].view
    BY <1>2 DEF FollowsLeader
  <1>4. fetch' = [g \in Fetches |-> IF g \in ids THEN L!NoFetch ELSE fetch[g]]
    BY DEF L!Ends
  <1>5. fetch' \in [Fetches -> FetchRow \cup {L!NoFetch}]
    BY <1>4, ListTypes
  <1>6. L!Waiting' = L!Waiting \ ids
    BY <1>4 DEF L!Waiting
  <1>7. \A g \in L!Waiting' : fetch'[g] = fetch[g]
    BY <1>4, <1>6 DEF L!Waiting
  <1>8. L!Leaders' = L!Leaders \ {f}
    BY <1>2, <1>6, <1>7 DEF L!Leaders
  <1>9. /\ write' \in [Writers -> L!Writes]
        /\ \A w \in Writers : \/ write'[w] = write[w]
                              \/ write[w].st = "refetch" /\ write'[w].st = "idle"
    <2> DEFINE over == {w \in Writers : write[w].st = "refetch" /\ write[w].fetch \in ids}
    <2>1. write' = [w \in Writers |-> IF w \in over THEN L!NoWrite ELSE write[w]]
      BY DEF L!Ends
    <2>2. QED
      BY <2>1, ListTypes, EmptyRows
  <1>10. Stale' = Stale
    BY <1>9 DEF Stale
  <1>11. /\ loading' = (loading /\ ~(/\ \E g \in ids : fetch[g].loud
                                     /\ L!Applies(ids)))
         /\ dialog' \in BOOLEAN
    BY DEF L!Ends, L!StopLoading
  <1>12. QED
    BY <1>1, <1>2, <1>3, <1>5, <1>6, <1>7, <1>8, <1>9, <1>10, <1>11

LEMMA EndsStep ==
  ASSUME ListInv, NEW f \in L!Leaders, L!Ends(f, L!Sharing(f)),
         cache' \in [L!Views -> CacheRow],
         cache'[fetch[f].view].src = 0,
         cache'[fetch[f].view].ans \in {fetch[f].got, L!Unread},
         \A u \in L!Views \ {fetch[f].view} : cache'[u] = cache[u],
         UNCHANGED <<kind, db, pages, latest>>,
         view' \in L!Views, due' = (due \/ view' # view),
         shown' \in [view : L!Views, ver : 0..MaxWrites] \cup {L!Nothing},
         clean' \in BOOLEAN, clean' => clean /\ L!Uncrossed,
         ShownFits'
  PROVE  ListInv'
  <1> DEFINE ids == L!Sharing(f)
             v == fetch[f].view
  <1>1. /\ f \in Fetches /\ f \in ids /\ fetch[f] \in FetchRow
        /\ ids \subseteq L!Waiting
        /\ \A g \in ids : fetch[g].view = v
        /\ fetch' \in [Fetches -> FetchRow \cup {L!NoFetch}]
        /\ L!Waiting' = L!Waiting \ ids
        /\ L!Leaders' = L!Leaders \ {f}
        /\ \A g \in L!Waiting' : fetch'[g] = fetch[g]
        /\ write' \in [Writers -> L!Writes]
        /\ \A w \in Writers : \/ write'[w] = write[w]
                              \/ write[w].st = "refetch" /\ write'[w].st = "idle"
        /\ Stale' = Stale
        /\ loading' = (loading /\ ~(/\ \E g \in ids : fetch[g].loud
                                    /\ L!Applies(ids)))
        /\ dialog' \in BOOLEAN
    BY EndsFacts DEF ListInv, Shape
  <1>2. v \in L!Views /\ fetch[f].got \in L!Answers
    BY <1>1 DEF FetchRow
  <1>3. \A g \in L!Waiting : g \in ids <=> fetch[g].src = f
    BY DEF L!Sharing
  <1> HIDE DEF ids
  <1>4. L!TypeOK'
    <2>1. due' \in BOOLEAN /\ loading' \in BOOLEAN
      BY <1>1
    <2>2. latest' \in Fetches \cup {0} /\ kind' \in Kinds /\ db' \in 0..MaxWrites
          /\ pages' \in L!Views
      BY ListTypes DEF ListInv, Shape
    <2>3. QED
      BY <1>1, <2>1, <2>2 DEF L!TypeOK, CacheRow, FetchRow
  <1>5. Shape'
    <2>1. FollowsLeader'
      <3> SUFFICES ASSUME NEW g \in L!Waiting'
                   PROVE  /\ fetch'[g].src \in L!Leaders'
                          /\ fetch'[fetch'[g].src].view = fetch'[g].view
        BY DEF FollowsLeader
      <3>1. g \in L!Waiting /\ fetch'[g] = fetch[g] /\ fetch[g].src # f
        BY <1>1, <1>3
      <3>2. fetch[g].src \in L!Leaders /\ fetch[fetch[g].src].view = fetch[g].view
        BY <3>1 DEF ListInv, Shape, FollowsLeader
      <3>3. fetch[g].src \in L!Leaders' /\ fetch[g].src \in L!Waiting'
        BY <1>1, <3>1, <3>2 DEF L!Leaders
      <3>4. QED
        BY <1>1, <3>1, <3>2, <3>3
    <2>2. CacheNamesLeader'
      <3> SUFFICES ASSUME NEW u \in L!Views, cache'[u].src # 0
                   PROVE  /\ cache'[u].src \in L!Leaders'
                          /\ fetch'[cache'[u].src].view = u
        BY DEF CacheNamesLeader, L!Views
      <3>1. u # v /\ cache'[u] = cache[u]
        OBVIOUS
      <3>2. cache[u].src \in L!Leaders /\ fetch[cache[u].src].view = u
        BY <3>1 DEF ListInv, Shape, CacheNamesLeader
      <3>3. cache[u].src \in L!Leaders' /\ cache[u].src \in L!Waiting'
        BY <1>1, <3>1, <3>2 DEF L!Leaders
      <3>4. QED
        BY <1>1, <3>1, <3>2, <3>3
    <2>3. OneLeader'
      <3>1. \A g \in L!Leaders' : g \in L!Leaders /\ fetch'[g] = fetch[g]
        BY <1>1 DEF L!Leaders
      <3>2. QED
        BY <3>1 DEF ListInv, Shape, OneLeader
    <2>4. WritesAsk'
      BY <1>1 DEF ListInv, Shape, WritesAsk, L!Views
    <2>5. QED
      BY <1>4, <2>1, <2>2, <2>3, <2>4 DEF Shape
  <1>6. GotFresh'
    BY <1>1 DEF ListInv, GotFresh, L!Unread
  <1>7. CacheFresh'
    <2>1. fetch[f].got # L!Unread /\ clean => fetch[f].got.ver = db
      BY <1>1 DEF ListInv, GotFresh
    <2> SUFFICES ASSUME clean, ~Stale, NEW u \in L!Views, cache'[u].ans # L!Unread
                 PROVE  cache'[u].ans.ver = db
      BY <1>1 DEF CacheFresh, L!Views, L!Unread
    <2>2. CASE u = v
      BY <2>1, <2>2
    <2>3. CASE u # v
      BY <2>3 DEF ListInv, CacheFresh
    <2>4. QED
      BY <2>2, <2>3
  <1>8. ~Busy => ~Busy'
    BY <1>1 DEF Busy
  <1>9. clean' /\ view' # view => ~Busy' /\ (kind # "users" => L!Waiting' = {})
    BY DEF L!Uncrossed, Busy, L!Waiting
  <1>10. DueIsBare'
    BY <1>1, <1>8, <1>9 DEF ListInv, DueIsBare
  <1>11. WritesFit'
    <2>1. CASE view' = view
      BY <1>1, <2>1 DEF ListInv, WritesFit
    <2>2. CASE view' # view
      BY <1>9, <2>2 DEF WritesFit, Busy
    <2>3. QED
      BY <2>1, <2>2
  <1>12. clean' /\ ~due' => clean /\ ~due /\ view' = view
    OBVIOUS
  <1>13. AwaitedFit'
    BY <1>1, <1>12 DEF ListInv, AwaitedFit, Awaited
  <1>14. LoadingAwaits'
    <2> SUFFICES ASSUME clean, ~due, loading, loading',
                        clean /\ loading /\ ~due =>
                          \E g \in L!Waiting :
                            /\ fetch[g].loud
                            /\ kind = "users" => /\ latest \in L!Waiting
                                                 /\ fetch[g].src = fetch[latest].src
                 PROVE  \E g \in L!Waiting' :
                          /\ fetch'[g].loud
                          /\ kind = "users" => /\ latest \in L!Waiting'
                                               /\ fetch'[g].src = fetch'[latest].src
      BY <1>1, <1>12 DEF ListInv, LoadingAwaits
    <2>1. PICK g \in L!Waiting :
            /\ fetch[g].loud
            /\ kind = "users" => latest \in L!Waiting /\ fetch[g].src = fetch[latest].src
      OBVIOUS
    <2>2. g \notin ids
      BY <1>1, <1>3, <2>1 DEF L!Applies
    <2>3. kind = "users" => latest \in L!Waiting /\ latest \notin ids
      BY <1>3, <2>1, <2>2
    <2>4. QED
      BY <1>1, <2>1, <2>2, <2>3
  <1>15. QED
    BY <1>5, <1>6, <1>7, <1>10, <1>11, <1>13, <1>14 DEF ListInv

LEMMA AnswerEndsStep ==
  ASSUME ListInv, NEW f \in Fetches, L!Answer(f) \/ L!Fail(f)
  PROVE  ListInv'
  <1> DEFINE ids == L!Sharing(f)
             v == fetch[f].view
             got == fetch[f].got
  <1>1. /\ f \in L!Leaders /\ L!Ends(f, L!Sharing(f))
        /\ UNCHANGED <<kind, db, pages, latest>>
        /\ clean' \in BOOLEAN /\ (clean' => clean /\ L!Uncrossed)
    BY DEF L!Answer, L!Fail
  <1>2. /\ f \in ids /\ fetch[f] \in FetchRow /\ ids \subseteq L!Waiting
        /\ \A g \in ids : fetch[g].view = v
        /\ L!Waiting' = L!Waiting \ ids /\ Stale' = Stale
    BY <1>1, EndsFacts DEF ListInv, Shape
  <1>3. v \in L!Views /\ got \in L!Answers /\ cache \in [L!Views -> CacheRow]
        /\ view \in L!Views /\ shown \in [view : L!Views, ver : 0..MaxWrites] \cup {L!Nothing}
    BY <1>2, ListTypes DEF ListInv, Shape, L!TypeOK, FetchRow
  <1>4. kind = "users" =>
          (L!Applies(ids) <=> latest \in ids) /\ ~L!Paged
    BY DEF L!Applies, L!Paged
  <1>5. kind # "users" => L!Applies(ids)
    BY DEF L!Applies
  <1>6. clean /\ ~due => \A g \in Awaited : fetch[g].view = view
    BY DEF ListInv, AwaitedFit
  <1>7. L!Applies(ids) => \E g \in Awaited : g \in ids
    BY <1>2, <1>4 DEF Awaited, L!Applies
  <1>8. ~L!Applies(ids) => Awaited' = Awaited
    BY <1>1, <1>2, <1>4, <1>5 DEF Awaited
  <1> HIDE DEF ids
  <1>9. CASE L!Answer(f)
    <2> DEFINE s == L!Stored(got)
    <2>1. /\ got # L!Unread /\ cache' = [cache EXCEPT ![v] = s]
          /\ L!Show(ids, v, got)
      BY <1>9 DEF L!Answer, ids
    <2>2. s \in CacheRow /\ s.src = 0 /\ s.ans = got
      BY <1>3 DEF L!Stored, CacheRow
    <2> HIDE DEF s
    <2>3. cache' \in [L!Views -> CacheRow] /\ cache'[v] = s
          /\ \A u \in L!Views \ {v} : cache'[u] = cache[u]
      BY <1>3, <2>1, <2>2
    <2>4. got.ver \in 0..MaxWrites /\ got.pages \in L!Views /\ (clean => got.ver = db)
      BY <1>2, <1>3, <2>1, EmptyRows DEF ListInv, GotFresh
    <2>5. CASE ~L!Applies(ids)
      <3>1. UNCHANGED <<shown, view, due>>
        BY <2>1, <2>5 DEF L!Show
      <3>2. ShownFits'
        BY <1>1, <1>2, <1>8, <2>5, <3>1 DEF ListInv, ShownFits, L!Nothing
      <3>3. due' = (due \/ view' # view)
        BY <3>1, ListTypes DEF ListInv, Shape
      <3>4. QED
        BY <1>1, <1>3, <2>2, <2>3, <3>1, <3>2, <3>3, EndsStep
    <2>6. CASE L!Applies(ids) /\ L!Beyond(v, got)
      <3>1. view' = got.pages /\ due' = (due \/ view' # view) /\ UNCHANGED shown
            /\ v > got.pages
        BY <2>1, <2>6 DEF L!Show, L!Beyond
      <3>2. due' \/ ~clean'
        <4>1. SUFFICES ASSUME clean, ~due, view = got.pages
                       PROVE  FALSE
          BY <1>1, <3>1
        <4>2. v = got.pages
          BY <1>2, <1>6, <1>7, <2>6, <4>1
        <4>3. QED
          BY <3>1, <4>2, <2>4 DEF L!Views
      <3>3. ShownFits'
        BY <3>2 DEF ShownFits
      <3>4. QED
        BY <1>1, <1>3, <2>2, <2>3, <2>4, <3>1, <3>3, EndsStep
    <2>7. CASE L!Applies(ids) /\ ~L!Beyond(v, got)
      <3>1. shown' = [view |-> v, ver |-> got.ver] /\ UNCHANGED <<view, due>>
        BY <2>1, <2>7 DEF L!Show
      <3>2. clean /\ ~due => v = view
        BY <1>2, <1>6, <1>7, <2>7
      <3>3. ShownFits'
        BY <1>1, <2>4, <3>1, <3>2 DEF ShownFits
      <3>4. due' = (due \/ view' # view)
        BY <3>1, ListTypes DEF ListInv, Shape
      <3>5. shown' \in [view : L!Views, ver : 0..MaxWrites] \cup {L!Nothing}
        BY <1>3, <2>4, <3>1
      <3>6. QED
        BY <1>1, <1>3, <2>2, <2>3, <3>1, <3>3, <3>4, <3>5, EndsStep
    <2>8. QED
      BY <2>5, <2>6, <2>7
  <1>10. CASE L!Fail(f)
    <2>1. /\ cache' = [cache EXCEPT ![v] = L!Missing]
          /\ L!ShowError(ids)
          /\ clean' => kind # "archived"
      BY <1>10 DEF L!Fail, ids
    <2>2. cache' \in [L!Views -> CacheRow] /\ cache'[v] = L!Missing
          /\ \A u \in L!Views \ {v} : cache'[u] = cache[u]
      BY <1>3, <2>1, EmptyRows
    <2>3. /\ shown' = IF L!Applies(ids) /\ kind # "archived" THEN L!Nothing ELSE shown
          /\ view' = IF kind = "clients" THEN 1 ELSE view
          /\ due' = (due \/ view' # view)
      BY <2>1 DEF L!ShowError
    <2>4. view' \in L!Views
          /\ shown' \in [view : L!Views, ver : 0..MaxWrites] \cup {L!Nothing}
      BY <1>3, <2>3 DEF L!Views
    <2>5. ShownFits'
      <3>1. CASE L!Applies(ids)
        BY <1>1, <2>1, <2>3, <3>1 DEF ShownFits, L!Nothing
      <3>2. CASE ~L!Applies(ids)
        <4>1. shown' = shown /\ view' = view
          BY <1>5, <2>3, <3>2
        <4>2. QED
          BY <1>1, <1>2, <1>8, <2>3, <3>2, <4>1 DEF ListInv, ShownFits, L!Nothing
      <3>3. QED
        BY <3>1, <3>2
    <2>6. QED
      BY <1>1, <2>2, <2>3, <2>4, <2>5, EmptyRows, EndsStep
  <1>11. QED
    BY <1>9, <1>10

---------------------------------------------------------------------------
LEMMA MissStep ==
  ASSUME ListInv, NEW f \in Fetches, L!FetchMiss(f)
  PROVE  ListInv'
  <1>1. /\ due /\ f \notin L!Waiting /\ ~L!Hit(view)
        /\ due' = FALSE /\ latest' = f /\ loading' = TRUE
        /\ L!Request(f, view, TRUE, cache)
        /\ UNCHANGED <<kind, db, pages, view, shown, dialog, write, clean>>
    BY DEF L!FetchMiss
  <1>2. /\ cache \in [L!Views -> CacheRow] /\ view \in L!Views
        /\ L!TypeOK /\ FollowsLeader /\ OneLeader /\ CacheNamesLeader
    BY ListTypes DEF ListInv, Shape
  <1>3. PICK src \in Fetches :
          /\ fetch' = [fetch EXCEPT ![f] =
               [view |-> view, loud |-> TRUE, src |-> src, got |-> L!Unread]]
          /\ fetch' \in [Fetches -> FetchRow \cup {L!NoFetch}]
          /\ L!Waiting' = L!Waiting \cup {f}
          /\ cache' \in [L!Views -> CacheRow]
          /\ \A u \in L!Views : cache'[u].ans # L!Unread => cache'[u] = cache[u]
          /\ FollowsLeader' /\ CacheNamesLeader' /\ OneLeader'
    <2>1. \A u \in L!Views :
            cache[u].src # 0 => cache[u].src \in L!Leaders /\ fetch[cache[u].src].view = u
      BY <1>2 DEF CacheNamesLeader
    <2>2. UNCHANGED kind
      BY <1>1
    <2> DEFINE loud == TRUE
    <2>0. loud \in BOOLEAN /\ L!Request(f, view, loud, cache)
      BY <1>1
    <2> HIDE DEF loud
    <2>3. \E src \in Fetches :
            /\ \/ src = f
               \/ src \in L!Leaders /\ fetch[src].view = view
            /\ fetch' = [fetch EXCEPT ![f] =
                 [view |-> view, loud |-> loud, src |-> src, got |-> L!Unread]]
            /\ fetch' \in [Fetches -> FetchRow \cup {L!NoFetch}]
            /\ L!Waiting' = L!Waiting \cup {f}
            /\ L!Leaders' = IF src = f THEN L!Leaders \cup {f} ELSE L!Leaders
            /\ cache' \in [L!Views -> CacheRow]
            /\ \A u \in L!Views : cache'[u].ans # L!Unread => cache'[u] = cache[u]
            /\ FollowsLeader' /\ CacheNamesLeader' /\ OneLeader'
      BY <1>1, <1>2, <2>0, <2>1, <2>2, RequestStep
    <2>4. QED
      BY <2>3 DEF loud
  <1>4. \A g \in Fetches : fetch'[g] = IF g = f
          THEN [view |-> view, loud |-> TRUE, src |-> src, got |-> L!Unread] ELSE fetch[g]
    BY <1>2, <1>3, ListTypes
  <1>5. Shape'
    <2>1. L!TypeOK'
      BY <1>1, <1>2, <1>3 DEF L!TypeOK, FetchRow, CacheRow
    <2>2. WritesAsk'
      BY <1>1 DEF ListInv, Shape, WritesAsk, L!Views
    <2>3. QED
      BY <1>3, <2>1, <2>2 DEF Shape
  <1>6. clean => ~Busy /\ (kind # "users" => L!Waiting = {})
    BY <1>1 DEF ListInv, DueIsBare
  <1>7. Stale' = Stale /\ Busy' = Busy
    BY <1>1 DEF Stale, Busy
  <1>8. GotFresh'
    BY <1>1, <1>3, <1>4 DEF ListInv, GotFresh, L!Unread, L!Waiting
  <1>9. CacheFresh'
    BY <1>1, <1>3, <1>7 DEF ListInv, CacheFresh, L!Unread, L!Views
  <1>10. DueIsBare' /\ WritesFit'
    BY <1>1, <1>7 DEF ListInv, DueIsBare, WritesFit
  <1>11. clean => Awaited' = {f}
    BY <1>1, <1>3, <1>6 DEF Awaited
  <1>12. AwaitedFit' /\ ShownFits'
    BY <1>1, <1>4, <1>11 DEF AwaitedFit, ShownFits
  <1>13. LoadingAwaits'
    BY <1>1, <1>3, <1>4 DEF LoadingAwaits
  <1>14. QED
    BY <1>5, <1>8, <1>9, <1>10, <1>12, <1>13 DEF ListInv

LEMMA HitStep ==
  ASSUME ListInv, NEW f \in Fetches, L!FetchHit(f)
  PROVE  ListInv'
  <1> DEFINE a == cache[view].ans
  <1>1. /\ due /\ f \notin L!Waiting /\ a # L!Unread
        /\ latest' = f /\ loading' = FALSE
        /\ IF L!Beyond(view, a) THEN view' = a.pages /\ UNCHANGED <<due, shown>>
           ELSE /\ due' = FALSE
                /\ shown' = [view |-> view, ver |-> a.ver]
                /\ UNCHANGED view
        /\ UNCHANGED <<kind, db, pages, cache, fetch, dialog, write, clean>>
    BY DEF L!FetchHit, L!Hit
  <1>2. /\ view \in L!Views /\ a \in L!Answers
        /\ a.ver \in 0..MaxWrites /\ a.pages \in L!Views
    BY <1>1, ListTypes, EmptyRows DEF ListInv, Shape, CacheRow
  <1>3. clean => ~Busy /\ ~Stale /\ a.ver = db /\ (kind # "users" => L!Waiting = {})
    BY <1>1, <1>2 DEF ListInv, DueIsBare, CacheFresh, Busy, Stale
  <1> HIDE DEF a
  <1>4. Stale' = Stale /\ Busy' = Busy /\ L!Waiting' = L!Waiting
    BY <1>1 DEF Stale, Busy, L!Waiting
  <1>5. Shape'
    <2>1. view' \in L!Views /\ due' \in BOOLEAN
          /\ shown' \in [view : L!Views, ver : 0..MaxWrites] \cup {L!Nothing}
      <3>1. due \in BOOLEAN
            /\ shown \in [view : L!Views, ver : 0..MaxWrites] \cup {L!Nothing}
        BY DEF ListInv, Shape, L!TypeOK
      <3>2. CASE L!Beyond(view, a)
        BY <1>1, <1>2, <3>1, <3>2
      <3>3. CASE ~L!Beyond(view, a)
        <4>1. due' = FALSE /\ shown' = [view |-> view, ver |-> a.ver] /\ view' = view
          BY <1>1, <3>3
        <4>2. QED
          BY <1>2, <4>1
      <3>4. QED
        BY <3>2, <3>3
    <2>2. L!TypeOK'
      BY <1>1, <2>1 DEF ListInv, Shape, L!TypeOK
    <2>3. FollowsLeader' /\ CacheNamesLeader' /\ OneLeader' /\ WritesAsk'
      BY <1>1, <1>4
      DEF ListInv, Shape, FollowsLeader, CacheNamesLeader, OneLeader, WritesAsk, L!Leaders,
          L!Views
    <2>4. QED
      BY <2>2, <2>3 DEF Shape
  <1>6. GotFresh' /\ CacheFresh'
    BY <1>1, <1>4 DEF ListInv, GotFresh, CacheFresh, L!Views, L!Unread
  <1>7. DueIsBare' /\ WritesFit'
    BY <1>1, <1>3, <1>4 DEF DueIsBare, WritesFit, Busy
  <1>8. clean => Awaited' = {}
    <2>1. CASE kind = "users"
      BY <1>1, <1>4, <2>1 DEF Awaited
    <2>2. CASE kind # "users"
      BY <1>1, <1>3, <1>4, <2>2 DEF Awaited
    <2>3. QED
      BY <2>1, <2>2
  <1>9. AwaitedFit' /\ ShownFits' /\ LoadingAwaits'
    <2>1. CASE due'
      BY <1>1, <2>1 DEF AwaitedFit, ShownFits, LoadingAwaits
    <2>2. CASE ~due'
      <3>1. ~L!Beyond(view, a) /\ view' = view /\ shown' = [view |-> view, ver |-> a.ver]
        BY <1>1, <2>2
      <3>2. QED
        BY <1>1, <1>3, <1>8, <3>1 DEF AwaitedFit, ShownFits, LoadingAwaits
    <2>3. QED
      BY <2>1, <2>2
  <1>10. QED
    BY <1>5, <1>6, <1>7, <1>9 DEF ListInv

\* The list waits for the same fetches, for the same view.
LEMMA ReadsStep ==
  ASSUME ListInv, NEW f \in Fetches, L!ServerReads(f)
  PROVE  ListInv'
  <1> DEFINE a == [ver |-> db, pages |-> pages]
  <1>1. /\ f \in L!Leaders /\ f \in L!Waiting
        /\ fetch' = [fetch EXCEPT ![f] = [fetch[f] EXCEPT !.got = a]]
        /\ UNCHANGED <<kind, db, pages, view, due, shown, loading, cache, latest,
                       dialog, write, clean>>
    BY DEF L!ServerReads, L!Leaders
  <1>2. a \in L!Answers /\ a.ver = db
    BY ListTypes DEF ListInv, Shape, L!Answers
  <1>3. fetch[f] \in FetchRow /\ fetch \in [Fetches -> FetchRow \cup {L!NoFetch}]
    BY <1>1, WaitingRows, ListTypes DEF ListInv, Shape
  <1> HIDE DEF a
  <1> DEFINE r == [fetch[f] EXCEPT !.got = a]
  <1>4. /\ r \in FetchRow /\ r # L!NoFetch /\ r.view = fetch[f].view /\ r.src = fetch[f].src
        /\ r.loud = fetch[f].loud /\ r.got = a
    BY <1>2, <1>3, EmptyRows DEF FetchRow
  <1> HIDE DEF r
  <1>5. /\ fetch' \in [Fetches -> FetchRow \cup {L!NoFetch}]
        /\ \A g \in Fetches : fetch'[g] = IF g = f THEN r ELSE fetch[g]
    BY <1>1, <1>3, <1>4 DEF r
  <1>6. \A g \in Fetches :
          /\ fetch'[g].view = fetch[g].view /\ fetch'[g].src = fetch[g].src
          /\ fetch'[g].loud = fetch[g].loud
          /\ g # f => fetch'[g].got = fetch[g].got
    BY <1>4, <1>5
  <1>7. L!Waiting' = L!Waiting /\ L!Waiting \subseteq Fetches
    BY <1>1, <1>4, <1>5 DEF L!Waiting
  <1>8. L!Leaders' = L!Leaders /\ L!Leaders \subseteq Fetches
    BY <1>6, <1>7 DEF L!Leaders
  <1>9. Stale' = Stale /\ Busy' = Busy /\ Awaited' = Awaited /\ Awaited \subseteq Fetches
    BY <1>1, <1>7 DEF Stale, Busy, Awaited
  <1>10. Shape'
    <2>1. L!TypeOK'
      BY <1>1, <1>5 DEF ListInv, Shape, L!TypeOK, FetchRow
    <2>2. FollowsLeader' /\ OneLeader'
      BY <1>1, <1>6, <1>7, <1>8 DEF ListInv, Shape, FollowsLeader, OneLeader
    <2>3. CacheNamesLeader' /\ WritesAsk'
      BY <1>1, <1>6, <1>8 DEF ListInv, Shape, CacheNamesLeader, WritesAsk, L!Views
    <2>4. QED
      BY <2>1, <2>2, <2>3 DEF Shape
  <1>11. GotFresh'
    BY <1>1, <1>2, <1>4, <1>5, <1>7 DEF ListInv, GotFresh, L!Unread
  <1>12. CacheFresh' /\ DueIsBare' /\ WritesFit' /\ ShownFits'
    BY <1>1, <1>7, <1>9
    DEF ListInv, CacheFresh, DueIsBare, WritesFit, ShownFits, L!Views, L!Unread, L!Nothing
  <1>13. AwaitedFit' /\ LoadingAwaits'
    BY <1>1, <1>6, <1>7, <1>9 DEF ListInv, AwaitedFit, LoadingAwaits
  <1>14. QED
    BY <1>10, <1>11, <1>12, <1>13 DEF ListInv

LEMMA ExpireStep ==
  ASSUME ListInv, NEW v \in L!Views, L!Expire(v)
  PROVE  ListInv'
  <1>1. /\ cache' = [cache EXCEPT ![v] = L!Missing]
        /\ UNCHANGED <<kind, db, pages, view, due, shown, loading, fetch, latest,
                       dialog, write, clean>>
    BY DEF L!Expire
  <1>2. /\ cache' \in [L!Views -> CacheRow]
        /\ \A u \in L!Views : cache'[u] = IF u = v THEN L!Missing ELSE cache[u]
    BY <1>1, ListTypes, EmptyRows DEF ListInv, Shape
  <1>3. /\ Stale' = Stale /\ Busy' = Busy /\ L!Waiting' = L!Waiting
        /\ L!Leaders' = L!Leaders /\ Awaited' = Awaited
    BY <1>1 DEF Stale, Busy, L!Waiting, L!Leaders, Awaited
  <1>4. Shape'
    <2>1. L!TypeOK'
      BY <1>1, <1>2 DEF ListInv, Shape, L!TypeOK, CacheRow
    <2>2. FollowsLeader' /\ OneLeader' /\ WritesAsk'
      BY <1>1, <1>3 DEF ListInv, Shape, FollowsLeader, OneLeader, WritesAsk, L!Views
    <2>3. CacheNamesLeader'
      BY <1>1, <1>2, <1>3, EmptyRows DEF ListInv, Shape, CacheNamesLeader, L!Views
    <2>4. QED
      BY <2>1, <2>2, <2>3 DEF Shape
  <1>5. CacheFresh'
    BY <1>1, <1>2, <1>3, EmptyRows DEF ListInv, CacheFresh, L!Views, L!Unread
  <1>6. GotFresh' /\ DueIsBare' /\ WritesFit' /\ AwaitedFit' /\ ShownFits' /\ LoadingAwaits'
    BY <1>1, <1>3
    DEF ListInv, GotFresh, DueIsBare, WritesFit, AwaitedFit, ShownFits, LoadingAwaits,
        L!Unread, L!Nothing
  <1>7. QED
    BY <1>4, <1>5, <1>6 DEF ListInv

LEMMA ChooseStep ==
  ASSUME ListInv, NEW v \in L!Views, L!Choose(v)
  PROVE  ListInv'
  <1>1. /\ v # view /\ view' = v /\ due' = TRUE
        /\ UNCHANGED <<kind, db, pages, shown, loading, cache, fetch, latest, dialog, write>>
        /\ clean' \in BOOLEAN /\ (clean' => clean /\ L!Uncrossed)
    BY DEF L!Choose
  <1>2. clean' => ~Busy' /\ (kind # "users" => L!Waiting' = {})
    BY <1>1 DEF L!Uncrossed, Busy, L!Waiting
  <1>3. Stale' = Stale /\ L!Waiting' = L!Waiting /\ L!Leaders' = L!Leaders
    BY <1>1 DEF Stale, L!Waiting, L!Leaders
  <1>4. Shape'
    <2>1. L!TypeOK'
      BY <1>1 DEF ListInv, Shape, L!TypeOK
    <2>2. FollowsLeader' /\ OneLeader' /\ CacheNamesLeader' /\ WritesAsk'
      BY <1>1, <1>3
      DEF ListInv, Shape, FollowsLeader, OneLeader, CacheNamesLeader, WritesAsk, L!Views
    <2>3. QED
      BY <2>1, <2>2 DEF Shape
  <1>5. GotFresh' /\ CacheFresh'
    BY <1>1, <1>3 DEF ListInv, GotFresh, CacheFresh, L!Views, L!Unread
  <1>6. DueIsBare' /\ WritesFit' /\ AwaitedFit' /\ ShownFits' /\ LoadingAwaits'
    BY <1>1, <1>2
    DEF DueIsBare, WritesFit, AwaitedFit, ShownFits, LoadingAwaits, Busy
  <1>7. QED
    BY <1>4, <1>5, <1>6 DEF ListInv

---------------------------------------------------------------------------
\* A write goes on; the list, its fetches and the cache stay as they are.
LEMMA WriteStep ==
  ASSUME ListInv, NEW w \in Writers, NEW r \in L!Writes,
         r.st # "idle" => r.view \in L!Views /\ (clean => r.view = view /\ ~due),
         write' = [write EXCEPT ![w] = r],
         db' \in 0..MaxWrites, pages' \in L!Views, dialog' \in BOOLEAN,
         clean' \in BOOLEAN, clean' => clean,
         clean' => \/ db' = db /\ Stale' = Stale
                   \/ L!Waiting = {} /\ Stale',
         UNCHANGED <<kind, view, due, shown, loading, cache, fetch, latest>>
  PROVE  ListInv'
  <1>1. /\ write' \in [Writers -> L!Writes]
        /\ \A x \in Writers : write'[x] = IF x = w THEN r ELSE write[x]
    BY ListTypes DEF ListInv, Shape
  <1>2. L!Waiting' = L!Waiting /\ L!Leaders' = L!Leaders /\ Awaited' = Awaited
    BY DEF L!Waiting, L!Leaders, Awaited
  <1>3. Shape'
    <2>1. L!TypeOK'
      BY <1>1 DEF ListInv, Shape, L!TypeOK
    <2>2. FollowsLeader' /\ OneLeader' /\ CacheNamesLeader'
      BY <1>2 DEF ListInv, Shape, FollowsLeader, OneLeader, CacheNamesLeader, L!Views
    <2>3. WritesAsk'
      BY <1>1 DEF ListInv, Shape, WritesAsk, L!Views
    <2>4. QED
      BY <2>1, <2>2, <2>3 DEF Shape
  <1>4. GotFresh'
    BY <1>2 DEF ListInv, GotFresh, L!Unread
  <1>5. CacheFresh'
    BY <1>2 DEF ListInv, CacheFresh, L!Unread, L!Views
  <1>6. DueIsBare' /\ WritesFit'
    BY <1>1, <1>2 DEF ListInv, DueIsBare, WritesFit, Busy
  <1>7. AwaitedFit' /\ LoadingAwaits'
    BY <1>2 DEF ListInv, AwaitedFit, LoadingAwaits
  <1>8. ShownFits'
    BY <1>2 DEF ListInv, ShownFits, L!Nothing
  <1>9. QED
    BY <1>3, <1>4, <1>5, <1>6, <1>7, <1>8 DEF ListInv

LEMMA ConfirmStep ==
  ASSUME ListInv, NEW w \in Writers, L!Confirm(w) \/ L!Commit(w) \/ L!Refused(w)
  PROVE  ListInv'
  <1>1. /\ write \in [Writers -> L!Writes] /\ write[w] \in L!Writes
        /\ db \in 0..MaxWrites /\ pages \in L!Views /\ dialog \in BOOLEAN
        /\ view \in L!Views /\ clean \in BOOLEAN
    BY ListTypes DEF ListInv, Shape
  <1>2. write[w].st # "idle" =>
          /\ write[w].view \in L!Views
          /\ clean => write[w].view = view /\ ~due
    BY DEF ListInv, Shape, WritesAsk, WritesFit, DueIsBare, Busy
  <1>3. CASE L!Confirm(w)
    <2> DEFINE r == [st |-> "sent", view |-> view, fetch |-> 0]
    <2>1. /\ ~due /\ write[w].st = "idle" /\ write' = [write EXCEPT ![w] = r]
          /\ UNCHANGED <<kind, db, pages, view, due, shown, loading, cache, fetch,
                         latest, dialog, clean>>
      BY <1>3 DEF L!Confirm, L!Prompted, L!Idle
    <2>2. r \in L!Writes /\ r.view = view /\ r.st = "sent"
      BY <1>1 DEF L!Writes
    <2> HIDE DEF r
    <2>3. Stale' = Stale
      BY <1>1, <2>1, <2>2 DEF Stale
    <2>4. QED
      BY <1>1, <2>1, <2>2, <2>3, WriteStep
  <1>4. CASE L!Commit(w)
    <2> DEFINE r == [write[w] EXCEPT !.st = "committed"]
    <2>1. /\ write[w].st = "sent" /\ db < MaxWrites /\ write' = [write EXCEPT ![w] = r]
          /\ db' = db + 1 /\ pages' \in {pages, 1}
          /\ clean' = (clean /\ L!Waiting = {})
          /\ UNCHANGED <<kind, view, due, shown, loading, cache, fetch, latest, dialog>>
      BY <1>4 DEF L!Commit
    <2>2. r \in L!Writes /\ r.view = write[w].view /\ r.st = "committed"
      BY <1>1 DEF L!Writes
    <2> HIDE DEF r
    <2>3. Stale'
      BY <1>1, <2>1, <2>2 DEF Stale
    <2>4. db' \in 0..MaxWrites /\ pages' \in L!Views /\ clean' \in BOOLEAN
          /\ (clean' => clean /\ L!Waiting = {})
      <3>1. db' \in 0..MaxWrites
        BY <1>1, <2>1, ConsoleAssumption
      <3>2. pages' \in L!Views
        BY <1>1, <2>1 DEF L!Views
      <3>3. clean' \in BOOLEAN /\ (clean' => clean /\ L!Waiting = {})
        BY <2>1
      <3>4. QED
        BY <3>1, <3>2, <3>3
    <2>5. QED
      BY <1>1, <1>2, <2>1, <2>2, <2>3, <2>4, WriteStep
  <1>5. CASE L!Refused(w)
    <2>1. /\ write' = [write EXCEPT ![w] = L!NoWrite] /\ dialog' = FALSE
          /\ clean' = (clean /\ write[w].st = "sent")
          /\ UNCHANGED <<kind, db, pages, view, due, shown, loading, cache, fetch, latest>>
      BY <1>5 DEF L!Refused
    <2>2. clean' => Stale' = Stale
      BY <1>1, <2>1, EmptyRows DEF Stale
    <2>3. dialog' \in BOOLEAN /\ clean' \in BOOLEAN
      BY <2>1
    <2>4. QED
      BY <1>1, <2>1, <2>2, <2>3, EmptyRows, WriteStep
  <1>6. QED
    BY <1>3, <1>4, <1>5

\* The refetch after a write asks anew, or joins the one for its view.
LEMMA WrittenStep ==
  ASSUME ListInv, NEW w \in Writers, NEW f \in Fetches, L!Written(w, f)
  PROVE  ListInv'
  <1> DEFINE v == write[w].view
             loud == kind = "archived"
             c == L!Cleared(cache)
             r == [write[w] EXCEPT !.st = "refetch", !.fetch = f]
  <1>1. /\ write[w].st = "committed" /\ f \notin L!Waiting
        /\ L!Request(f, v, loud, c)
        /\ write' = [write EXCEPT ![w] = r]
        /\ latest' = f /\ loading' = (loading \/ loud)
        /\ UNCHANGED <<kind, db, pages, view, due, shown, dialog, clean>>
    BY DEF L!Written
  <1>2. /\ L!TypeOK /\ FollowsLeader /\ OneLeader /\ WritesAsk
        /\ write \in [Writers -> L!Writes] /\ write[w] \in L!Writes
        /\ loading \in BOOLEAN /\ fetch \in [Fetches -> FetchRow \cup {L!NoFetch}]
    BY ListTypes DEF ListInv, Shape
  <1>3. v \in L!Views /\ (clean => v = view /\ ~due)
    BY <1>1 DEF ListInv, Shape, WritesAsk, WritesFit, DueIsBare, Busy
  <1>4. r \in L!Writes /\ r.st = "refetch" /\ r.view = v
    BY <1>2 DEF L!Writes
  <1> HIDE DEF r
  <1>5. /\ c \in [L!Views -> CacheRow] /\ \A u \in L!Views : c[u] = L!Missing
    BY EmptyRows DEF L!Cleared
  <1>6. loud \in BOOLEAN /\ (loud <=> kind = "archived")
    OBVIOUS
  <1> HIDE DEF v, loud, c
  <1>7. PICK src \in Fetches :
          /\ \/ src = f
             \/ src \in L!Leaders /\ fetch[src].view = v
          /\ fetch' = [fetch EXCEPT ![f] =
               [view |-> v, loud |-> loud, src |-> src, got |-> L!Unread]]
          /\ fetch' \in [Fetches -> FetchRow \cup {L!NoFetch}]
          /\ L!Waiting' = L!Waiting \cup {f}
          /\ L!Leaders' = IF src = f THEN L!Leaders \cup {f} ELSE L!Leaders
          /\ cache' \in [L!Views -> CacheRow]
          /\ \A u \in L!Views : cache'[u].ans # L!Unread => cache'[u] = c[u]
          /\ FollowsLeader' /\ CacheNamesLeader' /\ OneLeader'
    <2>1. \A u \in L!Views :
            c[u].src # 0 => c[u].src \in L!Leaders /\ fetch[c[u].src].view = u
      BY <1>5, EmptyRows
    <2>2. UNCHANGED kind
      BY <1>1
    <2>3. QED
      BY <1>1, <1>2, <1>3, <1>5, <1>6, <2>1, <2>2, RequestStep
  <1>8. \A g \in Fetches : fetch'[g] = IF g = f
          THEN [view |-> v, loud |-> loud, src |-> src, got |-> L!Unread] ELSE fetch[g]
    BY <1>2, <1>7
  <1>9. \A x \in Writers : write'[x] = IF x = w THEN r ELSE write[x]
    BY <1>1, <1>2
  <1>10. Shape'
    <2>1. write' \in [Writers -> L!Writes] /\ loading' \in BOOLEAN
      BY <1>1, <1>2, <1>4, <1>6
    <2>2. L!TypeOK'
      BY <1>1, <1>2, <1>7, <2>1 DEF L!TypeOK, FetchRow, CacheRow
    <2>3. WritesAsk'
      BY <1>2, <1>3, <1>4, <1>9 DEF WritesAsk, L!Views
    <2>4. QED
      BY <1>7, <2>2, <2>3 DEF Shape
  <1>11. GotFresh'
    BY <1>1, <1>7, <1>8 DEF ListInv, GotFresh, L!Unread, L!Waiting
  <1>12. CacheFresh'
    BY <1>5, <1>7, EmptyRows DEF CacheFresh, L!Unread, L!Views
  <1>13. DueIsBare' /\ WritesFit'
    BY <1>1, <1>3, <1>4, <1>9 DEF ListInv, DueIsBare, WritesFit
  <1>14. f \in Awaited' /\ \A g \in Awaited' : g # f => g \in Awaited
    BY <1>1, <1>7 DEF Awaited
  <1>15. AwaitedFit' /\ ShownFits'
    <2>1. \A g \in Awaited : g \in Fetches
      BY DEF Awaited, L!Waiting
    <2>2. QED
      BY <1>1, <1>3, <1>8, <1>14, <2>1 DEF ListInv, AwaitedFit, ShownFits
  <1>16. LoadingAwaits'
    <2> SUFFICES ASSUME clean, ~due, loading \/ kind = "archived"
                 PROVE  \E g \in L!Waiting' :
                          /\ fetch'[g].loud
                          /\ kind = "users" => f \in L!Waiting' /\ fetch'[g].src = fetch'[f].src
      BY <1>1, <1>6 DEF LoadingAwaits
    <2>1. CASE kind = "archived"
      BY <1>6, <1>7, <1>8, <2>1
    <2>2. CASE kind # "archived"
      <3>1. PICK g \in L!Waiting :
              /\ fetch[g].loud
              /\ kind = "users" => latest \in L!Waiting /\ fetch[g].src = fetch[latest].src
        BY <2>2 DEF ListInv, LoadingAwaits
      <3>2. g \in L!Waiting' /\ g \in Fetches /\ g # f /\ fetch'[g] = fetch[g]
        BY <1>1, <1>7, <1>8 DEF L!Waiting
      <3>3. ASSUME kind = "users"
            PROVE  fetch[g].src = src
        <4>1. latest \in Awaited /\ latest \in L!Waiting
          BY <3>1, <3>3 DEF Awaited
        <4>2. fetch[latest].view = view
          BY <4>1 DEF ListInv, AwaitedFit
        <4>3. fetch[g].src \in L!Leaders /\ fetch[fetch[g].src].view = view
          BY <3>1, <3>3, <4>1, <4>2 DEF ListInv, Shape, FollowsLeader
        <4>4. L!Joined(v, c) # {}
          BY <1>3, <3>3, <4>3 DEF L!Joined
        <4>5. src \in L!Leaders /\ fetch[src].view = v
          <5> DEFINE J == L!Joined(v, c)
                     h == IF J # {} THEN CHOOSE k \in J : TRUE ELSE f
          <5>a. fetch' = [fetch EXCEPT ![f] =
                  [view |-> v, loud |-> loud, src |-> h, got |-> L!Unread]]
            BY <1>1 DEF L!Request
          <5>b. h \in J
            BY <4>4
          <5> HIDE DEF J, h
          <5>1. fetch'[f].src = h
            BY <1>2, <5>a
          <5>2. fetch'[f].src = src
            BY <1>8
          <5>3. QED
            BY <3>3, <5>b, <5>1, <5>2 DEF J, L!Joined
        <4>6. QED
          BY <1>2, <1>3, <3>3, <4>3, <4>5 DEF OneLeader
      <3>4. QED
        BY <1>7, <1>8, <3>1, <3>2, <3>3
    <2>3. QED
      BY <2>1, <2>2
  <1>17. QED
    BY <1>10, <1>11, <1>12, <1>13, <1>15, <1>16 DEF ListInv

---------------------------------------------------------------------------
LEMMA ListInvStep ==
  ASSUME ListInv, [L!Next]_vars
  PROVE  ListInv'
  <1>1. ASSUME NEW f \in Fetches,
               \/ L!FetchMiss(f) \/ L!FetchHit(f) \/ L!ServerReads(f)
               \/ L!Answer(f) \/ L!Fail(f)
        PROVE  ListInv'
    BY <1>1, MissStep, HitStep, ReadsStep, AnswerEndsStep
  <1>2. ASSUME NEW v \in L!Views,
               L!Expire(v) \/ L!ChooseFilter(v) \/ L!RefineList(v) \/ L!TurnPage(v)
        PROVE  ListInv'
    BY <1>2, ExpireStep, ChooseStep DEF L!ChooseFilter, L!RefineList, L!TurnPage
  <1>3. CASE L!OpenDialog \/ L!Cancel
    BY <1>3, SameListStep DEF L!OpenDialog, L!Cancel
  <1>4. ASSUME NEW w \in Writers,
               \/ L!Confirm(w) \/ L!Commit(w) \/ L!Refused(w)
               \/ \E f \in Fetches : L!Written(w, f)
        PROVE  ListInv'
    BY <1>4, ConfirmStep, WrittenStep
  <1>5. CASE UNCHANGED vars
    <2>1. /\ UNCHANGED <<kind, db, pages, view, due, shown, loading, cache, fetch,
                         latest, write, clean>>
          /\ dialog' = dialog
      BY <1>5 DEF vars
    <2>2. dialog' \in BOOLEAN
      BY <2>1, ListTypes DEF ListInv, Shape
    <2>3. QED
      BY <2>1, <2>2, SameListStep
  <1>6. QED
    BY <1>1, <1>2, <1>3, <1>4, <1>5 DEF L!Next

LEMMA ListInvSuffices ==
  ASSUME ListInv
  PROVE  L!FreshAfterWrite /\ L!FitsView
  <1>1. L!Quiet => ~due /\ L!Waiting = {} /\ Awaited = {} /\ ~Stale
    BY DEF L!Quiet, L!Idle, Awaited, Stale
  <1>2. L!FreshAfterWrite
    BY <1>1 DEF ListInv, ShownFits, L!FreshAfterWrite
  <1>3. L!FitsView
    BY <1>1 DEF ListInv, ShownFits, LoadingAwaits, L!FitsView
  <1>4. QED
    BY <1>2, <1>3

---------------------------------------------------------------------------
\* The behaviours that are about a list keep ListInv.
ListsKept == which = "lists" => ListInv

LEMMA ListsKeptInit == Init => ListsKept
  BY ListInvInit DEF Init, ListsKept

LEMMA ListsKeptStep ==
  ASSUME ListsKept, [Next]_vars
  PROVE  ListsKept'
  BY ScreenSteps, ListInvStep DEF ListsKept

\* For any number of fetches and writes the lists keep ListInv (useUsers.js,
\* useArchivedUsers.js, useRoles.js, useAppClients.js, requestCache.js).
THEOREM ListInvariant == Spec => []ListsKept
  BY ListsKeptInit, ListsKeptStep, PTL DEF Spec

\* When all is answered, the rows on the screen reflect every write, cache and
\* shared requests notwithstanding (requestCache.js and the hooks).
THEOREM FreshHolds == Spec => []FreshAfterWrite
  <1>1. ListsKept => FreshAfterWrite
    BY ListInvSuffices DEF ListsKept, FreshAfterWrite
  <1>2. QED
    BY <1>1, ListInvariant, PTL

\* When all is answered, the list does not load for ever and its rows are those
\* of the view chosen; so are those of the audit log (AuditLogs.jsx).
THEOREM ViewsHold == Spec => []FitsView
  <1>1. ListsKept /\ LogsKept => FitsView
    BY ListInvSuffices DEF ListsKept, LogsKept, LogInv, FitsView
  <1>2. QED
    BY <1>1, ListInvariant, LogInvariant, PTL

---------------------------------------------------------------------------
(***************************************************************************)
(* Types.  Those of most screens are part of their invariants; left are    *)
(* the openings of account types, H, and the sign-in state of a tab, B.    *)
(***************************************************************************)
NoClients     == SUBSET {}
OpeningDialog == [type : Types \cup {None}, base : NoClients, picked : NoClients,
                  touched : NoClients, filled : Types \cup {None}]
OpeningRow    == [type : Types \cup {None}, got : NoClients]
OpeningJob    == [kind : {"none", "save", "create", "delete"},
                  st : {"sent", "done", "reload"}, mine : BOOLEAN, for : OpeningDialog]
OpeningForm   == [type : Types \cup {None}, picked : NoClients]

\* A write names an account type: a commit adds no other to the server.
WritesName == \A j \in PageJobs : job[j].kind # "none" => job[j].for.type \in Types

TypedOpenings == H!TypeOK /\ WritesName

LEMMA OpeningLists ==
  ASSUME NEW f
  PROVE  f \in H!Lists <=> \E S \in SUBSET Types : f \in [S -> NoClients]
  BY DEF H!Lists, NoClients

LEMMA OpeningTypes ==
  H!TypeOK <=>
    /\ page \in {"list", "create"} /\ past \in [Types -> SUBSET NoClients]
    /\ open \in [Opens -> OpeningRow] /\ dlg \in OpeningDialog /\ form \in OpeningForm
    /\ job \in [PageJobs -> OpeningJob]
    /\ del \in Types \cup {None} /\ prompt \in Types \cup {None}
    /\ syncing \in BOOLEAN /\ sync \in SUBSET Types
    /\ db \in H!Lists /\ row \in H!Lists
  BY DEF H!TypeOK, H!Maybe, H!Dialogs, OpeningDialog, OpeningRow, OpeningJob, OpeningForm,
         NoClients

LEMMA BareOpenings ==
  /\ H!NoDialog \in OpeningDialog /\ H!NotOpening \in OpeningRow /\ H!NewForm \in OpeningForm
  /\ H!NoJob \in OpeningJob /\ H!NoJob.kind = "none"
  <1>1. H!NoDialog \in OpeningDialog
    BY DEF H!NoDialog, OpeningDialog, NoClients
  <1>2. H!NotOpening \in OpeningRow /\ H!NewForm \in OpeningForm
    BY DEF H!NotOpening, OpeningRow, H!NewForm, OpeningForm, NoClients
  <1>3. H!NoJob \in OpeningJob /\ H!NoJob.kind = "none"
    BY <1>1 DEF H!NoJob, OpeningJob
  <1>4. QED
    BY <1>1, <1>2, <1>3

LEMMA TypedInit == H!Init => TypedOpenings
  <1> SUFFICES ASSUME H!Init
               PROVE  TypedOpenings
    OBVIOUS
  <1>1. /\ db \in H!Lists /\ row = db /\ dlg = H!NoDialog /\ form = H!NewForm
        /\ past = [t \in Types |-> IF t \in DOMAIN db THEN {db[t]} ELSE {}]
        /\ open = [i \in Opens |-> H!NotOpening] /\ job = [j \in PageJobs |-> H!NoJob]
        /\ page = "list" /\ del = None /\ prompt = None /\ syncing = FALSE /\ sync = {}
    BY DEF H!Init
  <1>2. \A t \in Types : (IF t \in DOMAIN db THEN {db[t]} ELSE {}) \in SUBSET NoClients
    BY <1>1, OpeningLists
  <1>3. past \in [Types -> SUBSET NoClients]
    BY <1>1, <1>2
  <1>4. QED
    BY <1>1, <1>3, OpeningTypes, BareOpenings DEF TypedOpenings, WritesName

\* A list that is read has types.
LEMMA OpeningReads ==
  ASSUME H!TypeOK, H!Reads \/ row' = row
  PROVE  row' \in H!Lists
  <1>1. db \in H!Lists /\ row \in H!Lists
    BY OpeningTypes
  <1>2. CASE row' = H!Restrict(db, {})
    <2>1. row' = [t \in {} |-> db[t]]
      BY <1>2 DEF H!Restrict
    <2>2. row' \in [{} -> NoClients]
      BY <2>1
    <2>3. QED
      BY <2>2, OpeningLists
  <1>3. QED
    BY <1>1, <1>2 DEF H!Reads

\* The openings, the dialog and the prompts.
LEMMA TypedDialogStep ==
  ASSUME TypedOpenings,
         \/ \E i \in Opens : \/ \E t \in Types : H!OpenRow(i, t)
                             \/ H!DetailsAnswer(i) \/ H!DetailsFail(i)
         \/ H!CloseDialog \/ (\E t \in Types : H!AskDelete(t)) \/ H!CancelDelete
         \/ H!CancelSync \/ H!ConfirmSync \/ (\E t \in sync : H!SyncEnds(t))
         \/ H!FillForm
  PROVE  TypedOpenings'
  <1>a. /\ page \in {"list", "create"} /\ past \in [Types -> SUBSET NoClients]
        /\ open \in [Opens -> OpeningRow] /\ dlg \in OpeningDialog /\ form \in OpeningForm
        /\ job \in [PageJobs -> OpeningJob]
        /\ del \in Types \cup {None} /\ prompt \in Types \cup {None}
        /\ syncing \in BOOLEAN /\ sync \in SUBSET Types
        /\ db \in H!Lists /\ row \in H!Lists
    BY OpeningTypes DEF TypedOpenings
  <1>b. /\ \A t \in DOMAIN row : t \in Types /\ row[t] \in NoClients
        /\ \A t \in DOMAIN db : db[t] \in NoClients
    BY <1>a, OpeningLists
  <1>1. UNCHANGED <<page, db, row, job>>
    BY DEF H!OpenRow, H!DetailsAnswer, H!DetailsFail, H!Opened, H!CloseDialog, H!AskDelete,
           H!CancelDelete, H!CancelSync, H!ConfirmSync, H!SyncEnds, H!FillForm
  <1>2. ASSUME past' \in [Types -> SUBSET NoClients], open' \in [Opens -> OpeningRow],
               dlg' \in OpeningDialog, form' \in OpeningForm,
               del' \in Types \cup {None}, prompt' \in Types \cup {None},
               syncing' \in BOOLEAN, sync' \in SUBSET Types
        PROVE  TypedOpenings'
    <2>1. /\ page' \in {"list", "create"} /\ db' \in H!Lists /\ row' \in H!Lists
          /\ job' \in [PageJobs -> OpeningJob] /\ WritesName'
      BY <1>a, <1>1 DEF TypedOpenings, WritesName
    <2>2. H!TypeOK'
      BY <1>2, <2>1
      DEF H!TypeOK, H!Maybe, H!Dialogs, OpeningDialog, OpeningRow, OpeningJob,
          OpeningForm, NoClients
    <2>3. QED
      BY <2>1, <2>2 DEF TypedOpenings
  <1>3. ASSUME NEW i \in Opens, NEW t \in Types, H!OpenRow(i, t)
        PROVE  TypedOpenings'
    <2> DEFINE r == [type |-> t, got |-> row[t]]
    <2>1. /\ open' = [open EXCEPT ![i] = r] /\ t \in DOMAIN row
          /\ UNCHANGED <<past, dlg, form, del, prompt, syncing, sync>>
      BY <1>3 DEF H!OpenRow, H!Rows
    <2>2. r \in OpeningRow
      BY <1>b, <2>1 DEF OpeningRow
    <2> HIDE DEF r
    <2>3. QED
      BY <1>2, <1>a, <2>1, <2>2
  <1>4. ASSUME NEW i \in Opens, NEW c \in NoClients, H!Opened(i, c),
               past' \in [Types -> SUBSET NoClients]
        PROVE  TypedOpenings'
    <2> DEFINE t == open[i].type
               d == [type |-> t, base |-> c, picked |-> c, touched |-> {}, filled |-> t]
    <2>1. /\ dlg' = d /\ open' = [open EXCEPT ![i] = H!NotOpening]
          /\ UNCHANGED <<form, del, prompt, syncing, sync>>
      BY <1>4 DEF H!Opened, H!Filled
    <2>2. t \in Types \cup {None}
      BY <1>a DEF OpeningRow
    <2>3. d \in OpeningDialog
      BY <2>2 DEF OpeningDialog, NoClients
    <2> HIDE DEF d
    <2>4. QED
      BY <1>2, <1>4, <1>a, <2>1, <2>3, BareOpenings
  <1>5. ASSUME NEW i \in Opens, H!DetailsAnswer(i)
        PROVE  TypedOpenings'
    <2> DEFINE t == open[i].type
               c == H!Details(t)
    <2>1. H!Opened(i, c) /\ past' = [past EXCEPT ![t] = past[t] \cup {c}]
      BY <1>5 DEF H!DetailsAnswer
    <2>2. c \in NoClients
      BY <1>b DEF H!Details, NoClients
    <2> HIDE DEF c, t
    <2>3. past' \in [Types -> SUBSET NoClients]
      BY <1>a, <2>1, <2>2
    <2>4. QED
      BY <1>4, <2>1, <2>2, <2>3
  <1>6. ASSUME NEW i \in Opens, H!DetailsFail(i)
        PROVE  TypedOpenings'
    <2>1. H!Opened(i, open[i].got) /\ past' = past
      BY <1>6 DEF H!DetailsFail, H!Fallback
    <2>2. open[i].got \in NoClients
      BY <1>a DEF OpeningRow
    <2>3. QED
      BY <1>4, <1>a, <2>1, <2>2
  <1>7. CASE H!CloseDialog \/ (\E t \in Types : H!AskDelete(t)) \/ H!CancelDelete
    BY <1>2, <1>7, <1>a, BareOpenings DEF H!CloseDialog, H!AskDelete, H!CancelDelete
  <1>8. CASE H!CancelSync \/ H!ConfirmSync \/ (\E t \in sync : H!SyncEnds(t))
    <2>1. prompt' \in Types \cup {None} /\ syncing' \in BOOLEAN /\ sync' \in SUBSET Types
      BY <1>8, <1>a DEF H!CancelSync, H!ConfirmSync, H!Confirms, H!Syncs, H!SyncEnds
    <2>2. UNCHANGED <<past, open, dlg, form, del>>
      BY <1>8 DEF H!CancelSync, H!ConfirmSync, H!SyncEnds
    <2>3. QED
      BY <1>2, <1>a, <2>1, <2>2
  <1>9. CASE H!FillForm
    <2>1. /\ form' \in OpeningForm
          /\ UNCHANGED <<past, open, dlg, del, prompt, syncing, sync>>
      BY <1>9 DEF H!FillForm, H!Maybe, OpeningForm, NoClients
    <2>2. QED
      BY <1>2, <1>a, <2>1
  <1>10. QED
    BY <1>3, <1>5, <1>6, <1>7, <1>8, <1>9

\* The writes.
LEMMA TypedWriteStep ==
  ASSUME TypedOpenings, NEW j \in PageJobs,
         \/ H!Save(j) \/ H!Delete(j) \/ H!Create(j) \/ H!Commit(j)
         \/ H!Answered(j) \/ H!Reloaded(j) \/ H!Refused(j)
  PROVE  TypedOpenings'
  <1>a. /\ page \in {"list", "create"} /\ past \in [Types -> SUBSET NoClients]
        /\ open \in [Opens -> OpeningRow] /\ dlg \in OpeningDialog /\ form \in OpeningForm
        /\ job \in [PageJobs -> OpeningJob]
        /\ del \in Types \cup {None} /\ prompt \in Types \cup {None}
        /\ syncing \in BOOLEAN /\ sync \in SUBSET Types
        /\ db \in H!Lists /\ row \in H!Lists
    BY OpeningTypes DEF TypedOpenings
  <1>1. UNCHANGED <<page, open, form, syncing, sync>>
    BY DEF H!Save, H!Delete, H!Create, H!Send, H!Commit, H!Answered, H!Reloaded, H!Refused
  <1>2. ASSUME NEW r \in OpeningJob, job' = [job EXCEPT ![j] = r],
               r.kind # "none" => r.for.type \in Types,
               past' \in [Types -> SUBSET NoClients], dlg' \in OpeningDialog,
               del' \in Types \cup {None}, prompt' \in Types \cup {None},
               db' \in H!Lists, row' \in H!Lists
        PROVE  TypedOpenings'
    <2>1. /\ job' \in [PageJobs -> OpeningJob]
          /\ \A i \in PageJobs : job'[i] = IF i = j THEN r ELSE job[i]
      BY <1>a, <1>2
    <2>2. WritesName'
      BY <1>2, <2>1 DEF TypedOpenings, WritesName
    <2>3. /\ page' \in {"list", "create"} /\ open' \in [Opens -> OpeningRow]
          /\ form' \in OpeningForm /\ syncing' \in BOOLEAN /\ sync' \in SUBSET Types
      BY <1>a, <1>1
    <2>4. H!TypeOK'
      BY <1>2, <2>1, <2>3
      DEF H!TypeOK, H!Maybe, H!Dialogs, OpeningDialog, OpeningRow, OpeningJob,
          OpeningForm, NoClients
    <2>5. QED
      BY <2>2, <2>4 DEF TypedOpenings
  <1>3. ASSUME NEW k \in {"save", "create", "delete"}, NEW d \in OpeningDialog,
               d.type \in Types, H!Send(j, k, d)
        PROVE  TypedOpenings'
    <2> DEFINE r == [kind |-> k, st |-> "sent", mine |-> TRUE, for |-> d]
    <2>1. job' = [job EXCEPT ![j] = r] /\ UNCHANGED <<past, dlg, del, prompt, db, row>>
      BY <1>3 DEF H!Send
    <2>2. r \in OpeningJob /\ r.for = d
      BY DEF OpeningJob
    <2> HIDE DEF r
    <2>3. QED
      BY <1>2, <1>3, <1>a, <2>1, <2>2
  <1>4. CASE H!Save(j)
    BY <1>3, <1>4, <1>a DEF H!Save, OpeningDialog
  <1>5. CASE H!Delete(j)
    <2>1. del \in Types /\ H!Send(j, "delete", [H!NoDialog EXCEPT !.type = del])
      BY <1>5, <1>a DEF H!Delete
    <2>2. /\ [H!NoDialog EXCEPT !.type = del] \in OpeningDialog
          /\ [H!NoDialog EXCEPT !.type = del].type = del
      BY <2>1 DEF H!NoDialog, OpeningDialog, NoClients
    <2>3. QED
      BY <1>3, <2>1, <2>2
  <1>6. CASE H!Create(j)
    <2> DEFINE d == [H!NoDialog EXCEPT !.type = form.type, !.picked = form.picked]
    <2>1. form.type \in Types /\ form.picked \in NoClients /\ H!Send(j, "create", d)
      BY <1>6, <1>a DEF H!Create, OpeningForm
    <2>2. d \in OpeningDialog /\ d.type = form.type
      BY <2>1 DEF H!NoDialog, OpeningDialog, NoClients
    <2> HIDE DEF d
    <2>3. QED
      BY <1>3, <2>1, <2>2
  <1>7. CASE H!Commit(j)
    <2> DEFINE t == job[j].for.type
               p == job[j].for.picked
               new == IF job[j].kind = "delete" THEN {} ELSE p
               r == [job[j] EXCEPT !.st = "done"]
    <2>1. /\ job[j].kind # "none"
          /\ db' = IF job[j].kind = "delete" THEN H!Restrict(db, DOMAIN db \ {t})
                   ELSE [u \in DOMAIN db \cup {t} |-> IF u = t THEN p ELSE db[u]]
          /\ past' = [past EXCEPT ![t] = past[t] \cup {new}]
          /\ job' = [job EXCEPT ![j] = r]
          /\ UNCHANGED <<row, dlg, del, prompt>>
      BY <1>7 DEF H!Commit, H!Idle
    <2>2. t \in Types
      BY <2>1 DEF TypedOpenings, WritesName
    <2>3. p \in NoClients /\ new \in NoClients
      BY <1>a DEF OpeningJob, OpeningDialog, NoClients
    <2>4. r \in OpeningJob /\ r.for.type = t
      BY <1>a DEF OpeningJob
    <2> HIDE DEF t, p, new, r
    <2>5. past' \in [Types -> SUBSET NoClients]
      BY <1>a, <2>1, <2>2, <2>3
    <2>6. PICK S \in SUBSET Types : db \in [S -> NoClients]
      BY <1>a, OpeningLists
    <2>7. CASE job[j].kind = "delete"
      <3>1. db' = [u \in S \ {t} |-> db[u]]
        BY <2>1, <2>6, <2>7 DEF H!Restrict
      <3>2. db' \in [S \ {t} -> NoClients]
        BY <2>6, <3>1
      <3>3. db' \in H!Lists
        BY <3>2, OpeningLists
      <3>4. QED
        BY <1>2, <1>a, <2>1, <2>2, <2>4, <2>5, <3>3
    <2>8. CASE job[j].kind # "delete"
      <3>1. db' = [u \in S \cup {t} |-> IF u = t THEN p ELSE db[u]]
        BY <2>1, <2>6, <2>8
      <3>2. db' \in [S \cup {t} -> NoClients]
        BY <2>3, <2>6, <3>1
      <3>3. db' \in H!Lists
        BY <2>2, <3>2, OpeningLists
      <3>4. QED
        BY <1>2, <1>a, <2>1, <2>2, <2>4, <2>5, <3>3
    <2>9. QED
      BY <2>7, <2>8
  <1>8. CASE H!Answered(j)
    <2> DEFINE r == [job[j] EXCEPT !.st = "reload"]
    <2>1. /\ job' = [job EXCEPT ![j] = r] /\ UNCHANGED <<past, dlg, del, prompt, db, row>>
      BY <1>8 DEF H!Answered
    <2>2. r \in OpeningJob /\ r.kind = job[j].kind /\ r.for = job[j].for
      BY <1>a DEF OpeningJob
    <2> HIDE DEF r
    <2>3. QED
      BY <1>2, <1>a, <2>1, <2>2 DEF TypedOpenings, WritesName
  <1>9. CASE H!Reloaded(j) \/ H!Refused(j)
    <2>1. H!Ends(j) /\ UNCHANGED <<db, past>>
      BY <1>9 DEF H!Reloaded, H!Refused
    <2>2. /\ H!Reads \/ row' = row
          /\ prompt' \in {job[j].for.type, prompt}
      BY <1>9 DEF H!Reloaded, H!Refused
    <2>3. /\ job' = [job EXCEPT ![j] = H!NoJob]
          /\ dlg' \in {dlg, H!NoDialog} /\ del' \in {del, None}
      BY <2>1 DEF H!Ends
    <2>4. prompt' \in Types \cup {None}
      BY <1>a, <2>2 DEF OpeningJob, OpeningDialog
    <2>5. row' \in H!Lists
      BY <2>2, OpeningReads DEF TypedOpenings
    <2>6. QED
      BY <1>2, <1>a, <2>1, <2>3, <2>4, <2>5, BareOpenings
  <1>10. QED
    BY <1>4, <1>5, <1>6, <1>7, <1>8, <1>9

\* The two pages.
LEMMA TypedPageStep ==
  ASSUME TypedOpenings, H!OpenForm \/ H!Leave \/ \E j \in PageJobs : H!Created(j)
  PROVE  TypedOpenings'
  <1>a. /\ page \in {"list", "create"} /\ past \in [Types -> SUBSET NoClients]
        /\ open \in [Opens -> OpeningRow] /\ dlg \in OpeningDialog /\ form \in OpeningForm
        /\ job \in [PageJobs -> OpeningJob]
        /\ del \in Types \cup {None} /\ prompt \in Types \cup {None}
        /\ syncing \in BOOLEAN /\ sync \in SUBSET Types
        /\ db \in H!Lists /\ row \in H!Lists
    BY OpeningTypes DEF TypedOpenings
  <1>1. ASSUME NEW p \in {"list", "create"}, NEW others \in [PageJobs -> OpeningJob],
               \A i \in PageJobs : others[i] \in {job[i], H!NoJob}, H!GoTo(p, others)
        PROVE  TypedOpenings'
    <2>1. /\ page' = p /\ H!Reads /\ open' = [i \in Opens |-> H!NotOpening]
          /\ dlg' = H!NoDialog /\ form' = H!NewForm
          /\ job' = [i \in PageJobs |-> [others[i] EXCEPT !.mine = FALSE]]
          /\ del' = None /\ prompt' = None /\ syncing' = FALSE /\ sync' = {}
          /\ UNCHANGED <<db, past>>
      BY <1>1 DEF H!GoTo
    <2>2. \A i \in PageJobs : /\ [others[i] EXCEPT !.mine = FALSE] \in OpeningJob
                              /\ [others[i] EXCEPT !.mine = FALSE].kind = others[i].kind
                              /\ [others[i] EXCEPT !.mine = FALSE].for = others[i].for
      BY DEF OpeningJob
    <2>3. job' \in [PageJobs -> OpeningJob] /\ \A i \in PageJobs :
            job'[i].kind = others[i].kind /\ job'[i].for = others[i].for
      BY <2>1, <2>2
    <2>4. WritesName'
      BY <1>1, <2>3, BareOpenings DEF TypedOpenings, WritesName
    <2>5. row' \in H!Lists /\ open' \in [Opens -> OpeningRow]
      BY <2>1, OpeningReads, BareOpenings DEF TypedOpenings
    <2>6. H!TypeOK'
      BY <1>a, <2>1, <2>3, <2>5, BareOpenings
      DEF H!TypeOK, H!Maybe, H!Dialogs, OpeningDialog, OpeningRow, OpeningJob,
          OpeningForm, NoClients
    <2>7. QED
      BY <2>4, <2>6 DEF TypedOpenings
  <1>2. CASE H!OpenForm \/ H!Leave
    BY <1>1, <1>2, <1>a DEF H!OpenForm, H!Leave
  <1>3. ASSUME NEW j \in PageJobs, H!Created(j)
        PROVE  TypedOpenings'
    <2> DEFINE others == [job EXCEPT ![j] = H!NoJob]
    <2>1. /\ others \in [PageJobs -> OpeningJob]
          /\ \A i \in PageJobs : others[i] = IF i = j THEN H!NoJob ELSE job[i]
      BY <1>a, BareOpenings
    <2>2. \/ H!GoTo("list", others)
          \/ /\ job' = others
             /\ UNCHANGED <<page, db, past, row, open, dlg, form, del, prompt, syncing, sync>>
      BY <1>3 DEF H!Created
    <2> HIDE DEF others
    <2>3. CASE H!GoTo("list", others)
      BY <1>1, <2>1, <2>3
    <2>4. CASE /\ job' = others
               /\ UNCHANGED <<page, db, past, row, open, dlg, form, del, prompt, syncing, sync>>
      <3>1. WritesName'
        BY <2>1, <2>4, BareOpenings DEF TypedOpenings, WritesName
      <3>2. H!TypeOK'
        BY <1>a, <2>1, <2>4
        DEF H!TypeOK, H!Maybe, H!Dialogs, OpeningDialog, OpeningRow, OpeningJob,
            OpeningForm, NoClients
      <3>3. QED
        BY <3>1, <3>2 DEF TypedOpenings
    <2>5. QED
      BY <2>2, <2>3, <2>4
  <1>4. QED
    BY <1>2, <1>3

LEMMA TypedStep ==
  ASSUME TypedOpenings, [H!Next]_vars
  PROVE  TypedOpenings'
  <1>1. CASE UNCHANGED vars
    <2>1. UNCHANGED <<page, db, past, row, open, dlg, form, job, del, prompt, syncing, sync>>
      BY <1>1 DEF vars
    <2>2. H!TypeOK'
      BY <2>1 DEF TypedOpenings, H!TypeOK
    <2>3. QED
      BY <2>1, <2>2 DEF TypedOpenings, WritesName
  <1>2. QED
    BY <1>1, TypedDialogStep, TypedWriteStep, TypedPageStep DEF H!Next

---------------------------------------------------------------------------
\* What the steps of a tab do to its row.
LEMMA RowField ==
  ASSUME NEW r \in B!TabRow
  PROVE  /\ \A g \in {"loading", "shown", "allowed"} : [r EXCEPT !.guard = g] \in B!TabRow
         /\ \A n \in {"none", "authorize", "login", "home"} : [r EXCEPT !.nav = n] \in B!TabRow
         /\ \A c \in B!CallStates : [r EXCEPT !.call = c] \in B!TabRow
         /\ \A o \in B!OwnCalls : [r EXCEPT !.own = o] \in B!TabRow
         /\ \A b \in BOOLEAN : [r EXCEPT !.attempt = b] \in B!TabRow
         /\ \A b \in BOOLEAN : [r EXCEPT !.held = b] \in B!TabRow
  BY DEF B!TabRow

LEMMA RowShown ==
  ASSUME NEW r \in B!TabRow
  PROVE  /\ B!ClearRow(r) \in B!TabRow
         /\ \A p \in B!Pages : B!Show(r, p) \in B!TabRow
         /\ \A p \in B!Pages : B!Document(r, p) \in B!TabRow
         /\ \A t : B!HoldRow(t, r) \in B!TabRow
  <1>1. B!ClearRow(r) \in B!TabRow
    BY DEF B!ClearRow, B!TabRow
  <1>2. \A p \in B!Pages : B!Show(r, p) \in B!TabRow
    BY DEF B!Show, B!TabRow
  <1>3. \A p \in B!Pages : B!Document(r, p) \in B!TabRow
    BY DEF B!Document, B!TabRow, B!CallStates, B!OwnCalls
  <1>4. ASSUME NEW t
        PROVE  B!HoldRow(t, r) \in B!TabRow
    BY RowField DEF B!HoldRow
  <1>5. QED
    BY <1>1, <1>2, <1>3, <1>4

LEMMA BouncedType ==
  ASSUME NEW r \in B!TabRow
  PROVE  B!Bounced(r) \in B!TabRow
  <1> DEFINE c == B!ClearRow(r)
  <1>1. c \in B!TabRow
    BY RowShown
  <1>2. B!Bounced(r) \in {r, [c EXCEPT !.attempt = TRUE, !.nav = "login"],
                             [c EXCEPT !.attempt = TRUE, !.nav = "authorize"]}
    BY DEF B!Bounced
  <1> HIDE DEF c
  <1>3. QED
    BY <1>1, <1>2 DEF B!TabRow

LEMMA TabInit == B!Init => B!TypeOK
  <1>1. B!NewTab \in B!TabRow
    BY DEF B!NewTab, B!TabRow, B!Pages, B!CallStates, B!OwnCalls
  <1>2. QED
    BY <1>1 DEF B!Init, B!TypeOK

\* A step that puts a row.
LEMMA PutTyped ==
  ASSUME B!TypeOK, NEW t \in Tab, NEW r \in B!TabRow, NEW ch \in BOOLEAN, B!Put(t, r, ch),
         cookie' \in BOOLEAN, pending' \in BOOLEAN,
         session' \in {"none", "live", "dead"}, out' \in {"no", "clean"}
  PROVE  B!TypeOK'
  <1> DEFINE g(u) == IF ch # challenge /\ tab[u].page = "login"
                       THEN [tab[u] EXCEPT !.guard = "loading"] ELSE tab[u]
  <1>1. tab' = [u \in Tab |-> IF u = t THEN r ELSE g(u)] /\ challenge' = ch
    BY DEF B!Put
  <1>2. \A u \in Tab : tab[u] \in B!TabRow
    BY DEF B!TypeOK
  <1>3. \A u \in Tab : g(u) \in B!TabRow
    BY <1>2, RowField
  <1> HIDE DEF g
  <1>4. tab' \in [Tab -> B!TabRow]
    BY <1>1, <1>3
  <1>5. QED
    BY <1>1, <1>4 DEF B!TypeOK

\* A step that puts a row and may clear the cookie.
LEMMA PutCalm ==
  ASSUME B!TypeOK, NEW t \in Tab, NEW r \in B!TabRow, NEW ch \in BOOLEAN, B!Put(t, r, ch),
         cookie' \in {cookie, FALSE}, UNCHANGED <<session, pending, out>>
  PROVE  B!TypeOK'
  BY PutTyped DEF B!TypeOK

LEMMA TabDocumentStep ==
  ASSUME B!TypeOK, NEW t \in Tab,
         B!Open(t) \/ B!LoadPage(t) \/ B!LoadAuthorize(t) \/ B!Root(t) \/ B!LoginResolve(t)
  PROVE  B!TypeOK'
  <1> DEFINE cur == tab[t]
  <1>a. cur \in B!TabRow /\ cookie \in BOOLEAN /\ challenge \in BOOLEAN
        /\ session \in {"none", "live", "dead"} /\ pending \in BOOLEAN
        /\ out \in {"no", "clean"}
    BY DEF B!TypeOK
  <1>1. CASE B!Open(t) \/ B!LoadPage(t)
    <2>1. PICK p \in B!Pages : B!Put(t, B!Document(cur, p), challenge)
      BY <1>1 DEF B!Open, B!LoadPage, B!Pages
    <2>2. UNCHANGED <<cookie, session, pending, out>>
      BY <1>1 DEF B!Open, B!LoadPage, B!server
    <2>3. B!Document(cur, p) \in B!TabRow
      BY <1>a, RowShown
    <2> HIDE DEF cur
    <2>4. QED
      BY <1>a, <2>1, <2>2, <2>3, PutCalm
  <1>2. CASE B!LoadAuthorize(t)
    <2> DEFINE d == B!Document(cur, "callback")
    <2>1. d \in B!TabRow /\ B!Document(cur, "login") \in B!TabRow
      BY <1>a, RowShown DEF B!Pages
    <2>2. PICK r : /\ r \in {[d EXCEPT !.own = "exchange"], B!Document(cur, "login")}
                   /\ B!Put(t, r, challenge)
      BY <1>2 DEF B!LoadAuthorize
    <2>3. /\ cookie' \in {cookie, cookie /\ session = "none"}
          /\ session' \in {session, "none"} /\ UNCHANGED <<pending, out>>
      BY <1>2 DEF B!LoadAuthorize
    <2> HIDE DEF d, cur
    <2>4. r \in B!TabRow
      BY <2>1, <2>2, RowField DEF B!OwnCalls
    <2>5. QED
      BY <1>a, <2>2, <2>3, <2>4, PutTyped
  <1>3. CASE B!Root(t)
    <2> DEFINE mfaRow == B!Show(cur, "mfa")
               con == B!Show(cur, "console")
    <2>1. mfaRow \in B!TabRow /\ con \in B!TabRow /\ B!Show(cur, "login") \in B!TabRow
      BY <1>a, RowShown DEF B!Pages
    <2>2. PICK r : /\ r \in {[mfaRow EXCEPT !.guard = "shown"], [con EXCEPT !.attempt = FALSE],
                             [cur EXCEPT !.guard = "shown", !.attempt = TRUE,
                                         !.nav = "authorize"],
                             B!Show(cur, "login")}
                   /\ B!Put(t, r, challenge)
      BY <1>3 DEF B!Root
    <2>3. UNCHANGED <<cookie, session, pending, out>>
      BY <1>3 DEF B!Root, B!server
    <2> HIDE DEF mfaRow, con, cur
    <2>4. /\ [mfaRow EXCEPT !.guard = "shown"] \in B!TabRow
          /\ [con EXCEPT !.attempt = FALSE] \in B!TabRow
      BY <2>1, RowField
    <2>5. [cur EXCEPT !.guard = "shown", !.attempt = TRUE, !.nav = "authorize"] \in B!TabRow
      BY <1>a DEF B!TabRow
    <2>6. r \in B!TabRow
      BY <2>1, <2>2, <2>4, <2>5
    <2>7. QED
      BY <1>a, <2>2, <2>3, <2>6, PutCalm
  <1>4. CASE B!LoginResolve(t)
    <2>1. PICK n \in {"home", cur.nav} :
            B!Put(t, [cur EXCEPT !.guard = "shown", !.nav = n], challenge)
      BY <1>4 DEF B!LoginResolve
    <2>2. UNCHANGED <<cookie, session, pending, out>>
      BY <1>4 DEF B!LoginResolve, B!server
    <2>3. cur.nav \in {"none", "authorize", "login", "home"}
      BY <1>a DEF B!TabRow
    <2> HIDE DEF cur
    <2> DEFINE r == [cur EXCEPT !.guard = "shown", !.nav = n]
    <2>5. r \in B!TabRow
      BY <1>a, <2>3 DEF B!TabRow
    <2>6. QED
      BY <1>a, <2>1, <2>2, <2>5, PutCalm
  <1>5. QED
    BY <1>1, <1>2, <1>3, <1>4

LEMMA TabCallStep ==
  ASSUME B!TypeOK, NEW t \in Tab, NEW c \in B!OwnCalls, B!Call(t, c)
  PROVE  B!TypeOK'
  <1>1. tab[t] \in B!TabRow /\ challenge \in BOOLEAN
    BY DEF B!TypeOK
  <1>2. [tab[t] EXCEPT !.own = c] \in B!TabRow
    BY <1>1, RowField
  <1>3. QED
    BY <1>1, <1>2, PutCalm DEF B!Call, B!server

LEMMA TabFinishStep ==
  ASSUME B!TypeOK, NEW t \in Tab, B!FinishMfa(t), pending' \in BOOLEAN,
         session' \in {"none", "live", "dead"}, out' \in {"no", "clean"}
  PROVE  B!TypeOK'
  <1> DEFINE cur == [tab[t] EXCEPT !.own = "idle", !.verified = TRUE]
             con == B!Show(cur, "console")
  <1>a. tab[t] \in B!TabRow /\ cookie \in BOOLEAN
    BY DEF B!TypeOK
  <1>1. cur \in B!TabRow
    BY <1>a DEF B!TabRow, B!OwnCalls
  <1>2. PICK r : /\ r \in {[cur EXCEPT !.nav = "authorize"], [con EXCEPT !.held = FALSE]}
                 /\ B!Put(t, r, FALSE)
                 /\ cookie' \in {cookie, cookie \/ cur.held}
    BY DEF B!FinishMfa
  <1> HIDE DEF cur
  <1>3. con \in B!TabRow
    BY <1>1, RowShown DEF B!Pages
  <1>4. cookie' \in BOOLEAN
    BY <1>a, <1>1, <1>2 DEF B!TabRow
  <1> HIDE DEF con
  <1>5. r \in B!TabRow
    BY <1>1, <1>2, <1>3, RowField
  <1>6. QED
    BY <1>2, <1>4, <1>5, PutTyped

LEMMA TabLoginStep ==
  ASSUME B!TypeOK, NEW t \in Tab,
         \/ B!LoginSubmit(t) \/ B!MfaSubmit(t) \/ B!BackToLogin(t)
         \/ B!LoginAnswer(t) \/ B!MfaAnswer(t)
  PROVE  B!TypeOK'
  <1>a. tab[t] \in B!TabRow /\ cookie \in BOOLEAN /\ challenge \in BOOLEAN
        /\ session \in {"none", "live", "dead"} /\ pending \in BOOLEAN
        /\ out \in {"no", "clean"}
    BY DEF B!TypeOK
  <1>1. CASE B!LoginSubmit(t) \/ B!MfaSubmit(t) \/ B!BackToLogin(t)
    BY <1>1, TabCallStep DEF B!LoginSubmit, B!MfaSubmit, B!BackToLogin, B!OwnCalls
  <1>2. CASE B!LoginAnswer(t)
    <2> DEFINE cur == [tab[t] EXCEPT !.own = "idle"]
               m == [cur EXCEPT !.page = "mfa", !.guard = "shown", !.ctx = TRUE,
                                !.verified = FALSE, !.held = FALSE]
    <2>1. cur \in B!TabRow
      BY <1>a DEF B!TabRow, B!OwnCalls
    <2>2. PICK r, ch : /\ r \in {m, cur, B!Show(cur, "denied")} /\ ch \in {TRUE, challenge}
                       /\ B!Put(t, r, ch)
      BY <1>2 DEF B!LoginAnswer
    <2>3. /\ cookie' \in {cookie, FALSE} /\ pending' \in {pending, TRUE}
          /\ UNCHANGED <<session, out>>
      BY <1>2 DEF B!LoginAnswer
    <2> HIDE DEF cur
    <2>4. m \in B!TabRow
      BY <2>1 DEF B!TabRow, B!Pages
    <2> HIDE DEF m
    <2>5. r \in B!TabRow
      BY <2>1, <2>2, <2>4, RowShown DEF B!Pages
    <2>6. QED
      BY <1>a, <2>2, <2>3, <2>5, PutTyped
  <1>3. CASE B!MfaAnswer(t)
    <2>1. CASE \/ ~pending /\ B!FinishMfa(t) /\ UNCHANGED <<B!server, out>>
               \/ B!FinishMfa(t) /\ pending' = FALSE /\ session' = "live" /\ out' = "no"
      BY <1>a, <2>1, TabFinishStep DEF B!server
    <2>2. ASSUME NEW c \in {"idle", "back"}, B!Put(t, [tab[t] EXCEPT !.own = c], challenge),
                 UNCHANGED <<cookie, B!server, out>>
          PROVE  B!TypeOK'
      BY <2>2, TabCallStep DEF B!Call, B!OwnCalls
    <2>3. QED
      BY <1>3, <2>1, <2>2 DEF B!MfaAnswer
  <1>4. QED
    BY <1>1, <1>2, <1>3

LEMMA TabTokenStep ==
  ASSUME B!TypeOK, NEW t \in Tab,
         \/ B!ExchangeMint(t) \/ B!ExchangeStore(t) \/ B!ExchangeRefused(t)
         \/ B!ExchangeLost(t) \/ B!RefreshSend(t) \/ B!RefreshMint(t) \/ B!RefreshStore(t)
  PROVE  B!TypeOK'
  <1> DEFINE h == B!HoldRow(t, tab[t])
             con == B!Show(h, "console")
             den == B!Show(tab[t], "denied")
  <1>a. tab[t] \in B!TabRow /\ cookie \in BOOLEAN /\ challenge \in BOOLEAN
        /\ session \in {"none", "live", "dead"} /\ pending \in BOOLEAN
        /\ out \in {"no", "clean"}
    BY DEF B!TypeOK
  <1>b. h \in B!TabRow
    BY <1>a, RowShown
  <1>1. CASE B!ExchangeMint(t)
    BY <1>1, TabCallStep DEF B!ExchangeMint, B!OwnCalls
  <1>2. CASE B!ExchangeStore(t) \/ B!ExchangeRefused(t) \/ B!ExchangeLost(t)
    <2>1. PICK r : /\ r \in {[con EXCEPT !.own = "idle", !.attempt = FALSE],
                             [den EXCEPT !.own = "idle", !.attempt = FALSE]}
                   /\ B!Put(t, r, challenge)
      BY <1>2 DEF B!ExchangeStore, B!ExchangeRefused, B!ExchangeLost, B!ExchangeFail
    <2>2. cookie' \in {cookie, B!StoredCookie(t)} /\ UNCHANGED <<session, pending, out>>
      BY <1>2 DEF B!ExchangeStore, B!ExchangeRefused, B!ExchangeLost, B!ExchangeFail, B!server
    <2> HIDE DEF h
    <2>3. con \in B!TabRow /\ den \in B!TabRow
      BY <1>a, <1>b, RowShown DEF B!Pages
    <2> HIDE DEF con, den
    <2>4. r \in B!TabRow
      BY <2>1, <2>3 DEF B!TabRow, B!OwnCalls
    <2>5. cookie' \in BOOLEAN
      BY <1>a, <2>2 DEF B!StoredCookie
    <2>6. QED
      BY <1>a, <2>1, <2>2, <2>4, <2>5, PutTyped
  <1>3. CASE B!RefreshSend(t) \/ B!RefreshMint(t) \/ B!RefreshStore(t)
    <2>1. PICK r : /\ r \in {[h EXCEPT !.call = "again"], [tab[t] EXCEPT !.call = "refresh"],
                             [tab[t] EXCEPT !.call = "minted"]}
                   /\ B!Put(t, r, challenge)
      BY <1>3 DEF B!RefreshSend, B!RefreshMint, B!RefreshStore
    <2>2. cookie' \in {cookie, B!StoredCookie(t)} /\ UNCHANGED <<session, pending, out>>
      BY <1>3 DEF B!RefreshSend, B!RefreshMint, B!RefreshStore, B!server
    <2> HIDE DEF h
    <2>3. r \in B!TabRow
      BY <1>a, <1>b, <2>1, RowField DEF B!CallStates
    <2>4. cookie' \in BOOLEAN
      BY <1>a, <2>2 DEF B!StoredCookie
    <2>5. QED
      BY <1>a, <2>1, <2>2, <2>3, <2>4, PutTyped
  <1>4. QED
    BY <1>1, <1>2, <1>3

LEMMA TabGuardStep ==
  ASSUME B!TypeOK, NEW t \in Tab,
         \/ B!Validate(t) \/ B!MeOk(t) \/ B!ApiSend(t) \/ B!ApiDone(t) \/ B!Navigate(t)
         \/ B!LogoutStart(t) \/ B!LeaveDenied(t)
  PROVE  B!TypeOK'
  <1> DEFINE idle == [tab[t] EXCEPT !.call = "idle"]
             m == B!Show(tab[t], "mfa")
             i == B!Show(idle, "mfa")
             o == B!Show(tab[t], "logout")
  <1>a. tab[t] \in B!TabRow /\ challenge \in BOOLEAN
    BY DEF B!TypeOK
  <1>b. idle \in B!TabRow
    BY <1>a, RowField DEF B!CallStates
  <1>1. PICK r : /\ r \in {[m EXCEPT !.guard = "shown"], B!Show(tab[t], "root"),
                           [tab[t] EXCEPT !.call = "sent"], B!Show(idle, "denied"),
                           [idle EXCEPT !.guard = "allowed"], [i EXCEPT !.guard = "shown"],
                           idle, [tab[t] EXCEPT !.guard = "loading"],
                           [o EXCEPT !.own = "logout"],
                           [tab[t] EXCEPT !.own = "leave", !.attempt = FALSE]}
                 /\ B!Put(t, r, challenge)
    BY DEF B!Validate, B!MeOk, B!ApiSend, B!ApiDone, B!Navigate, B!LogoutStart, B!LeaveDenied
  <1>2. UNCHANGED <<cookie, session, pending, out>>
    BY DEF B!Validate, B!MeOk, B!ApiSend, B!ApiDone, B!Navigate, B!LogoutStart,
           B!LeaveDenied, B!server
  <1> HIDE DEF idle
  <1>3. /\ m \in B!TabRow /\ i \in B!TabRow /\ o \in B!TabRow
        /\ B!Show(tab[t], "root") \in B!TabRow /\ B!Show(idle, "denied") \in B!TabRow
    BY <1>a, <1>b, RowShown DEF B!Pages
  <1> HIDE DEF m, i, o
  <1>4. /\ [tab[t] EXCEPT !.own = "leave", !.attempt = FALSE] \in B!TabRow
        /\ [tab[t] EXCEPT !.call = "sent"] \in B!TabRow
        /\ [tab[t] EXCEPT !.guard = "loading"] \in B!TabRow
    BY <1>a DEF B!TabRow, B!CallStates, B!OwnCalls
  <1>5. /\ [m EXCEPT !.guard = "shown"] \in B!TabRow /\ [i EXCEPT !.guard = "shown"] \in B!TabRow
        /\ [o EXCEPT !.own = "logout"] \in B!TabRow
        /\ [idle EXCEPT !.guard = "allowed"] \in B!TabRow
    BY <1>b, <1>3, RowField DEF B!OwnCalls
  <1>6. r \in B!TabRow
    BY <1>b, <1>1, <1>3, <1>4, <1>5
  <1>7. QED
    BY <1>a, <1>1, <1>2, <1>6, PutCalm

LEMMA TabFailStep ==
  ASSUME B!TypeOK, NEW t \in Tab,
         \/ B!MeFails(t) \/ B!MeRefused(t) \/ B!ApiUnauthorized(t) \/ B!ApiRefused(t)
  PROVE  B!TypeOK'
  <1> DEFINE b == B!Bounced(tab[t])
             bb == B!Bounced(b)
  <1>a. tab[t] \in B!TabRow /\ challenge \in BOOLEAN
    BY DEF B!TypeOK
  <1>b. b \in B!TabRow
    BY <1>a, BouncedType
  <1>1. \/ \E r \in {tab[t], b, bb}, p \in {"login", "root"} : B!GuardFails(t, r, p)
        \/ \E r \in {b, bb} : B!ApiFails(t, r)
    BY DEF B!MeFails, B!MeRefused, B!ApiUnauthorized, B!ApiRefused
  <1> HIDE DEF b
  <1>c. bb \in B!TabRow
    BY <1>b, BouncedType
  <1> HIDE DEF bb
  <1>2. ASSUME NEW r \in B!TabRow, NEW p \in B!Pages, B!GuardFails(t, r, p)
        PROVE  B!TypeOK'
    <2> DEFINE i == [r EXCEPT !.call = "idle"]
               c == B!ClearRow(i)
               s == B!Show(c, p)
    <2>1. B!Put(t, s, FALSE) /\ cookie' = FALSE /\ UNCHANGED <<session, pending, out>>
      BY <1>2 DEF B!GuardFails, B!ClearedCookie, B!server
    <2>2. i \in B!TabRow
      BY RowField DEF B!CallStates
    <2> HIDE DEF i
    <2>3. c \in B!TabRow
      BY <2>2, RowShown
    <2> HIDE DEF c
    <2>4. s \in B!TabRow
      BY <2>3, RowShown
    <2> HIDE DEF s
    <2>5. QED
      BY <2>1, <2>4, PutCalm
  <1>3. ASSUME NEW r \in B!TabRow, B!ApiFails(t, r)
        PROVE  B!TypeOK'
    <2>1. [r EXCEPT !.call = "idle"] \in B!TabRow
      BY RowField DEF B!CallStates
    <2>2. /\ \E ch \in {FALSE, challenge} : B!Put(t, [r EXCEPT !.call = "idle"], ch)
          /\ cookie' \in {cookie, FALSE} /\ UNCHANGED <<session, pending, out>>
      BY <1>3 DEF B!ApiFails, B!server
    <2>3. QED
      BY <1>a, <2>1, <2>2, PutCalm
  <1>4. QED
    BY <1>a, <1>b, <1>c, <1>1, <1>2, <1>3 DEF B!Pages

LEMMA TabLeaveStep ==
  ASSUME B!TypeOK, NEW t \in Tab, B!BackDone(t) \/ B!LogoutDone(t) \/ B!LeaveDone(t)
  PROVE  B!TypeOK'
  <1> DEFINE c == B!ClearRow(tab[t])
             s == B!Show(c, "login")
  <1>a. /\ tab[t] \in B!TabRow /\ pending \in BOOLEAN
        /\ session \in {"none", "live", "dead"}
    BY DEF B!TypeOK
  <1>b. c \in B!TabRow
    BY <1>a, RowShown
  <1>c. tab[t].attempt \in BOOLEAN
    BY <1>a DEF B!TabRow
  <1>1. PICK r : /\ \/ r = [s EXCEPT !.own = "idle", !.ctx = FALSE]
                    \/ r = [s EXCEPT !.own = "idle"]
                    \/ \E a \in {tab[t].attempt, TRUE} :
                         r = [c EXCEPT !.own = "idle", !.nav = "login", !.attempt = a]
                 /\ B!Put(t, r, FALSE)
    BY DEF B!BackDone, B!LogoutDone, B!LeaveDone
  <1>2. /\ cookie' = FALSE /\ session' \in {session, "none"}
        /\ pending' = pending /\ out' \in {"no", "clean"}
    BY DEF B!BackDone, B!LogoutDone, B!LeaveDone, B!ClearedCookie, B!SignedOut
  <1> HIDE DEF c
  <1>3. s \in B!TabRow
    BY <1>b, RowShown DEF B!Pages
  <1> HIDE DEF s
  <1>4. r \in B!TabRow
    BY <1>b, <1>c, <1>1, <1>3 DEF B!TabRow, B!OwnCalls
  <1>5. QED
    BY <1>a, <1>1, <1>2, <1>4, PutTyped

LEMMA TabTimeStep ==
  ASSUME B!TypeOK, B!Time
  PROVE  B!TypeOK'
  <1>1. CASE B!CookieExpires \/ B!SessionEnds \/ B!PendingExpires
    BY <1>1 DEF B!CookieExpires, B!SessionEnds, B!PendingExpires, B!shared, B!server, B!TypeOK
  <1>2. ASSUME NEW t \in Tab, B!AttemptAges(t)
        PROVE  B!TypeOK'
    <2> DEFINE r == [tab[t] EXCEPT !.attempt = FALSE]
    <2>1. tab' = [tab EXCEPT ![t] = r] /\ UNCHANGED <<cookie, challenge, session, pending, out>>
      BY <1>2 DEF B!AttemptAges, B!shared, B!server
    <2>2. r \in B!TabRow
      BY RowField DEF B!TypeOK
    <2> HIDE DEF r
    <2>3. QED
      BY <2>1, <2>2 DEF B!TypeOK
  <1>3. QED
    BY <1>1, <1>2 DEF B!Time

LEMMA TabStep ==
  ASSUME B!TypeOK, [B!Next]_vars
  PROVE  B!TypeOK'
  <1>1. ASSUME NEW t \in Tab, B!User(t) \/ B!Runs(t) \/ B!Fails(t)
        PROVE  B!TypeOK'
    BY <1>1, TabDocumentStep, TabLoginStep, TabTokenStep, TabGuardStep, TabFailStep,
       TabLeaveStep DEF B!User, B!Runs, B!Fails
  <1>2. CASE UNCHANGED vars
    BY <1>2 DEF vars, B!TypeOK
  <1>3. QED
    BY <1>1, <1>2, TabTimeStep DEF B!Next

---------------------------------------------------------------------------
\* The behaviours that are about these two keep their types.
TypesKept == /\ which = "openings" => TypedOpenings
             /\ which = "tab" => B!TypeOK

LEMMA TypesKeptInit == Init => TypesKept
  BY TypedInit, TabInit DEF Init, TypesKept

LEMMA TypesKeptStep ==
  ASSUME TypesKept, [Next]_vars
  PROVE  TypesKept'
  BY ScreenSteps, TypedStep, TabStep DEF TypesKept

\* However many rows are being opened, a write names an account type and the
\* server gets no other; and the row of a tab names a page and the call it
\* waits for, whatever it is answered (Registration.jsx, axiosInstance.js).
THEOREM TypesInvariant == Spec => []TypesKept
  BY TypesKeptInit, TypesKeptStep, PTL DEF Spec

\* Whatever page of the console is shown, its state has the types its module
\* declares (frontend/src/features, frontend/src/auth).
THEOREM ConsoleTypes == Spec => []ConsoleTypeOK
  <1>1. ListsKept /\ ClientsKept /\ UsersKept /\ AdditionsKept /\ RolesKept
        /\ RegistrationKept /\ LogsKept /\ TypesKept => ConsoleTypeOK
    BY DEF ListsKept, ListInv, Shape, ClientsKept, ClientInv, UsersKept, UserInv,
           AdditionsKept, AddInv, RolesKept, RoleInv, RegistrationKept, RegInv,
           LogsKept, LogInv, TypesKept, TypedOpenings, ConsoleTypeOK
  <1>2. QED
    BY <1>1, ListInvariant, ClientInvariant, UserInvariant, AddInvariant, RoleInvariant,
       RegistrationInvariant, LogInvariant, TypesInvariant, PTL
=============================================================================
