---------------------------- MODULE ConsoleList ----------------------------
(***************************************************************************)
(* A list screen of the console: the hook that keeps the rows             *)
(* (useUsers.js, useArchivedUsers.js, useRoles.js, useAppClients.js), the  *)
(* request cache its service goes through (requestCache.js) and the        *)
(* confirmation dialog of the page.                                        *)
(*                                                                         *)
(* Rows are abstracted to how many writes they reflect, and a filter, a    *)
(* sorting or a page to a view.  A fetch that needs the server is answered *)
(* in two steps, so that a write may fall between them; one that finds     *)
(* another one under way for its view shares that one's answer.            *)
(***************************************************************************)
EXTENDS ConsoleData

VARIABLES
  kind,     \* the screen
  db,       \* the writes the server has committed
  pages,    \* the pages its rows fill
  view,     \* the view chosen
  due,      \* the effect of a changed view has yet to run
  shown,    \* the view and the version of the rows on the screen
  loading,  \* the hook's flag
  cache,    \* cachedRequests, by view
  fetch,    \* the calls of the hook's fetch function
  latest,   \* latestFetchRef
  dialog,   \* the confirmation dialog is open
  write,    \* the confirmed writes
  clean     \* no write has crossed a fetch, a change of view or a lost answer

vars == <<kind, db, pages, view, due, shown, loading, cache, fetch, latest,
          dialog, write, clean>>

Views    == {1, 2}
Nothing  == [view |-> 0, ver |-> 0]
Unread   == [ver |-> 0, pages |-> 0]
NoFetch  == [view |-> 0, loud |-> FALSE, src |-> 0, got |-> Unread]
NoWrite  == [st |-> "idle", view |-> 0, fetch |-> 0]
Answers  == [ver : 0..MaxWrites, pages : Views] \cup {Unread}
Writes   == [st : {"idle", "sent", "committed", "refetch"},
             view : Views \cup {0}, fetch : Fetches \cup {0}]
\* A cached request: unanswered (it names the fetch), or answered.
Pending(f) == [src |-> f, ans |-> Unread]
Stored(a)  == [src |-> 0, ans |-> a]
Missing    == [src |-> 0, ans |-> Unread]

TypeOK ==
  /\ kind \in Kinds
  /\ db \in 0..MaxWrites
  /\ pages \in Views /\ view \in Views
  /\ due \in BOOLEAN
  /\ shown \in [view : Views, ver : 0..MaxWrites] \cup {Nothing}
  /\ loading \in BOOLEAN
  /\ cache \in [Views -> [src : Fetches \cup {0}, ans : Answers]]
  /\ fetch \in [Fetches -> [view : Views, loud : BOOLEAN, src : Fetches, got : Answers]
                             \cup {NoFetch}]
  /\ latest \in Fetches \cup {0}
  /\ dialog \in BOOLEAN
  /\ write \in [Writers -> Writes]
  /\ clean \in BOOLEAN

Init ==
  /\ kind \in Kinds
  /\ db = 0
  /\ pages \in (IF kind \in {"roles", "clients"} THEN Views ELSE {2})
  /\ view = 1 /\ due = TRUE
  /\ shown = Nothing
  /\ loading = TRUE
  /\ cache = [v \in Views |-> Missing]
  /\ fetch = [f \in Fetches |-> NoFetch]
  /\ latest = 0
  /\ dialog = FALSE
  /\ write = [w \in Writers |-> NoWrite]
  /\ clean = TRUE

---------------------------------------------------------------------------
Paged   == kind \in {"roles", "clients"}
Waiting == {f \in Fetches : fetch[f] # NoFetch}
Leaders == {f \in Waiting : fetch[f].src = f}
Idle(w) == write[w].st = "idle"

\* The fetch whose answer one for v shares: useUsers keeps its own map of
\* requests, which no write clears; the others meet in the cache.
Joined(v, c) ==
  IF kind = "users" THEN {f \in Leaders : fetch[f].view = v}
  ELSE {f \in Fetches : c[v].src = f}

\* Which of the fetches ids may still show what they got.
AlwaysApplies(ids) == ids \subseteq Fetches
Applies(ids) == kind # "users" \/ latest \in ids

\* A page beyond the last one is left for the last one.
Beyond(v, a) == Paged /\ v > a.pages

\* The rows and the page after the fetches ids got the answer a for v.
Show(ids, v, a) ==
  IF ~Applies(ids) THEN UNCHANGED <<shown, view, due>>
  ELSE IF Beyond(v, a) THEN
    /\ view' = a.pages
    /\ due' = (due \/ view # a.pages)
    /\ UNCHANGED shown
  ELSE shown' = [view |-> v, ver |-> a.ver] /\ UNCHANGED <<view, due>>

\* An error empties the list, but not that of the archived users; without a
\* count of clients there is only a first page.
ShowError(ids) ==
  /\ shown' = IF Applies(ids) /\ kind # "archived" THEN Nothing ELSE shown
  /\ view' = IF kind = "clients" THEN 1 ELSE view
  /\ due' = (due \/ view' # view)

StopLoading(loud, ids) ==
  loading' = (loading /\ ~(loud /\ Applies(ids)))

---------------------------------------------------------------------------
(***************************************************************************)
(* Fetching.                                                               *)
(***************************************************************************)
\* getCachedRequest without an answer at hand: an unanswered request for the
\* view is shared, in the cache c.
Request(f, v, loud, c) ==
  LET src == IF Joined(v, c) # {} THEN CHOOSE g \in Joined(v, c) : TRUE ELSE f IN
  /\ fetch' = [fetch EXCEPT ![f] =
       [view |-> v, loud |-> loud, src |-> src, got |-> Unread]]
  /\ cache' = IF src = f THEN [c EXCEPT ![v] = Pending(f)] ELSE c

\* An answer not older than half a second is there at once.
Hit(v) == Joined(v, cache) = {} /\ cache[v].ans # Unread

\* The effect that follows a changed view.
FetchMiss(f) ==
  /\ due /\ f \notin Waiting /\ ~Hit(view)
  /\ due' = FALSE
  /\ latest' = f
  /\ loading' = TRUE
  /\ Request(f, view, TRUE, cache)
  /\ UNCHANGED <<kind, db, pages, view, shown, dialog, write, clean>>

FetchHit(f) ==
  /\ due /\ f \notin Waiting /\ Hit(view)
  /\ latest' = f
  /\ loading' = FALSE
  /\ LET a == cache[view].ans IN
       IF Beyond(view, a) THEN view' = a.pages /\ UNCHANGED <<due, shown>>
       ELSE /\ due' = FALSE
            /\ shown' = [view |-> view, ver |-> a.ver]
            /\ UNCHANGED view
  /\ UNCHANGED <<kind, db, pages, cache, fetch, dialog, write, clean>>

ServerReads(f) ==
  /\ f \in Leaders /\ fetch[f].got = Unread
  /\ fetch' = [fetch EXCEPT ![f].got = [ver |-> db, pages |-> pages]]
  /\ UNCHANGED <<kind, db, pages, view, due, shown, loading, cache, latest,
                 dialog, write, clean>>

\* The fetches that share f's answer end; so do the writes that wait for
\* them, and a write closes the dialog, whichever row it is open for.
Ends(f, ids) ==
  LET over == {w \in Writers : write[w].st = "refetch" /\ write[w].fetch \in ids} IN
  /\ fetch' = [g \in Fetches |-> IF g \in ids THEN NoFetch ELSE fetch[g]]
  /\ write' = [w \in Writers |-> IF w \in over THEN NoWrite ELSE write[w]]
  /\ dialog' = (dialog /\ over = {})
  /\ StopLoading(\E g \in ids : fetch[g].loud, ids)

Sharing(f) == {g \in Waiting : fetch[g].src = f}

\* No write goes on for a view that is left, and no answer for one may come
\* after the answer for the new one.
Uncrossed ==
  view' = view \/ /\ \A w \in Writers : write'[w].st = "idle"
                  /\ kind = "users" \/ \A f \in Fetches : fetch'[f] = NoFetch

\* The answer is stored even if its entry was cleared meanwhile.
Answer(f) ==
  /\ f \in Leaders /\ fetch[f].got # Unread
  /\ cache' = [cache EXCEPT ![fetch[f].view] = Stored(fetch[f].got)]
  /\ Show(Sharing(f), fetch[f].view, fetch[f].got)
  /\ Ends(f, Sharing(f))
  /\ clean' = (clean /\ Uncrossed)
  /\ UNCHANGED <<kind, db, pages, latest>>

\* An error removes whatever entry there is.
Fail(f) ==
  /\ f \in Leaders
  /\ cache' = [cache EXCEPT ![fetch[f].view] = Missing]
  /\ ShowError(Sharing(f))
  /\ Ends(f, Sharing(f))
  /\ clean' = (clean /\ kind # "archived" /\ Uncrossed)
  /\ UNCHANGED <<kind, db, pages, latest>>

Expire(v) ==
  /\ cache[v].ans # Unread
  /\ cache' = [cache EXCEPT ![v] = Missing]
  /\ UNCHANGED <<kind, db, pages, view, due, shown, loading, fetch, latest,
                 dialog, write, clean>>

---------------------------------------------------------------------------
(***************************************************************************)
(* The viewer.                                                             *)
(***************************************************************************)
Choose(v) ==
  /\ ~dialog /\ ~due /\ v # view
  /\ view' = v /\ due' = TRUE
  /\ UNCHANGED <<kind, db, pages, shown, loading, cache, fetch, latest, dialog, write>>
  /\ clean' = (clean /\ Uncrossed)

\* The filters stay enabled while a list loads; those of the archived users
\* ask nothing of the server.
ChooseFilter(v) == kind = "users" /\ Choose(v)
RefineList(v)   == Paged /\ v = 1 /\ Choose(v)

\* The page links are hidden while the list loads.
TurnPage(v) == Paged /\ ~loading /\ shown # Nothing /\ Choose(v)

OpenDialog ==
  /\ ~dialog /\ ~due /\ shown # Nothing
  /\ dialog' = TRUE
  /\ UNCHANGED <<kind, db, pages, view, due, shown, loading, cache, fetch,
                 latest, write, clean>>

\* Nothing disables the dialog's buttons while a write is under way.
\* The dialog can be answered.
Prompted == dialog /\ ~due

Cancel ==
  /\ Prompted
  /\ dialog' = FALSE
  /\ UNCHANGED <<kind, db, pages, view, due, shown, loading, cache, fetch,
                 latest, write, clean>>

Confirm(w) ==
  /\ Prompted /\ Idle(w)
  /\ write' = [write EXCEPT ![w] = [st |-> "sent", view |-> view, fetch |-> 0]]
  /\ UNCHANGED <<kind, db, pages, view, due, shown, loading, cache, fetch,
                 latest, dialog, clean>>

---------------------------------------------------------------------------
(***************************************************************************)
(* Writing.                                                                *)
(***************************************************************************)
Commit(w) ==
  /\ write[w].st = "sent" /\ db < MaxWrites
  /\ write' = [write EXCEPT ![w].st = "committed"]
  /\ db' = db + 1
  /\ pages' \in (IF Paged THEN {pages, 1} ELSE {pages})
  /\ clean' = (clean /\ Waiting = {})
  /\ UNCHANGED <<kind, view, due, shown, loading, cache, fetch, latest, dialog>>

\* clearCachedRequests: every view of the screen has the prefix.
ClearedPending(c) == [v \in Views |-> IF c[v].src # 0 THEN Missing ELSE c[v]]
Cleared(c) == [v \in Views |-> Missing]

\* The refetch asks for the view of the moment the write was confirmed.
\* Only useArchivedUsers shows that it loads.
Written(w, f) ==
  /\ write[w].st = "committed" /\ f \notin Waiting
  /\ Request(f, write[w].view, kind = "archived", Cleared(cache))
  /\ write' = [write EXCEPT ![w].st = "refetch", ![w].fetch = f]
  /\ latest' = f
  /\ loading' = (loading \/ kind = "archived")
  /\ UNCHANGED <<kind, db, pages, view, due, shown, dialog, clean>>

\* An error, which may have come after the write was committed.
Refused(w) ==
  /\ write[w].st \in {"sent", "committed"}
  /\ write' = [write EXCEPT ![w] = NoWrite]
  /\ dialog' = FALSE
  /\ clean' = (clean /\ write[w].st = "sent")
  /\ UNCHANGED <<kind, db, pages, view, due, shown, loading, cache, fetch, latest>>

Next ==
  \/ \E f \in Fetches :
       FetchMiss(f) \/ FetchHit(f) \/ ServerReads(f) \/ Answer(f) \/ Fail(f)
  \/ \E v \in Views : Expire(v) \/ ChooseFilter(v) \/ RefineList(v) \/ TurnPage(v)
  \/ OpenDialog \/ Cancel
  \/ \E w \in Writers :
       Confirm(w) \/ Commit(w) \/ (\E f \in Fetches : Written(w, f)) \/ Refused(w)

Spec == Init /\ [][Next]_vars

---------------------------------------------------------------------------
(***************************************************************************)
(* Properties.                                                             *)
(***************************************************************************)
Quiet == ~due /\ Waiting = {} /\ \A w \in Writers : Idle(w)

\* When all is answered, the rows on the screen reflect every write, cache
\* and shared requests notwithstanding: unless a write was committed while a
\* fetch was under way, or its own answer was lost.
FreshAfterWrite == Quiet /\ clean /\ shown # Nothing => shown.ver = db

\* When all is answered, the list is not loading for ever and its rows are
\* those of the view chosen, however its changes and the answers are
\* interleaved (on the screens that do not order their answers: if they did
\* not overlap).
FitsView ==
  Quiet /\ clean => ~loading /\ (shown # Nothing => shown.view = view)
===========================================================================
