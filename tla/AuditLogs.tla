----------------------------- MODULE AuditLogs -----------------------------
(***************************************************************************)
(* The audit log of the console (AuditLogs.jsx): the list of one of two    *)
(* types of log, and the dialog that shows the details of one log.         *)
(*                                                                         *)
(* A changed choice cancels the request for the list.  The details are     *)
(* asked for again and again and never cancelled, and the rows are hidden  *)
(* for a while after the list has loaded (useDelayedLoading.js).           *)
(***************************************************************************)
EXTENDS ConsoleData

VARIABLES
  may,      \* the viewer may see the security logs
  choice,   \* the type, the search or sorting, and the page chosen
  due,      \* the effect of a changed choice has yet to run
  request,  \* the choice whose request has not been cancelled
  shown,    \* the choice whose rows are on the screen
  pages,    \* totalPages
  loading,  \* the flag of the list
  veiled,   \* showLoading: the rows are hidden
  detail,   \* the dialog: the log it was opened for, and the one it shows
  fetch,    \* the requests for details: what was asked, and the log meant
  slips     \* "overlap": the dialog was opened while details were awaited

vars == <<may, choice, due, request, shown, pages, loading, veiled, detail,
          fetch, slips>>

LogTypes == {"transaction", "security"}
Queries  == {1, 2}
Pages    == {1, 2}
Choices  == [type : LogTypes, query : Queries, page : Pages]
NoChoice == [type |-> "none", query |-> 0, page |-> 0]

\* Logs of the two types may have the same number.
Logs     == [type : LogTypes, id : {1, 2}]
NoLog    == [type |-> "none", id |-> 0]
NoDetail == [open |-> FALSE, of |-> NoLog, log |-> NoLog, waits |-> FALSE]

TypeOK ==
  /\ may \in BOOLEAN
  /\ choice \in Choices /\ due \in BOOLEAN
  /\ request \in Choices \cup {NoChoice}
  /\ shown \in Choices \cup {NoChoice}
  /\ pages \in Pages
  /\ loading \in BOOLEAN /\ veiled \in BOOLEAN
  /\ detail \in [open : BOOLEAN, of : Logs \cup {NoLog},
                 log : Logs \cup {NoLog}, waits : BOOLEAN]
  /\ fetch \in [Fetches -> Logs \cup {NoLog}]
  /\ slips \subseteq {"overlap"}

Init ==
  /\ may \in BOOLEAN
  /\ choice = [type |-> "transaction", query |-> 1, page |-> 1] /\ due = TRUE
  /\ request = NoChoice /\ shown = NoChoice /\ pages = 1
  /\ loading = TRUE /\ veiled = TRUE
  /\ detail = NoDetail
  /\ fetch = [f \in Fetches |-> NoLog]
  /\ slips = {}

---------------------------------------------------------------------------
(***************************************************************************)
(* The list.                                                               *)
(***************************************************************************)
\* The effects of a changed choice: the request under way is cancelled.
LoadLogs ==
  /\ due /\ due' = FALSE
  /\ request' = choice
  /\ loading' = TRUE /\ veiled' = TRUE
  /\ UNCHANGED <<may, choice, shown, pages, detail, fetch, slips>>

\* A page beyond the last one is left for the last one.
Clamp(last) ==
  /\ pages' = last
  /\ choice' = [choice EXCEPT !.page = IF @ > last THEN last ELSE @]
  /\ due' = (due \/ choice.page > last)

Answer ==
  /\ request # NoChoice /\ ~due
  /\ shown' = request
  /\ \E last \in Pages : Clamp(last)
  /\ request' = NoChoice /\ loading' = FALSE
  /\ UNCHANGED <<may, veiled, detail, fetch, slips>>

Fail ==
  /\ request # NoChoice /\ ~due
  /\ shown' = NoChoice
  /\ Clamp(1)
  /\ request' = NoChoice /\ loading' = FALSE
  /\ UNCHANGED <<may, veiled, detail, fetch, slips>>

\* useDelayedLoading: two seconds after the loading began, at the earliest.
Unveil ==
  /\ veiled /\ ~loading /\ ~due
  /\ veiled' = FALSE
  /\ UNCHANGED <<may, choice, due, request, shown, pages, loading, detail,
                 fetch, slips>>

\* The dialog covers the filters; they stay enabled while the list loads.
Choose(c) ==
  /\ ~due /\ ~detail.open
  /\ choice' = c /\ due' = (c # choice)
  /\ UNCHANGED <<may, request, shown, pages, loading, veiled, fetch, slips>>

\* handleLogTypeChange
ChangeType(t) ==
  /\ t # choice.type
  /\ t = "security" => may
  /\ Choose([choice EXCEPT !.type = t, !.page = 1])
  /\ detail' = NoDetail

\* A search begins at the first page; a sorting keeps the page.
Search(q) == /\ q # choice.query
             /\ Choose([choice EXCEPT !.query = q, !.page = 1])
             /\ UNCHANGED detail
Sort(q)   == /\ q # choice.query
             /\ Choose([choice EXCEPT !.query = q])
             /\ UNCHANGED detail

\* The page links are hidden with the rows.
TurnPage(p) ==
  /\ ~veiled /\ p \in 1..pages /\ p # choice.page
  /\ Choose([choice EXCEPT !.page = p])
  /\ UNCHANGED detail

---------------------------------------------------------------------------
(***************************************************************************)
(* The details.                                                            *)
(***************************************************************************)
\* The rows that can be clicked.
Rows == IF veiled \/ due \/ detail.open THEN {} ELSE {l \in Logs : l.type = shown.type}

\* handleViewLog: the row is looked up among the logs of the type chosen.
View(l, f) ==
  /\ l \in Rows /\ fetch[f] = NoLog
  /\ detail' = [open |-> TRUE, of |-> l, log |-> l, waits |-> TRUE]
  /\ fetch' = [fetch EXCEPT ![f] = [l EXCEPT !.type = choice.type]]
  /\ slips' = IF \E g \in Fetches : fetch[g] # NoLog THEN {"overlap"} ELSE slips
  /\ UNCHANGED <<may, choice, due, request, shown, pages, loading, veiled>>

\* The answer is shown, whichever log the dialog is open for by then.
DetailAnswer(f) ==
  /\ fetch[f] # NoLog
  /\ detail' = [detail EXCEPT !.log = fetch[f], !.waits = FALSE]
  /\ fetch' = [fetch EXCEPT ![f] = NoLog]
  /\ UNCHANGED <<may, choice, due, request, shown, pages, loading, veiled, slips>>

DetailFails(f) ==
  /\ fetch[f] # NoLog
  /\ detail' = [detail EXCEPT !.waits = FALSE]
  /\ fetch' = [fetch EXCEPT ![f] = NoLog]
  /\ UNCHANGED <<may, choice, due, request, shown, pages, loading, veiled, slips>>

\* closeMetadataModal
CloseDetail ==
  /\ detail.open
  /\ detail' = NoDetail
  /\ UNCHANGED <<may, choice, due, request, shown, pages, loading, veiled,
                 fetch, slips>>

Next ==
  \/ LoadLogs \/ Answer \/ Fail \/ Unveil
  \/ \E t \in LogTypes : ChangeType(t)
  \/ \E q \in Queries : Search(q) \/ Sort(q)
  \/ \E p \in Pages : TurnPage(p)
  \/ \E l \in Logs, f \in Fetches : View(l, f)
  \/ \E f \in Fetches : DetailAnswer(f) \/ DetailFails(f)
  \/ CloseDetail

Spec == Init /\ [][Next]_vars

---------------------------------------------------------------------------
(***************************************************************************)
(* Properties.                                                             *)
(***************************************************************************)

\* When all is answered, the list is not loading for ever, its rows are those
\* of the choice, and that is a page there is, however the choices, the late
\* totals and the answers are interleaved.
ListFits ==
  ~due /\ request = NoChoice =>
    /\ ~loading
    /\ shown # NoChoice => shown = choice
    /\ choice.page <= pages

\* The open dialog shows the log it was opened for, never the one with the same
\* number in the other log, and does not wait for nothing; unless it was opened
\* while the details of another one were awaited.
ShowsTheChosen ==
  detail.open /\ slips = {} =>
    /\ detail.log = detail.of
    /\ detail.waits => \E f \in Fetches : fetch[f] # NoLog
=============================================================================
