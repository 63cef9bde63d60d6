------------------------- MODULE RegistrationConfig -------------------------
(***************************************************************************)
(* The registration pages of the console: the list of account types with   *)
(* the clients pre-approved for each, the dialog that shows and edits one, *)
(* the prompts to delete one and to bring its users up to date             *)
(* (Registration.jsx, RegistrationConfigModal.jsx), and the page that      *)
(* creates one (CreateRegistrationConfigPage.jsx).                         *)
(*                                                                         *)
(* A row is opened with details that are asked for first: until they come  *)
(* other rows can be opened, and dialogs used and closed.  A dialog that    *)
(* only shows its account type is one in which nothing is picked or saved. *)
(***************************************************************************)
EXTENDS ConsoleData, FiniteSets, Functions

VARIABLES
  page,    \* the list, or the form that creates an account type
  db,      \* the account types on the server, with their clients
  past,    \* what the server has answered for each
  row,     \* the list on the screen
  open,    \* the rows waiting to be opened
  dlg,     \* the dialog; filled: the account type its fields were filled for
  form,    \* the form of the page that creates one
  job,     \* the writes; mine: made from the page as it is mounted now
  del,     \* the account type the prompt to delete names
  prompt,  \* the account type whose users could be updated
  syncing, \* isSyncingUsers
  sync     \* the updates of users this page has under way

vars == <<page, db, past, row, open, dlg, form, job, del, prompt, syncing, sync>>

Maybe     == Types \cup {None}
NotOpening == [type |-> None, got |-> {}]
NoDialog  == [type |-> None, base |-> {}, picked |-> {},
              touched |-> {}, filled |-> None]
NewForm   == [type |-> None, picked |-> {}]
NoJob     == [kind |-> "none", st |-> "sent", mine |-> FALSE, for |-> NoDialog]
Lists     == UNION {[s -> SUBSET Clients] : s \in SUBSET Types}
Dialogs   == [type : Maybe, base : SUBSET Clients,
              picked : SUBSET Clients, touched : SUBSET Clients, filled : Maybe]

TypeOK ==
  /\ page \in {"list", "create"}
  /\ db \in Lists /\ row \in Lists
  /\ past \in [Types -> SUBSET SUBSET Clients]
  /\ open \in [Opens -> [type : Maybe, got : SUBSET Clients]]
  /\ dlg \in Dialogs
  /\ form \in [type : Maybe, picked : SUBSET Clients]
  /\ job \in [Jobs -> [kind : {"none", "save", "create", "delete"},
                       st : {"sent", "done", "reload"}, mine : BOOLEAN, for : Dialogs]]
  /\ del \in Maybe /\ prompt \in Maybe
  /\ syncing \in BOOLEAN
  /\ sync \in SUBSET Types

Init ==
  /\ page = "list"
  /\ db \in Lists /\ row = db
  /\ past = [t \in Types |-> IF t \in DOMAIN db THEN {db[t]} ELSE {}]
  /\ open = [i \in Opens |-> NotOpening]
  /\ dlg = NoDialog /\ form = NewForm
  /\ job = [j \in Jobs |-> NoJob]
  /\ del = None /\ prompt = None
  /\ syncing = FALSE /\ sync = {}

---------------------------------------------------------------------------
(***************************************************************************)
(* Opening and editing.                                                    *)
(***************************************************************************)
Covered == dlg.type # None \/ del # None \/ prompt # None
Uncovered == page = "list" /\ ~Covered
Idle(j) == job[j].kind = "none"

\* The account types that can be opened or deleted.
Rows == DOMAIN row

\* The row is what the dialog falls back to when the details do not come.
OpenRow(i, t) ==
  /\ Uncovered /\ t \in Rows /\ open[i] = NotOpening
  /\ open' = [open EXCEPT ![i] = [type |-> t, got |-> row[t]]]
  /\ UNCHANGED <<page, db, past, row, dlg, form, job, del, prompt, syncing, sync>>

\* The dialog gets an account type.  That fills its fields, also when it was
\* open for another one.
FilledOnce(t, c) ==
  IF dlg.type = None
  THEN [type |-> t, base |-> c, picked |-> c, touched |-> {}, filled |-> t]
  ELSE [dlg EXCEPT !.type = t]
Filled(t, c) ==
  [type |-> t, base |-> c, picked |-> c, touched |-> {}, filled |-> t]

Opened(i, c) ==
  /\ page = "list" /\ open[i] # NotOpening
  /\ dlg' = Filled(open[i].type, c)
  /\ open' = [open EXCEPT ![i] = NotOpening]
  /\ UNCHANGED <<page, db, row, form, job, del, prompt, syncing, sync>>

\* The server has nothing for an account type that is gone, and does not say so.
Details(t) == IF t \in DOMAIN db THEN db[t] ELSE {}

DetailsAnswer(i) ==
  LET t == open[i].type IN
    /\ Opened(i, Details(t))
    /\ past' = [past EXCEPT ![t] = @ \cup {Details(t)}]

FallbackEmpty(q) == {}
Fallback(q) == q.got

DetailsFail(i) == Opened(i, Fallback(open[i])) /\ UNCHANGED past

CloseDialog ==
  /\ dlg.type # None
  /\ dlg' = NoDialog
  /\ UNCHANGED <<page, db, past, row, open, form, job, del, prompt, syncing, sync>>

Flip(set, c) == IF c \in set THEN set \ {c} ELSE set \cup {c}

Pick(c) ==
  /\ dlg.type # None
  /\ dlg' = [dlg EXCEPT !.picked = Flip(@, c), !.touched = @ \cup {c}]
  /\ UNCHANGED <<page, db, past, row, open, form, job, del, prompt, syncing, sync>>

---------------------------------------------------------------------------
(***************************************************************************)
(* Writing.                                                                *)
(***************************************************************************)
Send(j, k, d) ==
  /\ Idle(j)
  /\ job' = [job EXCEPT ![j] = [kind |-> k, st |-> "sent", mine |-> TRUE, for |-> d]]
  /\ UNCHANGED <<db, past, row, open, dlg, form, del, prompt, syncing, sync, page>>

\* Nothing stops the dialog from being submitted again.
Save(j) == dlg.type # None /\ Send(j, "save", dlg)

AskDelete(t) ==
  /\ Uncovered /\ t \in Rows
  /\ del' = t
  /\ UNCHANGED <<page, db, past, row, open, dlg, form, job, prompt, syncing, sync>>

CancelDelete ==
  /\ del # None
  /\ del' = None
  /\ UNCHANGED <<page, db, past, row, open, dlg, form, job, prompt, syncing, sync>>

Delete(j) == del # None /\ Send(j, "delete", [NoDialog EXCEPT !.type = del])

Create(j) ==
  /\ page = "create" /\ form.type # None
  /\ Send(j, "create", [NoDialog EXCEPT !.type = form.type, !.picked = form.picked])

\* The clients of an account type are replaced as a whole.
Commit(j) ==
  /\ ~Idle(j) /\ job[j].st = "sent"
  /\ LET t == job[j].for.type IN
       /\ (job[j].kind = "create") <=> t \notin DOMAIN db
       /\ db' = IF job[j].kind = "delete"
                THEN Restrict(db, DOMAIN db \ {t})
                ELSE [u \in DOMAIN db \cup {t} |-> IF u = t THEN job[j].for.picked ELSE db[u]]
       /\ past' = [past EXCEPT ![t] = @ \cup {IF job[j].kind = "delete" THEN {}
                                              ELSE job[j].for.picked}]
  /\ job' = [job EXCEPT ![j].st = "done"]
  /\ UNCHANGED <<page, row, open, dlg, form, del, prompt, syncing, sync>>

\* The list is read: it shows what the server has, or nothing after an error.
Reads == \E list \in {db, Restrict(db, {})} : row' = list

Answered(j) ==
  /\ job[j].st = "done" /\ job[j].kind \in {"save", "delete"}
  /\ job' = [job EXCEPT ![j].st = "reload"]
  /\ UNCHANGED <<page, db, past, row, open, dlg, form, del, prompt, syncing, sync>>

\* A write ends; the dialog it came from closes, and so does any that has
\* taken its place.
Ends(j) ==
  /\ job' = [job EXCEPT ![j] = NoJob]
  /\ dlg' = IF job[j].mine /\ job[j].kind = "save" THEN NoDialog ELSE dlg
  /\ del' = IF job[j].mine /\ job[j].kind = "delete" THEN None ELSE del

\* The list is read again, which may fail; after a save the users are asked about.
Reloaded(j) ==
  /\ job[j].st = "reload"
  /\ IF job[j].mine
     THEN Reads
     ELSE UNCHANGED row
  /\ prompt' = IF job[j].mine /\ job[j].kind = "save" THEN job[j].for.type ELSE prompt
  /\ Ends(j)
  /\ UNCHANGED <<page, db, past, open, form, syncing, sync>>

\* An error: the caller is not told, and closes its dialog all the same.
Refused(j) ==
  /\ ~Idle(j) /\ job[j].st # "reload"
  /\ Ends(j)
  /\ UNCHANGED <<page, db, past, row, open, form, prompt, syncing, sync>>

---------------------------------------------------------------------------
(***************************************************************************)
(* The users of an account type.                                           *)
(***************************************************************************)
CancelSync ==
  /\ prompt # None /\ ~syncing
  /\ prompt' = None
  /\ UNCHANGED <<page, db, past, row, open, dlg, form, job, del, syncing, sync>>

ConfirmsClosed == ~syncing
ConfirmsAgain == prompt # None
Confirms == prompt # None /\ ~syncing

Syncs(t) == sync' = sync \cup {t}

ConfirmSync ==
  /\ Confirms
  /\ syncing' = TRUE
  /\ Syncs(prompt)
  /\ UNCHANGED <<page, db, past, row, open, dlg, form, job, del, prompt>>

\* Whatever the answer: the prompt closes, also one for another account type
\* that has taken its place.
SyncEnds(t) ==
  /\ sync' = sync \ {t}
  /\ syncing' = FALSE /\ prompt' = None
  /\ UNCHANGED <<page, db, past, row, open, dlg, form, job, del>>

---------------------------------------------------------------------------
(***************************************************************************)
(* The two pages.  Each starts afresh; what the other was waiting for      *)
(* comes to nothing.                                                       *)
(***************************************************************************)
GoTo(p, others) ==
  /\ page' = p
  /\ Reads
  /\ open' = [i \in Opens |-> NotOpening]
  /\ dlg' = NoDialog /\ form' = NewForm
  /\ job' = [j \in Jobs |-> [others[j] EXCEPT !.mine = FALSE]]
  /\ del' = None /\ prompt' = None /\ syncing' = FALSE
  /\ sync' = {}
  /\ UNCHANGED <<db, past>>

OpenForm == Uncovered /\ GoTo("create", job)
Leave == page = "create" /\ GoTo("list", job)

FillForm ==
  /\ page = "create"
  /\ form' \in [type : Maybe, picked : SUBSET Clients]
  /\ UNCHANGED <<page, db, past, row, open, dlg, job, del, prompt, syncing, sync>>

\* The success leads to the list, from whatever form is open by now.
Created(j) ==
  /\ job[j].kind = "create" /\ job[j].st = "done"
  /\ LET others == [job EXCEPT ![j] = NoJob] IN
       IF page = "create" THEN GoTo("list", others)
       ELSE /\ job' = others
            /\ UNCHANGED <<page, db, past, row, open, dlg, form, del, prompt, syncing, sync>>

Next ==
  \/ \E i \in Opens :
       \/ \E t \in Types : OpenRow(i, t)
       \/ DetailsAnswer(i) \/ DetailsFail(i)
  \/ CloseDialog \/ (\E c \in Clients : Pick(c))
  \/ (\E t \in Types : AskDelete(t)) \/ CancelDelete
  \/ \E j \in Jobs :
       \/ Save(j) \/ Delete(j) \/ Create(j) \/ Commit(j)
       \/ Answered(j) \/ Reloaded(j) \/ Refused(j) \/ Created(j)
  \/ CancelSync \/ ConfirmSync \/ (\E t \in sync : SyncEnds(t))
  \/ OpenForm \/ Leave \/ FillForm

Spec == Init /\ [][Next]_vars

---------------------------------------------------------------------------
(***************************************************************************)
(* Properties.                                                             *)
(***************************************************************************)
Saving(j) == job[j].kind = "save"

\* A save sends an account type the clients picked for it: not those picked
\* for the one the dialog was open for before a late answer replaced it.
SavesItsOwnClients == \A j \in Jobs : Saving(j) => job[j].for.filled = job[j].for.type

\* A save starts from clients the server had for the account type, and changes
\* only those picked or removed in the dialog: when the details do not come,
\* none is taken away for that.
StartsFromServer ==
  \A j \in Jobs : Saving(j) =>
    /\ job[j].for.base \in past[job[j].for.type]
    /\ \A c \in Clients \ job[j].for.touched : c \in job[j].for.picked <=> c \in job[j].for.base

\* The page has at most one update of users under way, whatever prompts the
\* answers to its saves bring up in the meantime.
OneSync == Cardinality(sync) <= 1
===========================================================================
