----------------------------- MODULE UserEditor -----------------------------
(***************************************************************************)
(* The dialog of the user pool that shows and edits one user               *)
(* (UserPool.jsx, UserPoolModal.jsx), the requests one save is made of     *)
(* (updateUser of useUsers.js), the authenticator code some of them need   *)
(* (UserPoolAuthAppMfaModal.jsx) and the invitation that can be sent again *)
(* from the dialog.                                                        *)
(*                                                                         *)
(* A field of a user is what it was at first or changed: a user is the set *)
(* of the changed fields.  The dialog that only shows a user is the one in *)
(* which nothing is changed.  How the rows are fetched is ConsoleList's    *)
(* subject: here a list that is fetched again shows the server's state.    *)
(***************************************************************************)
EXTENDS ConsoleData, FiniteSets

VARIABLES
  db,      \* the users on the server
  row,     \* the users in the list
  kept,    \* the (non-empty) selections of clients this page has saved
  dlg,     \* the dialog: the row it was opened for, the user it shows
  mfa,     \* the dialog that asks for an authenticator code
  invite,  \* the confirmation that an invitation is to be sent again
  ask,     \* userDetailRequests
  save,    \* the calls of updateUser
  begun,   \* the number of saves begun
  slips    \* what has gone wrong so far, and is not repaired by the page

vars == <<db, row, kept, dlg, mfa, invite, ask, save, begun, slips>>

Selections == Fields \cap {"access", "managed"}
NoAsk  == [st |-> "none", got |-> {}]
NoSave == [user |-> None, form |-> {}, todo |-> {}, done |-> {},
           code |-> FALSE]
NoDialog == [open |-> FALSE, row |-> None, of |-> None, form |-> {}, base |-> {},
             busy |-> FALSE, loading |-> FALSE]
NoCode   == [open |-> FALSE, busy |-> FALSE]
NoInvite == [user |-> None, sending |-> FALSE]

\* mapUserResponse: a user is its fields.
People == [Users -> SUBSET Fields]

TypeOK ==
  /\ db \in People
  /\ row \in People
  /\ kept \in [Users -> [of : SUBSET Selections, on : SUBSET Selections]]
  /\ dlg \in [open : BOOLEAN, row : Users \cup {None}, of : Users \cup {None},
              form : SUBSET Fields, base : SUBSET Fields,
              busy : BOOLEAN, loading : BOOLEAN]
  /\ mfa \in [open : BOOLEAN, busy : BOOLEAN]
  /\ invite \in [user : Users \cup {None}, sending : BOOLEAN]
  /\ ask \in [Users -> [st : {"none", "sent", "read"}, got : SUBSET Fields]]
  /\ save \in [Saves -> [user : Users \cup {None}, form : SUBSET Fields,
                         todo : SUBSET Fields,
                         done : SUBSET Fields, code : BOOLEAN]]
  /\ begun \in 0..MaxSaves
  /\ slips \subseteq {"lost", "crossed", "partial", "unlisted"}

Init ==
  /\ db = [u \in Users |-> {}] /\ row = [u \in Users |-> {}]
  /\ kept = [u \in Users |-> [of |-> {}, on |-> {}]]
  /\ dlg = NoDialog /\ mfa = NoCode /\ invite = NoInvite
  /\ ask = [u \in Users |-> NoAsk]
  /\ save = [s \in Saves |-> NoSave]
  /\ begun = 0 /\ slips = {}

---------------------------------------------------------------------------
Idle(s) == save[s].user = None

\* Nothing lies over the dialog.
Uncovered == ~mfa.open /\ invite.user = None

\* applyUserClientSelections: the page's own selections hide the server's.
Overlaid(u, fields) == (fields \ kept[u].of) \cup kept[u].on

---------------------------------------------------------------------------
(***************************************************************************)
(* Opening and closing.                                                    *)
(***************************************************************************)
\* openUserModal.  The form is filled from the row; a details request that is
\* already under way for the user is shared.
OpenDialog(u) ==
  /\ ~dlg.open /\ Uncovered
  /\ dlg' = [open |-> TRUE, row |-> u, of |-> u, form |-> row[u], base |-> row[u],
             busy |-> FALSE, loading |-> TRUE]
  /\ ask' = [ask EXCEPT ![u] = IF @ = NoAsk THEN [NoAsk EXCEPT !.st = "sent"] ELSE @]
  /\ UNCHANGED <<db, row, kept, mfa, invite, save, begun, slips>>

ReadDetails(u) ==
  /\ ask[u].st = "sent"
  /\ ask' = [ask EXCEPT ![u] = [st |-> "read", got |-> db[u]]]
  /\ UNCHANGED <<db, row, kept, dlg, mfa, invite, save, begun, slips>>

\* The request is still that of the last opening: closing gives it up.
HeardByAny(u) == dlg.open
Heard(u) == dlg.loading /\ dlg.row = u

\* The details fill the form anew: what was typed and a save under way are
\* forgotten, and the dialog that asks for a code is closed.
DetailsAnswer(u) ==
  /\ ask[u].st = "read"
  /\ ask' = [ask EXCEPT ![u] = NoAsk]
  /\ IF ~Heard(u) THEN UNCHANGED <<dlg, mfa>>
     ELSE LET got == Overlaid(u, ask[u].got) IN
       /\ dlg' = [dlg EXCEPT !.of = u, !.loading = FALSE,
                    !.form = IF dlg.open THEN got ELSE @,
                    !.base = IF dlg.open THEN got ELSE @,
                    !.busy = @ /\ ~dlg.open]
       /\ mfa' = IF dlg.open THEN NoCode ELSE mfa
  /\ UNCHANGED <<db, row, kept, invite, save, begun, slips>>

DetailsFail(u) ==
  /\ ask[u].st # "none"
  /\ ask' = [ask EXCEPT ![u] = NoAsk]
  /\ dlg' = [dlg EXCEPT !.loading = @ /\ ~Heard(u)]
  /\ UNCHANGED <<db, row, kept, mfa, invite, save, begun, slips>>

Dismissed(d) == [d EXCEPT !.open = FALSE, !.loading = FALSE]

CloseDialog ==
  /\ dlg.open /\ Uncovered
  /\ dlg' = Dismissed(dlg)
  /\ UNCHANGED <<db, row, kept, mfa, invite, ask, save, begun, slips>>

\* The fields can be changed while the details or a save are under way.
Change(f) ==
  /\ dlg.open /\ Uncovered
  /\ dlg' = [dlg EXCEPT !.form = IF f \in @ THEN @ \ {f} ELSE @ \cup {f}]
  /\ UNCHANGED <<db, row, kept, mfa, invite, ask, save, begun, slips>>

---------------------------------------------------------------------------
(***************************************************************************)
(* Saving.                                                                 *)
(***************************************************************************)
\* The fields updateUser sends: those that differ from the original, but a
\* role and managed clients only for an administrator.
Differing(u, form, base) ==
  {f \in Fields : (f \in form) # (f \in base)} \
    (IF u \in Admins THEN {} ELSE {"managed", "role"})

Started(s, code) ==
  /\ Idle(s) /\ begun < MaxSaves
  /\ begun' = begun + 1
  /\ save' = [save EXCEPT ![s] =
       [user |-> dlg.of, form |-> dlg.form,
        todo |-> Differing(dlg.of, dlg.form, dlg.base), done |-> {}, code |-> code]]

\* A second save, by the same or another dialog, crosses the first.
Crossing == IF \A s \in Saves : Idle(s) THEN {} ELSE {"crossed"}

Submit(s) ==
  /\ dlg.open /\ ~dlg.busy /\ Uncovered
  /\ dlg' = [dlg EXCEPT !.busy = TRUE]
  /\ Started(s, FALSE)
  /\ slips' = slips \cup Crossing
  /\ UNCHANGED <<db, row, kept, mfa, invite, ask>>

\* The same form again, with a code; the dialog itself may be closed by now.
VerifyCode(s) ==
  /\ mfa.open /\ ~mfa.busy /\ invite.user = None
  /\ mfa' = [mfa EXCEPT !.busy = TRUE]
  /\ Started(s, TRUE)
  /\ slips' = slips \cup Crossing
  /\ UNCHANGED <<db, row, kept, dlg, invite, ask>>

CancelCode ==
  /\ mfa.open /\ ~mfa.busy /\ invite.user = None
  /\ mfa' = NoCode
  /\ UNCHANGED <<db, row, kept, dlg, invite, ask, save, begun, slips>>

\* The requests of a save, in order: the type and the role go together.
Requests == {{"access"}, {"managed"}, {"type", "role"}, {"status"}}
Rank(q) == CASE q = {"access"} -> 1 [] q = {"managed"} -> 2
             [] q = {"status"} -> 4 [] OTHER -> 3
Current(todo) ==
  LET open == {q \in Requests : q \cap todo # {}} IN
  (CHOOSE q \in open : \A p \in open : Rank(q) <= Rank(p)) \cap todo

NeedsCode(j) == Current(j.todo) \cap {"type", "role"} # {} /\ ~j.code

\* The server's user once the fields q are those of the form.
With(user, form, q) == (user \ q) \cup (form \cap q)

Committed(s) ==
  LET j == save[s]  q == Current(j.todo) IN
  db' = [db EXCEPT ![j.user] = With(@, j.form, q)]

\* Details that were asked for before are older than this save.
CrossingDetails(u) == IF ask[u].st = "read" THEN {"crossed"} ELSE {}

\* What is left to send after the request q.
RestNone(todo, q) == {}
Rest(todo, q) == todo \ q

\* saveClientSelection: the selections among the fields q, kept on the page.
Selected(k, form, q) ==
  LET own == q \cap Selections IN
    [of |-> k.of \cup own, on |-> With(k.on, form, own)]

SaveStep(s) ==
  /\ save[s].todo # {} /\ ~NeedsCode(save[s])
  /\ Committed(s)
  /\ LET j == save[s]  q == Current(j.todo) IN
       /\ save' = [save EXCEPT ![s].todo = Rest(@, q), ![s].done = @ \cup q]
       /\ kept' = [kept EXCEPT ![j.user] = Selected(@, j.form, q)]
       /\ slips' = slips \cup CrossingDetails(j.user)
  /\ UNCHANGED <<row, dlg, mfa, invite, ask, begun>>

Refetched == row' = [u \in Users |-> Overlaid(u, db[u])]

\* The success closes the dialog, whichever user it shows by now.
Saved(s) ==
  /\ ~Idle(s) /\ save[s].todo = {}
  /\ IF save[s].done = {} THEN UNCHANGED row ELSE Refetched
  /\ dlg' = [Dismissed(dlg) EXCEPT !.busy = @ /\ save[s].code]
  /\ mfa' = IF save[s].code THEN NoCode ELSE mfa
  /\ save' = [save EXCEPT ![s] = NoSave]
  /\ UNCHANGED <<db, kept, invite, ask, begun, slips>>

\* The list is fetched again if a change is known to have been made; a change
\* of the type is not looked at.
RefetchesNever(done) == FALSE
Refetches(done) == done \cap {"access", "managed", "role"} # {}

Unfinished(s) ==
  /\ IF Refetches(save[s].done) THEN Refetched ELSE UNCHANGED row
  /\ save' = [save EXCEPT ![s] = NoSave]

Unrepaired(done) ==
  (IF done # {} THEN {"partial"} ELSE {}) \cup
  (IF done # {} /\ ~(done \cap {"access", "managed", "role"} # {}) THEN {"unlisted"} ELSE {})

\* Without a code the save stops before the type and the role, and the code
\* is asked for: over the dialog of another user, if that one is open by now.
SaveWantsCode(s) ==
  /\ save[s].todo # {} /\ NeedsCode(save[s])
  /\ Unfinished(s)
  /\ mfa' = [mfa EXCEPT !.open = TRUE]
  /\ dlg' = [dlg EXCEPT !.busy = FALSE]
  /\ slips' = slips \cup Unrepaired(save[s].done)
  /\ UNCHANGED <<db, kept, invite, ask, begun>>

\* An error, or the loss of the answer to a request that was carried out.
SaveFails(s) ==
  /\ save[s].todo # {} /\ ~NeedsCode(save[s])
  /\ \/ UNCHANGED db /\ slips' = slips \cup Unrepaired(save[s].done)
     \/ Committed(s) /\ slips' = slips \cup {"lost"} \cup Unrepaired(save[s].done)
  /\ IF Refetches(save[s].done)
     THEN row' = [u \in Users |-> Overlaid(u, db'[u])] ELSE UNCHANGED row
  /\ save' = [save EXCEPT ![s] = NoSave]
  /\ IF save[s].code THEN mfa' = [mfa EXCEPT !.busy = FALSE] /\ UNCHANGED dlg
     ELSE dlg' = [dlg EXCEPT !.busy = FALSE] /\ UNCHANGED mfa
  /\ UNCHANGED <<kept, invite, ask, begun>>

---------------------------------------------------------------------------
(***************************************************************************)
(* The invitation of a regular user.                                       *)
(***************************************************************************)
AskReinvite ==
  /\ dlg.open /\ Uncovered /\ ~dlg.busy /\ ~dlg.loading
  /\ invite' = [user |-> dlg.of, sending |-> FALSE]
  /\ UNCHANGED <<db, row, kept, dlg, mfa, ask, save, begun, slips>>

CancelReinvite ==
  /\ invite.user # None /\ ~invite.sending
  /\ invite' = NoInvite
  /\ UNCHANGED <<db, row, kept, dlg, mfa, ask, save, begun, slips>>

ConfirmReinvite ==
  /\ invite.user # None /\ ~invite.sending
  /\ invite' = [invite EXCEPT !.sending = TRUE]
  /\ UNCHANGED <<db, row, kept, dlg, mfa, ask, save, begun, slips>>

\* Whether it could be sent or not, both dialogs close.
ReinviteEnds ==
  /\ invite.sending
  /\ invite' = NoInvite
  /\ dlg' = [dlg EXCEPT !.open = FALSE]
  /\ UNCHANGED <<db, row, kept, mfa, ask, save, begun, slips>>

Next ==
  \/ \E u \in Users : OpenDialog(u) \/ ReadDetails(u) \/ DetailsAnswer(u) \/ DetailsFail(u)
  \/ CloseDialog
  \/ \E f \in Fields : Change(f)
  \/ \E s \in Saves : Submit(s) \/ VerifyCode(s) \/ SaveStep(s) \/ Saved(s)
                        \/ SaveWantsCode(s) \/ SaveFails(s)
  \/ CancelCode
  \/ AskReinvite \/ CancelReinvite \/ ConfirmReinvite \/ ReinviteEnds

Spec == Init /\ [][Next]_vars

---------------------------------------------------------------------------
(***************************************************************************)
(* Properties.                                                             *)
(***************************************************************************)

\* However the answers to two openings are interleaved, the dialog shows, and
\* saves, the user whose row it was opened for.
EditsTheRow == dlg.open => dlg.of = dlg.row

\* "User updated successfully": the user on the server is then the one of the
\* form, but for what updateUser does not send, unless an earlier save stopped
\* half way, its answer was lost, or it was crossed by another save or by
\* details read before it.
SavedAsReported ==
  \A s \in Saves :
    Saved(s) /\ slips = {} =>
      LET u == save[s].user IN Differing(u, save[s].form, db[u]) = {}
ReportedSaved == [][SavedAsReported]_vars

\* A save that stops half way leaves no row behind that is not the server's:
\* once all is answered, the list shows every change that was made.  (It does
\* not when only a type was changed before the failure, saves crossed or an
\* answer was lost.)
ShownIsSaved ==
  (\A s \in Saves : Idle(s)) /\ slips \subseteq {"partial"} => row = db
===========================================================================
