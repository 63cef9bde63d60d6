----------------------------- MODULE RoleEditor -----------------------------
(***************************************************************************)
(* The role pages of the console: the dialog that shows and edits a role   *)
(* (Roles.jsx, RoleModal.jsx), the two-step form that creates one          *)
(* (CreateRolePage.jsx, RoleCreateForm.jsx), and the list of permissions   *)
(* both offer, which is asked for when the page opens and may come late or *)
(* never (usePermissions.js).  How rows are fetched is ConsoleList's       *)
(* subject: here the list shows what the server has after every write.     *)
(***************************************************************************)
EXTENDS ConsoleData, FiniteSets

VARIABLES
  page,     \* the list, or the form that creates a role
  db,       \* the permissions of the roles on the server
  row,      \* the permissions of the roles in the list
  options,  \* the list of permissions: asked for, there, or refused
  dlg,      \* the dialog; touched: the permissions ticked or unticked in it
  form,     \* the form; named: its name and description are filled in
  job       \* the writes

vars == <<page, db, row, options, dlg, form, job>>

Dialogs == [open : BOOLEAN, role : Roles \cup {None}, picked : SUBSET Perms,
           base : SUBSET Perms, touched : SUBSET Perms, described : BOOLEAN]
NoDialog == [open |-> FALSE, role |-> None, picked |-> {}, base |-> {},
             touched |-> {}, described |-> TRUE]
NewForm == [step |-> 1, named |-> FALSE, picked |-> {}]
NoJob == [role |-> None, picked |-> {}, base |-> {}, touched |-> {}, named |-> TRUE,
          mine |-> FALSE]

\* normalizeRole: a role is its permissions.
Rows == [Roles -> SUBSET Perms]

TypeOK ==
  /\ page \in {"list", "create"}
  /\ db \in Rows /\ row \in Rows
  /\ options \in {"asked", "there", "refused"}
  /\ dlg \in Dialogs
  /\ form \in [step : {1, 2}, named : BOOLEAN, picked : SUBSET Perms]
  /\ job \in [Jobs -> [role : Roles \cup {None, New}, picked : SUBSET Perms,
                       base : SUBSET Perms, touched : SUBSET Perms, named : BOOLEAN,
                       mine : BOOLEAN]]

Init ==
  /\ page = "list"
  /\ db \in Rows /\ row = db
  /\ options = "asked"
  /\ dlg = NoDialog /\ form = NewForm
  /\ job = [j \in Jobs |-> NoJob]

---------------------------------------------------------------------------
Idle(j) == job[j].role = None

\* The fields of the dialog for a role, as its row has them.
Filled(r) == [open |-> TRUE, role |-> r, picked |-> row[r], base |-> row[r],
              touched |-> {}, described |-> TRUE]

\* The late options fill an open dialog anew from the role it was opened with.
OptionsAnswer ==
  /\ options = "asked"
  /\ options' = "there"
  /\ dlg' = IF dlg.open
            THEN [dlg EXCEPT !.picked = dlg.base, !.touched = {}, !.described = TRUE]
            ELSE dlg
  /\ UNCHANGED <<page, db, row, form, job>>

OptionsRefused ==
  /\ options = "asked"
  /\ options' = "refused"
  /\ UNCHANGED <<page, db, row, dlg, form, job>>

---------------------------------------------------------------------------
(***************************************************************************)
(* The dialog.                                                             *)
(***************************************************************************)
OpenDialog(r) ==
  /\ page = "list" /\ ~dlg.open
  /\ dlg' = Filled(r)
  /\ UNCHANGED <<page, db, row, options, form, job>>

CloseDialog ==
  /\ dlg.open
  /\ dlg' = NoDialog
  /\ UNCHANGED <<page, db, row, options, form, job>>

\* mergedPermissionOptions: all permissions are offered once they are known,
\* before that the ones the role has.
Offered == IF options = "there" THEN Perms ELSE dlg.picked

Flip(set, p) == IF p \in set THEN set \ {p} ELSE set \cup {p}

Tick(p) ==
  /\ dlg.open /\ p \in Offered
  /\ dlg' = [dlg EXCEPT !.picked = Flip(@, p), !.touched = @ \cup {p}]
  /\ UNCHANGED <<page, db, row, options, form, job>>

Describe ==
  /\ dlg.open
  /\ dlg' = [dlg EXCEPT !.described = ~@]
  /\ UNCHANGED <<page, db, row, options, form, job>>

\* The permissions sent: not only those offered by name.
SentKnown(d) == d.picked \cap (IF options = "there" THEN Perms ELSE {})
Sent(d) == d.picked

\* Nothing stops the form from being sent again.
Save(j) ==
  /\ dlg.open /\ dlg.described /\ Idle(j)
  /\ job' = [job EXCEPT ![j] =
       [NoJob EXCEPT !.role = dlg.role, !.picked = Sent(dlg), !.base = dlg.base,
                     !.touched = dlg.touched]]
  /\ UNCHANGED <<page, db, row, options, dlg, form>>

\* buildRolePayload: the server takes the permissions as a whole.
Stored(r, picked) == [db EXCEPT ![r] = picked]

\* The success closes the
\* dialog, for whichever role it is open by now.
Saved(j) ==
  /\ job[j].role \in Roles
  /\ db' = Stored(job[j].role, job[j].picked)
  /\ row' = IF page = "list" THEN db' ELSE row
  /\ dlg' = IF page = "list" THEN NoDialog ELSE dlg
  /\ job' = [job EXCEPT ![j] = NoJob]
  /\ UNCHANGED <<page, options, form>>

\* After an error the dialog stays as it is.
SaveFails(j) ==
  /\ ~Idle(j)
  /\ job' = [job EXCEPT ![j] = NoJob]
  /\ UNCHANGED <<page, db, row, options, dlg, form>>

---------------------------------------------------------------------------
(***************************************************************************)
(* The form that creates a role.                                           *)
(***************************************************************************)
\* Another page asks for the permissions anew.
GoTo(p) == page' = p /\ options' = "asked" /\ form' = NewForm

OpenForm ==
  /\ page = "list" /\ ~dlg.open
  /\ GoTo("create")
  /\ UNCHANGED <<db, row, dlg, job>>

Leave ==
  /\ page = "create"
  /\ GoTo("list")
  /\ row' = db
  /\ job' = [j \in Jobs |-> [job[j] EXCEPT !.mine = FALSE]]
  /\ UNCHANGED <<db, dlg>>

OnForm == page = "create"

Wizard(f) ==
  /\ OnForm
  /\ form' = f
  /\ UNCHANGED <<page, db, row, options, dlg, job>>

Name == form.step = 1 /\ Wizard([form EXCEPT !.named = ~@])

NextStep == form.step = 1 /\ form.named /\ Wizard([form EXCEPT !.step = 2])

\* A click goes back only; the keyboard goes to any step of the stepper.
JumpTo(s) == s # form.step /\ Wizard([form EXCEPT !.step = s])

TickNew(p) ==
  /\ form.step = 2 /\ options = "there"
  /\ Wizard([form EXCEPT !.picked = Flip(@, p)])

\* The details are looked at again before the role is created.
NotChecked == TRUE
Checked == form.named

Refused == form.step = 2 /\ ~Checked /\ Wizard([form EXCEPT !.step = 1])

Create(j) ==
  /\ OnForm /\ form.step = 2 /\ Checked /\ Idle(j)
  /\ job' = [job EXCEPT ![j] = [NoJob EXCEPT !.role = New, !.picked = form.picked,
                                             !.named = form.named, !.mine = TRUE]]
  /\ UNCHANGED <<page, db, row, options, dlg, form>>

\* The success leads to the list, from whatever page is open by now; a dialog
\* on the list stays, but a list that is there already asks for no options.
Created(j) ==
  /\ job[j].role = New
  /\ IF page = "create" THEN GoTo("list") ELSE UNCHANGED <<page, options, form>>
  /\ row' = IF page = "create" THEN db ELSE row
  /\ job' = [k \in Jobs |-> IF k = j THEN NoJob ELSE [job[k] EXCEPT !.mine = FALSE]]
  /\ UNCHANGED <<db, dlg>>

Next ==
  \/ OptionsAnswer \/ OptionsRefused
  \/ \E r \in Roles : OpenDialog(r)
  \/ CloseDialog \/ Describe
  \/ \E p \in Perms : Tick(p) \/ TickNew(p)
  \/ \E j \in Jobs : Save(j) \/ Saved(j) \/ SaveFails(j) \/ Create(j) \/ Created(j)
  \/ OpenForm \/ Leave \/ Name \/ NextStep \/ Refused
  \/ \E s \in {1, 2} : JumpTo(s)

Spec == Init /\ [][Next]_vars

---------------------------------------------------------------------------
(***************************************************************************)
(* Properties.                                                             *)
(***************************************************************************)

\* A save changes no permission that was not ticked or unticked in the dialog
\* it comes from: in particular it takes none away because the list of
\* permissions has not arrived, or never will.
KeepsUntouched ==
  \A j \in Jobs : job[j].role \in Roles =>
    \A p \in Perms \ job[j].touched : p \in job[j].picked <=> p \in job[j].base

\* No role is created without the details of the first step, whichever way the
\* second one was reached.
CreatesNamed == \A j \in Jobs : job[j].role = New => job[j].named
===========================================================================
