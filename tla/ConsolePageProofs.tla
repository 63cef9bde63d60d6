------------------------- MODULE ConsolePageProofs -------------------------
(***************************************************************************)
(* The pages of the console that create, change and show one thing at a    *)
(* time, for any clients, users, roles, account types and number of calls  *)
(* that are unanswered.  Each page has an inductive invariant of its own;  *)
(* L, C, U, A, R, G, H, V and B are the screens as MCConsole names them.   *)
(***************************************************************************)
EXTENDS MCConsole, FiniteSetTheorems, TLAPS

\* One screen is shown, and every step is one of its own.
LEMMA ScreenSteps ==
  ASSUME [Next]_vars
  PROVE  /\ which' = which
         /\ which = "lists" => [L!Next]_vars
         /\ which = "clients" => [C!Next]_vars
         /\ which = "users" => [U!Next]_vars
         /\ which = "addUser" => [A!Next]_vars
         /\ which = "roles" => [R!Next]_vars
         /\ which = "registration" => [G!Next]_vars
         /\ which = "openings" => [H!Next]_vars
         /\ which = "logs" => [V!Next]_vars
         /\ which = "tab" => [B!Next]_vars
  BY DEF Next, vars, BesideConsoleList, BesideClientEditor, BesideUserEditor,
         BesideUserCreate, BesideRoleEditor, BesideRegistrationConfig,
         BesideAuditLogs, BesideBrowserSession

---------------------------------------------------------------------------
(***************************************************************************)
(* The role pages: a save keeps the permissions nobody touched, whenever   *)
(* the list of permissions arrives, and no role is created without its     *)
(* details.                                                                *)
(***************************************************************************)
RoleJob == [role : Roles \cup {None, New}, picked : SUBSET Perms,
           base : SUBSET Perms, touched : SUBSET Perms, named : BOOLEAN,
           mine : BOOLEAN]

\* What a dialog or a save has picked differs from what the role had only in
\* the permissions that were ticked or unticked.
Faithful(d) == \A p \in Perms \ d.touched : p \in d.picked <=> p \in d.base

\* KeepsUntouched holds because the dialog a save comes from is faithful.
RoleInv ==
  /\ R!TypeOK
  /\ dlg.open => dlg.role \in Roles /\ Faithful(dlg)
  /\ R!KeepsUntouched
  /\ R!CreatesNamed

LEMMA NoRoleJobType == R!NoJob \in RoleJob /\ R!NoJob.role = None
  BY DEF R!NoJob, RoleJob

LEMMA NoRoleDialogType == R!NoDialog \in R!Dialogs /\ ~R!NoDialog.open
  BY DEF R!NoDialog, R!Dialogs

\* A step of the dialog alone.
LEMMA RoleDialogStep ==
  ASSUME RoleInv, NEW d \in R!Dialogs, dlg' = d,
         UNCHANGED <<page, db, row, form, job>>,
         options' \in {"asked", "there", "refused"},
         d.open => d.role \in Roles /\ Faithful(d)
  PROVE  RoleInv'
  BY DEF RoleInv, R!TypeOK, R!Dialogs, Faithful, R!KeepsUntouched, R!CreatesNamed

\* A step that sends a job.
LEMMA RoleJobStep ==
  ASSUME RoleInv, NEW j \in PageJobs, NEW r \in RoleJob,
         job' = [job EXCEPT ![j] = r],
         UNCHANGED <<page, db, row, options, dlg, form>>,
         r.role \in Roles => Faithful(r),
         r.role = New => r.named
  PROVE  RoleInv'
  <1>1. R!TypeOK'
    BY DEF RoleInv, R!TypeOK, RoleJob
  <1>2. \A k \in PageJobs : job'[k] = IF k = j THEN r ELSE job[k]
    BY DEF RoleInv, R!TypeOK
  <1>3. R!KeepsUntouched' /\ R!CreatesNamed'
    BY <1>2 DEF RoleInv, R!KeepsUntouched, R!CreatesNamed, Faithful
  <1>4. QED
    BY <1>1, <1>3 DEF RoleInv, Faithful

\* A step after which jobs are over or have lost their page.
LEMMA RoleAnswerStep ==
  ASSUME RoleInv, R!TypeOK',
         \A k \in PageJobs : job'[k] = R!NoJob \/ job'[k] = job[k]
                           \/ job'[k] = [job[k] EXCEPT !.mine = FALSE],
         dlg' \in {dlg, R!NoDialog}
  PROVE  RoleInv'
  <1>1. \A k \in PageJobs : job[k] \in RoleJob
    BY DEF RoleInv, R!TypeOK, RoleJob
  <1>2. \A k \in PageJobs :
          \/ job'[k].role = None
          \/ /\ job'[k].role = job[k].role /\ job'[k].picked = job[k].picked
             /\ job'[k].base = job[k].base /\ job'[k].touched = job[k].touched
             /\ job'[k].named = job[k].named
    BY <1>1, NoRoleJobType DEF RoleJob
  <1>3. R!KeepsUntouched' /\ R!CreatesNamed'
    BY <1>2, ConsoleAssumption DEF RoleInv, R!KeepsUntouched, R!CreatesNamed
  <1>4. dlg'.open => dlg'.role \in Roles /\ Faithful(dlg')
    BY NoRoleDialogType DEF RoleInv
  <1>5. QED
    BY <1>3, <1>4 DEF RoleInv, Faithful

LEMMA RoleInvStep ==
  ASSUME RoleInv, [R!Next]_vars
  PROVE  RoleInv'
  <1> USE DEF RoleInv
  <1>a. /\ dlg \in R!Dialogs
        /\ \A k \in PageJobs : job[k] \in RoleJob
        /\ job \in [PageJobs -> RoleJob]
    BY DEF R!TypeOK, RoleJob
  <1>1. CASE R!OptionsAnswer \/ R!OptionsRefused
    <2>1. CASE dlg.open /\ R!OptionsAnswer
      <3>1. dlg' = [dlg EXCEPT !.picked = dlg.base, !.touched = {}, !.described = TRUE]
            /\ options' = "there" /\ UNCHANGED <<page, db, row, form, job>>
        BY <2>1 DEF R!OptionsAnswer
      <3>2. dlg' \in R!Dialogs /\ dlg'.role = dlg.role /\ Faithful(dlg')
        BY <1>a, <3>1 DEF R!Dialogs, Faithful
      <3>3. QED
        BY <2>1, <3>1, <3>2, RoleDialogStep
    <2>2. CASE ~(dlg.open /\ R!OptionsAnswer)
      <3>1. dlg' = dlg /\ options' \in {"there", "refused"}
            /\ UNCHANGED <<page, db, row, form, job>>
        BY <1>1, <2>2 DEF R!OptionsAnswer, R!OptionsRefused
      <3>2. QED
        BY <1>a, <3>1, RoleDialogStep
    <2>3. QED
      BY <2>1, <2>2
  <1>2. ASSUME NEW r \in Roles, R!OpenDialog(r)
        PROVE  RoleInv'
    <2>1. row[r] \subseteq Perms
      BY DEF R!TypeOK, R!Rows
    <2>2. R!Filled(r) \in R!Dialogs /\ R!Filled(r).role = r /\ Faithful(R!Filled(r))
      BY <2>1 DEF R!Filled, R!Dialogs, Faithful
    <2>3. QED
      BY <1>2, <2>2, RoleDialogStep DEF R!OpenDialog, R!TypeOK
  <1>3. CASE R!CloseDialog
    BY <1>3, NoRoleDialogType, RoleDialogStep DEF R!CloseDialog, R!TypeOK
  <1>4. CASE R!Describe
    <2>1. dlg' = [dlg EXCEPT !.described = ~dlg.described] /\ dlg.open
          /\ UNCHANGED <<page, db, row, options, form, job>>
      BY <1>4 DEF R!Describe
    <2>2. dlg' \in R!Dialogs /\ dlg'.role = dlg.role /\ Faithful(dlg')
      BY <1>a, <2>1 DEF R!Dialogs, Faithful
    <2>3. QED
      BY <2>1, <2>2, RoleDialogStep DEF R!TypeOK
  <1>5. ASSUME NEW p \in Perms, R!Tick(p)
        PROVE  RoleInv'
    <2>1. dlg' = [dlg EXCEPT !.picked = R!Flip(dlg.picked, p),
                             !.touched = dlg.touched \cup {p}]
          /\ dlg.open /\ UNCHANGED <<page, db, row, options, form, job>>
      BY <1>5 DEF R!Tick
    <2>2. /\ R!Flip(dlg.picked, p) \subseteq Perms
          /\ \A q \in Perms \ {p} : q \in R!Flip(dlg.picked, p) <=> q \in dlg.picked
      BY <1>a DEF R!Flip, R!Dialogs
    <2>3. /\ dlg' \in R!Dialogs /\ dlg'.role = dlg.role /\ dlg'.base = dlg.base
          /\ dlg'.picked = R!Flip(dlg.picked, p)
          /\ dlg'.touched = dlg.touched \cup {p}
      BY <1>a, <2>1, <2>2 DEF R!Dialogs
    <2>4. Faithful(dlg')
      BY <2>1, <2>2, <2>3 DEF Faithful
    <2>5. QED
      BY <2>1, <2>3, <2>4, RoleDialogStep DEF R!TypeOK
  <1>6. ASSUME NEW j \in PageJobs, R!Save(j)
        PROVE  RoleInv'
    <2> DEFINE r == [R!NoJob EXCEPT !.role = dlg.role, !.picked = R!Sent(dlg),
                                    !.base = dlg.base, !.touched = dlg.touched]
    <2>1. /\ r.role = dlg.role /\ r.picked = dlg.picked
          /\ r.base = dlg.base /\ r.touched = dlg.touched /\ r \in RoleJob
      BY <1>a DEF R!NoJob, R!Sent, RoleJob, R!Dialogs
    <2>2. dlg.role \in Roles /\ Faithful(dlg) /\ job' = [job EXCEPT ![j] = r]
          /\ UNCHANGED <<page, db, row, options, dlg, form>>
      BY <1>6 DEF R!Save
    <2>3. Faithful(r) /\ r.role # New
      BY <2>1, <2>2, ConsoleAssumption DEF Faithful
    <2> HIDE DEF r
    <2>4. QED
      BY <2>1, <2>2, <2>3, RoleJobStep
  <1>7. ASSUME NEW j \in PageJobs, R!Create(j)
        PROVE  RoleInv'
    <2> DEFINE r == [R!NoJob EXCEPT !.role = New, !.picked = form.picked,
                                    !.named = form.named, !.mine = TRUE]
    <2>1. r.role = New /\ r.named /\ r \in RoleJob
      BY <1>7 DEF R!NoJob, RoleJob, R!TypeOK, R!Create, R!Checked
    <2>2. job' = [job EXCEPT ![j] = r]
          /\ UNCHANGED <<page, db, row, options, dlg, form>>
      BY <1>7 DEF R!Create
    <2> HIDE DEF r
    <2>3. QED
      BY <2>1, <2>2, RoleJobStep, ConsoleAssumption
  <1>8. ASSUME NEW j \in PageJobs, R!Saved(j)
        PROVE  RoleInv'
    <2>1. db' \in R!Rows
      BY <1>8, <1>a DEF R!Saved, R!Stored, R!TypeOK, R!Rows, RoleJob
    <2>2. job' = [job EXCEPT ![j] = R!NoJob] /\ dlg' \in {dlg, R!NoDialog}
          /\ row' \in {db', row} /\ UNCHANGED <<page, options, form>>
      BY <1>8 DEF R!Saved
    <2>3. R!TypeOK'
      BY <1>a, <2>1, <2>2, NoRoleJobType, NoRoleDialogType DEF R!TypeOK, RoleJob
    <2>4. QED
      BY <1>a, <2>2, <2>3, RoleAnswerStep
  <1>9. ASSUME NEW j \in PageJobs, R!SaveFails(j)
        PROVE  RoleInv'
    <2>1. job' = [job EXCEPT ![j] = R!NoJob] /\ UNCHANGED <<page, db, row, options, dlg, form>>
      BY <1>9 DEF R!SaveFails
    <2>2. R!TypeOK'
      BY <1>a, <2>1, NoRoleJobType DEF R!TypeOK, RoleJob
    <2>3. QED
      BY <1>a, <2>1, <2>2, RoleAnswerStep
  <1>10. ASSUME NEW j \in PageJobs, R!Created(j)
         PROVE  RoleInv'
    <2>1. /\ job' = [k \in PageJobs |-> IF k = j THEN R!NoJob ELSE [job[k] EXCEPT !.mine = FALSE]]
          /\ dlg' = dlg /\ db' = db /\ row' \in {db, row}
          /\ page' \in {"list", page} /\ options' \in {"asked", options}
          /\ form' \in {R!NewForm, form}
      BY <1>10 DEF R!Created, R!GoTo
    <2>2. job' \in [PageJobs -> RoleJob]
      <3>1. \A k \in PageJobs : [job[k] EXCEPT !.mine = FALSE] \in RoleJob
        BY <1>a DEF RoleJob
      <3>2. QED
        BY <2>1, <3>1, NoRoleJobType
    <2>3. form' \in [step : {1, 2}, named : BOOLEAN, picked : SUBSET Perms]
      <3>1. CASE form' = form
        BY <3>1 DEF R!TypeOK
      <3>2. CASE form' = R!NewForm
        BY <3>2 DEF R!NewForm
      <3>3. QED
        BY <2>1, <3>1, <3>2
    <2>4. R!TypeOK'
      BY <2>1, <2>2, <2>3 DEF R!TypeOK, RoleJob
    <2>5. QED
      BY <2>1, <2>4, RoleAnswerStep
  <1>11. CASE R!Leave
    <2>1. /\ job' = [j \in PageJobs |-> [job[j] EXCEPT !.mine = FALSE]]
          /\ dlg' = dlg /\ db' = db /\ row' = db /\ page' = "list"
          /\ options' = "asked" /\ form' = R!NewForm
      BY <1>11 DEF R!Leave, R!GoTo
    <2>2. \A k \in PageJobs : [job[k] EXCEPT !.mine = FALSE] \in RoleJob
      BY <1>a DEF RoleJob
    <2>3. R!TypeOK'
      BY <2>1, <2>2 DEF R!TypeOK, RoleJob, R!NewForm
    <2>4. QED
      BY <2>1, <2>3, RoleAnswerStep
  <1>12. CASE R!OpenForm
    <2>1. page' = "create" /\ options' = "asked" /\ form' = R!NewForm
          /\ UNCHANGED <<db, row, dlg, job>>
      BY <1>12 DEF R!OpenForm, R!GoTo
    <2>2. R!TypeOK'
      BY <2>1 DEF R!TypeOK, R!NewForm
    <2>3. QED
      BY <2>1, <2>2, RoleAnswerStep
  <1>13. CASE \/ R!Name \/ R!NextStep \/ R!Refused
              \/ \E s \in {1, 2} : R!JumpTo(s)
              \/ \E p \in Perms : R!TickNew(p)
    <2>1. form \in [step : {1, 2}, named : BOOLEAN, picked : SUBSET Perms]
      BY DEF R!TypeOK
    <2>2. form' \in [step : {1, 2}, named : BOOLEAN, picked : SUBSET Perms]
          /\ UNCHANGED <<page, db, row, options, dlg, job>>
      <3>1. CASE R!Name
        BY <2>1, <3>1 DEF R!Name, R!Wizard
      <3>2. CASE R!NextStep \/ R!Refused \/ \E s \in {1, 2} : R!JumpTo(s)
        BY <2>1, <3>2 DEF R!NextStep, R!Refused, R!JumpTo, R!Wizard
      <3>3. ASSUME NEW p \in Perms, R!TickNew(p)
            PROVE  form' \in [step : {1, 2}, named : BOOLEAN, picked : SUBSET Perms]
                   /\ UNCHANGED <<page, db, row, options, dlg, job>>
        BY <2>1, <3>3 DEF R!TickNew, R!Wizard, R!Flip
      <3>4. QED
        BY <1>13, <3>1, <3>2, <3>3
    <2>3. R!TypeOK'
      BY <2>2 DEF R!TypeOK
    <2>4. QED
      BY <2>2, <2>3, RoleAnswerStep
  <1>14. CASE UNCHANGED vars
    <2>1. UNCHANGED <<page, db, row, options, dlg, form, job>>
      BY <1>14 DEF vars
    <2>2. R!TypeOK'
      BY <2>1 DEF R!TypeOK
    <2>3. QED
      BY <2>1, <2>2, RoleAnswerStep
  <1>15. QED
    BY <1>1, <1>2, <1>3, <1>4, <1>5, <1>6, <1>7, <1>8, <1>9, <1>10, <1>11,
       <1>12, <1>13, <1>14 DEF R!Next

LEMMA RoleInvInit ==
  ASSUME R!Init
  PROVE  RoleInv
  BY ConsoleAssumption, NoRoleJobType, NoRoleDialogType
  DEF R!Init, RoleInv, R!TypeOK, RoleJob, R!Rows, R!NewForm, R!KeepsUntouched, R!CreatesNamed

\* The behaviours that are about the role pages keep RoleInv.
RolesKept == which = "roles" => RoleInv

LEMMA RolesKeptInit == Init => RolesKept
  BY RoleInvInit DEF Init, RolesKept

LEMMA RolesKeptStep ==
  ASSUME RolesKept, [Next]_vars
  PROVE  RolesKept'
  BY ScreenSteps, RoleInvStep DEF RolesKept

\* For any roles, permissions and unanswered saves the dialog and the form keep
\* RoleInv (RoleModal.jsx, RoleCreateForm.jsx).
THEOREM RoleInvariant == Spec => []RolesKept
  BY RolesKeptInit, RolesKeptStep, PTL DEF Spec

\* A save never changes a permission nobody touched (RoleModal.jsx).
THEOREM SavesAreFaithful == Spec => []KeepsUntouched
  <1>1. RolesKept => KeepsUntouched
    BY DEF RolesKept, RoleInv, KeepsUntouched
  <1>2. QED
    BY <1>1, RoleInvariant, PTL

\* No role is created without its details (RoleCreateForm.jsx).
THEOREM RolesAreNamed == Spec => []CreatesNamed
  <1>1. RolesKept => CreatesNamed
    BY DEF RolesKept, RoleInv, CreatesNamed
  <1>2. QED
    BY <1>1, RoleInvariant, PTL

---------------------------------------------------------------------------
(***************************************************************************)
(* The client pages: the dialog that edits a client is about the client of *)
(* its row, and while requests do not overlap a new secret is awaited by   *)
(* one dialog that has nothing else to show.                               *)
(***************************************************************************)
RequestRow == [what : {"none", "details", "left", "save", "rotate", "create"},
               client : Clients \cup {None, New}, of : Clients \cup {None},
               secret : 0..MaxSecrets]
EditRow == [row : Clients \cup {None}, of : Clients \cup {None}, loading : BOOLEAN]

\* An open edit dialog is about the client of its row, and so are the details
\* it waits for.
OwnDetails ==
  /\ edit.row # None => edit.of = edit.row
  /\ \A j \in Jobs : job[j].what = "details" => edit.row # None /\ job[j].client = edit.row

\* The page that creates a client has nothing over it and awaits no rotation.
CreateIsBare ==
  page = "create" =>
    /\ edit.row = None /\ confirm = None /\ ~modal.open
    /\ \A j \in Jobs : job[j].what # "rotate"

\* A dialog shows a secret, or waits, or shows an error.
ShowsOneThing ==
  /\ ~modal.open => modal.secret = 0
  /\ modal.secret # 0 => ~modal.loading /\ ~modal.hasError

\* Unless requests overlapped, one secret at most is awaited and none shown
\* meanwhile; a secret marked as copied is the one shown.
OneTelling ==
  ~overlap =>
    /\ \A i, j \in C!Telling : i = j
    /\ C!Telling # {} => modal.secret = 0
    /\ copied => modal.open /\ modal.secret # 0 /\ modal.secret \in saved

ClientInv ==
  /\ C!TypeOK
  /\ OwnDetails /\ C!SavesItsOwnFields
  /\ CreateIsBare /\ ShowsOneThing /\ OneTelling /\ C!SecretIsNotLost

LEMMA NoRequestType == C!NoJob \in RequestRow /\ C!NoJob.what = "none" /\ C!NoJob.secret = 0
  <1>1. 0 \in 0..MaxSecrets
    BY ConsoleAssumption
  <1>2. QED
    BY <1>1 DEF C!NoJob, RequestRow

LEMMA ClientTypes ==
  ASSUME ClientInv
  PROVE  /\ job \in [Jobs -> RequestRow] /\ edit \in EditRow
         /\ page \in {"list", "create"} /\ modal \in C!SecretDialogs
         /\ copied \in BOOLEAN /\ overlap \in BOOLEAN
         /\ secrets \in 0..MaxSecrets /\ confirm \in Clients \cup {None}
         /\ seen \subseteq 1..MaxSecrets /\ saved \subseteq 1..MaxSecrets
         /\ wizard \in [step : 1..3, valid : SUBSET (1..3), logo : {"none", "file"}]
  BY DEF ClientInv, C!TypeOK, RequestRow, EditRow

LEMMA ClosedType == /\ C!Closed \in C!SecretDialogs /\ ~C!Closed.open
                    /\ C!Closed.secret = 0
  <1>1. 0 \in 0..MaxSecrets
    BY ConsoleAssumption
  <1>2. QED
    BY <1>1 DEF C!Closed, C!SecretDialogs

LEMMA ClientInvInit == C!Init => ClientInv
  <1> SUFFICES ASSUME C!Init
               PROVE  ClientInv
    OBVIOUS
  <1>1. /\ \A j \in Jobs : job[j] = C!NoJob
        /\ page = "list" /\ edit = C!NoEdit /\ confirm = None /\ modal = C!Closed
        /\ copied = FALSE /\ seen = {} /\ saved = {}
        /\ overlap = FALSE
    BY DEF C!Init
  <1>2. C!TypeOK
    <2>1. secrets \in 0..MaxSecrets
      BY ConsoleAssumption DEF C!Init
    <2>2. C!Fresh \in [step : 1..3, valid : SUBSET (1..3), logo : {"none", "file"}]
      BY DEF C!Fresh
    <2>3. job \in [Jobs -> RequestRow]
      BY NoRequestType DEF C!Init
    <2>4. C!NoEdit \in EditRow
      BY DEF C!NoEdit, EditRow
    <2>5. QED
      BY <1>1, <2>1, <2>2, <2>3, <2>4, ClosedType DEF C!Init, C!TypeOK, RequestRow, EditRow
  <1>3. OwnDetails /\ C!SavesItsOwnFields /\ CreateIsBare /\ ShowsOneThing
    BY <1>1, NoRequestType, ClosedType
    DEF OwnDetails, C!SavesItsOwnFields, CreateIsBare, ShowsOneThing, C!NoEdit
  <1>4. OneTelling /\ C!SecretIsNotLost
    BY <1>1, NoRequestType, ClosedType DEF OneTelling, C!SecretIsNotLost, C!Telling
  <1>5. QED
    BY <1>2, <1>3, <1>4 DEF ClientInv

\* A step that sends no request for a secret and tells none.
LEMMA NoSecretStep ==
  ASSUME ClientInv, NEW r \in [Jobs -> RequestRow], job' = r,
         NEW e \in EditRow, edit' = e,
         UNCHANGED <<confirm, modal, copied, secrets, seen, saved, overlap>>,
         page' \in {"list", "create"},
         wizard' \in [step : 1..3, valid : SUBSET (1..3), logo : {"none", "file"}],
         \A k \in Jobs : r[k].what \in {"rotate", "create"} => r[k].what = job[k].what,
         OwnDetails',
         \A k \in Jobs : r[k].what = "save" =>
                           (job[k].what = "save" /\ r[k] = job[k]) \/ r[k].of = r[k].client,
         CreateIsBare'
  PROVE  ClientInv'
  <1>1. C!TypeOK'
    BY DEF ClientInv, C!TypeOK, RequestRow, EditRow
  <1>2. C!SavesItsOwnFields'
    BY DEF ClientInv, C!SavesItsOwnFields
  <1>3. ShowsOneThing' /\ C!SecretIsNotLost'
    BY DEF ClientInv, ShowsOneThing, C!SecretIsNotLost
  <1>4. C!Telling' \subseteq C!Telling
    BY DEF C!Telling
  <1>5. OneTelling'
    BY <1>4 DEF ClientInv, OneTelling
  <1>6. QED
    BY <1>1, <1>2, <1>3, <1>5 DEF ClientInv

\* A step of the dialogs of a secret alone.
LEMMA SecretDialogStep ==
  ASSUME ClientInv, NEW m \in C!SecretDialogs, modal' = m,
         UNCHANGED <<page, wizard, edit, job, secrets, seen, overlap>>,
         confirm' \in Clients \cup {None}, copied' \in BOOLEAN,
         saved \subseteq saved', saved' \subseteq 1..MaxSecrets,
         CreateIsBare', ShowsOneThing', OneTelling', C!SecretIsNotLost'
  PROVE  ClientInv'
  <1>1. C!TypeOK'
    BY DEF ClientInv, C!TypeOK
  <1>2. OwnDetails' /\ C!SavesItsOwnFields'
    BY DEF ClientInv, OwnDetails, C!SavesItsOwnFields
  <1>3. QED
    BY <1>1, <1>2 DEF ClientInv

\* A step that changes the requests for secrets.
LEMMA TellingStep ==
  ASSUME ClientInv, NEW j \in Jobs, NEW r \in RequestRow, job' = [job EXCEPT ![j] = r],
         r.what \notin {"details", "save"},
         NEW m \in C!SecretDialogs, modal' = m,
         UNCHANGED <<edit, copied, saved>>,
         page' \in {"list", "create"}, confirm' \in Clients \cup {None},
         overlap' \in BOOLEAN, secrets' \in 0..MaxSecrets, seen' \subseteq 1..MaxSecrets,
         wizard' \in [step : 1..3, valid : SUBSET (1..3), logo : {"none", "file"}],
         CreateIsBare', ShowsOneThing', OneTelling', C!SecretIsNotLost'
  PROVE  ClientInv'
  <1>0. /\ job \in [Jobs -> RequestRow]
        /\ \A k \in Jobs : job'[k] = IF k = j THEN r ELSE job[k]
    BY ClientTypes
  <1>1. C!TypeOK'
    BY <1>0 DEF ClientInv, C!TypeOK, RequestRow
  <1>2. OwnDetails' /\ C!SavesItsOwnFields'
    BY <1>0 DEF ClientInv, OwnDetails, C!SavesItsOwnFields
  <1>3. QED
    BY <1>1, <1>2 DEF ClientInv

LEMMA EditDialogStep ==
  ASSUME ClientInv, NEW j \in Jobs,
         \/ \E c \in Clients : C!OpenEdit(c, j)
         \/ C!DetailsAnswer(j) \/ C!LeftAnswer(j) \/ C!SubmitEdit(j) \/ C!SaveAnswer(j)
         \/ C!CreateFails(j)
  PROVE  ClientInv'
  <1>a. /\ job \in [Jobs -> RequestRow] /\ edit \in EditRow
        /\ wizard \in [step : 1..3, valid : SUBSET (1..3), logo : {"none", "file"}]
        /\ page \in {"list", "create"}
    BY ClientTypes
  <1>b. UNCHANGED <<page, wizard, confirm, modal, copied, secrets, seen, saved, overlap>>
    BY DEF C!OpenEdit, C!DetailsAnswer, C!LeftAnswer, C!SubmitEdit, C!SaveAnswer,
           C!CreateFails, C!secretVars
  <1>1. ASSUME NEW c \in Clients, C!OpenEdit(c, j)
        PROVE  ClientInv'
    <2> DEFINE r == [C!NoJob EXCEPT !.what = "details", !.client = c]
               e == [row |-> c, of |-> c, loading |-> TRUE]
    <2>1. /\ edit.row = None /\ page = "list" /\ c # None
          /\ edit' = e /\ job' = [job EXCEPT ![j] = r]
      BY <1>1, ConsoleAssumption DEF C!OpenEdit, C!Bare
    <2>2. r \in RequestRow /\ r.what = "details" /\ r.client = c
      BY NoRequestType DEF RequestRow, C!NoJob
    <2>3. e \in EditRow /\ e.row = c /\ e.of = c
      BY DEF EditRow
    <2> HIDE DEF r, e
    <2>4. /\ job' \in [Jobs -> RequestRow]
          /\ \A k \in Jobs : job'[k] = IF k = j THEN r ELSE job[k]
      BY <1>a, <2>1, <2>2
    <2>5. OwnDetails' /\ CreateIsBare'
      BY <1>b, <2>1, <2>2, <2>3, <2>4 DEF ClientInv, OwnDetails, CreateIsBare
    <2>6. QED
      BY <1>a, <1>b, <2>1, <2>2, <2>3, <2>4, <2>5, NoSecretStep
  <1>2. CASE C!DetailsAnswer(j)
    <2>1. job[j].what = "details" /\ job' = [job EXCEPT ![j] = C!NoJob]
          /\ edit' \in {[edit EXCEPT !.loading = FALSE, !.of = job[j].client],
                        [edit EXCEPT !.loading = FALSE]}
      BY <1>2 DEF C!DetailsAnswer
    <2>2. /\ edit.row # None /\ job[j].client = edit.row /\ edit.of = edit.row
      BY <2>1 DEF ClientInv, OwnDetails
    <2>3. edit' \in EditRow /\ edit'.row = edit.row /\ edit'.of = edit.row
      <3>1. CASE edit' = [edit EXCEPT !.loading = FALSE, !.of = job[j].client]
        BY <1>a, <2>2, <3>1 DEF EditRow
      <3>2. CASE edit' = [edit EXCEPT !.loading = FALSE]
        BY <1>a, <2>2, <3>2 DEF EditRow
      <3>3. QED
        BY <2>1, <3>1, <3>2
    <2>4. /\ job' \in [Jobs -> RequestRow]
          /\ \A k \in Jobs : job'[k] = IF k = j THEN C!NoJob ELSE job[k]
      BY <1>a, <2>1, NoRequestType
    <2>5. OwnDetails' /\ CreateIsBare'
      BY <1>b, <2>3, <2>4, NoRequestType DEF ClientInv, OwnDetails, CreateIsBare
    <2>6. QED
      BY <1>a, <1>b, <2>3, <2>4, <2>5, NoRequestType, NoSecretStep
  <1>3. CASE C!LeftAnswer(j) \/ C!CreateFails(j)
    <2>1. job' = [job EXCEPT ![j] = C!NoJob] /\ edit' = edit
      BY <1>3 DEF C!LeftAnswer, C!CreateFails
    <2>2. /\ job' \in [Jobs -> RequestRow]
          /\ \A k \in Jobs : job'[k] = IF k = j THEN C!NoJob ELSE job[k]
      BY <1>a, <2>1, NoRequestType
    <2>3. OwnDetails' /\ CreateIsBare'
      BY <1>b, <2>1, <2>2, NoRequestType DEF ClientInv, OwnDetails, CreateIsBare
    <2>4. QED
      BY <1>a, <1>b, <2>1, <2>2, <2>3, NoRequestType, NoSecretStep
  <1>4. CASE C!SubmitEdit(j)
    <2> DEFINE r == [C!NoJob EXCEPT !.what = "save", !.client = edit.row, !.of = edit.of]
    <2>1. edit.row # None /\ edit' = edit /\ job' = [job EXCEPT ![j] = r]
      BY <1>4 DEF C!SubmitEdit
    <2>2. r \in RequestRow /\ r.what = "save" /\ r.client = r.of
      BY <1>a, <2>1, NoRequestType DEF RequestRow, EditRow, C!NoJob, ClientInv, OwnDetails
    <2> HIDE DEF r
    <2>3. /\ job' \in [Jobs -> RequestRow]
          /\ \A k \in Jobs : job'[k] = IF k = j THEN r ELSE job[k]
      BY <1>a, <2>1, <2>2
    <2>4. OwnDetails' /\ CreateIsBare'
      BY <1>b, <2>1, <2>2, <2>3 DEF ClientInv, OwnDetails, CreateIsBare
    <2>5. QED
      BY <1>a, <1>b, <2>1, <2>2, <2>3, <2>4, NoSecretStep
  <1>5. CASE C!SaveAnswer(j)
    <2> DEFINE row1 == [edit EXCEPT !.row = None]
               jobs1 == [k \in Jobs |-> IF edit.row # None THEN C!Cancelled(job[k]) ELSE job[k]]
    <2>1. CASE edit' = row1 /\ job' = [jobs1 EXCEPT ![j] = C!NoJob]
      <3>1. \A k \in Jobs : C!Cancelled(job[k]) \in RequestRow
                            /\ C!Cancelled(job[k]).what # "details"
                            /\ (C!Cancelled(job[k]) # job[k] => job[k].what = "details"
                                  /\ C!Cancelled(job[k]).what = "left")
        BY <1>a DEF C!Cancelled, RequestRow
      <3>2. jobs1 \in [Jobs -> RequestRow]
        BY <1>a, <3>1
      <3>3. /\ job' \in [Jobs -> RequestRow]
            /\ \A k \in Jobs : job'[k] = IF k = j THEN C!NoJob ELSE jobs1[k]
        BY <2>1, <3>2, NoRequestType
      <3>4. \A k \in Jobs : /\ job'[k].what # "details"
                            /\ \/ job'[k] = job[k]
                               \/ job'[k].what \in {"none", "left"}
        BY <3>1, <3>3, NoRequestType DEF ClientInv, OwnDetails
      <3>5. edit' \in EditRow /\ edit'.row = None
        BY <1>a, <2>1 DEF EditRow
      <3>6. OwnDetails' /\ CreateIsBare'
        BY <1>b, <3>4, <3>5 DEF ClientInv, OwnDetails, CreateIsBare
      <3>7. QED
        BY <1>a, <1>b, <3>3, <3>4, <3>5, <3>6, NoSecretStep
    <2>2. CASE job' = [job EXCEPT ![j] = C!NoJob] /\ edit' = edit
      <3>1. /\ job' \in [Jobs -> RequestRow]
            /\ \A k \in Jobs : job'[k] = IF k = j THEN C!NoJob ELSE job[k]
        BY <1>a, <2>2, NoRequestType
      <3>2. OwnDetails' /\ CreateIsBare'
        BY <1>b, <2>2, <3>1, NoRequestType DEF ClientInv, OwnDetails, CreateIsBare
      <3>3. QED
        BY <1>a, <1>b, <2>2, <3>1, <3>2, NoRequestType, NoSecretStep
    <2>3. QED
      BY <1>5, <2>1, <2>2 DEF C!SaveAnswer
  <1>6. QED
    BY <1>1, <1>2, <1>3, <1>4, <1>5

LEMMA PageStep ==
  ASSUME ClientInv, \/ C!CloseEdit \/ C!OpenCreate \/ C!CancelCreate
                    \/ C!FillStep \/ C!AddFile \/ C!RemoveFile \/ C!NextStep
                    \/ \E s \in 1..2 : C!BackTo(s)
  PROVE  ClientInv'
  <1>a. /\ job \in [Jobs -> RequestRow] /\ edit \in EditRow
        /\ wizard \in [step : 1..3, valid : SUBSET (1..3), logo : {"none", "file"}]
        /\ page \in {"list", "create"}
    BY ClientTypes
  <1>1. CASE C!CloseEdit
    <2>1. /\ edit' = [edit EXCEPT !.row = None]
          /\ job' = [k \in Jobs |-> C!Cancelled(job[k])]
          /\ UNCHANGED <<page, wizard, confirm, modal, copied, secrets, seen, saved, overlap>>
      BY <1>1 DEF C!CloseEdit, C!secretVars
    <2>2. \A k \in Jobs : C!Cancelled(job[k]) \in RequestRow
                          /\ C!Cancelled(job[k]).what # "details"
                          /\ \/ C!Cancelled(job[k]) = job[k]
                             \/ C!Cancelled(job[k]).what = "left"
      BY <1>a DEF C!Cancelled, RequestRow
    <2>3. /\ job' \in [Jobs -> RequestRow]
          /\ edit' \in EditRow /\ edit'.row = None
      BY <1>a, <2>1, <2>2 DEF EditRow
    <2>4. \A k \in Jobs : /\ job'[k].what # "details"
                          /\ job'[k] = job[k] \/ job'[k].what = "left"
      BY <2>1, <2>2
    <2>5. OwnDetails' /\ CreateIsBare'
      BY <2>1, <2>3, <2>4 DEF ClientInv, OwnDetails, CreateIsBare
    <2>6. QED
      BY <1>a, <2>1, <2>3, <2>4, <2>5, NoSecretStep
  <1>2. CASE C!OpenCreate
    <2>1. /\ edit' = C!NoEdit /\ job' = [k \in Jobs |-> C!Unheard(job[k])]
          /\ page' = "create" /\ wizard' = C!Fresh
          /\ confirm = None /\ ~modal.open
          /\ UNCHANGED <<confirm, modal, copied, secrets, seen, saved, overlap>>
      BY <1>2 DEF C!OpenCreate, C!secretVars, C!Bare
    <2>2. \A k \in Jobs : C!Unheard(job[k]) \in RequestRow
                          /\ C!Unheard(job[k]).what \notin {"details", "save", "rotate"}
                          /\ \/ C!Unheard(job[k]) = job[k]
                             \/ C!Unheard(job[k]).what = "left"
      BY <1>a DEF C!Unheard, RequestRow
    <2>3. /\ job' \in [Jobs -> RequestRow]
          /\ edit' \in EditRow /\ edit'.row = None
      BY <1>a, <2>1, <2>2 DEF EditRow, C!NoEdit
    <2>4. \A k \in Jobs : /\ job'[k].what \notin {"details", "save", "rotate"}
                          /\ job'[k] = job[k] \/ job'[k].what = "left"
      BY <2>1, <2>2
    <2>5. OwnDetails' /\ CreateIsBare'
      BY <2>1, <2>3, <2>4 DEF OwnDetails, CreateIsBare
    <2>6. wizard' \in [step : 1..3, valid : SUBSET (1..3), logo : {"none", "file"}]
      BY <2>1 DEF C!Fresh
    <2>7. QED
      BY <1>a, <2>1, <2>3, <2>4, <2>5, <2>6, NoSecretStep
  <1>3. ASSUME UNCHANGED <<edit, job, confirm, modal, copied, secrets, seen, saved, overlap>>,
               page' \in {page, "list"},
               wizard' \in [step : 1..3, valid : SUBSET (1..3), logo : {"none", "file"}]
        PROVE  ClientInv'
    <2>1. OwnDetails' /\ CreateIsBare'
      BY <1>3 DEF ClientInv, OwnDetails, CreateIsBare
    <2>2. QED
      BY <1>a, <1>3, <2>1, NoSecretStep
  <1>4. CASE C!CancelCreate
    <2>1. wizard' \in [step : 1..3, valid : SUBSET (1..3), logo : {"none", "file"}]
      BY <1>4 DEF C!CancelCreate, C!Fresh
    <2>2. QED
      BY <1>3, <1>4, <2>1 DEF C!CancelCreate, C!secretVars
  <1>5. CASE C!FillStep \/ C!AddFile \/ C!RemoveFile \/ C!NextStep
             \/ \E s \in 1..2 : C!BackTo(s)
    <2>1. wizard' \in [step : 1..3, valid : SUBSET (1..3), logo : {"none", "file"}]
      <3>1. CASE C!FillStep
        <4>1. PICK v \in {wizard.valid \cup {wizard.step}, wizard.valid \ {wizard.step}} :
                wizard' = [wizard EXCEPT !.valid = v]
          BY <3>1 DEF C!FillStep, C!Wizard
        <4>2. v \in SUBSET (1..3)
          BY <1>a
        <4>3. QED
          BY <1>a, <4>1, <4>2
      <3>2. CASE C!AddFile \/ C!RemoveFile
        BY <1>a, <3>2 DEF C!AddFile, C!RemoveFile, C!Wizard
      <3>3. CASE C!NextStep
        <4>1. wizard.step + 1 \in 1..3 /\ wizard' = [wizard EXCEPT !.step = wizard.step + 1]
          BY <1>a, <3>3 DEF C!NextStep, C!Wizard
        <4>2. QED
          BY <1>a, <4>1
      <3>4. ASSUME NEW s \in 1..2, C!BackTo(s)
            PROVE  wizard' \in [step : 1..3, valid : SUBSET (1..3), logo : {"none", "file"}]
        <4>1. s \in 1..3 /\ wizard' = [wizard EXCEPT !.step = s]
          BY <3>4 DEF C!BackTo, C!Wizard
        <4>2. QED
          BY <1>a, <4>1
      <3>5. QED
        BY <1>5, <3>1, <3>2, <3>3, <3>4
    <2>2. UNCHANGED <<page, edit, job, confirm, modal, copied, secrets, seen, saved, overlap>>
      BY <1>5 DEF C!FillStep, C!AddFile, C!RemoveFile, C!NextStep, C!BackTo, C!Wizard,
                  C!secretVars
    <2>3. QED
      BY <1>3, <2>1, <2>2
  <1>6. QED
    BY <1>1, <1>2, <1>4, <1>5

LEMMA AskSecretStep ==
  ASSUME ClientInv,
         \/ \E c \in Clients : C!AskRotate(c)
         \/ C!CancelRotate \/ C!CopySecret \/ C!CloseSecret
  PROVE  ClientInv'
  <1>a. /\ modal \in C!SecretDialogs /\ copied \in BOOLEAN
        /\ confirm \in Clients \cup {None} /\ saved \subseteq 1..MaxSecrets
        /\ seen \subseteq 1..MaxSecrets
    BY ClientTypes
  <1>1. ASSUME NEW c \in Clients, C!AskRotate(c)
        PROVE  ClientInv'
    <2>1. /\ page = "list" /\ confirm' = c
          /\ UNCHANGED <<page, wizard, edit, modal, job, copied, secrets, seen, saved, overlap>>
      BY <1>1 DEF C!AskRotate, C!Bare, C!secretVars
    <2>2. CreateIsBare' /\ ShowsOneThing' /\ C!SecretIsNotLost'
      BY <2>1 DEF ClientInv, CreateIsBare, ShowsOneThing, C!SecretIsNotLost
    <2>3. OneTelling'
      BY <2>1 DEF ClientInv, OneTelling, C!Telling
    <2>4. QED
      BY <1>a, <2>1, <2>2, <2>3, SecretDialogStep
  <1>2. CASE C!CancelRotate
    <2>1. /\ confirm' = None
          /\ UNCHANGED <<page, wizard, edit, modal, job, copied, secrets, seen, saved, overlap>>
      BY <1>2 DEF C!CancelRotate, C!secretVars
    <2>2. CreateIsBare' /\ ShowsOneThing' /\ C!SecretIsNotLost'
      BY <2>1 DEF ClientInv, CreateIsBare, ShowsOneThing, C!SecretIsNotLost
    <2>3. OneTelling'
      BY <2>1 DEF ClientInv, OneTelling, C!Telling
    <2>4. QED
      BY <1>a, <2>1, <2>2, <2>3, SecretDialogStep
  <1>3. CASE C!CopySecret
    <2>1. /\ modal.open /\ modal.secret # 0 /\ copied' = TRUE
          /\ saved' = saved \cup {modal.secret}
          /\ UNCHANGED <<page, wizard, edit, confirm, modal, job, secrets, seen, overlap>>
      BY <1>3 DEF C!CopySecret
    <2>2. modal.secret \in 1..MaxSecrets
      <3>1. modal.secret \in 0..MaxSecrets
        BY <1>a DEF C!SecretDialogs
      <3>2. QED
        BY <2>1, <3>1, ConsoleAssumption
    <2>3. CreateIsBare' /\ ShowsOneThing' /\ C!SecretIsNotLost'
      BY <2>1 DEF ClientInv, CreateIsBare, ShowsOneThing, C!SecretIsNotLost
    <2>4. OneTelling'
      BY <2>1 DEF ClientInv, OneTelling, C!Telling
    <2>5. QED
      BY <1>a, <2>1, <2>2, <2>3, <2>4, SecretDialogStep
  <1>4. CASE C!CloseSecret
    <2>1. /\ modal.open /\ (copied \/ modal.loading \/ modal.hasError)
          /\ modal' = C!Closed /\ copied' = FALSE
          /\ UNCHANGED <<page, wizard, edit, confirm, job, secrets, seen, saved, overlap>>
      BY <1>4 DEF C!CloseSecret, C!AfterClose
    <2>2. CreateIsBare' /\ ShowsOneThing'
      BY <2>1, ClosedType DEF ClientInv, CreateIsBare, ShowsOneThing
    <2>3. OneTelling'
      BY <2>1, ClosedType DEF ClientInv, OneTelling, C!Telling
    <2>4. C!SecretIsNotLost'
      <3>1. ASSUME ~overlap, NEW s \in seen
            PROVE  s \in saved
        <4>1. CASE modal.secret = s
          <5>1. s # 0
            BY <1>a
          <5>2. ~modal.loading /\ ~modal.hasError
            BY <4>1, <5>1 DEF ClientInv, ShowsOneThing
          <5>3. modal.secret \in saved
            BY <2>1, <3>1, <5>2 DEF ClientInv, OneTelling
          <5>4. QED
            BY <4>1, <5>3
        <4>2. CASE modal.secret # s
          BY <3>1, <4>2 DEF ClientInv, C!SecretIsNotLost
        <4>3. QED
          BY <4>1, <4>2
      <3>2. QED
        BY <2>1, <3>1 DEF C!SecretIsNotLost
    <2>5. QED
      BY <1>a, <2>1, <2>2, <2>3, <2>4, ClosedType, SecretDialogStep
  <1>5. QED
    BY <1>1, <1>2, <1>3, <1>4

LEMMA SecretRequestStep ==
  ASSUME ClientInv, NEW j \in Jobs,
         \/ C!ConfirmRotate(j) \/ C!MakeSecret(j) \/ C!Rotated(j) \/ C!RotateFails(j)
         \/ C!SubmitCreate(j) \/ C!Created(j)
  PROVE  ClientInv'
  <1>a. /\ job \in [Jobs -> RequestRow] /\ modal \in C!SecretDialogs
        /\ page \in {"list", "create"}
        /\ copied \in BOOLEAN /\ overlap \in BOOLEAN /\ secrets \in 0..MaxSecrets
        /\ confirm \in Clients \cup {None} /\ seen \subseteq 1..MaxSecrets
        /\ wizard \in [step : 1..3, valid : SUBSET (1..3), logo : {"none", "file"}]
    BY ClientTypes
  <1>1. ASSUME NEW r \in RequestRow, r.what \in {"rotate", "create"},
               job' = [job EXCEPT ![j] = r], job[j].what = "none",
               overlap' = (overlap \/ C!Telling # {}),
               ~modal.open, modal' \in C!SecretDialogs, modal'.secret = 0,
               UNCHANGED <<page, wizard, edit, confirm, copied, secrets, seen, saved>>,
               CreateIsBare'
        PROVE  ClientInv'
    <2>1. \A k \in Jobs : job'[k] = IF k = j THEN r ELSE job[k]
      BY <1>a, <1>1
    <2>2. overlap' \in BOOLEAN /\ (~overlap' => ~overlap /\ C!Telling = {})
      BY <1>1
    <2>3. ShowsOneThing'
      BY <1>1 DEF ShowsOneThing
    <2>4. OneTelling'
      <3>1. ~overlap' => C!Telling' \subseteq {j}
        BY <2>1, <2>2 DEF C!Telling
      <3>2. ~overlap' => ~copied
        BY <1>1, <2>2 DEF ClientInv, OneTelling
      <3>3. QED
        BY <1>1, <3>1, <3>2 DEF OneTelling
    <2>5. C!SecretIsNotLost'
      BY <1>1, <2>2 DEF ClientInv, C!SecretIsNotLost
    <2>6. QED
      BY <1>a, <1>1, <2>2, <2>3, <2>4, <2>5, TellingStep
  <1>2. ASSUME job[j].what \in {"rotate", "create"}, job' = [job EXCEPT ![j] = C!NoJob],
               modal' \in C!SecretDialogs, modal'.open, ShowsOneThing',
               \/ modal'.secret = 0 /\ seen' = seen
               \/ modal'.secret # 0 /\ seen' = seen \cup {modal'.secret},
               confirm' \in Clients \cup {None}, page' \in {page, "list"},
               wizard' \in {wizard, C!Fresh},
               UNCHANGED <<edit, copied, secrets, saved, overlap>>, CreateIsBare'
        PROVE  ClientInv'
    <2>1. \A k \in Jobs : job'[k] = IF k = j THEN C!NoJob ELSE job[k]
      BY <1>a, <1>2
    <2>2. /\ j \in C!Telling
          /\ C!Telling' = C!Telling \ {j}
      BY <1>2, <2>1, NoRequestType DEF C!Telling
    <2>3. ~overlap => ~copied /\ C!Telling' = {} /\ modal.secret = 0
      BY <2>2 DEF ClientInv, OneTelling
    <2>4. OneTelling'
      BY <1>2, <2>3 DEF OneTelling
    <2>5. seen' \subseteq 1..MaxSecrets
      <3>1. modal'.secret \in 0..MaxSecrets
        BY <1>2 DEF C!SecretDialogs
      <3>2. modal'.secret # 0 => modal'.secret \in 1..MaxSecrets
        BY <3>1, ConsoleAssumption
      <3>3. QED
        BY <1>a, <1>2, <3>2
    <2>6. C!SecretIsNotLost'
      <3>1. ~overlap => seen \subseteq saved
        BY <1>a, <2>3 DEF ClientInv, C!SecretIsNotLost
      <3>2. QED
        BY <1>2, <3>1 DEF C!SecretIsNotLost
    <2>7. wizard' \in [step : 1..3, valid : SUBSET (1..3), logo : {"none", "file"}]
      <3>1. C!Fresh \in [step : 1..3, valid : SUBSET (1..3), logo : {"none", "file"}]
        BY DEF C!Fresh
      <3>2. QED
        BY <1>a, <1>2, <3>1
    <2>8. QED
      BY <1>a, <1>2, <2>4, <2>5, <2>6, <2>7, NoRequestType, TellingStep
  <1>3. CASE C!ConfirmRotate(j)
    <2> DEFINE r == [C!NoJob EXCEPT !.what = "rotate", !.client = confirm]
               m == [C!Closed EXCEPT !.open = TRUE, !.loading = TRUE]
    <2>1. /\ confirm # None /\ ~modal.open /\ job[j].what = "none"
          /\ job' = [job EXCEPT ![j] = r] /\ modal' = m
          /\ overlap' = (overlap \/ C!Telling # {})
          /\ UNCHANGED <<page, wizard, edit, confirm, copied, secrets, seen, saved>>
      BY <1>3 DEF C!ConfirmRotate, C!Idle
    <2>2. r \in RequestRow /\ r.what = "rotate"
      BY <1>a, NoRequestType DEF RequestRow, C!NoJob
    <2>3. m \in C!SecretDialogs /\ m.secret = 0
      BY ClosedType DEF C!SecretDialogs, C!Closed
    <2> HIDE DEF r, m
    <2>4. CreateIsBare'
      BY <2>1 DEF ClientInv, CreateIsBare
    <2>5. QED
      BY <1>1, <2>1, <2>2, <2>3, <2>4
  <1>4. CASE C!SubmitCreate(j)
    <2> DEFINE r == [C!NoJob EXCEPT !.what = "create", !.client = New]
    <2>1. /\ page = "create" /\ job[j].what = "none"
          /\ job' = [job EXCEPT ![j] = r] /\ modal' = modal
          /\ overlap' = (overlap \/ C!Telling # {})
          /\ UNCHANGED <<page, wizard, edit, confirm, copied, secrets, seen, saved>>
      BY <1>4 DEF C!SubmitCreate, C!Idle, C!OnCreatePage
    <2>2. r \in RequestRow /\ r.what = "create"
      BY NoRequestType DEF RequestRow, C!NoJob
    <2> HIDE DEF r
    <2>3. ~modal.open /\ modal.secret = 0
      BY <2>1 DEF ClientInv, CreateIsBare, ShowsOneThing
    <2>4. CreateIsBare'
      <3>1. \A k \in Jobs : job'[k] = IF k = j THEN r ELSE job[k]
        BY <1>a, <2>1
      <3>2. QED
        BY <2>1, <2>2, <3>1 DEF ClientInv, CreateIsBare
    <2>5. QED
      BY <1>a, <1>1, <2>1, <2>2, <2>3, <2>4
  <1>5. CASE C!MakeSecret(j)
    <2> DEFINE r == [job[j] EXCEPT !.secret = secrets + 1]
    <2>1. /\ j \in C!Telling /\ secrets < MaxSecrets
          /\ secrets' = secrets + 1 /\ job' = [job EXCEPT ![j] = r]
          /\ UNCHANGED <<page, wizard, edit, confirm, modal, copied, seen, saved, overlap>>
      BY <1>5 DEF C!MakeSecret
    <2>2. secrets + 1 \in 0..MaxSecrets
      BY <1>a, <2>1, ConsoleAssumption
    <2>3. r \in RequestRow /\ r.what = job[j].what /\ r.what \in {"rotate", "create"}
      BY <1>a, <2>1, <2>2 DEF RequestRow, C!Telling
    <2> HIDE DEF r
    <2>4. \A k \in Jobs : job'[k] = IF k = j THEN r ELSE job[k]
      BY <1>a, <2>1
    <2>5. CreateIsBare' /\ ShowsOneThing' /\ C!SecretIsNotLost'
      BY <2>1, <2>3, <2>4 DEF ClientInv, CreateIsBare, ShowsOneThing, C!SecretIsNotLost
    <2>6. OneTelling'
      <3>1. C!Telling' = C!Telling
        BY <2>3, <2>4 DEF C!Telling
      <3>2. QED
        BY <2>1, <3>1 DEF ClientInv, OneTelling
    <2>7. QED
      BY <1>a, <2>1, <2>2, <2>3, <2>5, <2>6, TellingStep
  <1>6. CASE C!Rotated(j) \/ C!Created(j)
    <2> DEFINE m == [C!Closed EXCEPT !.open = TRUE, !.secret = job[j].secret]
    <2>1. /\ job[j].what \in {"rotate", "create"} /\ job[j].secret # 0
          /\ modal' = m /\ seen' = seen \cup {job[j].secret}
          /\ job' = [job EXCEPT ![j] = C!NoJob]
          /\ UNCHANGED <<edit, copied, secrets, saved, overlap>>
          /\ confirm' \in {None, confirm}
          /\ \/ page' = page /\ wizard' = wizard /\ job[j].what = "rotate"
             \/ page' = "list" /\ wizard' = C!Fresh
      BY <1>6 DEF C!Rotated, C!Created, C!Told
    <2>2. job[j].secret \in 0..MaxSecrets
      BY <1>a DEF RequestRow
    <2>3. /\ m \in C!SecretDialogs /\ m.open /\ m.secret = job[j].secret
          /\ ~m.loading /\ ~m.hasError
      BY <2>2 DEF C!SecretDialogs, C!Closed
    <2> HIDE DEF m
    <2>4. page' = "list"
      BY <1>a, <2>1 DEF ClientInv, CreateIsBare
    <2>5. CreateIsBare' /\ ShowsOneThing'
      BY <2>1, <2>3, <2>4 DEF CreateIsBare, ShowsOneThing
    <2>6. QED
      BY <1>a, <1>2, <2>1, <2>3, <2>4, <2>5
  <1>7. CASE C!RotateFails(j)
    <2> DEFINE m == [C!Closed EXCEPT !.open = TRUE, !.hasError = TRUE]
    <2>1. /\ job[j].what = "rotate" /\ modal' = m /\ confirm' = None
          /\ job' = [job EXCEPT ![j] = C!NoJob]
          /\ UNCHANGED <<page, wizard, edit, copied, secrets, seen, saved, overlap>>
      BY <1>7 DEF C!RotateFails, C!secretVars
    <2>2. m \in C!SecretDialogs /\ m.open /\ m.secret = 0
      BY ClosedType DEF C!SecretDialogs, C!Closed
    <2> HIDE DEF m
    <2>3. CreateIsBare' /\ ShowsOneThing'
      BY <2>1, <2>2 DEF ClientInv, CreateIsBare, ShowsOneThing
    <2>4. QED
      BY <1>a, <1>2, <2>1, <2>2, <2>3
  <1>8. QED
    BY <1>3, <1>4, <1>5, <1>6, <1>7

LEMMA ClientInvStep ==
  ASSUME ClientInv, [C!Next]_vars
  PROVE  ClientInv'
  <1>1. CASE UNCHANGED vars
    <2>1. UNCHANGED <<page, wizard, edit, confirm, modal, copied, job, secrets, seen, saved,
                      overlap>>
      BY <1>1 DEF vars
    <2>2. C!TypeOK'
      BY <2>1 DEF ClientInv, C!TypeOK
    <2>3. QED
      BY <2>1, <2>2
      DEF ClientInv, OwnDetails, C!SavesItsOwnFields, CreateIsBare, ShowsOneThing,
          OneTelling, C!SecretIsNotLost, C!Telling
  <1>2. QED
    BY <1>1, EditDialogStep, PageStep, AskSecretStep, SecretRequestStep DEF C!Next

\* The behaviours that are about the client pages keep ClientInv.
ClientsKept == which = "clients" => ClientInv

LEMMA ClientsKeptInit == Init => ClientsKept
  BY ClientInvInit DEF Init, ClientsKept

LEMMA ClientsKeptStep ==
  ASSUME ClientsKept, [Next]_vars
  PROVE  ClientsKept'
  BY ScreenSteps, ClientInvStep DEF ClientsKept

\* For any clients, secrets and unanswered requests the pages keep ClientInv
\* (AppClient.jsx, AppClientModal.jsx).
THEOREM ClientInvariant == Spec => []ClientsKept
  BY ClientsKeptInit, ClientsKeptStep, PTL DEF Spec

\* No new secret leaves the screen unseen, unless requests overlapped
\* (handleRotateSecret and handleCloseSecretModal of AppClient.jsx).
THEOREM SecretsStay == Spec => []SecretIsNotLost
  <1>1. ClientsKept => SecretIsNotLost
    BY DEF ClientsKept, ClientInv, SecretIsNotLost
  <1>2. QED
    BY <1>1, ClientInvariant, PTL

\* The dialog saves a client the fields of that client, whichever details
\* arrive (AppClientModal.jsx).
THEOREM FieldsAreOwn == Spec => []SavesItsOwnFields
  <1>1. ClientsKept => SavesItsOwnFields
    BY DEF ClientsKept, ClientInv, SavesItsOwnFields
  <1>2. QED
    BY <1>1, ClientInvariant, PTL

---------------------------------------------------------------------------
(***************************************************************************)
(* The form that adds a user: the call under way is the only one, and what *)
(* it no longer has to do has been done.                                   *)
(***************************************************************************)
CallRow == [email : Emails \cup {None}, todo : SUBSET A!Parts, made : BOOLEAN,
            wants : SUBSET A!Parts, mine : BOOLEAN]

\* A form past its first step has an address; only such a form asks for the
\* confirmation.
Addressed ==
  /\ form.step = 2 => form.email # None
  /\ confirm => page = "form" /\ form.step = 2

\* Only one call is the form's, which stays on the screen and is busy until
\* it is answered.
OwnCall ==
  /\ \A j \in Jobs : job[j].mine => busy /\ page = "form"
  /\ \A i, j \in Jobs : job[i].mine /\ job[j].mine => i = j

\* What a call no longer has to do has been done for its address.
DoneOrToDo ==
  \A j \in Jobs :
    IF job[j].email = None
    THEN job[j].todo = {}
    ELSE job[j].wants \ job[j].todo \subseteq account[job[j].email]

AddInv == A!TypeOK /\ Addressed /\ OwnCall /\ DoneOrToDo

LEMMA NoCallType == A!NoJob \in CallRow /\ A!NoJob.email = None
                    /\ A!NoJob.todo = {} /\ ~A!NoJob.mine
  BY DEF A!NoJob, CallRow

LEMMA NewFormType == A!NewForm \in A!Forms /\ A!NewForm.step = 1
  BY DEF A!NewForm, A!Forms

LEMMA AddInvInit == A!Init => AddInv
  <1> SUFFICES ASSUME A!Init
               PROVE  AddInv
    OBVIOUS
  <1>1. A!TypeOK
    BY NoCallType, NewFormType DEF A!Init, A!TypeOK, CallRow
  <1>2. Addressed /\ OwnCall /\ DoneOrToDo
    BY NoCallType, NewFormType DEF A!Init, Addressed, OwnCall, DoneOrToDo
  <1>3. QED
    BY <1>1, <1>2 DEF AddInv

\* A step of the form alone.
LEMMA FormStep ==
  ASSUME AddInv, NEW f \in A!Forms, form' = f,
         confirm' \in BOOLEAN,
         f.step = 2 => f.email # None,
         confirm' => page' = "form" /\ f.step = 2,
         UNCHANGED <<page, busy, account, job>>
  PROVE  AddInv'
  <1>1. A!TypeOK'
    BY DEF AddInv, A!TypeOK
  <1>2. Addressed' /\ OwnCall' /\ DoneOrToDo'
    BY DEF AddInv, Addressed, OwnCall, DoneOrToDo
  <1>3. QED
    BY <1>1, <1>2 DEF AddInv

\* A step that sends a call for the form.
LEMMA SendStep ==
  ASSUME AddInv, NEW j \in Jobs, A!Send(j), form.step = 2, page = "form",
         confirm' \in {confirm, FALSE}, UNCHANGED <<page, form, account>>
  PROVE  AddInv'
  <1> DEFINE r == [email |-> form.email, todo |-> A!Wanted, made |-> FALSE,
                   wants |-> A!Wanted, mine |-> TRUE]
  <1>1. /\ r \in CallRow /\ r.email # None /\ r.todo = r.wants
        /\ r.mine /\ job \in [Jobs -> CallRow]
    BY DEF AddInv, A!TypeOK, A!Forms, Addressed, A!Wanted, A!Parts, CallRow
  <1>2. busy' = TRUE /\ ~busy /\ job' = [job EXCEPT ![j] = r]
    BY DEF A!Send, A!MaySubmit
  <1> HIDE DEF r
  <1>3. \A k \in Jobs : job'[k] = IF k = j THEN r ELSE job[k]
    BY <1>1, <1>2
  <1>4. \A k \in Jobs : ~job[k].mine
    BY <1>2 DEF AddInv, OwnCall
  <1>5. A!TypeOK'
    BY <1>1, <1>2 DEF AddInv, A!TypeOK, CallRow
  <1>6. Addressed' /\ OwnCall'
    BY <1>1, <1>2, <1>3, <1>4 DEF AddInv, Addressed, OwnCall
  <1>7. DoneOrToDo'
    BY <1>1, <1>3 DEF AddInv, DoneOrToDo
  <1>8. QED
    BY <1>5, <1>6, <1>7 DEF AddInv

\* A step by which calls are done with or no longer the form's.
LEMMA OverStep ==
  ASSUME AddInv, NEW f \in A!Forms, form' = f,
         page' \in {"form", "list", "away"}, confirm' \in BOOLEAN,
         busy' \in BOOLEAN,
         f.step = 2 => f.email # None,
         confirm' => page' = "form" /\ f.step = 2,
         account' \in [Emails -> SUBSET A!Parts],
         \A e \in Emails : account[e] \subseteq account'[e],
         job' \in [Jobs -> CallRow],
         \A k \in Jobs :
           \/ job'[k] = A!NoJob
           \/ job'[k] = job[k]
           \/ job'[k] = [job[k] EXCEPT !.mine = FALSE],
         \A k \in Jobs : job'[k].mine => job[k].mine /\ busy' /\ page' = "form"
  PROVE  AddInv'
  <1>1. A!TypeOK'
    BY DEF AddInv, A!TypeOK, CallRow
  <1>2. Addressed' /\ OwnCall'
    BY DEF AddInv, Addressed, OwnCall
  <1>3. job \in [Jobs -> CallRow]
    BY DEF AddInv, A!TypeOK, CallRow
  <1>4. ASSUME NEW k \in Jobs
        PROVE  IF job'[k].email = None THEN job'[k].todo = {}
               ELSE job'[k].wants \ job'[k].todo \subseteq account'[job'[k].email]
    <2>1. CASE job'[k] = A!NoJob
      BY <2>1, NoCallType
    <2>2. CASE job'[k] # A!NoJob
      <3>1. job'[k].email = job[k].email /\ job'[k].todo = job[k].todo
            /\ job'[k].wants = job[k].wants /\ job[k].email \in Emails \cup {None}
        BY <1>3, <2>2 DEF CallRow
      <3>2. QED
        BY <3>1 DEF AddInv, DoneOrToDo
    <2>3. QED
      BY <2>1, <2>2
  <1>5. QED
    BY <1>1, <1>2, <1>4 DEF AddInv, DoneOrToDo

\* What is current of the parts to do is one of them.
LEMMA CurrentIsToDo ==
  ASSUME NEW todo \in SUBSET A!Parts, todo # {}
  PROVE  A!Current(todo) \in todo
  BY DEF A!Current, A!Parts

\* Doing a part for an address only adds to what was done.
LEMMA DoneGrows ==
  ASSUME AddInv, NEW e \in Emails, NEW p \in A!Parts
  PROVE  /\ A!Done(e, p) \in [Emails -> SUBSET A!Parts]
         /\ \A d \in Emails : account[d] \subseteq A!Done(e, p)[d]
         /\ p \in A!Done(e, p)[e]
  BY DEF AddInv, A!TypeOK, A!Done

LEMMA AddInvStep ==
  ASSUME AddInv, [A!Next]_vars
  PROVE  AddInv'
  <1>a. /\ page \in {"form", "list", "away"} /\ form \in A!Forms
        /\ confirm \in BOOLEAN /\ busy \in BOOLEAN
        /\ account \in [Emails -> SUBSET A!Parts] /\ job \in [Jobs -> CallRow]
    BY DEF AddInv, A!TypeOK, CallRow
  <1>b. \A k \in Jobs : [job[k] EXCEPT !.mine = FALSE] \in CallRow
                        /\ ~[job[k] EXCEPT !.mine = FALSE].mine
    BY <1>a DEF CallRow
  <1>c. form' = A!NewForm => form' \in A!Forms /\ form'.step # 2
    BY NewFormType
  <1>1. CASE A!OpenForm \/ A!Leave
    <2>1. /\ form' = A!NewForm /\ busy' \in BOOLEAN /\ page' \in {"form", "list", "away"}
          /\ confirm' = FALSE /\ account' = account
      BY <1>a, <1>1 DEF A!OpenForm, A!Leave, A!OnForm, AddInv, Addressed
    <2>2. CASE A!Leave
      <3>1. job' = [k \in Jobs |-> [job[k] EXCEPT !.mine = FALSE]]
        BY <2>2 DEF A!Leave, A!Disowned
      <3>2. job' \in [Jobs -> CallRow] /\ \A k \in Jobs : ~job'[k].mine
        BY <1>b, <3>1
      <3>3. QED
        BY <1>a, <2>1, <3>1, <3>2, <1>c, OverStep
    <2>3. CASE A!OpenForm
      <3>1. job' = job
        BY <2>3 DEF A!OpenForm
      <3>2. \A k \in Jobs : ~job[k].mine
        BY <2>3 DEF A!OpenForm, AddInv, OwnCall
      <3>3. QED
        BY <1>a, <2>1, <3>1, <3>2, <1>c, OverStep
    <2>4. QED
      BY <1>1, <2>2, <2>3
  <1>2. CASE A!TypeEmail \/ A!NextStep \/ A!PreviousStep \/ A!ChooseType
             \/ A!ChooseClients \/ A!ChooseSetup \/ A!TypePassword
    <2>1. /\ UNCHANGED <<page, confirm, busy, account, job>> /\ ~confirm
      BY <1>2 DEF A!TypeEmail, A!NextStep, A!PreviousStep, A!ChooseType, A!ChooseClients,
                  A!ChooseSetup, A!TypePassword, A!Filled, A!OnForm
    <2>2. /\ form' \in A!Forms
          /\ form'.step = 2 => form'.email # None
      <3>1. CASE A!TypeEmail
        BY <1>a, <3>1 DEF A!TypeEmail, A!Filled, A!Forms
      <3>2. CASE A!NextStep \/ A!PreviousStep
        BY <1>a, <3>2 DEF A!NextStep, A!PreviousStep, A!Filled, A!Forms
      <3>3. form.step = 2 => form.email # None
        BY DEF AddInv, Addressed
      <3>4. CASE A!ChooseType
        <4>1. PICK t \in A!Offered :
                form' = [form EXCEPT !.type = t, !.clients = form.clients /\ t = "admin"]
          BY <3>4 DEF A!ChooseType, A!Filled
        <4>2. (form.clients /\ t = "admin") \in BOOLEAN
          OBVIOUS
        <4>3. QED
          BY <1>a, <3>3, <4>1, <4>2 DEF A!Offered, A!Forms
      <3>5. CASE A!ChooseClients \/ A!ChooseSetup \/ A!TypePassword
        BY <1>a, <3>3, <3>5 DEF A!ChooseClients, A!ChooseSetup, A!TypePassword,
                                A!Filled, A!Forms
      <3>6. QED
        BY <1>2, <3>1, <3>2, <3>4, <3>5
    <2>3. QED
      BY <1>a, <2>1, <2>2, FormStep
  <1>3. CASE A!AskInvitation \/ A!CancelInvitation
    <2>1. /\ UNCHANGED <<page, form, busy, account, job>> /\ confirm' \in BOOLEAN
          /\ confirm' => page = "form" /\ form.step = 2
      BY <1>3 DEF A!AskInvitation, A!CancelInvitation, A!OnForm
    <2>2. QED
      BY <1>a, <2>1, FormStep DEF AddInv, Addressed
  <1>4. ASSUME NEW j \in Jobs, A!Submit(j) \/ A!ConfirmInvitation(j)
        PROVE  AddInv'
    <2>1. A!Send(j) /\ form.step = 2 /\ page = "form" /\ confirm' \in {confirm, FALSE}
          /\ UNCHANGED <<page, form, account>>
      BY <1>4 DEF A!Submit, A!ConfirmInvitation, A!OnForm, AddInv, Addressed
    <2>2. QED
      BY <2>1, SendStep
  <1>5. ASSUME NEW j \in Jobs, A!Step(j)
        PROVE  AddInv'
    <2> DEFINE e == job[j].email
               p == A!Current(job[j].todo)
               r == [job[j] EXCEPT !.todo = job[j].todo \ {p}, !.made = TRUE]
    <2>1. e \in Emails /\ p \in job[j].todo /\ p \in A!Parts
      BY <1>a, <1>5, CurrentIsToDo DEF A!Step, AddInv, DoneOrToDo, CallRow
    <2>2. /\ r \in CallRow /\ r.email = e /\ r.wants = job[j].wants
          /\ r.todo = job[j].todo \ {p} /\ r.mine = job[j].mine
      BY <1>a DEF CallRow
    <2>3. /\ account' = A!Done(e, p) /\ job' = [job EXCEPT ![j] = r]
          /\ UNCHANGED <<page, form, confirm, busy>>
      BY <1>5 DEF A!Step
    <2> HIDE DEF e, p, r
    <2>4. \A k \in Jobs : job'[k] = IF k = j THEN r ELSE job[k]
      BY <1>a, <2>3
    <2>5. A!TypeOK'
      BY <1>a, <2>1, <2>2, <2>3, DoneGrows DEF A!TypeOK, CallRow
    <2>6. Addressed' /\ OwnCall'
      BY <2>2, <2>3, <2>4 DEF AddInv, Addressed, OwnCall
    <2>7. r.wants \ r.todo \subseteq account'[e]
      <3>1. r.wants \ r.todo \subseteq (job[j].wants \ job[j].todo) \cup {p}
        BY <2>2
      <3>2. job[j].wants \ job[j].todo \subseteq account[e]
        BY <2>1, ConsoleAssumption DEF AddInv, DoneOrToDo, e
      <3>3. QED
        BY <2>1, <2>3, <3>1, <3>2, DoneGrows
    <2>8. DoneOrToDo'
      <3>1. ASSUME NEW k \in Jobs, k # j
            PROVE  IF job[k].email = None THEN job[k].todo = {}
                   ELSE job[k].wants \ job[k].todo \subseteq account'[job[k].email]
        <4>1. job[k].email \in Emails \cup {None}
          BY <1>a DEF CallRow
        <4>2. QED
          BY <2>1, <2>3, <4>1, DoneGrows DEF AddInv, DoneOrToDo
      <3>2. e # None
        BY <2>1, ConsoleAssumption
      <3>3. QED
        BY <2>2, <2>4, <2>7, <3>1, <3>2 DEF DoneOrToDo
    <2>9. QED
      BY <2>5, <2>6, <2>8 DEF AddInv
  <1>6. ASSUME NEW j \in Jobs, A!Success(j)
        PROVE  AddInv'
    <2>1. /\ page' = "list" /\ form' = A!NewForm /\ confirm' = FALSE
          /\ busy' \in BOOLEAN /\ account' = account
          /\ job' = [[k \in Jobs |-> [job[k] EXCEPT !.mine = FALSE]] EXCEPT ![j] = A!NoJob]
      BY <1>6 DEF A!Success, A!Disowned
    <2>2. \A k \in Jobs : job'[k] = IF k = j THEN A!NoJob
                                    ELSE [job[k] EXCEPT !.mine = FALSE]
      BY <2>1
    <2>3. job' \in [Jobs -> CallRow]
      BY <1>b, <2>1, NoCallType
    <2>4. \A k \in Jobs : ~job'[k].mine
      BY <1>b, <2>2, NoCallType
    <2>5. \A k \in Jobs : \/ job'[k] = A!NoJob
                         \/ job'[k] = job[k]
                         \/ job'[k] = [job[k] EXCEPT !.mine = FALSE]
      BY <2>2
    <2>6. QED
      BY <1>a, <2>1, <2>3, <2>4, <2>5, <1>c, OverStep
  <1>7. ASSUME NEW j \in Jobs, A!Failure(j)
        PROVE  AddInv'
    <2> DEFINE e == job[j].email
               p == A!Current(job[j].todo)
    <2>1. e \in Emails /\ p \in A!Parts
      BY <1>a, <1>7, CurrentIsToDo DEF A!Failure, AddInv, DoneOrToDo, CallRow
    <2>2. /\ account' \in {account, A!Done(e, p)}
          /\ job' = [job EXCEPT ![j] = A!NoJob]
          /\ busy' = (busy /\ ~job[j].mine)
          /\ UNCHANGED <<page, form, confirm>>
      BY <1>7 DEF A!Failure, A!AfterError
    <2> HIDE DEF e, p
    <2>3. /\ account' \in [Emails -> SUBSET A!Parts]
          /\ \A d \in Emails : account[d] \subseteq account'[d]
      BY <1>a, <2>1, <2>2, DoneGrows
    <2>4. /\ job' \in [Jobs -> CallRow]
          /\ \A k \in Jobs : job'[k] = IF k = j THEN A!NoJob ELSE job[k]
      BY <1>a, <2>2, NoCallType
    <2>5. \A k \in Jobs : job'[k].mine => job[k].mine /\ busy' /\ page' = "form"
      BY <2>2, <2>4, NoCallType DEF AddInv, OwnCall
    <2>6. busy' \in BOOLEAN
      BY <2>2
    <2>7. QED
      BY <1>a, <2>2, <2>3, <2>4, <2>5, <2>6, OverStep DEF AddInv, Addressed
  <1>8. CASE UNCHANGED vars
    BY <1>a, <1>8, FormStep DEF vars, AddInv, Addressed
  <1>9. QED
    BY <1>1, <1>2, <1>3, <1>4, <1>5, <1>6, <1>7, <1>8 DEF A!Next

LEMMA AddInvSuffices ==
  ASSUME AddInv
  PROVE  A!ReportedComplete /\ A!OneCall
  <1>1. A!ReportedComplete
    BY DEF AddInv, DoneOrToDo, A!ReportedComplete, A!Succeeded, A!Idle
  <1>2. A!OneCall
    <2> DEFINE S == {j \in Jobs : job[j].mine}
    <2>1. ASSUME NEW i \in S, NEW j \in S
          PROVE  i = j
      BY DEF AddInv, OwnCall
    <2> HIDE DEF S
    <2>2. \A i \in S : S = {i}
      BY <2>1
    <2>3. Cardinality(S) <= 1
      BY <2>2, FS_EmptySet, FS_Singleton
    <2>4. A!Cardinality(S) = Cardinality(S)
      BY DEF A!Cardinality, Cardinality
    <2>5. QED
      BY <2>3, <2>4 DEF A!OneCall, S
  <1>3. QED
    BY <1>1, <1>2

\* The behaviours that are about the form keep AddInv.
AdditionsKept == which = "addUser" => AddInv

LEMMA AdditionsKeptInit == Init => AdditionsKept
  BY AddInvInit DEF Init, AdditionsKept

LEMMA AdditionsKeptStep ==
  ASSUME AdditionsKept, [Next]_vars
  PROVE  AdditionsKept'
  BY ScreenSteps, AddInvStep DEF AdditionsKept

\* For any addresses and unanswered calls the form keeps AddInv
\* (AddUserForm.jsx, useUsers.js).
THEOREM AddInvariant == Spec => []AdditionsKept
  BY AdditionsKeptInit, AdditionsKeptStep, PTL DEF Spec

\* A user reported created has all that was asked for (createUser of
\* useUsers.js).
THEOREM CompleteHolds == Spec => []ReportedComplete
  <1>1. AdditionsKept => ReportedComplete
    BY AddInvSuffices DEF AdditionsKept, ReportedComplete
  <1>2. QED
    BY <1>1, AddInvariant, PTL

---------------------------------------------------------------------------
(***************************************************************************)
(* The user pages: the dialog is about the user of its row, starts from    *)
(* what the server has, and a save does all that differs from it, unless   *)
(* saves crossed or an answer was lost.                                    *)
(***************************************************************************)
UserDialog == [open : BOOLEAN, row : Users \cup {None}, of : Users \cup {None},
               form : SUBSET Fields, base : SUBSET Fields,
               busy : BOOLEAN, loading : BOOLEAN]
CodeDialog == [open : BOOLEAN, busy : BOOLEAN]
Invitation == [user : Users \cup {None}, sending : BOOLEAN]
AskRow  == [st : {"none", "sent", "read"}, got : SUBSET Fields]
SaveRow == [user : Users \cup {None}, form : SUBSET Fields, todo : SUBSET Fields,
            done : SUBSET Fields, code : BOOLEAN]
KeptRow == [of : SUBSET U!Selections, on : SUBSET U!Selections]

\* No save under way has changed anything; a dialog or a save is about a user.
Blank == \A s \in Saves : save[s].done = {}
Live  == dlg.open \/ mfa.open \/ \E s \in Saves : save[s].user # None

\* The dialog shows the user of its row, and a save cannot begin without one.
OfTheRow == dlg.of = dlg.row /\ (Live => dlg.of # None)

IdleIsBlank == \A s \in Saves : save[s].user = None => save[s].done = {} /\ save[s].todo = {}

\* The selections kept by the page are the server's, unless an answer was lost.
KeptIsStored == "lost" \notin slips => \A u \in Users : kept[u].on = db[u] \cap kept[u].of

\* Unless saves crossed, there is one.
OneSave ==
  "crossed" \notin slips =>
    \A s, t \in Saves : save[s].user # None /\ save[t].user # None => s = t

\* The list shows the server's users while no save has changed one.
ListIsStored == slips \subseteq {"partial"} /\ Blank => row = db

\* Details that were read, and those the dialog started from, are the server's.
DetailsAreStored == slips = {} => \A u \in Users : ask[u].st = "read" => ask[u].got = db[u]
BaseIsStored == slips = {} /\ Blank /\ Live => dlg.base = db[dlg.of]

\* Over a save without a code no code is asked for.
CodeGoesFirst ==
  slips = {} => \A s \in Saves : save[s].user # None /\ ~save[s].code => ~mfa.open

\* A save still has to send every field in which the server's user differs.
TodoIsTheRest ==
  slips = {} =>
    \A s \in Saves : save[s].user # None =>
      U!Differing(save[s].user, save[s].form, db[save[s].user]) \subseteq save[s].todo

UserInv ==
  /\ U!TypeOK
  /\ OfTheRow /\ IdleIsBlank /\ KeptIsStored /\ OneSave /\ ListIsStored
  /\ DetailsAreStored /\ BaseIsStored /\ CodeGoesFirst /\ TodoIsTheRest

LEMMA UserTypes ==
  ASSUME UserInv
  PROVE  /\ db \in [Users -> SUBSET Fields] /\ row \in [Users -> SUBSET Fields]
         /\ kept \in [Users -> KeptRow] /\ dlg \in UserDialog /\ mfa \in CodeDialog
         /\ invite \in Invitation /\ ask \in [Users -> AskRow]
         /\ save \in [Saves -> SaveRow] /\ begun \in 0..MaxSaves
         /\ slips \subseteq {"lost", "crossed", "partial", "unlisted"}
  BY DEF UserInv, U!TypeOK, U!People, KeptRow, UserDialog, CodeDialog, Invitation, AskRow,
         SaveRow

LEMMA BlankTypes ==
  /\ U!NoSave \in SaveRow /\ U!NoSave.user = None /\ U!NoSave.done = {} /\ U!NoSave.todo = {}
  /\ U!NoAsk \in AskRow /\ U!NoAsk.st = "none"
  /\ U!NoDialog \in UserDialog /\ U!NoDialog.of = None /\ U!NoDialog.row = None
  /\ ~U!NoDialog.open /\ ~U!NoDialog.loading
  /\ U!NoCode \in CodeDialog /\ ~U!NoCode.open
  /\ U!NoInvite \in Invitation
  BY DEF U!NoSave, SaveRow, U!NoAsk, AskRow, U!NoDialog, UserDialog, U!NoCode, CodeDialog,
         U!NoInvite, Invitation

LEMMA UserInvInit == U!Init => UserInv
  <1> SUFFICES ASSUME U!Init
               PROVE  UserInv
    OBVIOUS
  <1>1. U!TypeOK
    <2>1. begun \in 0..MaxSaves
      BY ConsoleAssumption DEF U!Init
    <2>2. kept \in [Users -> KeptRow]
      BY DEF U!Init, KeptRow
    <2>3. QED
      BY <2>1, <2>2, BlankTypes
      DEF U!Init, U!TypeOK, U!People, KeptRow, UserDialog, CodeDialog, Invitation, AskRow,
          SaveRow
  <1>2. /\ \A s \in Saves : save[s] = U!NoSave
        /\ \A u \in Users : ask[u] = U!NoAsk /\ kept[u].of = {} /\ kept[u].on = {}
        /\ row = db /\ dlg = U!NoDialog /\ mfa = U!NoCode
    BY DEF U!Init
  <1>3. QED
    BY <1>1, <1>2, BlankTypes
    DEF UserInv, OfTheRow, IdleIsBlank, KeptIsStored, OneSave, ListIsStored,
        DetailsAreStored, BaseIsStored, CodeGoesFirst, TodoIsTheRest, Blank, Live

\* A step of the dialogs and of the requests for details.
LEMMA UserDialogStep ==
  ASSUME UserInv, UNCHANGED <<db, row, kept, save, begun, slips>>,
         dlg' \in UserDialog, mfa' \in CodeDialog, invite' \in Invitation,
         ask' \in [Users -> AskRow],
         mfa'.open => mfa.open,
         OfTheRow', DetailsAreStored', BaseIsStored'
  PROVE  UserInv'
  <1>1. U!TypeOK'
    BY DEF UserInv, U!TypeOK, U!People, UserDialog, CodeDialog, Invitation, AskRow
  <1>2. IdleIsBlank' /\ KeptIsStored' /\ OneSave' /\ ListIsStored'
    BY DEF UserInv, IdleIsBlank, KeptIsStored, OneSave, ListIsStored, Blank
  <1>3. CodeGoesFirst' /\ TodoIsTheRest'
    BY DEF UserInv, CodeGoesFirst, TodoIsTheRest
  <1>4. QED
    BY <1>1, <1>2, <1>3 DEF UserInv

\* Such a step that leaves the dialog its user.
LEMMA SameUserStep ==
  ASSUME UserInv, UNCHANGED <<db, row, kept, save, begun, slips>>,
         dlg' \in UserDialog, mfa' \in CodeDialog, invite' \in Invitation,
         ask' \in [Users -> AskRow],
         mfa'.open => mfa.open,
         dlg'.open => dlg.open,
         dlg'.of = dlg.of, dlg'.row = dlg.row, dlg'.base = dlg.base,
         DetailsAreStored'
  PROVE  UserInv'
  <1>1. Live' => Live
    BY DEF Live
  <1>2. OfTheRow' /\ BaseIsStored'
    BY <1>1 DEF UserInv, OfTheRow, BaseIsStored, Blank
  <1>3. QED
    BY <1>2, UserDialogStep

\* What the page's own selections hide is the server's as well.
LEMMA OverlaidIsStored ==
  ASSUME UserInv, "lost" \notin slips, NEW u \in Users
  PROVE  U!Overlaid(u, db[u]) = db[u]
  BY DEF UserInv, KeptIsStored, U!Overlaid

LEMMA OpeningStep ==
  ASSUME UserInv, NEW u \in Users,
         U!OpenDialog(u) \/ U!ReadDetails(u) \/ U!DetailsAnswer(u) \/ U!DetailsFail(u)
  PROVE  UserInv'
  <1>a. /\ db \in [Users -> SUBSET Fields] /\ row \in [Users -> SUBSET Fields]
        /\ kept \in [Users -> KeptRow] /\ dlg \in UserDialog /\ mfa \in CodeDialog
        /\ invite \in Invitation /\ ask \in [Users -> AskRow]
    BY UserTypes
  <1>b. u # None
    BY ConsoleAssumption
  <1>1. CASE U!OpenDialog(u)
    <2> DEFINE d == [open |-> TRUE, row |-> u, of |-> u, form |-> row[u], base |-> row[u],
                     busy |-> FALSE, loading |-> TRUE]
               a == IF ask[u] = U!NoAsk THEN [U!NoAsk EXCEPT !.st = "sent"] ELSE ask[u]
    <2>1. /\ dlg' = d /\ ask' = [ask EXCEPT ![u] = a]
          /\ UNCHANGED <<db, row, kept, mfa, invite, save, begun, slips>>
      BY <1>1 DEF U!OpenDialog
    <2>2. d \in UserDialog /\ d.of = u /\ d.row = u /\ d.base = row[u]
      BY <1>a DEF UserDialog
    <2>3. a \in AskRow /\ (a.st = "read" => a = ask[u])
      <3>1. [U!NoAsk EXCEPT !.st = "sent"] \in AskRow
            /\ [U!NoAsk EXCEPT !.st = "sent"].st = "sent"
        BY DEF U!NoAsk, AskRow
      <3>2. QED
        BY <1>a, <3>1
    <2> HIDE DEF d, a
    <2>4. /\ ask' \in [Users -> AskRow]
          /\ \A v \in Users : ask'[v] = IF v = u THEN a ELSE ask[v]
      BY <1>a, <2>1, <2>3
    <2>5. DetailsAreStored'
      BY <2>1, <2>3, <2>4 DEF UserInv, DetailsAreStored
    <2>6. OfTheRow'
      BY <1>b, <2>1, <2>2 DEF OfTheRow
    <2>7. BaseIsStored'
      BY <2>1, <2>2 DEF UserInv, BaseIsStored, ListIsStored, Blank
    <2>8. QED
      BY <1>a, <2>1, <2>2, <2>4, <2>5, <2>6, <2>7, UserDialogStep
  <1>2. CASE U!ReadDetails(u)
    <2> DEFINE a == [st |-> "read", got |-> db[u]]
    <2>1. /\ ask' = [ask EXCEPT ![u] = a]
          /\ UNCHANGED <<db, row, kept, dlg, mfa, invite, save, begun, slips>>
      BY <1>2 DEF U!ReadDetails
    <2>2. a \in AskRow /\ a.got = db[u]
      BY <1>a DEF AskRow
    <2> HIDE DEF a
    <2>3. /\ ask' \in [Users -> AskRow]
          /\ \A v \in Users : ask'[v] = IF v = u THEN a ELSE ask[v]
      BY <1>a, <2>1, <2>2
    <2>4. DetailsAreStored'
      BY <2>1, <2>2, <2>3 DEF UserInv, DetailsAreStored
    <2>5. QED
      BY <1>a, <2>1, <2>3, <2>4, SameUserStep
  <1>3. ASSUME ask' = [ask EXCEPT ![u] = U!NoAsk], UNCHANGED <<db, slips>>
        PROVE  ask' \in [Users -> AskRow] /\ DetailsAreStored'
    <2>1. /\ ask' \in [Users -> AskRow]
          /\ \A v \in Users : ask'[v] = IF v = u THEN U!NoAsk ELSE ask[v]
      BY <1>a, <1>3, BlankTypes
    <2>2. QED
      BY <1>3, <2>1, BlankTypes DEF UserInv, DetailsAreStored
  <1>4. CASE U!DetailsFail(u)
    <2> DEFINE b == dlg.loading /\ ~U!Heard(u)
    <2>1. /\ dlg' = [dlg EXCEPT !.loading = b] /\ ask' = [ask EXCEPT ![u] = U!NoAsk]
          /\ UNCHANGED <<db, row, kept, mfa, invite, save, begun, slips>>
      BY <1>4 DEF U!DetailsFail
    <2>2. b \in BOOLEAN
      OBVIOUS
    <2> HIDE DEF b
    <2>3. /\ dlg' \in UserDialog /\ dlg'.open = dlg.open /\ dlg'.of = dlg.of
          /\ dlg'.row = dlg.row /\ dlg'.base = dlg.base
      BY <1>a, <2>1, <2>2 DEF UserDialog
    <2>4. QED
      BY <1>a, <1>3, <2>1, <2>3, SameUserStep
  <1>5. CASE U!DetailsAnswer(u) /\ ~U!Heard(u)
    <2>1. /\ ask' = [ask EXCEPT ![u] = U!NoAsk]
          /\ UNCHANGED <<db, row, kept, dlg, mfa, invite, save, begun, slips>>
      BY <1>5 DEF U!DetailsAnswer
    <2>2. QED
      BY <1>a, <1>3, <2>1, SameUserStep
  <1>6. CASE U!DetailsAnswer(u) /\ U!Heard(u)
    <2> DEFINE got == U!Overlaid(u, ask[u].got)
    <2>1. /\ ask[u].st = "read" /\ dlg.row = u
          /\ ask' = [ask EXCEPT ![u] = U!NoAsk]
          /\ mfa' = IF dlg.open THEN U!NoCode ELSE mfa
          /\ UNCHANGED <<db, row, kept, invite, save, begun, slips>>
      BY <1>6 DEF U!DetailsAnswer, U!Heard
    <2>2. got \in SUBSET Fields
      BY <1>a DEF U!Overlaid, AskRow, KeptRow, U!Selections
    <2>3. slips = {} => got = db[u]
      BY <2>1, OverlaidIsStored DEF UserInv, DetailsAreStored
    <2> DEFINE b == dlg.busy /\ ~dlg.open
               f == IF dlg.open THEN got ELSE dlg.form
               base == IF dlg.open THEN got ELSE dlg.base
    <2>4. dlg' = [dlg EXCEPT !.of = u, !.loading = FALSE, !.form = f, !.base = base,
                             !.busy = b]
      BY <1>6 DEF U!DetailsAnswer
    <2>5. b \in BOOLEAN
      OBVIOUS
    <2>6. f \in SUBSET Fields /\ base \in SUBSET Fields
      BY <1>a, <2>2 DEF UserDialog
    <2>7. \/ base = dlg.base /\ ~dlg.open
          \/ base = got /\ dlg.open
      BY <1>a DEF UserDialog
    <2> HIDE DEF got, b, f, base
    <2>8. /\ dlg' \in UserDialog /\ dlg'.of = u /\ dlg'.row = u /\ dlg'.base = base
          /\ dlg'.open = dlg.open
      BY <1>a, <2>1, <2>4, <2>5, <2>6 DEF UserDialog
    <2>9. mfa' \in CodeDialog /\ (mfa'.open => mfa.open)
      BY <1>a, <2>1, BlankTypes
    <2>10. OfTheRow'
      BY <1>b, <2>8 DEF OfTheRow
    <2>11. BaseIsStored'
      <3>1. dlg.of = u
        BY <2>1 DEF UserInv, OfTheRow
      <3>2. CASE dlg.open
        BY <2>1, <2>3, <2>7, <2>8, <3>2 DEF BaseIsStored
      <3>3. CASE ~dlg.open
        <4>1. Live' => Live
          BY <2>1, <2>8, <2>9 DEF Live
        <4>2. QED
          BY <2>1, <2>7, <2>8, <3>1, <3>3, <4>1 DEF UserInv, BaseIsStored, Blank
      <3>4. QED
        BY <3>2, <3>3
    <2>12. QED
      BY <1>3, <1>a, <2>1, <2>8, <2>9, <2>10, <2>11, UserDialogStep
  <1>7. QED
    BY <1>1, <1>2, <1>4, <1>5, <1>6

LEMMA OtherDialogStep ==
  ASSUME UserInv, \/ U!CloseDialog \/ U!CancelCode
                  \/ U!AskReinvite \/ U!CancelReinvite \/ U!ConfirmReinvite \/ U!ReinviteEnds
                  \/ \E f \in Fields : U!Change(f)
  PROVE  UserInv'
  <1>a. /\ dlg \in UserDialog /\ mfa \in CodeDialog /\ invite \in Invitation
        /\ ask \in [Users -> AskRow]
    BY UserTypes
  <1>1. UNCHANGED <<db, row, kept, ask, save, begun, slips>>
    BY DEF U!CloseDialog, U!CancelCode, U!AskReinvite, U!CancelReinvite,
           U!ConfirmReinvite, U!ReinviteEnds, U!Change
  <1>2. DetailsAreStored'
    BY <1>1 DEF UserInv, DetailsAreStored
  <1>3. ASSUME dlg' \in UserDialog, mfa' \in CodeDialog, invite' \in Invitation,
               mfa'.open => mfa.open, dlg'.open => dlg.open,
               dlg'.of = dlg.of, dlg'.row = dlg.row, dlg'.base = dlg.base
        PROVE  UserInv'
    BY <1>a, <1>1, <1>2, <1>3, SameUserStep
  <1>4. CASE U!CloseDialog \/ U!ReinviteEnds
    <2>1. mfa' = mfa /\ invite' \in {invite, U!NoInvite}
          /\ dlg' \in {[dlg EXCEPT !.open = FALSE, !.loading = FALSE],
                       [dlg EXCEPT !.open = FALSE]}
      BY <1>4 DEF U!CloseDialog, U!ReinviteEnds, U!Dismissed
    <2>2. /\ dlg' \in UserDialog /\ ~dlg'.open /\ dlg'.of = dlg.of
          /\ dlg'.row = dlg.row /\ dlg'.base = dlg.base
      <3>1. CASE dlg' = [dlg EXCEPT !.open = FALSE, !.loading = FALSE]
        BY <1>a, <3>1 DEF UserDialog
      <3>2. CASE dlg' = [dlg EXCEPT !.open = FALSE]
        BY <1>a, <3>2 DEF UserDialog
      <3>3. QED
        BY <2>1, <3>1, <3>2
    <2>3. QED
      BY <1>a, <1>3, <2>1, <2>2, BlankTypes
  <1>5. CASE U!CancelCode
    BY <1>a, <1>3, <1>5, BlankTypes DEF U!CancelCode
  <1>6. CASE U!AskReinvite \/ U!CancelReinvite \/ U!ConfirmReinvite
    <2>1. UNCHANGED <<dlg, mfa>>
      BY <1>6 DEF U!AskReinvite, U!CancelReinvite, U!ConfirmReinvite
    <2>2. invite' \in Invitation
      <3>1. CASE U!AskReinvite
        BY <1>a, <3>1 DEF U!AskReinvite, Invitation, UserDialog
      <3>2. CASE U!CancelReinvite
        BY <3>2, BlankTypes DEF U!CancelReinvite
      <3>3. CASE U!ConfirmReinvite
        BY <1>a, <3>3 DEF U!ConfirmReinvite, Invitation
      <3>4. QED
        BY <1>6, <3>1, <3>2, <3>3
    <2>3. QED
      BY <1>a, <1>3, <2>1, <2>2
  <1>7. ASSUME NEW f \in Fields, U!Change(f)
        PROVE  UserInv'
    <2> DEFINE g == IF f \in dlg.form THEN dlg.form \ {f} ELSE dlg.form \cup {f}
    <2>1. UNCHANGED <<mfa, invite>> /\ dlg' = [dlg EXCEPT !.form = g]
      BY <1>7 DEF U!Change
    <2>2. g \in SUBSET Fields
      BY <1>a DEF UserDialog
    <2> HIDE DEF g
    <2>3. /\ dlg' \in UserDialog /\ dlg'.open = dlg.open /\ dlg'.of = dlg.of
          /\ dlg'.row = dlg.row /\ dlg'.base = dlg.base
      BY <1>a, <2>1, <2>2 DEF UserDialog
    <2>4. QED
      BY <1>a, <1>3, <2>1, <2>3
  <1>8. QED
    BY <1>4, <1>5, <1>6, <1>7

---------------------------------------------------------------------------
LEMMA SavingBegins ==
  ASSUME UserInv, NEW s \in Saves, U!Submit(s) \/ U!VerifyCode(s)
  PROVE  UserInv'
  <1>a. /\ db \in [Users -> SUBSET Fields] /\ dlg \in UserDialog /\ mfa \in CodeDialog
        /\ save \in [Saves -> SaveRow] /\ begun \in 0..MaxSaves
        /\ slips \subseteq {"lost", "crossed", "partial", "unlisted"}
    BY UserTypes
  <1>b. PICK code \in BOOLEAN :
          /\ U!Started(s, code) /\ (~code => ~mfa.open)
          /\ slips' = slips \cup U!Crossing
          /\ UNCHANGED <<db, row, kept, invite, ask>>
          /\ dlg.open \/ mfa.open
          /\ \/ dlg' = dlg /\ mfa' = [mfa EXCEPT !.busy = TRUE]
             \/ dlg' = [dlg EXCEPT !.busy = TRUE] /\ mfa' = mfa
    BY DEF U!Submit, U!VerifyCode, U!Uncovered
  <1> DEFINE todo == U!Differing(dlg.of, dlg.form, dlg.base)
             r == [user |-> dlg.of, form |-> dlg.form, todo |-> todo, done |-> {},
                   code |-> code]
  <1>1. /\ save[s].user = None /\ begun < MaxSaves /\ begun' = begun + 1
        /\ save' = [save EXCEPT ![s] = r]
    BY <1>b DEF U!Started, U!Idle
  <1>2. /\ r \in SaveRow /\ r.user = dlg.of /\ r.form = dlg.form /\ r.done = {}
        /\ r.code = code
        /\ r.todo = U!Differing(dlg.of, dlg.form, dlg.base)
    <2>1. todo \in SUBSET Fields
      BY DEF U!Differing
    <2> HIDE DEF todo
    <2>2. r \in SaveRow /\ r.todo = todo
      BY <1>a, <2>1 DEF SaveRow, UserDialog
    <2>3. QED
      BY <2>2 DEF todo
  <1>3. dlg.of # None /\ Live
    BY <1>b DEF UserInv, OfTheRow, Live
  <1> HIDE DEF r, todo
  <1>4. /\ save' \in [Saves -> SaveRow]
        /\ \A t \in Saves : save'[t] = IF t = s THEN r ELSE save[t]
    BY <1>a, <1>1, <1>2
  <1>5. /\ dlg' \in UserDialog /\ dlg'.open = dlg.open /\ dlg'.of = dlg.of
        /\ dlg'.row = dlg.row /\ dlg'.base = dlg.base
        /\ mfa' \in CodeDialog /\ mfa'.open = mfa.open
    <2>1. /\ [dlg EXCEPT !.busy = TRUE] \in UserDialog
          /\ [dlg EXCEPT !.busy = TRUE].open = dlg.open
          /\ [dlg EXCEPT !.busy = TRUE].of = dlg.of
          /\ [dlg EXCEPT !.busy = TRUE].row = dlg.row
          /\ [dlg EXCEPT !.busy = TRUE].base = dlg.base
      BY <1>a DEF UserDialog
    <2>2. [mfa EXCEPT !.busy = TRUE] \in CodeDialog
          /\ [mfa EXCEPT !.busy = TRUE].open = mfa.open
      BY <1>a DEF CodeDialog
    <2>3. QED
      BY <1>a, <1>b, <2>1, <2>2
  <1>6. U!Crossing \in {{}, {"crossed"}}
        /\ ("crossed" \notin slips' => \A t \in Saves : save[t].user = None)
    BY <1>b DEF U!Crossing, U!Idle
  <1>7. slips \subseteq slips' /\ slips' \subseteq {"lost", "crossed", "partial", "unlisted"}
    BY <1>a, <1>b, <1>6
  <1>8. U!TypeOK'
    <2>1. begun' \in 0..MaxSaves
      BY <1>a, <1>1, ConsoleAssumption
    <2>2. QED
      BY <1>b, <1>4, <1>5, <1>7, <2>1
      DEF UserInv, U!TypeOK, U!People, UserDialog, CodeDialog, SaveRow
  <1>9. OfTheRow'
    BY <1>3, <1>5 DEF UserInv, OfTheRow
  <1>10. IdleIsBlank' /\ KeptIsStored'
    BY <1>b, <1>2, <1>3, <1>4, <1>7 DEF UserInv, IdleIsBlank, KeptIsStored
  <1>11. OneSave'
    BY <1>4, <1>6 DEF OneSave
  <1>12. Blank' => Blank
    BY <1>1, <1>4 DEF Blank, UserInv, IdleIsBlank
  <1>13. ListIsStored' /\ DetailsAreStored' /\ BaseIsStored'
    <2>1. ListIsStored'
      BY <1>b, <1>7, <1>12 DEF UserInv, ListIsStored
    <2>2. DetailsAreStored'
      BY <1>b, <1>7 DEF UserInv, DetailsAreStored
    <2>3. BaseIsStored'
      BY <1>b, <1>3, <1>5, <1>7, <1>12 DEF UserInv, BaseIsStored
    <2>4. QED
      BY <2>1, <2>2, <2>3
  <1>14. CodeGoesFirst'
    BY <1>b, <1>2, <1>4, <1>5, <1>6 DEF CodeGoesFirst
  <1>15. TodoIsTheRest'
    <2>1. ASSUME slips' = {}
          PROVE  \A t \in Saves : save[t].user = None
      BY <1>6, <2>1
    <2>2. ASSUME slips' = {}
          PROVE  dlg.base = db[dlg.of]
      <3>1. Blank
        BY <2>1, <2>2 DEF UserInv, IdleIsBlank, Blank
      <3>2. QED
        BY <1>3, <1>7, <2>2, <3>1 DEF UserInv, BaseIsStored
    <2>3. QED
      BY <1>b, <1>2, <1>4, <2>1, <2>2 DEF TodoIsTheRest
  <1>16. QED
    BY <1>8, <1>9, <1>10, <1>11, <1>13, <1>14, <1>15 DEF UserInv

LEMMA SavingGoesOn ==
  ASSUME UserInv, NEW s \in Saves, U!SaveStep(s)
  PROVE  UserInv'
  <1> DEFINE u == save[s].user
             form1 == save[s].form
             q == U!Current(save[s].todo)
             own == q \cap U!Selections
             r == [save[s] EXCEPT !.todo = save[s].todo \ q, !.done = save[s].done \cup q]
             k == [of |-> kept[u].of \cup own, on |-> U!With(kept[u].on, form1, own)]
  <1>a. /\ db \in [Users -> SUBSET Fields] /\ kept \in [Users -> KeptRow]
        /\ save \in [Saves -> SaveRow]
        /\ slips \subseteq {"lost", "crossed", "partial", "unlisted"}
    BY UserTypes
  <1>1. /\ save[s].todo # {}
        /\ db' = [db EXCEPT ![u] = U!With(db[u], form1, q)]
        /\ save' = [save EXCEPT ![s] = r]
        /\ kept' = [kept EXCEPT ![u] = k]
        /\ slips' = slips \cup U!CrossingDetails(u)
        /\ UNCHANGED <<row, dlg, mfa, invite, ask, begun>>
    BY DEF U!SaveStep, U!Committed, U!Rest, U!Selected
  <1>2. u \in Users /\ q \subseteq save[s].todo /\ form1 \subseteq Fields
    <2>1. u # None
      BY <1>1 DEF UserInv, IdleIsBlank
    <2>2. save[s] \in SaveRow
      BY <1>a
    <2>3. q \subseteq save[s].todo
      BY DEF U!Current
    <2>4. QED
      BY <2>1, <2>2, <2>3 DEF SaveRow
  <1>3. u # None
    BY <1>2, ConsoleAssumption
  <1>4. q \subseteq Fields /\ save[s] \in SaveRow
    BY <1>a, <1>2 DEF SaveRow
  <1>5. /\ r \in SaveRow /\ r.user = u /\ r.form = form1 /\ r.todo = save[s].todo \ q
        /\ r.done = save[s].done \cup q /\ r.code = save[s].code
    BY <1>4 DEF SaveRow
  <1>6. /\ k \in KeptRow /\ k.of = kept[u].of \cup own
        /\ k.on = U!With(kept[u].on, form1, own)
    <2>1. kept[u] \in KeptRow
      BY <1>a, <1>2
    <2>2. kept[u].of \subseteq U!Selections /\ kept[u].on \subseteq U!Selections
      BY <2>1 DEF KeptRow
    <2>3. own \subseteq U!Selections
      OBVIOUS
    <2>4. U!With(kept[u].on, form1, own) \subseteq U!Selections
      BY <2>2 DEF U!With
    <2> HIDE DEF own
    <2>5. QED
      BY <2>2, <2>3, <2>4 DEF KeptRow
  <1> HIDE DEF u, form1, q, r, k
  <1>7. /\ save' \in [Saves -> SaveRow]
        /\ \A t \in Saves : save'[t] = IF t = s THEN r ELSE save[t]
    BY <1>a, <1>1, <1>5
  <1>8. /\ db' \in [Users -> SUBSET Fields]
        /\ \A v \in Users : db'[v] = IF v = u THEN U!With(db[u], form1, q) ELSE db[v]
    <2>1. U!With(db[u], form1, q) \in SUBSET Fields
      BY <1>a, <1>2 DEF U!With
    <2>2. QED
      BY <1>a, <1>1, <2>1
  <1>9. /\ kept' \in [Users -> KeptRow]
        /\ \A v \in Users : kept'[v] = IF v = u THEN k ELSE kept[v]
    BY <1>a, <1>1, <1>6
  <1>10. slips \subseteq slips' /\ slips' \subseteq {"lost", "crossed", "partial", "unlisted"}
         /\ ("lost" \in slips' <=> "lost" \in slips)
         /\ (slips' = {} => ask[u].st # "read")
    BY <1>a, <1>1 DEF U!CrossingDetails
  <1>11. U!TypeOK'
    BY <1>1, <1>7, <1>8, <1>9, <1>10 DEF UserInv, U!TypeOK, U!People, KeptRow, SaveRow
  <1>12. OfTheRow'
    <2>1. Live' => Live
      BY <1>1, <1>5, <1>7 DEF Live, u
    <2>2. QED
      BY <1>1, <2>1 DEF UserInv, OfTheRow
  <1>13. IdleIsBlank'
    BY <1>3, <1>5, <1>7 DEF UserInv, IdleIsBlank
  <1>14. KeptIsStored'
    <2>1. ASSUME "lost" \notin slips, NEW v \in Users
          PROVE  kept'[v].on = db'[v] \cap kept'[v].of
      <3>1. kept[v].on = db[v] \cap kept[v].of /\ kept[v].of \subseteq U!Selections
        BY <1>a, <2>1 DEF UserInv, KeptIsStored, KeptRow
      <3>2. CASE v = u
        <4>1. /\ kept'[v].of = kept[u].of \cup own
              /\ kept'[v].on = (kept[u].on \ own) \cup (form1 \cap own)
              /\ db'[v] = (db[u] \ q) \cup (form1 \cap q)
              /\ own = q \cap U!Selections
          BY <1>6, <1>8, <1>9, <3>2 DEF U!With
        <4> HIDE DEF own
        <4>2. QED
          BY <3>1, <3>2, <4>1
      <3>3. CASE v # u
        BY <1>8, <1>9, <3>1, <3>3
      <3>4. QED
        BY <3>2, <3>3
    <2>2. QED
      BY <1>10, <2>1 DEF KeptIsStored
  <1>15. OneSave'
    BY <1>5, <1>7, <1>10 DEF UserInv, OneSave, u
  <1>16. Blank' => Blank /\ db' = db
    <2>1. ASSUME Blank'
          PROVE  Blank /\ db' = db
      <3>1. r.done = {}
        BY <1>7, <2>1 DEF Blank
      <3>2. q = {} /\ save[s].done = {}
        BY <1>5, <3>1
      <3>3. U!With(db[u], form1, q) = db[u]
        BY <3>2 DEF U!With
      <3>4. db' = db
        BY <1>a, <1>1, <3>3
      <3>5. Blank
        BY <1>7, <2>1, <3>2 DEF Blank
      <3>6. QED
        BY <3>4, <3>5
    <2>2. QED
      BY <2>1
  <1>17. ListIsStored'
    BY <1>1, <1>10, <1>16 DEF UserInv, ListIsStored
  <1>18. DetailsAreStored'
    BY <1>1, <1>8, <1>10 DEF UserInv, DetailsAreStored
  <1>19. BaseIsStored'
    <2>1. Live' => Live
      BY <1>1, <1>5, <1>7 DEF Live, u
    <2>2. QED
      BY <1>1, <1>10, <1>16, <2>1 DEF UserInv, BaseIsStored
  <1>20. CodeGoesFirst'
    BY <1>1, <1>5, <1>7, <1>10 DEF UserInv, CodeGoesFirst, u
  <1>21. TodoIsTheRest'
    <2>1. ASSUME slips' = {}, NEW t \in Saves, save'[t].user # None
          PROVE  U!Differing(save'[t].user, save'[t].form, db'[save'[t].user])
                   \subseteq save'[t].todo
      <3>1. slips = {} /\ "crossed" \notin slips
        BY <1>10, <2>1
      <3>2. t = s
        <4>1. save[t].user # None /\ save[s].user # None
          BY <1>3, <1>7, <2>1 DEF u
        <4>2. QED
          BY <3>1, <4>1 DEF UserInv, OneSave
      <3>3. U!Differing(u, form1, db[u]) \subseteq save[s].todo
        BY <1>3, <3>1 DEF UserInv, TodoIsTheRest, u, form1
      <3>4. U!Differing(u, form1, U!With(db[u], form1, q))
              \subseteq U!Differing(u, form1, db[u]) \ q
        BY DEF U!Differing, U!With
      <3>5. QED
        BY <1>2, <1>5, <1>7, <1>8, <3>2, <3>3, <3>4
    <2>2. QED
      BY <2>1 DEF TodoIsTheRest
  <1>22. QED
    BY <1>11, <1>12, <1>13, <1>14, <1>15, <1>17, <1>18, <1>19, <1>20, <1>21 DEF UserInv

\* A step that ends a save.
LEMMA SavingEnds ==
  ASSUME UserInv, NEW s \in Saves, save[s].user # None,
         save' = [save EXCEPT ![s] = U!NoSave],
         UNCHANGED <<kept, invite, ask, begun>>,
         slips \subseteq slips', slips' \subseteq {"lost", "crossed", "partial", "unlisted"},
         db' \in [Users -> SUBSET Fields], row' \in [Users -> SUBSET Fields],
         dlg' \in UserDialog, mfa' \in CodeDialog,
         dlg'.of = dlg.of, dlg'.row = dlg.row, dlg'.base = dlg.base,
         "lost" \in slips' \/ db' = db,
         slips' \subseteq {"partial"} =>
           \/ save[s].done = {} /\ row' = row
           \/ row' = [u \in Users |-> U!Overlaid(u, db'[u])],
         slips' = {} => save[s].done = {} \/ (~dlg'.open /\ ~mfa'.open)
  PROVE  UserInv'
  <1>1. /\ save' \in [Saves -> SaveRow]
        /\ \A t \in Saves : save'[t] = IF t = s THEN U!NoSave ELSE save[t]
    BY UserTypes, BlankTypes
  <1>2. U!TypeOK'
    BY <1>1 DEF UserInv, U!TypeOK, U!People, UserDialog, CodeDialog, SaveRow
  <1>3. Live
    BY DEF Live
  <1>4. OfTheRow'
    BY <1>3 DEF UserInv, OfTheRow
  <1>5. IdleIsBlank' /\ OneSave'
    BY <1>1, BlankTypes DEF UserInv, IdleIsBlank, OneSave
  <1>6. KeptIsStored'
    BY DEF UserInv, KeptIsStored
  <1>7. "crossed" \notin slips => \A t \in Saves : save'[t].user = None
    BY <1>1, BlankTypes DEF UserInv, OneSave
  <1>8. "crossed" \notin slips /\ save[s].done = {} => Blank
    BY DEF UserInv, OneSave, IdleIsBlank, Blank
  <1>9. ListIsStored'
    <2>1. ASSUME slips' \subseteq {"partial"}
          PROVE  row' = db'
      <3>1. "lost" \notin slips /\ "crossed" \notin slips /\ slips \subseteq {"partial"}
            /\ db' = db
        BY <2>1
      <3>2. CASE save[s].done = {} /\ row' = row
        BY <1>8, <3>1, <3>2 DEF UserInv, ListIsStored
      <3>3. CASE row' = [u \in Users |-> U!Overlaid(u, db'[u])]
        BY <3>1, <3>3, OverlaidIsStored
      <3>4. QED
        BY <2>1, <3>2, <3>3
    <2>2. QED
      BY <2>1 DEF ListIsStored
  <1>10. DetailsAreStored'
    BY DEF UserInv, DetailsAreStored
  <1>11. slips' = {} => slips = {} /\ "crossed" \notin slips /\ db' = db
    OBVIOUS
  <1>12. BaseIsStored'
    <2>1. ASSUME slips' = {}, Live'
          PROVE  dlg'.base = db'[dlg'.of]
      <3>1. dlg'.open \/ mfa'.open
        BY <1>7, <1>11, <2>1 DEF Live
      <3>2. Blank
        BY <1>8, <1>11, <2>1, <3>1
      <3>3. QED
        BY <1>3, <1>11, <2>1, <3>2 DEF UserInv, BaseIsStored
    <2>2. QED
      BY <2>1 DEF BaseIsStored
  <1>13. CodeGoesFirst' /\ TodoIsTheRest'
    BY <1>7, <1>11 DEF CodeGoesFirst, TodoIsTheRest
  <1>14. QED
    BY <1>2, <1>4, <1>5, <1>6, <1>9, <1>10, <1>12, <1>13 DEF UserInv

LEMMA RefetchedType ==
  ASSUME UserInv, NEW users \in [Users -> SUBSET Fields]
  PROVE  [u \in Users |-> U!Overlaid(u, users[u])] \in [Users -> SUBSET Fields]
  <1>1. \A u \in Users : kept[u].on \subseteq Fields
    BY UserTypes DEF KeptRow, U!Selections
  <1>2. QED
    BY <1>1 DEF U!Overlaid

LEMMA SavedStep ==
  ASSUME UserInv, NEW s \in Saves, U!Saved(s)
  PROVE  UserInv'
  <1>a. /\ db \in [Users -> SUBSET Fields] /\ row \in [Users -> SUBSET Fields]
        /\ dlg \in UserDialog /\ mfa \in CodeDialog /\ save \in [Saves -> SaveRow]
        /\ slips \subseteq {"lost", "crossed", "partial", "unlisted"}
    BY UserTypes
  <1> DEFINE b == dlg.busy /\ save[s].code
  <1>1. /\ save[s].user # None /\ save' = [save EXCEPT ![s] = U!NoSave]
        /\ UNCHANGED <<db, kept, invite, ask, begun, slips>>
        /\ dlg' = [dlg EXCEPT !.open = FALSE, !.loading = FALSE, !.busy = b]
        /\ mfa' = IF save[s].code THEN U!NoCode ELSE mfa
        /\ \/ save[s].done = {} /\ row' = row
           \/ row' = [u \in Users |-> U!Overlaid(u, db[u])]
    <2>1. U!Dismissed(dlg).busy = dlg.busy
      BY <1>a DEF U!Dismissed, UserDialog
    <2>2. QED
      BY <1>a, <2>1 DEF U!Saved, U!Idle, U!Refetched, U!Dismissed, UserDialog
  <1>2. b \in BOOLEAN
    OBVIOUS
  <1> HIDE DEF b
  <1>3. /\ dlg' \in UserDialog /\ ~dlg'.open /\ dlg'.of = dlg.of
        /\ dlg'.row = dlg.row /\ dlg'.base = dlg.base
    BY <1>a, <1>1, <1>2 DEF UserDialog
  <1>4. mfa' \in CodeDialog /\ (slips' = {} => ~mfa'.open)
    BY <1>a, <1>1, BlankTypes DEF UserInv, CodeGoesFirst
  <1>5. row' \in [Users -> SUBSET Fields]
    BY <1>a, <1>1, RefetchedType
  <1>6. QED
    BY <1>a, <1>1, <1>3, <1>4, <1>5, SavingEnds

LEMMA SaveStops ==
  ASSUME UserInv, NEW s \in Saves, U!SaveWantsCode(s) \/ U!SaveFails(s)
  PROVE  UserInv'
  <1>a. /\ db \in [Users -> SUBSET Fields] /\ row \in [Users -> SUBSET Fields]
        /\ dlg \in UserDialog /\ mfa \in CodeDialog /\ save \in [Saves -> SaveRow]
        /\ slips \subseteq {"lost", "crossed", "partial", "unlisted"}
    BY UserTypes
  <1> DEFINE done == save[s].done
  <1>1. save[s].todo # {}
    BY DEF U!SaveWantsCode, U!SaveFails
  <1>2. save[s].user \in Users /\ save[s].user # None
    <2>1. save[s].user # None
      BY <1>1 DEF UserInv, IdleIsBlank
    <2>2. save[s] \in SaveRow
      BY <1>a
    <2>3. QED
      BY <2>1, <2>2 DEF SaveRow
  <1>3. /\ save' = [save EXCEPT ![s] = U!NoSave]
        /\ UNCHANGED <<kept, invite, ask, begun>>
        /\ IF U!Refetches(done) THEN row' = [u \in Users |-> U!Overlaid(u, db'[u])]
           ELSE row' = row
    BY DEF U!SaveWantsCode, U!SaveFails, U!Unfinished, U!Refetched
  <1>4. /\ slips' = slips \cup U!Unrepaired(done) \/
             slips' = slips \cup {"lost"} \cup U!Unrepaired(done)
        /\ "lost" \in slips' \/ db' = db
        /\ db' \in [Users -> SUBSET Fields]
    <2>1. CASE U!SaveWantsCode(s)
      BY <1>a, <2>1 DEF U!SaveWantsCode
    <2>2. CASE U!SaveFails(s) /\ db' = db
      BY <1>a, <2>2 DEF U!SaveFails
    <2>3. CASE U!SaveFails(s) /\ U!Committed(s) /\ db' # db
      <3>1. slips' = slips \cup {"lost"} \cup U!Unrepaired(done)
        BY <2>3 DEF U!SaveFails
      <3>2. db' \in [Users -> SUBSET Fields]
        <4> DEFINE q == U!Current(save[s].todo)
        <4>1. db' = [db EXCEPT ![save[s].user] =
                       U!With(db[save[s].user], save[s].form, q)]
          BY <2>3 DEF U!Committed
        <4>2. U!With(db[save[s].user], save[s].form, q) \in SUBSET Fields
          BY <1>a, <1>2 DEF U!With, SaveRow
        <4> HIDE DEF q
        <4>3. QED
          BY <1>a, <1>2, <4>1, <4>2
      <3>3. QED
        BY <3>1, <3>2
    <2>4. QED
      BY <2>1, <2>2, <2>3 DEF U!SaveFails
  <1>5. /\ U!Unrepaired(done) \subseteq {"partial", "unlisted"}
        /\ U!Unrepaired(done) = {} => done = {}
        /\ U!Unrepaired(done) \subseteq {"partial"} => done = {} \/ U!Refetches(done)
    BY DEF U!Unrepaired, U!Refetches
  <1>6. /\ dlg' \in UserDialog /\ dlg'.of = dlg.of /\ dlg'.row = dlg.row
        /\ dlg'.base = dlg.base /\ mfa' \in CodeDialog
    <2>1. /\ [dlg EXCEPT !.busy = FALSE] \in UserDialog
          /\ [dlg EXCEPT !.busy = FALSE].of = dlg.of
          /\ [dlg EXCEPT !.busy = FALSE].row = dlg.row
          /\ [dlg EXCEPT !.busy = FALSE].base = dlg.base
      BY <1>a DEF UserDialog
    <2>2. [mfa EXCEPT !.busy = FALSE] \in CodeDialog /\ [mfa EXCEPT !.open = TRUE] \in CodeDialog
      BY <1>a DEF CodeDialog
    <2>3. dlg' \in {dlg, [dlg EXCEPT !.busy = FALSE]}
          /\ mfa' \in {mfa, [mfa EXCEPT !.busy = FALSE], [mfa EXCEPT !.open = TRUE]}
      BY DEF U!SaveWantsCode, U!SaveFails
    <2>4. QED
      BY <1>a, <2>1, <2>2, <2>3
  <1>7. row' \in [Users -> SUBSET Fields]
    BY <1>a, <1>3, <1>4, RefetchedType
  <1> HIDE DEF done
  <1>8. /\ slips \subseteq slips'
        /\ slips' \subseteq {"lost", "crossed", "partial", "unlisted"}
        /\ U!Unrepaired(done) \subseteq slips'
    BY <1>a, <1>4, <1>5
  <1>9. /\ slips' \subseteq {"partial"} =>
             \/ done = {} /\ row' = row
             \/ row' = [u \in Users |-> U!Overlaid(u, db'[u])]
        /\ slips' = {} => done = {}
    BY <1>3, <1>5, <1>8
  <1>10. QED
    BY <1>2, <1>3, <1>4, <1>6, <1>7, <1>8, <1>9, SavingEnds DEF done

LEMMA UserInvStep ==
  ASSUME UserInv, [U!Next]_vars
  PROVE  UserInv'
  <1>1. CASE UNCHANGED vars
    <2>1. UNCHANGED <<db, row, kept, dlg, mfa, invite, ask, save, begun, slips>>
      BY <1>1 DEF vars
    <2>2. U!TypeOK'
      BY <2>1 DEF UserInv, U!TypeOK
    <2>3. QED
      BY <2>1, <2>2
      DEF UserInv, OfTheRow, IdleIsBlank, KeptIsStored, OneSave, ListIsStored,
          DetailsAreStored, BaseIsStored, CodeGoesFirst, TodoIsTheRest, Blank, Live
  <1>2. QED
    BY <1>1, OpeningStep, OtherDialogStep, SavingBegins, SavingGoesOn, SavedStep, SaveStops
    DEF U!Next

\* What the invariant is for.
LEMMA UserInvSuffices ==
  ASSUME UserInv
  PROVE  U!EditsTheRow /\ U!ShownIsSaved /\ U!SavedAsReported
  <1>1. U!EditsTheRow
    BY DEF UserInv, OfTheRow, U!EditsTheRow
  <1>2. U!ShownIsSaved
    BY DEF UserInv, IdleIsBlank, ListIsStored, Blank, U!ShownIsSaved, U!Idle
  <1>3. U!SavedAsReported
    BY DEF UserInv, TodoIsTheRest, U!SavedAsReported, U!Saved, U!Idle
  <1>4. QED
    BY <1>1, <1>2, <1>3

\* The behaviours that are about the user pages keep UserInv.
UsersKept == which = "users" => UserInv

LEMMA UsersKeptInit == Init => UsersKept
  BY UserInvInit DEF Init, UsersKept

LEMMA UsersKeptStep ==
  ASSUME UsersKept, [Next]_vars
  PROVE  UsersKept'
  BY ScreenSteps, UserInvStep DEF UsersKept

\* For any users, fields and unanswered saves the pages keep UserInv
\* (UserPoolModal.jsx, UserPool.jsx, useUsers.js).
THEOREM UserInvariant == Spec => []UsersKept
  BY UsersKeptInit, UsersKeptStep, PTL DEF Spec

\* Once all is answered the list shows every change that was made, of a save
\* that stopped half way too (updateUser of useUsers.js).
THEOREM ShownHolds == Spec => []ShownIsSaved
  <1>1. UsersKept => ShownIsSaved
    BY UserInvSuffices DEF UsersKept, ShownIsSaved
  <1>2. QED
    BY <1>1, UserInvariant, PTL

\* A save reported done has changed the user as the form asked (updateUser of
\* useUsers.js).
THEOREM ReportsHold == Spec => ReportedSaved
  <1>1. UsersKept => (which = "users" => U!SavedAsReported)
    BY UserInvSuffices DEF UsersKept
  <1>2. QED
    BY <1>1, UserInvariant, PTL DEF ReportedSaved

---------------------------------------------------------------------------
(***************************************************************************)
(* The registration pages: what a dialog starts from is something the      *)
(* server had for its account type, and one update of users is under way   *)
(* at a time.                                                              *)
(***************************************************************************)
TypeDialog == [type : Types \cup {None}, base : SUBSET PickClients,
               picked : SUBSET PickClients, touched : SUBSET PickClients,
               filled : Types \cup {None}]
OpenRow  == [type : Types \cup {None}, got : SUBSET PickClients]
WriteRow == [kind : {"none", "save", "create", "delete"},
             st : {"sent", "done", "reload"}, mine : BOOLEAN, for : TypeDialog]
FormRow  == [type : Types \cup {None}, picked : SUBSET PickClients]

\* Account types with their clients, each as the server had it once.
Known(list) == \A t \in DOMAIN list : list[t] \in past[t]

\* The fields of a dialog are those of its account type, and differ from what
\* the server had for it in the clients picked or removed.
OfItsType(d) ==
  /\ d.type \in Types /\ d.filled = d.type
  /\ d.base \in past[d.type]
  /\ \A c \in PickClients \ d.touched : c \in d.picked <=> c \in d.base

OpensKnown == \A i \in PickOpens : open[i] # G!NotOpening =>
                open[i].type \in Types /\ open[i].got \in past[open[i].type]
DialogKnown == dlg.type # None => OfItsType(dlg)
JobsKnown ==
  \A j \in PageJobs :
    /\ job[j].kind # "none" => job[j].for.type \in Types
    /\ job[j].kind = "save" => OfItsType(job[j].for)

\* One update of users is under way, while the page says so.
OneUpdate == /\ \A s, t \in sync : s = t
             /\ sync # {} => syncing

RegInv ==
  /\ G!TypeOK
  /\ Known(db) /\ Known(row)
  /\ OpensKnown /\ DialogKnown /\ JobsKnown /\ OneUpdate

\* A list is a function from some of the account types to sets of clients.
LEMMA ListsAre ==
  ASSUME NEW f
  PROVE  f \in G!Lists <=> \E S \in SUBSET Types : f \in [S -> SUBSET PickClients]
  BY DEF G!Lists

LEMMA RegTypes ==
  ASSUME G!TypeOK
  PROVE  /\ page \in {"list", "create"} /\ past \in [Types -> SUBSET SUBSET PickClients]
         /\ open \in [PickOpens -> OpenRow] /\ dlg \in TypeDialog /\ form \in FormRow
         /\ job \in [PageJobs -> WriteRow]
         /\ del \in Types \cup {None} /\ prompt \in Types \cup {None}
         /\ syncing \in BOOLEAN /\ sync \subseteq Types
         /\ DOMAIN db \subseteq Types /\ db \in [DOMAIN db -> SUBSET PickClients]
         /\ DOMAIN row \subseteq Types /\ row \in [DOMAIN row -> SUBSET PickClients]
  <1>1. /\ page \in {"list", "create"} /\ past \in [Types -> SUBSET SUBSET PickClients]
        /\ open \in [PickOpens -> OpenRow] /\ dlg \in TypeDialog /\ form \in FormRow
        /\ job \in [PageJobs -> WriteRow]
        /\ del \in Types \cup {None} /\ prompt \in Types \cup {None}
        /\ syncing \in BOOLEAN /\ sync \subseteq Types /\ db \in G!Lists /\ row \in G!Lists
    BY DEF G!TypeOK, G!Maybe, G!Dialogs, TypeDialog, OpenRow, WriteRow, FormRow
  <1>2. \A f \in G!Lists : DOMAIN f \subseteq Types /\ f \in [DOMAIN f -> SUBSET PickClients]
    BY ListsAre
  <1>3. QED
    BY <1>1, <1>2

LEMMA EmptyTypes ==
  /\ G!NoDialog \in TypeDialog /\ G!NoDialog.type = None
  /\ G!NotOpening \in OpenRow
  /\ G!NoJob \in WriteRow /\ G!NoJob.kind = "none"
  /\ G!NewForm \in FormRow
  <1>1. G!NoDialog \in TypeDialog /\ G!NoDialog.type = None
    BY DEF G!NoDialog, TypeDialog
  <1>2. G!NotOpening \in OpenRow /\ G!NewForm \in FormRow
    BY DEF G!NotOpening, OpenRow, G!NewForm, FormRow
  <1>3. G!NoJob \in WriteRow /\ G!NoJob.kind = "none"
    BY <1>1 DEF G!NoJob, WriteRow
  <1>4. QED
    BY <1>1, <1>2, <1>3

LEMMA RegInvInit == G!Init => RegInv
  <1> SUFFICES ASSUME G!Init
               PROVE  RegInv
    OBVIOUS
  <1>1. /\ db \in G!Lists /\ row = db /\ dlg = G!NoDialog /\ form = G!NewForm
        /\ past = [t \in Types |-> IF t \in DOMAIN db THEN {db[t]} ELSE {}]
        /\ open = [i \in PickOpens |-> G!NotOpening]
        /\ job = [j \in PageJobs |-> G!NoJob]
        /\ page = "list" /\ del = None /\ prompt = None /\ syncing = FALSE /\ sync = {}
    BY DEF G!Init
  <1>2. DOMAIN db \subseteq Types /\ db \in [DOMAIN db -> SUBSET PickClients]
    BY <1>1, ListsAre
  <1>3. past \in [Types -> SUBSET SUBSET PickClients]
    <2>1. \A t \in Types : (IF t \in DOMAIN db THEN {db[t]} ELSE {})
                             \in SUBSET SUBSET PickClients
      BY <1>2
    <2>2. QED
      BY <1>1, <2>1
  <1>4. G!TypeOK
    BY <1>1, <1>3, EmptyTypes
    DEF G!TypeOK, G!Maybe, G!Dialogs, TypeDialog, OpenRow, WriteRow, FormRow
  <1>5. Known(db) /\ Known(row)
    BY <1>1, <1>2 DEF Known
  <1>6. OpensKnown /\ DialogKnown /\ JobsKnown /\ OneUpdate
    BY <1>1, EmptyTypes DEF OpensKnown, DialogKnown, JobsKnown, OneUpdate
  <1>7. QED
    BY <1>4, <1>5, <1>6 DEF RegInv

---------------------------------------------------------------------------
\* A step that leaves the server alone: what was known stays so.
LEMMA PageAloneStep ==
  ASSUME RegInv, UNCHANGED db,
         past' \in [Types -> SUBSET SUBSET PickClients],
         \A t \in Types : past[t] \subseteq past'[t],
         page' \in {"list", "create"}, row' \in G!Lists, Known(row)',
         open' \in [PickOpens -> OpenRow], dlg' \in TypeDialog, form' \in FormRow,
         job' \in [PageJobs -> WriteRow],
         del' \in Types \cup {None}, prompt' \in Types \cup {None},
         syncing' \in BOOLEAN, sync' \subseteq Types,
         OpensKnown', DialogKnown', JobsKnown', OneUpdate'
  PROVE  RegInv'
  <1>1. G!TypeOK'
    BY DEF RegInv, G!TypeOK, G!Maybe, G!Dialogs, TypeDialog, OpenRow, WriteRow, FormRow
  <1>2. Known(db)'
    BY RegTypes DEF RegInv, Known
  <1>3. QED
    BY <1>1, <1>2 DEF RegInv

\* What was once known is known.
LEMMA StaysKnown ==
  ASSUME RegInv, \A t \in Types : past[t] \subseteq past'[t]
  PROVE  /\ \A d \in TypeDialog : OfItsType(d) => OfItsType(d)'
         /\ row' = row => Known(row)'
         /\ open' = open => OpensKnown'
         /\ dlg' = dlg => DialogKnown'
         /\ job' = job => JobsKnown'
         /\ UNCHANGED <<sync, syncing>> => OneUpdate'
  <1>1. /\ dlg \in TypeDialog /\ job \in [PageJobs -> WriteRow]
        /\ open \in [PickOpens -> OpenRow] /\ DOMAIN row \subseteq Types
    BY RegTypes DEF RegInv
  <1>2. ASSUME NEW d \in TypeDialog, OfItsType(d)
        PROVE  OfItsType(d)'
    BY <1>2 DEF OfItsType
  <1>3. row' = row => Known(row)'
    BY <1>1 DEF RegInv, Known
  <1>4. open' = open => OpensKnown'
    BY <1>1 DEF RegInv, OpensKnown
  <1>5. dlg' = dlg => DialogKnown'
    BY <1>1 DEF RegInv, DialogKnown, OfItsType
  <1>6. job' = job => JobsKnown'
    <2>1. ASSUME job' = job, NEW j \in PageJobs, job[j].kind = "save"
          PROVE  OfItsType(job[j].for)'
      <3>1. OfItsType(job[j].for)
        BY <2>1 DEF RegInv, JobsKnown
      <3>2. QED
        BY <2>1, <3>1 DEF OfItsType
    <2>2. QED
      BY <2>1 DEF RegInv, JobsKnown
  <1>7. UNCHANGED <<sync, syncing>> => OneUpdate'
    BY DEF RegInv, OneUpdate
  <1>8. QED
    BY <1>2, <1>3, <1>4, <1>5, <1>6, <1>7

LEMMA OpenStep ==
  ASSUME RegInv, NEW i \in PickOpens,
         \/ \E t \in Types : G!OpenRow(i, t)
         \/ G!DetailsAnswer(i) \/ G!DetailsFail(i)
  PROVE  RegInv'
  <1>a. /\ page \in {"list", "create"} /\ past \in [Types -> SUBSET SUBSET PickClients]
        /\ open \in [PickOpens -> OpenRow] /\ dlg \in TypeDialog /\ form \in FormRow
        /\ job \in [PageJobs -> WriteRow]
        /\ del \in Types \cup {None} /\ prompt \in Types \cup {None}
        /\ syncing \in BOOLEAN /\ sync \subseteq Types
        /\ db \in [DOMAIN db -> SUBSET PickClients] /\ DOMAIN db \subseteq Types
        /\ row \in [DOMAIN row -> SUBSET PickClients] /\ DOMAIN row \subseteq Types
        /\ row \in G!Lists
    BY RegTypes DEF RegInv, G!TypeOK
  <1>1. ASSUME NEW t \in Types, G!OpenRow(i, t)
        PROVE  RegInv'
    <2> DEFINE r == [type |-> t, got |-> row[t]]
    <2>1. /\ t \in DOMAIN row /\ open' = [open EXCEPT ![i] = r]
          /\ UNCHANGED <<page, db, past, row, dlg, form, job, del, prompt, syncing, sync>>
      BY <1>1 DEF G!OpenRow, G!Rows
    <2>2. r \in OpenRow /\ r.type = t /\ r.got = row[t] /\ row[t] \in past[t]
      BY <1>a, <2>1 DEF OpenRow, RegInv, Known
    <2> HIDE DEF r
    <2>3. /\ open' \in [PickOpens -> OpenRow]
          /\ \A k \in PickOpens : open'[k] = IF k = i THEN r ELSE open[k]
      BY <1>a, <2>1, <2>2
    <2>4. OpensKnown'
      BY <2>1, <2>2, <2>3 DEF RegInv, OpensKnown
    <2>5. QED
      BY <1>a, <2>1, <2>3, <2>4, StaysKnown, PageAloneStep
  <1>2. ASSUME NEW c \in SUBSET PickClients, G!Opened(i, c),
               past' \in [Types -> SUBSET SUBSET PickClients],
               \A t \in Types : past[t] \subseteq past'[t],
               c \in past'[open[i].type]
        PROVE  RegInv'
    <2> DEFINE t == open[i].type
    <2>1. /\ open[i] # G!NotOpening
          /\ dlg' = [type |-> t, base |-> c, picked |-> c, touched |-> {}, filled |-> t]
          /\ open' = [open EXCEPT ![i] = G!NotOpening]
          /\ UNCHANGED <<page, db, row, form, job, del, prompt, syncing, sync>>
      BY <1>2 DEF G!Opened, G!Filled
    <2>2. t \in Types
      BY <2>1 DEF RegInv, OpensKnown
    <2> HIDE DEF t
    <2>3. dlg' \in TypeDialog
      BY <2>1, <2>2 DEF TypeDialog
    <2>4. DialogKnown'
      BY <1>2, <2>1, <2>2 DEF DialogKnown, OfItsType, t
    <2>5. /\ open' \in [PickOpens -> OpenRow]
          /\ \A k \in PickOpens : open'[k] = IF k = i THEN G!NotOpening ELSE open[k]
      BY <1>a, <2>1, EmptyTypes
    <2>6. OpensKnown'
      BY <1>2, <2>5 DEF RegInv, OpensKnown
    <2>7. QED
      BY <1>2, <1>a, <2>1, <2>3, <2>4, <2>5, <2>6, StaysKnown, PageAloneStep
  <1>3. CASE G!DetailsAnswer(i)
    <2> DEFINE t == open[i].type
               c == G!Details(t)
    <2>1. G!Opened(i, c) /\ past' = [past EXCEPT ![t] = past[t] \cup {c}]
          /\ open[i] # G!NotOpening
      BY <1>3 DEF G!DetailsAnswer, G!Opened
    <2>2. t \in Types
      BY <2>1 DEF RegInv, OpensKnown
    <2>3. c \in SUBSET PickClients
      BY <1>a DEF G!Details
    <2> HIDE DEF c
    <2>4. past' \in [Types -> SUBSET SUBSET PickClients]
          /\ \A s \in Types : past[s] \subseteq past'[s]
          /\ c \in past'[t]
      BY <1>a, <2>1, <2>2, <2>3
    <2>5. QED
      BY <1>2, <2>1, <2>3, <2>4
  <1>4. CASE G!DetailsFail(i)
    <2>1. G!Opened(i, open[i].got) /\ past' = past /\ open[i] # G!NotOpening
      BY <1>4 DEF G!DetailsFail, G!Fallback, G!Opened
    <2>2. open[i].got \in past[open[i].type] /\ open[i].got \in SUBSET PickClients
      BY <1>a, <2>1 DEF RegInv, OpensKnown, OpenRow
    <2>3. QED
      BY <1>2, <1>a, <2>1, <2>2
  <1>5. QED
    BY <1>1, <1>3, <1>4

LEMMA RegDialogStep ==
  ASSUME RegInv,
         \/ G!CloseDialog \/ \E c \in PickClients : G!Pick(c)
         \/ \E t \in Types : G!AskDelete(t)
         \/ G!CancelDelete \/ G!FillForm
  PROVE  RegInv'
  <1>a. /\ page \in {"list", "create"} /\ past \in [Types -> SUBSET SUBSET PickClients]
        /\ open \in [PickOpens -> OpenRow] /\ dlg \in TypeDialog /\ form \in FormRow
        /\ job \in [PageJobs -> WriteRow]
        /\ del \in Types \cup {None} /\ prompt \in Types \cup {None}
        /\ syncing \in BOOLEAN /\ sync \subseteq Types /\ row \in G!Lists
    BY RegTypes DEF RegInv, G!TypeOK
  <1>1. CASE G!CloseDialog
    <2>1. /\ dlg' = G!NoDialog
          /\ UNCHANGED <<page, db, past, row, open, form, job, del, prompt, syncing, sync>>
      BY <1>1 DEF G!CloseDialog
    <2>2. dlg' \in TypeDialog /\ DialogKnown'
      BY <2>1, EmptyTypes DEF DialogKnown
    <2>3. QED
      BY <1>a, <2>1, <2>2, StaysKnown, PageAloneStep
  <1>2. ASSUME NEW c \in PickClients, G!Pick(c)
        PROVE  RegInv'
    <2> DEFINE p == G!Flip(dlg.picked, c)
    <2>1. /\ dlg.type # None
          /\ dlg' = [dlg EXCEPT !.picked = p, !.touched = dlg.touched \cup {c}]
          /\ UNCHANGED <<page, db, past, row, open, form, job, del, prompt, syncing, sync>>
      BY <1>2 DEF G!Pick
    <2>2. p \in SUBSET PickClients /\ \A d \in PickClients \ {c} : d \in p <=> d \in dlg.picked
      BY <1>a DEF G!Flip, TypeDialog
    <2> HIDE DEF p
    <2>3. /\ dlg' \in TypeDialog /\ dlg'.type = dlg.type /\ dlg'.filled = dlg.filled
          /\ dlg'.base = dlg.base /\ dlg'.picked = p /\ dlg'.touched = dlg.touched \cup {c}
      BY <1>a, <2>1, <2>2 DEF TypeDialog
    <2>4. DialogKnown'
      BY <2>1, <2>2, <2>3 DEF RegInv, DialogKnown, OfItsType
    <2>5. QED
      BY <1>a, <2>1, <2>3, <2>4, StaysKnown, PageAloneStep
  <1>3. ASSUME NEW t \in Types, G!AskDelete(t)
        PROVE  RegInv'
    BY <1>3, <1>a, StaysKnown, PageAloneStep DEF G!AskDelete
  <1>4. CASE G!CancelDelete
    BY <1>4, <1>a, StaysKnown, PageAloneStep DEF G!CancelDelete
  <1>5. CASE G!FillForm
    BY <1>5, <1>a, StaysKnown, PageAloneStep DEF G!FillForm, FormRow, G!Maybe
  <1>6. QED
    BY <1>1, <1>2, <1>3, <1>4, <1>5

\* A dialog whose account type is the only thing known of it.
LEMMA BareDialog ==
  ASSUME NEW t \in Types, NEW p \in SUBSET PickClients
  PROVE  /\ [G!NoDialog EXCEPT !.type = t] \in TypeDialog
         /\ [G!NoDialog EXCEPT !.type = t].type = t
         /\ [G!NoDialog EXCEPT !.type = t, !.picked = p] \in TypeDialog
         /\ [G!NoDialog EXCEPT !.type = t, !.picked = p].type = t
  BY DEF G!NoDialog, TypeDialog

LEMMA RegSendStep ==
  ASSUME RegInv, NEW j \in PageJobs, G!Save(j) \/ G!Delete(j) \/ G!Create(j)
  PROVE  RegInv'
  <1>a. /\ page \in {"list", "create"} /\ past \in [Types -> SUBSET SUBSET PickClients]
        /\ open \in [PickOpens -> OpenRow] /\ dlg \in TypeDialog /\ form \in FormRow
        /\ job \in [PageJobs -> WriteRow]
        /\ del \in Types \cup {None} /\ prompt \in Types \cup {None}
        /\ syncing \in BOOLEAN /\ sync \subseteq Types /\ row \in G!Lists
    BY RegTypes DEF RegInv, G!TypeOK
  <1>1. ASSUME NEW k \in {"save", "create", "delete"}, NEW d \in TypeDialog, G!Send(j, k, d),
               d.type \in Types, k = "save" => OfItsType(d)
        PROVE  RegInv'
    <2> DEFINE r == [kind |-> k, st |-> "sent", mine |-> TRUE, for |-> d]
    <2>1. /\ job' = [job EXCEPT ![j] = r]
          /\ UNCHANGED <<db, past, row, open, dlg, form, del, prompt, syncing, sync, page>>
      BY <1>1 DEF G!Send
    <2>2. r \in WriteRow /\ r.kind = k /\ r.for = d
      BY DEF WriteRow
    <2> HIDE DEF r
    <2>3. /\ job' \in [PageJobs -> WriteRow]
          /\ \A i \in PageJobs : job'[i] = IF i = j THEN r ELSE job[i]
      BY <1>a, <2>1, <2>2
    <2>4. JobsKnown'
      BY <1>1, <2>1, <2>2, <2>3 DEF RegInv, JobsKnown, OfItsType
    <2>5. QED
      BY <1>a, <2>1, <2>3, <2>4, StaysKnown, PageAloneStep
  <1>2. CASE G!Save(j)
    <2>1. dlg.type # None /\ G!Send(j, "save", dlg)
      BY <1>2 DEF G!Save
    <2>2. OfItsType(dlg) /\ dlg.type \in Types
      BY <2>1 DEF RegInv, DialogKnown, OfItsType
    <2>3. QED
      BY <1>1, <1>a, <2>1, <2>2
  <1>3. CASE G!Delete(j)
    <2>1. del \in Types /\ G!Send(j, "delete", [G!NoDialog EXCEPT !.type = del])
      BY <1>3, <1>a DEF G!Delete
    <2>2. QED
      BY <1>1, <2>1, BareDialog
  <1>4. CASE G!Create(j)
    <2>1. /\ form.type \in Types /\ form.picked \in SUBSET PickClients
          /\ G!Send(j, "create", [G!NoDialog EXCEPT !.type = form.type, !.picked = form.picked])
      BY <1>4, <1>a DEF G!Create, FormRow
    <2>2. QED
      BY <1>1, <2>1, BareDialog
  <1>5. QED
    BY <1>2, <1>3, <1>4

LEMMA CommitStep ==
  ASSUME RegInv, NEW j \in PageJobs, G!Commit(j)
  PROVE  RegInv'
  <1> DEFINE t == job[j].for.type
             new == IF job[j].kind = "delete" THEN {} ELSE job[j].for.picked
             r == [job[j] EXCEPT !.st = "done"]
  <1>a. /\ past \in [Types -> SUBSET SUBSET PickClients]
        /\ job \in [PageJobs -> WriteRow]
        /\ db \in [DOMAIN db -> SUBSET PickClients] /\ DOMAIN db \subseteq Types
    BY RegTypes DEF RegInv
  <1>1. /\ job[j].kind # "none"
        /\ db' = IF job[j].kind = "delete" THEN G!Restrict(db, DOMAIN db \ {t})
                 ELSE [u \in DOMAIN db \cup {t} |-> IF u = t THEN job[j].for.picked ELSE db[u]]
        /\ past' = [past EXCEPT ![t] = past[t] \cup {new}]
        /\ job' = [job EXCEPT ![j] = r]
        /\ UNCHANGED <<page, row, open, dlg, form, del, prompt, syncing, sync>>
    BY DEF G!Commit, G!Idle
  <1>2. t \in Types
    BY <1>1 DEF RegInv, JobsKnown
  <1>3. new \in SUBSET PickClients /\ job[j].for.picked \in SUBSET PickClients
    BY <1>a DEF WriteRow, TypeDialog
  <1>4. r \in WriteRow /\ r.kind = job[j].kind /\ r.for = job[j].for
    BY <1>a DEF WriteRow
  <1> HIDE DEF r
  <1>5. /\ past' \in [Types -> SUBSET SUBSET PickClients]
        /\ \A s \in Types : past[s] \subseteq past'[s]
        /\ new \in past'[t]
    <2> HIDE DEF t, new
    <2>1. QED
      BY <1>a, <1>1, <1>2, <1>3
  <1>6. /\ DOMAIN db' \subseteq Types /\ db' \in [DOMAIN db' -> SUBSET PickClients]
        /\ \A s \in DOMAIN db' :
             \/ s \in DOMAIN db /\ db'[s] = db[s]
             \/ s = t /\ db'[s] = new
    <2>1. CASE job[j].kind = "delete"
      <3>1. db' = [s \in DOMAIN db \ {t} |-> db[s]]
        BY <1>1, <2>1 DEF G!Restrict
      <3>2. DOMAIN db' = DOMAIN db \ {t} /\ \A s \in DOMAIN db' : db'[s] = db[s]
        BY <3>1
      <3>3. QED
        BY <1>a, <3>1, <3>2
    <2>2. CASE job[j].kind # "delete"
      <3>1. db' = [u \in DOMAIN db \cup {t} |-> IF u = t THEN new ELSE db[u]]
        BY <1>1, <2>2
      <3> HIDE DEF new, t
      <3>2. DOMAIN db' = DOMAIN db \cup {t}
            /\ \A s \in DOMAIN db' : db'[s] = IF s = t THEN new ELSE db[s]
        BY <3>1
      <3>3. QED
        BY <1>2, <1>3, <1>a, <3>1, <3>2
    <2>3. QED
      BY <2>1, <2>2
  <1>7. db' \in G!Lists
    BY <1>6, ListsAre
  <1>8. /\ job' \in [PageJobs -> WriteRow]
        /\ \A i \in PageJobs : job'[i] = IF i = j THEN r ELSE job[i]
    BY <1>a, <1>1, <1>4
  <1>9. G!TypeOK'
    BY <1>1, <1>5, <1>7, <1>8
    DEF RegInv, G!TypeOK, G!Maybe, G!Dialogs, TypeDialog, OpenRow, WriteRow, FormRow
  <1>10. Known(db)'
    BY <1>a, <1>5, <1>6 DEF RegInv, Known
  <1>11. Known(row)' /\ OpensKnown' /\ DialogKnown' /\ OneUpdate'
    BY <1>1, <1>5, StaysKnown
  <1>12. JobsKnown'
    <2>1. \A i \in PageJobs : job'[i].kind = job[i].kind /\ job'[i].for = job[i].for
                              /\ job[i].for \in TypeDialog
      BY <1>a, <1>4, <1>8 DEF WriteRow
    <2>2. QED
      BY <1>5, <2>1 DEF RegInv, JobsKnown, OfItsType
  <1>13. QED
    BY <1>9, <1>10, <1>11, <1>12 DEF RegInv

\* A list that is read is the server's, or empty.
LEMMA ReadStep ==
  ASSUME RegInv, G!Reads, UNCHANGED <<db, past>>
  PROVE  row' \in G!Lists /\ Known(row)'
  <1>1. /\ db \in [DOMAIN db -> SUBSET PickClients] /\ DOMAIN db \subseteq Types
        /\ db \in G!Lists
    BY RegTypes DEF RegInv, G!TypeOK
  <1>2. CASE row' = db
    BY <1>1, <1>2 DEF RegInv, Known
  <1>3. CASE row' = G!Restrict(db, {})
    <2>1. row' = [t \in {} |-> db[t]]
      BY <1>3 DEF G!Restrict
    <2>2. DOMAIN row' = {} /\ row' \in [{} -> SUBSET PickClients]
      BY <2>1
    <2>3. row' \in G!Lists
      BY <2>2, ListsAre
    <2>4. QED
      BY <2>2, <2>3 DEF Known
  <1>4. QED
    BY <1>2, <1>3 DEF G!Reads

\* A step after which each job is over or as it was, but for its progress.
LEMMA JobsGoOn ==
  ASSUME RegInv, UNCHANGED past,
         \A i \in PageJobs :
           \/ job'[i] = G!NoJob
           \/ job'[i].kind = job[i].kind /\ job'[i].for = job[i].for
  PROVE  JobsKnown'
  BY EmptyTypes DEF RegInv, JobsKnown, OfItsType

LEMMA WriteEndsStep ==
  ASSUME RegInv, NEW j \in PageJobs, G!Answered(j) \/ G!Reloaded(j) \/ G!Refused(j)
  PROVE  RegInv'
  <1>a. /\ page \in {"list", "create"} /\ past \in [Types -> SUBSET SUBSET PickClients]
        /\ open \in [PickOpens -> OpenRow] /\ dlg \in TypeDialog /\ form \in FormRow
        /\ job \in [PageJobs -> WriteRow]
        /\ del \in Types \cup {None} /\ prompt \in Types \cup {None}
        /\ syncing \in BOOLEAN /\ sync \subseteq Types /\ row \in G!Lists
    BY RegTypes DEF RegInv, G!TypeOK
  <1>1. CASE G!Answered(j)
    <2> DEFINE r == [job[j] EXCEPT !.st = "reload"]
    <2>1. /\ job' = [job EXCEPT ![j] = r]
          /\ UNCHANGED <<page, db, past, row, open, dlg, form, del, prompt, syncing, sync>>
      BY <1>1 DEF G!Answered
    <2>2. r \in WriteRow /\ r.kind = job[j].kind /\ r.for = job[j].for
      BY <1>a DEF WriteRow
    <2> HIDE DEF r
    <2>3. /\ job' \in [PageJobs -> WriteRow]
          /\ \A i \in PageJobs : job'[i] = IF i = j THEN r ELSE job[i]
      BY <1>a, <2>1, <2>2
    <2>4. JobsKnown'
      BY <2>1, <2>2, <2>3, JobsGoOn
    <2>5. QED
      BY <1>a, <2>1, <2>3, <2>4, StaysKnown, PageAloneStep
  <1>2. ASSUME G!Ends(j), UNCHANGED <<page, db, past, open, form, syncing, sync>>,
               row' \in G!Lists, Known(row)', prompt' \in Types \cup {None}
        PROVE  RegInv'
    <2>1. /\ job' = [job EXCEPT ![j] = G!NoJob]
          /\ dlg' \in {dlg, G!NoDialog} /\ del' \in {del, None}
      BY <1>2 DEF G!Ends
    <2>2. /\ job' \in [PageJobs -> WriteRow]
          /\ \A i \in PageJobs : job'[i] = IF i = j THEN G!NoJob ELSE job[i]
      BY <1>a, <2>1, EmptyTypes
    <2>3. JobsKnown'
      BY <1>2, <2>2, JobsGoOn
    <2>4. dlg' \in TypeDialog /\ DialogKnown'
      <3>1. CASE dlg' = dlg
        BY <1>2, <1>a, <3>1, StaysKnown
      <3>2. CASE dlg' = G!NoDialog
        BY <3>2, EmptyTypes DEF DialogKnown
      <3>3. QED
        BY <2>1, <3>1, <3>2
    <2>5. QED
      BY <1>2, <1>a, <2>1, <2>2, <2>3, <2>4, StaysKnown, PageAloneStep
  <1>3. CASE G!Reloaded(j)
    <2>1. /\ G!Ends(j) /\ UNCHANGED <<page, db, past, open, form, syncing, sync>>
          /\ G!Reads \/ row' = row
          /\ prompt' \in {job[j].for.type, prompt}
      BY <1>3 DEF G!Reloaded
    <2>2. row' \in G!Lists /\ Known(row)'
      BY <1>a, <2>1, ReadStep, StaysKnown
    <2>3. job[j].for.type \in Types \cup {None}
      BY <1>a DEF WriteRow, TypeDialog
    <2>4. QED
      BY <1>2, <1>a, <2>1, <2>2, <2>3
  <1>4. CASE G!Refused(j)
    <2>1. /\ G!Ends(j) /\ UNCHANGED <<page, db, past, row, open, form, prompt, syncing, sync>>
      BY <1>4 DEF G!Refused
    <2>2. row' \in G!Lists /\ Known(row)'
      BY <1>a, <2>1, StaysKnown
    <2>3. QED
      BY <1>2, <1>a, <2>1, <2>2
  <1>5. QED
    BY <1>1, <1>3, <1>4

LEMMA SyncStep ==
  ASSUME RegInv, G!CancelSync \/ G!ConfirmSync \/ \E t \in sync : G!SyncEnds(t)
  PROVE  RegInv'
  <1>a. /\ page \in {"list", "create"} /\ past \in [Types -> SUBSET SUBSET PickClients]
        /\ open \in [PickOpens -> OpenRow] /\ dlg \in TypeDialog /\ form \in FormRow
        /\ job \in [PageJobs -> WriteRow]
        /\ del \in Types \cup {None} /\ prompt \in Types \cup {None}
        /\ syncing \in BOOLEAN /\ sync \subseteq Types /\ row \in G!Lists
    BY RegTypes DEF RegInv, G!TypeOK
  <1>1. UNCHANGED <<page, db, past, row, open, dlg, form, job, del>>
    BY DEF G!CancelSync, G!ConfirmSync, G!SyncEnds
  <1>2. /\ sync' \subseteq Types /\ syncing' \in BOOLEAN /\ prompt' \in Types \cup {None}
        /\ OneUpdate'
    <2>1. CASE G!CancelSync
      BY <1>a, <2>1 DEF G!CancelSync, RegInv, OneUpdate
    <2>2. CASE G!ConfirmSync
      BY <1>a, <2>2 DEF G!ConfirmSync, G!Confirms, G!Syncs, RegInv, OneUpdate
    <2>3. ASSUME NEW t \in sync, G!SyncEnds(t)
          PROVE  /\ sync' \subseteq Types /\ syncing' \in BOOLEAN
                 /\ prompt' \in Types \cup {None} /\ OneUpdate'
      BY <1>a, <2>3 DEF G!SyncEnds, RegInv, OneUpdate
    <2>4. QED
      BY <2>1, <2>2, <2>3
  <1>3. QED
    BY <1>1, <1>2, <1>a, StaysKnown, PageAloneStep

LEMMA RegPageStep ==
  ASSUME RegInv, G!OpenForm \/ G!Leave \/ \E j \in PageJobs : G!Created(j)
  PROVE  RegInv'
  <1>a. /\ page \in {"list", "create"} /\ past \in [Types -> SUBSET SUBSET PickClients]
        /\ open \in [PickOpens -> OpenRow] /\ dlg \in TypeDialog /\ form \in FormRow
        /\ job \in [PageJobs -> WriteRow]
        /\ del \in Types \cup {None} /\ prompt \in Types \cup {None}
        /\ syncing \in BOOLEAN /\ sync \subseteq Types /\ row \in G!Lists
    BY RegTypes DEF RegInv, G!TypeOK
  <1>1. ASSUME NEW p \in {"list", "create"}, NEW others \in [PageJobs -> WriteRow],
               \A i \in PageJobs : others[i] \in {job[i], G!NoJob},
               G!GoTo(p, others)
        PROVE  RegInv'
    <2>1. /\ page' = p /\ G!Reads /\ open' = [i \in PickOpens |-> G!NotOpening]
          /\ dlg' = G!NoDialog /\ form' = G!NewForm
          /\ job' = [i \in PageJobs |-> [others[i] EXCEPT !.mine = FALSE]]
          /\ del' = None /\ prompt' = None /\ syncing' = FALSE /\ sync' = {}
          /\ UNCHANGED <<db, past>>
      BY <1>1 DEF G!GoTo
    <2>2. \A i \in PageJobs : /\ [others[i] EXCEPT !.mine = FALSE] \in WriteRow
                              /\ [others[i] EXCEPT !.mine = FALSE].kind = others[i].kind
                              /\ [others[i] EXCEPT !.mine = FALSE].for = others[i].for
      BY DEF WriteRow
    <2>3. job' \in [PageJobs -> WriteRow] /\ \A i \in PageJobs :
            job'[i].kind = others[i].kind /\ job'[i].for = others[i].for
      BY <2>1, <2>2
    <2>4. JobsKnown'
      BY <1>1, <2>1, <2>3, EmptyTypes DEF RegInv, JobsKnown, OfItsType
    <2>5. /\ open' \in [PickOpens -> OpenRow] /\ OpensKnown'
      BY <2>1, EmptyTypes DEF OpensKnown
    <2>6. dlg' \in TypeDialog /\ DialogKnown' /\ form' \in FormRow /\ OneUpdate'
      BY <2>1, EmptyTypes DEF DialogKnown, OneUpdate
    <2>7. row' \in G!Lists /\ Known(row)'
      BY <2>1, ReadStep
    <2>8. QED
      BY <1>a, <2>1, <2>3, <2>4, <2>5, <2>6, <2>7, PageAloneStep
  <1>2. CASE G!OpenForm \/ G!Leave
    BY <1>1, <1>2, <1>a DEF G!OpenForm, G!Leave
  <1>3. ASSUME NEW j \in PageJobs, G!Created(j)
        PROVE  RegInv'
    <2> DEFINE others == [job EXCEPT ![j] = G!NoJob]
    <2>1. /\ others \in [PageJobs -> WriteRow]
          /\ \A i \in PageJobs : others[i] = IF i = j THEN G!NoJob ELSE job[i]
      BY <1>a, EmptyTypes
    <2>2. CASE page = "create"
      <3>1. G!GoTo("list", others)
        BY <1>3, <2>2 DEF G!Created
      <3> HIDE DEF others
      <3>2. QED
        BY <1>1, <2>1, <3>1
    <2>3. CASE page # "create"
      <3>1. /\ job' = others
            /\ UNCHANGED <<page, db, past, row, open, dlg, form, del, prompt, syncing, sync>>
        BY <1>3, <2>3 DEF G!Created
      <3> HIDE DEF others
      <3>2. JobsKnown'
        BY <2>1, <3>1, JobsGoOn
      <3>3. QED
        BY <1>a, <2>1, <3>1, <3>2, StaysKnown, PageAloneStep
    <2>4. QED
      BY <2>2, <2>3
  <1>4. QED
    BY <1>2, <1>3

LEMMA RegInvStep ==
  ASSUME RegInv, [G!Next]_vars
  PROVE  RegInv'
  <1>1. CASE UNCHANGED vars
    <2>1. UNCHANGED <<page, db, past, row, open, dlg, form, job, del, prompt, syncing, sync>>
      BY <1>1 DEF vars
    <2>2. G!TypeOK'
      BY <2>1 DEF RegInv, G!TypeOK
    <2>3. QED
      BY <2>1, <2>2 DEF RegInv, Known, OpensKnown, DialogKnown, JobsKnown, OneUpdate, OfItsType
  <1>2. QED
    BY <1>1, OpenStep, RegDialogStep, RegSendStep, CommitStep, WriteEndsStep, SyncStep,
       RegPageStep
    DEF G!Next

LEMMA RegInvSuffices ==
  ASSUME RegInv
  PROVE  G!SavesItsOwnClients /\ G!StartsFromServer /\ G!OneSync
  <1>1. G!SavesItsOwnClients /\ G!StartsFromServer
    BY DEF RegInv, JobsKnown, OfItsType, G!SavesItsOwnClients, G!StartsFromServer, G!Saving
  <1>2. G!OneSync
    <2>1. \A s \in sync : sync = {s}
      BY DEF RegInv, OneUpdate
    <2>2. Cardinality(sync) <= 1
      BY <2>1, FS_EmptySet, FS_Singleton
    <2>3. G!Cardinality(sync) = Cardinality(sync)
      BY DEF G!Cardinality, Cardinality
    <2>4. QED
      BY <2>2, <2>3 DEF G!OneSync
  <1>3. QED
    BY <1>1, <1>2

---------------------------------------------------------------------------
\* Where only openings are at stake: an open dialog, and a save, are filled for
\* their account type.
OpeningsInv ==
  /\ dlg.type # None => dlg.filled = dlg.type
  /\ job = [j \in PageJobs |-> [kind |-> job[j].kind, st |-> job[j].st,
                                mine |-> job[j].mine, for |-> job[j].for]]
  /\ H!SavesItsOwnClients

LEMMA OpeningsInit == H!Init => OpeningsInv
  <1> SUFFICES ASSUME H!Init
               PROVE  OpeningsInv
    OBVIOUS
  <1>1. dlg.type = None
    BY DEF H!Init, H!NoDialog
  <1>2. /\ job = [j \in PageJobs |-> H!NoJob]
        /\ H!NoJob = [kind |-> H!NoJob.kind, st |-> H!NoJob.st,
                      mine |-> H!NoJob.mine, for |-> H!NoJob.for]
        /\ H!NoJob.kind = "none"
    BY DEF H!Init, H!NoJob
  <1>3. QED
    BY <1>1, <1>2 DEF OpeningsInv, H!SavesItsOwnClients, H!Saving

\* Saves that are over, go on or lose their page.
LEMMA OpeningsGoOn ==
  ASSUME OpeningsInv, NEW f, job' = [j \in PageJobs |-> f[j]],
         \A j \in PageJobs :
           \/ f[j] = H!NoJob
           \/ f[j] = job[j]
           \/ f[j] = [job[j] EXCEPT !.mine = FALSE]
           \/ \E st \in {"done", "reload"} : f[j] = [job[j] EXCEPT !.st = st]
           \/ f[j] = [H!NoJob EXCEPT !.mine = FALSE],
         dlg' = dlg \/ dlg' = H!NoDialog
  PROVE  OpeningsInv'
  <1>1. ASSUME NEW j \in PageJobs
        PROVE  /\ f[j] = [kind |-> f[j].kind, st |-> f[j].st, mine |-> f[j].mine, for |-> f[j].for]
               /\ f[j].kind = "save" => f[j].kind = job[j].kind /\ f[j].for = job[j].for
    <2> DEFINE q == job[j]
    <2>1. q = [kind |-> q.kind, st |-> q.st, mine |-> q.mine, for |-> q.for]
      BY DEF OpeningsInv
    <2>2. H!NoJob = [kind |-> "none", st |-> "sent", mine |-> FALSE, for |-> H!NoDialog]
      BY DEF H!NoJob
    <2> HIDE DEF q
    <2>3. CASE f[j] = H!NoJob \/ f[j] = q
      BY <2>1, <2>2, <2>3 DEF q
    <2>4. CASE f[j] = [q EXCEPT !.mine = FALSE]
      <3>1. f[j] = [kind |-> q.kind, st |-> q.st, mine |-> FALSE, for |-> q.for]
        BY <2>1, <2>4
      <3>2. QED
        BY <3>1 DEF q
    <2>5. ASSUME NEW st \in {"done", "reload"}, f[j] = [q EXCEPT !.st = st]
          PROVE  /\ f[j] = [kind |-> f[j].kind, st |-> f[j].st, mine |-> f[j].mine,
                            for |-> f[j].for]
                 /\ f[j].kind = q.kind /\ f[j].for = q.for
      <3>1. f[j] = [kind |-> q.kind, st |-> st, mine |-> q.mine, for |-> q.for]
        BY <2>1, <2>5
      <3>2. QED
        BY <3>1
    <2>6. CASE f[j] = [H!NoJob EXCEPT !.mine = FALSE]
      <3>1. f[j] = [kind |-> "none", st |-> "sent", mine |-> FALSE, for |-> H!NoDialog]
        BY <2>2, <2>6
      <3>2. QED
        BY <3>1
    <2>7. QED
      BY <2>3, <2>4, <2>5, <2>6 DEF q
  <1>2. dlg'.type # None => dlg'.filled = dlg'.type
    BY DEF OpeningsInv, H!NoDialog
  <1>3. QED
    BY <1>1, <1>2 DEF OpeningsInv, H!SavesItsOwnClients, H!Saving

LEMMA OpeningsStep ==
  ASSUME OpeningsInv, [H!Next]_vars
  PROVE  OpeningsInv'
  <1>1. ASSUME UNCHANGED job, dlg' = dlg \/ dlg' = H!NoDialog
        PROVE  OpeningsInv'
    BY <1>1 DEF OpeningsInv, H!SavesItsOwnClients, H!Saving, H!NoDialog
  <1>2. CASE \/ \E i \in Opens, t \in Types : H!OpenRow(i, t)
             \/ H!CloseDialog \/ (\E t \in Types : H!AskDelete(t)) \/ H!CancelDelete
             \/ H!CancelSync \/ H!ConfirmSync \/ (\E t \in sync : H!SyncEnds(t))
             \/ H!FillForm \/ UNCHANGED vars
    BY <1>1, <1>2 DEF H!OpenRow, H!CloseDialog, H!AskDelete, H!CancelDelete, H!CancelSync,
                      H!ConfirmSync, H!SyncEnds, H!FillForm, vars
  <1>3. ASSUME NEW i \in Opens, NEW c, H!Opened(i, c)
        PROVE  OpeningsInv'
    <2>1. UNCHANGED job /\ dlg'.type = open[i].type /\ dlg'.filled = open[i].type
      BY <1>3 DEF H!Opened, H!Filled
    <2>2. QED
      BY <2>1 DEF OpeningsInv, H!SavesItsOwnClients, H!Saving
  <1>4. ASSUME NEW i \in Opens, H!DetailsAnswer(i) \/ H!DetailsFail(i)
        PROVE  OpeningsInv'
    BY <1>3, <1>4 DEF H!DetailsAnswer, H!DetailsFail
  <1>5. ASSUME NEW j \in PageJobs, NEW k, NEW d, H!Send(j, k, d),
               k = "save" => d.filled = d.type
        PROVE  OpeningsInv'
    <2> DEFINE r == [kind |-> k, st |-> "sent", mine |-> TRUE, for |-> d]
    <2>1. job' = [job EXCEPT ![j] = r] /\ dlg' = dlg
      BY <1>5 DEF H!Send
    <2>2. /\ r = [kind |-> r.kind, st |-> r.st, mine |-> r.mine, for |-> r.for]
          /\ r.kind = k /\ r.for = d
      OBVIOUS
    <2> HIDE DEF r
    <2>3. job' = [i \in PageJobs |-> IF i = j THEN r ELSE job[i]]
      BY <2>1 DEF OpeningsInv
    <2>4. QED
      BY <1>5, <2>1, <2>2, <2>3 DEF OpeningsInv, H!SavesItsOwnClients, H!Saving
  <1>6. ASSUME NEW j \in PageJobs, H!Save(j) \/ H!Delete(j) \/ H!Create(j)
        PROVE  OpeningsInv'
    <2>1. CASE H!Save(j)
      BY <1>5, <2>1 DEF H!Save, OpeningsInv
    <2>2. CASE H!Delete(j) \/ H!Create(j)
      BY <1>5, <2>2 DEF H!Delete, H!Create
    <2>3. QED
      BY <1>6, <2>1, <2>2
  <1>7. ASSUME NEW j \in PageJobs, H!Commit(j) \/ H!Answered(j)
        PROVE  OpeningsInv'
    <2>1. PICK st \in {"done", "reload"} : job' = [job EXCEPT ![j] = [job[j] EXCEPT !.st = st]]
      BY <1>7 DEF H!Commit, H!Answered
    <2>2. job' = [i \in PageJobs |-> IF i = j THEN [job[j] EXCEPT !.st = st] ELSE job[i]]
      BY <2>1 DEF OpeningsInv
    <2>3. dlg' = dlg
      BY <1>7 DEF H!Commit, H!Answered
    <2> DEFINE f == [i \in PageJobs |-> IF i = j THEN [job[j] EXCEPT !.st = st] ELSE job[i]]
    <2>4. \A i \in PageJobs : f[i] = IF i = j THEN [job[j] EXCEPT !.st = st] ELSE job[i]
      OBVIOUS
    <2>5. job' = [i \in PageJobs |-> f[i]]
      BY <2>2
    <2> HIDE DEF f
    <2>6. QED
      BY <2>3, <2>4, <2>5, OpeningsGoOn
  <1>8. ASSUME NEW j \in PageJobs, H!Reloaded(j) \/ H!Refused(j)
        PROVE  OpeningsInv'
    <2>1. job' = [job EXCEPT ![j] = H!NoJob] /\ (dlg' = dlg \/ dlg' = H!NoDialog)
      BY <1>8 DEF H!Reloaded, H!Refused, H!Ends
    <2> DEFINE f == [i \in PageJobs |-> IF i = j THEN H!NoJob ELSE job[i]]
    <2>2. \A i \in PageJobs : f[i] = IF i = j THEN H!NoJob ELSE job[i]
      OBVIOUS
    <2>3. job' = [i \in PageJobs |-> f[i]]
      BY <2>1 DEF OpeningsInv
    <2> HIDE DEF f
    <2>4. QED
      BY <2>1, <2>2, <2>3, OpeningsGoOn
  <1>9. ASSUME NEW p, NEW others, H!GoTo(p, others),
               \A i \in PageJobs : others[i] = job[i] \/ others[i] = H!NoJob
        PROVE  OpeningsInv'
    <2> DEFINE f == [i \in PageJobs |-> [others[i] EXCEPT !.mine = FALSE]]
    <2>1. job' = f /\ dlg' = H!NoDialog
      BY <1>9 DEF H!GoTo
    <2>2. \A i \in PageJobs : f[i] = [others[i] EXCEPT !.mine = FALSE]
      OBVIOUS
    <2>3. job' = [i \in PageJobs |-> f[i]]
      BY <2>1
    <2> HIDE DEF f
    <2>4. \A i \in PageJobs : \/ f[i] = [job[i] EXCEPT !.mine = FALSE]
                            \/ f[i] = [H!NoJob EXCEPT !.mine = FALSE]
      <3>1. ASSUME NEW i \in PageJobs
            PROVE  \/ f[i] = [job[i] EXCEPT !.mine = FALSE]
                   \/ f[i] = [H!NoJob EXCEPT !.mine = FALSE]
        <4>1. CASE others[i] = job[i]
          BY <2>2, <4>1
        <4>2. CASE others[i] = H!NoJob
          BY <2>2, <4>2
        <4>3. QED
          BY <1>9, <4>1, <4>2
      <3>2. QED
        BY <3>1
    <2>5. QED
      BY <2>1, <2>3, <2>4, OpeningsGoOn
  <1>10. CASE H!OpenForm \/ H!Leave
    BY <1>9, <1>10 DEF H!OpenForm, H!Leave
  <1>11. ASSUME NEW j \in PageJobs, H!Created(j)
         PROVE  OpeningsInv'
    <2> DEFINE f == [i \in PageJobs |-> IF i = j THEN H!NoJob ELSE job[i]]
    <2>1. \A i \in PageJobs : f[i] = IF i = j THEN H!NoJob ELSE job[i]
      OBVIOUS
    <2>2. [job EXCEPT ![j] = H!NoJob] = f /\ f = [i \in PageJobs |-> f[i]]
      BY DEF OpeningsInv
    <2>3. H!GoTo("list", f) \/ (job' = f /\ dlg' = dlg)
      BY <1>11, <2>2 DEF H!Created
    <2> HIDE DEF f
    <2>4. CASE H!GoTo("list", f)
      BY <1>9, <2>1, <2>4
    <2>5. CASE job' = f /\ dlg' = dlg
      BY <2>1, <2>2, <2>5, OpeningsGoOn
    <2>6. QED
      BY <2>3, <2>4, <2>5
  <1>12. QED
    BY <1>2, <1>4, <1>6, <1>7, <1>8, <1>10, <1>11 DEF H!Next

\* The behaviours that are about the registration pages keep RegInv.
RegistrationKept == which = "registration" => RegInv

LEMMA RegistrationKeptInit == Init => RegistrationKept
  BY RegInvInit DEF Init, RegistrationKept

LEMMA RegistrationKeptStep ==
  ASSUME RegistrationKept, [Next]_vars
  PROVE  RegistrationKept'
  BY ScreenSteps, RegInvStep DEF RegistrationKept

\* The behaviours in which several rows are opened keep OpeningsInv.
OpeningsKept == which = "openings" => OpeningsInv

LEMMA OpeningsKeptInit == Init => OpeningsKept
  BY OpeningsInit DEF Init, OpeningsKept

LEMMA OpeningsKeptStep ==
  ASSUME OpeningsKept, [Next]_vars
  PROVE  OpeningsKept'
  BY ScreenSteps, OpeningsStep DEF OpeningsKept

\* For any account types, clients, openings and unanswered requests the pages
\* keep RegInv (Registration.jsx, RegistrationConfigModal.jsx).
THEOREM RegistrationInvariant == Spec => []RegistrationKept
  BY RegistrationKeptInit, RegistrationKeptStep, PTL DEF Spec

\* However many rows are being opened the dialog keeps OpeningsInv
\* (Registration.jsx).
THEOREM OpeningsInvariant == Spec => []OpeningsKept
  BY OpeningsKeptInit, OpeningsKeptStep, PTL DEF Spec

\* An account type is saved with the clients picked for it, whatever rows were
\* opened and whenever their details came (RegistrationConfigModal.jsx).
THEOREM ClientsAreOwn == Spec => []SavesItsOwnClients
  <1>1. RegistrationKept /\ OpeningsKept => SavesItsOwnClients
    BY RegInvSuffices DEF RegistrationKept, OpeningsKept, OpeningsInv, SavesItsOwnClients
  <1>2. QED
    BY <1>1, RegistrationInvariant, OpeningsInvariant, PTL

\* A save starts from clients the server had for the account type, also when
\* its details did not come (handleViewConfig of Registration.jsx).
THEOREM StartsHold == Spec => []StartsFromServer
  <1>1. RegistrationKept => StartsFromServer
    BY RegInvSuffices DEF RegistrationKept, StartsFromServer
  <1>2. QED
    BY <1>1, RegistrationInvariant, PTL

\* The form that adds a user makes one call at a time, and so does the prompt
\* that updates the users of a type (AddUserForm.jsx, Registration.jsx).
THEOREM OneCallHolds == Spec => []OneCall
  <1>1. AdditionsKept /\ RegistrationKept => OneCall
    BY AddInvSuffices, RegInvSuffices DEF AdditionsKept, RegistrationKept, OneCall
  <1>2. QED
    BY <1>1, AddInvariant, RegistrationInvariant, PTL

---------------------------------------------------------------------------
(***************************************************************************)
(* The audit log: its rows are those of the choice that was not given up,  *)
(* and its details those of the log they were asked for.                   *)
(***************************************************************************)
\* The request that was not cancelled is for the choice on the screen; while
\* there is one the list loads and its rows are hidden.
RequestIsChosen ==
  request # V!NoChoice => loading /\ veiled /\ (~due => request = choice)

\* Unless dialogs overlapped, the details awaited are those of the open one.
AwaitsTheChosen ==
  detail.open /\ slips = {} =>
    \A f \in Fetches : fetch[f] # V!NoLog => fetch[f] = detail.of

LogInv ==
  /\ V!TypeOK /\ V!ListFits /\ V!ShowsTheChosen
  /\ RequestIsChosen /\ AwaitsTheChosen

LEMMA LogInvInit == V!Init => LogInv
  BY DEF V!Init, LogInv, V!TypeOK, V!ListFits, V!ShowsTheChosen, RequestIsChosen,
         AwaitsTheChosen, V!Choices, V!NoChoice, V!LogTypes, V!Queries, V!Pages,
         V!NoDetail, V!NoLog

\* A step of the list alone.
LEMMA ListStep ==
  ASSUME LogInv, UNCHANGED <<detail, fetch, slips>>,
         V!TypeOK', V!ListFits', RequestIsChosen'
  PROVE  LogInv'
  BY DEF LogInv, V!ShowsTheChosen, AwaitsTheChosen

LEMMA LogInvStep ==
  ASSUME LogInv, [V!Next]_vars
  PROVE  LogInv'
  <1> USE DEF LogInv
  <1>0. V!NoChoice \notin V!Choices /\ \A c \in V!Choices : c.page \in V!Pages
    BY DEF V!NoChoice, V!Choices, V!LogTypes, V!Pages
  <1>1. CASE V!LoadLogs
    BY <1>0, <1>1, ListStep DEF V!LoadLogs, V!TypeOK, V!ListFits, RequestIsChosen
  <1>2. ASSUME NEW last \in V!Pages, V!Clamp(last), request # V!NoChoice, ~due,
               shown' \in {request, V!NoChoice}, request' = V!NoChoice, loading' = FALSE,
               UNCHANGED <<may, veiled, detail, fetch, slips>>
        PROVE  LogInv'
    <2>1. /\ choice \in V!Choices /\ pages' = last /\ request = choice
          /\ choice' = [choice EXCEPT !.page = IF @ > last THEN last ELSE @]
          /\ due' \in BOOLEAN /\ (~due' => ~(choice.page > last))
      BY <1>2 DEF V!Clamp, V!TypeOK, RequestIsChosen
    <2>2. choice' \in V!Choices /\ (~due' => choice' = choice /\ choice.page <= last)
      <3>1. choice.page \in {1, 2} /\ last \in {1, 2}
        BY <2>1 DEF V!Choices, V!Pages
      <3>2. CASE choice.page > last
        BY <2>1, <3>1, <3>2 DEF V!Choices, V!Pages
      <3>3. CASE ~(choice.page > last)
        <4>1. choice' = choice
          BY <2>1, <3>3 DEF V!Choices
        <4>2. QED
          BY <2>1, <3>1, <3>3, <4>1
      <3>4. QED
        BY <3>2, <3>3
    <2>3. V!TypeOK'
      BY <1>2, <2>1, <2>2 DEF V!TypeOK
    <2>4. V!ListFits' /\ RequestIsChosen'
      BY <1>2, <2>1, <2>2 DEF V!ListFits, RequestIsChosen
    <2>5. QED
      BY <1>2, <2>3, <2>4, ListStep
  <1>3. CASE V!Answer \/ V!Fail
    BY <1>2, <1>3 DEF V!Answer, V!Fail, V!Pages
  <1>4. CASE V!Unveil
    BY <1>4, ListStep DEF V!Unveil, V!TypeOK, V!ListFits, RequestIsChosen
  <1>5. ASSUME NEW c \in V!Choices, V!Choose(c), detail' \in {detail, V!NoDetail}
        PROVE  LogInv'
    <2>1. V!TypeOK'
      <3>1. V!NoDetail \in [open : BOOLEAN, of : V!Logs \cup {V!NoLog},
                            log : V!Logs \cup {V!NoLog}, waits : BOOLEAN]
        BY DEF V!NoDetail
      <3>2. due' \in BOOLEAN
        BY <1>5 DEF V!Choose
      <3>3. QED
        BY <1>5, <3>1, <3>2 DEF V!Choose, V!TypeOK
    <2>2. V!ListFits' /\ RequestIsChosen'
      BY <1>5 DEF V!Choose, V!ListFits, RequestIsChosen
    <2>3. V!ShowsTheChosen' /\ AwaitsTheChosen'
      BY <1>5 DEF V!Choose, V!ShowsTheChosen, AwaitsTheChosen, V!NoDetail
    <2>4. QED
      BY <2>1, <2>2, <2>3
  <1>6. ASSUME NEW t \in V!LogTypes, V!ChangeType(t)
        PROVE  LogInv'
    <2>1. [choice EXCEPT !.type = t, !.page = 1] \in V!Choices
      BY DEF V!TypeOK, V!Choices, V!Pages
    <2>2. QED
      BY <1>5, <1>6, <2>1 DEF V!ChangeType
  <1>7. ASSUME NEW q \in V!Queries, V!Search(q) \/ V!Sort(q)
        PROVE  LogInv'
    <2>1. /\ [choice EXCEPT !.query = q, !.page = 1] \in V!Choices
          /\ [choice EXCEPT !.query = q] \in V!Choices
      BY DEF V!TypeOK, V!Choices, V!Pages
    <2>2. QED
      BY <1>5, <1>7, <2>1 DEF V!Search, V!Sort
  <1>8. ASSUME NEW p \in V!Pages, V!TurnPage(p)
        PROVE  LogInv'
    <2>1. [choice EXCEPT !.page = p] \in V!Choices
      BY DEF V!TypeOK, V!Choices
    <2>2. QED
      BY <1>5, <1>8, <2>1 DEF V!TurnPage
  <1>9. ASSUME NEW l \in V!Logs, NEW f \in Fetches, V!View(l, f)
        PROVE  LogInv'
    <2>1. ~veiled /\ ~due /\ l.type = shown.type
      BY <1>9 DEF V!View, V!Rows
    <2>2. request = V!NoChoice /\ shown # V!NoChoice
      BY <2>1 DEF RequestIsChosen, V!Logs, V!LogTypes, V!NoChoice
    <2>3. shown = choice
      BY <2>1, <2>2 DEF V!ListFits
    <2>4. [l EXCEPT !.type = choice.type] = l
      BY <2>1, <2>3 DEF V!Logs
    <2>5. /\ detail' = [open |-> TRUE, of |-> l, log |-> l, waits |-> TRUE]
          /\ fetch' = [fetch EXCEPT ![f] = l] /\ fetch \in [Fetches -> V!Logs \cup {V!NoLog}]
          /\ slips' = IF \E g \in Fetches : fetch[g] # V!NoLog THEN {"overlap"} ELSE slips
          /\ UNCHANGED <<may, choice, due, request, shown, pages, loading, veiled>>
          /\ l # V!NoLog
      <3>1. fetch \in [Fetches -> V!Logs \cup {V!NoLog}]
        BY DEF V!TypeOK
      <3>2. l # V!NoLog
        BY DEF V!Logs, V!LogTypes, V!NoLog
      <3>3. QED
        BY <1>9, <2>4, <3>1, <3>2 DEF V!View
    <2>6. V!TypeOK'
      BY <2>5 DEF V!TypeOK
    <2>7. V!ListFits' /\ RequestIsChosen'
      BY <2>5 DEF V!ListFits, RequestIsChosen
    <2>8. V!ShowsTheChosen' /\ AwaitsTheChosen'
      BY <2>5 DEF V!ShowsTheChosen, AwaitsTheChosen
    <2>9. QED
      BY <2>6, <2>7, <2>8
  <1>10. ASSUME NEW f \in Fetches, V!DetailAnswer(f) \/ V!DetailFails(f)
         PROVE  LogInv'
    <2>1. /\ fetch[f] # V!NoLog /\ fetch' = [fetch EXCEPT ![f] = V!NoLog]
          /\ fetch \in [Fetches -> V!Logs \cup {V!NoLog}]
          /\ UNCHANGED <<may, choice, due, request, shown, pages, loading, veiled, slips>>
          /\ detail'.open = detail.open /\ detail'.of = detail.of /\ ~detail'.waits
          /\ detail'.log \in {detail.log, fetch[f]}
          /\ detail' \in [open : BOOLEAN, of : V!Logs \cup {V!NoLog},
                          log : V!Logs \cup {V!NoLog}, waits : BOOLEAN]
      BY <1>10 DEF V!DetailAnswer, V!DetailFails, V!TypeOK
    <2>2. V!TypeOK'
      BY <2>1 DEF V!TypeOK
    <2>3. V!ListFits' /\ RequestIsChosen'
      BY <2>1 DEF V!ListFits, RequestIsChosen
    <2>4. V!ShowsTheChosen' /\ AwaitsTheChosen'
      BY <2>1 DEF V!ShowsTheChosen, AwaitsTheChosen
    <2>5. QED
      BY <2>2, <2>3, <2>4
  <1>11. CASE V!CloseDetail
    <2>1. /\ ~detail'.open /\ detail' \in [open : BOOLEAN, of : V!Logs \cup {V!NoLog},
                          log : V!Logs \cup {V!NoLog}, waits : BOOLEAN]
          /\ UNCHANGED <<may, choice, due, request, shown, pages, loading, veiled, fetch, slips>>
      BY <1>11 DEF V!CloseDetail, V!NoDetail
    <2>2. QED
      BY <2>1
      DEF V!TypeOK, V!ListFits, RequestIsChosen, V!ShowsTheChosen, AwaitsTheChosen
  <1>12. CASE UNCHANGED vars
    BY <1>12
    DEF vars, V!TypeOK, V!ListFits, RequestIsChosen, V!ShowsTheChosen, AwaitsTheChosen
  <1>13. QED
    BY <1>1, <1>3, <1>4, <1>6, <1>7, <1>8, <1>9, <1>10, <1>11, <1>12 DEF V!Next

\* The behaviours that are about the audit log keep LogInv.
LogsKept == which = "logs" => LogInv

LEMMA LogsKeptInit == Init => LogsKept
  BY LogInvInit DEF Init, LogsKept

LEMMA LogsKeptStep ==
  ASSUME LogsKept, [Next]_vars
  PROVE  LogsKept'
  BY ScreenSteps, LogInvStep DEF LogsKept

\* For any number of unanswered requests the page keeps LogInv (AuditLogs.jsx).
THEOREM LogInvariant == Spec => []LogsKept
  BY LogsKeptInit, LogsKeptStep, PTL DEF Spec

\* The user dialog is about the user of its row (UserPoolModal.jsx), and the
\* details of a log are those of the log chosen (AuditLogs.jsx).
THEOREM RowsHold == Spec => []EditsTheRow
  <1>1. UsersKept /\ LogsKept => EditsTheRow
    BY UserInvSuffices DEF UsersKept, LogsKept, LogInv, EditsTheRow
  <1>2. QED
    BY <1>1, UserInvariant, LogInvariant, PTL
=============================================================================
