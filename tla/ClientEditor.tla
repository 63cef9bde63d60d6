---------------------------- MODULE ClientEditor ----------------------------
(***************************************************************************)
(* The client pages of the console: the edit dialog with its details       *)
(* request (AppClientModal.jsx), the wizard that creates a client          *)
(* (AppClientCreateForm.jsx) with its logo (use-file-upload.js), and the   *)
(* secrets that are told once (AppClient.jsx, ClientSecretModal.jsx).      *)
(*                                                                         *)
(* The fields of a form are abstracted to the client whose values they     *)
(* hold; a secret is the number of secrets made before it, plus one.       *)
(***************************************************************************)
EXTENDS ConsoleData, FiniteSets

VARIABLES
  page,     \* the list of clients, or the page that creates one
  wizard,   \* its step, the steps whose fields are valid, the logo chosen
  edit,     \* the edit dialog
  confirm,  \* the client whose secret the confirmation dialog is about
  modal,    \* the dialog that shows a secret
  copied,   \* hasCopiedSecret
  job,      \* the requests
  secrets,  \* the secrets the server has made
  seen,     \* the secrets the answers have told
  saved,    \* the secrets copied
  overlap   \* requests for two secrets were unanswered at once

vars == <<page, wizard, edit, confirm, modal, copied, job, secrets, seen, saved, overlap>>

NoJob  == [what |-> "none", client |-> None, of |-> None, secret |-> 0]
NoEdit == [row |-> None, of |-> None, loading |-> FALSE]
Closed == [open |-> FALSE, secret |-> 0, loading |-> FALSE, hasError |-> FALSE]
Fresh  == [step |-> 1, valid |-> {3}, logo |-> "none"]

\* setSecretModal: the dialog waits for a secret, shows it, or an error.
SecretDialogs == [open : BOOLEAN, secret : 0..MaxSecrets, loading : BOOLEAN,
                  hasError : BOOLEAN]

TypeOK ==
  /\ page \in {"list", "create"}
  /\ wizard \in [step : 1..3, valid : SUBSET (1..3), logo : {"none", "file"}]
  /\ edit \in [row : Clients \cup {None}, of : Clients \cup {None}, loading : BOOLEAN]
  /\ confirm \in Clients \cup {None}
  /\ modal \in SecretDialogs
  /\ copied \in BOOLEAN
  /\ job \in [Jobs -> [what : {"none", "details", "left", "save", "rotate", "create"},
                       client : Clients \cup {None, New},
                       of : Clients \cup {None}, secret : 0..MaxSecrets]]
  /\ secrets \in 0..MaxSecrets
  /\ seen \subseteq 1..MaxSecrets
  /\ saved \subseteq 1..MaxSecrets
  /\ overlap \in BOOLEAN

Init ==
  /\ page = "list" /\ wizard = Fresh
  /\ edit = NoEdit /\ confirm = None
  /\ modal = Closed /\ copied = FALSE
  /\ job = [j \in Jobs |-> NoJob]
  /\ secrets = 0 /\ seen = {} /\ saved = {} /\ overlap = FALSE

---------------------------------------------------------------------------
Idle(j) == job[j].what = "none"
Telling == {j \in Jobs : job[j].what \in {"rotate", "create"}}

OnCreatePage == page = "create"

\* Nothing lies over the list.
Bare == page = "list" /\ edit.row = None /\ confirm = None /\ ~modal.open

secretVars == <<copied, secrets, seen, saved, overlap>>

---------------------------------------------------------------------------
(***************************************************************************)
(* The edit dialog.                                                        *)
(***************************************************************************)
\* The fields are filled from the row of the list and again from the details;
\* the button that saves waits for them.
OpenEdit(c, j) ==
  /\ Bare /\ Idle(j)
  /\ edit' = [row |-> c, of |-> c, loading |-> TRUE]
  /\ job' = [job EXCEPT ![j] = [NoJob EXCEPT !.what = "details", !.client = c]]
  /\ UNCHANGED <<page, wizard, confirm, modal, secretVars>>

\* Closing cancels the details request of this opening.
KeptOn(q) == q
Cancelled(q) == IF q.what = "details" THEN [q EXCEPT !.what = "left"] ELSE q

LeftAnswer(j) ==
  /\ job[j].what = "left"
  /\ job' = [job EXCEPT ![j] = NoJob]
  /\ UNCHANGED <<page, wizard, edit, confirm, modal, secretVars>>

CloseEdit ==
  /\ edit.row # None
  /\ edit' = [edit EXCEPT !.row = None]
  /\ job' = [j \in Jobs |-> Cancelled(job[j])]
  /\ UNCHANGED <<page, wizard, confirm, modal, secretVars>>

DetailsAnswer(j) ==
  /\ job[j].what = "details"
  /\ job' = [job EXCEPT ![j] = NoJob]
  /\ edit' \in {[edit EXCEPT !.loading = FALSE, !.of = job[j].client],
                [edit EXCEPT !.loading = FALSE]}
  /\ UNCHANGED <<page, wizard, confirm, modal, secretVars>>

\* A valid form is sent; nothing stops it from being sent again.
SubmitEdit(j) ==
  /\ edit.row # None /\ ~edit.loading /\ Idle(j)
  /\ job' = [job EXCEPT ![j] =
       [NoJob EXCEPT !.what = "save", !.client = edit.row, !.of = edit.of]]
  /\ UNCHANGED <<page, wizard, edit, confirm, modal, secretVars>>

\* The dialog closes, for whichever client it is open by now.
SaveAnswer(j) ==
  /\ job[j].what = "save"
  /\ \/ /\ edit' = [edit EXCEPT !.row = None]
        /\ job' = [[k \in Jobs |-> IF edit.row # None THEN Cancelled(job[k]) ELSE job[k]]
                     EXCEPT ![j] = NoJob]
     \/ job' = [job EXCEPT ![j] = NoJob] /\ UNCHANGED edit
  /\ UNCHANGED <<page, wizard, confirm, modal, secretVars>>

---------------------------------------------------------------------------
(***************************************************************************)
(* Rotating a secret.                                                      *)
(***************************************************************************)
AskRotate(c) ==
  /\ Bare
  /\ confirm' = c
  /\ UNCHANGED <<page, wizard, edit, modal, job, secretVars>>

CancelRotate ==
  /\ confirm # None /\ ~modal.open
  /\ confirm' = None
  /\ UNCHANGED <<page, wizard, edit, modal, job, secretVars>>

\* The confirmation stays open below the dialog that waits for the secret,
\* and its button stays enabled.
ConfirmRotate(j) ==
  /\ confirm # None /\ ~modal.open /\ Idle(j)
  /\ job' = [job EXCEPT ![j] = [NoJob EXCEPT !.what = "rotate", !.client = confirm]]
  /\ modal' = [Closed EXCEPT !.open = TRUE, !.loading = TRUE]
  /\ overlap' = (overlap \/ Telling # {})
  /\ UNCHANGED <<page, wizard, edit, confirm, copied, secrets, seen, saved>>

\* The server makes a secret for a rotation or for a new client.
MakeSecret(j) ==
  /\ j \in Telling /\ job[j].secret = 0 /\ secrets < MaxSecrets
  /\ secrets' = secrets + 1
  /\ job' = [job EXCEPT ![j].secret = secrets + 1]
  /\ UNCHANGED <<page, wizard, edit, confirm, modal, copied, seen, saved, overlap>>

Told(j) ==
  /\ modal' = [Closed EXCEPT !.open = TRUE, !.secret = job[j].secret]
  /\ seen' = seen \cup {job[j].secret}
  /\ job' = [job EXCEPT ![j] = NoJob]

Rotated(j) ==
  /\ job[j].what = "rotate" /\ job[j].secret # 0
  /\ Told(j)
  /\ confirm' = None
  /\ UNCHANGED <<page, wizard, edit, copied, secrets, saved, overlap>>

RotateFails(j) ==
  /\ job[j].what = "rotate"
  /\ modal' = [Closed EXCEPT !.open = TRUE, !.hasError = TRUE]
  /\ confirm' = None
  /\ job' = [job EXCEPT ![j] = NoJob]
  /\ UNCHANGED <<page, wizard, edit, secretVars>>

---------------------------------------------------------------------------
(***************************************************************************)
(* The dialog that shows a secret.                                         *)
(***************************************************************************)
CopySecret ==
  /\ modal.open /\ modal.secret # 0
  /\ copied' = TRUE
  /\ saved' = saved \cup {modal.secret}
  /\ UNCHANGED <<page, wizard, edit, confirm, modal, job, secrets, seen, overlap>>

\* A closed dialog forgets that its secret was copied.
AfterCloseKept == copied
AfterClose == FALSE

CloseSecret ==
  /\ modal.open
  /\ copied \/ modal.loading \/ modal.hasError
  /\ modal' = Closed
  /\ copied' = AfterClose
  /\ UNCHANGED <<page, wizard, edit, confirm, job, secrets, seen, saved, overlap>>

---------------------------------------------------------------------------
(***************************************************************************)
(* Creating a client.                                                      *)
(***************************************************************************)
\* The list is left: it shows no answer any more, not even a new secret.
Unheard(q) == IF q.what \in {"details", "save", "rotate"} THEN [q EXCEPT !.what = "left"] ELSE q

OpenCreate ==
  /\ Bare
  /\ page' = "create"
  /\ wizard' = Fresh
  /\ edit' = NoEdit
  /\ job' = [j \in Jobs |-> Unheard(job[j])]
  /\ UNCHANGED <<confirm, modal, secretVars>>

Wizard(w) ==
  /\ OnCreatePage
  /\ wizard' = w
  /\ UNCHANGED <<page, edit, confirm, modal, job, secretVars>>

\* Typing makes the fields of the step shown valid or not.
FillStep ==
  \E v \in {wizard.valid \cup {wizard.step}, wizard.valid \ {wizard.step}} :
    Wizard([wizard EXCEPT !.valid = v])

\* A new file takes the place of the old one; one that is refused only takes
\* the old one away.
AddFile ==
  /\ wizard.step = 1
  /\ \E logo \in {"none", "file"} : Wizard([wizard EXCEPT !.logo = logo])

RemoveFile == wizard.step = 1 /\ Wizard([wizard EXCEPT !.logo = "none"])

Valid(step) == step \in wizard.valid /\ (step = 1 => wizard.logo = "file")

NextStep ==
  /\ wizard.step < 3 /\ Valid(wizard.step)
  /\ Wizard([wizard EXCEPT !.step = @ + 1])

BackTo(s) == s < wizard.step /\ Wizard([wizard EXCEPT !.step = s])

CancelCreate ==
  /\ OnCreatePage /\ wizard.step = 1
  /\ page' = "list" /\ wizard' = Fresh
  /\ UNCHANGED <<edit, confirm, modal, job, secretVars>>

\* All steps are looked at again; nothing stops a second creation.
SubmitCreate(j) ==
  /\ OnCreatePage /\ wizard.step = 3 /\ Idle(j)
  /\ \A s \in 1..3 : Valid(s)
  /\ job' = [job EXCEPT ![j] = [NoJob EXCEPT !.what = "create", !.client = New]]
  /\ overlap' = (overlap \/ Telling # {})
  /\ UNCHANGED <<page, wizard, edit, confirm, modal, copied, secrets, seen, saved>>

Created(j) ==
  /\ job[j].what = "create" /\ job[j].secret # 0
  /\ Told(j)
  /\ page' = "list" /\ wizard' = Fresh
  /\ UNCHANGED <<edit, confirm, copied, secrets, saved, overlap>>

CreateFails(j) ==
  /\ job[j].what = "create"
  /\ job' = [job EXCEPT ![j] = NoJob]
  /\ UNCHANGED <<page, wizard, edit, confirm, modal, secretVars>>

Next ==
  \/ \E j \in Jobs :
       \/ \E c \in Clients : OpenEdit(c, j)
       \/ DetailsAnswer(j) \/ LeftAnswer(j) \/ SubmitEdit(j) \/ SaveAnswer(j)
       \/ ConfirmRotate(j) \/ MakeSecret(j) \/ Rotated(j) \/ RotateFails(j)
       \/ SubmitCreate(j) \/ Created(j) \/ CreateFails(j)
  \/ CloseEdit
  \/ \E c \in Clients : AskRotate(c)
  \/ CancelRotate \/ CopySecret \/ CloseSecret
  \/ OpenCreate \/ FillStep \/ AddFile \/ RemoveFile \/ NextStep
  \/ \E s \in 1..2 : BackTo(s)
  \/ CancelCreate

Spec == Init /\ [][Next]_vars

---------------------------------------------------------------------------
(***************************************************************************)
(* Properties.                                                             *)
(***************************************************************************)

\* "Shown only once. Save it securely.": a secret the server told is on the
\* screen until it has been copied.  (It is not when a second rotation or
\* creation was sent before the first was answered, which nothing prevents.)
SecretIsNotLost ==
  overlap \/ \A s \in seen : s \in saved \/ (modal.open /\ modal.secret = s)

\* Whatever details come late and whichever dialog was opened meanwhile, a
\* client is saved with its own fields.
SavesItsOwnFields ==
  \A j \in Jobs : job[j].what = "save" => job[j].of = job[j].client
===========================================================================
