----------------------------- MODULE UserCreate -----------------------------
(***************************************************************************)
(* The page that adds a user: the wizard (AddUserPage.jsx,                 *)
(* AddUserForm.jsx), the confirmation of an invitation                     *)
(* (InvitationConfirmModal.jsx) and the requests createUser (useUsers.js)  *)
(* makes: the account, the clients it may manage, the invitation.  An      *)
(* account on the server is the set of what has been done for it.          *)
(***************************************************************************)
EXTENDS ConsoleData, FiniteSets

VARIABLES
  page,     \* the form, the list of users, or another page
  form,     \* the wizard's fields; admin: the account type is System Administrator
  confirm,  \* the invitation is to be confirmed
  busy,     \* isSubmittingRef
  account,  \* by address, what the server has done
  job       \* the calls of createUser; mine: by the form on the screen

vars == <<page, form, confirm, busy, account, job>>

Parts == {"account", "clients", "invitation"}
NewForm == [step |-> 1, email |-> None, type |-> IF AdminView THEN "admin" ELSE "none",
            clients |-> FALSE, invites |-> FALSE, password |-> FALSE]
NoJob == [email |-> None, todo |-> {}, made |-> FALSE, wants |-> {}, mine |-> FALSE]

Forms == [step : {1, 2}, email : Emails \cup {None},
          type : {"none", "plain", "admin"}, clients : BOOLEAN,
          invites : BOOLEAN, password : BOOLEAN]

TypeOK ==
  /\ page \in {"form", "list", "away"}
  /\ form \in Forms
  /\ confirm \in BOOLEAN /\ busy \in BOOLEAN
  /\ account \in [Emails -> SUBSET Parts]
  /\ job \in [Jobs -> [email : Emails \cup {None}, todo : SUBSET Parts, made : BOOLEAN,
                       wants : SUBSET Parts, mine : BOOLEAN]]

Init ==
  /\ page = "list" /\ form = NewForm
  /\ confirm = FALSE /\ busy = FALSE
  /\ account = [e \in Emails |-> {}]
  /\ job = [j \in Jobs |-> NoJob]

---------------------------------------------------------------------------
Idle(j) == job[j].email = None
Disowned == [j \in Jobs |-> [job[j] EXCEPT !.mine = FALSE]]

\* The account types on offer, and the one whose clients and role are chosen.
Offered == {"plain", "admin"}
ChoosesAccess == form.type = "admin"

\* The page is on the screen, with nothing over it.
OnForm == page = "form" /\ ~confirm

Filled(f) ==
  /\ OnForm
  /\ form' = f
  /\ UNCHANGED <<page, confirm, busy, account, job>>

OpenForm ==
  /\ page # "form"
  /\ page' = "form" /\ form' = NewForm /\ busy' = FALSE
  /\ UNCHANGED <<confirm, account, job>>

\* The page is left by its Cancel button or by the menu; calls go on.
Leave ==
  /\ OnForm
  /\ \/ form.step = 1 /\ page' = "list"
     \/ page' = "away"
  /\ form' = NewForm /\ busy' = FALSE
  /\ job' = Disowned
  /\ UNCHANGED <<confirm, account>>

TypeEmail == form.step = 1 /\ \E e \in Emails \cup {None} : Filled([form EXCEPT !.email = e])

NextStep == form.step = 1 /\ form.email # None /\ Filled([form EXCEPT !.step = 2])
PreviousStep == form.step = 2 /\ Filled([form EXCEPT !.step = 1])

\* Another account type takes the clients and the role away.
ChooseType ==
  /\ form.step = 2 /\ ~AdminView
  /\ \E t \in Offered :
       Filled([form EXCEPT !.type = t, !.clients = @ /\ t = "admin"])

ChooseClients ==
  /\ form.step = 2 /\ ChoosesAccess
  /\ \E c \in BOOLEAN : Filled([form EXCEPT !.clients = c])

ChooseSetup == form.step = 2 /\ \E i \in BOOLEAN : Filled([form EXCEPT !.invites = i])

TypePassword ==
  /\ form.step = 2 /\ ~form.invites
  /\ \E v \in BOOLEAN : Filled([form EXCEPT !.password = v])

---------------------------------------------------------------------------
\* validateStepTwo, for somebody who may choose clients and roles.
Valid ==
  /\ form.type # "none"
  /\ ChoosesAccess => form.clients
  /\ form.invites \/ form.password

Wanted ==
  {"account"} \cup (IF form.clients THEN {"clients"} ELSE {})
              \cup (IF form.invites THEN {"invitation"} ELSE {})

MaySubmitAgain == TRUE
MaySubmit == ~busy

Send(j) ==
  /\ MaySubmit /\ Idle(j)
  /\ busy' = TRUE
  /\ job' = [job EXCEPT ![j] = [email |-> form.email, todo |-> Wanted, made |-> FALSE,
                                wants |-> Wanted, mine |-> TRUE]]

Submit(j) ==
  /\ OnForm /\ form.step = 2
  /\ Valid /\ ~form.invites
  /\ Send(j)
  /\ UNCHANGED <<page, form, confirm, account>>

AskInvitation ==
  /\ OnForm /\ form.step = 2 /\ ~busy
  /\ Valid /\ form.invites
  /\ confirm' = TRUE
  /\ UNCHANGED <<page, form, busy, account, job>>

CancelInvitation ==
  /\ confirm
  /\ confirm' = FALSE
  /\ UNCHANGED <<page, form, busy, account, job>>

ConfirmInvitation(j) ==
  /\ confirm
  /\ Send(j)
  /\ confirm' = FALSE
  /\ UNCHANGED <<page, form, account>>

---------------------------------------------------------------------------
\* The account comes first, the invitation last.
Current(todo) == IF "account" \in todo THEN "account"
                 ELSE IF "clients" \in todo THEN "clients" ELSE "invitation"

\* The account e once its part p is done.
Done(e, p) == [account EXCEPT ![e] = @ \cup {p}]

\* An address can have one account.
Accepts(e, p) == p # "account" \/ "account" \notin account[e]

Step(j) ==
  /\ job[j].todo # {}
  /\ LET e == job[j].email  p == Current(job[j].todo) IN
       /\ Accepts(e, p)
       /\ account' = Done(e, p)
       /\ job' = [job EXCEPT ![j].todo = @ \ {p}, ![j].made = TRUE]
  /\ UNCHANGED <<page, form, confirm, busy>>

\* The success leads to the list from whatever page is open by now: a form on
\* the screen is thrown away.
Succeeded(j) == /\ ~Idle(j) /\ job[j].todo = {}
Success(j) ==
  /\ Succeeded(j)
  /\ page' = "list" /\ form' = NewForm /\ confirm' = FALSE /\ busy' = FALSE
  /\ job' = [Disowned EXCEPT ![j] = NoJob]
  /\ UNCHANGED account

\* What remains of a call one of whose requests failed: nothing.
AfterErrorGoesOn(q) == [q EXCEPT !.todo = {}]
AfterError(q) == NoJob

\* An error, or a lost answer.  The form stays, to be sent again from the start.
Failure(j) ==
  /\ job[j].todo # {}
  /\ LET e == job[j].email  p == Current(job[j].todo) IN
       \/ UNCHANGED account
       \/ Accepts(e, p) /\ account' = Done(e, p)
  /\ job' = [job EXCEPT ![j] = AfterError(@)]
  /\ busy' = (busy /\ ~job[j].mine)
  /\ UNCHANGED <<page, form, confirm>>

Next ==
  \/ OpenForm \/ Leave \/ TypeEmail \/ NextStep \/ PreviousStep
  \/ ChooseType \/ ChooseClients \/ ChooseSetup \/ TypePassword
  \/ AskInvitation \/ CancelInvitation
  \/ \E j \in Jobs :
       Submit(j) \/ ConfirmInvitation(j) \/ Step(j) \/ Success(j) \/ Failure(j)

Spec == Init /\ [][Next]_vars

---------------------------------------------------------------------------
(***************************************************************************)
(* Properties.                                                             *)
(***************************************************************************)

\* "User created and invitation sent!": a call that ends well has done all it
\* was asked for, retries after a half-done call included.
ReportedComplete ==
  \A j \in Jobs : Succeeded(j) => job[j].wants \subseteq account[job[j].email]

\* A form has at most one call under way, however often its buttons, or those
\* of its confirmation, are pressed.
OneCall == Cardinality({j \in Jobs : job[j].mine}) <= 1
===========================================================================
