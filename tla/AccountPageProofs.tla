------------------------- MODULE AccountPageProofs -------------------------
(***************************************************************************)
(* Theorems about the pages of one's own account, within MCAccount.        *)
(*                                                                         *)
(* The link of an invitation (I, InvitationSetup), for any number of tabs: *)
(* it is used up by an activation only, a page reports only its own        *)
(* password as saved, and only a used or expired link is called unusable.  *)
(*                                                                         *)
(* The dialog for one's own name (N, ProfileEditor), for any fields,       *)
(* values and number of saves: a save takes back nothing the user did not  *)
(* type, because at most one save is unanswered and the dialog was filled  *)
(* with what the server has, as long as no dialog is opened next to an     *)
(* unanswered save.                                                        *)
(*                                                                         *)
(* The authenticators of the account (D, Authenticators), for any number   *)
(* of authenticators and calls; the page of the second factor (F); the     *)
(* wizards that set a password (P), for any addresses and calls.           *)
(***************************************************************************)
EXTENDS SecondFactorProofs

\* How far an activation has come is written down in the account.
Progress ==
  /\ \A t \in Tabs :
       /\ activation[t] \in {"clients", "delete", "done"} => t \in written
       /\ activation[t] \in {"delete", "done"} => clients # "untried"
       /\ activation[t] = "done" => invitation = "gone"
  /\ written # {} => password # None

InvitationInv ==
  /\ I!TypeOK
  /\ Progress
  /\ I!LinkOutlivesActivation
  /\ I!SavedIsWritten
  /\ I!ForbiddenIsOver

\* Each of these steps sets the page of one tab, to s.
OwnStep(t) ==
  I!Open(t) \/ I!Leave(t) \/ I!TypePassword(t) \/ I!NoAnswer(t) \/ I!Checked(t) \/ I!Rechecked(t)

LEMMA PageRow ==
  ASSUME I!TypeOK, NEW t \in Tabs, OwnStep(t)
  PROVE  \E s \in I!Pages : /\ I!Shows(t, s)
                            /\ s.complete => tab[t].complete
                            /\ s.state = "forbidden" =>
                                 tab[t].state = "forbidden" \/ invitation # "fresh"
  <1>1. tab[t] \in I!Pages
    BY DEF I!TypeOK
  <1>2. CASE I!Open(t)
    <2>1. [I!Away EXCEPT !.state = "checking"] \in I!Pages
      BY DEF I!Away, I!Pages
    <2>2. QED
      BY <1>2, <2>1 DEF I!Open, I!Away
  <1>3. CASE I!Leave(t)
    <2>1. I!Away \in I!Pages
      BY DEF I!Away, I!Pages
    <2>2. QED
      BY <1>3, <2>1 DEF I!Leave, I!Away
  <1>4. CASE I!TypePassword(t)
    <2>1. PICK v \in BOOLEAN : I!Shows(t, [tab[t] EXCEPT !.valid = v])
      BY <1>4 DEF I!TypePassword
    <2>2. [tab[t] EXCEPT !.valid = v] \in I!Pages
      BY <1>1 DEF I!Pages
    <2>3. QED
      BY <1>1, <2>1, <2>2 DEF I!Pages
  <1>5. CASE I!NoAnswer(t)
    <2>1. [tab[t] EXCEPT !.wait = "recheck"] \in I!Pages
      BY <1>1 DEF I!Pages
    <2>2. QED
      BY <1>1, <1>5, <2>1 DEF I!NoAnswer, I!Pages
  <1>6. CASE I!Checked(t)
    <2>1. PICK answer \in {I!Check, "failure"} :
            I!Shows(t, [tab[t] EXCEPT !.state = CASE answer = "valid" -> "ready"
                                         [] answer = "refused" -> "forbidden"
                                         [] answer = "failure" -> "error"])
      BY <1>6 DEF I!Checked
    <2>2. answer \in {"valid", "refused", "failure"}
          /\ (answer = "refused" => invitation # "fresh")
      BY DEF I!Check, I!TypeOK
    <2>3. PICK state \in {"ready", "forbidden", "error"} :
            /\ I!Shows(t, [tab[t] EXCEPT !.state = state])
            /\ state = "forbidden" => invitation # "fresh"
      BY <2>1, <2>2
    <2>4. [tab[t] EXCEPT !.state = state] \in I!Pages
      BY <1>1 DEF I!Pages
    <2>5. QED
      BY <1>1, <2>3, <2>4 DEF I!Pages
  <1>7. CASE I!Rechecked(t)
    <2>1. PICK answer \in {I!Check, "failure"} :
            IF I!Forbids(answer) THEN I!Shows(t, [I!Away EXCEPT !.state = "forbidden"])
            ELSE I!Shows(t, [tab[t] EXCEPT !.wait = "nothing"])
      BY <1>7 DEF I!Rechecked
    <2>2. I!Forbids(answer) => invitation # "fresh"
      BY DEF I!Forbids, I!Check, I!TypeOK
    <2>3. CASE I!Forbids(answer)
      <3>1. [I!Away EXCEPT !.state = "forbidden"] \in I!Pages
        BY DEF I!Away, I!Pages
      <3>2. QED
        BY <2>1, <2>2, <2>3, <3>1 DEF I!Away
    <2>4. CASE ~I!Forbids(answer)
      <3>1. [tab[t] EXCEPT !.wait = "nothing"] \in I!Pages
        BY <1>1 DEF I!Pages
      <3>2. QED
        BY <1>1, <2>1, <2>4, <3>1 DEF I!Pages
    <2>5. QED
      BY <2>3, <2>4
  <1>8. QED
    BY <1>2, <1>3, <1>4, <1>5, <1>6, <1>7 DEF OwnStep

LEMMA TypeStep ==
  ASSUME I!TypeOK, [I!Next]_vars
  PROVE  I!TypeOK'
  <1> USE DEF I!TypeOK
  <1>1. CASE I!Expire
    BY <1>1 DEF I!Expire, I!account
  <1>2. ASSUME NEW t \in Tabs, OwnStep(t)
        PROVE  I!TypeOK'
    <2>1. PICK s \in I!Pages : I!Shows(t, s)
      BY <1>2, PageRow
    <2>2. QED
      BY <2>1 DEF I!Shows, I!account
  <1>4. ASSUME NEW t \in Tabs, I!Submit(t)
        PROVE  I!TypeOK'
    BY <1>4 DEF I!Pages, I!Submit, I!Activates, I!account
  <1>5. ASSUME NEW t \in Tabs, I!Find(t) \/ I!SetPassword(t) \/ I!AssignClients(t)
                               \/ I!DeleteInvitation(t) \/ I!Refuse(t)
        PROVE  I!TypeOK'
    BY <1>5 DEF I!Find, I!SetPassword, I!AssignClients, I!DeleteInvitation, I!Refuse,
                I!Comes, I!AfterFind, I!account
  <1>6. ASSUME NEW t \in Tabs, I!Answer(t)
        PROVE  I!TypeOK'
    <2>1. PICK s \in I!Pages : tab' = [tab EXCEPT ![t] = s]
      <3>1. tab[t] \in I!Pages
        OBVIOUS
      <3>2. /\ [tab[t] EXCEPT !.wait = "nothing", !.complete = TRUE] \in I!Pages
            /\ I!AfterRefusal(tab[t]) \in I!Pages
        BY <3>1 DEF I!AfterRefusal, I!Pages
      <3>3. CASE tab[t].wait # "activation"
        <4>1. tab' = [tab EXCEPT ![t] = tab[t]]
          BY <1>6, <3>3 DEF I!Answer
        <4>2. QED
          BY <3>1, <4>1
      <3>4. CASE tab[t].wait = "activation"
        BY <1>6, <3>2, <3>4 DEF I!Answer
      <3>5. QED
        BY <3>3, <3>4
    <2>2. QED
      BY <1>6, <2>1 DEF I!Answer, I!Comes, I!account
  <1>7. CASE UNCHANGED vars
    BY <1>7 DEF vars
  <1>8. QED
    BY <1>1, <1>2, <1>4, <1>5, <1>6, <1>7 DEF I!Next, OwnStep

\* A step of a page alone.
LEMMA PageStep ==
  ASSUME InvitationInv, I!TypeOK', NEW t \in Tabs, OwnStep(t)
  PROVE  InvitationInv'
  <1> USE DEF InvitationInv
  <1>1. PICK s \in I!Pages : /\ I!Shows(t, s)
                             /\ s.complete => tab[t].complete
                             /\ s.state = "forbidden" =>
                                  tab[t].state = "forbidden" \/ invitation # "fresh"
    BY PageRow
  <1>2. /\ \A u \in Tabs : tab'[u] = IF u = t THEN s ELSE tab[u]
        /\ UNCHANGED <<invitation, password, clients, written, activation>>
    BY <1>1 DEF I!Shows, I!account, I!TypeOK
  <1>3. Progress' /\ I!LinkOutlivesActivation'
    BY <1>2 DEF Progress, I!LinkOutlivesActivation
  <1>4. I!SavedIsWritten' /\ I!ForbiddenIsOver'
    BY <1>1, <1>2 DEF I!SavedIsWritten, I!ForbiddenIsOver
  <1>5. QED
    BY <1>3, <1>4

\* A statement of an activation, which leaves the pages alone.
LEMMA StatementStep ==
  ASSUME InvitationInv, I!TypeOK', NEW t \in Tabs,
         I!Find(t) \/ I!SetPassword(t) \/ I!AssignClients(t)
             \/ I!DeleteInvitation(t) \/ I!Refuse(t)
  PROVE  InvitationInv'
  <1> USE DEF InvitationInv, I!TypeOK
  <1>1. /\ tab' = tab
        /\ written \subseteq written'
        /\ \A u \in Tabs \ {t} : activation'[u] = activation[u]
        /\ invitation' \in {invitation, "gone"}
        /\ clients' # "untried" \/ clients' = clients
    BY DEF I!Find, I!SetPassword, I!AssignClients, I!DeleteInvitation, I!Refuse, I!Comes,
           I!account
  <1>2. Progress'
    <2>1. CASE I!Find(t) \/ I!Refuse(t)
      BY <2>1 DEF I!Find, I!Refuse, I!Comes, I!AfterFind, I!account, Progress
    <2>2. CASE I!SetPassword(t)
      BY <2>2, AccountAssumption DEF I!SetPassword, I!Comes, Progress
    <2>3. CASE I!AssignClients(t)
      BY <2>3 DEF I!AssignClients, I!Comes, Progress
    <2>4. CASE I!DeleteInvitation(t)
      BY <2>4 DEF I!DeleteInvitation, I!Comes, I!account, Progress
    <2>5. QED
      BY <2>1, <2>2, <2>3, <2>4
  <1>3. I!LinkOutlivesActivation'
    <2>1. CASE I!Find(t) \/ I!Refuse(t)
      BY <2>1 DEF I!Find, I!Refuse, I!account, I!LinkOutlivesActivation
    <2>2. CASE I!SetPassword(t)
      BY <2>2, AccountAssumption DEF I!SetPassword, I!LinkOutlivesActivation
    <2>3. CASE I!AssignClients(t)
      BY <2>3 DEF I!AssignClients, I!LinkOutlivesActivation
    <2>4. CASE I!DeleteInvitation(t)
      BY <2>4 DEF I!DeleteInvitation, I!account, I!LinkOutlivesActivation, Progress
    <2>5. QED
      BY <2>1, <2>2, <2>3, <2>4
  <1>4. I!SavedIsWritten' /\ I!ForbiddenIsOver'
    BY <1>1 DEF I!SavedIsWritten, I!ForbiddenIsOver
  <1>5. QED
    BY <1>2, <1>3, <1>4

LEMMA InvitationInvStep ==
  ASSUME InvitationInv, [I!Next]_vars
  PROVE  InvitationInv'
  <1>1. I!TypeOK'
    BY TypeStep DEF InvitationInv
  <1>2. CASE I!Expire
    <2>1. invitation = "fresh" /\ invitation' = "old"
          /\ UNCHANGED <<password, clients, written, tab, activation>>
      BY <1>2 DEF I!Expire, I!account
    <2>2. QED
      BY <1>1, <2>1 DEF InvitationInv, Progress, I!LinkOutlivesActivation,
                        I!SavedIsWritten, I!ForbiddenIsOver
  <1>3. ASSUME NEW t \in Tabs, OwnStep(t)
        PROVE  InvitationInv'
    BY <1>1, <1>3, PageStep
  <1>4. ASSUME NEW t \in Tabs, I!Submit(t)
        PROVE  InvitationInv'
    <2>1. /\ UNCHANGED <<invitation, password, clients, written>>
          /\ \A u \in Tabs : /\ tab'[u].complete = tab[u].complete
                             /\ tab'[u].state = tab[u].state
                             /\ activation'[u] \in {activation[u], "find"}
      BY <1>4 DEF I!Submit, I!Activates, I!account, InvitationInv, I!TypeOK, I!Pages
    <2>2. QED
      BY <1>1, <2>1 DEF InvitationInv, Progress, I!LinkOutlivesActivation,
                        I!SavedIsWritten, I!ForbiddenIsOver
  <1>5. ASSUME NEW t \in Tabs,
               I!Find(t) \/ I!SetPassword(t) \/ I!AssignClients(t)
                   \/ I!DeleteInvitation(t) \/ I!Refuse(t)
        PROVE  InvitationInv'
    BY <1>1, <1>5, StatementStep
  <1>6. ASSUME NEW t \in Tabs, I!Answer(t)
        PROVE  InvitationInv'
    <2>1. /\ UNCHANGED <<invitation, password, clients, written>>
          /\ \A u \in Tabs : /\ activation'[u] \in {activation[u], "none"}
                             /\ tab'[u].state = tab[u].state
                             /\ tab'[u].complete =>
                                  tab[u].complete \/ activation[u] = "done"
      BY <1>6 DEF I!Answer, I!Comes, I!AfterRefusal, I!account, InvitationInv, I!TypeOK, I!Pages
    <2>2. Progress' /\ I!LinkOutlivesActivation' /\ I!ForbiddenIsOver'
      BY <2>1 DEF InvitationInv, Progress, I!LinkOutlivesActivation, I!ForbiddenIsOver
    <2>3. I!SavedIsWritten'
      BY <2>1 DEF InvitationInv, Progress, I!SavedIsWritten
    <2>4. QED
      BY <1>1, <2>2, <2>3 DEF InvitationInv
  <1>7. CASE UNCHANGED vars
    BY <1>7 DEF vars, InvitationInv, I!TypeOK, Progress, I!LinkOutlivesActivation,
                I!SavedIsWritten, I!ForbiddenIsOver
  <1>8. QED
    BY <1>2, <1>3, <1>4, <1>5, <1>6, <1>7 DEF I!Next, OwnStep

LEMMA InvitationInvInit ==
  ASSUME I!Init
  PROVE  InvitationInv
  BY DEF I!Init, I!Away, InvitationInv, I!TypeOK, I!Pages, Progress,
         I!LinkOutlivesActivation, I!SavedIsWritten, I!ForbiddenIsOver

---------------------------------------------------------------------------
\* The behaviours of the composition that are about this page keep InvitationInv.
InvitationKept == which = "invitation" => InvitationInv

LEMMA InvitationKeptInit == Init => InvitationKept
  BY InvitationInvInit DEF Init, InvitationKept

LEMMA InvitationKeptStep ==
  ASSUME InvitationKept, [Next]_vars
  PROVE  InvitationKept'
  <1> SUFFICES ASSUME which' = "invitation"
               PROVE  InvitationInv'
    BY DEF InvitationKept
  <1>1. which = "invitation" /\ [I!Next]_vars
    BY DEF Next, vars, BesideSecondFactorPage, BesidePasswordWizard,
            BesideInvitationSetup, BesideProfileEditor, BesideAuthenticators,
            BesideMfaCodes, BesidePasskeyCeremonies
  <1>2. QED
    BY <1>1, InvitationInvStep DEF InvitationKept

\* For any number of tabs, the four statements of an activation and the pages
\* keep InvitationInv (registration_service.go, RegisterPasswordSetup.jsx).
THEOREM InvitationInvariant == Spec => []InvitationKept
  BY InvitationKeptInit, InvitationKeptStep, PTL DEF Spec

\* An invitation is gone only after an activation wrote a password and tried
\* the clients (registration_service.go).
THEOREM InvitationSurvives == Spec => []LinkOutlivesActivation
  <1>1. InvitationKept => LinkOutlivesActivation
    BY DEF InvitationKept, InvitationInv, LinkOutlivesActivation
  <1>2. QED
    BY <1>1, InvitationInvariant, PTL

\* Only a used or expired link is called forbidden (RegisterPasswordSetup.jsx).
THEOREM ForbiddenIsTrue == Spec => []ForbiddenIsOver
  <1>1. InvitationKept => ForbiddenIsOver
    BY DEF InvitationKept, InvitationInv, ForbiddenIsOver
  <1>2. QED
    BY <1>1, InvitationInvariant, PTL

---------------------------------------------------------------------------
(***************************************************************************)
(* The dialog for one's own name.                                          *)
(***************************************************************************)
SaveRow == [stage : {"none", "asked", "done"}, name : N!Profiles,
        touched : SUBSET Fields, here : BOOLEAN]
NameForm == [open : BOOLEAN, name : N!Profiles, touched : SUBSET Fields,
         saving : BOOLEAN]

Active(s) == save[s].stage # "none"
Done == \E s \in Saves : save[s].stage = "done"

\* d has the fields nobody touched as the server has them.
Keeps(d) == \A f \in Fields \ d.touched : d.name[f] = server[f]

ActiveIsShown ==
  \A s \in Saves : Active(s) => form.saving /\ me = "known" /\ save[s].here
ActiveIsOne == \A s, r \in Saves : Active(s) /\ Active(r) => s = r
FilledFromServer ==
  me = "known" /\ ~Done => shown = server /\ (form.open => Keeps(form))
AskedKeeps == \A s \in Saves : save[s].stage = "asked" => Keeps(save[s])

DoneIsServer == \A s \in Saves : save[s].stage = "done" => server = save[s].name

Sound ==
  /\ ActiveIsShown /\ ActiveIsOne /\ FilledFromServer /\ AskedKeeps
  /\ DoneIsServer

\* No empty field is sent.
SentIsWhole ==
  \A s \in Saves : Active(s) => save[s].name \in [Fields -> Values]

ProfileInv == N!TypeOK /\ SentIsWhole /\ (slips = {} => Sound)

---------------------------------------------------------------------------
LEMMA Rows == N!NoSave \in SaveRow /\ N!NoForm \in NameForm /\ N!NoSave.stage = "none"
  BY DEF SaveRow, NameForm, N!NoSave, N!NoForm, N!Blank, N!Profiles

LEMMA RefilledForm ==
  ASSUME NEW p \in N!Profiles, form \in NameForm
  PROVE  /\ N!Refilled(p) \in NameForm /\ N!Refilled(p).name = p
         /\ N!Refilled(p).open = form.open /\ N!Refilled(p).touched = {}
  BY DEF N!Refilled, NameForm

\* The server's name can be shown.
LEMMA ServerProfile == ASSUME N!TypeOK PROVE server \in N!Profiles
  BY DEF N!TypeOK, N!Profiles

LEMMA ProfileInvInit == N!Init => ProfileInv
  <1> SUFFICES ASSUME N!Init PROVE ProfileInv
    OBVIOUS
  <1>1. N!TypeOK
    BY Rows DEF N!Init, N!TypeOK, SaveRow, NameForm, N!Blank, N!Profiles
  <1>2. \A s \in Saves : save[s] = N!NoSave
    BY DEF N!Init
  <1>3. Sound
    BY <1>2, Rows DEF N!Init, Sound, ActiveIsShown, ActiveIsOne, FilledFromServer,
                      AskedKeeps, DoneIsServer, Active
  <1>4. QED
    BY <1>1, <1>2, <1>3, Rows DEF ProfileInv, SentIsWhole, Active

LEMMA ProfileInvStep ==
  ASSUME ProfileInv, [N!Next]_vars
  PROVE  ProfileInv'
  <1>a. /\ N!TypeOK /\ form \in NameForm /\ save \in [Saves -> SaveRow]
        /\ \A s \in Saves : save[s] \in SaveRow
    BY DEF ProfileInv, N!TypeOK, NameForm, SaveRow
  <1>b. slips = {} => Sound
    BY DEF ProfileInv
  <1>w. SentIsWhole'
    <2>1. ASSUME NEW s \in Saves, N!Submit(s)
          PROVE  form.name \in [Fields -> Values]
      BY <1>a, <2>1 DEF N!Submit, N!Sendable, NameForm, N!Profiles
    <2>2. \A s \in Saves :
            \/ save'[s].stage = "none"
            \/ save'[s].name = save[s].name /\ Active(s)
            \/ save'[s].name \in [Fields -> Values]
      <3>1. CASE UNCHANGED save
        BY <3>1 DEF Active
      <3>2. CASE N!Leave
        BY <1>a, <3>2 DEF N!Leave, SaveRow, Active
      <3>3. ASSUME NEW q \in Saves, N!Submit(q)
            PROVE  \A s \in Saves :
                     save'[s] = save[s] \/ save'[s].name = form.name
        BY <1>a, <3>3 DEF N!Submit
      <3>4. ASSUME NEW q \in Saves, N!Renames(q)
            PROVE  \A s \in Saves :
                     /\ save'[s].name = save[s].name
                     /\ save[s].stage = "none" => save'[s].stage = "none"
        BY <1>a, <3>4 DEF N!Renames, SaveRow
      <3>5. ASSUME NEW q \in Saves, N!Saved(q) \/ N!SaveFails(q)
            PROVE  \A s \in Saves : save'[s] = save[s] \/ save'[s] = N!NoSave
        BY <1>a, <3>5 DEF N!Saved, N!SaveFails
      <3>6. \/ UNCHANGED save \/ N!Leave
            \/ \E q \in Saves : N!Submit(q) \/ N!Renames(q) \/ N!Saved(q) \/ N!SaveFails(q)
        BY DEF N!Next, vars, N!MeAnswered, N!MeFailed, N!Reload, N!Visit, N!OpenDialog,
               N!CloseDialog, N!Type
      <3>7. QED
        BY <2>1, <3>1, <3>2, <3>3, <3>4, <3>5, <3>6, Rows DEF Active
    <2>3. QED
      BY <2>2 DEF ProfileInv, SentIsWhole, Active
  <1> USE DEF Sound
  <1>1. CASE N!MeAnswered
    <2>1. form' \in NameForm /\ (form'.open => form'.name = server)
      BY <1>a, <1>1, RefilledForm, ServerProfile DEF N!MeAnswered, N!Follows
    <2>2. N!TypeOK'
      BY <1>a, <1>1, <2>1, ServerProfile DEF N!MeAnswered, N!TypeOK, NameForm
    <2>3. slips = {} => \A s \in Saves : ~Active(s)
      BY <1>b, <1>1 DEF N!MeAnswered, ActiveIsShown
    <2>4. slips' = {} => Sound'
      BY <1>1, <2>1, <2>3, Rows DEF N!MeAnswered, ActiveIsShown, ActiveIsOne,
           FilledFromServer, AskedKeeps, DoneIsServer, Active, Keeps
    <2>5. QED
      BY <1>w, <2>2, <2>4 DEF ProfileInv
  <1>2. CASE N!MeFailed
    <2>1. N!TypeOK'
      BY <1>a, <1>2 DEF N!MeFailed, N!TypeOK
    <2>2. slips = {} => \A s \in Saves : ~Active(s)
      BY <1>b, <1>2 DEF N!MeFailed, ActiveIsShown
    <2>3. slips' = {} => Sound'
      BY <1>2, <2>2, Rows DEF N!MeFailed, ActiveIsShown, ActiveIsOne,
           FilledFromServer, AskedKeeps, DoneIsServer, Active, Keeps
    <2>4. QED
      BY <1>w, <2>1, <2>3 DEF ProfileInv
  <1>3. CASE N!Reload
    <2>1. N!TypeOK'
      BY <1>a, <1>3, Rows DEF N!Reload, N!TypeOK, NameForm, N!Blank, N!Profiles
    <2>2. Sound'
      BY <1>3, Rows DEF N!Reload, N!Idle, ActiveIsShown, ActiveIsOne,
           FilledFromServer, AskedKeeps, DoneIsServer, Active
    <2>3. QED
      BY <1>w, <2>1, <2>2 DEF ProfileInv
  <1>4. CASE N!Visit
    <2>1. N!TypeOK'
      BY <1>a, <1>4 DEF N!Visit, N!TypeOK
    <2>2. slips' = {} => Sound'
      BY <1>b, <1>4 DEF N!Visit, ActiveIsShown, ActiveIsOne, FilledFromServer,
           AskedKeeps, DoneIsServer, Active, Keeps, Done
    <2>3. QED
      BY <1>w, <2>1, <2>2 DEF ProfileInv
  <1>5. CASE N!Leave
    <2>1. \A s \in Saves : [save[s] EXCEPT !.here = FALSE] \in SaveRow
      BY <1>a DEF SaveRow
    <2>2. save' \in [Saves -> SaveRow] /\ form' = N!NoForm
          /\ UNCHANGED <<server, me, shown>>
      BY <1>5, <2>1 DEF N!Leave
    <2>3. visited' \in BOOLEAN /\ slips' \subseteq {"overlap", "lost"}
      BY <1>a, <1>5 DEF N!Leave, N!Overlaps, N!TypeOK
    <2>4. N!TypeOK'
      BY <1>a, <2>2, <2>3, Rows DEF N!TypeOK, NameForm, SaveRow
    <2>5. ASSUME slips' = {}
          PROVE  Sound'
      <3>a. slips' = N!Overlaps
        BY <1>5 DEF N!Leave
      <3>1. slips = {} /\ \A s \in Saves : save[s] = N!NoSave
        BY <2>5, <3>a DEF N!Overlaps, N!Idle
      <3>2. \A s \in Saves : save'[s].stage = save[s].stage
        BY <1>a, <1>5 DEF N!Leave, SaveRow
      <3>3. \A s \in Saves : save'[s].stage = "none"
        BY <3>1, <3>2, Rows
      <3>4. QED
        BY <1>b, <2>2, <3>1, <3>3, Rows DEF ActiveIsShown, ActiveIsOne,
             FilledFromServer, AskedKeeps, DoneIsServer, Active, Keeps, Done, N!NoForm
    <2>6. QED
      BY <1>w, <2>4, <2>5 DEF ProfileInv
  <1>6. CASE N!OpenDialog
    <2>1. shown \in N!Profiles
      BY <1>a DEF N!TypeOK
    <2>2. /\ form' \in NameForm /\ form'.name = shown /\ form'.open
          /\ form'.touched = {} /\ UNCHANGED <<server, me, shown, visited, save>>
      BY <1>a, <1>6, <2>1, RefilledForm DEF N!OpenDialog, N!Filled, NameForm
    <2>3. slips' \subseteq {"overlap", "lost"}
      BY <1>a, <1>6 DEF N!OpenDialog, N!Overlaps, N!TypeOK
    <2>4. N!TypeOK'
      BY <1>a, <2>2, <2>3 DEF N!TypeOK, NameForm
    <2>5. ASSUME slips' = {}
          PROVE  Sound'
      <3>1. slips = {} /\ \A s \in Saves : save[s] = N!NoSave
        BY <1>6, <2>5 DEF N!OpenDialog, N!Overlaps, N!Idle
      <3>2. QED
        BY <1>b, <2>2, <3>1, Rows DEF ActiveIsShown, ActiveIsOne,
             FilledFromServer, AskedKeeps, DoneIsServer, Active, Keeps, Done
    <2>6. QED
      BY <1>w, <2>4, <2>5 DEF ProfileInv
  <1>7. CASE N!CloseDialog
    <2>1. /\ form' \in NameForm /\ ~form'.open /\ form'.saving = form.saving
          /\ UNCHANGED <<server, me, shown, visited, save, slips>>
      BY <1>a, <1>7 DEF N!CloseDialog, NameForm
    <2>2. N!TypeOK'
      BY <1>a, <2>1 DEF N!TypeOK, NameForm
    <2>3. slips' = {} => Sound'
      BY <1>b, <2>1 DEF ActiveIsShown, ActiveIsOne, FilledFromServer,
           AskedKeeps, DoneIsServer, Active, Keeps, Done
    <2>4. QED
      BY <1>w, <2>2, <2>3 DEF ProfileInv
  <1>8. ASSUME NEW f \in Fields, N!Type(f)
        PROVE  ProfileInv'
    <2>1. PICK v \in Values :
            form' = [form EXCEPT !.name[f] = v, !.touched = @ \cup {f}]
      BY <1>8 DEF N!Type
    <2>2. /\ form' \in NameForm /\ form'.saving = form.saving /\ form'.open = form.open
          /\ form'.touched = form.touched \cup {f}
          /\ \A g \in Fields \ {f} : form'.name[g] = form.name[g]
      BY <1>a, <2>1 DEF NameForm, N!Profiles
    <2>3. UNCHANGED <<server, me, shown, visited, save, slips>>
      BY <1>8 DEF N!Type
    <2>4. N!TypeOK'
      BY <1>a, <2>2, <2>3 DEF N!TypeOK, NameForm
    <2>5. slips' = {} => Sound'
      BY <1>b, <2>2, <2>3 DEF ActiveIsShown, ActiveIsOne, FilledFromServer,
           AskedKeeps, DoneIsServer, Active, Keeps, Done
    <2>6. QED
      BY <1>w, <2>4, <2>5 DEF ProfileInv
  <1>9. ASSUME NEW s \in Saves, N!Submit(s)
        PROVE  ProfileInv'
    <2> DEFINE r == [stage |-> "asked", name |-> form.name,
                     touched |-> form.touched, here |-> TRUE]
    <2>1. r \in SaveRow /\ r.here /\ r.stage = "asked" /\ (Keeps(form) => Keeps(r))
      BY <1>a DEF SaveRow, NameForm, Keeps
    <2>2. save' = [save EXCEPT ![s] = r] /\ form' = [form EXCEPT !.saving = TRUE]
          /\ UNCHANGED <<server, me, shown, visited, slips>>
          /\ form.open /\ ~form.saving /\ me = "known"
      BY <1>9 DEF N!Submit, N!Sendable
    <2> HIDE DEF r
    <2>3. /\ form' \in NameForm /\ form'.saving /\ form'.name = form.name
          /\ form'.touched = form.touched
      BY <1>a, <2>2 DEF NameForm
    <2>4. N!TypeOK'
      BY <1>a, <2>1, <2>2, <2>3 DEF N!TypeOK, NameForm, SaveRow
    <2>5. \A q \in Saves : save'[q] = IF q = s THEN r ELSE save[q]
      BY <1>a, <2>2
    <2>6. ASSUME slips' = {}
          PROVE  Sound'
      <3>1. \A q \in Saves : ~Active(q)
        BY <1>b, <2>2, <2>6 DEF ActiveIsShown
      <3>2. ~Done
        BY <3>1, Rows DEF Active, Done
      <3>3. Keeps(form) /\ Keeps(r) /\ shown = server
        BY <1>b, <2>1, <2>2, <2>6, <3>2 DEF FilledFromServer
      <3>4. /\ Keeps(form)' /\ shown' = server'
            /\ \A f \in Fields \ r.touched : r.name[f] = server'[f]
        BY <2>2, <2>3, <3>3 DEF Keeps
      <3>5. ActiveIsShown' /\ ActiveIsOne' /\ AskedKeeps' /\ DoneIsServer'
        BY <2>1, <2>2, <2>3, <2>5, <3>1, <3>4, Rows
           DEF ActiveIsShown, ActiveIsOne, AskedKeeps, DoneIsServer, Active, Keeps
      <3>6. QED
        BY <3>4, <3>5 DEF FilledFromServer
    <2>7. QED
      BY <1>w, <2>4, <2>6 DEF ProfileInv
  <1>10. ASSUME NEW s \in Saves, N!Renames(s)
         PROVE  ProfileInv'
    <2> DEFINE r == [save[s] EXCEPT !.stage = "done"]
    <2>1. r \in SaveRow /\ r.stage = "done" /\ r.here = save[s].here
          /\ r.name = save[s].name
      BY <1>a DEF SaveRow
    <2>2. save' = [save EXCEPT ![s] = r] /\ server' = save[s].name
          /\ save[s].stage = "asked" /\ UNCHANGED <<me, shown, visited, form, slips>>
      BY <1>10 DEF N!Renames
    <2> HIDE DEF r
    <2>3. \A q \in Saves : save'[q] = IF q = s THEN r ELSE save[q]
      BY <1>a, <2>2
    <2>4. server' \in [Fields -> Values]
      BY <2>2, Rows DEF ProfileInv, SentIsWhole, Active
    <2>5. N!TypeOK'
      BY <1>a, <2>1, <2>2, <2>4 DEF N!TypeOK, NameForm, SaveRow
    <2>6. ASSUME slips' = {}
          PROVE  Sound'
      <3>1. Active(s) /\ \A q \in Saves \ {s} : ~Active(q)
        BY <1>b, <2>2, <2>6, Rows DEF ActiveIsOne, Active
      <3>2. ActiveIsShown' /\ ActiveIsOne'
        BY <1>b, <2>1, <2>2, <2>3, <2>6, <3>1
           DEF ActiveIsShown, ActiveIsOne, Active
      <3>3. Done' /\ AskedKeeps'
        BY <2>1, <2>3, <3>1 DEF Done, AskedKeeps, Active
      <3>4. DoneIsServer'
        BY <2>1, <2>2, <2>3, <3>1 DEF DoneIsServer, Active
      <3>5. QED
        BY <3>2, <3>3, <3>4 DEF FilledFromServer
    <2>7. QED
      BY <1>w, <2>5, <2>6 DEF ProfileInv
  <1>11. ASSUME NEW s \in Saves, N!Saved(s)
         PROVE  ProfileInv'
    <2>1. save[s].name \in N!Profiles /\ save[s].stage = "done"
      BY <1>a, <1>11 DEF N!Saved, SaveRow
    <2>2. save' = [save EXCEPT ![s] = N!NoSave] /\ shown' = save[s].name
          /\ UNCHANGED <<server, me, visited, slips>>
      BY <1>11 DEF N!Saved, N!Updated
    <2>3. form' \in NameForm /\ (save[s].here => ~form'.open)
      <3>1. [N!Refilled(save[s].name) EXCEPT !.open = FALSE] \in NameForm
            /\ ~[N!Refilled(save[s].name) EXCEPT !.open = FALSE].open
        BY <1>a, <2>1, RefilledForm DEF NameForm
      <3>2. QED
        BY <1>a, <1>11, <2>1, <3>1, RefilledForm DEF N!Saved, N!Closes, N!Follows
    <2>4. N!TypeOK'
      BY <1>a, <2>1, <2>2, <2>3, Rows DEF N!TypeOK, NameForm, SaveRow
    <2>5. \A q \in Saves : save'[q] = IF q = s THEN N!NoSave ELSE save[q]
      BY <1>a, <2>2
    <2>6. ASSUME slips' = {}
          PROVE  Sound'
      <3>1. Active(s) /\ save[s].here /\ \A q \in Saves : save'[q].stage = "none"
        BY <1>b, <2>1, <2>2, <2>5, <2>6, Rows
           DEF ActiveIsOne, ActiveIsShown, Active
      <3>2. shown' = server'
        BY <1>b, <2>1, <2>2, <2>6 DEF DoneIsServer
      <3>3. QED
        BY <2>2, <2>3, <3>1, <3>2, Rows DEF ActiveIsShown, ActiveIsOne,
             FilledFromServer, AskedKeeps, DoneIsServer, Active
    <2>7. QED
      BY <1>w, <2>4, <2>6 DEF ProfileInv
  <1>12. ASSUME NEW s \in Saves, N!SaveFails(s)
         PROVE  ProfileInv'
    <2>1. /\ form' \in NameForm /\ form'.open = form.open
          /\ form'.name = form.name /\ form'.touched = form.touched
      BY <1>a, <1>12 DEF N!SaveFails, NameForm
    <2>2. save' = [save EXCEPT ![s] = N!NoSave]
          /\ UNCHANGED <<server, me, shown, visited>>
      BY <1>12 DEF N!SaveFails
    <2>3. slips' = IF save[s].stage = "done" THEN slips \cup {"lost"} ELSE slips
      BY <1>12 DEF N!SaveFails
    <2>4. N!TypeOK'
      BY <1>a, <2>1, <2>2, <2>3, Rows DEF N!TypeOK, NameForm, SaveRow
    <2>5. \A q \in Saves : save'[q] = IF q = s THEN N!NoSave ELSE save[q]
      BY <1>a, <2>2
    <2>6. ASSUME slips' = {}
          PROVE  Sound'
      <3>1. slips = {} /\ save[s].stage = "asked"
        BY <1>12, <2>3, <2>6 DEF N!SaveFails
      <3>2. Active(s) /\ \A q \in Saves : save'[q].stage = "none"
        BY <1>b, <2>5, <3>1, Rows DEF ActiveIsOne, Active
      <3>3. ~Done
        BY <1>b, <2>5, <3>1, <3>2, Rows DEF ActiveIsOne, Active, Done
      <3>4. QED
        BY <1>b, <2>1, <2>2, <3>1, <3>2, <3>3, Rows DEF ActiveIsShown,
             ActiveIsOne, FilledFromServer, AskedKeeps, DoneIsServer, Active, Keeps
    <2>7. QED
      BY <1>w, <2>4, <2>6 DEF ProfileInv
  <1>13. CASE UNCHANGED vars
    BY <1>a, <1>b, <1>w, <1>13 DEF vars, ProfileInv, N!TypeOK, ActiveIsShown,
         ActiveIsOne, FilledFromServer, AskedKeeps, DoneIsServer, Active, Keeps, Done
  <1>14. QED
    BY <1>1, <1>2, <1>3, <1>4, <1>5, <1>6, <1>7, <1>8, <1>9, <1>10, <1>11,
       <1>12, <1>13 DEF N!Next

---------------------------------------------------------------------------
\* The behaviours of the composition that are about this page keep ProfileInv.
ProfileKept == which = "profile" => ProfileInv

LEMMA ProfileKeptInit == Init => ProfileKept
  BY ProfileInvInit DEF Init, ProfileKept

LEMMA ProfileKeptStep ==
  ASSUME ProfileKept, [Next]_vars
  PROVE  ProfileKept'
  <1> SUFFICES ASSUME which' = "profile"
               PROVE  ProfileInv'
    BY DEF ProfileKept
  <1>1. which = "profile" /\ [N!Next]_vars
    BY DEF Next, vars, BesideSecondFactorPage, BesidePasswordWizard,
            BesideInvitationSetup, BesideProfileEditor, BesideAuthenticators,
            BesideMfaCodes, BesidePasskeyCeremonies
  <1>2. QED
    BY <1>1, ProfileInvStep DEF ProfileKept

\* The inductive invariant: types, no empty field is sent, and, as long as
\* nothing slipped, at most one save is unanswered and the dialog in front of
\* it was filled with what the server has (EditProfileModal.jsx).
THEOREM ProfileInvariant == Spec => []ProfileKept
  BY ProfileKeptInit, ProfileKeptStep, PTL DEF Spec

\* A save of one's name sends the fields nobody touched as the server has them
\* (handleSubmit of EditProfileModal.jsx).
THEOREM SavesHold == Spec => []SavesKeepTheRest
  <1>1. ProfileKept => SavesKeepTheRest
    BY DEF ProfileKept, ProfileInv, Sound, AskedKeeps, Keeps,
           SavesKeepTheRest, N!SavesKeepTheRest
  <1>2. QED
    BY <1>1, ProfileInvariant, PTL

---------------------------------------------------------------------------
(***************************************************************************)
(* The authenticators of the account.                                      *)
(***************************************************************************)
LoadRow  == [stage : {"none", "asked", "read"}, got : SUBSET Keys]
ModalRow == [open : BOOLEAN, step : {"choice", "qr", "confirm"},
             qr : BOOLEAN, saving : BOOLEAN, joining : BOOLEAN,
             codes : Keys \cup {None}, copied : BOOLEAN]
Removing == {"none", "asked", "done"}
Saving   == {"saving", "inserted", "coded"}
Joining  == {"prompting", "joining", "joined"}

\* The server has changed since the last list was asked for.
Changed ==
  \/ \E k \in Keys : removal[k] = "done" \/ enrol[k] \in {"inserted", "coded", "joined"}
  \/ modal.codes # None

\* An authenticator that was answered has all its backup codes.
CodedAll == \A k \in Keys : enrol[k] = "coded" => made[k] = "all"

\* The codes shown are stored ones; once copied they stay so.
CodesShown ==
  modal.codes # None =>
    /\ modal.open /\ made[modal.codes] = "all"
    /\ modal.copied => modal.codes \in clipped

\* As long as nothing slipped, one authenticator at most is being connected, by
\* the open modal, which stays on its step and has no codes yet.
OneEnrolment ==
  slips = {} =>
    /\ \A k \in Keys : enrol[k] \in Saving =>
         modal.open /\ modal.saving /\ modal.step = "confirm" /\ modal.codes = None
    /\ \A k \in Keys : enrol[k] \in Joining =>
         modal.open /\ modal.joining /\ modal.step = "choice" /\ modal.codes = None
    /\ \A k, l \in D!Enrolling : k = l
    /\ modal.codes # None => modal.step # "choice"

\* A list that loads has an answer to come.
LoadIsAwaited == loading => D!Awaited

\* A list that was read, or is shown while none is awaited, is the server's,
\* unless that has changed since.
ListedOrChanged ==
  slips = {} /\ ~Changed =>
    /\ \A c \in Calls : loads[c].stage = "read" => loads[c].got = stored
    /\ ~D!Awaited => list = stored

AuthInv ==
  /\ D!TypeOK /\ CodedAll /\ CodesShown /\ D!CodesAreKept
  /\ OneEnrolment /\ LoadIsAwaited /\ ListedOrChanged

LEMMA AuthTypes ==
  ASSUME D!TypeOK
  PROVE  /\ stored \subseteq Keys /\ made \in [Keys -> {"none", "some", "all"}]
         /\ list \subseteq Keys /\ loading \in BOOLEAN
         /\ loads \in [Calls -> LoadRow]
         /\ asked \in Keys \cup {None} /\ removal \in [Keys -> Removing]
         /\ modal \in ModalRow /\ setup \in BOOLEAN
         /\ enrol \in [Keys -> {"unused", "over", "finished"} \cup Saving \cup Joining]
         /\ clipped \subseteq Keys /\ slips \subseteq {"overlap", "left", "lost"}
  <1>1. {"unused", "over", "finished"} \cup Saving \cup Joining
          = {"unused", "saving", "inserted", "coded", "prompting", "joining", "joined",
             "over", "finished"}
    BY DEF Saving, Joining
  <1>2. QED
    BY <1>1 DEF D!TypeOK, LoadRow, ModalRow, Removing

LEMMA TypesAuth ==
  ASSUME stored' \subseteq Keys, made' \in [Keys -> {"none", "some", "all"}],
         list' \subseteq Keys, loading' \in BOOLEAN,
         loads' \in [Calls -> LoadRow],
         asked' \in Keys \cup {None}, removal' \in [Keys -> Removing],
         modal' \in ModalRow, setup' \in BOOLEAN,
         enrol' \in [Keys -> {"unused", "over", "finished"} \cup Saving \cup Joining],
         clipped' \subseteq Keys, slips' \subseteq {"overlap", "left", "lost"}
  PROVE  D!TypeOK'
  <1>1. {"unused", "over", "finished"} \cup Saving \cup Joining
          = {"unused", "saving", "inserted", "coded", "prompting", "joining", "joined",
             "over", "finished"}
    BY DEF Saving, Joining
  <1>2. QED
    BY <1>1 DEF D!TypeOK, LoadRow, ModalRow, Removing

LEMMA ClosedTypes ==
  /\ D!Closed \in ModalRow /\ ~D!Closed.open /\ D!Closed.codes = None
  /\ D!Opened \in ModalRow /\ D!Opened.open /\ D!Opened.codes = None
  /\ D!NoLoad \in LoadRow /\ D!NoLoad.stage = "none"
  BY DEF D!Closed, D!Opened, D!NoLoad, ModalRow, LoadRow

LEMMA AuthInvInit == D!Init => AuthInv
  <1> SUFFICES ASSUME D!Init
               PROVE  AuthInv
    OBVIOUS
  <1>1. PICK first \in Calls :
          loads = [c \in Calls |-> IF c = first THEN [stage |-> "asked", got |-> {}]
                                   ELSE D!NoLoad]
    BY DEF D!Init
  <1>2. /\ stored = {} /\ made = [k \in Keys |-> "none"] /\ list = {} /\ loading = TRUE
        /\ asked = None /\ removal = [k \in Keys |-> "none"]
        /\ modal = D!Closed /\ setup = FALSE
        /\ enrol = [k \in Keys |-> "unused"] /\ clipped = {} /\ slips = {}
    BY DEF D!Init
  <1>3. loads[first].stage = "asked" /\ loads \in [Calls -> LoadRow]
        /\ \A c \in Calls : loads[c].stage # "read"
    BY <1>1, ClosedTypes DEF LoadRow
  <1>4. D!TypeOK
    BY <1>2, <1>3, ClosedTypes DEF D!TypeOK, LoadRow, ModalRow
  <1>5. CodedAll /\ CodesShown /\ D!CodesAreKept /\ OneEnrolment
    BY <1>2, ClosedTypes
    DEF CodedAll, CodesShown, D!CodesAreKept, OneEnrolment, D!Enrolling, Saving, Joining
  <1>6. D!Awaited
    BY <1>3, ClosedTypes DEF D!Awaited
  <1>7. LoadIsAwaited /\ ListedOrChanged
    BY <1>3, <1>6 DEF LoadIsAwaited, ListedOrChanged
  <1>8. QED
    BY <1>4, <1>5, <1>7 DEF AuthInv

---------------------------------------------------------------------------
\* A step of the panel: the modal and what it connects stay as they are.
LEMMA PanelStep ==
  ASSUME AuthInv, D!TypeOK', UNCHANGED <<made, modal, enrol, clipped>>,
         slips' = {} => slips = {}, LoadIsAwaited', ListedOrChanged'
  PROVE  AuthInv'
  <1>1. CodedAll' /\ CodesShown' /\ D!CodesAreKept'
    BY DEF AuthInv, CodedAll, CodesShown, D!CodesAreKept
  <1>2. OneEnrolment'
    BY DEF AuthInv, OneEnrolment, D!Enrolling
  <1>3. QED
    BY <1>1, <1>2 DEF AuthInv

\* A step of the modal or of what it connects: the list stays as it is, and
\* what has changed is not forgotten.
LEMMA ModalStep ==
  ASSUME AuthInv, D!TypeOK', UNCHANGED <<list, loading, loads>>,
         slips' = {} => /\ slips = {} /\ (Changed => Changed')
                        /\ stored' = stored \/ Changed',
         CodedAll', CodesShown', D!CodesAreKept', OneEnrolment'
  PROVE  AuthInv'
  <1>1. LoadIsAwaited' /\ D!Awaited' = D!Awaited
    BY DEF AuthInv, LoadIsAwaited, D!Awaited
  <1>2. ListedOrChanged'
    BY <1>1 DEF AuthInv, ListedOrChanged
  <1>3. QED
    BY <1>1, <1>2 DEF AuthInv

\* The list is asked for: unless it was awaited already, no answer is under way.
LEMMA LoadStep ==
  ASSUME AuthInv, D!Load, slips' = slips \cup D!Overlap
  PROVE  /\ loads' \in [Calls -> LoadRow] /\ loading' = TRUE
         /\ slips' \subseteq {"overlap", "left", "lost"}
         /\ slips' = {} => slips = {}
         /\ LoadIsAwaited' /\ ListedOrChanged'
  <1>1. PICK c \in Calls :
          loads[c] = D!NoLoad /\ loads' = [loads EXCEPT ![c] = [loads[c] EXCEPT !.stage = "asked"]]
    BY DEF D!Load
  <1>2. loads \in [Calls -> LoadRow] /\ slips \subseteq {"overlap", "left", "lost"}
    BY AuthTypes DEF AuthInv
  <1>3. [loads[c] EXCEPT !.stage = "asked"] \in LoadRow
        /\ [loads[c] EXCEPT !.stage = "asked"].stage = "asked"
    BY <1>2 DEF LoadRow
  <1>4. loads' \in [Calls -> LoadRow] /\ loads'[c].stage = "asked"
        /\ \A d \in Calls : d # c => loads'[d] = loads[d]
    BY <1>1, <1>2, <1>3
  <1>5. slips' = {} => slips = {} /\ ~D!Awaited
    BY DEF D!Overlap
  <1>6. slips' = {} => \A d \in Calls : loads'[d].stage # "read"
    BY <1>4, <1>5, ClosedTypes DEF D!Awaited
  <1>7. D!Awaited'
    BY <1>4, ClosedTypes DEF D!Awaited, D!NoLoad
  <1>8. LoadIsAwaited' /\ ListedOrChanged'
    BY <1>6, <1>7 DEF LoadIsAwaited, ListedOrChanged
  <1>9. slips' \subseteq {"overlap", "left", "lost"} /\ loading' = TRUE
    BY <1>2 DEF D!Overlap, D!Load
  <1>10. QED
    BY <1>4, <1>5, <1>8, <1>9

LEMMA LoadsStep ==
  ASSUME AuthInv, NEW c \in Calls, D!Reads(c) \/ D!Loaded(c) \/ D!LoadFails(c)
  PROVE  AuthInv'
  <1>1. /\ stored \subseteq Keys /\ loads \in [Calls -> LoadRow] /\ list \subseteq Keys
        /\ loading \in BOOLEAN /\ slips \subseteq {"overlap", "left", "lost"}
    BY AuthTypes DEF AuthInv
  <1>2. UNCHANGED <<stored, made, asked, removal, modal, setup, enrol, clipped>>
        /\ Changed' = Changed
    BY DEF D!Reads, D!Loaded, D!LoadFails, Changed
  <1>3. CASE D!Reads(c)
    <2> DEFINE r == [stage |-> "read", got |-> stored]
    <2>1. /\ loads[c].stage = "asked" /\ loads' = [loads EXCEPT ![c] = r]
          /\ UNCHANGED <<list, loading, slips>>
      BY <1>3 DEF D!Reads
    <2>2. r \in LoadRow /\ r.stage = "read" /\ r.got = stored /\ r # D!NoLoad
      BY <1>1, ClosedTypes DEF LoadRow
    <2> HIDE DEF r
    <2>3. /\ loads' \in [Calls -> LoadRow]
          /\ \A d \in Calls : loads'[d] = IF d = c THEN r ELSE loads[d]
      BY <1>1, <2>1, <2>2
    <2>4. D!Awaited'
      BY <2>2, <2>3 DEF D!Awaited, D!NoLoad
    <2>5. LoadIsAwaited' /\ ListedOrChanged'
      BY <1>2, <2>1, <2>2, <2>3, <2>4 DEF AuthInv, LoadIsAwaited, ListedOrChanged
    <2>6. D!TypeOK'
      BY <1>2, <2>1, <2>3 DEF AuthInv, D!TypeOK, LoadRow
    <2>7. QED
      BY <1>2, <2>1, <2>5, <2>6, PanelStep
  <1>4. CASE D!Loaded(c) \/ D!LoadFails(c)
    <2>1. /\ loads' = [loads EXCEPT ![c] = D!NoLoad] /\ loading' = FALSE
          /\ \/ loads[c].stage = "read" /\ list' = loads[c].got /\ slips' = slips
             \/ list' = list /\ slips' = slips \cup {"lost"}
      BY <1>4 DEF D!Loaded, D!LoadFails
    <2>2. /\ loads' \in [Calls -> LoadRow]
          /\ \A d \in Calls : loads'[d] = IF d = c THEN D!NoLoad ELSE loads[d]
      BY <1>1, <2>1, ClosedTypes
    <2>3. list' \subseteq Keys /\ slips' \subseteq {"overlap", "left", "lost"}
      BY <1>1, <2>1 DEF LoadRow
    <2>4. LoadIsAwaited' /\ ListedOrChanged'
      BY <1>2, <2>1, <2>2, ClosedTypes DEF AuthInv, LoadIsAwaited, ListedOrChanged
    <2>5. D!TypeOK'
      BY <1>2, <2>1, <2>2, <2>3 DEF AuthInv, D!TypeOK, LoadRow
    <2>6. QED
      BY <1>2, <2>1, <2>4, <2>5, PanelStep
  <1>5. QED
    BY <1>3, <1>4

LEMMA RemovalStep ==
  ASSUME AuthInv,
         \/ D!CancelRemoval \/ D!ConfirmRemoval
         \/ \E k \in Keys : \/ D!AskRemoval(k) \/ D!RemoveAuthenticator(k)
                            \/ D!Removed(k) \/ D!RemovalFails(k)
  PROVE  AuthInv'
  <1>1. /\ stored \subseteq Keys /\ removal \in [Keys -> Removing]
        /\ asked \in Keys \cup {None} /\ slips \subseteq {"overlap", "left", "lost"}
    BY AuthTypes DEF AuthInv
  <1>2. \A k \in Keys, q \in Removing :
          /\ [removal EXCEPT ![k] = q] \in [Keys -> Removing]
          /\ \A l \in Keys : [removal EXCEPT ![k] = q][l] = IF l = k THEN q ELSE removal[l]
    BY <1>1
  <1>3. "none" \in Removing /\ "asked" \in Removing /\ "done" \in Removing
    BY DEF Removing
  <1>4. UNCHANGED <<made, modal, enrol, clipped, setup, list>>
    BY DEF D!CancelRemoval, D!ConfirmRemoval, D!AskRemoval, D!RemoveAuthenticator,
           D!Removed, D!RemovalFails
  <1>5. ASSUME asked' \in Keys \cup {None}, removal' \in [Keys -> Removing],
               stored' \subseteq Keys, slips' \subseteq {"overlap", "left", "lost"},
               UNCHANGED <<loading, loads>>,
               slips' = {} => /\ slips = {} /\ (Changed => Changed')
                              /\ stored' = stored \/ Changed'
        PROVE  AuthInv'
    <2>1. D!TypeOK'
      BY <1>4, <1>5 DEF AuthInv, D!TypeOK, Removing
    <2>2. CodedAll' /\ CodesShown' /\ D!CodesAreKept'
      BY <1>4 DEF AuthInv, CodedAll, CodesShown, D!CodesAreKept
    <2>3. OneEnrolment'
      BY <1>4, <1>5 DEF AuthInv, OneEnrolment, D!Enrolling
    <2>4. QED
      BY <1>4, <1>5, <2>1, <2>2, <2>3, ModalStep
  <1>6. CASE D!CancelRemoval \/ \E k \in Keys : D!AskRemoval(k)
    <2>1. asked' \in Keys \cup {None}
          /\ UNCHANGED <<removal, stored, slips, loading, loads>>
      BY <1>6 DEF D!CancelRemoval, D!AskRemoval
    <2>2. Changed' = Changed
      BY <1>4, <2>1 DEF Changed
    <2>3. QED
      BY <1>1, <1>5, <2>1, <2>2
  <1>7. CASE D!ConfirmRemoval
    <2>1. /\ asked \in Keys /\ removal[asked] = "none"
          /\ removal' = [removal EXCEPT ![asked] = "asked"]
          /\ UNCHANGED <<asked, stored, slips, loading, loads>>
      BY <1>1, <1>7 DEF D!ConfirmRemoval
    <2>2. Changed => Changed'
      BY <1>2, <1>3, <1>4, <2>1 DEF Changed
    <2>3. QED
      BY <1>1, <1>2, <1>3, <1>5, <2>1, <2>2
  <1>8. ASSUME NEW k \in Keys, D!RemoveAuthenticator(k)
        PROVE  AuthInv'
    <2>1. /\ removal' = [removal EXCEPT ![k] = "done"] /\ stored' = stored \ {k}
          /\ UNCHANGED <<asked, slips, loading, loads>>
      BY <1>8 DEF D!RemoveAuthenticator
    <2>2. Changed'
      BY <1>2, <1>3, <2>1 DEF Changed
    <2>3. QED
      BY <1>1, <1>2, <1>3, <1>5, <2>1, <2>2
  <1>9. ASSUME NEW k \in Keys, D!Removed(k)
        PROVE  AuthInv'
    <2>1. /\ removal' = [removal EXCEPT ![k] = "none"] /\ asked' = None
          /\ D!Load /\ slips' = slips \cup D!Overlap /\ stored' = stored
      BY <1>9 DEF D!Removed
    <2>2. /\ loads' \in [Calls -> LoadRow] /\ loading' = TRUE
          /\ slips' \subseteq {"overlap", "left", "lost"}
          /\ slips' = {} => slips = {}
          /\ LoadIsAwaited' /\ ListedOrChanged'
      BY <2>1, LoadStep
    <2>3. D!TypeOK'
      BY <1>2, <1>3, <1>4, <2>1, <2>2 DEF AuthInv, D!TypeOK, LoadRow, Removing
    <2>4. QED
      BY <1>4, <2>2, <2>3, PanelStep
  <1>10. ASSUME NEW k \in Keys, D!RemovalFails(k)
         PROVE  AuthInv'
    <2>1. /\ removal' = [removal EXCEPT ![k] = "none"]
          /\ slips' = IF removal[k] = "done" THEN slips \cup {"lost"} ELSE slips
          /\ UNCHANGED <<asked, stored, loading, loads>>
      BY <1>10 DEF D!RemovalFails
    <2>2. slips' = {} => slips = {} /\ removal[k] # "done"
      BY <2>1
    <2>3. slips' = {} => (Changed => Changed')
      BY <1>2, <1>3, <1>4, <2>1, <2>2 DEF Changed
    <2>4. slips' \subseteq {"overlap", "left", "lost"}
      BY <1>1, <2>1
    <2>5. QED
      BY <1>1, <1>2, <1>3, <1>5, <2>1, <2>2, <2>3, <2>4
  <1>11. QED
    BY <1>6, <1>7, <1>8, <1>9, <1>10

---------------------------------------------------------------------------
Slips == {"overlap", "left", "lost"}

\* What the user does in the modal, before and after the calls it makes.
LEMMA FaceStep ==
  ASSUME AuthInv, UNCHANGED <<stored, made, list, loading, loads, asked, removal, enrol>>,
         modal' \in ModalRow, setup' \in BOOLEAN, slips' \subseteq Slips,
         clipped' \subseteq Keys, clipped \subseteq clipped',
         slips' = {} => slips = {} /\ modal'.codes = modal.codes,
         modal'.codes \in {None, modal.codes},
         modal'.codes # None => /\ modal'.open
                                /\ modal'.copied => modal'.codes \in clipped',
         OneEnrolment'
  PROVE  AuthInv'
  <1>1. D!TypeOK'
    BY AuthTypes, TypesAuth DEF AuthInv, Slips
  <1>2. CodedAll' /\ CodesShown' /\ D!CodesAreKept'
    BY DEF AuthInv, CodedAll, CodesShown, D!CodesAreKept
  <1>3. slips' = {} => (Changed => Changed')
    BY DEF Changed
  <1>4. QED
    BY <1>1, <1>2, <1>3, ModalStep

LEMMA ModalFaces ==
  ASSUME AuthInv,
         \/ D!OpenModal \/ D!LeaveModal \/ D!ChooseApp \/ D!SetupAnswered
         \/ D!GoNext \/ D!GoBack \/ D!CopyCodes
  PROVE  AuthInv'
  <1>1. /\ modal \in ModalRow /\ setup \in BOOLEAN /\ clipped \subseteq Keys
        /\ slips \subseteq Slips
    BY AuthTypes DEF AuthInv, Slips
  <1>2. CodesShown /\ OneEnrolment
    BY DEF AuthInv
  <1>3. UNCHANGED <<stored, made, list, loading, loads, asked, removal, enrol>>
    BY DEF D!OpenModal, D!LeaveModal, D!ChooseApp, D!SetupAnswered, D!GoNext, D!GoBack,
           D!CopyCodes
  <1>4. D!Enrolling' = D!Enrolling
    BY <1>3 DEF D!Enrolling
  <1>5. CASE D!OpenModal
    <2>1. ~modal.open /\ modal' = D!Opened /\ UNCHANGED <<setup, clipped, slips>>
      BY <1>5 DEF D!OpenModal
    <2>2. modal.codes = None /\ modal'.codes = None
      BY <1>2, <2>1, ClosedTypes DEF CodesShown
    <2>3. OneEnrolment'
      BY <1>2, <1>3, <1>4, <2>1, <2>2 DEF OneEnrolment
    <2>4. QED
      BY <1>1, <1>3, <2>1, <2>2, <2>3, ClosedTypes, FaceStep
  <1>6. CASE D!LeaveModal
    <2>1. /\ modal' = D!Closed /\ setup' = FALSE /\ UNCHANGED clipped
          /\ slips' = IF D!Enrolling # {} \/ modal.codes # None THEN slips \cup {"left"}
                      ELSE slips
      BY <1>6 DEF D!LeaveModal, D!Close
    <2>2. slips' \subseteq Slips
      BY <1>1, <2>1 DEF Slips
    <2>3. slips' = {} => slips = {} /\ D!Enrolling = {} /\ modal.codes = None
      BY <2>1
    <2>4. D!Enrolling = {} => \A k \in Keys : enrol[k] \notin Saving \cup Joining
      BY DEF D!Enrolling, Saving, Joining
    <2>5. modal'.codes = None
      BY <2>1, ClosedTypes
    <2>6. OneEnrolment'
      BY <1>3, <1>4, <2>3, <2>4, <2>5 DEF OneEnrolment
    <2>7. QED
      BY <1>1, <1>3, <2>1, <2>2, <2>3, <2>5, <2>6, ClosedTypes, FaceStep
  <1>7. CASE D!ChooseApp
    <2>1. /\ modal.step = "choice" /\ ~modal.joining /\ setup' = TRUE
          /\ modal' = [modal EXCEPT !.step = "qr"] /\ UNCHANGED <<clipped, slips>>
      BY <1>7 DEF D!ChooseApp, D!OnChoice
    <2>2. /\ modal' \in ModalRow /\ modal'.step = "qr" /\ modal'.codes = modal.codes
          /\ modal'.open = modal.open /\ modal'.copied = modal.copied
      BY <1>1, <2>1 DEF ModalRow
    <2>3. OneEnrolment'
      BY <1>2, <1>3, <1>4, <2>1, <2>2 DEF OneEnrolment
    <2>4. QED
      BY <1>1, <1>2, <1>3, <2>1, <2>2, <2>3, FaceStep DEF CodesShown
  <1>8. CASE D!SetupAnswered
    <2>1. PICK ok \in BOOLEAN : modal' = [modal EXCEPT !.qr = ok]
      BY <1>8 DEF D!SetupAnswered
    <2>2. setup' = FALSE /\ UNCHANGED <<clipped, slips>>
      BY <1>8 DEF D!SetupAnswered
    <2>3. /\ modal' \in ModalRow /\ modal'.step = modal.step /\ modal'.codes = modal.codes
          /\ modal'.open = modal.open /\ modal'.copied = modal.copied
          /\ modal'.saving = modal.saving /\ modal'.joining = modal.joining
      BY <1>1, <2>1 DEF ModalRow
    <2>4. OneEnrolment'
      BY <1>2, <1>3, <1>4, <2>2, <2>3 DEF OneEnrolment
    <2>5. QED
      BY <1>1, <1>2, <1>3, <2>2, <2>3, <2>4, FaceStep DEF CodesShown
  <1>9. CASE D!GoNext
    <2>1. /\ modal.step = "qr" /\ modal' = [modal EXCEPT !.step = "confirm"]
          /\ UNCHANGED <<setup, clipped, slips>>
      BY <1>9 DEF D!GoNext
    <2>2. /\ modal' \in ModalRow /\ modal'.step = "confirm" /\ modal'.codes = modal.codes
          /\ modal'.open = modal.open /\ modal'.copied = modal.copied
      BY <1>1, <2>1 DEF ModalRow
    <2>3. OneEnrolment'
      BY <1>2, <1>3, <1>4, <2>1, <2>2 DEF OneEnrolment
    <2>4. QED
      BY <1>1, <1>2, <1>3, <2>1, <2>2, <2>3, FaceStep DEF CodesShown
  <1>10. CASE D!GoBack
    <2>1. /\ modal.step = "confirm" /\ ~modal.saving
          /\ modal' = [modal EXCEPT !.step = "qr"] /\ UNCHANGED <<setup, clipped, slips>>
      BY <1>10 DEF D!GoBack, D!OnConfirm
    <2>2. /\ modal' \in ModalRow /\ modal'.step = "qr" /\ modal'.codes = modal.codes
          /\ modal'.open = modal.open /\ modal'.copied = modal.copied
      BY <1>1, <2>1 DEF ModalRow
    <2>3. OneEnrolment'
      BY <1>2, <1>3, <1>4, <2>1, <2>2 DEF OneEnrolment
    <2>4. QED
      BY <1>1, <1>2, <1>3, <2>1, <2>2, <2>3, FaceStep DEF CodesShown
  <1>11. CASE D!CopyCodes
    <2>1. /\ modal.open /\ modal.codes # None /\ clipped' = clipped \cup {modal.codes}
          /\ modal' = [modal EXCEPT !.copied = TRUE] /\ UNCHANGED <<setup, slips>>
      BY <1>11 DEF D!CopyCodes, D!OnConfirm
    <2>2. /\ modal' \in ModalRow /\ modal'.step = modal.step /\ modal'.codes = modal.codes
          /\ modal'.open = modal.open
          /\ modal'.saving = modal.saving /\ modal'.joining = modal.joining
      BY <1>1, <2>1 DEF ModalRow
    <2>3. modal.codes \in Keys
      BY <1>1, <2>1 DEF ModalRow
    <2>4. OneEnrolment'
      BY <1>2, <1>3, <1>4, <2>1, <2>2 DEF OneEnrolment
    <2>5. QED
      BY <1>1, <1>3, <2>1, <2>2, <2>3, <2>4, FaceStep
  <1>12. QED
    BY <1>5, <1>6, <1>7, <1>8, <1>9, <1>10, <1>11

---------------------------------------------------------------------------
Stages == {"unused", "over", "finished"} \cup Saving \cup Joining

\* One authenticator goes on to its next stage.
LEMMA EnrolStep ==
  ASSUME AuthInv, NEW k \in Keys, NEW q \in Stages, enrol' = [enrol EXCEPT ![k] = q],
         slips' = {} => /\ slips = {}
                        /\ \/ enrol[k] \in Saving \cup Joining
                           \/ \A l \in Keys : enrol[l] \notin Saving \cup Joining
                        /\ q \in Saving => /\ modal'.open /\ modal'.saving
                                           /\ modal'.step = "confirm" /\ modal'.codes = None
                        /\ q \in Joining => /\ modal'.open /\ modal'.joining
                                            /\ modal'.step = "choice" /\ modal'.codes = None
                        /\ modal'.codes # None => modal'.step # "choice",
         \A l \in Keys : made[l] = "all" => made'[l] = "all",
         q = "coded" => made'[k] = "all",
         q = "finished" => k \in clipped, clipped' = clipped, CodesShown'
  PROVE  /\ enrol' \in [Keys -> Stages]
         /\ enrol'[k] = q /\ \A l \in Keys : l # k => enrol'[l] = enrol[l]
         /\ CodedAll' /\ D!CodesAreKept' /\ OneEnrolment'
  <1>1. enrol \in [Keys -> Stages]
    BY AuthTypes DEF AuthInv, Stages
  <1>2. /\ enrol' \in [Keys -> Stages]
        /\ enrol'[k] = q /\ \A l \in Keys : l # k => enrol'[l] = enrol[l]
    BY <1>1
  <1>3. CodedAll'
    BY <1>2 DEF AuthInv, CodedAll
  <1>4. D!CodesAreKept'
    BY <1>2 DEF AuthInv, CodesShown, D!CodesAreKept
  <1>5. /\ \A l \in Keys : enrol[l] \in Saving \cup Joining <=> l \in D!Enrolling
        /\ \A l \in Keys : enrol'[l] \in Saving \cup Joining <=> l \in D!Enrolling'
        /\ D!Enrolling' \subseteq Keys
    BY <1>1, <1>2 DEF D!Enrolling, Stages, Saving, Joining
  <1>6. OneEnrolment'
    <2> SUFFICES ASSUME slips' = {}
                 PROVE  /\ \A l \in Keys : enrol'[l] \in Saving =>
                             /\ modal'.open /\ modal'.saving
                             /\ modal'.step = "confirm" /\ modal'.codes = None
                        /\ \A l \in Keys : enrol'[l] \in Joining =>
                             /\ modal'.open /\ modal'.joining
                             /\ modal'.step = "choice" /\ modal'.codes = None
                        /\ \A l, j \in D!Enrolling' : l = j
                        /\ modal'.codes # None => modal'.step # "choice"
      BY DEF OneEnrolment
    <2>1. \A l, j \in D!Enrolling : l = j
      BY DEF AuthInv, OneEnrolment
    <2>2. \A l \in Keys : enrol'[l] \in Saving \cup Joining => l = k
      BY <1>2, <1>5, <2>1
    <2>3. \A l \in D!Enrolling' : l = k
      BY <1>5, <2>2
    <2>4. QED
      BY <1>2, <2>2, <2>3
  <1>7. QED
    BY <1>2, <1>3, <1>4, <1>6

\* Saving an authenticator app: the call, the server's inserts, the answer.
LEMMA SavingSteps ==
  ASSUME AuthInv, NEW k \in Keys,
         \/ D!SaveAuthenticator(k) \/ D!InsertAuthenticator(k) \/ D!InsertCodes(k)
         \/ D!SaveAnswered(k) \/ D!SaveFails(k)
  PROVE  AuthInv'
  <1>1. /\ modal \in ModalRow /\ made \in [Keys -> {"none", "some", "all"}]
        /\ stored \subseteq Keys /\ slips \subseteq Slips /\ enrol \in [Keys -> Stages]
        /\ setup \in BOOLEAN /\ removal \in [Keys -> Removing]
        /\ asked \in Keys \cup {None} /\ clipped \subseteq Keys
        /\ list \subseteq Keys /\ loading \in BOOLEAN /\ loads \in [Calls -> LoadRow]
    BY AuthTypes DEF AuthInv, Slips, Stages
  <1>2. CodesShown /\ OneEnrolment /\ CodedAll
    BY DEF AuthInv
  <1>3. /\ UNCHANGED <<list, loading, loads, asked, removal, setup, clipped>>
    BY DEF D!SaveAuthenticator, D!InsertAuthenticator, D!InsertCodes, D!SaveAnswered,
           D!SaveFails
  <1>4. ASSUME modal' \in ModalRow, made' \in [Keys -> {"none", "some", "all"}],
               stored' \subseteq Keys, slips' \subseteq Slips, enrol' \in [Keys -> Stages],
               slips' = {} => /\ slips = {} /\ (Changed => Changed')
                              /\ stored' = stored \/ Changed',
               CodedAll', CodesShown', D!CodesAreKept', OneEnrolment'
        PROVE  AuthInv'
    <2>1. D!TypeOK'
      BY <1>1, <1>3, <1>4, TypesAuth DEF Slips, Stages
    <2>2. QED
      BY <1>3, <1>4, <2>1, ModalStep
  <1>5. Saving \subseteq Stages /\ Joining \subseteq Stages /\ "over" \in Stages
        /\ "over" \notin Saving \cup Joining /\ "unused" \notin Saving \cup Joining
        /\ "saving" \in Saving /\ "inserted" \in Saving /\ "coded" \in Saving
        /\ Saving \cap Joining = {}
    BY DEF Stages, Saving, Joining
  <1>6. CASE D!SaveAuthenticator(k)
    <2>1. /\ modal.open /\ modal.step = "confirm" /\ ~modal.saving /\ modal.codes = None
          /\ enrol[k] = "unused" /\ enrol' = [enrol EXCEPT ![k] = "saving"]
          /\ modal' = [modal EXCEPT !.saving = TRUE] /\ UNCHANGED <<stored, made, slips>>
      BY <1>6 DEF D!SaveAuthenticator, D!OnConfirm
    <2>2. /\ modal' \in ModalRow /\ modal'.step = "confirm" /\ modal'.codes = None
          /\ modal'.open /\ modal'.saving
      BY <1>1, <2>1 DEF ModalRow
    <2>3. slips' = {} => \A l \in Keys : enrol[l] \notin Saving \cup Joining
      BY <1>2, <2>1 DEF OneEnrolment
    <2>4. CodesShown'
      BY <2>2 DEF CodesShown
    <2>5. /\ enrol' \in [Keys -> Stages]
          /\ enrol'[k] = "saving" /\ \A l \in Keys : l # k => enrol'[l] = enrol[l]
          /\ CodedAll' /\ D!CodesAreKept' /\ OneEnrolment'
      BY <1>3, <1>5, <2>1, <2>2, <2>3, <2>4, EnrolStep
    <2>6. Changed => Changed'
      BY <1>3, <2>1, <2>2, <2>5 DEF Changed
    <2>7. QED
      BY <1>1, <1>4, <2>1, <2>2, <2>4, <2>5, <2>6
  <1>7. CASE D!InsertAuthenticator(k)
    <2>1. /\ enrol[k] = "saving" /\ enrol' = [enrol EXCEPT ![k] = "inserted"]
          /\ stored' = stored \cup {k} /\ UNCHANGED <<modal, made, slips>>
      BY <1>7 DEF D!InsertAuthenticator
    <2>2. slips' = {} => /\ modal'.open /\ modal'.saving
                         /\ modal'.step = "confirm" /\ modal'.codes = None
      BY <1>2, <1>5, <2>1 DEF OneEnrolment
    <2>3. CodesShown'
      BY <1>2, <1>3, <2>1 DEF CodesShown
    <2>4. /\ enrol' \in [Keys -> Stages]
          /\ enrol'[k] = "inserted" /\ \A l \in Keys : l # k => enrol'[l] = enrol[l]
          /\ CodedAll' /\ D!CodesAreKept' /\ OneEnrolment'
      BY <1>3, <1>5, <2>1, <2>2, <2>3, EnrolStep
    <2>5. Changed'
      BY <2>4 DEF Changed
    <2>6. QED
      BY <1>1, <1>4, <2>1, <2>3, <2>4, <2>5
  <1>8. CASE D!InsertCodes(k)
    <2>1. /\ enrol[k] = "inserted" /\ UNCHANGED <<stored, modal, slips>>
          /\ \/ made[k] = "none" /\ made' = [made EXCEPT ![k] = "some"] /\ enrol' = enrol
             \/ /\ made[k] = "some" /\ made' = [made EXCEPT ![k] = "all"]
                /\ enrol' = [enrol EXCEPT ![k] = "coded"]
      BY <1>8 DEF D!InsertCodes
    <2>2. /\ made' \in [Keys -> {"none", "some", "all"}]
          /\ \A l \in Keys : made[l] = "all" => made'[l] = "all"
          /\ enrol' # enrol => made'[k] = "all"
      BY <1>1, <2>1
    <2>3. modal.codes \in Keys \cup {None}
      BY <1>1 DEF ModalRow
    <2>4. slips' = {} => /\ modal'.open /\ modal'.saving
                         /\ modal'.step = "confirm" /\ modal'.codes = None
      BY <1>2, <1>5, <2>1 DEF OneEnrolment
    <2>5. CodesShown'
      BY <1>2, <1>3, <2>1, <2>2, <2>3 DEF CodesShown
    <2>6. CASE enrol' = enrol
      <3>1. CodedAll' /\ D!CodesAreKept'
        BY <1>3, <2>2, <2>3, <2>5, <2>6 DEF AuthInv, CodedAll, CodesShown, D!CodesAreKept
      <3>2. OneEnrolment'
        BY <1>2, <2>1, <2>6 DEF OneEnrolment, D!Enrolling
      <3>3. Changed' = Changed
        BY <1>3, <2>1, <2>6 DEF Changed
      <3>4. QED
        BY <1>1, <1>4, <2>1, <2>2, <2>5, <2>6, <3>1, <3>2, <3>3
    <2>7. CASE enrol' = [enrol EXCEPT ![k] = "coded"] /\ enrol' # enrol
      <3>1. /\ enrol' \in [Keys -> Stages]
            /\ enrol'[k] = "coded" /\ \A l \in Keys : l # k => enrol'[l] = enrol[l]
            /\ CodedAll' /\ D!CodesAreKept' /\ OneEnrolment'
        BY <1>3, <1>5, <2>1, <2>2, <2>4, <2>5, <2>7, EnrolStep
      <3>2. Changed'
        BY <3>1 DEF Changed
      <3>3. QED
        BY <1>1, <1>4, <2>1, <2>2, <2>5, <3>1, <3>2
    <2>8. QED
      BY <2>1, <2>6, <2>7
  <1>9. CASE D!SaveAnswered(k)
    <2> DEFINE m == [modal EXCEPT !.codes = k, !.copied = FALSE, !.saving = FALSE]
    <2>1. /\ enrol[k] = "coded" /\ enrol' = [enrol EXCEPT ![k] = "over"]
          /\ modal' = IF modal.open THEN m ELSE D!Closed
          /\ UNCHANGED <<stored, made, slips>>
      BY <1>9 DEF D!SaveAnswered, D!Shows
    <2>2. /\ m \in ModalRow /\ m.step = modal.step /\ m.codes = k /\ m.open = modal.open
          /\ ~m.copied
      BY <1>1 DEF ModalRow
    <2> HIDE DEF m
    <2>3. modal' \in ModalRow /\ CodesShown'
      BY <1>2, <2>1, <2>2, ClosedTypes DEF CodesShown, CodedAll
    <2>4. slips' = {} => /\ modal.open /\ modal.step = "confirm"
      BY <1>2, <1>5, <2>1 DEF OneEnrolment
    <2>5. slips' = {} => modal'.step = "confirm" /\ modal'.codes = k
      BY <2>1, <2>2, <2>4
    <2>6. /\ enrol' \in [Keys -> Stages]
          /\ enrol'[k] = "over" /\ \A l \in Keys : l # k => enrol'[l] = enrol[l]
          /\ CodedAll' /\ D!CodesAreKept' /\ OneEnrolment'
      BY <1>3, <1>5, <2>1, <2>3, <2>5, EnrolStep
    <2>7. k # None
      BY AccountAssumption
    <2>8. slips' = {} => Changed'
      BY <2>5, <2>7 DEF Changed
    <2>9. QED
      BY <1>1, <1>4, <2>1, <2>3, <2>6, <2>8
  <1>10. CASE D!SaveFails(k)
    <2> DEFINE m == [modal EXCEPT !.saving = FALSE]
    <2>1. /\ enrol[k] \in Saving /\ enrol' = [enrol EXCEPT ![k] = "over"]
          /\ modal' = IF modal.open THEN m ELSE D!Closed
          /\ slips' = IF enrol[k] = "saving" THEN slips ELSE slips \cup {"lost"}
          /\ UNCHANGED <<stored, made>>
      BY <1>10 DEF D!SaveFails, D!Shows, Saving
    <2>2. /\ m \in ModalRow /\ m.step = modal.step /\ m.codes = modal.codes
          /\ m.open = modal.open /\ m.copied = modal.copied
      BY <1>1 DEF ModalRow
    <2> HIDE DEF m
    <2>3. modal' \in ModalRow /\ CodesShown'
      BY <1>2, <1>3, <2>1, <2>2, ClosedTypes DEF CodesShown
    <2>4. slips' = {} => slips = {} /\ enrol[k] = "saving"
      BY <2>1
    <2>5. slips' = {} => modal'.codes = None /\ modal.codes = None
      BY <1>2, <2>1, <2>2, <2>4, ClosedTypes DEF OneEnrolment
    <2>6. /\ enrol' \in [Keys -> Stages]
          /\ enrol'[k] = "over" /\ \A l \in Keys : l # k => enrol'[l] = enrol[l]
          /\ CodedAll' /\ D!CodesAreKept' /\ OneEnrolment'
      BY <1>3, <1>5, <2>1, <2>3, <2>4, <2>5, EnrolStep
    <2>7. slips' = {} => (Changed => Changed')
      BY <1>3, <2>4, <2>5, <2>6 DEF Changed
    <2>8. slips' \subseteq Slips
      BY <1>1, <2>1 DEF Slips
    <2>9. QED
      BY <1>1, <1>4, <2>1, <2>3, <2>4, <2>6, <2>7, <2>8
  <1>11. QED
    BY <1>6, <1>7, <1>8, <1>9, <1>10

\* Joining a passkey; Finish, which closes the modal like the answer of a passkey.
LEMMA JoiningSteps ==
  ASSUME AuthInv, NEW k \in Keys,
         \/ D!ChoosePasskey(k) \/ D!Prompted(k) \/ D!InsertPasskey(k) \/ D!PasskeyFails(k)
  PROVE  AuthInv'
  <1>1. /\ modal \in ModalRow /\ made \in [Keys -> {"none", "some", "all"}]
        /\ stored \subseteq Keys /\ slips \subseteq Slips /\ enrol \in [Keys -> Stages]
        /\ setup \in BOOLEAN /\ removal \in [Keys -> Removing]
        /\ asked \in Keys \cup {None} /\ clipped \subseteq Keys
        /\ list \subseteq Keys /\ loading \in BOOLEAN /\ loads \in [Calls -> LoadRow]
    BY AuthTypes DEF AuthInv, Slips, Stages
  <1>2. CodesShown /\ OneEnrolment
    BY DEF AuthInv
  <1>3. /\ UNCHANGED <<list, loading, loads, asked, removal, setup, clipped, made>>
    BY DEF D!ChoosePasskey, D!Prompted, D!InsertPasskey, D!PasskeyFails
  <1>4. ASSUME modal' \in ModalRow, stored' \subseteq Keys, slips' \subseteq Slips,
               enrol' \in [Keys -> Stages],
               slips' = {} => /\ slips = {} /\ (Changed => Changed')
                              /\ stored' = stored \/ Changed',
               CodedAll', CodesShown', D!CodesAreKept', OneEnrolment'
        PROVE  AuthInv'
    <2>1. D!TypeOK'
      BY <1>1, <1>3, <1>4, TypesAuth DEF Slips, Stages
    <2>2. QED
      BY <1>3, <1>4, <2>1, ModalStep
  <1>5. Saving \subseteq Stages /\ Joining \subseteq Stages /\ "over" \in Stages
        /\ "over" \notin Saving \cup Joining /\ "unused" \notin Saving \cup Joining
        /\ "prompting" \in Joining /\ "joining" \in Joining /\ "joined" \in Joining
        /\ Saving \cap Joining = {}
    BY DEF Stages, Saving, Joining
  <1>6. CASE D!ChoosePasskey(k)
    <2>1. /\ modal.open /\ modal.step = "choice" /\ ~modal.joining
          /\ enrol[k] = "unused" /\ enrol' = [enrol EXCEPT ![k] = "prompting"]
          /\ modal' = [modal EXCEPT !.joining = TRUE] /\ UNCHANGED <<stored, slips>>
      BY <1>6 DEF D!ChoosePasskey, D!OnChoice
    <2>2. /\ modal' \in ModalRow /\ modal'.step = "choice" /\ modal'.codes = modal.codes
          /\ modal'.open /\ modal'.joining /\ modal'.copied = modal.copied
      BY <1>1, <2>1 DEF ModalRow
    <2>3. slips' = {} => /\ \A l \in Keys : enrol[l] \notin Saving \cup Joining
                         /\ modal.codes = None
      BY <1>2, <2>1 DEF OneEnrolment
    <2>4. CodesShown'
      BY <1>2, <1>3, <2>2 DEF CodesShown
    <2>5. /\ enrol' \in [Keys -> Stages]
          /\ enrol'[k] = "prompting" /\ \A l \in Keys : l # k => enrol'[l] = enrol[l]
          /\ CodedAll' /\ D!CodesAreKept' /\ OneEnrolment'
      BY <1>3, <1>5, <2>1, <2>2, <2>3, <2>4, EnrolStep
    <2>6. Changed => Changed'
      BY <1>3, <2>1, <2>2, <2>5 DEF Changed
    <2>7. QED
      BY <1>1, <1>4, <2>1, <2>2, <2>4, <2>5, <2>6
  <1>7. CASE D!Prompted(k) \/ D!InsertPasskey(k)
    <2>1. PICK q \in Joining : enrol' = [enrol EXCEPT ![k] = q]
                               /\ (q = "joined" \/ stored' = stored)
      BY <1>5, <1>7 DEF D!Prompted, D!InsertPasskey
    <2>2. /\ enrol[k] \in Joining /\ enrol[k] # "joined" /\ UNCHANGED <<modal, slips>>
          /\ stored' \subseteq Keys
      BY <1>1, <1>5, <1>7 DEF D!Prompted, D!InsertPasskey
    <2>3. slips' = {} => /\ modal'.open /\ modal'.joining
                         /\ modal'.step = "choice" /\ modal'.codes = None
      BY <1>2, <2>2 DEF OneEnrolment
    <2>4. CodesShown'
      BY <1>2, <1>3, <2>2 DEF CodesShown
    <2>5. q \in Stages /\ q \notin Saving /\ q # "coded" /\ q # "finished"
      BY <1>5, <2>1 DEF Joining, Saving
    <2>6. /\ enrol' \in [Keys -> Stages]
          /\ enrol'[k] = q /\ \A l \in Keys : l # k => enrol'[l] = enrol[l]
          /\ CodedAll' /\ D!CodesAreKept' /\ OneEnrolment'
      BY <1>3, <2>1, <2>2, <2>3, <2>4, <2>5, EnrolStep
    <2>7. Changed => Changed'
      BY <1>3, <2>2, <2>6 DEF Changed, Joining
    <2>8. q = "joined" => Changed'
      BY <2>6 DEF Changed
    <2>9. QED
      BY <1>1, <1>4, <2>1, <2>2, <2>4, <2>6, <2>7, <2>8
  <1>8. CASE D!PasskeyFails(k)
    <2> DEFINE m == [modal EXCEPT !.joining = FALSE]
    <2>1. /\ enrol[k] \in Joining /\ enrol' = [enrol EXCEPT ![k] = "over"]
          /\ modal' = IF modal.open THEN m ELSE D!Closed
          /\ slips' = IF enrol[k] = "joined" THEN slips \cup {"lost"} ELSE slips
          /\ stored' = stored
      BY <1>8 DEF D!PasskeyFails, D!Shows, Joining
    <2>2. /\ m \in ModalRow /\ m.step = modal.step /\ m.codes = modal.codes
          /\ m.open = modal.open /\ m.copied = modal.copied
      BY <1>1 DEF ModalRow
    <2> HIDE DEF m
    <2>3. modal' \in ModalRow /\ CodesShown'
      BY <1>2, <1>3, <2>1, <2>2, ClosedTypes DEF CodesShown
    <2>4. slips' = {} => slips = {} /\ enrol[k] # "joined"
      BY <2>1
    <2>5. slips' = {} => modal'.codes = None /\ modal.codes = None
      BY <1>2, <2>1, <2>2, <2>4, ClosedTypes DEF OneEnrolment
    <2>6. /\ enrol' \in [Keys -> Stages]
          /\ enrol'[k] = "over" /\ \A l \in Keys : l # k => enrol'[l] = enrol[l]
          /\ CodedAll' /\ D!CodesAreKept' /\ OneEnrolment'
      BY <1>3, <1>5, <2>1, <2>3, <2>4, <2>5, EnrolStep
    <2>7. slips' = {} => (Changed => Changed')
      BY <1>3, <2>1, <2>4, <2>5, <2>6 DEF Changed, Joining
    <2>8. slips' \subseteq Slips
      BY <1>1, <2>1 DEF Slips
    <2>9. QED
      BY <1>1, <1>4, <2>1, <2>3, <2>4, <2>6, <2>7, <2>8
  <1>9. QED
    BY <1>6, <1>7, <1>8

LEMMA ClosingSteps ==
  ASSUME AuthInv, D!Finish \/ \E k \in Keys : D!PasskeyAdded(k)
  PROVE  AuthInv'
  <1>1. /\ modal \in ModalRow /\ made \in [Keys -> {"none", "some", "all"}]
        /\ stored \subseteq Keys /\ enrol \in [Keys -> Stages]
        /\ removal \in [Keys -> Removing]
        /\ asked \in Keys \cup {None} /\ clipped \subseteq Keys /\ list \subseteq Keys
    BY AuthTypes DEF AuthInv, Stages
  <1>2. CodesShown /\ OneEnrolment
    BY DEF AuthInv
  <1>3. /\ UNCHANGED <<stored, made, list, asked, removal, clipped>>
        /\ D!Load /\ slips' = slips \cup D!Overlap
        /\ modal' = D!Closed /\ setup' = FALSE
    BY DEF D!Finish, D!PasskeyAdded, D!Close
  <1>4. /\ loads' \in [Calls -> LoadRow] /\ loading' = TRUE
        /\ slips' \subseteq {"overlap", "left", "lost"}
        /\ slips' = {} => slips = {}
        /\ LoadIsAwaited' /\ ListedOrChanged'
    BY <1>3, LoadStep
  <1>5. modal' \in ModalRow /\ modal'.codes = None /\ CodesShown'
    BY <1>3, ClosedTypes DEF CodesShown
  <1>6. {"over", "finished"} \subseteq Stages
        /\ {"over", "finished"} \cap (Saving \cup Joining) = {}
    BY DEF Stages, Saving, Joining
  <1>7. ASSUME NEW k \in Keys, NEW q \in {"over", "finished"},
               enrol' = [enrol EXCEPT ![k] = q], q = "finished" => k \in clipped,
               slips = {} => \/ enrol[k] \in Saving \cup Joining
                             \/ \A l \in Keys : enrol[l] \notin Saving \cup Joining
        PROVE  AuthInv'
    <2>1. /\ enrol' \in [Keys -> Stages]
          /\ enrol'[k] = q /\ \A l \in Keys : l # k => enrol'[l] = enrol[l]
          /\ CodedAll' /\ D!CodesAreKept' /\ OneEnrolment'
      <3>1. q \in Stages /\ q \notin Saving /\ q \notin Joining /\ q # "coded"
        BY <1>6, <1>7
      <3>2. QED
        BY <1>3, <1>4, <1>5, <1>7, <3>1, EnrolStep
    <2>2. D!TypeOK'
      BY <1>1, <1>3, <1>4, <1>5, <2>1, TypesAuth DEF Stages
    <2>3. QED
      BY <1>4, <1>5, <2>1, <2>2 DEF AuthInv
  <1>8. CASE D!Finish
    <2>1. /\ modal.codes # None /\ modal.copied
          /\ enrol' = [enrol EXCEPT ![modal.codes] = "finished"]
      BY <1>8 DEF D!Finish
    <2>2. modal.codes \in Keys
      BY <1>1, <2>1 DEF ModalRow
    <2>3. modal.codes \in clipped
      BY <1>2, <2>1 DEF CodesShown
    <2>4. slips = {} => \A l \in Keys : enrol[l] \notin Saving \cup Joining
      BY <1>2, <2>1 DEF OneEnrolment
    <2>5. QED
      BY <1>7, <2>1, <2>2, <2>3, <2>4
  <1>9. ASSUME NEW k \in Keys, D!PasskeyAdded(k)
        PROVE  AuthInv'
    <2>1. enrol[k] = "joined" /\ enrol' = [enrol EXCEPT ![k] = "over"]
      BY <1>9 DEF D!PasskeyAdded
    <2>2. QED
      BY <1>7, <2>1 DEF Joining
  <1>10. QED
    BY <1>8, <1>9

LEMMA AuthInvStep == AuthInv /\ [D!Next]_D!vars => AuthInv'
  <1> SUFFICES ASSUME AuthInv, [D!Next]_D!vars
               PROVE  AuthInv'
    OBVIOUS
  <1>1. CASE UNCHANGED D!vars
    <2>1. UNCHANGED <<stored, made, list, loading, loads, asked, removal, modal, setup,
                      enrol, clipped, slips>>
      BY <1>1 DEF D!vars
    <2>2. D!TypeOK' /\ CodedAll' /\ CodesShown' /\ D!CodesAreKept'
      BY <2>1 DEF AuthInv, D!TypeOK, CodedAll, CodesShown, D!CodesAreKept
    <2>3. OneEnrolment'
      BY <2>1 DEF AuthInv, OneEnrolment, D!Enrolling
    <2>4. Changed' = Changed
      BY <2>1 DEF Changed
    <2>5. QED
      BY <2>1, <2>2, <2>3, <2>4, ModalStep
  <1>2. CASE D!Next
    BY <1>2, LoadsStep, RemovalStep, ModalFaces, SavingSteps, JoiningSteps, ClosingSteps
    DEF D!Next
  <1>3. QED
    BY <1>1, <1>2

LEMMA AuthInvSuffices == AuthInv => D!ListsTheStored /\ D!CodesAreKept
  <1> SUFFICES ASSUME AuthInv, D!AtRest, slips = {}
               PROVE  ~loading /\ list = stored
    BY DEF AuthInv, D!ListsTheStored
  <1>1. ~D!Awaited /\ D!Enrolling = {} /\ (modal.open => modal.codes = None)
        /\ \A k \in Keys : removal[k] = "none"
    BY DEF D!AtRest
  <1>2. ~Changed
    BY <1>1 DEF Changed, AuthInv, CodesShown, D!Enrolling
  <1>3. QED
    BY <1>1, <1>2 DEF AuthInv, LoadIsAwaited, ListedOrChanged
---------------------------------------------------------------------------
\* The behaviours of the composition that are about this page keep AuthInv.
AuthKept == which = "authenticators" => AuthInv

LEMMA AuthKeptInit == Init => AuthKept
  BY AuthInvInit DEF Init, AuthKept

LEMMA AuthKeptStep ==
  ASSUME AuthKept, [Next]_vars
  PROVE  AuthKept'
  <1> SUFFICES ASSUME which' = "authenticators"
               PROVE  AuthInv'
    BY DEF AuthKept
  <1>1. which = "authenticators" /\ [D!Next]_vars
    BY DEF Next, vars, BesideSecondFactorPage, BesidePasswordWizard,
            BesideInvitationSetup, BesideProfileEditor, BesideAuthenticators,
            BesideMfaCodes, BesidePasskeyCeremonies
  <1>2. [D!Next]_D!vars
    BY <1>1 DEF vars, D!vars
  <1>3. QED
    BY <1>1, <1>2, AuthInvStep DEF AuthKept

\* For any number of authenticators and of calls: the codes shown are stored,
\* one authenticator at a time is connected, and the list is the server's or has
\* an answer to come, as long as nothing slipped (AuthenticatorsPanel.jsx,
\* NewAuthenticatorModal.jsx).
THEOREM AuthenticatorsInvariant == Spec => []AuthKept
  BY AuthKeptInit, AuthKeptStep, PTL DEF Spec

\* A password reported saved was written, the list at rest is the server's and
\* the backup codes shown are stored (RegisterPasswordSetupForm.jsx,
\* AuthenticatorsPanel.jsx, mfa_service.go).
THEOREM SavedHolds == Spec => []SavedIsWritten
  <1>1. InvitationKept /\ AuthKept => SavedIsWritten
    BY AuthInvSuffices DEF InvitationKept, InvitationInv, AuthKept, SavedIsWritten
  <1>2. QED
    BY <1>1, InvitationInvariant, AuthenticatorsInvariant, PTL

---------------------------------------------------------------------------
(***************************************************************************)
(* The page of the second factor.                                          *)
(***************************************************************************)

\* The flag of an unanswered request is set, and no other request has it.
FactorInv ==
  /\ F!TypeOK /\ F!OneAtATime
  /\ \A k \in F!Kinds : calls[k] > 0 => F!FlagOf[k] \in busy

\* The three ways in which a step changes the calls: a request is made under a
\* flag that is free, one is answered, or one is followed by the next.
LEMMA FactorCalls ==
  ASSUME FactorInv,
         \/ UNCHANGED <<busy, calls>>
         \/ \E k \in F!Kinds :
              \/ F!Free(k) /\ F!Request(k)
              \/ calls[k] > 0 /\ F!Done(k)
              \/ /\ calls[k] > 0 /\ busy' = busy
                 /\ \E j \in F!Kinds : /\ j # k /\ F!FlagOf[j] = F!FlagOf[k]
                                       /\ F!Then(k, j)
  PROVE  /\ busy' \subseteq F!Flags /\ calls' \in [F!Kinds -> Nat]
         /\ F!OneAtATime'
         /\ (\A k \in F!Kinds : calls[k] > 0 => F!FlagOf[k] \in busy)'
  <1>1. busy \subseteq F!Flags /\ calls \in [F!Kinds -> Nat]
    BY DEF FactorInv, F!TypeOK
  <1>2. \A j, k \in F!Kinds : calls[j] > 0 /\ F!FlagOf[j] = F!FlagOf[k]
                                => (calls[k] = IF j = k THEN 1 ELSE 0)
    BY DEF FactorInv, F!OneAtATime
  <1>3. \A k \in F!Kinds : calls[k] > 0 => F!FlagOf[k] \in busy
    BY DEF FactorInv
  <1>4. \A k \in F!Kinds : F!FlagOf[k] \in F!Flags
    BY DEF F!Flags
  <1>5. SUFFICES /\ busy' \subseteq F!Flags /\ calls' \in [F!Kinds -> Nat]
                 /\ \A j, k \in F!Kinds : calls'[j] > 0 /\ F!FlagOf[j] = F!FlagOf[k]
                                           => (calls'[k] = IF j = k THEN 1 ELSE 0)
                 /\ \A k \in F!Kinds : calls'[k] > 0 => F!FlagOf[k] \in busy'
    BY DEF F!OneAtATime
  <1>6. CASE UNCHANGED <<busy, calls>>
    BY <1>1, <1>2, <1>3, <1>6
  <1>7. ASSUME NEW k \in F!Kinds, F!Free(k), F!Request(k)
        PROVE  /\ busy' \subseteq F!Flags /\ calls' \in [F!Kinds -> Nat]
               /\ \A j, i \in F!Kinds : calls'[j] > 0 /\ F!FlagOf[j] = F!FlagOf[i]
                                         => (calls'[i] = IF j = i THEN 1 ELSE 0)
               /\ \A i \in F!Kinds : calls'[i] > 0 => F!FlagOf[i] \in busy'
    <2>1. /\ F!FlagOf[k] \notin busy /\ busy' = busy \cup {F!FlagOf[k]}
          /\ calls' = [calls EXCEPT ![k] = calls[k] + 1]
      BY <1>7 DEF F!Free, F!Request
    <2>2. \A i \in F!Kinds : F!FlagOf[i] = F!FlagOf[k] => calls[i] = 0
      BY <1>1, <1>3, <2>1
    <2>3. calls' = [calls EXCEPT ![k] = 1]
      <3>1. calls[k] = 0 /\ 0 + 1 = 1
        BY <2>2
      <3>2. QED
        BY <2>1, <3>1
    <2>4. /\ calls' \in [F!Kinds -> Nat]
          /\ \A i \in F!Kinds : calls'[i] = IF i = k THEN 1 ELSE calls[i]
      BY <1>1, <2>3
    <2>5. QED
      BY <1>1, <1>2, <1>3, <1>4, <2>1, <2>2, <2>4
  <1>8. ASSUME NEW k \in F!Kinds, calls[k] > 0, F!Done(k)
        PROVE  /\ busy' \subseteq F!Flags /\ calls' \in [F!Kinds -> Nat]
               /\ \A j, i \in F!Kinds : calls'[j] > 0 /\ F!FlagOf[j] = F!FlagOf[i]
                                         => (calls'[i] = IF j = i THEN 1 ELSE 0)
               /\ \A i \in F!Kinds : calls'[i] > 0 => F!FlagOf[i] \in busy'
    <2>1. calls[k] = 1
      BY <1>2, <1>8
    <2>2. /\ busy' = busy \ {F!FlagOf[k]} /\ calls' = [calls EXCEPT ![k] = 0]
      BY <1>8, <2>1 DEF F!Done
    <2>3. /\ calls' \in [F!Kinds -> Nat]
          /\ \A i \in F!Kinds : calls'[i] = IF i = k THEN 0 ELSE calls[i]
      BY <1>1, <2>2
    <2>4. QED
      BY <1>1, <1>2, <1>3, <1>8, <2>2, <2>3
  <1>9. ASSUME NEW k \in F!Kinds, calls[k] > 0, busy' = busy,
               NEW l \in F!Kinds, l # k, F!FlagOf[l] = F!FlagOf[k], F!Then(k, l)
        PROVE  /\ busy' \subseteq F!Flags /\ calls' \in [F!Kinds -> Nat]
               /\ \A j, i \in F!Kinds : calls'[j] > 0 /\ F!FlagOf[j] = F!FlagOf[i]
                                         => (calls'[i] = IF j = i THEN 1 ELSE 0)
               /\ \A i \in F!Kinds : calls'[i] > 0 => F!FlagOf[i] \in busy'
    <2>1. calls[k] = 1 /\ calls[l] = 0
      BY <1>2, <1>9
    <2>2. calls' = [calls EXCEPT ![k] = calls[k] - 1, ![l] = calls[l] + 1]
      BY <1>1, <1>9 DEF F!Then
    <2>3. /\ calls' \in [F!Kinds -> Nat]
          /\ \A i \in F!Kinds : calls'[i] = IF i = l THEN 1 ELSE IF i = k THEN 0 ELSE calls[i]
      BY <1>1, <1>9, <2>1, <2>2
    <2>4. QED
      BY <1>1, <1>2, <1>3, <1>9, <2>3
  <1>10. QED
    BY <1>6, <1>7, <1>8, <1>9

LEMMA FactorKinds ==
  /\ F!Kinds = {"me", "send", "otp", "totp", "backup", "check", "setup", "save", "has",
                "options", "prompt", "finish"}
  /\ F!FlagOf["me"] = "loading"
  /\ F!FlagOf["check"] = F!FlagOf["setup"]
  /\ F!FlagOf["has"] = F!FlagOf["options"]
  /\ F!FlagOf["options"] = F!FlagOf["prompt"]
  /\ F!FlagOf["prompt"] = F!FlagOf["finish"]
  BY DEF F!Kinds, F!FlagOf

LEMMA FactorInvInit == F!Init => FactorInv
  <1> SUFFICES ASSUME F!Init
               PROVE  FactorInv
    OBVIOUS
  <1>1. PICK known \in BOOLEAN :
          /\ isLoading = ~known
          /\ busy = IF known THEN {} ELSE {"loading"}
          /\ calls = [k \in F!Kinds |-> IF k = "me" /\ ~known THEN 1 ELSE 0]
    BY DEF F!Init
  <1>2. \A k \in F!Kinds : k # "me" => F!FlagOf[k] # "loading"
    BY DEF F!Kinds, F!FlagOf
  <1>3. calls \in [F!Kinds -> Nat]
    BY <1>1
  <1>4. F!OneAtATime /\ \A k \in F!Kinds : calls[k] > 0 => F!FlagOf[k] \in busy
    BY <1>1, <1>2, FactorKinds DEF F!OneAtATime
  <1>5. busy \subseteq F!Flags
    BY <1>1, FactorKinds DEF F!Flags
  <1>6. F!TypeOK
    BY <1>1, <1>3, <1>5 DEF F!Init, F!TypeOK, F!Steps, F!Modes
  <1>7. QED
    BY <1>4, <1>6 DEF FactorInv

LEMMA FactorInvStep == FactorInv /\ [F!Next]_F!vars => FactorInv'
  <1> SUFFICES ASSUME FactorInv, [F!Next]_F!vars
               PROVE  FactorInv'
    OBVIOUS
  <1>1. /\ step \in F!Steps /\ mode \in F!Modes /\ hasSentOtp \in BOOLEAN
        /\ isLoading \in BOOLEAN /\ qrCode \in {"none", "ready", "failed"}
        /\ backupCodes \in {"none", "shown", "copied"} /\ timers \in BOOLEAN
        /\ left \in {"no", "document", "route", "login"}
    BY DEF FactorInv, F!TypeOK
  <1>2. /\ step' \in F!Steps /\ mode' \in F!Modes /\ hasSentOtp' \in BOOLEAN
        /\ isLoading' \in BOOLEAN /\ qrCode' \in {"none", "ready", "failed"}
        /\ backupCodes' \in {"none", "shown", "copied"} /\ timers' \in BOOLEAN
        /\ left' \in {"no", "document", "route", "login"}
    BY <1>1
    DEF F!Next, F!vars, F!page, F!Steps, F!Modes, F!UserLoaded, F!SelectEmail, F!SendOtp,
        F!OtpSent, F!SubmitOtp, F!SelectAuthenticator, F!Checked, F!SelectPasskey,
        F!PasskeyGoesOn, F!PasskeyEnds, F!BackToLogin, F!TimerFires, F!SubmitTotp,
        F!UseBackupCode, F!SubmitBackupCode, F!Verified, F!SetupLoaded,
        F!OpenSetupConfirm, F!BackToSetupQr, F!SaveAuthenticator, F!Saved,
        F!CopyBackupCodes, F!Continue, F!FlowError, F!Finish
  <1>3. ASSUME \/ UNCHANGED F!vars
               \/ F!SelectEmail \/ F!BackToLogin \/ F!TimerFires \/ F!UseBackupCode
               \/ F!OpenSetupConfirm \/ F!BackToSetupQr \/ F!CopyBackupCodes \/ F!Continue
        PROVE  UNCHANGED <<busy, calls>>
    BY <1>3
    DEF F!vars, F!SelectEmail, F!BackToLogin, F!TimerFires, F!UseBackupCode,
        F!OpenSetupConfirm, F!BackToSetupQr, F!CopyBackupCodes, F!Continue
  <1>4. ASSUME \/ F!SendOtp \/ F!SubmitOtp \/ F!SelectAuthenticator \/ F!SelectPasskey
               \/ F!SubmitTotp \/ F!SubmitBackupCode \/ F!SaveAuthenticator
        PROVE  \E k \in F!Kinds : F!Free(k) /\ F!Request(k)
    BY <1>4, FactorKinds
    DEF F!SendOtp, F!SubmitOtp, F!SelectAuthenticator, F!SelectPasskey, F!SubmitTotp,
        F!SubmitBackupCode, F!SaveAuthenticator
  <1>5. ASSUME \/ F!UserLoaded \/ F!OtpSent \/ F!PasskeyEnds \/ F!Verified
               \/ F!SetupLoaded \/ F!Saved
        PROVE  \E k \in F!Kinds : calls[k] > 0 /\ F!Done(k)
    BY <1>5, FactorKinds
    DEF F!UserLoaded, F!OtpSent, F!PasskeyEnds, F!Verified, F!SetupLoaded, F!Saved, F!Heard
  <1>6. ASSUME F!PasskeyGoesOn
        PROVE  \E k \in F!Kinds : /\ calls[k] > 0 /\ busy' = busy
                                  /\ \E j \in F!Kinds : /\ j # k /\ F!FlagOf[j] = F!FlagOf[k]
                                                        /\ F!Then(k, j)
    BY <1>6, FactorKinds DEF F!PasskeyGoesOn, F!Heard
  <1>7. ASSUME F!Checked
        PROVE  \E k \in F!Kinds :
                 /\ calls[k] > 0
                 /\ \/ F!Done(k)
                    \/ /\ busy' = busy
                       /\ \E j \in F!Kinds : /\ j # k /\ F!FlagOf[j] = F!FlagOf[k]
                                             /\ F!Then(k, j)
    BY <1>7, FactorKinds DEF F!Checked, F!Heard
  <1>8. \/ UNCHANGED <<busy, calls>>
        \/ \E k \in F!Kinds :
             \/ F!Free(k) /\ F!Request(k)
             \/ calls[k] > 0 /\ F!Done(k)
             \/ /\ calls[k] > 0 /\ busy' = busy
                /\ \E j \in F!Kinds : j # k /\ F!FlagOf[j] = F!FlagOf[k] /\ F!Then(k, j)
    BY <1>3, <1>4, <1>5, <1>6, <1>7 DEF F!Next
  <1>9. /\ busy' \subseteq F!Flags /\ calls' \in [F!Kinds -> Nat] /\ F!OneAtATime'
        /\ (\A k \in F!Kinds : calls[k] > 0 => F!FlagOf[k] \in busy)'
    BY <1>8, FactorCalls
  <1>10. QED
    BY <1>2, <1>9 DEF FactorInv, F!TypeOK
---------------------------------------------------------------------------
\* The behaviours of the composition that are about this page keep FactorInv.
FactorKept == which = "secondFactor" => FactorInv

LEMMA FactorKeptInit == Init => FactorKept
  BY FactorInvInit DEF Init, FactorKept

LEMMA FactorKeptStep ==
  ASSUME FactorKept, [Next]_vars
  PROVE  FactorKept'
  <1> SUFFICES ASSUME which' = "secondFactor"
               PROVE  FactorInv'
    BY DEF FactorKept
  <1>1. which = "secondFactor" /\ [F!Next]_vars
    BY DEF Next, vars, BesideSecondFactorPage, BesidePasswordWizard,
            BesideInvitationSetup, BesideProfileEditor, BesideAuthenticators,
            BesideMfaCodes, BesidePasskeyCeremonies
  <1>2. [F!Next]_F!vars
    BY <1>1 DEF vars, F!vars
  <1>3. QED
    BY <1>1, <1>2, FactorInvStep DEF FactorKept

---------------------------------------------------------------------------
(***************************************************************************)
(* The wizards for a password.                                             *)
(***************************************************************************)
Wizards   == {"register", "forgot", "change"}
PageSteps == {"details", "code", "password", "success"}
WizardRow == [step : PageSteps, email : P!Address, details : SUBSET P!Details,
              code : BOOLEAN, valid : BOOLEAN, resend : BOOLEAN]
Asks      == {"none", "send", "resend", "verify", "change", "set"}
AskRow   == [op : Asks, email : P!Address, mine : BOOLEAN]
WizardFlags == {"sending", "resending", "verifying", "updating"}

\* Call c was made in this opening, to do one of ops.
Opening(c, ops) == call[c].mine /\ call[c].op \in ops

\* Whatever arrives: only an open wizard has calls of its own; the one that
\* signs up is always open; the change of one's own password is about one's own
\* address and has no separate call to set it.
Steady ==
  /\ \A c \in Calls : call[c].mine => open /\ call[c].email \in Emails
  /\ \A c \in Calls : call[c].op = "none" => call[c] = P!NoCall
  /\ kind = "register" => open
  /\ kind = "change" => page.email = Own
  /\ \A c \in Calls : call[c].mine =>
       /\ kind = "change" => call[c].email = Own /\ call[c].op # "set"
       /\ call[c].op = "change" => kind = "change"

\* The codes are checked one at a time, and the password is set by one call.
OneCheck ==
  /\ \A c \in Calls : Opening(c, {"verify", "change"}) => "verifying" \in busy
  /\ \A c \in Calls : Opening(c, {"set"}) => "updating" \in busy
  /\ \A c, d \in Calls :
       Opening(c, {"verify", "change"}) /\ Opening(d, {"verify", "change"}) => c = d
  /\ \A c, d \in Calls : Opening(c, {"set"}) /\ Opening(d, {"set"}) => c = d

\* A call waits on its own step, and is about the address the step shows.
OnItsStep ==
  kind # "change" =>
    /\ \A c \in Calls : Opening(c, {"send"}) => page.step = "details" /\ "sending" \in busy
    /\ \A c, d \in Calls : Opening(c, {"send"}) /\ Opening(d, {"send"}) => c = d
    /\ \A c \in Calls : Opening(c, {"resend", "verify", "set"}) =>
         page.step # "details" /\ page.email # None /\ call[c].email = page.email
    /\ \A c \in Calls : Opening(c, {"verify"}) => page.step = "code"
    /\ \A c \in Calls : Opening(c, {"set"}) => page.step = "password"

\* The step with the password shows an address that was verified, and the calls
\* that set one are about such an address.
SetsVerified ==
  /\ kind # "change" /\ page.step = "password" => page.email \in verified
  /\ \A c \in Calls : Opening(c, {"set", "change"}) => call[c].email \in verified

\* As long as nothing was typed while a code was being sent, the code goes to
\* the address shown, and the first step stays complete.
SendsShown ==
  "edited" \notin slips =>
    /\ \A c \in Calls : Opening(c, {"send"}) /\ kind # "change" =>
         /\ call[c].email = page.email /\ page.email # None
         /\ kind = "register" => P!ValidDetails
    /\ page.step = "code" => /\ page.email \in sent
                             /\ kind = "register" => P!ValidDetails

\* A closed dialog is back at its first step.
ClosedAtStart ==
  ~open => page.step = IF kind = "change" THEN "password" ELSE "details"

Orderly == OneCheck /\ OnItsStep /\ SetsVerified /\ SendsShown /\ ClosedAtStart

WizardInv == P!TypeOK /\ Steady /\ ("crossed" \notin slips => Orderly)

LEMMA WizardTypes ==
  P!TypeOK <=> /\ kind \in Wizards /\ open \in BOOLEAN /\ page \in WizardRow
               /\ busy \subseteq WizardFlags /\ call \in [Calls -> AskRow]
               /\ sent \subseteq Emails /\ verified \subseteq Emails
               /\ slips \subseteq {"edited", "crossed"}
  BY DEF P!TypeOK, Wizards, PageSteps, WizardRow, Asks, AskRow, WizardFlags

LEMMA TypesWizard ==
  ASSUME kind' \in Wizards, open' \in BOOLEAN, page' \in WizardRow,
         busy' \subseteq WizardFlags, call' \in [Calls -> AskRow],
         sent' \subseteq Emails, verified' \subseteq Emails,
         slips' \subseteq {"edited", "crossed"}
  PROVE  P!TypeOK'
  BY DEF P!TypeOK, Wizards, PageSteps, WizardRow, Asks, AskRow, WizardFlags

LEMMA WizardFacts ==
  ASSUME WizardInv
  PROVE  /\ kind \in Wizards /\ open \in BOOLEAN /\ page \in WizardRow
         /\ busy \subseteq WizardFlags /\ call \in [Calls -> AskRow]
         /\ sent \subseteq Emails /\ verified \subseteq Emails
         /\ slips \subseteq {"edited", "crossed"}
         /\ Steady /\ ("crossed" \notin slips => Orderly)
  BY WizardTypes DEF WizardInv

LEMMA WizardRows ==
  /\ P!NoCall \in AskRow /\ ~P!NoCall.mine /\ P!NoCall.op = "none"
  /\ P!NewRegister \in WizardRow /\ P!NewForgot \in WizardRow
  /\ P!NewRegister.step = "details" /\ P!NewForgot.step = "details"
  /\ P!NewChange \in WizardRow /\ P!NewChange.step = "password"
  /\ P!NewChange.email = Own
  /\ P!ResetForgot \in WizardRow /\ P!ResetForgot.step = "details"
  /\ page \in WizardRow => /\ P!ResetChange \in WizardRow
                           /\ P!ResetChange.step = "password"
                           /\ P!ResetChange.email = Own
  BY AccountAssumption
  DEF P!NoCall, AskRow, Asks, P!Address, WizardRow, PageSteps, P!Details, P!NewRegister,
      P!NewForgot, P!NewChange, P!Blank, P!ResetForgot, P!ResetChange

\* Nothing of this opening is under way: at the start, and after a dialog was
\* closed or a page left.
LEMMA FreshWizard ==
  ASSUME kind' \in Wizards, open' \in BOOLEAN, page' \in WizardRow, busy' = {},
         call' \in [Calls -> AskRow], sent' = {}, verified' = {}, slips' = {},
         \A c \in Calls : ~call'[c].mine,
         \A c \in Calls : call'[c].op = "none" => call'[c] = P!NoCall,
         kind' = "register" => open', kind' = "change" => page'.email = Own,
         page'.step = IF kind' = "change" THEN "password" ELSE "details"
  PROVE  WizardInv'
  <1>1. P!TypeOK'
    BY TypesWizard
  <1>2. Steady'
    BY DEF Steady
  <1>3. Orderly'
    BY DEF Orderly, OneCheck, OnItsStep, SetsVerified, SendsShown, ClosedAtStart, Opening
  <1>4. QED
    BY <1>1, <1>2, <1>3 DEF WizardInv

LEMMA WizardInvInit == P!Init => WizardInv
  <1> SUFFICES ASSUME P!Init
               PROVE  WizardInv
    OBVIOUS
  <1>1. /\ kind \in Wizards /\ open = (kind = "register") /\ page = P!New
        /\ busy = {} /\ call = [c \in Calls |-> P!NoCall]
        /\ sent = {} /\ verified = {} /\ slips = {}
    BY DEF P!Init, Wizards
  <1>2. /\ page \in WizardRow
        /\ kind = "change" => page.email = Own
        /\ page.step = IF kind = "change" THEN "password" ELSE "details"
    BY <1>1, WizardRows DEF P!New, Wizards
  <1>3. P!TypeOK
    BY <1>1, <1>2, WizardTypes, WizardRows
  <1>4. Steady
    BY <1>1, <1>2, WizardRows DEF Steady
  <1>5. Orderly
    BY <1>1, <1>2, WizardRows
    DEF Orderly, OneCheck, OnItsStep, SetsVerified, SendsShown, ClosedAtStart, Opening
  <1>6. QED
    BY <1>3, <1>4, <1>5 DEF WizardInv

LEMMA WizardOpens ==
  ASSUME WizardInv,
         \/ P!OpenForgot \/ P!OpenChange \/ P!CloseForgot \/ P!CloseChange \/ P!Leave
  PROVE  WizardInv'
  <1>1. /\ kind \in Wizards /\ open \in BOOLEAN /\ page \in WizardRow
        /\ busy \subseteq WizardFlags /\ call \in [Calls -> AskRow]
        /\ sent \subseteq Emails /\ verified \subseteq Emails
        /\ slips \subseteq {"edited", "crossed"}
        /\ Steady /\ ("crossed" \notin slips => Orderly)
    BY WizardFacts
  <1>2. CASE P!OpenForgot \/ P!OpenChange
    <2>1. /\ ~open /\ open' = TRUE /\ UNCHANGED <<kind, busy, call, sent, verified, slips>>
          /\ \/ kind = "change" /\ page' = page
             \/ kind = "forgot" /\ \E e \in P!Address : page' = [page EXCEPT !.email = e]
      BY <1>2 DEF P!OpenForgot, P!OpenChange
    <2>2. /\ page' \in WizardRow /\ page'.step = page.step
          /\ kind = "change" => page' = page
      BY <1>1, <2>1 DEF WizardRow
    <2>3. \A c \in Calls : ~call[c].mine
      BY <1>1, <2>1 DEF Steady
    <2>4. P!TypeOK'
      BY <1>1, <2>1, <2>2, TypesWizard
    <2>5. Steady'
      BY <1>1, <2>1, <2>2, <2>3 DEF Steady
    <2>6. "crossed" \notin slips' => page.step = IF kind = "change" THEN "password" ELSE "details"
      BY <1>1, <2>1 DEF Orderly, ClosedAtStart
    <2>7. "crossed" \notin slips' => Orderly'
      BY <2>1, <2>2, <2>3, <2>6
      DEF Orderly, OneCheck, OnItsStep, SetsVerified, SendsShown, ClosedAtStart, Opening
    <2>8. QED
      BY <2>4, <2>5, <2>7 DEF WizardInv
  <1>3. CASE P!CloseForgot \/ P!CloseChange
    <2>1. /\ open' = FALSE /\ busy' = {} /\ sent' = {} /\ verified' = {} /\ slips' = {}
          /\ call' = [c \in Calls |-> [call[c] EXCEPT !.mine = FALSE]] /\ kind' = kind
          /\ \/ kind = "forgot" /\ page' = P!ResetForgot
             \/ kind = "change" /\ page' = P!ResetChange
      BY <1>3 DEF P!CloseForgot, P!CloseChange, P!Closed
    <2>2. \A r \in AskRow : /\ [r EXCEPT !.mine = FALSE] \in AskRow
                             /\ ~[r EXCEPT !.mine = FALSE].mine
                             /\ [r EXCEPT !.mine = FALSE].op = r.op
      BY DEF AskRow
    <2>3. [P!NoCall EXCEPT !.mine = FALSE] = P!NoCall
      <3> DEFINE r == [P!NoCall EXCEPT !.mine = FALSE]
      <3>1. r \in AskRow /\ r.op = P!NoCall.op /\ r.email = P!NoCall.email
            /\ r.mine = P!NoCall.mine
        BY WizardRows DEF AskRow, P!NoCall
      <3>2. \A q, t \in AskRow :
              q.op = t.op /\ q.email = t.email /\ q.mine = t.mine => q = t
        BY DEF AskRow
      <3>3. QED
        BY <3>1, <3>2, WizardRows
    <2>4. /\ call' \in [Calls -> AskRow] /\ \A c \in Calls : ~call'[c].mine
          /\ \A c \in Calls : call'[c].op = "none" => call'[c] = P!NoCall
      BY <1>1, <2>1, <2>2, <2>3 DEF Steady
    <2>5. /\ page' \in WizardRow
          /\ kind' = "change" => page'.email = Own
          /\ page'.step = IF kind' = "change" THEN "password" ELSE "details"
      BY <1>1, <2>1, WizardRows
    <2>6. QED
      BY <1>1, <2>1, <2>4, <2>5, FreshWizard
  <1>4. CASE P!Leave
    <2>1. /\ open' = (kind = "register") /\ busy' = {} /\ sent' = {} /\ verified' = {}
          /\ slips' = {} /\ call' = [c \in Calls |-> P!NoCall] /\ kind' = kind
          /\ page' = P!New
      BY <1>4 DEF P!Leave
    <2>2. /\ page' \in WizardRow
          /\ kind' = "change" => page'.email = Own
          /\ page'.step = IF kind' = "change" THEN "password" ELSE "details"
      BY <1>1, <2>1, WizardRows DEF P!New, Wizards
    <2>3. QED
      BY <1>1, <2>1, <2>2, WizardRows, FreshWizard
  <1>5. QED
    BY <1>2, <1>3, <1>4

\* What is typed, the timer of the resend, and the way back to the first step.
LEMMA WizardTyped ==
  ASSUME WizardInv, page' \in WizardRow, page'.step = page.step,
         UNCHANGED <<kind, open, busy, call, sent, verified>>,
         slips' = slips \/ slips' = slips \cup {"edited"},
         \/ page'.email = page.email /\ page'.details = page.details
         \/ /\ kind # "change" /\ page.step = "details"
            /\ "sending" \in busy => "edited" \in slips'
  PROVE  WizardInv'
  <1>1. /\ kind \in Wizards /\ open \in BOOLEAN /\ page \in WizardRow
        /\ busy \subseteq WizardFlags /\ call \in [Calls -> AskRow]
        /\ sent \subseteq Emails /\ verified \subseteq Emails
        /\ slips \subseteq {"edited", "crossed"}
        /\ Steady /\ ("crossed" \notin slips => Orderly)
    BY WizardFacts
  <1>2. P!TypeOK'
    BY <1>1, TypesWizard
  <1>3. Steady'
    BY <1>1 DEF Steady
  <1>4. ASSUME "crossed" \notin slips'
        PROVE  Orderly'
    <2>1. OneCheck /\ OnItsStep /\ SetsVerified /\ SendsShown /\ ClosedAtStart
      BY <1>1, <1>4 DEF Orderly
    <2>2. OneCheck' /\ SetsVerified' /\ ClosedAtStart'
      BY <2>1 DEF OneCheck, SetsVerified, ClosedAtStart, Opening
    <2>3. OnItsStep'
      BY <2>1 DEF OnItsStep, Opening
    <2>4. SendsShown'
      BY <2>1 DEF SendsShown, OnItsStep, Opening, P!ValidDetails
    <2>5. QED
      BY <2>2, <2>3, <2>4 DEF Orderly
  <1>5. QED
    BY <1>2, <1>3, <1>4 DEF WizardInv

LEMMA WizardFields ==
  ASSUME WizardInv,
         \/ P!TypeName \/ P!ChooseRole \/ P!TypeAddress \/ P!TypeRecovery
         \/ P!TypeCodeRegister \/ P!TypeCodeForgot \/ P!TypeCodeChange
         \/ P!TypePasswordRegister \/ P!TypePasswordForgot \/ P!TypePasswordChange
         \/ P!TimerEnds
  PROVE  WizardInv'
  <1>1. page \in WizardRow /\ kind \in Wizards /\ busy \subseteq WizardFlags
    BY WizardFacts
  <1>2. UNCHANGED <<kind, open, busy, call, sent, verified>>
    BY DEF P!TypeName, P!ChooseRole, P!TypeAddress, P!TypeRecovery, P!TypeCodeRegister,
           P!TypeCodeForgot, P!TypeCodeChange, P!TypePasswordRegister,
           P!TypePasswordForgot, P!TypePasswordChange, P!TimerEnds, P!Typed
  <1>3. CASE P!TypeName \/ P!ChooseRole
    <2>1. PICK d \in {{}, {"names"}, {"role"}}, e \in {"names", "role"} :
            page' = [page EXCEPT !.details = (@ \ {e}) \cup d]
      BY <1>3 DEF P!TypeName, P!ChooseRole, P!Typed
    <2>2. /\ page.step = "details" /\ kind = "register"
          /\ slips' = IF "sending" \in busy THEN slips \cup {"edited"} ELSE slips
      BY <1>3 DEF P!TypeName, P!ChooseRole, P!Typed, P!Shows
    <2>3. (page.details \ {e}) \cup d \in SUBSET P!Details
      BY <1>1 DEF WizardRow, P!Details
    <2>4. page' \in WizardRow /\ page'.step = page.step
      BY <1>1, <2>1, <2>3 DEF WizardRow
    <2>5. QED
      BY <1>2, <2>2, <2>4, WizardTyped
  <1>4. CASE P!TypeAddress \/ P!TypeRecovery
    <2>1. PICK e \in P!Address : page' = [page EXCEPT !.email = e]
      BY <1>4 DEF P!TypeAddress, P!TypeRecovery, P!Typed
    <2>2. /\ page.step = "details" /\ kind # "change"
          /\ slips' = IF "sending" \in busy THEN slips \cup {"edited"} ELSE slips
      BY <1>4 DEF P!TypeAddress, P!TypeRecovery, P!Typed, P!Shows
    <2>3. page' \in WizardRow /\ page'.step = page.step
      BY <1>1, <2>1 DEF WizardRow
    <2>4. QED
      BY <1>2, <2>2, <2>3, WizardTyped
  <1>5. ASSUME NEW b \in BOOLEAN,
               \/ page' = [page EXCEPT !.code = b] \/ page' = [page EXCEPT !.valid = b]
               \/ page' = [page EXCEPT !.resend = b],
               slips' = slips \/ slips' = slips \cup {"edited"}
        PROVE  WizardInv'
    <2>1. /\ page' \in WizardRow /\ page'.step = page.step /\ page'.email = page.email
          /\ page'.details = page.details
      BY <1>1, <1>5 DEF WizardRow
    <2>2. QED
      BY <1>2, <1>5, <2>1, WizardTyped
  <1>6. CASE P!TypeCodeRegister \/ P!TypeCodeForgot \/ P!TypeCodeChange
    <2>1. PICK b \in BOOLEAN : page' = [page EXCEPT !.code = b]
      BY <1>6 DEF P!TypeCodeRegister, P!TypeCodeForgot, P!TypeCodeChange, P!Typed
    <2>2. slips' = slips \/ slips' = slips \cup {"edited"}
      BY <1>6 DEF P!TypeCodeRegister, P!TypeCodeForgot, P!TypeCodeChange, P!Typed
    <2>3. QED
      BY <1>5, <2>1, <2>2
  <1>7. CASE P!TypePasswordRegister \/ P!TypePasswordForgot \/ P!TypePasswordChange
    <2>1. PICK b \in BOOLEAN : page' = [page EXCEPT !.valid = b]
      BY <1>7 DEF P!TypePasswordRegister, P!TypePasswordForgot, P!TypePasswordChange, P!Typed
    <2>2. slips' = slips \/ slips' = slips \cup {"edited"}
      BY <1>7 DEF P!TypePasswordRegister, P!TypePasswordForgot, P!TypePasswordChange, P!Typed
    <2>3. QED
      BY <1>5, <2>1, <2>2
  <1>8. CASE P!TimerEnds
    <2>1. page' = [page EXCEPT !.resend = TRUE] /\ slips' = slips
      BY <1>8 DEF P!TimerEnds
    <2>2. QED
      BY <1>5, <2>1
  <1>9. QED
    BY <1>3, <1>4, <1>6, <1>7, <1>8

\* The forgotten password goes back to its first step when the address is gone,
\* with which nothing but a code can have been asked for.
LEMMA WizardWithoutAddress ==
  ASSUME WizardInv, P!ResendWithoutAddress
  PROVE  WizardInv'
  <1>1. /\ kind \in Wizards /\ open \in BOOLEAN /\ page \in WizardRow
        /\ busy \subseteq WizardFlags /\ call \in [Calls -> AskRow]
        /\ sent \subseteq Emails /\ verified \subseteq Emails
        /\ slips \subseteq {"edited", "crossed"}
        /\ Steady /\ ("crossed" \notin slips => Orderly)
    BY WizardFacts
  <1>2. /\ open /\ kind = "forgot" /\ page.step = "code" /\ page.email = None
        /\ page' = [page EXCEPT !.step = "details"]
        /\ UNCHANGED <<kind, open, busy, call, sent, verified, slips>>
    BY DEF P!ResendWithoutAddress, P!Shows
  <1>3. /\ page' \in WizardRow /\ page'.step = "details" /\ page'.email = page.email
        /\ page'.details = page.details
    BY <1>1, <1>2 DEF WizardRow, PageSteps
  <1>4. P!TypeOK'
    BY <1>1, <1>2, <1>3, TypesWizard
  <1>5. Steady'
    BY <1>1, <1>2, <1>3 DEF Steady
  <1>6. ASSUME "crossed" \notin slips'
        PROVE  Orderly'
    <2>1. OneCheck /\ OnItsStep /\ SetsVerified /\ SendsShown /\ ClosedAtStart
      BY <1>1, <1>2, <1>6 DEF Orderly
    <2>2. OneCheck' /\ SetsVerified' /\ ClosedAtStart'
      BY <1>2, <1>3, <2>1 DEF OneCheck, SetsVerified, ClosedAtStart, Opening
    <2>3. \A c \in Calls : ~Opening(c, {"send", "resend", "verify", "set"})
      BY <1>2, <2>1 DEF OnItsStep, Opening
    <2>4. OnItsStep' /\ SendsShown'
      BY <1>2, <1>3, <2>3 DEF OnItsStep, SendsShown, Opening
    <2>5. QED
      BY <2>2, <2>4 DEF Orderly
  <1>7. QED
    BY <1>4, <1>5, <1>6 DEF WizardInv

\* A request is made.
LEMMA WizardRequest ==
  ASSUME WizardInv, NEW c \in Calls, NEW op \in Asks \ {"none", "change"},
         NEW flag \in WizardFlags, P!Request(c, op, flag), open,
         page' = page \/ page' = [page EXCEPT !.code = FALSE],
         op = "send" =>
           /\ flag = "sending" /\ flag \notin busy
           /\ kind # "change" => page.step = "details" /\ page.email # None
           /\ kind = "register" => P!ValidDetails,
         op # "send" /\ kind # "change" => page.step # "details" /\ page.email # None,
         op = "verify" =>
           /\ flag = "verifying" /\ flag \notin busy
           /\ page.step = "code",
         op = "set" =>
           /\ flag = "updating" /\ flag \notin busy
           /\ page.step = "password" /\ kind # "change"
  PROVE  WizardInv'
  <1>1. /\ kind \in Wizards /\ open \in BOOLEAN /\ page \in WizardRow
        /\ busy \subseteq WizardFlags /\ call \in [Calls -> AskRow]
        /\ sent \subseteq Emails /\ verified \subseteq Emails
        /\ slips \subseteq {"edited", "crossed"}
        /\ Steady /\ ("crossed" \notin slips => Orderly)
    BY WizardFacts
  <1> DEFINE r == [op |-> op, email |-> page.email, mine |-> TRUE]
  <1>2. r \in AskRow /\ r.op = op /\ r.email = page.email /\ r.mine
    BY <1>1 DEF AskRow, WizardRow
  <1>3. /\ call' = [call EXCEPT ![c] = r] /\ busy' = busy \cup {flag}
        /\ UNCHANGED <<kind, open, sent, verified, slips>>
    BY DEF P!Request, P!Asked
  <1> HIDE DEF r
  <1>4. /\ call' \in [Calls -> AskRow] /\ call'[c] = r
        /\ \A d \in Calls : d # c => call'[d] = call[d]
    BY <1>1, <1>2, <1>3
  <1>5. /\ page' \in WizardRow /\ page'.step = page.step /\ page'.email = page.email
        /\ page'.details = page.details
    BY <1>1 DEF WizardRow
  <1>6. P!TypeOK'
    BY <1>1, <1>3, <1>4, <1>5, TypesWizard
  <1>7. Steady'
    <2>1. page.email \in Emails
      BY <1>1, AccountAssumption DEF Steady, WizardRow, P!Address
    <2>2. QED
      BY <1>1, <1>2, <1>3, <1>4, <1>5, <2>1 DEF Steady
  <1>8. ASSUME "crossed" \notin slips'
        PROVE  Orderly'
    <2>1. OneCheck /\ OnItsStep /\ SetsVerified /\ SendsShown /\ ClosedAtStart
      BY <1>1, <1>3, <1>8 DEF Orderly
    <2>2. OneCheck'
      BY <1>2, <1>3, <1>4, <2>1 DEF OneCheck, Opening
    <2>3. OnItsStep'
      BY <1>2, <1>3, <1>4, <1>5, <2>1 DEF OnItsStep, Opening
    <2>4. SetsVerified'
      BY <1>2, <1>3, <1>4, <1>5, <2>1 DEF SetsVerified, Opening
    <2>5. P!ValidDetails' = P!ValidDetails
      BY <1>5 DEF P!ValidDetails
    <2>6. SendsShown'
      BY <1>2, <1>3, <1>4, <1>5, <2>1, <2>5 DEF SendsShown, Opening
    <2>7. ClosedAtStart'
      BY <1>3, <1>5, <2>1 DEF ClosedAtStart
    <2>8. QED
      BY <2>2, <2>3, <2>4, <2>6, <2>7 DEF Orderly
  <1>9. QED
    BY <1>6, <1>7, <1>8 DEF WizardInv

LEMMA WizardAsks ==
  ASSUME WizardInv, NEW c \in Calls,
         \/ P!SendRegister(c) \/ P!SendRecovery(c) \/ P!SendChange(c)
         \/ P!ResendRegister(c) \/ P!ResendForgot(c) \/ P!ResendChange(c)
         \/ P!VerifyRegister(c) \/ P!VerifyForgot(c) \/ P!VerifyChange(c)
         \/ P!SetRegister(c) \/ P!SetForgot(c)
  PROVE  WizardInv'
  <1>1. /\ "send" \in Asks \ {"none", "change"} /\ "resend" \in Asks \ {"none", "change"}
        /\ "verify" \in Asks \ {"none", "change"} /\ "set" \in Asks \ {"none", "change"}
        /\ "sending" \in WizardFlags /\ "resending" \in WizardFlags
        /\ "verifying" \in WizardFlags /\ "updating" \in WizardFlags
    BY DEF Asks, WizardFlags
  <1>2. CASE P!SendRegister(c) \/ P!SendRecovery(c) \/ P!SendChange(c)
    <2>1. /\ P!Request(c, "send", "sending") /\ open /\ page' = page
          /\ "sending" \notin busy
          /\ kind # "change" => page.step = "details" /\ page.email # None
          /\ kind = "register" => P!ValidDetails
      BY <1>2 DEF P!SendRegister, P!SendRecovery, P!SendChange, P!Shows, P!Free, P!ValidDetails
    <2>2. QED
      BY <1>1, <2>1, WizardRequest
  <1>3. CASE P!ResendRegister(c) \/ P!ResendForgot(c) \/ P!ResendChange(c)
    <2>1. /\ P!Request(c, "resend", "resending") \/ P!Request(c, "resend", "sending")
          /\ open
          /\ page' = page \/ page' = [page EXCEPT !.code = FALSE]
          /\ page.step = "code"
          /\ kind # "change" => page.email # None
      BY <1>3 DEF P!ResendRegister, P!ResendForgot, P!ResendChange, P!Shows
    <2>2. QED
      BY <1>1, <2>1, WizardRequest
  <1>4. CASE P!VerifyRegister(c) \/ P!VerifyForgot(c) \/ P!VerifyChange(c)
    <2>1. /\ P!Request(c, "verify", "verifying") /\ open /\ page' = page
          /\ "verifying" \notin busy /\ page.step = "code" /\ page.email # None
      BY <1>4 DEF P!VerifyRegister, P!VerifyForgot, P!VerifyChange, P!Verifies, P!Shows, P!Free
    <2>2. QED
      BY <1>1, <2>1, WizardRequest
  <1>5. CASE P!SetRegister(c) \/ P!SetForgot(c)
    <2>1. /\ P!Request(c, "set", "updating") /\ open /\ page' = page
          /\ "updating" \notin busy /\ page.step = "password" /\ page.email # None
          /\ kind # "change"
      BY <1>5 DEF P!SetRegister, P!SetForgot, P!MaySet, P!Shows, P!Free, P!ValidDetails
    <2>2. QED
      BY <1>1, <2>1, WizardRequest
  <1>6. QED
    BY <1>2, <1>3, <1>4, <1>5

LEMMA WizardFlagOf ==
  /\ P!FlagOf("send") = "sending" /\ P!FlagOf("resend") \in {"sending", "resending"}
  /\ P!FlagOf("verify") = "verifying" /\ P!FlagOf("change") = "verifying"
  /\ P!FlagOf("set") = "updating"
  BY DEF P!FlagOf

\* A request is answered: unless an earlier opening made it, the step it leads
\* to has no other request waiting on the step it leaves.
LEMMA WizardAnswer ==
  ASSUME WizardInv, NEW c \in Calls, call[c].op # "none",
         P!Ends(c, P!FlagOf(call[c].op)), P!Heard(c), UNCHANGED <<kind, open>>,
         page' \in WizardRow, page'.email = page.email, page'.details = page.details,
         sent' = sent \/ sent' = sent \cup P!Mine(c),
         verified' = verified \/ verified' = verified \cup P!Mine(c),
         kind # "change" =>
           \/ page'.step = page.step
           \/ call[c].op = "send" /\ page'.step = "code"
           \/ /\ call[c].op = "verify" /\ page'.step = "password"
              /\ verified' = verified \cup P!Mine(c)
           \/ call[c].op = "set" /\ page'.step = "success",
         page'.step = "code" =>
           \/ page.step = "code"
           \/ call[c].op = "send" /\ sent' = sent \cup P!Mine(c)
  PROVE  WizardInv'
  <1>1. /\ kind \in Wizards /\ open \in BOOLEAN /\ page \in WizardRow
        /\ busy \subseteq WizardFlags /\ call \in [Calls -> AskRow]
        /\ sent \subseteq Emails /\ verified \subseteq Emails
        /\ slips \subseteq {"edited", "crossed"}
        /\ Steady /\ ("crossed" \notin slips => Orderly)
    BY WizardFacts
  <1>2. /\ call' = [call EXCEPT ![c] = P!NoCall]
        /\ busy' = busy \ {P!FlagOf(call[c].op)}
        /\ slips' = IF call[c].mine THEN slips ELSE slips \cup {"crossed"}
    BY DEF P!Ends, P!Heard
  <1>3. /\ call' \in [Calls -> AskRow] /\ call'[c] = P!NoCall
        /\ \A d \in Calls : d # c => call'[d] = call[d]
    BY <1>1, <1>2, WizardRows
  <1>4. P!Mine(c) = IF call[c].mine THEN {call[c].email} ELSE {}
    BY DEF P!Mine
  <1>5. sent' \subseteq Emails /\ verified' \subseteq Emails
    BY <1>1, <1>4 DEF Steady
  <1>6. P!TypeOK'
    BY <1>1, <1>2, <1>3, <1>5, TypesWizard
  <1>7. Steady'
    BY <1>1, <1>3, WizardRows DEF Steady
  <1>8. ASSUME "crossed" \notin slips'
        PROVE  Orderly'
    <2>1. /\ OneCheck /\ OnItsStep /\ SetsVerified /\ SendsShown /\ ClosedAtStart
          /\ call[c].mine /\ open /\ slips' = slips
      BY <1>1, <1>2, <1>8 DEF Orderly, Steady
    <2>2. P!Mine(c) = {call[c].email} /\ call[c].op \in Asks \ {"none"}
      BY <1>1, <1>4, <2>1 DEF AskRow
    <2>3. \A d \in Calls, ops \in SUBSET (Asks \ {"none"}) :
            Opening(d, ops)' <=> d # c /\ Opening(d, ops)
      BY <1>3, WizardRows DEF Opening
    <2>4. /\ {"verify", "change"} \in SUBSET (Asks \ {"none"})
          /\ {"set"} \in SUBSET (Asks \ {"none"}) /\ {"send"} \in SUBSET (Asks \ {"none"})
          /\ {"verify"} \in SUBSET (Asks \ {"none"})
          /\ {"set", "change"} \in SUBSET (Asks \ {"none"})
          /\ {"resend", "verify", "set"} \in SUBSET (Asks \ {"none"})
      BY DEF Asks
    <2>5. OneCheck'
      <3>1. \A d \in Calls : Opening(d, {"verify", "change"}) /\ d # c =>
              P!FlagOf(call[c].op) # "verifying"
        BY <2>1, <2>2, WizardFlagOf DEF OneCheck, Opening, Asks
      <3>2. \A d \in Calls : Opening(d, {"set"}) /\ d # c => P!FlagOf(call[c].op) # "updating"
        BY <2>1, <2>2, WizardFlagOf DEF OneCheck, Opening, Asks
      <3>3. /\ \A d \in Calls : Opening(d, {"verify", "change"}) /\ d # c => "verifying" \in busy'
            /\ \A d \in Calls : Opening(d, {"set"}) /\ d # c => "updating" \in busy'
        BY <1>2, <2>1, <3>1, <3>2 DEF OneCheck
      <3>4. QED
        BY <2>1, <2>3, <2>4, <3>3 DEF OneCheck
    <2>6. OnItsStep'
      <3> SUFFICES ASSUME kind # "change"
                   PROVE  OnItsStep'
        BY DEF OnItsStep
      <3>1. \A d \in Calls : Opening(d, {"send"}) /\ d # c =>
              page'.step = "details" /\ "sending" \in busy'
        BY <1>2, <2>1, <2>2, WizardFlagOf DEF OnItsStep, Opening, Asks
      <3>2. \A d \in Calls : Opening(d, {"verify"}) /\ d # c => page'.step = "code"
        BY <2>1, <2>2 DEF OnItsStep, OneCheck, Opening, Asks
      <3>3. \A d \in Calls : Opening(d, {"set"}) /\ d # c => page'.step = "password"
        BY <2>1, <2>2 DEF OnItsStep, OneCheck, Opening, Asks
      <3>4. \A d \in Calls : Opening(d, {"resend", "verify", "set"}) /\ d # c =>
              page'.step # "details" /\ page'.email # None /\ call'[d].email = page'.email
        BY <1>3, <2>1, <2>2 DEF OnItsStep, Opening, Asks
      <3>5. QED
        BY <2>1, <2>3, <2>4, <3>1, <3>2, <3>3, <3>4 DEF OnItsStep
    <2>7. SetsVerified'
      <3>1. kind # "change" /\ page'.step = "password" => page'.email \in verified'
        BY <2>1, <2>2 DEF SetsVerified, OnItsStep, Opening
      <3>2. \A d \in Calls : Opening(d, {"set", "change"}) /\ d # c => call'[d].email \in verified'
        BY <1>3, <2>1 DEF SetsVerified
      <3>3. QED
        BY <2>3, <2>4, <3>1, <3>2 DEF SetsVerified
    <2>8. P!ValidDetails' = P!ValidDetails
      BY DEF P!ValidDetails
    <2>9. SendsShown'
      <3> SUFFICES ASSUME "edited" \notin slips
                   PROVE  /\ \A d \in Calls : Opening(d, {"send"})' /\ kind # "change" =>
                               /\ call'[d].email = page'.email /\ page'.email # None
                               /\ kind = "register" => P!ValidDetails'
                          /\ page'.step = "code" => /\ page'.email \in sent'
                                                    /\ kind = "register" => P!ValidDetails'
        BY <2>1 DEF SendsShown
      <3>1. \A d \in Calls : Opening(d, {"send"})' /\ kind # "change" =>
              /\ call'[d].email = page'.email /\ page'.email # None
              /\ kind = "register" => P!ValidDetails'
        BY <1>3, <2>1, <2>3, <2>4, <2>8 DEF SendsShown
      <3>2. CASE page.step = "code"
        BY <2>1, <2>8, <3>1, <3>2 DEF SendsShown
      <3>3. CASE call[c].op = "send" /\ sent' = sent \cup P!Mine(c)
        <4>1. call[c].email = page.email /\ (kind = "register" => P!ValidDetails)
          BY <1>1, <2>1, <3>3 DEF SendsShown, Opening, Steady, Wizards
        <4>2. QED
          BY <2>2, <2>8, <3>1, <3>3, <4>1
      <3>4. QED
        BY <3>1, <3>2, <3>3
    <2>10. ClosedAtStart'
      BY <2>1 DEF ClosedAtStart
    <2>11. QED
      BY <2>5, <2>6, <2>7, <2>9, <2>10 DEF Orderly
  <1>9. QED
    BY <1>6, <1>7, <1>8 DEF WizardInv


\* The answer to an earlier opening may find the wizard on any step.
LEMMA WizardCrossed ==
  ASSUME WizardInv, NEW c \in Calls, ~call[c].mine, P!Ends(c, P!FlagOf(call[c].op)),
         P!Heard(c), UNCHANGED <<kind, open, sent, verified>>,
         page' \in WizardRow, page'.email = page.email
  PROVE  WizardInv'
  <1>1. /\ kind \in Wizards /\ open \in BOOLEAN /\ page \in WizardRow
        /\ busy \subseteq WizardFlags /\ call \in [Calls -> AskRow]
        /\ sent \subseteq Emails /\ verified \subseteq Emails
        /\ slips \subseteq {"edited", "crossed"} /\ Steady
    BY WizardFacts
  <1>2. /\ call' = [call EXCEPT ![c] = P!NoCall] /\ slips' = slips \cup {"crossed"}
        /\ busy' \subseteq busy
    BY DEF P!Ends, P!Heard
  <1>3. /\ call' \in [Calls -> AskRow] /\ call'[c] = P!NoCall
        /\ \A d \in Calls : d # c => call'[d] = call[d]
    BY <1>1, <1>2, WizardRows
  <1>4. P!TypeOK'
    BY <1>1, <1>2, <1>3, TypesWizard
  <1>5. Steady'
    BY <1>1, <1>3, WizardRows DEF Steady
  <1>6. QED
    BY <1>2, <1>4, <1>5 DEF WizardInv

LEMMA WizardAnswers ==
  ASSUME WizardInv, NEW c \in Calls,
         \/ P!Sent(c) \/ P!Resent(c) \/ P!VerifiedRegister(c) \/ P!VerifiedForgot(c)
         \/ P!SetDone(c) \/ P!Failed(c)
  PROVE  WizardInv'
  <1>1. page \in WizardRow /\ kind \in Wizards /\ call \in [Calls -> AskRow] /\ Steady
    BY WizardFacts
  <1>2. CASE P!Sent(c)
    <2>1. /\ call[c].op = "send" /\ P!Ends(c, P!FlagOf("send")) /\ P!Heard(c)
          /\ page' = [page EXCEPT !.step = "code", !.code = FALSE, !.resend = FALSE]
          /\ sent' = sent \cup P!Mine(c) /\ UNCHANGED <<kind, open, verified>>
      BY <1>2 DEF P!Sent
    <2>2. /\ page' \in WizardRow /\ page'.step = "code" /\ page'.email = page.email
          /\ page'.details = page.details
      BY <1>1, <2>1 DEF WizardRow, PageSteps
    <2>3. QED
      BY <2>1, <2>2, WizardAnswer
  <1>3. CASE P!Resent(c)
    <2>1. /\ call[c].op = "resend" /\ P!Ends(c, P!FlagOf("resend")) /\ P!Heard(c)
          /\ sent' = sent \cup P!Mine(c) /\ UNCHANGED <<kind, open, verified>>
      BY <1>3 DEF P!Resent
    <2>2. PICK b \in BOOLEAN : page' = [page EXCEPT !.code = b, !.resend = FALSE]
      <3>1. page' = [page EXCEPT !.code = page.code /\ kind # "register", !.resend = FALSE]
        BY <1>3 DEF P!Resent
      <3>2. (page.code /\ kind # "register") \in BOOLEAN
        OBVIOUS
      <3>3. QED
        BY <3>1, <3>2
    <2>3. /\ page' \in WizardRow /\ page'.step = page.step /\ page'.email = page.email
          /\ page'.details = page.details
      BY <1>1, <2>2 DEF WizardRow, PageSteps
    <2>4. QED
      BY <2>1, <2>3, WizardAnswer
  <1>4. CASE P!VerifiedRegister(c) \/ P!VerifiedForgot(c)
    <2>1. /\ call[c].op = "verify" /\ P!Ends(c, P!FlagOf("verify")) /\ P!Heard(c)
          /\ verified' = verified \cup P!Mine(c) /\ UNCHANGED <<kind, open, sent>>
          /\ \/ page' = [page EXCEPT !.step = "password", !.valid = FALSE]
             \/ page' = [page EXCEPT !.step = "password"]
      BY <1>4, WizardFlagOf DEF P!VerifiedRegister, P!VerifiedForgot
    <2>2. /\ page' \in WizardRow /\ page'.step = "password" /\ page'.email = page.email
          /\ page'.details = page.details
      BY <1>1, <2>1 DEF WizardRow, PageSteps
    <2>3. QED
      BY <2>1, <2>2, WizardAnswer
  <1>5. CASE P!SetDone(c)
    <2>1. /\ call[c].op \in {"set", "change"} /\ P!Ends(c, P!FlagOf(call[c].op))
          /\ P!Heard(c) /\ page' = [page EXCEPT !.step = "success"]
          /\ UNCHANGED <<kind, open, sent, verified>>
      BY <1>5 DEF P!SetDone
    <2>2. /\ page' \in WizardRow /\ page'.step = "success" /\ page'.email = page.email
          /\ page'.details = page.details
      BY <1>1, <2>1 DEF WizardRow, PageSteps
    <2>3. CASE call[c].mine
      BY <1>1, <2>1, <2>2, <2>3, WizardAnswer DEF Steady
    <2>4. CASE ~call[c].mine
      BY <2>1, <2>2, <2>4, WizardCrossed
    <2>5. QED
      BY <2>3, <2>4
  <1>6. CASE P!Failed(c)
    <2>1. /\ call[c] # P!NoCall /\ P!Ends(c, P!FlagOf(call[c].op)) /\ P!Heard(c)
          /\ page' = IF call[c].op = "change"
                     THEN [page EXCEPT !.step = "password", !.code = FALSE] ELSE page
          /\ UNCHANGED <<kind, open, sent, verified>>
      BY <1>6 DEF P!Failed, P!AfterError
    <2>2. call[c].op # "none"
      BY <1>1, <2>1 DEF Steady
    <2>3. /\ page' \in WizardRow /\ page'.email = page.email
          /\ page'.details = page.details
          /\ page'.step = IF call[c].op = "change" THEN "password" ELSE page.step
      BY <1>1, <2>1 DEF WizardRow, PageSteps
    <2>4. CASE call[c].mine
      BY <1>1, <2>1, <2>2, <2>3, <2>4, WizardAnswer DEF Steady
    <2>5. CASE ~call[c].mine
      BY <2>1, <2>2, <2>3, <2>5, WizardCrossed
    <2>6. QED
      BY <2>4, <2>5
  <1>7. QED
    BY <1>2, <1>3, <1>4, <1>5, <1>6

\* The handler that checked the code goes on with the same call.
LEMMA WizardGoesOn ==
  ASSUME WizardInv, NEW c \in Calls, P!VerifiedChange(c)
  PROVE  WizardInv'
  <1>1. /\ kind \in Wizards /\ open \in BOOLEAN /\ page \in WizardRow
        /\ busy \subseteq WizardFlags /\ call \in [Calls -> AskRow]
        /\ sent \subseteq Emails /\ verified \subseteq Emails
        /\ slips \subseteq {"edited", "crossed"}
        /\ Steady /\ ("crossed" \notin slips => Orderly)
    BY WizardFacts
  <1> DEFINE r == [call[c] EXCEPT !.op = "change"]
  <1>2. /\ call[c].op = "verify" /\ kind = "change" /\ call' = [call EXCEPT ![c] = r]
        /\ verified' = verified \cup (IF call[c].mine THEN {call[c].email} ELSE {})
        /\ UNCHANGED <<kind, open, page, busy, sent, slips>>
    BY DEF P!VerifiedChange, P!Mine
  <1>3. /\ r \in AskRow /\ r.op = "change" /\ r.email = call[c].email
        /\ r.mine = call[c].mine
    BY <1>1 DEF AskRow, Asks
  <1> HIDE DEF r
  <1>4. /\ call' \in [Calls -> AskRow] /\ call'[c] = r
        /\ \A d \in Calls : d # c => call'[d] = call[d]
    BY <1>1, <1>2, <1>3
  <1>5. verified' \subseteq Emails
    BY <1>1, <1>2 DEF Steady
  <1>6. P!TypeOK'
    BY <1>1, <1>2, <1>4, <1>5, TypesWizard
  <1>7. Steady'
    BY <1>1, <1>2, <1>3, <1>4 DEF Steady
  <1>8. ASSUME "crossed" \notin slips'
        PROVE  Orderly'
    <2>1. OneCheck /\ OnItsStep /\ SetsVerified /\ SendsShown /\ ClosedAtStart
      BY <1>1, <1>2, <1>8 DEF Orderly
    <2>2. /\ \A d \in Calls : Opening(d, {"verify", "change"})' => Opening(d, {"verify", "change"})
          /\ \A d \in Calls : Opening(d, {"set"})' => Opening(d, {"set"})
      BY <1>2, <1>3, <1>4 DEF Opening
    <2>3. OneCheck'
      BY <1>2, <2>1, <2>2 DEF OneCheck
    <2>4. OnItsStep' /\ ClosedAtStart'
      BY <1>2, <2>1 DEF OnItsStep, ClosedAtStart
    <2>5. SetsVerified'
      BY <1>2, <1>3, <1>4, <2>1 DEF SetsVerified, Opening
    <2>6. SendsShown'
      BY <1>2, <1>3, <1>4, <2>1 DEF SendsShown, Opening
    <2>7. QED
      BY <2>3, <2>4, <2>5, <2>6 DEF Orderly
  <1>9. QED
    BY <1>6, <1>7, <1>8 DEF WizardInv

LEMMA WizardInvStep == WizardInv /\ [P!Next]_P!vars => WizardInv'
  <1> SUFFICES ASSUME WizardInv, [P!Next]_P!vars
               PROVE  WizardInv'
    OBVIOUS
  <1>1. CASE UNCHANGED P!vars
    BY <1>1, WizardTyped, WizardFacts DEF P!vars
  <1>2. CASE P!Next
    BY <1>2, WizardOpens, WizardFields, WizardWithoutAddress, WizardAsks, WizardAnswers,
       WizardGoesOn
    DEF P!Next
  <1>3. QED
    BY <1>1, <1>2

LEMMA WizardInvSuffices ==
  WizardInv => P!ChangesTheVerified /\ P!OneChange /\ P!CodeStepHasCode
  <1> SUFFICES ASSUME WizardInv
               PROVE  P!ChangesTheVerified /\ P!OneChange /\ P!CodeStepHasCode
    OBVIOUS
  <1>1. Steady /\ ("crossed" \notin slips => Orderly)
    BY WizardFacts
  <1>2. P!ChangesTheVerified
    BY <1>1 DEF P!ChangesTheVerified, Orderly, SetsVerified, Opening
  <1>3. P!OneChange
    BY <1>1 DEF P!OneChange, Steady, Orderly, OneCheck, Opening
  <1>4. P!CodeStepHasCode
    BY <1>1 DEF P!CodeStepHasCode, Orderly, SendsShown
  <1>5. QED
    BY <1>2, <1>3, <1>4
---------------------------------------------------------------------------
\* The behaviours of the composition that are about this page keep WizardInv.
WizardKept == which = "password" => WizardInv

LEMMA WizardKeptInit == Init => WizardKept
  BY WizardInvInit DEF Init, WizardKept

LEMMA WizardKeptStep ==
  ASSUME WizardKept, [Next]_vars
  PROVE  WizardKept'
  <1> SUFFICES ASSUME which' = "password"
               PROVE  WizardInv'
    BY DEF WizardKept
  <1>1. which = "password" /\ [P!Next]_vars
    BY DEF Next, vars, BesideSecondFactorPage, BesidePasswordWizard,
            BesideInvitationSetup, BesideProfileEditor, BesideAuthenticators,
            BesideMfaCodes, BesidePasskeyCeremonies
  <1>2. [P!Next]_P!vars
    BY <1>1 DEF vars, P!vars
  <1>3. QED
    BY <1>1, <1>2, WizardInvStep DEF WizardKept

\* Every unanswered request of the second factor has its flag set, which no other
\* request has (LoginMfaFlow.jsx).
THEOREM FactorInvariant == Spec => []FactorKept
  BY FactorKeptInit, FactorKeptStep, PTL DEF Spec

\* For any addresses and number of calls: each call of an opening waits on its
\* own step and is about the address shown, until an answer of an earlier
\* opening arrives (RegisterForm.jsx, ForgotPasswordModal.jsx,
\* ChangePasswordModal.jsx).
THEOREM WizardInvariant == Spec => []WizardKept
  BY WizardKeptInit, WizardKeptStep, PTL DEF Spec

\* One code at a time is tried, and one request at a time sets the password
\* (LoginMfaFlow.jsx, ForgotPasswordModal.jsx).
THEOREM OneAtATimeHolds == Spec => []OneAtATime
  <1>1. FactorKept /\ WizardKept => OneAtATime
    BY WizardInvSuffices DEF FactorKept, FactorInv, WizardKept, OneAtATime
  <1>2. QED
    BY <1>1, FactorInvariant, WizardInvariant, PTL

\* A new password is asked for only for an address whose code was accepted in
\* the same opening (ForgotPasswordModal.jsx, ChangePasswordModal.jsx).
THEOREM VerifiedHolds == Spec => []ChangesTheVerified
  <1>1. WizardKept => ChangesTheVerified
    BY WizardInvSuffices DEF WizardKept, ChangesTheVerified
  <1>2. QED
    BY <1>1, WizardInvariant, PTL

\* Whoever is asked for a code was sent one (RegisterForm.jsx).
THEOREM CodeStepHolds == Spec => []CodeStepHasCode
  <1>1. WizardKept => CodeStepHasCode
    BY WizardInvSuffices DEF WizardKept, CodeStepHasCode
  <1>2. QED
    BY <1>1, WizardInvariant, PTL

---------------------------------------------------------------------------
\* Every page keeps its types (one invariant for each page of MCAccount).
THEOREM AccountTypes == Spec => []AccountTypeOK
  <1>1. /\ FactorKept => (which = "secondFactor" => F!TypeOK)
        /\ WizardKept => (which = "password" => P!TypeOK)
        /\ InvitationKept => (which = "invitation" => I!TypeOK)
        /\ ProfileKept => (which = "profile" => N!TypeOK)
        /\ AuthKept => (which = "authenticators" => D!TypeOK)
    BY DEF FactorKept, FactorInv, WizardKept, WizardInv, InvitationKept,
           InvitationInv, ProfileKept, ProfileInv, AuthKept, AuthInv
  <1>2. SecondFactorKept => /\ which = "codes" => C!TypeOK
                            /\ which = "ceremonies" => K!TypeOK
    BY DEF SecondFactorKept, CodesInv, CeremonyInv
  <1>3. FactorKept /\ WizardKept /\ InvitationKept /\ ProfileKept
          /\ AuthKept /\ SecondFactorKept => AccountTypeOK
    BY <1>1, <1>2 DEF AccountTypeOK
  <1>4. QED
    BY <1>3, FactorInvariant, WizardInvariant, InvitationInvariant,
       ProfileInvariant, AuthenticatorsInvariant, SecondFactorInvariant, PTL
=============================================================================
