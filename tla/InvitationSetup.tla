--------------------------- MODULE InvitationSetup ---------------------------
(***************************************************************************)
(* The link of an invitation: the page that checks it and asks for a       *)
(* password (RegisterPasswordSetup.jsx, RegisterPasswordSetupForm.jsx) in  *)
(* several tabs, and the activation it asks for                            *)
(* (registration_service.go): four statements with no transaction around   *)
(* them, each of which may fail, while the answer may be lost at any time. *)
(***************************************************************************)
EXTENDS AccountData, FiniteSets

VARIABLES
  invitation,  \* its row: younger than 24 hours, older, or deleted
  password,    \* the tab whose password the account has
  clients,     \* the clients of the account type were tried, or also assigned
  tab,         \* the pages; wait: the answer its handler waits for
  activation,  \* by tab, the statement its activation comes to
  written      \* the tabs whose password has been written

vars == <<invitation, password, clients, tab, activation, written>>

Away == [state |-> "away", valid |-> FALSE, complete |-> FALSE, wait |-> "nothing"]

\* The page: what it shows, its form, and the answer that is waited for.
Pages == [state : {"away", "checking", "ready", "forbidden", "error"},
          valid : BOOLEAN, complete : BOOLEAN,
          wait : {"nothing", "activation", "recheck"}]

TypeOK ==
  /\ invitation \in {"fresh", "old", "gone"}
  /\ password \in Tabs \cup {None}
  /\ clients \in {"untried", "failed", "assigned"}
  /\ tab \in [Tabs -> Pages]
  /\ activation \in [Tabs -> {"none", "find", "password", "clients", "delete",
                              "done", "refused"}]
  /\ written \subseteq Tabs

Init ==
  /\ invitation = "fresh" /\ password = None /\ clients = "untried"
  /\ tab = [t \in Tabs |-> Away]
  /\ activation = [t \in Tabs |-> "none"]
  /\ written = {}

account == <<password, clients, written>>

\* isSubmitting
Busy(t) == tab[t].wait # "nothing"

Expire ==
  /\ invitation = "fresh" /\ invitation' = "old"
  /\ UNCHANGED <<account, tab, activation>>

---------------------------------------------------------------------------
\* The page.
Shows(t, s) ==
  /\ tab' = [tab EXCEPT ![t] = s]
  /\ UNCHANGED <<invitation, account, activation>>

Open(t) == tab[t].state = "away" /\ Shows(t, [Away EXCEPT !.state = "checking"])

\* The answers to a page that was left are ignored; what it asked for goes on.
Leave(t) == tab[t].state # "away" /\ Shows(t, Away)

\* CheckInvitation: a deleted row is an internal error, an old one is refused
\* with 401.
Check == CASE invitation = "fresh" -> "valid"
           [] invitation = "old" -> "refused"
           [] invitation = "gone" -> "failure"

Checked(t) ==
  /\ tab[t].state = "checking"
  /\ \E answer \in {Check, "failure"} :
       Shows(t, [tab[t] EXCEPT !.state = CASE answer = "valid" -> "ready"
                                           [] answer = "refused" -> "forbidden"
                                           [] answer = "failure" -> "error"])

Form(t) == tab[t].state = "ready" /\ ~tab[t].complete

TypePassword(t) ==
  /\ Form(t)
  /\ \E v \in BOOLEAN : Shows(t, [tab[t] EXCEPT !.valid = v])

\* activateAccount: the request is on its way.
Activates(t) ==
  /\ tab' = [tab EXCEPT ![t].wait = "activation"]
  /\ activation' = [activation EXCEPT ![t] = "find"]

\* Bound: a tab has one activation on the server at a time.
Submit(t) ==
  /\ Form(t) /\ tab[t].valid /\ ~Busy(t)
  /\ activation[t] = "none"
  /\ Activates(t)
  /\ UNCHANGED <<invitation, account>>

\* Any error, a lost answer among them, makes the page check the link again.
NoAnswer(t) ==
  /\ tab[t].wait = "activation"
  /\ Shows(t, [tab[t] EXCEPT !.wait = "recheck"])

ForbidsAnyError(answer) == answer # "valid"
Forbids(answer) == answer = "refused"

Rechecked(t) ==
  /\ tab[t].wait = "recheck"
  /\ \E answer \in {Check, "failure"} :
       IF Forbids(answer) THEN Shows(t, [Away EXCEPT !.state = "forbidden"])
       ELSE Shows(t, [tab[t] EXCEPT !.wait = "nothing"])

---------------------------------------------------------------------------
\* The activation.
Comes(t, pc) == activation' = [activation EXCEPT ![t] = pc]

AfterFindDeletes == "delete"
AfterFind == "password"

\* The age of the invitation is not looked at.
Find(t) ==
  /\ activation[t] = "find" /\ invitation # "gone"
  /\ Comes(t, AfterFind)
  /\ UNCHANGED <<invitation, account, tab>>

SetPassword(t) ==
  /\ activation[t] = "password"
  /\ password' = t /\ written' = written \cup {t}
  /\ Comes(t, "clients")
  /\ UNCHANGED <<invitation, clients, tab>>

\* An error of this statement is dropped.
AssignClients(t) ==
  /\ activation[t] = "clients"
  /\ \E ok \in BOOLEAN :
       clients' = IF ok \/ clients = "assigned" THEN "assigned" ELSE "failed"
  /\ Comes(t, "delete")
  /\ UNCHANGED <<invitation, password, written, tab>>

DeleteInvitation(t) ==
  /\ activation[t] = "delete"
  /\ invitation' = "gone"
  /\ Comes(t, "done")
  /\ UNCHANGED <<account, tab>>

\* An error, and for Find also the missing row, ends the activation there.
Refuse(t) ==
  /\ activation[t] \in {"find", "password", "delete"}
  /\ Comes(t, "refused")
  /\ UNCHANGED <<invitation, account, tab>>

AfterRefusalComplete(s) == [s EXCEPT !.wait = "nothing", !.complete = TRUE]
AfterRefusal(s) == [s EXCEPT !.wait = "recheck"]

Answer(t) ==
  /\ activation[t] \in {"done", "refused"}
  /\ Comes(t, "none")
  /\ tab' = IF tab[t].wait # "activation" THEN tab
            ELSE [tab EXCEPT ![t] =
                    IF activation[t] = "done"
                    THEN [@ EXCEPT !.wait = "nothing", !.complete = TRUE]
                    ELSE AfterRefusal(@)]
  /\ UNCHANGED <<invitation, account>>

---------------------------------------------------------------------------
Next ==
  \/ Expire
  \/ \E t \in Tabs :
       \/ Open(t) \/ Leave(t) \/ Checked(t) \/ TypePassword(t) \/ Submit(t)
       \/ NoAnswer(t) \/ Rechecked(t) \/ Find(t) \/ SetPassword(t)
       \/ AssignClients(t) \/ DeleteInvitation(t) \/ Refuse(t) \/ Answer(t)

Spec == Init /\ [][Next]_vars

---------------------------------------------------------------------------
(***************************************************************************)
(* Properties.                                                             *)
(***************************************************************************)

\* An activation that ends early leaves the link usable: the row goes last,
\* after a password was written and the clients were tried, in whatever order
\* the statements of several activations interleave and fail.
LinkOutlivesActivation ==
  invitation = "gone" => password # None /\ clients # "untried"

\* "Password Saved": the page says so only when its own password was written
\* and the link is used up, never after an answer that was lost or refused.
SavedIsWritten ==
  \A t \in Tabs :
    tab[t].complete => t \in written /\ invitation = "gone"

\* "403 Forbidden" throws the form away, which nobody gets back without a new
\* link: only an expired or used link may do so, not a network error.
ForbiddenIsOver ==
  \A t \in Tabs : tab[t].state = "forbidden" => invitation # "fresh"
=============================================================================
