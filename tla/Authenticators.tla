--------------------------- MODULE Authenticators ---------------------------
(***************************************************************************)
(* The authenticators of one's own account: the panel that lists and       *)
(* removes them (AuthenticatorsPanel.jsx), the modal that connects an      *)
(* authenticator app or a passkey (NewAuthenticatorModal.jsx) and the      *)
(* server that stores an app and then its backup codes (mfa_service.go).   *)
(*                                                                         *)
(* The modal can be left at any time: the answers of the calls it made     *)
(* come all the same, to the opening that is on the screen by then.        *)
(***************************************************************************)
EXTENDS AccountData

VARIABLES
  stored,    \* the authenticators the server has
  made,      \* the backup codes stored with each: some of them, all of them
  list,      \* the authenticators on the screen
  loading,   \* isLoading of the panel
  loads,     \* the calls of loadAuthenticators
  asked,     \* authenticatorToDelete
  removal,   \* the calls that delete an authenticator
  modal,     \* the modal that connects one
  setup,     \* its call for a secret is unanswered
  enrol,     \* the calls that connect an authenticator
  clipped,   \* those whose backup codes were copied
  slips      \* "overlap": a list was loaded while another one was awaited;
             \* "left": the modal was left before its call or its codes were
             \* done with; "lost": a call was done whose answer was an error

vars == <<stored, made, list, loading, loads, asked, removal, modal, setup,
          enrol, clipped, slips>>

NoLoad == [stage |-> "none", got |-> {}]
Closed == [open |-> FALSE, step |-> "choice", qr |-> FALSE, saving |-> FALSE,
           joining |-> FALSE, codes |-> None, copied |-> FALSE]
Opened == [Closed EXCEPT !.open = TRUE]

TypeOK ==
  /\ stored \subseteq Keys
  /\ made \in [Keys -> {"none", "some", "all"}]
  /\ list \subseteq Keys /\ loading \in BOOLEAN
  /\ loads \in [Calls -> [stage : {"none", "asked", "read"}, got : SUBSET Keys]]
  /\ asked \in Keys \cup {None}
  /\ removal \in [Keys -> {"none", "asked", "done"}]
  /\ modal \in [open : BOOLEAN, step : {"choice", "qr", "confirm"},
                qr : BOOLEAN, saving : BOOLEAN, joining : BOOLEAN,
                codes : Keys \cup {None}, copied : BOOLEAN]
  /\ setup \in BOOLEAN
  /\ enrol \in [Keys -> {"unused", "saving", "inserted", "coded",
                         "prompting", "joining", "joined", "over",
                         "finished"}]
  /\ clipped \subseteq Keys
  /\ slips \subseteq {"overlap", "left", "lost"}

Init ==
  /\ stored = {} /\ made = [k \in Keys |-> "none"]
  /\ list = {} /\ loading = TRUE
  /\ loads \in {[c \in Calls |-> IF c = first THEN [stage |-> "asked", got |-> {}]
                                 ELSE NoLoad] : first \in Calls}
  /\ asked = None /\ removal = [k \in Keys |-> "none"]
  /\ modal = Closed /\ setup = FALSE
  /\ enrol = [k \in Keys |-> "unused"]
  /\ clipped = {} /\ slips = {}

Enrolling == {k \in Keys : enrol[k] \notin {"unused", "over", "finished"}}

---------------------------------------------------------------------------
(***************************************************************************)
(* The panel.                                                              *)
(***************************************************************************)
Awaited == \E c \in Calls : loads[c] # NoLoad

\* loadAuthenticators, which no later call cancels.
Load ==
  /\ \E c \in Calls : /\ loads[c] = NoLoad
                      /\ loads' = [loads EXCEPT ![c].stage = "asked"]
  /\ loading' = TRUE
Overlap == IF Awaited THEN {"overlap"} ELSE {}

\* Backup codes are not listed.
Reads(c) ==
  /\ loads[c].stage = "asked"
  /\ loads' = [loads EXCEPT ![c] = [stage |-> "read", got |-> stored]]
  /\ UNCHANGED <<stored, made, list, loading, asked, removal, modal, setup,
                 enrol, clipped, slips>>

Loaded(c) ==
  /\ loads[c].stage = "read"
  /\ list' = loads[c].got /\ loading' = FALSE
  /\ loads' = [loads EXCEPT ![c] = NoLoad]
  /\ UNCHANGED <<stored, made, asked, removal, modal, setup, enrol, clipped, slips>>

LoadFails(c) ==
  /\ loads[c].stage # "none"
  /\ loading' = FALSE
  /\ loads' = [loads EXCEPT ![c] = NoLoad]
  /\ slips' = slips \cup {"lost"}
  /\ UNCHANGED <<stored, made, list, asked, removal, modal, setup, enrol,
                 clipped>>

AskRemoval(k) ==
  /\ ~modal.open /\ asked = None /\ ~loading /\ k \in list
  /\ asked' = k
  /\ UNCHANGED <<stored, made, list, loading, loads, removal, modal, setup,
                 enrol, clipped, slips>>

CancelRemoval ==
  /\ asked # None
  /\ asked' = None
  /\ UNCHANGED <<stored, made, list, loading, loads, removal, modal, setup,
                 enrol, clipped, slips>>

\* The dialog stays while the call is awaited.  Bound: one call for each key.
ConfirmRemoval ==
  /\ asked # None /\ removal[asked] = "none"
  /\ removal' = [removal EXCEPT ![asked] = "asked"]
  /\ UNCHANGED <<stored, made, list, loading, loads, asked, modal, setup,
                 enrol, clipped, slips>>

RemoveAuthenticator(k) ==
  /\ removal[k] = "asked"
  /\ removal' = [removal EXCEPT ![k] = "done"]
  /\ stored' = stored \ {k}
  /\ UNCHANGED <<made, list, loading, loads, asked, modal, setup, enrol,
                 clipped, slips>>

\* The answer closes the dialog, even one for another row.
Removed(k) ==
  /\ removal[k] = "done"
  /\ removal' = [removal EXCEPT ![k] = "none"]
  /\ asked' = None
  /\ Load /\ slips' = slips \cup Overlap
  /\ UNCHANGED <<stored, made, list, modal, setup, enrol, clipped>>

RemovalFails(k) ==
  /\ removal[k] # "none"
  /\ slips' = IF removal[k] = "done" THEN slips \cup {"lost"} ELSE slips
  /\ removal' = [removal EXCEPT ![k] = "none"]
  /\ UNCHANGED <<stored, made, list, loading, loads, asked, modal, setup,
                 enrol, clipped>>

---------------------------------------------------------------------------
(***************************************************************************)
(* The modal.                                                              *)
(***************************************************************************)
OpenModal ==
  /\ ~modal.open /\ asked = None
  /\ modal' = Opened
  /\ UNCHANGED <<stored, made, list, loading, loads, asked, removal, setup,
                 enrol, clipped, slips>>

\* What a closed modal keeps, and what answers add to it, is gone when it opens
\* again.  Closing cancels its setup.
Close == modal' = Closed /\ setup' = FALSE
Shows(m) == modal' = IF modal.open THEN m ELSE Closed

\* Escape, and Cancel on the first two steps.
LeaveModal ==
  /\ modal.open
  /\ Close
  /\ slips' = IF Enrolling # {} \/ modal.codes # None THEN slips \cup {"left"} ELSE slips
  /\ UNCHANGED <<stored, made, list, loading, loads, asked, removal, enrol,
                 clipped>>

OnChoice == modal.open /\ modal.step = "choice" /\ ~modal.joining

ChooseApp ==
  /\ OnChoice
  /\ modal' = [modal EXCEPT !.step = "qr"]
  /\ setup' = TRUE
  /\ UNCHANGED <<stored, made, list, loading, loads, asked, removal, enrol,
                 clipped, slips>>

\* getSetup answers with a secret, or fails; it is not asked again.
SetupAnswered ==
  /\ setup /\ setup' = FALSE
  /\ \E ok \in BOOLEAN : modal' = [modal EXCEPT !.qr = ok]
  /\ UNCHANGED <<stored, made, list, loading, loads, asked, removal, enrol,
                 clipped, slips>>

GoNext ==
  /\ modal.open /\ modal.step = "qr" /\ modal.qr
  /\ modal' = [modal EXCEPT !.step = "confirm"]
  /\ UNCHANGED <<stored, made, list, loading, loads, asked, removal, setup,
                 enrol, clipped, slips>>

OnConfirm == modal.open /\ modal.step = "confirm" /\ ~modal.saving

GoBack ==
  /\ OnConfirm
  /\ modal' = [modal EXCEPT !.step = "qr"]
  /\ UNCHANGED <<stored, made, list, loading, loads, asked, removal, setup,
                 enrol, clipped, slips>>

\* handleSaveAuthenticator, with a code of six digits and a name.
SaveAuthenticator(k) ==
  /\ OnConfirm /\ modal.codes = None
  /\ enrol[k] = "unused"
  /\ enrol' = [enrol EXCEPT ![k] = "saving"]
  /\ modal' = [modal EXCEPT !.saving = TRUE]
  /\ UNCHANGED <<stored, made, list, loading, loads, asked, removal, setup,
                 clipped, slips>>

\* FinalizeTOTP: the authenticator, then its ten codes one by one.
InsertAuthenticator(k) ==
  /\ enrol[k] = "saving"
  /\ enrol' = [enrol EXCEPT ![k] = "inserted"]
  /\ stored' = stored \cup {k}
  /\ UNCHANGED <<made, list, loading, loads, asked, removal, modal, setup,
                 clipped, slips>>

InsertCodes(k) ==
  /\ enrol[k] = "inserted"
  /\ \/ made[k] = "none" /\ made' = [made EXCEPT ![k] = "some"] /\ UNCHANGED enrol
     \/ /\ made[k] = "some"
        /\ made' = [made EXCEPT ![k] = "all"]
        /\ enrol' = [enrol EXCEPT ![k] = "coded"]
  /\ UNCHANGED <<stored, list, loading, loads, asked, removal, modal, setup,
                 clipped, slips>>

SaveAnswered(k) ==
  /\ enrol[k] = "coded"
  /\ enrol' = [enrol EXCEPT ![k] = "over"]
  /\ Shows([modal EXCEPT !.codes = k, !.copied = FALSE, !.saving = FALSE])
  /\ UNCHANGED <<stored, made, list, loading, loads, asked, removal, setup,
                 clipped, slips>>

\* A refusal, an error half way, or an answer that is lost.
SaveFails(k) ==
  /\ enrol[k] \in {"saving", "inserted", "coded"}
  /\ enrol' = [enrol EXCEPT ![k] = "over"]
  /\ Shows([modal EXCEPT !.saving = FALSE])
  /\ slips' = IF enrol[k] = "saving" THEN slips ELSE slips \cup {"lost"}
  /\ UNCHANGED <<stored, made, list, loading, loads, asked, removal, setup,
                 clipped>>

\* handleCopyBackupCodes; the clipboard answers at once.
CopyCodes ==
  /\ OnConfirm /\ modal.codes # None
  /\ clipped' = clipped \cup {modal.codes}
  /\ modal' = [modal EXCEPT !.copied = TRUE]
  /\ UNCHANGED <<stored, made, list, loading, loads, asked, removal, setup,
                 enrol, slips>>

\* handleFinish: the panel loads its list again.
Finish ==
  /\ OnConfirm /\ modal.codes # None /\ modal.copied
  /\ enrol' = [enrol EXCEPT ![modal.codes] = "finished"]
  /\ Load /\ slips' = slips \cup Overlap
  /\ Close
  /\ UNCHANGED <<stored, made, list, asked, removal, clipped>>

---------------------------------------------------------------------------
\* handleSelectPasskey: the options and the prompt of the browser ...
ChoosePasskey(k) ==
  /\ OnChoice /\ enrol[k] = "unused"
  /\ enrol' = [enrol EXCEPT ![k] = "prompting"]
  /\ modal' = [modal EXCEPT !.joining = TRUE]
  /\ UNCHANGED <<stored, made, list, loading, loads, asked, removal, setup,
                 clipped, slips>>

Prompted(k) ==
  /\ enrol[k] = "prompting"
  /\ enrol' = [enrol EXCEPT ![k] = "joining"]
  /\ UNCHANGED <<stored, made, list, loading, loads, asked, removal, modal,
                 setup, clipped, slips>>

InsertPasskey(k) ==
  /\ enrol[k] = "joining"
  /\ enrol' = [enrol EXCEPT ![k] = "joined"]
  /\ stored' = stored \cup {k}
  /\ UNCHANGED <<made, list, loading, loads, asked, removal, modal, setup,
                 clipped, slips>>

\* ... and the answer, which closes the modal, whatever it shows by then.
PasskeyAdded(k) ==
  /\ enrol[k] = "joined"
  /\ enrol' = [enrol EXCEPT ![k] = "over"]
  /\ Load /\ slips' = slips \cup Overlap
  /\ Close
  /\ UNCHANGED <<stored, made, list, asked, removal, clipped>>

PasskeyFails(k) ==
  /\ enrol[k] \in {"prompting", "joining", "joined"}
  /\ enrol' = [enrol EXCEPT ![k] = "over"]
  /\ Shows([modal EXCEPT !.joining = FALSE])
  /\ slips' = IF enrol[k] = "joined" THEN slips \cup {"lost"} ELSE slips
  /\ UNCHANGED <<stored, made, list, loading, loads, asked, removal, setup,
                 clipped>>

---------------------------------------------------------------------------
Next ==
  \/ \E c \in Calls : Reads(c) \/ Loaded(c) \/ LoadFails(c)
  \/ \E k \in Keys : AskRemoval(k) \/ RemoveAuthenticator(k) \/ Removed(k) \/ RemovalFails(k)
  \/ CancelRemoval \/ ConfirmRemoval
  \/ OpenModal \/ LeaveModal \/ ChooseApp \/ SetupAnswered \/ GoNext \/ GoBack
  \/ \E k \in Keys : \/ SaveAuthenticator(k) \/ InsertAuthenticator(k) \/ InsertCodes(k)
                     \/ SaveAnswered(k) \/ SaveFails(k)
  \/ CopyCodes \/ Finish
  \/ \E k \in Keys : \/ ChoosePasskey(k) \/ Prompted(k) \/ InsertPasskey(k)
                     \/ PasskeyAdded(k) \/ PasskeyFails(k)

Spec == Init /\ [][Next]_vars

---------------------------------------------------------------------------
(***************************************************************************)
(* Properties.                                                             *)
(***************************************************************************)
AtRest ==
  /\ ~Awaited /\ Enrolling = {}
  /\ \A k \in Keys : removal[k] = "none"
  /\ modal.open => modal.codes = None

\* When all is answered, the panel lists what the server has: unless two loads
\* overlapped, the modal was left half way or an error hid that a call was done.
ListsTheStored == AtRest /\ slips = {} => ~loading /\ list = stored

\* The backup codes on the screen are all stored, and an enrolment is finished
\* only after its own codes were copied.
CodesAreKept ==
  /\ modal.codes # None => made[modal.codes] = "all"
  /\ \A k \in Keys : enrol[k] = "finished" => k \in clipped
=============================================================================
