---------------------------- MODULE ProfileEditor ----------------------------
(***************************************************************************)
(* One's own name: the layout loads it (useCurrentUser.js), the profile    *)
(* page shows it (ProfileCard.jsx, ProfileDetails.jsx) and its dialog      *)
(* saves all the fields at once (EditProfileModal.jsx, updateUserName of   *)
(* userService.js).  The dialog is refilled whenever it opens and whenever *)
(* the profile changes under it.                                           *)
(***************************************************************************)
EXTENDS AccountData, FiniteSets

VARIABLES
  server,   \* the name the server has
  me,       \* the request that loads the profile
  shown,    \* the profile of the layout and of the page
  visited,  \* the profile page is on the screen
  form,     \* the dialog; touched: the fields typed in since it was filled
  save,     \* the saves; here: its page is still on the screen
  slips     \* "overlap": the dialog was opened, or the page left, while a save
            \* was unanswered; "lost": a save was done whose answer was lost

vars == <<server, me, shown, visited, form, save, slips>>

Blank == [f \in Fields |-> None]
NoForm == [open |-> FALSE, name |-> Blank, touched |-> {}, saving |-> FALSE]
NoSave == [stage |-> "none", name |-> Blank, touched |-> {}, here |-> FALSE]

\* mapCurrentUser: a profile is the parts of a name.
Profiles == [Fields -> Values \cup {None}]

TypeOK ==
  /\ server \in [Fields -> Values]
  /\ me \in {"loading", "known", "failed"}
  /\ shown \in Profiles
  /\ visited \in BOOLEAN
  /\ form \in [open : BOOLEAN, name : Profiles,
               touched : SUBSET Fields, saving : BOOLEAN]
  /\ save \in [Saves -> [stage : {"none", "asked", "done"},
                         name : Profiles,
                         touched : SUBSET Fields, here : BOOLEAN]]
  /\ slips \subseteq {"overlap", "lost"}

Init ==
  /\ server \in [Fields -> Values]
  /\ me = "loading" /\ shown = Blank
  /\ visited = FALSE /\ form = NoForm
  /\ save = [s \in Saves |-> NoSave] /\ slips = {}

Idle == \A s \in Saves : save[s] = NoSave

---------------------------------------------------------------------------
\* The effect of EditProfileModal: an open dialog shows the profile it is given.
Refilled(profile) == [form EXCEPT !.name = profile, !.touched = {}, !.saving = FALSE]
Follows(profile) == form' = IF form.open THEN Refilled(profile) ELSE form

MeAnswered ==
  /\ me = "loading"
  /\ me' = "known" /\ shown' = server
  /\ Follows(server)
  /\ UNCHANGED <<server, visited, save, slips>>

MeFailed ==
  /\ me = "loading"
  /\ me' = "failed"
  /\ UNCHANGED <<server, shown, visited, form, save, slips>>

\* Bound: the console is not reloaded while a save is unanswered.
Reload ==
  /\ Idle
  /\ me' = "loading" /\ shown' = Blank
  /\ visited' = FALSE /\ form' = NoForm /\ slips' = {}
  /\ UNCHANGED <<server, save>>

Visit ==
  /\ ~visited /\ visited' = TRUE
  /\ UNCHANGED <<server, me, shown, form, save, slips>>

Overlaps == IF Idle THEN slips ELSE slips \cup {"overlap"}

Leave ==
  /\ visited /\ visited' = FALSE
  /\ form' = NoForm
  /\ save' = [s \in Saves |-> [save[s] EXCEPT !.here = FALSE]]
  /\ slips' = Overlaps
  /\ UNCHANGED <<server, me, shown>>

---------------------------------------------------------------------------
FilledOnlyOnce == IF form.name = Blank THEN Refilled(shown) ELSE form
Filled == Refilled(shown)

OpenDialog ==
  /\ visited /\ ~form.open
  /\ form' = [Filled EXCEPT !.open = TRUE, !.touched = {}]
  /\ slips' = Overlaps
  /\ UNCHANGED <<server, me, shown, visited, save>>

\* The cross and Escape close it at any time.
CloseDialog ==
  /\ form.open
  /\ form' = [form EXCEPT !.open = FALSE]
  /\ UNCHANGED <<server, me, shown, visited, save, slips>>

Type(f) ==
  /\ form.open
  /\ \E v \in Values : form' = [form EXCEPT !.name[f] = v, !.touched = @ \cup {f}]
  /\ UNCHANGED <<server, me, shown, visited, save, slips>>

\* Nothing is sent for a profile that is not known.
Anything == TRUE
Sendable == me = "known" /\ \A f \in Fields : form.name[f] # None

Submit(s) ==
  /\ form.open /\ ~form.saving
  /\ save[s] = NoSave
  /\ Sendable
  /\ save' = [save EXCEPT ![s] = [stage |-> "asked", name |-> form.name,
                                  touched |-> form.touched, here |-> TRUE]]
  /\ form' = [form EXCEPT !.saving = TRUE]
  /\ UNCHANGED <<server, me, shown, visited, slips>>

Renames(s) ==
  /\ save[s].stage = "asked"
  /\ server' = save[s].name
  /\ save' = [save EXCEPT ![s].stage = "done"]
  /\ UNCHANGED <<me, shown, visited, form, slips>>

\* updateCurrentUser: the name that was sent, whatever is shown by now.
Updated(s) == save[s].name

Closes(s) ==
  IF save[s].here THEN form' = [Refilled(save[s].name) EXCEPT !.open = FALSE]
  ELSE Follows(save[s].name)

\* The answer renames the profile and closes the dialog, even one that was
\* opened since; after another visit it refills it.
Saved(s) ==
  /\ save[s].stage = "done"
  /\ shown' = Updated(s)
  /\ Closes(s)
  /\ save' = [save EXCEPT ![s] = NoSave]
  /\ UNCHANGED <<server, me, visited, slips>>

\* An error, or an answer that is lost.
SaveFails(s) ==
  /\ save[s].stage \in {"asked", "done"}
  /\ slips' = IF save[s].stage = "done" THEN slips \cup {"lost"} ELSE slips
  /\ form' = IF save[s].here THEN [form EXCEPT !.saving = FALSE] ELSE form
  /\ save' = [save EXCEPT ![s] = NoSave]
  /\ UNCHANGED <<server, me, shown, visited>>

---------------------------------------------------------------------------
Next ==
  \/ MeAnswered \/ MeFailed \/ Reload \/ Visit \/ Leave
  \/ OpenDialog \/ CloseDialog
  \/ \E f \in Fields : Type(f)
  \/ \E s \in Saves : Submit(s) \/ Renames(s) \/ Saved(s) \/ SaveFails(s)

Spec == Init /\ [][Next]_vars

---------------------------------------------------------------------------
(***************************************************************************)
(* Properties, of one user with one console.                               *)
(***************************************************************************)

\* A save sends every field.  The fields nobody touched are sent as the server
\* has them, so that saving one does not take another back, unless the dialog
\* was opened on a profile that an unanswered or lost save had already changed.
SavesKeepTheRest ==
  slips = {} =>
    \A s \in Saves :
      save[s].stage = "asked" =>
        \A f \in Fields \ save[s].touched : save[s].name[f] = server[f]
=============================================================================
