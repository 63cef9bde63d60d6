---------------------------- MODULE AccountData ----------------------------
(***************************************************************************)
(* What the pages of one's own account work on: the constants of           *)
(* PasswordWizard, InvitationSetup, ProfileEditor and Authenticators, and  *)
(* of the second factors on the server, MfaCodes and PasskeyCeremonies.    *)
(***************************************************************************)
CONSTANTS
  None,    \* nothing: no address, no password, an empty field
  Emails,  \* the addresses that can be typed
  Own,     \* the address of the user who is signed in
  Calls,   \* requests of a page that may be unanswered at the same time
  Tabs,    \* the tabs in which the link of an invitation is opened
  Fields,  \* the fields of a name
  Values,  \* what can be typed in them
  Saves,   \* saves of a name that may be unanswered at the same time
  Keys,    \* the authenticators and passkeys that can be connected
  Challenges,  \* the challenges a passkey can be asked for
  Requests     \* requests the server may handle at the same time

ASSUME AccountAssumption ==
  /\ None \notin Emails \cup Tabs \cup Values \cup Keys \cup Challenges
  /\ None \notin {"_reg", "_auth"}  \* the kinds of a ceremony
  /\ Own \in Emails
===========================================================================
