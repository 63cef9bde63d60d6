----------------------------- MODULE MCAccount -----------------------------
(***************************************************************************)
(* Instances for TLC of the pages of one's own account and of the second   *)
(* factors on the server.  As in MCConsole every behaviour is one of       *)
(* theirs, and the variables of the others stay at None.                   *)
(***************************************************************************)
EXTENDS AccountData, FiniteSets, TLC

VARIABLES
  which,  \* the screen this behaviour is about
  tab, step, mode, hasSentOtp, isLoading, qrCode, backupCodes, busy, calls,
  timers, left, kind, open, page, call, sent, verified, slips, invitation,
  password, clients, activation, written, server, me, shown, visited, form,
  save, stored, made, list, loading, loads, asked, removal, modal, setup,
  enrol, clipped, apps, codes, req, over, slipped, drawn, told, redis,
  memory, passkeys

vars ==
  <<which, tab, step, mode, hasSentOtp, isLoading, qrCode, backupCodes,
    busy, calls, timers, left, kind, open, page, call, sent, verified,
    slips, invitation, password, clients, activation, written, server, me,
    shown, visited, form, save, stored, made, list, loading, loads, asked,
    removal, modal, setup, enrol, clipped, apps, codes, req, over, slipped,
    drawn, told, redis, memory, passkeys>>

F == INSTANCE SecondFactorPage
P == INSTANCE PasswordWizard
I == INSTANCE InvitationSetup
N == INSTANCE ProfileEditor
D == INSTANCE Authenticators
C == INSTANCE MfaCodes
K == INSTANCE PasskeyCeremonies

---------------------------------------------------------------------------
\* The variables of the other screens, which stand still.
BesideSecondFactorPage ==
  <<which, tab, kind, open, page, call, sent, verified, slips, invitation,
    password, clients, activation, written, server, me, shown, visited,
    form, save, stored, made, list, loading, loads, asked, removal, modal,
    setup, enrol, clipped, apps, codes, req, over, slipped, drawn, told,
    redis, memory, passkeys>>
BesidePasswordWizard ==
  <<which, tab, step, mode, hasSentOtp, isLoading, qrCode, backupCodes,
    calls, timers, left, invitation, password, clients, activation, written,
    server, me, shown, visited, form, save, stored, made, list, loading,
    loads, asked, removal, modal, setup, enrol, clipped, apps, codes, req,
    over, slipped, drawn, told, redis, memory, passkeys>>
BesideInvitationSetup ==
  <<which, step, mode, hasSentOtp, isLoading, qrCode, backupCodes, busy,
    calls, timers, left, kind, open, page, call, sent, verified, slips,
    server, me, shown, visited, form, save, stored, made, list, loading,
    loads, asked, removal, modal, setup, enrol, clipped, apps, codes, req,
    over, slipped, drawn, told, redis, memory, passkeys>>
BesideProfileEditor ==
  <<which, tab, step, mode, hasSentOtp, isLoading, qrCode, backupCodes,
    busy, calls, timers, left, kind, open, page, call, sent, verified,
    invitation, password, clients, activation, written, stored, made, list,
    loading, loads, asked, removal, modal, setup, enrol, clipped, apps,
    codes, req, over, slipped, drawn, told, redis, memory, passkeys>>
BesideAuthenticators ==
  <<which, tab, step, mode, hasSentOtp, isLoading, qrCode, backupCodes,
    busy, calls, timers, left, kind, open, page, call, sent, verified,
    invitation, password, clients, activation, written, server, me, shown,
    visited, form, save, apps, codes, req, over, slipped, drawn, told,
    redis, memory, passkeys>>
BesideMfaCodes ==
  <<which, tab, step, mode, hasSentOtp, isLoading, qrCode, backupCodes,
    busy, calls, timers, left, kind, open, page, call, sent, verified,
    slips, invitation, password, clients, activation, written, server, me,
    shown, visited, form, save, stored, made, list, loading, loads, asked,
    removal, modal, setup, enrol, clipped, drawn, told, redis, memory,
    passkeys>>
BesidePasskeyCeremonies ==
  <<which, tab, step, mode, hasSentOtp, isLoading, qrCode, backupCodes,
    busy, calls, timers, left, kind, open, page, call, sent, verified,
    slips, invitation, password, clients, activation, written, server, me,
    shown, visited, form, save, stored, made, list, loading, loads, asked,
    removal, modal, setup, enrol, clipped, apps, codes>>

Init ==
  \/ /\ which = "secondFactor" /\ F!Init
     /\ tab = None /\ kind = None /\ open = None /\ page = None /\ call = None
     /\ sent = None /\ verified = None /\ slips = None /\ invitation = None
     /\ password = None /\ clients = None /\ activation = None
     /\ written = None /\ server = None /\ me = None /\ shown = None
     /\ visited = None /\ form = None /\ save = None /\ stored = None
     /\ made = None /\ list = None /\ loading = None /\ loads = None
     /\ asked = None /\ removal = None /\ modal = None /\ setup = None
     /\ enrol = None /\ clipped = None /\ apps = None /\ codes = None
     /\ req = None /\ over = None /\ slipped = None /\ drawn = None
     /\ told = None /\ redis = None /\ memory = None /\ passkeys = None
  \/ /\ which = "password" /\ P!Init
     /\ tab = None /\ step = None /\ mode = None /\ hasSentOtp = None
     /\ isLoading = None /\ qrCode = None /\ backupCodes = None
     /\ calls = None /\ timers = None /\ left = None /\ invitation = None
     /\ password = None /\ clients = None /\ activation = None
     /\ written = None /\ server = None /\ me = None /\ shown = None
     /\ visited = None /\ form = None /\ save = None /\ stored = None
     /\ made = None /\ list = None /\ loading = None /\ loads = None
     /\ asked = None /\ removal = None /\ modal = None /\ setup = None
     /\ enrol = None /\ clipped = None /\ apps = None /\ codes = None
     /\ req = None /\ over = None /\ slipped = None /\ drawn = None
     /\ told = None /\ redis = None /\ memory = None /\ passkeys = None
  \/ /\ which = "invitation" /\ I!Init
     /\ step = None /\ mode = None /\ hasSentOtp = None /\ isLoading = None
     /\ qrCode = None /\ backupCodes = None /\ busy = None /\ calls = None
     /\ timers = None /\ left = None /\ kind = None /\ open = None
     /\ page = None /\ call = None /\ sent = None /\ verified = None
     /\ slips = None /\ server = None /\ me = None /\ shown = None
     /\ visited = None /\ form = None /\ save = None /\ stored = None
     /\ made = None /\ list = None /\ loading = None /\ loads = None
     /\ asked = None /\ removal = None /\ modal = None /\ setup = None
     /\ enrol = None /\ clipped = None /\ apps = None /\ codes = None
     /\ req = None /\ over = None /\ slipped = None /\ drawn = None
     /\ told = None /\ redis = None /\ memory = None /\ passkeys = None
  \/ /\ which = "profile" /\ N!Init
     /\ tab = None /\ step = None /\ mode = None /\ hasSentOtp = None
     /\ isLoading = None /\ qrCode = None /\ backupCodes = None /\ busy = None
     /\ calls = None /\ timers = None /\ left = None /\ kind = None
     /\ open = None /\ page = None /\ call = None /\ sent = None
     /\ verified = None /\ invitation = None /\ password = None
     /\ clients = None /\ activation = None /\ written = None /\ stored = None
     /\ made = None /\ list = None /\ loading = None /\ loads = None
     /\ asked = None /\ removal = None /\ modal = None /\ setup = None
     /\ enrol = None /\ clipped = None /\ apps = None /\ codes = None
     /\ req = None /\ over = None /\ slipped = None /\ drawn = None
     /\ told = None /\ redis = None /\ memory = None /\ passkeys = None
  \/ /\ which = "authenticators" /\ D!Init
     /\ tab = None /\ step = None /\ mode = None /\ hasSentOtp = None
     /\ isLoading = None /\ qrCode = None /\ backupCodes = None /\ busy = None
     /\ calls = None /\ timers = None /\ left = None /\ kind = None
     /\ open = None /\ page = None /\ call = None /\ sent = None
     /\ verified = None /\ invitation = None /\ password = None
     /\ clients = None /\ activation = None /\ written = None /\ server = None
     /\ me = None /\ shown = None /\ visited = None /\ form = None
     /\ save = None /\ apps = None /\ codes = None /\ req = None
     /\ over = None /\ slipped = None /\ drawn = None /\ told = None
     /\ redis = None /\ memory = None /\ passkeys = None
  \/ /\ which = "codes" /\ C!Init
     /\ tab = None /\ step = None /\ mode = None /\ hasSentOtp = None
     /\ isLoading = None /\ qrCode = None /\ backupCodes = None /\ busy = None
     /\ calls = None /\ timers = None /\ left = None /\ kind = None
     /\ open = None /\ page = None /\ call = None /\ sent = None
     /\ verified = None /\ slips = None /\ invitation = None
     /\ password = None /\ clients = None /\ activation = None
     /\ written = None /\ server = None /\ me = None /\ shown = None
     /\ visited = None /\ form = None /\ save = None /\ stored = None
     /\ made = None /\ list = None /\ loading = None /\ loads = None
     /\ asked = None /\ removal = None /\ modal = None /\ setup = None
     /\ enrol = None /\ clipped = None /\ drawn = None /\ told = None
     /\ redis = None /\ memory = None /\ passkeys = None
  \/ /\ which = "ceremonies" /\ K!Init
     /\ tab = None /\ step = None /\ mode = None /\ hasSentOtp = None
     /\ isLoading = None /\ qrCode = None /\ backupCodes = None /\ busy = None
     /\ calls = None /\ timers = None /\ left = None /\ kind = None
     /\ open = None /\ page = None /\ call = None /\ sent = None
     /\ verified = None /\ slips = None /\ invitation = None
     /\ password = None /\ clients = None /\ activation = None
     /\ written = None /\ server = None /\ me = None /\ shown = None
     /\ visited = None /\ form = None /\ save = None /\ stored = None
     /\ made = None /\ list = None /\ loading = None /\ loads = None
     /\ asked = None /\ removal = None /\ modal = None /\ setup = None
     /\ enrol = None /\ clipped = None /\ apps = None /\ codes = None

Next ==
  \/ which = "secondFactor" /\ UNCHANGED BesideSecondFactorPage /\ F!Next
  \/ which = "password" /\ UNCHANGED BesidePasswordWizard /\ P!Next
  \/ which = "invitation" /\ UNCHANGED BesideInvitationSetup /\ I!Next
  \/ which = "profile" /\ UNCHANGED BesideProfileEditor /\ N!Next
  \/ which = "authenticators" /\ UNCHANGED BesideAuthenticators /\ D!Next
  \/ which = "codes" /\ UNCHANGED BesideMfaCodes /\ C!Next
  \/ which = "ceremonies" /\ UNCHANGED BesidePasskeyCeremonies /\ K!Next

Spec == Init /\ [][Next]_vars

---------------------------------------------------------------------------
(***************************************************************************)
(* The properties of the pages; each is explained in its own module, with  *)
(* the crossings of requests it is not about.                              *)
(***************************************************************************)

\* The types of every page's variables.
AccountTypeOK ==
  /\ which = "secondFactor" => F!TypeOK
  /\ which = "password" => P!TypeOK
  /\ which = "invitation" => I!TypeOK
  /\ which = "profile" => N!TypeOK
  /\ which = "authenticators" => D!TypeOK
  /\ which = "codes" => C!TypeOK
  /\ which = "ceremonies" => K!TypeOK

\* The authenticators are interchangeable, and so are the requests, to which
\* the configuration gives the same names: each of them is permuted as a whole,
\* and no action compares one with another.
Symmetry == Permutations(Keys \cup Requests)

\* The second factor is tried with one code at a time (LoginMfaFlow.jsx), and
\* a password is set by one request at a time (ForgotPasswordModal.jsx).
OneAtATime ==
  /\ which = "secondFactor" => F!OneAtATime
  /\ which = "password" => P!OneChange

\* A password is set for the address whose code was accepted
\* (ForgotPasswordModal.jsx, ChangePasswordModal.jsx).
ChangesTheVerified == which = "password" => P!ChangesTheVerified

\* Whoever is asked for a code was sent one (RegisterForm.jsx).
CodeStepHasCode == which = "password" => P!CodeStepHasCode

\* An invitation is used up by an activation only (registration_service.go).
LinkOutlivesActivation == which = "invitation" => I!LinkOutlivesActivation

\* A password reported saved has been written (RegisterPasswordSetupForm.jsx);
\* the authenticators listed, and the backup codes shown, are those the server
\* has (AuthenticatorsPanel.jsx, NewAuthenticatorModal.jsx).
SavedIsWritten ==
  /\ which = "invitation" => I!SavedIsWritten
  /\ which = "authenticators" => D!ListsTheStored /\ D!CodesAreKept

\* A link called unusable is (RegisterPasswordSetup.jsx).
ForbiddenIsOver == which = "invitation" => I!ForbiddenIsOver

\* A change of one's name keeps the fields not typed in (EditProfileModal.jsx).
SavesKeepTheRest == which = "profile" => N!SavesKeepTheRest

\* A backup code or challenge that was accepted, an app or passkey that was
\* removed, is not accepted later (mfa_service.go, passkey_service.go).
OverIsRefused ==
  /\ which = "codes" => C!OverIsRefused
  /\ which = "ceremonies" => K!OverIsRefused
===========================================================================
