----------------------------- MODULE MCConsole -----------------------------
(***************************************************************************)
(* Instances for TLC of the screens of the console and of the sign-in      *)
(* state of one tab.  They share nothing but the server, and one of them   *)
(* is on the screen: every behaviour is one of theirs, and the variables   *)
(* of the others stay at None.  A name that several screens use stands for *)
(* the state of the one on the screen.                                     *)
(***************************************************************************)
EXTENDS ConsoleData, FiniteSets

CONSTANTS
  Tab,          \* the tab of the browser
  PageJobs,     \* the Jobs of the role pages and of the registration pages
  PickClients,  \* the Clients an account type can be saved with
  PickOpens     \* the Opens where account types are saved

VARIABLES
  which,  \* the screen this behaviour is about
  kind, db, pages, view, due, shown, loading, cache, fetch, latest, dialog,
  write, clean, page, wizard, edit, confirm, modal, copied, job, secrets,
  seen, saved, overlap, row, kept, dlg, mfa, invite, ask, save, begun, slips,
  form, busy, account, options, past, open, del, prompt, syncing, sync, may,
  choice, request, veiled, detail, cookie, challenge, session, pending, tab,
  out

vars ==
  <<which, kind, db, pages, view, due, shown, loading, cache, fetch, latest,
    dialog, write, clean, page, wizard, edit, confirm, modal, copied, job,
    secrets, seen, saved, overlap, row, kept, dlg, mfa, invite, ask, save,
    begun, slips, form, busy, account, options, past, open, del, prompt,
    syncing, sync, may, choice, request, veiled, detail, cookie, challenge,
    session, pending, tab, out>>

L == INSTANCE ConsoleList
C == INSTANCE ClientEditor
U == INSTANCE UserEditor
A == INSTANCE UserCreate
R == INSTANCE RoleEditor WITH Jobs <- PageJobs
G == INSTANCE RegistrationConfig
       WITH Clients <- PickClients, Opens <- PickOpens, Jobs <- PageJobs
H == INSTANCE RegistrationConfig WITH Clients <- {}, Jobs <- PageJobs
V == INSTANCE AuditLogs
B == INSTANCE BrowserSession

---------------------------------------------------------------------------
\* The variables of the other screens, which stand still.
BesideConsoleList ==
  <<which, page, wizard, edit, confirm, modal, copied, job, secrets, seen,
    saved, overlap, row, kept, dlg, mfa, invite, ask, save, begun, slips,
    form, busy, account, options, past, open, del, prompt, syncing, sync,
    may, choice, request, veiled, detail, cookie, challenge, session,
    pending, tab, out>>
BesideClientEditor ==
  <<which, kind, db, pages, view, due, shown, loading, cache, fetch, latest,
    dialog, write, clean, row, kept, dlg, mfa, invite, ask, save, begun,
    slips, form, busy, account, options, past, open, del, prompt, syncing,
    sync, may, choice, request, veiled, detail, cookie, challenge, session,
    pending, tab, out>>
BesideUserEditor ==
  <<which, kind, pages, view, due, shown, loading, cache, fetch, latest,
    dialog, write, clean, page, wizard, edit, confirm, modal, copied, job,
    secrets, seen, saved, overlap, form, busy, account, options, past, open,
    del, prompt, syncing, sync, may, choice, request, veiled, detail, cookie,
    challenge, session, pending, tab, out>>
BesideUserCreate ==
  <<which, kind, db, pages, view, due, shown, loading, cache, fetch, latest,
    dialog, write, clean, wizard, edit, modal, copied, secrets, seen, saved,
    overlap, row, kept, dlg, mfa, invite, ask, save, begun, slips, options,
    past, open, del, prompt, syncing, sync, may, choice, request, veiled,
    detail, cookie, challenge, session, pending, tab, out>>
BesideRoleEditor ==
  <<which, kind, pages, view, due, shown, loading, cache, fetch, latest,
    dialog, write, clean, wizard, edit, confirm, modal, copied, secrets,
    seen, saved, overlap, kept, mfa, invite, ask, save, begun, slips, busy,
    account, past, open, del, prompt, syncing, sync, may, choice, request,
    veiled, detail, cookie, challenge, session, pending, tab, out>>
BesideRegistrationConfig ==
  <<which, kind, pages, view, due, shown, loading, cache, fetch, latest,
    dialog, write, clean, wizard, edit, confirm, modal, copied, secrets,
    seen, saved, overlap, kept, mfa, invite, ask, save, begun, slips, busy,
    account, options, may, choice, request, veiled, detail, cookie,
    challenge, session, pending, tab, out>>
BesideAuditLogs ==
  <<which, kind, db, view, cache, latest, dialog, write, clean, page, wizard,
    edit, confirm, modal, copied, job, secrets, seen, saved, overlap, row,
    kept, dlg, mfa, invite, ask, save, begun, form, busy, account, options,
    past, open, del, prompt, syncing, sync, cookie, challenge, session,
    pending, tab, out>>
BesideBrowserSession ==
  <<which, kind, db, pages, view, due, shown, loading, cache, fetch, latest,
    dialog, write, clean, page, wizard, edit, confirm, modal, copied, job,
    secrets, seen, saved, overlap, row, kept, dlg, mfa, invite, ask, save,
    begun, slips, form, busy, account, options, past, open, del, prompt,
    syncing, sync, may, choice, request, veiled, detail>>

Init ==
  \/ /\ which = "lists" /\ L!Init
     /\ page = None /\ wizard = None /\ edit = None /\ confirm = None
     /\ modal = None /\ copied = None /\ job = None /\ secrets = None
     /\ seen = None /\ saved = None /\ overlap = None /\ row = None
     /\ kept = None /\ dlg = None /\ mfa = None /\ invite = None /\ ask = None
     /\ save = None /\ begun = None /\ slips = None /\ form = None
     /\ busy = None /\ account = None /\ options = None /\ past = None
     /\ open = None /\ del = None /\ prompt = None /\ syncing = None
     /\ sync = None /\ may = None /\ choice = None /\ request = None
     /\ veiled = None /\ detail = None /\ cookie = None /\ challenge = None
     /\ session = None /\ pending = None /\ tab = None /\ out = None
  \/ /\ which = "clients" /\ C!Init
     /\ kind = None /\ db = None /\ pages = None /\ view = None /\ due = None
     /\ shown = None /\ loading = None /\ cache = None /\ fetch = None
     /\ latest = None /\ dialog = None /\ write = None /\ clean = None
     /\ row = None /\ kept = None /\ dlg = None /\ mfa = None /\ invite = None
     /\ ask = None /\ save = None /\ begun = None /\ slips = None
     /\ form = None /\ busy = None /\ account = None /\ options = None
     /\ past = None /\ open = None /\ del = None /\ prompt = None
     /\ syncing = None /\ sync = None /\ may = None /\ choice = None
     /\ request = None /\ veiled = None /\ detail = None /\ cookie = None
     /\ challenge = None /\ session = None /\ pending = None /\ tab = None
     /\ out = None
  \/ /\ which = "users" /\ U!Init
     /\ kind = None /\ pages = None /\ view = None /\ due = None /\ shown = None
     /\ loading = None /\ cache = None /\ fetch = None /\ latest = None
     /\ dialog = None /\ write = None /\ clean = None /\ page = None
     /\ wizard = None /\ edit = None /\ confirm = None /\ modal = None
     /\ copied = None /\ job = None /\ secrets = None /\ seen = None
     /\ saved = None /\ overlap = None /\ form = None /\ busy = None
     /\ account = None /\ options = None /\ past = None /\ open = None
     /\ del = None /\ prompt = None /\ syncing = None /\ sync = None
     /\ may = None /\ choice = None /\ request = None /\ veiled = None
     /\ detail = None /\ cookie = None /\ challenge = None /\ session = None
     /\ pending = None /\ tab = None /\ out = None
  \/ /\ which = "addUser" /\ A!Init
     /\ kind = None /\ db = None /\ pages = None /\ view = None /\ due = None
     /\ shown = None /\ loading = None /\ cache = None /\ fetch = None
     /\ latest = None /\ dialog = None /\ write = None /\ clean = None
     /\ wizard = None /\ edit = None /\ modal = None /\ copied = None
     /\ secrets = None /\ seen = None /\ saved = None /\ overlap = None
     /\ row = None /\ kept = None /\ dlg = None /\ mfa = None /\ invite = None
     /\ ask = None /\ save = None /\ begun = None /\ slips = None
     /\ options = None /\ past = None /\ open = None /\ del = None
     /\ prompt = None /\ syncing = None /\ sync = None /\ may = None
     /\ choice = None /\ request = None /\ veiled = None /\ detail = None
     /\ cookie = None /\ challenge = None /\ session = None /\ pending = None
     /\ tab = None /\ out = None
  \/ /\ which = "roles" /\ R!Init
     /\ kind = None /\ pages = None /\ view = None /\ due = None /\ shown = None
     /\ loading = None /\ cache = None /\ fetch = None /\ latest = None
     /\ dialog = None /\ write = None /\ clean = None /\ wizard = None
     /\ edit = None /\ confirm = None /\ modal = None /\ copied = None
     /\ secrets = None /\ seen = None /\ saved = None /\ overlap = None
     /\ kept = None /\ mfa = None /\ invite = None /\ ask = None /\ save = None
     /\ begun = None /\ slips = None /\ busy = None /\ account = None
     /\ past = None /\ open = None /\ del = None /\ prompt = None
     /\ syncing = None /\ sync = None /\ may = None /\ choice = None
     /\ request = None /\ veiled = None /\ detail = None /\ cookie = None
     /\ challenge = None /\ session = None /\ pending = None /\ tab = None
     /\ out = None
  \/ /\ which = "registration" /\ G!Init
     /\ kind = None /\ pages = None /\ view = None /\ due = None /\ shown = None
     /\ loading = None /\ cache = None /\ fetch = None /\ latest = None
     /\ dialog = None /\ write = None /\ clean = None /\ wizard = None
     /\ edit = None /\ confirm = None /\ modal = None /\ copied = None
     /\ secrets = None /\ seen = None /\ saved = None /\ overlap = None
     /\ kept = None /\ mfa = None /\ invite = None /\ ask = None /\ save = None
     /\ begun = None /\ slips = None /\ busy = None /\ account = None
     /\ options = None /\ may = None /\ choice = None /\ request = None
     /\ veiled = None /\ detail = None /\ cookie = None /\ challenge = None
     /\ session = None /\ pending = None /\ tab = None /\ out = None
  \/ /\ which = "openings" /\ H!Init
     /\ kind = None /\ pages = None /\ view = None /\ due = None /\ shown = None
     /\ loading = None /\ cache = None /\ fetch = None /\ latest = None
     /\ dialog = None /\ write = None /\ clean = None /\ wizard = None
     /\ edit = None /\ confirm = None /\ modal = None /\ copied = None
     /\ secrets = None /\ seen = None /\ saved = None /\ overlap = None
     /\ kept = None /\ mfa = None /\ invite = None /\ ask = None /\ save = None
     /\ begun = None /\ slips = None /\ busy = None /\ account = None
     /\ options = None /\ may = None /\ choice = None /\ request = None
     /\ veiled = None /\ detail = None /\ cookie = None /\ challenge = None
     /\ session = None /\ pending = None /\ tab = None /\ out = None
  \/ /\ which = "logs" /\ V!Init
     /\ kind = None /\ db = None /\ view = None /\ cache = None /\ latest = None
     /\ dialog = None /\ write = None /\ clean = None /\ page = None
     /\ wizard = None /\ edit = None /\ confirm = None /\ modal = None
     /\ copied = None /\ job = None /\ secrets = None /\ seen = None
     /\ saved = None /\ overlap = None /\ row = None /\ kept = None
     /\ dlg = None /\ mfa = None /\ invite = None /\ ask = None /\ save = None
     /\ begun = None /\ form = None /\ busy = None /\ account = None
     /\ options = None /\ past = None /\ open = None /\ del = None
     /\ prompt = None /\ syncing = None /\ sync = None /\ cookie = None
     /\ challenge = None /\ session = None /\ pending = None /\ tab = None
     /\ out = None
  \/ /\ which = "tab" /\ B!Init
     /\ kind = None /\ db = None /\ pages = None /\ view = None /\ due = None
     /\ shown = None /\ loading = None /\ cache = None /\ fetch = None
     /\ latest = None /\ dialog = None /\ write = None /\ clean = None
     /\ page = None /\ wizard = None /\ edit = None /\ confirm = None
     /\ modal = None /\ copied = None /\ job = None /\ secrets = None
     /\ seen = None /\ saved = None /\ overlap = None /\ row = None
     /\ kept = None /\ dlg = None /\ mfa = None /\ invite = None /\ ask = None
     /\ save = None /\ begun = None /\ slips = None /\ form = None
     /\ busy = None /\ account = None /\ options = None /\ past = None
     /\ open = None /\ del = None /\ prompt = None /\ syncing = None
     /\ sync = None /\ may = None /\ choice = None /\ request = None
     /\ veiled = None /\ detail = None

TabRuns(t) == which = "tab" /\ B!Runs(t) /\ UNCHANGED BesideBrowserSession

Next ==
  \/ which = "lists" /\ UNCHANGED BesideConsoleList /\ L!Next
  \/ which = "clients" /\ UNCHANGED BesideClientEditor /\ C!Next
  \/ which = "users" /\ UNCHANGED BesideUserEditor /\ U!Next
  \/ which = "addUser" /\ UNCHANGED BesideUserCreate /\ A!Next
  \/ which = "roles" /\ UNCHANGED BesideRoleEditor /\ R!Next
  \/ which = "registration" /\ UNCHANGED BesideRegistrationConfig /\ G!Next
  \/ which = "openings" /\ UNCHANGED BesideRegistrationConfig /\ H!Next
  \/ which = "logs" /\ UNCHANGED BesideAuditLogs /\ V!Next
  \/ which = "tab" /\ UNCHANGED BesideBrowserSession /\ B!Next


Spec == Init /\ [][Next]_vars

\* Every tab runs its effects and answers its calls.
FairSpec == Spec /\ \A t \in Tab : WF_vars(TabRuns(t))

---------------------------------------------------------------------------
(***************************************************************************)
(* The properties of the screens; each is explained in its own module,     *)
(* with the crossings of requests it is not about.                         *)
(***************************************************************************)

\* The types of every screen's variables.
ConsoleTypeOK ==
  /\ which = "lists" => L!TypeOK
  /\ which = "clients" => C!TypeOK
  /\ which = "users" => U!TypeOK
  /\ which = "addUser" => A!TypeOK
  /\ which = "roles" => R!TypeOK
  /\ which = "registration" => G!TypeOK
  /\ which = "openings" => H!TypeOK
  /\ which = "logs" => V!TypeOK
  /\ which = "tab" => B!TypeOK

\* A list that is at rest shows every write (useUsers.js and its siblings).
FreshAfterWrite == which = "lists" => L!FreshAfterWrite

\* A list that is at rest shows the view chosen, and so does the audit log
\* (AuditLogs.jsx).
FitsView ==
  /\ which = "lists" => L!FitsView
  /\ which = "logs" => V!ListFits

\* A client secret stays on the screen until it is copied or given up
\* (AppClient.jsx).
SecretIsNotLost == which = "clients" => C!SecretIsNotLost

\* The edit dialog saves a client the fields of that client
\* (AppClientModal.jsx).
SavesItsOwnFields == which = "clients" => C!SavesItsOwnFields

\* The user dialog is about the user of its row (UserPoolModal.jsx), and the
\* details of a log are those of the log chosen (AuditLogs.jsx).
EditsTheRow ==
  /\ which = "users" => U!EditsTheRow
  /\ which = "logs" => V!ShowsTheChosen

\* A save that stops half way is seen in the list (useUsers.js).
ShownIsSaved == which = "users" => U!ShownIsSaved

\* A save reported done has changed the user as asked (useUsers.js).
ReportedSaved == [][which = "users" => U!SavedAsReported]_vars

\* A user reported created has all that was asked for (useUsers.js).
ReportedComplete == which = "addUser" => A!ReportedComplete

\* The form that adds a user makes one call at a time (AddUserForm.jsx), and
\* so does the prompt that updates the users of a type (Registration.jsx).
OneCall ==
  /\ which = "addUser" => A!OneCall
  /\ which = "registration" => G!OneSync

\* A role keeps the permissions nobody touched (RoleModal.jsx).
KeepsUntouched == which = "roles" => R!KeepsUntouched

\* No role is created without its details (RoleCreateForm.jsx).
CreatesNamed == which = "roles" => R!CreatesNamed

\* An account type is saved with the clients picked for it (Registration.jsx).
SavesItsOwnClients ==
  /\ which = "registration" => G!SavesItsOwnClients
  /\ which = "openings" => H!SavesItsOwnClients

\* An account type loses no client because its details did not come
\* (Registration.jsx).
StartsFromServer == which = "registration" => G!StartsFromServer

\* Left alone, the tab comes to rest where it may stay (AuthGuard.jsx).
Still == <>[][\E t \in Tab : TabRuns(t)]_vars
Settles == Still => \A t \in Tab : <>[](which = "tab" => B!Settled(t))
===========================================================================
