CONSTANTS
  None = None
  New = New
  Tab = {a}
  PageJobs = {1}
  PickClients = {client}
  PickOpens = {1}
  Kinds = {"users", "archived", "roles", "clients"}
  Fetches = {1, 2}
  Writers = {w1}
  MaxWrites = 2
  Clients = {c1, c2}
  MaxSecrets = 2
  Users = {u1, u2}
  Admins = {u1}
  Fields = {"access", "role"}
  Saves = {1, 2}
  MaxSaves = 2
  Emails = {e1}
  AdminView = FALSE
  Roles = {r1, r2}
  Perms = {p1, p2}
  Types = {t1, t2}
  Opens = {1, 2}
  Jobs = {1, 2}
SPECIFICATION FairSpec
INVARIANTS
  ConsoleTypeOK FreshAfterWrite FitsView SecretIsNotLost SavesItsOwnFields
  EditsTheRow ShownIsSaved ReportedComplete OneCall KeepsUntouched CreatesNamed
  SavesItsOwnClients StartsFromServer
PROPERTIES ReportedSaved Settles
CHECK_DEADLOCK FALSE
