---------------------------- MODULE ConsoleData ----------------------------
(***************************************************************************)
(* What the screens of the console work on: the constants of ConsoleList,  *)
(* ClientEditor, UserEditor, UserCreate, RoleEditor, RegistrationConfig    *)
(* and AuditLogs.                                                          *)
(***************************************************************************)
EXTENDS Naturals

CONSTANTS
  None,       \* nothing chosen: no client, user, role, address, account type
  New,        \* the client or role being created
  Kinds,      \* the lists: a subset of {"users", "archived", "roles", "clients"}
  Fetches,    \* fetches of a list or a log that may wait at the same time (numbers)
  Writers,    \* writes that may be under way next to a list at the same time
  MaxWrites,  \* bound on those writes
  Clients,    \* application clients
  MaxSecrets, \* bound on the client secrets made
  Users,      \* the users of the list
  Admins,     \* those with an administrator's account type
  Fields,     \* their fields: of {"access", "managed", "type", "role", "status"}
  Saves,      \* saves of a user that may be unanswered at the same time
  MaxSaves,   \* bound on the saves of a user begun
  Emails,     \* the e-mail addresses of new users
  AdminView,  \* the page that adds a user adds an administrator (?type=admin)
  Roles,      \* the roles of the list
  Perms,      \* the permissions
  Types,      \* the names of account types
  Opens,      \* rows of account types that may be waiting to be opened
  Jobs        \* requests of a form that may be unanswered at the same time

ASSUME ConsoleAssumption ==
  /\ None \notin Clients \cup Users \cup Emails \cup Roles \cup Types
  /\ New \notin Clients \cup Roles /\ New # None
  /\ Kinds \subseteq {"users", "archived", "roles", "clients"}
  /\ Fetches \subseteq Nat \ {0}
  /\ MaxWrites \in Nat /\ MaxSecrets \in Nat /\ MaxSaves \in Nat
  /\ Admins \subseteq Users
  /\ Fields \subseteq {"access", "managed", "type", "role", "status"}
  /\ AdminView \in BOOLEAN
===========================================================================
