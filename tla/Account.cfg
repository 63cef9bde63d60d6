CONSTANTS
  None = None
  Emails = {e1, e2}
  Own = e1
  Calls = {1, 2}
  Tabs = {t1, t2}
  Fields = {"first", "last"}
  Values = {v1, v2}
  Saves = {1}
  Keys = {a, b}
  Challenges = {c1, c2}
  Requests = {a, b}
SPECIFICATION Spec
SYMMETRY Symmetry
INVARIANTS
  AccountTypeOK OneAtATime ChangesTheVerified CodeStepHasCode
  LinkOutlivesActivation SavedIsWritten ForbiddenIsOver SavesKeepTheRest
  OverIsRefused
CHECK_DEADLOCK FALSE
