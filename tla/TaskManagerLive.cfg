SPECIFICATION FairSpec
CONSTANTS
  Tasks = {t1}
  ChromeTasks = {t1}
  Permissions = {p1, p2}
  NoPermission = NoPermission
  NoTask = NoTask
  MaxEvents = 4
  MaxCancels = 2
INVARIANTS
  OpenRequestIsShown
PROPERTIES
  TaskSettles
CHECK_DEADLOCK FALSE
