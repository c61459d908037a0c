SPECIFICATION Spec
CONSTANTS
  Tasks = {t1, t2}
  ChromeTasks = {t1}
  Permissions = {p1}
  NoPermission = NoPermission
  NoTask = NoTask
  MaxEvents = 2
  MaxCancels = 1
INVARIANTS
  TypeOK
  RunningIsWatched
  OneTurnPerTask
PROPERTIES
  EndIsFinal
  LifecycleSpec
CHECK_DEADLOCK FALSE
