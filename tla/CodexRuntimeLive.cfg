\* One browser turn with progress and a permission: everything returns.
SPECIFICATION FairSpec
CONSTANTS
  Tasks = {t1}
  ChromeTasks = {t1}
  ResumedTasks = {}
  Permissions = {p1}
  NoTask = NoTask
  MaxNotes = 1
  MaxInterrupts = 1
PROPERTIES
  CallsReturn
CHECK_DEADLOCK FALSE
