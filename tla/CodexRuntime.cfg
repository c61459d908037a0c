\* Two browser turns, the second perhaps in the thread of the first.
SPECIFICATION Spec
CONSTANTS
  Tasks = {t1, t2}
  ChromeTasks = {t1, t2}
  ResumedTasks = {t2}
  Permissions = {}
  NoTask = NoTask
  MaxNotes = 0
  MaxInterrupts = 1
INVARIANTS
  TypeOK
  StartBeforeEvents
  CompletionOvertakesFailure
  TabsAreClosed
PROPERTIES
  ShutdownWaits
CHECK_DEADLOCK FALSE
