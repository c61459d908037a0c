\* One task that the page starts, and one reload.
SPECIFICATION StoreSpec
CONSTANTS
  Tasks = {t1}
  SoleTasks = {t1}
  Permissions = {p1}
  NoPermission = NoPermission
  MaxEvents = 2
  MaxReloads = 1
  MaxRestarts = 0
INVARIANTS
  ActiveTasksAreRestored
CHECK_DEADLOCK FALSE
