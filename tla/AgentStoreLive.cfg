\* One task, everything else as in MCAgentStore.cfg.
SPECIFICATION FairStoreSpec
CONSTANTS
  Tasks = {t1}
  SoleTasks = {t1}
  Permissions = {p1}
  NoPermission = NoPermission
  MaxEvents = 3
  MaxReloads = 1
  MaxRestarts = 1
PROPERTIES
  PanelsSettle
CHECK_DEADLOCK FALSE
