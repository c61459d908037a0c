\* Two tasks that share one session, a prompt, a reload and a restart.
SPECIFICATION StoreSpec
CONSTANTS
  Tasks = {t1, t2}
  SoleTasks = {t1, t2}
  Permissions = {p1}
  NoPermission = NoPermission
  MaxEvents = 2
  MaxReloads = 1
  MaxRestarts = 1
SYMMETRY TaskSymmetry
INVARIANTS
  StoreTypeOK
  SessionsAgree
  OutcomeIsTrue
  PromptIsCurrent
  RunningIsRemembered
CHECK_DEADLOCK FALSE
