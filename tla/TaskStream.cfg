SPECIFICATION StreamSpec
CONSTANTS
  Tasks = {t1, t2}
  Permissions = {p1}
  NoPermission = NoPermission
  MaxEvents = 2
  Readers = {r1}
  NoTask = NoTask
  MaxDrops = 2
INVARIANTS
  StreamTypeOK
  ConnectionsFollowLog
PROPERTIES
  OutcomeArrives
CHECK_DEADLOCK FALSE
