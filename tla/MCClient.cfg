\* Two posts and two people in the outreach of a workspace; two posts in Review;
\* two Settings pages.
SPECIFICATION ClientSpec
CONSTANTS
  PostIds = {p1, p2}
  Discoveries = {d1, d2}
  Revisions = {v1}
  People = {alice, bob}
  None = None
  MaxContacts = 2
  MaxCalls = 3
  MaxReloads = 1
  Starts <- MCStarts
  Keys = {k1, k2}
  MaxPosts = 3
  MaxRequests = 4
  MaxImports = 2
  Missing = Missing
  Pages = {g1, g2}
  WeekLength = 3
  Hours = {8, 9}
  Minutes = {0, 30}
  MaxTimes = 2
  MaxPosition = 2
  Positions <- MCPositions
  FileRules <- MCFileRules
  FormSchedules <- MCFormSchedules
  MaxEdits = 2
  Null = Null
SYMMETRY ClientSymmetry
INVARIANTS
  ClientTypeOK
  PersonSavedOnce
  ResultsProceed
  ShownContactsExist
  OneSaveAtATime
  ScheduleIsKept
PROPERTIES
  DraftFitsContact
  PostsFollowServer
  SaveChangesWhatWasShown
CHECK_DEADLOCK FALSE
