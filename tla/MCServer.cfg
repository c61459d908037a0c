\* Two transactions on the posts of two reports; two on a tracked post; a
\* search of two candidates; a launcher whose search starts an agent; two
\* imports and a call to copy a description.
SPECIFICATION ServerSpec
CONSTANTS
  Posts <- MCPosts
  TokenRank <- MCTokenRank
  EarlierPosts <- MCEarlierPosts
  Reports = {r1, r2}
  EarlierReports = {r1}
  Calls = {c1, c2}
  NoPost = NoPost
  NoId = NoId
  Slots = {s1, s2}
  Events <- MCEvents
  None = None
  MaxTime = 2
  MaxRequests = 3
  Candidates <- MCCandidates
  Coverages <- MCCoverages
  Missing = Missing
  MinQueries = 2
  MinLanes = 1
  MaxCandidates = 2
  MaxWrites = 2
  Main = main
  Agents = {agent}
  MaxTurns = 2
  Runs = {"resume", "turn"}
  Imports = {i1, i2}
  Copies = {d1}
  Texts <- MCTexts
  Null = Null
SYMMETRY ServerSymmetry
INVARIANTS
  ServerTypeOK
  NoLockCycle
  TimelineMatchesRecords
  VerifiedReportWasStored
  RunIsAccounted
PROPERTIES
  ImplementsIdentity
  EvidenceNeverRegresses
  ReportFollowsJudgment
  CapturesServeTheirImport
CHECK_DEADLOCK FALSE
