\* An empty database and two requests.
SPECIFICATION PostsSpec
CONSTANTS
  Posts <- MCPosts
  TokenRank <- MCTokenRank
  EarlierPosts = {}
  Reports = {r1}
  EarlierReports = {}
  Calls = {c1, c2}
  NoPost = NoPost
  NoId = NoId
INVARIANTS
  OneRecordPerJob
CHECK_DEADLOCK FALSE
