SPECIFICATION Spec
CONSTANTS
  Parts = {"dates", "downloads", "ssh", "snippets", "desktop", "systemd", "transmission",
           "results", "wifi"}
  Tokens <- MCTokens
  Moments <- MCMoments
  MaxTokens = 4
  Files = {a, b}
  Times = {1, 2}
  Contents <- MCContents
  Keys = {a, b}
  Directories <- MCDirectories
  FileNames = {a}
  MimeTypes = {t, u}
  MaxInstalls = 3
  Providers = {user, system}
  Units = {a, b}
  NumThreads = 3
  Threads = {t1, t2}
  Every = 2
  MaxFaults = 2
  Paths <- MCPaths
  Rank <- MCRank
  Hash <- MCHash
  NumShards = 2
  MaxCount = 3
  Searchers = {s1, s2}
  MaxChanges = 4
INVARIANTS TypeOK FirstOccurrence ListsFollowFiles CacheFollowsDatabase JobsWithinSearch OpensOwnFile AgentAnswers
PROPERTIES TypingOnKeeps EntriesCatchUp SearchesReturn TorrentsComeBack
CHECK_DEADLOCK FALSE
