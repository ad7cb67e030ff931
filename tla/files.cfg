SPECIFICATION FairSpec
CONSTANTS
  Paths <- AllPaths
  Rank <- Ranks
  Hash <- Hashes
  NumShards = 2
  MaxCount = 2
  Directories <- AllDirectories
  Hidden <- HiddenPaths
  Suffixed = {}
  GitPatterns = {}
  NamePrefixes <- DocPrefix
  Lasting <- LastingPaths
  Settings <- BothSettings
  MaxChanges = 3
  SettingCost = 2
INVARIANTS TypeOK TablesSorted  GoneForgotten
PROPERTY IndexingEnds
CHECK_DEADLOCK FALSE
