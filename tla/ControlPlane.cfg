SPECIFICATION Spec
CONSTANTS
  Chunks <- MCChunks
  Sizes = {1}
  Generations = {1, 2}
  Signatures = {1, 2, 3}
  MaxSnapshots = 7
  Bounds <- MCBounds
  Services <- MCServices
  InitService = "init"
  Child = "child"
  Policies = {"never", "always"}
  Limits = {1}
  DumpMax = 2
INVARIANTS RecordsMatch UpdatesOrdered SnapshotKnowsTransaction RestartsAccounted
PROPERTY WatchdogLeavesNoneLate
