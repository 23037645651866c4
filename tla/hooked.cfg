SPECIFICATION Spec
CONSTANTS
  Addr <- TwoCode
  PageOf <- TwoPages
  Target <- NoLoops
  NoAddr = 99
  FnEnd <- TwoEnds
  ScanSpan = 7
  Hooks <- TwoHooks
  Image = TRUE
  Requests <- TwoRequests
  Reguard = FALSE
  EntryFirst = FALSE
  MapId = {1, 3}
  NoMap = 0
  Reach <- Distances
  MaxRecs = 2
  MaxFix = 2
  Faulty = {}
  Resets = {}
INVARIANTS
  HookReturnIntact
  SnapshotMapped
