SPECIFICATION Spec
CONSTANTS
  Addr <- Code
  PageOf <- PageOfWord
  Target <- Loops
  NoAddr = 99
  FnEnd <- End
  ScanSpan = 7
  Hooks <- Unhooked
  Image = TRUE
  Requests <- MixedRequests
  Reguard = FALSE
  EntryFirst = FALSE
  MapId = {1, 2, 3}
  NoMap = 0
  Reach <- Distances
  MaxRecs = 4
  MaxFix = 2
  Faulty = {}
  Resets = {}
INVARIANTS
  TypeOK
  SnapshotMapped
  SnapshotFed
  BranchesAvoidPatches
PROPERTY
  ImplementsTable
