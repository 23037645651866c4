SPECIFICATION Spec
CONSTANTS
  Addr <- Code
  PageOf <- PageOfWord
  Target <- Loops
  NoAddr = 99
  FnEnd <- End
  ScanSpan = 7
  Hooks <- Unhooked
  Image = FALSE
  Requests <- MixedRequests
  Reguard = FALSE
  EntryFirst = FALSE
  MapId = {1, 2}
  NoMap = 0
  Reach <- Distances
  MaxRecs = 1
  MaxFix = 2
  Faulty = {}
  Resets = {}
INVARIANT NoDanglingJump
