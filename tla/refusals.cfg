SPECIFICATION Spec
CONSTANTS
  Addr <- Code
  PageOf <- PageOfWord
  Target <- Loops
  NoAddr = 99
  FnEnd <- End
  ScanSpan = 7
  Hooks <- Unhooked
  Image = FALSE
  Requests <- MixedRequests
  Reguard = FALSE
  EntryFirst = TRUE
  MapId = {1, 2}
  NoMap = 0
  Reach <- Distances
  MaxRecs = 4
  MaxFix = 2
  Faulty = {0, 1, 2}
  Resets = {1}
INVARIANTS
  NoDanglingJump
  IInv
\* The process may have crashed.
CHECK_DEADLOCK FALSE
