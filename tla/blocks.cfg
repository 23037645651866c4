SPECIFICATION FairSpec
CONSTANTS
  Addr <- Code
  PageOf <- PageOfWord
  Target <- Loops
  NoAddr = 99
  FnEnd <- End
  ScanSpan = 7
  Hooks <- Unhooked
  Image = FALSE
  Requests <- BlockRequests
  Reguard = FALSE
  EntryFirst = FALSE
  MapId = {1, 2}
  NoMap = 0
  Reach <- Distances
  MaxRecs = 2
  MaxFix = 2
  Faulty = {1, 2, 3}
  Resets = {}
INVARIANTS
  RegistryMatchesCode
  NoLeak
PROPERTIES
  FailedCallHarmless
  CallReturns
