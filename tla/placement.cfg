SPECIFICATION Spec
CONSTANTS
  Pages <- FourteenPages
  PageWords = 32
  ReachB = 96
  ReachC = 44
  ReachT = 28
  ReachPages = 5
  Maps <- AllMaps
  Fns <- TwoFns
  HookLens = {0, 1, 3, 4}
  GuardOff = 8
  Lead = 3
  Codes <- TwoOfThree
  Branches <- FromElsewhere
  Others = {2, 10}
  Race = FALSE
  FarBitTests = FALSE
\* A plan that is finished or has failed goes no further.
CHECK_DEADLOCK FALSE
INVARIANTS
  TypeOK
  OverlapsNothing
  NearReaches
  SizesAgree
  MovedMeansSame
PROPERTY
  NearFindsRoom
