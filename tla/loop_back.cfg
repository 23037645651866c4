SPECIFICATION Spec
CONSTANTS
  Args = {0, 1}
  Reg <- Registers4
  Programs <- Loops
  Guard = 4
  MaxSlots = 5
  MaxPasses = 6
  FrameStable = TRUE
  StackWords = 4
  LslFactor = 2
  LoopBack = TRUE
  TableJumps = FALSE
\* The function may have returned.
CHECK_DEADLOCK FALSE
INVARIANT LocationsHold
