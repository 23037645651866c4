SPECIFICATION Spec
CONSTANTS
  Threads = {t1, t2}
  Modes = {"block"}
  Overlapping = {"block"}
  Layouts <- Ordinary
  PairLoad = {0}
  Frame = 600
  BaseAt <- FramePointer
  MaxCalls = 2
  MaxVisits = 2
\* The callers may have no calls left.
CHECK_DEADLOCK FALSE
INVARIANT FloatIntact
