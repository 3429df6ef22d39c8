SPECIFICATION Spec
CONSTANTS
  Conns = {c1, c2}
  NoConn = NoConn
  Kinds = {"drive", "stop"}
  Ttl <- LinkTtl
  Duration = 1
  MotionTimeout = 2
  ClockSize = 8
  MaxDelay = 2
  MaxDrift = 0
  MaxSends = 2
  MaxCuts = 1
  HelloMayBeLost = TRUE
SYMMETRY ConnSymmetry
INVARIANTS LinkSafety StopIsFinal
