SPECIFICATION FairSpec
CONSTANTS
  Conns = {c1, c2}
  NoConn = NoConn
  Kinds = {"drive"}
  Ttl <- LinkTtl
  Duration = 1
  MotionTimeout = 2
  ClockSize = 8
  MaxDelay = 2
  MaxDrift = 1
  MaxSends = 1
  MaxCuts = 2
  HelloMayBeLost = FALSE
PROPERTIES OnTime Recovers
