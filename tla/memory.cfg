SPECIFICATION MCSpec
CONSTANTS
  Callers = {a, b}
  QueueLimit = 1
  BatchMax = 2
  MaxEvents = 2
  MaxFails = 1
  MaxCrashes = 1
  Claims = {"stalled", "tilted", "blue"}
  Taught = {"blue"}
  MaxTexts = 2
  MaxForgets = 1
  ClaimOf <- MCClaimOf
  MaxStops = 1
CHECK_DEADLOCK FALSE
INVARIANTS JournalInv LinksAsJudged ReadOnceAndForAll
PROPERTY CatchesUp
