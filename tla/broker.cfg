SPECIFICATION MCSpec
CONSTANTS
  MaxRequests = 3
  MaxLosses = 2
  Moods = {"neutral", "happy"}
  Conversations = {"idle", "listening", "formulating"}
  MaxChanges = 2
INVARIANTS BrokerInv SettledIsLatest
PROPERTIES OlderOnlyInPassing EveryoneAnswered MoodEnds EyesCatchUp
