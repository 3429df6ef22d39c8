\* Two people; the real values are, in half seconds: Stale 1, SearchEvery 1,
\* StableEvery 2, VoiceEvery 4, AcquireWindow 4, Grace 5, Confirmation 3, Settling 2,
\* OppositeBlock 10, LostNeutral 10, Suspension 6.
SPECIFICATION FairSpec
CONSTANTS
  People = {p, q}
  NoOne = NoOne
  Stale = 1
  SearchEvery = 1
  StableEvery = 1
  VoiceEvery = 2
  AcquireRequired = 2
  AcquireWindow = 2
  SwitchRequired = 3
  Grace = 2
  Confirmation = 2
  Settling = 1
  OppositeBlock = 2
  LostNeutral = 1
  Suspension = 1
  MaxCommands = 2
  MaxMoves = 1
  MaxTalks = 1
  MaxDelays = 1
INVARIANT TrackingInv
PROPERTIES TurnsOnlyForReacquired SwitchIsDeliberate FollowsWhoStays
