\* Two turns in peace, one with losses, failures, refusals and a departure.
SPECIFICATION FairVoiceSpec
CONSTANTS
  MaxTurns = 2
  MaxWire = 2
  MaxSessions = 3
  Budgets <- MCBudgets
INVARIANT VoiceType
PROPERTIES
  LossIsShown
  NoMoveBesideSight
  EveryUtteranceServed
  EveryWordIsJournaled
  TurnsEnd
\* The bounds are used up.
CHECK_DEADLOCK FALSE
