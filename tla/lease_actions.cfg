CHECK_DEADLOCK FALSE
SPECIFICATION Spec
CONSTANTS
  chat = chat
  chat2 = chat2
  look = look
  detect = detect
  describe = describe
  manual = manual
  voice = voice
  model = model
  track = track
  NoTask = NoTask
  Tasks = {manual, voice, model, track}
  Priority <- ActionPriority
  Loops = {track}
  Cancellable = {voice, track}
  UsesBarrier = FALSE
  Reacquisition = 45
  Background = 50
  MaxWaiters = 6
INVARIANT LeaseInv
PROPERTIES ImplementsContract GrantsInPriorityOrder
