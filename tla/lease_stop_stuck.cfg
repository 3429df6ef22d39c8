CHECK_DEADLOCK FALSE
SPECIFICATION FairSpec
CONSTANTS
  chat = chat
  chat2 = chat2
  look = look
  detect = detect
  describe = describe
  manual = manual
  voice = voice
  model = model
  track = track
  NoTask = NoTask
  Tasks = {manual, voice, model}
  Priority <- ActionPriority
  Loops = {}
  Cancellable = {voice}
  UsesBarrier = FALSE
  Reacquisition = 45
  Background = 50
  MaxWaiters = 4
PROPERTIES MostUrgentServed
