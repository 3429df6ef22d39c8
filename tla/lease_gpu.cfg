SPECIFICATION TurnSpec
CONSTANTS
  chat = chat
  chat2 = chat2
  look = look
  detect = detect
  describe = describe
  manual = manual
  voice = voice
  model = model
  track = track
  NoTask = NoTask
  Tasks = {chat, chat2, look, detect, describe}
  Priority <- GpuPriority
  Loops = {}
  Cancellable = {}
  UsesBarrier = TRUE
  Reacquisition = 45
  Background = 50
  MaxWaiters = 5
INVARIANT NoLeakedLease
PROPERTIES FreeLeaseIsGranted MostUrgentServed
