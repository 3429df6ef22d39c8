CONSTANTS
  stop = stop
  look = look
  drive = drive
  pivot = pivot
  halt = halt
  peek = peek
  Intents = {stop, look, drive, pivot}
  Kind <- KindOf
  Priority <- PriorityOf
  Reacquisition = 45
  Background = 50
  Cancellable = {drive}
  MaxLosses = 1
  NoIntent = NoIntent
  Chats = {halt, peek}
  Asked <- AskedBy
SPECIFICATION MCSpec
CHECK_DEADLOCK FALSE
INVARIANTS CoordinatorInv AtMostOneBeforeStop ChatInv
PROPERTIES EveryActionConcludes ChatsEnd
