---------------------------- MODULE EyeController ----------------------------
(***************************************************************************)
(* EyeController of brain/app/eye_controller.py with the part of the       *)
(* coordinator's state that it shows: a mood chosen by the model beneath   *)
(* what the conversation and the faults demand, a queue of one place, the  *)
(* worker that empties it, and the heartbeat worker.                       *)
(*                                                                         *)
(* effective_expression is brought up to date with every change of the     *)
(* state, so Effective stands for it.  Abstracted: durations (a mood that  *)
(* has been seen may run out at any time), the events recorded, the        *)
(* watchdog recovery reported by telemetry: the connection is dropped long *)
(* before the watchdog of the robot fires, so no telemetry tells of it.    *)
(***************************************************************************)
EXTENDS Naturals

CONSTANTS
  Moods,         \* EMOTIONAL_EYE_EXPRESSIONS, with "neutral"
  Conversations, \* states of the conversation, with "idle"
  MaxChanges     \* bound on the changes of mood, conversation and voice session

ASSUME EyesAssumption ==
  "neutral" \in Moods /\ "idle" \in Conversations /\ MaxChanges \in Nat

VARIABLES
  running,      \* _running
  conversation, \* state.conversation
  session,      \* _voice_session_active
  mood,         \* base_expression
  expires,      \* base_expires_at is set
  timer,        \* _expiry_task waits for it
  faults,       \* the sources of the critical faults
  heard,        \* _heartbeat_ready
  missed,       \* _heartbeat_failed
  requested,    \* _last_requested
  next,         \* what is in _queue
  sending,      \* what the worker has taken from it
  changes

shownState == <<conversation, session, mood, faults>>
clock      == <<expires, timer>>
heartbeat  == <<heard, missed>>
commands   == <<requested, next, sending>>
eyeVars    == <<running, shownState, clock, heartbeat, commands, changes>>

EyeInit ==
  /\ running \in BOOLEAN
  /\ conversation = "idle" /\ session = FALSE /\ mood = "neutral"
  /\ expires = FALSE /\ timer = FALSE /\ faults = {}
  /\ heard = FALSE /\ missed = FALSE
  /\ requested = "none" /\ next = "none" /\ sending = "none"
  /\ changes = 0

Overlay == [speaking |-> "speaking", listening |-> "listening", interrupted |-> "startled"]

\* _desired_expression
Effective ==
  IF faults # {} THEN "fault"
  ELSE IF conversation = "formulating" THEN "thinking"
  ELSE IF session /\ conversation \in DOMAIN Overlay THEN Overlay[conversation]
  ELSE mood

\* Mutant of Enqueue: what is in the queue stays there.
EnqueueBehind(forced) ==
  IF running /\ heard' /\ (forced \/ Effective' # requested)
  THEN requested' = Effective' /\ next' = (IF next = "none" THEN Effective' ELSE next)
  ELSE UNCHANGED <<requested, next>>

\* _enqueue, and force_sync: the last expression takes the one place there is.
Enqueue(forced) ==
  IF running /\ heard' /\ (forced \/ Effective' # requested)
  THEN requested' = Effective' /\ next' = Effective'
  ELSE UNCHANGED <<requested, next>>

\* _apply_effective: the mood's time starts when it is first seen; set tells whether it
\* had started before, forced whether force_sync follows.
Applies(set, forced) ==
  LET seen == mood' # "neutral" /\ Effective' = mood'
  IN /\ expires' = (set \/ seen)
     /\ timer' = IF set THEN timer ELSE seen /\ running
     /\ Enqueue(forced)

Change == changes < MaxChanges /\ changes' = changes + 1

\* transition, of which observe_state is told
Transition(c) ==
  /\ Change
  /\ conversation' = c /\ UNCHANGED <<session, mood, faults, heartbeat>>
  /\ Applies(expires, FALSE)
  /\ UNCHANGED <<running, sending>>

SetVoiceSession ==
  /\ Change
  /\ session' = ~session /\ UNCHANGED <<conversation, mood, faults, heartbeat>>
  /\ Applies(expires, FALSE)
  /\ UNCHANGED <<running, sending>>

\* Mutant of SelectMood: the time of the last mood is taken for that of the new one,
\* whose task has been cancelled.
SelectMoodKeepingClock(m) ==
  /\ Change
  /\ mood' = m /\ UNCHANGED <<conversation, session, faults, heartbeat>>
  /\ IF expires THEN timer' = FALSE /\ UNCHANGED expires /\ Enqueue(FALSE)
                ELSE Applies(FALSE, FALSE)
  /\ UNCHANGED <<running, sending>>

SelectMood(m) ==
  /\ Change
  /\ mood' = m /\ UNCHANGED <<conversation, session, faults, heartbeat>>
  /\ Applies(FALSE, FALSE)
  /\ UNCHANGED <<running, sending>>

MoodExpires ==
  /\ timer /\ expires
  /\ mood' = "neutral" /\ UNCHANGED <<conversation, session, faults, heartbeat>>
  /\ Applies(FALSE, FALSE)
  /\ UNCHANGED <<running, sending, changes>>

\* register_fault and clear_fault, which tell observe_state when something changes.
Faults(now) ==
  /\ faults' = now /\ UNCHANGED <<conversation, session, mood, heartbeat>>
  /\ IF now = faults THEN UNCHANGED <<clock, requested, next>> ELSE Applies(expires, FALSE)
  /\ UNCHANGED <<running, sending, changes>>

\* _heartbeat_worker, with a channel that is ready or not.
HeartbeatOk ==
  /\ running
  /\ heard' = TRUE /\ missed' = FALSE
  /\ faults' = faults \ {"esp_heartbeat"} /\ UNCHANGED <<conversation, session, mood>>
  /\ IF heard /\ ~missed THEN UNCHANGED <<clock, requested, next>> ELSE Applies(expires, TRUE)
  /\ UNCHANGED <<running, sending, changes>>

HeartbeatMissed ==
  /\ running
  /\ missed' = TRUE /\ UNCHANGED heard
  /\ faults' = faults \cup {"esp_heartbeat"} /\ UNCHANGED <<conversation, session, mood>>
  /\ Applies(expires, FALSE)
  /\ UNCHANGED <<running, sending, changes>>

\* _command_worker
Takes ==
  /\ sending = "none" /\ next # "none"
  /\ sending' = next /\ next' = "none"
  /\ UNCHANGED <<running, shownState, clock, heartbeat, requested, changes>>

\* The robot has it.
Succeeds ==
  /\ sending' = "none"
  /\ UNCHANGED <<running, shownState, clock, heartbeat, requested, next, changes>>

Fails ==
  /\ sending' = "none" /\ requested' = "none"
  /\ UNCHANGED <<running, shownState, clock, heartbeat, next, changes>>

EyeTypeOK ==
  LET Expressions == Moods \cup {"fault", "thinking", "speaking", "listening", "startled"}
  IN /\ {running, session, expires, timer, heard, missed} \subseteq BOOLEAN
     /\ conversation \in Conversations /\ mood \in Moods
     /\ faults \subseteq {"esp_heartbeat", "control_transport"}
     /\ {requested, next, sending} \subseteq Expressions \cup {"none"}
     /\ changes \in 0..MaxChanges
     /\ timer => expires

\* Every mood that is not hidden for good ends (eye_controller.py:90-128, 191-250).
MoodEnds == []<>(Effective = mood) => (mood # "neutral" ~> mood = "neutral")
=============================================================================
