--------------------------- MODULE PersonTracking ---------------------------
(***************************************************************************)
(* PersonTrackingService of brain/app/tracking.py: the detection loop, who *)
(* is followed, when the body may turn, and the callers who start, stop or *)
(* suspend it while the loop waits for the detector, for its listeners or  *)
(* for the robot.                                                          *)
(*                                                                         *)
(* Time is counted in ticks; a timer that has run out stays where it is.   *)
(* Two events with k ticks between them are k ticks apart, more or less    *)
(* one, so what the code decides on an exact equality is a free choice.    *)
(*                                                                         *)
(* Abstracted: geometry.  Boxes of one person are consistent, boxes of two *)
(* are not; which of several people scores best, whether another person is *)
(* superior to the target, and whether the error is large enough to turn   *)
(* are free choices.  Head poses leave no trace here: with wait_for_ack    *)
(* off, head_target returns before any other task runs, and ActuatorBroker *)
(* has what becomes of the pose.                                           *)
(***************************************************************************)
EXTENDS Integers, FiniteSets

CONSTANTS
  People,           \* those who may come into view
  NoOne,            \* None
  Stale,            \* the half second after which an observation is too old
  SearchEvery, StableEvery, VoiceEvery,  \* ticks between two detections
  AcquireRequired,  \* acquire_required_detections
  AcquireWindow,    \* acquire_window_seconds
  SwitchRequired,   \* SWITCH_REQUIRED_DETECTIONS
  Grace,            \* missing_grace_seconds
  Confirmation,     \* pivot_confirmation_seconds
  Settling,         \* settling_seconds
  OppositeBlock,    \* opposite_pivot_block_seconds
  LostNeutral,      \* lost_neutral_seconds
  Suspension,       \* the seconds of suspend_for_manual_control
  MaxCommands,      \* bound on the calls of enable, stop and suspend
  MaxMoves,         \* bound on the changes of who is in view
  MaxTalks,         \* bound on the changes of the conversation
  MaxDelays         \* bound on failures, misses, pre-emptions, and ticks spent in an await

ASSUME TrackingAssumption ==
  /\ NoOne \notin People
  /\ \A n \in {Stale, SearchEvery, StableEvery, VoiceEvery, AcquireRequired, AcquireWindow,
               SwitchRequired, Grace, Confirmation, Settling, OppositeBlock, LostNeutral,
               Suspension} : n \in Nat \ {0}
  /\ SearchEvery <= VoiceEvery /\ StableEvery <= VoiceEvery
  /\ \A n \in {MaxCommands, MaxMoves, MaxTalks, MaxDelays} : n \in Nat

VARIABLES
  view,       \* who is in front of the camera
  voice,      \* the conversation is listening or speaking
  doomed,     \* a _cancel_after_grace timer of the action lease is running for _run
  budget,     \* what is left of the four bounds
  loop,       \* the await _run is in, "starved" if for ever, or "gone"
  due,        \* ticks left of the loop's sleep
  since,      \* ticks since _last_detection_started_at
  available,  \* detector.available
  frame,      \* the frame being looked at: who is on it, its age
  mode, state,
  target,     \* who is followed, and the age of the observation
  acquire,    \* _acquire_candidate, _acquire_count, age of _acquire_started_at
  switch,     \* _switch_candidate, _switch_count
  missing,    \* ticks since _last_fresh_detection_at
  lost,       \* ticks since _lost_since, and _neutral_issued
  suspended,  \* ticks to _suspended_until
  excess,     \* ticks since _pivot_excessive_since
  settling,   \* ticks to _settling_until
  last,       \* _last_pivot_direction, ticks since _last_pivot_at
  turn,       \* the direction of the pivot that move_command was called for
  current,    \* its generation is still _motion_generation
  seen        \* history: results in which the target (or the candidate) was seen
              \* since the last suspension; ticks since the target was acquired;
              \* results with others only since the target was last seen

world  == <<view, voice, doomed>>
timers == <<excess, settling, last>>
who    == <<target, acquire, switch, missing, lost>>
motion == <<turn, current>>
vars   == <<world, budget, loop, due, since, available, frame, mode, state, who, suspended,
            timers, motion, seen>>

NotSet == -1
Directions == {"left", "right"}
Following == {"tracking", "repositioning", "settling"}
Nobody == [who |-> NoOne, age |-> 0]
NoCandidate == [who |-> NoOne, count |-> 0, age |-> 0]
NoFrame == [people |-> {}, age |-> 0]
NoSwitch == [who |-> NoOne, count |-> 0]
Unseen == [times |-> 0, ticks |-> 0, others |-> 0]

Init ==
  /\ view \in SUBSET People /\ voice = FALSE /\ doomed = FALSE
  /\ budget = [commands |-> MaxCommands, moves |-> MaxMoves, talks |-> MaxTalks,
               delays |-> MaxDelays]
  /\ loop = "idle" /\ due = 0 /\ since = VoiceEvery /\ available = FALSE
  /\ frame = NoFrame
  /\ mode = "track" /\ state = "searching"
  /\ target = Nobody /\ acquire = NoCandidate /\ switch = NoSwitch
  /\ missing = 0 /\ lost = [ticks |-> NotSet, neutral |-> FALSE]
  /\ suspended = 0
  /\ excess = NotSet /\ settling = 0 /\ last = [dir |-> "none", ticks |-> 0]
  /\ turn = "none" /\ current = FALSE
  /\ seen = Unseen

-----------------------------------------------------------------------------
Least(a, b) == IF a <= b THEN a ELSE b
Spend(what) == budget[what] > 0 /\ budget' = [budget EXCEPT ![what] = @ - 1]
\* A timer that counts up to limit, unless it is not set.
Up(t, limit) == IF t = NotSet THEN t ELSE Least(t + 1, limit)
\* One that counts down.
Down(t) == IF t = 0 THEN 0 ELSE t - 1

\* The sleep of _run after a fault.
Fault ==
  /\ state' = "fault"
  /\ loop' = "resting" /\ due' = 1

\* motion_authorized(generation, body=True) for the pivot in hand.
Authorized ==
  /\ current
  /\ mode = "track" /\ suspended = 0
  /\ state \in {"tracking", "repositioning"} /\ target.who # NoOne
  /\ target.age < Stale
  /\ settling = 0

\* _current_detector_fps
Interval ==
  IF voice THEN VoiceEvery
  ELSE IF state \in Following /\ target.who # NoOne THEN StableEvery
  ELSE SearchEvery

-----------------------------------------------------------------------------
\* What happens around the service.

\* Somebody comes into view or leaves.
Move ==
  /\ Spend("moves")
  /\ view' \in SUBSET People \ {view}
  /\ UNCHANGED <<voice, doomed, loop, due, since, available, frame, mode, state, who, suspended,
                 timers, motion, seen>>

\* The conversation starts or ends.
Talk ==
  /\ Spend("talks")
  /\ voice' = ~voice
  /\ UNCHANGED <<view, doomed, loop, due, since, available, frame, mode, state, who, suspended,
                 timers, motion, seen>>

\* The loop has been cancelled, or waits for a lease that never comes.
Lost == {"gone", "starved"}

\* The loop sleeps, or polls until tracking is on and not suspended, or is lost.
Asleep ==
  \/ loop \in {"sleeping", "resting"} /\ due > 0
  \/ loop = "idle" /\ mode = "off"
  \/ loop \in Lost
  \/ loop = "idle" /\ available /\ suspended > 0

\* A tick.  A loop that has something to do lets time pass only as often as the
\* bound on delays has it.
Tick ==
  /\ IF Asleep THEN UNCHANGED budget ELSE Spend("delays")
  /\ due' = Down(due)
  /\ since' = Least(since + 1, VoiceEvery)
  /\ frame' = IF loop # "looking" THEN frame
              ELSE [frame EXCEPT !.age = Least(@ + 1, Stale)]
  /\ target' = IF target.who = NoOne THEN target
               ELSE [target EXCEPT !.age = Least(@ + 1, Stale)]
  /\ acquire' = IF acquire.who = NoOne THEN acquire
                ELSE [acquire EXCEPT !.age = Least(@ + 1, AcquireWindow + 1)]
  /\ missing' = IF target.who = NoOne THEN missing ELSE Least(missing + 1, Grace + 1)
  /\ lost' = [lost EXCEPT !.ticks = Up(@, LostNeutral)]
  /\ suspended' = Down(suspended)
  /\ excess' = Up(excess, Confirmation)
  /\ settling' = Down(settling)
  /\ last' = IF last.dir = "none" THEN last
             ELSE [last EXCEPT !.ticks = Least(@ + 1, OppositeBlock)]
  /\ seen' = [seen EXCEPT !.ticks = Least(@ + 1, Confirmation)]
  /\ UNCHANGED <<world, loop, available, mode, state, switch, motion>>

\* enable(), for whoever asks: the detector is there or has been probed.
Enable ==
  /\ Spend("commands")
  /\ available' = TRUE
  /\ mode' = "track"
  /\ state' = IF target.who = NoOne THEN "searching" ELSE "tracking"
  /\ suspended' = 0 /\ current' = FALSE
  /\ lost' = [ticks |-> NotSet, neutral |-> FALSE]
  /\ UNCHANGED <<world, loop, due, since, frame, target, acquire, switch, missing, timers,
                 turn, seen>>

\* stop(): on request, by voice or through the API.
Stop ==
  /\ Spend("commands")
  /\ mode' = "off" /\ state' = "off"
  /\ target' = Nobody /\ current' = FALSE
  /\ UNCHANGED <<world, loop, due, since, available, frame, acquire, switch, missing, lost,
                 suspended, timers, turn, seen>>

\* Mutant of Suspend: the association goes on where it was.
SuspendOnly ==
  /\ Spend("commands")
  /\ suspended' = Suspension
  /\ target' = Nobody /\ current' = FALSE
  /\ state' = IF mode = "off" THEN "off" ELSE "suspended"
  /\ seen' = Unseen
  /\ UNCHANGED <<world, loop, due, since, available, frame, mode, acquire, switch, missing, lost,
                 timers, turn>>

\* suspend_for_manual_control(), before every manual or model-chosen movement.
Suspend ==
  /\ Spend("commands")
  /\ suspended' = Suspension
  /\ target' = Nobody /\ current' = FALSE
  /\ state' = IF mode = "off" THEN "off" ELSE "suspended"
  /\ acquire' = NoCandidate /\ switch' = NoSwitch
  /\ seen' = Unseen
  /\ UNCHANGED <<world, loop, due, since, available, frame, mode, missing, lost, timers, turn>>

-----------------------------------------------------------------------------
\* The loop up to a result.
Top == loop = "idle" /\ mode = "track"

Probe ==
  /\ Top /\ ~available
  /\ loop' = "probing"
  /\ UNCHANGED <<world, budget, due, since, available, frame, mode, state, who, suspended,
                 timers, motion, seen>>

Probed ==
  /\ loop = "probing"
  /\ \/ /\ available' = TRUE
        /\ loop' = "idle" /\ UNCHANGED <<budget, state, due>>
     \/ /\ Spend("delays")
        /\ available' = FALSE
        /\ Fault
  /\ UNCHANGED <<world, since, frame, mode, who, suspended, timers, motion, seen>>

Rested ==
  /\ loop = "resting" /\ due = 0
  /\ loop' = "idle"
  /\ UNCHANGED <<world, budget, due, since, available, frame, mode, state, who, suspended,
                 timers, motion, seen>>

NoteSuspension ==
  /\ Top /\ available /\ suspended > 0
  /\ state' = "suspended"
  /\ UNCHANGED <<world, budget, loop, due, since, available, frame, mode, who, suspended,
                 timers, motion, seen>>

\* The loop sleeps for what is left of the interval.
Sleep ==
  /\ Top /\ available /\ suspended = 0
  /\ loop' = "sleeping"
  /\ due' = IF since < Interval THEN Interval - since ELSE 0
  /\ UNCHANGED <<world, budget, since, available, frame, mode, state, who, suspended,
                 timers, motion, seen>>

\* A new frame is taken and sent to the detector, whatever was called meanwhile; the
\* detector may miss somebody.
Look ==
  /\ loop = "sleeping" /\ due = 0
  /\ loop' = "looking"
  /\ \E people \in SUBSET view :
       /\ frame' = [people |-> people, age |-> 0]
       /\ IF people = view THEN UNCHANGED budget ELSE Spend("delays")
  /\ since' = 0
  /\ UNCHANGED <<world, due, available, mode, state, who, suspended, timers, motion, seen>>

\* The camera fails, the detector fails (and is probed before the next frame), or
\* foreground work takes the lease from the request.
LookFails ==
  /\ loop = "looking"
  /\ Spend("delays")
  /\ frame' = NoFrame
  /\ \/ Fault /\ available' \in {FALSE, available}
     \/ loop' = "idle" /\ UNCHANGED <<state, due, available>>
  /\ UNCHANGED <<world, since, mode, who, suspended, timers, motion, seen>>

-----------------------------------------------------------------------------
\* The two halves of a result.  Both say what becomes of loop, state and timers.

\* _update_head_and_body, when there is a target: state is now, unless it is set here.
Body(now) ==
  \/ \* settling
     /\ settling > 0
     /\ loop' = "idle" /\ state' = "settling"
     /\ excess' = NotSet
     /\ UNCHANGED <<settling, last, motion>>
  \/ \* the detector is too slow for the body to move
     /\ settling = 0
     /\ loop' = "idle" /\ state' = now
     /\ UNCHANGED <<timers, motion>>
  \/ \* the error is small
     /\ settling = 0
     /\ loop' = "idle" /\ state' = now
     /\ excess' = NotSet
     /\ UNCHANGED <<settling, last, motion>>
  \/ \* the error is large, and not for long enough
     /\ settling = 0
     /\ excess < Confirmation
     /\ loop' = "idle" /\ state' = now
     /\ excess' = IF excess = NotSet THEN 0 ELSE excess
     /\ UNCHANGED <<settling, last, motion>>
  \/ \* the error has been large for long enough
     /\ settling = 0
     /\ excess = Confirmation
     /\ \E d \in Directions :
          IF last.dir \notin {"none", d} /\ last.ticks < OppositeBlock
          THEN /\ loop' = "idle" /\ state' = now
               /\ UNCHANGED motion
          ELSE /\ loop' = "asking" /\ state' = "repositioning"
               /\ turn' = d /\ current' = TRUE
     /\ UNCHANGED timers

\* _handle_missing_target: nobody on the frame is, or may yet be, the target.
Missing(candidate, other) ==
  /\ loop' = "idle"
  /\ acquire' = candidate /\ UNCHANGED <<settling, last, motion>>
  /\ IF target.who = NoOne
     THEN LET ticks == IF lost.ticks = NotSet THEN 0 ELSE lost.ticks IN
          /\ \/ /\ lost.neutral \/ ticks < LostNeutral
                /\ lost' = [lost EXCEPT !.ticks = ticks] /\ state' = "lost"
             \/ /\ ~lost.neutral /\ ticks = LostNeutral
                /\ \/ lost' = [ticks |-> ticks, neutral |-> TRUE] /\ state' = "searching"
                   \/ lost' = [lost EXCEPT !.ticks = ticks] /\ state' = "lost"
          /\ switch' = other
          /\ UNCHANGED <<target, missing, excess>>
     ELSE /\ excess' = NotSet
          /\ \/ /\ missing <= Grace
                /\ state' = "tracking" /\ switch' = other
                /\ UNCHANGED <<target, missing, lost>>
             \/ /\ missing >= Grace
                /\ state' = "lost"
                /\ target' = Nobody /\ switch' = NoSwitch
                /\ missing' = 0 /\ lost' = [ticks |-> 0, neutral |-> FALSE]

\* The target is p, as of this frame.
Fix(p) ==
  /\ target' = [who |-> p, age |-> frame.age]
  /\ missing' = 0
  /\ lost' = [ticks |-> NotSet, neutral |-> FALSE]

-----------------------------------------------------------------------------
\* The result of the frame, by the branches of process_result.

\* It comes when tracking is off or suspended.
ResultUnwanted ==
  /\ loop = "looking"
  /\ mode = "off" \/ suspended > 0
  /\ loop' = "idle" /\ available' = TRUE /\ frame' = NoFrame
  /\ IF mode = "off" THEN state' = "off" /\ target' = Nobody
                     ELSE state' = "suspended" /\ UNCHANGED target
  /\ UNCHANGED <<world, budget, due, since, mode, acquire, switch, missing, lost,
                 suspended, timers, motion, seen>>

Result ==
  /\ loop = "looking" /\ mode = "track" /\ suspended = 0
  /\ available' = TRUE /\ frame' = NoFrame
  /\ UNCHANGED <<world, budget, due, since, mode, suspended>>

\* What _reset_association leaves when the suspension is over.
Candidate == IF state = "suspended" THEN NoCandidate ELSE acquire
Other == IF state = "suspended" THEN NoSwitch ELSE switch
Fresh == frame.age < Stale

ResultEmpty ==
  /\ Result
  /\ ~Fresh \/ frame.people = {}
  /\ Missing(Candidate, Other)
  /\ UNCHANGED seen

\* Mutant of Again: the window is closed at once.
AgainAtOnce(p) == Candidate.who = p /\ Candidate.age = 0

\* A detection of p is one more of the same candidate, soon enough.
Again(p) == Candidate.who = p /\ Candidate.age <= AcquireWindow

\* No target yet: p is a new candidate, one more detection of it, or acquired.
ResultAcquires ==
  /\ Result /\ Fresh /\ target.who = NoOne
  /\ \E p \in frame.people, inTime \in BOOLEAN :
       LET again == Again(p) /\ (Candidate.age = AcquireWindow => inTime)
           count == IF again THEN Candidate.count + 1 ELSE 1
           times == IF again THEN seen.times + 1 ELSE 1
       IN  /\ seen' = [times |-> Least(times, AcquireRequired),
                       ticks |-> IF count < AcquireRequired THEN seen.ticks ELSE 0, others |-> 0]
           /\ IF count < AcquireRequired
              THEN /\ acquire' = [who |-> p, count |-> count,
                                  age |-> IF again THEN Candidate.age ELSE 0]
                   /\ switch' = Other
                   /\ state' = "acquiring" /\ loop' = "idle"
                   /\ UNCHANGED <<target, missing, lost>>
              ELSE /\ Fix(p) /\ acquire' = NoCandidate /\ switch' = NoSwitch
                   /\ state' = "tracking" /\ loop' = "telling"
           /\ UNCHANGED <<timers, motion>>

\* Mutant of Matched: the count in favour of another goes on.
MatchedOnly == UNCHANGED switch

\* The target has been seen: no switch is pending.
Matched == switch' = NoSwitch

\* The target is on the frame.
ResultMaintains ==
  /\ Result /\ Fresh /\ target.who \in frame.people
  /\ Fix(target.who)
  /\ Matched /\ UNCHANGED acquire
  /\ Body("tracking")
  /\ seen' = [seen EXCEPT !.times = Least(@ + 1, AcquireRequired), !.others = 0]

\* The detections in favour of p, this one included.
OneMore(p) == IF switch.who = p THEN switch.count + 1 ELSE 1

\* Only others are on the frame.  p, if superior, may become the target.
ResultOthers ==
  /\ Result /\ Fresh /\ target.who # NoOne
  /\ target.who \notin frame.people
  /\ \E p \in frame.people, superior \in BOOLEAN :
       LET count == IF superior THEN OneMore(p) ELSE 1
           others == Least(seen.others + 1, SwitchRequired)
       IN  IF count >= SwitchRequired
           THEN /\ Fix(p) /\ switch' = NoSwitch /\ UNCHANGED acquire
                /\ Body("tracking")
                /\ seen' = [seen EXCEPT !.others = others]
           ELSE /\ Missing(acquire, [who |-> p, count |-> count])
                /\ seen' = [seen EXCEPT !.others = others]

\* The listeners have been told of the new target, who may be gone by now.
Told ==
  /\ loop = "telling"
  /\ IF target.who = NoOne
     THEN /\ loop' = "idle"
          /\ UNCHANGED <<state, timers, motion>>
     ELSE Body("tracking")
  /\ UNCHANGED <<world, budget, due, since, available, frame, mode, who, suspended, seen>>

-----------------------------------------------------------------------------
\* The pivot, from move_command to its result.

\* tracking_move_command, inside the action lease and past wait_ready: the
\* authorization is asked for a last time and the drive is sent.
Turn ==
  /\ loop = "asking" /\ Authorized
  /\ loop' = "turning"
  /\ UNCHANGED <<world, budget, due, since, available, frame, mode, state, who, suspended,
                 timers, motion, seen>>

\* move_command has returned or raised.
Over == turn' = "none" /\ current' = FALSE

TurnRefused ==
  /\ loop = "asking"
  /\ Over
  /\ loop' = "idle"
  /\ UNCHANGED <<world, budget, due, since, available, frame, mode, state, who, suspended,
                 timers, seen>>

\* move_command raises: the action or the channel has failed.
TurnFails ==
  /\ loop \in {"asking", "turning"}
  /\ Spend("delays")
  /\ Fault
  /\ Over
  /\ UNCHANGED <<world, since, available, frame, mode, who, suspended, timers, seen>>

\* Mutant of Turned: the result is taken whatever happened meanwhile.
TurnedAnyway ==
  /\ loop = "turning"
  /\ loop' = "idle"
  /\ Over
  /\ last' = [dir |-> turn, ticks |-> 0]
  /\ excess' = NotSet /\ settling' = Settling /\ state' = "settling"
  /\ UNCHANGED <<world, budget, due, since, available, frame, mode, who, suspended, seen>>

\* The robot has turned; a result of an older generation is not used.
Turned ==
  /\ loop = "turning"
  /\ loop' = "idle"
  /\ Over
  /\ IF current
     THEN /\ last' = [dir |-> turn, ticks |-> 0]
          /\ excess' = NotSet /\ settling' = Settling /\ state' = "settling"
     ELSE UNCHANGED <<timers, state>>
  /\ UNCHANGED <<world, budget, due, since, available, frame, mode, who, suspended, seen>>

\* Something more urgent asks for the action lease while the pivot has it.
Preempted ==
  /\ loop \in {"asking", "turning"} /\ ~doomed
  /\ Spend("delays")
  /\ doomed' = TRUE
  /\ UNCHANGED <<view, voice, loop, due, since, available, frame, mode, state, who, suspended,
                 timers, motion, seen>>

\* The grace timer cancels the task that had the lease, which is _run, wherever it is by
\* now; nothing starts it again.
LoopCancelled ==
  /\ doomed /\ loop # "gone"
  /\ doomed' = FALSE
  /\ loop' = "gone" /\ frame' = NoFrame
  /\ Over
  /\ UNCHANGED <<view, voice, budget, due, since, available, mode, state, who, suspended,
                 timers, seen>>

\* The action lease is held for a task that was cancelled in its line (ResourceLease), and
\* the pivot waits for it.
Starves ==
  /\ loop = "asking"
  /\ Spend("delays")
  /\ loop' = "starved"
  /\ UNCHANGED <<world, due, since, available, frame, mode, state, who, suspended, timers,
                 motion, seen>>

Next ==
  \/ Move \/ Talk \/ Tick
  \/ Enable \/ Stop \/ Suspend
  \/ Probe \/ Probed \/ Rested \/ NoteSuspension \/ Sleep \/ Look \/ LookFails
  \/ ResultUnwanted \/ ResultEmpty \/ ResultAcquires \/ ResultMaintains \/ ResultOthers
  \/ Told \/ Turn \/ TurnRefused \/ TurnFails \/ Turned
  \/ Preempted \/ LoopCancelled \/ Starves

Spec == Init /\ [][Next]_vars

Results ==
  ResultUnwanted \/ ResultEmpty \/ ResultAcquires \/ ResultMaintains \/ ResultOthers

\* _run is one task that goes on until it is cancelled; the detector, the listeners and the
\* robot each answer or have a timeout, and the action lease comes or is refused unless it
\* is lost (Starves).
Fairness ==
  /\ WF_vars(Tick)
  /\ WF_vars(Probe) /\ WF_vars(Probed) /\ WF_vars(Rested)
  /\ WF_vars(Sleep) /\ WF_vars(Look) /\ WF_vars(Results)
  /\ WF_vars(Told) /\ WF_vars(Turn \/ TurnRefused) /\ WF_vars(Turned)
  /\ WF_vars(LoopCancelled)

FairSpec == Spec /\ Fairness

-----------------------------------------------------------------------------
Persons == People \cup {NoOne}

TypeOK ==
  /\ view \subseteq People /\ {voice, doomed} \subseteq BOOLEAN
  /\ budget \in [commands : 0..MaxCommands, moves : 0..MaxMoves, talks : 0..MaxTalks,
                 delays : 0..MaxDelays]
  /\ loop \in {"idle", "probing", "resting", "sleeping", "looking", "telling", "asking",
               "turning"} \cup Lost
  /\ due \in 0..VoiceEvery /\ since \in 0..VoiceEvery /\ available \in BOOLEAN
  /\ frame \in [people : SUBSET People, age : 0..Stale]
  /\ mode \in {"off", "track"}
  /\ state \in Following \cup {"off", "searching", "acquiring", "lost", "suspended", "fault"}
  /\ target \in [who : Persons, age : 0..Stale]
  /\ acquire \in [who : Persons, count : 0..AcquireRequired - 1, age : 0..AcquireWindow + 1]
  /\ switch \in [who : Persons, count : 0..SwitchRequired - 1]
  /\ missing \in 0..Grace + 1
  /\ lost \in [ticks : {NotSet} \cup 0..LostNeutral, neutral : BOOLEAN]
  /\ suspended \in 0..Suspension
  /\ excess \in {NotSet} \cup 0..Confirmation
  /\ settling \in 0..Settling
  /\ last \in [dir : Directions \cup {"none"}, ticks : 0..OppositeBlock]
  /\ turn \in Directions \cup {"none"} /\ current \in BOOLEAN
  /\ seen \in [times : 0..AcquireRequired, ticks : 0..Confirmation, others : 0..SwitchRequired]

\* Whatever a call of enable, stop or suspend overtakes, the state shown to the voice,
\* the web page and the authorization speaks of a person exactly when there is one.
StateMatchesTarget ==
  /\ state \in Following => target.who # NoOne
  /\ target.who # NoOne => mode = "track" /\ state \in Following \cup {"fault"}

\* Type correctness and the agreement of state and target, in every window of the loop.
TrackingInv == TypeOK /\ StateMatchesTarget

\* The body turns only for a person who was detected as often as an acquisition takes
\* since manual control last took over, even when tracking is resumed at once and a
\* frame of before is still being looked at.
TurnsOnlyForReacquired ==
  [][loop = "asking" /\ loop' = "turning" => seen.times >= AcquireRequired]_vars

\* Another person becomes the target only when that many results since the target was
\* last seen have shown others without the target.
SwitchIsDeliberate ==
  [][target.who # NoOne /\ target'.who \notin {NoOne, target.who}
       => seen'.others >= SwitchRequired]_vars

\* Someone who stays in view alone while tracking is on and nobody talks is followed in
\* the end, whoever was followed before and whatever failure, manual control or pre-emption
\* of the detector came in between.  Only the pre-emption of a pivot, which cancels the
\* loop with it (tracking.py:1100-1101), and a lost lease end that: see the README,
\* section 3.
FollowsWhoStays == \A p \in People :
  <>[](view = {p} /\ mode = "track" /\ ~voice)
    => <>[](target.who = p) \/ <>[](loop \in Lost)

\* docs/architecture.md: the body turns when the error remains large for 1.5 seconds,
\* so it has followed the person for as long.  It does not hold: see the README,
\* section 3.
TurnIsConfirmed ==
  [][loop' = "asking" /\ loop # "asking" => seen'.ticks >= Confirmation]_vars
=============================================================================
