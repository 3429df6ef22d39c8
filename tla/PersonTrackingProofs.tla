------------------------ MODULE PersonTrackingProofs ------------------------
(***************************************************************************)
(* What is proved of PersonTracking, for every set of people, every length *)
(* of the timers and any number of calls, moves, talks and delays:         *)
(* TrackingInv, and the action properties TurnsOnlyForReacquired and       *)
(* SwitchIsDeliberate.                                                     *)
(*                                                                         *)
(* That state and target agree is inductive together with what the code    *)
(* counts on in its windows (Windows): while tracking is suspended there   *)
(* is no target, and a pivot that is still wanted has one.  The action     *)
(* properties rest on what the counters of the code know of what was       *)
(* really seen (Counted).                                                  *)
(***************************************************************************)
EXTENDS PersonTracking, TLAPS

\* While tracking is suspended nobody is followed; a pivot whose generation is the one
\* of now is being asked for or carried out, and for somebody.
Windows ==
  /\ suspended > 0 => target.who = NoOne
  /\ current => target.who # NoOne /\ loop \in {"asking", "turning", "starved"}

\* The counters of the candidates count no more than was seen, and whoever is followed
\* has been seen often enough.
Counted ==
  /\ acquire.count <= seen.times
  /\ target.who # NoOne => seen.times >= AcquireRequired /\ switch.count <= seen.others

Budgets == [commands : 0..MaxCommands, moves : 0..MaxMoves, talks : 0..MaxTalks,
            delays : 0..MaxDelays]
\* The parts of TypeOK that a step may change apart from each other.
WorldType == view \subseteq People /\ budget \in Budgets
LoopType ==
  /\ loop \in {"idle", "probing", "resting", "sleeping", "looking", "telling", "asking",
               "turning"} \cup Lost
  /\ due \in 0..VoiceEvery /\ since \in 0..VoiceEvery
  /\ frame \in [people : SUBSET People, age : 0..Stale]
  /\ mode \in {"off", "track"}
  /\ state \in Following \cup {"off", "searching", "acquiring", "lost", "suspended", "fault"}
WhoType ==
  /\ target \in [who : Persons, age : 0..Stale]
  /\ acquire \in [who : Persons, count : 0..AcquireRequired - 1, age : 0..AcquireWindow + 1]
  /\ switch \in [who : Persons, count : 0..SwitchRequired - 1]
  /\ missing \in 0..Grace + 1
  /\ lost \in [ticks : {NotSet} \cup 0..LostNeutral, neutral : BOOLEAN]
  /\ seen \in [times : 0..AcquireRequired, ticks : 0..Confirmation, others : 0..SwitchRequired]
MotionType ==
  /\ suspended \in 0..Suspension
  /\ excess \in {NotSet} \cup 0..Confirmation
  /\ settling \in 0..Settling
  /\ last \in [dir : Directions \cup {"none"}, ticks : 0..OppositeBlock]
  /\ turn \in Directions \cup {"none"}
FlagType == {voice, doomed, available, current} \subseteq BOOLEAN

TypedParts == WorldType /\ LoopType /\ WhoType /\ MotionType /\ FlagType
IInv == TypedParts /\ StateMatchesTarget /\ Windows /\ Counted
LEMMA TypeParts == TypedParts => TypeOK
BY DEF TypeOK, TypedParts, Budgets, Lost, FlagType, WorldType, LoopType, WhoType, MotionType

LEMMA Bounds ==
  /\ Stale \in Nat /\ Stale > 0
  /\ SearchEvery \in Nat /\ SearchEvery > 0
  /\ StableEvery \in Nat /\ StableEvery > 0
  /\ VoiceEvery \in Nat /\ VoiceEvery > 0
  /\ AcquireRequired \in Nat /\ AcquireRequired > 0
  /\ AcquireWindow \in Nat /\ AcquireWindow > 0
  /\ SwitchRequired \in Nat /\ SwitchRequired > 0
  /\ Grace \in Nat /\ Grace > 0
  /\ Confirmation \in Nat /\ Confirmation > 0
  /\ Settling \in Nat /\ Settling > 0
  /\ OppositeBlock \in Nat /\ OppositeBlock > 0
  /\ LostNeutral \in Nat /\ LostNeutral > 0
  /\ Suspension \in Nat /\ Suspension > 0
  /\ MaxCommands \in Nat
  /\ MaxMoves \in Nat
  /\ MaxTalks \in Nat
  /\ MaxDelays \in Nat
  /\ SearchEvery <= VoiceEvery /\ StableEvery <= VoiceEvery
BY TrackingAssumption

LEMMA Spent ==
  ASSUME budget \in Budgets, NEW what \in {"commands", "moves", "talks", "delays"}, Spend(what)
  PROVE  budget' \in Budgets
<1>1. CASE what = "commands" BY <1>1, TrackingAssumption DEF Spend, Budgets
<1>2. CASE what = "moves" BY <1>2, TrackingAssumption DEF Spend, Budgets
<1>3. CASE what = "talks" BY <1>3, TrackingAssumption DEF Spend, Budgets
<1>4. CASE what = "delays" BY <1>4, TrackingAssumption DEF Spend, Budgets
<1> QED BY <1>1, <1>2, <1>3, <1>4


\* What goes on around the loop, and its steps up to a result.
LEMMA AsideInv ==
  ASSUME IInv, Move \/ Talk \/ Probe \/ Rested \/ NoteSuspension \/ Sleep \/ Look \/ Turn
               \/ Preempted \/ LoopCancelled \/ Starves \/ UNCHANGED vars
  PROVE  IInv'
<1> USE Bounds DEF IInv, TypedParts, Move, Talk, Probe, Rested, NoteSuspension, Sleep, Look, Turn, Preempted, LoopCancelled, Starves, Over, Lost, vars, Top, Interval, world, timers, who, motion,
                   Unseen, NoCandidate, NoSwitch, Nobody, NoFrame, NotSet, Following, Persons, Directions
<1>1. WorldType' /\ FlagType'
  BY Spent DEF WorldType, FlagType, LoopType
<1>2. LoopType'
  BY DEF LoopType, FlagType, WorldType
<1>3. WhoType'
  BY DEF WhoType
<1>4. MotionType'
  BY DEF MotionType
<1>5. StateMatchesTarget' /\ Windows'
  BY DEF StateMatchesTarget, Windows, LoopType, WhoType, MotionType
<1>6. Counted'
  BY DEF Counted, WhoType
<1> QED
  BY <1>1, <1>2, <1>3, <1>4, <1>5, <1>6

\* The calls of others.
LEMMA EnableInv ==
  ASSUME IInv, Enable
  PROVE  IInv'
<1> USE Bounds DEF IInv, TypedParts, Enable, world, timers, who, motion,
                   Unseen, NoCandidate, NoSwitch, Nobody, NoFrame, NotSet, Following, Persons, Directions
<1>1. WorldType' /\ FlagType'
  BY Spent DEF WorldType, FlagType, LoopType
<1>2. LoopType'
  BY DEF LoopType, FlagType, WorldType
<1>3. WhoType'
  BY DEF WhoType
<1>4. MotionType'
  BY DEF MotionType
<1>5. StateMatchesTarget' /\ Windows'
  BY DEF StateMatchesTarget, Windows, LoopType, WhoType, MotionType
<1>6. Counted'
  BY DEF Counted, WhoType
<1> QED
  BY <1>1, <1>2, <1>3, <1>4, <1>5, <1>6

\* The calls of others.
LEMMA StopInv ==
  ASSUME IInv, Stop \/ Suspend
  PROVE  IInv'
<1> USE Bounds DEF IInv, TypedParts, Stop, Suspend, world, timers, who, motion,
                   Unseen, NoCandidate, NoSwitch, Nobody, NoFrame, NotSet, Following, Persons, Directions
<1>1. WorldType' /\ FlagType'
  BY Spent DEF WorldType, FlagType, LoopType
<1>2. LoopType'
  BY DEF LoopType, FlagType, WorldType
<1>3. WhoType'
  BY DEF WhoType
<1>4. MotionType'
  BY DEF MotionType
<1>5. StateMatchesTarget' /\ Windows'
  BY DEF StateMatchesTarget, Windows, LoopType, WhoType, MotionType
<1>6. Counted'
  BY DEF Counted, WhoType
<1> QED
  BY <1>1, <1>2, <1>3, <1>4, <1>5, <1>6

\* Failures.
LEMMA FailsInv ==
  ASSUME IInv, Probed \/ LookFails \/ TurnFails
  PROVE  IInv'
<1> USE Bounds DEF IInv, TypedParts, Probed, LookFails, TurnFails, Over, Fault, world, timers, who, motion,
                   Unseen, NoCandidate, NoSwitch, Nobody, NoFrame, NotSet, Following, Persons, Directions
<1>1. WorldType' /\ FlagType'
  BY Spent DEF WorldType, FlagType, LoopType
<1>2. LoopType'
  <2>1. /\ loop' \in {"idle", "resting"} /\ state' \in {state, "fault"} /\ due' \in {due, 1}
        /\ frame' \in {frame, NoFrame} /\ UNCHANGED <<since, mode>>
    OBVIOUS
  <2> QED
    BY <2>1 DEF LoopType
<1>3. WhoType'
  BY DEF WhoType
<1>4. MotionType'
  BY DEF MotionType
<1>5. StateMatchesTarget' /\ Windows'
  <2>1. state' \in {state, "fault"} /\ UNCHANGED <<mode, target, suspended>>
    OBVIOUS
  <2>2. ~current'
    BY DEF Windows
  <2> QED
    BY <2>1, <2>2 DEF StateMatchesTarget, Windows
<1>6. Counted'
  BY DEF Counted, WhoType
<1> QED
  BY <1>1, <1>2, <1>3, <1>4, <1>5, <1>6

\* Results nobody wants, the ends of pivots.
LEMMA EndsInv ==
  ASSUME IInv, ResultUnwanted \/ TurnRefused \/ Turned
  PROVE  IInv'
<1> USE Bounds DEF IInv, TypedParts, ResultUnwanted, TurnRefused, Turned, Over, world, timers, who, motion,
                   Unseen, NoCandidate, NoSwitch, Nobody, NoFrame, NotSet, Following, Persons, Directions
<1>1. WorldType' /\ FlagType'
  BY Spent DEF WorldType, FlagType, LoopType
<1>2. LoopType'
  BY DEF LoopType, FlagType, WorldType
<1>3. WhoType'
  BY DEF WhoType
<1>4. MotionType'
  BY DEF MotionType
<1>5. StateMatchesTarget' /\ Windows'
  BY DEF StateMatchesTarget, Windows, LoopType, WhoType, MotionType
<1>6. Counted'
  BY DEF Counted, WhoType
<1> QED
  BY <1>1, <1>2, <1>3, <1>4, <1>5, <1>6

\* A tick.
LEMMA TickInv ==
  ASSUME IInv, Tick
  PROVE  IInv'
<1> USE Bounds DEF IInv, TypedParts, Tick, Least, Up, Down, world, motion, NotSet, Directions
<1>1. WorldType' /\ FlagType'
  BY Spent DEF WorldType, FlagType
<1>2. LoopType'
  BY DEF LoopType
<1>3. WhoType'
  BY DEF WhoType
<1>4. MotionType'
  BY DEF MotionType
<1>5. target'.who = target.who /\ (suspended' > 0 => suspended > 0)
  BY DEF WhoType, MotionType
<1>6. StateMatchesTarget' /\ Windows'
  BY <1>5 DEF StateMatchesTarget, Windows
<1>7. Counted'
  BY <1>5 DEF Counted, WhoType
<1> QED
  BY <1>1, <1>2, <1>3, <1>4, <1>6, <1>7

-----------------------------------------------------------------------------
(* The two halves of a result. *)

\* What _update_head_and_body does: a pivot is asked for, or the loop goes on.
LEMMA BodyOutcome ==
  ASSUME TypedParts, ~current, Body("tracking"), suspended' = suspended
  PROVE  /\ loop' \in {"idle", "asking"} /\ state' \in Following
         /\ MotionType' /\ current' \in BOOLEAN
         /\ current' => loop' = "asking"
<1> USE Bounds DEF TypedParts, Body, timers, motion, Following, Directions
<1>1. MotionType'
  BY DEF MotionType, NotSet
<1>2. current' \in BOOLEAN
  BY DEF FlagType
<1>3. /\ loop' \in {"idle", "asking"} /\ state' \in Following
      /\ current' => loop' = "asking"
  OBVIOUS
<1> QED
  BY <1>1, <1>2, <1>3

\* What _handle_missing_target does.
LEMMA MissingOutcome ==
  ASSUME TypedParts, NEW candidate, NEW other, Missing(candidate, other), other.count \in 0..SwitchRequired - 1
  PROVE  /\ loop' = "idle" /\ state' \in {"lost", "searching", "tracking"}
         /\ state' = "tracking" => target.who # NoOne
         /\ acquire' = candidate /\ UNCHANGED <<settling, last, motion>>
         /\ \/ target' = target /\ switch' = other
               /\ (target.who # NoOne => state' = "tracking")
            \/ target' = Nobody /\ switch' = NoSwitch /\ state' = "lost"
         /\ missing' \in 0..Grace + 1
         /\ lost' \in [ticks : {NotSet} \cup 0..LostNeutral, neutral : BOOLEAN]
         /\ excess' \in {excess, NotSet}
<1> USE Bounds DEF TypedParts, Missing
<1>1. lost' \in [ticks : {NotSet} \cup 0..LostNeutral, neutral : BOOLEAN]
  <2>1. \/ \E n \in 0..LostNeutral : lost' = [lost EXCEPT !.ticks = n]
        \/ \E n \in 0..LostNeutral : lost' = [ticks |-> n, neutral |-> TRUE]
        \/ lost' = [ticks |-> 0, neutral |-> FALSE]
        \/ lost' = lost
    BY DEF WhoType, NotSet
  <2>2. lost \in [ticks : {NotSet} \cup 0..LostNeutral, neutral : BOOLEAN] /\ 0 \in 0..LostNeutral
    BY DEF WhoType
  <2>3. CASE \E n \in 0..LostNeutral : lost' = [lost EXCEPT !.ticks = n]
    BY <2>2, <2>3
  <2>4. CASE \E n \in 0..LostNeutral : lost' = [ticks |-> n, neutral |-> TRUE]
    BY <2>4
  <2>5. CASE lost' = [ticks |-> 0, neutral |-> FALSE]
    BY <2>2, <2>5
  <2> QED
    BY <2>1, <2>2, <2>3, <2>4, <2>5
<1>2. missing' \in 0..Grace + 1
  BY DEF WhoType
<1>3. CASE target.who = NoOne
  BY <1>1, <1>2, <1>3
<1>4. CASE target.who # NoOne
  BY <1>1, <1>2, <1>4
<1> QED
  BY <1>3, <1>4
\* A result is no time for a pivot that is still wanted.
LEMMA AtResult ==
  ASSUME IInv, Result
  PROVE  /\ ~current /\ loop = "looking" /\ mode = "track" /\ suspended = 0
         /\ WorldType'
         /\ available' = TRUE /\ frame' = NoFrame
         /\ UNCHANGED <<world, budget, due, since, mode, suspended>>
BY DEF IInv, TypedParts, Windows, Result, WorldType, world

\* It leaves LoopType and FlagType if it does so by what it says of loop, state and current.
LEMMA AfterResult ==
  ASSUME IInv, Result,
         loop' \in {"idle", "telling", "asking"},
         state' \in Following \cup {"searching", "acquiring", "lost"},
         current' \in BOOLEAN
  PROVE  LoopType' /\ FlagType'
<1>1. LoopType'
  <2>1. due' \in 0..VoiceEvery /\ since' \in 0..VoiceEvery /\ mode' \in {"off", "track"}
    BY AtResult DEF IInv, TypedParts, LoopType
  <2>2. frame' \in [people : SUBSET People, age : 0..Stale]
    BY AtResult, Bounds DEF NoFrame
  <2> QED
    BY <2>1, <2>2 DEF LoopType
<1>2. FlagType'
  BY AtResult DEF IInv, TypedParts, FlagType, world
<1> QED
  BY <1>1, <1>2

LEMMA EmptyInv ==
  ASSUME IInv, ResultEmpty
  PROVE  IInv'
<1>1. TypedParts /\ Result /\ ~current /\ loop = "looking" /\ mode = "track"
      /\ UNCHANGED <<seen, mode, suspended>> /\ suspended = 0
  BY AtResult DEF IInv, ResultEmpty
<1>2. /\ Other \in [who : Persons, count : 0..SwitchRequired - 1]
      /\ Other.count \in 0..SwitchRequired - 1
      /\ Other.count = 0 \/ Other = switch
  BY <1>1, Bounds DEF TypedParts, WhoType, Other, NoSwitch, Persons
<1>3. /\ Candidate \in [who : Persons, count : 0..AcquireRequired - 1, age : 0..AcquireWindow + 1]
      /\ Candidate.count = 0 \/ Candidate = acquire
  BY <1>1, Bounds DEF TypedParts, WhoType, Candidate, NoCandidate, Persons
<1>4. /\ loop' = "idle" /\ state' \in {"lost", "searching", "tracking"}
      /\ state' = "tracking" => target.who # NoOne
      /\ acquire' = Candidate /\ UNCHANGED <<settling, last, motion>>
      /\ \/ target' = target /\ switch' = Other
            /\ (target.who # NoOne => state' = "tracking")
         \/ target' = Nobody /\ switch' = NoSwitch /\ state' = "lost"
      /\ missing' \in 0..Grace + 1
      /\ lost' \in [ticks : {NotSet} \cup 0..LostNeutral, neutral : BOOLEAN]
      /\ excess' \in {excess, NotSet}
  BY <1>1, <1>2, MissingOutcome DEF ResultEmpty
<1>5. WhoType'
  BY <1>1, <1>2, <1>3, <1>4, Bounds DEF TypedParts, WhoType, Nobody, NoSwitch, Persons
<1>6. MotionType'
  BY <1>1, <1>4 DEF TypedParts, MotionType, motion
<1>10. ~current' /\ current' \in BOOLEAN
  BY <1>1, <1>4 DEF TypedParts, FlagType, motion
<1>11. /\ loop' \in {"idle", "telling", "asking"}
      /\ state' \in Following \cup {"searching", "acquiring", "lost"}
  BY <1>4 DEF Following
<1>7. WorldType' /\ LoopType' /\ FlagType'
  BY <1>10, <1>11, AtResult, AfterResult DEF ResultEmpty
<1>8. StateMatchesTarget' /\ Windows'
  BY <1>1, <1>4, <1>10 DEF StateMatchesTarget, Windows, Following, Nobody
<1>9. Counted'
  BY <1>1, <1>2, <1>3, <1>4, Bounds DEF IInv, Counted, TypedParts, WhoType, Nobody, NoSwitch
<1> QED
  BY <1>5, <1>6, <1>7, <1>8, <1>9 DEF IInv, TypedParts

LEMMA AcquiresInv ==
  ASSUME IInv, ResultAcquires
  PROVE  IInv'
<1>1. /\ TypedParts /\ Counted /\ Result /\ ~current /\ mode = "track" /\ suspended = 0
      /\ target.who = NoOne /\ UNCHANGED <<timers, motion, mode, suspended>>
  BY AtResult DEF IInv, ResultAcquires
<1>2. PICK p \in frame.people, inTime \in BOOLEAN :
       LET again == Again(p) /\ (Candidate.age = AcquireWindow => inTime)
           count == IF again THEN Candidate.count + 1 ELSE 1
           times == IF again THEN seen.times + 1 ELSE 1
       IN  /\ seen' = [times |-> Least(times, AcquireRequired),
                       ticks |-> IF count < AcquireRequired THEN seen.ticks ELSE 0, others |-> 0]
           /\ IF count < AcquireRequired
              THEN /\ acquire' = [who |-> p, count |-> count,
                                  age |-> IF again THEN Candidate.age ELSE 0]
                   /\ switch' = Other
                   /\ state' = "acquiring" /\ loop' = "idle"
                   /\ UNCHANGED <<target, missing, lost>>
              ELSE /\ Fix(p) /\ acquire' = NoCandidate /\ switch' = NoSwitch
                   /\ state' = "tracking" /\ loop' = "telling"
  BY DEF ResultAcquires
<1> DEFINE again == Again(p) /\ (Candidate.age = AcquireWindow => inTime)
           count == IF again THEN Candidate.count + 1 ELSE 1
           times == IF again THEN seen.times + 1 ELSE 1
<1>3. /\ p \in People /\ p # NoOne /\ frame.age \in 0..Stale
  BY <1>1, TrackingAssumption DEF TypedParts, LoopType
<1>4. /\ Candidate \in [who : Persons, count : 0..AcquireRequired - 1, age : 0..AcquireWindow + 1]
      /\ Candidate.count <= seen.times
      /\ Other \in [who : Persons, count : 0..SwitchRequired - 1]
  BY <1>1, Bounds DEF TypedParts, WhoType, Counted, Candidate, NoCandidate, Persons, Other, NoSwitch
<1>5. count \in Nat /\ times \in Nat /\ count > 0 /\ count <= times
  BY <1>1, <1>4, Bounds DEF TypedParts, WhoType
<1>6. seen' = [times |-> Least(times, AcquireRequired),
               ticks |-> IF count < AcquireRequired THEN seen.ticks ELSE 0, others |-> 0]
  BY <1>2
<1>7. \/ /\ count < AcquireRequired
         /\ acquire' = [who |-> p, count |-> count, age |-> IF again THEN Candidate.age ELSE 0]
         /\ switch' = Other
         /\ state' = "acquiring" /\ loop' = "idle"
         /\ UNCHANGED <<target, missing, lost>>
      \/ /\ count >= AcquireRequired
         /\ Fix(p) /\ acquire' = NoCandidate /\ switch' = NoSwitch
         /\ state' = "tracking" /\ loop' = "telling"
  BY <1>2, <1>5, Bounds
<1>8. (IF again THEN Candidate.age ELSE 0) \in 0..AcquireWindow + 1
  BY <1>4, Bounds
<1> HIDE DEF again, count, times
<1>9. WhoType'
  <2>1. seen' \in [times : 0..AcquireRequired, ticks : 0..Confirmation, others : 0..SwitchRequired]
    BY <1>1, <1>5, <1>6, Bounds DEF TypedParts, WhoType, Least
  <2>2. /\ target \in [who : Persons, age : 0..Stale] /\ missing \in 0..Grace + 1
        /\ lost \in [ticks : {NotSet} \cup 0..LostNeutral, neutral : BOOLEAN]
    BY <1>1 DEF TypedParts, WhoType
  <2>3. /\ [who |-> p, age |-> frame.age] \in [who : Persons, age : 0..Stale]
        /\ NoCandidate \in [who : Persons, count : 0..AcquireRequired - 1, age : 0..AcquireWindow + 1]
        /\ NoSwitch \in [who : Persons, count : 0..SwitchRequired - 1]
        /\ 0 \in 0..Grace + 1
    BY <1>3, Bounds DEF NoCandidate, NoSwitch, Persons
  <2>4. [ticks |-> NotSet, neutral |-> FALSE] \in [ticks : {NotSet} \cup 0..LostNeutral, neutral : BOOLEAN]
    OBVIOUS
  <2>5. /\ target' \in [who : Persons, age : 0..Stale] /\ missing' \in 0..Grace + 1
        /\ lost' \in [ticks : {NotSet} \cup 0..LostNeutral, neutral : BOOLEAN]
        /\ switch' \in [who : Persons, count : 0..SwitchRequired - 1]
    BY <1>4, <1>7, <2>2, <2>3, <2>4 DEF Fix
  <2>6. acquire' \in [who : Persons, count : 0..AcquireRequired - 1, age : 0..AcquireWindow + 1]
    <3>1. CASE /\ count < AcquireRequired
               /\ acquire' = [who |-> p, count |-> count, age |-> IF again THEN Candidate.age ELSE 0]
      BY <1>3, <1>5, <1>8, <3>1, Bounds DEF Persons
    <3>2. CASE acquire' = NoCandidate
      BY <2>3, <3>2
    <3> QED
      BY <1>7, <3>1, <3>2
  <2> QED
    BY <2>1, <2>5, <2>6 DEF WhoType
<1>10. MotionType'
  BY <1>1 DEF TypedParts, MotionType, timers, motion
<1>14. ~current' /\ current' \in BOOLEAN
  BY <1>1 DEF TypedParts, FlagType, motion
<1>15. /\ loop' \in {"idle", "telling", "asking"}
       /\ state' \in Following \cup {"searching", "acquiring", "lost"}
  BY <1>7 DEF Following
<1>11. WorldType' /\ LoopType' /\ FlagType'
  BY <1>1, <1>14, <1>15, AtResult, AfterResult
<1>12. StateMatchesTarget' /\ Windows'
  BY <1>1, <1>3, <1>7, <1>14 DEF StateMatchesTarget, Windows, Following, Fix
<1>13. Counted'
  BY <1>1, <1>5, <1>6, <1>7, Bounds DEF Counted, NoCandidate, NoSwitch, Fix, Least
<1> QED
  BY <1>9, <1>10, <1>11, <1>12, <1>13 DEF IInv, TypedParts

\* The target is p, as of this frame, and the body is looked after.
LEMMA FollowsInv ==
  ASSUME IInv, Result, NEW p \in frame.people,
         Fix(p), switch' = NoSwitch, acquire' = acquire, Body("tracking"),
         target.who # NoOne,
         seen' \in [times : 0..AcquireRequired, ticks : 0..Confirmation, others : 0..SwitchRequired],
         seen'.times >= seen.times
  PROVE  IInv'
<1>1. TypedParts /\ ~current /\ mode' = "track" /\ suspended' = suspended /\ suspended = 0
  BY AtResult DEF IInv
<1>2. /\ p \in People /\ p # NoOne /\ frame.age \in 0..Stale
  BY <1>1, TrackingAssumption DEF TypedParts, LoopType
<1>3. /\ loop' \in {"idle", "asking"} /\ state' \in Following
      /\ MotionType' /\ current' \in BOOLEAN
      /\ current' => loop' = "asking"
  BY <1>1, BodyOutcome
<1>4. WhoType'
  BY <1>1, <1>2, Bounds DEF TypedParts, WhoType, Fix, NoSwitch, NotSet, Persons
<1>5. WorldType' /\ LoopType' /\ FlagType'
  BY <1>1, <1>3, AtResult, AfterResult
<1>6. StateMatchesTarget' /\ Windows'
  BY <1>1, <1>2, <1>3 DEF StateMatchesTarget, Windows, Fix
<1>7. Counted'
  BY <1>1, <1>4, Bounds DEF IInv, TypedParts, WhoType, Counted, NoSwitch
<1> QED
  BY <1>3, <1>4, <1>5, <1>6, <1>7 DEF IInv, TypedParts

LEMMA MaintainsInv ==
  ASSUME IInv, ResultMaintains
  PROVE  IInv'
<1>1. /\ seen' = [seen EXCEPT !.times = Least(seen.times + 1, AcquireRequired), !.others = 0]
      /\ seen \in [times : 0..AcquireRequired, ticks : 0..Confirmation, others : 0..SwitchRequired]
      /\ target.who # NoOne
  BY TrackingAssumption DEF ResultMaintains, IInv, TypedParts, WhoType, LoopType
<1>2. /\ seen' \in [times : 0..AcquireRequired, ticks : 0..Confirmation, others : 0..SwitchRequired]
      /\ seen'.times >= seen.times
  <2> DEFINE times == Least(seen.times + 1, AcquireRequired)
  <2>1. times \in 0..AcquireRequired /\ times >= seen.times /\ 0 \in 0..SwitchRequired
    BY <1>1, Bounds DEF Least
  <2>2. seen' = [seen EXCEPT !.times = times, !.others = 0]
    BY <1>1
  <2> HIDE DEF times
  <2>3. PICK a \in 0..AcquireRequired, b \in 0..Confirmation, c \in 0..SwitchRequired :
          seen = [times |-> a, ticks |-> b, others |-> c]
    BY <1>1
  <2>4. seen' = [times |-> times, ticks |-> b, others |-> 0] /\ seen.times = a
    BY <2>2, <2>3
  <2> QED
    BY <2>1, <2>3, <2>4
<1> QED
  BY <1>1, <1>2, FollowsInv DEF ResultMaintains, Matched

LEMMA OthersInv ==
  ASSUME IInv, ResultOthers
  PROVE  IInv'
<1>1. PICK p \in frame.people, superior \in BOOLEAN :
       LET count == IF superior THEN OneMore(p) ELSE 1
           others == Least(seen.others + 1, SwitchRequired)
       IN  IF count >= SwitchRequired
           THEN /\ Fix(p) /\ switch' = NoSwitch /\ UNCHANGED acquire
                /\ Body("tracking")
                /\ seen' = [seen EXCEPT !.others = others]
           ELSE /\ Missing(acquire, [who |-> p, count |-> count])
                /\ seen' = [seen EXCEPT !.others = others]
  BY DEF ResultOthers
<1> DEFINE count == IF superior THEN OneMore(p) ELSE 1
           others == Least(seen.others + 1, SwitchRequired)
           other == [who |-> p, count |-> count]
<1>2. /\ TypedParts /\ Counted /\ Result /\ target.who # NoOne /\ p \in People
      /\ ~current /\ mode' = "track" /\ suspended' = suspended /\ suspended = 0
  BY AtResult DEF ResultOthers, IInv, TypedParts, LoopType
<1>3. /\ others \in 0..SwitchRequired /\ count \in Nat /\ count > 0
      /\ count <= seen.others + 1
  BY <1>2, Bounds DEF TypedParts, WhoType, Counted, OneMore, Least
<1>4. /\ seen' = [seen EXCEPT !.others = others]
      /\ \/ count >= SwitchRequired /\ Fix(p) /\ switch' = NoSwitch /\ acquire' = acquire
            /\ Body("tracking")
         \/ count < SwitchRequired /\ Missing(acquire, other)
  BY <1>1, <1>3, Bounds
<1>5. others = Least(seen.others + 1, SwitchRequired)
  OBVIOUS
<1> HIDE DEF count, others
<1>6. /\ seen' \in [times : 0..AcquireRequired, ticks : 0..Confirmation, others : 0..SwitchRequired]
      /\ seen'.times = seen.times /\ seen'.others = others
  BY <1>2, <1>3, <1>4 DEF TypedParts, WhoType
<1>7. CASE count >= SwitchRequired /\ Fix(p) /\ switch' = NoSwitch /\ acquire' = acquire
           /\ Body("tracking")
  <2>1. seen'.times >= seen.times
    BY <1>2, <1>6 DEF TypedParts, WhoType
  <2> QED
    BY <1>2, <1>6, <1>7, <2>1, FollowsInv
<1>8. CASE count < SwitchRequired /\ Missing(acquire, other)
  <2>1. other \in [who : Persons, count : 0..SwitchRequired - 1] /\ other.count = count
        /\ count \in 0..SwitchRequired - 1
    BY <1>2, <1>3, <1>8, Bounds DEF Persons
  <2>2. /\ loop' = "idle" /\ state' \in {"lost", "searching", "tracking"}
        /\ acquire' = acquire /\ UNCHANGED <<settling, last, motion>>
        /\ \/ target' = target /\ switch' = other /\ state' = "tracking"
           \/ target' = Nobody /\ switch' = NoSwitch /\ state' = "lost"
        /\ missing' \in 0..Grace + 1
        /\ lost' \in [ticks : {NotSet} \cup 0..LostNeutral, neutral : BOOLEAN]
        /\ excess' \in {excess, NotSet}
    BY <1>2, <1>8, <2>1, MissingOutcome
  <2> HIDE DEF other
  <2>3. WhoType'
    BY <1>2, <1>6, <2>1, <2>2, Bounds DEF TypedParts, WhoType, Nobody, NoSwitch, Persons
  <2>4. MotionType'
    BY <1>2, <2>2 DEF TypedParts, MotionType, motion
  <2>9. ~current' /\ current' \in BOOLEAN
    BY <1>2, <2>2 DEF TypedParts, FlagType, motion
  <2>10. /\ loop' \in {"idle", "telling", "asking"}
         /\ state' \in Following \cup {"searching", "acquiring", "lost"}
    BY <2>2 DEF Following
  <2>5. WorldType' /\ LoopType' /\ FlagType'
    BY <1>2, <2>9, <2>10, AtResult, AfterResult
  <2>6. StateMatchesTarget' /\ Windows'
    BY <1>2, <2>2, <2>9 DEF StateMatchesTarget, Windows, Following, Nobody
  <2>7. count <= others
    BY <1>2, <1>3, <1>5, <1>8, Bounds DEF TypedParts, WhoType, Least
  <2>8. Counted'
    BY <1>2, <1>6, <2>1, <2>2, <2>7 DEF Counted, Nobody
  <2> QED
    BY <2>3, <2>4, <2>5, <2>6, <2>8 DEF IInv, TypedParts
<1> QED
  BY <1>4, <1>7, <1>8

LEMMA ToldInv ==
  ASSUME IInv, Told
  PROVE  IInv'
<1>1. TypedParts /\ ~current /\ loop = "telling"
      /\ UNCHANGED <<view, voice, doomed, budget, due, since, available, frame, mode, target, acquire, switch, missing,
                     lost, suspended, seen>>
  BY DEF IInv, Windows, Told, world, who
<1>2. WorldType' /\ WhoType' /\ Counted'
  BY <1>1 DEF IInv, TypedParts, WorldType, WhoType, Counted
<1>3. CASE target.who = NoOne
  <2>1. loop' = "idle" /\ UNCHANGED <<state, excess, settling, last, turn, current>>
    BY <1>3 DEF Told, timers, motion
  <2>2. LoopType' /\ FlagType' /\ MotionType'
    BY <1>1, <2>1 DEF TypedParts, LoopType, FlagType, MotionType
  <2>3. StateMatchesTarget' /\ Windows'
    BY <1>1, <2>1 DEF IInv, StateMatchesTarget, Windows
  <2> QED
    BY <1>2, <2>2, <2>3 DEF IInv, TypedParts
<1>4. CASE target.who # NoOne
  <2>1. /\ loop' \in {"idle", "asking"} /\ state' \in Following
        /\ MotionType' /\ current' \in BOOLEAN
        /\ current' => loop' = "asking"
    BY <1>1, <1>4, BodyOutcome DEF Told
  <2>2. LoopType' /\ FlagType'
    BY <1>1, <2>1 DEF TypedParts, LoopType, FlagType
  <2>3. StateMatchesTarget' /\ Windows'
    BY <1>1, <1>4, <2>1 DEF IInv, StateMatchesTarget, Windows
  <2> QED
    BY <1>2, <2>1, <2>2, <2>3 DEF IInv, TypedParts
<1> QED
  BY <1>3, <1>4

-----------------------------------------------------------------------------
LEMMA InitInv == Init => IInv
<1> SUFFICES ASSUME Init PROVE IInv
  OBVIOUS
<1> USE Bounds DEF Init, Nobody, NoCandidate, NoFrame, NoSwitch, Unseen, NotSet
<1>1. WorldType
  BY DEF WorldType, Budgets
<1>6. FlagType
  BY DEF FlagType
<1>2. LoopType
  BY DEF LoopType
<1>3. WhoType
  BY DEF WhoType, Persons
<1>4. MotionType
  BY DEF MotionType
<1>5. StateMatchesTarget /\ Windows /\ Counted
  BY DEF StateMatchesTarget, Windows, Counted, Following
<1> QED
  BY <1>1, <1>2, <1>3, <1>4, <1>5, <1>6 DEF IInv, TypedParts

LEMMA StepInv == IInv /\ [Next]_vars => IInv'
BY AsideInv, TickInv, EnableInv, StopInv, FailsInv, EndsInv,
   EmptyInv, AcquiresInv, MaintainsInv, OthersInv, ToldInv DEF Next

LEMMA AlwaysIInv == Spec => []IInv
BY InitInv, StepInv, PTL DEF Spec

\* In every behaviour, whatever call of enable, stop or suspend overtakes a wait of the
\* loop, the state that is shown speaks of a person exactly when there is one, and every
\* variable has its type (tracking.py:411-456, 554-1144).
THEOREM StateIsTrue == Spec => []TrackingInv
<1>1. IInv => TrackingInv
  BY TypeParts DEF IInv, TrackingInv
<1> QED
  BY AlwaysIInv, <1>1, PTL

\* In every behaviour the body turns only for a person who was detected, since manual
\* control last took over, as often as an acquisition takes (tracking.py:642-657, 877-1050).
THEOREM BodyTurnsForReacquired == Spec => TurnsOnlyForReacquired
<1>1. IInv /\ [Next]_vars =>
        [loop = "asking" /\ loop' = "turning" => seen.times >= AcquireRequired]_vars
  <2> SUFFICES ASSUME IInv, Next, loop = "asking", loop' = "turning"
               PROVE  seen.times >= AcquireRequired
    OBVIOUS
  <2>1. ~(Move \/ Talk \/ Tick \/ Enable \/ Stop \/ Suspend)
    BY DEF Move, Talk, Tick, Enable, Stop, Suspend
  <2>2. ~(Probe \/ Probed \/ Rested \/ NoteSuspension \/ Sleep \/ Look \/ LookFails \/ Told)
    BY DEF Probe, Probed, Rested, NoteSuspension, Top, Sleep, Look, LookFails, Told
  <2>3. ~(ResultUnwanted \/ ResultEmpty \/ ResultAcquires \/ ResultMaintains \/ ResultOthers)
    BY DEF ResultUnwanted, ResultEmpty, ResultAcquires, ResultMaintains, ResultOthers, Result
  <2>4. ~(TurnRefused \/ TurnFails \/ Turned \/ Preempted \/ LoopCancelled \/ Starves)
    BY DEF TurnRefused, TurnFails, Turned, Fault, Preempted, LoopCancelled, Starves
  <2>5. Turn
    BY <2>1, <2>2, <2>3, <2>4 DEF Next
  <2> QED
    BY <2>5 DEF Turn, Authorized, IInv, Counted
<1> QED
  BY AlwaysIInv, <1>1, PTL DEF Spec, TurnsOnlyForReacquired

\* In every behaviour another person becomes the target only when so many results in
\* a row have shown others without the target (tracking.py:731-759).
THEOREM SwitchTakesResults == Spec => SwitchIsDeliberate
<1>1. IInv /\ [Next]_vars =>
        [target.who # NoOne /\ target'.who \notin {NoOne, target.who}
           => seen'.others >= SwitchRequired]_vars
  <2> SUFFICES ASSUME IInv, Next, target.who # NoOne, target'.who \notin {NoOne, target.who}
               PROVE  seen'.others >= SwitchRequired
    OBVIOUS
  <2>1. ~(Move \/ Talk \/ Enable \/ Stop \/ Suspend)
    BY DEF Move, Talk, Enable, Stop, Suspend, who, Nobody
  <2>2. ~Tick
    BY DEF Tick, IInv, TypedParts, WhoType
  <2>3. ~(Probe \/ Probed \/ Rested \/ NoteSuspension \/ Sleep \/ Look \/ LookFails \/ Told)
    BY DEF Probe, Probed, Rested, NoteSuspension, Sleep, Look, LookFails, Told, who
  <2>4. ~(Turn \/ TurnRefused \/ TurnFails \/ Turned \/ Preempted \/ LoopCancelled \/ Starves)
    BY DEF Turn, TurnRefused, TurnFails, Turned, Preempted, LoopCancelled, Starves, who
  <2>5. ~(ResultUnwanted \/ ResultAcquires \/ ResultMaintains)
    BY DEF ResultUnwanted, ResultAcquires, ResultMaintains, Fix, Nobody
  <2>6. ~ResultEmpty
    BY DEF ResultEmpty, Missing, Nobody
  <2>7. ResultOthers
    BY <2>1, <2>2, <2>3, <2>4, <2>5, <2>6 DEF Next
  <2>8. PICK p \in frame.people, superior \in BOOLEAN :
          LET count == IF superior THEN OneMore(p) ELSE 1
              others == Least(seen.others + 1, SwitchRequired)
          IN  /\ seen' = [seen EXCEPT !.others = others]
              /\ ~(count >= SwitchRequired) => Missing(acquire, [who |-> p, count |-> count])
    BY <2>7 DEF ResultOthers
  <2> DEFINE count == IF superior THEN OneMore(p) ELSE 1
             others == Least(seen.others + 1, SwitchRequired)
  <2>9. count >= SwitchRequired
    BY <2>8 DEF Missing, Nobody
  <2>10. others >= SwitchRequired
    BY <2>9, Bounds DEF IInv, TypedParts, WhoType, Counted, OneMore, Least
  <2>11. seen' = [seen EXCEPT !.others = others]
    BY <2>8
  <2> HIDE DEF others
  <2> QED
    BY <2>10, <2>11 DEF IInv, TypedParts, WhoType
<1> QED
  BY AlwaysIInv, <1>1, PTL DEF Spec, SwitchIsDeliberate
=============================================================================
