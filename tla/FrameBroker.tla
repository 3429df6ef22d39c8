---------------------------- MODULE FrameBroker ----------------------------
(***************************************************************************)
(* FrameBroker of brain/app/frame_broker.py: the one frame that everybody  *)
(* shares, the lock under which it is fetched, the polling loop and the    *)
(* rate that a consumer may raise.                                         *)
(*                                                                         *)
(* Abstracted: ages are young or due against the interval of now, the      *)
(* leases on the rate are one that is there or not, and a frame is what it *)
(* shows.  The caches of turned and scaled pictures are left out.          *)
(***************************************************************************)
EXTENDS Naturals, Sequences, SequencesExt

CONSTANTS
  Scenes,    \* what there may be to see
  Consumers, \* callers of get_frame other than the polling loop
  Forcing    \* those of them that ask with force_fresh

ASSUME ForcingAssumption == Forcing \subseteq Consumers

VARIABLES
  camera,   \* whether it always answers; never changes
  frame,    \* _frame, with the callers that forced it and had asked when it was taken
  due,      \* the frame is no younger than the interval
  lockLine, \* _lock: its holder and those who wait for it
  at,       \* where every caller is
  view,     \* the frame that a caller was given
  changed,  \* _rate_changed
  outdated  \* the polling loop waits for an interval that is not that of now

brokerVars == <<camera, frame, due, lockLine, at, view, changed, outdated>>
rate == <<changed, outdated>>

Callers == Consumers \cup {"poll"}
Frames == [scene : Scenes, new : SUBSET Forcing]
NoFrame == [scene |-> "none", new |-> {}]

BrokerInit ==
  /\ camera \in BOOLEAN
  /\ frame = NoFrame /\ due = TRUE
  /\ lockLine = <<>>
  /\ at = [c \in Callers |-> "out"]
  /\ view = [c \in Consumers |-> NoFrame]
  /\ changed = FALSE /\ outdated = FALSE

Ages ==
  /\ ~due
  /\ due' = TRUE
  /\ UNCHANGED <<camera, frame, lockLine, at, view, rate>>

-----------------------------------------------------------------------------
\* get_frame, for the caller c.

\* It queues for the lock; frames taken before this are not new to it.
Calls(c) ==
  /\ at[c] = "out"
  /\ at' = [at EXCEPT ![c] = "waits"]
  /\ lockLine' = Append(lockLine, c)
  /\ frame' = [frame EXCEPT !.new = @ \ {c}]

\* It leaves get_frame, and the lock, with or without a frame.
Leaves(c, how) ==
  /\ at' = [at EXCEPT ![c] = how]
  /\ lockLine' = Tail(lockLine)

Given(c, f) == view' = IF c \in Consumers THEN [view EXCEPT ![c] = f] ELSE view

Holds(c) == lockLine # <<>> /\ Head(lockLine) = c

\* Mutant of Cached: a young frame is good enough for everybody.
CachedForAll(c) ==
  /\ Holds(c) /\ at[c] = "waits"
  /\ frame # NoFrame /\ ~due
  /\ Leaves(c, "has") /\ Given(c, frame)
  /\ UNCHANGED <<camera, frame, due, rate>>

\* A young frame is good enough, unless a fresh one is asked for.
Cached(c) ==
  /\ Holds(c) /\ at[c] = "waits"
  /\ frame # NoFrame /\ ~due /\ c \notin Forcing
  /\ Leaves(c, "has") /\ Given(c, frame)
  /\ UNCHANGED <<camera, frame, due, rate>>

\* The next one is fetched, at once or, lock in hand, after what is left of the interval.
Fetches(c) ==
  /\ Holds(c) /\ at[c] = "waits"
  /\ frame.scene = "none" \/ due \/ c \in Forcing
  /\ at' = [at EXCEPT ![c] = "fetches"]
  /\ UNCHANGED <<camera, frame, due, lockLine, view, rate>>

Fetched(c) ==
  /\ at[c] = "fetches"
  /\ \E s \in Scenes :
       frame' = [scene |-> s, new |-> {d \in Forcing : at[d] \in {"waits", "fetches"}}]
  /\ due' = FALSE
  /\ Leaves(c, "has") /\ Given(c, frame')
  /\ UNCHANGED <<camera, rate>>

\* Mutant of FetchFails: the lock is kept.
FetchFailsHolding(c) ==
  /\ at[c] = "fetches" /\ ~camera
  /\ at' = [at EXCEPT ![c] = "failed"]
  /\ UNCHANGED <<camera, frame, due, lockLine, view, rate>>

FetchFails(c) ==
  /\ at[c] = "fetches" /\ ~camera
  /\ Leaves(c, "failed")
  /\ UNCHANGED <<camera, frame, due, view, rate>>

GetFrame(c) == Cached(c) \/ Fetches(c) \/ Fetched(c) \/ FetchFails(c)

-----------------------------------------------------------------------------
\* set_rate_lease: what is young at one rate may be due at another.
SetRate ==
  /\ changed' = TRUE
  /\ outdated' = (at["poll"] = "asleep")
  /\ due' \in BOOLEAN
  /\ UNCHANGED <<camera, frame, lockLine, at, view>>

\* _poll
PollAsks ==
  /\ Calls("poll")
  /\ changed' = FALSE
  /\ UNCHANGED <<camera, due, view, outdated>>

\* It waits for the interval of now, or for the rate to change.
PollWaits ==
  /\ at["poll"] \in {"has", "failed"}
  /\ at' = [at EXCEPT !["poll"] = "asleep"]
  /\ UNCHANGED <<camera, frame, due, lockLine, view, rate>>

PollWakes ==
  /\ at["poll"] = "asleep"
  /\ at' = [at EXCEPT !["poll"] = "out"]
  /\ outdated' = FALSE
  /\ UNCHANGED <<camera, frame, due, lockLine, view, changed>>

Polls == PollAsks \/ PollWaits \/ PollWakes

BrokerNext ==
  \/ Ages \/ SetRate \/ Polls
  \/ \E c \in Callers : GetFrame(c)

BrokerFairness == WF_brokerVars(Polls) /\ \A c \in Callers : WF_brokerVars(GetFrame(c))

-----------------------------------------------------------------------------
BrokerType ==
  /\ frame \in Frames \cup {NoFrame}
  /\ {camera, due, changed, outdated} \subseteq BOOLEAN
  /\ \A i \in DOMAIN lockLine : lockLine[i] \in Callers
  /\ at \in [Callers -> {"out", "waits", "fetches", "has", "failed", "asleep"}]
  /\ view \in [Consumers -> Frames \cup {NoFrame}]

\* The polling loop never sleeps through a change of the rate: the interval it waits
\* for is that of now, or the event that ends the wait is set (frame_broker.py:172-182).
RateIsNoticed == outdated => changed
=============================================================================
