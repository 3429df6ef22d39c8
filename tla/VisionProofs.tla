---------------------------- MODULE VisionProofs ----------------------------
(***************************************************************************)
(* What is proved of Vision, and with it of FrameBroker, for any number of *)
(* questions and scenes: SightInv and the action property AwarenessYields. *)
(*                                                                         *)
(* The inductive invariant has a part for the shared frame (FrameInv: who  *)
(* fetches holds the lock, who was given a frame after forcing one was     *)
(* waiting when it was taken, a stale interval comes with its event), a    *)
(* part for how far everybody has got with theirs (Stages), and one for    *)
(* the lease (LeaseInv) with what the pre-emption relies on (Preempts): a  *)
(* job that infers has the lease, and has been asked to stop if somebody   *)
(* talks or a question is in line that was not when it began.              *)
(***************************************************************************)
EXTENDS Vision, SequenceTheorems, TLAPS

Tasks == Queries \cup {"job"}

FrameInv ==
  /\ lockLine \in Seq(Callers)
  /\ \A c \in Callers : at[c] = "fetches" => Holds(c)
  /\ \A c \in Consumers : at[c] = "has" => view[c] \in Frames
  /\ \A q \in Forcing : at[q] = "has" => q \in view[q].new

PollInv == outdated => changed /\ at["poll"] = "asleep"

\* Whoever is in get_frame is at the point of the code that called it.
Stages ==
  /\ loop # "looks" => at["loop"] = "out"
  /\ job # "none" => loop = "awaits" /\ view["loop"] \in Frames
  /\ \A q \in Queries : query[q] # "looks" => at[q] = "out"
  /\ \A q \in Queries : query[q] = "queued" => view[q] \in Frames /\ q \in view[q].new

Seeing == query \in [Queries -> {"none", "looks", "tries", "queued"}]
JobKinds == job \in {"none", "queued", "infers"}

\* The lease is with a task that asked for it and has not given it back; the job has been
\* asked to stop if a question came or somebody talked since it began to infer.
LeaseInv ==
  /\ line \subseteq Tasks /\ owner \in Tasks \cup {"nobody"} /\ owner \notin line
  /\ "job" \in line => job = "queued"
  /\ owner = "job" => job # "none"
  /\ job = "infers" => owner = "job"
  /\ \A q \in Queries : query[q] = "queued" <=> (q \in line \/ owner = q)
Preempts ==
  /\ outrun \subseteq Queries
  /\ job = "infers" => cancel \/ Waiting \subseteq outrun
  /\ job = "infers" => cancel \/ idle
Doom == doomed => job = "infers"

Flags == {idle, barrier, cancel, doomed} \subseteq BOOLEAN
Stories ==
  /\ preview \in Scenes \cup {"none"}
  /\ latest \in [shown : Scenes, told : Scenes] \cup {NoSnapshot}
  /\ loop \in {"sleeps", "looks", "awaits", "dead"}
  /\ again \in [Queries -> BOOLEAN]

\* The parts of BrokerType with values of their own.
FrameTypes ==
  /\ frame \in Frames \cup {NoFrame}
  /\ at \in [Callers -> {"out", "waits", "fetches", "has", "failed", "asleep"}]
  /\ view \in [Consumers -> Frames \cup {NoFrame}]
FlagTypes == {camera, due, changed, outdated} \subseteq BOOLEAN

SharedInv == FrameTypes /\ FlagTypes /\ FrameInv /\ PollInv
LeasedInv == LeaseInv /\ Preempts /\ Doom
IInv == SharedInv /\ Flags /\ Stories /\ Seeing /\ JobKinds /\ Stages /\ LeasedInv

LEMMA Names ==
  /\ Consumers = Queries \cup {"loop"} /\ Forcing = Queries
  /\ Callers = Queries \cup {"loop", "poll"}
  /\ "loop" \notin Queries /\ "poll" \notin Queries
  /\ "job" \notin Queries /\ "nobody" \notin Tasks
BY QueriesAssumption, NamesAssumption DEF Callers, Tasks

-----------------------------------------------------------------------------
(***************************************************************************)
(* The shared frame.                                                       *)
(***************************************************************************)

LEMMA LineGrows ==
  ASSUME NEW S, NEW s \in Seq(S), NEW c \in S
  PROVE  /\ Append(s, c) \in Seq(S)
         /\ s # <<>> => Append(s, c) # <<>> /\ Head(Append(s, c)) = Head(s)
<1>1. Append(s, c) \in Seq(S) /\ Len(Append(s, c)) = Len(s) + 1 /\ Len(s) \in Nat
  OBVIOUS
<1>2. ASSUME s # <<>> PROVE Append(s, c) # <<>> /\ Head(Append(s, c)) = Head(s)
  <2>1. Len(s) >= 1
    BY <1>2, <1>1, EmptySeq
  <2>2. Append(s, c)[1] = s[1]
    BY <2>1
  <2> QED BY <2>1, <2>2, <1>1
<1> QED BY <1>1, <1>2

LEMMA LineShrinks ==
  ASSUME NEW S, NEW s \in Seq(S), s # <<>>
  PROVE  Tail(s) \in Seq(S)
OBVIOUS

LEMMA LineTypes ==
  ASSUME NEW S, NEW s \in Seq(S)
  PROVE  \A i \in DOMAIN s : s[i] \in S
OBVIOUS

LEMMA BrokerTyped == FrameTypes /\ FlagTypes /\ FrameInv => BrokerType
<1> SUFFICES ASSUME FrameTypes, FlagTypes, FrameInv PROVE BrokerType
  OBVIOUS
<1>1. \A i \in DOMAIN lockLine : lockLine[i] \in Callers
  <2>1. lockLine \in Seq(Callers)
    BY DEF FrameInv
  <2> QED BY <2>1, LineTypes
<1> QED BY <1>1 DEF BrokerType, FrameTypes, FlagTypes

\* A caller gets in line for the lock.
LEMMA CallsKeepFrames ==
  ASSUME FrameTypes, FrameInv, NEW c \in Callers, Calls(c), view' = view
  PROVE  FrameTypes' /\ FrameInv'
<1> USE Names
<1>1. frame' \in Frames \cup {NoFrame}
  <2>1. frame \in [scene : Scenes \cup {"none"}, new : SUBSET Forcing]
    BY DEF FrameTypes, Frames, NoFrame
  <2>2. frame' = [frame EXCEPT !.new = frame.new \ {c}]
    BY DEF Calls
  <2>3. CASE frame \in Frames
    BY <2>2, <2>3 DEF Frames
  <2>4. CASE frame = NoFrame
    BY <2>2, <2>4 DEF NoFrame
  <2> QED BY <2>3, <2>4 DEF FrameTypes
<1>2. at' = [at EXCEPT ![c] = "waits"] /\ at[c] = "out"
  BY DEF Calls
<1>3. FrameTypes'
  BY <1>1, <1>2 DEF FrameTypes
<1>4. /\ lockLine' \in Seq(Callers)
      /\ lockLine # <<>> => lockLine' # <<>> /\ Head(lockLine') = Head(lockLine)
  <2>1. lockLine \in Seq(Callers) /\ lockLine' = Append(lockLine, c)
    BY DEF FrameInv, Calls
  <2> QED BY <2>1, LineGrows
<1>5. ASSUME NEW d \in Callers, at'[d] = "fetches" PROVE Holds(d)'
  BY <1>2, <1>4, <1>5 DEF FrameTypes, FrameInv, Holds
<1>6. ASSUME NEW d \in Consumers, at'[d] = "has" PROVE view'[d] \in Frames
  BY <1>2, <1>6 DEF FrameTypes, FrameInv, Callers
<1>7. ASSUME NEW q \in Forcing, at'[q] = "has" PROVE q \in view'[q].new
  BY <1>2, <1>7 DEF FrameTypes, FrameInv
<1> QED BY <1>3, <1>4, <1>5, <1>6, <1>7 DEF FrameInv

\* It leaves get_frame with what it was given, and the lock with it.
LEMMA LeavingKeepsFrames ==
  ASSUME FrameTypes, FrameInv, NEW c \in Callers, Holds(c), NEW how \in {"has", "failed"},
         Leaves(c, how), frame' \in Frames \cup {NoFrame},
         how = "failed" => view' = view,
         how = "has" => /\ Given(c, frame') /\ frame' \in Frames
                        /\ c \in Forcing => c \in frame'.new
  PROVE  FrameTypes' /\ FrameInv'
<1> USE Names
<1>1. at' = [at EXCEPT ![c] = how] /\ lockLine' = Tail(lockLine)
  BY DEF Leaves
<1>2. /\ view' \in [Consumers -> Frames \cup {NoFrame}]
      /\ \A d \in Consumers : d # c => view'[d] = view[d]
      /\ how = "has" /\ c \in Consumers => view'[c] = frame'
  <2>1. CASE how = "failed"
    BY <2>1 DEF FrameTypes
  <2>2. CASE how = "has" /\ c \in Consumers
    <3>1. view' = [view EXCEPT ![c] = frame']
      BY <2>2 DEF Given
    <3> QED BY <2>2, <3>1 DEF FrameTypes
  <2>3. CASE how = "has" /\ c \notin Consumers
    <3>1. view' = view
      BY <2>3 DEF Given
    <3> QED BY <2>3, <3>1 DEF FrameTypes
  <2> QED BY <2>1, <2>2, <2>3
<1>3. FrameTypes'
  BY <1>1, <1>2 DEF FrameTypes
<1>4. lockLine' \in Seq(Callers)
  <2>1. lockLine \in Seq(Callers) /\ lockLine # <<>>
    BY DEF FrameInv, Holds
  <2> QED BY <2>1, <1>1, LineShrinks
<1>5. ASSUME NEW d \in Callers, at'[d] = "fetches" PROVE Holds(d)'
  <2>1. d # c
    BY <1>1, <1>5 DEF FrameTypes
  <2>2. at[d] = "fetches"
    BY <1>1, <1>5, <2>1 DEF FrameTypes
  <2>3. Holds(d)
    BY <2>2 DEF FrameInv
  <2> QED BY <2>1, <2>3 DEF Holds
<1>6. ASSUME NEW d \in Consumers, at'[d] = "has" PROVE view'[d] \in Frames
  <2>1. CASE d = c
    BY <1>1, <1>2, <1>6, <2>1 DEF FrameTypes, Callers
  <2>2. CASE d # c
    BY <1>1, <1>2, <1>6, <2>2 DEF FrameTypes, FrameInv, Callers
  <2> QED BY <2>1, <2>2
<1>7. ASSUME NEW q \in Forcing, at'[q] = "has" PROVE q \in view'[q].new
  <2>1. CASE q = c
    BY <1>1, <1>2, <1>7, <2>1 DEF FrameTypes
  <2>2. CASE q # c
    BY <1>1, <1>2, <1>7, <2>2 DEF FrameTypes, FrameInv
  <2> QED BY <2>1, <2>2
<1> QED BY <1>3, <1>4, <1>5, <1>6, <1>7 DEF FrameInv

\* What a caller's step in get_frame touches.
LEMMA GetFrameTouches ==
  ASSUME FrameTypes, NEW c \in Callers, GetFrame(c)
  PROVE  /\ at[c] \in {"waits", "fetches"}
         /\ \A d \in Callers : d # c => at'[d] = at[d]
         /\ \A d \in Consumers : d # c => view'[d] = view[d]
         /\ rate' = rate /\ camera' = camera /\ due' \in {due, FALSE}
<1>1. at[c] \in {"waits", "fetches"}
  BY DEF GetFrame, Cached, Fetches, Fetched, FetchFails
<1>2. \E how \in {"has", "failed", "fetches"} : at' = [at EXCEPT ![c] = how]
  BY DEF GetFrame, Cached, Fetches, Fetched, FetchFails, Leaves
<1>3. \A d \in Callers : d # c => at'[d] = at[d]
  BY <1>2 DEF FrameTypes
<1>4. view' = view \/ \E f : Given(c, f)
  BY DEF GetFrame, Cached, Fetches, Fetched, FetchFails
<1>5. \A d \in Consumers : d # c => view'[d] = view[d]
  BY <1>4 DEF FrameTypes, Given
<1>6. rate' = rate /\ camera' = camera /\ due' \in {due, FALSE}
  BY DEF GetFrame, Cached, Fetches, Fetched, FetchFails, rate
<1> QED BY <1>1, <1>3, <1>5, <1>6

LEMMA GetFrameKeepsFrames ==
  ASSUME FrameTypes, FrameInv, NEW c \in Callers, GetFrame(c)
  PROVE  FrameTypes' /\ FrameInv'
<1> USE Names
<1>1. CASE Cached(c)
  <2>1. Holds(c) /\ Leaves(c, "has") /\ Given(c, frame) /\ frame' = frame /\ frame # NoFrame
        /\ c \notin Forcing
    BY <1>1 DEF Cached
  <2>2. frame' \in Frames
    BY <2>1 DEF FrameTypes
  <2>3. Given(c, frame')
    BY <2>1
  <2> QED BY <2>1, <2>2, <2>3, LeavingKeepsFrames
<1>2. CASE Fetches(c)
  <2>1. at' = [at EXCEPT ![c] = "fetches"] /\ Holds(c) /\ lockLine' = lockLine
        /\ frame' = frame /\ view' = view
    BY <1>2 DEF Fetches
  <2>2. FrameTypes'
    BY <2>1 DEF FrameTypes
  <2>3. FrameInv'
    <3>1. ASSUME NEW d \in Callers, at'[d] = "fetches" PROVE Holds(d)'
      <4>1. Holds(d)
        BY <2>1, <3>1 DEF FrameTypes, FrameInv
      <4> QED BY <2>1, <4>1 DEF Holds
    <3>2. ASSUME NEW d \in Consumers, at'[d] = "has" PROVE view'[d] \in Frames
      BY <2>1, <3>2 DEF FrameTypes, FrameInv, Callers
    <3>3. ASSUME NEW q \in Forcing, at'[q] = "has" PROVE q \in view'[q].new
      BY <2>1, <3>3 DEF FrameTypes, FrameInv
    <3>4. lockLine' \in Seq(Callers)
      BY <2>1 DEF FrameInv
    <3> QED BY <3>1, <3>2, <3>3, <3>4 DEF FrameInv
  <2> QED BY <2>2, <2>3
<1>3. CASE Fetched(c)
  <2>1. Holds(c)
    BY <1>3 DEF Fetched, FrameInv
  <2>2. Leaves(c, "has") /\ Given(c, frame')
    BY <1>3 DEF Fetched
  <2>3. PICK s \in Scenes :
          frame' = [scene |-> s, new |-> {d \in Forcing : at[d] \in {"waits", "fetches"}}]
    BY <1>3 DEF Fetched
  <2>4. frame' \in Frames
    BY <2>3 DEF Frames
  <2>5. c \in Forcing => c \in frame'.new
    BY <1>3, <2>3 DEF Fetched
  <2> QED BY <2>1, <2>2, <2>4, <2>5, LeavingKeepsFrames
<1>4. CASE FetchFails(c)
  <2>1. Holds(c)
    BY <1>4 DEF FetchFails, FrameInv
  <2>2. Leaves(c, "failed") /\ frame' = frame /\ view' = view
    BY <1>4 DEF FetchFails
  <2>3. frame' \in Frames \cup {NoFrame}
    BY <2>2 DEF FrameTypes
  <2> QED BY <2>1, <2>2, <2>3, LeavingKeepsFrames
<1> QED BY <1>1, <1>2, <1>3, <1>4 DEF GetFrame

\* A step that changes neither the frame nor the line, and where callers are only the
\* polling loop.
LEMMA PollKeepsFrames ==
  ASSUME FrameTypes, FrameInv, frame' = frame, lockLine' = lockLine, view' = view,
         NEW where \in {"out", "asleep"},
         at' = at \/ at' = [at EXCEPT !["poll"] = where]
  PROVE  FrameTypes' /\ FrameInv'
<1> USE Names
<1>1. /\ at' \in [Callers -> {"out", "waits", "fetches", "has", "failed", "asleep"}]
      /\ \A d \in Callers : at'[d] = at[d] \/ at'[d] = where
  BY DEF FrameTypes
<1>2. FrameTypes'
  BY <1>1 DEF FrameTypes
<1>3. ASSUME NEW d \in Callers, at'[d] = "fetches" PROVE Holds(d)'
  <2>1. Holds(d)
    BY <1>1, <1>3 DEF FrameInv
  <2> QED BY <2>1 DEF Holds
<1>4. ASSUME NEW d \in Consumers, at'[d] = "has" PROVE view'[d] \in Frames
  BY <1>1, <1>4 DEF FrameInv, Callers
<1>5. ASSUME NEW q \in Forcing, at'[q] = "has" PROVE q \in view'[q].new
  BY <1>1, <1>5 DEF FrameInv
<1> QED BY <1>2, <1>3, <1>4, <1>5 DEF FrameInv

\* A step of the broker keeps what it has and what it owes, and changes nothing for a
\* consumer that is not in get_frame.
LEMMA BrokerKeeps ==
  ASSUME SharedInv, BrokerNext
  PROVE  /\ SharedInv'
         /\ \A c \in Consumers : at[c] = "out" => at'[c] = "out" /\ view'[c] = view[c]
<1> USE Names DEF SharedInv
<1>1. CASE Ages
  <2>1. at' = at /\ frame' = frame /\ lockLine' = lockLine /\ view' = view /\ rate' = rate
        /\ camera' = camera /\ due' = TRUE
    BY <1>1 DEF Ages, rate
  <2>2. FrameTypes' /\ FrameInv'
    BY <2>1, PollKeepsFrames
  <2>3. FlagTypes' /\ PollInv'
    BY <2>1 DEF FlagTypes, PollInv, rate
  <2> QED BY <2>1, <2>2, <2>3
<1>2. CASE SetRate
  <2>1. at' = at /\ frame' = frame /\ lockLine' = lockLine /\ view' = view
        /\ camera' = camera
    BY <1>2 DEF SetRate
  <2>2. FrameTypes' /\ FrameInv'
    BY <2>1, PollKeepsFrames
  <2>3. FlagTypes' /\ PollInv'
    BY <1>2 DEF SetRate, FlagTypes, PollInv
  <2> QED BY <2>1, <2>2, <2>3
<1>3. CASE PollAsks
  <2>1. Calls("poll") /\ view' = view /\ "poll" \in Callers
    BY <1>3 DEF PollAsks
  <2>2. FrameTypes' /\ FrameInv'
    BY <2>1, CallsKeepFrames
  <2>3. at["poll"] = "out" /\ at' = [at EXCEPT !["poll"] = "waits"]
    BY <2>1 DEF Calls
  <2>4. ~outdated /\ outdated' = outdated
    BY <1>3, <2>3 DEF PollInv, PollAsks
  <2>5. FlagTypes' /\ PollInv'
    <3>1. FlagTypes'
      BY <1>3 DEF PollAsks, FlagTypes
    <3>2. PollInv'
      BY <2>4 DEF PollInv
    <3> QED BY <3>1, <3>2
  <2>6. \A c \in Consumers : at'[c] = at[c]
    BY <2>3 DEF FrameTypes
  <2> QED BY <2>1, <2>2, <2>5, <2>6
<1>4. CASE PollWaits
  <2>1. at' = [at EXCEPT !["poll"] = "asleep"] /\ frame' = frame /\ lockLine' = lockLine
        /\ view' = view /\ rate' = rate /\ camera' = camera /\ due' = due
    BY <1>4 DEF PollWaits, rate
  <2>2. FrameTypes' /\ FrameInv'
    BY <2>1, PollKeepsFrames
  <2>3. at'["poll"] = "asleep" /\ \A c \in Consumers : at'[c] = at[c]
    BY <2>1 DEF FrameTypes
  <2>4. FlagTypes' /\ PollInv'
    BY <2>1, <2>3 DEF FlagTypes, PollInv, rate
  <2> QED BY <2>1, <2>2, <2>3, <2>4
<1>5. CASE PollWakes
  <2>1. at' = [at EXCEPT !["poll"] = "out"] /\ frame' = frame /\ lockLine' = lockLine
        /\ view' = view /\ outdated' = FALSE /\ changed' = changed /\ camera' = camera
        /\ due' = due
    BY <1>5 DEF PollWakes
  <2>2. FrameTypes' /\ FrameInv'
    BY <2>1, PollKeepsFrames
  <2>3. \A c \in Consumers : at'[c] = at[c]
    BY <2>1 DEF FrameTypes
  <2>4. FlagTypes' /\ PollInv'
    BY <2>1 DEF FlagTypes, PollInv
  <2> QED BY <2>1, <2>2, <2>3, <2>4
<1>6. ASSUME NEW c \in Callers, GetFrame(c)
      PROVE  /\ SharedInv'
             /\ \A d \in Consumers : at[d] = "out" => at'[d] = "out" /\ view'[d] = view[d]
  <2>1. FrameTypes' /\ FrameInv'
    BY <1>6, GetFrameKeepsFrames
  <2>2. /\ at[c] \in {"waits", "fetches"}
        /\ \A d \in Callers : d # c => at'[d] = at[d]
        /\ \A d \in Consumers : d # c => view'[d] = view[d]
        /\ rate' = rate /\ camera' = camera /\ due' \in {due, FALSE}
    BY <1>6, GetFrameTouches
  <2>3. FlagTypes'
    BY <2>2 DEF FlagTypes, rate
  <2>4. PollInv'
    BY <2>2 DEF PollInv, rate
  <2> QED BY <2>1, <2>2, <2>3, <2>4
<1> QED BY <1>1, <1>2, <1>3, <1>4, <1>5, <1>6 DEF BrokerNext, Polls

\* A consumer puts its question to the broker, takes its frame, or lets go of it.
LEMMA AskingKeeps ==
  ASSUME SharedInv, NEW c \in Consumers, Asks(c)
  PROVE  /\ SharedInv' /\ at[c] = "out" /\ view' = view
         /\ \A d \in Consumers : d # c => at'[d] = at[d]
<1> USE Names DEF SharedInv
<1>1. Calls(c) /\ view' = view /\ c \in Callers
  BY DEF Asks, Callers
<1>2. FrameTypes' /\ FrameInv'
  BY <1>1, CallsKeepFrames
<1>3. at' = [at EXCEPT ![c] = "waits"] /\ at[c] = "out"
  BY <1>1 DEF Calls
<1>4. \A d \in Callers : d # c => at'[d] = at[d]
  BY <1>3 DEF FrameTypes
<1>5. PollInv'
  BY <1>4 DEF Asks, PollInv, rate
<1>6. FlagTypes'
  BY DEF Asks, FlagTypes, rate
<1> QED BY <1>1, <1>2, <1>3, <1>4, <1>5, <1>6

LEMMA TakingKeeps ==
  ASSUME SharedInv, NEW c \in Consumers, at[c] \in {"has", "failed"},
         Taken(c), Keeps \/ LetsGo(c)
  PROVE  /\ SharedInv' /\ at'[c] = "out" /\ (Keeps => view' = view)
         /\ \A d \in Consumers : d # c => at'[d] = at[d] /\ view'[d] = view[d]
<1> USE Names DEF SharedInv
<1>1. at' = [at EXCEPT ![c] = "out"] /\ frame' = frame /\ lockLine' = lockLine
      /\ rate' = rate /\ camera' = camera /\ due' = due
  BY DEF Taken, rate
<1>2. \A d \in Callers : d # c => at'[d] = at[d]
  BY <1>1 DEF FrameTypes
<1>3. at'[c] = "out" /\ at' \in [Callers -> {"out", "waits", "fetches", "has", "failed", "asleep"}]
  BY <1>1 DEF FrameTypes
<1>4. view' = view \/ view' = [view EXCEPT ![c] = NoFrame]
  BY DEF Keeps, LetsGo
<1>5. /\ view' \in [Consumers -> Frames \cup {NoFrame}]
      /\ \A d \in Consumers : d # c => view'[d] = view[d]
  BY <1>4 DEF FrameTypes
<1>6. FrameTypes'
  BY <1>1, <1>3, <1>5 DEF FrameTypes
<1>7. FrameInv'
  <2>1. ASSUME NEW d \in Callers, at'[d] = "fetches" PROVE Holds(d)'
    <3>1. Holds(d)
      BY <1>2, <1>3, <2>1 DEF FrameInv
    <3> QED BY <3>1, <1>1 DEF Holds
  <2>2. ASSUME NEW d \in Consumers, at'[d] = "has" PROVE view'[d] \in Frames
    BY <1>2, <1>3, <1>5, <2>2 DEF FrameInv, Callers
  <2>3. ASSUME NEW q \in Forcing, at'[q] = "has" PROVE q \in view'[q].new
    BY <1>2, <1>3, <1>5, <2>3 DEF FrameInv
  <2>4. lockLine' \in Seq(Callers)
    BY <1>1 DEF FrameInv
  <2> QED BY <2>1, <2>2, <2>3, <2>4 DEF FrameInv
<1>8. PollInv'
  BY <1>1, <1>2 DEF PollInv, rate
<1>9. FlagTypes'
  BY <1>1 DEF FlagTypes, rate
<1> QED BY <1>1, <1>2, <1>3, <1>5, <1>6, <1>7, <1>8, <1>9 DEF Keeps

LEMMA LettingGoKeeps ==
  ASSUME SharedInv, NEW c \in Consumers, at[c] = "out", Done(c)
  PROVE  /\ SharedInv' /\ at' = at
         /\ \A d \in Consumers : d # c => view'[d] = view[d]
<1> USE Names DEF SharedInv
<1>1. view' = [view EXCEPT ![c] = NoFrame] /\ frame' = frame /\ lockLine' = lockLine
      /\ rate' = rate /\ camera' = camera /\ due' = due /\ at' = at
  BY DEF Done, LetsGo, rate
<1>2. /\ view' \in [Consumers -> Frames \cup {NoFrame}]
      /\ \A d \in Consumers : d # c => view'[d] = view[d]
  BY <1>1 DEF FrameTypes
<1>3. FrameTypes'
  BY <1>1, <1>2 DEF FrameTypes
<1>4. FrameInv'
  <2>1. ASSUME NEW d \in Callers, at'[d] = "fetches" PROVE Holds(d)'
    <3>1. Holds(d)
      BY <1>1, <2>1 DEF FrameInv
    <3> QED BY <3>1, <1>1 DEF Holds
  <2>2. ASSUME NEW d \in Consumers, at'[d] = "has" PROVE view'[d] \in Frames
    BY <1>1, <1>2, <2>2 DEF FrameInv
  <2>3. ASSUME NEW q \in Forcing, at'[q] = "has" PROVE q \in view'[q].new
    BY <1>1, <1>2, <2>3 DEF FrameInv
  <2>4. lockLine' \in Seq(Callers)
    BY <1>1 DEF FrameInv
  <2> QED BY <2>1, <2>2, <2>3, <2>4 DEF FrameInv
<1>5. PollInv' /\ FlagTypes'
  BY <1>1 DEF PollInv, FlagTypes, rate
<1> QED BY <1>1, <1>2, <1>3, <1>4, <1>5

-----------------------------------------------------------------------------
(***************************************************************************)
(* The lease of the model.                                                 *)
(***************************************************************************)

\* The lease goes to one of l, and to the job only if no question is among them.
Seated(l) ==
  /\ owner' \in l /\ line' = l \ {owner'}
  /\ owner' = "job" => l \cap Queries = {}

LEMMA Serving ==
  ASSUME NEW l, NEW b, l \subseteq Tasks, Lease!Serve(l, b)
  PROVE  Seated(l) /\ barrier' = barrier
<1>1. PICK t \in l : /\ Lease!First(l, b, t)
                     /\ owner' = t /\ line' = l \ {t} /\ barrier' = barrier
  BY DEF Lease!Serve, Lease!Leave
<1>2. ASSUME t = "job", NEW q \in l \cap Queries PROVE FALSE
  <2>1. q \in l \ {t}
    BY <1>2, Names
  <2>2. \/ (IF t = "job" THEN 50 ELSE 25) < (IF q = "job" THEN 50 ELSE 25)
        \/ (IF t = "job" THEN 50 ELSE 25) = (IF q = "job" THEN 50 ELSE 25)
    BY <1>1, <2>1 DEF Lease!First, Tasks
  <2>3. q # "job"
    BY <1>2, Names
  <2> QED BY <1>2, <2>2, <2>3
<1> QED BY <1>1, <1>2 DEF Seated

LEMMA Requesting ==
  ASSUME LeaseInv, NEW t \in Tasks, Lease!Request(t)
  PROVE  /\ t # owner /\ t \notin line /\ barrier' = barrier
         /\ \/ line' = line \cup {t} /\ owner' = owner
            \/ owner = "nobody" /\ Seated(line \cup {t})
<1>1. line \cup {t} \subseteq Tasks
  BY DEF LeaseInv
<1> QED BY <1>1, Serving DEF Lease!Request

LEMMA Returning ==
  ASSUME LeaseInv, Lease!Return
  PROVE  /\ owner # "nobody" /\ barrier' = barrier
         /\ \/ line' = line /\ owner' = "nobody"
            \/ Seated(line)
<1>1. line \subseteq Tasks
  BY DEF LeaseInv
<1> QED BY <1>1, Serving DEF Lease!Return

\* Nothing happens to the lease, to what its users wait for, or to the conversation.
LEMMA QuietLease ==
  ASSUME LeasedInv, line' = line, owner' = owner, job' = job, cancel' = cancel,
         doomed' = doomed, idle' = idle, outrun' = outrun,
         \A q \in Queries : query'[q] = "queued" <=> query[q] = "queued"
  PROVE  LeasedInv'
<1>1. LeaseInv'
  BY DEF LeasedInv, LeaseInv
<1>2. Preempts'
  <2>1. Preempts
    BY DEF LeasedInv
  <2>2. Waiting' = Waiting
    BY DEF Waiting
  <2> QED BY <2>1, <2>2 DEF Preempts
<1>3. Doom'
  BY DEF LeasedInv, Doom
<1> QED BY <1>1, <1>2, <1>3 DEF LeasedInv

\* The lease is given away, or comes back from a task that is done with it.
LEMMA SeatingKeeps ==
  ASSUME LeaseInv, Seated(line), owner = "nobody" \/ owner \in Tasks,
         owner = "job" => job' = "none", owner # "job" => job' = job,
         job' = "infers" => owner = "job",
         \A q \in Queries : query'[q] = "queued" <=> query[q] = "queued" /\ owner # q
  PROVE  /\ LeaseInv'
         /\ owner' = "job" => \A q \in Queries : query'[q] # "queued"
<1> USE Names
<1>1. /\ owner' \in line /\ line' = line \ {owner'} /\ owner' # owner
      /\ owner' = "job" => line \cap Queries = {}
  BY DEF Seated, LeaseInv
<1>2. line' \subseteq Tasks /\ owner' \in Tasks /\ owner' \notin line'
  BY <1>1 DEF LeaseInv
<1>3. "job" \in line => owner # "job" /\ job' = "queued"
  BY DEF LeaseInv
<1>4. \A q \in Queries : query'[q] = "queued" <=> (q \in line' \/ owner' = q)
  BY <1>1 DEF LeaseInv
<1>5. owner' = "job" => \A q \in Queries : query'[q] # "queued"
  BY <1>1 DEF LeaseInv
<1>6. job' # "infers"
  BY DEF LeaseInv
<1> QED BY <1>1, <1>2, <1>3, <1>4, <1>5, <1>6 DEF LeaseInv

LEMMA ReturningKeeps ==
  ASSUME LeaseInv, Lease!Return,
         owner = "job" => job' = "none", owner # "job" => job' = job,
         \A q \in Queries : query'[q] = "queued" <=> query[q] = "queued" /\ owner # q
  PROVE  /\ LeaseInv' /\ barrier' = barrier
         /\ owner' = "job" => \A q \in Queries : query'[q] # "queued"
<1> USE Names
<1>1. /\ owner # "nobody" /\ barrier' = barrier
      /\ \/ line' = line /\ owner' = "nobody"
         \/ Seated(line)
  BY Returning
<1>2. CASE line' = line /\ owner' = "nobody"
  <2>1. "job" \in line => owner # "job"
    BY DEF LeaseInv
  <2>2. job' # "infers"
    BY DEF LeaseInv
  <2>3. \A q \in Queries : query'[q] = "queued" <=> q \in line'
    BY <1>2 DEF LeaseInv
  <2>4. line' \subseteq Tasks /\ "nobody" \notin line'
    BY <1>2 DEF LeaseInv
  <2>5. "job" \in line' => job' = "queued"
    BY <1>2, <2>1 DEF LeaseInv
  <2> QED BY <1>1, <1>2, <2>2, <2>3, <2>4, <2>5 DEF LeaseInv, Tasks
<1>3. CASE Seated(line)
  <2>1. owner \in Tasks
    BY <1>1 DEF LeaseInv
  <2>2. job' = "infers" => owner = "job"
    BY DEF LeaseInv
  <2> QED BY <1>1, <1>3, <2>1, <2>2, SeatingKeeps
<1> QED BY <1>1, <1>2, <1>3

\* A task gets in line, and knows it.
LEMMA RequestingKeeps ==
  ASSUME LeaseInv, NEW t \in Tasks, Lease!Request(t),
         t = "job" => job = "none" /\ job' = IF owner' = "job" THEN "infers" ELSE "queued",
         t # "job" => job' = job,
         \A q \in Queries : query'[q] = "queued" <=> query[q] = "queued" \/ q = t
  PROVE  /\ LeaseInv' /\ barrier' = barrier
         /\ owner' = owner \/ owner = "nobody"
         /\ owner' = "job" /\ owner # "job" => \A q \in Queries : query'[q] # "queued"
<1> USE Names
<1>1. /\ t # owner /\ t \notin line /\ barrier' = barrier
      /\ \/ line' = line \cup {t} /\ owner' = owner
         \/ owner = "nobody" /\ Seated(line \cup {t})
  BY Requesting
<1>2. /\ job' # "none" \/ job' = job
      /\ job' = "infers" => job = "infers" \/ owner' = "job"
      /\ "job" \in line \cup {t} /\ owner' # "job" => job' = "queued"
  BY DEF LeaseInv, Tasks
<1>3. CASE line' = line \cup {t} /\ owner' = owner
  <2>1. line' \subseteq Tasks /\ owner' \in Tasks \cup {"nobody"} /\ owner' \notin line'
    BY <1>1, <1>3 DEF LeaseInv
  <2>2. \A q \in Queries : query'[q] = "queued" <=> (q \in line' \/ owner' = q)
    BY <1>3 DEF LeaseInv
  <2>3. /\ "job" \in line' => job' = "queued"
        /\ owner' = "job" => job' # "none"
        /\ job' = "infers" => owner' = "job"
    BY <1>2, <1>3 DEF LeaseInv
  <2> QED BY <1>1, <1>3, <2>1, <2>2, <2>3 DEF LeaseInv
<1>4. CASE owner = "nobody" /\ Seated(line \cup {t})
  <2>1. /\ owner' \in line \cup {t} /\ line' = (line \cup {t}) \ {owner'}
        /\ owner' = "job" => (line \cup {t}) \cap Queries = {}
    BY <1>4 DEF Seated
  <2>2. line' \subseteq Tasks /\ owner' \in Tasks /\ owner' \notin line'
    BY <2>1 DEF LeaseInv
  <2>3. \A q \in Queries : query'[q] = "queued" <=> (q \in line' \/ owner' = q)
    BY <1>4, <2>1 DEF LeaseInv, Tasks
  <2>4. /\ "job" \in line' => job' = "queued"
        /\ owner' = "job" => job' # "none"
        /\ job' = "infers" => owner' = "job"
    BY <1>2, <1>4, <2>1 DEF LeaseInv
  <2>5. owner' = "job" => \A q \in Queries : query'[q] # "queued"
    BY <2>1, <2>3
  <2> QED BY <1>1, <1>4, <2>2, <2>3, <2>4, <2>5 DEF LeaseInv
<1> QED BY <1>1, <1>3, <1>4

-----------------------------------------------------------------------------
(***************************************************************************)
(* One lemma per action, or per kind of them.                              *)
(***************************************************************************)

Told == Flags /\ Stories /\ Seeing /\ JobKinds
QuietLeases ==
  line' = line /\ owner' = owner /\ job' = job /\ cancel' = cancel /\ doomed' = doomed
  /\ idle' = idle /\ barrier' = barrier /\ outrun' = outrun

LEMMA QuietTypes ==
  ASSUME Flags, JobKinds, QuietLeases
  PROVE  Flags' /\ JobKinds'
BY DEF Flags, JobKinds, QuietLeases

\* The broker or the clock steps, and nothing of the service does.
LEMMA SeesKeeps ==
  ASSUME IInv, Sees PROVE IInv'
<1>1. /\ SharedInv'
      /\ \A c \in Consumers : at[c] = "out" => at'[c] = "out" /\ view'[c] = view[c]
  BY BrokerKeeps DEF IInv, Sees
<1>2. /\ QuietLeases /\ preview' = preview /\ latest' = latest /\ loop' = loop
      /\ query' = query /\ again' = again
  BY DEF Sees, leaseVars, awareness, questions, QuietLeases
<1>3. Told'
  <2>1. Flags' /\ JobKinds'
    BY <1>2, QuietTypes DEF IInv
  <2>2. Stories' /\ Seeing'
    BY <1>2 DEF IInv, Stories, Seeing
  <2> QED BY <2>1, <2>2 DEF Told
<1>4. Stages'
  BY <1>1, <1>2, Names DEF IInv, Stages, QuietLeases
<1>5. LeasedInv'
  BY <1>2, QuietLease DEF IInv, QuietLeases
<1> QED BY <1>1, <1>3, <1>4, <1>5 DEF IInv, Told

\* Nobody looks at anything: only the conversation and the lease change, or the job
\* starts to infer.
NobodyLooks ==
  /\ brokerVars' = brokerVars /\ preview' = preview /\ latest' = latest /\ loop' = loop
  /\ query' = query /\ again' = again
  /\ job' = job \/ (job = "queued" /\ job' = "infers")

LEMMA SameSight ==
  ASSUME IInv, NobodyLooks
  PROVE  SharedInv' /\ Stories' /\ Seeing' /\ JobKinds' /\ Stages'
<1>1. SharedInv'
  BY DEF NobodyLooks, IInv, SharedInv, FrameTypes, FlagTypes, FrameInv, PollInv, Holds, brokerVars
<1>2. Stories' /\ Seeing' /\ JobKinds'
  BY DEF NobodyLooks, IInv, Stories, Seeing, JobKinds
<1>3. Stages'
  BY DEF NobodyLooks, IInv, Stages, brokerVars
<1> QED BY <1>1, <1>2, <1>3

LEMMA TalksKeeps ==
  ASSUME IInv, Talks PROVE IInv'
<1>1. /\ UNCHANGED <<brokerVars, preview, latest, loop, questions>> /\ job' = job
      /\ query' = query /\ again' = again /\ outrun' = outrun
      /\ line' = line /\ owner' = owner /\ idle' = FALSE
      /\ cancel' = (cancel \/ job # "none")
  BY DEF Talks, Lease!Close, questions
<1>2. PICK active \in BOOLEAN :
        barrier' = active /\ doomed' = (doomed \/ (active /\ job = "infers"))
  BY DEF Talks, Lease!Close
<1>3. SharedInv' /\ Stories' /\ Seeing' /\ JobKinds' /\ Stages'
  <2>1. NobodyLooks
    BY <1>1 DEF NobodyLooks
  <2> QED BY <2>1, SameSight
<1>4. Flags'
  BY <1>1, <1>2 DEF IInv, Flags
<1>7. LeaseInv'
  BY <1>1 DEF IInv, LeasedInv, LeaseInv
<1>8. Preempts'
  <2>1. Preempts
    BY DEF IInv, LeasedInv
  <2>2. Waiting' = Waiting
    BY <1>1 DEF Waiting
  <2> QED BY <1>1, <2>1, <2>2 DEF Preempts
<1>9. Doom'
  <2>1. Doom
    BY DEF IInv, LeasedInv
  <2> QED BY <1>1, <1>2, <2>1 DEF Doom
<1> QED BY <1>3, <1>4, <1>7, <1>8, <1>9 DEF IInv, LeasedInv

LEMMA FallsSilentKeeps ==
  ASSUME IInv, FallsSilent PROVE IInv'
<1>1. /\ UNCHANGED <<brokerVars, preview, latest, loop, questions>> /\ job' = job
      /\ query' = query /\ again' = again /\ outrun' = outrun
      /\ cancel' = cancel /\ doomed' = doomed
      /\ line' = line /\ owner' = owner /\ idle' = TRUE /\ barrier' = FALSE
  BY DEF FallsSilent, Lease!Close, questions, awareness
<1>3. SharedInv' /\ Stories' /\ Seeing' /\ JobKinds' /\ Stages'
  <2>1. NobodyLooks
    BY <1>1 DEF NobodyLooks
  <2> QED BY <2>1, SameSight
<1>4. Flags'
  BY <1>1 DEF IInv, Flags
<1>7. LeaseInv'
  BY <1>1 DEF IInv, LeasedInv, LeaseInv
<1>8. Preempts'
  <2>1. Preempts
    BY DEF IInv, LeasedInv
  <2>2. Waiting' = Waiting
    BY <1>1 DEF Waiting
  <2> QED BY <1>1, <2>1, <2>2 DEF Preempts
<1>9. Doom'
  BY <1>1 DEF IInv, LeasedInv, Doom
<1> QED BY <1>3, <1>4, <1>7, <1>8, <1>9 DEF IInv, LeasedInv

LEMMA InfersKeeps ==
  ASSUME IInv, Infers PROVE IInv'
<1>1. /\ UNCHANGED <<brokerVars, preview, latest, loop, query, again>>
      /\ idle' = idle /\ leaseVars' = leaseVars /\ cancel' = cancel /\ doomed' = doomed
      /\ job = "queued" /\ owner = "job" /\ ~cancel /\ idle /\ job' = "infers"
  BY DEF Infers, questions
<1>2. line' = line /\ owner' = owner /\ barrier' = barrier
  BY <1>1 DEF leaseVars
<1>3. SharedInv' /\ Stories' /\ Seeing' /\ JobKinds' /\ Stages'
  <2>1. NobodyLooks
    BY <1>1 DEF NobodyLooks
  <2> QED BY <2>1, SameSight
<1>4. Flags'
  BY <1>1, <1>2 DEF IInv, Flags
<1>7. LeaseInv'
  BY <1>1, <1>2 DEF IInv, LeasedInv, LeaseInv
<1>8. Preempts'
  <2>1. Preempts
    BY DEF IInv, LeasedInv
  <2>2. outrun' = Waiting' /\ outrun' \subseteq Queries
    BY <1>1 DEF Infers, Waiting
  <2> QED BY <1>1, <1>2, <2>1, <2>2 DEF Preempts
<1>9. Doom'
  BY <1>1, <1>2 DEF IInv, LeasedInv, Doom
<1> QED BY <1>3, <1>4, <1>7, <1>8, <1>9 DEF IInv, LeasedInv

LEMMA GrantedKeeps ==
  ASSUME IInv, Granted PROVE IInv'
<1>1. /\ UNCHANGED <<brokerVars, preview, latest, loop, query, again, outrun>> /\ job' = job
      /\ idle' = idle /\ cancel' = cancel /\ doomed' = doomed
  BY DEF Granted, awareness, questions
<1>2. owner = "nobody" /\ Seated(line) /\ barrier' = barrier
  <2>1. line \subseteq Tasks /\ Lease!Serve(line, before) /\ owner = "nobody"
    BY DEF IInv, LeasedInv, LeaseInv, Granted, Lease!Grant
  <2> QED BY <2>1, Serving
<1>3. SharedInv' /\ Stories' /\ Seeing' /\ JobKinds' /\ Stages'
  <2>1. NobodyLooks
    BY <1>1 DEF NobodyLooks
  <2> QED BY <2>1, SameSight
<1>4. Flags'
  BY <1>1, <1>2 DEF IInv, Flags
<1>7. LeaseInv' /\ (owner' = "job" => \A q \in Queries : query'[q] # "queued")
  <2>1. LeaseInv
    BY DEF IInv, LeasedInv
  <2>2. \A q \in Queries : query'[q] = "queued" <=> query[q] = "queued" /\ owner # q
    BY <1>1, <1>2, Names DEF Tasks
  <2>3. job' = "infers" => owner = "job"
    BY <1>1, <2>1 DEF LeaseInv
  <2> QED BY <1>1, <1>2, <2>1, <2>2, <2>3, SeatingKeeps
<1>8. Preempts'
  <2>1. job' # "infers"
    BY <1>1, <1>2 DEF IInv, LeasedInv, LeaseInv
  <2>2. outrun' \subseteq Queries
    BY <1>1 DEF IInv, LeasedInv, Preempts
  <2> QED BY <2>1, <2>2 DEF Preempts
<1>9. Doom'
  BY <1>1, <1>2 DEF IInv, LeasedInv, Doom
<1> QED BY <1>3, <1>4, <1>7, <1>8, <1>9 DEF IInv, LeasedInv

\* The awareness loop.

LEMMA LoopLooks ==
  ASSUME IInv, loop = "looks"
  PROVE  job = "none" /\ owner # "job" /\ "job" \notin line
BY DEF IInv, Stages, LeasedInv, LeaseInv

\* The loop asks for a frame or ends its look at one, and nothing else happens.
LEMMA LoopSteps ==
  ASSUME IInv, SharedInv', QuietLeases, UNCHANGED questions, Stories', job = "none",
         \A q \in Queries : at'[q] = at[q] /\ view'[q] = view[q],
         loop' # "looks" => at'["loop"] = "out"
  PROVE  IInv'
<1>1. query' = query /\ again' = again /\ job' = job
  BY DEF questions, QuietLeases
<1>2. Flags' /\ JobKinds' /\ Seeing'
  BY <1>1, QuietTypes DEF IInv, Seeing
<1>3. Stages'
  BY <1>1 DEF IInv, Stages
<1>4. LeasedInv'
  BY <1>1, QuietLease DEF IInv, QuietLeases
<1> QED BY <1>2, <1>3, <1>4 DEF IInv

LEMMA WakesKeeps ==
  ASSUME IInv, Wakes PROVE IInv'
<1>1. /\ SharedInv' /\ view' = view
      /\ \A d \in Consumers : d # "loop" => at'[d] = at[d]
  BY AskingKeeps, Names DEF IInv, Wakes
<1>2. QuietLeases /\ UNCHANGED questions /\ preview' = preview /\ latest' = latest
      /\ loop = "sleeps" /\ loop' = "looks"
  BY DEF Wakes, leaseVars, questions, QuietLeases
<1>3. Stories'
  BY <1>2 DEF IInv, Stories, questions
<1>4. job = "none"
  BY <1>2 DEF IInv, Stages
<1>5. \A q \in Queries : at'[q] = at[q] /\ view'[q] = view[q]
  BY <1>1, Names
<1> QED BY <1>1, <1>2, <1>3, <1>4, <1>5, LoopSteps

LEMMA LoopTakes ==
  ASSUME IInv, loop = "looks", Taken("loop"), Keeps \/ LetsGo("loop"),
         at["loop"] \in {"has", "failed"}
  PROVE  /\ SharedInv' /\ at'["loop"] = "out" /\ (Keeps => view' = view)
         /\ \A q \in Queries : at'[q] = at[q] /\ view'[q] = view[q]
<1>1. /\ SharedInv' /\ at'["loop"] = "out" /\ (Keeps => view' = view)
      /\ \A d \in Consumers : d # "loop" => at'[d] = at[d] /\ view'[d] = view[d]
  BY TakingKeeps, Names DEF IInv
<1> QED BY <1>1, Names

LEMMA FrameShows ==
  ASSUME SharedInv, NEW c \in Consumers, at[c] = "has"
  PROVE  view[c] \in Frames /\ view[c].scene \in Scenes
BY DEF SharedInv, FrameInv, Frames

LEMMA LoopEndsLook ==
  ASSUME IInv, WakesBlind \/ Squints \/ Carries PROVE IInv'
<1>1. /\ loop = "looks" /\ Taken("loop") /\ LetsGo("loop") /\ at["loop"] \in {"has", "failed"}
      /\ QuietLeases /\ UNCHANGED questions /\ loop' \in {"dead", "sleeps"}
  BY DEF WakesBlind, Squints, Carries, Inspects, leaseVars, questions, QuietLeases
<1>2. /\ SharedInv' /\ at'["loop"] = "out"
      /\ \A q \in Queries : at'[q] = at[q] /\ view'[q] = view[q]
  BY <1>1, LoopTakes
<1>3. Stories'
  <2>1. preview' \in Scenes \cup {"none"}
    <3>1. CASE WakesBlind
      BY <3>1 DEF WakesBlind, IInv, Stories
    <3>2. CASE Squints \/ Carries
      BY <3>2, FrameShows, Names DEF Squints, Carries, Inspects, IInv
    <3> QED BY <3>1, <3>2
  <2>2. latest' \in [shown : Scenes, told : Scenes] \cup {NoSnapshot}
    <3>1. CASE WakesBlind \/ Squints
      BY <3>1 DEF WakesBlind, Squints, IInv, Stories
    <3>2. CASE Carries
      <4>1. view["loop"].scene \in Scenes
        BY <3>2, FrameShows, Names DEF Carries, Inspects, IInv
      <4>2. latest.told \in Scenes
        BY <3>2 DEF Carries, IInv, Stories
      <4> QED BY <3>2, <4>1, <4>2 DEF Carries, Stored
    <3> QED BY <3>1, <3>2
  <2>3. again' = again
    BY <1>1 DEF questions
  <2> QED BY <1>1, <2>1, <2>2, <2>3 DEF IInv, Stories
<1>4. job = "none"
  BY <1>1, LoopLooks
<1> QED BY <1>1, <1>2, <1>3, <1>4, LoopSteps

LEMMA StartsKeeps ==
  ASSUME IInv, Starts PROVE IInv'
<1>1. /\ loop = "looks" /\ at["loop"] = "has" /\ Taken("loop") /\ Keeps
      /\ preview' = view["loop"].scene
      /\ loop' = "awaits" /\ cancel' = FALSE /\ Lease!Request("job")
      /\ job' = IF owner' = "job" THEN "infers" ELSE "queued"
      /\ idle' = idle /\ latest' = latest /\ doomed' = doomed /\ query' = query /\ again' = again
  BY DEF Starts, Inspects
<1>2. /\ SharedInv' /\ at'["loop"] = "out" /\ view' = view
      /\ \A q \in Queries : at'[q] = at[q] /\ view'[q] = view[q]
  BY <1>1, LoopTakes
<1>3. view["loop"] \in Frames /\ view["loop"].scene \in Scenes
  BY <1>1, FrameShows, Names DEF IInv
<1>4. job = "none" /\ owner # "job"
  BY <1>1, LoopLooks
<1>5. /\ LeaseInv' /\ barrier' = barrier
      /\ owner' = owner \/ owner = "nobody"
      /\ owner' = "job" /\ owner # "job" => \A q \in Queries : query'[q] # "queued"
  <2>1. LeaseInv /\ "job" \in Tasks
    BY DEF IInv, LeasedInv, Tasks
  <2>2. \A q \in Queries : query'[q] = "queued" <=> query[q] = "queued" \/ q = "job"
    BY <1>1, Names
  <2> QED BY <1>1, <1>4, <2>1, <2>2, RequestingKeeps
<1>6. Told'
  <2>1. Flags'
    BY <1>1, <1>5 DEF IInv, Flags
  <2>2. Stories' /\ Seeing' /\ JobKinds'
    BY <1>1, <1>3 DEF IInv, Stories, Seeing, JobKinds
  <2> QED BY <2>1, <2>2 DEF Told
<1>7. Stages'
  BY <1>1, <1>2, <1>3 DEF IInv, Stages
<1>8. Preempts'
  <2>1. CASE owner' = "job"
    <3>1. idle' /\ outrun' = Waiting' /\ outrun' \subseteq Queries
      BY <1>1, <2>1 DEF Starts, Waiting
    <3> QED BY <3>1 DEF Preempts
  <2>2. CASE owner' # "job"
    <3>1. job' # "infers" /\ outrun' = outrun
      BY <1>1, <2>2 DEF Starts
    <3>2. outrun \subseteq Queries
      BY DEF IInv, LeasedInv, Preempts
    <3> QED BY <3>1, <3>2 DEF Preempts
  <2> QED BY <2>1, <2>2
<1>9. Doom'
  BY <1>1, <1>4 DEF IInv, LeasedInv, Doom
<1> QED BY <1>2, <1>5, <1>6, <1>7, <1>8, <1>9 DEF IInv, LeasedInv, Told

LEMMA JobEnds ==
  ASSUME IInv, GivesUp \/ Finds \/ JobCancelled PROVE IInv'
<1>1. /\ Lease!Return /\ Done("loop") /\ job' = "none" /\ cancel' = FALSE /\ doomed' = FALSE
      /\ idle' = idle /\ preview' = preview /\ query' = query /\ again' = again
      /\ outrun' = outrun
      /\ loop' = "sleeps"
  BY DEF GivesUp, Finds, JobCancelled, JobOver, questions
<1>2. owner = "job" /\ job # "none"
  <2>1. CASE GivesUp
    BY <2>1 DEF GivesUp, IInv, LeasedInv, LeaseInv, JobKinds
  <2>2. CASE Finds
    BY <2>2 DEF Finds, IInv, LeasedInv, LeaseInv
  <2>3. CASE JobCancelled
    BY <2>3 DEF JobCancelled, IInv, LeasedInv, LeaseInv, Doom
  <2> QED BY <2>1, <2>2, <2>3
<1>3. at["loop"] = "out" /\ view["loop"] \in Frames
  BY <1>2 DEF IInv, Stages
<1>4. /\ SharedInv' /\ at' = at
      /\ \A q \in Queries : view'[q] = view[q]
  BY <1>1, <1>3, LettingGoKeeps, Names DEF IInv
<1>5. /\ LeaseInv' /\ barrier' = barrier
  <2>1. LeaseInv
    BY DEF IInv, LeasedInv
  <2>2. \A q \in Queries : query'[q] = "queued" <=> query[q] = "queued" /\ owner # q
    BY <1>1, <1>2, Names
  <2> QED BY <1>1, <1>2, <2>1, <2>2, ReturningKeeps
<1>6. Told'
  <2>1. latest' \in [shown : Scenes, told : Scenes] \cup {NoSnapshot}
    <3>1. view["loop"].scene \in Scenes
      BY <1>3 DEF Frames
    <3>2. CASE Finds
      BY <3>1, <3>2 DEF Finds, Stored
    <3>3. CASE GivesUp \/ JobCancelled
      BY <3>3 DEF GivesUp, JobCancelled, IInv, Stories
    <3> QED BY <3>2, <3>3
  <2>2. Flags'
    BY <1>1, <1>5 DEF IInv, Flags
  <2>3. Stories' /\ Seeing' /\ JobKinds'
    BY <1>1, <2>1 DEF IInv, Stories, Seeing, JobKinds
  <2> QED BY <2>2, <2>3 DEF Told
<1>7. Stages'
  BY <1>1, <1>3, <1>4 DEF IInv, Stages
<1>8. owner' # "job"
  BY <1>1, <1>5 DEF LeaseInv
<1>9. Preempts' /\ Doom'
  <2>1. outrun' \subseteq Queries
    BY <1>1 DEF IInv, LeasedInv, Preempts
  <2> QED BY <1>1, <2>1 DEF Preempts, Doom
<1> QED BY <1>4, <1>5, <1>6, <1>7, <1>9 DEF IInv, LeasedInv, Told

\* The questions.

LEMMA QuestionSteps ==
  ASSUME IInv, SharedInv', QuietLeases, NEW q \in Queries,
         NEW to \in {"none", "looks", "tries"}, query' = [query EXCEPT ![q] = to],
         query[q] # "queued", to # "looks" => at'[q] = "out",
         Stories', loop' = loop,
         \A d \in Consumers : d # q => at'[d] = at[d] /\ view'[d] = view[d]
  PROVE  IInv'
<1> USE Names
<1>1. Flags' /\ JobKinds'
  BY QuietTypes DEF IInv
<1>2. Seeing' /\ query'[q] = to /\ \A r \in Queries : r # q => query'[r] = query[r]
  BY DEF IInv, Seeing
<1>3. Stages'
  BY <1>2 DEF IInv, Stages, QuietLeases
<1>4. LeasedInv'
  <2>1. \A r \in Queries : query'[r] = "queued" <=> query[r] = "queued"
    BY <1>2
  <2> QED BY <2>1, QuietLease DEF IInv, QuietLeases
<1> QED BY <1>1, <1>2, <1>3, <1>4 DEF IInv

LEMMA AsksKeeps ==
  ASSUME IInv, NEW q \in Queries, Question(q) \/ LooksAgain(q) PROVE IInv'
<1>1. /\ Asks(q) /\ query[q] # "queued" /\ query' = [query EXCEPT ![q] = "looks"]
      /\ QuietLeases /\ preview' = preview /\ latest' = latest /\ loop' = loop
      /\ again' = again \/ again' = [again EXCEPT ![q] = FALSE]
  BY DEF Question, LooksAgain, leaseVars, awareness, QuietLeases
<1>2. /\ SharedInv' /\ view' = view
      /\ \A d \in Consumers : d # q => at'[d] = at[d]
  BY <1>1, AskingKeeps, Names DEF IInv
<1>3. again' \in [Queries -> BOOLEAN]
  BY <1>1 DEF IInv, Stories
<1>4. Stories'
  BY <1>1, <1>3 DEF IInv, Stories
<1> QED BY <1>1, <1>2, <1>4, QuestionSteps

LEMMA RetriesKinds ==
  ASSUME Stories, NEW q \in Queries, Retries(q)
  PROVE  /\ \E to \in {"none", "tries"} : query' = [query EXCEPT ![q] = to]
         /\ again' \in [Queries -> BOOLEAN]
<1>1. CASE again[q]
  BY <1>1 DEF Retries, Stories
<1>2. CASE ~again[q]
  BY <1>2 DEF Retries, Stories
<1> QED BY <1>1, <1>2

LEMMA QueryEndsLook ==
  ASSUME IInv, NEW q \in Queries, QueryBlind(q) \/ Blurred(q) PROVE IInv'
<1>1. /\ query[q] = "looks" /\ Taken(q) /\ LetsGo(q) /\ at[q] \in {"has", "failed"}
      /\ QuietLeases /\ latest' = latest /\ loop' = loop
  BY DEF QueryBlind, Blurred, Inspects, leaseVars, awareness, QuietLeases
<1>2. /\ SharedInv' /\ at'[q] = "out"
      /\ \A d \in Consumers : d # q => at'[d] = at[d] /\ view'[d] = view[d]
  BY <1>1, TakingKeeps, Names DEF IInv
<1>3. /\ \E to \in {"none", "tries"} : query' = [query EXCEPT ![q] = to]
      /\ again' \in [Queries -> BOOLEAN]
  <2>1. CASE QueryBlind(q)
    BY <2>1 DEF QueryBlind, IInv, Stories
  <2>2. CASE Blurred(q)
    BY <2>2, RetriesKinds DEF Blurred, IInv
  <2> QED BY <2>1, <2>2
<1>4. preview' \in Scenes \cup {"none"}
  <2>1. CASE QueryBlind(q)
    BY <2>1 DEF QueryBlind, IInv, Stories
  <2>2. CASE Blurred(q)
    BY <2>2, FrameShows, Names DEF Blurred, Inspects, IInv
  <2> QED BY <2>1, <2>2
<1>5. Stories'
  BY <1>1, <1>3, <1>4 DEF IInv, Stories
<1> QED BY <1>1, <1>2, <1>3, <1>5, QuestionSteps

LEMMA QueuesKeeps ==
  ASSUME IInv, NEW q \in Queries, Queues(q) PROVE IInv'
<1> USE Names
<1>1. /\ query[q] = "looks" /\ at[q] = "has" /\ Taken(q) /\ Keeps
      /\ preview' = view[q].scene
      /\ query' = [query EXCEPT ![q] = "queued"] /\ Lease!Request(q)
      /\ idle' = idle /\ latest' = latest /\ loop' = loop /\ job' = job /\ again' = again
  BY DEF Queues, Inspects
<1>2. cancel' = (cancel \/ job = "infers") /\ doomed' = (doomed \/ job = "infers")
  BY DEF Queues
<1>3. /\ SharedInv' /\ at'[q] = "out" /\ view' = view
      /\ \A d \in Consumers : d # q => at'[d] = at[d]
  BY <1>1, TakingKeeps DEF IInv
<1>4. view[q] \in Frames /\ view[q].scene \in Scenes /\ q \in view[q].new
  <2>1. view[q] \in Frames /\ view[q].scene \in Scenes
    BY <1>1, FrameShows DEF IInv
  <2>2. q \in view[q].new
    BY <1>1 DEF IInv, SharedInv, FrameInv
  <2> QED BY <2>1, <2>2
<1>5. Seeing' /\ query'[q] = "queued" /\ \A r \in Queries : r # q => query'[r] = query[r]
  BY <1>1 DEF IInv, Seeing
<1>6. /\ LeaseInv' /\ barrier' = barrier
      /\ owner' = owner \/ owner = "nobody"
      /\ owner' = "job" /\ owner # "job" => \A r \in Queries : query'[r] # "queued"
  <2>1. LeaseInv /\ q \in Tasks /\ q # "job"
    BY DEF IInv, LeasedInv, Tasks
  <2>2. \A r \in Queries : query'[r] = "queued" <=> query[r] = "queued" \/ r = q
    BY <1>5
  <2> QED BY <1>1, <2>1, <2>2, RequestingKeeps
<1>7. Flags'
  BY <1>1, <1>2, <1>6 DEF IInv, Flags
<1>8. Stories' /\ JobKinds'
  BY <1>1, <1>4 DEF IInv, Stories, JobKinds
<1>9. Stages'
  BY <1>1, <1>3, <1>4, <1>5 DEF IInv, Stages
<1>10. Preempts' /\ Doom'
  <2>1. outrun' \subseteq Queries
    BY <1>1 DEF Queues, IInv, LeasedInv, Preempts
  <2>2. job' = "infers" => cancel'
    BY <1>1, <1>2
  <2>3. Preempts'
    BY <2>1, <2>2 DEF Preempts
  <2>4. Doom'
    BY <1>1, <1>2 DEF IInv, LeasedInv, Doom
  <2> QED BY <2>3, <2>4
<1> QED BY <1>3, <1>5, <1>6, <1>7, <1>8, <1>9, <1>10 DEF IInv, LeasedInv

LEMMA AnsweredKeeps ==
  ASSUME IInv, NEW q \in Queries, Answered(q) PROVE IInv'
<1> USE Names
<1>1. /\ query[q] = "queued" /\ owner = q /\ Lease!Return /\ Done(q)
      /\ idle' = idle /\ preview' = preview
      /\ loop' = loop /\ job' = job /\ cancel' = cancel /\ doomed' = doomed
  BY DEF Answered, awareness
<1>2. at[q] = "out" /\ view[q] \in Frames /\ view[q].scene \in Scenes
  BY <1>1 DEF IInv, Stages, Frames
<1>3. /\ SharedInv' /\ at' = at
      /\ \A d \in Consumers : d # q => view'[d] = view[d]
  BY <1>1, <1>2, LettingGoKeeps DEF IInv
<1>4. PICK to \in {"none", "tries"} : query' = [query EXCEPT ![q] = to]
  <2>1. Stories
    BY DEF IInv
  <2> QED BY <2>1, RetriesKinds DEF Answered
<1>5. again' \in [Queries -> BOOLEAN]
  <2>1. Stories
    BY DEF IInv
  <2> QED BY <2>1, RetriesKinds DEF Answered, Stories
<1>6. latest' \in [shown : Scenes, told : Scenes] \cup {NoSnapshot}
  BY <1>2 DEF Answered, Stored, IInv, Stories
<1>7. Seeing' /\ query'[q] = to /\ \A r \in Queries : r # q => query'[r] = query[r]
  BY <1>4 DEF IInv, Seeing
<1>8. /\ LeaseInv' /\ barrier' = barrier
      /\ owner' = "job" => \A r \in Queries : query'[r] # "queued"
  <2>1. LeaseInv /\ owner # "job"
    BY <1>1 DEF IInv, LeasedInv
  <2>2. \A r \in Queries : query'[r] = "queued" <=> query[r] = "queued" /\ owner # r
    BY <1>1, <1>7
  <2> QED BY <1>1, <2>1, <2>2, ReturningKeeps
<1>9. Told'
  <2>1. Flags'
    BY <1>1, <1>8 DEF IInv, Flags
  <2>2. Stories' /\ JobKinds'
    BY <1>1, <1>5, <1>6 DEF IInv, Stories, JobKinds
  <2> QED BY <1>7, <2>1, <2>2 DEF Told
<1>10. Stages'
  BY <1>1, <1>3, <1>7 DEF IInv, Stages
<1>11. Preempts' /\ Doom'
  <2>1. job # "infers" /\ ~doomed
    BY <1>1 DEF IInv, LeasedInv, LeaseInv, Doom
  <2>2. Preempts'
    BY <1>1, <2>1 DEF Answered, IInv, LeasedInv, Preempts
  <2>3. Doom'
    BY <1>1, <2>1 DEF Doom
  <2> QED BY <2>2, <2>3
<1> QED BY <1>3, <1>8, <1>9, <1>10, <1>11 DEF IInv, LeasedInv, Told

-----------------------------------------------------------------------------
LEMMA SightInit == Init => IInv
<1> SUFFICES ASSUME Init PROVE IInv
  OBVIOUS
<1> USE Names DEF Init, BrokerInit
<1>1. SharedInv
  <2>1. FrameTypes /\ FlagTypes
    BY DEF FrameTypes, FlagTypes
  <2>2. FrameInv /\ PollInv
    BY DEF FrameInv, PollInv, Callers
  <2> QED BY <2>1, <2>2 DEF SharedInv
<1>2. Flags /\ Stories /\ Seeing /\ JobKinds
  BY DEF Flags, Stories, Seeing, JobKinds
<1>3. Stages
  BY DEF Stages, Callers
<1>4. LeasedInv
  BY DEF LeasedInv, LeaseInv, Preempts, Doom, Tasks
<1> QED BY <1>1, <1>2, <1>3, <1>4 DEF IInv

LEMMA SightStep == IInv /\ [Next]_vars => IInv'
<1> SUFFICES ASSUME IInv, [Next]_vars PROVE IInv'
  OBVIOUS
<1>1. CASE Sees
  BY <1>1, SeesKeeps
<1>2. CASE Talks \/ FallsSilent
  BY <1>2, TalksKeeps, FallsSilentKeeps
<1>3. CASE Granted
  BY <1>3, GrantedKeeps
<1>4. CASE Wakes
  BY <1>4, WakesKeeps
<1>5. CASE WakesBlind \/ Squints \/ Carries
  BY <1>5, LoopEndsLook
<1>6. CASE Starts
  BY <1>6, StartsKeeps
<1>7. CASE Infers
  BY <1>7, InfersKeeps
<1>8. CASE GivesUp \/ Finds \/ JobCancelled
  BY <1>8, JobEnds
<1>9. ASSUME NEW q \in Queries,
             Question(q) \/ LooksAgain(q) \/ QueryBlind(q) \/ Blurred(q) \/ Queues(q) \/ Answered(q)
      PROVE  IInv'
  BY <1>9, AsksKeeps, QueryEndsLook, QueuesKeeps, AnsweredKeeps
<1>10. CASE UNCHANGED vars
  <2>1. NobodyLooks /\ QuietLeases
    BY <1>10 DEF vars, leaseVars, awareness, questions, NobodyLooks, QuietLeases
  <2>2. SharedInv' /\ Stories' /\ Seeing' /\ JobKinds' /\ Stages'
    BY <2>1, SameSight
  <2>3. Flags'
    BY <2>1, QuietTypes DEF IInv
  <2>4. LeasedInv'
    BY <2>1, QuietLease DEF IInv, QuietLeases, NobodyLooks
  <2> QED BY <2>2, <2>3, <2>4 DEF IInv
<1> QED BY <1>1, <1>2, <1>3, <1>4, <1>5, <1>6, <1>7, <1>8, <1>9, <1>10 DEF Next

LEMMA SightMeansIt == IInv => SightInv
<1> SUFFICES ASSUME IInv PROVE SightInv
  OBVIOUS
<1>1. BrokerType
  BY BrokerTyped DEF IInv, SharedInv
<1>2. owner = "job" => job # "none"
  BY DEF IInv, LeasedInv, LeaseInv
<1>3. \A q \in Queries : owner = q => query[q] = "queued"
  BY DEF IInv, LeasedInv, LeaseInv
<1>4. TypeOK
  <2>1. outrun \subseteq Queries
    BY DEF IInv, LeasedInv, Preempts
  <2> QED BY <1>1, <1>2, <1>3, <2>1 DEF TypeOK, IInv, Flags, Stories, Seeing, JobKinds
<1>5. FreshIsFresh
  BY DEF FreshIsFresh, IInv, Stages
<1>6. RateIsNoticed
  BY DEF RateIsNoticed, IInv, SharedInv, PollInv
<1> QED BY <1>4, <1>5, <1>6 DEF SightInv

\* Every variable keeps its type; what a question has the model look at was taken after
\* it was put, though the frame is shared and others have it fetched; and the polling
\* loop never sleeps through a change of the rate (frame_broker.py:46-98, 172-182,
\* vision.py:296-340).
THEOREM SightIsFresh == Spec => []SightInv
<1>1. Init => IInv
  BY SightInit
<1>2. IInv /\ [Next]_vars => IInv'
  BY SightStep
<1>3. IInv => SightInv
  BY SightMeansIt
<1> QED BY <1>1, <1>2, <1>3, PTL DEF Spec

LEMMA FindsInQuiet == IInv /\ [Next]_vars => [Finds => idle /\ Waiting \subseteq outrun]_vars
<1> SUFFICES ASSUME IInv, Finds PROVE idle /\ Waiting \subseteq outrun
  OBVIOUS
<1>1. job = "infers" /\ ~cancel
  BY DEF Finds
<1>2. Preempts
  BY DEF IInv, LeasedInv
<1> QED BY <1>1, <1>2 DEF Preempts

\* A background job adds a snapshot only while nobody talks, and while no question waits
\* for the model but those that already did when the job woke up with the lease it had
\* been given: any that comes while the model is at work has it withdrawn
\* (vision.py:369-376, 386-431, resource_lease.py:54-57).
THEOREM JobsYield == Spec => AwarenessYields
<1>1. Init => IInv
  BY SightInit
<1>2. IInv /\ [Next]_vars => IInv'
  BY SightStep
<1>3. IInv /\ [Next]_vars => [Finds => idle /\ Waiting \subseteq outrun]_vars
  BY FindsInQuiet
<1> QED BY <1>1, <1>2, <1>3, PTL DEF Spec, AwarenessYields

============================================================================
