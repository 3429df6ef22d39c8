------------------------- MODULE EventJournalProofs -------------------------
(***************************************************************************)
(* What is proved of EventJournal, for any callers, capacity, batch size   *)
(* and number of failures and crashes: JournalInv; and of MemoryStore and  *)
(* BrainIngest over it: that they leave the journal to itself,             *)
(* LinksAsJudged and ReadOnceAndForAll.                                    *)
(*                                                                         *)
(* The order of the rows is a matter of everything an event passes: the    *)
(* table, the writer's batch, the queue and the callers that wait for room *)
(* are one line, in which nothing follows an event that was answered       *)
(* before that event was appended (Lined).  A caller that waits for room   *)
(* may be overtaken, but has not been answered (Waiters).  That close()    *)
(* loses nothing rests on its mark being the last thing of all it waits    *)
(* for (Closing).  That no event is left behind or counted twice rests on  *)
(* what the watermark, the batch of the watcher and the memory hold of the *)
(* events at every step of the watcher (WatchInv).                         *)
(***************************************************************************)
EXTENDS BrainIngest, SequenceTheorems, FiniteSetTheorems, WellFoundedInduction, TLAPS

\* Every set of numbers has a least one.  It is what induction rests on: of the
\* counterexamples there would be a smallest.
LEMMA LeastElement ==
  ASSUME NEW T \in SUBSET Nat, T # {}
  PROVE  \E n \in T : \A m \in T : n <= m
<1> DEFINE F == {0..n : n \in T}
<1>1. IsWellFoundedOn(StrictSubsetOrdering(Nat), FiniteSubsetsOf(Nat))
  BY FS_StrictSubsetOrderingWellFounded
<1>2. F \subseteq FiniteSubsetsOf(Nat) /\ F # {}
  <2>1. ASSUME NEW n \in T PROVE 0..n \in FiniteSubsetsOf(Nat)
    <3>1. n \in Int /\ IsFiniteSet(0..n)
      BY FS_Interval
    <3>2. 0..n \in SUBSET Nat
      OBVIOUS
    <3> QED BY <3>1, <3>2 DEF FiniteSubsetsOf
  <2> QED BY <2>1
<1>3. PICK x \in F : \A y \in F : ~(<<y, x>> \in StrictSubsetOrdering(Nat))
  BY <1>1, <1>2, WFMin
<1>4. PICK n \in T : x = 0..n
  OBVIOUS
<1>5. ASSUME NEW m \in T PROVE n <= m
  <2>1. ~(<<0..m, 0..n>> \in StrictSubsetOrdering(Nat))
    BY <1>3, <1>4
  <2>2. ~(0..m \subseteq 0..n /\ 0..m # 0..n)
    BY <2>1 DEF StrictSubsetOrdering
  <2> QED BY <2>2
<1> QED BY <1>5

JournalSpec == JournalInit /\ [][JournalNext]_journal

Outcomes == {"none", "event", "timeout", "error", "lost"}

\* The parts of JournalType.
CallTypes ==
  /\ event \in [Callers -> 0..MaxEvents] /\ waits \in [Callers -> {"no", "put", "commit"}]
  /\ answer \in Seq(Outcomes) /\ Len(answer) <= MaxEvents
  /\ samples \subseteq Known
  /\ told \in Seq(Nat) /\ Len(told) = Len(answer) /\ Len(before) = Len(answer)
ThreadTypes ==
  /\ up \in BOOLEAN /\ stopping \in BOOLEAN
  /\ writer \in {"get", "fill", "full", "check", "gone"} /\ closing \in {"no", "put", "join"}
QueueTypes == queue \in Seq(0..MaxEvents) /\ Len(queue) <= QueueLimit
BatchTypes == batch \in Seq(1..MaxEvents) /\ Len(batch) <= BatchMax
RowTypes ==
  /\ \A r \in numbered : r.seq \in 1..lastSeq /\ r.event \in Known
  /\ rows \subseteq numbered

\* In the line, y may come after x.  Nothing is appended before the mark of close().
Follows(b, x, y) == x # y /\ (x # Stop => y \notin b[x])
Ordered(b, s) == \A i, j \in DOMAIN s : i < j => Follows(b, s[i], s[j])

Ranges ==
  /\ before \in Seq(SUBSET Nat)
  /\ \A x \in Known : \A d \in before[x] : d \in Known /\ d # x /\ answer[d] # "none"
  /\ Elements(queue) \subseteq Known \cup {Stop} /\ Elements(batch) \subseteq Known
  /\ inTime \subseteq Known
  /\ numbered \subseteq [seq : Nat, event : Nat] /\ lastSeq \in Nat

Waiters ==
  /\ \A c \in Callers : waits[c] = "no" <=> event[c] = 0
  /\ \A c \in Callers : event[c] # 0 => event[c] \in Known /\ answer[event[c]] = "none"
  /\ \A c, d \in Callers : event[c] = event[d] => c = d \/ event[c] = 0
  /\ \A c \in Callers : waits[c] = "put" =>
       /\ event[c] \notin Elements(queue) \cup Elements(batch) \cup inTime
       /\ ~Committed(event[c])

Lined ==
  /\ Ordered(before, queue) /\ Ordered(before, batch)
  /\ \A x \in Elements(batch), y \in Elements(queue) : Follows(before, x, y)
  /\ \A r \in numbered : \A y \in Elements(batch) \cup Elements(queue) :
       Follows(before, r.event, y)
  /\ \A r, s \in numbered :
       /\ r.seq < s.seq => Follows(before, r.event, s.event)
       /\ r.seq = s.seq => r = s

NothingInTimeBehindStop ==
  \A i, j \in DOMAIN queue : i < j /\ queue[i] = Stop => queue[j] \notin inTime

Closing ==
  /\ up /\ closing = "no" => writer # "gone" /\ ~stopping /\ inTime = {}
  /\ Stop \in Elements(queue) => up /\ closing = "join"
  /\ ~up => queue = <<>> /\ batch = <<>> /\ inTime = {} /\ \A c \in Callers : event[c] = 0
  /\ writer \in {"get", "check", "gone"} => batch = <<>>
  /\ \A e \in inTime :
       Committed(e) \/ e \in failed \/ e \in Elements(batch) \/ e \in Elements(queue)
  /\ NothingInTimeBehindStop
  /\ writer = "gone" => Elements(queue) \cap inTime = {}

Told == \A e \in Known : told[e] # 0 => [seq |-> told[e], event |-> e] \in numbered

IInv == JournalType /\ Ranges /\ Waiters /\ Lined /\ Closing /\ Told

-----------------------------------------------------------------------------
\* Sequences: one more at the end, the first taken away.
LEMMA OneMore ==
  ASSUME NEW S, NEW s \in Seq(S), NEW e \in S
  PROVE  /\ Append(s, e) \in Seq(S) /\ Len(Append(s, e)) = Len(s) + 1
         /\ Elements(Append(s, e)) = Elements(s) \cup {e}
         /\ DOMAIN Append(s, e) = DOMAIN s \cup {Len(s) + 1}
         /\ \A i \in DOMAIN s : Append(s, e)[i] = s[i] /\ i \in Nat /\ i <= Len(s)
         /\ Append(s, e)[Len(s) + 1] = e /\ Len(s) \in Nat
         /\ \A i, j \in DOMAIN Append(s, e) : i < j => i \in DOMAIN s
<1>1. /\ Append(s, e) \in Seq(S) /\ Len(Append(s, e)) = Len(s) + 1
      /\ \A i \in 1..Len(s) : Append(s, e)[i] = s[i]
      /\ Append(s, e)[Len(s) + 1] = e /\ Len(s) \in Nat /\ DOMAIN s = 1..Len(s)
  BY AppendProperties, LenProperties
<1>2. DOMAIN Append(s, e) = 1..(Len(s) + 1)
  BY <1>1, LenProperties
<1>3. /\ DOMAIN Append(s, e) = DOMAIN s \cup {Len(s) + 1}
      /\ \A i, j \in DOMAIN Append(s, e) : i < j => i \in DOMAIN s
  BY <1>1, <1>2
<1>4. Elements(Append(s, e)) = Elements(s) \cup {e}
  BY <1>1, <1>3 DEF Elements
<1> QED
  BY <1>1, <1>3, <1>4

LEMMA OneLess ==
  ASSUME NEW S, NEW s \in Seq(S), s # <<>>
  PROVE  /\ Tail(s) \in Seq(S) /\ Len(Tail(s)) = Len(s) - 1 /\ Len(s) \in Nat
         /\ Head(s) \in S /\ Elements(s) = {Head(s)} \cup Elements(Tail(s))
         /\ \A i \in DOMAIN Tail(s) : i + 1 \in DOMAIN s /\ Tail(s)[i] = s[i + 1] /\ 1 < i + 1
         /\ 1 \in DOMAIN s /\ s[1] = Head(s)
         /\ \A i, j \in DOMAIN Tail(s) : i < j => i + 1 < j + 1
<1>1. /\ Tail(s) \in Seq(S) /\ Len(Tail(s)) = Len(s) - 1 /\ Head(s) \in S
      /\ \A i \in 1..Len(Tail(s)) : Tail(s)[i] = s[i + 1]
      /\ Len(s) \in Nat /\ DOMAIN s = 1..Len(s) /\ DOMAIN Tail(s) = 1..Len(Tail(s))
      /\ Head(s) = s[1] /\ Len(s) # 0
  BY HeadTailProperties, LenProperties, EmptySeq
<1>2. /\ \A i \in DOMAIN Tail(s) : i + 1 \in DOMAIN s /\ Tail(s)[i] = s[i + 1] /\ 1 < i + 1
      /\ 1 \in DOMAIN s
      /\ \A i, j \in DOMAIN Tail(s) : i < j => i + 1 < j + 1
  BY <1>1
<1>3. \A k \in DOMAIN s : k = 1 \/ (k - 1 \in DOMAIN Tail(s) /\ (k - 1) + 1 = k)
  BY <1>1
<1>4. Elements(s) = {Head(s)} \cup Elements(Tail(s))
  BY <1>1, <1>2, <1>3 DEF Elements
<1> QED
  BY <1>1, <1>2, <1>4

LEMMA NoElements ==
  ASSUME NEW b, NEW e
  PROVE  /\ Elements(<<>>) = {} /\ Ordered(b, <<>>)
         /\ Elements(<<e>>) = {e} /\ Ordered(b, <<e>>)
BY EmptySeq DEF Elements, Ordered

\* The line stays in order when something joins it that may follow all that is in it.
LEMMA OrderedAppend ==
  ASSUME NEW S, NEW s \in Seq(S), NEW e \in S, NEW b, Ordered(b, s),
         \A x \in Elements(s) : Follows(b, x, e)
  PROVE  Ordered(b, Append(s, e))
<1> SUFFICES ASSUME NEW i \in DOMAIN Append(s, e), NEW j \in DOMAIN Append(s, e), i < j
             PROVE  Follows(b, Append(s, e)[i], Append(s, e)[j])
  BY DEF Ordered
<1>1. i \in DOMAIN s /\ Append(s, e)[i] = s[i]
  BY OneMore
<1>2. CASE j \in DOMAIN s
  <2>1. Append(s, e)[j] = s[j]
    BY <1>2, OneMore
  <2> QED BY <1>1, <1>2, <2>1 DEF Ordered
<1>3. CASE j = Len(s) + 1
  <2>1. Append(s, e)[j] = e /\ s[i] \in Elements(s)
    BY <1>1, <1>3, OneMore DEF Elements
  <2> QED BY <1>1, <2>1
<1> QED
  BY <1>2, <1>3, OneMore

LEMMA OrderedTail ==
  ASSUME NEW S, NEW s \in Seq(S), s # <<>>, NEW b, Ordered(b, s)
  PROVE  /\ Ordered(b, Tail(s)) /\ \A y \in Elements(Tail(s)) : Follows(b, Head(s), y)
<1>1. /\ \A i \in DOMAIN Tail(s) : i + 1 \in DOMAIN s /\ Tail(s)[i] = s[i + 1] /\ 1 < i + 1
      /\ \A i, j \in DOMAIN Tail(s) : i < j => i + 1 < j + 1
      /\ 1 \in DOMAIN s /\ s[1] = Head(s)
  BY OneLess
<1> QED
  BY <1>1 DEF Ordered, Elements

\* What has been appended before does not change for the events there are.
LEMMA FollowsKept ==
  ASSUME IInv, \A x \in Known : before'[x] = before[x]
  PROVE  /\ \A x \in Known \cup {Stop} : \A y : Follows(before, x, y) <=> Follows(before', x, y)
         /\ Ordered(before', queue) /\ Ordered(before', batch)
         /\ \A r \in numbered : r.event \in Known
<1>1. \A x \in Known \cup {Stop} : \A y : Follows(before, x, y) <=> Follows(before', x, y)
  BY DEF Follows
<1>2. Ordered(before', queue) /\ Ordered(before', batch)
  BY <1>1 DEF IInv, Lined, Ordered, Ranges, Elements
<1> QED
  BY <1>1, <1>2 DEF IInv, JournalType

LEMMA TypeParts ==
  /\ JournalType <=> CallTypes /\ ThreadTypes /\ QueueTypes /\ BatchTypes /\ RowTypes
  /\ JournalType' <=> CallTypes' /\ ThreadTypes' /\ QueueTypes' /\ BatchTypes' /\ RowTypes'
BY DEF JournalType, Outcomes, CallTypes, ThreadTypes, QueueTypes, BatchTypes, RowTypes

\* The mark of close() is no event.
LEMMA NewStop ==
  ASSUME IInv PROVE Stop \notin Known
BY TypeParts, LenProperties DEF IInv, CallTypes, Known, Stop

LEMMA InitInv == JournalInit => IInv
<1> SUFFICES ASSUME JournalInit PROVE IInv
  OBVIOUS
<1>0. /\ queue = <<>> /\ batch = <<>> /\ answer = <<>> /\ told = <<>> /\ before = <<>>
      /\ numbered = {} /\ inTime = {} /\ up /\ ~stopping /\ writer = "get" /\ closing = "no"
      /\ \A c \in Callers : event[c] = 0 /\ waits[c] = "no"
  BY DEF JournalInit
<1>1. Elements(queue) = {} /\ Elements(batch) = {} /\ Ordered(before, queue) /\ Ordered(before, batch)
  BY <1>0, NoElements
<1>2. /\ answer \in Seq(Outcomes) /\ told \in Seq(Nat) /\ before \in Seq(SUBSET Nat)
      /\ queue \in Seq(0..MaxEvents) /\ batch \in Seq(1..MaxEvents)
      /\ Len(answer) = 0 /\ Len(told) = 0 /\ Len(before) = 0 /\ Len(queue) = 0 /\ Len(batch) = 0
  BY <1>0, EmptySeq
<1>3. Known = {} /\ DOMAIN queue = {}
  BY <1>0, <1>2, LenProperties DEF Known
<1>4. /\ event \in [Callers -> 0..MaxEvents] /\ waits \in [Callers -> {"no", "put", "commit"}]
      /\ samples = {} /\ rows = {} /\ lastSeq = 0 /\ up \in BOOLEAN /\ stopping \in BOOLEAN
  <2>1. 0 \in 0..MaxEvents
    BY JournalAssumption DEF JournalAssumption
  <2>2. event \in [Callers -> 0..MaxEvents]
    BY <2>1 DEF JournalInit
  <2>3. waits \in [Callers -> {"no", "put", "commit"}]
    BY DEF JournalInit
  <2>4. samples = {} /\ rows = {} /\ lastSeq = 0 /\ up \in BOOLEAN /\ stopping \in BOOLEAN
    BY DEF JournalInit
  <2> QED BY <2>2, <2>3, <2>4
<1>5. JournalType
  <2>1. CallTypes
    BY <1>2, <1>3, <1>4, JournalAssumption DEF CallTypes
  <2>2. ThreadTypes /\ RowTypes
    BY <1>0, <1>4 DEF ThreadTypes, RowTypes
  <2>3. QueueTypes /\ BatchTypes
    BY <1>2, JournalAssumption DEF QueueTypes, BatchTypes
  <2> QED BY <2>1, <2>2, <2>3, TypeParts
<1>6. Ranges
  BY <1>0, <1>1, <1>2, <1>3, <1>4 DEF Ranges
<1>7. Waiters /\ Told
  BY <1>0, <1>1, <1>3 DEF Waiters, Told
<1>8. Lined
  BY <1>0, <1>1 DEF Lined
<1>9. Closing
  BY <1>0, <1>1, <1>3 DEF Closing, NothingInTimeBehindStop
<1> QED
  BY <1>5, <1>6, <1>7, <1>8, <1>9 DEF IInv

-----------------------------------------------------------------------------
\* What the actions share.  A call of append adds one event, which nothing had to follow.
LEMMA NewCall ==
  ASSUME IInv, NEW e, NEW how \in Outcomes, e = Len(answer) + 1, e <= MaxEvents,
         answer' = Append(answer, how), Called(e)
  PROVE  /\ e \in 1..MaxEvents /\ e \notin Known /\ e # Stop /\ Stop \notin Known
         /\ answer' \in Seq(Outcomes) /\ Len(answer') <= MaxEvents /\ told' \in Seq(Nat)
         /\ Len(told') = Len(answer') /\ Len(before') = Len(answer')
         /\ before' \in Seq(SUBSET Nat)
         /\ Known' = Known \cup {e} /\ answer'[e] = how /\ told'[e] = 0
         /\ before'[e] = {d \in Known : answer[d] # "none"}
         /\ \A x \in Known : /\ answer'[x] = answer[x] /\ told'[x] = told[x]
                             /\ before'[x] = before[x]
<1> DEFINE B == {d \in Known : answer[d] # "none"}
<1>1. /\ answer \in Seq(Outcomes) /\ told \in Seq(Nat) /\ before \in Seq(SUBSET Nat)
      /\ Len(told) = Len(answer) /\ Len(before) = Len(answer) /\ Len(answer) \in Nat
      /\ Known = 1..Len(answer) /\ DOMAIN told = Known /\ DOMAIN before = Known
  BY TypeParts, LenProperties DEF IInv, CallTypes, Ranges, Known
<1>2. B \in SUBSET Nat
  BY <1>1
<1>3. told' = Append(told, 0) /\ before' = Append(before, B)
  BY DEF Called
<1> HIDE DEF B
<1>4. /\ told' \in Seq(Nat) /\ Len(told') = Len(told) + 1 /\ told'[e] = 0
      /\ \A x \in Known : told'[x] = told[x]
  BY <1>1, <1>3, OneMore
<1>5. /\ before' \in Seq(SUBSET Nat) /\ Len(before') = Len(before) + 1 /\ before'[e] = B
      /\ \A x \in Known : before'[x] = before[x]
  BY <1>1, <1>2, <1>3, OneMore
<1>6. /\ answer' \in Seq(Outcomes) /\ Len(answer') = Len(answer) + 1 /\ answer'[e] = how
      /\ \A x \in Known : answer'[x] = answer[x]
      /\ Known' = Known \cup {e}
  BY <1>1, OneMore DEF Known
<1>7. e \in 1..MaxEvents /\ e \notin Known /\ e # Stop /\ Stop \notin Known
  BY <1>1, JournalAssumption DEF JournalAssumption, Stop
<1>8. Len(told') = Len(answer') /\ Len(before') = Len(answer') /\ Len(answer') <= MaxEvents
  BY <1>1, <1>4, <1>5, <1>6
<1> QED
  BY <1>4, <1>5, <1>6, <1>7, <1>8 DEF B

\* An event gets its answer; only one caller waits for it.
LEMMA Answered ==
  ASSUME IInv, NEW c \in Callers, event[c] # 0, NEW how \in Outcomes, how # "none",
         NEW seq \in Nat, Return(c, how, seq)
  PROVE  /\ CallTypes' /\ Known' = Known /\ event[c] \in Known
         /\ \A x \in Known : answer[x] # "none" => answer'[x] # "none"
         /\ \A d \in Callers \ {c} : event'[d] = event[d] /\ waits'[d] = waits[d]
         /\ event'[c] = 0 /\ waits'[c] = "no"
         /\ \A d \in Callers \ {c} : event[d] # 0 => answer'[event[d]] = "none"
         /\ told'[event[c]] = seq
         /\ \A x \in Known \ {event[c]} : told'[x] = told[x]
<1>1. /\ answer \in Seq(Outcomes) /\ told \in Seq(Nat) /\ Len(told) = Len(answer)
      /\ Len(before) = Len(answer) /\ Len(answer) <= MaxEvents /\ samples \subseteq Known
      /\ Known = 1..Len(answer) /\ Len(answer) \in Nat
      /\ event \in [Callers -> 0..MaxEvents] /\ waits \in [Callers -> {"no", "put", "commit"}]
  BY TypeParts, LenProperties DEF IInv, CallTypes, Known
<1>2. event[c] \in Known /\ answer[event[c]] = "none"
  BY DEF IInv, Waiters
<1>3. /\ answer' \in Seq(Outcomes) /\ Len(answer') = Len(answer)
      /\ \A x \in Known : answer'[x] = IF x = event[c] THEN how ELSE answer[x]
  BY <1>1, <1>2, ExceptSeq DEF Return
<1>4. /\ told' \in Seq(Nat) /\ Len(told') = Len(told)
      /\ \A x \in Known : told'[x] = IF x = event[c] THEN seq ELSE told[x]
  BY <1>1, <1>2, ExceptSeq DEF Return
<1>5. Known' = Known
  BY <1>1, <1>3, LenProperties DEF Known
<1>6. /\ event' \in [Callers -> 0..MaxEvents] /\ waits' \in [Callers -> {"no", "put", "commit"}]
      /\ \A d \in Callers \ {c} : event'[d] = event[d] /\ waits'[d] = waits[d]
      /\ event'[c] = 0 /\ waits'[c] = "no"
  BY <1>1, JournalAssumption DEF Return, JournalAssumption
<1>7. before' = before /\ samples' = samples
  BY DEF Return
<1>8. CallTypes'
  BY <1>1, <1>3, <1>4, <1>5, <1>6, <1>7 DEF CallTypes
<1>9. \A d \in Callers \ {c} : event[d] # 0 => answer'[event[d]] = "none"
  BY <1>3 DEF IInv, Waiters
<1> QED
  BY <1>2, <1>3, <1>4, <1>5, <1>6, <1>8, <1>9

\* Something joins the queue behind all that is in it.
LEMMA Joins ==
  ASSUME IInv, Room, NEW e \in 0..MaxEvents, queue' = Append(queue, e),
         Ordered(before', queue), \A x \in Elements(queue) : Follows(before', x, e)
  PROVE  /\ QueueTypes' /\ Elements(queue)' = Elements(queue) \cup {e}
         /\ Ordered(before, queue)'
         /\ inTime' = inTime /\ e \notin inTime => NothingInTimeBehindStop'
<1>1. queue \in Seq(0..MaxEvents) /\ Len(queue) \in Nat
  BY TypeParts, LenProperties DEF IInv, QueueTypes
<1>2. /\ queue' \in Seq(0..MaxEvents) /\ Len(queue') = Len(queue) + 1
      /\ Elements(queue') = Elements(queue) \cup {e}
      /\ DOMAIN queue' = DOMAIN queue \cup {Len(queue) + 1}
      /\ \A i \in DOMAIN queue : queue'[i] = queue[i]
      /\ queue'[Len(queue) + 1] = e
      /\ \A i, j \in DOMAIN queue' : i < j => i \in DOMAIN queue
  <2> DEFINE S == 0..MaxEvents
  <2>1. queue \in Seq(S) /\ e \in S
    BY <1>1
  <2> HIDE DEF S
  <2> SUFFICES queue' \in Seq(S) /\ Len(queue') = Len(queue) + 1
      /\ Elements(queue') = Elements(queue) \cup {e}
      /\ DOMAIN queue' = DOMAIN queue \cup {Len(queue) + 1}
      /\ \A k \in DOMAIN queue : queue'[k] = queue[k]
      /\ queue'[Len(queue) + 1] = e
      /\ \A i, j \in DOMAIN queue' : i < j => i \in DOMAIN queue
    BY DEF S
  <2> QED BY <2>1, OneMore
<1>3. QueueTypes' /\ Elements(queue)' = Elements(queue) \cup {e}
  <2>1. Len(queue') <= QueueLimit
    BY <1>1, <1>2, JournalAssumption DEF JournalAssumption, Room
  <2> QED BY <1>2, <2>1 DEF QueueTypes, Elements
<1>4. Ordered(before', queue')
  BY <1>1, OrderedAppend
<1>5. inTime' = inTime /\ e \notin inTime => NothingInTimeBehindStop'
  BY <1>2 DEF NothingInTimeBehindStop, IInv, Closing
<1> QED
  BY <1>3, <1>4, <1>5 DEF Ordered

\* The writer takes the first of the queue.
LEMMA Leaves ==
  ASSUME IInv, queue # <<>>, queue' = Tail(queue), before' = before, inTime' = inTime
  PROVE  /\ QueueTypes' /\ Elements(queue) = {Head(queue)} \cup Elements(queue')
         /\ Head(queue) \in 0..MaxEvents
         /\ Ordered(before, queue') /\ \A y \in Elements(queue') : Follows(before, Head(queue), y)
         /\ NothingInTimeBehindStop'
         /\ Head(queue) = Stop => Elements(queue') \cap inTime = {}
<1>1. queue \in Seq(0..MaxEvents) /\ Ordered(before, queue) /\ Len(queue) <= QueueLimit
  BY TypeParts DEF IInv, QueueTypes, Lined
<1>2. /\ queue' \in Seq(0..MaxEvents) /\ Len(queue') = Len(queue) - 1 /\ Len(queue) \in Nat
      /\ Head(queue) \in 0..MaxEvents /\ Elements(queue) = {Head(queue)} \cup Elements(queue')
      /\ \A i \in DOMAIN queue' : i + 1 \in DOMAIN queue /\ queue'[i] = queue[i + 1] /\ 1 < i + 1
      /\ 1 \in DOMAIN queue /\ queue[1] = Head(queue)
      /\ \A i, j \in DOMAIN queue' : i < j => i + 1 < j + 1
  BY <1>1, OneLess
<1>3. QueueTypes'
  BY <1>1, <1>2, JournalAssumption DEF QueueTypes, JournalAssumption
<1>4. Ordered(before, queue') /\ \A y \in Elements(queue') : Follows(before, Head(queue), y)
  BY <1>1, OrderedTail
<1>5. NothingInTimeBehindStop'
  BY <1>2 DEF NothingInTimeBehindStop, IInv, Closing
<1>6. Head(queue) = Stop => Elements(queue') \cap inTime = {}
  BY <1>2 DEF NothingInTimeBehindStop, IInv, Closing, Elements
<1> QED
  BY <1>2, <1>3, <1>4, <1>5, <1>6

\* The line is in order when what joins it was not appended after an answer to it.
LEMMA LineGrows ==
  ASSUME IInv, NEW e, batch' = batch, numbered' = numbered,
         \A x \in Known : before'[x] = before[x],
         Elements(queue)' \subseteq Elements(queue) \cup {e}, Ordered(before, queue)',
         \A x \in Elements(batch) : Follows(before', x, e),
         \A r \in numbered : Follows(before', r.event, e)
  PROVE  Lined'
<1>1. /\ \A x \in Known \cup {Stop} : \A y : Follows(before, x, y) <=> Follows(before', x, y)
      /\ Ordered(before', batch) /\ \A r \in numbered : r.event \in Known
  BY FollowsKept
<1>2. Elements(batch) \subseteq Known /\ Elements(batch)' = Elements(batch)
  BY DEF IInv, Ranges, Elements
<1>3. \A x \in Elements(batch)', y \in Elements(queue)' : Follows(before, x, y)'
  BY <1>1, <1>2 DEF IInv, Lined, Follows
<1>4. \A r \in numbered' : \A y \in Elements(batch)' \cup Elements(queue)' : Follows(before, r.event, y)'
  BY <1>1, <1>2 DEF IInv, Lined, Follows
<1>5. \A r, s \in numbered' :
        /\ r.seq < s.seq => Follows(before, r.event, s.event)'
        /\ r.seq = s.seq => r = s
  BY <1>1 DEF IInv, Lined, Follows
<1>6. Ordered(before, batch)'
  BY <1>1 DEF Ordered, Follows
<1> QED
  BY <1>3, <1>4, <1>5, <1>6 DEF Lined

\* A call of append may put its event into the queue at once.
LEMMA CallEnters ==
  ASSUME IInv, NEW e, NEW how \in Outcomes, e = Len(answer) + 1, e <= MaxEvents,
         answer' = Append(answer, how), Called(e),
         queue' = IF Room THEN Append(queue, e) ELSE queue,
         UNCHANGED <<batch, numbered, inTime, lastSeq, rows>>
  PROVE  /\ QueueTypes' /\ BatchTypes' /\ RowTypes' /\ Ranges' /\ Lined' /\ Told'
         /\ NothingInTimeBehindStop'
         /\ Elements(queue)' \subseteq Elements(queue) \cup {e}
         /\ Elements(queue) \subseteq Elements(queue)'
         /\ ~Room => Elements(queue)' = Elements(queue)
         /\ e \notin inTime \cup Elements(queue) \cup Elements(batch) /\ ~Committed(e)
         /\ Elements(batch)' = Elements(batch)
<1>1. /\ e \in 1..MaxEvents /\ e \notin Known /\ e # Stop /\ Stop \notin Known
      /\ before' \in Seq(SUBSET Nat) /\ Known' = Known \cup {e} /\ answer'[e] = how /\ told'[e] = 0
      /\ before'[e] = {d \in Known : answer[d] # "none"}
      /\ \A x \in Known : /\ answer'[x] = answer[x] /\ told'[x] = told[x]
                          /\ before'[x] = before[x]
  BY NewCall
<1>2. /\ \A x \in Known \cup {Stop} : \A y : Follows(before, x, y) <=> Follows(before', x, y)
      /\ Ordered(before', queue) /\ \A r \in numbered : r.event \in Known
  BY <1>1, FollowsKept
<1>3. \A x \in Known \cup {Stop} : Follows(before', x, e)
  BY <1>1 DEF Follows, IInv, Ranges
<1>4. /\ Elements(queue) \subseteq Known \cup {Stop} /\ Elements(batch) \subseteq Known
      /\ inTime \subseteq Known
  BY DEF IInv, Ranges
<1>5. /\ QueueTypes' /\ Ordered(before, queue)' /\ NothingInTimeBehindStop'
      /\ Elements(queue)' \subseteq Elements(queue) \cup {e}
      /\ Elements(queue) \subseteq Elements(queue)'
      /\ ~Room => Elements(queue)' = Elements(queue)
  <2>1. CASE Room
    <3>1. e \in 0..MaxEvents /\ queue' = Append(queue, e)
      BY <1>1, <2>1
    <3>2. \A x \in Elements(queue) : Follows(before', x, e)
      BY <1>3, <1>4
    <3>3. inTime' = inTime /\ e \notin inTime
      BY <1>1, <1>4
    <3> QED BY <1>2, <2>1, <3>1, <3>2, <3>3, Joins
  <2>2. CASE ~Room
    <3>1. queue' = queue /\ inTime' = inTime
      BY <2>2
    <3>2. QueueTypes' /\ NothingInTimeBehindStop'
      BY <3>1, TypeParts DEF IInv, QueueTypes, Closing, NothingInTimeBehindStop
    <3>3. Elements(queue)' = Elements(queue) /\ Ordered(before, queue)'
      BY <1>2, <3>1 DEF Elements, Ordered
    <3> QED BY <3>2, <3>3
  <2> QED BY <2>1, <2>2
<1>6. Lined'
  BY <1>1, <1>2, <1>3, <1>4, <1>5, LineGrows
<1>7. BatchTypes' /\ RowTypes' /\ Elements(batch)' = Elements(batch)
  BY <1>1, TypeParts DEF IInv, BatchTypes, RowTypes, Elements
<1>8. Ranges'
  <2>1. \A x \in Known' : \A d \in before'[x] : d \in Known' /\ d # x /\ answer'[d] # "none"
    BY <1>1 DEF IInv, Ranges
  <2> QED BY <1>1, <1>4, <1>5, <1>7, <2>1 DEF IInv, Ranges
<1>9. Told'
  BY <1>1 DEF IInv, Told
<1>10. e \notin inTime \cup Elements(queue) \cup Elements(batch) /\ ~Committed(e)
  BY <1>1, <1>2, <1>4 DEF Committed
<1> QED
  BY <1>5, <1>6, <1>7, <1>8, <1>9, <1>10

LEMMA SampleInv ==
  ASSUME IInv, NEW c \in Callers, AppendSample(c)
  PROVE  IInv'
<1> DEFINE e == Len(answer) + 1
<1>1. /\ e <= MaxEvents /\ answer' = Append(answer, "event") /\ "event" \in Outcomes /\ Called(e)
      /\ queue' = IF Room THEN Append(queue, e) ELSE queue
      /\ UNCHANGED <<batch, numbered, inTime, lastSeq, rows>>
  BY DEF AppendSample, Outcomes, table
<1>2. /\ UNCHANGED <<up, event, waits, writer, stopping, closing, failed>>
      /\ samples' = samples \cup {e} /\ up
  BY DEF AppendSample
<1> HIDE DEF e
<1>3. e = Len(answer) + 1
  BY DEF e
<1>4. /\ QueueTypes' /\ BatchTypes' /\ RowTypes' /\ Ranges' /\ Lined' /\ Told'
      /\ NothingInTimeBehindStop'
      /\ Elements(queue)' \subseteq Elements(queue) \cup {e}
      /\ Elements(queue) \subseteq Elements(queue)'
      /\ e \notin inTime \cup Elements(queue) \cup Elements(batch)
      /\ Elements(batch)' = Elements(batch)
  BY <1>1, <1>3, CallEnters
<1>5. /\ e \in 1..MaxEvents /\ e \notin Known /\ e # Stop
      /\ answer' \in Seq(Outcomes) /\ Len(answer') <= MaxEvents /\ told' \in Seq(Nat)
      /\ Len(told') = Len(answer') /\ Len(before') = Len(answer')
      /\ Known' = Known \cup {e} /\ \A x \in Known : answer'[x] = answer[x]
  BY <1>1, <1>3, NewCall
<1>6. CallTypes' /\ ThreadTypes'
  BY <1>2, <1>5, TypeParts DEF IInv, CallTypes, ThreadTypes
<1>7. Waiters'
  BY <1>1, <1>2, <1>4, <1>5 DEF IInv, Waiters, Committed
<1>8. Closing'
  BY <1>1, <1>2, <1>4, <1>5 DEF IInv, Closing, Committed
<1> QED
  BY <1>4, <1>6, <1>7, <1>8, TypeParts DEF IInv

LEMMA DurableInv ==
  ASSUME IInv, NEW c \in Callers, AppendDurable(c)
  PROVE  IInv'
<1> DEFINE e == Len(answer) + 1
<1>1. /\ e <= MaxEvents /\ answer' = Append(answer, "none") /\ "none" \in Outcomes /\ Called(e)
      /\ queue' = IF Room THEN Append(queue, e) ELSE queue
      /\ UNCHANGED <<batch, numbered, inTime, lastSeq, rows>>
  BY DEF AppendDurable, Outcomes, table
<1>2. /\ UNCHANGED <<up, writer, stopping, closing, failed, samples>> /\ up /\ event[c] = 0
      /\ event' = [event EXCEPT ![c] = e]
      /\ waits' = [waits EXCEPT ![c] = IF Room THEN "commit" ELSE "put"]
  BY DEF AppendDurable
<1> HIDE DEF e
<1>3. e = Len(answer) + 1
  BY DEF e
<1>4. /\ QueueTypes' /\ BatchTypes' /\ RowTypes' /\ Ranges' /\ Lined' /\ Told'
      /\ NothingInTimeBehindStop'
      /\ Elements(queue)' \subseteq Elements(queue) \cup {e}
      /\ Elements(queue) \subseteq Elements(queue)'
      /\ ~Room => Elements(queue)' = Elements(queue)
      /\ e \notin inTime \cup Elements(queue) \cup Elements(batch) /\ ~Committed(e)
      /\ Elements(batch)' = Elements(batch)
  BY <1>1, <1>3, CallEnters
<1>5. /\ e \in 1..MaxEvents /\ e \notin Known /\ e # Stop
      /\ answer' \in Seq(Outcomes) /\ Len(answer') <= MaxEvents /\ told' \in Seq(Nat)
      /\ Len(told') = Len(answer') /\ Len(before') = Len(answer') /\ answer'[e] = "none"
      /\ Known' = Known \cup {e} /\ \A x \in Known : answer'[x] = answer[x]
  BY <1>1, <1>3, NewCall
<1>6. /\ event \in [Callers -> 0..MaxEvents] /\ waits \in [Callers -> {"no", "put", "commit"}]
      /\ samples \subseteq Known
  BY TypeParts DEF IInv, CallTypes
<1>7. /\ event' \in [Callers -> 0..MaxEvents] /\ waits' \in [Callers -> {"no", "put", "commit"}]
      /\ event'[c] = e /\ e # 0 /\ waits'[c] = IF Room THEN "commit" ELSE "put"
      /\ \A d \in Callers \ {c} : event'[d] = event[d] /\ waits'[d] = waits[d]
  BY <1>2, <1>5, <1>6
<1>8. CallTypes' /\ ThreadTypes'
  BY <1>2, <1>5, <1>6, <1>7, TypeParts DEF IInv, CallTypes, ThreadTypes
<1>9. Waiters'
  <2>1. \A d \in Callers : waits'[d] = "no" <=> event'[d] = 0
    BY <1>7 DEF IInv, Waiters
  <2>2. \A d \in Callers : event'[d] # 0 => event'[d] \in Known' /\ answer'[event'[d]] = "none"
    BY <1>5, <1>7 DEF IInv, Waiters
  <2>3. \A d, f \in Callers : event'[d] = event'[f] => d = f \/ event'[d] = 0
    <3>1. \A d \in Callers : event[d] # e
      BY <1>5, <1>7 DEF IInv, Waiters
    <3>2. \A d, f \in Callers : event[d] = event[f] => d = f \/ event[d] = 0
      BY DEF IInv, Waiters
    <3> QED BY <1>7, <3>1, <3>2
  <2>4. ASSUME NEW d \in Callers, waits'[d] = "put"
        PROVE  /\ event'[d] \notin Elements(queue)' \cup Elements(batch)' \cup inTime'
               /\ ~Committed(event[d])'
    <3>1. CASE d = c
      BY <1>1, <1>4, <1>7, <2>4, <3>1 DEF Committed
    <3>2. CASE d # c
      BY <1>1, <1>4, <1>5, <1>7, <2>4, <3>2 DEF IInv, Waiters, Committed
    <3> QED BY <3>1, <3>2
  <2> QED BY <2>1, <2>2, <2>3, <2>4 DEF Waiters
<1>10. Closing'
  BY <1>1, <1>2, <1>4, <1>5 DEF IInv, Closing, Committed
<1> QED
  BY <1>4, <1>8, <1>9, <1>10, TypeParts DEF IInv

LEMMA PutInv ==
  ASSUME IInv, NEW c \in Callers, PutNow(c)
  PROVE  IInv'
<1> DEFINE e == event[c]
<1>1. /\ up /\ waits[c] = "put" /\ Room /\ queue' = Append(queue, e)
      /\ waits' = [waits EXCEPT ![c] = "commit"]
      /\ UNCHANGED <<up, event, samples, answer, writer, batch, stopping, closing>>
      /\ UNCHANGED <<rows, lastSeq, numbered, failed, told, before, inTime>>
  BY DEF PutNow, table
<1>2. /\ e \in Known /\ answer[e] = "none" /\ e \in 0..MaxEvents /\ e # 0
      /\ e \notin Elements(queue) \cup Elements(batch) \cup inTime /\ ~Committed(e)
      /\ \A d \in Callers : event[d] = e => d = c
      /\ waits \in [Callers -> {"no", "put", "commit"}]
  BY <1>1, TypeParts DEF IInv, Waiters, CallTypes
<1> HIDE DEF e
<1>3. \A x \in Known \cup {Stop} : x # e => Follows(before, x, e)
  BY <1>2 DEF Follows, IInv, Ranges
<1>4. /\ Elements(queue) \subseteq Known \cup {Stop} /\ Elements(batch) \subseteq Known
      /\ \A r \in numbered : r.event \in Known /\ r.event # e
      /\ Ordered(before', queue)
  BY <1>1, <1>2, TypeParts DEF IInv, Ranges, RowTypes, Committed, Lined
<1>5. /\ QueueTypes' /\ Elements(queue)' = Elements(queue) \cup {e}
      /\ Ordered(before, queue)' /\ NothingInTimeBehindStop'
  BY <1>1, <1>2, <1>3, <1>4, Joins
<1>6. Lined'
  <2>1. /\ \A x \in Elements(batch) : Follows(before', x, e)
        /\ \A r \in numbered : Follows(before', r.event, e)
    BY <1>1, <1>2, <1>3, <1>4
  <2> QED BY <1>1, <1>5, <2>1, LineGrows
<1>7. /\ waits' \in [Callers -> {"no", "put", "commit"}] /\ waits'[c] = "commit"
      /\ \A d \in Callers \ {c} : waits'[d] = waits[d]
      /\ Known' = Known /\ Elements(batch)' = Elements(batch)
  BY <1>1, <1>2 DEF Known, Elements
<1>8. CallTypes' /\ ThreadTypes' /\ BatchTypes' /\ RowTypes'
  BY <1>1, <1>7, TypeParts DEF IInv, CallTypes, ThreadTypes, BatchTypes, RowTypes
<1>9. Waiters'
  BY <1>1, <1>2, <1>5, <1>7 DEF IInv, Waiters, Committed, e
<1>10. Ranges' /\ Told'
  BY <1>1, <1>2, <1>5, <1>7 DEF IInv, Ranges, Told
<1>11. Closing'
  BY <1>1, <1>2, <1>5, <1>7 DEF IInv, Closing, Committed, Stop
<1> QED
  BY <1>5, <1>6, <1>8, <1>9, <1>10, <1>11, TypeParts DEF IInv

\* However an append ends, the line stays as it is.
LEMMA ReturnInv ==
  ASSUME IInv, NEW c \in Callers, event[c] # 0, NEW how \in Outcomes, how # "none",
         NEW seq \in Nat, Return(c, how, seq),
         seq # 0 => [seq |-> seq, event |-> event[c]] \in numbered
  PROVE  IInv'
<1>1. /\ CallTypes' /\ Known' = Known /\ event[c] \in Known
      /\ \A x \in Known : answer[x] # "none" => answer'[x] # "none"
      /\ \A d \in Callers \ {c} : event'[d] = event[d] /\ waits'[d] = waits[d]
      /\ event'[c] = 0 /\ waits'[c] = "no"
      /\ \A d \in Callers \ {c} : event[d] # 0 => answer'[event[d]] = "none"
      /\ told'[event[c]] = seq
      /\ \A x \in Known \ {event[c]} : told'[x] = told[x]
  BY Answered
<1>2. /\ UNCHANGED <<up, samples, queue, writer, batch, stopping, closing>>
      /\ UNCHANGED <<rows, lastSeq, numbered, failed, before, inTime>>
  BY DEF Return, thread, table
<1>3. Elements(queue)' = Elements(queue) /\ Elements(batch)' = Elements(batch)
  BY <1>2 DEF Elements
<1>4. ThreadTypes' /\ QueueTypes' /\ BatchTypes' /\ RowTypes'
  BY <1>1, <1>2, TypeParts DEF IInv, ThreadTypes, QueueTypes, BatchTypes, RowTypes
<1>5. Ranges'
  BY <1>1, <1>2, <1>3 DEF IInv, Ranges
<1>6. Waiters'
  BY <1>1, <1>2, <1>3 DEF IInv, Waiters, Committed
<1>7. Lined'
  BY <1>2, <1>3 DEF IInv, Lined, Ordered, Follows
<1>8. Closing'
  BY <1>1, <1>2, <1>3 DEF IInv, Closing, NothingInTimeBehindStop, Committed
<1>9. Told'
  BY <1>1, <1>2 DEF IInv, Told
<1> QED
  BY <1>1, <1>4, <1>5, <1>6, <1>7, <1>8, <1>9, TypeParts DEF IInv

LEMMA AnswersInv ==
  ASSUME IInv, NEW c \in Callers, PutTimeout(c) \/ Settled(c) \/ CommitTimeout(c)
  PROVE  IInv'
<1>1. event[c] # 0
  BY DEF PutTimeout, Settled, CommitTimeout, IInv, Waiters
<1>2. {"event", "error", "timeout"} \subseteq Outcomes \ {"none"} /\ 0 \in Nat
  BY DEF Outcomes
<1>3. CASE PutTimeout(c)
  BY <1>1, <1>2, <1>3, ReturnInv DEF PutTimeout
<1>4. CASE CommitTimeout(c)
  BY <1>1, <1>2, <1>4, ReturnInv DEF CommitTimeout
<1>5. CASE Settled(c) /\ Return(c, "error", 0)
  BY <1>1, <1>2, <1>5, ReturnInv
<1>6. ASSUME NEW r \in numbered, r.event = event[c], Return(c, "event", r.seq) PROVE IInv'
  <2>1. r \in [seq : Nat, event : Nat]
    BY DEF IInv, Ranges
  <2>2. r.seq \in Nat /\ r = [seq |-> r.seq, event |-> event[c]]
    BY <1>6, <2>1
  <2> QED BY <1>1, <1>2, <1>6, <2>2, ReturnInv
<1> QED
  BY <1>3, <1>4, <1>5, <1>6 DEF Settled

-----------------------------------------------------------------------------
\* The writer.
LEMMA GetInv ==
  ASSUME IInv, Get
  PROVE  IInv'
<1> DEFINE h == Head(queue)
<1>1. /\ up /\ writer = "get" /\ queue # <<>> /\ queue' = Tail(queue)
      /\ \/ h = Stop /\ writer' = "gone" /\ batch' = <<>>
         \/ h # Stop /\ writer' = "fill" /\ batch' = <<h>>
      /\ UNCHANGED <<up, event, waits, answer, samples, stopping, closing>>
      /\ UNCHANGED <<rows, lastSeq, numbered, failed, told, before, inTime>>
  BY DEF Get, calls, table
<1>2. /\ QueueTypes' /\ Elements(queue) = {h} \cup Elements(queue') /\ h \in 0..MaxEvents
      /\ Ordered(before, queue') /\ \A y \in Elements(queue') : Follows(before, h, y)
      /\ NothingInTimeBehindStop'
      /\ h = Stop => Elements(queue') \cap inTime = {}
  BY <1>1, Leaves
<1> HIDE DEF h
<1>3. batch = <<>> /\ Elements(batch) = {}
  BY <1>1, NoElements DEF IInv, Closing
<1>4. /\ Elements(batch)' = IF h = Stop THEN {} ELSE {h}
      /\ Ordered(before, batch)'
      /\ Elements(queue)' = Elements(queue') /\ Known' = Known
  BY <1>1, NoElements DEF Elements, Ordered, Follows, Known
<1>5. BatchTypes'
  <2>1. h # Stop => h \in 1..MaxEvents /\ <<h>> \in Seq(1..MaxEvents) /\ Len(<<h>>) = 1
    BY <1>2 DEF Stop
  <2>2. <<>> \in Seq(1..MaxEvents) /\ Len(<<>>) = 0
    BY EmptySeq
  <2>3. batch' \in Seq(1..MaxEvents)
    BY <1>1, <2>1, <2>2
  <2>4. Len(batch') \in {0, 1}
    BY <1>1, <2>1, <2>2
  <2>5. Len(batch') <= BatchMax
    BY <2>4, JournalAssumption DEF JournalAssumption
  <2> QED BY <2>3, <2>5 DEF BatchTypes
<1>6. CallTypes' /\ ThreadTypes' /\ RowTypes'
  BY <1>1, <1>4, TypeParts DEF IInv, CallTypes, ThreadTypes, RowTypes
<1>7. Ranges'
  BY <1>1, <1>2, <1>4 DEF IInv, Ranges
<1>8. Waiters'
  BY <1>1, <1>2, <1>3, <1>4 DEF IInv, Waiters, Committed
<1>9. Lined'
  <2>1. Ordered(before, queue)' /\ \A x \in Elements(batch)', y \in Elements(queue)' : Follows(before, x, y)'
    BY <1>1, <1>2, <1>4 DEF Follows, Ordered
  <2>2. \A r \in numbered' : \A y \in Elements(batch)' \cup Elements(queue)' :
          Follows(before, r.event, y)'
    BY <1>1, <1>2, <1>4 DEF IInv, Lined, Follows
  <2>3. \A r, s \in numbered' :
          /\ r.seq < s.seq => Follows(before, r.event, s.event)'
          /\ r.seq = s.seq => r = s
    BY <1>1 DEF IInv, Lined, Follows
  <2> QED BY <1>4, <2>1, <2>2, <2>3 DEF Lined
<1>10. Closing'
  <2>1. \A x \in inTime' :
          Committed(x)' \/ x \in failed' \/ x \in Elements(batch)' \/ x \in Elements(queue)'
    <3>1. Stop \notin inTime
      BY NewStop DEF IInv, Ranges
    <3> QED BY <1>1, <1>2, <1>3, <1>4, <3>1 DEF IInv, Closing, Committed
  <2>2. (up /\ closing = "no" => writer # "gone" /\ ~stopping /\ inTime = {})'
    BY <1>1, <1>2 DEF IInv, Closing
  <2>3. (Stop \in Elements(queue) => up /\ closing = "join")'
    BY <1>1, <1>2, <1>4 DEF IInv, Closing
  <2>4. up' /\ (writer \in {"get", "check", "gone"} => batch = <<>>)'
    BY <1>1
  <2>5. (writer = "gone" => Elements(queue) \cap inTime = {})'
    <3>1. writer' = "gone" => h = Stop
      BY <1>1
    <3>2. h = Stop => Elements(queue)' \cap inTime' = {}
      BY <1>1, <1>2, <1>4
    <3> QED BY <3>1, <3>2
  <2>6. NothingInTimeBehindStop'
    BY <1>2
  <2> QED BY <2>1, <2>2, <2>3, <2>4, <2>5, <2>6 DEF Closing
<1>11. Told'
  BY <1>1, <1>4 DEF IInv, Told
<1> QED
  BY <1>2, <1>5, <1>6, <1>7, <1>8, <1>9, <1>10, <1>11, TypeParts DEF IInv

LEMMA FillInv ==
  ASSUME IInv, Fill
  PROVE  IInv'
<1> DEFINE h == Head(queue)
<1>1. /\ up /\ writer = "fill" /\ Len(batch) < BatchMax /\ queue # <<>> /\ queue' = Tail(queue)
      /\ \/ h = Stop /\ stopping' = TRUE /\ writer' = "full" /\ batch' = batch
         \/ h # Stop /\ batch' = Append(batch, h) /\ stopping' = stopping /\ writer' = writer
      /\ UNCHANGED <<up, event, waits, answer, samples, closing>>
      /\ UNCHANGED <<rows, lastSeq, numbered, failed, told, before, inTime>>
  BY DEF Fill, calls, table
<1>2. /\ QueueTypes' /\ Elements(queue) = {h} \cup Elements(queue') /\ h \in 0..MaxEvents
      /\ Ordered(before, queue') /\ \A y \in Elements(queue') : Follows(before, h, y)
      /\ NothingInTimeBehindStop'
  BY <1>1, Leaves
<1> HIDE DEF h
<1>3. /\ batch \in Seq(1..MaxEvents) /\ Len(batch) \in Nat /\ Len(batch) <= BatchMax
      /\ Elements(batch) \subseteq Known /\ Stop \notin inTime
      /\ Ordered(before, batch) /\ \A x \in Elements(batch) : Follows(before, x, h)
  BY <1>2, TypeParts, LenProperties, NewStop DEF IInv, BatchTypes, Ranges, Lined
<1>4. /\ BatchTypes' /\ Ordered(before, batch')
      /\ Elements(batch') = IF h = Stop THEN Elements(batch) ELSE Elements(batch) \cup {h}
  <2>1. CASE h = Stop
    <3>1. batch' = batch
      BY <1>1, <2>1
    <3> QED BY <1>3, <2>1, <3>1 DEF BatchTypes
  <2>2. CASE h # Stop
    <3> DEFINE S == 1..MaxEvents
    <3>1. h \in S /\ batch \in Seq(S)
      BY <1>2, <1>3, <2>2 DEF Stop
    <3>2. batch' = Append(batch, h)
      BY <1>1, <2>2
    <3> HIDE DEF S
    <3>3. /\ batch' \in Seq(S) /\ Len(batch') = Len(batch) + 1
          /\ Elements(batch') = Elements(batch) \cup {h}
      BY <3>1, <3>2, OneMore
    <3>4. Ordered(before, batch')
      BY <1>3, <3>1, <3>2, OrderedAppend
    <3>5. Len(batch') <= BatchMax
      BY <1>1, <1>3, <3>3, JournalAssumption DEF JournalAssumption
    <3> QED BY <2>2, <3>3, <3>4, <3>5 DEF BatchTypes, S
  <2> QED BY <2>1, <2>2
<1>5. /\ Elements(batch)' = Elements(batch') /\ Elements(queue)' = Elements(queue') /\ Known' = Known
      /\ Elements(batch)' \cup Elements(queue)' \cup {Stop} = Elements(batch) \cup Elements(queue) \cup {Stop}
  BY <1>1, <1>2, <1>4 DEF Elements, Known
<1>6. CallTypes' /\ ThreadTypes' /\ RowTypes'
  BY <1>1, <1>5, TypeParts DEF IInv, CallTypes, ThreadTypes, RowTypes
<1>7. Ranges'
  BY <1>1, <1>2, <1>3, <1>4, <1>5 DEF IInv, Ranges
<1>8. Waiters'
  <2>1. Elements(batch)' \cup Elements(queue)' \subseteq Elements(batch) \cup Elements(queue)
    BY <1>2, <1>4, <1>5
  <2> QED BY <1>1, <1>5, <2>1 DEF IInv, Waiters, Committed
<1>9. Lined'
  <2>1. \A x \in Elements(batch)', y \in Elements(queue)' : Follows(before, x, y)'
    BY <1>1, <1>2, <1>4, <1>5 DEF IInv, Lined, Follows
  <2>2. \A r \in numbered' : \A y \in Elements(batch)' \cup Elements(queue)' :
          Follows(before, r.event, y)'
    BY <1>1, <1>2, <1>4, <1>5 DEF IInv, Lined, Follows
  <2>3. \A r, s \in numbered' :
          /\ r.seq < s.seq => Follows(before, r.event, s.event)'
          /\ r.seq = s.seq => r = s
    BY <1>1 DEF IInv, Lined, Follows
  <2>4. Ordered(before, queue)' /\ Ordered(before, batch)'
    BY <1>1, <1>2, <1>4 DEF Ordered, Follows
  <2> QED BY <2>1, <2>2, <2>3, <2>4 DEF Lined
<1>10. Closing'
  <2>1. \A x \in inTime' :
          Committed(x)' \/ x \in failed' \/ x \in Elements(batch)' \/ x \in Elements(queue)'
    BY <1>1, <1>3, <1>5 DEF IInv, Closing, Committed
  <2>2. (up /\ closing = "no" => writer # "gone" /\ ~stopping /\ inTime = {})'
    <3>1. h = Stop => closing = "join"
      BY <1>2 DEF IInv, Closing
    <3> QED BY <1>1, <3>1 DEF IInv, Closing
  <2>3. (Stop \in Elements(queue) => up /\ closing = "join")'
    BY <1>1, <1>2, <1>5 DEF IInv, Closing
  <2>4. up' /\ writer' \in {"fill", "full"}
    BY <1>1
  <2> QED BY <1>2, <2>1, <2>2, <2>3, <2>4 DEF Closing
<1>11. Told'
  BY <1>1, <1>5 DEF IInv, Told
<1> QED
  BY <1>2, <1>4, <1>6, <1>7, <1>8, <1>9, <1>10, <1>11, TypeParts DEF IInv

LEMMA CommitInv ==
  ASSUME IInv, Commit
  PROVE  IInv'
<1>1. /\ up /\ writer \in {"fill", "full"} /\ batch' = <<>> /\ writer' = "check"
      /\ rows' = rows \cup BatchRows /\ numbered' = numbered \cup BatchRows
      /\ lastSeq' = lastSeq + Len(batch)
      /\ UNCHANGED <<up, event, waits, answer, samples, queue, stopping, closing>>
      /\ UNCHANGED <<failed, told, before, inTime>>
  BY DEF Commit, calls
<1>2. /\ batch \in Seq(1..MaxEvents) /\ DOMAIN batch = 1..Len(batch) /\ Len(batch) \in Nat
      /\ Elements(batch) \subseteq Known /\ lastSeq \in Nat /\ Known \subseteq Nat
  BY TypeParts, LenProperties DEF IInv, BatchTypes, Ranges, CallTypes, Known
<1>3. /\ Elements(batch)' = {} /\ Ordered(before, batch)' /\ BatchTypes'
      /\ Elements(queue)' = Elements(queue) /\ Known' = Known
  <2>1. batch' \in Seq(1..MaxEvents) /\ Len(batch') = 0
    BY <1>1, EmptySeq
  <2>2. BatchTypes'
    BY <2>1, JournalAssumption DEF JournalAssumption, BatchTypes
  <2> QED BY <1>1, <2>2, NoElements DEF Elements, Ordered, Known
<1>4. \A r \in BatchRows : \E i \in DOMAIN batch :
        r = [seq |-> lastSeq + i, event |-> batch[i]] /\ batch[i] \in Elements(batch) /\ i \in 1..Len(batch)
  BY <1>2 DEF BatchRows, Elements
<1>5. \A r \in BatchRows :
        /\ r \in [seq : Nat, event : Nat] /\ r.event \in Elements(batch)
        /\ lastSeq < r.seq /\ r.seq <= lastSeq + Len(batch) /\ r.seq \in Nat
  <2> TAKE r \in BatchRows
  <2>1. PICK i \in DOMAIN batch :
          r = [seq |-> lastSeq + i, event |-> batch[i]] /\ batch[i] \in Elements(batch) /\ i \in 1..Len(batch)
    BY <1>4
  <2>2. lastSeq + i \in Nat /\ lastSeq < lastSeq + i /\ lastSeq + i <= lastSeq + Len(batch)
    BY <1>2, <2>1
  <2>3. batch[i] \in Nat
    BY <1>2, <2>1
  <2> QED BY <2>1, <2>2, <2>3
<1>6. \A x \in Elements(batch) : \E r \in BatchRows : r.event = x
  <2> SUFFICES ASSUME NEW i \in DOMAIN batch PROVE \E r \in BatchRows : r.event = batch[i]
    BY DEF Elements
  <2>1. [seq |-> lastSeq + i, event |-> batch[i]] \in BatchRows
    BY DEF BatchRows
  <2> QED BY <2>1
<1>7. RowTypes' /\ \A r \in numbered : r.seq <= lastSeq /\ r.seq \in Nat
  <2>1. \A r \in numbered : r.seq \in 1..lastSeq /\ r.event \in Known
    BY TypeParts DEF IInv, RowTypes
  <2>2. \A r \in numbered' : r.seq \in 1..lastSeq' /\ r.event \in Known'
    BY <1>1, <1>2, <1>3, <1>5, <2>1
  <2>3. rows' \subseteq numbered'
    BY <1>1, TypeParts DEF IInv, RowTypes
  <2> QED BY <1>2, <2>1, <2>2, <2>3 DEF RowTypes
<1>8. CallTypes' /\ ThreadTypes' /\ QueueTypes'
  BY <1>1, <1>3, TypeParts DEF IInv, CallTypes, ThreadTypes, QueueTypes
<1>9. Ranges'
  <2>1. numbered' \subseteq [seq : Nat, event : Nat] /\ lastSeq' \in Nat
    BY <1>1, <1>2, <1>5 DEF IInv, Ranges
  <2> QED BY <1>1, <1>3, <2>1 DEF IInv, Ranges
<1>10. Waiters'
  <2>1. \A c \in Callers : waits[c] = "put" => ~Committed(event[c])'
    BY <1>1, <1>5 DEF IInv, Waiters, Committed
  <2> QED BY <1>1, <1>3, <2>1 DEF IInv, Waiters
<1>11. Lined'
  <2>1. \A r \in numbered' : \A y \in Elements(queue)' : Follows(before, r.event, y)'
    BY <1>1, <1>3, <1>5 DEF IInv, Lined, Follows
  <2>2. ASSUME NEW r \in numbered', NEW s \in numbered'
        PROVE  /\ r.seq < s.seq => Follows(before, r.event, s.event)
               /\ r.seq = s.seq => r = s
    <3>1. CASE r \in numbered /\ s \in numbered
      BY <3>1 DEF IInv, Lined
    <3>2. CASE r \in numbered /\ s \in BatchRows
      <4>1. r.seq < s.seq
        BY <1>2, <1>5, <1>7, <3>2
      <4>2. Follows(before, r.event, s.event)
        BY <1>5, <3>2 DEF IInv, Lined
      <4>3. r.seq # s.seq
        BY <1>2, <1>5, <1>7, <3>2
      <4> QED BY <4>2, <4>3
    <3>3. CASE r \in BatchRows /\ s \in numbered
      BY <1>2, <1>5, <1>7, <3>3
    <3>4. CASE r \in BatchRows /\ s \in BatchRows
      <4>1. PICK i \in DOMAIN batch : r = [seq |-> lastSeq + i, event |-> batch[i]] /\ i \in Nat
        BY <1>2, <1>4, <3>4
      <4>2. PICK j \in DOMAIN batch : s = [seq |-> lastSeq + j, event |-> batch[j]] /\ j \in Nat
        BY <1>2, <1>4, <3>4
      <4>3. r.seq < s.seq => i < j
        BY <1>2, <4>1, <4>2
      <4>4. r.seq = s.seq => i = j
        BY <1>2, <4>1, <4>2
      <4>5. i < j => Follows(before, batch[i], batch[j])
        BY DEF IInv, Lined, Ordered
      <4> QED BY <4>1, <4>2, <4>3, <4>4, <4>5
    <3> QED BY <1>1, <3>1, <3>2, <3>3, <3>4
  <2>3. Ordered(before, queue)'
    BY <1>1 DEF IInv, Lined, Ordered, Follows
  <2> QED BY <1>1, <1>3, <2>1, <2>2, <2>3 DEF Lined, Follows
<1>12. Closing'
  <2>1. \A x : x \in Elements(batch) \/ Committed(x) => Committed(x)'
    BY <1>1, <1>6 DEF Committed
  <2>2. \A x \in inTime' :
          Committed(x)' \/ x \in failed' \/ x \in Elements(batch)' \/ x \in Elements(queue)'
    BY <1>1, <1>3, <2>1 DEF IInv, Closing
  <2>3. NothingInTimeBehindStop'
    BY <1>1 DEF IInv, Closing, NothingInTimeBehindStop
  <2> QED BY <1>1, <1>3, <2>2, <2>3 DEF IInv, Closing
<1>13. Told'
  BY <1>1, <1>3 DEF IInv, Told
<1> QED
  BY <1>3, <1>7, <1>8, <1>9, <1>10, <1>11, <1>12, <1>13, TypeParts DEF IInv

LEMMA RollbackInv ==
  ASSUME IInv, Rollback
  PROVE  IInv'
<1>1. /\ up /\ writer \in {"fill", "full"} /\ batch' = <<>> /\ writer' = "check"
      /\ failed' = failed \cup Elements(batch)
      /\ UNCHANGED <<up, event, waits, answer, samples, queue, stopping, closing>>
      /\ UNCHANGED <<rows, lastSeq, numbered, told, before, inTime>>
  BY DEF Rollback, calls, table
<1>2. /\ Elements(batch)' = {} /\ Ordered(before, batch)' /\ BatchTypes'
      /\ Elements(queue)' = Elements(queue) /\ Known' = Known
  <2>1. batch' \in Seq(1..MaxEvents) /\ Len(batch') = 0
    BY <1>1, EmptySeq
  <2>2. BatchTypes'
    BY <2>1, JournalAssumption DEF JournalAssumption, BatchTypes
  <2> QED BY <1>1, <2>2, NoElements DEF Elements, Ordered, Known
<1>3. CallTypes' /\ ThreadTypes' /\ QueueTypes' /\ RowTypes'
  BY <1>1, <1>2, TypeParts DEF IInv, CallTypes, ThreadTypes, QueueTypes, RowTypes
<1>4. Ranges'
  BY <1>1, <1>2 DEF IInv, Ranges
<1>5. Waiters' /\ Told'
  BY <1>1, <1>2 DEF IInv, Waiters, Told, Committed
<1>6. Lined'
  BY <1>1, <1>2 DEF IInv, Lined, Ordered, Follows
<1>7. Closing'
  <2>1. NothingInTimeBehindStop'
    BY <1>1 DEF IInv, Closing, NothingInTimeBehindStop
  <2>2. \A x \in inTime' :
          Committed(x)' \/ x \in failed' \/ x \in Elements(batch)' \/ x \in Elements(queue)'
    BY <1>1, <1>2 DEF IInv, Closing, Committed
  <2> QED BY <1>1, <1>2, <2>1, <2>2 DEF IInv, Closing
<1> QED
  BY <1>2, <1>3, <1>4, <1>5, <1>6, <1>7, TypeParts DEF IInv

LEMMA CheckInv ==
  ASSUME IInv, Check
  PROVE  IInv'
<1>1. /\ up /\ writer = "check" /\ writer' = IF stopping /\ queue = <<>> THEN "gone" ELSE "get"
      /\ UNCHANGED <<up, event, waits, answer, samples, queue, batch, stopping, closing>>
      /\ UNCHANGED <<rows, lastSeq, numbered, failed, told, before, inTime>>
  BY DEF Check, calls, table
<1>2. Elements(batch)' = Elements(batch) /\ Elements(queue)' = Elements(queue) /\ Known' = Known
  BY <1>1 DEF Elements, Known
<1>3. CallTypes' /\ ThreadTypes' /\ QueueTypes' /\ BatchTypes' /\ RowTypes'
  BY <1>1, <1>2, TypeParts DEF IInv, CallTypes, ThreadTypes, QueueTypes, BatchTypes, RowTypes
<1>4. Ranges' /\ Waiters' /\ Told'
  BY <1>1, <1>2 DEF IInv, Ranges, Waiters, Told, Committed
<1>5. Lined'
  BY <1>1, <1>2 DEF IInv, Lined, Ordered, Follows
<1>6. Closing'
  <2>1. NothingInTimeBehindStop'
    BY <1>1 DEF IInv, Closing, NothingInTimeBehindStop
  <2>2. writer' = "gone" => Elements(queue)' = {}
    BY <1>1, <1>2, NoElements
  <2>3. \A x \in inTime' :
          Committed(x)' \/ x \in failed' \/ x \in Elements(batch)' \/ x \in Elements(queue)'
    BY <1>1, <1>2 DEF IInv, Closing, Committed
  <2>4. (up /\ closing = "no" => writer # "gone" /\ ~stopping /\ inTime = {})'
    BY <1>1 DEF IInv, Closing
  <2>5. up' /\ batch' = <<>> /\ (Stop \in Elements(queue) => up /\ closing = "join")'
    BY <1>1, <1>2 DEF IInv, Closing
  <2> QED BY <2>1, <2>2, <2>3, <2>4, <2>5 DEF Closing
<1> QED
  BY <1>3, <1>4, <1>5, <1>6, TypeParts DEF IInv

-----------------------------------------------------------------------------
\* The end and the start.
LEMMA CloseInv ==
  ASSUME IInv, Close
  PROVE  IInv'
<1>1. /\ up /\ closing = "no" /\ ~stopping /\ closing' = "put" /\ stopping' = TRUE
      /\ inTime' = Elements(queue) \cup Elements(batch)
      /\ UNCHANGED <<up, event, waits, answer, samples, queue, writer, batch>>
      /\ UNCHANGED <<rows, lastSeq, numbered, failed, told, before>>
  BY DEF Close, calls, table, IInv, Closing
<1>2. Elements(batch)' = Elements(batch) /\ Elements(queue)' = Elements(queue) /\ Known' = Known
  BY <1>1 DEF Elements, Known
<1>3. Stop \notin Elements(queue) /\ writer # "gone"
  BY <1>1 DEF IInv, Closing
<1>4. CallTypes' /\ ThreadTypes' /\ QueueTypes' /\ BatchTypes' /\ RowTypes'
  BY <1>1, <1>2, TypeParts DEF IInv, CallTypes, ThreadTypes, QueueTypes, BatchTypes, RowTypes
<1>5. Ranges' /\ Told'
  BY <1>1, <1>2, <1>3 DEF IInv, Ranges, Told
<1>6. Waiters'
  BY <1>1, <1>2 DEF IInv, Waiters, Committed
<1>7. Lined'
  BY <1>1, <1>2 DEF IInv, Lined, Ordered, Follows
<1>8. Closing'
  <2>1. NothingInTimeBehindStop'
    BY <1>1, <1>3 DEF NothingInTimeBehindStop, Elements
  <2> QED BY <1>1, <1>2, <1>3, <2>1 DEF IInv, Closing
<1> QED
  BY <1>4, <1>5, <1>6, <1>7, <1>8, TypeParts DEF IInv

LEMMA PutStopInv ==
  ASSUME IInv, PutStop
  PROVE  IInv'
<1>1. /\ up /\ closing = "put" /\ Room /\ queue' = Append(queue, Stop) /\ closing' = "join"
      /\ UNCHANGED <<up, event, waits, answer, samples, writer, batch, stopping>>
      /\ UNCHANGED <<rows, lastSeq, numbered, failed, told, before, inTime>>
  BY DEF PutStop, calls, table
<1>2. Stop \notin Elements(queue) /\ Stop \notin Known
  BY <1>1, NewStop DEF IInv, Closing
<1>3. /\ Elements(queue) \subseteq Known \cup {Stop} /\ Elements(batch) \subseteq Known
      /\ inTime \subseteq Known /\ Ordered(before', queue)
      /\ \A x \in Known : Follows(before, x, Stop)
  BY <1>1, <1>2 DEF IInv, Ranges, Lined, Follows
<1>4. /\ QueueTypes' /\ Elements(queue)' = Elements(queue) \cup {Stop}
      /\ Ordered(before, queue)' /\ NothingInTimeBehindStop'
  <2>1. Stop \in 0..MaxEvents
    BY JournalAssumption DEF JournalAssumption, Stop
  <2>2. \A x \in Elements(queue) : Follows(before', x, Stop)
    BY <1>1, <1>2, <1>3
  <2> QED BY <1>1, <1>2, <1>3, <2>1, <2>2, Joins
<1>5. Elements(batch)' = Elements(batch) /\ Known' = Known
  BY <1>1 DEF Elements, Known
<1>6. Lined'
  <2>1. /\ \A x \in Elements(batch) : Follows(before', x, Stop)
        /\ \A r \in numbered : Follows(before', r.event, Stop)
    BY <1>1, <1>3, TypeParts DEF IInv, RowTypes
  <2> QED BY <1>1, <1>4, <2>1, LineGrows
<1>7. CallTypes' /\ ThreadTypes' /\ BatchTypes' /\ RowTypes'
  BY <1>1, <1>5, TypeParts DEF IInv, CallTypes, ThreadTypes, BatchTypes, RowTypes
<1>8. Ranges' /\ Told'
  BY <1>1, <1>4, <1>5 DEF IInv, Ranges, Told
<1>9. Waiters'
  <2>1. \A c \in Callers : event[c] # 0 => event[c] # Stop
    BY DEF Stop
  <2>2. \A c \in Callers : waits[c] = "put" => event[c] # Stop
    BY <2>1 DEF IInv, Waiters
  <2> QED BY <1>1, <1>4, <1>5, <2>2 DEF IInv, Waiters, Committed
<1>10. Closing'
  <2>1. writer # "gone" \/ Elements(queue)' \cap inTime' = {}
    BY <1>1, <1>2, <1>3, <1>4 DEF IInv, Closing
  <2>2. \A x \in inTime' :
          Committed(x)' \/ x \in failed' \/ x \in Elements(batch)' \/ x \in Elements(queue)'
    BY <1>1, <1>4, <1>5 DEF IInv, Closing, Committed
  <2> QED BY <1>1, <1>4, <2>1, <2>2 DEF IInv, Closing
<1> QED
  BY <1>4, <1>6, <1>7, <1>8, <1>9, <1>10, TypeParts DEF IInv

LEMMA ExitInv ==
  ASSUME IInv, Exit
  PROVE  IInv'
<1>1. /\ up' = FALSE /\ event' = [c \in Callers |-> 0] /\ waits' = [c \in Callers |-> "no"]
      /\ answer' = [x \in Known |-> IF answer[x] = "none" THEN "lost" ELSE answer[x]]
      /\ queue' = <<>> /\ batch' = <<>> /\ writer' = "gone" /\ inTime' = {}
      /\ UNCHANGED <<samples, stopping, closing, rows, lastSeq, numbered, failed, told, before>>
  BY DEF Exit, table
<1>2. /\ answer \in Seq(Outcomes) /\ Len(answer) \in Nat /\ Known = 1..Len(answer)
      /\ Len(answer) <= MaxEvents
  BY TypeParts, LenProperties DEF IInv, CallTypes, Known
<1>3. answer' \in Seq(Outcomes) /\ Len(answer') = Len(answer) /\ Known' = Known
  <2>1. \A x \in Known : answer'[x] \in Outcomes
    BY <1>1, <1>2, ElementOfSeq DEF Outcomes
  <2>2. answer' \in [1..Len(answer) -> Outcomes]
    BY <1>1, <1>2, <2>1
  <2>3. answer' \in Seq(Outcomes)
    BY <1>2, <2>2, SeqDef
  <2>4. DOMAIN answer' = 1..Len(answer') /\ Len(answer') \in Nat
    BY <2>3, LenProperties
  <2>5. DOMAIN answer' = 1..Len(answer)
    BY <2>2
  <2>6. Len(answer') = Len(answer)
    BY <1>2, <2>4, <2>5
  <2> QED BY <1>2, <2>3, <2>5, <2>6 DEF Known
<1>4. /\ Elements(queue)' = {} /\ Elements(batch)' = {}
      /\ Ordered(before, queue)' /\ Ordered(before, batch)'
      /\ queue' \in Seq(0..MaxEvents) /\ Len(queue') = 0
      /\ batch' \in Seq(1..MaxEvents) /\ Len(batch') = 0 /\ DOMAIN queue' = {}
  BY <1>1, NoElements, EmptySeq DEF Elements, Ordered
<1>5. QueueTypes' /\ BatchTypes'
  BY <1>4, JournalAssumption DEF QueueTypes, BatchTypes, JournalAssumption
<1>6. CallTypes' /\ ThreadTypes' /\ RowTypes'
  <2>1. 0 \in 0..MaxEvents
    BY JournalAssumption DEF JournalAssumption
  <2>2. event' \in [Callers -> 0..MaxEvents] /\ waits' \in [Callers -> {"no", "put", "commit"}]
    BY <1>1, <2>1
  <2>3. CallTypes'
    BY <1>1, <1>2, <1>3, <2>2, TypeParts DEF IInv, CallTypes
  <2> QED BY <1>1, <1>3, <2>3, TypeParts DEF IInv, ThreadTypes, RowTypes
<1>7. Ranges' /\ Told'
  BY <1>1, <1>3, <1>4 DEF IInv, Ranges, Told
<1>8. Waiters' /\ Lined'
  BY <1>1, <1>4 DEF IInv, Waiters, Lined, Follows
<1>9. Closing'
  BY <1>1, <1>4 DEF Closing, NothingInTimeBehindStop
<1> QED
  BY <1>5, <1>6, <1>7, <1>8, <1>9, TypeParts DEF IInv

LEMMA StartInv ==
  ASSUME IInv, Start
  PROVE  IInv'
<1>1. /\ ~up /\ up' = TRUE /\ stopping' = FALSE /\ closing' = "no" /\ writer' = "get" /\ rows' = {}
      /\ UNCHANGED <<event, waits, answer, samples, queue, batch>>
      /\ UNCHANGED <<lastSeq, numbered, failed, told, before, inTime>>
  BY DEF Start, calls
<1>2. Elements(batch)' = Elements(batch) /\ Elements(queue)' = Elements(queue) /\ Known' = Known
  BY <1>1 DEF Elements, Known
<1>3. queue = <<>> /\ batch = <<>> /\ inTime = {} /\ Elements(queue) = {}
  BY <1>1, NoElements DEF IInv, Closing
<1>4. CallTypes' /\ ThreadTypes' /\ QueueTypes' /\ BatchTypes' /\ RowTypes'
  BY <1>1, <1>2, TypeParts DEF IInv, CallTypes, ThreadTypes, QueueTypes, BatchTypes, RowTypes
<1>5. Ranges' /\ Waiters' /\ Told'
  BY <1>1, <1>2 DEF IInv, Ranges, Waiters, Told, Committed
<1>6. Lined'
  BY <1>1, <1>2 DEF IInv, Lined, Ordered, Follows
<1>7. Closing'
  BY <1>1, <1>2, <1>3 DEF Closing, NothingInTimeBehindStop
<1> QED
  BY <1>4, <1>5, <1>6, <1>7, TypeParts DEF IInv

LEMMA StutterInv ==
  ASSUME IInv, UNCHANGED journal
  PROVE  IInv'
<1>1. /\ UNCHANGED <<up, event, waits, answer, samples, queue, writer, batch, stopping, closing>>
      /\ UNCHANGED <<rows, lastSeq, numbered, failed, told, before, inTime>>
  BY DEF journal, calls, thread, table
<1>2. CallTypes' /\ ThreadTypes' /\ QueueTypes' /\ BatchTypes' /\ RowTypes'
  BY <1>1, TypeParts DEF IInv, CallTypes, ThreadTypes, QueueTypes, BatchTypes, RowTypes, Known
<1>3. Ranges' /\ Waiters' /\ Told'
  BY <1>1 DEF IInv, Ranges, Waiters, Told, Committed, Known, Elements
<1>4. Lined'
  BY <1>1 DEF IInv, Lined, Ordered, Follows, Elements
<1>5. Closing'
  BY <1>1 DEF IInv, Closing, NothingInTimeBehindStop, Committed, Elements
<1> QED
  BY <1>2, <1>3, <1>4, <1>5, TypeParts DEF IInv

-----------------------------------------------------------------------------
\* What the journal keeps at every step (journal.py): the events it holds are in line,
\* and close() waits for all that it has to wait for.
THEOREM JournalInvariant == JournalSpec => []IInv
<1>1. IInv /\ [JournalNext]_journal => IInv'
  <2> SUFFICES ASSUME IInv, [JournalNext]_journal PROVE IInv'
    OBVIOUS
  <2>1. ASSUME NEW c \in Callers, AppendSample(c) PROVE IInv'
    BY <2>1, SampleInv
  <2>2. ASSUME NEW c \in Callers, AppendDurable(c) PROVE IInv'
    BY <2>2, DurableInv
  <2>3. ASSUME NEW c \in Callers, PutNow(c) PROVE IInv'
    BY <2>3, PutInv
  <2>4. ASSUME NEW c \in Callers, PutTimeout(c) \/ Settled(c) \/ CommitTimeout(c) PROVE IInv'
    BY <2>4, AnswersInv
  <2>5. CASE Get \/ Fill \/ Commit \/ Rollback \/ Check
    BY <2>5, GetInv, FillInv, CommitInv, RollbackInv, CheckInv
  <2>6. CASE Close \/ PutStop \/ Exit \/ Start
    BY <2>6, CloseInv, PutStopInv, ExitInv, StartInv
  <2>7. CASE UNCHANGED journal
    BY <2>7, StutterInv
  <2> QED BY <2>1, <2>2, <2>3, <2>4, <2>5, <2>6, <2>7 DEF JournalNext
<1> QED
  BY InitInv, <1>1, PTL DEF JournalSpec

\* JournalInv: a sequence that append returns is committed and nobody else's, rows are in
\* the order of the calls, and close() loses nothing that was in the queue (journal.py).
THEOREM JournalIsTrue == JournalSpec => []JournalInv
<1>1. IInv => JournalInv
  <2> SUFFICES ASSUME IInv PROVE JournalInv
    OBVIOUS
  <2>1. \A r, s \in numbered : r.event = s.event => r = s
    <3> SUFFICES ASSUME NEW r \in numbered, NEW s \in numbered, r.event = s.event PROVE r = s
      OBVIOUS
    <3>1. r.seq \in Nat /\ s.seq \in Nat
      BY DEF IInv, Ranges
    <3>2. ~(r.seq < s.seq) /\ ~(s.seq < r.seq)
      BY DEF IInv, Lined, Follows
    <3>3. r.seq = s.seq
      BY <3>1, <3>2
    <3> QED BY <3>3 DEF IInv, Lined
  <2>2. AnswerIsCommitted
    <3> SUFFICES ASSUME NEW e \in Known, told[e] # 0
                 PROVE  {r \in numbered : r.seq = told[e] \/ r.event = e} = {[seq |-> told[e], event |-> e]}
      BY DEF AnswerIsCommitted
    <3>1. [seq |-> told[e], event |-> e] \in numbered
      BY DEF IInv, Told
    <3>2. \A r, s \in numbered : r.seq = s.seq => r = s
      BY DEF IInv, Lined
    <3> QED BY <2>1, <3>1, <3>2
  <2>3. InOrderOfCalls
    <3> SUFFICES ASSUME NEW r \in numbered, NEW s \in numbered, r.event \in before[s.event]
                 PROVE  r.seq < s.seq
      BY DEF InOrderOfCalls
    <3>1. r.seq \in Nat /\ s.seq \in Nat /\ s.event \in Known
      BY TypeParts DEF IInv, Ranges, RowTypes
    <3>2. s.event # Stop
      BY <3>1, NewStop
    <3>3. ~(s.seq < r.seq)
      BY <3>2 DEF IInv, Lined, Follows
    <3>4. r.event # s.event
      BY <3>1 DEF IInv, Ranges
    <3>5. r.seq # s.seq
      BY <3>4 DEF IInv, Lined
    <3> QED BY <3>1, <3>3, <3>5
  <2>4. ClosedIsDrained
    <3> SUFFICES ASSUME up, writer = "gone", NEW e \in inTime
                 PROVE  Committed(e) \/ e \in failed
      BY DEF ClosedIsDrained
    <3>1. Elements(batch) = {} /\ e \notin Elements(queue)
      BY NoElements DEF IInv, Closing
    <3> QED BY <3>1 DEF IInv, Closing
  <2> QED BY <2>2, <2>3, <2>4 DEF JournalInv, IInv
<1> QED
  BY <1>1, JournalInvariant, PTL

-----------------------------------------------------------------------------
(***************************************************************************)
(* The watcher and the store, for any claims, events and bounds.  Three    *)
(* invariants are inductive beside that of the journal.                    *)
(*                                                                         *)
(* StoreInv: a fact is never reworded and no id is given twice, so that    *)
(* what the service was told of a candidate, and a link it has still to    *)
(* add, stay true for as long as the facts exist.  WatchInv: the rows up   *)
(* to the last one read are stored or still to be stored, so that the      *)
(* watermark may move there, and what is recorded has been stored.  That   *)
(* the last one read is the last of all rests on the rows being finitely   *)
(* many, each with a sequence of its own (ListExists, ListIsAll).          *)
(***************************************************************************)

\* s lists the rows of S in the order of their sequences.
Lists(S, s) ==
  /\ s \in [1..Cardinality(S) -> S]
  /\ \A i, j \in DOMAIN s : i < j => s[i].seq < s[j].seq
Numbered(S) ==
  IsFiniteSet(S) /\ (\A r \in S : r.seq \in Nat) /\ \A r, q \in S : r.seq = q.seq => r = q

LEMMA FirstThenRest ==
  ASSUME NEW S, Numbered(S), NEW r \in S, \A q \in S : r.seq <= q.seq,
         NEW t, Lists(S \ {r}, t)
  PROVE  \E s : Lists(S, s)
<1> DEFINE n == Cardinality(S)
           s == [i \in 1..n |-> IF i = 1 THEN r ELSE t[i - 1]]
<1>1. n \in Nat /\ Cardinality(S \ {r}) = n - 1
  BY FS_CardinalityType, FS_RemoveElement DEF Numbered
<1>2. t \in [1..(n - 1) -> S \ {r}]
  BY <1>1 DEF Lists
<1>3. \A i \in 1..n : i # 1 => i - 1 \in 1..(n - 1) /\ t[i - 1] \in S \ {r}
  BY <1>1, <1>2
<1>4. s \in [1..n -> S]
  BY <1>3
<1>5. ASSUME NEW i \in 1..n, NEW j \in 1..n, i < j
      PROVE  s[i].seq < s[j].seq
  <2>1. j # 1 /\ s[j] = t[j - 1] /\ t[j - 1] \in S \ {r} /\ j - 1 \in DOMAIN t
    BY <1>1, <1>2, <1>3, <1>5
  <2>2. CASE i = 1
    <3>1. r.seq \in Nat /\ s[j].seq \in Nat /\ r.seq # s[j].seq /\ r.seq <= s[j].seq
      BY <2>1 DEF Numbered
    <3> QED BY <2>2, <3>1
  <2>3. CASE i # 1
    <3>1. i - 1 \in DOMAIN t /\ i - 1 < j - 1 /\ s[i] = t[i - 1]
      BY <1>1, <1>2, <1>3, <1>5, <2>3
    <3> QED BY <2>1, <3>1 DEF Lists
  <2> QED BY <2>2, <2>3
<1> HIDE DEF s
<1> QED
  BY <1>4, <1>5 DEF Lists

\* Every finite set of rows can be listed: one of the smallest that cannot would have a
\* first row, and the others a list.
LEMMA ListExists ==
  ASSUME NEW S, Numbered(S)
  PROVE  \E s : Lists(S, s)
<1> DEFINE Bad == {T \in SUBSET S : ~\E s : Lists(T, s)}
           Sizes == {Cardinality(T) : T \in Bad}
<1>1. \A T \in SUBSET S : Numbered(T) /\ Cardinality(T) \in Nat
  BY FS_Subset, FS_CardinalityType DEF Numbered
<1>2. SUFFICES ASSUME Bad # {} PROVE FALSE
  BY <1>1
<1>3. Sizes \subseteq Nat /\ Sizes # {}
  BY <1>1, <1>2
<1>4. PICK n \in Sizes : \A m \in Sizes : n <= m
  BY <1>3, LeastElement
<1>5. PICK T \in Bad : n = Cardinality(T)
  BY <1>4
<1>6. CASE T = {}
  <2>1. Cardinality(T) = 0
    BY <1>6, FS_EmptySet
  <2>2. Lists(T, [i \in 1..0 |-> i])
    BY <1>6, <2>1 DEF Lists
  <2> QED BY <1>5, <2>2
<1>7. CASE T # {}
  <2> DEFINE Seqs == {r.seq : r \in T}
  <2>1. Seqs \subseteq Nat /\ Seqs # {} /\ Numbered(T)
    BY <1>1, <1>5, <1>7 DEF Numbered
  <2>2. PICK r \in T : \A q \in T : r.seq <= q.seq
    <3>1. PICK k \in Seqs : \A m \in Seqs : k <= m
      BY <2>1, LeastElement
    <3> QED BY <3>1
  <2>3. Cardinality(T \ {r}) = n - 1 /\ n \in Nat
    BY <1>5, <2>1, FS_RemoveElement, FS_CardinalityType DEF Numbered
  <2>4. T \ {r} \notin Bad
    BY <1>4, <1>5, <2>3
  <2>5. PICK t : Lists(T \ {r}, t)
    BY <1>5, <2>4
  <2> QED BY <1>5, <2>1, <2>2, <2>5, FirstThenRest
<1> QED BY <1>6, <1>7

\* A list of rows has all of them.
LEMMA ListIsAll ==
  ASSUME NEW S, Numbered(S), NEW s, Lists(S, s)
  PROVE  /\ \A r \in S : \E i \in DOMAIN s : s[i] = r
         /\ s \in Seq(S) /\ DOMAIN s = 1..Cardinality(S) /\ Cardinality(S) \in Nat
<1>1. /\ s \in [1..Cardinality(S) -> S] /\ Cardinality(S) \in Nat /\ IsFiniteSet(S)
      /\ DOMAIN s = 1..Cardinality(S)
  BY FS_CardinalityType DEF Lists, Numbered
<1>2. ASSUME NEW i \in 1..Cardinality(S), NEW j \in 1..Cardinality(S), s[i] = s[j]
      PROVE  i = j
  <2>1. s[i].seq \in Nat
    BY <1>1 DEF Numbered
  <2>2. ~(s[i].seq < s[j].seq) /\ ~(s[j].seq < s[i].seq)
    BY <1>2, <2>1
  <2>3. ~(i < j) /\ ~(j < i)
    BY <1>1, <2>2 DEF Lists
  <2> QED BY <2>3
<1>3. s \in Injection(1..Cardinality(S), S)
  BY <1>1, <1>2 DEF Injection, IsInjective
<1>4. Cardinality(1..Cardinality(S)) = Cardinality(S)
  BY <1>1, FS_Interval
<1>5. s \in Surjection(1..Cardinality(S), S)
  BY <1>1, <1>3, <1>4, FS_Injection
<1>6. \A r \in S : \E i \in DOMAIN s : s[i] = r
  BY <1>1, <1>5 DEF Surjection
<1>7. s \in Seq(S)
  BY <1>1
<1> QED BY <1>1, <1>6, <1>7

-----------------------------------------------------------------------------
\* What the tables of the store hold.
Tables ==
  /\ lastId \in Nat /\ lastProv \in Nat
  /\ Ids \subseteq 1..lastId /\ \A i \in Ids : nodes[i] \in Claims
  /\ DOMAIN prov \subseteq 1..lastProv /\ \A k \in DOMAIN prov : prov[k].node \in Ids
  /\ \A e \in edges : e[1] \in Ids /\ e[2] \in Ids

\* A link between two facts that are both there is one the judge has asked for.
AsJudged(l) ==
  l[1] \in Ids /\ l[2] \in Ids =>
    \/ l[3] = "related_to" /\ <<nodes[l[1]], nodes[l[2]], "related">> \in judged
    \/ l[3] = "contradicted_by"
       /\ \E x, y \in {nodes[l[1]], nodes[l[2]]} : <<x, y, "contradiction">> \in judged
Links == (1..lastId) \X (1..lastId) \X {"related_to", "contradicted_by"}
LinksInv ==
  /\ links \in Seq(Links) /\ \A k \in DOMAIN links : AsJudged(links[k])
  /\ \A e \in edges : AsJudged(e)

\* What the service was told of a candidate is true for as long as the candidate exists.
AskedInv ==
  /\ asked = [claim |-> asked.claim, cands |-> asked.cands]
  /\ Candidates \subseteq 1..lastId
  /\ Candidates # {} => asked.claim \in Claims
  /\ \A i \in Candidates : i \in Ids => asked.cands[i] = nodes[i]

StoreInv == Tables /\ LinksInv /\ AskedInv

\* No id is given twice, and no fact is reworded.
Kept ==
  /\ lastId <= lastId' /\ lastId' \in Nat
  /\ \A i \in 1..lastId : i \in Ids' => i \in Ids /\ nodes'[i] = nodes[i]

LEMMA InsertKeeps ==
  ASSUME Tables, NEW c \in Claims, NEW ref, Insert(c, ref), UNCHANGED edges
  PROVE  /\ Tables' /\ Kept
         /\ lastId' = NewId /\ NewId \in Ids' /\ nodes'[NewId] = c
<1>1. /\ NewId = lastId + 1 /\ NewId \notin 1..lastId /\ lastId' = NewId
      /\ DOMAIN nodes' = Ids \cup {NewId} /\ nodes'[NewId] = c
      /\ \A i \in Ids : i # NewId /\ nodes'[i] = nodes[i]
  BY DEF Tables, Insert, NewId, Ids
<1>2. /\ lastProv' = lastProv + 1 /\ DOMAIN prov' = DOMAIN prov \cup {lastProv'}
      /\ \A k \in DOMAIN prov' : prov'[k].node = NewId \/ (k \in DOMAIN prov /\ prov'[k] = prov[k])
  BY DEF Insert, Attach
<1>3. Ids' = Ids \cup {NewId}
  BY <1>1 DEF Ids
<1>4. Kept
  BY <1>1, <1>3 DEF Kept, Tables
<1>5. Tables'
  <2>1. lastId' \in Nat /\ lastProv' \in Nat /\ Ids' \subseteq 1..lastId'
    BY <1>1, <1>2, <1>3 DEF Tables
  <2>2. DOMAIN prov' \subseteq 1..lastProv'
    BY <1>2 DEF Tables
  <2>3. /\ \A i \in Ids' : nodes'[i] \in Claims
        /\ \A k \in DOMAIN prov' : prov'[k].node \in Ids'
        /\ \A e \in edges' : e[1] \in Ids' /\ e[2] \in Ids'
    BY <1>1, <1>2, <1>3 DEF Tables
  <2> QED BY <2>1, <2>2, <2>3 DEF Tables
<1> QED BY <1>1, <1>3, <1>4, <1>5

LEMMA MergeKeeps ==
  ASSUME Tables, NEW i \in Ids, NEW ref, Merge(i, ref), UNCHANGED edges
  PROVE  Tables' /\ Kept
<1>1. /\ lastProv' = lastProv + 1 /\ DOMAIN prov' = DOMAIN prov \cup {lastProv'}
      /\ \A k \in DOMAIN prov' : prov'[k].node = i \/ (k \in DOMAIN prov /\ prov'[k] = prov[k])
      /\ UNCHANGED <<nodes, lastId>>
  BY DEF Merge, Attach
<1>2. Ids' = Ids
  BY <1>1 DEF Ids
<1>3. DOMAIN prov' \subseteq 1..lastProv' /\ lastProv' \in Nat
  BY <1>1 DEF Tables
<1>4. Tables'
  BY <1>1, <1>2, <1>3 DEF Tables
<1> QED BY <1>1, <1>2, <1>4 DEF Kept, Tables

LEMMA AddFactKeeps ==
  ASSUME Tables, NEW c \in Claims, NEW ref, AddFact(c, ref)
  PROVE  Tables' /\ Kept /\ UNCHANGED edges
<1>1. CASE \E i \in Exact(c) : (\A j \in Exact(c) : i <= j) /\ Merge(i, ref)
  BY <1>1, MergeKeeps DEF AddFact, Exact
<1>2. CASE Insert(c, ref)
  BY <1>2, InsertKeeps DEF AddFact
<1> QED BY <1>1, <1>2 DEF AddFact

\* What was so stays so when nothing is reworded and no verdict is taken back.
LEMMA JudgedKept ==
  ASSUME Kept, judged \subseteq judged', NEW l, l[1] \in 1..lastId, l[2] \in 1..lastId, AsJudged(l)
  PROVE  AsJudged(l)'
<1> SUFFICES ASSUME l[1] \in Ids', l[2] \in Ids'
             PROVE  \/ l[3] = "related_to" /\ <<nodes'[l[1]], nodes'[l[2]], "related">> \in judged'
                    \/ l[3] = "contradicted_by"
                       /\ \E x, y \in {nodes'[l[1]], nodes'[l[2]]} :
                            <<x, y, "contradiction">> \in judged'
  BY DEF AsJudged
<1>1. l[1] \in Ids /\ l[2] \in Ids /\ nodes'[l[1]] = nodes[l[1]] /\ nodes'[l[2]] = nodes[l[2]]
  BY DEF Kept
<1> QED BY <1>1 DEF AsJudged

LEMMA LinksKept ==
  ASSUME Tables, LinksInv, Kept, judged \subseteq judged', links' = links, edges' \subseteq edges
  PROVE  LinksInv'
<1>1. /\ links \in Seq(Links) /\ \A k \in DOMAIN links : links[k] \in Links
  BY LenProperties, ElementOfSeq DEF LinksInv
<1>2. Links \subseteq Links'
  BY DEF Links, Kept, Tables
<1>3. links' \in Seq(Links')
  <2> HIDE DEF Links
  <2>1. \A k \in 1..Len(links) : links[k] \in Links'
    BY <1>1, <1>2, LenProperties
  <2>2. links \in [1..Len(links) -> Links'] /\ Len(links) \in Nat
    BY <1>1, <2>1, LenProperties
  <2> QED BY <2>2
<1>4. \A k \in DOMAIN links' : AsJudged(links[k])'
  <2>1. \A k \in DOMAIN links : links[k][1] \in 1..lastId /\ links[k][2] \in 1..lastId
    BY <1>1 DEF Links
  <2> QED BY <2>1, JudgedKept DEF LinksInv
<1>5. \A e \in edges' : AsJudged(e)'
  BY JudgedKept DEF LinksInv, Tables
<1> QED
  BY <1>3, <1>4, <1>5 DEF LinksInv

LEMMA AskedKept ==
  ASSUME Tables, AskedInv, Kept, asked' \in {asked, Idle}
  PROVE  AskedInv'
<1>1. CASE asked' = asked
  <2>1. Candidates' = Candidates /\ \A i \in Candidates : i \in 1..lastId'
    BY <1>1 DEF Candidates, AskedInv, Kept, Tables
  <2>2. \A i \in Candidates' : i \in Ids' => asked'.cands[i] = nodes'[i]
    BY <1>1, <2>1 DEF AskedInv, Kept
  <2> QED BY <1>1, <2>1, <2>2 DEF AskedInv
<1>2. CASE asked' = Idle
  <2>1. Candidates' = {}
    <3>1. asked'.cands = <<>>
      BY <1>2 DEF Idle
    <3>2. DOMAIN asked'.cands = {}
      BY <3>1, EmptySeq
    <3> QED BY <3>2 DEF Candidates
  <2> QED BY <1>2, <2>1 DEF AskedInv, Idle
<1> QED BY <1>1, <1>2

\* An occurrence is added, by the service or by the watcher.
LEMMA AddedInv ==
  ASSUME StoreInv, Tables', Kept, judged \subseteq judged', links' = links,
         edges' = edges, asked' \in {asked, Idle}
  PROVE  StoreInv'
BY LinksKept, AskedKept DEF StoreInv

LEMMA LearnInv ==
  ASSUME StoreInv, NEW c \in Taught, Learn(c)
  PROVE  StoreInv'
<1>1. c \in Claims
  BY StoreAssumption
<1>2. UNCHANGED <<links, judged>>
  BY DEF Learn
<1>3. CASE AddFact(c, Text) /\ UNCHANGED asked
  BY <1>1, <1>2, <1>3, AddFactKeeps, AddedInv DEF StoreInv
<1>4. ASSUME NEW S \in SUBSET Ids, asked' = [claim |-> c, cands |-> [i \in S |-> nodes[i]]],
             UNCHANGED store
      PROVE  StoreInv'
  <2>1. UNCHANGED <<nodes, lastId, prov, lastProv, edges>> /\ Ids' = Ids
    BY <1>4 DEF store, facts, Ids
  <2>2. Tables' /\ Kept
    BY <2>1 DEF StoreInv, Tables, Kept
  <2>3. Candidates' = S /\ \A i \in S : asked'.cands[i] = nodes[i]
    BY <1>4 DEF Candidates
  <2>4. AskedInv'
    BY <1>1, <1>4, <2>1, <2>3 DEF AskedInv, StoreInv, Tables
  <2>5. LinksInv'
    BY <1>2, <2>1, <2>2, LinksKept DEF StoreInv
  <2> QED BY <2>2, <2>4, <2>5 DEF StoreInv
<1> QED
  BY <1>3, <1>4 DEF Learn

LEMMA DuplicateInv ==
  ASSUME StoreInv, NEW i \in Candidates, Duplicate(i)
  PROVE  StoreInv'
<1>1. /\ judged \subseteq judged' /\ asked' = Idle /\ UNCHANGED <<edges, links>>
      /\ (i \in Ids /\ Merge(i, Text)) \/ UNCHANGED <<nodes, lastId, prov, lastProv>>
  BY DEF Duplicate, Judge, facts
<1>2. Tables' /\ Kept
  <2>1. CASE i \in Ids /\ Merge(i, Text)
    BY <1>1, <2>1, MergeKeeps DEF StoreInv
  <2>2. CASE UNCHANGED <<nodes, lastId, prov, lastProv>>
    BY <1>1, <2>2 DEF StoreInv, Tables, Kept, Ids
  <2> QED BY <1>1, <2>1, <2>2
<1> QED
  BY <1>1, <1>2, AddedInv

LEMMA UnrelatedInv ==
  ASSUME StoreInv, NEW i \in Candidates, Unrelated(i)
  PROVE  StoreInv'
<1>1. UNCHANGED <<edges, links, judged>>
  BY DEF Unrelated
<1>2. CASE Insert(asked.claim, Text) /\ asked' = Idle
  <2>1. asked.claim \in Claims
    BY DEF StoreInv, AskedInv
  <2> QED BY <1>1, <1>2, <2>1, InsertKeeps, AddedInv DEF StoreInv
<1>3. CASE /\ asked' = [asked EXCEPT !.cands = [j \in Candidates \ {i} |-> asked.cands[j]]]
           /\ UNCHANGED <<facts, stuck>>
  <2>1. UNCHANGED <<nodes, lastId, prov, lastProv>> /\ Ids' = Ids
    BY <1>3 DEF facts, Ids
  <2>2. Tables' /\ Kept
    BY <1>1, <2>1 DEF StoreInv, Tables, Kept
  <2>3. asked' = [claim |-> asked.claim,
                  cands |-> [j \in Candidates \ {i} |-> asked.cands[j]]]
    BY <1>3 DEF StoreInv, AskedInv
  <2>4. Candidates' = Candidates \ {i} /\ \A j \in Candidates' : asked'.cands[j] = asked.cands[j]
    BY <2>3 DEF Candidates
  <2>5. AskedInv'
    BY <2>1, <2>3, <2>4 DEF StoreInv, AskedInv
  <2> QED BY <1>1, <2>2, <2>5, LinksKept DEF StoreInv
<1> QED
  BY <1>2, <1>3 DEF Unrelated

LEMMA DistinctInv ==
  ASSUME StoreInv, NEW i \in Candidates, NEW v \in {"contradiction", "related"}, Distinct(i, v)
  PROVE  StoreInv'
<1>1. /\ judged' = judged \cup {<<asked.claim, asked.cands[i], v>>}
      /\ Insert(asked.claim, Text) /\ asked' = Idle /\ UNCHANGED edges
      /\ links' = IF v = "contradiction"
                  THEN <<<<NewId, i, "contradicted_by">>, <<i, NewId, "contradicted_by">>>>
                  ELSE <<<<NewId, i, "related_to">>>>
  BY DEF Distinct, Judge
<1>2. asked.claim \in Claims /\ i \in 1..lastId /\ lastId \in Nat
  BY DEF StoreInv, AskedInv, Tables
<1>3. Tables' /\ Kept /\ lastId' = NewId /\ NewId \in Ids' /\ nodes'[NewId] = asked.claim
  BY <1>1, <1>2, InsertKeeps DEF StoreInv
<1>4. i \in Ids' => nodes'[i] = asked.cands[i]
  BY <1>2, <1>3 DEF Kept, StoreInv, AskedInv
<1>5. NewId \in 1..lastId' /\ i \in 1..lastId'
  BY <1>2, <1>3 DEF NewId
<1>6. AskedInv'
  BY <1>1, <1>3, AskedKept DEF StoreInv
<1>7. \A e \in edges' : AsJudged(e)'
  BY <1>1, <1>3, JudgedKept DEF StoreInv, LinksInv, Tables
<1>8. /\ links' \in Seq(Links')
      /\ \A k \in DOMAIN links' : AsJudged(links[k])'
  <2>1. CASE v = "contradiction"
    <3>0. PICK a, b : /\ a = <<NewId, i, "contradicted_by">>
                      /\ b = <<i, NewId, "contradicted_by">>
      OBVIOUS
    <3>1. links' = <<a, b>>
      BY <1>1, <2>1, <3>0
    <3>2. a \in Links' /\ b \in Links'
      BY <1>5, <3>0 DEF Links
    <3>3. <<nodes'[NewId], nodes'[i], "contradiction">> \in judged' \/ i \notin Ids'
      BY <1>1, <1>3, <1>4, <2>1
    <3>4. AsJudged(a)' /\ AsJudged(b)'
      BY <3>0, <3>3 DEF AsJudged
    <3>5. DOMAIN links' = {1, 2} /\ links'[1] = a /\ links'[2] = b
      BY <3>1
    <3>6. \A k \in DOMAIN links' : AsJudged(links[k])'
      BY <3>4, <3>5
    <3> HIDE DEF Links
    <3>7. links' \in Seq(Links')
      BY <3>1, <3>2
    <3> QED BY <3>6, <3>7
  <2>2. CASE v = "related"
    <3>0. PICK a : a = <<NewId, i, "related_to">>
      OBVIOUS
    <3>1. links' = <<a>>
      BY <1>1, <2>2, <3>0
    <3>2. a \in Links'
      BY <1>5, <3>0 DEF Links
    <3>3. <<nodes'[NewId], nodes'[i], "related">> \in judged' \/ i \notin Ids'
      BY <1>1, <1>3, <1>4, <2>2
    <3>4. AsJudged(a)'
      BY <3>0, <3>3 DEF AsJudged
    <3>5. DOMAIN links' = {1} /\ links'[1] = a
      BY <3>1
    <3>6. \A k \in DOMAIN links' : AsJudged(links[k])'
      BY <3>4, <3>5
    <3> HIDE DEF Links
    <3>7. links' \in Seq(Links')
      BY <3>1, <3>2
    <3> QED BY <3>6, <3>7
  <2> QED BY <2>1, <2>2
<1> QED
  BY <1>3, <1>6, <1>7, <1>8 DEF StoreInv, LinksInv

LEMMA LinkInv ==
  ASSUME StoreInv, Link
  PROVE  StoreInv'
<1>1. /\ links # <<>> /\ UNCHANGED <<nodes, lastId, prov, lastProv, asked, judged>>
      /\ Ids' = Ids
  BY DEF Link, facts, Ids
<1> DEFINE l == Head(links)
<1>2. /\ l \in Links /\ AsJudged(l) /\ links \in Seq(Links)
      /\ Tail(links) \in Seq(Links)
      /\ \A k \in DOMAIN Tail(links) : k + 1 \in DOMAIN links /\ Tail(links)[k] = links[k + 1]
  <2> HIDE DEF Links
  <2> QED BY <1>1, OneLess DEF StoreInv, LinksInv
<1>3. \A k \in DOMAIN Tail(links) : AsJudged(Tail(links)[k])
  BY <1>2 DEF StoreInv, LinksInv
<1>4. \A x : AsJudged(x) => AsJudged(x)'
  BY <1>1 DEF AsJudged
<1>5. Links' = Links /\ Candidates' = Candidates
  BY <1>1 DEF Links, Candidates
<1>6. AskedInv'
  BY <1>1, <1>5 DEF StoreInv, AskedInv
<1> HIDE DEF Links, l
<1>7. CASE {l[1], l[2]} \subseteq Ids /\ edges' = edges \cup {l} /\ links' = Tail(links)
  <2>1. Tables'
    BY <1>1, <1>7 DEF StoreInv, Tables
  <2>2. \A e \in edges' : AsJudged(e)'
    BY <1>2, <1>4, <1>7 DEF StoreInv, LinksInv
  <2>3. \A k \in DOMAIN links' : AsJudged(links[k])'
    BY <1>3, <1>4, <1>7
  <2> QED
    BY <1>2, <1>5, <1>6, <1>7, <2>1, <2>2, <2>3 DEF StoreInv, LinksInv
<1>8. CASE links' = <<>> /\ UNCHANGED edges
  <2>1. Tables'
    BY <1>1, <1>8 DEF StoreInv, Tables
  <2>2. \A e \in edges' : AsJudged(e)'
    BY <1>4, <1>8 DEF StoreInv, LinksInv
  <2>3. links' \in Seq(Links') /\ DOMAIN links' = {}
    BY <1>8, EmptySeq
  <2> QED
    BY <1>6, <2>1, <2>2, <2>3 DEF StoreInv, LinksInv
<1> QED
  BY <1>7, <1>8 DEF Link, l

LEMMA ForgetInv ==
  ASSUME StoreInv, NEW i \in Ids, Forget(i)
  PROVE  StoreInv'
<1>1. /\ edges' = {e \in edges : i \notin {e[1], e[2]}}
      /\ DOMAIN prov' = {k \in DOMAIN prov : prov[k].node # i}
      /\ \A k \in DOMAIN prov' : prov'[k] = prov[k]
      /\ DOMAIN nodes' = Ids \ {i} /\ \A j \in DOMAIN nodes' : nodes'[j] = nodes[j]
      /\ UNCHANGED <<lastId, lastProv, asked, links, judged>>
  BY DEF Forget, service
<1>2. Ids' = Ids \ {i}
  BY <1>1 DEF Ids
<1>3. Kept
  BY <1>1, <1>2 DEF StoreInv, Tables, Kept
<1>4. Tables'
  <2>1. \A e \in edges' : e[1] \in Ids' /\ e[2] \in Ids'
    BY <1>1, <1>2 DEF StoreInv, Tables
  <2>2. \A k \in DOMAIN prov' : prov'[k].node \in Ids'
    BY <1>1, <1>2 DEF StoreInv, Tables
  <2>3. DOMAIN prov' \subseteq 1..lastProv' /\ Ids' \subseteq 1..lastId'
    BY <1>1, <1>2 DEF StoreInv, Tables
  <2>4. \A j \in Ids' : nodes'[j] \in Claims
    BY <1>1, <1>2 DEF StoreInv, Tables, Ids
  <2> QED BY <1>1, <2>1, <2>2, <2>3, <2>4 DEF StoreInv, Tables
<1> QED
  BY <1>1, <1>3, <1>4, LinksKept, AskedKept DEF StoreInv

\* A call that fails, or the service dying, loses only what it had still to do.
LEMMA FailsInv ==
  ASSUME StoreInv, CallFails \/ ServiceDies \/ UNCHANGED memory
  PROVE  StoreInv'
<1>1. UNCHANGED <<nodes, lastId, prov, lastProv, edges, judged>> /\ asked' \in {asked, Idle}
  BY DEF CallFails, ServiceDies, memory, store, facts, service
<1>2. Tables' /\ Kept
  BY <1>1 DEF StoreInv, Tables, Kept, Ids
<1>3. AskedInv'
  BY <1>1, <1>2, AskedKept DEF StoreInv
<1>4. CASE links' = links
  BY <1>1, <1>2, <1>3, <1>4, LinksKept DEF StoreInv
<1>5. CASE links' = <<>>
  <2>1. links' \in Seq(Links') /\ DOMAIN links' = {}
    BY <1>5, EmptySeq
  <2>2. \A e \in edges' : AsJudged(e)'
    BY <1>1, <1>2, JudgedKept DEF StoreInv, LinksInv, Tables
  <2> QED BY <1>2, <1>3, <2>1, <2>2 DEF StoreInv, LinksInv
<1> QED
  BY <1>4, <1>5 DEF CallFails, ServiceDies, memory, service

LEMMA StoreStep ==
  ASSUME StoreInv, StoreNext \/ UNCHANGED memory
  PROVE  StoreInv'
BY LearnInv, DuplicateInv, UnrelatedInv, DistinctInv, LinkInv, ForgetInv, FailsInv
DEF StoreNext

LEMMA InitStore == StoreInit => StoreInv
<1> SUFFICES ASSUME StoreInit PROVE StoreInv
  OBVIOUS
<1>1. /\ nodes = <<>> /\ lastId = 0 /\ prov = <<>> /\ lastProv = 0 /\ edges = {}
      /\ asked = Idle /\ links = <<>>
  BY DEF StoreInit
<1>2. DOMAIN nodes = {} /\ DOMAIN prov = {} /\ DOMAIN links = {} /\ links \in Seq(Links)
  BY <1>1, EmptySeq
<1>3. Candidates = {}
  <2>1. asked.cands = <<>>
    BY <1>1 DEF Idle
  <2> QED BY <2>1, EmptySeq DEF Candidates
<1>4. Tables
  BY <1>1, <1>2 DEF Tables, Ids
<1>5. AskedInv
  BY <1>1, <1>3 DEF AskedInv, Idle
<1> QED
  BY <1>1, <1>2, <1>4, <1>5 DEF StoreInv, LinksInv

-----------------------------------------------------------------------------
\* To the watcher the journal is a table whose rows get ever higher sequences.
LEMMA JournalGrows ==
  ASSUME IInv, [JournalNext]_journal
  PROVE  /\ lastSeq \in Nat /\ lastSeq' \in Nat /\ lastSeq <= lastSeq'
         /\ numbered \subseteq numbered' /\ samples \subseteq samples'
         /\ \A r \in rows' : r \in rows \/ (r.seq \in Nat /\ r.seq > lastSeq)
<1>1. lastSeq \in Nat /\ batch \in Seq(1..MaxEvents)
  BY DEF IInv, Ranges, JournalType
<1>2. CASE Commit
  <2>1. Len(batch) \in Nat /\ DOMAIN batch = 1..Len(batch)
    BY <1>1, LenProperties
  <2>2. /\ rows' = rows \cup BatchRows /\ numbered' = numbered \cup BatchRows
        /\ lastSeq' = lastSeq + Len(batch) /\ samples' = samples
    BY <1>2 DEF Commit, calls
  <2>3. \A r \in BatchRows : r.seq \in Nat /\ r.seq > lastSeq
    BY <1>1, <2>1 DEF BatchRows
  <2> QED BY <1>1, <2>1, <2>2, <2>3
<1>3. CASE Start
  BY <1>1, <1>3 DEF Start, calls
<1>4. CASE ~Commit /\ ~Start
  <2>1. UNCHANGED <<rows, lastSeq, numbered>>
    BY <1>4 DEF JournalNext, AppendSample, AppendDurable, PutNow, PutTimeout, Settled,
                CommitTimeout, Return, Get, Fill, Rollback, Check, Close, PutStop, Exit,
                journal, table
  <2>2. samples \subseteq samples'
    BY <1>4 DEF JournalNext, AppendSample, AppendDurable, PutNow, PutTimeout, Settled,
                CommitTimeout, Return, Get, Fill, Rollback, Check, Close, PutStop, Exit,
                journal, calls
  <2> QED BY <1>1, <2>1, <2>2
<1> QED BY <1>2, <1>3, <1>4

\* Rows have sequences of their own, so there are finitely many of them.
LEMMA RowsNumbered ==
  ASSUME IInv, NEW S \in SUBSET rows
  PROVE  Numbered(S)
<1>1. /\ \A r \in S : r.seq \in 1..lastSeq
      /\ \A r, q \in S : r.seq = q.seq => r = q
      /\ lastSeq \in Nat
  BY DEF IInv, JournalType, Ranges, Lined
<1> DEFINE f == [r \in S |-> r.seq]
<1>2. f \in Injection(S, 1..lastSeq)
  BY <1>1 DEF Injection, IsInjective
<1>3. IsFiniteSet(1..lastSeq)
  BY <1>1, FS_Interval
<1>4. IsFiniteSet(S)
  BY <1>2, <1>3, FS_Injection
<1> QED BY <1>1, <1>4 DEF Numbered

\* The watermark and the pass of the watcher are about rows there are, and a stale
\* snapshot shows what has been stored.
WatchType ==
  /\ mark \in 0..lastSeq /\ top \in 0..lastSeq
  /\ todo \in Seq(numbered) /\ (todo # <<>> => passing)
  /\ txn \in {"none", "begun", "fresh", "stale"}
  /\ \A e \in seen : e = Text \/ e \in stored

\* What is recorded has been stored, and once.
Recorded ==
  /\ CountedOnce
  /\ \A k \in DOMAIN prov : prov[k].ref = Text \/ prov[k].ref \in stored

\* What the pass is about to leave behind it has been stored, or is still to be done.
ReadSoFar ==
  passing => \A r \in rows : r.seq <= top =>
               r.event \in stored \cup samples \/ r \in Elements(todo)

WatchInv == WatchType /\ Recorded /\ NothingSkipped /\ ReadSoFar

LEMMA MoreNumbered ==
  ASSUME NEW S, NEW s \in Seq(S), NEW T, S \subseteq T
  PROVE  s \in Seq(T)
OBVIOUS

LEMMA JournalActs ==
  ASSUME IInv, WatchInv, [JournalNext]_journal, UNCHANGED <<memory, watcher>>
  PROVE  WatchInv'
<1>1. /\ lastSeq \in Nat /\ lastSeq' \in Nat /\ lastSeq <= lastSeq'
      /\ numbered \subseteq numbered' /\ samples \subseteq samples'
      /\ \A r \in rows' : r \in rows \/ (r.seq \in Nat /\ r.seq > lastSeq)
  BY JournalGrows
<1>2. UNCHANGED <<mark, passing, todo, top, stored, prov, txn, seen>>
  BY DEF memory, store, facts, watcher, connection
<1>3. mark \in 0..lastSeq /\ top \in 0..lastSeq
  BY DEF WatchInv, WatchType
<1>5. WatchType'
  <2>1. mark' \in 0..lastSeq' /\ top' \in 0..lastSeq'
    BY <1>1, <1>2, <1>3
  <2>2. todo' \in Seq(numbered')
    BY <1>1, <1>2, MoreNumbered DEF WatchInv, WatchType
  <2> QED BY <1>2, <2>1, <2>2 DEF WatchInv, WatchType
<1>6. Recorded'
  BY <1>2 DEF WatchInv, Recorded, CountedOnce
<1>7. \A r \in rows' : r.seq <= mark \/ r.seq <= top => r \in rows
  BY <1>1, <1>3
<1>8. NothingSkipped'
  BY <1>1, <1>2, <1>7 DEF WatchInv, NothingSkipped
<1>9. ReadSoFar'
  BY <1>1, <1>2, <1>7 DEF WatchInv, ReadSoFar
<1> QED BY <1>5, <1>6, <1>8, <1>9 DEF WatchInv

\* One occurrence more, of what the service was taught or of an event that had none.
LEMMA AttachOnce ==
  ASSUME Tables, CountedOnce, NEW i, NEW ref, Attach(i, ref),
         ref = Text \/ ref \notin Sources
  PROVE  CountedOnce' /\ \A k \in DOMAIN prov' : prov'[k].ref \in {prov[j].ref : j \in DOMAIN prov} \cup {ref}
<1>1. /\ lastProv' \notin DOMAIN prov /\ DOMAIN prov' = DOMAIN prov \cup {lastProv'}
      /\ prov'[lastProv'].ref = ref
      /\ \A k \in DOMAIN prov : prov'[k] = prov[k]
  BY DEF Attach, Tables
<1> QED
  BY <1>1 DEF CountedOnce, Sources

\* The memory service and forget_node take nothing from the watcher but occurrences, and
\* the freshness of its snapshot.
LEMMA StoreActs ==
  ASSUME StoreInv, WatchInv, OthersWrite
  PROVE  WatchInv'
<1>0. StoreNext /\ UNCHANGED <<rows, lastSeq, numbered, samples, mark, passing, todo, top, stored>>
  BY DEF OthersWrite, journal, table, calls
<1>1. UNCHANGED <<rows, lastSeq, numbered, samples, mark, passing, todo, top, stored>>
  BY <1>0
<1>4. txn' \in {"none", "begun", "fresh", "stale"} /\ \A e \in seen' : e = Text \/ e \in stored'
  BY <1>1 DEF OthersWrite, connection, WatchInv, WatchType, Recorded, Sources
<1>2. \/ \E i : Attach(i, Text)
      \/ DOMAIN prov' \subseteq DOMAIN prov /\ \A k \in DOMAIN prov' : prov'[k] = prov[k]
  BY <1>0 DEF StoreNext, Learn, AddFact, Merge, Insert, Duplicate, Unrelated, Distinct, Link,
         Forget, CallFails, ServiceDies, store, facts
<1>3. Recorded'
  <2>1. CASE \E i : Attach(i, Text)
    BY <1>1, <2>1, AttachOnce DEF StoreInv, WatchInv, Recorded
  <2>2. CASE DOMAIN prov' \subseteq DOMAIN prov /\ \A k \in DOMAIN prov' : prov'[k] = prov[k]
    BY <1>1, <2>2 DEF WatchInv, Recorded, CountedOnce
  <2> QED BY <1>2, <2>1, <2>2
<1> QED
  BY <1>1, <1>3, <1>4 DEF WatchInv, WatchType, NothingSkipped, ReadSoFar

\* A pass begins: every row behind the watermark is read.
LEMMA ReadActs ==
  ASSUME IInv, WatchInv, ReadEvents
  PROVE  WatchInv'
<1>1. /\ ~passing /\ Behind # {} /\ passing' = TRUE /\ todo' = InOrder(Behind)
      /\ top' = InOrder(Behind)[Cardinality(Behind)].seq
      /\ UNCHANGED <<rows, lastSeq, numbered, samples, prov, mark, stored, txn, seen>>
  BY DEF ReadEvents, journal, table, calls, memory, store, facts, connection
<1>2. Behind \subseteq rows /\ Numbered(Behind)
  BY RowsNumbered DEF Behind
<1>3. Lists(Behind, todo')
  BY <1>1, <1>2, ListExists DEF Lists, InOrder
<1> DEFINE n == Cardinality(Behind)
<1>4. /\ \A r \in Behind : \E i \in DOMAIN todo' : todo'[i] = r
      /\ todo' \in Seq(Behind) /\ DOMAIN todo' = 1..n /\ n \in Nat
  BY <1>2, <1>3, ListIsAll
<1>5. n \in DOMAIN todo' /\ todo'[n] \in Behind
  BY <1>1, <1>3, <1>4 DEF Lists
<1>6. \A r \in rows : r \in numbered /\ r.seq \in 1..lastSeq
  BY DEF IInv, JournalType
<1>7. top' \in 1..lastSeq
  BY <1>1, <1>2, <1>5, <1>6
<1>8. WatchType'
  <2>1. todo' \in Seq(numbered')
    BY <1>1, <1>2, <1>4, <1>6, MoreNumbered
  <2> QED BY <1>1, <1>7, <2>1 DEF WatchInv, WatchType
<1>9. Recorded' /\ NothingSkipped'
  BY <1>1 DEF WatchInv, Recorded, CountedOnce, NothingSkipped
<1>10. ReadSoFar'
  <2>1. \A r \in rows : r.seq <= mark \/ r \in Behind
    BY <1>6 DEF Behind, WatchInv, WatchType, IInv, Ranges
  <2>2. \A r \in Behind : r \in Elements(todo')
    BY <1>4 DEF Elements
  <2> QED BY <1>1, <2>1, <2>2 DEF WatchInv, NothingSkipped, ReadSoFar
<1> QED
  BY <1>8, <1>9, <1>10 DEF WatchInv

\* One row is dealt with.
LEMMA IngestActs ==
  ASSUME IInv, StoreInv, WatchInv, IngestRow
  PROVE  StoreInv' /\ WatchInv'
<1> DEFINE e == Head(todo).event
<1>1. /\ todo # <<>> /\ todo' = Tail(todo)
      /\ UNCHANGED <<rows, lastSeq, numbered, samples, mark, passing, top, seen>>
      /\ txn' \in {"none", txn}
  BY DEF IngestRow, journal, table, calls
<1>2. /\ todo' \in Seq(numbered) /\ Head(todo) \in numbered
      /\ Elements(todo) = {Head(todo)} \cup Elements(todo')
  BY <1>1, OneLess DEF WatchInv, WatchType
<1>3. e \in 1..MaxEvents
  <2>1. DOMAIN answer = 1..Len(answer) /\ Len(answer) \in Nat /\ Len(answer) <= MaxEvents
    BY LenProperties DEF IInv, JournalType
  <2>2. MaxEvents \in Nat
    BY JournalAssumption
  <2>3. e \in DOMAIN answer
    BY <1>2 DEF IInv, JournalType, Known
  <2> QED BY <2>1, <2>2, <2>3
<1> HIDE DEF e
<1>4. \/ (e \in samples \/ AlreadyIngested(e)) /\ UNCHANGED <<memory, stored>>
      \/ /\ e \notin Sources /\ AddFact(ClaimOf(e), e) /\ stored' = stored \cup {e}
         /\ UNCHANGED <<service, forgets>>
  BY DEF IngestRow, Skipped, ToWrite, AlreadyIngested, e
<1>5. StoreInv' /\ Recorded' /\ stored \subseteq stored' /\ e \in stored' \cup samples
  <2>1. CASE (e \in samples \/ AlreadyIngested(e)) /\ UNCHANGED <<memory, stored>>
    <3>1. StoreInv'
      BY <2>1, StoreStep
    <3>2. AlreadyIngested(e) => e \in stored
      BY <1>3 DEF AlreadyIngested, Sources, WatchInv, WatchType, Recorded, Text
    <3>3. UNCHANGED prov
      BY <2>1 DEF memory, store, facts
    <3> QED BY <2>1, <3>1, <3>2, <3>3 DEF WatchInv, Recorded, CountedOnce
  <2>2. CASE /\ e \notin Sources /\ AddFact(ClaimOf(e), e) /\ stored' = stored \cup {e}
             /\ UNCHANGED <<service, forgets>>
    <3>1. Tables' /\ Kept /\ UNCHANGED edges
      BY <1>3, <2>2, ClaimAssumption, AddFactKeeps DEF StoreInv
    <3>2. UNCHANGED <<judged, links, asked>>
      BY <2>2 DEF service
    <3>3. \E i : Attach(i, e)
      BY <2>2 DEF AddFact, Merge, Insert
    <3>4. Recorded'
      BY <2>2, <3>3, AttachOnce DEF StoreInv, WatchInv, Recorded
    <3> QED BY <2>2, <3>1, <3>2, <3>4, AddedInv
  <2> QED BY <1>4, <2>1, <2>2
<1>6. WatchType'
  BY <1>1, <1>2, <1>5 DEF WatchInv, WatchType
<1>7. NothingSkipped' /\ ReadSoFar'
  BY <1>1, <1>2, <1>5 DEF WatchInv, NothingSkipped, ReadSoFar, e
<1> QED
  BY <1>5, <1>6, <1>7 DEF WatchInv

\* A pass ends: well, and the watermark moves, or not.
LEMMA EndActs ==
  ASSUME IInv, WatchInv, SaveState \/ LockedOut \/ WatcherStops \/ TornState
  PROVE  WatchInv'
<1>1. UNCHANGED <<rows, lastSeq, numbered, samples, prov, top, stored>> /\ passing' = FALSE
  BY DEF SaveState, LockedOut, WatcherStops, TornState, Restarted, Aborted, journal, table,
         calls, memory, store, facts
<1>2. todo' = <<>>
  BY DEF SaveState, LockedOut, WatcherStops, TornState, Restarted, Aborted
<1>8. txn' \in {"none", "begun", txn} /\ seen' \in {{}, seen}
  BY DEF SaveState, LockedOut, WatcherStops, TornState, Restarted, connection
<1>3. <<>> \in Seq(numbered) /\ lastSeq \in Nat
  BY EmptySeq DEF IInv, Ranges
<1>4. Recorded' /\ ReadSoFar'
  BY <1>1 DEF WatchInv, Recorded, CountedOnce, ReadSoFar
<1>5. mark' \in {mark, 0} \/ (passing /\ todo = <<>> /\ mark' = top)
  BY DEF SaveState, LockedOut, WatcherStops, TornState, Restarted, Aborted
<1>6. WatchType'
  BY <1>1, <1>2, <1>3, <1>5, <1>8 DEF WatchInv, WatchType
<1>7. NothingSkipped'
  <2>1. \A r \in rows : r.seq \in Nat /\ r.seq # 0
    BY <1>3 DEF IInv, JournalType
  <2>2. CASE mark' \in {mark, 0}
    BY <1>1, <2>1, <2>2 DEF WatchInv, NothingSkipped
  <2>3. CASE passing /\ todo = <<>> /\ mark' = top
    <3>1. Elements(todo) = {}
      BY <2>3, NoElements
    <3> QED BY <1>1, <2>3, <3>1 DEF WatchInv, ReadSoFar, NothingSkipped
  <2> QED BY <1>5, <2>2, <2>3
<1> QED
  BY <1>4, <1>6, <1>7 DEF WatchInv

\* The snapshot is fixed: nothing else changes.
LEMMA FixActs ==
  ASSUME WatchInv, FixSnapshot
  PROVE  WatchInv'
<1>1. /\ UNCHANGED <<rows, lastSeq, numbered, samples, prov, mark, passing, todo, top, stored, seen>>
      /\ txn' = "fresh"
  BY DEF FixSnapshot, journal, table, calls, memory, store, facts
<1> QED
  BY <1>1 DEF WatchInv, WatchType, Recorded, CountedOnce, NothingSkipped, ReadSoFar

LEMMA InitWatch == Init => StoreInv /\ WatchInv
<1> SUFFICES ASSUME Init PROVE StoreInv /\ WatchInv
  OBVIOUS
<1>1. StoreInv
  BY InitStore DEF Init
<1>2. /\ rows = {} /\ lastSeq = 0 /\ mark = 0 /\ top = 0 /\ todo = <<>> /\ passing = FALSE
      /\ prov = <<>> /\ txn = "none" /\ seen = {}
  BY DEF Init, JournalInit, StoreInit
<1>3. DOMAIN prov = {} /\ todo \in Seq(numbered)
  BY <1>2, EmptySeq
<1>4. WatchInv
  BY <1>2, <1>3 DEF WatchInv, WatchType, Recorded, CountedOnce, NothingSkipped, ReadSoFar
<1> QED BY <1>1, <1>4

-----------------------------------------------------------------------------
\* The journal runs as if nobody read it and nothing else were stored beside it
\* (brain_ingest.py:135-141): what is proved of it above holds here too.
THEOREM MemoryKeepsJournal == Spec => JournalSpec
<1>1. Init => JournalInit
  BY DEF Init
<1>2. [Next]_allVars => [JournalNext]_journal
  BY DEF Next, OthersWrite, ReadEvents, FixSnapshot, IngestRow, SaveState, LockedOut,
         WatcherStops, TornState, Restarted, Aborted, allVars
<1> QED
  BY <1>1, <1>2, PTL DEF Spec, JournalSpec

LEMMA MemoryStep ==
  ASSUME IInv, StoreInv, WatchInv, [Next]_allVars
  PROVE  StoreInv' /\ WatchInv'
<1>1. CASE (JournalNext /\ UNCHANGED <<memory, watcher>>) \/ UNCHANGED allVars
  BY <1>1, StoreStep, JournalActs DEF allVars
<1>2. CASE OthersWrite
  <2>1. StoreNext
    BY <1>2 DEF OthersWrite
  <2> QED BY <1>2, <2>1, StoreStep, StoreActs
<1>3. CASE IngestRow
  BY <1>3, IngestActs
<1>4. CASE \/ ReadEvents \/ FixSnapshot
           \/ SaveState \/ LockedOut \/ WatcherStops \/ TornState
  <2>1. UNCHANGED memory
    BY <1>4 DEF ReadEvents, FixSnapshot, SaveState, LockedOut, WatcherStops, TornState,
                Restarted, Aborted
  <2> QED BY <1>4, <2>1, StoreStep, ReadActs, FixActs, EndActs
<1> QED BY <1>1, <1>2, <1>3, <1>4 DEF Next

LEMMA MemoryInvariant == Spec => [](IInv /\ StoreInv /\ WatchInv)
<1>1. IInv /\ StoreInv /\ WatchInv /\ [Next]_allVars => StoreInv' /\ WatchInv'
  BY MemoryStep
<1> QED
  BY <1>1, InitWatch, MemoryKeepsJournal, JournalInvariant, PTL DEF Spec

\* A link joins two facts the judge has judged to be so, whatever was forgotten, and
\* whatever id given, while it was thinking (store.py:199-293, 331-339).
THEOREM LinksAreTrue == Spec => []LinksAsJudged
<1>1. StoreInv => LinksAsJudged
  BY DEF StoreInv, Tables, LinksInv, AsJudged, LinksAsJudged
<1> QED BY <1>1, MemoryInvariant, PTL

\* Over clears, rollbacks, crashes, locked stores and lost watermarks no event in the table
\* is left behind the watermark unread, and no occurrence is recorded twice
\* (brain_ingest.py:144-156, 183-199, 217-290).
THEOREM EventsCountOnce == Spec => []ReadOnceAndForAll
<1>1. IInv /\ StoreInv /\ WatchInv => ReadOnceAndForAll
  <2> SUFFICES ASSUME IInv, StoreInv, WatchInv PROVE ReadOnceAndForAll
    OBVIOUS
  <2>1. JournalType /\ StoreType
    BY DEF IInv, StoreInv, Tables, StoreType
  <2>2. \A i \in DOMAIN todo : todo[i] \in numbered
    BY LenProperties, ElementOfSeq DEF WatchInv, WatchType
  <2> QED
    BY <2>1, <2>2 DEF ReadOnceAndForAll, TypeOK, WatchInv, WatchType, Recorded
<1> QED BY <1>1, MemoryInvariant, PTL
=============================================================================
