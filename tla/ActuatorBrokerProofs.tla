------------------------ MODULE ActuatorBrokerProofs ------------------------
(***************************************************************************)
(* What is proved of ActuatorBroker, for any number of requests and        *)
(* losses: its types, that ok is never said of an older pose, and that the *)
(* head goes back only while a newer pose is still to be sent.  And of     *)
(* Expression, for any number of mood changes and restarts besides: it     *)
(* implements ActuatorBroker, and the eyes settle on what is wanted.       *)
(*                                                                         *)
(* The robot's head may go back to an older pose, so the claim about ok    *)
(* is inductive only together with what keeps that pose from being older   *)
(* than an answer: of what is in the slot, in the worker's hands and in    *)
(* line to be written, nothing is older than what has been answered ok,    *)
(* and nothing is written between the worker's pose and its answer that    *)
(* is older than this pose.                                                *)
(*                                                                         *)
(* That the head goes back only in passing rests on Newest: what the       *)
(* listener sends is the newest pose of all so far, so only the worker     *)
(* takes the head back, and the worker's pose is the desired one unless a  *)
(* newer one waits in the slot.                                            *)
(*                                                                         *)
(* That the eyes settle is inductive together with who stands for what the *)
(* brain wants while they have not: the queue, the worker's command or the *)
(* debt that a failed command leaves (Wanted), on wires with at most one   *)
(* command of each sender (WireInv).                                       *)
(***************************************************************************)
EXTENDS Expression, SequenceTheorems, TLAPS

\* What RemoveAt does to a sequence: one element less, the later ones move up.
LEMMA RemoveAtProperties ==
  ASSUME NEW S, NEW s \in Seq(S), NEW i \in 1..Len(s)
  PROVE  /\ RemoveAt(s, i) \in Seq(S)
         /\ Len(RemoveAt(s, i)) = Len(s) - 1
         /\ \A j \in 1..(Len(s) - 1) :
              RemoveAt(s, i)[j] = IF j < i THEN s[j] ELSE s[j + 1]
<1>1. /\ SubSeq(s, 1, i-1) \in Seq(S)
      /\ Len(SubSeq(s, 1, i-1)) = i - 1
      /\ \A j \in 1..(i-1) : SubSeq(s, 1, i-1)[j] = s[j]
  BY LenProperties
<1>2. /\ SubSeq(s, i+1, Len(s)) \in Seq(S)
      /\ Len(SubSeq(s, i+1, Len(s))) = Len(s) - i
      /\ \A j \in 1..(Len(s) - i) : SubSeq(s, i+1, Len(s))[j] = s[i + j]
  BY LenProperties
<1> DEFINE a == SubSeq(s, 1, i-1)
           b == SubSeq(s, i+1, Len(s))
<1>3. /\ a \o b \in Seq(S)
      /\ Len(a \o b) = Len(a) + Len(b)
      /\ \A j \in 1..(Len(a) + Len(b)) :
           (a \o b)[j] = IF j <= Len(a) THEN a[j] ELSE b[j - Len(a)]
  BY <1>1, <1>2, ConcatProperties
<1> HIDE DEF a, b
<1>4. Len(a) = i - 1 /\ Len(b) = Len(s) - i
  BY <1>1, <1>2 DEF a, b
<1>5. ASSUME NEW j \in 1..(Len(s) - 1)
      PROVE  (a \o b)[j] = IF j < i THEN s[j] ELSE s[j + 1]
  <2>1. CASE j < i
    <3>1. j \in 1..(i-1) /\ j <= Len(a) /\ j \in 1..(Len(a) + Len(b))
      BY <2>1, <1>4, LenProperties
    <3>2. (a \o b)[j] = a[j]
      BY <3>1, <1>3
    <3> QED BY <2>1, <3>1, <3>2, <1>1 DEF a
  <2>2. CASE ~(j < i)
    <3>1. /\ ~(j <= Len(a)) /\ j \in 1..(Len(a) + Len(b))
          /\ j - Len(a) \in 1..(Len(s) - i) /\ i + (j - Len(a)) = j + 1
      BY <2>2, <1>4, LenProperties
    <3>2. (a \o b)[j] = b[j - Len(a)]
      BY <3>1, <1>3
    <3>3. b[j - Len(a)] = s[i + (j - Len(a))]
      BY <3>1, <1>2 DEF b
    <3> QED BY <2>2, <3>1, <3>2, <3>3
  <2> QED BY <2>1, <2>2
<1>6. RemoveAt(s, i) = a \o b
  BY DEF RemoveAt, a, b
<1>7. Len(a \o b) = Len(s) - 1
  BY <1>3, <1>4, LenProperties
<1> QED
  BY <1>3, <1>5, <1>6, <1>7

\* No request newer than x has been answered ok.
OkUpTo(x) == \A n \in Requests : answer[n] = "ok" => n <= x

\* The slot is newer than the job and no newer than the desired pose; waiters have
\* asked for no newer pose than the one they wait for.
InOrder ==
  /\ job <= desired /\ slot <= desired
  /\ slot # 0 => job <= slot
  /\ \A n \in queued : n <= slot
  /\ \A n \in served : n <= job

\* Nothing that may still be sent is older than what has been answered ok.
NothingOlder ==
  /\ OkUpTo(head) /\ OkUpTo(desired)
  /\ slot # 0 => OkUpTo(slot)
  /\ job # 0 => OkUpTo(job)
  /\ \A i \in DOMAIN line : line[i].pose <= desired /\ OkUpTo(line[i].pose)

\* The worker is in line once, while it sends; what comes after it is no older.
LineInOrder ==
  /\ \A i \in DOMAIN line : line[i].who = "worker" =>
       /\ stage = "sending" /\ line[i].pose = job
       /\ \A k \in DOMAIN line : i < k => line[k].who = "listener" /\ line[k].pose >= job
  /\ stage = "written" => ready /\ \A i \in DOMAIN line : line[i].pose >= job

IInv == TypeOK /\ InOrder /\ NothingOlder /\ LineInOrder

\* The newest pose is in the slot, or the worker has it, or it has been sent; what the
\* listener sends is no older than the head's and than what is in line before it.
Newest ==
  /\ head <= desired
  /\ slot # 0 => slot = desired
  /\ job # 0 /\ slot = 0 => job = desired
  /\ \A i \in DOMAIN line : line[i].who = "listener" =>
       /\ head <= line[i].pose
       /\ \A j \in DOMAIN line : j < i => line[j].pose <= line[i].pose

-----------------------------------------------------------------------------
\* The parts of TypeOK that a step may change apart from each other.
CallerType ==
  /\ source \in Seq(Sources) /\ Len(source) <= MaxRequests
  /\ answer \in Seq({"none", "ok", "near", "refused", "failed"})
  /\ DOMAIN answer = Requests
  /\ desired \in {0} \cup Requests /\ slot \in {0} \cup Requests
  /\ queued \subseteq Requests
WorkerType ==
  /\ job \in {0} \cup Requests /\ (stage = "idle" <=> job = 0)
  /\ served \subseteq Requests
  /\ stage \in {"idle", "pacing", "sending", "written"}
  /\ lastSent \in {0} \cup Requests
LineType ==
  line \in Seq([who : {"worker", "listener"}, pose : {0} \cup Requests])
LinkType ==
  /\ ready \in BOOLEAN /\ losses \in 0..MaxLosses /\ lease \in BOOLEAN
  /\ restoring \in BOOLEAN
PivotType == pivot \in {"none", "waiting", "sent"} /\ mayPivot \in BOOLEAN
Parts ==
  /\ CallerType /\ WorkerType /\ LineType /\ LinkType /\ PivotType
  /\ head \in {0} \cup Requests /\ fresh \subseteq Requests

LEMMA TypeParts == TypeOK <=> Parts
BY DEF TypeOK, Parts, CallerType, WorkerType, LineType, LinkType, PivotType

LEMMA RequestNumbers ==
  ASSUME TypeOK
  PROVE  Requests = 1..Len(source) /\ Len(source) \in Nat
BY LenProperties DEF TypeOK, Requests

\* The requests in who are answered r: nobody else is, and r is an answer.
LEMMA Resolved ==
  ASSUME TypeOK, NEW who, NEW r \in {"ok", "near", "refused", "failed"}
  PROVE  /\ Resolve(who, r) \in Seq({"none", "ok", "near", "refused", "failed"})
         /\ DOMAIN Resolve(who, r) = Requests
         /\ \A n \in Requests : Resolve(who, r)[n] = "ok" =>
              answer[n] = "ok" \/ (n \in who /\ r = "ok")
<1>1. /\ DOMAIN answer = 1..Len(answer) /\ Len(answer) \in Nat
      /\ \A n \in DOMAIN answer : answer[n] \in {"none", "ok", "near", "refused", "failed"}
      /\ DOMAIN answer = Requests
  BY LenProperties, ElementOfSeq DEF TypeOK
<1>2. Resolve(who, r) \in [1..Len(answer) -> {"none", "ok", "near", "refused", "failed"}]
  BY <1>1 DEF Resolve
<1> QED
  BY <1>1, <1>2 DEF Resolve

\* What is in line is somebody's, with a pose.
LEMMA InLine ==
  ASSUME TypeOK, NEW i \in DOMAIN line
  PROVE  /\ line[i] \in [who : {"worker", "listener"}, pose : {0} \cup Requests]
         /\ line[i].who \in {"worker", "listener"} /\ line[i].pose \in {0} \cup Requests
         /\ i \in Nat
<1> DEFINE S == [who : {"worker", "listener"}, pose : {0} \cup Requests]
<1>1. line \in Seq(S)
  BY DEF TypeOK
<1> HIDE DEF S
<1>2. i \in 1..Len(line) /\ Len(line) \in Nat
  BY <1>1, LenProperties
<1>3. line[i] \in S
  BY <1>1, <1>2, ElementOfSeq
<1> QED
  BY <1>2, <1>3 DEF S

\* The line without its first.
LEMMA RestOfLine ==
  ASSUME TypeOK, line # <<>>
  PROVE  /\ Tail(line) \in Seq([who : {"worker", "listener"}, pose : {0} \cup Requests])
         /\ \A i \in DOMAIN Tail(line) : i + 1 \in DOMAIN line /\ Tail(line)[i] = line[i + 1]
         /\ 1 \in DOMAIN line /\ Head(line) = line[1]
         /\ DOMAIN Tail(line) \subseteq Nat \ {0} /\ DOMAIN line \subseteq Nat \ {0}
<1>1. line \in Seq([who : {"worker", "listener"}, pose : {0} \cup Requests])
  BY DEF TypeOK
<1> QED
  BY <1>1, HeadTailProperties, LenProperties

\* The line with one more.
LEMMA LongerLine ==
  ASSUME TypeOK, NEW e \in [who : {"worker", "listener"}, pose : {0} \cup Requests]
  PROVE  /\ Append(line, e) \in Seq([who : {"worker", "listener"}, pose : {0} \cup Requests])
         /\ \A i \in DOMAIN Append(line, e) :
              \/ i \in DOMAIN line /\ Append(line, e)[i] = line[i]
              \/ i = Len(line) + 1 /\ Append(line, e)[i] = e
         /\ \A i \in DOMAIN line : i \in Nat /\ i <= Len(line) /\ Len(line) \in Nat
<1>1. line \in Seq([who : {"worker", "listener"}, pose : {0} \cup Requests])
  BY DEF TypeOK
<1> QED
  BY <1>1, AppendProperties, LenProperties

\* The line without element i.
LEMMA ShorterLine ==
  ASSUME TypeOK, NEW i \in DOMAIN line
  PROVE  /\ RemoveAt(line, i) \in Seq([who : {"worker", "listener"}, pose : {0} \cup Requests])
         /\ \A k \in DOMAIN RemoveAt(line, i) :
              \E j \in DOMAIN line : j # i /\ RemoveAt(line, i)[k] = line[j]
<1> DEFINE S == [who : {"worker", "listener"}, pose : {0} \cup Requests]
<1>1. line \in Seq(S)
  BY DEF TypeOK
<1> HIDE DEF S
<1>2. DOMAIN line = 1..Len(line) /\ Len(line) \in Nat
  BY <1>1, LenProperties
<1>3. /\ RemoveAt(line, i) \in Seq(S) /\ Len(RemoveAt(line, i)) = Len(line) - 1
      /\ \A k \in 1..(Len(line) - 1) :
           RemoveAt(line, i)[k] = IF k < i THEN line[k] ELSE line[k + 1]
  BY <1>1, <1>2, RemoveAtProperties
<1>4. DOMAIN RemoveAt(line, i) = 1..(Len(line) - 1)
  BY <1>3, LenProperties
<1>5. ASSUME NEW k \in DOMAIN RemoveAt(line, i)
      PROVE  \E j \in DOMAIN line : j # i /\ RemoveAt(line, i)[k] = line[j]
  <2>1. CASE k < i
    BY <1>2, <1>3, <1>4, <2>1
  <2>2. CASE ~(k < i)
    <3>1. k + 1 \in DOMAIN line /\ k + 1 # i
      BY <1>2, <1>4, <2>2
    <3> QED BY <1>3, <1>4, <2>2, <3>1
  <2> QED BY <2>1, <2>2
<1> QED
  BY <1>3, <1>5 DEF S

-----------------------------------------------------------------------------
(* One lemma for each action, or for actions that do the same to the invariant. *)

LEMMA InitInv == Init => IInv
<1> SUFFICES ASSUME Init PROVE IInv
  OBVIOUS
<1>1. /\ source = <<>> /\ answer = <<>> /\ line = <<>> /\ Requests = {}
      /\ DOMAIN line = {} /\ DOMAIN answer = {} /\ Len(source) = 0
  BY EmptySeq DEF Init, Requests
<1>2. TypeOK
  <2>1. source \in Seq(Sources) /\ Len(source) <= MaxRequests
    BY <1>1, EmptySeq, BrokerAssumption
  <2>2. /\ answer \in Seq({"none", "ok", "near", "refused", "failed"})
        /\ line \in Seq([who : {"worker", "listener"}, pose : {0} \cup Requests])
    BY <1>1, EmptySeq
  <2>3. losses \in 0..MaxLosses
    BY BrokerAssumption DEF Init
  <2> QED
    BY <1>1, <2>1, <2>2, <2>3 DEF Init, TypeOK
<1>3. InOrder /\ NothingOlder /\ LineInOrder
  BY <1>1 DEF Init, InOrder, NothingOlder, OkUpTo, LineInOrder
<1> QED
  BY <1>2, <1>3 DEF IInv

\* A request that is refused at once, or takes the slot.
LEMMA HeadInv ==
  ASSUME IInv, ManualHead \/ TrackingHead
  PROVE  IInv'
<1> DEFINE n == Len(source) + 1
<1>1. TypeOK /\ InOrder /\ NothingOlder /\ LineInOrder
  BY DEF IInv
<1>2. Requests = 1..Len(source) /\ Len(source) \in Nat
  BY <1>1, RequestNumbers
<1>3. PICK s \in Sources, a \in {"none", "refused"} :
        source' = Append(source, s) /\ answer' = Append(answer, a)
  BY DEF ManualHead, TrackingHead, Sources
<1>4. /\ source \in Seq(Sources) /\ Len(source) < MaxRequests
      /\ answer \in Seq({"none", "ok", "near", "refused", "failed"})
      /\ DOMAIN answer = 1..Len(source)
  BY <1>1, <1>2 DEF TypeOK, ManualHead, TrackingHead
<1>5. Len(answer) = Len(source)
  BY <1>2, <1>4, LenProperties
<1>6. /\ source' \in Seq(Sources) /\ Len(source') = n /\ Requests' = 1..n
  BY <1>3, <1>4, AppendProperties, LenProperties DEF Requests
<1>7. /\ answer' \in Seq({"none", "ok", "near", "refused", "failed"})
      /\ DOMAIN answer' = 1..n
      /\ answer'[n] = a /\ \A m \in 1..Len(source) : answer'[m] = answer[m]
  BY <1>3, <1>4, <1>5, AppendProperties, LenProperties
<1>8. \/ desired' = n /\ slot' = n /\ queued' = queued \cup {n}
      \/ UNCHANGED <<desired, slot, queued>>
  BY <1>3, <1>6 DEF ManualHead, TrackingHead, Queue
<1>9. UNCHANGED <<worker, line, restoring, head, ready, losses>>
  BY DEF ManualHead, TrackingHead
<1>10. /\ fresh' \subseteq 1..n /\ lease' \in BOOLEAN
       /\ pivot' = pivot /\ mayPivot' \in BOOLEAN
  <2>1. fresh \subseteq 1..n /\ n \in 1..n /\ lease \in BOOLEAN /\ mayPivot \in BOOLEAN
    BY <1>1, <1>2 DEF TypeOK
  <2>2. CASE ManualHead
    BY <2>1, <2>2 DEF ManualHead
  <2>3. CASE TrackingHead
    <3>1. fresh' \in {fresh, fresh \cup {Len(source')}} /\ UNCHANGED <<lease, body>>
      BY <2>3 DEF TrackingHead
    <3> QED BY <1>6, <2>1, <3>1 DEF body
  <2> QED BY <2>2, <2>3
<1>11. MaxRequests \in Nat
  BY BrokerAssumption
<1> HIDE DEF n
<1>12. n \in Nat /\ n = Len(source) + 1 /\ Requests \subseteq 1..n /\ Requests' = 1..n
  BY <1>2, <1>6 DEF n
<1>13. Parts'
  <2>1. CallerType'
    <3>1. Len(source') <= MaxRequests
      BY <1>2, <1>4, <1>6, <1>11, <1>12
    <3>2. n \in Requests' /\ Requests \subseteq Requests' /\ DOMAIN answer' = Requests'
      BY <1>7, <1>12
    <3>3. /\ desired \in {0} \cup Requests /\ slot \in {0} \cup Requests
          /\ queued \subseteq Requests
      BY <1>1 DEF TypeOK
    <3>4. /\ desired' \in {0} \cup Requests' /\ slot' \in {0} \cup Requests'
          /\ queued' \subseteq Requests'
      BY <1>8, <3>2, <3>3
    <3> QED
      BY <1>6, <1>7, <3>1, <3>2, <3>4 DEF CallerType
  <2>2. WorkerType'
    BY <1>1, <1>9, <1>12 DEF TypeOK, WorkerType, worker
  <2>3. LineType'
    <3>1. [who : {"worker", "listener"}, pose : {0} \cup Requests]
            \subseteq [who : {"worker", "listener"}, pose : {0} \cup Requests']
      BY <1>12
    <3>2. line \in Seq([who : {"worker", "listener"}, pose : {0} \cup Requests'])
      <4> DEFINE S == [who : {"worker", "listener"}, pose : {0} \cup Requests]
                 T == [who : {"worker", "listener"}, pose : {0} \cup Requests']
      <4>1. line \in Seq(S) /\ S \subseteq T
        BY <1>1, <3>1 DEF TypeOK
      <4> HIDE DEF S, T
      <4>2. line \in Seq(T)
        BY <4>1
      <4> QED BY <4>2 DEF T
    <3> QED BY <1>9, <3>2 DEF LineType
  <2>4. LinkType' /\ PivotType' /\ head' \in {0} \cup Requests' /\ fresh' \subseteq Requests'
    BY <1>1, <1>9, <1>10, <1>12 DEF TypeOK, LinkType, PivotType
  <2> QED
    BY <2>1, <2>2, <2>3, <2>4 DEF Parts
<1>14. TypeOK'
  BY <1>13
  DEF Parts, CallerType, WorkerType, LineType, LinkType, PivotType, TypeOK
<1>15. InOrder'
  <2>1. /\ desired \in 0..n /\ slot \in 0..n /\ job \in 0..n /\ queued \subseteq 1..n
        /\ served \subseteq 1..n /\ job' = job /\ served' = served
    BY <1>1, <1>9, <1>12 DEF TypeOK, worker
  <2>2. /\ job <= desired /\ slot <= desired /\ (slot # 0 => job <= slot)
        /\ (\A m \in queued : m <= slot) /\ (\A m \in served : m <= job)
    BY <1>1 DEF InOrder
  <2>3. CASE desired' = n /\ slot' = n /\ queued' = queued \cup {n}
    BY <1>12, <2>1, <2>2, <2>3 DEF InOrder
  <2>4. CASE UNCHANGED <<desired, slot, queued>>
    BY <2>1, <2>2, <2>4 DEF InOrder
  <2> QED BY <1>8, <2>3, <2>4
<1>16. ASSUME NEW x PROVE OkUpTo(x) <=> \A m \in Requests' : answer'[m] = "ok" => m <= x
  BY <1>2, <1>3, <1>7, <1>12 DEF OkUpTo
<1>17. NothingOlder'
  <2>1. \A m \in Requests' : answer'[m] = "ok" => m <= head' /\ m <= desired'
    BY <1>1, <1>2, <1>3, <1>7, <1>8, <1>9, <1>12 DEF NothingOlder, OkUpTo
  <2>2. \A m \in Requests' : answer'[m] = "ok" =>
          (slot' # 0 => m <= slot') /\ (job' # 0 => m <= job')
    BY <1>1, <1>2, <1>3, <1>7, <1>8, <1>9, <1>12 DEF NothingOlder, OkUpTo, worker
  <2>3. \A i \in DOMAIN line' : line'[i].pose <= desired' /\
          \A m \in Requests' : answer'[m] = "ok" => m <= line'[i].pose
    <3>1. \A i \in DOMAIN line : line[i].pose \in {0} \cup Requests
      BY <1>1, InLine
    <3> QED
      BY <1>1, <1>2, <1>3, <1>7, <1>8, <1>9, <1>12, <3>1 DEF NothingOlder, OkUpTo
  <2> QED
    BY <2>1, <2>2, <2>3 DEF NothingOlder, OkUpTo
<1>18. LineInOrder'
  BY <1>1, <1>9 DEF LineInOrder, worker
<1> QED
  BY <1>14, <1>15, <1>17, <1>18 DEF IInv

\* What touches neither the poses nor the answers.
LEMMA AsideInv ==
  ASSUME IInv,
         \/ ManualBody \/ LeaseEnds \/ Expire
         \/ TrackingDrive \/ PivotGoes \/ PivotFails \/ UNCHANGED vars
  PROVE  IInv'
<1>1. TypeOK /\ InOrder /\ NothingOlder /\ LineInOrder
  BY DEF IInv
<1>2. /\ UNCHANGED <<caller, worker, line, restoring, head, ready, losses>>
      /\ lease' \in BOOLEAN /\ fresh' \subseteq Requests
  BY <1>1
  DEF ManualBody, LeaseEnds, Expire, TrackingDrive, PivotGoes, PivotFails, vars, TypeOK
<1>3. pivot' \in {"none", "waiting", "sent"} /\ mayPivot' \in BOOLEAN
  BY <1>1
  DEF ManualBody, LeaseEnds, Expire, TrackingDrive, PivotGoes, PivotFails, vars, TypeOK, body
<1>4. Requests' = Requests
  BY <1>2 DEF Requests, caller
<1>5. TypeOK'
  BY <1>1, <1>2, <1>3, <1>4 DEF TypeOK, caller, worker
<1>6. InOrder' /\ NothingOlder' /\ LineInOrder'
  BY <1>1, <1>2, <1>4 DEF InOrder, NothingOlder, OkUpTo, LineInOrder, caller, worker
<1> QED
  BY <1>5, <1>6 DEF IInv

LEMMA TakeSlotInv ==
  ASSUME IInv, TakeSlot
  PROVE  IInv'
<1>1. TypeOK /\ InOrder /\ NothingOlder /\ LineInOrder
  BY DEF IInv
<1>2. /\ stage = "idle" /\ slot # 0 /\ job' = slot /\ served' = queued /\ stage' = "pacing"
      /\ slot' = 0 /\ queued' = {}
      /\ UNCHANGED <<ready, losses, lease, fresh, source, answer, desired, lastSent,
                     line, restoring, head, pivot, mayPivot>>
  BY DEF TakeSlot, body
<1>3. Requests' = Requests /\ Requests \subseteq Nat
  BY <1>1, <1>2, RequestNumbers DEF Requests
<1>4. TypeOK'
  BY <1>1, <1>2, <1>3 DEF TypeOK
<1>5. InOrder'
  BY <1>1, <1>2, <1>3 DEF InOrder, TypeOK
<1>6. NothingOlder'
  BY <1>1, <1>2, <1>3 DEF NothingOlder, OkUpTo
<1>7. LineInOrder'
  BY <1>1, <1>2 DEF LineInOrder
<1> QED
  BY <1>4, <1>5, <1>6, <1>7 DEF IInv

\* The worker's job is answered r: nothing newer than the job is said to be ok.
LEMMA AnswersOk ==
  ASSUME IInv, NEW r \in {"ok", "near", "refused", "failed"}, WorkerAnswers(r),
         UNCHANGED source
  PROVE  /\ Requests' = Requests
         /\ answer' \in Seq({"none", "ok", "near", "refused", "failed"})
         /\ DOMAIN answer' = Requests
         /\ \A n \in Requests : answer'[n] = "ok" =>
              answer[n] = "ok" \/ (r = "ok" /\ n <= job)
<1>1. TypeOK /\ InOrder
  BY DEF IInv
<1> QED
  BY <1>1, Resolved DEF WorkerAnswers, InOrder, Requests

\* It is answered anything but ok, and leaves the line if it was in it.
LEMMA GivesUpInv ==
  ASSUME IInv, NEW r \in {"near", "refused", "failed"}, WorkerAnswers(r),
         UNCHANGED <<source, desired, slot, queued, head, pivot, restoring>>,
         line' \in Seq([who : {"worker", "listener"}, pose : {0} \cup Requests]),
         \A k \in DOMAIN line' : \E j \in DOMAIN line :
           line'[k] = line[j] /\ line[j].who = "listener",
         lastSent' \in {0, lastSent}, ready' \in BOOLEAN, losses' \in 0..MaxLosses,
         UNCHANGED <<lease, fresh, mayPivot>>
  PROVE  IInv'
<1>1. TypeOK /\ InOrder /\ NothingOlder /\ LineInOrder
  BY DEF IInv
<1>2. /\ Requests' = Requests
      /\ answer' \in Seq({"none", "ok", "near", "refused", "failed"})
      /\ DOMAIN answer' = Requests
      /\ \A n \in Requests : answer'[n] = "ok" => answer[n] = "ok"
  BY AnswersOk
<1>3. job' = 0 /\ served' = {} /\ stage' = "idle"
  BY DEF WorkerAnswers
<1>4. TypeOK'
  BY <1>1, <1>2, <1>3 DEF TypeOK
<1>5. Requests \subseteq Nat
  BY <1>1, RequestNumbers
<1>6. InOrder'
  BY <1>1, <1>2, <1>3, <1>5 DEF InOrder, TypeOK
<1>7. NothingOlder'
  BY <1>1, <1>2, <1>3 DEF NothingOlder, OkUpTo
<1>8. LineInOrder'
  <2>1. \A k \in DOMAIN line' : line'[k].who # "worker"
    OBVIOUS
  <2> QED BY <1>3, <2>1 DEF LineInOrder
<1> QED
  BY <1>4, <1>6, <1>7, <1>8 DEF IInv

\* With the worker out of the line, everything in it is the listener's.
LEMMA ListenersLine ==
  ASSUME TypeOK, LineInOrder, stage # "sending"
  PROVE  \A i \in DOMAIN line : line[i].who = "listener"
<1>1. \A i \in DOMAIN line : line[i].who \in {"worker", "listener"}
  BY InLine
<1> QED
  BY <1>1 DEF LineInOrder

LEMMA DecideInv ==
  ASSUME IInv, Decide
  PROVE  IInv'
<1>1. TypeOK /\ InOrder /\ NothingOlder /\ LineInOrder /\ stage = "pacing"
  BY DEF IInv, Decide
<1>2. UNCHANGED <<ready, losses, lease, fresh, source, desired, slot, queued, lastSent,
                  restoring, head, pivot, mayPivot>>
  BY DEF Decide, body
<1>3. CASE (WorkerAnswers("refused") \/ WorkerAnswers("near")) /\ UNCHANGED line
  <2>1. PICK r \in {"near", "refused", "failed"} : WorkerAnswers(r)
    BY <1>3
  <2>2. line' \in Seq([who : {"worker", "listener"}, pose : {0} \cup Requests])
    BY <1>1, <1>3 DEF TypeOK
  <2>3. \A k \in DOMAIN line' : \E j \in DOMAIN line :
           line'[k] = line[j] /\ line[j].who = "listener"
    BY <1>1, <1>3, ListenersLine
  <2>4. ready' \in BOOLEAN /\ losses' \in 0..MaxLosses
    BY <1>1, <1>2 DEF TypeOK
  <2> QED
    BY <1>2, <2>1, <2>2, <2>3, <2>4, GivesUpInv
<1>4. CASE /\ stage' = "sending"
           /\ line' = Append(line, [who |-> "worker", pose |-> job])
           /\ UNCHANGED <<job, served, answer>>
  <2>1. Requests' = Requests /\ Requests \subseteq Nat /\ job \in Requests
    BY <1>1, <1>2, RequestNumbers DEF Requests, TypeOK
  <2>2. [who |-> "worker", pose |-> job]
          \in [who : {"worker", "listener"}, pose : {0} \cup Requests]
    BY <2>1
  <2>3. /\ line' \in Seq([who : {"worker", "listener"}, pose : {0} \cup Requests])
        /\ \A i \in DOMAIN line' :
              \/ i \in DOMAIN line /\ line'[i] = line[i]
              \/ i = Len(line) + 1 /\ line'[i] = [who |-> "worker", pose |-> job]
        /\ \A i \in DOMAIN line : i \in Nat /\ i <= Len(line) /\ Len(line) \in Nat
    BY <1>1, <1>4, <2>2, LongerLine
  <2>4. TypeOK'
    BY <1>1, <1>2, <1>4, <2>1, <2>3 DEF TypeOK
  <2>5. InOrder'
    BY <1>1, <1>2, <1>4 DEF InOrder
  <2>6. NothingOlder'
    <3>1. \A i \in DOMAIN line' : line'[i].pose <= desired /\ OkUpTo(line'[i].pose)
      BY <1>1, <2>1, <2>3 DEF NothingOlder, InOrder, TypeOK
    <3> QED
      BY <1>1, <1>2, <1>4, <2>1, <3>1 DEF NothingOlder, OkUpTo
  <2>7. LineInOrder'
    <3>1. \A i \in DOMAIN line : line[i].who = "listener"
      BY <1>1, ListenersLine
    <3>2. ASSUME NEW i \in DOMAIN line', line'[i].who = "worker"
          PROVE  line'[i].pose = job /\ \A k \in DOMAIN line' : ~(i < k)
      <4>1. i \notin DOMAIN line
        BY <2>3, <3>1, <3>2
      <4>2. i = Len(line) + 1 /\ line'[i] = [who |-> "worker", pose |-> job]
        BY <2>3, <4>1
      <4>3. Len(line) \in Nat
        BY <1>1, LenProperties DEF TypeOK
      <4> QED
        BY <2>3, <4>2, <4>3
    <3> QED
      BY <1>4, <3>2 DEF LineInOrder
  <2> QED
    BY <2>4, <2>5, <2>6, <2>7 DEF IInv
<1> QED
  BY <1>3, <1>4 DEF Decide

LEMMA WriteInv ==
  ASSUME IInv, Write
  PROVE  IInv'
<1>1. TypeOK /\ InOrder /\ NothingOlder /\ LineInOrder
  BY DEF IInv
<1>2. /\ ready /\ line # <<>> /\ line' = Tail(line)
      /\ head' \in {head, Head(line).pose}
      /\ UNCHANGED <<ready, losses, lease, fresh, source, answer, desired, slot, queued,
                     job, served, lastSent, pivot, mayPivot>>
  BY DEF Write, body, caller
<1>3. /\ line' \in Seq([who : {"worker", "listener"}, pose : {0} \cup Requests])
      /\ \A i \in DOMAIN line' : i + 1 \in DOMAIN line /\ line'[i] = line[i + 1]
      /\ 1 \in DOMAIN line /\ Head(line) = line[1]
      /\ DOMAIN line' \subseteq Nat \ {0} /\ DOMAIN line \subseteq Nat \ {0}
  BY <1>1, <1>2, RestOfLine
<1>4. Requests' = Requests /\ Requests \subseteq Nat
  BY <1>1, <1>2, RequestNumbers DEF Requests
<1>5. line[1] \in [who : {"worker", "listener"}, pose : {0} \cup Requests]
  BY <1>1, <1>3, InLine
<1>6. \/ line[1].who = "worker" /\ stage' = "written" /\ UNCHANGED restoring
      \/ line[1].who = "listener" /\ restoring' = FALSE /\ UNCHANGED stage
  BY <1>3, <1>5 DEF Write
<1>7. line[1].who = "worker" => stage = "sending" /\ job # 0
  BY <1>1, <1>3 DEF LineInOrder, TypeOK
<1>8. TypeOK'
  BY <1>1, <1>2, <1>3, <1>4, <1>5, <1>6, <1>7 DEF TypeOK
<1>9. InOrder'
  BY <1>1, <1>2 DEF InOrder
<1>10. NothingOlder'
  BY <1>1, <1>2, <1>3, <1>4 DEF NothingOlder, OkUpTo
<1>11. CASE line[1].who = "worker" /\ stage' = "written"
  <2>1. \A k \in DOMAIN line : 1 < k => line[k].who = "listener" /\ line[k].pose >= job
    BY <1>1, <1>3, <1>11 DEF LineInOrder
  <2>2. \A i \in DOMAIN line' : line'[i].who = "listener" /\ line'[i].pose >= job
    <3> SUFFICES ASSUME NEW i \in DOMAIN line'
                 PROVE  line'[i].who = "listener" /\ line'[i].pose >= job
      OBVIOUS
    <3>1. i + 1 \in DOMAIN line /\ 1 < i + 1 /\ line'[i] = line[i + 1]
      BY <1>3
    <3> QED BY <2>1, <3>1
  <2> QED
    BY <1>2, <1>8, <1>9, <1>10, <1>11, <2>2 DEF LineInOrder, IInv
<1>12. CASE UNCHANGED stage
  <2>1. ASSUME NEW i \in DOMAIN line', line'[i].who = "worker"
        PROVE  /\ stage = "sending" /\ line'[i].pose = job
               /\ \A k \in DOMAIN line' : i < k =>
                    line'[k].who = "listener" /\ line'[k].pose >= job
    <3>1. i + 1 \in DOMAIN line /\ line[i + 1].who = "worker" /\ line'[i] = line[i + 1]
      BY <1>3, <2>1
    <3>2. /\ stage = "sending" /\ line[i + 1].pose = job
          /\ \A k \in DOMAIN line : i + 1 < k =>
                line[k].who = "listener" /\ line[k].pose >= job
      BY <1>1, <3>1 DEF LineInOrder
    <3>3. ASSUME NEW k \in DOMAIN line', i < k
          PROVE  line'[k].who = "listener" /\ line'[k].pose >= job
      <4>1. k + 1 \in DOMAIN line /\ i + 1 < k + 1 /\ line'[k] = line[k + 1]
        BY <1>3, <3>3
      <4> QED BY <3>2, <4>1
    <3> QED BY <3>1, <3>2, <3>3
  <2>2. stage = "written" => \A i \in DOMAIN line' : line'[i].pose >= job
    BY <1>1, <1>3 DEF LineInOrder
  <2> QED
    BY <1>2, <1>8, <1>9, <1>10, <1>12, <2>1, <2>2 DEF LineInOrder, IInv
<1> QED
  BY <1>6, <1>11, <1>12

LEMMA AckedInv ==
  ASSUME IInv, Acked
  PROVE  IInv'
<1>1. TypeOK /\ InOrder /\ NothingOlder /\ LineInOrder
  BY DEF IInv
<1>2. /\ stage = "written" /\ ready /\ head >= job /\ WorkerAnswers("ok") /\ lastSent' = job
      /\ UNCHANGED <<ready, losses, lease, fresh, source, desired, slot, queued,
                     line, restoring, head, pivot, mayPivot>>
  BY DEF Acked, body
<1>3. job' = 0 /\ served' = {} /\ stage' = "idle"
  BY <1>2 DEF WorkerAnswers
<1>4. /\ Requests' = Requests
      /\ answer' \in Seq({"none", "ok", "near", "refused", "failed"})
      /\ DOMAIN answer' = Requests
      /\ \A n \in Requests : answer'[n] = "ok" => answer[n] = "ok" \/ n <= job
  BY <1>2, AnswersOk
<1>5. Requests \subseteq Nat /\ \A i \in DOMAIN line : line[i].pose \in {0} \cup Requests
  BY <1>1, RequestNumbers, InLine
<1>6. TypeOK'
  BY <1>1, <1>2, <1>3, <1>4 DEF TypeOK
<1>7. InOrder'
  BY <1>1, <1>2, <1>3, <1>5 DEF InOrder, TypeOK
<1>8. ASSUME NEW x \in {0} \cup Requests, OkUpTo(x), job <= x
      PROVE  \A n \in Requests : answer'[n] = "ok" => n <= x
  BY <1>1, <1>4, <1>5, <1>8 DEF OkUpTo, TypeOK
<1>9. NothingOlder'
  <2>1. \A n \in Requests : answer'[n] = "ok" => n <= head
    BY <1>1, <1>2, <1>5, <1>8 DEF NothingOlder, TypeOK
  <2>2. \A n \in Requests : answer'[n] = "ok" => n <= desired
    BY <1>1, <1>8 DEF NothingOlder, InOrder, TypeOK
  <2>3. slot # 0 => \A n \in Requests : answer'[n] = "ok" => n <= slot
    BY <1>1, <1>8 DEF NothingOlder, InOrder, TypeOK
  <2>4. \A i \in DOMAIN line : \A n \in Requests : answer'[n] = "ok" => n <= line[i].pose
    <3> SUFFICES ASSUME NEW i \in DOMAIN line
                 PROVE  \A n \in Requests : answer'[n] = "ok" => n <= line[i].pose
      OBVIOUS
    <3>1. line[i].pose \in {0} \cup Requests /\ OkUpTo(line[i].pose) /\ line[i].pose >= job
      BY <1>1, <1>2, <1>5 DEF NothingOlder, LineInOrder
    <3>2. job <= line[i].pose
      BY <1>1, <1>5, <3>1 DEF TypeOK
    <3> QED BY <1>8, <3>1, <3>2
  <2> QED
    BY <1>1, <1>2, <1>3, <1>4, <2>1, <2>2, <2>3, <2>4 DEF NothingOlder, OkUpTo
<1>10. LineInOrder'
  BY <1>1, <1>2, <1>3 DEF LineInOrder
<1> QED
  BY <1>6, <1>7, <1>9, <1>10 DEF IInv

LEMMA SendFailsInv ==
  ASSUME IInv, SendFails
  PROVE  IInv'
<1>1. TypeOK /\ LineInOrder
  BY DEF IInv
<1>2. /\ WorkerAnswers("failed")
      /\ UNCHANGED <<ready, losses, lease, fresh, source, desired, slot, queued, lastSent,
                     restoring, head, pivot, mayPivot>>
  BY DEF SendFails, body
<1>3. /\ line' \in Seq([who : {"worker", "listener"}, pose : {0} \cup Requests])
      /\ \A k \in DOMAIN line' : \E j \in DOMAIN line :
           line'[k] = line[j] /\ line[j].who = "listener"
  <2>1. CASE stage = "written" /\ UNCHANGED line
    BY <1>1, <2>1, ListenersLine DEF TypeOK
  <2>2. ASSUME NEW i \in DOMAIN line, line[i].who = "worker", line' = RemoveAt(line, i)
        PROVE  /\ line' \in Seq([who : {"worker", "listener"}, pose : {0} \cup Requests])
               /\ \A k \in DOMAIN line' : \E j \in DOMAIN line :
                    line'[k] = line[j] /\ line[j].who = "listener"
    <3>1. \A j \in DOMAIN line : j # i => line[j].who = "listener"
      <4>1. \A j \in DOMAIN line : line[j].who \in {"worker", "listener"} /\ j \in Nat
        BY <1>1, InLine
      <4> QED BY <1>1, <2>2, <4>1 DEF LineInOrder
    <3> QED BY <1>1, <2>2, <3>1, ShorterLine
  <2> QED
    BY <2>1, <2>2 DEF SendFails
<1>4. ready' \in BOOLEAN /\ losses' \in 0..MaxLosses
  BY <1>1, <1>2 DEF TypeOK
<1> QED
  BY <1>2, <1>3, <1>4, GivesUpInv

LEMMA LinkUpInv ==
  ASSUME IInv, LinkUp
  PROVE  IInv'
<1>1. TypeOK /\ InOrder /\ NothingOlder /\ LineInOrder
  BY DEF IInv
<1>2. /\ ~ready /\ ready' = TRUE /\ restoring' = TRUE
      /\ line' = Append(line, [who |-> "listener", pose |-> desired])
      /\ UNCHANGED <<losses, lease, fresh, source, answer, desired, slot, queued,
                     job, served, stage, lastSent, head, pivot, mayPivot>>
  BY DEF LinkUp, body, caller, worker
<1>3. Requests' = Requests /\ Requests \subseteq Nat
  BY <1>1, <1>2, RequestNumbers DEF Requests
<1>4. [who |-> "listener", pose |-> desired]
        \in [who : {"worker", "listener"}, pose : {0} \cup Requests]
  BY <1>1 DEF TypeOK
<1>5. /\ line' \in Seq([who : {"worker", "listener"}, pose : {0} \cup Requests])
      /\ \A i \in DOMAIN line' :
            \/ i \in DOMAIN line /\ line'[i] = line[i]
            \/ i = Len(line) + 1 /\ line'[i] = [who |-> "listener", pose |-> desired]
      /\ \A i \in DOMAIN line : i \in Nat /\ i <= Len(line) /\ Len(line) \in Nat
  BY <1>1, <1>2, <1>4, LongerLine
<1>6. TypeOK'
  BY <1>1, <1>2, <1>3, <1>5 DEF TypeOK
<1>7. InOrder'
  BY <1>1, <1>2 DEF InOrder
<1>8. NothingOlder'
  <2>1. \A i \in DOMAIN line' : line'[i].pose <= desired /\ OkUpTo(line'[i].pose)
    BY <1>1, <1>3, <1>5 DEF NothingOlder, TypeOK
  <2> QED
    BY <1>1, <1>2, <1>3, <2>1 DEF NothingOlder, OkUpTo
<1>9. LineInOrder'
  <2>1. desired >= job /\ stage # "written"
    BY <1>1, <1>2, <1>3 DEF InOrder, LineInOrder, TypeOK
  <2>2. ASSUME NEW i \in DOMAIN line', line'[i].who = "worker"
        PROVE  /\ stage = "sending" /\ line'[i].pose = job
               /\ \A k \in DOMAIN line' : i < k =>
                    line'[k].who = "listener" /\ line'[k].pose >= job
    <3>1. i \in DOMAIN line /\ line'[i] = line[i]
      BY <1>5, <2>2
    <3>2. /\ stage = "sending" /\ line[i].pose = job
          /\ \A k \in DOMAIN line : i < k => line[k].who = "listener" /\ line[k].pose >= job
      BY <1>1, <2>2, <3>1 DEF LineInOrder
    <3> QED BY <1>5, <2>1, <3>1, <3>2
  <2> QED
    BY <1>2, <2>1, <2>2 DEF LineInOrder
<1> QED
  BY <1>6, <1>7, <1>8, <1>9 DEF IInv

LEMMA LinkDownInv ==
  ASSUME IInv, LinkDown
  PROVE  IInv'
<1>1. TypeOK /\ InOrder /\ NothingOlder /\ LineInOrder
  BY DEF IInv
<1>2. /\ losses < MaxLosses /\ losses' = losses + 1 /\ ready' = FALSE /\ lastSent' = 0
      /\ UNCHANGED <<lease, fresh, source, desired, slot, queued, line, restoring, head,
                     pivot, mayPivot>>
  BY DEF LinkDown, body
<1>3. losses' \in 0..MaxLosses /\ ready' \in BOOLEAN
  <2>1. losses \in 0..MaxLosses /\ MaxLosses \in Nat
    BY <1>1, BrokerAssumption DEF TypeOK
  <2>2. losses < MaxLosses /\ losses' = losses + 1 /\ ready' = FALSE
    BY <1>2
  <2>3. losses' \in 0..MaxLosses
    BY <2>1, <2>2
  <2> QED BY <2>2, <2>3
<1>4. CASE stage = "written" /\ WorkerAnswers("failed")
  <2>1. /\ line' \in Seq([who : {"worker", "listener"}, pose : {0} \cup Requests])
        /\ \A k \in DOMAIN line' : \E j \in DOMAIN line :
             line'[k] = line[j] /\ line[j].who = "listener"
    BY <1>1, <1>2, <1>4, ListenersLine DEF TypeOK
  <2> QED
    BY <1>2, <1>3, <1>4, <2>1, GivesUpInv
<1>5. CASE stage # "written" /\ UNCHANGED <<answer, stage, job, served>>
  <2>1. Requests' = Requests
    BY <1>2 DEF Requests
  <2>2. TypeOK'
    BY <1>1, <1>2, <1>3, <1>5, <2>1 DEF TypeOK
  <2>3. InOrder' /\ NothingOlder' /\ LineInOrder'
    BY <1>1, <1>2, <1>5, <2>1 DEF InOrder, NothingOlder, OkUpTo, LineInOrder
  <2> QED
    BY <2>2, <2>3 DEF IInv
<1> QED
  BY <1>4, <1>5 DEF LinkDown

-----------------------------------------------------------------------------
\* No pose older than one answered ok is left to be sent, in any behaviour.
THEOREM BrokerInvariant == Spec => []IInv
<1>1. IInv /\ [Next]_vars => IInv'
  <2> SUFFICES ASSUME IInv, [Next]_vars PROVE IInv'
    OBVIOUS
  <2> QED
    BY HeadInv, AsideInv, TakeSlotInv, DecideInv, WriteInv, AckedInv, SendFailsInv,
       LinkUpInv, LinkDownInv
    DEF Next
<1> QED
  BY InitInv, <1>1, PTL DEF Spec

\* Every variable of the broker keeps its type.
THEOREM BrokerTypes == Spec => []TypeOK
<1>1. IInv => TypeOK
  BY DEF IInv
<1> QED
  BY BrokerInvariant, <1>1, PTL

\* A caller of head_target is told ok only when the robot has its pose or a newer one,
\* although requests replace each other and reconnects restore other poses
\* (control_channel.py:440-577).
THEOREM OkIsTrue == Spec => []OkIsYoursOrNewer
<1>1. IInv => OkIsYoursOrNewer
  <2> SUFFICES ASSUME IInv, NEW n \in Requests, answer[n] = "ok" PROVE head >= n
    BY DEF OkIsYoursOrNewer
  <2>1. n <= head /\ n \in Nat /\ head \in Nat
    BY RequestNumbers DEF IInv, NothingOlder, OkUpTo, TypeOK
  <2> QED
    BY <2>1
<1> QED
  BY BrokerInvariant, <1>1, PTL
-----------------------------------------------------------------------------
LEMMA InitNewest == Init => Newest
<1> SUFFICES ASSUME Init PROVE Newest
  OBVIOUS
<1>1. DOMAIN line = {}
  BY EmptySeq DEF Init
<1> QED
  BY <1>1 DEF Init, Newest

\* A request for the head: it is newer than all others.
LEMMA HeadNewest ==
  ASSUME IInv, Newest, ManualHead \/ TrackingHead
  PROVE  Newest'
<1>1. TypeOK
  BY DEF IInv
<1>2. Requests = 1..Len(source) /\ Len(source) \in Nat
  BY <1>1, RequestNumbers
<1>3. /\ UNCHANGED <<worker, line, head>>
      /\ \/ desired' = Len(source') /\ slot' = Len(source')
         \/ UNCHANGED <<desired, slot>>
  BY DEF ManualHead, TrackingHead, Queue
<1>4. Len(source') = Len(source) + 1
  <2>1. \E s \in Sources : source' = Append(source, s)
    BY DEF ManualHead, TrackingHead, Sources
  <2> QED BY <1>1, <2>1, AppendProperties DEF TypeOK
<1>5. head \in 0..Len(source) /\ desired \in 0..Len(source) /\ job' = job
  BY <1>1, <1>2, <1>3 DEF TypeOK, worker
<1>6. CASE desired' = Len(source') /\ slot' = Len(source')
  <2>1. head <= desired' /\ slot' # 0
    BY <1>2, <1>4, <1>5, <1>6
  <2> QED BY <1>3, <1>6, <2>1 DEF Newest
<1>7. CASE UNCHANGED <<desired, slot>>
  BY <1>3, <1>5, <1>7 DEF Newest
<1> QED
  BY <1>3, <1>6, <1>7

\* The first in line is written: what follows of the listener's is newer.
LEMMA WriteNewest ==
  ASSUME IInv, Newest, Write
  PROVE  Newest'
<1>1. TypeOK /\ NothingOlder
  BY DEF IInv
<1>2. /\ line # <<>> /\ line' = Tail(line) /\ head' \in {head, Head(line).pose}
      /\ UNCHANGED <<desired, slot, job>>
  BY DEF Write, caller
<1>3. /\ \A i \in DOMAIN line' : i \in Nat /\ i # 0
      /\ \A i \in DOMAIN line' : i + 1 \in DOMAIN line /\ line'[i] = line[i + 1]
      /\ 1 \in DOMAIN line /\ Head(line) = line[1]
  BY <1>1, <1>2, RestOfLine
<1>4. head' <= desired
  BY <1>1, <1>2, <1>3 DEF Newest, NothingOlder
<1>5. ASSUME NEW i \in DOMAIN line', line'[i].who = "listener"
      PROVE  /\ head' <= line'[i].pose
             /\ \A j \in DOMAIN line' : j < i => line'[j].pose <= line'[i].pose
  <2>1. i + 1 \in DOMAIN line /\ line'[i] = line[i + 1] /\ 1 < i + 1
    BY <1>3
  <2>2. /\ head <= line[i + 1].pose
        /\ \A j \in DOMAIN line : j < i + 1 => line[j].pose <= line[i + 1].pose
    BY <1>5, <2>1 DEF Newest
  <2>3. head' <= line'[i].pose
    BY <1>2, <1>3, <2>1, <2>2
  <2>4. ASSUME NEW j \in DOMAIN line', j < i
        PROVE  line'[j].pose <= line'[i].pose
    <3>1. j + 1 \in DOMAIN line /\ line'[j] = line[j + 1] /\ j + 1 < i + 1
      BY <1>3, <2>4
    <3> QED BY <2>1, <2>2, <3>1
  <2> QED BY <2>3, <2>4
<1> QED
  BY <1>2, <1>4, <1>5 DEF Newest

\* The worker leaves the line, or only its stage changes: those behind it move up.
LEMMA SendFailsNewest ==
  ASSUME IInv, Newest, SendFails
  PROVE  Newest'
<1> DEFINE S == [who : {"worker", "listener"}, pose : {0} \cup Requests]
<1>1. line \in Seq(S)
  BY DEF IInv, TypeOK
<1>2. job' = 0 /\ UNCHANGED <<head, desired, slot>>
  BY DEF SendFails, WorkerAnswers
<1> HIDE DEF S
<1>3. CASE UNCHANGED line
  BY <1>2, <1>3 DEF Newest
<1>4. ASSUME NEW i \in DOMAIN line, line' = RemoveAt(line, i)
      PROVE  Newest'
  <2> DEFINE Old(k) == IF k < i THEN k ELSE k + 1
  <2>1. i \in 1..Len(line) /\ DOMAIN line = 1..Len(line) /\ Len(line) \in Nat
    BY <1>1, <1>4, LenProperties
  <2>2. DOMAIN line' = 1..(Len(line) - 1)
    BY <1>1, <1>4, <2>1, RemoveAtProperties, LenProperties
  <2>3. \A k \in DOMAIN line' : line'[k] = line[Old(k)]
    BY <1>1, <1>4, <2>1, <2>2, RemoveAtProperties
  <2>4. \A k \in DOMAIN line' : Old(k) \in DOMAIN line
    BY <2>1, <2>2
  <2>5. \A j, k \in DOMAIN line' : j < k => Old(j) < Old(k)
    BY <2>1, <2>2
  <2> HIDE DEF Old
  <2>6. ASSUME NEW k \in DOMAIN line', line'[k].who = "listener"
        PROVE  /\ head' <= line'[k].pose
               /\ \A j \in DOMAIN line' : j < k => line'[j].pose <= line'[k].pose
    BY <1>2, <2>3, <2>4, <2>5, <2>6 DEF Newest
  <2> QED
    BY <1>2, <2>6 DEF Newest
<1> QED
  BY <1>3, <1>4 DEF SendFails

LEMMA NewestStep ==
  ASSUME IInv, Newest, [Next]_vars
  PROVE  Newest'
<1>1. CASE ManualHead \/ TrackingHead
  BY <1>1, HeadNewest
<1>2. CASE TakeSlot
  BY <1>2 DEF TakeSlot, Newest
<1>3. CASE Decide
  <2>1. CASE UNCHANGED line
    BY <1>3, <2>1 DEF Decide, WorkerAnswers, Newest
  <2>2. CASE line' = Append(line, [who |-> "worker", pose |-> job]) /\ UNCHANGED job
    <3>1. TypeOK /\ job \in Requests
      BY <1>3 DEF IInv, TypeOK, Decide
    <3>2. [who |-> "worker", pose |-> job]
            \in [who : {"worker", "listener"}, pose : {0} \cup Requests]
      BY <3>1
    <3>3. /\ \A i \in DOMAIN line' :
               \/ i \in DOMAIN line /\ line'[i] = line[i]
               \/ i = Len(line) + 1 /\ line'[i].who = "worker"
          /\ \A i \in DOMAIN line : i \in Nat /\ i <= Len(line) /\ Len(line) \in Nat
      BY <2>2, <3>1, <3>2, LongerLine
    <3>4. ASSUME NEW i \in DOMAIN line', line'[i].who = "listener"
          PROVE  /\ head <= line'[i].pose
                 /\ \A j \in DOMAIN line' : j < i => line'[j].pose <= line'[i].pose
      <4>1. i \in DOMAIN line /\ line'[i] = line[i]
        BY <3>3, <3>4
      <4>2. \A j \in DOMAIN line' : j < i => j \in DOMAIN line /\ line'[j] = line[j]
        BY <3>3, <4>1
      <4> QED BY <3>4, <4>1, <4>2 DEF Newest
    <3> QED BY <1>3, <2>2, <3>4 DEF Decide, Newest
  <2> QED BY <1>3, <2>1, <2>2 DEF Decide
<1>4. CASE Write
  BY <1>4, WriteNewest
<1>5. CASE Acked
  BY <1>5 DEF Acked, WorkerAnswers, Newest
<1>6. CASE SendFails
  BY <1>6, SendFailsNewest
<1>7. CASE LinkUp
  <2>1. TypeOK /\ NothingOlder
    BY DEF IInv
  <2>2. [who |-> "listener", pose |-> desired]
          \in [who : {"worker", "listener"}, pose : {0} \cup Requests]
    BY <2>1 DEF TypeOK
  <2>3. /\ line' = Append(line, [who |-> "listener", pose |-> desired])
        /\ UNCHANGED <<head, desired, slot, job>>
    BY <1>7 DEF LinkUp, caller, worker
  <2>4. /\ \A i \in DOMAIN line' :
             \/ i \in DOMAIN line /\ line'[i] = line[i]
             \/ i = Len(line) + 1 /\ line'[i].pose = desired
        /\ \A i \in DOMAIN line : i \in Nat /\ i <= Len(line) /\ Len(line) \in Nat
    BY <2>1, <2>2, <2>3, LongerLine
  <2>5. ASSUME NEW i \in DOMAIN line', line'[i].who = "listener"
        PROVE  /\ head <= line'[i].pose
               /\ \A j \in DOMAIN line' : j < i => line'[j].pose <= line'[i].pose
    <3>1. CASE i \in DOMAIN line /\ line'[i] = line[i]
      <4>1. \A j \in DOMAIN line' : j < i => j \in DOMAIN line /\ line'[j] = line[j]
        BY <2>4, <3>1
      <4> QED BY <2>5, <3>1, <4>1 DEF Newest
    <3>2. CASE i = Len(line) + 1 /\ line'[i].pose = desired
      <4>1. \A j \in DOMAIN line : line[j].pose <= desired
        BY <2>1 DEF NothingOlder
      <4>2. \A j \in DOMAIN line' : j < i => j \in DOMAIN line /\ line'[j] = line[j]
        <5>1. Len(line) \in Nat
          BY <2>1, LenProperties DEF TypeOK
        <5> QED BY <2>4, <3>2, <5>1
      <4> QED BY <3>2, <4>1, <4>2 DEF Newest
    <3> QED BY <2>4, <3>1, <3>2
  <2> QED BY <2>3, <2>5 DEF Newest
<1>8. CASE LinkDown
  BY <1>8 DEF LinkDown, WorkerAnswers, Newest
<1>9. CASE \/ ManualBody \/ LeaseEnds \/ Expire
           \/ TrackingDrive \/ PivotGoes \/ PivotFails \/ UNCHANGED vars
  <2>1. UNCHANGED <<caller, worker, line, head>>
    BY <1>9
    DEF ManualBody, LeaseEnds, Expire, TrackingDrive, PivotGoes, PivotFails, vars
  <2> QED BY <2>1 DEF caller, worker, Newest
<1> QED
  BY <1>1, <1>2, <1>3, <1>4, <1>5, <1>6, <1>7, <1>8, <1>9 DEF Next

\* When the head goes back to an older pose, because the worker slept over a reconnect
\* that restored a newer one, that newer pose or a later one is still in the slot
\* (control_channel.py:302-318, 520-577).
THEOREM HeadGoesBackInPassing == Spec => OlderOnlyInPassing
<1>1. IInv /\ Newest /\ [Next]_vars => Newest'
  BY NewestStep
<1>2. IInv /\ Newest /\ [Next]_vars => [head' < head => slot' >= head]_vars
  <2> SUFFICES ASSUME IInv, Newest, Next, head' < head PROVE slot' >= head
    OBVIOUS
  <2>1. TypeOK /\ LineInOrder
    BY DEF IInv
  <2>2. head \in Nat /\ desired \in Nat /\ slot \in Nat
    BY <2>1, RequestNumbers DEF TypeOK
  <2>3. Write
    BY <2>2 DEF Next, ManualHead, TrackingHead, ManualBody, LeaseEnds, Expire, TakeSlot,
                Decide, Acked, SendFails, LinkUp, LinkDown, TrackingDrive, PivotGoes, PivotFails
  <2>4. 1 \in DOMAIN line /\ Head(line) = line[1]
    BY <2>1, <2>3, RestOfLine DEF Write
  <2>5. line[1].pose < head /\ slot' = slot
    BY <2>2, <2>3, <2>4 DEF Write, caller
  <2>6. line[1].pose \in Nat /\ line[1].who \in {"worker", "listener"}
    BY <2>1, <2>4, InLine, RequestNumbers
  <2>7. line[1].who = "worker"
    BY <2>2, <2>4, <2>5, <2>6 DEF Newest
  <2>8. job = line[1].pose /\ job # 0
    BY <2>1, <2>4, <2>7 DEF LineInOrder, TypeOK
  <2> QED
    BY <2>2, <2>5, <2>6, <2>8 DEF Newest
<1>3. Spec => []Newest
  BY BrokerInvariant, InitNewest, <1>1, PTL DEF Spec
<1> QED
  BY BrokerInvariant, <1>2, <1>3, PTL DEF Spec, OlderOnlyInPassing

-----------------------------------------------------------------------------
(***************************************************************************)
(* The broker beside the eyes, for any moods, conversations and bounds.    *)
(* Two invariants are inductive, the second with the types of the broker:  *)
(* EyesInv, that a request of the controller stands for what is to be      *)
(* shown, and WireInv, that the worker and the listener each have at most  *)
(* one command on the wire, and only while there is a connection.          *)
(***************************************************************************)

Shows == Moods \cup {"fault", "thinking", "speaking", "listening", "startled", "none"}
OnWire == [who : {"worker", "listener"}, expression : Shows]

\* The types of what the composition adds to the broker and the controller.
WireType ==
  /\ wire \in Seq(OnWire) /\ restored \in Shows /\ desiredEyes \in Shows
  /\ {sound, armed, alarm} \subseteq BOOLEAN
  /\ restore \in {"none", "head", "eyes"} /\ reply \in {"none", "wire", "failed"}
  /\ reply # "none" => sending # "none"

\* The worker is on the wire once, while it waits for the reply; the listener is in line
\* for the head once, while it restores it, and then on the wire once, for the eyes.
OneEach ==
  /\ \A i, j \in DOMAIN wire : wire[i].who = wire[j].who => i = j
  /\ \A i \in DOMAIN wire :
       /\ wire[i].who = "worker" => reply = "wire"
       /\ wire[i].who = "listener" => restore = "eyes"
  /\ \A i, j \in DOMAIN line :
       line[i].who = "listener" /\ line[j].who = "listener" => i = j /\ restoring
  /\ restoring => restore = "head"

\* Only a connection has something on the wire and something to restore, and it ends
\* the alarm.
Connected ==
  /\ wire # <<>> => ready
  /\ restore # "none" => ready
  /\ alarm => ~ready /\ shown = "fault"

\* A request that stands is for what is to be shown, and is the last in the queue or the
\* last that was taken from it.
Wanted ==
  /\ "esp_heartbeat" \in faults => missed
  /\ running /\ heard /\ requested # "none" => requested = Effective
  /\ requested # "none" => requested = IF next = "none" THEN desiredEyes ELSE next

EyesInv == EyeTypeOK /\ Wanted
WireInv == WireType /\ OneEach /\ Connected

-----------------------------------------------------------------------------
LEMMA EffectiveType ==
  ASSUME conversation \in Conversations, mood \in Moods
  PROVE  Effective \in Shows
BY DEF Effective, Overlay, Shows

LEMMA EyeTypes ==
  EyeTypeOK <=>
    /\ running \in BOOLEAN /\ session \in BOOLEAN /\ expires \in BOOLEAN
    /\ timer \in BOOLEAN /\ heard \in BOOLEAN /\ missed \in BOOLEAN
    /\ conversation \in Conversations /\ mood \in Moods
    /\ faults \subseteq {"esp_heartbeat", "control_transport"}
    /\ requested \in Shows /\ next \in Shows /\ sending \in Shows
    /\ changes \in 0..MaxChanges
    /\ (timer => expires)
BY DEF EyeTypeOK, Shows

\* What the state of the brain may become in one step.
StateType ==
  /\ conversation \in Conversations /\ mood \in Moods
  /\ session \in BOOLEAN /\ missed \in BOOLEAN /\ heard \in BOOLEAN
  /\ faults \subseteq {"esp_heartbeat", "control_transport"}
  /\ "esp_heartbeat" \in faults => missed
  /\ changes \in 0..MaxChanges

\* A change of the state reaches the queue, or what is requested is right as it is.
LEMMA Applied ==
  ASSUME EyesInv, StateType', NEW set \in BOOLEAN, NEW forced \in BOOLEAN,
         Applies(set, forced), UNCHANGED <<running, sending, desiredEyes>>
  PROVE  EyesInv'
<1>1. Effective' \in Shows
  BY EffectiveType DEF StateType, Effective, Overlay, Shows
<1>2. expires' \in BOOLEAN /\ timer' \in BOOLEAN /\ (timer' => expires')
  BY EyeTypes DEF EyesInv, Applies
<1>3. requested' \in Shows /\ next' \in Shows
  BY EyeTypes, <1>1 DEF EyesInv, Applies, Enqueue
<1>4. EyeTypeOK'
  BY EyeTypes, <1>2, <1>3 DEF EyesInv, StateType, EyeTypeOK, Shows
<1>5. running' /\ heard' /\ requested' # "none" => requested' = Effective'
  BY DEF Applies, Enqueue
<1>6. requested' # "none" => requested' = IF next' = "none" THEN desiredEyes' ELSE next'
  BY DEF EyesInv, Wanted, Applies, Enqueue
<1> QED
  BY <1>4, <1>5, <1>6 DEF EyesInv, Wanted, StateType

\* What leaves the wishes of the brain and the queue alone.
LEMMA AsBefore ==
  ASSUME EyesInv,
         UNCHANGED <<running, conversation, session, mood, faults, expires, timer, heard,
                     requested, next, changes, desiredEyes>>,
         missed' \in BOOLEAN, missed => missed', sending' \in Shows
  PROVE  EyesInv'
BY DEF EyesInv, EyeTypeOK, Wanted, Effective, Overlay, Shows

LEMMA ChangeType ==
  ASSUME EyesInv, Change
  PROVE  changes' \in 0..MaxChanges
BY EyesAssumption DEF EyesInv, EyeTypeOK, Change

LEMMA FaultsInv ==
  ASSUME EyesInv, NEW now \in SUBSET {"esp_heartbeat", "control_transport"},
         "esp_heartbeat" \in now => "esp_heartbeat" \in faults,
         Faults(now), UNCHANGED desiredEyes
  PROVE  EyesInv'
<1>1. CASE now = faults
  BY <1>1, AsBefore DEF Faults, clock, heartbeat, EyesInv, EyeTypeOK, Shows
<1>2. CASE now # faults
  <2>1. StateType'
    BY DEF Faults, heartbeat, StateType, EyesInv, EyeTypeOK, Wanted
  <2>2. Applies(expires, FALSE) /\ expires \in BOOLEAN
    BY <1>2, EyeTypes DEF Faults, EyesInv
  <2> QED BY <2>1, <2>2, Applied DEF Faults
<1> QED BY <1>1, <1>2

\* The state of the brain changes.
LEMMA StateChangesInv ==
  ASSUME EyesInv, StateChanges
  PROVE  EyesInv'
<1>1. UNCHANGED desiredEyes
  BY DEF StateChanges, eyes
<1>2. ASSUME NEW c \in Conversations, Transition(c) PROVE EyesInv'
  <2>1. StateType'
    BY <1>2, ChangeType DEF Transition, heartbeat, StateType, EyesInv, EyeTypeOK, Wanted
  <2>2. Applies(expires, FALSE) /\ expires \in BOOLEAN /\ UNCHANGED <<running, sending>>
    BY <1>2, EyeTypes DEF Transition, EyesInv
  <2> QED BY <1>1, <2>1, <2>2, Applied
<1>3. ASSUME SetVoiceSession PROVE EyesInv'
  <2>1. changes' \in 0..MaxChanges /\ session' \in BOOLEAN
    BY <1>3, ChangeType DEF SetVoiceSession
  <2>2. StateType'
    BY <1>3, <2>1 DEF SetVoiceSession, heartbeat, StateType, EyesInv, EyeTypeOK, Wanted
  <2>3. Applies(expires, FALSE) /\ expires \in BOOLEAN /\ UNCHANGED <<running, sending>>
    BY <1>3, EyeTypes DEF SetVoiceSession, EyesInv
  <2> QED BY <1>1, <2>2, <2>3, Applied
<1>4. ASSUME NEW m \in Moods, SelectMood(m) PROVE EyesInv'
  <2>1. StateType'
    BY <1>4, ChangeType DEF SelectMood, heartbeat, StateType, EyesInv, EyeTypeOK, Wanted
  <2>2. Applies(FALSE, FALSE) /\ UNCHANGED <<running, sending>>
    BY <1>4 DEF SelectMood
  <2> QED BY <1>1, <2>1, <2>2, Applied
<1>5. ASSUME MoodExpires PROVE EyesInv'
  <2>1. StateType'
    BY <1>5, EyesAssumption
    DEF MoodExpires, heartbeat, StateType, EyesInv, EyeTypeOK, Wanted
  <2>2. Applies(FALSE, FALSE) /\ UNCHANGED <<running, sending>>
    BY <1>5 DEF MoodExpires
  <2> QED BY <1>1, <2>1, <2>2, Applied
<1>6. ASSUME HeartbeatOk PROVE EyesInv'
  <2>1. CASE heard /\ ~missed
    <3>1. faults' = faults
      BY <1>6, <2>1 DEF HeartbeatOk, EyesInv, Wanted
    <3>2. UNCHANGED <<heard, missed>>
      BY <1>6, <2>1, EyeTypes DEF HeartbeatOk, EyesInv
    <3>3. UNCHANGED <<running, conversation, session, mood, expires, timer, requested, next,
                      changes, sending>>
      BY <1>6, <2>1 DEF HeartbeatOk, clock
    <3>4. missed \in BOOLEAN /\ sending \in Shows
      BY EyeTypes DEF EyesInv
    <3> QED BY <1>1, <3>1, <3>2, <3>3, <3>4, AsBefore
  <2>2. CASE ~(heard /\ ~missed)
    <3>1. StateType'
      BY <1>6 DEF HeartbeatOk, StateType, EyesInv, EyeTypeOK, Wanted
    <3>2. Applies(expires, TRUE) /\ expires \in BOOLEAN /\ UNCHANGED <<running, sending>>
      BY <1>6, <2>2, EyeTypes DEF HeartbeatOk, EyesInv
    <3> QED BY <1>1, <3>1, <3>2, Applied
  <2> QED BY <2>1, <2>2
<1>7. ASSUME HeartbeatMissed PROVE EyesInv'
  <2>1. StateType'
    BY <1>7 DEF HeartbeatMissed, StateType, EyesInv, EyeTypeOK, Wanted
  <2>2. Applies(expires, FALSE) /\ expires \in BOOLEAN /\ UNCHANGED <<running, sending>>
    BY <1>7, EyeTypes DEF HeartbeatMissed, EyesInv
  <2> QED BY <1>1, <2>1, <2>2, Applied
<1> QED
  BY <1>2, <1>3, <1>4, <1>5, <1>6, <1>7 DEF StateChanges

\* The channel is at fault, or is not, or its worker is done with a command.
LEMMA EyesStep ==
  ASSUME EyesInv, UNCHANGED desiredEyes,
         ChannelFault \/ NoChannelFault \/ Succeeds \/ Fails \/ UNCHANGED eyeVars
  PROVE  EyesInv'
<1>1. CASE ChannelFault
  BY <1>1, FaultsInv, EyeTypes DEF ChannelFault, EyesInv
<1>2. CASE NoChannelFault
  BY <1>2, FaultsInv, EyeTypes DEF NoChannelFault, EyesInv
<1>3. CASE Succeeds \/ UNCHANGED eyeVars
  <2>1. /\ UNCHANGED <<running, conversation, session, mood, faults, expires, timer, heard,
                       missed, requested, next, changes, desiredEyes>>
        /\ sending' \in {"none", sending}
    BY <1>3 DEF Succeeds, eyeVars, shownState, clock, heartbeat, commands
  <2>2. missed \in BOOLEAN /\ sending' \in Shows
    BY <2>1, EyeTypes DEF EyesInv, Shows
  <2> QED BY <2>1, <2>2, AsBefore
<1>4. CASE Fails
  <2>1. /\ UNCHANGED <<running, conversation, session, mood, faults, expires, timer, heard,
                       missed, next, changes, desiredEyes>>
        /\ sending' = "none" /\ requested' = "none"
    BY <1>4 DEF Fails, shownState, clock, heartbeat
  <2>2. EyeTypeOK'
    BY <2>1 DEF EyesInv, EyeTypeOK
  <2> QED BY <2>1, <2>2 DEF EyesInv, Wanted
<1> QED BY <1>1, <1>2, <1>3, <1>4

\* The worker takes what is in the queue.
LEMMA TakeEyesInv ==
  ASSUME EyesInv, TakeEyes
  PROVE  EyesInv'
<1>1. /\ UNCHANGED <<running, conversation, session, mood, faults, expires, timer, heard,
                     missed, requested, changes>>
      /\ next # "none" /\ sending' = next /\ next' = "none" /\ desiredEyes' = next
  BY DEF TakeEyes, Takes, shownState, clock, heartbeat
<1>2. EyeTypeOK'
  BY <1>1 DEF EyesInv, EyeTypeOK
<1>3. Effective' = Effective
  BY <1>1 DEF Effective
<1> QED
  BY <1>1, <1>2, <1>3 DEF EyesInv, Wanted

-----------------------------------------------------------------------------
\* A command comes onto the wire.
LEMMA OntoWire ==
  ASSUME WireType, NEW e \in OnWire
  PROVE  /\ Append(wire, e) \in Seq(OnWire)
         /\ \A i \in DOMAIN Append(wire, e) :
              \/ i \in DOMAIN wire /\ Append(wire, e)[i] = wire[i]
              \/ i = Len(wire) + 1 /\ Append(wire, e)[i] = e
BY AppendProperties, LenProperties DEF WireType

\* The first command on the wire leaves it.
LEMMA OffWire ==
  ASSUME WireType, wire # <<>>
  PROVE  /\ Tail(wire) \in Seq(OnWire)
         /\ \A i \in DOMAIN Tail(wire) :
              i + 1 \in DOMAIN wire /\ i + 1 # 1 /\ Tail(wire)[i] = wire[i + 1]
         /\ \A i, j \in DOMAIN Tail(wire) : i + 1 = j + 1 => i = j
         /\ 1 \in DOMAIN wire /\ Head(wire) = wire[1] /\ wire[1] \in OnWire
<1>1. wire \in Seq(OnWire)
  BY DEF WireType
<1>2. /\ Tail(wire) \in Seq(OnWire) /\ Len(Tail(wire)) = Len(wire) - 1
      /\ \A i \in 1..(Len(wire) - 1) : Tail(wire)[i] = wire[i + 1]
      /\ Head(wire) = wire[1] /\ Len(wire) \in Nat \ {0}
  BY <1>1, HeadTailProperties, LenProperties, EmptySeq
<1>3. DOMAIN wire = 1..Len(wire) /\ DOMAIN Tail(wire) = 1..(Len(wire) - 1)
  BY <1>1, <1>2, LenProperties
<1>4. wire[1] \in OnWire
  BY <1>1, <1>2, ElementOfSeq
<1> QED
  BY <1>2, <1>3, <1>4

LEMMA OnWireParts ==
  ASSUME NEW e \in OnWire
  PROVE  e.who \in {"worker", "listener"} /\ e.expression \in Shows
BY DEF OnWire

\* The line and the link of the broker do not change.
LinkAsBefore == UNCHANGED <<ready, line, restoring>>

LEMMA WriteEyesInv ==
  ASSUME WireInv, EyesInv, WriteEyes
  PROVE  WireInv'
<1> DEFINE e == [who |-> "worker", expression |-> sending]
<1>1. e \in OnWire /\ e.who = "worker"
  BY EyeTypes DEF EyesInv, OnWire
<1> HIDE DEF e
<1>2. /\ ready /\ sending # "none" /\ reply = "none" /\ wire' = Append(wire, e)
      /\ reply' = "wire" /\ sending' = sending
      /\ UNCHANGED <<ready, line, restoring, sound, restore, restored, desiredEyes,
                     shown, armed, alarm>>
  BY DEF WriteEyes, vars, link, robot, eyeVars, commands, e
<1>3. /\ wire' \in Seq(OnWire)
      /\ \A i \in DOMAIN wire' : \/ i \in DOMAIN wire /\ wire'[i] = wire[i]
                                 \/ i = Len(wire) + 1 /\ wire'[i].who = "worker"
  BY <1>1, <1>2, OntoWire DEF WireInv
<1>4. \A i \in DOMAIN wire : wire[i].who # "worker"
  BY <1>2 DEF WireInv, OneEach
<1>5. WireType'
  BY <1>2, <1>3 DEF WireInv, WireType
<1>6. OneEach'
  BY <1>2, <1>3, <1>4 DEF WireInv, OneEach
<1>7. Connected'
  BY <1>2 DEF WireInv, Connected
<1> QED
  BY <1>5, <1>6, <1>7 DEF WireInv

LEMMA WriteRestoreInv ==
  ASSUME WireInv, WriteRestore
  PROVE  WireInv'
<1> DEFINE e == [who |-> "listener", expression |-> restored]
<1>1. e \in OnWire /\ e.who = "listener"
  BY DEF WireInv, WireType, OnWire
<1> HIDE DEF e
<1>2. /\ restore = "eyes" /\ (\A i \in DOMAIN wire : wire[i].who # "listener")
      /\ wire' = Append(wire, e) /\ sending' = sending
      /\ UNCHANGED <<ready, line, restoring, sound, restore, restored, desiredEyes, reply,
                     shown, armed, alarm>>
  BY DEF WriteRestore, vars, link, robot, eyeVars, commands, e
<1>3. /\ wire' \in Seq(OnWire)
      /\ \A i \in DOMAIN wire' : \/ i \in DOMAIN wire /\ wire'[i] = wire[i]
                                 \/ i = Len(wire) + 1 /\ wire'[i].who = "listener"
  BY <1>1, <1>2, OntoWire DEF WireInv
<1>5. WireType'
  BY <1>2, <1>3 DEF WireInv, WireType
<1>6. OneEach'
  BY <1>2, <1>3 DEF WireInv, OneEach
<1>7. Connected'
  BY <1>2 DEF WireInv, Connected
<1> QED
  BY <1>5, <1>6, <1>7 DEF WireInv

\* A command is done, well or badly, and so is the one who sent it.
LEMMA DoneInv ==
  ASSUME WireInv, wire # <<>>, wire' = Tail(wire), LinkAsBefore,
         UNCHANGED <<sound, desiredEyes, armed, alarm>>,
         \/ /\ Head(wire).who = "worker" /\ UNCHANGED <<restore, restored>>
            /\ \/ reply' = "none"
               \/ reply' = "failed" /\ UNCHANGED sending
         \/ /\ Head(wire).who = "listener" /\ restore' = "none" /\ restored' = "none"
            /\ UNCHANGED <<reply, sending>>
  PROVE  WireInv'
<1>1. /\ wire' \in Seq(OnWire)
      /\ \A i \in DOMAIN wire' : i + 1 \in DOMAIN wire /\ i + 1 # 1 /\ wire'[i] = wire[i + 1]
      /\ \A i, j \in DOMAIN wire' : i + 1 = j + 1 => i = j
      /\ 1 \in DOMAIN wire /\ Head(wire) = wire[1]
  BY OffWire DEF WireInv
<1>2. \A i \in DOMAIN wire' : wire'[i].who # Head(wire).who
  BY <1>1 DEF WireInv, OneEach
<1>3. ready /\ UNCHANGED <<ready, line, restoring>>
  BY DEF WireInv, Connected, LinkAsBefore
<1>4. WireType'
  <2>1. restored' \in Shows
    BY DEF WireInv, WireType, Shows
  <2>2. reply' # "none" => sending' # "none"
    <3>1. CASE reply' = "failed" /\ Head(wire).who = "worker" /\ UNCHANGED sending
      BY <1>1, <3>1 DEF WireInv, WireType, OneEach
    <3> QED BY <3>1 DEF WireInv, WireType
  <2>3. restore' \in {"none", "head", "eyes"} /\ reply' \in {"none", "wire", "failed"}
    BY DEF WireInv, WireType
  <2> QED BY <1>1, <2>1, <2>2, <2>3 DEF WireInv, WireType
<1>5. OneEach'
  <2>1. \A i, j \in DOMAIN wire' : wire'[i].who = wire'[j].who => i = j
    BY <1>1 DEF WireInv, OneEach
  <2>2. ASSUME NEW i \in DOMAIN wire'
        PROVE  /\ wire'[i].who = "worker" => reply' = "wire"
               /\ wire'[i].who = "listener" => restore' = "eyes"
    BY <1>1, <1>2 DEF WireInv, OneEach
  <2>3. restoring' => restore' = "head"
    BY <1>1, <1>3 DEF WireInv, OneEach
  <2>4. \A i, j \in DOMAIN line' :
          line'[i].who = "listener" /\ line'[j].who = "listener" => i = j /\ restoring'
    BY <1>3 DEF WireInv, OneEach
  <2> QED BY <2>1, <2>2, <2>3, <2>4 DEF OneEach
<1>6. Connected'
  BY <1>3 DEF WireInv, Connected
<1> QED
  BY <1>4, <1>5, <1>6 DEF WireInv

LEMMA ArrivesInv ==
  ASSUME WireInv, Arrives \/ GoesWrong
  PROVE  WireInv'
<1>1. /\ wire # <<>> /\ wire' = Tail(wire) /\ LinkAsBefore
      /\ UNCHANGED <<sound, desiredEyes, armed, alarm>>
  BY DEF Arrives, GoesWrong, LinkAsBefore, vars
<1>2. Head(wire).who \in {"worker", "listener"}
  BY <1>1, OffWire, OnWireParts DEF WireInv
<1>3. CASE Head(wire).who = "worker"
  BY <1>1, <1>3, DoneInv DEF Arrives, GoesWrong, link, eyeVars, commands
<1>4. CASE Head(wire).who = "listener"
  <2>1. RestoreOver /\ UNCHANGED reply
    BY <1>4 DEF Arrives, GoesWrong
  <2>2. UNCHANGED sending
    BY <2>1 DEF RestoreOver, NoChannelFault, Faults
  <2> QED BY <1>1, <1>4, <2>1, <2>2, DoneInv DEF RestoreOver
<1> QED BY <1>2, <1>3, <1>4

\* The worker gives up, the brain changes its mind, or the robot is on its own.
LEMMA AlongsideInv ==
  ASSUME WireInv, EyesInv, EyesInv',
         StateChanges \/ TakeEyes \/ EyesFail \/ Watchdog \/ Restarts \/ UNCHANGED allVars
  PROVE  WireInv'
<1>1. UNCHANGED <<ready, line, restoring, sound, restore, restored, wire>>
  BY DEF StateChanges, TakeEyes, EyesFail, Watchdog, Restarts, allVars, vars, link, eyes
<1>2. CASE StateChanges \/ TakeEyes
  <2>1. UNCHANGED <<reply, shown, armed, alarm>>
    BY <1>2 DEF StateChanges, TakeEyes, eyes, robot
  <2>2. desiredEyes' \in Shows
    BY <1>2, EyeTypes DEF StateChanges, TakeEyes, eyes, WireInv, WireType, EyesInv
  <2>3. sending # "none" => sending' = sending
    BY <1>2 DEF StateChanges, TakeEyes, Takes, Transition, SetVoiceSession, SelectMood,
                MoodExpires, HeartbeatOk, HeartbeatMissed
  <2> QED
    BY <1>1, <2>1, <2>2, <2>3 DEF WireInv, WireType, OneEach, Connected
<1>3. CASE EyesFail
  <2>1. /\ reply # "wire" /\ reply' = "none" /\ sending' = "none"
        /\ UNCHANGED <<desiredEyes, shown, armed, alarm>>
    BY <1>3 DEF EyesFail, Fails, robot
  <2> QED
    BY <1>1, <2>1 DEF WireInv, WireType, OneEach, Connected
<1>4. CASE Watchdog \/ Restarts \/ UNCHANGED allVars
  <2>1. UNCHANGED <<reply, sending, desiredEyes>>
    BY <1>4 DEF Watchdog, Restarts, allVars, eyes, eyeVars, commands
  <2>2. armed' \in BOOLEAN /\ alarm' \in BOOLEAN
    BY <1>4 DEF Watchdog, Restarts, allVars, robot, WireInv, WireType
  <2>3. alarm' => ~ready /\ shown' = "fault"
    BY <1>4 DEF Watchdog, Restarts, allVars, robot, WireInv, Connected
  <2> QED
    BY <1>1, <2>1, <2>2, <2>3 DEF WireInv, WireType, OneEach, Connected
<1> QED BY <1>2, <1>3, <1>4

\* What the eyes leave alone while the broker sees to the head.
EyesAside ==
  UNCHANGED <<sending, sound, desiredEyes, wire, reply, shown, armed, alarm>>

\* The listener is in line at most once, and only while it restores.
ListenerOnce(seq, at) ==
  \A i, j \in DOMAIN seq :
    seq[i].who = "listener" /\ seq[j].who = "listener" => i = j /\ at

LEMMA BrokerActsInv ==
  ASSUME TypeOK, WireInv, BrokerActs
  PROVE  WireInv'
<1>1. EyesAside /\ UNCHANGED <<restore, restored>>
  BY DEF BrokerActs, EyesAside, link, eyes, robot, eyeVars, commands
<1>2. UNCHANGED <<ready, restoring>>
  BY DEF BrokerActs, ManualHead, TrackingHead, ManualBody, LeaseEnds, Expire, TakeSlot,
         Decide, Acked, SendFails, TrackingDrive, PivotGoes, PivotFails
<1>3. ListenerOnce(line, restoring)
  BY DEF WireInv, OneEach, ListenerOnce
<1> DEFINE S == [who : {"worker", "listener"}, pose : {0} \cup Requests]
<1>4. line \in Seq(S)
  BY DEF TypeOK
<1>5. job # 0 => job \in Requests
  BY DEF TypeOK
<1>6. ListenerOnce(line', restoring)
  <2>1. CASE UNCHANGED line
    BY <1>3, <2>1
  <2>2. CASE Decide /\ line' = Append(line, [who |-> "worker", pose |-> job])
    <3>1. [who |-> "worker", pose |-> job] \in S
      BY DEF TypeOK
    <3>2. \A i \in DOMAIN line' : \/ i \in DOMAIN line /\ line'[i] = line[i]
                                  \/ line'[i].who = "worker"
      BY <2>2, <3>1, LongerLine
    <3> QED BY <1>3, <3>2 DEF ListenerOnce
  <2>3. ASSUME NEW k \in DOMAIN line, line' = RemoveAt(line, k)
        PROVE  ListenerOnce(line', restoring)
    <3> HIDE DEF S
    <3> DEFINE Old(i) == IF i < k THEN i ELSE i + 1
    <3>1. k \in 1..Len(line) /\ DOMAIN line = 1..Len(line) /\ Len(line) \in Nat
      BY <1>4, <2>3, LenProperties
    <3>2. DOMAIN line' = 1..(Len(line) - 1)
      BY <1>4, <2>3, <3>1, RemoveAtProperties, LenProperties
    <3>3. \A i \in DOMAIN line' : line'[i] = line[Old(i)]
      BY <1>4, <2>3, <3>1, <3>2, RemoveAtProperties
    <3>4. /\ \A i \in DOMAIN line' : Old(i) \in DOMAIN line
          /\ \A i, j \in DOMAIN line' : Old(i) = Old(j) => i = j
      BY <3>1, <3>2
    <3> HIDE DEF Old
    <3> QED BY <1>3, <3>3, <3>4 DEF ListenerOnce
  <2> QED
    BY <2>1, <2>2, <2>3
    DEF BrokerActs, ManualHead, TrackingHead, ManualBody, LeaseEnds, Expire, TakeSlot,
        Decide, Acked, SendFails, TrackingDrive, PivotGoes, PivotFails
<1>7. WireType'
  BY <1>1 DEF WireInv, WireType, EyesAside
<1>8. OneEach'
  BY <1>1, <1>2, <1>6 DEF WireInv, OneEach, EyesAside, ListenerOnce
<1>9. Connected'
  BY <1>1, <1>2 DEF WireInv, Connected, EyesAside
<1> QED
  BY <1>7, <1>8, <1>9 DEF WireInv

LEMMA HeadIsWrittenInv ==
  ASSUME TypeOK, WireInv, HeadIsWritten
  PROVE  WireInv'
<1>1. EyesAside
  BY DEF HeadIsWritten, EyesAside, eyes, robot, eyeVars, commands, RestoreOver,
         NoChannelFault, Faults
<1>2. ready /\ UNCHANGED ready /\ line # <<>> /\ line' = Tail(line)
  BY DEF HeadIsWritten, Write
<1>3. /\ \A i \in DOMAIN line' : i + 1 \in DOMAIN line /\ i \in Nat \ {0} /\ line'[i] = line[i + 1]
      /\ 1 \in DOMAIN line /\ Head(line) = line[1]
  BY <1>2, RestOfLine
<1>4. CASE Head(line).who = "listener"
  <2>1. restoring /\ restore = "head" /\ restoring' = FALSE
    BY <1>3, <1>4 DEF WireInv, OneEach, HeadIsWritten, Write
  <2>2. restore' \in {"none", "eyes"} /\ restored' \in Shows
    BY <1>4 DEF HeadIsWritten, RestoreOver, WireInv, WireType, Shows
  <2>3. \A i \in DOMAIN line' : line'[i].who # "listener"
    BY <1>3, <1>4 DEF WireInv, OneEach
  <2>4. \A i \in DOMAIN wire : wire[i].who # "listener"
    BY <2>1 DEF WireInv, OneEach
  <2>5. WireType'
    BY <1>1, <2>2 DEF WireInv, WireType, EyesAside
  <2>6. OneEach'
    BY <1>1, <2>1, <2>3, <2>4 DEF WireInv, OneEach, EyesAside
  <2>7. Connected'
    BY <1>1, <1>2 DEF WireInv, Connected, EyesAside
  <2> QED BY <2>5, <2>6, <2>7 DEF WireInv
<1>5. CASE Head(line).who = "worker"
  <2>1. UNCHANGED <<restoring, restore, restored>>
    BY <1>5 DEF HeadIsWritten, Write, link
  <2>2. ListenerOnce(line', restoring)
    BY <1>3 DEF WireInv, OneEach, ListenerOnce
  <2>3. WireType' /\ Connected'
    BY <1>1, <1>2, <2>1 DEF WireInv, WireType, Connected, EyesAside
  <2>4. OneEach'
    BY <1>1, <2>1, <2>2 DEF WireInv, OneEach, EyesAside, ListenerOnce
  <2> QED BY <2>3, <2>4 DEF WireInv
<1> QED
  BY <1>4, <1>5 DEF HeadIsWritten

LEMMA ReconnectsInv ==
  ASSUME TypeOK, WireInv, Reconnects
  PROVE  WireInv'
<1>1. /\ ~ready /\ ready' = TRUE /\ restoring' = TRUE
      /\ line' = Append(line, [who |-> "listener", pose |-> desired])
      /\ restore' = "head" /\ restored' = desiredEyes /\ armed' = TRUE /\ alarm' = FALSE
      /\ UNCHANGED <<sending, sound, desiredEyes, wire, reply>>
  BY DEF Reconnects, LinkUp, RecordBrainHeartbeat, eyes, eyeVars, commands
<1>2. wire = <<>> /\ restore = "none" /\ ~restoring
  BY <1>1 DEF WireInv, OneEach, Connected
<1>3. [who |-> "listener", pose |-> desired]
        \in [who : {"worker", "listener"}, pose : {0} \cup Requests]
  BY DEF TypeOK
<1>4. \A i \in DOMAIN line' : \/ i \in DOMAIN line /\ line'[i] = line[i]
                              \/ i = Len(line) + 1
  BY <1>1, <1>3, LongerLine
<1>5. \A i \in DOMAIN line : line[i].who # "listener"
  BY <1>2 DEF WireInv, OneEach
<1>6. WireType'
  BY <1>1 DEF WireInv, WireType
<1>7. DOMAIN wire' = {}
  BY <1>1, <1>2, EmptySeq
<1>8. OneEach'
  BY <1>1, <1>4, <1>5, <1>7 DEF OneEach
<1>9. Connected'
  BY <1>1 DEF Connected
<1> QED
  BY <1>6, <1>8, <1>9 DEF WireInv

LEMMA DisconnectsInv ==
  ASSUME WireInv, Disconnects
  PROVE  WireInv'
<1>1. /\ ready /\ ready' = FALSE /\ ~restoring /\ restore = "none" /\ wire' = <<>>
      /\ reply' = IF reply = "wire" THEN "failed" ELSE reply
      /\ UNCHANGED <<line, restoring, sound, restore, restored, desiredEyes, armed, alarm>>
      /\ UNCHANGED sending
  BY DEF Disconnects, LinkDown, ChannelFault, Faults, link
<1>2. ~alarm
  BY <1>1 DEF WireInv, Connected
<1>3. <<>> \in Seq(OnWire) /\ DOMAIN wire' = {}
  BY <1>1, EmptySeq
<1>4. WireType'
  BY <1>1, <1>3 DEF WireInv, WireType
<1>5. OneEach'
  BY <1>1, <1>3 DEF WireInv, OneEach
<1>6. Connected'
  BY <1>1, <1>2 DEF WireInv, Connected
<1> QED
  BY <1>4, <1>5, <1>6 DEF WireInv

-----------------------------------------------------------------------------
LEMMA InitExpression == ExpressionInit => EyesInv /\ WireInv
<1> SUFFICES ASSUME ExpressionInit PROVE EyesInv /\ WireInv
  OBVIOUS
<1>1. EyeTypeOK
  <2>1. conversation \in Conversations /\ mood \in Moods /\ changes \in 0..MaxChanges
    BY EyesAssumption DEF ExpressionInit, EyeInit
  <2>2. /\ running \in BOOLEAN /\ session = FALSE /\ expires = FALSE /\ timer = FALSE
        /\ heard = FALSE /\ missed = FALSE /\ faults = {}
        /\ requested = "none" /\ next = "none" /\ sending = "none"
    BY DEF ExpressionInit, EyeInit
  <2> QED BY <2>1, <2>2, EyeTypes DEF Shows
<1>2. Wanted
  BY DEF ExpressionInit, EyeInit, Wanted
<1>3. wire \in Seq(OnWire) /\ DOMAIN wire = {} /\ DOMAIN line = {}
  BY EmptySeq DEF ExpressionInit, Init
<1>4. WireType
  BY <1>3, EyesAssumption DEF ExpressionInit, WireType, Shows
<1>5. OneEach /\ Connected
  BY <1>3 DEF ExpressionInit, Init, OneEach, Connected
<1> QED
  BY <1>1, <1>2, <1>4, <1>5 DEF EyesInv, WireInv

\* Each step of the composition is a step of the broker, or does not concern it.
LEMMA BrokerStep == [ExpressionNext]_allVars => [Next]_vars
<1>1. ASSUME StateChanges \/ TakeEyes \/ WriteEyes \/ EyesFail \/ WriteRestore \/ Arrives
             \/ GoesWrong \/ Watchdog \/ Restarts \/ UNCHANGED allVars
      PROVE  UNCHANGED vars
  BY <1>1 DEF StateChanges, TakeEyes, WriteEyes, EyesFail, WriteRestore, Arrives, GoesWrong,
              Watchdog, Restarts, allVars
<1>2. BrokerActs \/ HeadIsWritten \/ Reconnects \/ Disconnects => Next
  BY DEF BrokerActs, HeadIsWritten, Reconnects, Disconnects, Next
<1> QED
  BY <1>1, <1>2 DEF ExpressionNext

LEMMA ExpressionStep ==
  ASSUME TypeOK, EyesInv, WireInv, [ExpressionNext]_allVars
  PROVE  EyesInv' /\ WireInv'
<1>1. EyesInv'
  <2>1. CASE StateChanges \/ TakeEyes
    BY <2>1, StateChangesInv, TakeEyesInv
  <2>2. CASE ~StateChanges /\ ~TakeEyes
    <3>1. UNCHANGED desiredEyes
      BY <2>2 DEF ExpressionNext, WriteEyes, EyesFail, WriteRestore, Arrives, GoesWrong,
                  Watchdog, Restarts, BrokerActs, HeadIsWritten, Reconnects, Disconnects,
                  allVars, eyes
    <3>2. ChannelFault \/ NoChannelFault \/ Succeeds \/ Fails \/ UNCHANGED eyeVars
      BY <2>2 DEF ExpressionNext, WriteEyes, EyesFail, WriteRestore, Arrives, GoesWrong,
                  Watchdog, Restarts, BrokerActs, HeadIsWritten, Reconnects, Disconnects,
                  RestoreOver, allVars
    <3> QED BY <3>1, <3>2, EyesStep
  <2> QED BY <2>1, <2>2
<1>2. WireInv'
  BY <1>1, AlongsideInv, WriteEyesInv, WriteRestoreInv, ArrivesInv, BrokerActsInv,
     HeadIsWrittenInv, ReconnectsInv, DisconnectsInv
  DEF ExpressionNext
<1> QED
  BY <1>1, <1>2

\* Beside the eyes the broker does nothing it would not do without them, although the
\* listener that restores the head goes on to restore the eyes before the connection may
\* end: what is proved of it above holds here too (control_channel.py:211-231, 308-316,
\* 515-522, 596-610).
THEOREM ExpressionImplementsBroker == ExpressionSpec => Spec
<1>1. ExpressionInit => Init
  BY DEF ExpressionInit
<1> QED
  BY <1>1, BrokerStep, PTL DEF ExpressionSpec, Spec

LEMMA ExpressionInvariant == ExpressionSpec => [](TypeOK /\ EyesInv /\ WireInv)
<1>1. TypeOK /\ EyesInv /\ WireInv /\ [ExpressionNext]_allVars => EyesInv' /\ WireInv'
  BY ExpressionStep
<1>2. ExpressionSpec => []TypeOK
  BY ExpressionImplementsBroker, BrokerTypes, PTL
<1> QED
  BY InitExpression, <1>1, <1>2, PTL DEF ExpressionSpec

\* Every variable of the composition keeps its type, at most two eyes commands are on
\* their way, the alarm is shown for as long as it is on, and ok is said of one's own
\* pose or a newer one (control_channel.py:211-231, 515-522, eye_controller.py:252-262).
THEOREM EyesAndHeadAreTrue == ExpressionSpec => []BrokerInv
<1>1. TypeOK /\ EyesInv /\ WireInv => ExpressionTypeOK
  <2> SUFFICES ASSUME TypeOK, EyesInv, WireInv PROVE ExpressionTypeOK
    OBVIOUS
  <2>1. Len(wire) <= 2
    <3>1. Len(wire) \in Nat /\ DOMAIN wire = 1..Len(wire)
      BY LenProperties DEF WireInv, WireType
    <3>2. \A i \in DOMAIN wire : wire[i].who \in {"worker", "listener"}
      BY ElementOfSeq, <3>1, OnWireParts DEF WireInv, WireType
    <3>3. ~(Len(wire) > 2)
      <4> SUFFICES ASSUME Len(wire) > 2 PROVE FALSE
        OBVIOUS
      <4>1. 1 \in DOMAIN wire /\ 2 \in DOMAIN wire /\ 3 \in DOMAIN wire
        BY <3>1
      <4> QED BY <3>2, <4>1 DEF WireInv, OneEach
    <3> QED BY <3>1, <3>3
  <2> QED
    BY <2>1 DEF ExpressionTypeOK, EyesInv, WireInv, WireType, OneEach, Connected
<1> QED
  BY <1>1, ExpressionInvariant, ExpressionImplementsBroker, OkIsTrue, PTL DEF BrokerInv

\* When the eye worker is idle and has nothing to make up for, what a reconnect would
\* restore is what the brain wants, whatever requests were replaced in the queue, left out
\* as repeated, or lost (eye_controller.py:252-280, control_channel.py:579-605).
THEOREM EyesSettle == ExpressionSpec => []SettledIsLatest
<1>1. TypeOK /\ EyesInv /\ WireInv => SettledIsLatest
  BY DEF EyesInv, Wanted, SettledIsLatest
<1> QED
  BY <1>1, ExpressionInvariant, PTL
=============================================================================
