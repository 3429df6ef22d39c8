------------------------ MODULE ResourceLeaseProofs ------------------------
(***************************************************************************)
(* LeaseInv is an inductive invariant of ResourceLease for any set of      *)
(* tasks, any priorities and any cancellations; with it, the lease         *)
(* excludes, forgets no waiter, grants in priority order and keeps         *)
(* background tasks out while the barrier is up; and it implements         *)
(* LeaseContract, with the live waiters of the heap as the line.  Nothing  *)
(* but the cancellation of a task in line ever makes way for a lease that  *)
(* is held for nobody.                                                     *)
(***************************************************************************)
EXTENDS ResourceLease, SequenceTheorems, TLAPS

\* What RemoveAt does to a sequence: one element less, the later ones move up.
LEMMA RemoveAtProperties ==
  ASSUME NEW S, NEW s \in Seq(S), NEW i \in 1..Len(s)
  PROVE  /\ RemoveAt(s, i) \in Seq(S)
         /\ Len(RemoveAt(s, i)) = Len(s) - 1
         /\ \A j \in 1..(Len(s) - 1) :
              RemoveAt(s, i)[j] = IF j < i THEN s[j] ELSE s[j + 1]
<1>1. /\ SubSeq(s, 1, i-1) \in Seq(S)
      /\ Len(SubSeq(s, 1, i-1)) = i - 1
      /\ \A j \in 1..(i-1) : SubSeq(s, 1, i-1)[j] = s[j]
  BY LenProperties
<1>2. /\ SubSeq(s, i+1, Len(s)) \in Seq(S)
      /\ Len(SubSeq(s, i+1, Len(s))) = Len(s) - i
      /\ \A j \in 1..(Len(s) - i) : SubSeq(s, i+1, Len(s))[j] = s[i + j]
  BY LenProperties
<1> DEFINE a == SubSeq(s, 1, i-1)
           b == SubSeq(s, i+1, Len(s))
<1>3. /\ a \o b \in Seq(S)
      /\ Len(a \o b) = Len(a) + Len(b)
      /\ \A j \in 1..(Len(a) + Len(b)) :
           (a \o b)[j] = IF j <= Len(a) THEN a[j] ELSE b[j - Len(a)]
  BY <1>1, <1>2, ConcatProperties
<1> HIDE DEF a, b
<1>4. Len(a) = i - 1 /\ Len(b) = Len(s) - i
  BY <1>1, <1>2 DEF a, b
<1>5. ASSUME NEW j \in 1..(Len(s) - 1)
      PROVE  (a \o b)[j] = IF j < i THEN s[j] ELSE s[j + 1]
  <2>1. CASE j < i
    <3>1. j \in 1..(i-1) /\ j <= Len(a) /\ j \in 1..(Len(a) + Len(b))
      BY <2>1, <1>4, LenProperties
    <3>2. (a \o b)[j] = a[j]
      BY <3>1, <1>3
    <3> QED BY <2>1, <3>1, <3>2, <1>1 DEF a
  <2>2. CASE ~(j < i)
    <3>1. /\ ~(j <= Len(a)) /\ j \in 1..(Len(a) + Len(b))
          /\ j - Len(a) \in 1..(Len(s) - i) /\ i + (j - Len(a)) = j + 1
      BY <2>2, <1>4, LenProperties
    <3>2. (a \o b)[j] = b[j - Len(a)]
      BY <3>1, <1>3
    <3>3. b[j - Len(a)] = s[i + (j - Len(a))]
      BY <3>1, <1>2 DEF b
    <3> QED BY <2>2, <3>1, <3>2, <3>3
  <2> QED BY <2>1, <2>2
<1>6. RemoveAt(s, i) = a \o b
  BY DEF RemoveAt, a, b
<1>7. Len(a \o b) = Len(s) - 1
  BY <1>3, <1>4, LenProperties
<1> QED
  BY <1>3, <1>5, <1>6, <1>7

\* The outcomes of _wake_next_locked: nothing, or the head of a free lease's heap
\* is popped and the lease reserved for its owner.
LEMMA WakeNextOutcome ==
  ASSUME NEW ws \in Seq(Waiter), NEW h \in BOOLEAN, NEW w \in WakeNext(ws, h)
  PROVE  \/ w.waiters = ws /\ w.held = h /\ w.chosen = {}
         \/ /\ ~h
            /\ w.held = TRUE
            /\ \E i \in 1..Len(ws) :
                 /\ IsHead(ws, i)
                 /\ ~(barrier /\ ws[i].priority >= Background)
                 /\ w.waiters = RemoveAt(ws, i)
                 /\ w.chosen = {ws[i].owner} \ {NoTask}
<1>1. DOMAIN ws = 1..Len(ws)
  BY LenProperties
<1>2. CASE h \/ ws = <<>>
  BY <1>2 DEF WakeNext, Pop, Barred
<1>3. CASE ~(h \/ ws = <<>>)
  <2>1. PICK i \in {j \in DOMAIN ws : IsHead(ws, j)} :
          w = IF barrier /\ ws[i].priority >= Background
              THEN [waiters |-> ws, held |-> h, chosen |-> {}]
              ELSE [waiters |-> RemoveAt(ws, i), held |-> TRUE,
                    chosen |-> {ws[i].owner} \ {NoTask}]
    BY <1>3 DEF WakeNext, Pop, Barred
  <2>2. CASE barrier /\ ws[i].priority >= Background
    BY <2>1, <2>2
  <2>3. CASE ~(barrier /\ ws[i].priority >= Background)
    BY <1>1, <1>3, <2>1, <2>3
  <2> QED BY <2>2, <2>3
<1> QED BY <1>2, <1>3

\* Whom _wake_next_locked readies leaves the heap ws, everybody else stays, and the
\* lease is reserved exactly when somebody was readied who can claim it.
WokenWell(ws, h, w, at, rd) ==
  /\ w.waiters \in Seq(Waiter)
  /\ w.held \in BOOLEAN
  /\ w.chosen \in SUBSET Tasks
  /\ HeapOK(w.waiters, at, rd \cup w.chosen)
  /\ \A c \in w.chosen : at[c] \in {"barred", "waiting"}
  /\ \A c, d \in w.chosen : c = d
  /\ h => w.held /\ w.chosen = {}
  /\ w.chosen # {} => w.held
  /\ \A u \in Tasks : (\E i \in DOMAIN ws : ws[i].owner = u) =>
       u \in w.chosen \/ \E i \in DOMAIN w.waiters : w.waiters[i].owner = u

\* _wake_next_locked leaves a well-formed heap well-formed.
LEMMA HeapAfterWake ==
  ASSUME NEW ws \in Seq(Waiter), NEW h \in BOOLEAN, NEW w \in WakeNext(ws, h),
         NEW at, NEW rd \in SUBSET Tasks, HeapOK(ws, at, rd)
  PROVE  WokenWell(ws, h, w, at, rd)
<1> USE DEF WokenWell
<1>1. CASE w.waiters = ws /\ w.held = h /\ w.chosen = {}
  BY <1>1 DEF HeapOK
<1>2. CASE /\ ~h
           /\ w.held = TRUE
           /\ \E i \in 1..Len(ws) :
                /\ IsHead(ws, i)
                /\ ~(barrier /\ ws[i].priority >= Background)
                /\ w.waiters = RemoveAt(ws, i)
                /\ w.chosen = {ws[i].owner} \ {NoTask}
  <2>1. PICK i \in 1..Len(ws) :
               /\ w.waiters = RemoveAt(ws, i)
               /\ w.chosen = {ws[i].owner} \ {NoTask}
    BY <1>2
  <2> DEFINE r == RemoveAt(ws, i)
             from(j) == IF j < i THEN j ELSE j + 1
  <2>2. DOMAIN ws = 1..Len(ws) /\ Len(ws) \in Nat /\ \A j \in 1..Len(ws) : ws[j] \in Waiter
    BY LenProperties, ElementOfSeq
  <2>3. /\ r \in Seq(Waiter) /\ Len(r) = Len(ws) - 1
        /\ \A j \in 1..(Len(ws) - 1) : r[j] = IF j < i THEN ws[j] ELSE ws[j + 1]
    BY RemoveAtProperties
  <2>4. DOMAIN r = 1..(Len(ws) - 1)
    BY <2>3, LenProperties
  <2>5. \A j \in DOMAIN r : from(j) \in DOMAIN ws \ {i} /\ r[j] = ws[from(j)]
    BY <2>2, <2>3, <2>4
  <2>6. \A j, k \in DOMAIN r : from(j) = from(k) => j = k
    BY <2>2, <2>4
  <2>7. \A k \in DOMAIN ws \ {i} : \E j \in DOMAIN r : r[j] = ws[k]
    <3> SUFFICES ASSUME NEW k \in DOMAIN ws \ {i}
                 PROVE  \E j \in DOMAIN r : r[j] = ws[k]
      OBVIOUS
    <3>1. CASE k < i
      BY <2>2, <2>3, <2>4, <3>1
    <3>2. CASE k > i
      <4>1. k - 1 \in DOMAIN r /\ r[k - 1] = ws[(k - 1) + 1] /\ (k - 1) + 1 = k
        BY <2>2, <2>3, <2>4, <3>2
      <4> QED BY <4>1
    <3> QED BY <2>2, <3>1, <3>2
  <2> HIDE DEF r, from
  <2>8. w.waiters = r
    BY <2>1 DEF r
  <2>9. w.chosen \in SUBSET Tasks
    BY <2>1, <2>2 DEF Waiter
  <2>10. HeapOK(r, at, rd \cup w.chosen)
    <3>1. ASSUME NEW j \in DOMAIN r, r[j].owner # NoTask
          PROVE  /\ at[r[j].owner] \in {"barred", "waiting"}
                 /\ r[j].owner \notin rd \cup w.chosen
                 /\ r[j].priority = Priority[r[j].owner]
      <4>1. from(j) \in DOMAIN ws \ {i} /\ r[j] = ws[from(j)]
        BY <2>5
      <4>2. ws[from(j)].owner # ws[i].owner
        BY <2>2, <3>1, <4>1 DEF HeapOK
      <4> QED BY <2>1, <3>1, <4>1, <4>2 DEF HeapOK
    <3>2. ASSUME NEW j \in DOMAIN r, NEW k \in DOMAIN r, r[j].owner = r[k].owner
          PROVE  j = k \/ r[j].owner = NoTask
      <4>1. from(j) = from(k) \/ ws[from(j)].owner = NoTask
        BY <2>5, <3>2 DEF HeapOK
      <4> QED BY <2>5, <2>6, <4>1
    <3> QED BY <3>1, <3>2 DEF HeapOK
  <2>11. \A c \in w.chosen : at[c] \in {"barred", "waiting"}
    BY <2>1, <2>2 DEF HeapOK
  <2>12. \A u \in Tasks : (\E k \in DOMAIN ws : ws[k].owner = u) =>
           u \in w.chosen \/ \E j \in DOMAIN r : r[j].owner = u
    <3> SUFFICES ASSUME NEW u \in Tasks, NEW k \in DOMAIN ws, ws[k].owner = u
                 PROVE  u \in w.chosen \/ \E j \in DOMAIN r : r[j].owner = u
      OBVIOUS
    <3>1. u # NoTask
      BY LeaseAssumption
    <3> QED BY <2>1, <2>7, <3>1
  <2> QED BY <1>2, <2>1, <2>3, <2>8, <2>9, <2>10, <2>11, <2>12 DEF r
<1> QED BY <1>1, <1>2, WakeNextOutcome

\* Going on in acquire, at its first run or after a wake-up, keeps the invariant.
LEMMA ContendKeepsInv ==
  ASSUME LeaseInv, NEW t \in Tasks, NEW ws \in Seq(Waiter),
         pc[t] \in {"running", "barred", "waiting"},
         HeapOK(ws, [pc EXCEPT ![t] = "waiting"], ready),
         \A u \in Tasks : u = t \/ Suspended(u) =>
           u \in ready \/ \E i \in DOMAIN ws : ws[i].owner = u,
         Contend(t, ws),
         notified' = notified \ {t}, barrier' \in BOOLEAN, doomed' \subseteq Tasks
  PROVE  LeaseInv'
<1> DEFINE at == [pc EXCEPT ![t] = "waiting"]
<1> USE LeaseAssumption
<1>1. TypeOK /\ t # NoTask
  BY DEF LeaseInv
<1>2. PICK w \in WakeNext(ws, held) :
        /\ waiters' = w.waiters
        /\ IF t \in ready \cup w.chosen
           THEN /\ pc' = [pc EXCEPT ![t] = "holding"]
                /\ held' = TRUE
                /\ holder' = t
                /\ ready' = (ready \cup w.chosen) \ {t}
           ELSE /\ pc' = [pc EXCEPT ![t] = "waiting"]
                /\ held' = w.held
                /\ holder' = holder
                /\ ready' = ready \cup w.chosen
  BY DEF Contend
<1>3. /\ w.waiters \in Seq(Waiter)
      /\ w.held \in BOOLEAN
      /\ w.chosen \in SUBSET Tasks
      /\ HeapOK(w.waiters, at, ready \cup w.chosen)
      /\ \A c \in w.chosen : at[c] \in {"barred", "waiting"}
      /\ \A c, d \in w.chosen : c = d
      /\ held => w.held /\ w.chosen = {}
      /\ w.chosen # {} => w.held
      /\ \A u \in Tasks : (\E i \in DOMAIN ws : ws[i].owner = u) =>
           u \in w.chosen \/ \E i \in DOMAIN w.waiters : w.waiters[i].owner = u
  <2>1. held \in BOOLEAN /\ ready \in SUBSET Tasks /\ HeapOK(ws, at, ready)
    BY <1>1 DEF TypeOK
  <2> HIDE DEF at
  <2>2. WokenWell(ws, held, w, at, ready)
    BY <2>1, HeapAfterWake
  <2> QED BY <2>2 DEF WokenWell
<1>4. /\ \A u \in Tasks : at[u] = IF u = t THEN "waiting" ELSE pc[u]
      /\ at \in [Tasks -> PCs]
  BY <1>1 DEF TypeOK, PCs
<1>5. \A a, b \in Owners \cup w.chosen : a = b
  BY <1>3 DEF LeaseInv, MutualExclusion
<1>6. t \notin Holding /\ \A u \in ready : pc[u] \in {"barred", "waiting"}
  BY DEF LeaseInv, Holding, Suspended
<1>7. ready \subseteq Tasks /\ notified \subseteq Tasks
  BY <1>1 DEF TypeOK
<1> HIDE DEF at
<1>8. CASE t \in ready \cup w.chosen
  <2>1. /\ pc' = [pc EXCEPT ![t] = "holding"] /\ held' = TRUE /\ holder' = t
        /\ ready' = (ready \cup w.chosen) \ {t} /\ waiters' = w.waiters
    BY <1>2, <1>8
  <2>2. \A u \in Tasks : pc'[u] = IF u = t THEN "holding" ELSE pc[u]
    BY <1>1, <2>1 DEF TypeOK
  <2>3. Owners \cup w.chosen = {t}
    BY <1>5, <1>8 DEF Owners
  <2>4. TypeOK'
    BY <1>1, <1>3, <1>7, <2>1 DEF TypeOK, PCs
  <2>5. ready' = {} /\ Holding' = {t} /\ Owners' = {t}
    BY <1>6, <2>1, <2>2, <2>3 DEF Owners, Holding
  <2>6. MutualExclusion' /\ (Owners # {} => held)'
    BY <2>1, <2>5 DEF MutualExclusion
  <2>7. NoForgottenWaiter'
    BY <1>3, <2>1, <2>2, <2>3, <2>5 DEF NoForgottenWaiter, Suspended, Owners
  <2>8. (\A u \in Tasks : pc[u] = "holding" <=> holder = u)'
    <3>1. \A u \in Tasks : u # t => pc[u] # "holding"
      BY <2>3 DEF Owners, Holding
    <3> QED BY <2>1, <2>2, <3>1
  <2>9. (\A u \in ready \cup notified : Suspended(u))'
    BY <1>7, <2>2, <2>5 DEF LeaseInv, Suspended
  <2>10. HeapOK(waiters, pc, ready)'
    <3>1. \A i \in DOMAIN w.waiters : w.waiters[i].owner # t
      BY <1>1, <1>3, <1>8 DEF HeapOK
    <3>2. \A i \in DOMAIN w.waiters : w.waiters[i].owner \in Tasks \cup {NoTask}
      <4>1. \A i \in DOMAIN w.waiters : w.waiters[i] \in Waiter
        BY <1>3, LenProperties, ElementOfSeq
      <4> QED BY <4>1 DEF Waiter
    <3>3. ready' \subseteq ready \cup w.chosen
      BY <2>5
    <3> QED BY <1>3, <1>4, <2>1, <2>2, <3>1, <3>2, <3>3 DEF HeapOK
  <2> QED BY <2>4, <2>6, <2>7, <2>8, <2>9, <2>10 DEF LeaseInv
<1>9. CASE t \notin ready \cup w.chosen
  <2>1. /\ pc' = at /\ held' = w.held /\ holder' = holder
        /\ ready' = ready \cup w.chosen /\ waiters' = w.waiters
    BY <1>2, <1>9 DEF at
  <2>2. TypeOK'
    BY <1>1, <1>3, <1>4, <1>7, <2>1 DEF TypeOK
  <2>3. Holding' = Holding /\ Owners' = Owners \cup w.chosen
    BY <1>4, <1>6, <2>1 DEF Owners, Holding
  <2>4. MutualExclusion'
    BY <1>5, <2>3 DEF MutualExclusion
  <2>5. (Owners # {} => held)'
    BY <1>3, <2>1, <2>3 DEF LeaseInv
  <2>6. NoForgottenWaiter'
    BY <1>3, <1>4, <2>1 DEF NoForgottenWaiter, Suspended
  <2>7. (\A u \in Tasks : pc[u] = "holding" <=> holder = u)'
    BY <1>4, <2>1 DEF LeaseInv
  <2>8. (\A u \in ready \cup notified : Suspended(u))'
    BY <1>3, <1>4, <1>6, <1>7, <2>1 DEF LeaseInv, Suspended
  <2>9. HeapOK(waiters, pc, ready)'
    BY <1>3, <2>1 DEF HeapOK
  <2> QED BY <2>2, <2>4, <2>5, <2>6, <2>7, <2>8, <2>9 DEF LeaseInv
<1> QED BY <1>8, <1>9

\* The finally block, run by the holder t, keeps the invariant wherever t goes on,
\* as long as it is out of the lease.
LEMMA LetGoKeepsInv ==
  ASSUME LeaseInv, NEW t \in Tasks, pc[t] = "holding", LetGo,
         NEW where \in {"running", "tail", "dead"},
         pc' = [pc EXCEPT ![t] = where],
         barrier' \in BOOLEAN, doomed' \subseteq Tasks
  PROVE  LeaseInv'
<1> USE LeaseAssumption
<1>1. TypeOK
  BY DEF LeaseInv
<1>2. PICK w \in WakeNext(waiters, FALSE) :
        waiters' = w.waiters /\ held' = w.held /\ ready' = ready \cup w.chosen
  BY DEF LetGo
<1>3. waiters \in Seq(Waiter) /\ ready \in SUBSET Tasks /\ HeapOK(waiters, pc, ready)
  BY <1>1 DEF LeaseInv, TypeOK
<1>4. /\ w.waiters \in Seq(Waiter)
      /\ w.held \in BOOLEAN
      /\ w.chosen \in SUBSET Tasks
      /\ HeapOK(w.waiters, pc, ready \cup w.chosen)
      /\ \A c \in w.chosen : pc[c] \in {"barred", "waiting"}
      /\ \A c, d \in w.chosen : c = d
      /\ w.chosen # {} => w.held
      /\ \A u \in Tasks : (\E i \in DOMAIN waiters : waiters[i].owner = u) =>
           u \in w.chosen \/ \E i \in DOMAIN w.waiters : w.waiters[i].owner = u
  <2>1. WokenWell(waiters, FALSE, w, pc, ready)
    BY <1>3, HeapAfterWake
  <2> QED BY <2>1 DEF WokenWell
<1>5. \A u \in Tasks : pc'[u] = IF u = t THEN where ELSE pc[u]
  BY <1>1 DEF TypeOK
<1>6. \A u \in Tasks : Suspended(u)' <=> Suspended(u)
  BY <1>5 DEF Suspended
<1>7. Owners = {t} /\ ready = {} /\ Holding = {t}
  <2>1. Owners = {t}
    BY DEF LeaseInv, MutualExclusion, Owners, Holding
  <2>2. t \notin ready
    BY DEF LeaseInv, Suspended
  <2> QED BY <2>1, <2>2 DEF Owners, Holding
<1>8. /\ holder' = NoTask
      /\ notified' = notified \cup {u \in Tasks : Suspended(u)}
  BY DEF LetGo
<1>9. TypeOK'
  BY <1>1, <1>2, <1>3, <1>4, <1>8 DEF TypeOK, PCs
<1>10. Holding' = {} /\ Owners' = w.chosen
  BY <1>2, <1>5, <1>7 DEF Owners, Holding
<1>11. MutualExclusion' /\ (Owners # {} => held)'
  BY <1>2, <1>4, <1>10 DEF MutualExclusion
<1>12. NoForgottenWaiter'
  BY <1>2, <1>4, <1>6 DEF LeaseInv, NoForgottenWaiter
<1>13. (\A u \in Tasks : pc[u] = "holding" <=> holder = u)'
  BY <1>8, <1>10 DEF Holding
<1>14. (\A u \in ready \cup notified : Suspended(u))'
  BY <1>2, <1>3, <1>4, <1>6, <1>7, <1>8 DEF LeaseInv, Suspended, TypeOK
<1>15. HeapOK(waiters, pc, ready)'
  <2>1. \A i \in DOMAIN w.waiters : w.waiters[i].owner \in Tasks \cup {NoTask}
    <3>1. \A i \in DOMAIN w.waiters : w.waiters[i] \in Waiter
      BY <1>4, LenProperties, ElementOfSeq
    <3> QED BY <3>1 DEF Waiter
  <2> QED BY <1>2, <1>4, <1>5, <2>1 DEF HeapOK
<1> QED BY <1>9, <1>11, <1>12, <1>13, <1>14, <1>15 DEF LeaseInv

\* A CancelledError in a task that does not hold the lease: its waiter becomes
\* nobody's.
LEMMA AbandonKeepsInv ==
  ASSUME LeaseInv, NEW t \in Tasks, Cancelled(t), pc[t] # "holding"
  PROVE  LeaseInv'
<1> USE LeaseAssumption
<1>1. TypeOK
  BY DEF LeaseInv
<1> DEFINE where == IF t \in Loops THEN "dead" ELSE "running"
           gone(x) == IF x.owner = t THEN [x EXCEPT !.owner = NoTask] ELSE x
<1>2. /\ pc' = [pc EXCEPT ![t] = where]
      /\ doomed' = doomed \ {t}
      /\ waiters' = [i \in DOMAIN waiters |-> gone(waiters[i])]
      /\ ready' = ready \ {t}
      /\ notified' = notified \ {t}
      /\ held' = held /\ holder' = holder /\ barrier' = barrier
  BY DEF Cancelled
<1>3. where \in {"dead", "running"}
  OBVIOUS
<1> HIDE DEF where
<1>4. \A u \in Tasks : pc'[u] = IF u = t THEN where ELSE pc[u]
  BY <1>1, <1>2 DEF TypeOK
<1>5. /\ waiters \in Seq(Waiter) /\ DOMAIN waiters = 1..Len(waiters)
      /\ \A i \in DOMAIN waiters : waiters[i] \in Waiter
  BY <1>1, LenProperties, ElementOfSeq DEF TypeOK
<1>6. \A i \in DOMAIN waiters :
        /\ gone(waiters[i]) \in Waiter
        /\ gone(waiters[i]).owner = IF waiters[i].owner = t THEN NoTask ELSE waiters[i].owner
        /\ gone(waiters[i]).priority = waiters[i].priority
  BY <1>5 DEF Waiter
<1> HIDE DEF gone
<1>7. /\ DOMAIN waiters' = DOMAIN waiters
      /\ \A i \in DOMAIN waiters : waiters'[i] = gone(waiters[i])
  BY <1>2
<1>8. waiters' \in Seq(Waiter)
  BY <1>2, <1>5, <1>6, IsASeq
<1>9. TypeOK'
  BY <1>1, <1>2, <1>3, <1>8 DEF TypeOK, PCs
<1>10. Holding' = Holding /\ Owners' \subseteq Owners
  BY <1>2, <1>3, <1>4 DEF Holding, Owners
<1>11. MutualExclusion' /\ (Owners # {} => held)'
  BY <1>2, <1>10 DEF LeaseInv, MutualExclusion
<1>12. NoForgottenWaiter'
  <2> SUFFICES ASSUME NEW u \in Tasks, Suspended(u)'
               PROVE  u \in ready' \/ \E i \in DOMAIN waiters' : waiters'[i].owner = u
    BY DEF NoForgottenWaiter
  <2>1. u # t /\ Suspended(u)
    BY <1>3, <1>4 DEF Suspended
  <2>2. u \in ready \/ \E i \in DOMAIN waiters : waiters[i].owner = u
    BY <2>1 DEF LeaseInv, NoForgottenWaiter
  <2> QED BY <1>2, <1>6, <1>7, <2>1, <2>2
<1>13. (\A u \in Tasks : pc[u] = "holding" <=> holder = u)'
  BY <1>2, <1>3, <1>4 DEF LeaseInv
<1>14. (\A u \in ready \cup notified : Suspended(u))'
  BY <1>1, <1>2, <1>4 DEF LeaseInv, Suspended, TypeOK
<1>15. HeapOK(waiters, pc, ready)'
  <2>1. HeapOK(waiters, pc, ready)
    BY DEF LeaseInv
  <2>2. ASSUME NEW i \in DOMAIN waiters', waiters'[i].owner # NoTask
        PROVE  /\ pc'[waiters'[i].owner] \in {"barred", "waiting"}
               /\ waiters'[i].owner \notin ready'
               /\ waiters'[i].priority = Priority[waiters'[i].owner]
    <3>1. /\ i \in DOMAIN waiters /\ waiters[i].owner # t
          /\ waiters'[i].owner = waiters[i].owner
          /\ waiters'[i].priority = waiters[i].priority
          /\ waiters[i].owner \in Tasks
      BY <1>5, <1>6, <1>7, <2>2 DEF Waiter
    <3> QED BY <1>2, <1>4, <2>1, <2>2, <3>1 DEF HeapOK
  <2>3. ASSUME NEW i \in DOMAIN waiters', NEW j \in DOMAIN waiters',
               waiters'[i].owner = waiters'[j].owner
        PROVE  i = j \/ waiters'[i].owner = NoTask
    BY <1>6, <1>7, <2>1, <2>3 DEF HeapOK
  <2> QED BY <2>2, <2>3 DEF HeapOK
<1> QED BY <1>9, <1>11, <1>12, <1>13, <1>14, <1>15 DEF LeaseInv

LEMMA CancelledKeepsInv ==
  ASSUME LeaseInv, NEW t \in Tasks, Cancelled(t)
  PROVE  LeaseInv'
<1>1. CASE pc[t] = "holding"
  <2>1. /\ LetGo
        /\ pc' = [pc EXCEPT ![t] = IF t \in Loops THEN "dead" ELSE "running"]
        /\ doomed' = doomed \ {t} /\ barrier' = barrier
    BY <1>1 DEF Cancelled
  <2>2. barrier' \in BOOLEAN /\ doomed' \subseteq Tasks
    BY <2>1 DEF LeaseInv, TypeOK
  <2>3. (IF t \in Loops THEN "dead" ELSE "running") \in {"running", "tail", "dead"}
    OBVIOUS
  <2> QED BY <1>1, <2>1, <2>2, <2>3, LetGoKeepsInv
<1>2. CASE pc[t] # "holding"
  BY <1>2, AbandonKeepsInv
<1> QED BY <1>1, <1>2

LEMMA AcquireKeepsInv ==
  ASSUME LeaseInv, NEW t \in Tasks, Acquire(t)
  PROVE  LeaseInv'
<1> USE LeaseAssumption
<1> DEFINE mine == [owner |-> t, priority |-> Priority[t]]
           ws == Append(waiters, mine)
           at(x) == [pc EXCEPT ![t] = x]
<1>1. TypeOK /\ pc[t] = "running" /\ t # NoTask /\ t \notin ready \cup notified
  BY DEF LeaseInv, Acquire, Suspended
<1>2. doomed' \subseteq Tasks /\ barrier' = barrier /\ notified' = notified
  <2>1. doomed' \subseteq doomed \cup ({holder} \ {NoTask})
    BY DEF Acquire
  <2> QED BY <1>1, <2>1 DEF Acquire, TypeOK
<1>3. mine \in Waiter
  BY DEF Waiter
<1> HIDE DEF mine
<1>4. /\ waiters \in Seq(Waiter) /\ DOMAIN waiters = 1..Len(waiters)
      /\ Len(waiters) \in Nat
      /\ \A i \in DOMAIN waiters : waiters[i] \in Waiter
  BY <1>1, LenProperties, ElementOfSeq DEF TypeOK
<1>5. /\ ws \in Seq(Waiter) /\ Len(ws) = Len(waiters) + 1
      /\ \A i \in DOMAIN waiters : ws[i] = waiters[i]
      /\ ws[Len(waiters) + 1] = mine
  BY <1>3, <1>4, AppendProperties
<1>6. DOMAIN ws = DOMAIN waiters \cup {Len(waiters) + 1}
  BY <1>4, <1>5, LenProperties
<1>7. mine.owner = t /\ mine.priority = Priority[t]
  BY DEF mine
<1> HIDE DEF ws
<1>8. \A i \in DOMAIN waiters : waiters[i].owner # t
  BY <1>1 DEF LeaseInv, HeapOK
<1>9. ASSUME NEW x \in {"barred", "waiting"}
      PROVE  HeapOK(ws, at(x), ready)
  <2>1. \A u \in Tasks : at(x)[u] = IF u = t THEN x ELSE pc[u]
    BY <1>1 DEF TypeOK
  <2> HIDE DEF at
  <2>2. \A i \in DOMAIN waiters : waiters[i].owner \in Tasks \cup {NoTask}
    BY <1>4 DEF Waiter
  <2> QED BY <1>1, <1>5, <1>6, <1>7, <1>8, <2>1, <2>2 DEF LeaseInv, HeapOK
<1>10. \A u \in Tasks : u = t \/ Suspended(u) =>
         u \in ready \/ \E i \in DOMAIN ws : ws[i].owner = u
  BY <1>5, <1>6, <1>7 DEF LeaseInv, NoForgottenWaiter
<1>11. CASE barrier /\ Priority[t] >= Background
  <2>1. /\ pc' = at("barred") /\ waiters' = ws /\ held' = held
        /\ holder' = holder /\ ready' = ready
    BY <1>11 DEF Acquire, ws, mine, Barred
  <2>2. \A u \in Tasks : pc'[u] = IF u = t THEN "barred" ELSE pc[u]
    BY <1>1, <2>1 DEF TypeOK
  <2>3. TypeOK'
    BY <1>1, <1>2, <1>5, <2>1 DEF TypeOK, PCs
  <2>4. Holding' = Holding /\ Owners' = Owners
    BY <1>1, <2>1, <2>2 DEF Holding, Owners
  <2>5. MutualExclusion' /\ (Owners # {} => held)'
    BY <2>1, <2>4 DEF LeaseInv, MutualExclusion
  <2>6. NoForgottenWaiter'
    BY <1>10, <2>1, <2>2 DEF NoForgottenWaiter, Suspended
  <2>7. (\A u \in Tasks : pc[u] = "holding" <=> holder = u)'
    BY <1>1, <2>1, <2>2 DEF LeaseInv
  <2>8. (\A u \in ready \cup notified : Suspended(u))'
    BY <1>1, <1>2, <2>1, <2>2 DEF LeaseInv, Suspended, TypeOK
  <2>9. HeapOK(waiters, pc, ready)'
    BY <1>9, <2>1 DEF HeapOK
  <2> QED BY <2>3, <2>5, <2>6, <2>7, <2>8, <2>9 DEF LeaseInv
<1>12. CASE ~(barrier /\ Priority[t] >= Background)
  <2>1. Contend(t, ws)
    BY <1>12 DEF Acquire, ws, mine, Barred
  <2>2. notified' = notified \ {t} /\ barrier' \in BOOLEAN
    BY <1>1, <1>2 DEF TypeOK
  <2>3. HeapOK(ws, [pc EXCEPT ![t] = "waiting"], ready)
    BY <1>9
  <2> QED BY <1>1, <1>2, <1>5, <1>10, <2>1, <2>2, <2>3, ContendKeepsInv
<1> QED BY <1>11, <1>12

LEMMA ResumeKeepsInv ==
  ASSUME LeaseInv, NEW t \in Tasks, Resume(t)
  PROVE  LeaseInv'
<1> USE LeaseAssumption
<1>1. TypeOK /\ Suspended(t)
  BY DEF LeaseInv, Resume
<1>2. barrier' = barrier /\ doomed' = doomed /\ notified' = notified \ {t}
  BY DEF Resume
<1>3. CASE pc[t] = "barred" /\ barrier
  <2>1. UNCHANGED <<pc, waiters, held, holder, ready>>
    BY <1>3 DEF Resume
  <2> QED
    BY <1>1, <1>2, <2>1 DEF LeaseInv, TypeOK, MutualExclusion, NoForgottenWaiter,
         Owners, Holding, Suspended, HeapOK
<1>4. CASE ~(pc[t] = "barred" /\ barrier)
  <2>1. Contend(t, waiters)
    BY <1>4 DEF Resume
  <2>2. HeapOK(waiters, [pc EXCEPT ![t] = "waiting"], ready)
    <3> DEFINE at == [pc EXCEPT ![t] = "waiting"]
    <3>1. \A u \in Tasks : at[u] = IF u = t THEN "waiting" ELSE pc[u]
      BY <1>1 DEF TypeOK
    <3> HIDE DEF at
    <3>2. \A i \in DOMAIN waiters : waiters[i] \in Waiter
      BY <1>1, LenProperties, ElementOfSeq DEF TypeOK
    <3>3. \A i \in DOMAIN waiters : waiters[i].owner \in Tasks \cup {NoTask}
      BY <3>2 DEF Waiter
    <3>4. HeapOK(waiters, at, ready)
      BY <3>1, <3>3 DEF LeaseInv, HeapOK
    <3> QED BY <3>4 DEF at
  <2>3. \A u \in Tasks : u = t \/ Suspended(u) =>
          u \in ready \/ \E i \in DOMAIN waiters : waiters[i].owner = u
    BY <1>1 DEF LeaseInv, NoForgottenWaiter
  <2>4. /\ pc[t] \in {"running", "barred", "waiting"} /\ waiters \in Seq(Waiter)
        /\ barrier' \in BOOLEAN /\ doomed' \subseteq Tasks
    BY <1>1, <1>2 DEF TypeOK, Suspended
  <2> QED BY <1>2, <2>1, <2>2, <2>3, <2>4, ContendKeepsInv
<1> QED BY <1>3, <1>4

LEMMA ReleaseKeepsInv ==
  ASSUME LeaseInv, NEW t \in Tasks, Release(t)
  PROVE  LeaseInv'
<1>1. /\ pc[t] = "holding" /\ LetGo
      /\ pc' = [pc EXCEPT ![t] = IF t \in Loops THEN "running" ELSE "tail"]
  BY DEF Release
<1>2. barrier' \in BOOLEAN /\ doomed' \subseteq Tasks
  BY DEF Release, LeaseInv, TypeOK
<1>3. (IF t \in Loops THEN "running" ELSE "tail") \in {"running", "tail", "dead"}
  OBVIOUS
<1> QED BY <1>1, <1>2, <1>3, LetGoKeepsInv

LEMMA FinishKeepsInv ==
  ASSUME LeaseInv, NEW t \in Tasks, Finish(t)
  PROVE  LeaseInv'
<1> USE LeaseAssumption
<1>1. /\ TypeOK /\ pc[t] = "tail" /\ doomed' \subseteq doomed
      /\ pc' = [pc EXCEPT ![t] = "running"]
      /\ UNCHANGED <<waiters, held, holder, ready, notified, barrier>>
  BY DEF LeaseInv, Finish
<1>2. \A u \in Tasks : pc'[u] = IF u = t THEN "running" ELSE pc[u]
  BY <1>1 DEF TypeOK
<1>3. TypeOK'
  BY <1>1 DEF TypeOK, PCs
<1>4. Holding' = Holding /\ Owners' = Owners /\ \A u \in Tasks : Suspended(u)' <=> Suspended(u)
  BY <1>1, <1>2 DEF Holding, Owners, Suspended
<1>5. MutualExclusion' /\ (Owners # {} => held)' /\ NoForgottenWaiter'
  BY <1>1, <1>4 DEF LeaseInv, MutualExclusion, NoForgottenWaiter
<1>6. (\A u \in Tasks : pc[u] = "holding" <=> holder = u)'
  BY <1>1, <1>2 DEF LeaseInv
<1>7. (\A u \in ready \cup notified : Suspended(u))'
  BY <1>1, <1>2 DEF LeaseInv, Suspended, TypeOK
<1>8. HeapOK(waiters, pc, ready)'
  <2>1. \A i \in DOMAIN waiters : waiters[i] \in Waiter
    BY <1>1, LenProperties, ElementOfSeq DEF TypeOK
  <2>2. \A i \in DOMAIN waiters : waiters[i].owner \in Tasks \cup {NoTask}
    BY <2>1 DEF Waiter
  <2> QED BY <1>1, <1>2, <2>2 DEF LeaseInv, HeapOK
<1> QED BY <1>3, <1>5, <1>6, <1>7, <1>8 DEF LeaseInv

LEMMA SetBarrierKeepsInv ==
  ASSUME LeaseInv, NEW active \in BOOLEAN, SetBarrier(active)
  PROVE  LeaseInv'
<1>1. /\ barrier' = active
      /\ doomed' \subseteq doomed \cup ({holder} \ {NoTask})
      /\ notified' = notified \cup {u \in Tasks : Suspended(u)}
      /\ UNCHANGED <<pc, waiters, held, holder, ready>>
  BY DEF SetBarrier
<1>2. TypeOK'
  BY <1>1 DEF LeaseInv, TypeOK
<1> QED
  BY <1>1, <1>2 DEF LeaseInv, TypeOK, MutualExclusion, NoForgottenWaiter,
     Owners, Holding, Suspended, HeapOK

-----------------------------------------------------------------------------

LEMMA InitInv == Init => LeaseInv
<1> SUFFICES ASSUME Init PROVE LeaseInv
  OBVIOUS
<1> USE LeaseAssumption
<1>1. waiters = <<>> /\ waiters \in Seq(Waiter) /\ DOMAIN waiters = {}
  BY EmptySeq DEF Init
<1>2. TypeOK
  BY <1>1 DEF Init, TypeOK, PCs
<1>3. Owners = {}
  BY DEF Init, Owners, Holding
<1> QED
  BY <1>1, <1>2, <1>3 DEF Init, LeaseInv, MutualExclusion, NoForgottenWaiter,
     Suspended, HeapOK

LEMMA NextKeepsInv == LeaseInv /\ [Next]_vars => LeaseInv'
<1> SUFFICES ASSUME LeaseInv, [Next]_vars PROVE LeaseInv'
  OBVIOUS
<1>1. ASSUME NEW t \in Tasks, Acquire(t) PROVE LeaseInv'
  BY <1>1, AcquireKeepsInv
<1>2. ASSUME NEW t \in Tasks, Resume(t) PROVE LeaseInv'
  BY <1>2, ResumeKeepsInv
<1>3. ASSUME NEW t \in Tasks, Release(t) PROVE LeaseInv'
  BY <1>3, ReleaseKeepsInv
<1>4. ASSUME NEW t \in Tasks, Finish(t) PROVE LeaseInv'
  BY <1>4, FinishKeepsInv
<1>5. ASSUME NEW t \in Tasks, GraceCancel(t) PROVE LeaseInv'
  BY <1>5, CancelledKeepsInv DEF GraceCancel
<1>6. ASSUME NEW t \in Tasks, Cancel(t) PROVE LeaseInv'
  BY <1>6, CancelledKeepsInv DEF Cancel
<1>7. ASSUME NEW active \in BOOLEAN, SetBarrier(active) PROVE LeaseInv'
  BY <1>7, SetBarrierKeepsInv
<1>8. CASE UNCHANGED vars
  BY <1>8 DEF vars, LeaseInv, TypeOK, MutualExclusion, NoForgottenWaiter,
     Owners, Holding, Suspended, HeapOK
<1> QED
  BY <1>1, <1>2, <1>3, <1>4, <1>5, <1>6, <1>7, <1>8 DEF Next

\* The strengthening is invariant, whoever is cancelled and wherever.
THEOREM LeaseInvariant == Spec => []LeaseInv
<1>1. Init => LeaseInv
  BY InitInv
<1>2. LeaseInv /\ [Next]_vars => LeaseInv'
  BY NextKeepsInv
<1> QED BY <1>1, <1>2, PTL DEF Spec

\* The variables keep their types.
THEOREM TypeCorrect == Spec => []TypeOK
<1>1. LeaseInv => TypeOK
  BY DEF LeaseInv
<1> QED BY <1>1, LeaseInvariant, PTL

\* The lease belongs to at most one task: reserving it in _wake_next_locked before
\* the winner runs is enough for any number of tasks woken at once.
THEOREM Exclusion == Spec => []MutualExclusion
<1>1. LeaseInv => MutualExclusion
  BY DEF LeaseInv
<1> QED BY <1>1, LeaseInvariant, PTL

\* No live task suspended in acquire is ever missing from the heap without having
\* been made ready.
THEOREM NobodyForgotten == Spec => []NoForgottenWaiter
<1>1. LeaseInv => NoForgottenWaiter
  BY DEF LeaseInv
<1> QED BY <1>1, LeaseInvariant, PTL

-----------------------------------------------------------------------------

\* Task u gets the lease as the head of a heap ws whose live waiters have their
\* tasks' priorities, and the barrier does not hold it back.
GrantedAsHead(u) ==
  \E ws \in Seq(Waiter) : \E i \in 1..Len(ws) :
    /\ IsHead(ws, i)
    /\ ~(barrier /\ ws[i].priority >= Background)
    /\ waiters' = RemoveAt(ws, i)
    /\ ws[i].owner = u
    /\ \A j \in 1..Len(ws) : ws[j].owner # NoTask => ws[j].priority = Priority[ws[j].owner]

LEMMA ChosenAsHead ==
  ASSUME NEW ws \in Seq(Waiter), NEW h \in BOOLEAN, NEW w \in WakeNext(ws, h),
         waiters' = w.waiters, NEW u \in w.chosen,
         \A j \in 1..Len(ws) : ws[j].owner # NoTask => ws[j].priority = Priority[ws[j].owner]
  PROVE  GrantedAsHead(u)
<1>1. \E i \in 1..Len(ws) :
        /\ IsHead(ws, i)
        /\ ~(barrier /\ ws[i].priority >= Background)
        /\ w.waiters = RemoveAt(ws, i)
        /\ w.chosen = {ws[i].owner} \ {NoTask}
  BY WakeNextOutcome
<1> QED BY <1>1 DEF GrantedAsHead

\* Every step that gives the lease to somebody gives it to the head of a heap.
LEMMA NewOwnerIsHead ==
  ASSUME LeaseInv, [Next]_vars, NEW u \in Owners' \ Owners
  PROVE  GrantedAsHead(u)
<1> DEFINE Priced(ws) == \A j \in 1..Len(ws) :
             ws[j].owner # NoTask => ws[j].priority = Priority[ws[j].owner]
<1>1. /\ waiters \in Seq(Waiter) /\ held \in BOOLEAN /\ pc \in [Tasks -> PCs]
      /\ DOMAIN waiters = 1..Len(waiters) /\ Priced(waiters)
  BY LenProperties DEF LeaseInv, TypeOK, HeapOK
<1>2. ASSUME NEW t \in Tasks, NEW ws \in Seq(Waiter), Priced(ws), Contend(t, ws)
      PROVE  GrantedAsHead(u)
  <2>1. PICK w \in WakeNext(ws, held) :
          /\ waiters' = w.waiters
          /\ \/ pc' = [pc EXCEPT ![t] = "holding"] /\ t \in ready \cup w.chosen
             \/ pc' = [pc EXCEPT ![t] = "waiting"]
          /\ ready' \subseteq ready \cup w.chosen
    BY <1>2 DEF Contend
  <2>2. u \in w.chosen
    BY <1>1, <2>1 DEF Owners, Holding
  <2> HIDE DEF Priced
  <2>3. Priced(ws)
    BY <1>2
  <2> QED BY <1>1, <2>1, <2>2, <2>3, ChosenAsHead DEF Priced
<1>3. ASSUME LetGo, \A t \in Tasks : pc'[t] = "holding" => pc[t] = "holding"
      PROVE  GrantedAsHead(u)
  <2>1. PICK w \in WakeNext(waiters, FALSE) :
          waiters' = w.waiters /\ ready' = ready \cup w.chosen
    BY <1>3 DEF LetGo
  <2>2. u \in w.chosen
    BY <1>3, <2>1 DEF Owners, Holding
  <2> QED BY <1>1, <2>1, <2>2, ChosenAsHead
<1>4. ASSUME ready' \subseteq ready, \A t \in Tasks : pc'[t] = "holding" => pc[t] = "holding"
      PROVE  FALSE
  BY <1>4 DEF Owners, Holding
<1>5. ASSUME NEW t \in Tasks, Acquire(t) PROVE GrantedAsHead(u)
  <2> DEFINE mine == [owner |-> t, priority |-> Priority[t]]
             ws == Append(waiters, mine)
  <2>1. mine \in Waiter
    BY LeaseAssumption DEF Waiter
  <2>2. ws \in Seq(Waiter) /\ Priced(ws)
    <3> HIDE DEF mine
    <3>1. /\ ws \in Seq(Waiter) /\ Len(ws) = Len(waiters) + 1
          /\ \A i \in 1..Len(waiters) : ws[i] = waiters[i]
          /\ ws[Len(waiters) + 1] = mine
      BY <1>1, <2>1, AppendProperties
    <3>2. mine.owner = t /\ mine.priority = Priority[t]
      BY DEF mine
    <3>3. Len(waiters) \in Nat
      BY <1>1, LenProperties
    <3> HIDE DEF ws
    <3> QED BY <1>1, <3>1, <3>2, <3>3
  <2>3. CASE barrier /\ Priority[t] >= Background
    BY <1>1, <1>4, <1>5, <2>3 DEF Acquire, Barred
  <2>4. CASE ~(barrier /\ Priority[t] >= Background)
    <3>1. Contend(t, ws)
      BY <1>5, <2>4 DEF Acquire, Barred
    <3> QED BY <1>2, <2>2, <3>1
  <2> QED BY <2>3, <2>4
<1>6. ASSUME NEW t \in Tasks, Resume(t) PROVE GrantedAsHead(u)
  <2>1. CASE pc[t] = "barred" /\ barrier
    BY <1>4, <1>6, <2>1 DEF Resume
  <2>2. CASE ~(pc[t] = "barred" /\ barrier)
    <3>1. Contend(t, waiters)
      BY <1>6, <2>2 DEF Resume
    <3> QED BY <1>1, <1>2, <3>1
  <2> QED BY <2>1, <2>2
<1>7. ASSUME NEW t \in Tasks, Release(t) PROVE GrantedAsHead(u)
  BY <1>1, <1>3, <1>7 DEF Release
<1>8. ASSUME NEW t \in Tasks, Finish(t) PROVE FALSE
  BY <1>1, <1>4, <1>8 DEF Finish
<1>9. ASSUME NEW t \in Tasks, Cancelled(t) PROVE GrantedAsHead(u)
  <2>1. \A v \in Tasks : pc'[v] = "holding" => pc[v] = "holding"
    BY <1>1, <1>9 DEF Cancelled
  <2>2. CASE pc[t] = "holding"
    BY <1>3, <1>9, <2>1, <2>2 DEF Cancelled
  <2>3. CASE pc[t] # "holding"
    BY <1>4, <1>9, <2>1, <2>3 DEF Cancelled
  <2> QED BY <2>2, <2>3
<1>10. ASSUME NEW active \in BOOLEAN, SetBarrier(active) PROVE FALSE
  BY <1>4, <1>10 DEF SetBarrier
<1>11. CASE UNCHANGED vars
  BY <1>4, <1>11 DEF vars
<1> QED
  BY <1>5, <1>6, <1>7, <1>8, <1>9, <1>10, <1>11 DEF Next, GraceCancel, Cancel

\* While the barrier is up no background task is given the lease, for any tasks,
\* wake-ups and cancellations.
THEOREM BackgroundKeptOut == Spec => BarrierStopsBackground
<1>1. LeaseInv /\ [Next]_vars =>
        [barrier => \A t \in Owners' \ Owners : Priority[t] < Background]_vars
  <2> SUFFICES ASSUME LeaseInv, [Next]_vars, barrier, NEW t \in Owners' \ Owners
               PROVE  Priority[t] < Background
    OBVIOUS
  <2>1. LeaseInv'
    BY NextKeepsInv
  <2>2. t \in Tasks /\ t # NoTask
    BY <2>1, LeaseAssumption DEF LeaseInv, TypeOK, Owners, Holding
  <2>3. PICK ws \in Seq(Waiter) : \E i \in 1..Len(ws) :
          /\ ~(barrier /\ ws[i].priority >= Background)
          /\ ws[i].owner = t /\ ws[i].priority = Priority[ws[i].owner]
    BY <2>2, NewOwnerIsHead DEF GrantedAsHead
  <2>4. Priority[t] \in Nat /\ Background \in Nat
    BY <2>2, LeaseAssumption
  <2> QED BY <2>3, <2>4
<1> QED BY <1>1, LeaseInvariant, PTL DEF Spec, BarrierStopsBackground

\* The lease is always given to a most urgent one of the live waiters.
THEOREM UrgentFirst == Spec => GrantsInPriorityOrder
<1>1. LeaseInv /\ [Next]_vars => [GrantedBeforeTheRest]_vars
  <2> SUFFICES ASSUME LeaseInv, [Next]_vars, NEW t \in Owners' \ Owners,
                      NEW k \in DOMAIN waiters'
               PROVE  Priority[t] <= waiters'[k].priority
    BY DEF GrantedBeforeTheRest
  <2>1. t \in Tasks /\ t # NoTask
    BY NextKeepsInv, LeaseAssumption DEF LeaseInv, TypeOK, Owners, Holding
  <2>2. PICK ws \in Seq(Waiter) : \E i \in 1..Len(ws) :
          /\ IsHead(ws, i) /\ waiters' = RemoveAt(ws, i)
          /\ ws[i].owner = t /\ ws[i].priority = Priority[ws[i].owner]
    BY <2>1, NewOwnerIsHead DEF GrantedAsHead
  <2>2a. PICK i \in 1..Len(ws) :
          /\ IsHead(ws, i) /\ waiters' = RemoveAt(ws, i)
          /\ ws[i].owner = t /\ ws[i].priority = Priority[ws[i].owner]
    BY <2>2
  <2>3. /\ Len(ws) \in Nat /\ DOMAIN ws = 1..Len(ws)
        /\ \A j \in 1..Len(ws) : ws[j] \in Waiter
    BY LenProperties, ElementOfSeq
  <2>4. /\ k \in 1..(Len(ws) - 1)
        /\ waiters'[k] = IF k < i THEN ws[k] ELSE ws[k + 1]
    <3>1. /\ waiters' \in Seq(Waiter) /\ Len(waiters') = Len(ws) - 1
          /\ \A j \in 1..(Len(ws) - 1) :
               waiters'[j] = IF j < i THEN ws[j] ELSE ws[j + 1]
      BY <2>2a, RemoveAtProperties
    <3>2. DOMAIN waiters' = 1..(Len(ws) - 1)
      BY <3>1, LenProperties
    <3> QED BY <3>1, <3>2
  <2>5. PICK j \in 1..Len(ws) : waiters'[k] = ws[j]
    BY <2>3, <2>4
  <2>6. ws[i].priority \in Nat /\ ws[j].priority \in Nat
    BY <2>3 DEF Waiter
  <2>7. ws[i].priority <= ws[j].priority
    BY <2>2a, <2>3, <2>6 DEF IsHead
  <2> QED BY <2>2a, <2>5, <2>7
<1> QED BY <1>1, LeaseInvariant, PTL DEF Spec, GrantsInPriorityOrder

-----------------------------------------------------------------------------
(* The lease does what LeaseContract promises. *)

\* Live waiters have their tasks' priorities, and no task has two of them.
LineOK(ws) ==
  /\ \A i \in DOMAIN ws : ws[i].owner # NoTask => ws[i].priority = Priority[ws[i].owner]
  /\ \A i, j \in DOMAIN ws : ws[i].owner = ws[j].owner => i = j \/ ws[i].owner = NoTask

\* <<a, b>> is of the waiters of ws, in this order.
Ordered(ws, a, b) == \E i, j \in DOMAIN ws : i < j /\ ws[i].owner = a /\ ws[j].owner = b

\* Who is in line and who came before whom tells all that CameBefore says.
LEMMA CameBeforeIs ==
  ASSUME NEW ws, NEW a, NEW b
  PROVE  <<a, b>> \in CameBefore(ws)
           <=> a \in InLine(ws) /\ b \in InLine(ws) /\ Ordered(ws, a, b)
BY DEF CameBefore, Ordered

\* A task that arrives is the last in line.
LEMMA LineAfterArrival ==
  ASSUME NEW ws \in Seq(Waiter), NEW x \in Waiter, x.owner \in Tasks,
         x.owner \notin InLine(ws)
  PROVE  /\ InLine(Append(ws, x)) = InLine(ws) \cup {x.owner}
         /\ CameBefore(Append(ws, x)) = CameBefore(ws) \cup (InLine(ws) \X {x.owner})
<1> DEFINE n == Len(ws)
           r == Append(ws, x)
<1>1. n \in Nat /\ DOMAIN ws = 1..n
  BY LenProperties
<1>2. /\ DOMAIN r = 1..(n + 1) /\ r[n + 1] = x
      /\ \A i \in 1..n : r[i] = ws[i]
  BY <1>1, AppendProperties, LenProperties
<1>3. x.owner # NoTask
  BY LeaseAssumption
<1> HIDE DEF r, n
<1>4. \A i \in DOMAIN r : i \in DOMAIN ws \/ i = n + 1
  BY <1>1, <1>2
<1>5. DOMAIN ws \subseteq DOMAIN r /\ n + 1 \in DOMAIN r /\ \A i \in DOMAIN ws : i < n + 1
  BY <1>1, <1>2
<1>6. InLine(r) = InLine(ws) \cup {x.owner}
  BY <1>1, <1>2, <1>3, <1>4, <1>5 DEF InLine
<1>7. \A i \in DOMAIN ws : ws[i].owner # x.owner
  BY <1>3 DEF InLine
<1>8. ASSUME NEW a \in InLine(r), NEW b \in InLine(r)
      PROVE  Ordered(r, a, b)
               <=> (a \in InLine(ws) /\ b \in InLine(ws) /\ Ordered(ws, a, b))
                   \/ (a \in InLine(ws) /\ b = x.owner)
  <2>1. ASSUME Ordered(r, a, b)
        PROVE  (a \in InLine(ws) /\ b \in InLine(ws) /\ Ordered(ws, a, b))
               \/ (a \in InLine(ws) /\ b = x.owner)
    <3>1. PICK i \in DOMAIN r, j \in DOMAIN r : i < j /\ r[i].owner = a /\ r[j].owner = b
      BY <2>1 DEF Ordered
    <3>2. i \in DOMAIN ws
      BY <1>1, <1>2, <3>1
    <3>3. a \in InLine(ws)
      BY <1>1, <1>2, <3>1, <3>2, <1>8 DEF InLine
    <3>4. CASE j \in DOMAIN ws
      <4>1. b \in InLine(ws)
        BY <1>1, <1>2, <3>1, <3>4, <1>8 DEF InLine
      <4>2. Ordered(ws, a, b)
        BY <1>1, <1>2, <3>1, <3>2, <3>4 DEF Ordered
      <4> QED BY <3>3, <4>1, <4>2
    <3>5. CASE j = n + 1
      BY <1>2, <3>1, <3>3, <3>5
    <3> QED BY <1>4, <3>4, <3>5
  <2>2. ASSUME Ordered(ws, a, b) PROVE Ordered(r, a, b)
    BY <1>1, <1>2, <1>5, <2>2 DEF Ordered
  <2>3. ASSUME a \in InLine(ws), b = x.owner PROVE Ordered(r, a, b)
    <3>1. PICK i \in DOMAIN ws : ws[i].owner = a
      BY <2>3 DEF InLine
    <3> QED BY <1>1, <1>2, <1>5, <2>3, <3>1 DEF Ordered
  <2> QED BY <2>1, <2>2, <2>3
<1>9. \A a, b : <<a, b>> \in CameBefore(r)
                  <=> <<a, b>> \in CameBefore(ws) \cup (InLine(ws) \X {x.owner})
  <2> SUFFICES ASSUME NEW a, NEW b
               PROVE  <<a, b>> \in CameBefore(r)
                        <=> <<a, b>> \in CameBefore(ws) \/ (a \in InLine(ws) /\ b = x.owner)
    OBVIOUS
  <2> QED BY <1>6, <1>8, CameBeforeIs
<1>10. CameBefore(r) = CameBefore(ws) \cup (InLine(ws) \X {x.owner})
  <2>1. \A p \in CameBefore(r) : p = <<p[1], p[2]>>
    BY DEF CameBefore
  <2>2. \A p \in CameBefore(ws) \cup (InLine(ws) \X {x.owner}) : p = <<p[1], p[2]>>
    BY DEF CameBefore
  <2> QED BY <1>9, <2>1, <2>2
<1> QED BY <1>6, <1>10 DEF r

\* In line r is who is in line ws, in the same order, but for u.
Left(ws, r, u) ==
  /\ InLine(r) = InLine(ws) \ {u}
  /\ CameBefore(r) = {p \in CameBefore(ws) : u \notin {p[1], p[2]}}

\* It is enough that the pairs of others are ordered as they were.
LEMMA LeftIs ==
  ASSUME NEW ws, NEW r, NEW u,
         InLine(r) = InLine(ws) \ {u},
         \A a, b \in InLine(r) : Ordered(r, a, b) <=> Ordered(ws, a, b)
  PROVE  Left(ws, r, u)
<1> DEFINE rest == {p \in CameBefore(ws) : u \notin {p[1], p[2]}}
<1>1. \A a, b : <<a, b>> \in CameBefore(r) <=> <<a, b>> \in rest
  BY CameBeforeIs
<1>2. \A p \in CameBefore(r) : p = <<p[1], p[2]>>
  BY DEF CameBefore
<1>3. \A p \in rest : p = <<p[1], p[2]>>
  BY DEF CameBefore
<1> HIDE DEF rest
<1>4. CameBefore(r) = rest
  BY <1>1, <1>2, <1>3
<1> QED BY <1>4 DEF Left, rest

\* Nobody leaves the line when an abandoned waiter is popped.
LEMMA NobodyLeft ==
  ASSUME NEW ws, NEW r, Left(ws, r, NoTask)
  PROVE  InLine(r) = InLine(ws) /\ CameBefore(r) = CameBefore(ws)
<1>1. NoTask \notin InLine(ws)
  BY DEF InLine
<1>2. \A p \in CameBefore(ws) : NoTask \notin {p[1], p[2]}
  BY <1>1 DEF CameBefore
<1> QED BY <1>1, <1>2 DEF Left

\* What is popped leaves the line.
LEMMA LineAfterPop ==
  ASSUME NEW ws \in Seq(Waiter), LineOK(ws), NEW i \in 1..Len(ws)
  PROVE  Left(ws, RemoveAt(ws, i), ws[i].owner)
<1> DEFINE n == Len(ws)
           r == RemoveAt(ws, i)
           u == ws[i].owner
           from(j) == IF j < i THEN j ELSE j + 1
           to(k) == IF k < i THEN k ELSE k - 1
<1>1. n \in Nat /\ DOMAIN ws = 1..n /\ i \in 1..n
  BY LenProperties
<1>2. /\ DOMAIN r = 1..(n - 1)
      /\ \A j \in 1..(n - 1) : r[j] = IF j < i THEN ws[j] ELSE ws[j + 1]
  BY <1>1, RemoveAtProperties, LenProperties
<1> HIDE DEF r, n
<1>3. \A j \in DOMAIN r : from(j) \in DOMAIN ws \ {i} /\ r[j] = ws[from(j)]
  BY <1>1, <1>2
<1>4. \A k \in DOMAIN ws \ {i} : to(k) \in DOMAIN r /\ r[to(k)] = ws[k]
  <2> SUFFICES ASSUME NEW k \in DOMAIN ws \ {i}
               PROVE  to(k) \in DOMAIN r /\ r[to(k)] = ws[k]
    OBVIOUS
  <2>1. CASE k < i
    BY <1>1, <1>2, <2>1
  <2>2. CASE k > i
    <3>1. k - 1 \in 1..(n - 1) /\ ~(k - 1 < i) /\ (k - 1) + 1 = k
      BY <1>1, <2>2
    <3> QED BY <1>2, <2>2, <3>1
  <2> QED BY <1>1, <2>1, <2>2
<1>5. \A j, k \in DOMAIN r : j < k => from(j) < from(k)
  BY <1>1, <1>2
<1>6. \A j, k \in DOMAIN ws \ {i} : j < k => to(j) < to(k)
  BY <1>1
<1> HIDE DEF from, to
<1>7. \A k \in DOMAIN ws : ws[k].owner = u => k = i \/ u = NoTask
  BY <1>1 DEF LineOK
<1>8. \A k \in DOMAIN ws : ws[k].owner # u => k # i
  OBVIOUS
<1> HIDE DEF u
<1>9. InLine(r) = InLine(ws) \ {u}
  <2>1. \A a \in InLine(r) : a \in InLine(ws) \ {u}
    BY <1>3, <1>7 DEF InLine
  <2>2. \A a \in InLine(ws) \ {u} : a \in InLine(r)
    BY <1>4, <1>8 DEF InLine
  <2> QED BY <2>1, <2>2
<1>10. ASSUME NEW a \in InLine(r), NEW b \in InLine(r)
       PROVE  Ordered(r, a, b) <=> Ordered(ws, a, b)
  <2>1. ASSUME Ordered(r, a, b) PROVE Ordered(ws, a, b)
    BY <1>3, <1>5, <2>1 DEF Ordered
  <2>2. ASSUME Ordered(ws, a, b) PROVE Ordered(r, a, b)
    <3>1. PICK j \in DOMAIN ws, k \in DOMAIN ws : j < k /\ ws[j].owner = a /\ ws[k].owner = b
      BY <2>2 DEF Ordered
    <3>2. j # i /\ k # i
      BY <1>8, <1>9, <1>10, <3>1
    <3>3. to(j) \in DOMAIN r /\ to(k) \in DOMAIN r /\ to(j) < to(k)
      BY <1>4, <1>6, <3>1, <3>2
    <3>4. r[to(j)].owner = a /\ r[to(k)].owner = b
      BY <1>4, <3>1, <3>2
    <3> QED BY <3>3, <3>4 DEF Ordered
  <2> QED BY <2>1, <2>2
<1>11. Left(ws, r, u)
  BY <1>9, <1>10, LeftIs
<1> QED BY <1>11 DEF r, u

\* A task whose waiter becomes nobody's leaves the line.
LEMMA LineAfterAbandon ==
  ASSUME NEW ws, NEW r, NEW t \in Tasks, DOMAIN r = DOMAIN ws,
         \A i \in DOMAIN ws :
           r[i].owner = IF ws[i].owner = t THEN NoTask ELSE ws[i].owner
  PROVE  Left(ws, r, t)
<1>1. InLine(r) = InLine(ws) \ {t}
  BY DEF InLine
<1>2. t \notin InLine(r) /\ NoTask \notin InLine(r)
  BY <1>1 DEF InLine
<1>3. ASSUME NEW a \in InLine(r), NEW b \in InLine(r)
      PROVE  Ordered(r, a, b) <=> Ordered(ws, a, b)
  BY <1>2, <1>3 DEF Ordered
<1> QED BY <1>1, <1>3, LeftIs

\* The heap's head, if it is anybody's, is the first of the line.
LEMMA HeadIsFirst ==
  ASSUME NEW ws \in Seq(Waiter), LineOK(ws), NEW i \in 1..Len(ws),
         IsHead(ws, i), ws[i].owner # NoTask
  PROVE  Contract!First(InLine(ws), CameBefore(ws), ws[i].owner)
<1>1. DOMAIN ws = 1..Len(ws) /\ Len(ws) \in Nat
  BY LenProperties
<1> SUFFICES ASSUME NEW u \in InLine(ws) \ {ws[i].owner}
             PROVE  \/ Priority[ws[i].owner] < Priority[u]
                    \/ /\ Priority[ws[i].owner] = Priority[u]
                       /\ <<ws[i].owner, u>> \in CameBefore(ws)
  BY DEF Contract!First
<1>2. PICK j \in DOMAIN ws : ws[j].owner = u
  BY DEF InLine
<1>3. u # NoTask /\ i \in DOMAIN ws /\ j # i
  BY <1>1, <1>2 DEF InLine
<1>4. /\ ws[i].priority = Priority[ws[i].owner]
      /\ ws[j].priority = Priority[u]
  BY <1>2, <1>3 DEF LineOK
<1>5. CASE ws[i].priority < ws[j].priority
  BY <1>4, <1>5
<1>6. CASE ws[i].priority = ws[j].priority /\ i <= j
  <2>1. i < j
    BY <1>1, <1>2, <1>3, <1>6
  <2>2. Ordered(ws, ws[i].owner, u)
    BY <1>2, <1>3, <2>1 DEF Ordered
  <2>3. ws[i].owner \in InLine(ws)
    BY <1>3 DEF InLine
  <2>4. <<ws[i].owner, u>> \in CameBefore(ws)
    BY <2>2, <2>3, CameBeforeIs
  <2> QED BY <1>4, <1>6, <2>4
<1> QED BY <1>2, <1>5, <1>6 DEF IsHead

\* _wake_next_locked on heap ws leaves the line alone, or takes its first task, whose
\* the lease then is.
LEMMA WakeServes ==
  ASSUME NEW ws \in Seq(Waiter), LineOK(ws), NEW h \in BOOLEAN, NEW w \in WakeNext(ws, h),
         waiters' = w.waiters, barrier' = barrier
  PROVE  \/ /\ w.chosen = {}
            /\ InLine(waiters') = InLine(ws) /\ CameBefore(waiters') = CameBefore(ws)
         \/ /\ ~h
            /\ \E u \in Tasks :
                 /\ w.chosen = {u}
                 /\ Owner' = u => Contract!Serve(InLine(ws), CameBefore(ws))
<1>1. CASE w.waiters = ws /\ w.held = h /\ w.chosen = {}
  BY <1>1
<1>2. CASE /\ ~h
           /\ w.held = TRUE
           /\ \E i \in 1..Len(ws) :
                /\ IsHead(ws, i)
                /\ ~(barrier /\ ws[i].priority >= Background)
                /\ w.waiters = RemoveAt(ws, i)
                /\ w.chosen = {ws[i].owner} \ {NoTask}
  <2>1. PICK i \in 1..Len(ws) :
          /\ IsHead(ws, i)
          /\ ~(barrier /\ ws[i].priority >= Background)
          /\ waiters' = RemoveAt(ws, i)
          /\ w.chosen = {ws[i].owner} \ {NoTask}
    BY <1>2
  <2>2. /\ DOMAIN ws = 1..Len(ws) /\ ws[i] \in Waiter
    BY LenProperties, ElementOfSeq
  <2>3. Left(ws, waiters', ws[i].owner)
    BY <2>1, LineAfterPop
  <2>4. CASE ws[i].owner = NoTask
    BY <2>1, <2>3, <2>4, NobodyLeft
  <2>5. CASE ws[i].owner # NoTask
    <3>1. ws[i].owner \in Tasks /\ w.chosen = {ws[i].owner}
      BY <2>1, <2>2, <2>5 DEF Waiter
    <3>2. Contract!First(InLine(ws), CameBefore(ws), ws[i].owner)
      BY <2>1, <2>5, HeadIsFirst
    <3>3. ws[i].owner \in InLine(ws)
      BY <2>2, <2>5 DEF InLine
    <3>4. barrier => Priority[ws[i].owner] < Background
      BY <2>1, <2>2, <2>5, <3>1, LeaseAssumption DEF LineOK
    <3>5. /\ InLine(waiters') = InLine(ws) \ {ws[i].owner}
          /\ CameBefore(waiters') = {p \in CameBefore(ws) : ws[i].owner \notin {p[1], p[2]}}
      BY <2>3 DEF Left
    <3>6. Owner' = ws[i].owner => Contract!Serve(InLine(ws), CameBefore(ws))
      BY <3>2, <3>3, <3>4, <3>5 DEF Contract!Serve, Contract!Leave
    <3> QED BY <1>2, <3>1, <3>6
  <2> QED BY <2>4, <2>5
<1> QED BY <1>1, <1>2, WakeNextOutcome

\* Going on in acquire: the lease is used by nobody, or the first in line gets it.
LEMMA ContendServes ==
  ASSUME LeaseInv, NEW t \in Tasks, NEW ws \in Seq(Waiter), LineOK(ws),
         pc[t] \in {"running", "barred", "waiting"},
         Contend(t, ws), barrier' = barrier
  PROVE  \/ /\ InLine(waiters') = InLine(ws) /\ CameBefore(waiters') = CameBefore(ws)
            /\ Owner' = Owner
         \/ Owner = NoTask /\ Contract!Serve(InLine(ws), CameBefore(ws))
<1>1. TypeOK /\ held \in BOOLEAN
  BY DEF LeaseInv, TypeOK
<1>2. PICK w \in WakeNext(ws, held) :
        /\ waiters' = w.waiters
        /\ IF t \in ready \cup w.chosen
           THEN /\ pc' = [pc EXCEPT ![t] = "holding"]
                /\ ready' = (ready \cup w.chosen) \ {t}
           ELSE /\ pc' = [pc EXCEPT ![t] = "waiting"]
                /\ ready' = ready \cup w.chosen
  BY DEF Contend
<1>3. Owners' = Owners \cup w.chosen
  <2>1. t \notin Holding
    BY DEF Holding
  <2>2. CASE t \in ready \cup w.chosen
    <3>1. Holding' = Holding \cup {t}
      BY <1>1, <1>2, <2>2 DEF Holding, TypeOK
    <3> QED BY <1>2, <2>2, <3>1 DEF Owners
  <2>3. CASE t \notin ready \cup w.chosen
    <3>1. Holding' = Holding
      BY <1>1, <1>2, <2>1, <2>3 DEF Holding, TypeOK
    <3> QED BY <1>2, <2>3, <3>1 DEF Owners
  <2> QED BY <2>2, <2>3
<1>4. CASE /\ w.chosen = {}
           /\ InLine(waiters') = InLine(ws) /\ CameBefore(waiters') = CameBefore(ws)
  BY <1>3, <1>4 DEF Owner
<1>5. CASE /\ ~held
           /\ \E u \in Tasks :
                /\ w.chosen = {u}
                /\ Owner' = u => Contract!Serve(InLine(ws), CameBefore(ws))
  <2>1. PICK u \in Tasks :
          w.chosen = {u} /\ (Owner' = u => Contract!Serve(InLine(ws), CameBefore(ws)))
    BY <1>5
  <2>2. Owners = {}
    BY <1>5 DEF LeaseInv
  <2>3. Owner = NoTask
    BY <2>2 DEF Owner
  <2>4. Owners' = {u}
    BY <1>3, <2>1, <2>2
  <2>5. Owner' = u
    BY <2>4 DEF Owner
  <2> QED BY <2>1, <2>3, <2>5
<1> QED BY <1>1, <1>2, <1>4, <1>5, WakeServes

\* The finally block: the lease is given back, to the first in line or to nobody.
LEMMA LetGoReturns ==
  ASSUME LeaseInv, NEW t \in Tasks, pc[t] = "holding", LetGo,
         NEW where \in {"running", "tail", "dead"},
         pc' = [pc EXCEPT ![t] = where], barrier' = barrier
  PROVE  Contract!Return
<1>1. TypeOK /\ waiters \in Seq(Waiter) /\ LineOK(waiters)
  BY DEF LeaseInv, TypeOK, HeapOK, LineOK
<1>2. PICK w \in WakeNext(waiters, FALSE) :
        waiters' = w.waiters /\ ready' = ready \cup w.chosen
  BY DEF LetGo
<1>3. Owners = {t} /\ ready = {}
  <2>1. t \in Owners /\ t \notin ready
    BY DEF LeaseInv, Owners, Holding, Suspended
  <2> QED BY <2>1 DEF LeaseInv, MutualExclusion, Owners
<1>4. Owners' = w.chosen
  <2>1. Holding' = {}
    BY <1>1, <1>3 DEF Owners, Holding, TypeOK
  <2> QED BY <1>2, <1>3, <2>1 DEF Owners
<1>5. Owner = t /\ t # NoTask
  BY <1>3, LeaseAssumption DEF Owner
<1>6. CASE /\ w.chosen = {}
           /\ InLine(waiters') = InLine(waiters) /\ CameBefore(waiters') = CameBefore(waiters)
  <2>1. Owner' = NoTask
    BY <1>4, <1>6 DEF Owner
  <2> QED BY <1>5, <1>6, <2>1 DEF Contract!Return
<1>7. CASE \E u \in Tasks :
             /\ w.chosen = {u}
             /\ Owner' = u => Contract!Serve(InLine(waiters), CameBefore(waiters))
  <2>1. PICK u \in Tasks :
          w.chosen = {u} /\ (Owner' = u => Contract!Serve(InLine(waiters), CameBefore(waiters)))
    BY <1>7
  <2>2. Owner' = u
    BY <1>4, <2>1 DEF Owner
  <2> QED BY <1>5, <2>1, <2>2 DEF Contract!Return
<1>8. FALSE \in BOOLEAN
  OBVIOUS
<1> QED BY <1>1, <1>2, <1>6, <1>7, <1>8, WakeServes

\* Every step is one of the contract, or none.
Kept == [Contract!Next]_(Contract!vars)

LEMMA Unused ==
  ASSUME UNCHANGED <<pc, waiters, ready, barrier>>
  PROVE  UNCHANGED Contract!vars
BY DEF Contract!vars, Owner, Owners, Holding

LEMMA AcquireKept ==
  ASSUME LeaseInv, NEW t \in Tasks, Acquire(t)
  PROVE  Contract!Request(t)
<1> DEFINE mine == [owner |-> t, priority |-> Priority[t]]
           ws == Append(waiters, mine)
<1>1. /\ waiters \in Seq(Waiter) /\ LineOK(waiters) /\ pc[t] = "running"
      /\ pc \in [Tasks -> PCs] /\ barrier' = barrier /\ t # NoTask
  BY LeaseAssumption DEF LeaseInv, TypeOK, HeapOK, LineOK, Acquire
<1>2. \A i \in DOMAIN waiters : waiters[i].owner # t
  BY <1>1 DEF LeaseInv, HeapOK
<1>3. t \notin InLine(waiters)
  BY <1>2 DEF InLine
<1>4. t \notin Owners /\ t # Owner
  <2>1. t \notin Owners
    BY <1>1 DEF LeaseInv, Owners, Holding, Suspended
  <2> QED BY <1>1, <2>1 DEF Owner
<1>5. mine \in Waiter /\ mine.owner = t /\ mine.priority = Priority[t]
  BY LeaseAssumption DEF Waiter
<1> HIDE DEF mine
<1>6. /\ InLine(ws) = InLine(waiters) \cup {t}
      /\ CameBefore(ws) = CameBefore(waiters) \cup (InLine(waiters) \X {t})
  BY <1>1, <1>3, <1>5, LineAfterArrival
<1>7. ws \in Seq(Waiter) /\ LineOK(ws)
  <2>1. /\ ws \in Seq(Waiter) /\ Len(ws) = Len(waiters) + 1
        /\ \A i \in 1..Len(waiters) : ws[i] = waiters[i]
        /\ ws[Len(waiters) + 1] = mine
    BY <1>1, <1>5, AppendProperties
  <2>2. /\ Len(waiters) \in Nat /\ DOMAIN waiters = 1..Len(waiters)
        /\ DOMAIN ws = 1..(Len(waiters) + 1)
    BY <1>1, <2>1, LenProperties
  <2> HIDE DEF ws
  <2> QED BY <1>1, <1>2, <1>5, <2>1, <2>2 DEF LineOK
<1>8. CASE Barred(Priority[t])
  <2>1. /\ pc' = [pc EXCEPT ![t] = "barred"] /\ waiters' = ws /\ ready' = ready
    BY <1>8 DEF Acquire, mine
  <2>2. Holding' = Holding
    BY <1>1, <2>1 DEF Holding
  <2>3. Owner' = Owner
    BY <2>1, <2>2 DEF Owner, Owners
  <2> QED BY <1>1, <1>3, <1>4, <1>6, <2>1, <2>3 DEF Contract!Request
<1>9. CASE ~Barred(Priority[t])
  <2>1. Contend(t, ws)
    BY <1>9 DEF Acquire, mine
  <2> HIDE DEF ws
  <2>2. \/ /\ InLine(waiters') = InLine(ws) /\ CameBefore(waiters') = CameBefore(ws)
           /\ Owner' = Owner
        \/ Owner = NoTask /\ Contract!Serve(InLine(ws), CameBefore(ws))
    BY <1>1, <1>7, <2>1, ContendServes
  <2> QED BY <1>1, <1>3, <1>4, <1>6, <2>2 DEF Contract!Request
<1> QED BY <1>8, <1>9

LEMMA ResumeKept ==
  ASSUME LeaseInv, NEW t \in Tasks, Resume(t)
  PROVE  Contract!Grant \/ UNCHANGED Contract!vars
<1>1. CASE pc[t] = "barred" /\ barrier
  BY <1>1, Unused DEF Resume
<1>2. CASE ~(pc[t] = "barred" /\ barrier)
  <2>1. Contend(t, waiters) /\ barrier' = barrier
    BY <1>2 DEF Resume
  <2>2. /\ waiters \in Seq(Waiter) /\ LineOK(waiters)
        /\ pc[t] \in {"running", "barred", "waiting"}
    BY DEF LeaseInv, TypeOK, HeapOK, LineOK, Resume, Suspended
  <2>3. \/ /\ InLine(waiters') = InLine(waiters) /\ CameBefore(waiters') = CameBefore(waiters)
           /\ Owner' = Owner
        \/ Owner = NoTask /\ Contract!Serve(InLine(waiters), CameBefore(waiters))
    BY <2>1, <2>2, ContendServes
  <2> QED BY <2>1, <2>3 DEF Contract!Grant, Contract!vars
<1> QED BY <1>1, <1>2

\* A cancelled task that did not hold had the lease promised to it, or was in line, or
\* neither.
LEMMA AbandonKept ==
  ASSUME LeaseInv, NEW t \in Tasks, Cancelled(t), pc[t] # "holding"
  PROVE  Contract!Return \/ Contract!Withdraw(t) \/ UNCHANGED Contract!vars
<1>1. /\ DOMAIN waiters' = DOMAIN waiters
      /\ \A i \in DOMAIN waiters :
           waiters'[i].owner = IF waiters[i].owner = t THEN NoTask ELSE waiters[i].owner
  <2>1. \A i \in DOMAIN waiters : waiters[i] \in Waiter
    BY LenProperties, ElementOfSeq DEF LeaseInv, TypeOK
  <2>2. waiters' = [i \in DOMAIN waiters |->
                      IF waiters[i].owner = t
                      THEN [waiters[i] EXCEPT !.owner = NoTask] ELSE waiters[i]]
    BY DEF Cancelled
  <2> QED BY <2>1, <2>2 DEF Waiter
<1>2. Left(waiters, waiters', t)
  BY <1>1, LineAfterAbandon
<1>3. /\ ready' = ready \ {t} /\ barrier' = barrier
      /\ Holding' = Holding
  BY DEF Cancelled, Holding, LeaseInv, TypeOK
<1>4. Owners' = Owners \ {t} /\ (t \in Owners => t \in ready)
  BY <1>3 DEF Owners, Holding
<1>5. t \in InLine(waiters) => t \notin Owners
  BY <1>4 DEF LeaseInv, HeapOK, InLine
<1>6. CASE t \in Owners
  <2>1. Owners = {t} /\ t # NoTask
    BY <1>6, LeaseAssumption DEF LeaseInv, MutualExclusion
  <2>2. Owner = t /\ Owner' = NoTask
    BY <1>4, <2>1 DEF Owner
  <2>3. /\ InLine(waiters') = InLine(waiters)
        /\ CameBefore(waiters') = CameBefore(waiters)
    <3>1. t \notin InLine(waiters)
      BY <1>5, <1>6
    <3>2. \A p \in CameBefore(waiters) : t \notin {p[1], p[2]}
      BY <3>1 DEF CameBefore
    <3> QED BY <1>2, <3>1, <3>2 DEF Left
  <2> QED BY <1>3, <2>1, <2>2, <2>3 DEF Contract!Return
<1>7. CASE t \notin Owners
  <2>1. Owner' = Owner
    <3>1. Owners' = Owners
      BY <1>4, <1>7
    <3> QED BY <3>1 DEF Owner
  <2>2. CASE t \in InLine(waiters)
    BY <1>2, <1>3, <2>1, <2>2 DEF Left, Contract!Withdraw, Contract!Leave
  <2>3. CASE t \notin InLine(waiters)
    <3>1. \A p \in CameBefore(waiters) : t \notin {p[1], p[2]}
      BY <2>3 DEF CameBefore
    <3>2. /\ InLine(waiters') = InLine(waiters)
          /\ CameBefore(waiters') = CameBefore(waiters)
      BY <1>2, <2>3, <3>1 DEF Left
    <3> QED BY <1>3, <2>1, <3>2 DEF Contract!vars
  <2> QED BY <2>2, <2>3
<1> QED BY <1>6, <1>7

LEMMA CancelledKept ==
  ASSUME LeaseInv, NEW t \in Tasks, Cancelled(t)
  PROVE  Contract!Return \/ Contract!Withdraw(t) \/ UNCHANGED Contract!vars
<1>1. CASE pc[t] = "holding"
  <2>1. /\ LetGo /\ barrier' = barrier
        /\ pc' = [pc EXCEPT ![t] = IF t \in Loops THEN "dead" ELSE "running"]
    BY <1>1 DEF Cancelled
  <2>2. (IF t \in Loops THEN "dead" ELSE "running") \in {"running", "tail", "dead"}
    OBVIOUS
  <2> QED BY <1>1, <2>1, <2>2, LetGoReturns
<1>2. CASE pc[t] # "holding"
  BY <1>2, AbandonKept
<1> QED BY <1>1, <1>2

\* The lease does what LeaseContract promises: for any tasks, priorities and
\* cancellations, and whoever wakes first, the owner changes only when the lease goes
\* to the first in line, is given back or its owner is cancelled
\* (resource_lease.py:42-137).
THEOREM ContractKept == Spec => ImplementsContract
<1>1. Init => Contract!Init
  <2> SUFFICES ASSUME Init PROVE Contract!Init
    OBVIOUS
  <2>1. waiters = <<>> /\ DOMAIN waiters = {} /\ barrier = FALSE
    BY EmptySeq DEF Init
  <2>2. Owners = {}
    BY DEF Init, Owners, Holding
  <2>3. InLine(waiters) = {}
    BY <2>1 DEF InLine
  <2>4. CameBefore(waiters) = {}
    BY <2>3 DEF CameBefore
  <2>5. Owner = NoTask
    BY <2>2 DEF Owner
  <2> QED BY <2>1, <2>3, <2>4, <2>5 DEF Contract!Init
<1>2. LeaseInv /\ [Next]_vars => Kept
  <2> SUFFICES ASSUME LeaseInv, [Next]_vars PROVE Kept
    OBVIOUS
  <2> USE DEF Kept, Contract!Next
  <2>1. ASSUME NEW t \in Tasks, Acquire(t) PROVE Kept
    BY <2>1, AcquireKept
  <2>2. ASSUME NEW t \in Tasks, Resume(t) PROVE Kept
    BY <2>2, ResumeKept
  <2>3. ASSUME NEW t \in Tasks, Release(t) PROVE Kept
    <3>1. /\ pc[t] = "holding" /\ LetGo /\ barrier' = barrier
          /\ pc' = [pc EXCEPT ![t] = IF t \in Loops THEN "running" ELSE "tail"]
      BY <2>3 DEF Release
    <3>2. (IF t \in Loops THEN "running" ELSE "tail") \in {"running", "tail", "dead"}
      OBVIOUS
    <3>3. Contract!Return
      BY <3>1, <3>2, LetGoReturns
    <3> QED BY <3>3
  <2>4. ASSUME NEW t \in Tasks, Finish(t) PROVE Kept
    <3>1. /\ pc[t] = "tail" /\ pc' = [pc EXCEPT ![t] = "running"]
          /\ UNCHANGED <<waiters, ready, barrier>>
      BY <2>4 DEF Finish
    <3>2. Holding' = Holding
      BY <3>1 DEF Holding, LeaseInv, TypeOK
    <3>3. Owner' = Owner
      BY <3>1, <3>2 DEF Owner, Owners
    <3> QED BY <3>1, <3>3 DEF Contract!vars
  <2>5. ASSUME NEW t \in Tasks, Cancelled(t) PROVE Kept
    BY <2>5, CancelledKept
  <2>6. ASSUME NEW active \in BOOLEAN, SetBarrier(active) PROVE Kept
    <3>1. barrier' = active /\ UNCHANGED <<pc, waiters, ready>>
      BY <2>6 DEF SetBarrier
    <3>2. Owner' = Owner
      BY <3>1 DEF Owner, Owners, Holding
    <3>3. Contract!Close(active)
      BY <3>1, <3>2 DEF Contract!Close
    <3> QED BY <3>3
  <2>7. CASE UNCHANGED vars
    BY <2>7, Unused DEF vars
  <2> QED
    BY <2>1, <2>2, <2>3, <2>4, <2>5, <2>6, <2>7 DEF Next, GraceCancel, Cancel
<1> QED
  BY <1>1, <1>2, LeaseInvariant, PTL
  DEF Spec, Kept, ImplementsContract, Contract!Spec

-----------------------------------------------------------------------------
\* _wake_next_locked on a heap without abandoned waiters reserves the lease for somebody.
LEMMA WokenLive ==
  ASSUME NEW ws \in Seq(Waiter), NEW h \in BOOLEAN, NEW w \in WakeNext(ws, h), AllLive(ws)
  PROVE  /\ AllLive(w.waiters) /\ w.chosen \subseteq Tasks
         /\ w.held => h \/ w.chosen # {}
<1>1. CASE w.waiters = ws /\ w.held = h /\ w.chosen = {}
  BY <1>1
<1>2. CASE \E i \in 1..Len(ws) : w.waiters = RemoveAt(ws, i) /\ w.chosen = {ws[i].owner} \ {NoTask}
  <2>1. PICK i \in 1..Len(ws) : w.waiters = RemoveAt(ws, i) /\ w.chosen = {ws[i].owner} \ {NoTask}
    BY <1>2
  <2>2. /\ Len(ws) \in Nat /\ DOMAIN ws = 1..Len(ws)
        /\ \A j \in 1..Len(ws) : ws[j] \in Waiter
    BY LenProperties, ElementOfSeq
  <2>3. ws[i].owner \in Tasks \cup {NoTask} /\ ws[i].owner # NoTask
    BY <2>2 DEF AllLive, Waiter
  <2>4. /\ w.waiters \in Seq(Waiter) /\ Len(w.waiters) = Len(ws) - 1
        /\ \A j \in 1..(Len(ws) - 1) :
             w.waiters[j] = IF j < i THEN ws[j] ELSE ws[j + 1]
    BY <2>1, RemoveAtProperties
  <2>5. DOMAIN w.waiters = 1..(Len(ws) - 1)
    BY <2>4, LenProperties
  <2>6. \A j \in 1..(Len(ws) - 1) : \E m \in 1..Len(ws) : w.waiters[j] = ws[m]
    <3> SUFFICES ASSUME NEW j \in 1..(Len(ws) - 1) PROVE \E m \in 1..Len(ws) : w.waiters[j] = ws[m]
      OBVIOUS
    <3>1. w.waiters[j] = ws[j] \/ w.waiters[j] = ws[j + 1]
      BY <2>4
    <3>2. j \in 1..Len(ws) /\ j + 1 \in 1..Len(ws)
      BY <2>2
    <3> QED BY <3>1, <3>2
  <2>7. AllLive(w.waiters)
    BY <2>2, <2>5, <2>6 DEF AllLive
  <2> QED BY <2>1, <2>3, <2>7
<1> QED BY <1>1, <1>2, WakeNextOutcome

\* A task contends for the lease over the heap ws.
LEMMA ContendKeepsIt ==
  ASSUME LeaseInv, Sound, NEW t \in Tasks, NEW ws \in Seq(Waiter), AllLive(ws),
         pc[t] \in {"running", "barred", "waiting"}, Contend(t, ws)
  PROVE  Sound'
<1>1. PICK w \in WakeNext(ws, held) :
        /\ waiters' = w.waiters
        /\ \/ /\ t \in ready \cup w.chosen
              /\ pc' = [pc EXCEPT ![t] = "holding"]
           \/ /\ t \notin ready \cup w.chosen
              /\ pc' = [pc EXCEPT ![t] = "waiting"]
              /\ held' = w.held /\ ready' = ready \cup w.chosen
  BY DEF Contend
<1>2. pc \in [Tasks -> PCs] /\ held \in BOOLEAN /\ ready \subseteq Tasks
  BY DEF LeaseInv, TypeOK
<1>3. AllLive(w.waiters) /\ w.chosen \subseteq Tasks /\ (w.held => held \/ w.chosen # {})
  BY <1>2, WokenLive
<1>4. CASE pc' = [pc EXCEPT ![t] = "holding"]
  <2>1. t \in Owners'
    BY <1>2, <1>4 DEF Owners, Holding
  <2> QED BY <1>1, <1>2, <1>3, <1>4, <2>1 DEF Sound, NoLeakedLease
<1>5. CASE /\ t \notin ready \cup w.chosen /\ pc' = [pc EXCEPT ![t] = "waiting"]
           /\ held' = w.held /\ ready' = ready \cup w.chosen
  <2>1. Owners \cup w.chosen \subseteq Owners'
    BY <1>2, <1>3, <1>5 DEF Owners, Holding
  <2> QED BY <1>1, <1>2, <1>3, <1>5, <2>1 DEF Sound, NoLeakedLease
<1> QED BY <1>1, <1>4, <1>5

\* The lease is let go of.
LEMMA LetGoKeepsIt ==
  ASSUME LeaseInv, Sound, LetGo
  PROVE  Sound'
<1>1. waiters \in Seq(Waiter) /\ AllLive(waiters) /\ FALSE \in BOOLEAN
  BY DEF LeaseInv, TypeOK, Sound
<1>2. PICK w \in WakeNext(waiters, FALSE) :
        waiters' = w.waiters /\ held' = w.held /\ ready' = ready \cup w.chosen
  BY DEF LetGo
<1>3. AllLive(w.waiters) /\ (w.held => w.chosen # {})
  BY <1>1, <1>2, WokenLive
<1> QED BY <1>2, <1>3 DEF Sound, NoLeakedLease, Owners

\* Every step but the cancellation of a task in line keeps it sound.
LEMMA SoundStep ==
  ASSUME LeaseInv, Sound, [Next]_vars, ~\E t \in Tasks : Suspended(t) /\ Cancelled(t)
  PROVE  Sound'
<1>0. /\ pc \in [Tasks -> PCs] /\ waiters \in Seq(Waiter) /\ ready \subseteq Tasks
      /\ NoLeakedLease /\ AllLive(waiters)
  BY DEF LeaseInv, TypeOK, Sound
<1>1. ASSUME NEW t \in Tasks, Acquire(t) PROVE Sound'
  <2> DEFINE mine == [owner |-> t, priority |-> Priority[t]]
             ws == Append(waiters, mine)
  <2>1. mine \in Waiter /\ t # NoTask /\ pc[t] = "running"
    BY <1>1, LeaseAssumption DEF Waiter, Acquire
  <2>2. ws \in Seq(Waiter) /\ AllLive(ws)
    <3>1. /\ ws \in Seq(Waiter) /\ DOMAIN ws = 1..(Len(waiters) + 1)
          /\ \A i \in 1..Len(waiters) : ws[i] = waiters[i]
          /\ ws[Len(waiters) + 1] = mine /\ DOMAIN waiters = 1..Len(waiters)
          /\ Len(waiters) \in Nat
      BY <1>0, <2>1, AppendProperties, LenProperties
    <3>2. mine.owner # NoTask
      BY <2>1
    <3> HIDE DEF ws, mine
    <3> QED BY <1>0, <3>1, <3>2 DEF AllLive
  <2>3. CASE pc' = [pc EXCEPT ![t] = "barred"] /\ waiters' = ws /\ UNCHANGED <<held, ready>>
    <3>1. Owners' = Owners
      BY <1>0, <2>1, <2>3 DEF Owners, Holding
    <3> QED BY <1>0, <2>2, <2>3, <3>1 DEF Sound, NoLeakedLease
  <2>4. CASE Contend(t, ws)
    BY <2>1, <2>2, <2>4, ContendKeepsIt
  <2> QED BY <1>1, <2>3, <2>4 DEF Acquire
<1>2. ASSUME NEW t \in Tasks, Resume(t) PROVE Sound'
  <2>1. pc[t] \in {"barred", "waiting"}
    BY <1>2 DEF Resume, LeaseInv, Suspended
  <2>2. CASE UNCHANGED <<pc, waiters, held, ready>>
    BY <1>0, <2>2 DEF Sound, NoLeakedLease, Owners, Holding
  <2>3. CASE Contend(t, waiters)
    BY <1>0, <2>1, <2>3, ContendKeepsIt
  <2> QED BY <1>2, <2>2, <2>3 DEF Resume
<1>3. ASSUME NEW t \in Tasks, Release(t) PROVE Sound'
  BY <1>3, LetGoKeepsIt DEF Release
<1>4. ASSUME NEW t \in Tasks, Finish(t) PROVE Sound'
  <2>1. /\ pc[t] = "tail" /\ pc' = [pc EXCEPT ![t] = "running"]
        /\ UNCHANGED <<waiters, held, ready>>
    BY <1>4 DEF Finish
  <2>2. Owners' = Owners
    BY <1>0, <2>1 DEF Owners, Holding
  <2> QED BY <1>0, <2>1, <2>2 DEF Sound, NoLeakedLease
<1>5. ASSUME NEW t \in Tasks, Cancelled(t) PROVE Sound'
  <2>1. CASE pc[t] = "holding"
    BY <1>5, <2>1, LetGoKeepsIt DEF Cancelled
  <2>2. CASE pc[t] # "holding"
    <3>1. ~Suspended(t)
      BY <1>5
    <3>2. t \notin ready /\ \A i \in DOMAIN waiters : waiters[i].owner # t
      BY <1>0, <3>1 DEF LeaseInv, Suspended, HeapOK, AllLive
    <3>3. /\ waiters' = [i \in DOMAIN waiters |->
                           IF waiters[i].owner = t
                           THEN [waiters[i] EXCEPT !.owner = NoTask] ELSE waiters[i]]
          /\ ready' = ready \ {t} /\ held' = held
          /\ pc' = [pc EXCEPT ![t] = pc'[t]] /\ pc'[t] # "holding"
      BY <1>0, <1>5, <2>2 DEF Cancelled
    <3>4. Owners' = Owners
      BY <1>0, <2>2, <3>2, <3>3 DEF Owners, Holding
    <3> QED BY <1>0, <3>2, <3>3, <3>4 DEF Sound, NoLeakedLease, AllLive
  <2> QED BY <2>1, <2>2
<1>6. ASSUME NEW active \in BOOLEAN, SetBarrier(active) PROVE Sound'
  BY <1>0, <1>6 DEF SetBarrier, Sound, NoLeakedLease, Owners, Holding
<1>7. CASE UNCHANGED vars
  BY <1>0, <1>7 DEF vars, Sound, NoLeakedLease, Owners, Holding
<1> QED BY <1>1, <1>2, <1>3, <1>4, <1>5, <1>6, <1>7 DEF Next, GraceCancel, Cancel

\* Whatever is asked for, given back, barred and preempted, in whatever order, `_held` is
\* set for nobody only after a task was cancelled in line, before or after the lease was
\* reserved for it: no other step of acquire, _wake_next_locked or
\* set_foreground_barrier loses a lease, or leaves a waiter that will (resource_lease.py:42-147).
THEOREM OnlyTheCancelledLeak == Spec => OnlyCancellationLeaks
<1>1. LeaseInv /\ [Next]_vars =>
        [Sound /\ ~Sound' => \E t \in Tasks : Suspended(t) /\ Cancelled(t)]_vars
  BY SoundStep
<1> QED BY <1>1, LeaseInvariant, PTL DEF Spec, OnlyCancellationLeaks
============================================================================
