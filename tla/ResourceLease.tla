--------------------------- MODULE ResourceLease ---------------------------
(***************************************************************************)
(* PriorityResourceLease of brain/app/resource_lease.py: one lease, asked  *)
(* for by asyncio tasks through `async with lease.acquire(priority)`.      *)
(*                                                                         *)
(* asyncio switches tasks only where a coroutine really suspends.  The     *)
(* lease's Condition is never locked across a suspension, so every stretch *)
(* of code between two suspensions is one action here: from the call of    *)
(* acquire to its first wait or to the claim, from a wake-up to the next   *)
(* wait or to the claim, the finally block, the body of                    *)
(* set_foreground_barrier.                                                 *)
(*                                                                         *)
(* Abstracted: the timestamps and the log line of a claim, status(), and   *)
(* the holder_cancel callbacks, which set an asyncio.Event of the caller   *)
(* and change nothing of the lease.                                        *)
(***************************************************************************)
EXTENDS Naturals, Sequences, SequencesExt

CONSTANTS
  Tasks,          \* the asyncio tasks that use this lease
  Priority,       \* Priority[t]: the WorkPriority task t asks with; less is more urgent
  Loops,          \* tasks that run on after a release and that nothing starts again;
                  \* the others are one-shot: each request is a task of its own
  Cancellable,    \* tasks that other code may cancel while they use the lease
  UsesBarrier,    \* whether anybody calls set_foreground_barrier on this lease
  Reacquisition,  \* WorkPriority.target_reacquisition
  Background,     \* WorkPriority.background
  MaxWaiters,     \* bound on the length of the waiter heap
  NoTask          \* Python's None; also the owner of an abandoned waiter

ASSUME LeaseAssumption ==
  /\ NoTask \notin Tasks
  /\ Priority \in [Tasks -> Nat]
  /\ Loops \subseteq Tasks
  /\ Cancellable \subseteq Tasks
  /\ UsesBarrier \in BOOLEAN
  /\ Reacquisition \in Nat
  /\ Background \in Nat
  /\ MaxWaiters \in Nat

VARIABLES
  pc,        \* where each task is
  waiters,   \* the heap, as a sequence in order of arrival
  held,      \* _held: claimed, or reserved for the owner of a ready waiter
  holder,    \* _holder_task, which also gives _holder_priority
  ready,     \* tasks whose waiter.ready is set and that have not claimed yet
  notified,  \* tasks whose condition.wait() has been notified and not resumed
  barrier,   \* _foreground_barrier
  doomed     \* tasks a _cancel_after_grace timer is running for

vars == <<pc, waiters, held, holder, ready, notified, barrier, doomed>>

\* "running": alive, outside the lease.  "barred", "waiting": suspended in the
\* barrier loop or in the ready loop of acquire.  "holding": inside the `async
\* with` body.  "tail": a one-shot task after its body.  "dead": a cancelled loop.
PCs == {"running", "barred", "waiting", "holding", "tail", "dead"}
Suspended(t) == pc[t] \in {"barred", "waiting"}

Waiter == [owner : Tasks \cup {NoTask}, priority : Nat]

Init ==
  /\ pc = [t \in Tasks |-> "running"]
  /\ waiters = <<>>
  /\ held = FALSE
  /\ holder = NoTask
  /\ ready = {}
  /\ notified = {}
  /\ barrier = FALSE
  /\ doomed = {}

-----------------------------------------------------------------------------

\* Mutant of IsHead: a heap ordered by arrival only.
IsHeadByArrival(ws, i) == \A j \in DOMAIN ws : i <= j

\* The heap's first element: _Waiter orders by (priority, order of arrival).
IsHead(ws, i) ==
  \A j \in DOMAIN ws :
    \/ ws[i].priority < ws[j].priority
    \/ ws[i].priority = ws[j].priority /\ i <= j

\* Somebody of this priority has to stand back while the barrier is up.
Barred(priority) == barrier /\ priority >= Background

\* Mutant of Pop: the lease is not reserved for the task that is readied.
PopUnreserved(ws, i) ==
  [waiters |-> RemoveAt(ws, i), held |-> FALSE, chosen |-> {ws[i].owner} \ {NoTask}]

\* The heap's first element is popped, the lease reserved, the waiter readied.  A
\* waiter whose task is gone is popped and readied like any other.
Pop(ws, i) ==
  [waiters |-> RemoveAt(ws, i), held |-> TRUE, chosen |-> {ws[i].owner} \ {NoTask}]

\* _wake_next_locked on heap ws: the new heap, the new _held and whom it readied.
WakeNext(ws, isHeld) ==
  LET unchanged == [waiters |-> ws, held |-> isHeld, chosen |-> {}]
  IN  IF isHeld \/ ws = <<>> THEN {unchanged}
      ELSE { IF Barred(ws[i].priority) THEN unchanged ELSE Pop(ws, i) :
               i \in {j \in DOMAIN ws : IsHead(ws, j)} }

\* The end of acquire past the barrier loop: wake the next waiter, then claim if
\* that or an earlier call made this task's waiter ready, else (still) wait.
Contend(t, ws) ==
  \E w \in WakeNext(ws, held) :
    /\ waiters' = w.waiters
    /\ IF t \in ready \cup w.chosen
       THEN /\ pc' = [pc EXCEPT ![t] = "holding"]
            /\ held' = TRUE
            /\ holder' = t
            /\ ready' = (ready \cup w.chosen) \ {t}
       ELSE /\ pc' = [pc EXCEPT ![t] = "waiting"]
            /\ held' = w.held
            /\ holder' = holder
            /\ ready' = ready \cup w.chosen

\* Mutants of LetGo: _held stays set; nobody is notified.
LetGoStillHeld ==
  /\ holder' = NoTask
  /\ notified' = notified \cup {u \in Tasks : Suspended(u)}
  /\ UNCHANGED <<waiters, held, ready>>
LetGoSilently ==
  /\ \E w \in WakeNext(waiters, FALSE) :
       waiters' = w.waiters /\ held' = w.held /\ ready' = ready \cup w.chosen
  /\ holder' = NoTask
  /\ UNCHANGED notified

\* The finally block of acquire: free the lease, hand it on, notify everybody.
LetGo ==
  /\ \E w \in WakeNext(waiters, FALSE) :
       /\ waiters' = w.waiters
       /\ held' = w.held
       /\ ready' = ready \cup w.chosen
  /\ holder' = NoTask
  /\ notified' = notified \cup {u \in Tasks : Suspended(u)}

\* acquire() up to its first suspension.  A claimed holder of lower priority is
\* preempted: its task is cancelled after a grace period if it is at
\* target_reacquisition or below.
Acquire(t) ==
  /\ pc[t] = "running"
  /\ Len(waiters) < MaxWaiters
  /\ LET ws == Append(waiters, [owner |-> t, priority |-> Priority[t]])
     IN  IF Barred(Priority[t])
         THEN /\ pc' = [pc EXCEPT ![t] = "barred"]
              /\ waiters' = ws
              /\ UNCHANGED <<held, holder, ready>>
         ELSE Contend(t, ws)
  /\ doomed' = IF /\ held /\ holder # NoTask
                  /\ Priority[t] < Priority[holder]
                  /\ Priority[holder] >= Reacquisition
               THEN doomed \cup {holder} ELSE doomed
  /\ UNCHANGED <<notified, barrier>>

\* A notified task runs again, in the barrier loop or in the ready loop.
Resume(t) ==
  /\ t \in notified
  /\ notified' = notified \ {t}
  /\ IF pc[t] = "barred" /\ barrier
     THEN UNCHANGED <<pc, waiters, held, holder, ready>>
     ELSE Contend(t, waiters)
  /\ UNCHANGED <<barrier, doomed>>

\* The `async with` body ends, normally or with an exception.
Release(t) ==
  /\ pc[t] = "holding"
  /\ LetGo
  /\ pc' = [pc EXCEPT ![t] = IF t \in Loops THEN "running" ELSE "tail"]
  /\ UNCHANGED <<barrier, doomed>>

\* A one-shot task returns.  Its grace timer, if any, will find it done; the
\* name t stands for the next such task from here on.
Finish(t) ==
  /\ pc[t] = "tail"
  /\ pc' = [pc EXCEPT ![t] = "running"]
  /\ doomed' = doomed \ {t}
  /\ UNCHANGED <<waiters, held, holder, ready, notified, barrier>>

\* Mutant of SetBarrier: the waiters are not notified.
SetBarrierSilently(active) ==
  /\ UsesBarrier
  /\ barrier # active
  /\ barrier' = active
  /\ UNCHANGED <<pc, waiters, held, holder, ready, notified, doomed>>

\* set_foreground_barrier(active)
SetBarrier(active) ==
  /\ UsesBarrier
  /\ barrier # active
  /\ barrier' = active
  /\ doomed' = IF active /\ holder # NoTask /\ Priority[holder] >= Background
               THEN doomed \cup {holder} ELSE doomed
  /\ notified' = notified \cup {u \in Tasks : Suspended(u)}
  /\ UNCHANGED <<pc, waiters, held, holder, ready>>

\* Task t gets a CancelledError where it is.  In the body the finally block
\* runs; in a wait of acquire nothing does, so its waiter stays in the heap, or,
\* when it was ready, the reservation made for it stays.
Cancelled(t) ==
  /\ pc' = [pc EXCEPT ![t] = IF t \in Loops THEN "dead" ELSE "running"]
  /\ doomed' = doomed \ {t}
  /\ IF pc[t] = "holding"
     THEN LetGo
     ELSE /\ waiters' = [i \in DOMAIN waiters |->
                           IF waiters[i].owner = t
                           THEN [waiters[i] EXCEPT !.owner = NoTask] ELSE waiters[i]]
          /\ ready' = ready \ {t}
          /\ notified' = notified \ {t}
          /\ UNCHANGED <<held, holder>>
  /\ UNCHANGED barrier

\* _cancel_after_grace: the timer fires and cancels the task wherever it is.
GraceCancel(t) ==
  /\ t \in doomed
  /\ Cancelled(t)

\* Other code cancels a task that is queued or holds.
Cancel(t) ==
  /\ t \in Cancellable
  /\ Suspended(t) \/ pc[t] = "holding"
  /\ Cancelled(t)

Next ==
  \/ \E t \in Tasks :
       \/ Acquire(t)
       \/ Resume(t)
       \/ Release(t)
       \/ Finish(t)
       \/ GraceCancel(t)
       \/ Cancel(t)
  \/ \E active \in BOOLEAN : SetBarrier(active)

Spec == Init /\ [][Next]_vars

\* The event loop runs every notified task and every timer; a body ends because
\* what it awaits has a deadline (the model request, the firmware ack).
Fairness ==
  \A t \in Tasks :
    /\ WF_vars(Resume(t))
    /\ WF_vars(Release(t))
    /\ WF_vars(GraceCancel(t))

FairSpec == Spec /\ Fairness

\* Voice turns end, and each lasts far longer than the event loop takes to run
\* the tasks it has notified: a notified task does not meet the barrier up every
\* single time.
TurnFairness ==
  /\ WF_vars(SetBarrier(FALSE))
  /\ \A t \in Tasks : SF_vars(~barrier /\ Resume(t))

-----------------------------------------------------------------------------

TypeOK ==
  /\ pc \in [Tasks -> PCs]
  /\ waiters \in Seq(Waiter)
  /\ held \in BOOLEAN
  /\ holder \in Tasks \cup {NoTask}
  /\ ready \subseteq Tasks
  /\ notified \subseteq Tasks
  /\ barrier \in BOOLEAN
  /\ doomed \subseteq Tasks

Holding == {t \in Tasks : pc[t] = "holding"}

\* The tasks the lease belongs to: granted but not resumed yet, or inside.
Owners == ready \cup Holding

\* Two tasks never run the body of one lease at a time, and while one runs it
\* nobody else has been promised it: `_held = True` in _wake_next_locked is there
\* so that several waiters woken by one notify_all cannot each pop themselves.
MutualExclusion == \A t, u \in Owners : t = u

\* A task that waits in acquire still has a waiter in the heap or has been made
\* ready: no interleaving of pops, claims and cancellations forgets a live one.
NoForgottenWaiter ==
  \A t \in Tasks : Suspended(t) =>
    t \in ready \/ \E i \in DOMAIN waiters : waiters[i].owner = t

\* A reservation is always for somebody who will come for it: the lease is never
\* marked held with no task inside and none ready (it would stay so for ever).
NoLeakedLease == held => Owners # {}

\* Nothing is lost yet: no lease is held for nobody, and no waiter is left in the heap
\* that would take it to nobody.
AllLive(ws) == \A i \in DOMAIN ws : ws[i].owner # NoTask
Sound == NoLeakedLease /\ AllLive(waiters)

\* Only the cancellation of a task in line, reserved for or not, leads to a leak: no
\* preemption, release, wake-up or barrier does (resource_lease.py:70-147).
OnlyCancellationLeaks ==
  [][Sound /\ ~Sound' => \E t \in Tasks : Suspended(t) /\ Cancelled(t)]_vars

\* Nobody left in the heap has a smaller priority number than a task that gets the
\* lease in this step.
GrantedBeforeTheRest ==
  \A t \in Owners' \ Owners : \A i \in DOMAIN waiters' :
    waiters'[i].owner # NoTask => Priority[t] <= waiters'[i].priority

\* The lease goes to the most urgent live waiter, whoever calls _wake_next_locked
\* and whatever was abandoned in the heap.
GrantsInPriorityOrder == [][GrantedBeforeTheRest]_vars

\* While the barrier is up nobody at background priority is given the lease, not
\* even by a release or a wake-up that finds nobody else in line.
BarrierStopsBackground ==
  [][barrier =>
       \A t \in Owners' \ Owners : Priority[t] < Background]_vars

\* A task of the most urgent priority in use that asks is served, whatever else is
\* queued, running or cancelled.
MostUrgentServed ==
  \A t \in {u \in Tasks : \A v \in Tasks : Priority[u] <= Priority[v]} :
    Suspended(t) ~> pc[t] = "holding"

\* A loop that uses the lease is never ended by being preempted.  It does not hold: see
\* the README, section 3.
LoopsLive == \A t \in Loops : pc[t] # "dead"

-----------------------------------------------------------------------------
\* The line of the contract: the live waiters of heap ws, in order of arrival.
InLine(ws) == {ws[i].owner : i \in DOMAIN ws} \ {NoTask}
CameBefore(ws) ==
  {p \in InLine(ws) \X InLine(ws) :
     \E i, j \in DOMAIN ws : i < j /\ ws[i].owner = p[1] /\ ws[j].owner = p[2]}
Owner == IF Owners = {} THEN NoTask ELSE CHOOSE t \in Owners : TRUE

Contract ==
  INSTANCE LeaseContract WITH
    line <- InLine(waiters), before <- CameBefore(waiters),
    owner <- Owner, closed <- barrier

\* The lease does what it promises, step by step: whatever wakes up first, the
\* owner changes only by a grant in priority order, a return or a cancellation.
ImplementsContract == Contract!Spec

-----------------------------------------------------------------------------

\* A heap whose live waiters belong to suspended tasks that are not ready yet, one
\* for each, with the task's own priority.
HeapOK(ws, at, rd) ==
  /\ \A i \in DOMAIN ws : ws[i].owner # NoTask =>
       /\ at[ws[i].owner] \in {"barred", "waiting"}
       /\ ws[i].owner \notin rd
       /\ ws[i].priority = Priority[ws[i].owner]
  /\ \A i, j \in DOMAIN ws :
       ws[i].owner = ws[j].owner => i = j \/ ws[i].owner = NoTask

\* The inductive strengthening of the safety properties: the lease is marked held
\* as long as it belongs to somebody, the holding task is the holder, and only
\* suspended tasks are ready or notified.
LeaseInv ==
  /\ TypeOK
  /\ MutualExclusion
  /\ NoForgottenWaiter
  /\ Owners # {} => held
  /\ \A t \in Tasks : pc[t] = "holding" <=> holder = t
  /\ \A t \in ready \cup notified : Suspended(t)
  /\ HeapOK(waiters, pc, ready)

============================================================================
