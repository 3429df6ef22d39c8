------------------------- MODULE CoordinatorProofs -------------------------
(***************************************************************************)
(* What is proved of Coordinator, for every set of intents, of whatever    *)
(* kinds and priorities, any of them cancellable, and any number of        *)
(* losses: CoordinatorInv, the truth about the body with the types.  And   *)
(* of ChatTurns, for every number of chats and whatever they ask for: it   *)
(* implements Coordinator, so that all that is proved of actions holds of  *)
(* those of chats, and ChatInv.                                            *)
(*                                                                         *)
(* The truth about the body speaks of the one intent that runs; it is      *)
(* inductive with the types, which say who is in line and who has the      *)
(* lease.  That replies are true is inductive together with what each      *)
(* stage knows of the chat's action: nothing has been asked for before it  *)
(* acts, and with the reply the action is over, or there is none.          *)
(***************************************************************************)
EXTENDS ChatTurns, FiniteSetTheorems, TLAPS

-----------------------------------------------------------------------------
(* What the lease does. *)

\* One of l gets the lease and leaves the line.
LEMMA ServeOutcome ==
  ASSUME NEW l, NEW b \in SUBSET (l \X l), Lease!Serve(l, b)
  PROVE  /\ owner' \in l /\ line' = l \ {owner'}
         /\ before' \subseteq line' \X line'
<1>1. owner' \in l /\ Lease!Leave(l, b, owner')
  BY DEF Lease!Serve
<1>2. line' = l \ {owner'} /\ before' = {p \in b : owner' \notin {p[1], p[2]}}
  BY <1>1 DEF Lease!Leave
<1>3. \A p \in before' : p \in line' \X line'
  BY <1>2
<1> QED
  BY <1>1, <1>2, <1>3

\* What any use of the lease by or for task t leaves behind it: a line of those who
\* were in it and of t, and as its owner the one it had, nobody, or one of these.
LeaseUsed(t) ==
  /\ line' \subseteq (line \cup {t}) \ {owner'} /\ before' \subseteq line' \X line'
  /\ owner' \in line \cup {owner, NoIntent, t}

LEMMA RequestOutcome ==
  ASSUME TypeOK, NEW t \in Intents, Lease!Request(t)
  PROVE  LeaseUsed(t) /\ (owner # NoIntent => owner' = owner)
<1> DEFINE l == line \cup {t}
           b == before \cup (line \X {t})
<1>1. owner \notin l /\ b \in SUBSET (l \X l)
  BY DEF TypeOK, Lease!Request
<1>2. CASE line' = l /\ before' = b /\ owner' = owner
  BY <1>1, <1>2 DEF LeaseUsed
<1>3. CASE owner = NoIntent /\ Lease!Serve(l, b)
  <2> HIDE DEF b
  <2> QED
    BY <1>1, <1>3, ServeOutcome DEF LeaseUsed
<1> QED
  BY <1>2, <1>3 DEF Lease!Request

LEMMA GrantOutcome ==
  ASSUME TypeOK, Lease!Grant, NEW t
  PROVE  LeaseUsed(t) /\ owner = NoIntent /\ owner' \in line
<1>1. before \in SUBSET (line \X line) /\ Lease!Serve(line, before) /\ owner = NoIntent
  BY DEF TypeOK, Lease!Grant
<1> QED
  BY <1>1, ServeOutcome DEF LeaseUsed

\* The lease goes to somebody in line, or to nobody.
LEMMA ReturnOutcome ==
  ASSUME TypeOK, Lease!Return, NEW t
  PROVE  /\ LeaseUsed(t) /\ line' \subseteq line
         /\ owner' = NoIntent \/ owner' \in line
<1>1. line \subseteq Intents /\ before \in SUBSET (line \X line)
  BY DEF TypeOK
<1>2. CASE owner' = NoIntent /\ UNCHANGED <<line, before>>
  BY <1>1, <1>2, CoordinatorAssumption DEF LeaseUsed
<1>3. CASE Lease!Serve(line, before)
  BY <1>1, <1>3, ServeOutcome DEF LeaseUsed
<1> QED
  BY <1>2, <1>3 DEF Lease!Return

-----------------------------------------------------------------------------
(* One lemma for each action, or for actions that do the same to the invariant. *)

LEMMA InitInv == Init => CoordinatorInv
<1> SUFFICES ASSUME Init PROVE CoordinatorInv
  OBVIOUS
<1>2. TypeOK
  BY CoordinatorAssumption DEF Init, TypeOK, Terminal, Busy
<1>3. BodyTellsTheTruth
  BY DEF Init, BodyTellsTheTruth, Running, Busy
<1> QED
  BY <1>2, <1>3 DEF CoordinatorInv

LEMMA ProposeInv ==
  ASSUME CoordinatorInv, NEW t \in Intents, Propose(t)
  PROVE  CoordinatorInv'
<1>1. TypeOK /\ BodyTellsTheTruth
  BY DEF CoordinatorInv
<1>2. LeaseUsed(t) /\ (owner # NoIntent => owner' = owner)
  BY <1>1, RequestOutcome DEF Propose
<1>3. /\ event[t] = "none"
      /\ event' = [event EXCEPT ![t] = IF owner' = t THEN "approved" ELSE "proposed"]
      /\ body' = IF owner' = t THEN BodyFor(t) ELSE body
      /\ doomed' \subseteq doomed \cup Intents
      /\ UNCHANGED <<gone, obeyed, faults, link, moving, history>>
  BY DEF Propose, Preempt
<1>4. /\ event \in [Intents -> {"none", "proposed", "approved"} \cup Terminal]
      /\ event'[t] = IF owner' = t THEN "approved" ELSE "proposed"
      /\ \A u \in Intents : u # t => event'[u] = event[u]
  BY <1>1, <1>3 DEF TypeOK
<1>5. line \subseteq Intents /\ \A u \in line : event[u] = "proposed"
  BY <1>1 DEF TypeOK
<1>6. \A u \in line \cup {t} : u # owner' => event'[u] = "proposed"
  BY <1>3, <1>4, <1>5
<1>7. line' \subseteq Intents \ {owner'} /\ \A u \in line' : event'[u] = "proposed"
  BY <1>2, <1>5, <1>6 DEF LeaseUsed
<1>8. owner' # NoIntent => owner' \in Intents /\ event'[owner'] \in {"proposed", "approved"}
  BY <1>1, <1>2, <1>3, <1>4, <1>5, <1>6 DEF LeaseUsed, TypeOK
<1>9. TypeOK'
  <2>1. event' \in [Intents -> {"none", "proposed", "approved"} \cup Terminal]
    BY <1>3, <1>4
  <2>2. body' \in Busy \cup {"stationary", "fault"}
    BY <1>1, <1>3 DEF TypeOK, BodyFor, Busy
  <2>3. /\ gone' \subseteq Intents /\ doomed' \subseteq Intents /\ obeyed' \subseteq Intents
        /\ moving' \in Drives \cup {NoIntent}
        /\ faults' \subseteq {"actuation", "control_transport"}
        /\ connected' \in BOOLEAN /\ losses' \in 0..MaxLosses
        /\ stopped' \subseteq Drives /\ overtook' \subseteq Stops \X Intents
    BY <1>1, <1>3 DEF TypeOK, link, history
  <2>4. before' \subseteq line' \X line'
    BY <1>2 DEF LeaseUsed
  <2> QED
    BY <1>7, <1>8, <2>1, <2>2, <2>3, <2>4 DEF TypeOK
<1>10. CASE owner' = t
  <2>1. owner = NoIntent
    BY <1>1, <1>2, <1>3, <1>10 DEF TypeOK
  <2>2. \A u \in Intents : Running(u)' <=> u = t
    BY <1>4, <1>10 DEF Running
  <2>3. BodyTellsTheTruth'
    BY <1>3, <1>10, <2>2 DEF BodyTellsTheTruth, BodyFor
  <2> QED
    BY <1>9, <2>3 DEF CoordinatorInv
<1>11. CASE owner' # t
  <2>1. \A u \in Intents : Running(u)' <=> Running(u)
    <3>1. \A u \in line : event[u] # "approved"
      BY <1>5
    <3>2. \A u \in line \cup {t} : event'[u] # "approved"
      BY <1>4, <1>5, <1>11
    <3>3. \A u \in Intents : u # t => event'[u] = event[u]
      BY <1>4
    <3>4. event[t] # "approved"
      BY <1>3
    <3>5. owner # NoIntent => owner' = owner
      BY <1>2
    <3>6. owner' = NoIntent \/ owner' = owner \/ owner' \in line
      BY <1>2, <1>11 DEF LeaseUsed
    <3> QED
      BY <3>1, <3>2, <3>3, <3>4, <3>5, <3>6, CoordinatorAssumption DEF Running
  <2>2. BodyTellsTheTruth'
    BY <1>1, <1>3, <1>11, <2>1 DEF BodyTellsTheTruth, BodyFor
  <2> QED
    BY <1>9, <2>2 DEF CoordinatorInv
<1> QED
  BY <1>10, <1>11

LEMMA GrantInv ==
  ASSUME CoordinatorInv, Grant
  PROVE  CoordinatorInv'
<1>1. TypeOK /\ BodyTellsTheTruth
  BY DEF CoordinatorInv
<1>2. LeaseUsed(NoIntent) /\ owner = NoIntent /\ owner' \in line
  BY <1>1, GrantOutcome DEF Grant
<1>3. UNCHANGED <<task, obeyed, state, link, moving, history>>
  BY DEF Grant
<1>4. line \subseteq Intents /\ \A u \in line : event[u] = "proposed"
  BY <1>1 DEF TypeOK
<1>5. LeaseUsed(owner')
  BY <1>1, GrantOutcome DEF Grant
<1>6. line' \subseteq Intents \ {owner'} /\ \A u \in line' : event'[u] = "proposed"
  BY <1>2, <1>3, <1>4, <1>5 DEF LeaseUsed, task
<1>7. owner' \in Intents /\ event'[owner'] = "proposed"
  BY <1>2, <1>3, <1>4 DEF task
<1>8. TypeOK'
  BY <1>1, <1>2, <1>3, <1>6, <1>7 DEF TypeOK, LeaseUsed, task, state, link, history
<1>9. \A u \in Intents : ~Running(u) /\ ~Running(u)'
  BY <1>2, <1>7, CoordinatorAssumption DEF Running
<1>10. BodyTellsTheTruth'
  BY <1>1, <1>3, <1>9 DEF BodyTellsTheTruth, BodyFor, state, task
<1> QED
  BY <1>2, <1>8, <1>10 DEF CoordinatorInv, LeaseUsed

LEMMA StartInv ==
  ASSUME CoordinatorInv, NEW t \in Intents, Start(t)
  PROVE  CoordinatorInv'
<1>1. TypeOK /\ BodyTellsTheTruth
  BY DEF CoordinatorInv
<1>2. Overtaking(t) \subseteq Stops \X Intents
  BY DEF Overtaking
<1>3. /\ owner = t /\ event[t] = "proposed"
      /\ event' = [event EXCEPT ![t] = "approved"]
      /\ body' = BodyFor(t) /\ overtook' \subseteq Stops \X Intents
      /\ UNCHANGED <<lease, gone, doomed, obeyed, faults, link, moving, stopped>>
  BY <1>1, <1>2 DEF Start, TypeOK
<1>4. line \subseteq Intents \ {t}
  BY <1>1, <1>3 DEF TypeOK
<1>5. TypeOK'
  BY <1>1, <1>3, <1>4 DEF TypeOK, lease, link, BodyFor, Busy
<1>6. \A u \in Intents : Running(u)' <=> u = t
  BY <1>1, <1>3 DEF Running, TypeOK, lease
<1>7. BodyTellsTheTruth'
  BY <1>1, <1>3, <1>6 DEF BodyTellsTheTruth, BodyFor
<1> QED
  BY <1>1, <1>3, <1>5, <1>7 DEF CoordinatorInv, lease

\* The running intent t gives the lease back, with the outcome recorded, or without
\* any for it was cancelled.
LEMMA EndInv ==
  ASSUME CoordinatorInv, NEW t \in Intents, NEW outcome \in Terminal,
         Lease!Return, owner = t,
         \/ event' = [event EXCEPT ![t] = outcome]
         \/ event' = event
  PROVE  /\ LeaseUsed(t)
         /\ line' \subseteq Intents \ {owner'} /\ \A u \in line' : event'[u] = "proposed"
         /\ owner' # NoIntent => owner' \in Intents /\ event'[owner'] = "proposed"
         /\ event' \in [Intents -> {"none", "proposed", "approved"} \cup Terminal]
         /\ \A u \in Intents : ~Running(u)'
<1>1. TypeOK
  BY DEF CoordinatorInv
<1>2. /\ LeaseUsed(t) /\ line' \subseteq line
      /\ owner' = NoIntent \/ owner' \in line
  BY <1>1, ReturnOutcome
<1>3. line \subseteq Intents \ {t} /\ \A u \in line : event[u] = "proposed"
  BY <1>1 DEF TypeOK
<1>4. event' \in [Intents -> {"none", "proposed", "approved"} \cup Terminal]
  BY <1>1 DEF TypeOK
<1>5. \A u \in line : event'[u] = "proposed"
  BY <1>1, <1>3 DEF TypeOK
<1>6. owner' # NoIntent => owner' \in Intents /\ event'[owner'] = "proposed"
  BY <1>2, <1>3, <1>5
<1>7. line' \subseteq Intents \ {owner'} /\ \A u \in line' : event'[u] = "proposed"
  BY <1>2, <1>3, <1>5 DEF LeaseUsed
<1>8. \A u \in Intents : ~Running(u)'
  BY <1>6, CoordinatorAssumption DEF Running
<1> QED
  BY <1>2, <1>4, <1>6, <1>7, <1>8

LEMMA ConcludeInv ==
  ASSUME CoordinatorInv, NEW t \in Intents, Complete(t) \/ Fail(t) \/ Refuse(t)
  PROVE  CoordinatorInv'
<1>1. TypeOK /\ BodyTellsTheTruth
  BY DEF CoordinatorInv
<1>2. PICK outcome \in Terminal : event' = [event EXCEPT ![t] = outcome]
  BY DEF Complete, Fail, Refuse, Conclude, Terminal
<1>3. /\ Lease!Return /\ owner = t
      /\ UNCHANGED <<gone, doomed, obeyed, link, moving, overtook>>
  BY DEF Complete, Fail, Refuse, Conclude, Running
<1>4. /\ LeaseUsed(t)
      /\ line' \subseteq Intents \ {owner'} /\ \A u \in line' : event'[u] = "proposed"
      /\ owner' # NoIntent => owner' \in Intents /\ event'[owner'] = "proposed"
      /\ event' \in [Intents -> {"none", "proposed", "approved"} \cup Terminal]
      /\ \A u \in Intents : ~Running(u)'
  BY <1>2, <1>3, EndInv
<1>5. /\ body' \in {"stationary", "fault"} /\ faults' \subseteq {"actuation", "control_transport"}
      /\ stopped' \subseteq Drives
      /\ body' = "fault" => "actuation" \in faults'
  BY <1>1 DEF Complete, Fail, Refuse, TypeOK
<1>6. TypeOK'
  BY <1>1, <1>3, <1>4, <1>5 DEF TypeOK, LeaseUsed, link
<1>7. BodyTellsTheTruth'
  BY <1>4, <1>5 DEF BodyTellsTheTruth, Busy
<1> QED
  BY <1>4, <1>6, <1>7 DEF CoordinatorInv, LeaseUsed

LEMMA CancelOwnerInv ==
  ASSUME CoordinatorInv, NEW t \in Intents, CancelOwner(t)
  PROVE  CoordinatorInv'
<1>1. TypeOK /\ BodyTellsTheTruth
  BY DEF CoordinatorInv
<1>2. /\ Lease!Return /\ owner = t /\ gone' = gone \cup {t} /\ event' = event
      /\ UNCHANGED <<doomed, obeyed, state, link, moving, history>>
  BY DEF CancelOwner, Running
<1>3. /\ LeaseUsed(t)
      /\ line' \subseteq Intents \ {owner'} /\ \A u \in line' : event'[u] = "proposed"
      /\ owner' # NoIntent => owner' \in Intents /\ event'[owner'] = "proposed"
      /\ event' \in [Intents -> {"none", "proposed", "approved"} \cup Terminal]
      /\ \A u \in Intents : ~Running(u)'
  <2>1. "failed" \in Terminal
    BY DEF Terminal
  <2> QED
    BY <1>2, <2>1, EndInv
<1>4. TypeOK'
  BY <1>1, <1>2, <1>3 DEF TypeOK, LeaseUsed, state, link, history
<1>5. \A u \in Intents : Running(u) => u = t
  BY <1>2 DEF Running
<1>6. BodyTellsTheTruth'
  BY <1>1, <1>2, <1>3, <1>5 DEF BodyTellsTheTruth, state
<1> QED
  BY <1>3, <1>4, <1>6 DEF CoordinatorInv, LeaseUsed

LEMMA CancelWaiterInv ==
  ASSUME CoordinatorInv, NEW t \in Intents, CancelWaiter(t)
  PROVE  CoordinatorInv'
<1>1. TypeOK /\ BodyTellsTheTruth
  BY DEF CoordinatorInv
<1>2. /\ gone' = gone \cup {t}
      /\ UNCHANGED <<lease, event, doomed, obeyed, state, link, moving, history>>
  BY DEF CancelWaiter
<1>3. TypeOK'
  BY <1>1, <1>2 DEF TypeOK, lease, state, link, history
<1>4. BodyTellsTheTruth'
  BY <1>1, <1>2 DEF BodyTellsTheTruth, Running, BodyFor, lease, state
<1> QED
  BY <1>3, <1>4 DEF CoordinatorInv

\* What leaves the lease, the events and the body alone.
LEMMA LinkInv ==
  ASSUME CoordinatorInv,
         \/ \E t \in Intents : Obey(t)
         \/ MotionEnds \/ Disconnect \/ Reconnect \/ UNCHANGED vars
  PROVE  CoordinatorInv'
<1>1. TypeOK /\ BodyTellsTheTruth
  BY DEF CoordinatorInv
<1>2. /\ UNCHANGED <<line, before, owner, event, gone, doomed, body, stopped, overtook>>
      /\ "actuation" \in faults => "actuation" \in faults'
      /\ faults' \subseteq {"actuation", "control_transport"}
  BY <1>1 DEF Obey, MotionEnds, Disconnect, Reconnect, vars, lease, task, state, link, history,
              TypeOK
<1>3. obeyed' \subseteq Intents /\ moving' \in Drives \cup {NoIntent}
  <2>1. CASE \E t \in Intents : Obey(t)
    BY <1>1, <2>1 DEF Obey, TypeOK
  <2>2. CASE MotionEnds \/ Disconnect \/ Reconnect \/ UNCHANGED vars
    BY <1>1, <2>2 DEF MotionEnds, Disconnect, Reconnect, vars, TypeOK
  <2> QED
    BY <2>1, <2>2
<1>4. connected' \in BOOLEAN /\ losses' \in 0..MaxLosses
  <2>1. /\ connected \in BOOLEAN /\ losses \in 0..MaxLosses /\ MaxLosses \in Nat
        /\ losses' = losses \/ (losses < MaxLosses /\ losses' = losses + 1)
        /\ connected' \in {connected, TRUE, FALSE}
    BY <1>1, CoordinatorAssumption
    DEF Obey, MotionEnds, Disconnect, Reconnect, vars, link, TypeOK
  <2>2. losses' \in 0..MaxLosses
    BY <2>1
  <2> QED
    BY <2>1, <2>2
<1>5. TypeOK'
  BY <1>1, <1>2, <1>3, <1>4 DEF TypeOK
<1>6. BodyTellsTheTruth'
  BY <1>1, <1>2 DEF BodyTellsTheTruth, Running, BodyFor
<1> QED
  BY <1>1, <1>2, <1>5, <1>6 DEF CoordinatorInv

LEMMA StepInv == CoordinatorInv /\ [Next]_vars => CoordinatorInv'
<1> SUFFICES ASSUME CoordinatorInv, [Next]_vars PROVE CoordinatorInv'
  OBVIOUS
<1>1. ASSUME NEW t \in Intents, Propose(t) PROVE CoordinatorInv'
  BY <1>1, ProposeInv
<1>2. ASSUME NEW t \in Intents, Start(t) PROVE CoordinatorInv'
  BY <1>2, StartInv
<1>3. ASSUME NEW t \in Intents, Complete(t) \/ Fail(t) \/ Refuse(t) PROVE CoordinatorInv'
  BY <1>3, ConcludeInv
<1>4. ASSUME NEW t \in Intents, CancelOwner(t) PROVE CoordinatorInv'
  BY <1>4, CancelOwnerInv
<1>5. ASSUME NEW t \in Intents, CancelWaiter(t) PROVE CoordinatorInv'
  BY <1>5, CancelWaiterInv
<1>6. CASE Grant
  BY <1>6, GrantInv
<1>7. CASE \/ \E t \in Intents : Obey(t)
           \/ MotionEnds \/ Disconnect \/ Reconnect \/ UNCHANGED vars
  BY <1>7, LinkInv
<1> QED
  BY <1>1, <1>2, <1>3, <1>4, <1>5, <1>6, <1>7 DEF Next

-----------------------------------------------------------------------------
\* In every behaviour the published state of the body is that of the action which
\* runs, a fault of the body is among the active faults, and every variable has its
\* type (coordinator.py:209-353).
THEOREM BodyIsTrue == Spec => []CoordinatorInv
<1> QED
  BY InitInv, StepInv, PTL DEF Spec

-----------------------------------------------------------------------------
(* Who is started before a stop that waits. *)

\* overtook is of intents that were asked for, and has one entry for each stop.
OvertookOnce ==
  \A p, q \in overtook : event[p[1]] # "none" /\ (p[1] = q[1] => p[2] = q[2])

\* Who was given the lease since a stop in line was overtaken is as urgent as the stop.
NextIsUrgent ==
  \A p \in overtook :
    p[1] \in line /\ owner # NoIntent /\ event[owner] = "proposed"
      => Priority[owner] <= Priority[p[1]]

StopInv == OvertookOnce /\ NextIsUrgent

\* Whoever is served is as urgent as those that stay in line.
LEMMA ServedFirst ==
  ASSUME NEW l \in SUBSET Intents, NEW b, Lease!Serve(l, b)
  PROVE  \A u \in line' : Priority[owner'] <= Priority[u]
<1>1. owner' \in l /\ Lease!First(l, b, owner') /\ line' = l \ {owner'}
  BY DEF Lease!Serve, Lease!Leave
<1>2. \A u \in l : Priority[u] \in Nat
  BY CoordinatorAssumption
<1>3. \A u \in line' :
        Priority[owner'] < Priority[u] \/ Priority[owner'] = Priority[u]
  BY <1>1 DEF Lease!First
<1>4. line' \subseteq l
  BY <1>1
<1> QED
  BY <1>1, <1>2, <1>3, <1>4

\* A step that starts nobody: those who are in line after it and were overtaken were in
\* it before, and a new owner is as urgent as they are.
LEMMA NobodyStarts ==
  ASSUME StopInv, overtook' = overtook,
         \A p \in overtook : event[p[1]] # "none" => event'[p[1]] # "none",
         \/ owner' = NoIntent
         \/ event'[owner'] # "proposed"
         \/ \A p \in overtook :
              p[1] \in line' => Priority[owner'] <= Priority[p[1]]
         \/ /\ owner' = owner /\ event'[owner'] = event[owner]
            /\ \A p \in overtook : p[1] \in line' => p[1] \in line
  PROVE  StopInv'
<1>1. OvertookOnce'
  BY DEF StopInv, OvertookOnce
<1>2. NextIsUrgent'
  BY DEF StopInv, NextIsUrgent
<1> QED
  BY <1>1, <1>2 DEF StopInv

LEMMA StopProposed ==
  ASSUME CoordinatorInv, StopInv, NEW t \in Intents, Propose(t)
  PROVE  StopInv'
<1>1. /\ line \subseteq Intents
      /\ event \in [Intents -> {"none", "proposed", "approved"} \cup Terminal]
      /\ owner # NoIntent => owner \in Intents
      /\ Lease!Request(t) /\ owner # t
      /\ event[t] = "none"
      /\ event' = [event EXCEPT ![t] = IF owner' = t THEN "approved" ELSE "proposed"]
      /\ overtook' = overtook /\ overtook \subseteq Stops \X Intents
  BY DEF CoordinatorInv, TypeOK, Propose, Lease!Request, history, Terminal
<1>2. \A p \in overtook : p[1] \in Intents /\ p[1] # t /\ event'[p[1]] # "none"
  BY <1>1 DEF StopInv, OvertookOnce, Stops
<1> DEFINE l == line \cup {t}
           b == before \cup (line \X {t})
<1>3. CASE line' = l /\ owner' = owner
  <2>1. owner' = NoIntent \/ event'[owner'] = event[owner]
    BY <1>1, <1>3
  <2> QED
    BY <1>1, <1>2, <1>3, <2>1, NobodyStarts
<1>4. CASE owner = NoIntent /\ Lease!Serve(l, b)
  <2>1. l \in SUBSET Intents
    BY <1>1
  <2> HIDE DEF l, b
  <2>2. \A u \in line' : Priority[owner'] <= Priority[u]
    BY <1>4, <2>1, ServedFirst
  <2> QED
    BY <1>1, <1>2, <2>2, NobodyStarts
<1> QED
  BY <1>1, <1>3, <1>4 DEF Lease!Request

\* The one who has the lease is started: a stop that was overtaken is not overtaken
\* again, for the one who came next is as urgent as the stop.
LEMMA StopStarted ==
  ASSUME CoordinatorInv, StopInv, NEW t \in Intents, Start(t)
  PROVE  StopInv'
<1>1. /\ line' = line /\ owner' = owner
      /\ \A u \in line : event[u] = "proposed"
      /\ event \in [Intents -> {"none", "proposed", "approved"} \cup Terminal]
      /\ owner = t /\ event[t] = "proposed" /\ event' = [event EXCEPT ![t] = "approved"]
      /\ overtook' = overtook \cup Overtaking(t) /\ overtook \subseteq Stops \X Intents
  BY DEF CoordinatorInv, TypeOK, Start, lease
<1>2. \A p \in Overtaking(t) :
        /\ p[1] \in Intents /\ p[2] = t /\ Priority[p[1]] < Priority[t]
        /\ p[1] \in line
  BY DEF Overtaking, Stops
<1>3. \A p \in overtook : p[1] \in Intents /\ event[p[1]] # "none"
  BY <1>1 DEF StopInv, OvertookOnce, Stops
<1>4. ASSUME NEW p \in overtook, NEW q \in Overtaking(t) PROVE p[1] # q[1]
  <2> SUFFICES ASSUME p[1] = q[1] PROVE FALSE
    OBVIOUS
  <2>1. Priority[t] <= Priority[p[1]]
    BY <1>1, <1>2, CoordinatorAssumption DEF StopInv, NextIsUrgent
  <2> QED
    BY <1>2, <2>1, CoordinatorAssumption
<1>5. \A p \in overtook' : event'[p[1]] # "none"
  BY <1>1, <1>2, <1>3
<1>6. \A p, q \in overtook' : p[1] = q[1] => p[2] = q[2]
  BY <1>1, <1>2, <1>4 DEF StopInv, OvertookOnce
<1>7. OvertookOnce'
  BY <1>5, <1>6 DEF OvertookOnce
<1>8. event'[owner'] # "proposed"
  BY <1>1
<1>9. NextIsUrgent'
  BY <1>8 DEF NextIsUrgent
<1> QED
  BY <1>7, <1>9 DEF StopInv

\* The lease is given back, or given away when it was free.
LEMMA StopHandedOn ==
  ASSUME CoordinatorInv, StopInv, Lease!Grant \/ Lease!Return, overtook' = overtook,
         \A t \in Intents : event[t] # "none" => event'[t] # "none"
  PROVE  StopInv'
<1>1. line \in SUBSET Intents /\ overtook \subseteq Stops \X Intents
  BY DEF CoordinatorInv, TypeOK
<1>2. \A p \in overtook : event[p[1]] # "none" => event'[p[1]] # "none"
  BY <1>1 DEF Stops
<1>3. CASE owner' = NoIntent
  BY <1>2, <1>3, NobodyStarts
<1>4. CASE Lease!Serve(line, before)
  <2>1. \A u \in line' : Priority[owner'] <= Priority[u]
    BY <1>1, <1>4, ServedFirst
  <2> QED
    BY <1>2, <2>1, NobodyStarts
<1> QED
  BY <1>3, <1>4 DEF Lease!Grant, Lease!Return

LEMMA StopWithdrawn ==
  ASSUME CoordinatorInv, StopInv, NEW t \in Intents, CancelWaiter(t)
  PROVE  StopInv'
<1>1. line' = line /\ owner' = owner /\ event' = event /\ overtook' = overtook
  BY DEF CancelWaiter, lease, history
<1> QED
  BY <1>1, NobodyStarts

\* In every behaviour at most one less urgent action is started while a stop waits
\* (resource_lease.py:56-152 under coordinator.py:262).
THEOREM StopWaitsForOne == Spec => []AtMostOneBeforeStop
<1>1. Init => StopInv
  BY DEF Init, StopInv, OvertookOnce, NextIsUrgent
<1>2. CoordinatorInv /\ StopInv /\ [Next]_vars => StopInv'
  <2> SUFFICES ASSUME CoordinatorInv, StopInv, [Next]_vars PROVE StopInv'
    OBVIOUS
  <2>1. ASSUME NEW t \in Intents, Propose(t) PROVE StopInv'
    BY <2>1, StopProposed
  <2>2. ASSUME NEW t \in Intents, Start(t) PROVE StopInv'
    BY <2>2, StopStarted
  <2>3. ASSUME NEW t \in Intents, Complete(t) \/ Fail(t) \/ Refuse(t) PROVE StopInv'
    <3>1. PICK outcome \in Terminal : event' = [event EXCEPT ![t] = outcome]
      BY <2>3 DEF Complete, Fail, Refuse, Conclude, Terminal
    <3>2. event \in [Intents -> {"none", "proposed", "approved"} \cup Terminal]
      BY DEF CoordinatorInv, TypeOK
    <3>3. \A u \in Intents : event[u] # "none" => event'[u] # "none"
      BY <3>1, <3>2 DEF Terminal
    <3>4. Lease!Return /\ overtook' = overtook
      BY <2>3 DEF Complete, Fail, Refuse, Conclude
    <3> QED
      BY <3>3, <3>4, StopHandedOn
  <2>4. ASSUME NEW t \in Intents, CancelOwner(t) PROVE StopInv'
    BY <2>4, StopHandedOn DEF CancelOwner, history
  <2>5. ASSUME NEW t \in Intents, CancelWaiter(t) PROVE StopInv'
    BY <2>5, StopWithdrawn
  <2>6. CASE Grant
    BY <2>6, StopHandedOn DEF Grant, task, history
  <2>7. CASE \/ \E t \in Intents : Obey(t)
             \/ MotionEnds \/ Disconnect \/ Reconnect \/ UNCHANGED vars
    <3>1. UNCHANGED <<line, owner, event, overtook>>
      BY <2>7 DEF Obey, MotionEnds, Disconnect, Reconnect, vars, lease, task, history
    <3> QED
      BY <3>1 DEF StopInv, OvertookOnce, NextIsUrgent
  <2> QED
    BY <2>1, <2>2, <2>3, <2>4, <2>5, <2>6, <2>7 DEF Next
<1>3. CoordinatorInv /\ StopInv => AtMostOneBeforeStop
  <2> SUFFICES ASSUME CoordinatorInv, StopInv, NEW s \in Stops
               PROVE  Cardinality({t \in Intents : <<s, t>> \in overtook}) <= 1
    BY DEF AtMostOneBeforeStop
  <2> DEFINE S == {t \in Intents : <<s, t>> \in overtook}
  <2>1. \A t, u \in S : t = u
    BY DEF StopInv, OvertookOnce
  <2>2. S = {} \/ \E t \in S : S = {t}
    BY <2>1
  <2>3. Cardinality(S) = 0 \/ Cardinality(S) = 1
    BY <2>2, FS_EmptySet, FS_Singleton
  <2> QED
    BY <2>3
<1>4. Spec => []CoordinatorInv
  BY InitInv, StepInv, PTL DEF Spec
<1> QED
  BY <1>1, <1>2, <1>3, <1>4, PTL DEF Spec

-----------------------------------------------------------------------------
(* The chats. *)

\* A completed action has been obeyed.
CompletedIsObeyed == \A t \in Intents : event[t] = "completed" => t \in obeyed

\* Before c acts its action is not asked for; with the reply it is over or was never
\* asked for.
StageOfAction ==
  \A c \in Chats :
    /\ stage[c] \in {"none"} \cup (UnderWay \ {"acts"}) => event[Asked[c]] = "none"
    /\ reply[c] # "none" => stage[c] = "over" /\ event[Asked[c]] \in Terminal \cup {"none"}

ChatIInv == ChatInv /\ CompletedIsObeyed /\ StageOfAction

-----------------------------------------------------------------------------
\* What is over stays so, what was obeyed stays so, and what is completed was obeyed.
LEMMA StepOutcome ==
  ASSUME TypeOK, CompletedIsObeyed, [Next]_vars
  PROVE  /\ CompletedIsObeyed'
         /\ obeyed \subseteq obeyed'
         /\ \A t \in Intents : event[t] \in Terminal => event'[t] = event[t]
<1>1. event \in [Intents -> {"none", "proposed", "approved"} \cup Terminal]
  BY DEF TypeOK
<1>2. ASSUME NEW t \in Intents, NEW e, event[t] \notin Terminal, e # "completed",
             event' = [event EXCEPT ![t] = e], obeyed' = obeyed
      PROVE  /\ CompletedIsObeyed'
             /\ obeyed \subseteq obeyed'
             /\ \A u \in Intents : event[u] \in Terminal => event'[u] = event[u]
  BY <1>1, <1>2 DEF CompletedIsObeyed
<1>3. ASSUME event' = event, obeyed \subseteq obeyed'
      PROVE  /\ CompletedIsObeyed'
             /\ obeyed \subseteq obeyed'
             /\ \A u \in Intents : event[u] \in Terminal => event'[u] = event[u]
  BY <1>3 DEF CompletedIsObeyed
<1>4. ASSUME NEW t \in Intents, Propose(t) \/ Start(t) \/ Fail(t) \/ Refuse(t)
      PROVE  \E e \in {"proposed", "approved", "failed", "cancelled"} :
               event' = [event EXCEPT ![t] = e] /\ event[t] \notin Terminal /\ obeyed' = obeyed
  <2>1. CASE Propose(t)
    BY <2>1 DEF Propose, Terminal
  <2>2. CASE Start(t)
    BY <2>2 DEF Start, Terminal
  <2>3. CASE Fail(t)
    BY <2>3 DEF Fail, Conclude, Running, Terminal
  <2>4. CASE Refuse(t)
    BY <2>4 DEF Refuse, Conclude, Running, Terminal
  <2> QED
    BY <1>4, <2>1, <2>2, <2>3, <2>4
<1>5. ASSUME NEW t \in Intents, Complete(t)
      PROVE  /\ CompletedIsObeyed'
             /\ obeyed \subseteq obeyed'
             /\ \A u \in Intents : event[u] \in Terminal => event'[u] = event[u]
  <2>1. /\ t \in obeyed /\ event[t] = "approved" /\ obeyed' = obeyed
        /\ event' = [event EXCEPT ![t] = "completed"]
    BY <1>5 DEF Complete, Conclude, Running
  <2> QED
    BY <1>1, <2>1 DEF CompletedIsObeyed, Terminal
<1>6. ASSUME NEW t \in Intents, Obey(t)
      PROVE event' = event /\ obeyed \subseteq obeyed'
  BY <1>6 DEF Obey, task
<1>7. ASSUME NEW t \in Intents, CancelOwner(t) \/ CancelWaiter(t)
      PROVE event' = event /\ obeyed \subseteq obeyed'
  BY <1>7 DEF CancelOwner, CancelWaiter
<1>8. ASSUME Grant \/ MotionEnds \/ Disconnect \/ Reconnect \/ UNCHANGED vars
      PROVE event' = event /\ obeyed \subseteq obeyed'
  BY <1>8 DEF Grant, MotionEnds, Disconnect, Reconnect, vars, task
<1> QED
  BY <1>2, <1>3, <1>4, <1>5, <1>6, <1>7, <1>8 DEF Next

-----------------------------------------------------------------------------
\* Every step of a chat is one of Coordinator's or none: the chats are clients of
\* execute_action like all others (main.py:871-888).
THEOREM ChatsAreClients == ChatBehaviour => Spec
<1>1. ChatInit => Init
  BY DEF ChatInit
<1>2. ASSUME [ChatNext]_allVars PROVE [Next]_vars
  <2>1. ASSUME NEW c \in Chats, Asks(c) \/ Decides(c) PROVE [Next]_vars
    <3>1. Asked[c] \in Intents
      BY ChatAssumption
    <3> QED
      BY <2>1, <3>1 DEF Asks, Decides, Next
  <2>2. ASSUME NEW c \in Chats,
               \/ Tracked(c) \/ Says(c) \/ Wonders(c) \/ Sees(c) \/ Explains(c)
               \/ Acted(c) \/ Dies(c)
        PROVE [Next]_vars
    BY <2>2 DEF Tracked, Says, Wonders, Sees, Explains, Acted, Dies
  <2>3. CASE OthersAct
    BY <2>3 DEF OthersAct
  <2>4. CASE UNCHANGED allVars
    BY <2>4 DEF allVars
  <2> QED
    BY <1>2, <2>1, <2>2, <2>3, <2>4 DEF ChatNext
<1> QED
  BY <1>1, <1>2, PTL DEF ChatBehaviour, Spec

LEMMA ChatInitInv == ChatInit => ChatIInv
<1> SUFFICES ASSUME ChatInit PROVE ChatIInv
  OBVIOUS
<1> USE DEF ChatInit, Init, ChatIInv, ChatInv
<1>1. ChatTypeOK
  BY DEF ChatTypeOK
<1>2. \A c \in Chats : Asked[c] \in Intents
  BY ChatAssumption
<1>3. RepliesAreTrue /\ ConversationGivenBack
  BY DEF RepliesAreTrue, ConversationGivenBack
<1>4. CompletedIsObeyed /\ StageOfAction
  BY <1>2 DEF CompletedIsObeyed, StageOfAction
<1> QED
  BY <1>1, <1>3, <1>4

\* c goes on without a word: its stage is another one, and no action or its own has
\* been asked for.
LEMMA GoesInv ==
  ASSUME ChatIInv, TypeOK, NEW c \in Chats, NEW s \in UnderWay \cup {"died"},
         stage[c] \in UnderWay \cup {"none"},
         stage' = [stage EXCEPT ![c] = s], reply' = reply,
         (conversation' = conversation /\ stage[c] # "none") \/ conversation' = "formulating",
         s = "died" => conversation' = conversation /\ stage[c] # "none",
         \/ s # "acts" /\ stage[c] # "acts" /\ UNCHANGED vars
         \/ s = "died" /\ UNCHANGED vars
         \/ s = "acts" /\ stage[c] # "acts" /\ Propose(Asked[c])
  PROVE  ChatIInv'
<1> USE DEF ChatIInv, ChatInv
<1>1. ChatTypeOK'
  BY DEF ChatTypeOK, UnderWay
<1>2. \A d \in Chats : Asked[d] \in Intents
  BY ChatAssumption
<1>3. reply[c] = "none"
  BY DEF StageOfAction, ChatTypeOK, UnderWay
<1>4. [Next]_vars
  BY <1>2 DEF Next
<1>5. CompletedIsObeyed'
  BY <1>4, StepOutcome
<1>6. event \in [Intents -> {"none", "proposed", "approved"} \cup Terminal]
  BY DEF TypeOK
<1>7. /\ obeyed' = obeyed
      /\ \A d \in Chats : d # c => event'[Asked[d]] = event[Asked[d]] /\ stage'[d] = stage[d]
  <2>1. CASE UNCHANGED vars
    BY <2>1 DEF vars, task, ChatTypeOK
  <2>2. CASE Propose(Asked[c])
    BY <2>2, <1>2, <1>6, ChatAssumption DEF Propose, ChatTypeOK, ChatAssumption
  <2> QED
    BY <2>1, <2>2
<1>8. stage'[c] = s
  BY DEF ChatTypeOK
<1>9. RepliesAreTrue'
  BY <1>3, <1>7 DEF RepliesAreTrue
<1>10. StageOfAction'
  <2>1. s # "acts" /\ s # "died" => event'[Asked[c]] = "none"
    BY DEF StageOfAction, vars, task, UnderWay
  <2> QED
    BY <1>3, <1>7, <1>8, <2>1 DEF StageOfAction, UnderWay
<1>11. ConversationGivenBack'
  BY <1>8 DEF ConversationGivenBack, Begun, UnderWay
<1> QED
  BY <1>1, <1>5, <1>9, <1>10, <1>11

\* c replies.
LEMMA RepliesInv ==
  ASSUME ChatIInv, NEW c \in Chats, NEW r \in {"words", "done", "sorry"},
         Replies(c, r), UNCHANGED vars,
         \/ event[Asked[c]] = "none"
         \/ event[Asked[c]] \in Terminal /\ r = ReplyTo(event[Asked[c]])
  PROVE  ChatIInv'
<1> USE DEF ChatIInv, ChatInv
<1>1. /\ stage' = [stage EXCEPT ![c] = "over"] /\ reply' = [reply EXCEPT ![c] = r]
      /\ conversation' = "idle" /\ event' = event /\ obeyed' = obeyed
  BY DEF Replies, vars, task
<1>2. ChatTypeOK'
  BY <1>1 DEF ChatTypeOK
<1>3. CompletedIsObeyed' /\ ConversationGivenBack'
  BY <1>1 DEF CompletedIsObeyed, ConversationGivenBack
<1>4. Asked[c] \in Intents
  BY ChatAssumption
<1>5. \A d \in Chats : d # c => stage'[d] = stage[d] /\ reply'[d] = reply[d]
  BY <1>1 DEF ChatTypeOK
<1>6. stage'[c] = "over" /\ reply'[c] = r
  BY <1>1 DEF ChatTypeOK
<1>7. StageOfAction'
  BY <1>1, <1>5, <1>6 DEF StageOfAction, UnderWay
<1>8. RepliesAreTrue'
  BY <1>1, <1>4, <1>5, <1>6 DEF RepliesAreTrue, ReplyTo, CompletedIsObeyed, Terminal
<1> QED
  BY <1>2, <1>3, <1>7, <1>8

LEMMA OthersInv ==
  ASSUME ChatIInv, TypeOK, OthersAct \/ UNCHANGED allVars
  PROVE  ChatIInv'
<1> USE DEF ChatIInv, ChatInv
<1>1. [Next]_vars /\ UNCHANGED chatVars
  BY DEF OthersAct, allVars
<1>2. /\ CompletedIsObeyed' /\ obeyed \subseteq obeyed'
      /\ \A t \in Intents : event[t] \in Terminal => event'[t] = event[t]
  BY <1>1, StepOutcome
<1>3. \A c \in Chats : stage[c] # "absent" /\ event[Asked[c]] = "none" => event'[Asked[c]] = "none"
  BY DEF OthersAct, allVars, vars, task
<1>4. \A c \in Chats : Asked[c] \in Intents
  BY ChatAssumption
<1>5. ChatTypeOK' /\ ConversationGivenBack'
  BY <1>1 DEF chatVars, ChatTypeOK, ConversationGivenBack, Begun
<1>6. StageOfAction'
  BY <1>1, <1>2, <1>3, <1>4 DEF chatVars, StageOfAction, UnderWay
<1>7. RepliesAreTrue'
  <2> SUFFICES ASSUME NEW c \in Chats, reply[c] # "none", event'[Asked[c]] # "none"
               PROVE  reply[c] = "done" <=> event'[Asked[c]] = "completed" /\ Asked[c] \in obeyed'
    BY <1>1 DEF RepliesAreTrue, chatVars
  <2>1. event[Asked[c]] \in Terminal /\ event'[Asked[c]] = event[Asked[c]]
    BY <1>2, <1>3, <1>4 DEF StageOfAction
  <2> QED
    BY <1>2, <1>4, <2>1 DEF RepliesAreTrue, CompletedIsObeyed, Terminal
<1> QED
  BY <1>2, <1>5, <1>6, <1>7

-----------------------------------------------------------------------------
\* In every behaviour chats are told of their actions what is true, and a conversation
\* that stays in the state of formulating was left so by a handler that died
\* (main.py:1481-1643).
THEOREM ChatIsTrue == ChatBehaviour => []ChatInv
<1>1. ASSUME ChatIInv, TypeOK, [ChatNext]_allVars PROVE ChatIInv'
  <2>1. ASSUME NEW c \in Chats, Asks(c) PROVE ChatIInv'
    <3>1. CASE IsStop(c)
      BY <1>1, <2>1, <3>1, GoesInv DEF Asks, UnderWay
    <3>2. CASE ~IsStop(c)
      <4>1. PICK s \in {"tracks", "thinks"} : stage' = [stage EXCEPT ![c] = s]
        BY <2>1, <3>2 DEF Asks
      <4> QED
        BY <1>1, <2>1, <3>2, <4>1, GoesInv DEF Asks, UnderWay
    <3> QED
      BY <3>1, <3>2
  <2>2. ASSUME NEW c \in Chats, Tracked(c) PROVE ChatIInv'
    <3>1. event[Asked[c]] = "none"
      BY <1>1, <2>2 DEF Tracked, ChatIInv, StageOfAction, UnderWay
    <3> QED
      BY <1>1, <2>2, <3>1, RepliesInv DEF Tracked
  <2>3. ASSUME NEW c \in Chats, Says(c) \/ Explains(c) PROVE ChatIInv'
    <3>1. event[Asked[c]] = "none" /\ Replies(c, "words") /\ UNCHANGED vars
      BY <1>1, <2>3 DEF Says, Explains, ChatIInv, StageOfAction, UnderWay
    <3> QED
      BY <1>1, <3>1, RepliesInv
  <2>4. ASSUME NEW c \in Chats, Decides(c) PROVE ChatIInv'
    BY <1>1, <2>4, GoesInv DEF Decides, Goes, UnderWay
  <2>5. ASSUME NEW c \in Chats, Wonders(c) PROVE ChatIInv'
    BY <1>1, <2>5, GoesInv DEF Wonders, Goes, UnderWay
  <2>6. ASSUME NEW c \in Chats, Sees(c) PROVE ChatIInv'
    <3>1. CASE Goes(c, "explains")
      BY <1>1, <2>6, <3>1, GoesInv DEF Sees, Goes, UnderWay
    <3>2. CASE Replies(c, "words")
      <4>1. event[Asked[c]] = "none" /\ UNCHANGED vars
        BY <1>1, <2>6 DEF Sees, ChatIInv, StageOfAction, UnderWay
      <4> QED
        BY <1>1, <3>2, <4>1, RepliesInv
    <3> QED
      BY <2>6, <3>1, <3>2 DEF Sees
  <2>7. ASSUME NEW c \in Chats, Acted(c) PROVE ChatIInv'
    <3>1. CASE Replies(c, ReplyTo(event[Asked[c]]))
      BY <1>1, <2>7, <3>1, RepliesInv DEF Acted, ReplyTo
    <3>2. CASE Goes(c, "died")
      BY <1>1, <2>7, <3>2, GoesInv DEF Acted, Goes, UnderWay
    <3> QED
      BY <2>7, <3>1, <3>2 DEF Acted
  <2>8. ASSUME NEW c \in Chats, Dies(c) PROVE ChatIInv'
    BY <1>1, <2>8, GoesInv DEF Dies, Goes, UnderWay
  <2>9. CASE OthersAct \/ UNCHANGED allVars
    BY <1>1, <2>9, OthersInv
  <2> QED
    BY <1>1, <2>1, <2>2, <2>3, <2>4, <2>5, <2>6, <2>7, <2>8, <2>9 DEF ChatNext
<1>2. ChatIInv => ChatInv
  BY DEF ChatIInv
<1>3. CoordinatorInv => TypeOK
  BY DEF CoordinatorInv
<1>4. ChatBehaviour => []CoordinatorInv
  BY ChatsAreClients, BodyIsTrue, PTL
<1>5. ChatIInv /\ TypeOK /\ [ChatNext]_allVars => ChatIInv'
  BY <1>1
<1> QED
  BY ChatInitInv, <1>2, <1>3, <1>4, <1>5, PTL DEF ChatBehaviour
=============================================================================
