--------------------------- MODULE ActuatorBroker ---------------------------
(***************************************************************************)
(* ActuatorBroker of brain/app/control_channel.py: the only producer of    *)
(* head and body commands.  Manual and tracking callers ask for head       *)
(* poses; one slot keeps the latest, one worker sends it, and a connection *)
(* listener restores the desired pose after a reconnect.                   *)
(*                                                                         *)
(* Head requests are numbered in the order of head_target calls; number n  *)
(* is also the pose that request n asks for, and 0 is the pose (90, 90).   *)
(* The event loop is first come first served, so those who wait for the    *)
(* channel to be ready and those who call send() later write in that order *)
(* (`line`).                                                               *)
(*                                                                         *)
(* Abstracted: the angles (whether a pose is within                        *)
(* minimum_head_change_degrees of the last one sent is a free choice), the *)
(* statistics, the length of the manual lease and of the rate interval,    *)
(* and the eyes, which have no slot and no lease: see Expression.  The     *)
(* body commands of manual callers (drive, stop) only take the lease here; *)
(* ControlLink has them.                                                   *)
(***************************************************************************)
EXTENDS Naturals, Sequences, SequencesExt

CONSTANTS
  MaxRequests,  \* bound on the number of head requests
  MaxLosses     \* bound on the number of times the connection is lost

ASSUME BrokerAssumption == MaxRequests \in Nat /\ MaxLosses \in Nat

VARIABLES
  ready,     \* channel._ready: wait_ready() returns
  losses,
  lease,     \* now < _manual_lease_until
  fresh,     \* tracking requests whose authorization() holds
  source,    \* source[n]: "manual" or "tracking"
  answer,    \* answer[n]: the result of request n's future, "none" before
  desired,   \* _desired_head
  slot,      \* _head_target, 0 for None
  queued,    \* the requests whose futures are in the slot's waiters
  job,       \* the target the worker has taken, 0 for none
  served,    \* the requests whose futures are in the job's waiters
  stage,     \* where the worker is: "idle", "pacing", "sending", "written"
  lastSent,  \* _last_head_sent, 0 for None
  line,      \* who is inside channel.send and has not written: the worker and
             \* the listener, with the pose
  restoring, \* _on_connection(True) has not returned
  head,      \* the pose of the last head_target the robot has carried out
  pivot,     \* tracking_drive: "none", "waiting" in wait_ready, "sent"
  mayPivot   \* authorization() of that tracking_drive

caller == <<source, answer, desired, slot, queued>>
worker == <<job, served, stage, lastSent>>
body   == <<pivot, mayPivot>>
vars   == <<ready, losses, lease, fresh, caller, worker, line, restoring, head, body>>

Requests == DOMAIN source
Sources == {"manual", "tracking"}

Init ==
  /\ ready = FALSE /\ losses = 0 /\ lease = FALSE /\ fresh = {}
  /\ source = <<>> /\ answer = <<>> /\ desired = 0 /\ slot = 0 /\ queued = {}
  /\ job = 0 /\ served = {} /\ stage = "idle" /\ lastSent = 0
  /\ line = <<>> /\ restoring = FALSE /\ head = 0
  /\ pivot = "none" /\ mayPivot = FALSE

-----------------------------------------------------------------------------
\* The futures of the requests in who are given result r.
Resolve(who, r) == [n \in DOMAIN answer |->
                      IF n \in who /\ answer[n] = "none" THEN r ELSE answer[n]]

\* Mutants of Queue: a newer target takes the slot and forgets the older one's
\* waiters; a newer target joins the older one, which stays; the desired pose is
\* only set the first time.
QueueForgetting(n) == desired' = n /\ slot' = n /\ queued' = {n}
QueueBehind(n) ==
  desired' = n /\ slot' = (IF slot = 0 THEN n ELSE slot) /\ queued' = queued \cup {n}
QueueOnly(n) ==
  desired' = (IF desired = 0 THEN n ELSE desired) /\ slot' = n /\ queued' = queued \cup {n}

\* head_target past its first check: request n is the desired pose and replaces
\* what is in the slot, whose waiters it takes over.
Queue(n) ==
  /\ desired' = n
  /\ slot' = n
  /\ queued' = queued \cup {n}

\* head_target by manual control, before which main suspends tracking
\* (suspend_for_manual_control).
ManualHead ==
  /\ Len(source) < MaxRequests
  /\ source' = Append(source, "manual")
  /\ answer' = Append(answer, "none")
  /\ lease' = TRUE
  /\ fresh' = {} /\ mayPivot' = FALSE
  /\ Queue(Len(source'))
  /\ UNCHANGED <<ready, losses, worker, line, restoring, head, pivot>>

\* head_target by tracking_head_command, which asks for the authorization first.
TrackingHead ==
  /\ Len(source) < MaxRequests
  /\ source' = Append(source, "tracking")
  /\ IF lease
     THEN /\ answer' = Append(answer, "refused")
          /\ UNCHANGED <<fresh, desired, slot, queued>>
     ELSE /\ answer' = Append(answer, "none")
          /\ fresh' = fresh \cup {Len(source')}
          /\ Queue(Len(source'))
  /\ UNCHANGED <<ready, losses, lease, worker, line, restoring, head, body>>

\* drive() or stop() by manual control.
ManualBody ==
  /\ lease' = TRUE
  /\ fresh' = {} /\ mayPivot' = FALSE
  /\ UNCHANGED <<ready, losses, caller, worker, line, restoring, head, pivot>>

\* manual_lease_seconds have passed.
LeaseEnds ==
  /\ lease
  /\ lease' = FALSE
  /\ UNCHANGED <<ready, losses, fresh, caller, worker, line, restoring, head, body>>

\* motion_authorized turns false for what tracking has asked for so far: its
\* generation has changed, its frame is half a second old, or it was stopped.
Expire ==
  /\ fresh # {} \/ mayPivot
  /\ fresh' = {} /\ mayPivot' = FALSE
  /\ UNCHANGED <<ready, losses, lease, caller, worker, line, restoring, head, pivot>>

\* The worker answers the job's waiters with r and looks into the slot again.
WorkerAnswers(r) ==
  /\ answer' = Resolve(served, r)
  /\ stage' = "idle" /\ job' = 0 /\ served' = {}

\* _head_loop takes the slot and sleeps for the rest of the rate interval.
TakeSlot ==
  /\ stage = "idle" /\ slot # 0
  /\ job' = slot /\ served' = queued /\ stage' = "pacing"
  /\ slot' = 0 /\ queued' = {}
  /\ UNCHANGED <<ready, losses, lease, fresh, source, answer, desired, lastSent,
                 line, restoring, head, body>>

\* _head_loop after the sleep: refuse, skip as too near, or send.
Decide ==
  /\ stage = "pacing"
  /\ \/ /\ source[job] = "tracking"
        /\ job \notin fresh \/ lease
        /\ WorkerAnswers("refused")
        /\ UNCHANGED line
     \/ /\ source[job] = "tracking" /\ job \in fresh /\ ~lease
        /\ lastSent # 0
        /\ WorkerAnswers("near")
        /\ UNCHANGED line
     \/ /\ source[job] = "tracking" => job \in fresh /\ ~lease
        /\ stage' = "sending"
        /\ line' = Append(line, [who |-> "worker", pose |-> job])
        /\ UNCHANGED <<job, served, answer>>
  /\ UNCHANGED <<ready, losses, lease, fresh, source, desired, slot, queued, lastSent,
                 restoring, head, body>>

\* channel.send() writes for the first in line; the robot carries it out, or the
\* command is lost or refused.
Write ==
  /\ ready /\ line # <<>>
  /\ line' = Tail(line)
  /\ head' \in {head, Head(line).pose}
  /\ IF Head(line).who = "worker"
     THEN stage' = "written" /\ UNCHANGED restoring
     ELSE restoring' = FALSE /\ UNCHANGED stage
  /\ UNCHANGED <<ready, losses, lease, fresh, caller, job, served, lastSent, body>>

\* The worker's send() returns: the ack is there.
Acked ==
  /\ stage = "written" /\ ready
  /\ head >= job
  /\ WorkerAnswers("ok")
  /\ lastSent' = job
  /\ UNCHANGED <<ready, losses, lease, fresh, source, desired, slot, queued,
                 line, restoring, head, body>>

\* The worker's send() raises: wait_ready or the ack took too long, the ack said
\* no, or the connection was lost.
SendFails ==
  /\ stage \in {"sending", "written"}
  /\ stage = "sending" => ~ready
  /\ \/ stage = "sending"
        /\ \E i \in DOMAIN line : line[i].who = "worker" /\ line' = RemoveAt(line, i)
     \/ stage = "written" /\ UNCHANGED line
  /\ WorkerAnswers("failed")
  /\ UNCHANGED <<ready, losses, lease, fresh, source, desired, slot, queued, lastSent,
                 restoring, head, body>>

\* The channel is ready, and _on_connection sends the desired pose.
LinkUp ==
  /\ ~ready
  /\ ready' = TRUE
  /\ restoring' = TRUE
  /\ line' = Append(line, [who |-> "listener", pose |-> desired])
  /\ UNCHANGED <<losses, lease, fresh, caller, worker, head, body>>

\* The connection is lost.  _run gets to its finally block when the listener has
\* returned; a send that waits for its ack fails.
LinkDown ==
  /\ ready /\ ~restoring
  /\ losses < MaxLosses
  /\ losses' = losses + 1
  /\ ready' = FALSE
  /\ lastSent' = 0
  /\ IF stage = "written" THEN WorkerAnswers("failed")
                          ELSE UNCHANGED <<answer, stage, job, served>>
  /\ UNCHANGED <<lease, fresh, source, desired, slot, queued, line, restoring, head, body>>

\* tracking_drive up to wait_ready.
TrackingDrive ==
  /\ pivot # "waiting"
  /\ ~lease
  /\ pivot' = "waiting" /\ mayPivot' = TRUE
  /\ UNCHANGED <<ready, losses, lease, fresh, caller, worker, line, restoring, head>>

\* tracking_drive goes on: it asks for the authorization again and sends.
PivotGoes ==
  /\ pivot = "waiting" /\ ready
  /\ pivot' = IF mayPivot THEN "sent" ELSE "none"
  /\ UNCHANGED <<ready, losses, lease, fresh, caller, worker, line, restoring, head, mayPivot>>

\* wait_ready has timed out.
PivotFails ==
  /\ pivot = "waiting" /\ ~ready
  /\ pivot' = "none"
  /\ UNCHANGED <<ready, losses, lease, fresh, caller, worker, line, restoring, head, mayPivot>>

Next ==
  \/ ManualHead \/ TrackingHead \/ ManualBody \/ LeaseEnds \/ Expire
  \/ TakeSlot \/ Decide \/ Write \/ Acked \/ SendFails
  \/ LinkUp \/ LinkDown
  \/ TrackingDrive \/ PivotGoes \/ PivotFails

Spec == Init /\ [][Next]_vars

\* The worker is a task that runs for ever; each send() has its deadlines.
Fairness ==
  /\ WF_vars(TakeSlot \/ Decide) /\ WF_vars(Write)
  /\ WF_vars(Acked \/ SendFails)

FairSpec == Spec /\ Fairness

-----------------------------------------------------------------------------
TypeOK ==
  /\ ready \in BOOLEAN /\ losses \in 0..MaxLosses /\ lease \in BOOLEAN
  /\ source \in Seq(Sources) /\ Len(source) <= MaxRequests
  /\ answer \in Seq({"none", "ok", "near", "refused", "failed"})
  /\ DOMAIN answer = Requests
  /\ fresh \subseteq Requests
  /\ desired \in {0} \cup Requests /\ slot \in {0} \cup Requests
  /\ job \in {0} \cup Requests /\ (stage = "idle" <=> job = 0)
  /\ queued \subseteq Requests /\ served \subseteq Requests
  /\ stage \in {"idle", "pacing", "sending", "written"}
  /\ lastSent \in {0} \cup Requests /\ head \in {0} \cup Requests
  /\ line \in Seq([who : {"worker", "listener"}, pose : {0} \cup Requests])
  /\ restoring \in BOOLEAN
  /\ pivot \in {"none", "waiting", "sent"} /\ mayPivot \in BOOLEAN

\* Every caller of head_target gets an answer, whoever replaces its target in the
\* slot and whatever happens to the connection (control_channel.py:467-577).  There are
\* finitely many requests, so it is enough that nobody is without one again and again.
EveryoneAnswered == []<>(\A n \in Requests : answer[n] # "none")

\* A request is answered ok when the robot was sent its pose or that of a later
\* request, never an older one that was queued before it.
OkIsYoursOrNewer == \A n \in Requests : answer[n] = "ok" => head >= n

\* When the robot's head is sent back to a pose that was asked for before the one it
\* has (the worker had slept over the reconnect that restored a newer one), the newer
\* pose is still in the slot and will be sent after it.
OlderOnlyInPassing == [][head' < head => slot' >= head]_vars

\* The listener sends nothing tracking has asked for whose authorization is over.  It
\* does not hold: see the README, section 3.
RestoresNoExpiredGaze ==
  \A i \in DOMAIN line : line[i].who = "listener" /\ line[i].pose # 0 =>
    source[line[i].pose] = "manual" \/ line[i].pose \in fresh
============================================================================
