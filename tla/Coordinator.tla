---------------------------- MODULE Coordinator ----------------------------
(***************************************************************************)
(* The actions of BrainCoordinator (execute_action, transition,            *)
(* register_fault and clear_fault in brain/app/coordinator.py), from the   *)
(* proposal to the terminal event, with the action lease in front of them  *)
(* and the control link behind them.  An intent is one call of             *)
(* execute_action; its executor is one command through ActuatorBroker.     *)
(*                                                                         *)
(* The lease is that of LeaseContract, which ResourceLease implements.  A  *)
(* waiter whose task was cancelled stays in the line here, as it does in   *)
(* the heap: when its turn comes the lease is given to nobody, for good.   *)
(* The barrier stays open: set_foreground_barrier is only called on the    *)
(* GPU lease.                                                              *)
(*                                                                         *)
(* Abstracted: the payloads, texts and correlation ids of the events, the  *)
(* conversation state, the severity of a fault (both sources here are      *)
(* critical), and the motors, reduced to the drive they follow, if any.  A *)
(* command that is carried out after its caller gave up is in ControlLink. *)
(***************************************************************************)
EXTENDS Naturals, FiniteSets

CONSTANTS
  Intents,        \* the actions asked for
  Kind,           \* Kind[t]: "drive", "pivot" (a drive of tracking), "stop", "head"
  Priority,       \* Priority[t]: the WorkPriority it is asked with
  Reacquisition,  \* WorkPriority.target_reacquisition
  Background,     \* WorkPriority.background
  Cancellable,    \* intents whose task other code may cancel
  MaxLosses,      \* bound on the number of control disconnects
  NoIntent

ASSUME CoordinatorAssumption ==
  /\ NoIntent \notin Intents
  /\ Kind \in [Intents -> {"drive", "pivot", "stop", "head"}]
  /\ Priority \in [Intents -> Nat]
  /\ Reacquisition \in Nat /\ Background \in Nat /\ MaxLosses \in Nat
  /\ Cancellable \subseteq Intents

VARIABLES
  line,       \* the action lease: who waits for it, cancelled or not,
  before,     \* who of them came before whom,
  owner,      \* and who has it, or NoIntent
  event,      \* event[t]: the last action.* event recorded for t, "none" before
  gone,       \* intents whose task was cancelled
  doomed,     \* intents the lease is about to cancel for a more urgent one
  obeyed,     \* intents whose command the robot has carried out
  body,       \* state.body
  faults,     \* the sources in _active_faults
  connected,  \* the control link, as its listener has reported it
  losses,
  moving,     \* the drive the motors follow, or NoIntent
  stopped,    \* drives not yet carried out when a stop was completed (history)
  overtook    \* <<s, t>>: the less urgent t was started while stop s waited (history)

lease   == <<line, before, owner>>
task    == <<event, gone, doomed>>
state   == <<body, faults>>
link    == <<connected, losses>>
history == <<stopped, overtook>>
vars    == <<lease, task, obeyed, state, link, moving, history>>

Lease == INSTANCE LeaseContract WITH Tasks <- Intents, NoTask <- NoIntent, closed <- FALSE

Busy == {"looking", "executing_skill"}
Terminal == {"completed", "failed", "cancelled"}
Drives == {t \in Intents : Kind[t] \in {"drive", "pivot"}}
Stops == {t \in Intents : Kind[t] = "stop"}
Pending == {t \in Intents : event[t] \in {"proposed", "approved"}} \ (gone \cup obeyed)

\* t is inside run(): it has the lease and its executor has not returned.
Running(t) == owner = t /\ event[t] = "approved"

Init ==
  /\ line = {} /\ before = {} /\ owner = NoIntent
  /\ event = [t \in Intents |-> "none"]
  /\ gone = {} /\ doomed = {} /\ obeyed = {}
  /\ body = "stationary" /\ faults = {}
  /\ connected = TRUE /\ losses = 0
  /\ moving = NoIntent
  /\ stopped = {} /\ overtook = {}

-----------------------------------------------------------------------------
\* The body state run() enters for t.
BodyFor(t) == IF Kind[t] = "head" THEN "looking" ELSE "executing_skill"

\* Asking for the lease dooms its owner, if that is in run() and of a low priority.
Preempt(t) ==
  doomed' = doomed \cup {u \in Intents : /\ Running(u) /\ Priority[u] >= Reacquisition
                                         /\ Priority[t] < Priority[u]}

\* Mutant of Propose: the body's new state is announced before the lease is there.
ProposeEarly(t) ==
  /\ event[t] = "none"
  /\ event' = [event EXCEPT ![t] = "proposed"]
  /\ Lease!Request(t)
  /\ Preempt(t)
  /\ body' = BodyFor(t)
  /\ UNCHANGED <<gone, obeyed, faults, link, moving, history>>

\* execute_action: action.proposed is recorded and the lease asked for.  If t has it at
\* once, run() begins in the same stretch.
Propose(t) ==
  /\ event[t] = "none"
  /\ Lease!Request(t)
  /\ Preempt(t)
  /\ IF owner' = t
     THEN event' = [event EXCEPT ![t] = "approved"] /\ body' = BodyFor(t)
     ELSE event' = [event EXCEPT ![t] = "proposed"] /\ UNCHANGED body
  /\ UNCHANGED <<gone, obeyed, faults, link, moving, history>>

\* A free lease is given to the next in line, who may be gone.
Grant == Lease!Grant /\ UNCHANGED <<task, obeyed, state, link, moving, history>>

\* What a start of t adds to the history.
Overtaking(t) ==
  {<<s, t>> : s \in {s \in Stops \cap line : Priority[s] < Priority[t]}}

\* Mutant of Start: run() is called without the lease.
StartAnyway(t) ==
  /\ event[t] = "proposed" /\ t \notin gone
  /\ event' = [event EXCEPT ![t] = "approved"]
  /\ body' = BodyFor(t)
  /\ overtook' = overtook \cup Overtaking(t)
  /\ UNCHANGED <<lease, gone, doomed, obeyed, faults, link, moving, stopped>>

\* t wakes up with the lease and run() begins: the body's state, then action.approved.
Start(t) ==
  /\ owner = t /\ event[t] = "proposed" /\ t \notin gone
  /\ event' = [event EXCEPT ![t] = "approved"]
  /\ body' = BodyFor(t)
  /\ overtook' = overtook \cup Overtaking(t)
  /\ UNCHANGED <<lease, gone, doomed, obeyed, faults, link, moving, stopped>>

\* The executor's command is written and the robot carries it out.
Obey(t) ==
  /\ Running(t) /\ t \notin obeyed
  /\ connected
  /\ obeyed' = obeyed \cup {t}
  /\ moving' = CASE t \in Drives -> t
                 [] t \in Stops  -> NoIntent
                 [] OTHER        -> moving
  /\ UNCHANGED <<lease, task, state, link, history>>

\* t's terminal event, then the end of `async with` gives the lease back.
Conclude(t, outcome) ==
  /\ Running(t)
  /\ event' = [event EXCEPT ![t] = outcome]
  /\ Lease!Return
  /\ UNCHANGED <<gone, doomed, obeyed, link, moving, overtook>>

\* The executor returned ok: a completed action clears the actuation fault.
Complete(t) ==
  /\ t \in obeyed
  /\ Conclude(t, "completed")
  /\ faults' = faults \ {"actuation"}
  /\ body' = "stationary"
  /\ stopped' = IF t \in Stops THEN stopped \cup (Pending \cap Drives) ELSE stopped

\* Mutant of Fail: the lease is not given back.
FailKeepingLease(t) ==
  /\ Running(t)
  /\ event' = [event EXCEPT ![t] = "failed"]
  /\ faults' = faults \cup {"actuation"}
  /\ body' = "fault"
  /\ UNCHANGED <<lease, gone, doomed, obeyed, link, moving, history>>

\* The executor raised, or returned ok = False: link, deadline or robot.
Fail(t) ==
  /\ Conclude(t, "failed")
  /\ faults' = faults \cup {"actuation"}
  /\ body' = "fault"
  /\ UNCHANGED stopped

\* tracking_drive refused to send: a policy outcome, which is no fault.
Refuse(t) ==
  /\ Kind[t] = "pivot" /\ t \notin obeyed
  /\ Conclude(t, "cancelled")
  /\ body' = "stationary"
  /\ UNCHANGED <<faults, stopped>>

\* The task that runs is cancelled, by other code or by the lease for a more urgent
\* task.  CancelledError is no Exception: run() records nothing.
CancelOwner(t) ==
  /\ Running(t)
  /\ t \in Cancellable \cup doomed
  /\ gone' = gone \cup {t}
  /\ Lease!Return
  /\ UNCHANGED <<event, doomed, obeyed, state, link, moving, history>>

\* A task that waits is cancelled, in condition.wait() of acquire, where nothing cleans
\* up: its waiter stays in line, or the lease that was reserved for it stays its own.
CancelWaiter(t) ==
  /\ t \in Cancellable /\ event[t] = "proposed" /\ t \notin gone
  /\ gone' = gone \cup {t}
  /\ UNCHANGED <<lease, event, doomed, obeyed, state, link, moving, history>>

\* The robot ends a drive: its duration, the command timeout, or a lost link.
MotionEnds ==
  /\ moving # NoIntent
  /\ moving' = NoIntent
  /\ UNCHANGED <<lease, task, obeyed, state, link, history>>

\* handle_control_connection_change(False).
Disconnect ==
  /\ connected /\ losses < MaxLosses
  /\ connected' = FALSE
  /\ losses' = losses + 1
  /\ faults' = faults \cup {"control_transport"}
  /\ UNCHANGED <<lease, task, obeyed, body, moving, stopped, overtook>>

\* handle_control_connection_change(True).
Reconnect ==
  /\ ~connected
  /\ connected' = TRUE
  /\ faults' = faults \ {"control_transport"}
  /\ UNCHANGED <<lease, task, obeyed, body, losses, moving, history>>

Next ==
  \/ \E t \in Intents :
       \/ Propose(t) \/ Start(t) \/ Obey(t)
       \/ Complete(t) \/ Fail(t) \/ Refuse(t)
       \/ CancelOwner(t) \/ CancelWaiter(t)
  \/ Grant \/ MotionEnds \/ Disconnect \/ Reconnect

Spec == Init /\ [][Next]_vars

\* A free lease does not stay free (ResourceLease): it goes to the next in line, be that
\* one gone.  A task that has it wakes up; and each command has its deadlines: an
\* executor that was started returns or raises.
Fairness ==
  /\ WF_vars(Grant)
  /\ \A t \in Intents : WF_vars(Start(t)) /\ WF_vars(Complete(t) \/ Fail(t) \/ Refuse(t))

FairSpec == Spec /\ Fairness

-----------------------------------------------------------------------------
TypeOK ==
  /\ line \subseteq Intents \ {owner} /\ before \subseteq line \X line
  /\ owner # NoIntent => owner \in Intents /\ event[owner] \in {"proposed", "approved"}
  /\ \A t \in line : event[t] = "proposed"
  /\ moving \in Drives \cup {NoIntent}
  /\ event \in [Intents -> {"none", "proposed", "approved"} \cup Terminal]
  /\ gone \subseteq Intents /\ doomed \subseteq Intents /\ obeyed \subseteq Intents
  /\ body \in Busy \cup {"stationary", "fault"}
  /\ faults \subseteq {"actuation", "control_transport"}
  /\ connected \in BOOLEAN /\ losses \in 0..MaxLosses
  /\ stopped \subseteq Drives
  /\ overtook \subseteq Stops \X Intents

\* What the dashboard, the eyes and the awareness loop are told of the body is the
\* action that runs, and a fault of the body always has its entry among the active
\* faults: a queued, refused or failed action never leaves its mark on another's.
BodyTellsTheTruth ==
  /\ \A t \in Intents : Running(t) => body = BodyFor(t)
  /\ body = "fault" => "actuation" \in faults
  /\ body \in Busy => \E t \in Intents : Running(t) \/ t \in gone

\* Type correctness and the truth about the body: nobody else's mark on the state that
\* the dashboard, the eyes and the awareness loop go by.
CoordinatorInv == TypeOK /\ BodyTellsTheTruth

\* While a stop waits for the lease, at most one less urgent action is started
\* before it: the one that had been given the lease when the stop was asked for.
AtMostOneBeforeStop ==
  \A s \in Stops : Cardinality({t \in Intents : <<s, t>> \in overtook}) <= 1

\* The lease has been given to a task that is gone: nobody will give it back.
LeaseLost == owner \in gone

\* Every proposed action that nobody cancels comes to a terminal event, whatever
\* becomes of the link and of the other actions, or else the lease is lost to a task that
\* was cancelled in line (resource_lease.py:70-112): there is no third way to be stuck.
EveryActionConcludes ==
  \A t \in Intents :
    event[t] \in {"proposed", "approved"} ~> event[t] \in Terminal \/ t \in gone \/ LeaseLost

\* No drive that was asked for before a stop is started after it.  It does not hold: see
\* the README, section 3.
NoMotionAfterStop == moving \notin stopped
============================================================================
