----------------------------- MODULE Supervisor -----------------------------
(***************************************************************************)
(* The supervisor of the PC stack (Scripts/supervisor.py): it starts the   *)
(* services one after the other, the brain first, waits for each to        *)
(* answer on its port, restarts side-cars that exit, and stops everything  *)
(* when the brain exits, a side-car is beyond help, or Ctrl+C is pressed.  *)
(*                                                                         *)
(* Readiness is asked of the port and not of the process: a process left   *)
(* over from an earlier session answers for the new one, which cannot bind *)
(* and exits.                                                              *)
(***************************************************************************)
EXTENDS Integers, Sequences, FiniteSets

CONSTANTS
  RestartLimit,  \* Service.restart_limit, 3 in the code
  MaxDeaths,     \* bound: processes that exit by themselves
  MaxInterrupts  \* bound: times Ctrl+C is pressed

ASSUME SupervisorAssumption ==
  RestartLimit \in Nat /\ MaxDeaths \in Nat /\ MaxInterrupts \in Nat

\* The services in the order of order_services_for_startup.
Services == <<"pc-brain", "llama-server", "embedding-server", "voice", "tracking">>
Names == {Services[i] : i \in DOMAIN Services}
Brain == "pc-brain"
Optional == {"embedding-server"}
Watched == Names \ ({Brain} \cup Optional)

VARIABLES
  at,        \* place in main: "prepare", "launch", "await", "prewarm", "watch",
             \* "backoff", "reawait", "stop" or "end"
  cur,       \* the service main is at
  process,   \* process[s]: "none", "booting", "serving" or "exited"
  count,     \* count[s]: restart_count
  started,   \* started, in order
  stray,     \* services whose port a process of an earlier session holds
  \* history
  reached,   \* services that wait_ready has found ready
  launches,  \* launches[s]: processes created for s
  quit,      \* Ctrl+C has been pressed while the services were being stopped
  deaths, interrupts

vars == <<at, cur, process, count, started, stray, reached, launches, quit, deaths, interrupts>>

Alive(s) == process[s] \in {"booting", "serving"}
Ready(s) == process[s] = "serving" \/ s \in stray
Here == Services[cur]
Trying == at \notin {"stop", "end"}

Init ==
  /\ at = "prepare" /\ cur = 1
  /\ process = [s \in Names |-> "none"] /\ count = [s \in Names |-> 0]
  /\ started = <<>> /\ stray \in {{}} \cup {{s} : s \in Names}
  /\ reached = {} /\ launches = [s \in Names |-> 0]
  /\ quit = FALSE /\ deaths = 0 /\ interrupts = 0

GoTo(place, i) == at' = place /\ cur' = i
Fail == GoTo("stop", Len(started'))

-----------------------------------------------------------------------------
\* The processes themselves: one comes up unless its port is taken, or exits.
Boot(s) ==
  /\ process[s] = "booting"
  /\ process' = [process EXCEPT ![s] = IF s \in stray THEN "exited" ELSE "serving"]
  /\ UNCHANGED <<at, cur, count, started, stray, reached, launches, quit, deaths, interrupts>>

Die(s) ==
  /\ Alive(s) /\ deaths < MaxDeaths
  /\ process' = [process EXCEPT ![s] = "exited"] /\ deaths' = deaths + 1
  /\ UNCHANGED <<at, cur, count, started, stray, reached, launches, quit, interrupts>>

\* stop_stack.py, run by hand: whatever holds the port is killed.
StopStale(s) ==
  /\ s \in stray /\ stray' = stray \ {s}
  /\ UNCHANGED <<at, cur, process, count, started, reached, launches, quit, deaths, interrupts>>

-----------------------------------------------------------------------------
\* Startup.  run_preparation may fail, before the first service and after the model
\* server.
Prepare ==
  /\ at \in {"prepare", "prewarm"}
  /\ UNCHANGED started
  /\ \/ at = "prepare" /\ GoTo("launch", 1)
     \/ at = "prewarm" /\ GoTo("launch", cur + 1)
     \/ Fail
  /\ UNCHANGED <<process, count, stray, reached, launches, quit, deaths, interrupts>>

Onward ==
  IF Here = "llama-server" THEN GoTo("prewarm", cur)
  ELSE IF cur < Len(Services) THEN GoTo("launch", cur + 1) ELSE GoTo("watch", 1)

Popen(s) ==
  /\ process' = [process EXCEPT ![s] = "booting"]
  /\ launches' = [launches EXCEPT ![s] = @ + 1]

\* Mutant of Launch: the service is remembered only when the next one is started.
LaunchUnlisted ==
  /\ at = "launch"
  /\ started' = IF cur = 1 THEN <<>> ELSE Append(started, Services[cur - 1])
  /\ \/ Popen(Here) /\ GoTo("await", cur)
     \/ Here \in Optional /\ Onward /\ UNCHANGED <<process, launches>>
  /\ UNCHANGED <<count, stray, reached, quit, deaths, interrupts>>

\* A service is remembered as started before it is; an optional one is skipped if its
\* model is missing.
Launch ==
  /\ at = "launch" /\ started' = Append(started, Here)
  /\ \/ Popen(Here) /\ GoTo("await", cur)
     \/ Here \in Optional /\ Onward /\ UNCHANGED <<process, launches>>
  /\ UNCHANGED <<count, stray, reached, quit, deaths, interrupts>>

\* wait_ready: the process has exited, the port answers, or time is up.
WaitReady(go, fail) ==
  /\ UNCHANGED <<process, count, started, stray, launches, quit, deaths, interrupts>>
  /\ \/ Alive(Here) /\ Ready(Here) /\ reached' = reached \cup {Here} /\ go
     \/ (~Alive(Here) \/ ~Ready(Here)) /\ fail /\ UNCHANGED reached

Await == at = "await" /\ WaitReady(Onward, IF Here \in Optional THEN Onward ELSE Fail)

-----------------------------------------------------------------------------
\* Mutant of NextService: the last service is not watched.
NextButLast == IF cur < Len(Services) - 1 THEN GoTo("watch", cur + 1) ELSE GoTo("brain", 1)

\* The watch loop: restart_if_failed for every required side-car, then the brain.
NextService == IF cur < Len(Services) THEN GoTo("watch", cur + 1) ELSE GoTo("brain", 1)

WatchOne ==
  /\ at = "watch"
  /\ \/ /\ Here \notin Watched \/ process[Here] # "exited"
        /\ NextService /\ UNCHANGED <<count, started>>
     \/ /\ Here \in Watched /\ process[Here] = "exited" /\ UNCHANGED started
        /\ IF count[Here] >= RestartLimit
           THEN Fail /\ UNCHANGED count
           ELSE GoTo("backoff", cur) /\ count' = [count EXCEPT ![Here] = @ + 1]
  /\ UNCHANGED <<process, stray, reached, launches, quit, deaths, interrupts>>

Restart ==
  /\ at = "backoff" /\ Popen(Here) /\ GoTo("reawait", cur)
  /\ UNCHANGED <<count, started, stray, reached, quit, deaths, interrupts>>

\* A restart that does not get ready raises out of the loop.
Reawait == at = "reawait" /\ WaitReady(NextService, Fail)

\* Mutant of WatchBrain: only a brain that was never started counts as lost.
WatchBrainForStart ==
  /\ at = "brain" /\ UNCHANGED started
  /\ IF process[Brain] = "none" THEN Fail ELSE GoTo("watch", 1)
  /\ UNCHANGED <<process, count, stray, reached, launches, quit, deaths, interrupts>>

WatchBrain ==
  /\ at = "brain" /\ UNCHANGED started
  /\ IF process[Brain] = "exited" THEN Fail ELSE GoTo("watch", 1)
  /\ UNCHANGED <<process, count, stray, reached, launches, quit, deaths, interrupts>>

-----------------------------------------------------------------------------
\* finally: in reverse order each is asked to stop, then made to.
StopOne ==
  /\ at = "stop"
  /\ \/ /\ cur > 0 /\ GoTo("stop", cur - 1)
        /\ process' = [process EXCEPT ![started[cur]] = IF Alive(started[cur]) THEN "exited" ELSE @]
     \/ cur = 0 /\ GoTo("end", 0) /\ UNCHANGED process
  /\ UNCHANGED <<count, started, stray, reached, launches, quit, deaths, interrupts>>

\* Ctrl+C: the services are stopped; once more, and the supervisor is gone at once.
Interrupt ==
  /\ at # "end" /\ interrupts < MaxInterrupts /\ interrupts' = interrupts + 1
  /\ UNCHANGED started
  /\ \/ Trying /\ Fail /\ UNCHANGED quit
     \/ at = "stop" /\ GoTo("end", 0) /\ quit' = TRUE
  /\ UNCHANGED <<process, count, stray, reached, launches, deaths>>

Main ==
  \/ Prepare \/ Launch \/ Await \/ WatchOne \/ Restart \/ Reawait \/ WatchBrain \/ StopOne

Next ==
  \/ Main \/ Interrupt
  \/ \E s \in Names : Boot(s) \/ Die(s) \/ StopStale(s)

Spec == Init /\ [][Next]_vars

\* The supervisor's own steps all end: each wait has a time limit.
FairSpec == Spec /\ WF_vars(Main)

-----------------------------------------------------------------------------
TypeOK ==
  /\ at \in {"prepare", "launch", "await", "prewarm", "watch", "backoff", "reawait",
             "brain", "stop", "end"}
  /\ cur \in 0..Len(Services) /\ (Trying => cur > 0)
  /\ process \in [Names -> {"none", "booting", "serving", "exited"}]
  /\ count \in [Names -> 0..RestartLimit]
  /\ \E n \in 0..Len(Services) : started = SubSeq(Services, 1, n)
  /\ reached \subseteq Names /\ stray \subseteq Names
  /\ quit \in BOOLEAN

\* The supervisor leaves no service running behind it, wherever in its startup, its
\* restarts or its watch it ended, unless Ctrl+C is pressed a second time.
NoOrphans == at = "end" /\ ~quit => \A s \in Names : ~Alive(s)

\* A service is started when all required ones before it have been ready: one that
\* does not get ready keeps the rest from starting.
StartedInOrder ==
  \A i, j \in DOMAIN Services :
    i < j /\ launches[Services[j]] > 0 => Services[i] \in reached \cup Optional

\* No side-car is started again and again: nobody's restarts outnumber the limit,
\* and the brain and the optional services are never restarted.
RestartsAreBounded ==
  \A s \in Names : launches[s] <= 1 + (IF s \in Watched THEN RestartLimit ELSE 0)

\* Type correctness and the three: nothing is left behind, started too early or
\* started again too often, in any order of exits.
SupervisorInv == TypeOK /\ NoOrphans /\ StartedInOrder /\ RestartsAreBounded

\* The loss of the brain stops the stack in the end, however busy the supervisor is
\* with other services.
BrainLossEnds == process[Brain] = "exited" ~> at = "end"

\* A required side-car that exits is running again in the end, or everything stops.
SidecarsComeBack == \A s \in Watched : process[s] = "exited" ~> (Alive(s) \/ at = "end")

\* Both: whatever exits, the stack is whole again in the end, or has ended.
ExitsAreDealtWith == BrainLossEnds /\ SidecarsComeBack
=============================================================================
