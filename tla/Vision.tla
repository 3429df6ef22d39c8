------------------------------- MODULE Vision -------------------------------
(***************************************************************************)
(* VisionService of brain/app/vision.py on top of the shared frame: the    *)
(* awareness loop with its background job, explicit questions with their   *)
(* second try, the lease of the model both queue for, the carrying forward *)
(* of a snapshot over frames that look the same.                           *)
(*                                                                         *)
(* The lease is used as LeaseContract promises it; that the code keeps the *)
(* promise is shown with ResourceLease.  Abstracted: a frame has changed   *)
(* when its scene has, any frame may be blurred, a snapshot is the scene   *)
(* it shows and the one it tells of; the 30 s between awareness runs may   *)
(* be over at any time, and so may the time of a snapshot.                 *)
(***************************************************************************)
EXTENDS FrameBroker

CONSTANTS Queries  \* tasks that ask explicit questions

ASSUME QueriesAssumption == Consumers = Queries \cup {"loop"} /\ Forcing = Queries
ASSUME NamesAssumption == Queries \cap {"loop", "poll", "job", "nobody"} = {}

VARIABLES
  idle,    \* the conversation is idle
  barrier, \* the foreground barrier of the lease
  line, before, owner, \* the lease of the model: LeaseContract
  preview, \* the scene of _preview
  latest,  \* the last of _snapshots
  loop,    \* the awareness loop: "sleeps", "looks", "awaits" its job, or "dead"
  job,     \* the background job: "none", "queued", until it wakes up with the lease, "infers"
  cancel,  \* _awareness_cancel is set
  doomed,  \* the lease will cancel the task of the job
  query,   \* every query: "none", "looks", "tries" again, or "queued" until its answer
  again,   \* it is on its second try
  outrun   \* history: the queries in line when the job of now began to infer

leaseVars == <<barrier, line, before, owner>>
awareness == <<loop, job, cancel, doomed>>
questions == <<query, again, outrun>>
vars == <<brokerVars, idle, leaseVars, preview, latest, awareness, questions>>

Lease == INSTANCE LeaseContract WITH
  Tasks <- Queries \cup {"job"},
  Priority <- [t \in Queries \cup {"job"} |-> IF t = "job" THEN 50 ELSE 25],
  Background <- 50, NoTask <- "nobody", closed <- barrier

NoSnapshot == [shown |-> "none", told |-> "none"]

Init ==
  /\ BrokerInit
  /\ idle = TRUE /\ barrier = FALSE /\ line = {} /\ before = {} /\ owner = "nobody"
  /\ preview = "none" /\ latest = NoSnapshot
  /\ loop = "sleeps" /\ job = "none" /\ cancel = FALSE /\ doomed = FALSE
  /\ query = [q \in Queries |-> "none"] /\ again = [q \in Queries |-> FALSE]
  /\ outrun = {}

\* A caller takes the frame it was given out of get_frame, or the error.
Taken(c) ==
  /\ at' = [at EXCEPT ![c] = "out"]
  /\ UNCHANGED <<camera, frame, due, lockLine, rate>>

Keeps == UNCHANGED view
LetsGo(c) == view' = [view EXCEPT ![c] = NoFrame]

\* A caller lets go of its frame at the end of an inference.
Done(c) == LetsGo(c) /\ UNCHANGED <<camera, frame, due, lockLine, at, rate>>

Asks(c) == Calls(c) /\ UNCHANGED <<camera, due, view, rate>>

Stored(shown, told) == latest' = [shown |-> shown, told |-> told]

\* A step of the broker alone, or of time.
Sees ==
  /\ BrokerNext
  /\ UNCHANGED <<idle, leaseVars, preview, latest, awareness, questions>>

-----------------------------------------------------------------------------
\* Somebody speaks, which raises the barrier, or types: a background job is asked to
\* stop, and cancelled if the barrier finds it inferring.
Talks ==
  /\ idle
  /\ idle' = FALSE
  /\ \E active \in BOOLEAN :
       /\ Lease!Close(active)
       /\ doomed' = (doomed \/ (active /\ job = "infers"))
  /\ cancel' = (cancel \/ job # "none")
  /\ UNCHANGED <<brokerVars, preview, latest, loop, job, questions>>

FallsSilent ==
  /\ ~idle
  /\ idle' = TRUE
  /\ Lease!Close(FALSE)
  /\ UNCHANGED <<brokerVars, preview, latest, awareness, questions>>

\* The lease goes to a task in line.
Granted ==
  /\ Lease!Grant
  /\ UNCHANGED <<brokerVars, idle, preview, latest, awareness, questions>>

-----------------------------------------------------------------------------
\* _awareness_loop

Wakes ==
  /\ loop = "sleeps" /\ idle
  /\ Asks("loop")
  /\ loop' = "looks"
  /\ UNCHANGED <<idle, leaseVars, preview, latest, job, cancel, doomed,
                 questions>>

\* An error of the camera is none of those that the loop expects.
WakesBlind ==
  /\ loop = "looks" /\ at["loop"] = "failed"
  /\ Taken("loop") /\ LetsGo("loop")
  /\ loop' = "dead"
  /\ UNCHANGED <<idle, leaseVars, preview, latest, job, cancel, doomed,
                 questions>>

Inspects(c) == at[c] = "has" /\ Taken(c) /\ preview' = view[c].scene

\* A blurred frame is of no use.
Squints ==
  /\ loop = "looks" /\ Inspects("loop") /\ LetsGo("loop")
  /\ loop' = "sleeps"
  /\ UNCHANGED <<idle, leaseVars, latest, job, cancel, doomed, questions>>

\* A frame without change takes over what was said before.
Carries ==
  /\ loop = "looks" /\ Inspects("loop") /\ LetsGo("loop")
  /\ preview = view["loop"].scene /\ latest # NoSnapshot
  /\ Stored(view["loop"].scene, latest.told)
  /\ loop' = "sleeps"
  /\ UNCHANGED <<idle, leaseVars, job, cancel, doomed, questions>>

Waiting == {q \in Queries : query[q] = "queued"}

\* For another one a job is started, which gets in line for the model, or has it at once
\* and begins (if the conversation is not idle it ends again as in Squints).  The light
\* may have changed and nothing else.
Starts ==
  /\ loop = "looks" /\ Inspects("loop") /\ Keeps
  /\ loop' = "awaits" /\ cancel' = FALSE
  /\ Lease!Request("job")
  /\ IF owner' = "job"
     THEN idle /\ job' = "infers" /\ outrun' = Waiting
     ELSE job' = "queued" /\ UNCHANGED outrun
  /\ UNCHANGED <<idle, latest, doomed, query, again>>

\* The job is over, and with it the loop's wait for it.
JobOver ==
  /\ Lease!Return
  /\ Done("loop")
  /\ job' = "none" /\ cancel' = FALSE /\ doomed' = FALSE
  /\ UNCHANGED <<idle, preview, questions>>

\* Mutant of Infers: the job begins to infer without a look at the conversation.
InfersAnyway ==
  /\ job = "queued" /\ owner = "job"
  /\ job' = "infers" /\ outrun' = Waiting
  /\ UNCHANGED <<brokerVars, idle, leaseVars, preview, latest, loop, cancel, doomed, query, again>>

\* It wakes up with the lease that was reserved for it, with the conversation idle.
Infers ==
  /\ job = "queued" /\ owner = "job"
  /\ ~cancel /\ idle
  /\ job' = "infers" /\ outrun' = Waiting
  /\ UNCHANGED <<brokerVars, idle, leaseVars, preview, latest, loop, cancel, doomed, query, again>>

\* It comes too late, is told so by the model's end, or the model fails it.
GivesUp ==
  /\ job = "queued" => owner = "job" /\ (cancel \/ ~idle)
  /\ job # "none"
  /\ JobOver
  /\ loop' = "sleeps"
  /\ UNCHANGED latest

\* The model has answered in time.
Finds ==
  /\ job = "infers" /\ ~cancel
  /\ JobOver
  /\ loop' = "sleeps"
  /\ Stored(view["loop"].scene, view["loop"].scene)

\* Mutant of JobCancelled: the loop takes the end of its job for its own.
JobCancelledTakingLoop ==
  /\ doomed /\ job # "none"
  /\ JobOver
  /\ loop' = "dead"
  /\ UNCHANGED latest

\* The lease has cancelled the job's task; the loop goes on.
JobCancelled ==
  /\ doomed /\ job # "none"
  /\ JobOver
  /\ loop' = "sleeps"
  /\ UNCHANGED latest

-----------------------------------------------------------------------------
\* query and _process_explicit

Question(q) ==
  /\ query[q] = "none"
  /\ Asks(q)
  /\ query' = [query EXCEPT ![q] = "looks"] /\ again' = [again EXCEPT ![q] = FALSE]
  /\ UNCHANGED <<idle, leaseVars, preview, latest, awareness, outrun>>

\* A second try, with a frame of its own, or the end of the query, with the last
\* snapshot or an error.
Retries(q) ==
  IF again[q]
  THEN query' = [query EXCEPT ![q] = "none"] /\ UNCHANGED again
  ELSE query' = [query EXCEPT ![q] = "tries"] /\ again' = [again EXCEPT ![q] = TRUE]

LooksAgain(q) ==
  /\ query[q] = "tries"
  /\ Asks(q)
  /\ query' = [query EXCEPT ![q] = "looks"]
  /\ UNCHANGED <<idle, leaseVars, preview, latest, awareness, again, outrun>>

\* An error of the camera goes through to whoever asked.
QueryBlind(q) ==
  /\ query[q] = "looks" /\ at[q] = "failed"
  /\ Taken(q) /\ LetsGo(q)
  /\ query' = [query EXCEPT ![q] = "none"]
  /\ UNCHANGED <<idle, leaseVars, preview, latest, awareness, again, outrun>>

Blurred(q) ==
  /\ query[q] = "looks" /\ Inspects(q) /\ LetsGo(q)
  /\ Retries(q)
  /\ UNCHANGED <<idle, leaseVars, latest, awareness, outrun>>

\* It gets in line for the model.  A background job that infers must go; for one whose
\* lease is only reserved yet there is no _holder_priority to compare with, and it stays.
Queues(q) ==
  /\ query[q] = "looks" /\ Inspects(q) /\ Keeps
  /\ query' = [query EXCEPT ![q] = "queued"]
  /\ Lease!Request(q)
  /\ cancel' = (cancel \/ job = "infers")
  /\ doomed' = (doomed \/ job = "infers")
  /\ UNCHANGED <<idle, latest, loop, job, again, outrun>>

Answered(q) ==
  /\ query[q] = "queued" /\ owner = q
  /\ Lease!Return /\ Done(q)
  /\ \/ /\ Stored(view[q].scene, view[q].scene)
        /\ query' = [query EXCEPT ![q] = "none"] /\ UNCHANGED again
     \/ Retries(q) /\ UNCHANGED latest
  /\ UNCHANGED <<idle, preview, awareness, outrun>>

Next ==
  \/ Sees \/ Talks \/ FallsSilent \/ Granted
  \/ Wakes \/ WakesBlind \/ Squints \/ Carries \/ Starts \/ Infers \/ GivesUp \/ Finds
  \/ JobCancelled
  \/ \E q \in Queries :
       Question(q) \/ LooksAgain(q) \/ QueryBlind(q) \/ Blurred(q) \/ Queues(q) \/ Answered(q)

Spec == Init /\ [][Next]_vars

\* The event loop runs what is ready, the camera and the model answer or fail, timers
\* run out, and whoever talks stops, now and then for long enough to grant a lease.
FairSpec ==
  /\ Spec
  /\ WF_vars(Polls /\ Sees)
  /\ \A c \in Callers : WF_vars(GetFrame(c) /\ Sees)
  /\ SF_vars(Granted) /\ WF_vars(FallsSilent)
  /\ WF_vars(WakesBlind \/ Squints \/ Carries \/ Starts)
  /\ WF_vars(Infers) /\ WF_vars(GivesUp \/ Finds \/ JobCancelled)
  /\ \A q \in Queries :
       WF_vars(LooksAgain(q) \/ QueryBlind(q) \/ Blurred(q) \/ Queues(q) \/ Answered(q))

-----------------------------------------------------------------------------
\* Every variable keeps its type; the lease is with somebody who asked for it.
TypeOK ==
  /\ BrokerType
  /\ {idle, barrier, cancel, doomed} \subseteq BOOLEAN
  /\ preview \in Scenes \cup {"none"}
  /\ latest \in [shown : Scenes, told : Scenes] \cup {NoSnapshot}
  /\ loop \in {"sleeps", "looks", "awaits", "dead"}
  /\ job \in {"none", "queued", "infers"}
  /\ query \in [Queries -> {"none", "looks", "tries", "queued"}]
  /\ again \in [Queries -> BOOLEAN] /\ outrun \subseteq Queries
  /\ owner = "job" => job # "none"
  /\ \A q \in Queries : owner = q => query[q] = "queued"

\* What the model is asked about was taken after the question was put, although the
\* frame is shared and others have it fetched (frame_broker.py:69-98).
FreshIsFresh == \A q \in Queries : query[q] = "queued" => q \in view[q].new

\* Type correctness, and what the shared frame owes to whoever asks for a fresh one and
\* to the polling loop.
SightInv == TypeOK /\ FreshIsFresh /\ RateIsNoticed

\* Awareness adds nothing while somebody talks, whenever that began, nor while a question
\* waits for the model that asked after the job had begun (vision.py:369-376, 391-396,
\* 415-416).  A question that asks while the lease is reserved for a job that has not woken
\* up preempts nothing (resource_lease.py:56): see the README, section 3.
AwarenessYields == [][Finds => idle /\ Waiting \subseteq outrun]_vars

\* Every question gets its answer, or an error (vision.py:296-340).
QueriesEnd == \A q \in Queries : query[q] # "none" ~> query[q] = "none"

\* With a camera that answers and questions that stop, the awareness loop goes on,
\* whatever becomes of its jobs (vision.py:342-384).
AwarenessGoesOn ==
  camera /\ <>[](\A q \in Queries : query[q] = "none") => []<>(loop = "sleeps")

\* Both: nobody waits for ever behind a lock, a lease or a cancelled job.
SightGoesOn == QueriesEnd /\ AwarenessGoesOn

\* A snapshot tells of the scene that its frame shows.  It does not hold where there are
\* two scenes: see the README, section 3.
TellsWhatIsShown == latest.told = latest.shown
=============================================================================
