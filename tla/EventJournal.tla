---------------------------- MODULE EventJournal ----------------------------
(***************************************************************************)
(* The brain's event journal (brain/app/journal.py): callers put events    *)
(* into a bounded queue, a writer thread takes them in batches and commits *)
(* each batch in one SQLite transaction.  A durable append waits for the   *)
(* commit, at most 5 s; a sample is put without waiting and never          *)
(* answered.  brain/app/main.py clears the table when the brain starts and *)
(* closes the journal when it stops.                                       *)
(*                                                                         *)
(* Events are numbered in the order in which append is called.             *)
(***************************************************************************)
EXTENDS Integers, Sequences, FiniteSets

CONSTANTS
  Callers,     \* threads that call append; each waits for its own call
  QueueLimit,  \* capacity of the queue (maxsize)
  BatchMax,    \* events in a batch (50 in the code)
  MaxEvents,   \* bound: calls of append
  MaxFails,    \* bound: transactions that fail
  MaxCrashes   \* bound: ends of the process, orderly or not

ASSUME JournalAssumption ==
  /\ QueueLimit \in Nat \ {0} /\ BatchMax \in Nat \ {0}
  /\ MaxEvents \in Nat /\ MaxFails \in Nat /\ MaxCrashes \in Nat

VARIABLES
  up,        \* the brain process runs
  event,     \* event[c]: what c appends, 0 between calls
  waits,     \* waits[c]: "put" for room in the queue, "commit" for the writer
  samples,   \* the events that are samples (telemetry, tracking, event loop)
  answer,    \* answer[e]: what append returned or raised, "none" before
  queue,     \* _queue; 0 is the None that close() puts
  writer,    \* place of _writer_loop: "get", "fill", "check" or "gone"
  batch,     \* the events the writer has taken
  stopping,  \* _stopping
  closing,   \* progress of close(): "no", "put", "join"
  rows,      \* table brain_events: records of a sequence and an event
  lastSeq,   \* sqlite_sequence: the last sequence AUTOINCREMENT gave
  failed,    \* events whose transaction failed
  \* history, for the properties
  told,      \* told[e]: the sequence append returned with e, 0 if none
  before,    \* before[e]: the events whose append had returned when e's was called
  inTime,    \* events in the queue when close() was called
  numbered,  \* every row ever committed
  fails, crashes

calls == <<event, waits, answer, samples>>
thread == <<queue, writer, batch, stopping>>
table == <<rows, lastSeq, numbered>>
journal == <<up, calls, thread, closing, table, failed, told, before, inTime, fails, crashes>>

Known == DOMAIN answer
Stop == 0
Elements(s) == {s[i] : i \in DOMAIN s}
Room == Len(queue) < QueueLimit
Committed(e) == \E r \in numbered : r.event = e

JournalInit ==
  /\ up = TRUE
  /\ event = [c \in Callers |-> 0] /\ waits = [c \in Callers |-> "no"]
  /\ samples = {} /\ answer = <<>> /\ told = <<>> /\ before = <<>>
  /\ queue = <<>> /\ writer = "get" /\ batch = <<>> /\ stopping = FALSE
  /\ closing = "no" /\ rows = {} /\ lastSeq = 0 /\ numbered = {}
  /\ failed = {} /\ inTime = {}
  /\ fails \in 0..MaxFails /\ crashes \in 0..MaxCrashes

-----------------------------------------------------------------------------
\* append: a sample goes into the queue if there is room and is forgotten if not;
\* a durable event is waited for, first for room and then for its commit.
Called(e) ==
  /\ before' = Append(before, {d \in Known : answer[d] # "none"})
  /\ told' = Append(told, 0)

AppendSample(c) ==
  LET e == Len(answer) + 1 IN
  /\ up /\ event[c] = 0 /\ e <= MaxEvents
  /\ queue' = IF Room THEN Append(queue, e) ELSE queue
  /\ answer' = Append(answer, "event") /\ samples' = samples \cup {e}
  /\ Called(e)
  /\ UNCHANGED <<up, event, waits, writer, batch, stopping, closing, table, failed,
                 inTime, fails, crashes>>

AppendDurable(c) ==
  LET e == Len(answer) + 1 IN
  /\ up /\ event[c] = 0 /\ e <= MaxEvents
  /\ event' = [event EXCEPT ![c] = e]
  /\ waits' = [waits EXCEPT ![c] = IF Room THEN "commit" ELSE "put"]
  /\ queue' = IF Room THEN Append(queue, e) ELSE queue
  /\ answer' = Append(answer, "none")
  /\ Called(e)
  /\ UNCHANGED <<up, samples, writer, batch, stopping, closing, table, failed, inTime,
                 fails, crashes>>

PutNow(c) ==
  /\ up /\ waits[c] = "put" /\ Room
  /\ queue' = Append(queue, event[c])
  /\ waits' = [waits EXCEPT ![c] = "commit"]
  /\ UNCHANGED <<up, event, samples, answer, writer, batch, stopping, closing, table, failed,
                 told, before, inTime, fails, crashes>>

Return(c, how, seq) ==
  /\ answer' = [answer EXCEPT ![event[c]] = how]
  /\ told' = [told EXCEPT ![event[c]] = seq]
  /\ event' = [event EXCEPT ![c] = 0] /\ waits' = [waits EXCEPT ![c] = "no"]
  /\ UNCHANGED <<up, samples, thread, closing, table, failed, before, inTime, fails,
                 crashes>>

\* queue.Full after 5 s: the event is dropped and returned as if it had been kept.
PutTimeout(c) == up /\ waits[c] = "put" /\ ~Room /\ Return(c, "event", 0)

\* Mutant of Settled: the caller has its sequence before the transaction.
SettledEarly(c) ==
  /\ up /\ waits[c] = "commit"
  /\ \E i \in DOMAIN batch : batch[i] = event[c] /\ Return(c, "event", lastSeq + i)

\* completed is set once the writer is through with the batch.
Settled(c) ==
  /\ up /\ waits[c] = "commit"
  /\ \/ event[c] \in failed /\ Return(c, "error", 0)
     \/ \E r \in numbered : r.event = event[c] /\ Return(c, "event", r.seq)

CommitTimeout(c) ==
  /\ up /\ waits[c] = "commit" /\ event[c] \notin failed /\ ~Committed(event[c])
  /\ Return(c, "timeout", 0)

-----------------------------------------------------------------------------
\* _writer_loop.  A None that comes first ends it; a None behind other events
\* closes the batch and sets _stopping.
Get ==
  /\ up /\ writer = "get" /\ queue # <<>>
  /\ queue' = Tail(queue)
  /\ \/ Head(queue) = Stop /\ writer' = "gone" /\ batch' = <<>>
     \/ Head(queue) # Stop /\ writer' = "fill" /\ batch' = <<Head(queue)>>
  /\ UNCHANGED <<up, calls, stopping, closing, table, failed, told, before, inTime,
                 fails, crashes>>

Fill ==
  /\ up /\ writer = "fill" /\ Len(batch) < BatchMax /\ queue # <<>>
  /\ queue' = Tail(queue)
  /\ \/ Head(queue) = Stop /\ stopping' = TRUE /\ writer' = "full" /\ UNCHANGED batch
     \/ Head(queue) # Stop /\ batch' = Append(batch, Head(queue)) /\ UNCHANGED <<stopping, writer>>
  /\ UNCHANGED <<up, calls, closing, table, failed, told, before, inTime, fails, crashes>>

\* The rows of a batch are numbered from the last sequence on, also if rows have
\* been deleted since.
BatchRows == {[seq |-> lastSeq + i, event |-> batch[i]] : i \in DOMAIN batch}

Commit ==
  /\ up /\ writer \in {"fill", "full"}
  /\ rows' = rows \cup BatchRows /\ numbered' = numbered \cup BatchRows
  /\ lastSeq' = lastSeq + Len(batch)
  /\ batch' = <<>> /\ writer' = "check"
  /\ UNCHANGED <<up, calls, queue, stopping, closing, failed, told, before, inTime,
                 fails, crashes>>

\* A statement or the commit fails: all of the batch is rolled back, AUTOINCREMENT's
\* counter included, and every durable append in it raises.
Rollback ==
  /\ up /\ writer \in {"fill", "full"} /\ fails < MaxFails
  /\ failed' = failed \cup Elements(batch)
  /\ batch' = <<>> /\ writer' = "check" /\ fails' = fails + 1
  /\ UNCHANGED <<up, calls, queue, stopping, closing, table, told, before, inTime, crashes>>

\* `if self._stopping and self._queue.empty(): break`
Check ==
  /\ up /\ writer = "check"
  /\ writer' = IF stopping /\ queue = <<>> THEN "gone" ELSE "get"
  /\ UNCHANGED <<up, calls, queue, batch, stopping, closing, table, failed, told, before,
                 inTime, fails, crashes>>

-----------------------------------------------------------------------------
\* close: _stopping, then None into the queue, then join for at most 5 s.
Close ==
  /\ up /\ closing = "no" /\ crashes < MaxCrashes
  /\ IF stopping THEN closing' = "join" /\ UNCHANGED stopping
                 ELSE closing' = "put" /\ stopping' = TRUE
  /\ inTime' = Elements(queue) \cup Elements(batch)
  /\ UNCHANGED <<up, calls, queue, writer, batch, table, failed, told, before, fails, crashes>>

PutStop ==
  /\ up /\ closing = "put" /\ Room
  /\ queue' = Append(queue, Stop) /\ closing' = "join"
  /\ UNCHANGED <<up, calls, writer, batch, stopping, table, failed, told, before, inTime,
                 fails, crashes>>

\* The process ends after close, or at any moment; the writer is a daemon thread.
Exit ==
  /\ up /\ crashes < MaxCrashes
  /\ up' = FALSE /\ crashes' = crashes + 1
  /\ event' = [c \in Callers |-> 0] /\ waits' = [c \in Callers |-> "no"]
  /\ answer' = [e \in Known |-> IF answer[e] = "none" THEN "lost" ELSE answer[e]]
  /\ queue' = <<>> /\ batch' = <<>> /\ writer' = "gone" /\ inTime' = {}
  /\ UNCHANGED <<samples, stopping, closing, table, failed, told, before, fails>>

\* get_brain_coordinator(reset=True): a new journal on the same file, cleared.
Start ==
  /\ ~up /\ up' = TRUE
  /\ stopping' = FALSE /\ closing' = "no" /\ writer' = "get"
  /\ rows' = {}
  /\ UNCHANGED <<calls, queue, batch, lastSeq, numbered, failed, told, before, inTime,
                 fails, crashes>>

JournalNext ==
  \/ \E c \in Callers :
       \/ AppendSample(c) \/ AppendDurable(c) \/ PutNow(c) \/ PutTimeout(c)
       \/ Settled(c) \/ CommitTimeout(c)
  \/ Get \/ Fill \/ Commit \/ Rollback \/ Check
  \/ Close \/ PutStop \/ Exit \/ Start

-----------------------------------------------------------------------------
JournalType ==
  /\ up \in BOOLEAN /\ stopping \in BOOLEAN
  /\ event \in [Callers -> 0..MaxEvents] /\ waits \in [Callers -> {"no", "put", "commit"}]
  /\ answer \in Seq({"none", "event", "timeout", "error", "lost"}) /\ Len(answer) <= MaxEvents
  /\ samples \subseteq Known
  /\ told \in Seq(Nat) /\ Len(told) = Len(answer) /\ Len(before) = Len(answer)
  /\ queue \in Seq(0..MaxEvents) /\ Len(queue) <= QueueLimit
  /\ batch \in Seq(1..MaxEvents) /\ Len(batch) <= BatchMax
  /\ writer \in {"get", "fill", "full", "check", "gone"}
  /\ closing \in {"no", "put", "join"}
  /\ \A r \in numbered : r.seq \in 1..lastSeq /\ r.event \in Known
  /\ rows \subseteq numbered

\* A sequence that append returns is the event's, committed, and nobody else's, also
\* if transactions fail and numbers are given again.
AnswerIsCommitted ==
  \A e \in Known : told[e] # 0 =>
    {r \in numbered : r.seq = told[e] \/ r.event = e} = {[seq |-> told[e], event |-> e]}

\* Events are numbered in the order of their calls: one that was appended after the
\* append of another had returned, in whatever way, comes after it, although the
\* first may have timed out and been committed later.
InOrderOfCalls ==
  \A r, s \in numbered : r.event \in before[s.event] => r.seq < s.seq

\* close() loses nothing: when the writer is gone, what was in the queue at close()
\* has been committed or has failed.
ClosedIsDrained ==
  up /\ writer = "gone" => \A e \in inTime \ {Stop} : Committed(e) \/ e \in failed

\* What the journal owes to those who append and to those who close it.
JournalInv == JournalType /\ AnswerIsCommitted /\ InOrderOfCalls /\ ClosedIsDrained
=============================================================================
