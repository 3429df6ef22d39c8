---------------------------- MODULE BrainIngest ----------------------------
(***************************************************************************)
(* The watcher that turns brain events into facts                          *)
(* (memory/app/brain_ingest.py): a process of its own that reads the rows  *)
(* of EventJournal behind a watermark kept in a file, and writes to        *)
(* MemoryStore, over one connection for as long as the process runs.       *)
(*                                                                         *)
(* sqlite3 begins a transaction before the first INSERT or UPDATE.  If     *)
(* that fails because the store is locked, the transaction stays open, for *)
(* watch_brain only logs the error: the next SELECT fixes the snapshot it  *)
(* reads, and once another connection has committed since, SQLite refuses  *)
(* every write of it (SQLITE_BUSY_SNAPSHOT).                               *)
(***************************************************************************)
EXTENDS EventJournal, MemoryStore

CONSTANTS
  ClaimOf(_),  \* convert_event: the claim of an event that is no sample
  MaxStops     \* bound: passes that are cut short, watermark files torn

ASSUME ClaimAssumption == \A e \in 1..MaxEvents : ClaimOf(e) \in Claims

VARIABLES
  mark,     \* last_sequence in the state file
  passing,  \* a pass of ingest_brain is under way
  todo,     \* the rows it has read and not yet stored, in order
  top,      \* the last sequence it has read
  txn,      \* its transaction: "none", "begun", or with a snapshot, "fresh" or "stale"
  seen,     \* the source references a stale snapshot shows
  stored,   \* history: events whose occurrence has been recorded
  stops

connection == <<txn, seen>>
watcher == <<mark, passing, todo, top, connection, stored, stops>>
allVars == <<journal, memory, watcher>>

Init ==
  /\ JournalInit /\ StoreInit
  /\ mark = 0 /\ passing = FALSE /\ todo = <<>> /\ top = 0 /\ stored = {} /\ stops \in 0..MaxStops
  /\ txn = "none" /\ seen = {}

-----------------------------------------------------------------------------
\* Mutant of Behind: the row after the watermark is missed.
BehindByOne == {r \in rows : r.seq > mark + 1}

\* Rows behind the watermark, ORDER BY sequence: one statement, one snapshot.
Behind == {r \in rows : r.seq > mark}
InOrder(S) ==
  CHOOSE s \in [1..Cardinality(S) -> S] : \A i, j \in DOMAIN s : i < j => s[i].seq < s[j].seq

ReadEvents ==
  /\ ~passing /\ Behind # {}
  /\ passing' = TRUE /\ todo' = InOrder(Behind)
  /\ top' = InOrder(Behind)[Cardinality(Behind)].seq
  /\ UNCHANGED <<journal, memory, mark, connection, stored, stops>>

\* already_ingested, in the table as the connection sees it.
Sources == {prov[k].ref : k \in DOMAIN prov}
AlreadyIngested(e) == e \in IF txn = "stale" THEN seen ELSE Sources

\* In a transaction that was begun and failed this SELECT fixes the snapshot.
FixSnapshot ==
  /\ todo # <<>> /\ Head(todo).event \notin samples /\ txn = "begun"
  /\ txn' = "fresh"
  /\ UNCHANGED <<journal, memory, mark, passing, todo, top, seen, stored, stops>>

\* The row at the head of todo has to be written, or is no matter.
ToWrite(e) == e \notin samples /\ txn # "begun" /\ ~AlreadyIngested(e)
Skipped(e) == e \in samples \/ (txn # "begun" /\ AlreadyIngested(e))

\* One row: a sample, of which there is nothing to say; an event that is in the store
\* already; or a fact with its provenance, which commits.
IngestRow ==
  LET e == Head(todo).event IN
  /\ todo # <<>>
  /\ \/ Skipped(e) /\ UNCHANGED <<memory, stored, txn>>
     \/ /\ ToWrite(e) /\ ~stuck /\ txn # "stale"
        /\ AddFact(ClaimOf(e), e) /\ stored' = stored \cup {e} /\ txn' = "none"
        /\ UNCHANGED <<service, forgets>>
  /\ todo' = Tail(todo)
  /\ UNCHANGED <<journal, mark, passing, top, seen, stops>>

\* Mutant of SaveState: the last row there is is noted, not the last one read.
SaveLatest ==
  /\ passing /\ todo = <<>>
  /\ mark' = lastSeq /\ passing' = FALSE
  /\ UNCHANGED <<journal, memory, todo, top, connection, stored, stops>>

SaveState ==
  /\ passing /\ todo = <<>>
  /\ mark' = top /\ passing' = FALSE
  /\ UNCHANGED <<journal, memory, todo, top, connection, stored, stops>>

\* A pass ends before it is through: the next one starts from the watermark again.
Aborted == /\ passing' = FALSE /\ todo' = <<>> /\ UNCHANGED <<journal, memory, top, stored>>

\* "database is locked": another connection holds the write lock for longer than the
\* timeout, or has committed since the snapshot.  The transaction stays open.
LockedOut ==
  /\ todo # <<>> /\ ToWrite(Head(todo).event) /\ (stuck \/ txn = "stale")
  /\ txn' = IF txn = "none" THEN "begun" ELSE txn
  /\ Aborted /\ UNCHANGED <<mark, seen, stops>>

\* The process ends, with its connection, and another is started.
Restarted == stops < MaxStops /\ stops' = stops + 1 /\ txn' = "none" /\ seen' = {} /\ Aborted
WatcherStops == passing /\ Restarted /\ UNCHANGED mark

\* write_text truncates the file before it writes: a crash in between leaves a file
\* that cannot be read, and the next pass starts from nothing.
TornState == passing /\ todo = <<>> /\ Restarted /\ mark' = 0

\* The other connections write; what they commit makes a snapshot stale.
OthersWrite ==
  /\ StoreNext
  /\ IF txn = "fresh" /\ store' # store
     THEN txn' = "stale" /\ seen' = Sources
     ELSE UNCHANGED connection
  /\ UNCHANGED <<journal, mark, passing, todo, top, stored, stops>>

Next ==
  \/ JournalNext /\ UNCHANGED <<memory, watcher>>
  \/ OthersWrite
  \/ ReadEvents \/ FixSnapshot \/ IngestRow \/ SaveState \/ LockedOut \/ WatcherStops \/ TornState

Spec == Init /\ [][Next]_allVars

\* The watcher polls for ever.
Fairness ==
  /\ WF_allVars(ReadEvents) /\ WF_allVars(FixSnapshot)
  /\ WF_allVars(IngestRow) /\ WF_allVars(SaveState)

FairSpec == Spec /\ Fairness

-----------------------------------------------------------------------------
TypeOK ==
  /\ JournalType /\ StoreType
  /\ mark \in 0..lastSeq /\ top \in 0..lastSeq
  /\ \A i \in DOMAIN todo : todo[i] \in numbered
  /\ txn \in {"none", "begun", "fresh", "stale"}
  /\ \A e \in seen : e = Text \/ e \in stored

\* No event in the table is left behind the watermark without having been stored,
\* although tables are cleared, transactions fail and give their numbers back, passes
\* are cut short and the watermark is lost.  What is cleared unread is lost to it.
NothingSkipped ==
  \A r \in rows : r.seq <= mark => r.event \in stored \cup samples

\* However often the same events are read again, an occurrence is recorded once.
CountedOnce ==
  \A k, l \in DOMAIN prov : prov[k].ref = prov[l].ref /\ k # l => prov[k].ref = Text

\* Together: over clears, rollbacks, crashes and lost watermarks an event is read at
\* least once and counts at most once.
ReadOnceAndForAll == TypeOK /\ NothingSkipped /\ CountedOnce

\* A row that is no sample is stored in the end, or cleared before, unless the service's
\* transaction stays open for good or a commit of others has caught the watcher in a
\* transaction it never left, and nobody starts it again: there is no third way to be shut
\* out, and a transaction that was left open is not one by itself
\* (brain_ingest.py:229-284, 316-329).
Waiting(e) == e \notin stored \cup samples /\ \E r \in rows : r.event = e
CatchesUp ==
  <>[]~stuck /\ []<>(txn # "stale") => \A e \in 1..MaxEvents : Waiting(e) ~> ~Waiting(e)
=============================================================================
