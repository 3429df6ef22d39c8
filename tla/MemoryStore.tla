---------------------------- MODULE MemoryStore ----------------------------
(***************************************************************************)
(* The knowledge graph of the memory service (memory/app/store.py): fact   *)
(* nodes with their provenance and typed edges, in one SQLite file that    *)
(* several processes write, each over its own connection.  The service     *)
(* adds the facts of a text one after the other (memory/app/ingest.py),    *)
(* asking the language model what each is to the facts it resembles;       *)
(* forget_node (the command line) deletes at any moment.                   *)
(*                                                                         *)
(* Python's sqlite3 opens a transaction at the first write and add_fact    *)
(* commits with the provenance row, so a fact and its source come at once; *)
(* every edge is a transaction of its own.  Entity nodes of triples are    *)
(* like facts without provenance and left out.                             *)
(***************************************************************************)
EXTENDS Integers, Sequences, FiniteSets

CONSTANTS
  Claims,      \* normalised sentences, none of them empty
  Taught,      \* those the service is given
  MaxTexts,    \* bound: texts the service ingests
  MaxForgets   \* bound: nodes forgotten

ASSUME StoreAssumption == Taught \subseteq Claims /\ MaxTexts \in Nat /\ MaxForgets \in Nat

VARIABLES
  nodes,    \* table nodes: the claim of every id that exists
  lastId,   \* the last id AUTOINCREMENT gave
  prov,     \* table provenance: the node and the source reference of every id
  lastProv, \* the last id AUTOINCREMENT gave there
  edges,    \* table edges: <<src, dst, type>>
  asked,    \* the claim the judge is asked about, with the candidates as read
  links,    \* edges add_fact has still to add
  stuck,    \* the service's connection holds an open write transaction
  judged,   \* history: the verdicts given, as claims
  texts, forgets

facts == <<nodes, lastId, prov, lastProv>>
store == <<facts, edges>>
service == <<asked, links, stuck, judged, texts>>
memory == <<store, service, forgets>>

Text == 0   \* the source reference of what the service stores
Idle == [claim |-> "", cands |-> <<>>]
Ids == DOMAIN nodes

StoreInit ==
  /\ nodes = <<>> /\ lastId = 0 /\ prov = <<>> /\ lastProv = 0 /\ edges = {}
  /\ asked = Idle /\ links = <<>> /\ stuck = FALSE /\ judged = {}
  /\ texts \in 0..MaxTexts /\ forgets \in 0..MaxForgets

-----------------------------------------------------------------------------
\* _find_exact: the nodes of this very claim.
Exact(c) == {i \in Ids : nodes[i] = c}

\* attach_provenance: one more row; it commits what was written before it.
Attach(i, ref) ==
  /\ lastProv' = lastProv + 1
  /\ prov' = [k \in DOMAIN prov \cup {lastProv'} |->
                IF k = lastProv' THEN [node |-> i, ref |-> ref] ELSE prov[k]]

\* merge: the row is updated, the occurrence recorded, both at once.
Merge(i, ref) == Attach(i, ref) /\ UNCHANGED <<nodes, lastId>>

\* Mutant of NewId: the id of a forgotten node is given again.
LowestFree == IF Ids = {} THEN 1 ELSE 1 + CHOOSE i \in Ids : \A j \in Ids : j <= i

\* A new node and its provenance row; an id is never given twice.
NewId == lastId + 1
Insert(c, ref) ==
  /\ nodes' = [i \in Ids \cup {NewId} |-> IF i = NewId THEN c ELSE nodes[i]]
  /\ lastId' = NewId
  /\ Attach(NewId, ref)

\* add_fact without a judge: the exact match is merged, anything else is new.
AddFact(c, ref) ==
  /\ \/ \E i \in Exact(c) : (\A j \in Exact(c) : i <= j) /\ Merge(i, ref)
     \/ Exact(c) = {} /\ Insert(c, ref)
  /\ UNCHANGED edges

\* The service's add_fact: an exact match is merged; without one the facts that
\* resemble the claim, if any, are read and judged one after the other.
Learn(c) ==
  /\ asked = Idle /\ links = <<>> /\ texts < MaxTexts
  /\ texts' = texts + 1
  /\ \/ AddFact(c, Text) /\ stuck' = FALSE /\ UNCHANGED asked
     \/ /\ Exact(c) = {}
        /\ \E S \in SUBSET Ids \ {{}} : asked' = [claim |-> c, cands |-> [i \in S |-> nodes[i]]]
        /\ UNCHANGED <<store, stuck>>
  /\ UNCHANGED <<links, judged, forgets>>

Candidates == DOMAIN asked.cands
Judge(i, verdict) == judged' = judged \cup {<<asked.claim, asked.cands[i], verdict>>}

\* duplicate: merged into the candidate; with the candidate gone merge raises before
\* it has written anything.
Duplicate(i) ==
  /\ Judge(i, "duplicate")
  /\ \/ i \in Ids /\ Merge(i, Text) /\ stuck' = FALSE
     \/ i \notin Ids /\ UNCHANGED <<facts, stuck>>
  /\ asked' = Idle /\ UNCHANGED <<edges, links, texts, forgets>>

\* contradiction and related: a node of its own, its links after that.
Distinct(i, verdict) ==
  /\ Judge(i, verdict)
  /\ Insert(asked.claim, Text) /\ stuck' = FALSE
  /\ links' = IF verdict = "contradiction"
              THEN <<<<NewId, i, "contradicted_by">>, <<i, NewId, "contradicted_by">>>>
              ELSE <<<<NewId, i, "related_to">>>>
  /\ asked' = Idle /\ UNCHANGED <<edges, texts, forgets>>

\* new, or no valid verdict: the next candidate, and after the last a new node.
Unrelated(i) ==
  /\ IF Candidates = {i}
     THEN Insert(asked.claim, Text) /\ stuck' = FALSE /\ asked' = Idle
     ELSE /\ asked' = [asked EXCEPT !.cands = [j \in Candidates \ {i} |-> asked.cands[j]]]
          /\ UNCHANGED <<facts, stuck>>
  /\ UNCHANGED <<edges, links, judged, texts, forgets>>

\* add_edge commits each link.  The foreign keys refuse a link to a node that is gone:
\* the call fails, what it has stored stays, and the transaction stays open until the
\* connection commits next.
Link ==
  /\ links # <<>>
  /\ \/ {Head(links)[1], Head(links)[2]} \subseteq Ids
        /\ edges' = edges \cup {Head(links)} /\ links' = Tail(links) /\ stuck' = FALSE
     \/ ~({Head(links)[1], Head(links)[2]} \subseteq Ids)
        /\ links' = <<>> /\ stuck' = TRUE /\ UNCHANGED edges
  /\ UNCHANGED <<facts, asked, judged, texts, forgets>>

\* forget_node: edges of both directions, provenance and node in one transaction.
Forget(i) ==
  /\ i \in Ids /\ ~stuck /\ forgets < MaxForgets
  /\ edges' = {e \in edges : i \notin {e[1], e[2]}}
  /\ prov' = [k \in {k \in DOMAIN prov : prov[k].node # i} |-> prov[k]]
  /\ nodes' = [j \in Ids \ {i} |-> nodes[j]]
  /\ forgets' = forgets + 1
  /\ UNCHANGED <<lastId, lastProv, service>>

\* The call fails while it waits for the model, or the service dies between two
\* steps; then its open transaction is rolled back.
CallFails == asked # Idle /\ asked' = Idle /\ UNCHANGED <<store, links, stuck, judged, texts, forgets>>

ServiceDies ==
  /\ links # <<>> \/ stuck
  /\ links' = <<>> /\ stuck' = FALSE
  /\ UNCHANGED <<store, asked, judged, texts, forgets>>

StoreNext ==
  \/ \E c \in Taught : Learn(c)
  \/ \E i \in Candidates :
       \/ Duplicate(i) \/ Unrelated(i)
       \/ \E v \in {"contradiction", "related"} : Distinct(i, v)
  \/ Link \/ CallFails \/ ServiceDies
  \/ \E i \in Ids : Forget(i)

-----------------------------------------------------------------------------
StoreType ==
  /\ Ids \subseteq 1..lastId /\ \A i \in Ids : nodes[i] \in Claims
  /\ \A k \in DOMAIN prov : prov[k].node \in Ids
  /\ \A e \in edges : {e[1], e[2]} \subseteq Ids

\* A link joins two facts the judge has judged to be so, although the candidate may
\* have been forgotten, and others stored, while it was thinking.
LinksAsJudged ==
  \A e \in edges :
    \/ e[3] = "related_to" /\ <<nodes[e[1]], nodes[e[2]], "related">> \in judged
    \/ e[3] = "contradicted_by"
       /\ \E x, y \in {nodes[e[1]], nodes[e[2]]} : <<x, y, "contradiction">> \in judged
=============================================================================
