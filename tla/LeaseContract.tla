--------------------------- MODULE LeaseContract ---------------------------
(***************************************************************************)
(* What PriorityResourceLease promises its users, without the heap, the    *)
(* condition variable, the reservations, the notifications and the grace   *)
(* timers: tasks in line, at most one owner, and a lease that goes to the  *)
(* most urgent task in line, first come first served among equals, with    *)
(* background tasks passed over while the lease is closed to them.         *)
(***************************************************************************)
EXTENDS Naturals

CONSTANTS Tasks, Priority, Background, NoTask

VARIABLES
  line,    \* the tasks in line
  before,  \* who of them came before whom: <<t, u>> when t did
  owner,   \* the task the lease belongs to, or NoTask
  closed   \* the foreground barrier

vars == <<line, before, owner, closed>>

Init ==
  /\ line = {} /\ before = {}
  /\ owner = NoTask
  /\ closed = FALSE

\* Task t is served next of those in l, who have come as b says.
First(l, b, t) ==
  \A u \in l \ {t} :
    \/ Priority[t] < Priority[u]
    \/ Priority[t] = Priority[u] /\ <<t, u>> \in b

\* Task t leaves l.
Leave(l, b, t) ==
  /\ line' = l \ {t}
  /\ before' = {p \in b : t \notin {p[1], p[2]}}

\* The lease goes to the first of l.
Serve(l, b) ==
  \E t \in l :
    /\ First(l, b, t)
    /\ closed => Priority[t] < Background
    /\ owner' = t
    /\ Leave(l, b, t)
    /\ closed' = closed

\* A task gets in line; a free lease may be given away in the same step.
Request(t) ==
  /\ t # owner /\ t \notin line
  /\ LET l == line \cup {t}
         b == before \cup (line \X {t})
     IN  \/ line' = l /\ before' = b /\ owner' = owner /\ closed' = closed
         \/ owner = NoTask /\ Serve(l, b)

\* A free lease is given away.
Grant == owner = NoTask /\ Serve(line, before)

\* The owner gives the lease back, at once to the next in line or to nobody.
Return ==
  /\ owner # NoTask
  /\ \/ owner' = NoTask /\ UNCHANGED <<line, before>> /\ closed' = closed
     \/ Serve(line, before)

\* A task in line gives up.
Withdraw(t) ==
  /\ t \in line /\ Leave(line, before, t)
  /\ owner' = owner /\ closed' = closed

Close(active) ==
  /\ closed' = active
  /\ UNCHANGED <<line, before, owner>>

Next ==
  \/ \E t \in Tasks : Request(t) \/ Withdraw(t)
  \/ Grant
  \/ Return
  \/ \E active \in BOOLEAN : Close(active)

Spec == Init /\ [][Next]_vars

\* A free lease somebody may have does not stay free.
FairSpec == Spec /\ WF_vars(Grant)
============================================================================
