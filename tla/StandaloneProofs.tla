-------------------------- MODULE StandaloneProofs --------------------------
(***************************************************************************)
(* What is proved of the two components that stand alone, Supervisor and   *)
(* VoiceTurn.                                                              *)
(*                                                                         *)
(* Supervisor, for every restart limit and any number of exits and         *)
(* interrupts: SupervisorInv says what is so at the end; it is inductive   *)
(* together with where main is.  `started` is as long as main has come     *)
(* (Place), what is not in it has never run (Unstarted), what main has     *)
(* passed was ready or is optional (Passed), a process more than restarts  *)
(* is one that is about to be created (Counted), and the stop leaves       *)
(* nothing alive behind it (StopPassed).                                   *)
(*                                                                         *)
(* VoiceTurn, for every number of turns, sessions, transcripts, events     *)
(* under way, losses and failures: VoiceType, LossIsShown and              *)
(* NoMoveBesideSight.  The invariant is VoiceType in parts, with what is   *)
(* left of the budget, and the flag that is up in the turn of a view       *)
(* (Flagged).                                                              *)
(***************************************************************************)
EXTENDS Supervisor, VoiceTurn, SequenceTheorems, FiniteSetTheorems, TLAPS

Size == Len(started)

Place ==
  /\ at = "prepare" => Size = 0 /\ cur = 1
  /\ at = "launch" => Size = cur - 1
  /\ at = "await" => Size = cur
  /\ at = "prewarm" => Size = cur /\ cur < 5
  /\ at \in {"watch", "backoff", "reawait", "brain"} => Size = 5
  /\ at = "stop" => cur <= Size

Unstarted ==
  \A i \in 1..5 : i > Size => process[Services[i]] = "none" /\ launches[Services[i]] = 0

Good(i) == Services[i] \in reached \cup Optional

Passed ==
  /\ at \in {"launch", "await"} => \A i \in 1..5 : i < cur => Good(i)
  /\ at = "prewarm" => \A i \in 1..5 : i <= cur => Good(i)
  /\ at \in {"watch", "backoff", "reawait", "brain"} => \A i \in 1..5 : Good(i)

Counted ==
  /\ launches \in [Names -> Nat]
  /\ \A s \in Names : launches[s] <= 1 + count[s]
  /\ \A s \in Names : s \notin Watched => count[s] = 0
  /\ at = "backoff" => Here \in Watched /\ launches[Here] <= count[Here]

StopPassed == at = "stop" => \A i \in 1..5 : cur < i => ~Alive(Services[i])

IInv ==
  /\ TypeOK /\ Place /\ Unstarted /\ Passed /\ Counted /\ StopPassed
  /\ NoOrphans /\ StartedInOrder

-----------------------------------------------------------------------------
LEMMA TheServices ==
  /\ DOMAIN Services = 1..5 /\ Len(Services) = 5
  /\ Names = {"pc-brain", "llama-server", "embedding-server", "voice", "tracking"}
  /\ \A i \in 1..5 : Services[i] \in Names
  /\ \A i, j \in 1..5 : Services[i] = Services[j] => i = j
  /\ \A s \in Names : \E i \in 1..5 : s = Services[i]
<1>1. /\ DOMAIN Services = 1..5 /\ Len(Services) = 5
      /\ Services[1] = "pc-brain" /\ Services[2] = "llama-server"
      /\ Services[3] = "embedding-server" /\ Services[4] = "voice"
      /\ Services[5] = "tracking"
  BY DEF Services
<1>2. \A i \in 1..5 : i = 1 \/ i = 2 \/ i = 3 \/ i = 4 \/ i = 5
  OBVIOUS
<1>3. Names = {"pc-brain", "llama-server", "embedding-server", "voice", "tracking"}
  BY <1>1, <1>2 DEF Names
<1> QED
  BY <1>1, <1>2, <1>3

LEMMA WhatIsStarted ==
  ASSUME TypeOK
  PROVE  /\ Size \in 0..5 /\ DOMAIN started = 1..Size
         /\ \A i \in 1..Size : started[i] = Services[i]
         /\ started = SubSeq(Services, 1, Size)
<1>1. PICK n \in 0..5 : started = SubSeq(Services, 1, n)
  BY TheServices DEF TypeOK
<1>2. \A i \in 1..n : Services[i] \in Names
  BY TheServices
<1>3. /\ Len(SubSeq(Services, 1, n)) = n /\ SubSeq(Services, 1, n) \in Seq(Names)
      /\ \A i \in 1..n : SubSeq(Services, 1, n)[i] = Services[i]
  BY <1>2, SubSeqProperties
<1> QED
  BY <1>1, <1>3, LenProperties DEF Size

\* One more is started.
LEMMA OneMoreStarted ==
  ASSUME TypeOK, Size < 5
  PROVE  /\ Append(started, Services[Size + 1]) = SubSeq(Services, 1, Size + 1)
         /\ Len(Append(started, Services[Size + 1])) = Size + 1
<1>1. /\ Size \in 0..4 /\ started = SubSeq(Services, 1, Size)
  BY WhatIsStarted
<1> DEFINE n == Size
           a == Append(started, Services[n + 1])
           b == SubSeq(Services, 1, n + 1)
<1>2. /\ started \in Seq(Names) /\ Len(started) = n
      /\ \A i \in 1..n : started[i] = Services[i]
      /\ Services[n + 1] \in Names
  <2>1. \A i \in 1..(n + 1) : Services[i] \in Names
    BY <1>1, TheServices
  <2>2. SubSeq(Services, 1, n) \in Seq(Names)
    BY <1>1, <2>1, SubSeqProperties
  <2> QED BY <1>1, <2>1, <2>2, WhatIsStarted DEF Size
<1>3. /\ b \in Seq(Names) /\ Len(b) = n + 1
      /\ \A i \in 1..(n + 1) : b[i] = Services[i]
  <2>1. \A i \in 1..(n + 1) : Services[i] \in Names
    BY <1>1, TheServices
  <2> QED BY <1>1, <2>1, SubSeqProperties
<1>4. /\ a \in Seq(Names) /\ Len(a) = n + 1
      /\ \A i \in 1..(n + 1) : a[i] = Services[i]
  BY <1>1, <1>2, AppendProperties
<1> HIDE DEF n, a, b
<1>5. a = b
  BY <1>1, <1>3, <1>4, SeqEqual DEF n
<1> QED BY <1>4, <1>5 DEF n, a, b

LEMMA InitInv == Init => IInv
<1> SUFFICES ASSUME Init PROVE IInv
  OBVIOUS
<1>1. started = <<>> /\ Size = 0
  BY EmptySeq DEF Init, Size
<1>2. TypeOK
  <2>1. \E n \in 0..Len(Services) : started = SubSeq(Services, 1, n)
    <3>1. SubSeq(Services, 1, 0) = <<>> /\ 0 \in 0..Len(Services)
      BY SubSeqEmpty, TheServices
    <3> QED BY <1>1, <3>1
  <2>2. count \in [Names -> 0..RestartLimit]
    BY SupervisorAssumption DEF Init
  <2>3. stray \subseteq Names
    BY DEF Init
  <2>4. process \in [Names -> {"none", "booting", "serving", "exited"}]
    BY DEF Init
  <2>5. at = "prepare" /\ cur = 1 /\ cur \in 0..Len(Services) /\ cur > 0
    BY TheServices DEF Init
  <2>6. reached \subseteq Names /\ quit \in BOOLEAN
    BY DEF Init
  <2> QED BY <2>1, <2>2, <2>3, <2>4, <2>5, <2>6 DEF TypeOK
<1>3. Place /\ Unstarted /\ Passed /\ StopPassed /\ NoOrphans
  BY <1>1, TheServices DEF Init, Place, Unstarted, Passed, StopPassed, NoOrphans
<1>4. Counted /\ StartedInOrder
  BY <1>1, TheServices DEF Init, Counted, StartedInOrder
<1> QED
  BY <1>2, <1>3, <1>4 DEF IInv
Places == {"prepare", "launch", "await", "prewarm", "watch", "backoff", "reawait",
           "brain", "stop", "end"}

\* A step of main that creates and stops nothing.
LEMMA MainGoesOn ==
  ASSUME IInv, UNCHANGED <<process, started, stray, launches, quit>>,
         reached \subseteq reached', reached' \subseteq Names,
         count' \in [Names -> 0..RestartLimit],
         \A s \in Names : count[s] <= count'[s] /\ (s \notin Watched => count'[s] = 0),
         at' \in Places \ {"end"}, cur' \in 0..5, cur' > 0 \/ at' = "stop",
         Place', Passed', at' = "stop" => cur' = Size,
         at' = "backoff" => Here' \in Watched /\ launches[Here'] <= count'[Here']
  PROVE  IInv'
<1>1. Size' = Size
  BY DEF Size
<1>2. TypeOK'
  <2>1. TypeOK
    BY DEF IInv
  <2>2. at' \in Places /\ cur' \in 0..Len(Services) /\ (Trying' => cur' > 0)
    BY TheServices DEF Trying
  <2>3. /\ process' \in [Names -> {"none", "booting", "serving", "exited"}]
        /\ stray' \subseteq Names /\ quit' \in BOOLEAN
        /\ \E n \in 0..Len(Services) : started' = SubSeq(Services, 1, n)
    BY <2>1 DEF TypeOK
  <2> QED BY <2>2, <2>3 DEF TypeOK, Places
<1>3. Unstarted' /\ NoOrphans'
  BY <1>1 DEF IInv, Unstarted, NoOrphans
<1>4. StartedInOrder'
  BY DEF IInv, StartedInOrder
<1>5. Counted'
  <2>1. /\ launches \in [Names -> Nat] /\ count \in [Names -> 0..RestartLimit]
        /\ \A s \in Names : launches[s] <= 1 + count[s]
    BY DEF IInv, Counted, TypeOK
  <2>2. ASSUME NEW s \in Names PROVE launches[s] <= 1 + count'[s]
    <3>1. launches[s] \in Nat /\ count[s] \in Nat /\ count'[s] \in Nat
      BY <2>1, SupervisorAssumption
    <3> QED BY <2>1, <3>1
  <2> QED BY <2>1, <2>2 DEF Counted
<1>6. StopPassed'
  BY <1>1, <1>3 DEF Unstarted, StopPassed, Alive
<1> QED
  BY <1>2, <1>3, <1>4, <1>5, <1>6 DEF IInv

\* What IInv says of where main is, with the numbers it goes by.
LEMMA WhereMainIs ==
  ASSUME IInv
  PROVE  /\ cur \in 0..5 /\ (Trying => cur \in 1..5 /\ Here \in Names) /\ Size \in 0..5
         /\ at \in Places
         /\ count \in [Names -> 0..RestartLimit] /\ reached \subseteq Names
         /\ \A s \in Names : s \notin Watched => count[s] = 0
<1>1. TypeOK /\ Counted
  BY DEF IInv
<1>2. cur \in 0..5 /\ Size \in 0..5
  BY <1>1, TheServices, WhatIsStarted DEF TypeOK
<1>3. Trying => cur \in 1..5 /\ Here \in Names
  BY <1>1, <1>2, TheServices DEF TypeOK, Here
<1> QED
  BY <1>1, <1>2, <1>3 DEF TypeOK, Counted, Places

LEMMA PrepareInv ==
  ASSUME IInv, Prepare
  PROVE  IInv'
<1>1. /\ UNCHANGED <<process, count, started, stray, reached, launches, quit>>
      /\ at \in {"prepare", "prewarm"} /\ Size' = Size /\ Place /\ Passed
  BY DEF Prepare, IInv, Size
<1>2. /\ cur \in 1..5 /\ Size \in 0..5
      /\ count \in [Names -> 0..RestartLimit] /\ reached \subseteq Names
      /\ \A s \in Names : s \notin Watched => count[s] = 0
  BY <1>1, WhereMainIs DEF Trying
<1>3. \/ at = "prepare" /\ at' = "launch" /\ cur' = 1
      \/ at = "prewarm" /\ at' = "launch" /\ cur' = cur + 1
      \/ at' = "stop" /\ cur' = Size
  BY <1>1 DEF Prepare, GoTo, Fail, Size
<1>4. Place' /\ cur' \in 0..5 /\ (cur' > 0 \/ at' = "stop") /\ (at' = "stop" => cur' = Size)
  BY <1>1, <1>2, <1>3 DEF Place
<1>5. Passed'
  BY <1>1, <1>2, <1>3 DEF Passed, Good
<1>6. \A s \in Names : count[s] <= count'[s]
  BY <1>1, <1>2, SupervisorAssumption
<1> QED
  BY <1>1, <1>2, <1>3, <1>4, <1>5, <1>6, MainGoesOn DEF Places
LEMMA WatchOneInv ==
  ASSUME IInv, WatchOne
  PROVE  IInv'
<1>1. /\ UNCHANGED <<process, started, stray, reached, launches, quit>>
      /\ at = "watch" /\ Size' = Size /\ Place /\ Passed /\ Counted
  BY DEF WatchOne, IInv, Size
<1>2. /\ cur \in 1..5 /\ Here \in Names /\ Size = 5 /\ \A i \in 1..5 : Good(i)
      /\ count \in [Names -> 0..RestartLimit] /\ reached \subseteq Names
      /\ \A s \in Names : s \notin Watched => count[s] = 0
  BY <1>1, WhereMainIs DEF Trying, Place, Passed
<1>3. CASE count' = count /\ at' \in {"watch", "brain", "stop"} /\ cur' \in 0..5
           /\ (cur' > 0 \/ at' = "stop") /\ (at' = "stop" => cur' = Size)
  <2>1. \A s \in Names : count[s] <= count'[s]
    BY <1>2, <1>3, SupervisorAssumption
  <2>2. Place' /\ Passed'
    BY <1>1, <1>2, <1>3 DEF Place, Passed, Good
  <2> QED
    BY <1>1, <1>2, <1>3, <2>1, <2>2, MainGoesOn DEF Places
<1>4. CASE /\ Here \in Watched /\ count[Here] < RestartLimit
           /\ at' = "backoff" /\ cur' = cur /\ count' = [count EXCEPT ![Here] = @ + 1]
  <2>1. count[Here] \in 0..RestartLimit /\ RestartLimit \in Nat
    BY <1>2, SupervisorAssumption
  <2>2. count[Here] + 1 \in 0..RestartLimit /\ count[Here] <= count[Here] + 1
    BY <1>4, <2>1
  <2>3. count' \in [Names -> 0..RestartLimit] /\ count'[Here] = count[Here] + 1
    BY <1>2, <1>4, <2>2
  <2>4. ASSUME NEW s \in Names
        PROVE  count[s] <= count'[s] /\ (s \notin Watched => count'[s] = 0)
    <3>1. CASE s = Here
      BY <1>4, <2>2, <2>3, <3>1
    <3>2. CASE s # Here
      <4>1. count'[s] = count[s] /\ count[s] \in 0..RestartLimit
        BY <1>2, <1>4, <3>2
      <4> QED BY <1>2, <2>1, <4>1
    <3> QED BY <3>1, <3>2
  <2>5. Here' = Here /\ launches[Here] <= count'[Here]
    <3>1. launches[Here] \in Nat /\ launches[Here] <= 1 + count[Here]
      BY <1>1, <1>2 DEF Counted
    <3> QED BY <1>4, <2>1, <2>3, <3>1 DEF Here
  <2>6. Place' /\ Passed' /\ cur' \in 0..5 /\ cur' > 0
    BY <1>1, <1>2, <1>4 DEF Place, Passed, Good
  <2> QED
    BY <1>1, <1>2, <1>4, <2>3, <2>4, <2>5, <2>6, MainGoesOn DEF Places
<1>5. \/ UNCHANGED count /\ (NextService \/ Fail)
      \/ /\ Here \in Watched /\ ~(count[Here] >= RestartLimit)
         /\ GoTo("backoff", cur) /\ count' = [count EXCEPT ![Here] = @ + 1]
  BY DEF WatchOne
<1>6. count[Here] \in Nat /\ RestartLimit \in Nat
  BY <1>2, SupervisorAssumption
<1>7. NextService => at' \in {"watch", "brain"} /\ cur' \in 1..5
  BY <1>2, TheServices DEF NextService, GoTo
<1>8. Fail => at' = "stop" /\ cur' = Size /\ cur' \in 0..5
  BY <1>1, <1>2 DEF Fail, GoTo, Size
<1> QED
  BY <1>3, <1>4, <1>5, <1>6, <1>7, <1>8 DEF GoTo

LEMMA WatchBrainInv ==
  ASSUME IInv, WatchBrain
  PROVE  IInv'
<1>1. /\ UNCHANGED <<process, count, started, stray, reached, launches, quit>>
      /\ at = "brain" /\ Size' = Size /\ Place /\ Passed
  BY DEF WatchBrain, IInv, Size
<1>2. /\ Size = 5 /\ \A i \in 1..5 : Good(i)
      /\ count \in [Names -> 0..RestartLimit] /\ reached \subseteq Names
      /\ \A s \in Names : s \notin Watched => count[s] = 0
  BY <1>1, WhereMainIs DEF Place, Passed
<1>3. \/ at' = "watch" /\ cur' = 1
      \/ at' = "stop" /\ cur' = Size
  <2>1. Fail \/ GoTo("watch", 1)
    BY DEF WatchBrain
  <2> QED BY <1>1, <2>1 DEF Fail, GoTo, Size
<1>4. Place' /\ Passed' /\ cur' \in 0..5 /\ cur' > 0
  BY <1>1, <1>2, <1>3 DEF Place, Passed, Good
<1>5. \A s \in Names : count[s] <= count'[s]
  BY <1>1, <1>2, SupervisorAssumption
<1> QED
  BY <1>1, <1>2, <1>3, <1>4, <1>5, MainGoesOn DEF Places

LEMMA AwaitInv ==
  ASSUME IInv, Await
  PROVE  IInv'
<1>1. /\ UNCHANGED <<process, count, started, stray, launches, quit>>
      /\ at = "await" /\ Size' = Size /\ Place /\ Passed
  BY DEF Await, WaitReady, IInv, Size
<1>2. /\ cur \in 1..5 /\ Here \in Names /\ Here = Services[cur] /\ Size = cur
      /\ \A i \in 1..5 : i < cur => Good(i)
      /\ count \in [Names -> 0..RestartLimit] /\ reached \subseteq Names
      /\ \A s \in Names : s \notin Watched => count[s] = 0
  BY <1>1, WhereMainIs DEF Trying, Place, Passed, Here
<1>3. \/ Onward /\ Here \in reached' \cup Optional
      \/ Fail
  BY DEF Await, WaitReady
<1>4. reached \subseteq reached' /\ reached' \subseteq Names
  BY <1>2 DEF Await, WaitReady
<1>5. \A s \in Names : count[s] <= count'[s]
  BY <1>1, <1>2, SupervisorAssumption
<1>6. CASE Fail
  <2>1. at' = "stop" /\ cur' = Size
    BY <1>1, <1>6 DEF Fail, GoTo, Size
  <2>2. Place' /\ Passed' /\ cur' \in 0..5
    BY <1>1, <1>2, <2>1 DEF Place, Passed
  <2> QED
    BY <1>1, <1>2, <1>4, <1>5, <2>1, <2>2, MainGoesOn DEF Places
<1>7. CASE Onward /\ Here \in reached' \cup Optional
  <2>1. \/ at' = "prewarm" /\ cur' = cur /\ cur < 5
        \/ at' = "launch" /\ cur' = cur + 1 /\ cur < 5
        \/ at' = "watch" /\ cur' = 1 /\ cur = 5
    <3>1. Services[5] # "llama-server"
      BY DEF Services
    <3> QED BY <1>2, <1>7, <3>1, TheServices DEF Onward, GoTo
  <2>2. \A i \in 1..5 : i <= cur => Good(i)'
    BY <1>2, <1>4, <1>7 DEF Good
  <2>3. Place' /\ Passed' /\ cur' \in 0..5 /\ cur' > 0
    BY <1>1, <1>2, <2>1, <2>2 DEF Place, Passed
  <2> QED
    BY <1>1, <1>2, <1>4, <1>5, <2>1, <2>3, MainGoesOn DEF Places
<1> QED
  BY <1>3, <1>6, <1>7

LEMMA ReawaitInv ==
  ASSUME IInv, Reawait
  PROVE  IInv'
<1>1. /\ UNCHANGED <<process, count, started, stray, launches, quit>>
      /\ at = "reawait" /\ Size' = Size /\ Place /\ Passed
  BY DEF Reawait, WaitReady, IInv, Size
<1>2. /\ cur \in 1..5 /\ Here \in Names /\ Size = 5 /\ \A i \in 1..5 : Good(i)
      /\ count \in [Names -> 0..RestartLimit] /\ reached \subseteq Names
      /\ \A s \in Names : s \notin Watched => count[s] = 0
  BY <1>1, WhereMainIs DEF Trying, Place, Passed
<1>3. NextService \/ Fail
  BY DEF Reawait, WaitReady
<1>4. reached \subseteq reached' /\ reached' \subseteq Names
  BY <1>2 DEF Reawait, WaitReady
<1>5. \A s \in Names : count[s] <= count'[s]
  BY <1>1, <1>2, SupervisorAssumption
<1>6. /\ at' \in {"watch", "brain", "stop"} /\ cur' \in 1..5
      /\ at' = "stop" => cur' = Size
  <2>1. CASE NextService
    BY <1>2, <2>1, TheServices DEF NextService, GoTo
  <2>2. CASE Fail
    BY <1>1, <1>2, <2>2 DEF Fail, GoTo, Size
  <2> QED BY <1>3, <2>1, <2>2
<1>7. Place' /\ Passed'
  BY <1>1, <1>2, <1>4, <1>6 DEF Place, Passed, Good
<1> QED
  BY <1>1, <1>2, <1>4, <1>5, <1>6, <1>7, MainGoesOn DEF Places
-----------------------------------------------------------------------------
\* Processes.  What the other steps do to them keeps what IInv says of them.

\* Who is alive after a step was alive before it, or is main's service of now.
LEMMA ProcessesKept ==
  ASSUME IInv, UNCHANGED <<at, cur, started, reached, launches, quit, count>>,
         stray' \subseteq Names,
         process' \in [Names -> {"none", "booting", "serving", "exited"}],
         \A s \in Names : process[s] = "none" => process'[s] = "none",
         \A s \in Names : Alive(s)' => Alive(s)
  PROVE  IInv'
<1>1. /\ TypeOK /\ Place /\ Unstarted /\ Passed /\ Counted /\ StopPassed
      /\ NoOrphans /\ StartedInOrder /\ Size' = Size
  BY DEF IInv, Size
<1>2. TypeOK'
  BY <1>1 DEF TypeOK, Trying
<1>3. Place' /\ Passed' /\ Counted' /\ StartedInOrder'
  BY <1>1 DEF Place, Passed, Good, Counted, Here, StartedInOrder
<1>4. Unstarted' /\ StopPassed' /\ NoOrphans'
  BY <1>1, TheServices DEF Unstarted, StopPassed, NoOrphans
<1> QED
  BY <1>2, <1>3, <1>4 DEF IInv

LEMMA WorldInv ==
  ASSUME IInv, NEW s \in Names, Boot(s) \/ Die(s) \/ StopStale(s)
  PROVE  IInv'
<1>1. /\ UNCHANGED <<at, cur, started, reached, launches, quit, count>>
      /\ stray' \in {stray, stray \ {s}}
  BY DEF Boot, Die, StopStale
<1>2. process \in [Names -> {"none", "booting", "serving", "exited"}] /\ stray \subseteq Names
  BY DEF IInv, TypeOK
<1>3. \/ UNCHANGED process
      \/ /\ Alive(s)
         /\ \E p \in {"serving", "exited"} : process' = [process EXCEPT ![s] = p]
  BY DEF Boot, Die, StopStale, Alive
<1>4. /\ process' \in [Names -> {"none", "booting", "serving", "exited"}]
      /\ \A u \in Names : process[u] = "none" => process'[u] = "none"
      /\ \A u \in Names : Alive(u)' => Alive(u)
  BY <1>2, <1>3 DEF Alive
<1> QED
  BY <1>1, <1>2, <1>4, ProcessesKept

LEMMA StopOneInv ==
  ASSUME IInv, StopOne
  PROVE  IInv'
<1>1. /\ UNCHANGED <<count, started, stray, reached, launches, quit>> /\ at = "stop"
      /\ TypeOK /\ Place /\ Unstarted /\ Passed /\ Counted /\ StopPassed /\ StartedInOrder
      /\ Size' = Size
  BY DEF StopOne, IInv, Size
<1>2. /\ cur \in 0..5 /\ Size \in 0..5 /\ cur <= Size
      /\ process \in [Names -> {"none", "booting", "serving", "exited"}]
  BY <1>1, WhereMainIs DEF Place, TypeOK
<1>3. StartedInOrder' /\ Counted' /\ Passed'
  <2>1. at' \in {"stop", "end"}
    BY DEF StopOne, GoTo
  <2> QED BY <1>1, <2>1 DEF StartedInOrder, Counted, Passed
<1>4. CASE /\ cur > 0 /\ at' = "stop" /\ cur' = cur - 1
           /\ process' = [process EXCEPT ![started[cur]] =
                            IF Alive(started[cur]) THEN "exited" ELSE @]
  <2>1. started[cur] = Services[cur] /\ Services[cur] \in Names
    BY <1>1, <1>2, <1>4, WhatIsStarted, TheServices
  <2>2. /\ process' \in [Names -> {"none", "booting", "serving", "exited"}]
        /\ process'[Services[cur]] \in {"none", "exited"}
        /\ \A u \in Names : u # Services[cur] => process'[u] = process[u]
        /\ \A u \in Names : process[u] = "none" => process'[u] = "none"
    BY <1>2, <1>4, <2>1 DEF Alive
  <2>3. TypeOK'
    <3>1. cur' \in 0..Len(Services) /\ ~Trying'
      BY <1>2, <1>4, TheServices DEF Trying
    <3> QED BY <1>1, <1>4, <2>2, <3>1 DEF TypeOK
  <2>4. Place' /\ NoOrphans'
    BY <1>1, <1>2, <1>4 DEF Place, NoOrphans
  <2>5. Unstarted'
    BY <1>1, <2>2, TheServices DEF Unstarted
  <2>6. StopPassed'
    <3> SUFFICES ASSUME NEW i \in 1..5, cur - 1 < i PROVE ~Alive(Services[i])'
      BY <1>4 DEF StopPassed
    <3>1. CASE i = cur
      BY <2>2, <3>1 DEF Alive
    <3>2. CASE cur < i
      <4>1. Services[i] # Services[cur] /\ Services[i] \in Names
        BY <1>2, <1>4, <3>2, TheServices
      <4>2. ~Alive(Services[i])
        BY <1>1, <3>2 DEF StopPassed
      <4> QED BY <2>2, <4>1, <4>2 DEF Alive
    <3> QED BY <1>2, <3>1, <3>2
  <2> QED
    BY <1>3, <2>3, <2>4, <2>5, <2>6 DEF IInv
<1>5. CASE cur = 0 /\ at' = "end" /\ cur' = 0 /\ UNCHANGED process
  <2>1. TypeOK'
    <3>1. cur' \in 0..Len(Services) /\ ~Trying'
      BY <1>5, TheServices DEF Trying
    <3> QED BY <1>1, <1>5, <3>1 DEF TypeOK
  <2>2. \A i \in 1..5 : ~Alive(Services[i])
    BY <1>1, <1>5 DEF StopPassed
  <2>3. NoOrphans'
    BY <1>5, <2>2, TheServices DEF NoOrphans, Alive
  <2>4. Place' /\ Unstarted' /\ StopPassed'
    BY <1>1, <1>5 DEF Place, Unstarted, StopPassed
  <2> QED
    BY <1>3, <2>1, <2>3, <2>4 DEF IInv
<1> QED
  BY <1>4, <1>5 DEF StopOne, GoTo

LEMMA InterruptInv ==
  ASSUME IInv, Interrupt
  PROVE  IInv'
<1>1. UNCHANGED <<process, count, started, stray, reached, launches>> /\ Size' = Size
  BY DEF Interrupt, Size
<1>2. /\ cur \in 0..5 /\ Size \in 0..5 /\ count \in [Names -> 0..RestartLimit]
      /\ reached \subseteq Names /\ \A s \in Names : s \notin Watched => count[s] = 0
  BY WhereMainIs
<1>3. CASE at' = "stop" /\ cur' = Size /\ UNCHANGED quit
  <2>1. Place' /\ Passed'
    BY <1>1, <1>2, <1>3 DEF Place, Passed
  <2>2. \A s \in Names : count[s] <= count'[s]
    BY <1>1, <1>2, SupervisorAssumption
  <2> QED
    BY <1>1, <1>2, <1>3, <2>1, <2>2, MainGoesOn DEF Places
<1>4. CASE at' = "end" /\ cur' = 0 /\ quit' = TRUE
  <2>1. TypeOK /\ Unstarted /\ Counted /\ StartedInOrder
    BY DEF IInv
  <2>2. TypeOK'
    <3>1. cur' \in 0..Len(Services) /\ ~Trying'
      BY <1>4, TheServices DEF Trying
    <3> QED BY <1>1, <1>4, <2>1, <3>1 DEF TypeOK
  <2> QED
    BY <1>1, <1>4, <2>1, <2>2
    DEF IInv, Place, Unstarted, Passed, Counted, StopPassed, NoOrphans, StartedInOrder
<1>5. \/ Fail /\ UNCHANGED quit
      \/ GoTo("end", 0) /\ quit' = TRUE
  BY DEF Interrupt
<1> QED
  BY <1>1, <1>3, <1>4, <1>5 DEF Fail, GoTo, Size
\* main starts or restarts its service of now: all before it are ready or optional, and
\* it may be created once more.
LEMMA PopenKeeps ==
  ASSUME IInv, NEW i \in 1..5, Popen(Services[i]),
         UNCHANGED <<count, reached>>,
         \A j \in 1..5 : j < i => Good(j),
         launches[Services[i]] <= count[Services[i]],
         at' # "backoff"
  PROVE  /\ process' \in [Names -> {"none", "booting", "serving", "exited"}]
         /\ \A s \in Names : s # Services[i] =>
              process'[s] = process[s] /\ launches'[s] = launches[s]
         /\ Counted' /\ StartedInOrder'
<1>1. /\ process \in [Names -> {"none", "booting", "serving", "exited"}]
      /\ launches \in [Names -> Nat] /\ Services[i] \in Names
      /\ count \in [Names -> 0..RestartLimit] /\ RestartLimit \in Nat
      /\ \A s \in Names : launches[s] <= 1 + count[s] /\ (s \notin Watched => count[s] = 0)
  BY TheServices, SupervisorAssumption DEF IInv, TypeOK, Counted
<1>2. /\ process' \in [Names -> {"none", "booting", "serving", "exited"}]
      /\ launches' \in [Names -> Nat] /\ launches'[Services[i]] = launches[Services[i]] + 1
      /\ \A s \in Names : s # Services[i] =>
           process'[s] = process[s] /\ launches'[s] = launches[s]
  BY <1>1 DEF Popen
<1>3. ASSUME NEW s \in Names PROVE launches'[s] <= 1 + count[s]
  <2>1. CASE s = Services[i]
    <3>1. launches[s] \in Nat /\ count[s] \in Nat
      BY <1>1
    <3> QED BY <1>2, <2>1, <3>1
  <2>2. CASE s # Services[i]
    BY <1>1, <1>2, <2>2
  <2> QED BY <2>1, <2>2
<1>4. Counted'
  BY <1>1, <1>2, <1>3 DEF Counted
<1>5. StartedInOrder'
  <2> SUFFICES ASSUME NEW k \in 1..5, NEW j \in 1..5, k < j, launches'[Services[j]] > 0
               PROVE  Good(k)
    BY TheServices DEF StartedInOrder, Good
  <2>1. CASE j = i
    BY <2>1
  <2>2. CASE j # i
    <3>1. launches[Services[j]] > 0
      BY <1>2, <2>2, TheServices
    <3> QED BY <3>1, TheServices DEF IInv, StartedInOrder, Good
  <2> QED BY <2>1, <2>2
<1> QED
  BY <1>2, <1>4, <1>5

LEMMA LaunchInv ==
  ASSUME IInv, Launch
  PROVE  IInv'
<1>1. /\ UNCHANGED <<count, stray, reached, quit>> /\ at = "launch"
      /\ started' = Append(started, Here)
      /\ TypeOK /\ Place /\ Unstarted /\ Passed /\ Counted /\ StartedInOrder
  BY DEF Launch, IInv
<1>2. /\ cur \in 1..5 /\ Here = Services[cur] /\ Here \in Names /\ Size = cur - 1
      /\ count \in [Names -> 0..RestartLimit] /\ \A i \in 1..5 : i < cur => Good(i)
  BY <1>1, WhereMainIs DEF Trying, Place, Passed, Here
<1>3. Size' = cur /\ started' = SubSeq(Services, 1, cur) /\ cur \in 0..Len(Services)
  BY <1>1, <1>2, OneMoreStarted, TheServices DEF Size
<1>4. CASE Popen(Here) /\ at' = "await" /\ cur' = cur
  <2>1. launches[Services[cur]] = 0 /\ count[Services[cur]] \in Nat
    BY <1>1, <1>2, SupervisorAssumption DEF Unstarted
  <2>2. /\ process' \in [Names -> {"none", "booting", "serving", "exited"}]
        /\ \A s \in Names : s # Services[cur] =>
              process'[s] = process[s] /\ launches'[s] = launches[s]
        /\ Counted' /\ StartedInOrder'
    <3>1. at' # "backoff" /\ launches[Services[cur]] <= count[Services[cur]]
      BY <1>4, <2>1
    <3> QED BY <1>1, <1>2, <1>4, <3>1, PopenKeeps
  <2>3. TypeOK'
    <3>1. cur' > 0 /\ cur' \in 0..Len(Services)
      BY <1>2, <1>3, <1>4
    <3> QED BY <1>1, <1>3, <1>4, <2>2, <3>1 DEF TypeOK
  <2>4. Unstarted'
    <3> SUFFICES ASSUME NEW i \in 1..5, i > cur
                 PROVE  process'[Services[i]] = "none" /\ launches'[Services[i]] = 0
      BY <1>3 DEF Unstarted
    <3>1. Services[i] # Services[cur] /\ Services[i] \in Names /\ i > Size
      BY <1>2, TheServices
    <3> QED BY <1>1, <2>2, <3>1 DEF Unstarted
  <2>5. Place' /\ Passed' /\ StopPassed' /\ NoOrphans'
    BY <1>1, <1>2, <1>3, <1>4 DEF Place, Passed, Good, StopPassed, NoOrphans
  <2> QED
    BY <2>2, <2>3, <2>4, <2>5 DEF IInv
<1>5. CASE Here \in Optional /\ Onward /\ UNCHANGED <<process, launches>>
  <2>1. \/ at' = "launch" /\ cur' = cur + 1 /\ cur < 5
        \/ at' = "watch" /\ cur' = 1 /\ cur = 5
    <3>1. Here # "llama-server"
      BY <1>5 DEF Optional
    <3> QED BY <1>2, <1>5, <3>1, TheServices DEF Onward, GoTo
  <2>2. \A i \in 1..5 : i <= cur => Good(i)'
    BY <1>1, <1>2, <1>5 DEF Good
  <2>3. TypeOK'
    <3>1. cur' > 0 /\ cur' \in 0..Len(Services)
      BY <1>2, <2>1, TheServices
    <3> QED BY <1>1, <1>3, <1>5, <2>1, <3>1 DEF TypeOK
  <2>4. Place' /\ Passed' /\ Unstarted'
    BY <1>1, <1>2, <1>3, <1>5, <2>1, <2>2 DEF Place, Passed, Unstarted
  <2>5. Counted' /\ StartedInOrder' /\ StopPassed' /\ NoOrphans'
    BY <1>1, <1>5, <2>1 DEF Counted, StartedInOrder, StopPassed, NoOrphans
  <2> QED
    BY <2>3, <2>4, <2>5 DEF IInv
<1> QED
  BY <1>4, <1>5 DEF Launch, GoTo

LEMMA RestartInv ==
  ASSUME IInv, Restart
  PROVE  IInv'
<1>1. /\ UNCHANGED <<count, started, stray, reached, quit>> /\ at = "backoff"
      /\ at' = "reawait" /\ cur' = cur /\ Popen(Here) /\ Size' = Size
      /\ TypeOK /\ Place /\ Unstarted /\ Passed /\ Counted
  BY DEF Restart, GoTo, IInv, Size
<1>2. /\ cur \in 1..5 /\ Here = Services[cur] /\ Size = 5 /\ \A i \in 1..5 : Good(i)
      /\ launches[Services[cur]] <= count[Services[cur]]
  BY <1>1, WhereMainIs DEF Trying, Place, Passed, Here, Counted
<1>3. /\ process' \in [Names -> {"none", "booting", "serving", "exited"}]
      /\ Counted' /\ StartedInOrder'
  <2>1. at' # "backoff"
    BY <1>1
  <2> QED BY <1>1, <1>2, <2>1, PopenKeeps
<1>4. TypeOK'
  <2>1. cur' > 0 /\ cur' \in 0..Len(Services)
    BY <1>1, <1>2, TheServices
  <2> QED BY <1>1, <1>3, <2>1 DEF TypeOK
<1>5. Place' /\ Unstarted' /\ Passed' /\ StopPassed' /\ NoOrphans'
  BY <1>1, <1>2 DEF Place, Unstarted, Passed, Good, StopPassed, NoOrphans
<1> QED
  BY <1>3, <1>4, <1>5 DEF IInv

-----------------------------------------------------------------------------
\* What is known about the services where main is, whatever exits and whenever Ctrl+C is
\* pressed.
THEOREM StackInvariant == Spec => []IInv
<1>1. IInv /\ [Next]_vars => IInv'
  <2> SUFFICES ASSUME IInv, [Next]_vars PROVE IInv'
    OBVIOUS
  <2>1. CASE UNCHANGED vars
    <3>1. /\ UNCHANGED <<at, cur, started, reached, launches, quit, count>>
          /\ UNCHANGED process /\ UNCHANGED stray
      BY <2>1 DEF vars
    <3>2. stray \subseteq Names /\ process \in [Names -> {"none", "booting", "serving", "exited"}]
      BY DEF IInv, TypeOK
    <3> QED BY <3>1, <3>2, ProcessesKept DEF Alive
  <2>2. CASE Next
    BY <2>2, PrepareInv, LaunchInv, AwaitInv, WatchOneInv, RestartInv, ReawaitInv,
       WatchBrainInv, StopOneInv, InterruptInv, WorldInv
    DEF Next, Main
  <2> QED BY <2>1, <2>2
<1> QED
  BY InitInv, <1>1, PTL DEF Spec

\* Nothing is left running, started too early or restarted too often, in any order of
\* exits and for every restart limit (Scripts/supervisor.py:258-504).
THEOREM StackIsSafe == Spec => []SupervisorInv
<1>1. IInv => SupervisorInv
  <2> SUFFICES ASSUME IInv PROVE SupervisorInv
    OBVIOUS
  <2>1. TypeOK /\ NoOrphans /\ StartedInOrder
    BY DEF IInv
  <2>2. RestartsAreBounded
    <3> SUFFICES ASSUME NEW s \in Names
                 PROVE  launches[s] <= 1 + (IF s \in Watched THEN RestartLimit ELSE 0)
      BY DEF RestartsAreBounded
    <3>1. /\ launches[s] \in Nat /\ count[s] \in 0..RestartLimit /\ RestartLimit \in Nat
          /\ launches[s] <= 1 + count[s] /\ (s \notin Watched => count[s] = 0)
      BY SupervisorAssumption DEF IInv, Counted, TypeOK
    <3> QED BY <3>1
  <2> QED BY <2>1, <2>2 DEF SupervisorInv
<1> QED
  BY StackInvariant, <1>1, PTL

-----------------------------------------------------------------------------
(***************************************************************************)
(* VoiceTurn: its invariant, VoiceType in parts and what is left of the    *)
(* budget, with the flag that a turn of a view has up.                     *)
(***************************************************************************)
LinkTyped ==
  /\ {up, fault} \subseteq BOOLEAN
  /\ browser \in {"away", "joins", "here", "types", "streams"}
  /\ latest \in 0..MaxSessions /\ open \subseteq Sessions
LeftTyped ==
  left \in [turns : Nat, revisions : Nat, tools : Nat, losses : Nat, visits : Nat,
            failures : Nat, refusals : Nat]
ServerTyped ==
  /\ mic \in BOOLEAN
  /\ reply \in {"none", "free", "plain"} /\ asked \subseteq {"free", "plain"}
WireTyped == wire \in [Sessions -> Seq(Events)]
PumpTyped == pump \in [Sessions -> {"none", "reading", "returns"} \cup Tools]
TurnTyped == turn \in Nat /\ sighted \subseteq 0..turn
FlagsTyped == {barrier, vision, suppress} \subseteq BOOLEAN
AnswerTyped == answer \in {"none", "prepared", "sends"} /\ leaked \subseteq {"action", "gpu"}
ItemsTyped == items \in [Utterances -> Item]

\* The flag is up in a turn of a view.
Flagged == turn \in sighted => vision

VoiceIInv ==
  /\ LinkTyped /\ LeftTyped /\ ServerTyped /\ WireTyped /\ PumpTyped /\ TurnTyped
  /\ FlagsTyped /\ AnswerTyped /\ ItemsTyped /\ Flagged

LEMMA VoiceMeansType == VoiceIInv => VoiceType
<1> SUFFICES ASSUME VoiceIInv PROVE VoiceType
  OBVIOUS
<1>1. {up, fault, mic, barrier, vision, suppress} \subseteq BOOLEAN
  BY DEF VoiceIInv, LinkTyped, ServerTyped, FlagsTyped
<1> QED
  BY <1>1 DEF VoiceIInv, VoiceType, LinkTyped, ServerTyped, WireTyped, PumpTyped, TurnTyped,
              AnswerTyped, ItemsTyped

LEMMA VoiceStarts == VoiceInit => VoiceIInv
<1> SUFFICES ASSUME VoiceInit PROVE VoiceIInv
  OBVIOUS
<1>1. MaxSessions \in Nat /\ MaxTurns \in Nat /\ left \in Budgets
  BY VoiceAssumption DEF VoiceInit
<1>2. LeftTyped
  BY <1>1, VoiceAssumption DEF LeftTyped
<1>3. LinkTyped /\ ServerTyped /\ PumpTyped /\ AnswerTyped
  <2>1. 0 \in 0..MaxSessions
    BY <1>1
  <2>2. LinkTyped
    BY <2>1 DEF VoiceInit, LinkTyped
  <2>3. ServerTyped /\ AnswerTyped
    BY DEF VoiceInit, ServerTyped, AnswerTyped
  <2>4. PumpTyped
    BY DEF VoiceInit, PumpTyped
  <2> QED BY <2>2, <2>3, <2>4
<1>4. WireTyped
  <2>1. <<>> \in Seq(Events)
    OBVIOUS
  <2> QED BY <2>1 DEF VoiceInit, WireTyped
<1>5. TurnTyped /\ FlagsTyped /\ Flagged
  BY DEF VoiceInit, TurnTyped, FlagsTyped, Flagged
<1>6. ItemsTyped
  BY DEF VoiceInit, ItemsTyped, Item, Silent
<1> QED BY <1>2, <1>3, <1>4, <1>5, <1>6 DEF VoiceIInv

-----------------------------------------------------------------------------
(* Each part is kept by what changes its variables. *)

LEMMA SpendKeeps ==
  ASSUME LeftTyped, NEW what \in {"turns", "revisions", "tools", "losses", "visits",
                                  "failures", "refusals"}, Spend(what)
  PROVE  LeftTyped'
BY DEF Spend, LeftTyped

LEMMA RefusedKeeps ==
  ASSUME LinkTyped, LeftTyped, Refused, UNCHANGED up,
         browser' \in {"away", "joins", "here", "types", "streams"}
  PROVE  LinkTyped' /\ LeftTyped'
<1>1. LeftTyped'
  <2>1. CASE Spend("refusals")
    BY <2>1, SpendKeeps
  <2>2. CASE UNCHANGED left
    BY <2>2 DEF LeftTyped
  <2> QED BY <2>1, <2>2 DEF Refused
<1> QED BY <1>1 DEF Refused, LinkTyped

LEMMA WireKeeps ==
  ASSUME WireTyped, NEW p \in Sessions, NEW w \in Seq(Events),
         wire' = [wire EXCEPT ![p] = w]
  PROVE  WireTyped'
BY DEF WireTyped

LEMMA EventsAre ==
  /\ \A type \in {"heard", "text", "done"} \cup Tools : Says(type) \in Events
  /\ \A u \in Nat : Transcript(u) \in Events
BY DEF Says, Transcript, Events

LEMMA SendsKeeps ==
  ASSUME LinkTyped, WireTyped, Connected, NEW s \in Seq(Events), Sends(s)
  PROVE  WireTyped'
<1>1. latest \in Sessions /\ wire[latest] \in Seq(Events)
  BY DEF LinkTyped, Connected, WireTyped
<1>2. wire[latest] \o s \in Seq(Events)
  BY <1>1
<1> QED BY <1>1, <1>2, WireKeeps DEF Sends

LEMMA NextTurnIsNew ==
  ASSUME TurnTyped, turn' = turn + 1, UNCHANGED sighted
  PROVE  TurnTyped' /\ turn' \notin sighted'
<1>1. turn \in Nat /\ sighted \subseteq 0..turn
  BY DEF TurnTyped
<1>2. turn + 1 \in Nat /\ 0..turn \subseteq 0..(turn + 1) /\ turn + 1 \notin 0..turn
  BY <1>1
<1>3. turn' \in Nat /\ sighted' \subseteq 0..turn'
  BY <1>1, <1>2
<1>4. turn' \notin sighted'
  BY <1>1, <1>2
<1> QED BY <1>3, <1>4 DEF TurnTyped

LEMMA GoesKeeps ==
  ASSUME PumpTyped, NEW p \in Sessions,
         NEW what \in {"none", "reading", "returns"} \cup Tools, Goes(p, what)
  PROVE  PumpTyped'
BY DEF PumpTyped, Goes

LEMMA TaskKeeps ==
  ASSUME ItemsTyped, NEW u \in Utterances
  PROVE  /\ Served(u) => ItemsTyped'
         /\ \A what \in Kinds \cup Errands \cup {"none", "acting"} :
              BecomesTask(u, what) => ItemsTyped'
BY DEF ItemsTyped, Item, Served, BecomesTask

LEMMA CancelledKeeps ==
  ASSUME LinkTyped, ServerTyped, WireTyped, Open, Cancelled
  PROVE  ServerTyped' /\ WireTyped'
<1>1. latest \in Sessions /\ wire[latest] \in Seq(Events)
  BY DEF LinkTyped, Open, Connected, WireTyped
<1>2. Says("done") \in Events
  BY EventsAre
<1>3. Append(wire[latest], Says("done")) \in Seq(Events)
  BY <1>1, <1>2
<1>4. WireTyped'
  BY <1>1, <1>3, WireKeeps DEF Cancelled, WireTyped
<1> QED BY <1>4 DEF Cancelled, ServerTyped

LEMMA AskedKeeps ==
  ASSUME ServerTyped, WireTyped, NEW r \in {"free", "plain"}, Asked(r)
  PROVE  ServerTyped' /\ WireTyped'
BY DEF ServerTyped, WireTyped, Asked

-----------------------------------------------------------------------------
LEMMA UpstreamSteps ==
  ASSUME VoiceIInv, Connects \/ Resets \/ ResetsLate
  PROVE  VoiceIInv'
<1> USE DEF VoiceIInv, server, pumps, flags, visual
<1>1. CASE Connects
  <2>1. latest \in Nat /\ MaxSessions \in Nat /\ latest < MaxSessions
    BY <1>1, VoiceAssumption DEF Connects, LinkTyped
  <2>2. latest' = latest + 1 /\ latest' \in Sessions /\ latest' \in 0..MaxSessions
    BY <1>1, <2>1 DEF Connects, Sessions
  <2>3. LinkTyped'
    BY <1>1, <2>2 DEF Connects, LinkTyped
  <2>4. PumpTyped' /\ ServerTyped'
    BY <1>1, <2>2 DEF Connects, PumpTyped, ServerTyped, Silenced
  <2>5. LeftTyped' /\ WireTyped' /\ TurnTyped' /\ FlagsTyped' /\ AnswerTyped' /\ ItemsTyped'
        /\ Flagged'
    BY <1>1 DEF Connects, LeftTyped, WireTyped, TurnTyped, FlagsTyped, AnswerTyped,
                ItemsTyped, Flagged
  <2> QED BY <2>3, <2>4, <2>5
<1>2. CASE Resets \/ ResetsLate
  <2>1. LeftTyped'
    BY <1>2, SpendKeeps DEF Resets, ResetsLate, LeftTyped
  <2>2. LinkTyped' /\ ServerTyped' /\ WireTyped' /\ PumpTyped'
    BY <1>2 DEF Resets, ResetsLate, LinkTyped, ServerTyped, WireTyped, PumpTyped
  <2>3. TurnTyped' /\ FlagsTyped' /\ AnswerTyped' /\ ItemsTyped' /\ Flagged'
    BY <1>2 DEF Resets, ResetsLate, TurnTyped, FlagsTyped, AnswerTyped, ItemsTyped, Flagged
  <2> QED BY <2>1, <2>2, <2>3
<1> QED BY <1>1, <1>2

LEMMA BrowserSteps ==
  ASSUME VoiceIInv, BrowserNext
  PROVE  VoiceIInv'
<1> USE DEF VoiceIInv, server, pumps, flags, visual
<1>1. CASE BrowserJoins \/ Joined \/ BrowserStreams
  <2>1. LinkTyped'
    BY <1>1 DEF BrowserJoins, Joined, BrowserStreams, LinkTyped
  <2>2. LeftTyped' /\ ServerTyped' /\ WireTyped' /\ PumpTyped' /\ AnswerTyped' /\ ItemsTyped'
    BY <1>1 DEF BrowserJoins, Joined, BrowserStreams, LeftTyped, ServerTyped, WireTyped,
                PumpTyped, AnswerTyped, ItemsTyped
  <2>3. TurnTyped' /\ FlagsTyped' /\ Flagged'
    BY <1>1 DEF BrowserJoins, Joined, BrowserStreams, TurnTyped, FlagsTyped, Flagged
  <2> QED BY <2>1, <2>2, <2>3
<1>2. CASE BrowserTypes
  <2>1. LinkTyped' /\ LeftTyped'
    BY <1>2, SpendKeeps DEF BrowserTypes, LinkTyped
  <2>2. TurnTyped' /\ Flagged' /\ FlagsTyped'
    BY <1>2, NextTurnIsNew DEF BrowserTypes, Flagged, FlagsTyped
  <2>3. ServerTyped' /\ WireTyped' /\ PumpTyped' /\ AnswerTyped' /\ ItemsTyped'
    BY <1>2 DEF BrowserTypes, ServerTyped, WireTyped, PumpTyped, AnswerTyped, ItemsTyped
  <2> QED BY <2>1, <2>2, <2>3
<1>3. CASE BrowserSent
  <2>1. LinkTyped' /\ LeftTyped' /\ ServerTyped'
    BY <1>3 DEF BrowserSent, LinkTyped, LeftTyped, ServerTyped
  <2>2. TurnTyped' /\ Flagged' /\ FlagsTyped'
    BY <1>3 DEF BrowserSent, TurnTyped, Flagged, FlagsTyped
  <2>3. WireTyped' /\ PumpTyped' /\ AnswerTyped' /\ ItemsTyped'
    BY <1>3 DEF BrowserSent, WireTyped, PumpTyped, AnswerTyped, ItemsTyped
  <2> QED BY <2>1, <2>2, <2>3
<1>4. CASE BrowserLeaves \/ BrowserGivesUp
  <2>1. Away
    BY <1>4 DEF BrowserLeaves, BrowserGivesUp
  <2>2. LinkTyped' /\ LeftTyped'
    <3>1. CASE BrowserLeaves
      BY <3>1, <2>1, SpendKeeps DEF BrowserLeaves, Away, LinkTyped
    <3>2. CASE BrowserGivesUp
      BY <3>2, <2>1, RefusedKeeps DEF BrowserGivesUp, Away
    <3> QED BY <1>4, <3>1, <3>2
  <2>3. TurnTyped' /\ Flagged' /\ FlagsTyped'
    BY <2>1 DEF Away, TurnTyped, Flagged, FlagsTyped
  <2>4. ServerTyped' /\ WireTyped' /\ PumpTyped' /\ AnswerTyped' /\ ItemsTyped'
    BY <2>1 DEF Away, ServerTyped, WireTyped, PumpTyped, AnswerTyped, ItemsTyped
  <2> QED BY <2>2, <2>3, <2>4
<1> QED BY <1>1, <1>2, <1>3, <1>4 DEF BrowserNext

LEMMA ServerSteps ==
  ASSUME VoiceIInv, ServerNext
  PROVE  VoiceIInv'
<1> USE DEF VoiceIInv, link, pumps, flags, visual
<1>1. CASE Lose
  <2>1. LinkTyped' /\ LeftTyped' /\ ServerTyped'
    BY <1>1, SpendKeeps DEF Lose, LinkTyped, ServerTyped, Silenced
  <2>2. TurnTyped' /\ Flagged' /\ FlagsTyped'
    BY <1>1 DEF Lose, TurnTyped, Flagged, FlagsTyped
  <2>3. WireTyped' /\ PumpTyped' /\ AnswerTyped' /\ ItemsTyped'
    BY <1>1 DEF Lose, WireTyped, PumpTyped, AnswerTyped, ItemsTyped
  <2> QED BY <2>1, <2>2, <2>3
<1>2. CASE SpeechStarts \/ SpeechStops \/ Revises \/ Replies \/ Ends
  <2>1. /\ UNCHANGED <<browser, up, latest, open, fault, pump, turn, flags, visual, items>>
        /\ UNCHANGED sighted /\ Connected
    BY <1>2 DEF SpeechStarts, SpeechStops, Revises, Replies, Ends, Open
  <2>2. LinkTyped' /\ PumpTyped' /\ AnswerTyped' /\ ItemsTyped'
    BY <2>1 DEF LinkTyped, PumpTyped, AnswerTyped, ItemsTyped
  <2>3. TurnTyped' /\ Flagged' /\ FlagsTyped'
    BY <2>1 DEF TurnTyped, Flagged, FlagsTyped
  <2>4. LeftTyped'
    BY <1>2, SpendKeeps DEF SpeechStarts, SpeechStops, Revises, Replies, Ends, LeftTyped
  <2>5. ServerTyped'
    BY <1>2 DEF SpeechStarts, SpeechStops, Revises, Replies, Ends, ServerTyped
  <2>6. WireTyped'
    <3>1. \A type \in {"heard", "text", "done"} \cup Tools : <<Says(type)>> \in Seq(Events)
      BY EventsAre
    <3>2. \A t \in Tools : <<Says(t), Says("done")>> \in Seq(Events)
      <4>1. \A t \in Tools : Says(t) \in Events
        BY EventsAre
      <4>2. Says("done") \in Events
        BY EventsAre
      <4> QED BY <4>1, <4>2
    <3>3. <<Says("heard"), Says("done")>> \in Seq(Events)
      BY EventsAre
    <3>4. \A u \in Nat : <<Transcript(u)>> \in Seq(Events)
      BY EventsAre
    <3>5. Latest \in Nat
      BY DEF Latest, LeftTyped
    <3>6. CASE SpeechStarts
      BY <3>6, <2>1, <3>1, <3>3, SendsKeeps DEF SpeechStarts
    <3>7. CASE SpeechStops
      BY <3>7, <2>1, <3>4, <3>5, SendsKeeps DEF SpeechStops
    <3>8. CASE Revises
      <4>1. PICK u \in Utterances :
              Sends((IF reply = "none" THEN <<>> ELSE <<Says("done")>>) \o <<Transcript(u)>>)
        BY <3>8 DEF Revises
      <4>2. <<Transcript(u)>> \in Seq(Events)
        BY <3>4 DEF Utterances
      <4>3. (IF reply = "none" THEN <<>> ELSE <<Says("done")>>) \in Seq(Events)
        BY <3>1
      <4>4. (IF reply = "none" THEN <<>> ELSE <<Says("done")>>) \o <<Transcript(u)>> \in Seq(Events)
        BY <4>2, <4>3
      <4> QED BY <2>1, <4>1, <4>4, SendsKeeps
    <3>9. CASE Replies
      BY <3>9 DEF Replies, WireTyped
    <3>10. CASE Ends
      BY <3>10, <2>1, <3>1, <3>2, SendsKeeps DEF Ends
    <3> QED BY <1>2, <3>6, <3>7, <3>8, <3>9, <3>10
  <2> QED BY <2>2, <2>3, <2>4, <2>5, <2>6
<1> QED BY <1>1, <1>2 DEF ServerNext

-----------------------------------------------------------------------------
LEMMA ReadsKeeps ==
  ASSUME VoiceIInv, NEW p \in Sessions, NEW type, Reads(p, type)
  PROVE  /\ LinkTyped' /\ LeftTyped' /\ ServerTyped' /\ WireTyped'
         /\ up' = up /\ fault' = fault /\ browser' = browser
<1> USE DEF VoiceIInv, link, server
<1>1. wire[p] \in Seq(Events) /\ wire[p] # <<>>
  BY DEF Reads, WireTyped
<1>2. Tail(wire[p]) \in Seq(Events)
  BY <1>1
<1>3. WireTyped'
  BY <1>2, WireKeeps DEF Reads
<1> QED BY <1>3 DEF Reads, LinkTyped, LeftTyped, ServerTyped

LEMMA LeaksKeeps ==
  ASSUME AnswerTyped, NEW inLine, NEW lease \in {"action", "gpu"}, LeaksIf(inLine, lease)
  PROVE  leaked' \subseteq {"action", "gpu"}
BY DEF AnswerTyped, LeaksIf

LEMMA NewTextIsItem ==
  ASSUME NEW item \in Item, NEW k \in Kinds
  PROVE  NewText(item, k) \in Item
<1>1. item.text + 1 \in Nat
  BY DEF Item
<1> QED BY <1>1 DEF Item, NewText

LEMMA FinalizedIsItem ==
  ASSUME NEW item \in Item
  PROVE  Finalize(item) \in Item
<1>1. (item.text > 0) \in BOOLEAN
  OBVIOUS
<1> QED BY <1>1 DEF Item, Finalize

LEMMA HandlingSteps ==
  ASSUME VoiceIInv, NEW p \in Sessions, Handles(p)
  PROVE  VoiceIInv'
<1> USE DEF VoiceIInv, flags, visual
<1>1. PICK type : Reads(p, type)
  BY DEF Handles, Heard, Text, Swallowed, Done, LookTool, MoveTool
<1>2. LinkTyped' /\ LeftTyped' /\ ServerTyped' /\ WireTyped'
  BY <1>1, ReadsKeeps
<1>3. CASE Heard(p)
  <2>1. TurnTyped' /\ Flagged' /\ FlagsTyped'
    BY <1>3, NextTurnIsNew DEF Heard, Flagged, FlagsTyped
  <2>2. PumpTyped' /\ AnswerTyped' /\ ItemsTyped'
    BY <1>3 DEF Heard, PumpTyped, AnswerTyped, ItemsTyped
  <2> QED BY <1>2, <2>1, <2>2
<1>4. CASE Text(p)
  <2>1. TurnTyped' /\ Flagged' /\ FlagsTyped' /\ PumpTyped'
    BY <1>4 DEF Text, TurnTyped, Flagged, FlagsTyped, PumpTyped
  <2>2. AnswerTyped'
    <3>1. leaked' \subseteq {"action", "gpu"}
      BY <1>4, LeaksKeeps DEF Text
    <3> QED BY <1>4, <3>1 DEF Text, AnswerTyped
  <2>3. ItemsTyped'
    <3> DEFINE u == Head(wire[p]).utterance
    <3>1. PICK k \in Kinds : items' = [items EXCEPT ![u] = NewText(items[u], k)]
      BY <1>4 DEF Text
    <3>2. \A v \in Utterances : NewText(items[v], k) \in Item
      <4>1. \A v \in Utterances : items[v] \in Item
        BY DEF ItemsTyped
      <4> QED BY <4>1, NewTextIsItem
    <3> HIDE DEF u
    <3> QED BY <3>1, <3>2 DEF ItemsTyped
  <2> QED BY <1>2, <2>1, <2>2, <2>3
<1>5. CASE Swallowed(p)
  <2>1. TurnTyped' /\ Flagged' /\ FlagsTyped'
    BY <1>5 DEF Swallowed, TurnTyped, Flagged, FlagsTyped
  <2>2. PumpTyped' /\ AnswerTyped' /\ ItemsTyped'
    BY <1>5 DEF Swallowed, PumpTyped, AnswerTyped, ItemsTyped
  <2> QED BY <1>2, <2>1, <2>2
<1>6. CASE Done(p)
  <2>1. TurnTyped' /\ Flagged' /\ FlagsTyped' /\ PumpTyped' /\ AnswerTyped'
    BY <1>6 DEF Done, TurnTyped, Flagged, FlagsTyped, PumpTyped, AnswerTyped
  <2>2. \A u \in Utterances : Finalize(items[u]) \in Item
    <3>1. \A u \in Utterances : items[u] \in Item
      BY DEF ItemsTyped
    <3> QED BY <3>1, FinalizedIsItem
  <2>3. ItemsTyped'
    BY <1>6, <2>2 DEF Done, ItemsTyped
  <2> QED BY <1>2, <2>1, <2>3
<1>7. CASE LookTool(p) \/ MoveTool(p)
  <2>1. PumpTyped'
    BY <1>7, GoesKeeps DEF LookTool, MoveTool, Tools
  <2>2. TurnTyped' /\ Flagged' /\ FlagsTyped'
    BY <1>7 DEF LookTool, MoveTool, TurnTyped, Flagged, FlagsTyped
  <2>3. AnswerTyped' /\ ItemsTyped'
    BY <1>7 DEF LookTool, MoveTool, AnswerTyped, ItemsTyped
  <2> QED BY <1>2, <2>1, <2>2, <2>3
<1> QED BY <1>3, <1>4, <1>5, <1>6, <1>7 DEF Handles

LEMMA PumpSteps ==
  ASSUME VoiceIInv, NEW p \in Sessions,
         PumpEnds(p) \/ ToolDone(p) \/ ToolFails(p) \/ Returned(p) \/ PumpGivesUp(p)
  PROVE  VoiceIInv'
<1> USE DEF VoiceIInv, link, server, flags, visual
<1>1. CASE PumpEnds(p) \/ ToolFails(p) \/ PumpGivesUp(p)
  <2>1. PumpStops(p)
    BY <1>1 DEF PumpEnds, ToolFails, PumpGivesUp
  <2>2. LeftTyped'
    BY <1>1, SpendKeeps DEF PumpEnds, ToolFails, PumpGivesUp, LeftTyped
  <2>3. up' \in BOOLEAN /\ fault' \in BOOLEAN
    BY <2>1 DEF PumpStops, LinkTyped
  <2>4. LinkTyped'
    BY <2>1, <2>3 DEF PumpStops, LinkTyped
  <2>5. PumpTyped' /\ ServerTyped'
    BY <2>1, GoesKeeps DEF PumpStops, ServerTyped, Silenced
  <2>6. WireTyped'
    <3>1. <<>> \in Seq(Events)
      OBVIOUS
    <3> QED BY <2>1, <3>1, WireKeeps DEF PumpStops
  <2>7. TurnTyped' /\ Flagged' /\ FlagsTyped' /\ AnswerTyped' /\ ItemsTyped'
    BY <2>1 DEF PumpStops, TurnTyped, Flagged, FlagsTyped, AnswerTyped, ItemsTyped
  <2> QED BY <2>2, <2>4, <2>5, <2>6, <2>7
<1>2. CASE ToolDone(p)
  <2>1. LinkTyped' /\ LeftTyped' /\ ServerTyped' /\ WireTyped' /\ AnswerTyped' /\ ItemsTyped'
    BY <1>2 DEF ToolDone, LinkTyped, LeftTyped, ServerTyped, WireTyped, AnswerTyped, ItemsTyped
  <2>2. PumpTyped'
    BY <1>2, GoesKeeps DEF ToolDone
  <2>3. \/ vision' = TRUE /\ sighted' = sighted \cup {turn}
        \/ UNCHANGED <<vision, sighted>>
    BY <1>2 DEF ToolDone, Viewed
  <2>4. TurnTyped' /\ Flagged' /\ FlagsTyped'
    <3>1. turn' = turn /\ barrier' = barrier /\ suppress' = suppress /\ turn \in 0..turn
      BY <1>2 DEF ToolDone, TurnTyped
    <3> QED BY <2>3, <3>1 DEF TurnTyped, Flagged, FlagsTyped
  <2> QED BY <2>1, <2>2, <2>4
<1>3. CASE Returned(p)
  <2>1. ServerTyped' /\ WireTyped'
    BY <1>3, AskedKeeps DEF Returned
  <2>2. PumpTyped'
    BY <1>3, GoesKeeps DEF Returned
  <2>3. LinkTyped' /\ LeftTyped' /\ AnswerTyped' /\ ItemsTyped'
    BY <1>3 DEF Returned, LinkTyped, LeftTyped, AnswerTyped, ItemsTyped
  <2>4. TurnTyped' /\ Flagged' /\ FlagsTyped'
    BY <1>3 DEF Returned, TurnTyped, Flagged, FlagsTyped
  <2> QED BY <2>1, <2>2, <2>3, <2>4
<1> QED BY <1>1, <1>2, <1>3

LEMMA TaskSteps ==
  ASSUME VoiceIInv, NEW u \in Utterances, TaskNext(u)
  PROVE  VoiceIInv'
<1> USE DEF VoiceIInv, link, server, pumps, flags, visual
<1>1. ItemsTyped'
  <2>1. Served(u) \/ \E what \in Errands \cup {"acting"} : BecomesTask(u, what)
    BY DEF TaskNext, Acts, Acted, Confirms, Tells, Talks, Looks, Cancels, TaskGivesUp, Errands
  <2> QED BY <2>1, TaskKeeps
<1>2. CASE Acts(u) \/ Acted(u) \/ Talks(u)
  <2>1. LinkTyped' /\ LeftTyped' /\ ServerTyped' /\ WireTyped' /\ PumpTyped' /\ AnswerTyped'
    BY <1>2 DEF Acts, Acted, Talks, LinkTyped, LeftTyped, ServerTyped, WireTyped, PumpTyped,
                AnswerTyped
  <2>2. TurnTyped' /\ Flagged' /\ FlagsTyped'
    BY <1>2 DEF Acts, Acted, Talks, TurnTyped, Flagged, FlagsTyped
  <2> QED BY <1>1, <2>1, <2>2
<1>3. CASE Confirms(u) \/ Tells(u) \/ Cancels(u)
  <2>1. ServerTyped' /\ WireTyped'
    BY <1>3, CancelledKeeps, AskedKeeps DEF Confirms, Tells, Cancels
  <2>2. LinkTyped' /\ LeftTyped' /\ PumpTyped' /\ AnswerTyped'
    BY <1>3 DEF Confirms, Tells, Cancels, LinkTyped, LeftTyped, PumpTyped, AnswerTyped
  <2>3. TurnTyped' /\ Flagged' /\ FlagsTyped'
    BY <1>3 DEF Confirms, Tells, Cancels, TurnTyped, Flagged, FlagsTyped
  <2> QED BY <1>1, <2>1, <2>2, <2>3
<1>4. CASE Looks(u)
  <2>1. LinkTyped' /\ LeftTyped' /\ ServerTyped' /\ WireTyped' /\ PumpTyped'
    BY <1>4 DEF Looks, LinkTyped, LeftTyped, ServerTyped, WireTyped, PumpTyped
  <2>2. AnswerTyped'
    <3>1. leaked' \subseteq {"action", "gpu"}
      BY <1>4, LeaksKeeps DEF Looks
    <3> QED BY <1>4, <3>1 DEF Looks, AnswerTyped
  <2>3. TurnTyped' /\ Flagged' /\ FlagsTyped'
    BY <1>4 DEF Looks, TurnTyped, Flagged, FlagsTyped
  <2> QED BY <1>1, <2>1, <2>2, <2>3
<1>5. CASE TaskGivesUp(u)
  <2>1. LinkTyped' /\ LeftTyped'
    <3>1. /\ Refused /\ UNCHANGED up
          /\ browser' \in {"away", "joins", "here", "types", "streams"}
      BY <1>5 DEF TaskGivesUp, LinkTyped
    <3> QED BY <3>1, RefusedKeeps
  <2>2. ServerTyped' /\ WireTyped' /\ PumpTyped' /\ AnswerTyped'
    BY <1>5 DEF TaskGivesUp, ServerTyped, WireTyped, PumpTyped, AnswerTyped
  <2>3. TurnTyped' /\ Flagged' /\ FlagsTyped'
    BY <1>5 DEF TaskGivesUp, TurnTyped, Flagged, FlagsTyped
  <2> QED BY <1>1, <2>1, <2>2, <2>3
<1> QED BY <1>2, <1>3, <1>4, <1>5 DEF TaskNext

LEMMA AnswerSteps ==
  ASSUME VoiceIInv, AnswerNext
  PROVE  VoiceIInv'
<1> USE DEF VoiceIInv, link, server, pumps, flags, visual
<1>1. TurnTyped' /\ Flagged' /\ FlagsTyped'
  BY DEF AnswerNext, Answers, AnswerFails, AnswerSent, AnswerGivesUp, TurnTyped, Flagged, FlagsTyped
<1>2. PumpTyped' /\ AnswerTyped' /\ ItemsTyped'
  BY DEF AnswerNext, Answers, AnswerFails, AnswerSent, AnswerGivesUp, PumpTyped, AnswerTyped, ItemsTyped
<1>3. ServerTyped' /\ WireTyped'
  <2>1. CASE AnswerSent
    BY <2>1, AskedKeeps DEF AnswerSent
  <2>2. CASE Answers \/ AnswerFails \/ AnswerGivesUp
    BY <2>2 DEF Answers, AnswerFails, AnswerGivesUp, ServerTyped, WireTyped
  <2> QED BY <2>1, <2>2 DEF AnswerNext
<1>4. LinkTyped' /\ LeftTyped'
  <2>1. CASE AnswerGivesUp
    <3>1. /\ Refused /\ UNCHANGED up
          /\ browser' \in {"away", "joins", "here", "types", "streams"}
      BY <2>1 DEF AnswerGivesUp, LinkTyped
    <3> QED BY <3>1, RefusedKeeps
  <2>2. CASE AnswerFails
    BY <2>2, SpendKeeps DEF AnswerFails, LinkTyped
  <2>3. CASE Answers \/ AnswerSent
    BY <2>3 DEF Answers, AnswerSent, LinkTyped, LeftTyped
  <2> QED BY <2>1, <2>2, <2>3 DEF AnswerNext
<1> QED BY <1>1, <1>2, <1>3, <1>4

LEMMA VoiceStep == VoiceIInv /\ [VoiceNext]_voiceVars => VoiceIInv'
<1> SUFFICES ASSUME VoiceIInv, [VoiceNext]_voiceVars PROVE VoiceIInv'
  OBVIOUS
<1>1. CASE UNCHANGED voiceVars
  <2> USE <1>1 DEF VoiceIInv, voiceVars, link, server, pumps, flags, visual
  <2>1. LinkTyped' /\ LeftTyped' /\ ServerTyped' /\ WireTyped' /\ PumpTyped'
    BY DEF LinkTyped, LeftTyped, ServerTyped, WireTyped, PumpTyped
  <2>2. TurnTyped' /\ FlagsTyped' /\ AnswerTyped' /\ ItemsTyped' /\ Flagged'
    BY DEF TurnTyped, FlagsTyped, AnswerTyped, ItemsTyped, Flagged
  <2> QED BY <2>1, <2>2
<1>2. CASE \E p \in Sessions : PumpNext(p)
  BY <1>2, HandlingSteps, PumpSteps DEF PumpNext
<1>3. CASE \E u \in Utterances : TaskNext(u)
  BY <1>3, TaskSteps
<1> QED
  BY <1>1, <1>2, <1>3, UpstreamSteps, BrowserSteps, ServerSteps, AnswerSteps DEF VoiceNext

\* Every variable keeps its type, for any number of turns, sessions, transcripts, losses
\* and failures (RealtimeGateway, realtime_gateway.py:287-307).
THEOREM VoiceIsTyped == VoiceSpec => []VoiceType
<1> QED BY VoiceStarts, VoiceStep, VoiceMeansType, PTL DEF VoiceSpec

-----------------------------------------------------------------------------
(***************************************************************************)
(* The loss of a session is noticed.                                       *)
(***************************************************************************)
Overtaken ==
  \E u \in Utterances : items[u].task \in Errands /\ items'[u].text # items[u].text

\* A step that leaves an upstream, or raises the fault, or leaves somebody who needs one.
LEMMA ManifestSteps ==
  ASSUME VoiceIInv,
         \/ Connects \/ Resets \/ ResetsLate
         \/ BrowserJoins \/ Joined \/ BrowserStreams \/ BrowserTypes \/ BrowserSent
         \/ BrowserGivesUp \/ AnswerSent \/ AnswerGivesUp
  PROVE  ~Unnoticed'
<1> USE DEF Unnoticed, server, pumps, visual
<1>1. CASE Connects
  BY <1>1 DEF Connects
<1>2. CASE Resets \/ ResetsLate
  <2>1. Sending'
    BY <1>2 DEF Resets, ResetsLate, Sending
  <2> QED BY <2>1 DEF Needed
<1>3. CASE BrowserJoins \/ BrowserStreams \/ BrowserTypes
  BY <1>3 DEF BrowserJoins, BrowserStreams, BrowserTypes, Needed, Sending
<1>4. CASE Joined \/ BrowserSent \/ AnswerSent
  BY <1>4 DEF Joined, BrowserSent, AnswerSent, Open, link
<1>5. CASE BrowserGivesUp \/ AnswerGivesUp
  BY <1>5 DEF BrowserGivesUp, AnswerGivesUp, Refused
<1> QED BY <1>1, <1>2, <1>3, <1>4, <1>5

\* A step that changes neither the upstream nor the fault, nor relieves anybody.
LEMMA PlainSteps ==
  ASSUME UNCHANGED <<up, fault>>, Needed => Needed'
  PROVE  Unnoticed' => Unnoticed
BY DEF Unnoticed

LEMMA QuietSteps ==
  ASSUME VoiceIInv, BrowserLeaves \/ ServerNext \/ Answers \/ AnswerFails \/ UNCHANGED voiceVars
  PROVE  Unnoticed' => Unnoticed
<1> USE DEF voiceVars, link, pumps, visual
<1>1. CASE BrowserLeaves
  BY <1>1, PlainSteps DEF BrowserLeaves, Away, Needed, Sending, pumps
<1>2. CASE ServerNext
  <2>1. UNCHANGED <<browser, up, fault, pump, answer, items>>
    BY <1>2 DEF ServerNext, Lose, SpeechStarts, SpeechStops, Revises, Replies, Ends
  <2> QED BY <2>1, PlainSteps DEF Needed, Sending
<1>3. CASE Answers \/ AnswerFails
  <2>1. UNCHANGED <<browser, up, fault, pump, items>> /\ answer # "sends"
    BY <1>3 DEF Answers, AnswerFails
  <2> QED BY <2>1, PlainSteps DEF Needed, Sending
<1>4. CASE UNCHANGED voiceVars
  <2>1. UNCHANGED <<browser, up, fault, pump, answer, items>>
    BY <1>4
  <2> QED BY <2>1, PlainSteps DEF Needed, Sending
<1> QED BY <1>1, <1>2, <1>3, <1>4

LEMMA TaskLossStep ==
  ASSUME VoiceIInv, NEW u \in Utterances, TaskNext(u)
  PROVE  Unnoticed' => Unnoticed
<1> USE DEF VoiceIInv, link, pumps
<1>1. CASE Acts(u) \/ Acted(u) \/ Talks(u)
  <2>1. UNCHANGED <<browser, up, fault, pump, answer>> /\ items[u].task \notin Errands
    BY <1>1 DEF Acts, Acted, Talks, Errands, visual
  <2>2. \A v \in Utterances : v # u => items'[v] = items[v]
    BY <1>1 DEF Acts, Acted, Talks, BecomesTask, Served, ItemsTyped
  <2> QED BY <2>1, <2>2, PlainSteps DEF Needed, Sending
<1>2. CASE Confirms(u) \/ Tells(u) \/ Cancels(u)
  BY <1>2 DEF Confirms, Tells, Cancels, Open, Unnoticed
<1>3. CASE Looks(u)
  <2>1. items'[u].task = "cancels"
    BY <1>3 DEF Looks, BecomesTask, ItemsTyped, Item
  <2> QED BY <2>1 DEF Unnoticed, Needed, Sending, Errands
<1>4. CASE TaskGivesUp(u)
  BY <1>4 DEF TaskGivesUp, Refused, Unnoticed
<1> QED BY <1>1, <1>2, <1>3, <1>4 DEF TaskNext

LEMMA TextLossStep ==
  ASSUME VoiceIInv, NEW p \in Sessions, Text(p)
  PROVE  Unnoticed' => Unnoticed \/ Overtaken
<1> SUFFICES ASSUME ~Overtaken, Unnoticed' PROVE Unnoticed
  OBVIOUS
<1> DEFINE u == Head(wire[p]).utterance
<1>1. PICK k \in Kinds : items' = [items EXCEPT ![u] = NewText(items[u], k)]
  BY DEF Text
<1>2. UNCHANGED <<browser, up, fault, pump, answer>>
  BY DEF Text, Reads, link
<1> HIDE DEF u
<1>3. \A v \in Utterances : v # u => items'[v] = items[v]
  BY <1>1 DEF VoiceIInv, ItemsTyped
<1>4. u \in Utterances => items'[u].text # items[u].text
  <2>1. SUFFICES ASSUME u \in Utterances PROVE items'[u].text # items[u].text
    OBVIOUS
  <2>2. items[u] \in Item /\ items'[u] = NewText(items[u], k)
    BY <1>1, <2>1 DEF VoiceIInv, ItemsTyped
  <2>3. items[u].text \in Nat /\ items'[u].text = items[u].text + 1
    BY <2>2 DEF Item, NewText
  <2> QED BY <2>3
<1>5. \A v \in Utterances : items[v].task \in Errands => items'[v] = items[v]
  BY <1>3, <1>4 DEF Overtaken
<1>6. Needed => Needed'
  BY <1>2, <1>5 DEF Needed, Sending
<1> QED BY <1>2, <1>6, PlainSteps

LEMMA PumpLossStep ==
  ASSUME VoiceIInv, NEW p \in Sessions, PumpNext(p), ~Text(p)
  PROVE  Unnoticed' => Unnoticed
<1> USE DEF VoiceIInv, link, server
<1>1. CASE Handles(p)
  <2>1. PICK type : Reads(p, type)
    BY <1>1 DEF Handles, Heard, Text, Swallowed, Done, LookTool, MoveTool
  <2>2. up' = up /\ fault' = fault /\ browser' = browser /\ pump[p] = "reading"
    BY <2>1 DEF Reads
  <2>3. answer' = answer
    BY <1>1 DEF Handles, Heard, Text, Swallowed, Done, LookTool, MoveTool, visual
  <2>4. \A v \in Utterances : items'[v].task = items[v].task
    <3>1. CASE Done(p)
      <4>1. \A v \in Utterances : items[v] \in Item /\ items'[v] = Finalize(items[v])
        BY <3>1 DEF Done, ItemsTyped
      <4> QED BY <4>1 DEF Item, Finalize
    <3>2. CASE ~Done(p)
      BY <1>1, <3>2 DEF Handles, Heard, Swallowed, LookTool, MoveTool
    <3> QED BY <3>1, <3>2
  <2>5. \A q \in Sessions : q # p => pump'[q] = pump[q]
    BY <1>1 DEF Handles, Heard, Text, Swallowed, Done, LookTool, MoveTool, Goes, PumpTyped
  <2>6. Needed => Needed'
    BY <2>2, <2>3, <2>4, <2>5 DEF Needed, Sending
  <2> QED BY <2>2, <2>6, PlainSteps
<1>2. CASE PumpEnds(p) \/ ToolFails(p)
  <2>1. PumpStops(p) /\ pump[p] # "returns"
    BY <1>2 DEF PumpEnds, ToolFails, Tools
  <2>2. \A q \in Sessions : q # p => pump'[q] = pump[q]
    BY <2>1 DEF PumpStops, Goes, PumpTyped
  <2>3. Needed => Needed'
    BY <2>1, <2>2 DEF PumpStops, Needed, Sending, visual
  <2>4. ~up' => ~up \/ fault'
    BY <2>1 DEF PumpStops
  <2>5. fault => fault'
    BY <2>1 DEF PumpStops
  <2> QED BY <2>3, <2>4, <2>5 DEF Unnoticed
<1>3. CASE PumpGivesUp(p)
  BY <1>3 DEF PumpGivesUp, Unnoticed
<1>4. CASE Returned(p)
  BY <1>4 DEF Returned, Open, Unnoticed
<1>5. CASE ToolDone(p)
  <2>1. pump'[p] = "returns"
    BY <1>5 DEF ToolDone, Goes, PumpTyped
  <2> QED BY <2>1 DEF Unnoticed, Needed, Sending
<1> QED BY <1>1, <1>2, <1>3, <1>4, <1>5 DEF PumpNext

LEMMA LossStep ==
  VoiceIInv /\ [VoiceNext]_voiceVars =>
    [Unnoticed' =>
       \/ Unnoticed
       \/ \E u \in Utterances : items[u].task \in Errands /\ items'[u].text # items[u].text
    ]_voiceVars
<1> SUFFICES ASSUME VoiceIInv, VoiceNext PROVE Unnoticed' => Unnoticed \/ Overtaken
  BY DEF Overtaken
<1>1. CASE \E p \in Sessions : PumpNext(p)
  BY <1>1, TextLossStep, PumpLossStep
<1>2. CASE \E u \in Utterances : TaskNext(u)
  BY <1>2, TaskLossStep
<1>3. CASE BrowserNext \/ ServerNext \/ AnswerNext \/ Connects \/ Resets \/ ResetsLate
  BY <1>3, ManifestSteps, QuietSteps DEF BrowserNext, AnswerNext
<1> QED BY <1>1, <1>2, <1>3 DEF VoiceNext

\* There is never no upstream with the fault down and nobody waiting for the connector,
\* from when somebody has first asked for one, but for a revised transcript that cancels
\* the task that was waiting (realtime_gateway.py:344-369, 405-416, 473).
THEOREM LossShows == VoiceSpec => LossIsShown
<1> QED BY VoiceStarts, VoiceStep, LossStep, PTL DEF VoiceSpec, LossIsShown

-----------------------------------------------------------------------------
LEMMA MoveStep ==
  VoiceIInv /\ [VoiceNext]_voiceVars =>
    [\A p \in Sessions :
       pump'[p] = "moveTool" /\ pump[p] # "moveTool" => turn \notin sighted]_voiceVars
<1> SUFFICES ASSUME VoiceIInv, VoiceNext, NEW p \in Sessions,
                    pump'[p] = "moveTool", pump[p] # "moveTool"
             PROVE  turn \notin sighted
  OBVIOUS
<1> USE DEF link, server, pumps
<1>1. pump' # pump /\ PumpTyped
  BY DEF VoiceIInv
<1>2. ~(Connects \/ Resets \/ ResetsLate)
  <2>1. ~(Resets \/ ResetsLate)
    BY <1>1 DEF Resets, ResetsLate
  <2>2. ~Connects
    BY <1>1 DEF Connects, PumpTyped
  <2> QED BY <2>1, <2>2
<1>3. ~BrowserNext
  BY <1>1 DEF BrowserNext, BrowserJoins, Joined, BrowserStreams, BrowserTypes, BrowserSent,
              BrowserLeaves, BrowserGivesUp, Away
<1>4. ~ServerNext
  BY <1>1 DEF ServerNext, Lose, SpeechStarts, SpeechStops, Revises, Replies, Ends
<1>5. ~AnswerNext
  BY <1>1 DEF AnswerNext, Answers, AnswerFails, AnswerSent, AnswerGivesUp
<1>6. ~\E u \in Utterances : TaskNext(u)
  BY <1>1 DEF TaskNext, Acts, Acted, Confirms, Tells, Talks, Looks, Cancels, TaskGivesUp
<1>7. PICK q \in Sessions : PumpNext(q)
  BY <1>2, <1>3, <1>4, <1>5, <1>6 DEF VoiceNext
<1>8. ~(PumpEnds(q) \/ ToolDone(q) \/ ToolFails(q) \/ Returned(q) \/ PumpGivesUp(q))
  BY <1>1 DEF PumpEnds, ToolDone, ToolFails, Returned, PumpGivesUp, PumpStops, Goes, PumpTyped
<1>9. ~(Heard(q) \/ Text(q) \/ Swallowed(q) \/ Done(q))
  BY <1>1 DEF Heard, Text, Swallowed, Done
<1>10. ~LookTool(q)
  BY <1>1 DEF LookTool, Goes, PumpTyped
<1>11. MoveTool(q)
  BY <1>7, <1>8, <1>9, <1>10 DEF PumpNext, Handles
<1>12. ~vision
  BY <1>1, <1>11 DEF MoveTool, Goes, PumpTyped
<1> QED BY <1>12 DEF VoiceIInv, Flagged

\* A tool call that moves the robot is not let in in a turn in which a tool of any pump
\* gave the model a view, or the gateway promised it one, whatever turns have begun
\* meanwhile (realtime_gateway.py:577, 630, 644).
THEOREM MovesAreBlind == VoiceSpec => NoMoveBesideSight
<1> QED BY VoiceStarts, VoiceStep, MoveStep, PTL DEF VoiceSpec, NoMoveBesideSight

=============================================================================
