------------------------- MODULE ControlLinkProofs -------------------------
(***************************************************************************)
(* What is proved of ControlLink, for every set of connections, ttl, clock *)
(* width, delay and drift, and any bound on commands and losses: its       *)
(* invariant, from which types and the truth of acknowledgements follow;   *)
(* that the motors run only for a client; that an acknowledged stop is     *)
(* final, since the robot reads commands in the order of their sending,    *)
(* also across connections (Onwards); and that drives are obeyed and       *)
(* followed in time, although the client only estimates the robot's clock, *)
(* which wraps around (TimeInv).                                           *)
(***************************************************************************)
EXTENDS ControlLink, SequenceTheorems, TLAPS

-----------------------------------------------------------------------------
(* Arithmetic and queues. *)

LEMMA ModRange == ASSUME NEW x \in Int PROVE x % ClockSize \in 0..(ClockSize - 1)
BY LinkAssumption

LEMMA Bounds == MaxAge \in Nat /\ ClockSize \in Nat \ {0} /\ MaxDrift \in Nat /\ MaxSends \in Nat
BY LinkAssumption DEF MaxAge

LEMMA Zero == 0 \in 0..(ClockSize - 1) /\ 0 \in 0..MaxSends
BY Bounds

\* What is in the queues `new` was in `old`.
Contained(new, old) ==
  \A d \in Conns : \A i \in DOMAIN new[d] : \E j \in DOMAIN old[d] : new[d][i] = old[d][j]

\* The first message of a queue.
LEMMA HeadOfQueue ==
  ASSUME NEW S, NEW queue \in [Conns -> Seq(S)], NEW c \in Conns, queue[c] # <<>>
  PROVE  Head(queue[c]) \in S /\ 1 \in DOMAIN queue[c] /\ Head(queue[c]) = queue[c][1]
<1> DEFINE q == queue[c]
<1>1. q \in Seq(S) /\ q # <<>>
  OBVIOUS
<1> HIDE DEF q
<1>2. Head(q) \in S /\ 1 \in DOMAIN q /\ Head(q) = q[1]
  BY <1>1, HeadTailProperties
<1> QED
  BY <1>2 DEF q

\* Reading it.
LEMMA TailQueue ==
  ASSUME NEW S, NEW queue \in [Conns -> Seq(S)], NEW c \in Conns, queue[c] # <<>>
  PROVE  /\ [queue EXCEPT ![c] = Tail(@)] \in [Conns -> Seq(S)]
         /\ Contained([queue EXCEPT ![c] = Tail(@)], queue)
<1> DEFINE q == queue[c]
<1>1. q \in Seq(S) /\ q # <<>>
  OBVIOUS
<1> HIDE DEF q
<1>2. Tail(q) \in Seq(S)
      /\ \A i \in DOMAIN Tail(q) : i + 1 \in DOMAIN q /\ Tail(q)[i] = q[i + 1]
  BY <1>1, HeadTailProperties, LenProperties
<1> USE DEF q
<1>3. [queue EXCEPT ![c] = Tail(@)] \in [Conns -> Seq(S)]
  BY <1>2
<1>4. Contained([queue EXCEPT ![c] = Tail(@)], queue)
  <2> SUFFICES ASSUME NEW d \in Conns, NEW i \in DOMAIN [queue EXCEPT ![c] = Tail(@)][d]
               PROVE  \E j \in DOMAIN queue[d] :
                        [queue EXCEPT ![c] = Tail(@)][d][i] = queue[d][j]
    BY DEF Contained
  <2>1. CASE d = c
    BY <1>2, <2>1
  <2>2. CASE d # c
    BY <2>2
  <2> QED
    BY <2>1, <2>2
<1> QED
  BY <1>3, <1>4

\* Throwing a queue away.
LEMMA DiscardQueue ==
  ASSUME NEW S, NEW queue \in [Conns -> Seq(S)], NEW c
  PROVE  Discard(queue, c) \in [Conns -> Seq(S)] /\ Contained(Discard(queue, c), queue)
BY DEF Discard, Contained

\* Adding m to a queue, or losing it.
LEMMA IntoQueue ==
  ASSUME NEW S, NEW queue \in [Conns -> Seq(S)], NEW c \in Conns, NEW reader, NEW m \in S
  PROVE  /\ Into(queue, c, reader, m) \in [Conns -> Seq(S)]
         /\ \A d \in Conns : \A i \in DOMAIN Into(queue, c, reader, m)[d] :
              \/ d = c /\ Into(queue, c, reader, m)[d][i] = m
              \/ i \in DOMAIN queue[d] /\ Into(queue, c, reader, m)[d][i] = queue[d][i]
<1> DEFINE q == queue[c]
<1>1. q \in Seq(S)
  OBVIOUS
<1>2. /\ Append(q, m) \in Seq(S)
      /\ \A i \in DOMAIN Append(q, m) :
           \/ Append(q, m)[i] = m
           \/ i \in DOMAIN q /\ Append(q, m)[i] = q[i]
  BY <1>1, AppendProperties, LenProperties
<1> QED
  BY <1>2 DEF Into

\* A sequence with other elements.
LEMMA SameLength ==
  ASSUME NEW S, NEW s \in Seq(S), NEW f, f \in [DOMAIN s -> S]
  PROVE  f \in Seq(S) /\ Len(f) = Len(s) /\ DOMAIN f = DOMAIN s
<1>1. DOMAIN s = 1..Len(s) /\ Len(s) \in Nat
  BY LenProperties
<1>2. f \in [1..Len(s) -> S]
  BY <1>1
<1> QED
  BY <1>1, <1>2

LEMMA ClosedType ==
  ASSUME TypeOK, NEW c, NEW side \in {"client", "robot"}
  PROVE  Closed(c, side) \in [Conns -> SUBSET {"client", "robot"}]
BY DEF TypeOK, NetType, Closed

-----------------------------------------------------------------------------
(* One lemma for each action, or for actions that do the same to the invariant. *)

\* A step that sends nothing, and forgets what it likes, keeps the numbering.
LEMMA NumbersKept ==
  ASSUME LinkInv,
         Contained(up', up), Contained(down', down),
         UNCHANGED <<kind, sequence>>, conn' \in {conn, NoConn},
         pending' \subseteq pending, obeyed \subseteq obeyed'
  PROVE  (PendingNumbered /\ UpNumbered /\ DownNumbered /\ KnownCommands)'
<1>1. PendingNumbered /\ UpNumbered /\ DownNumbered /\ KnownCommands
  BY DEF LinkInv, Numbering
<1>2. conn' # NoConn => conn' = conn /\ conn \in Conns
  BY DEF LinkInv, Numbering, TypeOK, ClientType
<1>3. PendingNumbered'
  BY <1>1 DEF PendingNumbered, Numbered
<1>4. UpNumbered'
  BY <1>1, <1>2 DEF UpNumbered, Contained, Numbered
<1>5. DownNumbered'
  <2>1. ASSUME conn' # NoConn, NEW i \in DOMAIN down'[conn],
               down'[conn][i].type = "ack", down'[conn][i].status = "accepted"
        PROVE  \E n \in obeyed : Numbered(n, down'[conn][i].seq)
    <3>1. PICK j \in DOMAIN down[conn] : down'[conn][i] = down[conn][j]
      BY <1>2, <2>1 DEF Contained
    <3> QED
      BY <1>1, <1>2, <2>1, <3>1 DEF DownNumbered
  <2> QED
    BY <1>2, <2>1 DEF DownNumbered, Numbered
<1>6. KnownCommands'
  BY <1>1 DEF KnownCommands, Contained
<1> QED
  BY <1>3, <1>4, <1>5, <1>6

LEMMA Unmoved == ASSUME NEW queue PROVE Contained(queue, queue)
BY DEF Contained

LEMMA InitInv == Init => LinkInv
<1> SUFFICES ASSUME Init PROVE LinkInv
  OBVIOUS
<1>1. ClientType
  BY Bounds DEF Init, ClientType
<1>2. CommandsType
  BY Bounds DEF Init, CommandsType
<1>3. NetType
  BY LinkAssumption DEF Init, NetType
<1>4. RobotType
  <2>1. backlog \in Seq(Conns)
    BY DEF Init
  <2> QED
    BY <2>1, Zero DEF Init, RobotType
<1>5. PendingNumbered /\ UpNumbered /\ DownNumbered /\ KnownCommands /\ OkMeansObeyed
  BY DEF Init, PendingNumbered, UpNumbered, DownNumbered, KnownCommands, OkMeansObeyed
<1> QED
  BY <1>1, <1>2, <1>3, <1>4, <1>5 DEF LinkInv, Numbering, Init, TypeOK

\* Some outcomes become another one.
LEMMA OutcomesType ==
  ASSUME CommandsType, UNCHANGED <<kind, age, obeyed>>, DOMAIN outcome' = DOMAIN outcome,
         outcome' = [n \in DOMAIN outcome |-> outcome'[n]],
         \A n \in DOMAIN outcome : outcome'[n] \in {outcome[n], "ok", "failed"}
  PROVE  CommandsType'
<1>1. \A n \in DOMAIN outcome : outcome[n] \in {"pending", "ok", "failed"}
  BY LenProperties DEF CommandsType
<1>2. outcome' \in [DOMAIN outcome -> {"pending", "ok", "failed"}]
  BY <1>1
<1>3. outcome \in Seq({"pending", "ok", "failed"})
  BY DEF CommandsType
<1>4. outcome' \in Seq({"pending", "ok", "failed"}) /\ Len(outcome') = Len(outcome)
  BY <1>2, <1>3, SameLength
<1> QED
  BY <1>4 DEF CommandsType

LEMMA ConnectKeepsInv == ASSUME LinkInv, NEW c \in Conns, Connect(c) PROVE LinkInv'
<1> USE DEF LinkInv, Numbering, TypeOK
<1>1. ClientType'
  BY Bounds, LinkAssumption DEF Connect, ClientType, sent
<1>2. CommandsType'
  BY DEF Connect, CommandsType, sent
<1>3. NetType'
  <2>1. <<[type |-> "hello"]>> \in Seq(ToRobot)
    BY DEF ToRobot
  <2> QED
    BY <2>1 DEF Connect, NetType
<1>4. RobotType'
  <2>1. backlog' \in Seq(Conns)
    BY AppendProperties DEF Connect, RobotType
  <2> QED
    BY <2>1 DEF Connect, RobotType, sent, motors
<1>5. pending' = {} /\ kind' = kind /\ obeyed' = obeyed /\ outcome' = outcome
      /\ conn' = c /\ sequence' = 0 /\ Len(kind) \in Nat
  BY LenProperties DEF Connect, sent, CommandsType
<1>6. up'[c] = <<[type |-> "hello"]>> /\ down'[c] = <<>>
      /\ \A d \in Conns \ {c} : up'[d] = up[d]
  BY DEF Connect, NetType
<1>7. \A i \in DOMAIN up'[c] : up'[c][i].type \notin Kinds
  BY <1>6, LinkAssumption
<1>8. PendingNumbered' /\ UpNumbered' /\ DownNumbered'
  BY <1>5, <1>6, <1>7 DEF PendingNumbered, UpNumbered, DownNumbered
<1>9. KnownCommands'
  BY <1>5, <1>6, <1>7 DEF KnownCommands
<1>10. OkMeansObeyed'
  BY <1>5 DEF OkMeansObeyed
<1> QED
  BY <1>1, <1>2, <1>3, <1>4, <1>5, <1>8, <1>9, <1>10

LEMMA HelloAckKeepsInv == ASSUME LinkInv, HelloAck PROVE LinkInv'
<1> USE DEF LinkInv, Numbering, TypeOK
<1>1. conn \in Conns
  BY DEF HelloAck, ClientType
<1>2. /\ down' \in [Conns -> Seq(ToClient)] /\ Contained(down', down)
      /\ Head(down[conn]) \in ToClient
  BY <1>1, TailQueue, HeadOfQueue DEF HelloAck, NetType
<1>3. skew' \in 0..(ClockSize - 1)
  <2>1. Head(down[conn]).uptime \in Int
    BY <1>2, Bounds DEF HelloAck, ToClient
  <2>2. clock - Head(down[conn]).uptime \in Int
    BY <2>1, Bounds DEF RobotType
  <2> QED
    BY <2>2, ModRange DEF HelloAck
<1>4. ClientType'
  BY <1>1, <1>3, Bounds DEF HelloAck, ClientType, sent
<1>5. CommandsType' /\ NetType' /\ RobotType'
  BY <1>2 DEF HelloAck, sent, robot, CommandsType, NetType, RobotType
<1>6. (PendingNumbered /\ UpNumbered /\ DownNumbered /\ KnownCommands)'
  BY <1>2, NumbersKept, Unmoved DEF HelloAck, sent
<1> QED
  BY <1>4, <1>5, <1>6 DEF HelloAck, sent, OkMeansObeyed

LEMMA DropKeepsInv == ASSUME LinkInv, Drop PROVE LinkInv'
<1> USE DEF LinkInv, Numbering, TypeOK
<1>1. down' \in [Conns -> Seq(ToClient)] /\ Contained(down', down)
  BY DiscardQueue DEF Drop, NetType
<1>2. ClientType'
  BY Bounds, LinkAssumption DEF Drop, FailPending, ClientType
<1>3. CommandsType'
  BY OutcomesType DEF Drop, FailPending
<1>4. NetType'
  BY <1>1, ClosedType DEF Drop, NetType
<1>5. RobotType'
  BY DEF Drop, robot, RobotType
<1>6. (PendingNumbered /\ UpNumbered /\ DownNumbered /\ KnownCommands)'
  BY <1>1, NumbersKept, Unmoved DEF Drop, FailPending
<1>7. OkMeansObeyed'
  BY LenProperties DEF Drop, FailPending, OkMeansObeyed, CommandsType
<1> QED
  BY <1>2, <1>3, <1>4, <1>5, <1>6, <1>7 DEF Drop, FailPending

LEMMA SendKeepsInv == ASSUME LinkInv, NEW k \in Kinds, Send(k) PROVE LinkInv'
<1> USE DEF LinkInv, Numbering, TypeOK
<1> DEFINE new == [type |-> k, n |-> Len(kind'), seq |-> sequence',
                   expires |-> (clock - skew + Ttl[k]) % ClockSize]
<1>1. conn \in Conns /\ sequence \in Nat /\ sequence' = sequence + 1
  BY Bounds DEF Send, ClientType
<1>2. /\ kind' \in Seq(Kinds) /\ Len(kind) \in Nat /\ Len(kind') = Len(kind) + 1
      /\ DOMAIN kind = 1..Len(kind) /\ DOMAIN kind' = 1..(Len(kind) + 1)
      /\ Len(kind') <= MaxSends
  BY Bounds, AppendProperties, LenProperties DEF Send, CommandsType
<1>3. sequence' \in Commands /\ Len(kind') \in Commands /\ sequence' <= Len(kind')
  BY <1>1, <1>2, Bounds DEF Commands
<1>4. new \in ToRobot
  <2>1. clock - skew + Ttl[k] \in Int
    BY LinkAssumption DEF ClientType, RobotType
  <2> QED
    BY <2>1, <1>3, ModRange DEF ToRobot
<1>5. ClientType'
  <2>1. pending' \subseteq [seq : Commands, n : DOMAIN kind']
    BY <1>2, <1>3 DEF Send, ClientType
  <2> QED
    BY <2>1, <1>3, Bounds DEF Send, ClientType, Commands
<1>6. CommandsType'
  <2>1. age' \in Seq(0..MaxAge) /\ Len(age') = Len(kind')
    BY <1>2, Bounds, AppendProperties DEF Send, CommandsType
  <2>2. outcome' \in Seq({"pending", "ok", "failed"}) /\ Len(outcome') = Len(kind')
    BY <1>2, AppendProperties DEF Send, CommandsType
  <2> QED
    BY <2>1, <2>2, <1>2 DEF Send, CommandsType
<1>7. NetType'
  BY <1>1, <1>4, IntoQueue DEF Send, NetType
<1>8. RobotType'
  BY <1>2 DEF Send, robot, RobotType
<1> DEFINE Later(n, seq) == n = Len(kind') - sequence' + seq /\ seq <= sequence'
<1>9. \A n, seq \in Int : Numbered(n, seq) => Later(n, seq)
  BY <1>1, <1>2 DEF Numbered
<1>10. Later(Len(kind'), sequence')
  BY <1>1, <1>2
<1>11. PendingNumbered'
  <2>1. \A p \in pending' : p \in pending \/ p = [seq |-> sequence', n |-> Len(kind')]
    BY DEF Send
  <2>2. \A p \in pending : p.n \in Int /\ p.seq \in Int
    BY <1>2, Bounds DEF ClientType, Commands
  <2>3. \A p \in pending' : Later(p.n, p.seq)
    BY <1>9, <1>10, <2>1, <2>2 DEF PendingNumbered
  <2> QED
    BY <2>3 DEF PendingNumbered, Numbered
<1>12. \A c \in Conns : \A i \in DOMAIN up'[c] :
         \/ c = conn /\ up'[c][i] = new
         \/ i \in DOMAIN up[c] /\ up'[c][i] = up[c][i]
  <2>1. up' = Into(up, conn, "robot", new) /\ up \in [Conns -> Seq(ToRobot)]
    BY DEF Send, NetType
  <2> HIDE DEF new
  <2> QED
    BY <1>1, <1>4, <2>1, IntoQueue
<1>13. UpNumbered'
  <2> SUFFICES ASSUME NEW i \in DOMAIN up'[conn], up'[conn][i].type \in Kinds
               PROVE  Later(up'[conn][i].n, up'[conn][i].seq)
    BY DEF UpNumbered, Numbered, Send
  <2>1. CASE up'[conn][i] = new
    BY <2>1, <1>10
  <2>2. CASE i \in DOMAIN up[conn] /\ up'[conn][i] = up[conn][i]
    <3>1. up[conn][i] \in ToRobot
      BY <1>1, <2>2, ElementOfSeq, LenProperties DEF NetType
    <3>2. up[conn][i].n \in Int /\ up[conn][i].seq \in Int
      BY <2>2, <3>1, LinkAssumption, Bounds DEF ToRobot, Commands
    <3>3. Numbered(up[conn][i].n, up[conn][i].seq)
      BY <1>1, <2>2, LinkAssumption DEF UpNumbered
    <3> QED
      BY <1>9, <2>2, <3>2, <3>3
  <2> QED
    BY <1>1, <1>12, <2>1, <2>2
<1>14. DownNumbered'
  <2> SUFFICES ASSUME NEW i \in DOMAIN down[conn],
                      down[conn][i].type = "ack", down[conn][i].status = "accepted"
               PROVE  \E n \in obeyed : Later(n, down[conn][i].seq)
    BY DEF DownNumbered, Numbered, Send
  <2>1. PICK n \in obeyed : Numbered(n, down[conn][i].seq)
    BY <1>1, LinkAssumption DEF DownNumbered
  <2>2. down[conn][i] \in ToClient
    BY <1>1, ElementOfSeq, LenProperties DEF NetType
  <2>3. down[conn][i].seq \in Int /\ n \in Int
    BY <1>2, <2>2, Bounds DEF ToClient, Commands, CommandsType
  <2> QED
    BY <1>9, <2>1, <2>3
<1>15. KnownCommands'
  BY <1>2, <1>12 DEF KnownCommands
<1>16. OkMeansObeyed'
  <2>1. \A n \in DOMAIN kind' :
          \/ outcome'[n] = "pending"
          \/ n \in DOMAIN kind /\ outcome'[n] = outcome[n]
    <3>1. Len(outcome) = Len(kind) /\ outcome \in Seq({"pending", "ok", "failed"})
      BY DEF CommandsType
    <3>2. outcome' = Append(outcome, "pending") /\ "pending" \in {"pending", "ok", "failed"}
      BY DEF Send
    <3>3. /\ \A n \in 1..Len(kind) : outcome'[n] = outcome[n]
          /\ outcome'[Len(kind) + 1] = "pending"
      BY <3>1, <3>2, AppendProperties
    <3> QED
      BY <1>2, <3>3
  <2> QED
    BY <2>1 DEF OkMeansObeyed, Send
<1> QED
  BY <1>3, <1>5, <1>6, <1>7, <1>8, <1>11, <1>13, <1>14, <1>15, <1>16 DEF Send

LEMMA AckTimeoutKeepsInv == ASSUME LinkInv, NEW p \in pending, AckTimeout(p) PROVE LinkInv'
<1> USE DEF LinkInv, Numbering, TypeOK
<1>1. ClientType'
  BY DEF AckTimeout, ClientType
<1>2. CommandsType'
  BY OutcomesType DEF AckTimeout
<1>3. NetType' /\ RobotType'
  BY DEF AckTimeout, net, robot, NetType, RobotType
<1>4. (PendingNumbered /\ UpNumbered /\ DownNumbered /\ KnownCommands)'
  BY NumbersKept, Unmoved DEF AckTimeout, net
<1>5. OkMeansObeyed'
  BY LenProperties DEF AckTimeout, OkMeansObeyed, CommandsType
<1> QED
  BY <1>1, <1>2, <1>3, <1>4, <1>5 DEF AckTimeout

\* The ack is for the very command that waits under its number, and the robot has
\* carried that out.
LEMMA RecvAckKeepsInv == ASSUME LinkInv, RecvAck PROVE LinkInv'
<1> USE DEF LinkInv, Numbering, TypeOK
<1> DEFINE ack == Head(down[conn])
<1>1. conn \in Conns
  BY DEF RecvAck, ClientType
<1>2. /\ down' \in [Conns -> Seq(ToClient)] /\ Contained(down', down)
      /\ 1 \in DOMAIN down[conn] /\ ack = down[conn][1]
  <2>1. down \in [Conns -> Seq(ToClient)] /\ down[conn] # <<>>
        /\ down' = [down EXCEPT ![conn] = Tail(@)]
    BY DEF RecvAck, NetType
  <2>2. 1 \in DOMAIN down[conn] /\ ack = down[conn][1]
    BY <1>1, <2>1, HeadOfQueue
  <2> QED
    BY <1>1, <2>1, <2>2, TailQueue
<1>3. ack.status = "accepted" => \A p \in WaitingFor(ack) : p.n \in obeyed
  <2> SUFFICES ASSUME ack.status = "accepted", NEW p \in WaitingFor(ack)
               PROVE  p.n \in obeyed
    OBVIOUS
  <2>1. p \in pending /\ p.seq = ack.seq
    BY DEF WaitingFor
  <2>2. PICK n \in obeyed : Numbered(n, ack.seq)
    BY <1>1, <1>2, LinkAssumption DEF RecvAck, DownNumbered
  <2>3. Numbered(p.n, ack.seq)
    BY <2>1 DEF PendingNumbered
  <2> QED
    BY <2>2, <2>3 DEF Numbered
<1>4. ClientType'
  BY DEF RecvAck, ClientType
<1>5. CommandsType'
  BY OutcomesType DEF RecvAck
<1>6. NetType' /\ RobotType'
  BY <1>2 DEF RecvAck, robot, NetType, RobotType
<1>7. (PendingNumbered /\ UpNumbered /\ DownNumbered /\ KnownCommands)'
  BY <1>2, NumbersKept, Unmoved DEF RecvAck
<1>8. OkMeansObeyed'
  BY <1>3, LenProperties DEF RecvAck, OkMeansObeyed, CommandsType
<1> QED
  BY <1>4, <1>5, <1>6, <1>7, <1>8 DEF RecvAck

\* resetConnection forgets what is on its way, and keeps the rest.
LEMMA ResetKeepsInv ==
  ASSUME LinkInv, NEW c \in Conns \cup {NoConn}, ResetBody(c), backlog' \in Seq(Conns),
         UNCHANGED <<ends, sent, down, cut, cuts, clock>>
  PROVE  LinkInv'
<1> USE DEF LinkInv, Numbering, TypeOK
<1>1. up' \in [Conns -> Seq(ToRobot)] /\ Contained(up', up)
  BY DiscardQueue DEF ResetBody, NetType
<1>2. ClientType' /\ CommandsType'
  BY DEF ends, sent, ClientType, CommandsType
<1>3. NetType'
  BY <1>1, ClosedType DEF ResetBody, NetType
<1>4. RobotType'
  BY Zero DEF ResetBody, StopMotors, RobotType, sent
<1>5. (PendingNumbered /\ UpNumbered /\ DownNumbered /\ KnownCommands)'
  BY <1>1, NumbersKept, Unmoved DEF ends, sent
<1> QED
  BY <1>2, <1>3, <1>4, <1>5 DEF ends, sent, OkMeansObeyed

LEMMA AcceptKeepsInv == ASSUME LinkInv, Accept PROVE LinkInv'
<1>1. backlog \in Seq(Conns) /\ backlog # <<>>
  BY DEF LinkInv, Numbering, TypeOK, RobotType, Accept
<1>2. Head(backlog) \in Conns /\ Tail(backlog) \in Seq(Conns)
  BY <1>1, HeadTailProperties
<1> QED
  BY <1>2, ResetKeepsInv DEF Accept

LEMMA GiveUpKeepsInv == ASSUME LinkInv, ClientGone \/ HeartbeatTimeout PROVE LinkInv'
BY ResetKeepsInv DEF ClientGone, HeartbeatTimeout, LinkInv, Numbering, TypeOK, RobotType

LEMMA HelloKeepsInv == ASSUME LinkInv, Hello PROVE LinkInv'
<1> USE DEF LinkInv, Numbering, TypeOK
<1> DEFINE new == [type |-> "hello_ack", uptime |-> clock]
<1>1. client \in Conns /\ up[client] # <<>>
  BY DEF Hello, Connected, RobotType
<1>2. /\ up' \in [Conns -> Seq(ToRobot)] /\ Contained(up', up)
  <2>1. up \in [Conns -> Seq(ToRobot)] /\ up' = [up EXCEPT ![client] = Tail(@)]
    BY DEF Hello, NetType
  <2> QED
    BY <1>1, <2>1, TailQueue
<1>3. /\ down' \in [Conns -> Seq(ToClient)]
      /\ \A d \in Conns : \A i \in DOMAIN down'[d] :
           \/ d = client /\ down'[d][i] = new
           \/ i \in DOMAIN down[d] /\ down'[d][i] = down[d][i]
  <2>1. new \in ToClient
    BY DEF ToClient, RobotType
  <2>2. down \in [Conns -> Seq(ToClient)] /\ down' = Into(down, client, "client", new)
    BY DEF Hello, NetType
  <2> HIDE DEF new
  <2> QED
    BY <1>1, <2>1, <2>2, IntoQueue
<1>4. ClientType' /\ CommandsType'
  BY DEF Hello, ends, sent, ClientType, CommandsType
<1>5. NetType'
  BY <1>2, <1>3 DEF Hello, NetType
<1>6. RobotType'
  <2>1. client' = client /\ client # NoConn
    BY <1>1, LinkAssumption DEF Hello
  <2> QED
    BY <2>1, Zero DEF Hello, sent, motors, RobotType
<1>7. PendingNumbered' /\ UpNumbered' /\ KnownCommands'
  <2>1. UNCHANGED <<kind, sequence, conn, pending>>
    BY DEF Hello, ends, sent
  <2>2. conn # NoConn => conn \in Conns
    BY DEF ClientType
  <2> QED
    BY <1>2, <2>1, <2>2
       DEF Contained, PendingNumbered, UpNumbered, KnownCommands, Numbered
<1>8. DownNumbered'
  <2>1. UNCHANGED <<kind, sequence, conn, obeyed>>
    BY DEF Hello, ends, sent
  <2>2. conn # NoConn => conn \in Conns
    BY DEF ClientType
  <2> QED
    BY <1>3, <2>1, <2>2 DEF DownNumbered, Numbered
<1> QED
  BY <1>4, <1>5, <1>6, <1>7, <1>8 DEF Hello, ends, sent, OkMeansObeyed

\* A command accepted over the present connection has the number its ack will stand
\* for.
LEMMA CommandKeepsInv == ASSUME LinkInv, Command PROVE LinkInv'
<1> USE DEF LinkInv, Numbering, TypeOK
<1> DEFINE m == Head(up[client])
           new == [type |-> "ack", seq |-> m.seq, status |-> Verdict(m)]
<1>1. client \in Conns /\ up[client] # <<>> /\ m.type \in Kinds
  BY DEF Command, Connected, RobotType
<1>2. /\ up' \in [Conns -> Seq(ToRobot)] /\ Contained(up', up)
      /\ m \in ToRobot /\ 1 \in DOMAIN up[client] /\ m = up[client][1]
  <2>1. up \in [Conns -> Seq(ToRobot)] /\ up' = [up EXCEPT ![client] = Tail(@)]
    BY DEF Command, NetType
  <2>2. m \in ToRobot /\ 1 \in DOMAIN up[client] /\ m = up[client][1]
    BY <1>1, <2>1, HeadOfQueue
  <2> QED
    BY <1>1, <2>1, <2>2, TailQueue
<1>3. m.seq \in Commands /\ m.n \in DOMAIN kind
  BY <1>1, <1>2, LinkAssumption DEF ToRobot, KnownCommands
<1>4. /\ down' \in [Conns -> Seq(ToClient)]
      /\ \A d \in Conns : \A i \in DOMAIN down'[d] :
           \/ d = client /\ down'[d][i] = new
           \/ i \in DOMAIN down[d] /\ down'[d][i] = down[d][i]
  <2>1. new \in ToClient
    BY <1>3 DEF ToClient, Verdict
  <2>2. down \in [Conns -> Seq(ToClient)] /\ down' = Into(down, client, "client", new)
    BY DEF Command, NetType
  <2> HIDE DEF new
  <2> QED
    BY <1>1, <2>1, <2>2, IntoQueue
<1>5. /\ obeyed \subseteq obeyed' /\ obeyed' \subseteq DOMAIN kind
      /\ Verdict(m) = "accepted" => m.n \in obeyed'
      /\ lastSeq' \in 0..MaxSends /\ moving' \in {0} \cup DOMAIN kind
      /\ movedAt' \in 0..(ClockSize - 1) /\ stopAt' \in 0..(ClockSize - 1)
  <2>1. CASE Verdict(m) = "accepted"
    <3>1. Obey(m) /\ lastSeq' = m.seq /\ obeyed' = obeyed \cup {m.n}
      BY <2>1 DEF Command
    <3>2. (clock + Duration) % ClockSize \in 0..(ClockSize - 1)
      <4>1. clock + Duration \in Int
        BY Bounds, LinkAssumption DEF RobotType
      <4> QED
        BY <4>1, ModRange
    <3>3. moving' \in {0, m.n} /\ movedAt' \in {0, clock}
          /\ stopAt' \in {0, (clock + Duration) % ClockSize}
      BY <3>1 DEF Obey, StopMotors
    <3> HIDE DEF m
    <3>4. lastSeq' \in 0..MaxSends
      BY <1>3, <3>1, Bounds DEF Commands
    <3>5. movedAt' \in 0..(ClockSize - 1) /\ stopAt' \in 0..(ClockSize - 1)
      BY <3>2, <3>3, Zero DEF RobotType
    <3>6. obeyed \subseteq obeyed' /\ obeyed' \subseteq DOMAIN kind /\ m.n \in obeyed'
      BY <1>3, <3>1 DEF CommandsType
    <3> QED
      BY <1>3, <3>3, <3>4, <3>5, <3>6
  <2>2. CASE Verdict(m) # "accepted"
    BY <2>2 DEF Command, motors, RobotType, CommandsType
  <2> QED
    BY <2>1, <2>2
<1>6. UNCHANGED <<phase, conn, sequence, skew, pending, kind, age, outcome>>
  BY DEF Command, ends
<1>7. ClientType' /\ CommandsType'
  BY <1>5, <1>6 DEF ClientType, CommandsType
<1>8. NetType' /\ RobotType'
  BY <1>2, <1>4, <1>5, <1>6 DEF Command, NetType, RobotType
<1>9. conn # NoConn => conn \in Conns
  BY DEF ClientType
<1>10. PendingNumbered' /\ UpNumbered' /\ KnownCommands'
  BY <1>2, <1>6, <1>9 DEF Contained, PendingNumbered, UpNumbered, KnownCommands, Numbered
<1>11. DownNumbered'
  <2> SUFFICES ASSUME conn # NoConn, NEW i \in DOMAIN down'[conn],
                      down'[conn][i].type = "ack", down'[conn][i].status = "accepted"
               PROVE  \E n \in obeyed' : Numbered(n, down'[conn][i].seq)
    BY <1>6 DEF DownNumbered, Numbered
  <2>1. CASE conn = client /\ down'[conn][i] = new
    <3>1. Numbered(m.n, m.seq)
      BY <1>1, <1>2, <2>1 DEF UpNumbered
    <3>2. new.seq = m.seq /\ new.status = Verdict(m)
      OBVIOUS
    <3> HIDE DEF m, new
    <3> QED
      BY <1>5, <2>1, <3>1, <3>2
  <2>2. CASE i \in DOMAIN down[conn] /\ down'[conn][i] = down[conn][i]
    BY <2>2, <1>5 DEF DownNumbered
  <2> QED
    BY <1>4, <1>9, <2>1, <2>2
<1> QED
  BY <1>5, <1>6, <1>7, <1>8, <1>10, <1>11 DEF OkMeansObeyed

LEMMA SafetyStopKeepsInv == ASSUME LinkInv, EnforceSafetyTimeouts PROVE LinkInv'
<1> USE DEF LinkInv, Numbering, TypeOK, EnforceSafetyTimeouts, ends, sent, net
<1>1. ClientType' /\ CommandsType' /\ NetType'
  BY DEF ClientType, CommandsType, NetType
<1>2. RobotType'
  BY Zero DEF StopMotors, RobotType
<1>3. (PendingNumbered /\ UpNumbered /\ DownNumbered /\ KnownCommands)'
  BY NumbersKept, Unmoved
<1> QED
  BY <1>1, <1>2, <1>3 DEF OkMeansObeyed

LEMMA RebootKeepsInv == ASSUME LinkInv, Reboot PROVE LinkInv'
<1> USE DEF LinkInv, Numbering, TypeOK, Reboot, ends, sent
<1>1. ClientType' /\ CommandsType'
  BY DEF ClientType, CommandsType
<1>2. NetType' /\ Contained(up', up) /\ Contained(down', down)
  <2>1. cuts' \in 0..MaxCuts
    BY LinkAssumption DEF NetType
  <2> QED
    BY <2>1 DEF NetType, Contained
<1>3. RobotType'
  <2>1. backlog' \in Seq(Conns)
    OBVIOUS
  <2> QED
    BY <2>1, Zero DEF RobotType
<1>4. (PendingNumbered /\ UpNumbered /\ DownNumbered /\ KnownCommands)'
  BY <1>2, NumbersKept
<1> QED
  BY <1>1, <1>2, <1>3, <1>4 DEF OkMeansObeyed

LEMMA CutKeepsInv == ASSUME LinkInv, NEW c \in Conns, Cut(c) PROVE LinkInv'
<1> USE DEF LinkInv, Numbering, TypeOK, ends, sent, robot
<1>1. /\ up' \in [Conns -> Seq(ToRobot)] /\ Contained(up', up)
      /\ down' \in [Conns -> Seq(ToClient)] /\ Contained(down', down)
  BY DiscardQueue DEF Cut, NetType
<1>2. ClientType' /\ CommandsType' /\ RobotType'
  BY DEF Cut, ClientType, CommandsType, RobotType
<1>3. NetType'
  <2>1. cuts' \in 0..MaxCuts
    BY LinkAssumption DEF Cut, NetType
  <2> QED
    BY <1>1, <2>1 DEF Cut, NetType
<1>4. (PendingNumbered /\ UpNumbered /\ DownNumbered /\ KnownCommands)'
  BY <1>1, NumbersKept DEF Cut
<1> QED
  BY <1>2, <1>3, <1>4 DEF Cut, OkMeansObeyed

\* Time passes, by the robot's clock or by the client's alone.
LEMMA TimeKeepsInv == ASSUME LinkInv, Tick \/ Drift PROVE LinkInv'
<1> USE DEF LinkInv, Numbering, TypeOK, net
<1>1. age' \in Seq(0..MaxAge) /\ Len(age') = Len(age)
  <2>1. age \in Seq(0..MaxAge) /\ DOMAIN age' = DOMAIN age
        /\ age' = [n \in DOMAIN age |-> IF age[n] < MaxAge THEN age[n] + 1 ELSE age[n]]
    BY DEF Tick, Drift, GrowOlder, CommandsType
  <2>2. \A n \in DOMAIN age : age[n] \in 0..MaxAge
    BY <2>1, LenProperties
  <2>3. age' \in [DOMAIN age -> 0..MaxAge]
    BY <2>1, <2>2, Bounds
  <2> QED
    BY <2>1, <2>3, SameLength
<1>2. UNCHANGED <<phase, conn, sequence, pending, kind, outcome, obeyed, net>>
  BY DEF Tick, Drift, ends
<1>3. skew' \in (-MaxDrift)..(ClockSize - 1)
  BY Bounds DEF Tick, Drift, ends, ClientType
<1>4. clock' \in 0..(ClockSize - 1)
  <2>1. clock + 1 \in Int
    BY Bounds DEF RobotType
  <2> QED
    BY <2>1, ModRange DEF Tick, Drift, robot, RobotType
<1>5. ClientType' /\ CommandsType' /\ NetType'
  BY <1>1, <1>2, <1>3 DEF ClientType, CommandsType, NetType
<1>6. RobotType'
  BY <1>2, <1>4 DEF Tick, Drift, robot, motors, RobotType
<1>7. (PendingNumbered /\ UpNumbered /\ DownNumbered /\ KnownCommands)'
  BY <1>2, NumbersKept, Unmoved
<1> QED
  BY <1>2, <1>5, <1>6, <1>7 DEF OkMeansObeyed

LEMMA StutterKeepsInv == ASSUME LinkInv, UNCHANGED vars PROVE LinkInv'
<1> USE DEF LinkInv, Numbering, TypeOK, vars, ends, sent, net, robot
<1>1. TypeOK'
  BY DEF ClientType, CommandsType, NetType, RobotType
<1>2. (PendingNumbered /\ UpNumbered /\ DownNumbered /\ KnownCommands)'
  BY NumbersKept, Unmoved
<1> QED
  BY <1>1, <1>2 DEF OkMeansObeyed

-----------------------------------------------------------------------------
LEMMA InvStep == LinkInv /\ [Next]_vars => LinkInv'
BY ConnectKeepsInv, CutKeepsInv, HelloAckKeepsInv, DropKeepsInv, RecvAckKeepsInv,
   SendKeepsInv, AckTimeoutKeepsInv, AcceptKeepsInv, GiveUpKeepsInv, HelloKeepsInv,
   CommandKeepsInv, SafetyStopKeepsInv, RebootKeepsInv, TimeKeepsInv, StutterKeepsInv
   DEF Next

\* The invariant of the connection, whatever is lost, cut off or restarted.
THEOREM LinkInvariant == Spec => []LinkInv
BY InitInv, InvStep, PTL DEF Spec

\* The numbers of sequence and acknowledgements: `sequence` starts again with every
\* connection (_run), and what is pending, sent and accepted over it stays in step.
THEOREM NumbersAgree == Spec => []Numbering
<1>1. LinkInv => Numbering
  BY DEF LinkInv
<1> QED
  BY <1>1, LinkInvariant, PTL

\* Type correctness of both ends and of what is between them.
THEOREM LinkTypeCorrect == Spec => []TypeOK
<1>1. LinkInv => TypeOK
  BY DEF LinkInv, Numbering
<1> QED
  BY <1>1, LinkInvariant, PTL

\* ControlChannelClient.send returns ok only for a command the firmware has carried
\* out (_read_loop against handleCommand).
THEOREM AcksAreTrue == Spec => []OkMeansObeyed
<1>1. LinkInv => OkMeansObeyed
  BY DEF LinkInv, Numbering
<1> QED
  BY <1>1, LinkInvariant, PTL

-----------------------------------------------------------------------------
\* resetConnection leaves nothing moving, whichever client is next.
LEMMA ResetStops == ASSUME NEW c, ResetBody(c) PROVE NobodyNoMotion'
BY DEF ResetBody, StopMotors, NobodyNoMotion

\* Every step of the client, the network and the robot keeps the motors still
\* unless the robot is in conversation.
LEMMA StillStep == NobodyNoMotion /\ [Next]_vars => NobodyNoMotion'
<1> SUFFICES ASSUME NobodyNoMotion, [Next]_vars PROVE NobodyNoMotion'
  OBVIOUS
<1>1. ASSUME NEW c \in Conns, Connect(c) \/ Cut(c) PROVE NobodyNoMotion'
  BY <1>1 DEF Connect, Cut, robot, motors, NobodyNoMotion
<1>2. CASE HelloAck \/ Drop \/ RecvAck
  BY <1>2 DEF HelloAck, Drop, RecvAck, robot, NobodyNoMotion
<1>3. ASSUME NEW k \in Kinds, Send(k) PROVE NobodyNoMotion'
  BY <1>3 DEF Send, robot, NobodyNoMotion
<1>4. ASSUME NEW p \in pending, AckTimeout(p) PROVE NobodyNoMotion'
  BY <1>4 DEF AckTimeout, robot, NobodyNoMotion
<1>5. CASE Accept
  BY <1>5, ResetStops DEF Accept
<1>6. CASE ClientGone \/ HeartbeatTimeout
  BY <1>6, ResetStops DEF ClientGone, HeartbeatTimeout
<1>7. CASE Hello
  BY <1>7 DEF Hello, NobodyNoMotion
<1>8. CASE Command
  BY <1>8 DEF Command, NobodyNoMotion
<1>9. CASE EnforceSafetyTimeouts \/ Reboot
  BY <1>9 DEF EnforceSafetyTimeouts, StopMotors, Reboot, NobodyNoMotion
<1>10. CASE Tick \/ Drift
  BY <1>10 DEF Tick, Drift, robot, motors, NobodyNoMotion
<1>11. CASE UNCHANGED vars
  BY <1>11 DEF vars, robot, NobodyNoMotion
<1> QED
  BY <1>1, <1>2, <1>3, <1>4, <1>5, <1>6, <1>7, <1>8, <1>9, <1>10, <1>11 DEF Next

\* The motors run only while the robot has shaken hands with the client it has:
\* every path of updateControlChannel and acceptNewClient that gives up a client,
\* and a restart, stops them first (resetConnection(true), initializeState).
THEOREM StillWithoutClient == Spec => []NobodyNoMotion
<1>1. Init => NobodyNoMotion
  BY DEF Init, NobodyNoMotion
<1> QED
  BY <1>1, StillStep, PTL DEF Spec

\* Both together: acknowledgements are true, and nothing moves without a conversation,
\* across losses, restarts and stale messages.
THEOREM LinkIsSafe == Spec => []LinkSafety
<1>1. LinkInv /\ NobodyNoMotion => LinkSafety
  BY DEF LinkSafety
<1> QED
  BY <1>1, LinkInvariant, StillWithoutClient, PTL

-----------------------------------------------------------------------------
\* What is read from q comes after what has been obeyed, and in the order of sending.
Ahead(q, done) ==
  \A i \in DOMAIN q : q[i].type \in Kinds =>
    /\ \A n \in done : n < q[i].n
    /\ \A j \in DOMAIN q : i < j /\ q[j].type \in Kinds => q[i].n < q[j].n

\* Connections wait in the backlog once each, with nothing but their hello.
Waiting ==
  \A i \in DOMAIN backlog :
    /\ backlog[i] \in Conns /\ backlog[i] # client
    /\ down[backlog[i]] = <<>>
    /\ \A j \in DOMAIN up[backlog[i]] : up[backlog[i]][j].type \notin Kinds
    /\ \A k \in DOMAIN backlog : backlog[k] = backlog[i] => k = i

\* What StopIsFinal rests on: nothing the robot has yet to read is older than what it
\* has obeyed, and what it follows is the newest of that.
Onwards ==
  /\ client # NoConn => Ahead(up[client], obeyed)
  /\ Waiting
  /\ phase = "ready" => \A i \in DOMAIN backlog : backlog[i] # conn
  /\ moving # 0 => \A n \in obeyed : n <= moving

LEMMA AheadTail ==
  ASSUME NEW S, NEW q \in Seq(S), q # <<>>, NEW done, Ahead(q, done)
  PROVE  /\ Ahead(Tail(q), done)
         /\ Head(q).type \in Kinds => /\ Ahead(Tail(q), done \cup {Head(q).n})
                                      /\ \A n \in done : n < Head(q).n
<1>1. /\ \A i \in DOMAIN Tail(q) : i + 1 \in DOMAIN q /\ Tail(q)[i] = q[i + 1] /\ 1 < i + 1
      /\ \A i, j \in DOMAIN Tail(q) : i < j => i + 1 < j + 1
      /\ 1 \in DOMAIN q /\ q[1] = Head(q)
  <2>1. /\ Tail(q) \in Seq(S) /\ \A i \in 1..Len(Tail(q)) : Tail(q)[i] = q[i + 1]
        /\ Len(Tail(q)) = Len(q) - 1 /\ Len(q) \in Nat /\ DOMAIN q = 1..Len(q)
        /\ DOMAIN Tail(q) = 1..Len(Tail(q)) /\ Head(q) = q[1] /\ Len(q) # 0
    BY HeadTailProperties, LenProperties, EmptySeq
  <2> QED BY <2>1
<1> QED
  BY <1>1 DEF Ahead

LEMMA AheadAppend ==
  ASSUME NEW S, NEW q \in Seq(S), NEW m \in S, NEW done, Ahead(q, done),
         \A n \in done : n < m.n,
         \A i \in DOMAIN q : q[i].type \in Kinds => q[i].n < m.n
  PROVE  Ahead(Append(q, m), done)
<1>1. /\ DOMAIN Append(q, m) = DOMAIN q \cup {Len(q) + 1}
      /\ \A i \in DOMAIN q : Append(q, m)[i] = q[i]
      /\ Append(q, m)[Len(q) + 1] = m
      /\ \A i, j \in DOMAIN Append(q, m) : i < j => i \in DOMAIN q
  <2>1. /\ Append(q, m) \in Seq(S) /\ Len(Append(q, m)) = Len(q) + 1
        /\ \A i \in 1..Len(q) : Append(q, m)[i] = q[i]
        /\ Append(q, m)[Len(q) + 1] = m /\ Len(q) \in Nat /\ DOMAIN q = 1..Len(q)
    BY AppendProperties, LenProperties
  <2>2. DOMAIN Append(q, m) = 1..(Len(q) + 1)
    BY <2>1, LenProperties
  <2> QED BY <2>1, <2>2
<1> QED
  BY <1>1 DEF Ahead

\* Steps that leave the robot's connections as they are, or take from what they hold.
LEMMA OnwardsKept ==
  ASSUME LinkInv, Onwards, UNCHANGED <<client, backlog, obeyed, moving>>,
         \A i \in DOMAIN backlog : down'[backlog[i]] = <<>>,
         up' = up, phase' = "ready" => \A i \in DOMAIN backlog : backlog[i] # conn'
  PROVE  Onwards'
BY DEF Onwards, Waiting

\* The robot gives a connection up, for the next that waits or for none.
LEMMA OnwardsReset ==
  ASSUME LinkInv, Onwards, NEW c, ResetBody(c),
         \/ backlog # <<>> /\ c = Head(backlog) /\ backlog' = Tail(backlog)
         \/ c = NoConn /\ backlog' = backlog,
         UNCHANGED <<ends, sent, down, cut, cuts, clock>>
  PROVE  Onwards'
<1>0. /\ backlog \in Seq(Conns) /\ up \in [Conns -> Seq(ToRobot)] /\ client \in Conns \cup {NoConn}
  BY DEF LinkInv, TypeOK, RobotType, NetType
<1>1. \A d \in Conns : d # client => up'[d] = up[d]
  BY DEF ResetBody, Discard
<1>2. moving' = 0 /\ client' = c /\ UNCHANGED <<phase, conn, obeyed, down>>
  BY DEF ResetBody, StopMotors, ends, sent
<1>3. CASE backlog # <<>> /\ c = Head(backlog) /\ backlog' = Tail(backlog)
  <2>1. /\ \A i \in DOMAIN backlog' : i + 1 \in DOMAIN backlog /\ backlog'[i] = backlog[i + 1] /\ 1 # i + 1
        /\ \A i, j \in DOMAIN backlog' : i + 1 = j + 1 => i = j
        /\ 1 \in DOMAIN backlog /\ backlog[1] = c
    BY <1>0, <1>3, HeadTailProperties, LenProperties, EmptySeq
  <2>2. c \in Conns /\ c # client /\ \A j \in DOMAIN up[c] : up[c][j].type \notin Kinds
    BY <2>1 DEF Onwards, Waiting
  <2>3. Ahead(up'[c], obeyed)
    BY <1>1, <2>2 DEF Ahead
  <2>4. Waiting'
    <3> SUFFICES ASSUME NEW i \in DOMAIN backlog'
                 PROVE  /\ backlog'[i] \in Conns /\ backlog'[i] # client'
                        /\ down'[backlog'[i]] = <<>>
                        /\ \A j \in DOMAIN up'[backlog'[i]] : up'[backlog'[i]][j].type \notin Kinds
                        /\ \A k \in DOMAIN backlog' : backlog'[k] = backlog'[i] => k = i
      BY DEF Waiting
    <3>1. i + 1 \in DOMAIN backlog /\ backlog'[i] = backlog[i + 1] /\ 1 # i + 1
      BY <2>1
    <3>2. /\ backlog'[i] \in Conns /\ backlog'[i] # client' /\ down'[backlog'[i]] = <<>>
          /\ backlog'[i] # client
          /\ \A j \in DOMAIN up[backlog'[i]] : up[backlog'[i]][j].type \notin Kinds
      BY <1>2, <2>1, <3>1 DEF Onwards, Waiting
    <3>3. \A k \in DOMAIN backlog' : backlog'[k] = backlog'[i] => k = i
      BY <2>1 DEF Onwards, Waiting
    <3> QED BY <1>1, <3>2, <3>3
  <2>5. phase' = "ready" => \A i \in DOMAIN backlog' : backlog'[i] # conn'
    BY <1>2, <2>1 DEF Onwards
  <2> QED BY <1>2, <2>3, <2>4, <2>5 DEF Onwards, Ahead
<1>4. CASE c = NoConn /\ backlog' = backlog
  <2>1. Waiting'
    BY <1>1, <1>2, <1>4, LinkAssumption DEF Onwards, Waiting
  <2> QED BY <1>2, <1>4, <2>1 DEF Onwards
<1> QED
  BY <1>3, <1>4

\* The robot reads the first message of its client.
LEMMA OnwardsRead ==
  ASSUME LinkInv, Onwards, Hello \/ Command
  PROVE  Onwards'
<1> DEFINE m == Head(up[client])
<1>1. client \in Conns /\ up[client] # <<>> /\ up[client] \in Seq(ToRobot)
  BY DEF Hello, Command, Connected, LinkInv, TypeOK, RobotType, NetType
<1>2. /\ UNCHANGED <<client, backlog, phase, conn>> /\ up' = [up EXCEPT ![client] = Tail(@)]
      /\ \A d \in Conns : d # client => down'[d] = down[d] /\ up'[d] = up[d]
      /\ up'[client] = Tail(up[client])
  BY <1>1 DEF Hello, Command, ends, Into, LinkInv, TypeOK, NetType
<1>3. Waiting'
  BY <1>2 DEF Onwards, Waiting
<1>4. /\ Ahead(Tail(up[client]), obeyed)
      /\ m.type \in Kinds => /\ Ahead(Tail(up[client]), obeyed \cup {m.n})
                             /\ \A n \in obeyed : n < m.n
  BY <1>1, AheadTail, LinkAssumption DEF Onwards
<1>5. CASE UNCHANGED <<moving, obeyed>>
  BY <1>1, <1>2, <1>3, <1>4, <1>5 DEF Onwards, Ahead
<1>6. CASE m.type \in Kinds /\ Obey(m) /\ obeyed' = obeyed \cup {m.n}
  <2>1. Ahead(up'[client'], obeyed')
    <3> HIDE DEF m
    <3> QED BY <1>2, <1>4, <1>6
  <2>2. moving' # 0 => \A n \in obeyed' : n <= moving'
    <3>1. moving' \in {0, m.n}
      BY <1>6 DEF Obey, StopMotors
    <3>2. m.n \in Int /\ obeyed \subseteq Int
      <4>1. DOMAIN kind \subseteq Int /\ obeyed \subseteq DOMAIN kind
        BY LenProperties DEF LinkInv, TypeOK, CommandsType
      <4>2. 1 \in DOMAIN up[client] /\ m = up[client][1]
        BY <1>1, HeadTailProperties, LenProperties, EmptySeq
      <4>3. m.n \in DOMAIN kind
        BY <1>1, <1>6, <4>2 DEF LinkInv, Numbering, KnownCommands
      <4> QED BY <4>1, <4>3
    <3>3. \A n \in obeyed : n < m.n
      BY <1>4, <1>6
    <3> HIDE DEF m
    <3>4. \A n \in obeyed \cup {m.n} : n <= m.n
      BY <3>2, <3>3
    <3> QED BY <1>6, <3>1, <3>4
  <2> QED BY <1>2, <1>3, <2>1, <2>2 DEF Onwards
<1> QED
  BY <1>5, <1>6 DEF Hello, Command, sent, motors

LEMMA OnwardsSend ==
  ASSUME LinkInv, Onwards, NEW k \in Kinds, Send(k)
  PROVE  Onwards'
<1> DEFINE m == [type |-> k, n |-> Len(kind'), seq |-> sequence',
                 expires |-> (clock - skew + Ttl[k]) % ClockSize]
<1>1. /\ UNCHANGED <<phase, conn, obeyed, down, client, backlog, moving>> /\ phase = "ready"
      /\ up' = Into(up, conn, "robot", m) /\ kind' = Append(kind, k)
  BY DEF Send, robot
<1>2. /\ conn \in Conns /\ up \in [Conns -> Seq(ToRobot)] /\ kind \in Seq(Kinds)
      /\ obeyed \subseteq DOMAIN kind
  BY <1>1, LinkAssumption DEF LinkInv, TypeOK, ClientType, NetType, CommandsType
<1>3. m.n = Len(kind) + 1 /\ DOMAIN kind = 1..Len(kind) /\ Len(kind) \in Nat
  BY <1>1, <1>2, AppendProperties, LenProperties
<1>4. \A n \in DOMAIN kind : n < m.n
  BY <1>3
<1> HIDE DEF m
<1>5. \A d \in Conns : d # conn => up'[d] = up[d]
  BY <1>1 DEF Into
<1>6. Waiting'
  BY <1>1, <1>5 DEF Onwards, Waiting
<1>7. client # NoConn => Ahead(up'[client], obeyed)
  <2> SUFFICES ASSUME client # NoConn PROVE Ahead(up'[client], obeyed)
    OBVIOUS
  <2>1. client \in Conns /\ Ahead(up[client], obeyed)
    BY DEF LinkInv, TypeOK, RobotType, Onwards
  <2>2. CASE up'[client] = up[client]
    BY <2>1, <2>2
  <2>3. CASE up'[client] = Append(up[client], m)
    <3> DEFINE S == ToRobot \cup {m}
    <3>1. up[client] \in Seq(S) /\ m \in S
      BY <1>2, <2>1, SeqMonotonic
    <3> HIDE DEF S
    <3>2. \A i \in DOMAIN up[client] : up[client][i].type \in Kinds => up[client][i].n < m.n
      BY <1>4, <2>1 DEF LinkInv, Numbering, KnownCommands
    <3> QED BY <1>2, <1>4, <2>1, <2>3, <3>1, <3>2, AheadAppend
  <2> QED BY <1>1, <1>2, <2>1, <2>2, <2>3 DEF Into
<1> QED
  BY <1>1, <1>6, <1>7 DEF Onwards, Ahead

LEMMA OnwardsConnect ==
  ASSUME LinkInv, Onwards, NEW c \in Conns, Connect(c)
  PROVE  Onwards'
<1>1. /\ c # client /\ \A i \in DOMAIN backlog : backlog[i] # c
      /\ phase' = "hello" /\ backlog' = Append(backlog, c)
      /\ UNCHANGED <<client, obeyed, moving>>
      /\ up' = [up EXCEPT ![c] = <<[type |-> "hello"]>>] /\ down' = [down EXCEPT ![c] = <<>>]
  BY DEF Connect, InUse, ToSet, sent, motors
<1>2. /\ up \in [Conns -> Seq(ToRobot)] /\ down \in [Conns -> Seq(ToClient)]
      /\ backlog \in Seq(Conns) /\ client \in Conns \cup {NoConn}
  BY DEF LinkInv, TypeOK, NetType, RobotType
<1>3. /\ \A d \in Conns : d # c => up'[d] = up[d] /\ down'[d] = down[d]
      /\ up'[c] = <<[type |-> "hello"]>> /\ down'[c] = <<>>
  BY <1>1, <1>2
<1>4. /\ DOMAIN backlog' = DOMAIN backlog \cup {Len(backlog) + 1}
      /\ \A i \in DOMAIN backlog : backlog'[i] = backlog[i]
      /\ backlog'[Len(backlog) + 1] = c
  BY <1>1, <1>2, AppendProperties, LenProperties
<1>5. \A j \in DOMAIN up'[c] : up'[c][j].type \notin Kinds
  <2>1. "hello" \notin Kinds
    BY LinkAssumption
  <2> QED BY <1>3, <2>1
<1>6. Waiting'
  BY <1>1, <1>3, <1>4, <1>5 DEF Onwards, Waiting
<1> QED
  BY <1>1, <1>2, <1>3, <1>6 DEF Onwards, Ahead

LEMMA OnwardsStep == LinkInv /\ Onwards /\ [Next]_vars => Onwards'
<1> SUFFICES ASSUME LinkInv, Onwards, [Next]_vars PROVE Onwards'
  OBVIOUS
<1>0. /\ down \in [Conns -> Seq(ToClient)] /\ up \in [Conns -> Seq(ToRobot)]
      /\ conn \in Conns \cup {NoConn} /\ (phase # "down" => conn \in Conns)
      /\ client \in Conns \cup {NoConn}
      /\ \A i \in DOMAIN backlog : backlog[i] \in Conns /\ down[backlog[i]] = <<>>
  BY DEF LinkInv, TypeOK, NetType, ClientType, RobotType, Onwards, Waiting
<1>1. ASSUME NEW c \in Conns, Connect(c) PROVE Onwards'
  BY <1>1, OnwardsConnect
<1>2. ASSUME NEW c \in Conns, Cut(c) PROVE Onwards'
  <2>1. /\ UNCHANGED <<client, backlog, obeyed, moving, phase, conn>>
        /\ \A d \in Conns : up'[d] \in {<<>>, up[d]} /\ down'[d] \in {<<>>, down[d]}
    BY <1>0, <1>2 DEF Cut, Discard, sent, robot, ends
  <2>2. DOMAIN <<>> = {} /\ Ahead(<<>>, obeyed)
    BY EmptySeq DEF Ahead
  <2>3. ASSUME NEW i \in DOMAIN backlog
        PROVE  /\ down'[backlog[i]] = <<>>
               /\ \A j \in DOMAIN up'[backlog[i]] : up'[backlog[i]][j].type \notin Kinds
    <3>1. /\ backlog[i] \in Conns /\ down[backlog[i]] = <<>>
          /\ \A j \in DOMAIN up[backlog[i]] : up[backlog[i]][j].type \notin Kinds
      BY DEF Onwards, Waiting
    <3>2. up'[backlog[i]] = <<>> \/ up'[backlog[i]] = up[backlog[i]]
      BY <2>1, <3>1
    <3> QED BY <2>1, <2>2, <3>1, <3>2
  <2>4. Waiting'
    BY <2>1, <2>3 DEF Onwards, Waiting
  <2>5. client # NoConn => Ahead(up'[client], obeyed)
    <3>1. client # NoConn => up'[client] = <<>> \/ up'[client] = up[client]
      BY <1>0, <2>1
    <3> QED BY <2>2, <3>1 DEF Onwards
  <2> QED BY <2>1, <2>4, <2>5 DEF Onwards
<1>3. CASE HelloAck \/ RecvAck
  <2>1. /\ UNCHANGED <<client, backlog, obeyed, moving, conn, up>>
        /\ down[conn] # <<>> /\ conn \in Conns
        /\ \A d \in Conns : d # conn => down'[d] = down[d]
    BY <1>0, <1>3 DEF HelloAck, RecvAck, sent, robot
  <2>2. \A i \in DOMAIN backlog : backlog[i] # conn
    BY <1>0, <2>1
  <2> QED BY <1>0, <2>1, <2>2, OnwardsKept
<1>4. CASE Drop
  <2>1. /\ UNCHANGED <<client, backlog, obeyed, moving, up>> /\ phase' = "down"
        /\ \A d \in Conns : down'[d] \in {<<>>, down[d]}
    BY <1>0, <1>4 DEF Drop, Discard, sent, robot
  <2> QED BY <1>0, <2>1, OnwardsKept
<1>5. ASSUME NEW k \in Kinds, Send(k) PROVE Onwards'
  BY <1>5, OnwardsSend
<1>6. ASSUME NEW p \in pending, AckTimeout(p) PROVE Onwards'
  <2>1. UNCHANGED <<client, backlog, obeyed, moving, up, down, phase, conn>>
    BY <1>6 DEF AckTimeout, net, robot
  <2> QED BY <1>0, <2>1, OnwardsKept DEF Onwards
<1>7. CASE Accept \/ ClientGone \/ HeartbeatTimeout
  BY <1>7, OnwardsReset DEF Accept, ClientGone, HeartbeatTimeout
<1>8. CASE Hello \/ Command
  BY <1>8, OnwardsRead
<1>9. CASE EnforceSafetyTimeouts
  <2>1. UNCHANGED <<client, backlog, obeyed, up, down, phase, conn>> /\ moving' = 0
    BY <1>9 DEF EnforceSafetyTimeouts, StopMotors, ends, sent, net
  <2> QED BY <2>1 DEF Onwards, Waiting, Ahead
<1>10. CASE Reboot
  <2>1. client' = NoConn /\ moving' = 0 /\ DOMAIN backlog' = {}
    BY <1>10, EmptySeq DEF Reboot
  <2> QED BY <2>1 DEF Onwards, Waiting
<1>11. CASE Tick \/ Drift \/ UNCHANGED vars
  <2>1. UNCHANGED <<client, backlog, obeyed, moving, up, down, phase, conn>>
    BY <1>11 DEF Tick, Drift, vars, ends, sent, net, robot, motors
  <2> QED BY <1>0, <2>1, OnwardsKept DEF Onwards
<1> QED
  BY <1>1, <1>2, <1>3, <1>4, <1>5, <1>6, <1>7, <1>8, <1>9, <1>10, <1>11 DEF Next

\* An acknowledged stop is final (send() against handleCommand): no drive sent before it
\* moves the robot afterwards, whatever is under way on this or an older connection.
THEOREM AcknowledgedStopHolds == Spec => []StopIsFinal
<1>1. Init => Onwards
  <2> SUFFICES ASSUME Init PROVE Onwards
    OBVIOUS
  <2>1. client = NoConn /\ moving = 0 /\ DOMAIN backlog = {} /\ phase = "down"
    BY EmptySeq DEF Init
  <2> QED BY <2>1 DEF Onwards, Waiting
<1>2. LinkInv /\ Onwards => StopIsFinal
  <2> SUFFICES ASSUME LinkInv, Onwards, moving # 0, NEW n \in DOMAIN kind,
                      kind[n] = "stop", moving < n, outcome[n] = "ok"
               PROVE  FALSE
    BY DEF StopIsFinal
  <2>1. n \in obeyed
    BY DEF LinkInv, OkMeansObeyed
  <2>2. n \in Int /\ moving \in Int
    BY LenProperties DEF LinkInv, TypeOK, CommandsType, RobotType
  <2> QED BY <2>1, <2>2 DEF Onwards
<1> QED
  BY <1>1, <1>2, LinkInvariant, OnwardsStep, PTL DEF Spec

-----------------------------------------------------------------------------
(* Time: what the client knows of the robot's clock, and what that makes of the dates on *)
(* the commands under way and of the drive that is followed.                             *)

\* How far the estimate of the clock can be off.
Skews == (-MaxDrift)..MaxDelay

\* No command is on its way to the robot, and none is followed.
Quiet ==
  /\ moving = 0
  /\ \A c \in Conns : \A i \in DOMAIN up[c] : up[c][i].type \notin Kinds

\* Commands are under way to the robot's client only: what has greeted the client, and has
\* closed or lost nothing since, is the robot over the connection it has.
OnlyClients ==
  \A c \in Conns : \A i \in DOMAIN up[c] : up[c][i].type \in Kinds => c = client
Greeted == phase = "ready" \/ (phase = "hello" /\ down[conn] # <<>>)
Greeting == Greeted => conn = client \/ conn \in cut \/ "robot" \in fin[conn]

\* Between connections the robot comes to rest, before the clock is estimated anew.
Resting ==
  phase = "hello" =>
    /\ \A i \in DOMAIN up[conn] : up[conn][i].type \notin Kinds
    /\ conn = client => moving = 0
    /\ down[conn] # <<>> => Quiet

\* The estimate of the clock.
Estimated ==
  /\ skew \in Skews
  /\ phase = "hello" => \A i \in DOMAIN down[conn] :
       down[conn][i].type = "hello_ack" => (clock - down[conn][i].uptime) % ClockSize <= MaxDelay

\* Of a skew s that was that of the client when it sent, and has drifted with it since.
Current(s) == phase = "ready" => s = skew

\* Around the clock.
Around == {-ClockSize, 0, ClockSize}

\* m expires when its ttl is over, but for the error s of the estimate.
DatedBy(m, s) ==
  /\ age[m.n] <= MaxDelay
  /\ m.expires - (clock - age[m.n] - s + Ttl[m.type]) \in Around
Dated ==
  \A c \in Conns : \A i \in DOMAIN up[c] : up[c][i].type \in Kinds =>
    \E s \in Skews : Current(s) /\ DatedBy(up[c][i], s)

\* The drive that is followed was obeyed in time and has not been followed for long.
Since == (clock - movedAt) % ClockSize
FollowedBy(s) == age[moving] + s < Ttl["drive"] + Since
Followed ==
  moving # 0 =>
    /\ "drive" \in Kinds /\ Since <= MotionTimeout + 1
    /\ \E s \in Skews : Current(s) /\ FollowedBy(s)

TimeInv ==
  OnlyClients /\ Greeting /\ Resting /\ Estimated /\ Dated /\ Followed

LEMMA ModCases ==
  ASSUME NEW x \in Int
  PROVE  /\ 0 <= x /\ x < ClockSize => x % ClockSize = x
         /\ ClockSize <= x /\ x < ClockSize + ClockSize => x % ClockSize = x - ClockSize
         /\ -ClockSize <= x /\ x < 0 => x % ClockSize = x + ClockSize
<1>1. ClockSize \in Nat \ {0}
  BY LinkAssumption
<1>2. ASSUME NEW n \in Nat \ {0}
      PROVE  /\ 0 <= x /\ x < n => x % n = x
             /\ n <= x /\ x < n + n => x % n = x - n
             /\ -n <= x /\ x < 0 => x % n = x + n
  OBVIOUS
<1> QED BY <1>1, <1>2

LEMMA Margins ==
  /\ ClockSize \in Nat \ {0} /\ MaxDelay \in Nat /\ MaxDrift \in Nat /\ MotionTimeout \in Nat
  /\ ClockSize \div 2 \in Nat /\ (ClockSize \div 2) + (ClockSize \div 2) <= ClockSize
  /\ MotionTimeout + 1 < ClockSize
  /\ \A k \in Kinds : /\ Ttl[k] \in Nat \ {0}
                      /\ Ttl[k] + MaxDrift <= ClockSize \div 2
                      /\ MaxDelay + MaxDelay < (ClockSize \div 2) + Ttl[k]
<1>1. /\ ClockSize \in Nat \ {0} /\ MaxDelay \in Nat /\ MaxDrift \in Nat /\ MotionTimeout \in Nat
      /\ MotionTimeout + 1 < ClockSize
      /\ \A k \in Kinds : Ttl[k] \in Nat \ {0}
  BY LinkAssumption
<1>2. \A n \in Nat \ {0} : n \div 2 \in Nat /\ (n \div 2) + (n \div 2) <= n
  OBVIOUS
<1>3. ClockSize \div 2 \in Nat /\ (ClockSize \div 2) + (ClockSize \div 2) <= ClockSize
  BY <1>1, <1>2
<1>4. ASSUME NEW k \in Kinds
      PROVE  /\ Ttl[k] + MaxDrift <= ClockSize \div 2
             /\ MaxDelay + MaxDelay < (ClockSize \div 2) + Ttl[k]
  <2>1. /\ Ttl[k] + MaxDrift <= ClockSize \div 2
        /\ 2 * MaxDelay - Ttl[k] < ClockSize \div 2
    BY LinkAssumption
  <2> QED BY <1>1, <1>3, <2>1
<1> QED BY <1>1, <1>3, <1>4

\* A command is dated by the estimate it is sent with.
LEMMA DateOfSending ==
  ASSUME NEW c \in 0..(ClockSize - 1), NEW s \in Skews, NEW k \in Kinds
  PROVE  ((c - s + Ttl[k]) % ClockSize) - (c - s + Ttl[k]) \in Around
<1> DEFINE x == c - s + Ttl[k]
           h == ClockSize \div 2
<1>1. /\ ClockSize \in Nat \ {0} /\ MaxDelay \in Nat /\ MaxDrift \in Nat
      /\ h \in Nat /\ h + h <= ClockSize
      /\ Ttl[k] \in Nat /\ Ttl[k] + MaxDrift <= h /\ MaxDelay + MaxDelay < h + Ttl[k]
  BY Margins
<1>2. c \in Int /\ s \in Int /\ 0 <= c /\ c < ClockSize /\ -MaxDrift <= s /\ s <= MaxDelay
  BY <1>1 DEF Skews
<1> HIDE DEF h
<1>3. x \in Int /\ -ClockSize <= x /\ x < ClockSize + ClockSize
  BY <1>1, <1>2
<1>4. x % ClockSize \in {x, x - ClockSize, x + ClockSize}
  <2> HIDE DEF x
  <2> QED BY <1>1, <1>3, ModCases
<1> HIDE DEF x
<1>5. (x % ClockSize) - x \in Around
  BY <1>1, <1>3, <1>4 DEF Around
<1> QED BY <1>5 DEF x

\* The date stays right while the clock goes on, or around.
LEMMA DateKept ==
  ASSUME NEW e \in 0..(ClockSize - 1), NEW y \in Int, NEW z \in Int,
         e - y \in Around, z = y \/ z = y - ClockSize, -ClockSize < z
  PROVE  e - z \in Around
BY Margins DEF Around

\* What is not late has not reached its ttl, but for the error of the estimate.
LEMMA InTime ==
  ASSUME NEW c \in 0..(ClockSize - 1), NEW e \in 0..(ClockSize - 1), NEW a \in Nat,
         a <= MaxDelay, NEW s \in Skews, NEW k \in Kinds,
         e - (c - a - s + Ttl[k]) \in Around,
         ~(((c - e) % ClockSize) < ClockSize \div 2)
  PROVE  a + s < Ttl[k]
<1> DEFINE z == a + s - Ttl[k]
           h == ClockSize \div 2
<1>1. /\ ClockSize \in Nat \ {0} /\ MaxDelay \in Nat /\ MaxDrift \in Nat
      /\ h \in Nat /\ h + h <= ClockSize
      /\ Ttl[k] \in Nat /\ Ttl[k] + MaxDrift <= h /\ MaxDelay + MaxDelay < h + Ttl[k]
  BY Margins
<1>2. c \in Int /\ e \in Int /\ s \in Int /\ -MaxDrift <= s /\ s <= MaxDelay
  BY <1>1 DEF Skews
<1>3. ~(((c - e) % ClockSize) < h)
  OBVIOUS
<1> HIDE DEF h
<1>4. z \in Int /\ z < h
  BY <1>1, <1>2
<1>5. c - e \in {z, z - ClockSize, z + ClockSize}
  <2>1. PICK d \in Around : e - (c - a - s + Ttl[k]) = d
    OBVIOUS
  <2>2. d \in Int /\ c - e = z - d
    BY <1>1, <1>2, <2>1 DEF Around
  <2> HIDE DEF z
  <2>3. z - d \in {z, z - ClockSize, z + ClockSize}
    BY <1>1, <1>4 DEF Around
  <2> QED BY <2>2, <2>3
<1> SUFFICES ASSUME 0 <= z PROVE FALSE
  BY <1>1, <1>2
<1> HIDE DEF z
<1>6. c - e \in {z, z - ClockSize}
  BY <1>1, <1>2, <1>4, <1>5
<1>7. (c - e) % ClockSize = z
  <2>1. CASE c - e = z
    BY <1>1, <1>4, <2>1, ModCases
  <2>2. CASE c - e = z - ClockSize
    <3>1. /\ z - ClockSize \in Int /\ -ClockSize <= z - ClockSize /\ z - ClockSize < 0
      BY <1>1, <1>4
    <3>2. (z - ClockSize) % ClockSize = (z - ClockSize) + ClockSize
      BY <3>1, ModCases
    <3>3. (z - ClockSize) + ClockSize = z
      BY <1>1, <1>4
    <3> QED BY <2>2, <3>2, <3>3
  <2> QED BY <1>6, <2>1, <2>2
<1> QED BY <1>3, <1>4, <1>7

\* The clock goes on by one.
LEMMA OneMoreTick ==
  ASSUME NEW c \in 0..(ClockSize - 1), NEW b \in 0..(ClockSize - 1)
  PROVE  /\ (c + 1) % ClockSize \in {c + 1, c + 1 - ClockSize} \cap 0..(ClockSize - 1)
         /\ (c - b) % ClockSize \in 0..(ClockSize - 1)
         /\ ((c - b) % ClockSize) + 1 < ClockSize =>
              (((c + 1) % ClockSize) - b) % ClockSize = ((c - b) % ClockSize) + 1
         /\ ((c - b) % ClockSize) + 1 = ClockSize =>
              (((c + 1) % ClockSize) - b) % ClockSize = 0
<1>1. ClockSize \in Nat \ {0} /\ c \in Int /\ b \in Int
  BY Margins
<1> DEFINE d == (c + 1) % ClockSize
           t == (c - b) % ClockSize
           r == (d - b) % ClockSize
<1>2. /\ c + 1 < ClockSize => d = c + 1
      /\ c + 1 = ClockSize => d = 0
  BY <1>1, ModCases
<1>3. /\ b <= c => t = c - b
      /\ c < b => t = c - b + ClockSize
  <2>1. c - b \in Int
    BY <1>1
  <2> QED BY <1>1, <2>1, ModCases
<1>4. d \in Int /\ d \in {c + 1, c + 1 - ClockSize} /\ d \in 0..(ClockSize - 1)
  <2> HIDE DEF d
  <2> QED BY <1>1, <1>2
<1>5. /\ b <= d => r = d - b
      /\ d < b => r = d - b + ClockSize
  <2> HIDE DEF d
  <2>1. d - b \in Int
    BY <1>1, <1>4
  <2> QED BY <1>1, <1>4, <2>1, ModCases
<1> HIDE DEF d, t, r
<1>6. t \in 0..(ClockSize - 1)
  BY <1>1, <1>3
<1>7. t + 1 < ClockSize => r = t + 1
  BY <1>1, <1>2, <1>3, <1>4, <1>5
<1>8. t + 1 = ClockSize => r = 0
  BY <1>1, <1>2, <1>3, <1>4, <1>5
<1> QED BY <1>4, <1>6, <1>7, <1>8 DEF d, t, r

-----------------------------------------------------------------------------
\* One lemma for each action, or for actions that do the same to the invariant.

\* Nothing under way and nothing followed.
LEMMA AtRest ==
  ASSUME Quiet', phase' = "hello" => conn' \in Conns
  PROVE  (OnlyClients /\ Resting /\ Dated /\ Followed)'
BY DEF Quiet, OnlyClients, Resting, Dated, Followed

\* A step that sends nothing and forgets what it likes.
LEMMA TimeKept ==
  ASSUME LinkInv, TimeInv, Contained(up', up), UNCHANGED <<client, clock, age>>,
         cut \subseteq cut', \A c \in Conns : fin[c] \subseteq fin'[c],
         \/ UNCHANGED <<phase, conn, skew>> /\ Contained(down', down)
              /\ \A c \in Conns : down'[c] # <<>> => down[c] # <<>>
         \/ phase' = "down" /\ skew' = 0,
         UNCHANGED <<moving, movedAt>> \/ moving' = 0
  PROVE  TimeInv'
<1>1. OnlyClients /\ Greeting /\ Resting /\ Estimated /\ Dated /\ Followed
  BY DEF TimeInv
<1>2. phase # "down" => conn \in Conns
  BY DEF LinkInv, TypeOK, ClientType
<1>3. OnlyClients'
  BY <1>1 DEF OnlyClients, Contained
<1>4. Greeting'
  BY <1>1, <1>2 DEF Greeting, Greeted
<1>5. Quiet => Quiet'
  BY DEF Quiet, Contained
<1>6. Resting'
  <2> SUFFICES ASSUME phase' = "hello" PROVE Resting'
    BY DEF Resting
  <2>1. /\ phase = "hello" /\ conn' = conn /\ conn \in Conns
        /\ down'[conn] # <<>> => down[conn] # <<>>
    BY <1>2
  <2>2. \A i \in DOMAIN up'[conn] : up'[conn][i].type \notin Kinds
    BY <1>1, <2>1 DEF Resting, Contained
  <2>3. conn = client' => moving' = 0
    BY <1>1, <2>1 DEF Resting
  <2> QED BY <1>1, <1>5, <2>1, <2>2, <2>3 DEF Resting
<1>7. Estimated'
  <2>1. skew' \in Skews
    BY <1>1, Margins DEF Estimated, Skews
  <2> SUFFICES ASSUME phase' = "hello" PROVE Estimated'
    BY <2>1 DEF Estimated
  <2>2. phase = "hello" /\ conn' = conn /\ conn \in Conns /\ Contained(down', down)
    BY <1>2
  <2> QED BY <1>1, <2>1, <2>2 DEF Estimated, Contained
<1>8. \A s \in Skews : Current(s) => Current(s)'
  BY DEF Current
<1>9. Dated'
  BY <1>1, <1>8 DEF Dated, DatedBy, Contained
<1>10. Followed'
  BY <1>1, <1>8 DEF Followed, FollowedBy, Since
<1> QED BY <1>3, <1>4, <1>6, <1>7, <1>9, <1>10 DEF TimeInv

\* The robot gives its connection up.
LEMMA TimeReset ==
  ASSUME LinkInv, TimeInv, NEW c, ResetBody(c), UNCHANGED <<ends, sent, down, cut, cuts, clock>>
  PROVE  TimeInv'
<1>1. OnlyClients /\ Greeting /\ Estimated
  BY DEF TimeInv
<1>2. phase # "down" => conn \in Conns
  BY DEF LinkInv, TypeOK, ClientType
<1>3. UNCHANGED <<phase, conn, skew, down, cut, clock>> /\ moving' = 0
  BY DEF ends, ResetBody, StopMotors
<1>4. /\ \A d \in Conns : d # client => up'[d] = up[d]
      /\ client \in Conns => up'[client] = <<>>
  BY DEF ResetBody, Discard
<1>5. Quiet'
  <2>1. DOMAIN <<>> = {}
    BY EmptySeq
  <2> QED BY <1>1, <1>3, <1>4, <2>1 DEF Quiet, OnlyClients
<1>6. Greeting'
  <2>1. /\ \A d \in Conns : fin[d] \subseteq fin'[d]
        /\ client \in Conns \ cut => "robot" \in fin'[client]
    BY DEF ResetBody, Closed, LinkInv, TypeOK, NetType
  <2>2. phase = "ready" \/ phase = "hello" => conn \in Conns
    BY <1>2
  <2>3. Greeted' => Greeted
    BY <1>3 DEF Greeted
  <2>4. Greeted => conn \in Conns
    BY <2>2 DEF Greeted
  <2> QED BY <1>1, <1>3, <2>1, <2>3, <2>4 DEF Greeting
<1>7. Estimated'
  BY <1>1, <1>3 DEF Estimated
<1>8. (OnlyClients /\ Resting /\ Dated /\ Followed)'
  BY <1>2, <1>3, <1>5, AtRest
<1> QED BY <1>6, <1>7, <1>8 DEF TimeInv

LEMMA TimeConnect ==
  ASSUME LinkInv, TimeInv, NEW c \in Conns, Connect(c)
  PROVE  TimeInv'
<1>1. OnlyClients /\ Estimated /\ Dated /\ Followed
  BY DEF TimeInv
<1>2. /\ phase = "down" /\ phase' = "hello" /\ conn' = c /\ c # client
      /\ UNCHANGED <<skew, age, client, clock, moving, movedAt>>
      /\ up' = [up EXCEPT ![c] = <<[type |-> "hello"]>>] /\ down' = [down EXCEPT ![c] = <<>>]
      /\ up \in [Conns -> Seq(ToRobot)] /\ down \in [Conns -> Seq(ToClient)]
  BY DEF Connect, InUse, sent, motors, LinkInv, TypeOK, NetType
<1>3. /\ \A d \in Conns : d # c => up'[d] = up[d]
      /\ up'[c] = <<[type |-> "hello"]>> /\ down'[c] = <<>> /\ DOMAIN down'[c] = {}
  <2>1. DOMAIN <<>> = {}
    BY EmptySeq
  <2> QED BY <1>2, <2>1
<1>4. \A i \in DOMAIN up'[c] : up'[c][i].type \notin Kinds
  <2>1. "hello" \notin Kinds
    BY LinkAssumption
  <2> QED BY <1>3, <2>1
<1>5. OnlyClients'
  BY <1>1, <1>2, <1>3, <1>4 DEF OnlyClients
<1>6. Greeting' /\ Resting' /\ Estimated'
  BY <1>1, <1>2, <1>3, <1>4 DEF Greeting, Greeted, Resting, Estimated
<1>7. \A s \in Skews : Current(s)'
  BY <1>2 DEF Current
<1>8. Dated'
  BY <1>1, <1>2, <1>3, <1>4, <1>7 DEF Dated, DatedBy
<1>9. Followed'
  BY <1>1, <1>2, <1>7 DEF Followed, FollowedBy, Since
<1> QED BY <1>5, <1>6, <1>8, <1>9 DEF TimeInv

LEMMA TimeHelloAck == ASSUME LinkInv, TimeInv, HelloAck PROVE TimeInv'
<1>1. Greeting /\ Resting /\ Estimated
  BY DEF TimeInv
<1>2. /\ conn \in Conns /\ down \in [Conns -> Seq(ToClient)] /\ down[conn] # <<>>
      /\ clock \in 0..(ClockSize - 1)
  BY DEF HelloAck, LinkInv, TypeOK, ClientType, NetType, RobotType
<1>3. /\ phase = "hello" /\ phase' = "ready"
      /\ UNCHANGED <<conn, up, fin, cut, client, moving>>
      /\ skew' = (clock - Head(down[conn]).uptime) % ClockSize
      /\ Head(down[conn]).type = "hello_ack"
  BY DEF HelloAck, robot
<1>4. /\ Head(down[conn]) \in ToClient /\ 1 \in DOMAIN down[conn]
      /\ Head(down[conn]) = down[conn][1]
  BY <1>2, HeadOfQueue
<1>5. skew' \in 0..(ClockSize - 1) /\ skew' <= MaxDelay
  <2>1. Head(down[conn]).uptime \in 0..(ClockSize - 1)
    BY <1>3, <1>4 DEF ToClient
  <2>2. clock - Head(down[conn]).uptime \in Int
    BY <1>2, <2>1, Bounds
  <2>3. skew' <= MaxDelay
    BY <1>1, <1>3, <1>4 DEF Estimated
  <2> QED BY <1>3, <2>2, <2>3, ModRange
<1>6. Estimated'
  BY <1>3, <1>5, Margins DEF Estimated, Skews
<1>7. Greeting'
  BY <1>1, <1>2, <1>3 DEF Greeting, Greeted
<1>8. Quiet'
  BY <1>1, <1>2, <1>3 DEF Resting, Quiet
<1>9. (OnlyClients /\ Resting /\ Dated /\ Followed)'
  BY <1>3, <1>8, AtRest
<1> QED BY <1>6, <1>7, <1>9 DEF TimeInv

LEMMA TimeSend == ASSUME LinkInv, TimeInv, NEW k \in Kinds, Send(k) PROVE TimeInv'
<1> DEFINE m == [type |-> k, n |-> Len(kind'), seq |-> sequence',
                 expires |-> (clock - skew + Ttl[k]) % ClockSize]
<1>1. OnlyClients /\ Greeting /\ Resting /\ Estimated /\ Dated /\ Followed
  BY DEF TimeInv
<1>2. /\ UNCHANGED <<phase, conn, skew, down, fin, cut, client, clock, moving, movedAt>>
      /\ phase = "ready" /\ up' = Into(up, conn, "robot", m)
      /\ kind' = Append(kind, k) /\ age' = Append(age, 0)
  BY DEF Send, robot
<1>3. /\ conn \in Conns /\ up \in [Conns -> Seq(ToRobot)] /\ kind \in Seq(Kinds)
      /\ age \in Seq(0..MaxAge) /\ Len(age) = Len(kind) /\ clock \in 0..(ClockSize - 1)
      /\ skew \in Skews /\ moving \in {0} \cup DOMAIN kind
  BY <1>1, <1>2, LinkAssumption
     DEF LinkInv, TypeOK, ClientType, NetType, CommandsType, RobotType, Estimated
<1>4. /\ \A n \in DOMAIN kind : age'[n] = age[n]
      /\ Len(kind') = Len(kind) + 1 /\ age'[Len(kind')] = 0
  BY <1>2, <1>3, Bounds, AppendProperties, LenProperties
<1>5. \/ up' = up
      \/ /\ conn = client
         /\ \A d \in Conns : \A i \in DOMAIN up'[d] :
              \/ d = conn /\ up'[d][i] = m
              \/ i \in DOMAIN up[d] /\ up'[d][i] = up[d][i]
  <2>1. CASE conn \in cut \/ "robot" \in fin[conn]
    BY <1>2, <2>1 DEF Into
  <2>2. CASE ~(conn \in cut \/ "robot" \in fin[conn])
    <3>1. conn = client
      BY <1>1, <1>2, <2>2 DEF Greeting, Greeted
    <3> DEFINE S == ToRobot \cup {m}
    <3>2. up \in [Conns -> Seq(S)] /\ m \in S
      BY <1>3, SeqMonotonic
    <3>3. conn \in Conns /\ up' = Into(up, conn, "robot", m)
      BY <1>2, <1>3
    <3> HIDE DEF S, m
    <3>4. \A d \in Conns : \A i \in DOMAIN up'[d] :
            \/ d = conn /\ up'[d][i] = m
            \/ i \in DOMAIN up[d] /\ up'[d][i] = up[d][i]
      BY ONLY <3>2, <3>3, IntoQueue
    <3> QED BY <3>1, <3>4
  <2> QED BY <2>1, <2>2
<1>6. \A d \in Conns : \A i \in DOMAIN up'[d] :
        \/ conn = client /\ d = conn /\ up'[d][i] = m
        \/ i \in DOMAIN up[d] /\ up'[d][i] = up[d][i]
  <2> HIDE DEF m
  <2> QED BY <1>5
<1>7. OnlyClients'
  <2> HIDE DEF m
  <2> QED BY <1>1, <1>2, <1>6 DEF OnlyClients
<1>8. Greeting' /\ Resting' /\ Estimated'
  BY <1>1, <1>2 DEF Greeting, Greeted, Resting, Estimated
<1>9. \A s \in Skews : Current(s) => Current(s)'
  BY <1>2 DEF Current
<1>10. Current(skew)'
  BY <1>2 DEF Current
<1> DEFINE Fits(x, s) ==
             /\ phase' = "ready" => s = skew'
             /\ age'[x.n] <= MaxDelay
             /\ x.expires - (clock' - age'[x.n] - s + Ttl[x.type]) \in Around
<1>11. Fits(m, skew)
  <2> DEFINE x == clock - skew + Ttl[k]
  <2>1. (x % ClockSize) - x \in Around
    BY <1>3, DateOfSending
  <2>2. m.n = Len(kind') /\ m.type = k /\ m.expires = x % ClockSize
    OBVIOUS
  <2> HIDE DEF m
  <2>3. age'[m.n] = 0 /\ clock' = clock /\ skew' = skew
    BY <1>2, <1>4, <2>2
  <2>4. clock - 0 - skew + Ttl[k] = x /\ 0 <= MaxDelay
    BY <1>3, Margins DEF Skews
  <2> HIDE DEF x
  <2> QED BY <2>1, <2>2, <2>3, <2>4
<1>12. Dated'
  <2> SUFFICES ASSUME NEW d \in Conns, NEW i \in DOMAIN up'[d], up'[d][i].type \in Kinds
               PROVE  \E s \in Skews : Fits(up'[d][i], s)
    BY DEF Dated, DatedBy, Current
  <2>1. CASE up'[d][i] = m
    <3> HIDE DEF m, Fits
    <3> QED BY <1>3, <1>11, <2>1
  <2>2. CASE i \in DOMAIN up[d] /\ up'[d][i] = up[d][i]
    <3>1. PICK s \in Skews : Current(s) /\ DatedBy(up[d][i], s)
      BY <1>1, <2>2 DEF Dated
    <3>2. up[d][i].n \in DOMAIN kind
      BY <2>2 DEF LinkInv, Numbering, KnownCommands
    <3> QED BY <1>2, <1>4, <2>2, <3>1, <3>2 DEF DatedBy, Current
  <2> HIDE DEF m, Fits
  <2> QED BY <1>6, <2>1, <2>2
<1>13. Followed'
  BY <1>1, <1>2, <1>3, <1>4, <1>9 DEF Followed, FollowedBy, Since
<1> QED BY <1>7, <1>8, <1>12, <1>13 DEF TimeInv

LEMMA TimeHello == ASSUME LinkInv, TimeInv, Hello PROVE TimeInv'
<1> DEFINE m == [type |-> "hello_ack", uptime |-> clock]
<1>1. OnlyClients /\ Greeting /\ Resting /\ Estimated /\ Dated /\ Followed
  BY DEF TimeInv
<1>2. /\ UNCHANGED <<phase, conn, skew, age, fin, cut, client, clock, moving, movedAt>>
      /\ up' = [up EXCEPT ![client] = Tail(@)] /\ down' = Into(down, client, "client", m)
      /\ client # NoConn /\ up[client] # <<>>
  BY DEF Hello, Connected, ends, sent, motors
<1>3. /\ client \in Conns /\ up \in [Conns -> Seq(ToRobot)] /\ down \in [Conns -> Seq(ToClient)]
      /\ clock \in 0..(ClockSize - 1) /\ m \in ToClient
      /\ (phase = "hello" => conn \in Conns)
  BY <1>2 DEF LinkInv, TypeOK, RobotType, NetType, ToClient, ClientType
<1>4. Contained(up', up)
  BY <1>2, <1>3, TailQueue
<1>5. \A d \in Conns : \A i \in DOMAIN down'[d] :
        \/ d = client /\ down'[d][i] = m
        \/ i \in DOMAIN down[d] /\ down'[d][i] = down[d][i]
  <2> HIDE DEF m
  <2> QED BY <1>2, <1>3, IntoQueue
<1>6. \A d \in Conns : d # client => down'[d] = down[d]
  BY <1>2, <1>3 DEF Into
<1>7. OnlyClients'
  BY <1>1, <1>2, <1>4 DEF OnlyClients, Contained
<1>8. Greeting'
  <2>1. conn # client => (Greeted' <=> Greeted)
    BY <1>2, <1>3, <1>6 DEF Greeted
  <2> QED BY <1>1, <1>2, <2>1 DEF Greeting
<1>9. Resting'
  <2> SUFFICES ASSUME phase = "hello" PROVE Resting'
    BY <1>2 DEF Resting
  <2>1. \A i \in DOMAIN up'[conn] : up'[conn][i].type \notin Kinds
    BY <1>1, <1>3, <1>4 DEF Resting, Contained
  <2>2. conn = client => moving = 0 /\ Quiet
    BY <1>1 DEF Resting, Quiet, OnlyClients
  <2>3. conn # client /\ down'[conn] # <<>> => Quiet
    BY <1>1, <1>3, <1>6 DEF Resting
  <2>4. Quiet => Quiet'
    BY <1>2, <1>4 DEF Quiet, Contained
  <2> QED BY <1>2, <2>1, <2>2, <2>3, <2>4 DEF Resting
<1>10. Estimated'
  <2> SUFFICES ASSUME phase = "hello", NEW i \in DOMAIN down'[conn],
                      down'[conn][i].type = "hello_ack"
               PROVE  (clock - down'[conn][i].uptime) % ClockSize <= MaxDelay
    BY <1>1, <1>2 DEF Estimated
  <2>1. CASE down'[conn][i] = m
    <3>1. down'[conn][i].uptime = clock
      BY <2>1
    <3>2. clock - clock = 0 /\ 0 \in Int /\ 0 < ClockSize /\ MaxDelay \in Nat
      BY <1>3, Margins
    <3>3. 0 % ClockSize = 0
      BY <3>2, ModCases
    <3> QED BY <3>1, <3>2, <3>3
  <2>2. CASE i \in DOMAIN down[conn] /\ down'[conn][i] = down[conn][i]
    BY <1>1, <2>2 DEF Estimated
  <2> HIDE DEF m
  <2> QED BY <1>3, <1>5, <2>1, <2>2
<1>11. \A s \in Skews : Current(s) => Current(s)'
  BY <1>2 DEF Current
<1>12. Dated' /\ Followed'
  BY <1>1, <1>2, <1>4, <1>11 DEF Dated, DatedBy, Contained, Followed, FollowedBy, Since
<1> QED BY <1>7, <1>8, <1>9, <1>10, <1>12 DEF TimeInv

\* A drive that is accepted has not expired, by a clock that is no further off than the
\* estimate.
LEMMA TimeAccepted ==
  ASSUME LinkInv, TimeInv, NEW m, m = Head(up[client]), Connected, up[client] # <<>>,
         m.type \in Kinds, Verdict(m) = "accepted"
  PROVE  m.n \in DOMAIN kind /\ \E s \in Skews : Current(s) /\ age[m.n] + s < Ttl[m.type]
<1>1. /\ client \in Conns /\ up \in [Conns -> Seq(ToRobot)] /\ clock \in 0..(ClockSize - 1)
      /\ kind \in Seq(Kinds) /\ age \in Seq(0..MaxAge) /\ Len(age) = Len(kind)
  BY DEF Connected, LinkInv, TypeOK, RobotType, NetType, CommandsType
<1>2. m \in ToRobot /\ 1 \in DOMAIN up[client] /\ m = up[client][1]
  BY <1>1, HeadOfQueue
<1>3. m.n \in DOMAIN kind
  BY <1>1, <1>2 DEF LinkInv, Numbering, KnownCommands
<1>4. age[m.n] \in Nat
  <2>1. age[m.n] \in 0..MaxAge
    BY <1>1, <1>3, LenProperties
  <2> QED BY <2>1, Bounds
<1>5. m.expires \in 0..(ClockSize - 1)
  BY <1>2, LinkAssumption DEF ToRobot
<1>6. PICK s \in Skews : Current(s) /\ DatedBy(m, s)
  BY <1>1, <1>2 DEF TimeInv, Dated
<1>7. ~(((clock - m.expires) % ClockSize) < ClockSize \div 2)
  BY DEF Verdict, Late
<1>8. age[m.n] + s < Ttl[m.type]
  BY <1>1, <1>4, <1>5, <1>6, <1>7, InTime DEF DatedBy
<1> QED BY <1>3, <1>6, <1>8

LEMMA TimeCommand == ASSUME LinkInv, TimeInv, Command PROVE TimeInv'
<1> DEFINE m == Head(up[client])
           ack == [type |-> "ack", seq |-> m.seq, status |-> Verdict(m)]
<1>1. OnlyClients /\ Greeting /\ Resting /\ Estimated /\ Dated /\ Followed
  BY DEF TimeInv
<1>2. /\ UNCHANGED <<phase, conn, skew, age, fin, cut, client, clock>>
      /\ up' = [up EXCEPT ![client] = Tail(@)] /\ down' = Into(down, client, "client", ack)
      /\ Connected /\ client # NoConn /\ up[client] # <<>> /\ m.type \in Kinds
  BY DEF Command, Connected, ends
<1>3. /\ client \in Conns /\ up \in [Conns -> Seq(ToRobot)] /\ down \in [Conns -> Seq(ToClient)]
      /\ clock \in 0..(ClockSize - 1) /\ (phase = "hello" => conn \in Conns)
  BY <1>2 DEF LinkInv, TypeOK, RobotType, NetType, ClientType
<1>4. 1 \in DOMAIN up[client] /\ m = up[client][1]
  BY <1>2, <1>3, HeadOfQueue
<1>5. Contained(up', up)
  BY <1>2, <1>3, TailQueue
<1>6. phase = "hello" => conn # client /\ down[conn] = <<>> /\ down'[conn] = <<>>
  <2>1. phase = "hello" => conn # client /\ down[conn] = <<>>
    <3> HIDE DEF m
    <3> QED BY <1>1, <1>2, <1>3, <1>4 DEF Resting, Quiet
  <2> HIDE DEF ack, m
  <2> QED BY <1>2, <1>3, <2>1 DEF Into
<1> HIDE DEF ack
<1>7. OnlyClients'
  BY <1>1, <1>2, <1>5 DEF OnlyClients, Contained
<1>8. Greeting'
  BY <1>1, <1>2, <1>6 DEF Greeting, Greeted
<1>9. Resting'
  BY <1>1, <1>2, <1>3, <1>5, <1>6 DEF Resting, Contained
<1>10. Estimated'
  <2>1. DOMAIN <<>> = {}
    BY EmptySeq
  <2> QED BY <1>1, <1>2, <1>6, <2>1 DEF Estimated
<1>11. \A s \in Skews : Current(s) => Current(s)'
  BY <1>2 DEF Current
<1>12. Dated'
  BY <1>1, <1>2, <1>5, <1>11 DEF Dated, DatedBy, Contained
<1>13. Followed'
  <2>1. CASE UNCHANGED motors
    BY <1>1, <1>2, <1>11, <2>1 DEF Followed, FollowedBy, Since, motors
  <2>2. CASE moving' = 0
    BY <2>2 DEF Followed
  <2>3. CASE /\ Verdict(m) = "accepted" /\ m.type # "stop"
             /\ moving' = m.n /\ movedAt' = clock
    <3>1. PICK s \in Skews : Current(s) /\ age[m.n] + s < Ttl[m.type]
      BY <1>2, <2>3, TimeAccepted
    <3>2. m.type = "drive" /\ "drive" \in Kinds
      BY <1>2, <2>3, LinkAssumption
    <3> HIDE DEF m
    <3>3. Since' = 0
      <4>1. clock - clock = 0 /\ 0 \in Int /\ 0 < ClockSize
        BY <1>3, Margins
      <4>2. 0 % ClockSize = 0
        BY <4>1, ModCases
      <4> QED BY <1>2, <2>3, <4>1, <4>2 DEF Since
    <3>4. Ttl["drive"] + 0 = Ttl["drive"] /\ 0 <= MotionTimeout + 1
      BY <3>2, Margins
    <3>5. FollowedBy(s)'
      BY <1>2, <2>3, <3>1, <3>2, <3>3, <3>4 DEF FollowedBy
    <3> QED BY <1>11, <3>1, <3>2, <3>3, <3>4, <3>5 DEF Followed
  <2> QED BY <2>1, <2>2, <2>3 DEF Command, Obey, StopMotors
<1> QED BY <1>7, <1>8, <1>9, <1>10, <1>12, <1>13 DEF TimeInv

LEMMA TimeReboot == ASSUME LinkInv, TimeInv, Reboot PROVE TimeInv'
<1>1. /\ UNCHANGED <<phase, conn, skew>> /\ moving' = 0 /\ cut' = Conns
      /\ \A c \in Conns : DOMAIN up'[c] = {} /\ DOMAIN down'[c] = {}
  BY EmptySeq DEF Reboot, ends
<1>2. phase # "down" => conn \in Conns
  BY DEF LinkInv, TypeOK, ClientType
<1>3. Quiet'
  BY <1>1 DEF Quiet
<1>4. Greeting' /\ Estimated'
  BY <1>1, <1>2 DEF Greeting, Greeted, Estimated, TimeInv
<1>5. (OnlyClients /\ Resting /\ Dated /\ Followed)'
  BY <1>1, <1>2, <1>3, AtRest
<1> QED BY <1>4, <1>5 DEF TimeInv

\* Ages by one.
LEMMA Older ==
  ASSUME LinkInv, GrowOlder, NEW n \in DOMAIN kind
  PROVE  /\ age[n] \in 0..MaxAge /\ age'[n] \in {age[n], age[n] + 1}
         /\ age[n] <= MaxDelay => age'[n] = age[n] + 1
<1>1. /\ age \in Seq(0..MaxAge) /\ n \in DOMAIN age
      /\ age' = [i \in DOMAIN age |-> IF age[i] < MaxAge THEN age[i] + 1 ELSE age[i]]
  BY LenProperties DEF LinkInv, TypeOK, CommandsType, GrowOlder
<1>2. age[n] \in 0..MaxAge
  BY <1>1, LenProperties
<1>3. age[n] < MaxAge => age'[n] = age[n] + 1
  BY <1>1
<1>4. ~(age[n] < MaxAge) => age'[n] = age[n]
  BY <1>1
<1>5. MaxDelay < MaxAge /\ MaxDelay \in Nat /\ MaxAge \in Nat
  BY LinkAssumption DEF MaxAge
<1> QED BY <1>2, <1>3, <1>4, <1>5

\* Time keeps what is on its way and what is followed in the bounds: over the client's
\* connection nothing is older than MaxDelay, and the robot stops in time.
LEMMA TimeTick == ASSUME LinkInv, TimeInv, Tick PROVE TimeInv'
<1>1. OnlyClients /\ Greeting /\ Resting /\ Estimated /\ Dated /\ Followed
  BY DEF TimeInv
<1>2. /\ UNCHANGED <<phase, conn, skew, up, down, fin, cut, client, moving, movedAt>>
      /\ MayTick /\ GrowOlder /\ clock' = (clock + 1) % ClockSize
  BY DEF Tick, ends, net, motors
<1>3. /\ clock \in 0..(ClockSize - 1) /\ movedAt \in 0..(ClockSize - 1)
      /\ moving \in {0} \cup DOMAIN kind /\ (phase = "hello" => conn \in Conns)
      /\ up \in [Conns -> Seq(ToRobot)] /\ down \in [Conns -> Seq(ToClient)]
      /\ client \in Conns \cup {NoConn}
  BY LinkAssumption DEF LinkInv, TypeOK, RobotType, ClientType, NetType
<1>4. OnlyClients' /\ Greeting' /\ Resting'
  BY <1>1, <1>2 DEF OnlyClients, Greeting, Greeted, Resting, Quiet
<1>5. Estimated'
  <2> SUFFICES ASSUME phase = "hello", NEW i \in DOMAIN down[conn],
                      down[conn][i].type = "hello_ack"
               PROVE  (clock' - down[conn][i].uptime) % ClockSize <= MaxDelay
    BY <1>1, <1>2 DEF Estimated
  <2> DEFINE b == down[conn][i].uptime
  <2>1. down[conn][i] \in ToClient
    BY <1>3, ElementOfSeq, LenProperties
  <2>2. b \in 0..(ClockSize - 1)
    BY <2>1 DEF ToClient
  <2>3. (clock - b) % ClockSize < MaxDelay
    BY <1>2 DEF MayTick
  <2> HIDE DEF b
  <2>4. /\ (clock - b) % ClockSize \in 0..(ClockSize - 1)
        /\ ((clock - b) % ClockSize) + 1 < ClockSize =>
             (clock' - b) % ClockSize = ((clock - b) % ClockSize) + 1
        /\ ((clock - b) % ClockSize) + 1 = ClockSize => (clock' - b) % ClockSize = 0
    BY <1>2, <1>3, <2>2, OneMoreTick
  <2> DEFINE t == (clock - b) % ClockSize
             r == (clock' - b) % ClockSize
  <2>5. /\ t \in 0..(ClockSize - 1) /\ t < MaxDelay /\ (t + 1 < ClockSize => r = t + 1)
        /\ (t + 1 = ClockSize => r = 0)
    BY <2>3, <2>4
  <2> HIDE DEF t, r
  <2>6. r <= MaxDelay
    BY <2>5, Margins
  <2> QED BY <2>6 DEF r, b
<1>6. \A s \in Skews : Current(s) => Current(s)'
  BY <1>2 DEF Current
<1>7. Dated'
  <2> SUFFICES ASSUME NEW d \in Conns, NEW i \in DOMAIN up[d], up[d][i].type \in Kinds
               PROVE  \E s \in Skews : /\ Current(s)' /\ age'[up[d][i].n] <= MaxDelay
                                       /\ up[d][i].expires
                                            - (clock' - age'[up[d][i].n] - s + Ttl[up[d][i].type])
                                          \in Around
    BY <1>2 DEF Dated, DatedBy, Current
  <2> DEFINE n == up[d][i].n
             e == up[d][i].expires
             k == up[d][i].type
  <2>1. PICK s \in Skews : /\ Current(s) /\ age[n] <= MaxDelay
                           /\ e - (clock - age[n] - s + Ttl[k]) \in Around
    BY <1>1 DEF Dated, DatedBy
  <2>2. d = client /\ client # NoConn
    BY <1>1, LinkAssumption DEF OnlyClients
  <2>3. age[n] < MaxDelay
    BY <1>2, <2>2 DEF MayTick
  <2>4. n \in DOMAIN kind /\ k \in Kinds
    BY DEF LinkInv, Numbering, KnownCommands
  <2>5. up[d][i] \in ToRobot
    BY <1>3, ElementOfSeq, LenProperties
  <2>6. e \in 0..(ClockSize - 1)
    BY <2>5, LinkAssumption DEF ToRobot
  <2> HIDE DEF n, e, k
  <2>7. age[n] \in Nat /\ age'[n] = age[n] + 1
    BY <1>2, <2>1, <2>4, Older, Bounds
  <2>8. clock' \in {clock + 1, clock + 1 - ClockSize} /\ clock' \in 0..(ClockSize - 1)
    BY <1>2, <1>3, OneMoreTick
  <2> DEFINE y == clock - age[n] - s + Ttl[k]
             z == clock' - age'[n] - s + Ttl[k]
  <2>9. y \in Int /\ z \in Int /\ (z = y \/ z = y - ClockSize) /\ -ClockSize < z
    <3>1. /\ ClockSize \in Nat \ {0} /\ MaxDelay \in Nat /\ MaxDrift \in Nat
          /\ ClockSize \div 2 \in Nat /\ (ClockSize \div 2) + (ClockSize \div 2) <= ClockSize
          /\ Ttl[k] \in Nat /\ MaxDelay + MaxDelay < (ClockSize \div 2) + Ttl[k]
      BY <2>4, Margins
    <3>2. s \in Int /\ s <= MaxDelay /\ clock \in Int
      BY <1>3, <3>1 DEF Skews
    <3>3. z \in Int /\ -ClockSize < z
      BY <2>3, <2>7, <2>8, <3>1, <3>2
    <3>4. age[n] \in Int /\ Ttl[k] \in Int /\ ClockSize \in Int /\ clock \in Int /\ s \in Int
      BY <2>7, <3>1, <3>2
    <3>5. y \in Int /\ (z = y \/ z = y - ClockSize)
      BY ONLY <2>7, <2>8, <3>4
    <3> QED BY <3>3, <3>5
  <2>10. e - z \in Around
    <3> HIDE DEF z
    <3>1. e - y \in Around
      BY <2>1
    <3> HIDE DEF y
    <3> QED BY <2>6, <2>9, <3>1, DateKept
  <2>11. age'[n] <= MaxDelay
    BY <2>3, <2>7, Margins
  <2> QED BY <1>6, <2>1, <2>10, <2>11 DEF n, e, k
<1>8. Followed'
  <2> SUFFICES ASSUME moving # 0 PROVE Followed'
    BY <1>2 DEF Followed
  <2>1. PICK s \in Skews : Current(s) /\ age[moving] + s < Ttl["drive"] + Since
    BY <1>1 DEF Followed, FollowedBy
  <2>2. Since <= MotionTimeout /\ Since \in 0..(ClockSize - 1)
    <3>1. Since \in 0..(ClockSize - 1)
      BY <1>3, OneMoreTick DEF Since
    <3>2. ~(Since > MotionTimeout)
      BY <1>2 DEF MayTick, SafetyDue, Since
    <3> HIDE DEF Since
    <3> QED BY <3>1, <3>2, Margins
  <2>3. Since + 1 < ClockSize
    <3> HIDE DEF Since
    <3> QED BY <2>2, Margins
  <2>4. Since' = Since + 1
    BY <1>2, <1>3, <2>3, OneMoreTick DEF Since
  <2>5. moving \in DOMAIN kind /\ "drive" \in Kinds
    BY <1>1, <1>3 DEF Followed
  <2>6. age[moving] \in Nat /\ age'[moving] \in {age[moving], age[moving] + 1}
    BY <1>2, <2>5, Older, Bounds
  <2>7. age'[moving] + s < Ttl["drive"] + (Since + 1) /\ Since + 1 <= MotionTimeout + 1
    <3> HIDE DEF Since
    <3>1. Ttl["drive"] \in Nat /\ s \in Int /\ Since \in Int
      BY <2>2, <2>5, Margins DEF Skews
    <3> QED BY <2>1, <2>2, <2>6, <3>1, Margins
  <2>8. FollowedBy(s)' /\ Since' <= MotionTimeout + 1
    BY <1>2, <2>4, <2>7 DEF FollowedBy
  <2> QED BY <1>6, <2>1, <2>5, <2>8 DEF Followed
<1> QED BY <1>4, <1>5, <1>7, <1>8 DEF TimeInv

\* Drift ages the commands as it widens the error of the estimate.
LEMMA TimeDrift == ASSUME LinkInv, TimeInv, Drift PROVE TimeInv'
<1>1. OnlyClients /\ Greeting /\ Resting /\ Estimated /\ Dated /\ Followed
  BY DEF TimeInv
<1>2. /\ UNCHANGED <<phase, conn, clock, up, down, fin, cut, client, moving, movedAt>>
      /\ MayTick /\ GrowOlder /\ phase = "ready" /\ skew > -MaxDrift /\ skew' = skew - 1
  BY DEF Drift, net, robot
<1>3. /\ clock \in 0..(ClockSize - 1) /\ movedAt \in 0..(ClockSize - 1)
      /\ moving \in {0} \cup DOMAIN kind /\ up \in [Conns -> Seq(ToRobot)]
      /\ client \in Conns \cup {NoConn}
  BY LinkAssumption DEF LinkInv, TypeOK, RobotType, NetType
<1>4. OnlyClients' /\ Greeting' /\ Resting'
  BY <1>1, <1>2 DEF OnlyClients, Greeting, Greeted, Resting
<1>5. skew \in Int /\ skew' \in Skews
  BY <1>1, <1>2, Margins DEF Estimated, Skews
<1>6. Estimated'
  BY <1>2, <1>5 DEF Estimated
<1>7. \A s \in Skews : Current(s) => s = skew
  BY <1>2 DEF Current
<1>8. Dated'
  <2> SUFFICES ASSUME NEW d \in Conns, NEW i \in DOMAIN up[d], up[d][i].type \in Kinds
               PROVE  /\ age'[up[d][i].n] <= MaxDelay
                      /\ up[d][i].expires
                           - (clock - age'[up[d][i].n] - skew' + Ttl[up[d][i].type]) \in Around
    BY <1>2, <1>5 DEF Dated, DatedBy, Current
  <2> DEFINE n == up[d][i].n
             e == up[d][i].expires
             k == up[d][i].type
  <2>1. age[n] <= MaxDelay /\ e - (clock - age[n] - skew + Ttl[k]) \in Around
    BY <1>1, <1>7 DEF Dated, DatedBy
  <2>2. d = client /\ client # NoConn
    BY <1>1, LinkAssumption DEF OnlyClients
  <2>3. age[n] < MaxDelay
    BY <1>2, <2>2 DEF MayTick
  <2>4. n \in DOMAIN kind /\ k \in Kinds
    BY DEF LinkInv, Numbering, KnownCommands
  <2> HIDE DEF n, e, k
  <2>5. age[n] \in Nat /\ age'[n] = age[n] + 1
    BY <1>2, <2>1, <2>4, Older, Bounds
  <2>6. clock - age'[n] - skew' + Ttl[k] = clock - age[n] - skew + Ttl[k]
    <3>1. clock \in Int /\ Ttl[k] \in Int
      BY <1>3, <2>4, Margins
    <3>2. skew' = skew - 1
      BY <1>2
    <3> QED BY ONLY <1>5, <2>5, <3>1, <3>2
  <2>7. age'[n] <= MaxDelay
    BY <2>3, <2>5, Margins
  <2> QED BY <2>1, <2>6, <2>7 DEF n, e, k
<1>9. Followed'
  <2> SUFFICES ASSUME moving # 0 PROVE Followed'
    BY <1>2 DEF Followed
  <2>1. age[moving] + skew < Ttl["drive"] + Since
    BY <1>1, <1>7 DEF Followed, FollowedBy
  <2>2. moving \in DOMAIN kind /\ "drive" \in Kinds /\ Since' = Since
    BY <1>1, <1>2, <1>3 DEF Followed, Since
  <2>3. age[moving] \in Nat /\ age'[moving] \in {age[moving], age[moving] + 1}
    BY <1>2, <2>2, Older, Bounds
  <2>4. Since \in Int /\ Ttl["drive"] \in Int
    <3>1. Since \in 0..(ClockSize - 1)
      BY <1>3, OneMoreTick DEF Since
    <3> HIDE DEF Since
    <3> QED BY <2>2, <3>1, Margins
  <2>5. age'[moving] + skew' < Ttl["drive"] + Since
    <3> HIDE DEF Since
    <3> QED BY <1>2, <1>5, <2>1, <2>3, <2>4
  <2> QED BY <1>1, <1>2, <1>5, <2>2, <2>5 DEF Followed, FollowedBy, Current
<1> QED BY <1>4, <1>6, <1>8, <1>9 DEF TimeInv

LEMMA TimeStep == LinkInv /\ TimeInv /\ [Next]_vars => TimeInv'
<1> SUFFICES ASSUME LinkInv, TimeInv, [Next]_vars PROVE TimeInv'
  OBVIOUS
<1>0. /\ up \in [Conns -> Seq(ToRobot)] /\ down \in [Conns -> Seq(ToClient)]
      /\ fin \in [Conns -> SUBSET {"client", "robot"}]
      /\ (phase # "down" => conn \in Conns)
  BY DEF LinkInv, TypeOK, NetType, ClientType
<1>1. ASSUME NEW c \in Conns, Connect(c) PROVE TimeInv'
  BY <1>1, TimeConnect
<1>2. ASSUME NEW c \in Conns, Cut(c) PROVE TimeInv'
  <2>1. /\ UNCHANGED <<client, clock, age, fin, phase, conn, skew, moving, movedAt>>
        /\ cut \subseteq cut' /\ up' = Discard(up, c) /\ down' = Discard(down, c)
    BY <1>2 DEF Cut, sent, robot, ends
  <2>2. \A d \in Conns : down'[d] # <<>> => down[d] # <<>>
    BY <2>1 DEF Discard
  <2>3. Contained(up', up) /\ Contained(down', down)
    BY <1>0, <2>1, DiscardQueue
  <2> QED BY <2>1, <2>2, <2>3, TimeKept
<1>3. CASE HelloAck
  BY <1>3, TimeHelloAck
<1>4. CASE RecvAck
  <2>1. /\ UNCHANGED <<client, clock, age, fin, cut, up, phase, conn, skew, moving, movedAt>>
        /\ conn \in Conns /\ down[conn] # <<>> /\ down' = [down EXCEPT ![conn] = Tail(@)]
    BY <1>0, <1>4 DEF RecvAck, robot
  <2>2. \A d \in Conns : down'[d] # <<>> => down[d] # <<>>
    BY <1>0, <2>1
  <2>3. Contained(up', up) /\ Contained(down', down)
    BY <1>0, <2>1, TailQueue, Unmoved
  <2> QED BY <2>1, <2>2, <2>3, TimeKept
<1>5. CASE Drop
  <2>1. /\ UNCHANGED <<client, clock, age, cut, up, moving, movedAt>>
        /\ phase' = "down" /\ skew' = 0
        /\ \A c \in Conns : fin[c] \subseteq fin'[c]
    BY <1>0, <1>5 DEF Drop, robot, Closed
  <2> QED BY <2>1, TimeKept, Unmoved
<1>6. ASSUME NEW k \in Kinds, Send(k) PROVE TimeInv'
  BY <1>6, TimeSend
<1>7. CASE (\E p \in pending : AckTimeout(p)) \/ EnforceSafetyTimeouts \/ UNCHANGED vars
  <2>1. /\ UNCHANGED <<client, clock, age, fin, cut, up, down, phase, conn, skew>>
        /\ UNCHANGED <<moving, movedAt>> \/ moving' = 0
    BY <1>7 DEF AckTimeout, EnforceSafetyTimeouts, StopMotors, vars, ends, sent, net, robot
  <2> QED BY <2>1, TimeKept, Unmoved
<1>8. CASE Accept \/ ClientGone \/ HeartbeatTimeout
  BY <1>8, TimeReset DEF Accept, ClientGone, HeartbeatTimeout
<1>9. CASE Hello
  BY <1>9, TimeHello
<1>10. CASE Command
  BY <1>10, TimeCommand
<1>11. CASE Reboot
  BY <1>11, TimeReboot
<1>12. CASE Tick
  BY <1>12, TimeTick
<1>13. CASE Drift
  BY <1>13, TimeDrift
<1> QED
  BY <1>1, <1>2, <1>3, <1>4, <1>5, <1>6, <1>7, <1>8, <1>9, <1>10, <1>11, <1>12, <1>13 DEF Next

\* Only a command read by the robot sets it in motion.
LEMMA ObeyedInTime ==
  LinkInv /\ TimeInv /\ [Next]_vars =>
    [moving' # moving /\ moving' # 0 => age[moving'] < Ttl["drive"] + MaxDrift]_vars
<1> SUFFICES ASSUME LinkInv, TimeInv, [Next]_vars, moving' # moving, moving' # 0
             PROVE  age[moving'] < Ttl["drive"] + MaxDrift
  OBVIOUS
<1>1. Command
  BY DEF Next, vars, robot, motors, Connect, Cut, HelloAck, Drop, RecvAck, Send, AckTimeout,
         Accept, ClientGone, HeartbeatTimeout, ResetBody, StopMotors, Hello,
         EnforceSafetyTimeouts, Reboot, Tick, Drift
<1> DEFINE m == Head(up[client])
<1>2. /\ Connected /\ up[client] # <<>> /\ m.type \in Kinds /\ Verdict(m) = "accepted"
      /\ m.type # "stop" /\ moving' = m.n
  BY <1>1 DEF Command, Obey, StopMotors, motors
<1>3. m.n \in DOMAIN kind /\ \E s \in Skews : Current(s) /\ age[m.n] + s < Ttl[m.type]
  BY <1>2, TimeAccepted
<1>4. m.type = "drive" /\ "drive" \in Kinds
  BY <1>2, LinkAssumption
<1> HIDE DEF m
<1>5. age[m.n] \in Nat
  <2>1. age \in Seq(0..MaxAge) /\ m.n \in DOMAIN age
    BY <1>3, LenProperties DEF LinkInv, TypeOK, CommandsType
  <2>2. age[m.n] \in 0..MaxAge
    BY <2>1, LenProperties
  <2> QED BY <2>2, Bounds
<1>6. PICK s \in Skews : age[m.n] + s < Ttl["drive"]
  BY <1>3, <1>4
<1>7. s \in Int /\ -MaxDrift <= s /\ MaxDrift \in Nat /\ Ttl["drive"] \in Nat
  BY <1>4, Margins DEF Skews
<1> QED BY <1>2, <1>5, <1>6, <1>7

\* The time limits of control_channel.cpp and motors.cpp (validateCommandEnvelope,
\* enforceSafetyTimeouts) hold by the robot's clock, although the PC only estimates it
\* from one hello_ack: whatever wraps around, travels late or drifts, no drive is obeyed
\* when its ttl is over, and none is followed for longer than the movement timeout.
THEOREM CommandsAreOnTime == Spec => OnTime
<1>1. Init => TimeInv
  <2> SUFFICES ASSUME Init PROVE TimeInv
    OBVIOUS
  <2>1. DOMAIN <<>> = {}
    BY EmptySeq
  <2>2. 0 \in Skews
    BY Margins DEF Skews
  <2> QED
    BY <2>1, <2>2 DEF Init, TimeInv, OnlyClients, Greeting, Greeted, Resting, Estimated, Dated, Followed
<1>2. LinkInv /\ TimeInv => MotionIsFresh
  <2> SUFFICES ASSUME LinkInv, TimeInv, moving # 0
               PROVE  age[moving] <= Ttl["drive"] + MaxDrift + MotionTimeout
    BY DEF MotionIsFresh
  <2>1. /\ "drive" \in Kinds /\ Since <= MotionTimeout + 1
        /\ \E s \in Skews : age[moving] + s < Ttl["drive"] + Since
    BY DEF TimeInv, Followed, FollowedBy
  <2>2. PICK s \in Skews : age[moving] + s < Ttl["drive"] + Since
    BY <2>1
  <2>3. age[moving] \in Int
    <3>1. age \in Seq(0..MaxAge) /\ moving \in DOMAIN age
      BY LenProperties DEF LinkInv, TypeOK, CommandsType, RobotType
    <3>2. age[moving] \in 0..MaxAge
      BY <3>1, LenProperties
    <3> QED BY <3>2, Bounds
  <2>4. Since \in Int
    <3>1. Since \in 0..(ClockSize - 1)
      BY OneMoreTick DEF Since, LinkInv, TypeOK, RobotType
    <3> HIDE DEF Since
    <3> QED BY <3>1, Margins
  <2>5. s \in Int /\ -MaxDrift <= s /\ MaxDrift \in Nat /\ Ttl["drive"] \in Nat /\ MotionTimeout \in Nat
    BY <2>1, Margins DEF Skews
  <2> HIDE DEF Since
  <2> QED BY <2>1, <2>2, <2>3, <2>4, <2>5
<1> QED
  BY <1>1, <1>2, LinkInvariant, TimeStep, ObeyedInTime, PTL DEF Spec, OnTime, NeverLate
============================================================================
