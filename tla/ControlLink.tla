---------------------------- MODULE ControlLink ----------------------------
(***************************************************************************)
(* The control connection between the PC (ControlChannelClient of          *)
(* brain/app/control_channel.py) and the robot (control_channel.cpp,       *)
(* motors.cpp and robot_state.cpp of firmware/robit_controller).           *)
(*                                                                         *)
(* Time advances in ticks.  The client knows the robot's clock only        *)
(* through the uptime in the hello_ack it read; `skew` is how far its      *)
(* estimate is behind the clock itself.  clock, skew, expires and the two  *)
(* movement times stay within the width of millis().                       *)
(*                                                                         *)
(* Abstracted: pings and telemetry (the timeouts they keep from firing may *)
(* fire at any time, which covers every loss and delay of them), head and  *)
(* eye commands (ActuatorBroker), the reconnect back-off, the session id   *)
(* (one client process: every hello carries the same) and the checks on    *)
(* the form of a message.                                                  *)
(***************************************************************************)
EXTENDS Integers, Sequences, FiniteSets, SequencesExt

CONSTANTS
  Conns,          \* identifiers of TCP connections, used again and again
  NoConn,
  Kinds,          \* the movement commands the client sends: "drive", "stop"
  Ttl,            \* Ttl[k]: the ttl_ms of a command of kind k
  Duration,       \* duration_ms of a drive
  MotionTimeout,  \* COMMAND_TIMEOUT_MS
  ClockSize,      \* millis() counts modulo this
  MaxDelay,       \* bound on the age at which a message is still read: the client
                  \* waits 1.5 s for hello_ack, the robot 3 s for any message
  MaxDrift,       \* how far the robot's clock may fall behind the estimate of it
  MaxSends,       \* bound on the number of commands sent
  MaxCuts,        \* bound on the number of connections lost without a sign
  HelloMayBeLost  \* whether a connection can be lost before its hello arrives

ASSUME LinkAssumption ==
  /\ NoConn \notin Conns
  /\ Kinds \subseteq {"drive", "stop"}
  /\ Ttl \in [Kinds -> Nat \ {0}]
  /\ Duration \in Nat /\ MotionTimeout \in Nat \ {0}
  /\ ClockSize \in Nat \ {0} /\ MaxDelay \in Nat /\ MaxDrift \in Nat
  /\ MaxSends \in Nat /\ MaxCuts \in Nat
  /\ HelloMayBeLost \in BOOLEAN
  /\ \A k \in Kinds :
       /\ Ttl[k] + MaxDrift <= ClockSize \div 2
       /\ 2 * MaxDelay - Ttl[k] < ClockSize \div 2
  /\ MotionTimeout + 1 < ClockSize /\ Duration < ClockSize

VARIABLES
  \* the client
  phase,     \* "down", "hello": waiting for hello_ack, "ready": _ready is set
  conn,      \* its connection (_writer), or NoConn
  sequence,  \* _sequence
  skew,      \* robot clock minus the clock estimated with _server_clock_offset_ms
  pending,   \* _pending: the commands waiting for an ack, with their numbers
  \* the commands, numbered in the order of sending
  kind,      \* kind[n]: what command n is
  age,       \* age[n]: ticks since it was written, counted up to MaxAge
  outcome,   \* outcome[n]: what its send() has returned
  obeyed,    \* the commands the robot has carried out (history only)
  \* the network
  up, down,  \* what is on its way to the robot and to the client
  fin,       \* fin[c]: the sides that have closed c
  cut,       \* connections that transport nothing any more, without a sign
  cuts,
  \* the robot
  clock,     \* millis()
  backlog,   \* connections controlServer.available() has not returned yet
  client,    \* controlClient, or NoConn
  shaken,    \* handshakeComplete
  lastSeq,   \* lastAcceptedSequence
  moving,    \* number of the drive the motors follow; 0: movement = "stop"
  movedAt,   \* lastMovementCommandAt
  stopAt     \* movementStopAt

ends   == <<phase, conn, sequence, skew, pending>>
sent   == <<kind, age, outcome, obeyed>>
net    == <<up, down, fin, cut, cuts>>
motors == <<moving, movedAt, stopAt>>
robot  == <<clock, backlog, client, shaken, lastSeq, moving, movedAt, stopAt>>
vars   == <<ends, sent, net, robot>>

Commands == 1..MaxSends
MaxAge == MaxDelay + MaxDrift + MotionTimeout + 1
InUse == {conn, client} \cup ToSet(backlog)

Init ==
  /\ phase = "down" /\ conn = NoConn /\ sequence = 0 /\ skew = 0 /\ pending = {}
  /\ kind = <<>> /\ age = <<>> /\ outcome = <<>> /\ obeyed = {}
  /\ up = [c \in Conns |-> <<>>] /\ down = [c \in Conns |-> <<>>]
  /\ fin = [c \in Conns |-> {}] /\ cut = {} /\ cuts = 0
  /\ clock = 0 /\ backlog = <<>> /\ client = NoConn /\ shaken = FALSE /\ lastSeq = 0
  /\ moving = 0 /\ movedAt = 0 /\ stopAt = 0

-----------------------------------------------------------------------------
\* What m adds to connection c: nothing, once it is cut or its reader has closed it.
Into(queue, c, reader, m) ==
  IF c \in cut \/ reader \in fin[c] THEN queue ELSE [queue EXCEPT ![c] = Append(@, m)]

\* One side closes c; what it has not read is lost.
Closed(c, side) == IF c \in Conns \ cut THEN [fin EXCEPT ![c] = @ \cup {side}] ELSE fin
Discard(queue, c) == [d \in Conns |-> IF d = c THEN <<>> ELSE queue[d]]

\* The client: _run connects and says hello.
Connect(c) ==
  /\ phase = "down"
  /\ c \notin InUse
  /\ phase' = "hello"
  /\ conn' = c
  /\ sequence' = 0
  /\ up' = [up EXCEPT ![c] = <<[type |-> "hello"]>>]
  /\ down' = [down EXCEPT ![c] = <<>>]
  /\ fin' = [fin EXCEPT ![c] = {}]
  /\ cut' = cut \ {c}
  /\ backlog' = Append(backlog, c)
  /\ UNCHANGED <<skew, pending, sent, cuts, clock, client, shaken, lastSeq, motors>>

\* _run reads hello_ack and sets the clock offset from the uptime in it: the
\* estimate is behind by the time the message travelled.
HelloAck ==
  /\ phase = "hello"
  /\ down[conn] # <<>>
  /\ Head(down[conn]).type = "hello_ack"
  /\ skew' = (clock - Head(down[conn]).uptime) % ClockSize
  /\ phase' = "ready"
  /\ down' = [down EXCEPT ![conn] = Tail(@)]
  /\ UNCHANGED <<conn, sequence, pending, sent, up, fin, cut, cuts, robot>>

\* _fail_pending
FailPending ==
  /\ outcome' = [n \in DOMAIN outcome |->
                   IF \E p \in pending : p.n = n THEN "failed" ELSE outcome[n]]
  /\ pending' = {}

\* _run ends a connection: no hello_ack in time, the heartbeat's ping failed, or
\* the robot has closed it.
Drop ==
  /\ phase # "down"
  /\ phase' = "down"
  /\ fin' = Closed(conn, "client")
  /\ down' = Discard(down, conn)
  /\ conn' = NoConn
  /\ skew' = 0
  /\ FailPending
  /\ UNCHANGED <<sequence, kind, age, obeyed, up, cut, cuts, robot>>

\* send() of a movement command.
Send(k) ==
  /\ phase = "ready"
  /\ Len(kind) < MaxSends
  /\ sequence' = sequence + 1
  /\ kind' = Append(kind, k)
  /\ age' = Append(age, 0)
  /\ outcome' = Append(outcome, "pending")
  /\ pending' = {p \in pending : p.seq # sequence'}
                  \cup {[seq |-> sequence', n |-> Len(kind')]}
  /\ up' = Into(up, conn, "robot",
                [type |-> k, n |-> Len(kind'), seq |-> sequence',
                 expires |-> (clock - skew + Ttl[k]) % ClockSize])
  /\ UNCHANGED <<phase, conn, skew, obeyed, down, fin, cut, cuts, robot>>

\* send() waited command_timeout_seconds for the ack.
AckTimeout(p) ==
  /\ p \in pending
  /\ pending' = pending \ {p}
  /\ outcome' = [outcome EXCEPT ![p.n] = "failed"]
  /\ UNCHANGED <<phase, conn, sequence, skew, kind, age, obeyed, net, robot>>

\* Mutant of WaitingFor: acks are expected in the order of the commands.
WaitingLongest(ack) == {p \in pending : \A q \in pending : p.seq <= q.seq}

\* The command an ack is for.
WaitingFor(ack) == {p \in pending : p.seq = ack.seq}

\* _read_loop takes an ack; one that nobody waits for any more is skipped.
RecvAck ==
  /\ phase = "ready"
  /\ down[conn] # <<>>
  /\ Head(down[conn]).type = "ack"
  /\ LET ack == Head(down[conn])
         mine == WaitingFor(ack)
     IN  /\ pending' = pending \ mine
         /\ outcome' = [n \in DOMAIN outcome |->
              IF \E p \in mine : p.n = n
              THEN IF ack.status = "accepted" THEN "ok" ELSE "failed"
              ELSE outcome[n]]
  /\ down' = [down EXCEPT ![conn] = Tail(@)]
  /\ UNCHANGED <<phase, conn, sequence, skew, kind, age, obeyed, up, fin, cut, cuts, robot>>

-----------------------------------------------------------------------------
\* stopMotors.  movedAt, which is only read while the motors run, is cleared with
\* them.
StopMotors == moving' = 0 /\ movedAt' = 0 /\ stopAt' = 0

\* resetConnection(true), after which controlClient is c.
ResetBody(c) ==
  /\ client' = c
  /\ fin' = Closed(client, "robot")
  /\ up' = Discard(up, client)
  /\ shaken' = FALSE
  /\ lastSeq' = 0
  /\ StopMotors

\* Mutant of Connected: nobody asks the socket.
HasClient == client # NoConn

\* controlClient.connected(): what the other side closed still counts while there
\* is something left to read; a connection that was cut counts for ever.
Connected == client # NoConn /\ (up[client] # <<>> \/ "client" \notin fin[client])

\* acceptNewClient
Accept ==
  /\ ~Connected
  /\ backlog # <<>>
  /\ ResetBody(Head(backlog))
  /\ backlog' = Tail(backlog)
  /\ UNCHANGED <<ends, sent, down, cut, cuts, clock>>

\* updateControlChannel finds that the client has closed, and nobody waiting.
ClientGone ==
  /\ client # NoConn /\ ~Connected
  /\ backlog = <<>>
  /\ shaken
  /\ ResetBody(NoConn)
  /\ UNCHANGED <<ends, sent, down, cut, cuts, clock, backlog>>

\* updateControlChannel: nothing was read for ROBIT_CONTROL_HEARTBEAT_TIMEOUT_MS.
HeartbeatTimeout ==
  /\ Connected
  /\ shaken
  /\ ResetBody(NoConn)
  /\ UNCHANGED <<ends, sent, down, cut, cuts, clock, backlog>>

\* handleHello
Hello ==
  /\ Connected /\ up[client] # <<>>
  /\ Head(up[client]).type = "hello"
  /\ shaken' = TRUE
  /\ lastSeq' = 0
  /\ up' = [up EXCEPT ![client] = Tail(@)]
  /\ down' = Into(down, client, "client", [type |-> "hello_ack", uptime |-> clock])
  /\ UNCHANGED <<ends, sent, fin, cut, cuts, clock, backlog, client, motors>>

\* Mutant of Late: a plain comparison that does not see the clock wrap around.
LateUnwrapped(m) == m.expires = 0 \/ clock >= m.expires

\* validateCommandEnvelope: millis() - expires_at is taken as a signed number, and
\* an expires_at of 0 counts as missing.
Late(m) == m.expires = 0 \/ (clock - m.expires) % ClockSize < ClockSize \div 2
Verdict(m) ==
  IF Late(m) THEN "expired" ELSE IF m.seq <= lastSeq THEN "stale" ELSE "accepted"

\* Mutant of Obey: a stop only ends the movement's duration.
ObeyStopSlowly(m) ==
  IF m.type = "stop" THEN UNCHANGED <<moving, movedAt>> /\ stopAt' = clock
  ELSE moving' = m.n /\ movedAt' = clock /\ stopAt' = 0

\* commandMovement or stopMotors
Obey(m) ==
  IF m.type = "stop" THEN StopMotors
  ELSE /\ moving' = m.n
       /\ movedAt' = clock
       /\ stopAt' = IF Duration = 0 THEN 0 ELSE (clock + Duration) % ClockSize

\* handleCommand
Command ==
  /\ Connected /\ up[client] # <<>> /\ shaken
  /\ LET m == Head(up[client])
     IN  /\ m.type \in Kinds
         /\ IF Verdict(m) = "accepted"
            THEN Obey(m) /\ lastSeq' = m.seq /\ obeyed' = obeyed \cup {m.n}
            ELSE UNCHANGED <<motors, lastSeq, obeyed>>
         /\ down' = Into(down, client, "client",
                         [type |-> "ack", seq |-> m.seq, status |-> Verdict(m)])
  /\ up' = [up EXCEPT ![client] = Tail(@)]
  /\ UNCHANGED <<ends, kind, age, outcome, fin, cut, cuts, clock, backlog, client, shaken>>

\* The condition of the two stops in enforceSafetyTimeouts.
SafetyDue ==
  /\ moving # 0
  /\ \/ (clock - movedAt) % ClockSize > MotionTimeout
     \/ stopAt > 0 /\ clock >= stopAt

\* enforceSafetyTimeouts
EnforceSafetyTimeouts ==
  /\ SafetyDue
  /\ StopMotors
  /\ UNCHANGED <<ends, sent, net, clock, backlog, client, shaken, lastSeq>>

\* The robot restarts: initializeState.  Its side of every connection is gone.
Reboot ==
  /\ cuts < MaxCuts
  /\ cuts' = cuts + 1
  /\ clock' = 0 /\ backlog' = <<>> /\ client' = NoConn
  /\ shaken' = FALSE /\ lastSeq' = 0
  /\ moving' = 0 /\ movedAt' = 0 /\ stopAt' = 0
  /\ cut' = Conns
  /\ up' = [c \in Conns |-> <<>>]
  /\ down' = [c \in Conns |-> <<>>]
  /\ UNCHANGED <<ends, sent, fin>>

-----------------------------------------------------------------------------
\* The network loses connection c for good and tells neither side.
Cut(c) ==
  /\ cuts < MaxCuts
  /\ c \in InUse \ (cut \cup {NoConn})
  /\ HelloMayBeLost \/ \A i \in DOMAIN up[c] : up[c][i].type # "hello"
  /\ cuts' = cuts + 1
  /\ cut' = cut \cup {c}
  /\ up' = Discard(up, c)
  /\ down' = Discard(down, c)
  /\ UNCHANGED <<ends, sent, fin, robot>>

\* Time passes, not while the robot's loop has a stop to make (it runs many times
\* in a tick) nor while a message has travelled for MaxDelay.
MayTick ==
  /\ ~SafetyDue
  /\ client # NoConn =>
       \A i \in DOMAIN up[client] :
         up[client][i].type \in Kinds => age[up[client][i].n] < MaxDelay
  /\ phase = "hello" =>
       \A i \in DOMAIN down[conn] : (clock - down[conn][i].uptime) % ClockSize < MaxDelay

GrowOlder == age' = [n \in DOMAIN age |-> IF age[n] < MaxAge THEN age[n] + 1 ELSE age[n]]

Tick ==
  /\ MayTick
  /\ GrowOlder
  /\ clock' = (clock + 1) % ClockSize
  /\ UNCHANGED <<ends, kind, outcome, obeyed, net, backlog, client, shaken, lastSeq, motors>>

\* The robot's clock loses a tick against the client's, which nobody corrects
\* before the next hello.
Drift ==
  /\ MayTick
  /\ phase = "ready"
  /\ skew > -MaxDrift
  /\ skew' = skew - 1
  /\ GrowOlder
  /\ UNCHANGED <<phase, conn, sequence, pending, kind, outcome, obeyed, net, robot>>

Next ==
  \/ \E c \in Conns : Connect(c) \/ Cut(c)
  \/ HelloAck \/ Drop \/ RecvAck
  \/ \E k \in Kinds : Send(k)
  \/ \E p \in pending : AckTimeout(p)
  \/ Accept \/ ClientGone \/ HeartbeatTimeout \/ Hello \/ Command
  \/ EnforceSafetyTimeouts \/ Reboot
  \/ Tick \/ Drift

Spec == Init /\ [][Next]_vars

\* With no more than the ordinary delays a timer goes off only over a connection
\* that is dead, or at a client kept waiting while the robot holds on to a dead one:
\* pings and telemetry come every second, and the robot answers a hello at once.
Dead(c) == c \in cut \/ "robot" \in fin[c]
TimersAreRight ==
  /\ Drop => Dead(conn) \/ (phase = "hello" /\ client \in cut)
  /\ HeartbeatTimeout => client \in cut

\* Both programs keep running, and their timers do go off.
Fairness ==
  /\ WF_vars(\E c \in Conns : Connect(c))
  /\ WF_vars(HelloAck) /\ WF_vars(Drop /\ TimersAreRight)
  /\ WF_vars(Accept) /\ WF_vars(ClientGone) /\ WF_vars(Hello)
  /\ WF_vars(HeartbeatTimeout /\ TimersAreRight)

FairSpec == Init /\ [][Next /\ TimersAreRight]_vars /\ Fairness

-----------------------------------------------------------------------------
ToRobot == [type : {"hello"}]
             \cup [type : Kinds, n : Commands, seq : Commands, expires : 0..(ClockSize - 1)]
ToClient == [type : {"hello_ack"}, uptime : 0..(ClockSize - 1)]
             \cup [type : {"ack"}, seq : Commands,
                   status : {"accepted", "expired", "stale"}]

ClientType ==
  /\ phase \in {"down", "hello", "ready"}
  /\ conn \in Conns \cup {NoConn} /\ (phase = "down" <=> conn = NoConn)
  /\ sequence \in 0..MaxSends
  /\ skew \in (-MaxDrift)..(ClockSize - 1)
  /\ pending \subseteq [seq : Commands, n : DOMAIN kind]

CommandsType ==
  /\ kind \in Seq(Kinds) /\ Len(kind) <= MaxSends
  /\ age \in Seq(0..MaxAge) /\ Len(age) = Len(kind)
  /\ outcome \in Seq({"pending", "ok", "failed"}) /\ Len(outcome) = Len(kind)
  /\ obeyed \subseteq DOMAIN kind

NetType ==
  /\ up \in [Conns -> Seq(ToRobot)]
  /\ down \in [Conns -> Seq(ToClient)]
  /\ fin \in [Conns -> SUBSET {"client", "robot"}]
  /\ cut \subseteq Conns /\ cuts \in 0..MaxCuts

RobotType ==
  /\ clock \in 0..(ClockSize - 1)
  /\ backlog \in Seq(Conns)
  /\ client \in Conns \cup {NoConn}
  /\ shaken \in BOOLEAN /\ (shaken => client # NoConn)
  /\ lastSeq \in 0..MaxSends
  /\ moving \in {0} \cup DOMAIN kind
  /\ movedAt \in 0..(ClockSize - 1) /\ stopAt \in 0..(ClockSize - 1)

TypeOK == ClientType /\ CommandsType /\ NetType /\ RobotType

\* When send() returns ok, the robot has carried out this very command: no ack of
\* an earlier connection or of another command resolves it, although every
\* connection counts its sequence numbers from 1 again.
OkMeansObeyed == \A n \in DOMAIN kind : outcome[n] = "ok" => n \in obeyed

\* Every connection counts its commands from 1, and `kind` numbers all of them: over
\* the present connection the two differ by the same amount for every command.
Numbered(n, seq) == n = Len(kind) - sequence + seq /\ seq <= sequence
PendingNumbered == \A p \in pending : Numbered(p.n, p.seq)
UpNumbered ==
  conn # NoConn => \A i \in DOMAIN up[conn] :
    up[conn][i].type \in Kinds => Numbered(up[conn][i].n, up[conn][i].seq)
DownNumbered ==
  conn # NoConn => \A i \in DOMAIN down[conn] :
    down[conn][i].type = "ack" /\ down[conn][i].status = "accepted" =>
      \E n \in obeyed : Numbered(n, down[conn][i].seq)
KnownCommands ==
  \A c \in Conns : \A i \in DOMAIN up[c] :
    up[c][i].type \in Kinds => up[c][i].n \in DOMAIN kind

\* What makes OkMeansObeyed inductive: the client waits for nothing without a
\* connection, and what it waits for, what is on its way to the robot and what the
\* robot has accepted are numbered alike.
Numbering ==
  /\ sequence <= Len(kind)
  /\ phase # "ready" => pending = {}
  /\ PendingNumbered /\ UpNumbered /\ DownNumbered /\ KnownCommands

LinkInv == TypeOK /\ OkMeansObeyed /\ Numbering

\* Once send() of a stop has returned ok, no drive sent before it moves the robot,
\* whatever was under way on this or an older connection.
StopIsFinal ==
  moving # 0 => \A n \in DOMAIN kind :
    kind[n] = "stop" /\ moving < n => outcome[n] # "ok"

\* The motors run only for a client the robot is still in conversation with.
NobodyNoMotion == moving # 0 => shaken

\* The two together, with type correctness: what an acknowledgement tells is true, and
\* nobody's motion outlives the conversation.
LinkSafety == LinkInv /\ NobodyNoMotion

\* The motors never follow a drive sent longer ago than its ttl and the movement
\* timeout, with clocks that wrap around and messages that travel late.  Drifting
\* clocks add no more than their drift.
MotionIsFresh ==
  moving # 0 => age[moving] <= Ttl["drive"] + MaxDrift + MotionTimeout

\* The robot obeys no drive whose ttl is over, but for the drift of the clocks.
NeverLate ==
  [][moving' # moving /\ moving' # 0 => age[moving'] < Ttl["drive"] + MaxDrift]_vars

\* Both: nothing old is obeyed, and nothing is followed until it is old.
OnTime == NeverLate /\ []MotionIsFresh

\* Client and robot are in conversation, over a connection that works.
Linked == phase = "ready" /\ conn = client /\ shaken /\ conn \notin cut

\* After the last loss or restart the two find together and stay so.
Recovers == <>[]Linked
============================================================================
