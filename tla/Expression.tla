----------------------------- MODULE Expression -----------------------------
(***************************************************************************)
(* What the eyes of the robot show: EyeController, the eyes command and    *)
(* the restore of ActuatorBroker, the coordinator's fault of the control   *)
(* channel, and the eyes of the firmware with their watchdog.              *)
(*                                                                         *)
(* A connection carries what is written to it in order; an ack comes with  *)
(* the deed.  The eyes commands of manual control are left out: they go    *)
(* past the controller.                                                    *)
(***************************************************************************)
EXTENDS ActuatorBroker, EyeController

VARIABLES
  sound,       \* an eyes command fails with its connection only; never changes
  desiredEyes, \* _desired_eyes
  restore,     \* _on_connection(True): "none", "head" or "eyes" while it sends them
  restored,    \* the expression it has read
  wire,        \* eyes commands on their way, and who sent them
  reply,       \* the worker's command: "none", "wire", "failed"
  shown,       \* robotState.eyeExpression
  armed,       \* heartbeatArmed
  alarm        \* heartbeatFaultActive

link  == <<restore, restored>>
robot == <<shown, armed, alarm>>
eyes  == <<desiredEyes, wire, reply>>
allVars == <<vars, eyeVars, sound, link, eyes, robot>>

ExpressionInit ==
  /\ Init /\ EyeInit
  /\ sound \in BOOLEAN
  /\ desiredEyes = "neutral" /\ wire = <<>> /\ reply = "none"
  /\ restore = "none" /\ restored = "none"
  /\ shown = "neutral" /\ armed = FALSE /\ alarm = FALSE

\* handle_control_connection_change
ChannelFault == Faults(faults \cup {"control_transport"})
NoChannelFault == Faults(faults \ {"control_transport"})

-----------------------------------------------------------------------------
\* The state of the brain changes, or a heartbeat is due.
StateChanges ==
  /\ \/ \E c \in Conversations : c # conversation /\ Transition(c)
     \/ SetVoiceSession
     \/ \E m \in Moods : SelectMood(m)
     \/ MoodExpires
     \/ ready /\ HeartbeatOk
     \/ ~ready /\ HeartbeatMissed
  /\ UNCHANGED <<vars, sound, link, eyes, robot>>

\* broker.eyes: the expression is what the next connection restores.
TakeEyes ==
  /\ Takes
  /\ desiredEyes' = next
  /\ UNCHANGED <<vars, sound, link, wire, reply, robot>>

WriteEyes ==
  /\ ready /\ sending # "none" /\ reply = "none"
  /\ wire' = Append(wire, [who |-> "worker", expression |-> sending])
  /\ reply' = "wire"
  /\ UNCHANGED <<vars, eyeVars, sound, link, desiredEyes, robot>>

\* Its send() raises.
EyesFail ==
  /\ sending # "none"
  /\ reply = "failed" \/ (reply = "none" /\ ~ready)
  /\ Fails
  /\ reply' = "none"
  /\ UNCHANGED <<vars, sound, link, desiredEyes, wire, robot>>

\* The listener has come to its second command.
WriteRestore ==
  /\ restore = "eyes" /\ \A i \in DOMAIN wire : wire[i].who # "listener"
  /\ wire' = Append(wire, [who |-> "listener", expression |-> restored])
  /\ UNCHANGED <<vars, eyeVars, sound, link, desiredEyes, reply, robot>>

\* The listener is done, one way or the other, and the next one is told.
RestoreOver == restore' = "none" /\ restored' = "none" /\ NoChannelFault

\* setEyeExpression and its ack.
Arrives ==
  /\ wire # <<>>
  /\ wire' = Tail(wire) /\ shown' = Head(wire).expression
  /\ IF Head(wire).who = "worker" THEN Succeeds /\ reply' = "none" /\ UNCHANGED link
                                  ELSE RestoreOver /\ UNCHANGED reply
  /\ UNCHANGED <<vars, sound, desiredEyes, armed, alarm>>

\* The command comes too late, or its ack does.
GoesWrong ==
  /\ wire # <<>> /\ ~sound
  /\ wire' = Tail(wire) /\ shown' \in {shown, Head(wire).expression}
  /\ IF Head(wire).who = "worker" THEN reply' = "failed" /\ UNCHANGED <<eyeVars, link>>
                                  ELSE RestoreOver /\ UNCHANGED reply
  /\ UNCHANGED <<vars, sound, desiredEyes, armed, alarm>>

-----------------------------------------------------------------------------
\* The robot without a connection.

Watchdog ==
  /\ ~ready /\ armed /\ ~alarm
  /\ alarm' = TRUE /\ shown' = "fault"
  /\ UNCHANGED <<vars, eyeVars, sound, link, eyes, armed>>

Restarts ==
  /\ ~ready
  /\ shown' = "neutral" /\ armed' = FALSE /\ alarm' = FALSE
  /\ UNCHANGED <<vars, eyeVars, sound, link, eyes>>

-----------------------------------------------------------------------------
\* What the broker does about the head, and what the connection means to the eyes.

BrokerActs ==
  /\ \/ ManualHead \/ TrackingHead \/ ManualBody \/ LeaseEnds \/ Expire
     \/ TakeSlot \/ Decide \/ Acked \/ SendFails
     \/ TrackingDrive \/ PivotGoes \/ PivotFails
  /\ UNCHANGED <<eyeVars, sound, link, eyes, robot>>

\* After the head the listener goes on to the eyes, unless the head has failed it.
HeadIsWritten ==
  /\ Write
  /\ \/ /\ Head(line).who = "listener"
        /\ \/ restore' = "eyes" /\ UNCHANGED <<restored, eyeVars>>
           \/ RestoreOver
     \/ Head(line).who = "worker" /\ UNCHANGED <<link, eyeVars>>
  /\ UNCHANGED <<sound, eyes, robot>>

\* recordBrainHeartbeat, on a hello: the alarm is over.
RecordBrainHeartbeat ==
  /\ armed' = TRUE /\ alarm' = FALSE
  /\ shown' = IF alarm THEN "neutral" ELSE shown

\* Mutant of Reconnects: the brain is told before the broker.
ReconnectsToldFirst ==
  /\ LinkUp
  /\ restore' = "head" /\ restored' = desiredEyes
  /\ RecordBrainHeartbeat
  /\ NoChannelFault
  /\ UNCHANGED <<sound, eyes>>

\* The robot takes the hello for a heartbeat; the listener reads what to restore.
Reconnects ==
  /\ LinkUp
  /\ restore' = "head" /\ restored' = desiredEyes
  /\ RecordBrainHeartbeat
  /\ UNCHANGED <<eyeVars, sound, eyes>>

\* Any number of the commands on their way have been carried out.
Disconnects ==
  /\ LinkDown /\ restore = "none"
  /\ ChannelFault
  /\ shown' \in {shown} \cup {wire[i].expression : i \in DOMAIN wire}
  /\ wire' = <<>>
  /\ reply' = IF reply = "wire" THEN "failed" ELSE reply
  /\ UNCHANGED <<sound, link, desiredEyes, armed, alarm>>

ExpressionNext ==
  \/ StateChanges \/ TakeEyes \/ WriteEyes \/ EyesFail \/ WriteRestore \/ Arrives
  \/ GoesWrong \/ Watchdog \/ Restarts
  \/ BrokerActs \/ HeadIsWritten \/ Reconnects \/ Disconnects

ExpressionSpec == ExpressionInit /\ [][ExpressionNext]_allVars

\* The workers and the listener are tasks that run; an answer comes or its time is up.
ExpressionFairness ==
  /\ Fairness
  /\ WF_allVars(TakeEyes \/ WriteEyes \/ EyesFail) /\ WF_allVars(WriteRestore)
  /\ WF_allVars(Arrives \/ GoesWrong)
  /\ WF_allVars(MoodExpires /\ StateChanges)
  /\ WF_allVars(ready /\ HeartbeatOk /\ StateChanges)

-----------------------------------------------------------------------------
\* Every variable of the broker, the controller and their composition keeps its type.
ExpressionTypeOK ==
  /\ TypeOK /\ EyeTypeOK
  /\ {sound, armed, alarm} \subseteq BOOLEAN
  /\ restore \in {"none", "head", "eyes"} /\ (restoring => restore = "head")
  /\ reply \in {"none", "wire", "failed"} /\ (reply # "none" => sending # "none")
  /\ Len(wire) <= 2 /\ (alarm => shown = "fault")

\* Type correctness, and that ok is said of one's own pose or a newer one, whatever else
\* the connection restores.
BrokerInv == ExpressionTypeOK /\ OkIsYoursOrNewer

\* When the eye worker has nothing to do and no failure to make up for, the last it was
\* given, which a reconnect would restore, is what the brain wants, although requests
\* replace each other and some are left out as repeated (eye_controller.py:252-280).
SettledIsLatest ==
  running /\ heard /\ next = "none" /\ sending = "none" /\ requested # "none" =>
    desiredEyes = Effective

\* Where commands fail only with their connection, the robot comes to show what the
\* brain wants after every loss, whatever was in flight, was restored or was skipped
\* because the head failed, and whether the robot has restarted or raised its alarm.
EyesCatchUp ==
  sound /\ running /\ <>[]ready => <>[](losses > 0 => shown = Effective)
=============================================================================
