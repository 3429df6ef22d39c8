--------------------------- MODULE MCCoordinator ---------------------------
(***************************************************************************)
(* Coordinator and ChatTurns for TLC: a stop and a head move, which typed  *)
(* chats ask for, and two drives, one of the voice gateway and one of the  *)
(* tracking loop, with the priorities of WorkPriority in                   *)
(* brain/app/brain_models.py.                                              *)
(***************************************************************************)
EXTENDS ChatTurns

CONSTANTS stop, look, drive, pivot, halt, peek

KindOf == [t \in {stop, look, drive, pivot} |->
             CASE t = stop -> "stop" [] t = look -> "head"
               [] t = drive -> "drive" [] t = pivot -> "pivot"]

\* manual_action, model_action and background.
PriorityOf == [t \in {stop, look, drive, pivot} |->
                 CASE t = stop -> 30 [] t \in {look, drive} -> 40 [] t = pivot -> 50]

\* Two scenarios: the four intents without chats, or chats
\* beside the tracking loop alone.
Absent == \A c \in Chats : stage[c] = "absent"

MCInit ==
  /\ ChatInit
  /\ \/ Absent
     \/ \A c \in Chats : stage[c] = "none"

MCNext == ChatNext /\ (Absent \/ event'[drive] = "none")

MCSpec == MCInit /\ [][MCNext]_allVars /\ ChatFairness

AskedBy == [c \in {halt, peek} |-> CASE c = halt -> stop [] c = peek -> look]
============================================================================
