----------------------------- MODULE ChatTurns -----------------------------
(***************************************************************************)
(* The typed conversation of brain/app/main.py: the handlers of /chat and  *)
(* /chat/action, which ask the language model, the camera, the tracking    *)
(* service or the action lease, several at a time, and share one           *)
(* conversation state.  The actions they ask for are intents of            *)
(* Coordinator; the other intents are those of the /robot routes, of the   *)
(* voice gateway and of tracking.                                          *)
(*                                                                         *)
(* Abstracted: the texts, of which the handler's choice is left open; the  *)
(* journal, in which a turn is recorded together with each change of the   *)
(* conversation; the GPU lease in front of the model, which is in          *)
(* ResourceLease, and the question to the camera, which is in Vision.      *)
(***************************************************************************)
EXTENDS Coordinator

CONSTANTS
  Chats,   \* requests to /chat or /chat/action
  Asked    \* Asked[c]: the action that c's text or the model's answer asks for, if any

ASSUME ChatAssumption ==
  /\ Asked \in [Chats -> Intents \ Cancellable]
  /\ \A c, d \in Chats : Asked[c] = Asked[d] => c = d
  /\ \A c \in Chats : Priority[Asked[c]] < Reacquisition

VARIABLES
  stage,        \* stage[c]: what the handler of c awaits; "absent" if c is never typed
  reply,        \* reply[c]: what it has answered: "words", "done" or "sorry"
  conversation  \* state.conversation, where typed chats set it

chatVars == <<stage, reply, conversation>>
allVars == <<vars, chatVars>>

UnderWay == {"tracks", "thinks", "looks", "explains", "acts"}
Begun(c) == stage[c] \in UnderWay
IsStop(c) == Kind[Asked[c]] = "stop"

ChatInit ==
  /\ Init
  /\ stage \in [Chats -> {"none", "absent"}] /\ reply = [c \in Chats |-> "none"]
  /\ conversation = "idle"

-----------------------------------------------------------------------------
Goes(c, s) == stage' = [stage EXCEPT ![c] = s] /\ UNCHANGED <<reply, conversation>>

\* Mutant of Replies: the conversation is given back after words only.
RepliesInWords(c, r) ==
  /\ stage' = [stage EXCEPT ![c] = "over"]
  /\ reply' = [reply EXCEPT ![c] = r]
  /\ conversation' = IF r = "words" THEN "idle" ELSE conversation

\* The assistant's turn is recorded and the conversation given back.
Replies(c, r) ==
  /\ stage' = [stage EXCEPT ![c] = "over"]
  /\ reply' = [reply EXCEPT ![c] = r]
  /\ conversation' = "idle"

\* An exception goes through to the route: there is no turn of the assistant's, and
\* nobody gives the conversation back.
Dies(c) ==
  /\ stage[c] \in UnderWay \ {"acts"}
  /\ Goes(c, "died")
  /\ UNCHANGED vars

\* Mutant of Asks: a stop is put to the model like anything else.
AsksModel(c) ==
  /\ stage[c] = "none"
  /\ conversation' = "formulating"
  /\ stage' = [stage EXCEPT ![c] = "thinks"]
  /\ UNCHANGED <<vars, reply>>

\* The user's turn is recorded.  A stop is asked for at once, a command about tracking
\* goes to its service, all else to the model.
Asks(c) ==
  /\ stage[c] = "none"
  /\ conversation' = "formulating"
  /\ IF IsStop(c)
     THEN stage' = [stage EXCEPT ![c] = "acts"] /\ Propose(Asked[c])
     ELSE stage' \in {[stage EXCEPT ![c] = s] : s \in {"tracks", "thinks"}} /\ UNCHANGED vars
  /\ UNCHANGED reply

\* execute_explicit_tracking_request has an answer, or a refusal of the detector's.
Tracked(c) ==
  /\ stage[c] = "tracks"
  /\ \E r \in {"done", "sorry"} : Replies(c, r)
  /\ UNCHANGED vars

\* The model answers with words, or with an action or a question that are not valid.
Says(c) == stage[c] = "thinks" /\ Replies(c, "words") /\ UNCHANGED vars

\* The model asks for the action.
Decides(c) == stage[c] = "thinks" /\ Goes(c, "acts") /\ Propose(Asked[c])

\* The user or the model asks about the view: whatever else the model wanted is dropped.
Wonders(c) == stage[c] = "thinks" /\ Goes(c, "looks") /\ UNCHANGED vars

\* answer_visual_question: the view is put into words by the model, unless there is none.
Sees(c) ==
  /\ stage[c] = "looks"
  /\ Goes(c, "explains") \/ Replies(c, "words")
  /\ UNCHANGED vars

Explains(c) == stage[c] = "explains" /\ Replies(c, "words") /\ UNCHANGED vars

\* What action_execution_error makes of the result.
ReplyTo(outcome) == IF outcome = "completed" THEN "done" ELSE "sorry"

\* execute_action returns, or raises what its executor raised.
Acted(c) ==
  /\ stage[c] = "acts" /\ event[Asked[c]] \in Terminal
  /\ \/ Replies(c, ReplyTo(event[Asked[c]]))
     \/ event[Asked[c]] = "failed" /\ Goes(c, "died")
  /\ UNCHANGED vars

\* All others, who may ask for the action of a chat that is absent.
OthersAct ==
  /\ Next
  /\ \A c \in Chats :
       stage[c] # "absent" /\ event[Asked[c]] = "none" => event'[Asked[c]] = "none"
  /\ UNCHANGED chatVars

ChatNext ==
  \/ \E c \in Chats :
       \/ Asks(c) \/ Tracked(c) \/ Says(c) \/ Decides(c) \/ Wonders(c)
       \/ Sees(c) \/ Explains(c) \/ Acted(c) \/ Dies(c)
  \/ OthersAct

ChatBehaviour == ChatInit /\ [][ChatNext]_allVars

\* The services answer or fail.  The model may take for ever.
ChatFairness ==
  /\ Fairness
  /\ \A c \in Chats : WF_allVars(Tracked(c)) /\ WF_allVars(Sees(c)) /\ WF_allVars(Acted(c))

-----------------------------------------------------------------------------
ChatTypeOK ==
  /\ stage \in [Chats -> UnderWay \cup {"none", "absent", "over", "died"}]
  /\ reply \in [Chats -> {"none", "words", "done", "sorry"}]
  /\ conversation \in {"idle", "formulating"}

\* The user is told that an action was done exactly when the robot has done it and has
\* said so in time, whoever else had the lease in between (main.py:1489-1503, 1611-1627).
RepliesAreTrue ==
  \A c \in Chats : reply[c] # "none" /\ event[Asked[c]] # "none" =>
    (reply[c] = "done" <=> event[Asked[c]] = "completed" /\ Asked[c] \in obeyed)

\* A conversation that is left in the state of formulating, which shows in the eyes and
\* keeps the awareness loop asleep, was left by a handler that died: all other ways out
\* give it back, however chats overlap (main.py:1481-1643).
ConversationGivenBack ==
  conversation = "formulating" => \E c \in Chats : Begun(c) \/ stage[c] = "died"

\* Types, and what user, eyes and awareness are told of a typed chat.
ChatInv == ChatTypeOK /\ RepliesAreTrue /\ ConversationGivenBack

\* A typed stop gets its answer although the model never answers anybody; every other
\* chat gets one unless the model keeps it waiting for ever.  Both unless the lease is
\* lost to a task that was cancelled in line.
ModelAnswers(c) == []<>(stage[c] \notin {"thinks", "explains"})

ChatsEnd ==
  \A c \in Chats :
    /\ IsStop(c) => (Begun(c) ~> ~Begun(c) \/ LeaseLost)
    /\ ModelAnswers(c) => (Begun(c) ~> ~Begun(c) \/ LeaseLost)
============================================================================
