----------------------------- MODULE VoiceTurn -----------------------------
(***************************************************************************)
(* RealtimeGateway of brain/app/realtime_gateway.py: one browser, the      *)
(* sessions with the upstream, the pump that handles what each of them     *)
(* says, the tasks that act on transcripts, explicit visual answers and    *)
(* tool calls.                                                             *)
(*                                                                         *)
(* Sessions are numbered as they are opened; _upstream, while there is one *)
(* (`up`), is the latest.  Whoever has something to send is in a state of  *)
(* its own until it is sent: it may have to drop a closed session and to   *)
(* wait for another, meanwhile everybody else goes on.                     *)
(*                                                                         *)
(* External: the speech server behind the upstream.  It hears the browser, *)
(* sends a transcript and perhaps a revision of it, replies, calls tools,  *)
(* and ends a reply that is interrupted or cancelled; its events travel on *)
(* `wire`, which the pump of the session reads in order, and not while it  *)
(* runs a tool.  Of a session that has been dropped only what is under way *)
(* is still read.                                                          *)
(*                                                                         *)
(* Abstracted: what is said (a transcript asks for an action, for a look,  *)
(* or for nothing), the actions themselves, scene refreshes, the seeding   *)
(* of a new session, events that are only forwarded or only change what    *)
(* is shown of the conversation, shutdown.  Turns are numbered instead of  *)
(* carrying correlation ids.                                               *)
(***************************************************************************)
EXTENDS Naturals, Sequences, FiniteSets

CONSTANTS
  MaxTurns,    \* bound on utterances and typed messages
  MaxWire,     \* bound on the events that the server has under way of its own accord
  MaxSessions, \* how many sessions there may be
  Budgets      \* what a behaviour may use up: turns, revised transcripts, tool calls, losses
               \* of a session, departures of the browser, failures of the camera or of a
               \* movement, connections that are refused

\* Every session but the first is there because the one before was lost or given up.
ASSUME VoiceAssumption ==
  /\ MaxTurns \in Nat /\ MaxWire \in Nat /\ MaxSessions \in Nat
  /\ Budgets \subseteq [turns : 0..MaxTurns, revisions : Nat, tools : Nat, losses : Nat,
                        visits : Nat, failures : Nat, refusals : Nat]
  /\ \A b \in Budgets : 1 + b.losses + b.failures <= MaxSessions

VARIABLES
  browser,      \* the browser: "away", "joins", "here", or sending: "types", "streams"
  up,           \* _upstream is not None
  latest,       \* the latest session, or 0
  open,         \* the sessions whose sockets are open
  fault,        \* the fault "realtime_upstream"
  left,         \* what is left of the budget
  \* the speech server, as to the latest session
  mic,          \* it hears somebody speak
  reply,        \* the reply it is giving: "none", "free", or "plain" (no tools)
  asked,        \* the replies it owes
  \* by session
  wire,         \* the events under way
  pump,         \* _pump_upstream: "reading", in a tool, or "returns" (the tool's output)
  \* the gateway
  turn,         \* _current_correlation_id
  barrier,      \* the foreground barrier of the GPU lease
  vision,       \* _vision_used_in_turn
  suppress,     \* _suppress_cancelled_response
  answer,       \* _visual_response_task: "none", "prepared" (or waiting), "sends"
  items,        \* _voice_items and _provisional_action_tasks, by utterance; whether the
                \* latest text has been served and journaled
  \* history
  leaked,       \* the leases that a waiter cancelled here may have taken for nobody
  sighted       \* the turns in which a tool gave a view or a question was promised one

link    == <<browser, up, latest, open, fault, left>>
server  == <<mic, reply, asked>>
pumps   == <<wire, pump>>
flags   == <<barrier, vision>>
visual  == <<suppress, answer, leaked>>
voiceVars == <<link, server, pumps, turn, flags, visual, items, sighted>>

Kinds == {"act", "look", "talk"}
Errands == {"confirms", "tells", "cancels"}  \* what a task may have to send
Utterances == 1..MaxTurns
Sessions == 1..MaxSessions
Tools == {"lookTool", "moveTool"}
Silent == [text |-> 0, task |-> "none", served |-> FALSE, journaled |-> FALSE]

VoiceInit ==
  /\ browser = "away" /\ up = FALSE /\ latest = 0 /\ open = {} /\ fault = FALSE
  /\ left \in Budgets
  /\ mic = FALSE /\ reply = "none" /\ asked = {}
  /\ wire = [p \in Sessions |-> <<>>] /\ pump = [p \in Sessions |-> "none"]
  /\ turn = 0 /\ barrier = FALSE /\ vision = FALSE
  /\ suppress = FALSE /\ answer = "none"
  /\ items = [u \in Utterances |-> Silent]
  /\ leaked = {} /\ sighted = {}

Spend(what) == left[what] > 0 /\ left' = [left EXCEPT ![what] = @ - 1]
Says(type) == [type |-> type, utterance |-> 0]
Silenced == mic' = FALSE /\ reply' = "none" /\ asked' = {}

-----------------------------------------------------------------------------
\* The upstream: _ensure_upstream and _send_upstream.

\* Somebody is in _send_upstream; or in _ensure_upstream, to begin with.
Sending ==
  \/ browser \in {"types", "streams"} \/ answer = "sends"
  \/ \E u \in Utterances : items[u].task \in Errands
  \/ \E p \in Sessions : pump[p] = "returns"
Needed == Sending \/ browser = "joins"

\* A send can go through.
Connected == latest \in open
Open == up /\ Connected

\* The connector has answered one of those who wait for it.
Connects ==
  /\ Needed /\ ~up /\ latest < MaxSessions
  /\ latest' = latest + 1
  /\ up' = TRUE /\ open' = open \cup {latest'} /\ fault' = FALSE
  /\ pump' = [pump EXCEPT ![latest'] = "reading"]
  /\ Silenced
  /\ UNCHANGED <<browser, left, wire, turn, flags, visual, items, sighted>>

\* A send finds the socket closed: the session is dropped, with nobody told as yet.
Resets ==
  /\ Sending /\ up /\ ~Connected
  /\ up' = FALSE
  /\ UNCHANGED <<browser, latest, open, fault, left, server, pumps, turn, flags, visual,
                 items, sighted>>

\* So does a second send, but in the meantime the first has got another session.
ResetsLate ==
  /\ Sending /\ Open /\ latest > 1 /\ Spend("losses")
  /\ up' = FALSE
  /\ UNCHANGED <<browser, latest, open, fault, server, pumps, turn, flags, visual, items,
                 sighted>>

\* The connection is refused, or the session that replaced a closed one is closed too.
Refused ==
  /\ \/ ~up /\ Spend("refusals") /\ fault' = TRUE
     \/ up /\ ~Connected /\ latest > 1 /\ UNCHANGED <<left, fault>>
  /\ UNCHANGED <<latest, open>>

\* The socket closes; what has arrived before can still be read.
Lose ==
  /\ Connected /\ Spend("losses")
  /\ open' = open \ {latest}
  /\ Silenced
  /\ UNCHANGED <<browser, up, latest, fault, pumps, turn, flags, visual, items, sighted>>

-----------------------------------------------------------------------------
\* The browser: handle_browser.
BrowserJoins ==
  /\ browser = "away" /\ browser' = "joins"
  /\ UNCHANGED <<up, latest, open, fault, left, server, pumps, turn, flags, visual, items,
                 sighted>>

Joined ==
  /\ browser = "joins" /\ up /\ browser' = "here"
  /\ UNCHANGED <<up, latest, open, fault, left, server, pumps, turn, flags, visual, items,
                 sighted>>

\* Its audio finds no open session.
BrowserStreams ==
  /\ browser = "here" /\ ~Open /\ browser' = "streams"
  /\ UNCHANGED <<up, latest, open, fault, left, server, pumps, turn, flags, visual, items,
                 sighted>>

\* A message typed in the browser, with its response.create.
BrowserTypes ==
  /\ browser = "here" /\ Spend("turns") /\ browser' = "types"
  /\ turn' = turn + 1
  /\ vision' = FALSE
  /\ UNCHANGED <<up, latest, open, fault, server, pumps, barrier, visual, items, sighted>>

BrowserSent ==
  /\ browser \in {"types", "streams"} /\ Open /\ browser' = "here"
  /\ asked' = IF browser = "types" THEN asked \cup {"free"} ELSE asked
  /\ UNCHANGED <<up, latest, open, fault, left, mic, reply, pumps, turn, flags, visual,
                 items, sighted>>

\* What a browser that has gone leaves behind.
Away ==
  /\ browser' = "away" /\ barrier' = FALSE
  /\ UNCHANGED <<latest, open, server, pumps, turn, vision, visual, items, sighted>>

BrowserLeaves ==
  /\ browser = "here" /\ Spend("visits")
  /\ Away /\ UNCHANGED <<up, fault>>

\* It is let go, there is no upstream to be had.
BrowserGivesUp ==
  /\ browser \in {"joins", "types", "streams"}
  /\ browser = "joins" => ~up
  /\ Refused /\ Away /\ UNCHANGED up

-----------------------------------------------------------------------------
\* The speech server (external).
Sends(events) ==
  /\ Len(wire[latest]) + Len(events) <= MaxWire
  /\ wire' = [wire EXCEPT ![latest] = @ \o events]

\* Somebody speaks; a reply that is being given is interrupted.
SpeechStarts ==
  /\ Open /\ browser \notin {"away", "joins"} /\ ~mic /\ Spend("turns")
  /\ mic' = TRUE
  /\ reply' = "none"
  /\ Sends(IF reply = "none" THEN <<Says("heard")>> ELSE <<Says("heard"), Says("done")>>)
  /\ UNCHANGED <<browser, up, latest, open, fault, asked, pump, turn, flags, visual, items,
                 sighted>>

\* Utterances count down.
Latest == left.turns + 1

Transcript(u) == [type |-> "text", utterance |-> u]

SpeechStops ==
  /\ Connected /\ mic
  /\ mic' = FALSE
  /\ Sends(<<Transcript(Latest)>>)
  /\ asked' = asked \cup {"free"}
  /\ UNCHANGED <<link, reply, pump, turn, flags, visual, items, sighted>>

\* The transcript is revised; a reply to the earlier one is given again.
Revises ==
  /\ Connected /\ ~mic /\ Spend("revisions")
  /\ \E u \in Utterances :
       /\ u = Latest /\ items[u].text > 0
       /\ \A i \in DOMAIN wire[latest] : wire[latest][i].type # "text"
       /\ Sends((IF reply = "none" THEN <<>> ELSE <<Says("done")>>) \o <<Transcript(u)>>)
  /\ reply' = "none"
  /\ asked' = asked \cup {"free"}
  /\ UNCHANGED <<browser, up, latest, open, fault, mic, pump, turn, flags, visual, items,
                 sighted>>

Replies ==
  /\ Connected /\ reply = "none" /\ ~mic
  /\ \E r \in asked : reply' = r /\ asked' = asked \ {r}
  /\ UNCHANGED <<link, mic, pumps, turn, flags, visual, items, sighted>>

\* The reply is over; it may have been a tool call.
Ends ==
  /\ Connected /\ reply # "none"
  /\ \/ Sends(<<Says("done")>>) /\ UNCHANGED left
     \/ /\ reply = "free" /\ Spend("tools")
        /\ \E t \in Tools : Sends(<<Says(t), Says("done")>>)
  /\ reply' = "none"
  /\ UNCHANGED <<browser, up, latest, open, fault, mic, asked, pump, turn, flags, visual,
                 items, sighted>>

\* What the server makes of response.create and of response.cancel.
Asked(r) ==
  /\ asked' = asked \cup {r}
  /\ UNCHANGED <<mic, reply, wire>>

Cancelled ==
  /\ reply' = "none"
  /\ wire' = IF reply = "none" THEN wire
             ELSE [wire EXCEPT ![latest] = Append(@, Says("done"))]
  /\ UNCHANGED <<mic, asked>>

-----------------------------------------------------------------------------
\* The pump of session p: _handle_upstream_event, by type of event.
Reads(p, type) ==
  /\ pump[p] = "reading" /\ wire[p] # <<>> /\ Head(wire[p]).type = type
  /\ wire' = [wire EXCEPT ![p] = Tail(@)]
  /\ UNCHANGED <<link, server>>

Goes(p, what) == pump' = [pump EXCEPT ![p] = what]

Heard(p) ==
  /\ Reads(p, "heard")
  /\ barrier' = TRUE
  /\ turn' = turn + 1
  /\ vision' = FALSE
  /\ UNCHANGED <<pump, visual, items, sighted>>

\* Mutant of NewText: the task of the older transcript is cancelled and none started.
NewTextUntasked(item, k) ==
  [item EXCEPT !.text = @ + 1, !.served = FALSE, !.journaled = FALSE,
               !.task = IF item.text = 0 THEN k ELSE "none"]

\* A transcript of an utterance: its task replaces that of an earlier one, and it is
\* to be journaled again.
NewText(item, k) ==
  [item EXCEPT !.text = @ + 1, !.served = FALSE, !.journaled = FALSE, !.task = k]

\* A task that is cancelled in the line for the lease may take it all the same, once it
\* is free, and never give it back (see ResourceLease).
LeaksIf(inLine, lease) == leaked' \in {leaked} \cup (IF inLine THEN {leaked \cup {lease}} ELSE {})

Text(p) ==
  /\ Reads(p, "text")
  /\ LET u == Head(wire[p]).utterance IN
       /\ \E k \in Kinds : items' = [items EXCEPT ![u] = NewText(@, k)]
       /\ LeaksIf(items[u].task = "acting", "action")
  /\ UNCHANGED <<pump, turn, flags, suppress, answer, sighted>>

\* Nothing of a reply that has been cancelled for a visual answer is let through.
Swallowed(p) ==
  /\ suppress
  /\ \E type \in {"done"} \cup Tools : Reads(p, type)
  /\ UNCHANGED <<pump, turn, flags, visual, items, sighted>>

\* Mutant of Finalize: only an utterance that has been served is journaled.
FinalizeServed(item) == [item EXCEPT !.journaled = item.served]

\* _finalize_voice_items: the latest text of an utterance is journaled, once.
Finalize(item) == [item EXCEPT !.journaled = item.text > 0]

\* Mutant of Done: the barrier is only lowered when the turn is over.
DoneHolding(p) ==
  /\ ~suppress /\ Reads(p, "done")
  /\ items' = [u \in Utterances |-> Finalize(items[u])]
  /\ barrier' = (barrier /\ ~vision)
  /\ UNCHANGED <<pump, turn, vision, visual, sighted>>

Done(p) ==
  /\ ~suppress /\ Reads(p, "done")
  /\ items' = [u \in Utterances |-> Finalize(items[u])]
  /\ barrier' = FALSE
  /\ UNCHANGED <<pump, turn, vision, visual, sighted>>

-----------------------------------------------------------------------------
\* Tool calls, which the pump runs itself: _execute_tool_event.
LookTool(p) ==
  /\ ~suppress /\ Reads(p, "lookTool")
  /\ Goes(p, "lookTool")
  /\ UNCHANGED <<turn, flags, visual, items, sighted>>

\* A movement is refused in the turn of a view; or else it is let in, first of all to the
\* line for the lease.
MoveTool(p) ==
  /\ ~suppress /\ Reads(p, "moveTool")
  /\ Goes(p, IF vision THEN "returns" ELSE "moveTool")
  /\ UNCHANGED <<turn, flags, visual, items, sighted>>

\* Mutant of Viewed: the flag was set when the call came in, for the turn of then.
ViewedBefore(tool) ==
  vision' = vision /\ sighted' = IF tool = "lookTool" THEN sighted \cup {turn} ELSE sighted

\* The model is given a view, or told that there is none.
Viewed(tool) ==
  IF tool = "lookTool"
  THEN \/ vision' = TRUE /\ sighted' = sighted \cup {turn}
       \/ UNCHANGED <<vision, sighted>>
  ELSE UNCHANGED <<vision, sighted>>

\* The tool has run, after its wait for the lease.
ToolDone(p) ==
  /\ pump[p] \in Tools
  /\ Viewed(pump[p])
  /\ Goes(p, "returns")
  /\ UNCHANGED <<link, server, wire, turn, barrier, visual, items>>

\* _return_tool_output: the output and a response.create, to the session of now.
Returned(p) ==
  /\ pump[p] = "returns" /\ Open
  /\ Goes(p, "reading")
  /\ Asked("free")
  /\ UNCHANGED <<link, turn, flags, visual, items, sighted>>

\* The end of a pump.  If its session is still _upstream, that is gone and the fault is
\* up; if not, the fault is up if the end was an error.  A session that is not read is
\* as good as closed.
PumpStops(p) ==
  /\ Goes(p, "none")
  /\ wire' = [wire EXCEPT ![p] = <<>>]
  /\ open' = open \ {p}
  /\ up' = (up /\ p # latest)
  /\ fault' \in IF up /\ p = latest THEN {TRUE} ELSE {fault, TRUE}
  /\ IF p = latest THEN Silenced ELSE UNCHANGED server
  /\ UNCHANGED <<browser, latest, turn, flags, visual, items, sighted>>

\* Mutant of PumpEnds: only an unclean close is taken for a fault.
PumpEndsQuietly(p) ==
  /\ pump[p] = "reading" /\ p \notin open /\ wire[p] = <<>>
  /\ Goes(p, "none") /\ up' = (up /\ p # latest) /\ fault' \in {fault, TRUE}
  /\ UNCHANGED <<browser, latest, open, left, server, wire, turn, flags, visual, items,
                 sighted>>

PumpEnds(p) ==
  /\ pump[p] = "reading" /\ p \notin open /\ wire[p] = <<>>
  /\ PumpStops(p) /\ UNCHANGED left

\* A movement that is not acknowledged and a camera that does not answer raise errors
\* that nobody on the way catches.
ToolFails(p) ==
  /\ pump[p] \in Tools /\ Spend("failures")
  /\ PumpStops(p)

\* The output cannot be sent.
PumpGivesUp(p) ==
  /\ pump[p] = "returns"
  /\ PumpStops(p)
  /\ \/ ~up /\ Spend("refusals") /\ fault'
     \/ up /\ ~Connected /\ latest > 1 /\ fault' /\ UNCHANGED left

-----------------------------------------------------------------------------
\* The task of a transcript: _process_voice_item after its 0.2 s.

\* Mutant of Served: the entry of the finished task is kept.
ServedKept(u) == items' = [items EXCEPT ![u].task = "kept", ![u].served = TRUE]

\* The task is over, well or not.
Served(u) == items' = [items EXCEPT ![u].task = "none", ![u].served = TRUE]

BecomesTask(u, what) == items' = [items EXCEPT ![u].task = what]

\* The action is submitted: it waits for its lease, and runs.
Acts(u) ==
  /\ items[u].task = "act" /\ BecomesTask(u, "acting")
  /\ UNCHANGED <<link, server, pumps, turn, flags, visual, sighted>>

\* It has been executed.  A movement is confirmed aloud, unless it was not acknowledged:
\* the error then ends the task.
Acted(u) ==
  /\ items[u].task = "acting"
  /\ (up /\ BecomesTask(u, "confirms")) \/ Served(u)
  /\ UNCHANGED <<link, server, pumps, turn, flags, visual, sighted>>

\* response.cancel, and then response.create.
Confirms(u) ==
  /\ items[u].task = "confirms" /\ Open
  /\ Cancelled
  /\ BecomesTask(u, "tells")
  /\ UNCHANGED <<link, pump, turn, flags, visual, sighted>>

Tells(u) ==
  /\ items[u].task = "tells" /\ Open
  /\ Asked("plain")
  /\ Served(u)
  /\ UNCHANGED <<link, pump, turn, flags, visual, sighted>>

\* Nothing is asked for: the model's own reply is the answer.
Talks(u) ==
  /\ items[u].task = "talk" /\ Served(u)
  /\ UNCHANGED <<link, server, pumps, turn, flags, visual, sighted>>

\* _start_explicit_visual_response: an answer that is being prepared is cancelled, perhaps
\* in line for the GPU lease, and speculation is to be.
Looks(u) ==
  /\ items[u].task = "look" /\ BecomesTask(u, "cancels")
  /\ vision' = TRUE /\ suppress' = TRUE
  /\ answer' = "none"
  /\ LeaksIf(answer = "prepared", "gpu")
  /\ sighted' = sighted \cup {turn}
  /\ UNCHANGED <<link, server, pumps, turn, barrier>>

\* response.cancel has been sent; the answer is prepared by a task of its own.
Cancels(u) ==
  /\ items[u].task = "cancels" /\ Open
  /\ Cancelled
  /\ answer' = "prepared"
  /\ Served(u)
  /\ UNCHANGED <<link, pump, turn, flags, suppress, leaked, sighted>>

\* What has to be sent cannot be: the task ends, and a suppression stays.
TaskGivesUp(u) ==
  /\ items[u].task \in Errands /\ Served(u)
  /\ Refused
  /\ UNCHANGED <<browser, up, server, pumps, turn, flags, visual, sighted>>

\* The view has been inspected, the reply has ended or a second has passed: there is an
\* upstream to ask for the grounded answer, or there is not.
Answers ==
  /\ answer = "prepared"
  /\ \/ up /\ suppress' = FALSE /\ answer' = "sends"
     \/ ~up /\ answer' = "none" /\ UNCHANGED suppress
  /\ UNCHANGED <<link, server, pumps, turn, flags, leaked, items, sighted>>

\* A camera that does not answer ends the task of the answer before that.
AnswerFails ==
  /\ answer = "prepared" /\ Spend("failures")
  /\ answer' = "none"
  /\ UNCHANGED <<browser, up, latest, open, fault, server, pumps, turn, flags, suppress,
                 leaked, items, sighted>>

AnswerSent ==
  /\ answer = "sends" /\ Open
  /\ answer' = "none"
  /\ Asked("plain")
  /\ UNCHANGED <<link, pump, turn, flags, suppress, leaked, items, sighted>>

AnswerGivesUp ==
  /\ answer = "sends"
  /\ answer' = "none"
  /\ Refused
  /\ UNCHANGED <<browser, up, server, pumps, turn, flags, suppress, leaked, items, sighted>>

-----------------------------------------------------------------------------
Handles(p) ==
  \/ Heard(p) \/ Text(p) \/ Swallowed(p) \/ Done(p) \/ LookTool(p) \/ MoveTool(p)
PumpNext(p) ==
  \/ Handles(p) \/ PumpEnds(p)
  \/ ToolDone(p) \/ ToolFails(p) \/ Returned(p) \/ PumpGivesUp(p)
TaskNext(u) ==
  \/ Acts(u) \/ Acted(u) \/ Confirms(u) \/ Tells(u) \/ Talks(u)
  \/ Looks(u) \/ Cancels(u) \/ TaskGivesUp(u)
AnswerNext == Answers \/ AnswerFails \/ AnswerSent \/ AnswerGivesUp
BrowserNext ==
  \/ BrowserJoins \/ Joined \/ BrowserStreams \/ BrowserTypes \/ BrowserSent
  \/ BrowserLeaves \/ BrowserGivesUp
ServerNext == Lose \/ SpeechStarts \/ SpeechStops \/ Revises \/ Replies \/ Ends

VoiceNext ==
  \/ Connects \/ Resets \/ ResetsLate
  \/ BrowserNext \/ ServerNext
  \/ \E p \in Sessions : PumpNext(p)
  \/ \E u \in Utterances : TaskNext(u)
  \/ AnswerNext

VoiceSpec == VoiceInit /\ [][VoiceNext]_voiceVars

\* A lease comes to those who wait for it here, unless it has been taken for nobody.
Comes(inLine, lease) == inLine => lease \notin leaked

\* The event loop runs every task that is ready, waits and connectors end, actions and
\* inspections end once they have their lease; whoever speaks pauses, and the server
\* replies to what it is asked and ends.
FairVoiceSpec ==
  /\ VoiceSpec
  /\ WF_voiceVars(Connects) /\ WF_voiceVars(Resets)
  /\ \A p \in Sessions :
       WF_voiceVars(/\ Comes(pump[p] = "lookTool", "gpu") /\ Comes(pump[p] = "moveTool", "action")
                    /\ PumpNext(p))
  /\ \A u \in Utterances : WF_voiceVars(Comes(items[u].task = "acting", "action") /\ TaskNext(u))
  /\ WF_voiceVars(Comes(answer = "prepared", "gpu") /\ AnswerNext)
  /\ WF_voiceVars(SpeechStops) /\ WF_voiceVars(Replies) /\ WF_voiceVars(Ends)

-----------------------------------------------------------------------------
Events == [type : {"heard", "text", "done"} \cup Tools, utterance : Nat]
Item == [text : Nat, task : Kinds \cup Errands \cup {"none", "acting"},
         served : BOOLEAN, journaled : BOOLEAN]

\* Every variable keeps its type.
VoiceType ==
  /\ {up, fault, mic, barrier, vision, suppress} \subseteq BOOLEAN
  /\ browser \in {"away", "joins", "here", "types", "streams"}
  /\ latest \in 0..MaxSessions /\ open \subseteq Sessions
  /\ wire \in [Sessions -> Seq(Events)]
  /\ pump \in [Sessions -> {"none", "reading", "returns"} \cup Tools]
  /\ reply \in {"none", "free", "plain"} /\ asked \subseteq {"free", "plain"}
  /\ turn \in Nat /\ sighted \subseteq 0..turn
  /\ answer \in {"none", "prepared", "sends"} /\ leaked \subseteq {"action", "gpu"}
  /\ items \in [Utterances -> Item]

\* There is no upstream, no fault, and nobody who is about to find out.
Unnoticed == ~up /\ ~fault /\ ~Needed

\* However a session is lost, whoever finds out, and whether another can be had: if there
\* is no upstream then the fault is up, which the eyes show, or somebody is waiting for
\* the connector (realtime_gateway.py:344-369, 405-416).  The one exception is a revised
\* transcript that cancels the task that was waiting (473).
LossIsShown ==
  [][Unnoticed' =>
       \/ Unnoticed
       \/ \E u \in Utterances : items[u].task \in Errands /\ items'[u].text # items[u].text
    ]_voiceVars

\* The model is not let in with a movement in a turn in which a tool of any pump gave it a
\* view, or the gateway promised it one, whatever turns began meanwhile
\* (realtime_gateway.py:577, 630, 644).  It says nothing of a promise of an earlier turn
\* that is kept in this one (608), nor of what a movement meets after its wait for the
\* lease (656).
NoMoveBesideSight ==
  [][\A p \in Sessions :
       pump'[p] = "moveTool" /\ pump[p] # "moveTool" => turn \notin sighted]_voiceVars

\* The last thing said in every utterance is acted on, whatever revisions cancelled and
\* whatever became of the upstream; unless one of those cancelled was in line for the
\* action lease, and took it to nobody.
EveryUtteranceServed ==
  \A u \in Utterances :
    (items[u].text > 0 ~> items[u].served) \/ <>("action" \in leaked)

\* Of an initial state: the upstream and the browser will stay, and nothing fails.
Undisturbed == left.losses = 0 /\ left.visits = 0 /\ left.failures = 0 /\ left.refusals = 0

\* A lease is gone, or a revision cancelled the task of a question between the suppression
\* and the answer (realtime_gateway.py:579-581), and nobody is to end that.
Stranded == suppress /\ answer = "none" /\ \A u \in Utterances : items[u].task # "cancels"
Stuck == leaked # {} \/ Stranded

\* While the upstream and the browser stay, the latest text of every utterance gets into
\* the journal, although replies are cancelled and their ends swallowed; unless the
\* gateway is stuck for good.
EveryWordIsJournaled ==
  Undisturbed =>
    \A u \in Utterances :
      (items[u].text > 0 /\ ~items[u].journaled ~> items[u].journaled) \/ <>[]Stuck

\* While the upstream and the browser stay, background work is let in again and replies
\* are let through again, unless the gateway is stuck for good.
TurnsEnd == Undisturbed => []<>(~barrier /\ ~suppress) \/ <>[]Stuck
=============================================================================
