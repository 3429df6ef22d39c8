# Verification of Robit's brain, its link and its side services

TLA+ models of the HouseGremlin repository (the robot "Robit": a Python brain on a
PC, an ESP32 firmware, and side services), the TLC runs that check them, and TLAPS
proofs. Paths below are relative to the repository (`src/` in `PROJECT.json`).

## 1. The system

### Components, their state, their operations

| component | code | state | operations that change it |
|---|---|---|---|
| Resource leases | `brain/app/resource_lease.py` | heap of waiters, `_held`, holder and its priority, foreground barrier, grace timers | `acquire` (queue, wait, claim), its `finally`, `set_foreground_barrier`, `_cancel_after_grace`, cancellation of a waiting or holding task |
| Control channel, PC | `brain/app/control_channel.py`, `ControlChannelClient` | connection phase, sequence number, clock offset, pending acknowledgements | `_run` (connect, hello, drop, back-off), `send`, `_read_loop`, `_heartbeat_loop` |
| Control channel, robot | `firmware/robit_controller/control_channel.cpp`, `motors.cpp`, `robot_state.cpp` | client socket, handshake flag, last sequence, movement and its two deadlines | `acceptNewClient`, `handleHello`, `handleCommand`, heartbeat timeout, `enforceSafetyTimeouts`, restart |
| Actuator broker | `brain/app/control_channel.py`, `ActuatorBroker` | head slot and its waiters, desired pose, manual lease | `head_target`, `drive`, `tracking_drive`, `stop`, `eyes`, `_head_loop`, `_on_connection` |
| Brain coordinator | `brain/app/coordinator.py` | cognitive state, active faults, action lease | `execute_action`, `transition`, `register_fault`, `clear_fault`, state listeners |
| Brain application | `brain/app/main.py` | the singletons, a status cache | the `/robot/*`, `/tracking/*`, `/chat` routes, the connection listener |
| Person tracking | `brain/app/tracking.py` | mode, state, target, motion generation, suspension, aim filter | `enable`, `stop`, `suspend_for_manual_control`, `process_result`, `_run` |
| Eye controller | `brain/app/eye_controller.py` | mood and its expiry, a one-place queue, heartbeat flags | `select_mood`, `observe_state`, `force_sync`, two workers |
| Event journal | `brain/app/journal.py` | bounded queue, writer thread, SQLite rows | `append`, the writer's batches, `close`, `clear` |
| Voice gateway | `brain/app/realtime_gateway.py` | browser and upstream sockets, voice items, provisional action tasks, visual answer | browser and upstream events, tool calls, `shutdown` |
| Vision | `brain/app/vision.py` | snapshots, awareness job | `query`, awareness loop, inference |
| Frame broker | `brain/app/frame_broker.py` | latest frame, rate leases, caches | `get_frame`, `set_rate_lease`, the poller |
| Servos, eyes | `firmware/robit_controller/servos.cpp`, `eyes.cpp` | eased positions, the watchdog's expression | update functions of the main loop |
| Supervisor | `Scripts/supervisor.py` | processes and restart counts | start, watch, restart, stop |
| Memory service | `memory/app` | facts, sources, ingestion cursor, research jobs | store, ingest, supersede, retrieve |
| Tracking sidecar, LLM client, telemetry, camera, Wi-Fi, web page, scripts | `tracking/app`, `brain/app/llm.py`, ... | little or none | input and output |

### How they interact

Everything in the brain runs on one asyncio loop; tasks switch where they suspend.
An action (a route, a voice request, a tool call, a tracking pivot) calls
`BrainCoordinator.execute_action`, which queues for the *action lease*; inside it an
executor calls the `ActuatorBroker`, which sends over the `ControlChannelClient` to the
firmware and waits for an acknowledgement. Head poses of tracking bypass the
coordinator and share one slot with manual ones. Models (chat, vision, detector) queue
for the *GPU lease*, another instance of the same class, with a barrier that the voice
gateway raises while somebody speaks. Connection changes call back into the broker
(restore the pose) and into the coordinator (register or clear a fault). All record
events in the journal and notify state listeners (the eye controller, vision).

### What is hard

* **Interleaving and stale checks**: authorizations, leases and generations are checked
  before an `await` and used after it.
* **Cancellation**: tasks are cancelled by the lease (preemption), by revised
  transcripts and by shutdown, at any suspension.
* **Failure and ordering on the link**: lost, late and cut-off messages, acknowledgements
  of old commands, restarts of the robot, half-open connections.
* **Time**: two clocks, one of which wraps around and is known through one message.
* **Liveness**: who is woken after whom, and whether both ends find together again.

`PROJECT.json` lists each hazard at its line with the property that watches it.

### What makes each part correct

* Leases: one owner; no live waiter forgotten; nothing held by nobody; grants in order of
  priority; no background work behind the barrier; the most urgent is served.
* Link: ok means done; an acknowledged stop is final; no motion without conversation; no
  command is obeyed or followed after its time; both ends recover.
* Broker: everyone is answered, with an outcome not older than the request; nothing is
  sent that its sender may not send any more.
* Coordinator: the published body state belongs to the running action; a stop is not held
  up; every action comes to an end; motion does not outlive a stop or a loss.
* Tracking: state and target agree whatever overtakes a wait; the body turns only for
  somebody acquired again since manual control; a switch is deliberate; who stays is
  followed.
* Eyes: the last expression given is the effective one; moods end; after a loss the robot
  comes to show what the brain wants.
* Sight: a forced frame is newer than the question; awareness yields; questions end.
* Journal and memory: a sequence returned is committed; rows are in the order of calls;
  closing drains; every row is read at least once and counts at most once; links join what
  was judged.
* Gateway: a lost upstream shows; no movement beside a view; the last revision of every
  utterance is acted on and journaled; barrier and suppression end.
* Supervisor: nothing is left running, started too early, or restarted too often; the loss
  of the brain ends the stack.

## 2. The modules

| module | models | abstract state and steps |
|---|---|---|
| `LeaseContract` | what a lease promises: tasks in line, who came before whom, an owner, a closed flag | `Request`, `Grant`, `Return`, `Withdraw`, `Close` |
| `ResourceLease` | `PriorityResourceLease` | one action per stretch of code between two suspensions: `Acquire`, `Resume`, `Release`, `SetBarrier`, `GraceCancel`, `Cancel`; and the mapping to `LeaseContract` |
| `MCResourceLease` | both leases for TLC | the callers and priorities of `brain_models.py` |
| `ResourceLeaseProofs` | theorems about `ResourceLease`, among them that it implements `LeaseContract` | |
| `ControlLink` | both ends of the control connection and the network | `Connect` ... `Send`, `RecvAck` (PC); `Accept`, `Hello`, `Command`, `HeartbeatTimeout`, `EnforceSafetyTimeouts`, `Reboot` (robot); `Cut`, `Tick`, `Drift` (world) |
| `MCControlLink` | it for TLC | ticks of half a second |
| `ControlLinkProofs` | theorems about `ControlLink` | |
| `ActuatorBroker` | head slot, worker, manual lease, restore, pivots | `ManualHead`, `TrackingHead`, `TakeSlot`, `Decide`, `Write`, `Acked`, `SendFails`, `LinkUp`, `LinkDown`, `TrackingDrive`, `PivotGoes`, ... |
| `Coordinator` | `execute_action` with lease, faults, link | `Propose`, `Grant`, `Start`, `Obey`, `Complete`, `Fail`, `Refuse`, `CancelOwner`, ... |
| `CoordinatorProofs` | theorems about `Coordinator` and `ChatTurns` | |
| `ActuatorBrokerProofs` | theorems about `ActuatorBroker` and `Expression` | |
| `EventJournalProofs` | theorems about `EventJournal`, `MemoryStore` and `BrainIngest` | |
| `PersonTrackingProofs` | theorems about it | |
| `VisionProofs` | theorems about `FrameBroker` and `Vision` | |
| `StandaloneProofs` | theorems about `Supervisor` and `VoiceTurn` | |
| `ChatTurns` | the handlers of `/chat` and `/chat/action`, over `Coordinator` | `Asks`, `Tracked`, `Says`, `Decides`, `Wonders`, `Sees`, `Explains`, `Acted`, `Dies` |
| `MCCoordinator` | both for TLC, in two scenarios | a stop, a head move, a voice drive, a tracking pivot; the first two by routes or by chats |
| `EyeController` | moods, overlays, the one-place queue and its worker, heartbeat | `SelectMood`, `MoodExpires`, `Transition`, `SetVoiceSession`, `HeartbeatOk`, `HeartbeatMissed`, `Takes`, `Succeeds`, `Fails` |
| `Expression` | `ActuatorBroker` and `EyeController` with the eyes command, the restore and the eyes of the firmware | `TakeEyes`, `WriteEyes`, `Arrives`, `Reconnects`, `Disconnects`, `WriteRestore`, `Watchdog`, `Restarts`, ... |
| `MCExpression` | it for TLC, in two scenarios | |
| `PersonTracking` | `PersonTrackingService` and those who enable, stop and suspend it | `Look`, `Result...` (five), `Told`, `Turn`, `Turned`, `Suspend`, `Preempted`, `LoopCancelled`, `Starves`, `Tick`, ... |
| `FrameBroker` | the shared frame, its lock, the polling loop, the rate | `Calls`, `Cached`, `Fetches`, `Fetched`, `FetchFails`, `PollWaits`, `SetRate` |
| `Vision` | explicit questions and the awareness loop, over `FrameBroker` and `LeaseContract` | `Question`, `Queues`, `Answered`, `Wakes`, `Starts`, `Infers`, `Finds`, `JobCancelled`, ... |
| `VoiceTurn` | `RealtimeGateway`, with the speech server as its surroundings | `Connects`, `Resets`, `Refused`; `Heard`, `Text`, `Done`, `MoveTool`, `LookTool`, `Returned`, `PumpEnds`; `Acts`, `Confirms`, `Looks`, `Cancels`, `Answers`, ... |
| `MCVoiceTurn` | it for TLC: what a behaviour may use up | |
| `EventJournal` | `EventJournal`, its writer thread, the end and the start of the brain | `AppendDurable`, `Settled`, `CommitTimeout`, `Get`, `Fill`, `Commit`, `Rollback`, `Close`, `Exit`, `Start`, ... |
| `MemoryStore` | the graph of facts and the service that asks the judge | `Learn`, `Duplicate`, `Distinct`, `Unrelated`, `Link`, `Forget`, `ServiceDies` |
| `BrainIngest` | the watcher between the two, with its watermark file | `ReadEvents`, `FixSnapshot`, `IngestRow`, `SaveState`, `LockedOut`, `OthersWrite`, `TornState`, `WatcherStops` |
| `MCMemory` | the three for TLC | |
| `Supervisor` | `Scripts/supervisor.py`, the services as processes | `Launch`, `Await`, `WatchOne`, `Restart`, `Reawait`, `StopOne`, `Interrupt`, `Die`, ... |

How they are composed:

* `ResourceLease` implements `LeaseContract` (checked and proved), and `Coordinator` and `Vision` use
  `LeaseContract` in the place of the lease: in `Coordinator` the steps `Propose`, `Grant`,
  `Conclude` contain `Lease!Request`, `Lease!Grant`, `Lease!Return`; in `Vision` talking
  contains `Lease!Close`. The contract allows a cancelled waiter to withdraw, and
  `ResourceLease` does not keep a withdrawn one from being granted the lease for nobody.
  `Coordinator` therefore has no withdrawal: who is cancelled in line stays there, and the
  lease that comes to him is lost (`LeaseLost`). `VoiceTurn` and `PersonTracking` see of
  the leases that they come, or have been lost (`leaked`, `Starves`).
* `ChatTurns` EXTENDS `Coordinator`: a chat proposes an intent and awaits its
  terminal event, and does only what `Coordinator` allows (proved).
* `Expression` EXTENDS `ActuatorBroker` and `EyeController`: one connection, on which head
  and eyes are restored one after the other by the same listener. What happens to the head
  is what happens in `ActuatorBroker` (proved).
* `Vision` EXTENDS `FrameBroker`; `BrainIngest` EXTENDS `EventJournal` and `MemoryStore`:
  brain, watcher and memory service are three processes over two SQLite files. The journal
  runs as in `EventJournal` (proved).
* `ActuatorBroker`, `Coordinator` and `Expression` see the link as up or down and a command
  as carried out or not; `ControlLink` has the link itself. `PersonTracking` has the
  authorization that `ActuatorBroker` knows as `fresh` and `mayPivot`.

### Correspondence

* **ResourceLease.** `waiters` is the heap in order of arrival (`IsHead` is the order of
  `_Waiter`); `ready` are the tasks whose future is done; `notified` those a
  `notify_all` has woken; `holder` is `_holder_task`, and with it `_holder_priority`
  (its priority is that of the task); a cancelled waiter stays in the heap with owner
  `NoTask`. The condition's lock is never held across a suspension, so it needs no state.
* **ControlLink.** Commands are numbered for the properties (`kind`, `age`, `outcome`,
  `obeyed` are history); on the wire they carry `seq` and `expires`. A connection is a
  pair of queues, with who has closed it and whether it is cut. `skew` is what matters of
  `_server_clock_offset_ms`: how far the client's idea of the robot's clock is behind.
  `Late` has the signed comparison of the firmware and its special 0. Arithmetic on
  clocks is modulo `ClockSize`, which stands for 2^32.
* **ActuatorBroker.** Request n asks for pose n. `answer` are the futures, `queued` and
  `served` the waiters of the slot and of the worker's job. An authorization of tracking
  is a membership in `fresh` that `Expire` may end at any time.
* **Coordinator.** `event[t]` is the last `action.*` event of intent t; `owner`, `line`
  and `before` are the contract's; `doomed` are the owners the lease is about to cancel;
  `gone` are the tasks that were cancelled, in line or in the action.
* **ChatTurns.** `stage[c]` is the `await` the handler of chat c is in; the texts are left
  open, so that every branch after an answer is possible. A chat's action is one intent.
* **EyeController, Expression.** `Effective` is `_desired_expression`; `expires` and `timer`
  are `base_expires_at` and the task that waits for it. `restore` is where the listener is,
  `restored` the expression it read before it awaited the head. `sound` says of a behaviour
  that eye commands fail with their connection only.
* **PersonTracking.** Each `loop` value is an `await` of `_run` or of what it calls; callers
  act while it is there. `current` says that the pivot's generation is still
  `_motion_generation`. `doomed` is a grace timer of the action lease that is set for the
  task of the loop: when it fires the loop is "gone", at whatever `await` it is by then.
  Timers count ticks; `seen` is history for the properties.
* **FrameBroker, Vision.** `lockLine` is the line of `asyncio.Lock`; `at` says where every
  caller of `get_frame` is. `frame.new` are the callers that had asked when the frame was
  taken. A job that owns the lease is "queued" until it wakes up with it, which is when
  `_holder_priority` is set; `doomed` is the lease's cancellation of the job's task. `outrun`
  is history: the questions that were in line when the job began.
* **VoiceTurn.** Sessions are numbered as they are opened; `up` says that `_upstream` is not
  None, and then it is the session `latest`. `wire[p]` are the events of session p that its
  pump has not read, `pump[p]` the tool that pump runs, or "returns". Everybody who is in
  `_send_upstream` or `_ensure_upstream` is in a state of his own (`Needed`): the browser
  "joins", "types" or "streams", a task "confirms", "tells" or "cancels", the answer "sends",
  a pump "returns". So a socket that is found closed (`Resets`), the wait for the connector
  and its answer (`Connects`, `Refused`) are steps of their own, with everybody else going
  on in between. `items[u]` is the latest text of utterance u, its task, and whether that
  text was served and journaled. `sighted` are the turns in which a tool gave a view or a
  question was promised one, `leaked` the leases a cancelled waiter may have taken.
* **EventJournal.** Events are numbered by their calls of `append`; `rows` is the table,
  `lastSeq` the counter of AUTOINCREMENT, which a rollback gives back and a clear does not.
* **MemoryStore, BrainIngest.** `facts` and `prov` are the tables, `lastProv` the id that
  AUTOINCREMENT gave last. An open write transaction of the service (`stuck`) keeps
  every other writer out. `mark` is `last_sequence` in the state file. `txn` is the
  transaction of the watcher's connection: sqlite3 begins one before the first INSERT, and
  one whose INSERT fails stays open ("begun"); the next SELECT fixes what it reads
  ("fresh"), and a commit of others makes that "stale", with `seen` the sources it shows.
* **Supervisor.** `at` and `cur` are the place in `main`; `stray` are services whose port a
  process of an earlier session holds, so that `Ready` is true before the new one serves.

## 3. The runs

A run's `...Inv` is a conjunction of named parts, each with its own comment in its
module; the table names the parts that say more than types.

| run | invariants | action and liveness properties | distinct states |
|---|---|---|---|
| `lease_gpu` | `NoLeakedLease` | `FreeLeaseIsGranted` (= `LeaseContract!FairSpec`), `MostUrgentServed` | 44,872 |
| `lease_actions` | `LeaseInv` (exclusion, nobody forgotten, `HeapOK`) | `ImplementsContract`, `GrantsInPriorityOrder` | 25,160 |
| `control_safety` | `LinkSafety` (`OkMeansObeyed`, `Numbering`, `NobodyNoMotion`) | `StopIsFinal` (an invariant) | 3,349,120 |
| `control_recovers` | | `OnTime` (`NeverLate`, `MotionIsFresh`), `Recovers` | 86,122 |
| `coord` | `CoordinatorInv` (`BodyTellsTheTruth`), `AtMostOneBeforeStop`, `ChatInv` (`RepliesAreTrue`, `ConversationGivenBack`) | `EveryActionConcludes`, `ChatsEnd` | 189,507 |
| `broker` | `BrokerInv` (`OkIsYoursOrNewer`), `SettledIsLatest` | `OlderOnlyInPassing`, `EveryoneAnswered`, `MoodEnds`, `EyesCatchUp` | 462,699 |
| `tracking` | `TrackingInv` (`StateMatchesTarget`) | `TurnsOnlyForReacquired`, `SwitchIsDeliberate`, `FollowsWhoStays` | 678,763 |
| `sight` | `SightInv` (`FreshIsFresh`, `RateIsNoticed`) | `AwarenessYields`, `SightGoesOn` (`QueriesEnd`, `AwarenessGoesOn`) | 241,800 |
| `voice` | `VoiceType` | `LossIsShown`, `NoMoveBesideSight`, `EveryUtteranceServed`, `EveryWordIsJournaled`, `TurnsEnd` | 224,371 |
| `memory` | `JournalInv` (`AnswerIsCommitted`, `InOrderOfCalls`, `ClosedIsDrained`), `LinksAsJudged`, `ReadOnceAndForAll` (`NothingSkipped`, `CountedOnce`) | `CatchesUp` | 604,001 |
| `supervisor` | `SupervisorInv` (`NoOrphans`, `StartedInOrder`, `RestartsAreBounded`) | `ExitsAreDealtWith` (`BrainLossEnds`, `SidecarsComeBack`) | 296,059 |

`lease_stop_stuck` (566 states) is the one run that expects a violation; it is the finding
in `PROJECT.json`: a cancelled waiter, when its turn comes, takes the lease to nobody, and
a stop in line waits for ever. What rests on a lease allows for that and for nothing else:
`EveryActionConcludes` and `ChatsEnd` say that every action and every chat ends unless the
lease is lost in this very way (`LeaseLost`), `FollowsWhoStays` that the loop goes on unless
its pivot waits for such a lease or is preempted, `EveryUtteranceServed`, `EveryWordIsJournaled` and
`TurnsEnd` that the gateway gets stuck in no other way but by a lease that a task cancelled
by the gateway itself may have taken (`leaked`), or the one way named under Voice below.

### Other disagreements met while modelling

Each of these is behaviour of the models, and so of the code, that a document or a comment
speaks against, or that a reader may not expect. Where a definition is named, TLC finds it
violated; none of them is a property of a run.

Leases and coordinator

* Preemption of a tracking pivot cancels the tracking loop with it (`LoopsLive`): the
  pivot runs in the loop's own task (`tracking.py:1023`), and nothing starts the loop again
  after `tracking.py:1100-1101`. That is the exception of `FollowsWhoStays`.
* The GPU lease can be lost in line like the action lease (`NoLeakedLease` with
  `Cancellable = {look}`): a visual question by voice waits for it in the gateway's own
  task, which the next such question or the end of the session cancels
  (`realtime_gateway.py:576`, `:861`). `lease_gpu` and `sight` are about the lease while that
  does not happen; `voice` has it.
* A task that was given the lease and has not resumed is not preempted by a more urgent
  one that asks in between (`resource_lease.py:56`): `_holder_priority` is still None. So a
  background job can run, and add to the memory, while a question waits that asked in
  that moment; `AwarenessYields` says that it never does while one waits that asked later.
* A drive asked for before a stop starts after it (`NoMotionAfterStop`; DESIGN.md:571 and
  512-513), and a drive that is in line when the link is lost starts after the reconnect
  (`main.py:251` registers a fault and cancels nothing).

Typed chats (`main.py`)

* A chat that ends by an exception (the model, the camera or the robot fails) leaves the
  conversation `formulating` until another turn begins and ends: the eyes show it, and the
  awareness loop sleeps. `ConversationGivenBack` says that nothing else does.
* The end of one chat makes the conversation idle while another is under way.
* A movement the model decides on after the user has stopped the robot is carried out.

Link

* A connection lost before its hello blocks the robot for ever: no timeout covers a client
  that has not said hello (`Recovers` with `HelloMayBeLost = TRUE`).
* The clock offset is as wrong as `hello_ack` was late (`control_channel.py:189`). After a
  slow one every stop of that connection arrives "expired"; pings, which have a longer
  ttl, keep the connection up meanwhile. The offset is never corrected, so with a drifting
  clock a command is obeyed after its ttl, by as much as the drift.

Broker and eyes

* A reconnect sends the head to a pose of tracking whose frame has expired
  (`RestoresNoExpiredGaze`; docs 2026-07-25-face-first-tracking-design.md:188-189).
* A tracking pose that waits for the link inside `send` is written although manual control
  has taken the lease meanwhile (`control_channel.py:563`).
* The listener of the first connection may restore an expression older than the one a
  worker has just sent; nothing sends the newer one again (`EyesCatchUp` without its
  hypothesis). An eyes command that fails while the connection stays is not sent again
  before the next change, and one by manual control goes past the controller.

Tracking and sight

* The body may turn at the first result: `_pivot_excessive_since` is not reset when
  manual control ends (`TurnIsConfirmed`; architecture.md:119).
* A failing camera ends the awareness loop (`WakesBlind`, `vision.py:377`), and a question
  does not fall back to the frame there is (`vision.py:304`).
* A description carried forward may be of another scene (`TellsWhatIsShown` with
  `Scenes = {"hall", "desk"}`; `vision.py:356`, architecture.md:93-95).

Voice (`realtime_gateway.py`)

* A visual question that ends before its answer mutes the voice for ever, for nobody else
  lowers the suppression: a camera failure (`:589`), a `response.cancel` that cannot be sent
  (`:580`), or a revision that cancels the task between `:579` and `:581` (`Stranded`).
* Between `:367` and the connector's answer there is neither an upstream nor the fault, for
  seconds, and for good if a revised transcript cancels the task that waits there (`:473`).
  A second sender that fails after the first has reconnected drops the new session
  (`ResetsLate`); its pump, which goes on reading, ends with the next loss.
* A view that was promised in one turn and given in the next (`:608`, after `:433`) does not
  keep movements out of that next turn; and a movement that was let in before a view starts
  after it, if it waited for its lease meanwhile (`:644`, `:656`). `NoMoveBesideSight` is
  about what is let in, in the turn of the promise or of a tool's view.
* The fault stays when an older pump ends by an error after the reconnect (409); a response
  that ends after a barge-in lowers the barrier while the user speaks (DESIGN.md:399).
* A transcript is compared with explicit actions only once those are finished (650);
  `_voice_items` is never pruned (455); a movement without an acknowledgement raises past
  662, and the user is not told of an explicit movement that fails by an exception (701).

Memory

* An INSERT that meets "database is locked" leaves its transaction open, for `watch_brain`
  only logs the error (`brain_ingest.py:326-327`). If the service then commits between the
  watcher's next SELECT and INSERT, every INSERT of the watcher fails from then on, although
  nobody holds the lock, until the process is started again (`CatchesUp` without its second
  hypothesis).

Supervisor

* A restart that does not get ready ends the stack although attempts are left; this is by
  design, and part of `SidecarsComeBack`.

### Bounds, and why they are enough

* Lease: every kind of caller the code has is there once (chat twice, for first come first
  served among equals); one task waits at most once at a time, and abandoned waiters fill
  the heap up to `MaxWaiters` (one or two more than there are tasks).
* Link: the tick is half a second, so that the 750 ms movement timeout, the 1000 ms ttl of
  a stop and the delay of a `hello_ack` (up to 1.5 s) differ. A clock of 8 ticks wraps
  around several times within a run; `LinkAssumption` states what the 32-bit clock has
  of room. Two commands and two connections are the smallest case in which sequence
  numbers repeat, a stop follows a drive, and an acknowledgement can meet the wrong send.
  `Conns` are symmetric in the run without liveness. One loss there, two in
  `control_recovers`, which has one command and a drift of one tick.
* Broker: three requests are one in the worker, one in the slot, one to replace it; two
  losses let a reconnect fall into any stage of the worker twice. Head requests and the
  controller's changes (two) are checked in two scenarios of one run (`MCExpression`):
  together they meet only in the listener, which the second has with a head to restore.
* Coordinator: one intent of each kind; a second drive would add nothing the pivot does
  not do. Two chats overlap, one of which wants to stop; they run beside the tracking loop
  and over a link that is lost once, in a scenario of their own (`MCCoordinator`).
* Tracking: two people, one of whom may be lost for the other; two commands by callers, one
  movement, one spoken turn and one late answer. The times are in ticks and smaller than
  the real ones (`tracking.cfg` has both), in the same order where the order matters.
* Sight: one question with its two tries, the awareness loop and the polling loop are the
  three callers of one lock. One scene, as what is carried forward is not part of the properties.
* Voice: what a behaviour may use up is chosen at the start (`MCVoiceTurn`). In peace: two
  turns with a revision or with a tool call, or one turn with two of each, so that a question
  is cancelled by its revision at each of its stages. In trouble, one turn with a loss and
  what it should meet: a tool call with a failure, a refusal or a second loss; a revision and
  a refusal; or a browser that leaves and a refusal. Three sessions are the first and one
  for each of two losses or failures, which `VoiceAssumption` asks for, so that no behaviour
  ends for want of a session number.
* Memory: two callers and a queue of one place, so that one waits for room; two events in
  a batch of two; one failed transaction, one crash. Apart from those (`MCMemory`), the
  same events, appended by one thread, with two facts that are taught directly and one that
  is forgotten: the first can lock the watcher out, the second make its snapshot stale.
* Supervisor: three exits reach the limit of two restarts; two times Ctrl+C, the second
  while the first is served.

`CHECK_DEADLOCK FALSE` is set where every bounded resource may be used up or the program
ends (`coord`, `memory`, `supervisor`, `voice`), and for the action lease with cancelled
waiters, where the lease really stops (`lease_actions`, `lease_stop_stuck`).

### Fairness, and why the code justifies it

* `ResourceLease!FairSpec`: the event loop resumes every notified task and fires every
  timer, and the bodies end, for each awaits something with a deadline. `TurnFairness`
  adds that voice turns end, and that a task is not met by the barrier each time it wakes.
* `ControlLink!FairSpec`: both programs keep running and their timers go off. For
  `Recovers` the timers are also assumed to be right (`TimersAreRight`): they go off over
  a dead connection only, which pings and telemetry every second against limits of 1.5 s
  and 3 s provide for under ordinary delays; without this no pair of programs stays
  connected. And the hello is spared (`HelloMayBeLost`, see above).
* `ActuatorBroker`, `Expression`: the workers and the listener are tasks that run for
  ever, each `send` ends, by its acknowledgement or its deadlines, the mood's timer fires,
  and the robot that is connected answers the heartbeat now and then.
* `Coordinator!FairSpec`: a free lease does not stay free (it goes to the next in line, be
  he gone: `ResourceLease` pops him and sets `_held`), who has it and lives wakes up, and
  executors return or raise. `ChatFairness` adds that tracking and vision answer or fail, not that the model does.
* `PersonTracking!FairSpec`: time passes, and every await of the loop ends: probe, sleep
  and detector have deadlines, a turn ends by its acknowledgement or its failure, and the
  action lease comes unless it is lost, which `Starves` may choose. A grace timer that is
  set fires. Callers need not come back.
* `Vision!FairSpec`: the loops, `get_frame` and inference end; strong fairness of
  `Granted` is the lease's promise that a foreground user gets it, which needs people to
  stop talking now and then (`FallsSilent`).
* `VoiceTurn!FairVoiceSpec`: pumps read, connectors answer or refuse, tasks run, and the
  speech server ends the speech and the replies it began. Tools, actions and inspections
  end once they have their lease; whoever waits for one that may have been taken for nobody
  (`Comes`) need not go on. The browser need not come back.
* `BrainIngest!Fairness`: the watcher's four steps, as it polls in a loop. The journal's
  writer needs none: `CatchesUp` is about rows that are there.
* `Supervisor!FairSpec`: `main` goes on, for each of its waits has a limit; processes need
  not exit and nobody need press Ctrl+C.

## 4. What is proved

Each theorem holds for every value of the constants that satisfies the module's named
assumption. Each proof has the same shape: `...!IInv`, or the invariant itself where it is
inductive, a lemma that the initial states have it, one lemma for each action, one that
combines them, and a temporal step. Every inductive invariant was checked with TLC first.

`ResourceLeaseProofs` (finite or not: no property needs finiteness):

* `LeaseInvariant`: `Spec => []LeaseInv`. `MutualExclusion` alone is not inductive. A step
  that readies a waiter relies on `_held` being set as long as somebody owns the lease;
  that in turn needs that the holding task is the holder, that ready tasks are suspended,
  and that the heap holds each live suspended task once, with its own priority, and none
  that is ready already (`HeapOK`).
* `TypeCorrect`, `Exclusion`, `NobodyForgotten`: parts of it.
* `OnlyTheCancelledLeak`: `Spec => OnlyCancellationLeaks`, with every caller and every
  cancellation. As long as nothing is held for nobody and the heap has no abandoned waiter
  (`Sound`), the one step that can end that is the cancellation of a suspended task, by other
  code or by its own grace timer. So preemption of running bodies, the barrier and all
  wake-ups are safe, and `lease_stop_stuck` shows that the exception is not. The run
  `lease_gpu` checks the invariant for a lease nobody leaves.
* `BackgroundKeptOut` and `UrgentFirst`: the action properties `BarrierStopsBackground` and
  `GrantsInPriorityOrder`, from the invariant and from what `_wake_next_locked` chooses
  (`ChosenAsHead`, `NewOwnerIsHead`).

* `ContractKept`: `Spec => ImplementsContract`. The line of the contract is that of the live
  waiters (`InLine`), and who came before whom is read off the heap (`CameBefore`). A pop
  that skips the abandoned waiters is one `Serve` of the contract, because the head is
  `First` of the live ones (`HeadIsFirst`); an abandoned waiter leaves no line (it left
  when it was cancelled); a cancelled task is a `Withdraw`, or a `Return` when it had been
  given the lease already; a notification that finds the lease taken is a stutter. It needs
  `LeaseInv`: where a live task could be in the heap twice, its second place would stay.

There is one lemma for each piece the actions share (`WakeNextOutcome`, `HeapAfterWake`,
`ContendKeepsInv`, `LetGoKeepsInv`, `AbandonKeepsInv`).

`ControlLinkProofs` (every set of connections, ttl, clock width, delay and drift, any
bound on commands and losses):

* `LinkInvariant`: `Spec => []LinkInv`. `OkMeansObeyed` is not inductive: an ack carries
  a sequence number, every connection counts from 1, and a step of `RecvAck` trusts that
  number. `LinkInv` adds `Numbering`: the numbers of the present connection and those of
  all commands differ by one and the same amount, in `pending`, on the way to the robot,
  and in what it has accepted (`PendingNumbered`, `UpNumbered`, `DownNumbered`); nothing is
  pending without a connection; and whatever is on its way anywhere has been sent
  (`KnownCommands`, for what the robot still reads from an old connection).
* `NumbersAgree`, `LinkTypeCorrect`, `AcksAreTrue`, `StillWithoutClient` and, all together,
  `LinkIsSafe`: what `control_safety` checks.
* `AcknowledgedStopHolds`: `Spec => []StopIsFinal`. It needs `Onwards`: whatever the robot
  may still read is younger than all it has obeyed, and of the connections it has not yet
  accepted all but the client's own hold nothing but their hello. A stop that was obeyed
  is then the last word until a younger command is obeyed.
* `CommandsAreOnTime`: `Spec => OnTime`, with comparison modulo a clock of any size
  (`DateOfSending`, `DateKept`, `InTime`, `OneMoreTick`). `TimeInv` dates every command under
  way: `expires` is the end of its ttl but for an error that was the client's when it sent,
  has drifted with it since, and stays in `Skews` (`Dated`). It lets no command be under
  way but to the robot's client (`OnlyClients`), which is why delays bound their age, and
  nothing be under way or followed when the clock is estimated anew (`Resting`), which is
  why no command is judged by another connection's error. The drive that is followed was
  obeyed in time, and the movement timeout counts from then (`Followed`). It rests on
  `LinkAssumption`: ttl, delay and drift are small beside half the clock.

`CoordinatorProofs` (every set of intents, kinds and priorities, every number of chats):

* `BodyIsTrue`: `Spec => []CoordinatorInv`, inductive as it stands, because the contract's
  line is a set: whoever is granted the lease leaves it, so nobody owns it and waits. Like
  the next it holds with waiters that are cancelled in line.
* `StopWaitsForOne`: `Spec => []AtMostOneBeforeStop`. `StopInv` adds that whoever was given
  the lease since a waiting stop was overtaken is as urgent as that stop (`NextIsUrgent`).
  So only the action that had the lease, not yet started, when the stop was asked for can
  be started before it.
* `ChatsAreClients`: `ChatBehaviour => Spec`. `ChatTurns` implements `Coordinator`, so both
  theorems above hold with the chats.
* `ChatIsTrue`: `ChatBehaviour => []ChatInv`, inductive with what each stage of a handler
  knows of its action (`StageOfAction`), and with that a completed action was obeyed.

`ActuatorBrokerProofs` (any number of requests and losses):

* `BrokerInvariant`, and from it `BrokerTypes` and `OkIsTrue` (`OkIsYoursOrNewer`). The
  request in the worker is older than that in the slot, every waiter is not younger than
  the request it waits for, and what lies in the line to the robot is in order with the
  head (`InOrder`, `NothingOlder`, `LineInOrder`).
* `HeadGoesBackInPassing`: `OlderOnlyInPassing`, an action property, from the same.
* `ExpressionImplementsBroker`: `ExpressionSpec => Spec`, with the identity as mapping. The
  two steps to look at are those of the one listener: the head's restore hands over to the
  eyes' and a reconnect starts both.
* `EyesAndHeadAreTrue` (`BrokerInv`) and `EyesSettle` (`SettledIsLatest`). The eyes are
  right, or the queue, the worker's command or the debt a failure leaves stands for what is
  wanted (`Wanted`); a command on its way belongs to one of two senders (`WireInv`).

`StandaloneProofs`, of the two components nothing else is composed with. Of the supervisor
(any bounds):

* `StackInvariant` and `StackIsSafe` (`SupervisorInv`). The inductive invariant says for
  every place in `main` what has started (`Place`, `Unstarted`, `Passed`), how the counts
  relate to the attempts (`Counted`), and that the stop has passed what runs no more
  (`StopPassed`).

Of the voice gateway (any number of turns, transcripts, sessions, tool calls, losses and
failures):

* `VoiceIsTyped` (`VoiceType`), with `VoiceIInv`: each part of the state has its type, and
  the flag of the turn is up if this turn is `sighted` (`Flagged`). A session number within
  bounds follows from the guard of `Connects`.
* `MovesAreBlind` (`NoMoveBesideSight`), an action property. `Flagged` is kept because
  whoever adds this turn to `sighted` raises the flag with it, and only a new turn, which
  is in no set of past turns (`NextTurnIsNew`), lowers it; so a pump that returns from a
  view in a later turn than it was called in is no exception.
* `LossShows` (`LossIsShown`), an action property. A step that leaves an upstream, the fault
  or somebody who waits is no loss (`ManifestSteps`); nor is one that changes nothing of
  the three (`PlainSteps`, `QuietSteps`). What remains is who stops waiting: a task that
  ends by a failure raises the fault (`TaskLossStep`), a pump too (`PumpLossStep`), and a
  transcript can cancel a waiting task, which is the exception (`TextLossStep`).

`EventJournalProofs` (any queue limit, batch size, number of callers, facts and failures):

* `JournalInvariant` and `JournalIsTrue` (`JournalInv`). Numbers of rows, batch and queue
  are increasing and lie one behind the other (`Ranges`, `Lined`), each waiting caller's
  event is in one of them (`Waiters`), an answer was told from a row (`Told`), and closing
  leaves nothing behind (`Closing`).
* `MemoryKeepsJournal`: `Spec => JournalSpec` of `BrainIngest`: both hold with the readers.
* `LinksAreTrue` (`LinksAsJudged`). A fact is never reworded and no id is given twice
  (`Tables`), so a judgement made while the store was let go of still fits the two ids it is
  stored with, or one of them is gone (`AskedInv`).
* `EventsCountOnce` (`ReadOnceAndForAll`). `WatchInv` says for every step of the watcher
  what of the journal it has read, what of that is recorded, and that the watermark is not
  ahead of it, and of a stale snapshot that it shows no source the store does not have, so
  that what is skipped is recorded. Counting provenance needs a little induction over finite sets; the library's
  induction theorems take an operator, so `LeastElement` (a set of numbers has a least one)
  stands for them.

`PersonTrackingProofs` (any people and timers):

* `StateIsTrue` (`TrackingInv`), also of a loop that has been cancelled. It is inductive with
  `Windows`: while tracking is suspended there is no target, and a pivot still wanted, at
  whatever `await` the loop is, is for somebody.
* `BodyTurnsForReacquired` (`TurnsOnlyForReacquired`) and `SwitchTakesResults`
  (`SwitchIsDeliberate`), action properties, from `Counted`: the counters of the code count
  no more than was really seen, whoever is followed was seen often enough, and a change of
  who is followed forgets both.

`VisionProofs` (any number of questions and scenes):

* `SightIsFresh` (`SightInv`). `FrameInv`: whoever fetches holds the lock, and a question
  that was handed a frame was waiting when it was taken. `Stages`: everybody in `get_frame`
  is at the line that called it, so nobody's frame changes before the model has seen it.
* `JobsYield` (`AwarenessYields`), an action property. `LeaseInv` ties the contract's line
  and owner to the stages of questions and job, `Preempts` says that a job that infers
  while somebody talks, or while a question waits that was not in line when it began, has
  been told to stop. A job whose lease is only reserved is told nothing, and begins all the
  same: hence `outrun` in the property.

Only model-checked:

* `FreeLeaseIsGranted` and all other liveness properties: under fairness they are out of
  TLAPS's reach.

`OnlyCancellationLeaks` is only proved: no run has it as a property.

## 5. What is not modelled

The components marked `not_modelled` in `PROJECT.json`, with the reasons there. Within the
modelled ones: contents of telemetry and logs, statistics, the form checks of messages
(sizes, JSON, protocol version), angles and speeds, the reconnect back-off, the wording of
faults and answers, the state of the conversation that the voice gateway publishes, the
seeding of a voice session, the scene refresh, shutdown of the gateway, rendered pictures of the frame broker, entity nodes, `re_embed` and retrieval of
the memory service. `main.py` is in the models where it talks, starts an action, listens to
the connection or calls a service; its many routes that only read state are not.

## 6. Plan

1. *(done)* `LeaseContract`, `ResourceLease`, `ControlLink`, `ActuatorBroker`,
   `Coordinator`; proofs of the lease and of the numbering of the link.
2. *(done)* `EventJournal`, `MemoryStore`, `BrainIngest`; `EyeController` and the eyes of
   the robot; `PersonTracking`; `FrameBroker`, `Vision`; `VoiceTurn`; `Supervisor`.
3. *(done)* Proofs of every safety property the runs check; the four implementations of
   section 2.
4. Left to model: `Servos` as a pure algorithm, entity nodes and `re_embed`, the scene
   refresh and the seeding of voice sessions, the tool routes of `main.py`.
