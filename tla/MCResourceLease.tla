-------------------------- MODULE MCResourceLease --------------------------
(***************************************************************************)
(* The two leases of BrainCoordinator, small, with the priorities of       *)
(* WorkPriority in brain/app/brain_models.py.                              *)
(***************************************************************************)
EXTENDS ResourceLease, TLC

CONSTANTS
  chat, chat2, \* main.call_llm, foreground
  look,        \* VisionService._process_explicit, explicit_vision
  detect,      \* the rfdetr-request task of tracking, target_reacquisition
  describe,    \* VisionService._run_background_inference, background
  manual,      \* /robot/drive, /robot/head, /robot/stop: manual_action
  voice,       \* explicit voice requests of the gateway, manual_action; a revised
               \* transcript cancels the task (realtime_gateway.py:473)
  model,       \* /robot/action, chat and voice actions: model_action
  track        \* the tracking loop's pivots, background

GpuPriority ==
  [t \in Tasks |->
     (chat :> 20 @@ chat2 :> 20 @@ look :> 25 @@ detect :> 45 @@ describe :> 50)[t]]

ActionPriority ==
  [t \in Tasks |->
     (manual :> 30 @@ voice :> 30 @@ model :> 40 @@ track :> 50)[t]]

\* The fairness under which the most urgent tasks of the GPU lease are served.
TurnSpec == FairSpec /\ TurnFairness

\* No wake-up is lost: a free lease with somebody in line who may have it is
\* given away without waiting for another call.
FreeLeaseIsGranted == Contract!FairSpec

============================================================================
