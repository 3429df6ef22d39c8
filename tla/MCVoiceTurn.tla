---------------------------- MODULE MCVoiceTurn ----------------------------
(* Instances of VoiceTurn. *)
EXTENDS VoiceTurn

Budget(turns, revisions, tools, losses, visits, failures, refusals) ==
  [turns |-> turns, revisions |-> revisions, tools |-> tools, losses |-> losses,
   visits |-> visits, failures |-> failures, refusals |-> refusals]

\* While everything stays: two turns with a revision or with a tool call, and one with two
\* of each.
Peace == {Budget(2, 1, 0, 0, 0, 0, 0), Budget(2, 0, 1, 0, 0, 0, 0), Budget(1, 2, 2, 0, 0, 0, 0)}

\* One turn in which a session is lost: with a tool call and a failure or a refusal, with
\* a revision and a refusal, with a departure and a refusal, or with a tool call and another loss.
Trouble ==
  {Budget(1, 0, 1, 1, 0, 1, 0), Budget(1, 0, 1, 1, 0, 0, 1), Budget(1, 1, 0, 1, 0, 0, 1),
   Budget(1, 0, 0, 1, 1, 0, 1), Budget(1, 0, 1, 2, 0, 0, 0)}

MCBudgets == Peace \cup Trouble
=============================================================================
