---------------------------- MODULE MCExpression ----------------------------
(***************************************************************************)
(* Two scenarios over the same connection, chosen at the start: head       *)
(* requests and pivots while nobody has a look at the eyes, which the      *)
(* listener does not come to either, or the eye controller, with a head    *)
(* that is only restored.                                                  *)
(***************************************************************************)
EXTENDS Expression

MCInit == ExpressionInit /\ (running \/ sound)

MCNext ==
  /\ ExpressionNext
  /\ IF running THEN UNCHANGED <<source, lease, pivot>> ELSE changes' = 0 /\ UNCHANGED shown /\ restore' # "eyes"

MCSpec == MCInit /\ [][MCNext]_allVars /\ ExpressionFairness
=============================================================================
