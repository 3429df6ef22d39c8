--------------------------- MODULE MCControlLink ---------------------------
(***************************************************************************)
(* The control link in ticks of half a second: COMMAND_TIMEOUT_MS 750 is   *)
(* between one tick and two, a stop is sent with ttl_ms 1000, a drive with *)
(* its duration and 500 ms on top.                                         *)
(***************************************************************************)
EXTENDS ControlLink, TLC

LinkTtl == [k \in Kinds |-> IF k = "drive" THEN 1 ELSE 2]

ConnSymmetry == Permutations(Conns)
============================================================================
