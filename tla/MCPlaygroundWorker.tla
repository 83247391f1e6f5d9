------------------------- MODULE MCPlaygroundWorker -------------------------
(* A worker left behind that runs a script, and one that profiles. *)
EXTENDS PlaygroundWorker

CONSTANTS w1, w2

MCMode == [w \in Workers |-> IF w = w1 THEN "run" ELSE "ncu"]
=============================================================================
