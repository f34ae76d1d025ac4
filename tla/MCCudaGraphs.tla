----------------------------- MODULE MCCudaGraphs -----------------------------
(***************************************************************************)
(* Two programs of one pool, and an eager buffer, on a transfer and a      *)
(* compute stream; three tasks in flight, so a copy can overtake a replay  *)
(* that waits for another.                                                 *)
(***************************************************************************)
EXTENDS CudaGraphs, TLC

CONSTANTS p1, p2, b1, transfer, compute, x, y

MCEvents == ({"copies", "latest", "reads"} \X Owners) \cup {Pool}
Symmetry == Permutations({p1, p2}) \cup Permutations({transfer, compute}) \cup Permutations({x, y})
=============================================================================
