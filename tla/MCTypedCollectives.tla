--------------------------- MODULE MCTypedCollectives ---------------------------
(***************************************************************************)
(* Programs of two calls on three ranks, where a call of the second rank   *)
(* as root is neither the first nor the last group rank.                   *)
(***************************************************************************)
EXTENDS TypedCollectives
=============================================================================
