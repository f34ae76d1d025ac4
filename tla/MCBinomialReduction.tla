-------------------------- MODULE MCBinomialReduction --------------------------
(***************************************************************************)
(* Six ranks, which is not a power of two, reducing onto rank 4.           *)
(***************************************************************************)
EXTENDS BinomialReduction

=============================================================================
