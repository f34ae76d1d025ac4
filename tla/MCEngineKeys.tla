----------------------------- MODULE MCEngineKeys -----------------------------
(***************************************************************************)
(* Three addresses: a key, one that replaces it, and a secret.  Of eight   *)
(* slots, steps of two reach the even ones only, steps of three all.       *)
(***************************************************************************)
EXTENDS EngineKeys, TLC

CONSTANTS k1, k2, k3, s1, s2

\* Nothing is said of the replicas once a key went adrift.
Followed == ~adrift

\* Bound: of the keys that exist at a time, one was written to.
OneWritten ==
    \A a, b \in Addresses :
        /\ heap[a] # None /\ heap[b] # None
        /\ heap[a].version > 0 /\ heap[b].version > 0
        => a = b

Explored == Followed /\ OneWritten

Symmetry == Permutations({k1, k2, k3}) \cup Permutations({s1, s2})
=============================================================================
