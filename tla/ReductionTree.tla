----------------------------- MODULE ReductionTree -----------------------------
(***************************************************************************)
(* The edges of the binomial tree that reduces one ciphertext per rank of  *)
(* a process group, for any group size.  Logical ranks count from the      *)
(* destination, which is logical rank 0.                                   *)
(***************************************************************************)
EXTENDS Integers

CONSTANT WorldSize

ASSUME WorldSizeAssumption == WorldSize \in Nat \ {0}

Ranks == 0 .. (WorldSize - 1)

Logical(r, root) == (r - root) % WorldSize

\* Mutated: the rank is not wrapped around the group.
PhysicalUnwrapped(l, root) == l + root

Physical(l, root) == (l + root) % WorldSize

\* Mutated: an off-by-one on the last subtree.
ReceiversStopEarly(mask) ==
    {i \in Ranks : /\ \E q \in Ranks : i = q * (2 * mask)
                   /\ i + mask < WorldSize - 1}

Receivers(mask) ==
    {i \in Ranks : /\ \E q \in Ranks : i = q * (2 * mask)
                   /\ i + mask < WorldSize}

IsReceiver(l, mask) == l \in Receivers(mask)

IsSender(l, mask) == \E i \in Receivers(mask) : l = i + mask
=============================================================================
