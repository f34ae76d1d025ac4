---------------------------- MODULE ResidencyModel ----------------------------
(***************************************************************************)
(* The vocabulary of fhelium.residency: values with an immutable spec,     *)
(* memory locations with an optional byte budget, the four primitive       *)
(* transition requests, and the plans that order them.                     *)
(*                                                                         *)
(* Payload bytes, value types and CKKS metadata are left out: the manager  *)
(* only looks at a value's storage charge, replica mode and source.        *)
(***************************************************************************)
EXTENDS Integers, Sequences

CONSTANTS
    Values,        \* handles the manager may issue
    Locations,     \* pageable host, pinned host, indexed CUDA devices
    Cuda,          \* the locations whose kind is "cuda"
    Rank,          \* order of _sort_locations: pageable, pinned, CUDA by index
    Budget,        \* managed-byte limit of each location, or NoBudget
    Size,          \* spec.storage_nbytes: what a materialization is charged
    Exclusive,     \* values whose replica mode is EXCLUSIVE
    SourceAt,      \* source_location of a registered source, or NoLocation
    NoBudget,
    NoLocation

ASSUME NoneAssumption ==
    /\ NoBudget \notin Nat
    /\ NoLocation \notin Locations

ASSUME LocationAssumption ==
    /\ Cuda \subseteq Locations
    /\ Rank \in [Locations -> Nat]
    /\ \A l, m \in Locations : Rank[l] = Rank[m] => l = m
    /\ Budget \in [Locations -> Nat \cup {NoBudget}]

\* A value has no source exactly when it was adopted (MUST_PRESERVE).
ASSUME SpecAssumption ==
    /\ Size \in [Values -> Nat]
    /\ Exclusive \subseteq Values
    /\ SourceAt \in [Values -> Locations \cup {NoLocation}]

Reconstructible(v) == SourceAt[v] # NoLocation

-----------------------------------------------------------------------------
(* Transition requests.  Only a move has an explicit source. *)

EnsureResident(v, l)  == [op |-> "ensure",  handle |-> v, to |-> l, from |-> NoLocation]
MoveResident(v, l, m) == [op |-> "move",    handle |-> v, to |-> l, from |-> m]
DropResident(v, l)    == [op |-> "drop",    handle |-> v, to |-> l, from |-> NoLocation]
DiscardValue(v)       == [op |-> "discard", handle |-> v, to |-> NoLocation, from |-> NoLocation]

ResidencyAction ==
         {EnsureResident(v, l) : v \in Values, l \in Locations}
    \cup {MoveResident(v, l, m) : v \in Values, l \in Locations,
                                  m \in Locations \cup {NoLocation}}
    \cup {DropResident(v, l) : v \in Values, l \in Locations}
    \cup {DiscardValue(v) : v \in Values}

MemoryReservation == [location : Locations, nbytes : Nat]

ResidencyPlan == [reclaim : Seq(ResidencyAction), reservations : Seq(MemoryReservation),
                  enter : Seq(ResidencyAction), exit : Seq(ResidencyAction)]

-----------------------------------------------------------------------------

\* The first location of S in _sort_locations order.
FirstLocation(S) == CHOOSE l \in S : \A m \in S : Rank[l] <= Rank[m]

\* The replica a transfer reads: the explicit one, else the first of S.
SelectSource(S, explicit) ==
    IF explicit # NoLocation THEN explicit
    ELSE IF S = {} THEN NoLocation ELSE FirstLocation(S)
=============================================================================
