--------------------------- MODULE MCResidencyPlans ---------------------------
(***************************************************************************)
(* A scope, action batches and requests that need each other's memory, and *)
(* one lease that blocks evictions.  The GPU holds keys plus one unit of   *)
(* headroom only when weights is moved out of the way.                     *)
(***************************************************************************)
EXTENDS ResidencyManager, TLC

CONSTANTS weights, keys, host, gpu, t1, r1, r2, s1,
          noBudget, noLocation, noScope, noPlan

MCValues == {weights, keys}
MCLocations == {host, gpu}
MCRank == (host :> 0) @@ (gpu :> 1)
MCBudget == (host :> 3) @@ (gpu :> 3)
MCSize == (weights :> 1) @@ (keys :> 2)
MCSourceAt == (weights :> noLocation) @@ (keys :> host)

Headroom(l, n) == [location |-> l, nbytes |-> n]

\* Evict weights, reserve a workspace, load keys; put everything back.
Evaluate ==
    [reclaim |-> <<MoveResident(weights, host, noLocation)>>,
     reservations |-> <<Headroom(gpu, 1)>>,
     enter |-> <<EnsureResident(keys, gpu)>>,
     exit |-> <<DropResident(keys, gpu), MoveResident(weights, gpu, noLocation)>>]

\* Two reservations, then a replica that survives the scope.
Stage ==
    [reclaim |-> <<>>,
     reservations |-> <<Headroom(host, 1), Headroom(gpu, 1)>>,
     enter |-> <<EnsureResident(keys, host)>>,
     exit |-> <<MoveResident(keys, gpu, host)>>]

MCPlans == {Evaluate, Stage}

MCBatches ==
    {<<EnsureResident(keys, host), EnsureResident(keys, gpu), DropResident(keys, host)>>,
     <<MoveResident(weights, gpu, noLocation), MoveResident(keys, host, gpu)>>,
     <<DiscardValue(weights), EnsureResident(keys, gpu)>>}

MCRequests == {DropResident(keys, gpu)}
=============================================================================
