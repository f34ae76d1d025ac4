------------------------ MODULE MCResidencyController ------------------------
(***************************************************************************)
(* One automatic use among other clients.  keys does not fit on the GPU    *)
(* beside weights, so a use has to offload one of them to the host, and    *)
(* the other clients can undo that at any moment.                          *)
(***************************************************************************)
EXTENDS ResidencyController, TLC

CONSTANTS weights, keys, host, gpu, t1, h1, a, b, r1, s1, u1,
          noBudget, noLocation, noScope, noPlan

MCValues == {weights, keys}
MCLocations == {host, gpu}
MCRank == (host :> 0) @@ (gpu :> 1)
MCBudget == (host :> 3) @@ (gpu :> 3)
MCSize == (weights :> 1) @@ (keys :> 2)
MCSourceAt == (weights :> noLocation) @@ (keys :> host)
MCFallback == (host :> <<>>) @@ (gpu :> <<host>>)
MCScopeOf == (u1 :> s1)
MCLeaseOf == (u1 :> ((host :> a) @@ (gpu :> b)))

\* Two locations and a workspace, or a value that other clients may load beside.
Both == [requirements |-> <<Requirement(keys, gpu), Requirement(weights, host)>>,
         reservations |-> <<[location |-> gpu, nbytes |-> 1]>>]
Small == [requirements |-> <<Requirement(weights, host)>>, reservations |-> <<>>]

MCAutoRequests == {Both, Small}

\* More than the GPU and the host can give beside weights: no plan exists.
TooMuch == [requirements |-> <<Requirement(weights, gpu)>>,
            reservations |-> <<[location |-> gpu, nbytes |-> 3], [location |-> host, nbytes |-> 3]>>]
Impossible == {TooMuch}

MCRankings == {<<weights, keys>>, <<keys, weights>>}
MCRequests == {DropResident(weights, host), EnsureResident(keys, gpu), EnsureResident(weights, gpu)}
MCBatches == {<<DiscardValue(weights), EnsureResident(keys, host)>>}
=============================================================================
