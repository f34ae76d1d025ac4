--------------------------- MODULE ResidencyPlanner ---------------------------
(***************************************************************************)
(* The search of ResidencyController.decide: which replicas to drop or to  *)
(* move, in which order, so that a request's reservations and required     *)
(* replicas fit.                                                           *)
(*                                                                         *)
(* The code backtracks through nested generators.  Here the search works   *)
(* on a list of goals and on the request when none is left: a goal that    *)
(* lacks room at a location tries the choices there in order and is then   *)
(* tried again.                                                            *)
(* A placement is a record of the replicas of every value, the bytes used  *)
(* and reserved per location and the reclaim actions chosen so far.        *)
(*                                                                         *)
(* The memo of exhausted states only saves work and is left out.  A search *)
(* nested deeper than MaxDepth stands for one that never ends.             *)
(***************************************************************************)
EXTENDS ResidencyPreflight, FiniteSets

CONSTANTS
    Fallback,      \* the policy's fallback_locations of every location
    MaxDepth       \* nested choices; more than there are placements

\* DeterministicTieredLRU refuses a tier that contains the location it is for.
ASSUME PlannerAssumption ==
    /\ Fallback \in [Locations -> Seq(Locations)]
    /\ \A l \in Locations : \A n \in DOMAIN Fallback[l] : Fallback[l][n] # l
    /\ MaxDepth \in Nat

Requirement(v, l) == [handle |-> v, location |-> l]

\* What a search knows: the request, the protected pairs of the snapshot and
\* the policy's ranking of the values (any ranking: ResidencyPolicy is open).
Endpoints(ctx) == {<<q.handle, q.location>> : q \in Ext!ToSet(ctx.request.requirements)}

\* _require_capacity
HasRoom(p, l, n) == Budget[l] # NoBudget => p.used[l] + p.reserved[l] + n <= Budget[l]

-----------------------------------------------------------------------------
(* _simulate_request: reservations first, then each requirement in order.  *)
(* short is the location where it stops for lack of room, or NoLocation.   *)

ShortOf(s, l) == [s EXCEPT !.short = l]

SimulateReservation(s, r) ==
    CASE s.short # NoLocation -> s
      [] s.short = NoLocation /\ ~HasRoom(s.at, r.location, r.nbytes) -> ShortOf(s, r.location)
      [] OTHER -> [s EXCEPT !.at.reserved[r.location] = @ + r.nbytes]

PlaceAt(p, v, l) ==
    [p EXCEPT !.locations[v] = @ \cup {l}, !.used[l] = @ + Size[v]]
RemoveFrom(p, v, l) ==
    [p EXCEPT !.locations[v] = @ \ {l}, !.used[l] = @ - Size[v]]

SimulateRequirement(s, q) ==
    LET v == q.handle
        S == s.at.locations[v]
        source == IF S = {} THEN NoLocation ELSE FirstLocation(S)
        placed == PlaceAt(s.at, v, q.location)
    IN  CASE s.short # NoLocation \/ q.location \in S -> s
          [] s.short = NoLocation /\ S = {} /\ ~HasRoom(s.at, SourceAt[v], Size[v])
               -> ShortOf(s, SourceAt[v])
          [] OTHER ->
               IF ~HasRoom(s.at, q.location, Size[v]) THEN ShortOf(s, q.location)
               ELSE IF v \in Exclusive
               THEN [s EXCEPT !.at = IF S = {} THEN placed ELSE RemoveFrom(placed, v, source),
                              !.enter = Append(@, MoveResident(v, q.location, source))]
               ELSE [s EXCEPT !.at = placed,
                              !.enter = Append(@, EnsureResident(v, q.location))]

SimulateRequest(p, request) ==
    LET empty == [at |-> p, enter |-> <<>>, short |-> NoLocation]
    IN  Ext!FoldLeft(SimulateRequirement,
                     Ext!FoldLeft(SimulateReservation, empty, request.reservations),
                     request.requirements)

-----------------------------------------------------------------------------
(* Victims *)

\* The elements of s that are in S, in their order.
Keep(s, S) == Ext!FoldLeft(LAMBDA kept, x : IF x \in S THEN Append(kept, x) ELSE kept, <<>>, s)

\* Mutated: a replica that is leased, held or pending may be chosen.
CandidatesUnprotected(p, l, blocked, ctx) ==
    LET eligible == {v \in Values : l \in p.locations[v] /\ v \notin blocked}
        required == {v \in eligible : <<v, l>> \in Endpoints(ctx)}
    IN  Keep(ctx.order, eligible \ required) \o Keep(ctx.order, required)

\* _candidates and _ordered_candidates: the policy ranks the replicas nobody
\* uses, and the endpoints the request itself requires come last.
Candidates(p, l, blocked, ctx) ==
    LET eligible == {v \in Values :
            l \in p.locations[v] /\ v \notin blocked /\ <<v, l>> \notin ctx.protected}
        required == {v \in eligible : <<v, l>> \in Endpoints(ctx)}
    IN  Keep(ctx.order, eligible \ required) \o Keep(ctx.order, required)

\* Where a sole replica may go: locations the request wants it at, in
\* _ordered_locations order, then the policy's tiers.
Destinations(v, l, ctx) ==
    LET wanted == {m \in Locations : <<v, m>> \in Endpoints(ctx)} \ {l}
        before(m) == {k \in wanted : Rank[k] < Rank[m]}
    IN  [n \in 1 .. Cardinality(wanted) |-> CHOOSE m \in wanted : Cardinality(before(m)) = n - 1]
            \o Keep(Fallback[l], Locations \ wanted)

RoomGoal(l, n, blocked, active) ==
    [kind |-> "room", at |-> l, nbytes |-> n, blocked |-> blocked, active |-> active]
RelocateGoal(v, l, m) == [kind |-> "relocate", handle |-> v, from |-> l, to |-> m]

\* A choice: the placement it starts from and the goals it adds.
Dropped(p, v, l) ==
    [at |-> [RemoveFrom(p, v, l) EXCEPT !.reclaim = Append(@, DropResident(v, l))],
     goals |-> <<>>]

Moved(p, v, l, m, blocked, active) ==
    [at |-> p,
     goals |-> <<RoomGoal(m, IF m \in p.locations[v] THEN 0 ELSE Size[v],
                          blocked \cup {v}, active \cup {<<v, l>>}),
                 RelocateGoal(v, l, m)>>]

\* _reclaim_states: drop a replica the value can do without; move the others,
\* after making room at the destination without touching this value.
Reclaim(p, v, l, blocked, active, ctx) ==
    LET alternatives == p.locations[v] \ {l}
        drop == IF alternatives # {} \/ Reconstructible(v) THEN <<Dropped(p, v, l)>> ELSE <<>>
        destinations == IF alternatives # {} THEN <<>> ELSE Destinations(v, l, ctx)
    IN  IF <<v, l>> \in active THEN <<>>
        ELSE drop \o [n \in 1 .. Len(destinations) |->
                         Moved(p, v, l, destinations[n], blocked, active)]

Options(p, l, blocked, active, ctx) ==
    Ext!FoldLeft(LAMBDA found, v : found \o Reclaim(p, v, l, blocked, active, ctx),
                 <<>>, Candidates(p, l, blocked, ctx))

Relocated(p, g) ==
    LET there == IF g.to \in p.locations[g.handle] THEN p ELSE PlaceAt(p, g.handle, g.to)
    IN  [RemoveFrom(there, g.handle, g.from) EXCEPT
            !.reclaim = Append(@, MoveResident(g.handle, g.to, g.from))]

-----------------------------------------------------------------------------
(* _search_request_plan and _capacity_states *)

Verdict(name, reclaim, enter) == [verdict |-> name, reclaim |-> reclaim, enter |-> enter]
Exhausted == Verdict("infeasible", <<>>, <<>>)
Endless == Verdict("endless", <<>>, <<>>)

Placement == [locations : [Values -> SUBSET Locations], used : [Locations -> Int],
              reserved : [Locations -> Int], reclaim : Seq(ResidencyAction)]
Goal ==      [kind : {"room"}, at : Locations, nbytes : Nat,
              blocked : SUBSET Values, active : SUBSET (Values \X Locations)]
        \cup [kind : {"relocate"}, handle : Values, from : Locations, to : Locations]
\* A choice goes one level down and adds two goals at most.
Nodes == {x \in [at : Placement, goals : Seq(Goal), depth : 0 .. MaxDepth + 1] :
              Len(x.goals) <= 2 * x.depth}
Node(p, goals, depth) == [at |-> p, goals |-> goals, depth |-> depth]

\* The first choice from which the goals can be reached.
FirstOf(try, choices, x) ==
    Ext!FoldLeft(LAMBDA found, c :
                     IF found # Exhausted THEN found
                     ELSE try[Node(c.at, c.goals \o x.goals, x.depth + 1)],
                 Exhausted, choices)

\* The verdict at node x, when try knows those at the nodes it leads to.
Attempt(ctx, try, x) ==
    LET p == x.at
        g == Head(x.goals)
        simulated == SimulateRequest(p, ctx.request)
        goOn(q) == try[Node(q, Tail(x.goals), x.depth)]
    IN  CASE x.depth > MaxDepth -> Endless
          [] x.depth <= MaxDepth /\ x.goals = <<>> ->
               IF simulated.short = NoLocation THEN Verdict("plan", p.reclaim, simulated.enter)
               ELSE FirstOf(try, Options(p, simulated.short, {}, {}, ctx), x)
          [] x.depth <= MaxDepth /\ x.goals # <<>> /\ g.kind = "room" ->
               IF HasRoom(p, g.at, g.nbytes) THEN goOn(p)
               ELSE FirstOf(try, Options(p, g.at, g.blocked, g.active, ctx), x)
          [] OTHER -> goOn(Relocated(p, g))

Achieve(ctx) ==
    LET try[x \in Nodes] == Attempt(ctx, try, x) IN try

\* _planning_state: the placement of a snapshot.
Planning(sim) == [locations |-> sim.locations, used |-> sim.used, reserved |-> sim.reserved,
                  reclaim |-> <<>>]

SearchRequest(sim, ctx) == Achieve(ctx)[Node(Planning(sim), <<>>, 0)]

\* The plan of a decision: nothing is evicted on exit.
DecidedPlan(found, request) ==
    [reclaim |-> found.reclaim, reservations |-> request.reservations,
     enter |-> found.enter, exit |-> <<>>]
=============================================================================
