-------------------------- MODULE ResidencyController --------------------------
(***************************************************************************)
(* ResidencyController.use on top of a manager that other threads use:     *)
(* decide on a snapshot, check the version three times, enter the scope of *)
(* the decided plan, lease the required replicas location by location, and *)
(* give everything back when the body ends or a step fails.                *)
(*                                                                         *)
(* Every call of the manager is one step (or a HolderStep sequence): any   *)
(* other client may run between two of them.  The scope and the leases of  *)
(* a use are its own; everything else belongs to the other clients, who    *)
(* run everything but plan scopes here (ResidencyManager has those).       *)
(***************************************************************************)
EXTENDS ResidencyManager, ResidencyPlanner

CONSTANTS
    Uses,          \* ResidencyUse contexts, each entered once
    ScopeOf,       \* the scope of a use
    LeaseOf,       \* the lease a use acquires at a location
    AutoRequests,  \* requests passed to use()
    Rankings       \* orders in which the policy may rank the values

ResidencyRequest == [requirements : Seq([handle : Values, location : Locations]),
                     reservations : Seq(MemoryReservation)]

\* A use creates the scope and the leases it enters: no two uses share one.
ASSUME UseAssumption ==
    /\ ScopeOf \in [Uses -> Scopes]
    /\ \A u, v \in Uses : ScopeOf[u] = ScopeOf[v] => u = v
    /\ LeaseOf \in [Uses -> [Locations -> Leases]]
    /\ \A u, v \in Uses, l, m \in Locations : LeaseOf[u][l] = LeaseOf[v][m] => u = v /\ l = m
    /\ AutoRequests \subseteq ResidencyRequest
    /\ Rankings \subseteq Seq(Values)

VARIABLE uses    \* the progress of each use

NoRequest == [requirements |-> <<>>, reservations |-> <<>>]

NewUse == [stage |-> "new", request |-> NoRequest, answer |-> "none", plan |-> NoPlan,
           todo |-> <<>>, leased |-> <<>>, lost |-> {}]

ControllerInit == Init /\ uses = [u \in Uses |-> NewUse]

Stage(u) == uses[u].stage
Scope(u) == ScopeOf[u]
UseLeases == {LeaseOf[u][l] : u \in Uses, l \in Locations}

-----------------------------------------------------------------------------
(* decide *)

\* A manager call that only reaps.
Observe ==
    /\ Open
    /\ Reap
    /\ UNCHANGED <<placement, headroom, use_tokens, hold_tokens, holds, closed, holder, clients>>

\* The controller's own lock: one decision at a time.
Deciding == \E u \in Uses : Stage(u) \in {"decided", "explained"}

\* _validate_request
ValidRequest(request) ==
    \A n \in DOMAIN request.requirements :
        LET q == request.requirements[n] IN
        /\ records[q.handle] = "live"
        /\ q.handle \in Exclusive =>
              \A m \in DOMAIN request.requirements :
                  request.requirements[m].handle = q.handle
                      => request.requirements[m].location = q.location

\* The locations of a request in the order of their first requirement.
LeaseOrder(request) ==
    LET places == [n \in DOMAIN request.requirements |-> request.requirements[n].location]
        first(n) == \A m \in 1 .. n - 1 : places[m] # places[n]
    IN  [k \in 1 .. Cardinality({places[n] : n \in DOMAIN places}) |->
            places[CHOOSE n \in DOMAIN places :
                      first(n) /\ Cardinality({places[m] : m \in 1 .. n}) = k]]

Refused(use, answer) == [use EXCEPT !.stage = "closed", !.answer = answer]
DecidedUse(use, request, found) ==
    [use EXCEPT !.stage = "decided", !.answer = "plan", !.request = request,
                !.plan = DecidedPlan(found, request)]

\* The outcome of the search over a snapshot of the current state.
Outcome(request, order) ==
    SearchRequest(Simulation, [request |-> request, order |-> order, protected |-> ProtectedPairs])

\* snapshot() and the search: a plan is bound to the version of the snapshot.
\* An endless search ends in an error of its own (the interpreter's recursion
\* limit), an exhausted one in ResidencyPlanError.  ResidencyPlan checks what it
\* is made of.
Decide(u, request, order) ==
    LET found == Outcome(request, order)
        planned == /\ ValidRequest(request) /\ found.verdict = "plan"
                   /\ DecidedPlan(found, request) \in ResidencyPlan
    IN  /\ Stage(u) = "new"
        /\ ~Deciding
        /\ Observe
        /\ UNCHANGED scopes
        /\ fresh' = IF planned THEN ReapedFresh \cup {Scope(u)} ELSE ReapedFresh
        /\ uses' = [uses EXCEPT ![u] =
                      CASE planned -> DecidedUse(@, request, found)
                        [] ~ValidRequest(request) -> Refused(@, "invalid")
                        [] OTHER -> Refused(@, found.verdict)]

CurrentDecision(u) == Scope(u) \in ReapedFresh
Predicted(plan) == ExplainPlan(Simulation, plan, Live, ProtectedPairs)

\* explain(plan, expected_state_version): stale or infeasible ends the use.
Explain(u) ==
    /\ Stage(u) = "decided"
    /\ Observe
    /\ UNCHANGED scopes
    /\ fresh' = ReapedFresh
    /\ uses' = [uses EXCEPT ![u].stage =
                  IF CurrentDecision(u) /\ Predicted(uses[u].plan).feasible
                  THEN "explained" ELSE "closed"]

\* Mutated: the scope is made without a version to expect.
MakeScopeUnversioned(u) ==
    /\ Stage(u) = "explained"
    /\ Observe
    /\ fresh' = ReapedFresh
    /\ scopes' = [scopes EXCEPT ![Scope(u)] =
                    [state |-> "new", plan |-> uses[u].plan, versioned |-> FALSE]]
    /\ uses' = [uses EXCEPT ![u].stage = "entering"]

\* The version is read once more, then the scope is made for the plan.
MakeScope(u) ==
    /\ Stage(u) = "explained"
    /\ Observe
    /\ fresh' = ReapedFresh
    /\ IF CurrentDecision(u)
       THEN /\ scopes' = [scopes EXCEPT ![Scope(u)] =
                            [state |-> "new", plan |-> uses[u].plan, versioned |-> TRUE]]
            /\ uses' = [uses EXCEPT ![u].stage = "entering"]
       ELSE /\ UNCHANGED scopes
            /\ uses' = [uses EXCEPT ![u].stage = "closed"]

\* A call to a closed manager, or during a callback of another thread, raises.
DecideRejected(u) ==
    /\ Rejecting
    /\ Stage(u) \in {"new", "decided", "explained"}
    /\ uses' = [uses EXCEPT ![u].stage = "closed"]
    /\ UNCHANGED vars

-----------------------------------------------------------------------------
(* __enter__ *)

EnterUse(u) ==
    /\ Stage(u) = "entering"
    /\ EnterScope(Scope(u)) \/ RefuseScope(Scope(u)) \/ RejectScope(Scope(u))
    /\ UNCHANGED uses

\* Mutated: the first location's replicas are not leased.
EnteredSkippingOne(u) ==
    /\ Stage(u) = "entering"
    /\ scopes[Scope(u)].state = "entered"
    /\ uses' = [uses EXCEPT ![u].stage = "leasing", ![u].todo = Tail(LeaseOrder(uses[u].request))]
    /\ UNCHANGED vars

Entered(u) ==
    /\ Stage(u) = "entering"
    /\ scopes[Scope(u)].state = "entered"
    /\ uses' = [uses EXCEPT ![u].stage = "leasing", ![u].todo = LeaseOrder(uses[u].request)]
    /\ UNCHANGED vars

NotEntered(u) ==
    /\ Stage(u) = "entering"
    /\ scopes[Scope(u)].state = "closed"
    /\ uses' = [uses EXCEPT ![u].stage = "closed"]
    /\ UNCHANGED vars

NextLocation(u) == Head(uses[u].todo)
Required(u, l) ==
    {v \in Values : \E n \in DOMAIN uses[u].request.requirements :
                        uses[u].request.requirements[n] = Requirement(v, l)}

Borrow(u) ==
    /\ Stage(u) = "leasing"
    /\ uses[u].todo # <<>>
    /\ Acquire(LeaseOf[u][NextLocation(u)], Required(u, NextLocation(u)), NextLocation(u))
    /\ uses' = [uses EXCEPT ![u].todo = Tail(@), ![u].leased = Append(@, NextLocation(u))]

\* Mutated: a failing acquire forgets the leases acquired before it.
BorrowFailsAlone(u) ==
    /\ Stage(u) = "leasing"
    /\ uses[u].todo # <<>>
    /\ Rejecting \/ (Open /\ ~Usable(Required(u, NextLocation(u)), NextLocation(u)))
    /\ uses' = [uses EXCEPT ![u].stage = "leaving", ![u].leased = <<>>]
    /\ UNCHANGED vars

\* Another client evicted a required replica before it was leased, or the
\* manager rejects the call: the contexts entered so far are unwound.
BorrowFails(u) ==
    /\ Stage(u) = "leasing"
    /\ uses[u].todo # <<>>
    /\ Rejecting \/ (Open /\ ~Usable(Required(u, NextLocation(u)), NextLocation(u)))
    /\ uses' = [uses EXCEPT ![u].stage = "leaving"]
    /\ UNCHANGED vars

Borrowed(u) ==
    /\ Stage(u) = "leasing"
    /\ uses[u].todo = <<>>
    /\ uses' = [uses EXCEPT ![u].stage = "running"]
    /\ UNCHANGED vars

-----------------------------------------------------------------------------
(* __exit__: the ExitStack closes leases in reverse order, then the scope. *)

Leave(u) ==
    /\ Stage(u) = "running"
    /\ uses' = [uses EXCEPT ![u].stage = "leaving"]
    /\ UNCHANGED vars

Front(s) == SubSeq(s, 1, Len(s) - 1)
LastLease(u) == LeaseOf[u][uses[u].leased[Len(uses[u].leased)]]
PopLease(u) == uses' = [uses EXCEPT ![u].leased = Front(@)]
Unwinding(u) == Stage(u) = "leaving" /\ uses[u].leased # <<>>

ReturnLease(u) ==
    /\ Unwinding(u)
    /\ ReleaseNow(LastLease(u)) \/ ReleaseLater(LastLease(u))
    /\ PopLease(u)

\* A forced close released it already.
LeaseGone(u) ==
    /\ Unwinding(u)
    /\ leases[LastLease(u)] = NoLease
    /\ PopLease(u)
    /\ UNCHANGED vars

\* The manager rejects the release during a callback: the stack goes on.
LeaseRejected(u) ==
    /\ Unwinding(u)
    /\ CallbackActive
    /\ leases[LastLease(u)].state = "active"
    /\ uses' = [uses EXCEPT ![u].leased = Front(@), ![u].lost = @ \cup {LastLease(u)}]
    /\ UNCHANGED vars

LeaveScope(u) ==
    /\ Stage(u) = "leaving"
    /\ uses[u].leased = <<>>
    /\ \/ ExitScope(Scope(u)) /\ uses' = [uses EXCEPT ![u].stage = "closed"]
       \/ RejectScope(Scope(u))
          /\ uses' = [uses EXCEPT ![u].stage = "closed", ![u].lost = @ \cup {Scope(u)}]

-----------------------------------------------------------------------------
UseStep(u) ==
    \/ \E request \in AutoRequests, order \in Rankings : Decide(u, request, order)
    \/ Explain(u) \/ MakeScope(u) \/ DecideRejected(u)
    \/ EnterUse(u) \/ Entered(u) \/ NotEntered(u)
    \/ Borrow(u) \/ BorrowFails(u) \/ Borrowed(u)
    \/ Leave(u) \/ ReturnLease(u) \/ LeaseGone(u) \/ LeaseRejected(u) \/ LeaveScope(u)

LeaseCall(t) ==
    \/ \E H \in SUBSET Values, l \in Locations : Acquire(t, H, l)
    \/ ReleaseNow(t) \/ ReleaseLater(t)

OtherClients ==
    \/ Register \/ Operate \/ UseHold \/ UseReservation \/ Poll
    \/ \E t \in Leases \ UseLeases : LeaseCall(t)
    \/ \E t \in Leases : LaunchRead(t) \/ ReadsFinish(t)
    \/ \E x \in (Leases \ UseLeases) \cup Holds \cup Reservations : Orphan(x)
    \/ \E force \in BOOLEAN : Close(force)

ControllerNext ==
    \/ \E u \in Uses : UseStep(u)
    \/ (HolderStep \/ OtherClients) /\ UNCHANGED uses

ControllerVars == <<vars, uses>>

ControllerSpec == ControllerInit /\ [][ControllerNext]_ControllerVars

-----------------------------------------------------------------------------
(* Properties *)

\* The search simulates placement with its own arithmetic; on the version it
\* was made for, the manager's preflight finds its plan feasible too, unless
\* the plan must move an EXCLUSIVE value that is in use where it is now.
MovesProtected(plan) ==
    \E n \in DOMAIN plan.enter :
        plan.enter[n].op = "move" /\ <<plan.enter[n].handle, plan.enter[n].from>> \in ProtectedPairs

SearchAgreesWithPreflight ==
    \A u \in Uses : Stage(u) = "decided" /\ LockFree /\ CurrentDecision(u) =>
        Predicted(uses[u].plan).feasible \/ MovesProtected(uses[u].plan)

\* Whatever other clients did since the snapshot, a decided plan only starts
\* on the very state it was decided on: the one its search found room in.
PlansStartWhereDecided ==
    [][\A u \in Uses :
          scopes[Scope(u)].state = "new" /\ scopes'[Scope(u)].state = "entering"
              => /\ ValidRequest(uses[u].request)
                 /\ \E order \in Rankings :
                      DecidedPlan(Outcome(uses[u].request, order), uses[u].request) = uses[u].plan
      ]_ControllerVars

\* While the body of a use runs, every endpoint it asked for is resident and
\* protected, whatever other clients do; only a forced close ends this.
BorrowsStayPut ==
    \A u \in Uses : Stage(u) = "running" /\ ~closed =>
        \A n \in DOMAIN uses[u].request.requirements :
            LET q == uses[u].request.requirements[n] IN
            /\ q.location \in materializations[q.handle]
            /\ LeaseOf[u][q.location] \in use_tokens[q.handle][q.location]

\* However a use ends, it keeps neither a lease nor a place in the budget,
\* except what the manager refused to take back during a callback.
EndedUsesOwnNothing ==
    \A u \in Uses : Stage(u) = "closed" =>
        /\ \A l \in Locations : leases[LeaseOf[u][l]].state = "active" => LeaseOf[u][l] \in uses[u].lost
        /\ scopes[Scope(u)].state \in {"new", "entering", "entered"} => Scope(u) \in uses[u].lost

\* decide() answers with a plan or proves that none exists.  The search must
\* not go round between placements it has already tried: there are fewer than
\* search_state_limit of them.
SearchEnds == \A u \in Uses : uses[u].answer # "endless"
=============================================================================
