--------------------------- MODULE ResidencyManager ---------------------------
(***************************************************************************)
(* ResidencyManager: the owner of every managed value and of its memory    *)
(* materializations, and the public objects (leases, holds, reservations   *)
(* and plan scopes) that protect them.                                     *)
(*                                                                         *)
(* Every public method runs under one lock.  A method that runs transitions*)
(* is a sequence of steps by the lock holder, described by op: other       *)
(* threads cannot enter meanwhile.  The one window in which they observe   *)
(* the manager is a source callback (op.load): the access guard rejects    *)
(* them.  A lease, hold or scope whose finalizer is rejected is lost.      *)
(*                                                                         *)
(* state_version is only ever compared with a version a caller read        *)
(* earlier, so fresh holds the scopes whose expected version is current.   *)
(***************************************************************************)
EXTENDS ResidencyPreflight, FiniteSets

CONSTANTS
    Leases, Holds, Reservations,   \* tokens: lifetime objects a client may own at a time
    Scopes,                        \* ResidencyScope objects, each used once
    Plans,                         \* plans a scope may carry
    Requests,                      \* actions passed to ensure, move, drop and discard
    Batches,                       \* action lists passed to execute_actions
    ReserveSizes,                  \* byte counts passed to reserve
    NoScope, NoPlan

ASSUME TokenAssumption ==
    /\ ReserveSizes \subseteq Nat
    /\ Plans \subseteq ResidencyPlan
    /\ Requests \subseteq ResidencyAction
    /\ Batches \subseteq Seq(ResidencyAction)
    /\ NoScope \notin Scopes

VARIABLES
    records,          \* "absent", "live" or "discarded" for each handle
    materializations, \* locations at which each value is resident
    use_tokens,       \* leases reading a materialization
    pending_tokens,   \* released leases whose consumer events are not reaped
    hold_tokens,      \* holds retaining a materialization
    leases, holds, reservations,
    used_bytes, reserved_bytes,
    locations,        \* budgeted or observed locations
    closed,
    scopes,
    fresh,            \* scopes whose expected_state_version equals state_version
    op,               \* the public operation holding the lock
    predicted,        \* predicted_peak_bytes of the plan it preflighted
    orphaned,         \* tokens whose abandoned object could not release them
    reading           \* leases with consumer-stream work not yet finished

vars == <<records, materializations, use_tokens, pending_tokens, hold_tokens,
          leases, holds, reservations, used_bytes, reserved_bytes, locations,
          closed, scopes, fresh, op, predicted, orphaned, reading>>

placement  == <<records, materializations, used_bytes, locations>>
protection == <<use_tokens, pending_tokens, hold_tokens, leases, holds>>
headroom   == <<reservations, reserved_bytes>>
clients    == <<orphaned, reading>>
holder     == <<op, predicted>>

-----------------------------------------------------------------------------
(* Records *)

NoLease == [state |-> "none", handles |-> {}, location |-> NoLocation]
NoHold  == [handles |-> {}, location |-> NoLocation]
NoReservation == [location |-> NoLocation, nbytes |-> 0, owner |-> NoScope]
NoLoad  == [handle |-> NoLocation, to |-> NoLocation]
NoBytes == [l \in Locations |-> 0]

Idle == [kind |-> "idle", todo |-> <<>>, reserve |-> <<>>, scope |-> NoScope,
         load |-> NoLoad]

LockFree == op = Idle
CallbackActive == op.load # NoLoad
Open == LockFree /\ ~closed

Init ==
    /\ records = [v \in Values |-> "absent"]
    /\ materializations = [v \in Values |-> {}]
    /\ use_tokens = [v \in Values |-> [l \in Locations |-> {}]]
    /\ pending_tokens = [v \in Values |-> [l \in Locations |-> {}]]
    /\ hold_tokens = [v \in Values |-> [l \in Locations |-> {}]]
    /\ leases = [t \in Leases |-> NoLease]
    /\ holds = [h \in Holds |-> NoHold]
    /\ reservations = [r \in Reservations |-> NoReservation]
    /\ used_bytes = NoBytes
    /\ reserved_bytes = NoBytes
    /\ locations = {l \in Locations : Budget[l] # NoBudget}
    /\ closed = FALSE
    /\ scopes = [s \in Scopes |-> [state |-> "unborn", plan |-> NoPlan, versioned |-> FALSE]]
    /\ fresh = {}
    /\ op = Idle
    /\ predicted = NoBytes
    /\ orphaned = {}
    /\ reading = {}

-----------------------------------------------------------------------------
(* State version and reaping.  Finished leases stop protecting at the next *)
(* public operation, which is when their events are polled.                *)

Bump == fresh' = {}

\* Mutated: released leases are reaped without polling their events.
FinishedUnpolled == {t \in Leases : leases[t].state = "pending"}

Finished == {t \in Leases : leases[t].state = "pending" /\ t \notin reading}

ReapedLeases == [t \in Leases |-> IF t \in Finished THEN NoLease ELSE leases[t]]
ReapedTokens == [v \in Values |-> [l \in Locations |-> pending_tokens[v][l] \ Finished]]
ReapedFresh  == IF Finished = {} THEN fresh ELSE {}

Reap == leases' = ReapedLeases /\ pending_tokens' = ReapedTokens

\* Mutated: holds are ignored.
ProtectedByReadsOnly(v, l) == use_tokens[v][l] \cup ReapedTokens[v][l] # {}

Protected(v, l) ==
    \/ use_tokens[v][l] # {}
    \/ hold_tokens[v][l] # {}
    \/ ReapedTokens[v][l] # {}

\* state_version, snapshot, and every call refused after its reap.
Poll ==
    /\ Open
    /\ Finished # {}
    /\ Reap
    /\ Bump
    /\ UNCHANGED <<placement, headroom, use_tokens, hold_tokens, holds, closed,
                   scopes, holder, clients>>

-----------------------------------------------------------------------------
(* Accounting *)

\* Mutated: headroom is not subtracted from the budget.
FitsIgnoringReserved(l, n) == Budget[l] # NoBudget => n <= Budget[l] - used_bytes[l]

Fits(l, n) ==
    Budget[l] # NoBudget => n <= Budget[l] - used_bytes[l] - reserved_bytes[l]

Charge(bytes, l, n) == [bytes EXCEPT ![l] = @ + n]
Uncharge(bytes, l, n) == [bytes EXCEPT ![l] = @ - n]

\* _install_locked, after its checks.
Install(v, l) ==
    /\ materializations' = [materializations EXCEPT ![v] = @ \cup {l}]
    /\ used_bytes' = Charge(used_bytes, l, Size[v])
    /\ locations' = locations \cup {l}

\* _remove_materialization_locked
Uninstall(v, l) ==
    /\ materializations' = [materializations EXCEPT ![v] = @ \ {l}]
    /\ used_bytes' = Uncharge(used_bytes, l, Size[v])
    /\ UNCHANGED locations

-----------------------------------------------------------------------------
(* Registration *)

Adopt(v, l) ==
    /\ Open
    /\ ~Reconstructible(v)
    /\ records[v] = "absent"
    /\ Fits(l, Size[v])
    /\ records' = [records EXCEPT ![v] = "live"]
    /\ Install(v, l)
    /\ Reap
    /\ Bump
    /\ UNCHANGED <<headroom, use_tokens, hold_tokens, holds, closed, scopes, holder, clients>>

RegisterSource(v) ==
    /\ Open
    /\ Reconstructible(v)
    /\ records[v] = "absent"
    /\ records' = [records EXCEPT ![v] = "live"]
    /\ locations' = locations \cup {SourceAt[v]}
    /\ Reap
    /\ Bump
    /\ UNCHANGED <<materializations, used_bytes, headroom, use_tokens, hold_tokens,
                   holds, closed, scopes, holder, clients>>

-----------------------------------------------------------------------------
(* Transitions.  The lock holder executes op.todo one request at a time;   *)
(* _execute_action_locked reaps first, then takes exactly one outcome.     *)

Request == Head(op.todo)
Resident == materializations[Request.handle]
Source == SelectSource(Resident \ {Request.to}, Request.from)
Removable(l) == ~Protected(Request.handle, l)
Nbytes == Size[Request.handle]

NoOp ==
    \/ Request.op = "ensure" /\ Request.to \in Resident
    \/ Request.op = "move" /\ Request.to \in Resident /\ Source \in {NoLocation, Request.to}
    \/ Request.op = "drop" /\ Request.to \notin Resident

\* No replica: the registered source must be loaded, charged at its location.
NeedsLoad ==
    /\ Request.op \in {"ensure", "move"}
    /\ Resident = {}
    /\ Request.from = NoLocation
    /\ Reconstructible(Request.handle)
    /\ Fits(SourceAt[Request.handle], Nbytes)

\* Mutated: the replica mode is not checked.
CanReplicateAnyMode ==
    /\ Request.op = "ensure"
    /\ Request.to \notin Resident
    /\ Resident # {}
    /\ Fits(Request.to, Nbytes)

CanReplicate ==
    /\ Request.op = "ensure"
    /\ Request.to \notin Resident
    /\ Resident # {}
    /\ Request.handle \notin Exclusive
    /\ Fits(Request.to, Nbytes)

CanMove ==
    /\ Request.op = "move"
    /\ Request.to \notin Resident
    /\ Source \in Resident
    /\ Removable(Source)
    /\ Fits(Request.to, Nbytes)

\* The destination is resident already: a move only gives up its source.
CanCollapse ==
    /\ Request.op = "move"
    /\ Request.to \in Resident
    /\ Source \in Resident \ {Request.to}
    /\ Removable(Source)

\* Mutated: the last copy of an adopted value may be dropped.
CanDropFinal ==
    /\ Request.op = "drop"
    /\ Request.to \in Resident
    /\ Removable(Request.to)

CanDrop ==
    /\ Request.op = "drop"
    /\ Request.to \in Resident
    /\ Removable(Request.to)
    /\ Resident = {Request.to} => Reconstructible(Request.handle)

CanDiscard ==
    /\ Request.op = "discard"
    /\ \A l \in Resident : Removable(l)

Feasible ==
    /\ records[Request.handle] = "live"
    /\ NoOp \/ NeedsLoad \/ CanReplicate \/ CanMove \/ CanCollapse \/ CanDrop \/ CanDiscard

\* Does the request allocate or copy, which may fail at run time?
Transfers == NeedsLoad \/ CanReplicate \/ CanMove

Ready == op.todo # <<>> /\ ~CallbackActive

Succeed(outcome) ==
    /\ Ready
    /\ records[Request.handle] = "live"
    /\ outcome
    /\ Reap
    /\ UNCHANGED <<use_tokens, hold_tokens, holds, closed, scopes, clients>>

NextRequest == op' = [op EXCEPT !.todo = Tail(@)] /\ UNCHANGED predicted

StepNoOp ==
    /\ Succeed(NoOp)
    /\ NextRequest
    /\ fresh' = ReapedFresh
    /\ UNCHANGED <<placement, headroom>>

StepReplicate ==
    /\ Succeed(CanReplicate)
    /\ Install(Request.handle, Request.to)
    /\ NextRequest
    /\ Bump
    /\ UNCHANGED <<records, headroom>>

StepMove ==
    /\ Succeed(CanMove)
    /\ materializations' =
         [materializations EXCEPT ![Request.handle] = (@ \cup {Request.to}) \ {Source}]
    /\ used_bytes' = Uncharge(Charge(used_bytes, Request.to, Nbytes), Source, Nbytes)
    /\ locations' = locations \cup {Request.to}
    /\ NextRequest
    /\ Bump
    /\ UNCHANGED <<records, headroom>>

StepCollapse ==
    /\ Succeed(CanCollapse)
    /\ Uninstall(Request.handle, Source)
    /\ NextRequest
    /\ Bump
    /\ UNCHANGED <<records, headroom>>

StepDrop ==
    /\ Succeed(CanDrop)
    /\ Uninstall(Request.handle, Request.to)
    /\ NextRequest
    /\ Bump
    /\ UNCHANGED <<records, headroom>>

StepDiscard ==
    /\ Succeed(CanDiscard)
    /\ materializations' = [materializations EXCEPT ![Request.handle] = {}]
    /\ used_bytes' = [l \in Locations |-> used_bytes[l] - IF l \in Resident THEN Nbytes ELSE 0]
    /\ records' = [records EXCEPT ![Request.handle] = "discarded"]
    /\ NextRequest
    /\ Bump
    /\ UNCHANGED <<locations, headroom>>

\* Charge the source location and call source.load() under the access guard.
StartLoad ==
    /\ Succeed(NeedsLoad)
    /\ reserved_bytes' = Charge(reserved_bytes, SourceAt[Request.handle], Nbytes)
    /\ op' = [op EXCEPT !.load = [handle |-> Request.handle, to |-> Request.to]]
    /\ fresh' = ReapedFresh
    /\ UNCHANGED <<placement, reservations, predicted>>

LoadFits ==
    \/ op.load.to = SourceAt[op.load.handle]
    \/ Fits(op.load.to, Size[op.load.handle])

EndLoad ==
    /\ CallbackActive
    /\ reserved_bytes' = Uncharge(reserved_bytes, SourceAt[op.load.handle], Size[op.load.handle])
    /\ UNCHANGED <<records, reservations, protection, closed, scopes, clients>>

\* The loaded value is installed as it is, or copied to another location.
FinishLoad ==
    /\ EndLoad
    /\ LoadFits
    /\ Install(op.load.handle, op.load.to)
    /\ op' = [op EXCEPT !.load = NoLoad, !.todo = Tail(@)]
    /\ Bump
    /\ UNCHANGED predicted

\* Mutated: a failed exit does not give the reservations back.
FailWithoutRelease == op' = Idle /\ predicted' = NoBytes

\* A failed request ends the operation; nothing completed is rolled back, but
\* a scope gives its reservations back.
Fail ==
    /\ op' = IF op.scope = NoScope THEN Idle
             ELSE [op EXCEPT !.kind = "release", !.todo = <<>>, !.reserve = <<>>, !.load = NoLoad]
    /\ predicted' = NoBytes

\* Mutated: the temporary charge of a failed load is kept.
LoadFailsKeepingCharge ==
    /\ CallbackActive
    /\ Fail
    /\ UNCHANGED <<placement, protection, headroom, closed, scopes, fresh, clients>>

\* The callback, its validation, the copy or the installation raises.
LoadFails ==
    /\ EndLoad
    /\ Fail
    /\ UNCHANGED <<materializations, used_bytes, locations, fresh>>

\* Mutated: an exception leaves the transition marked in progress.
StepFailsHoldingLock ==
    /\ Ready
    /\ ~Feasible \/ Transfers
    /\ Reap
    /\ fresh' = ReapedFresh
    /\ UNCHANGED <<placement, headroom, use_tokens, hold_tokens, holds, closed, scopes,
                   holder, clients>>

StepFails ==
    /\ Ready
    /\ ~Feasible \/ Transfers
    /\ Reap
    /\ Fail
    /\ fresh' = ReapedFresh
    /\ UNCHANGED <<placement, headroom, use_tokens, hold_tokens, holds, closed, scopes, clients>>

-----------------------------------------------------------------------------
(* Operations that take the lock to run transitions *)

Live == {v \in Values : records[v] # "absent"}
ProtectedPairs == {p \in Values \X Locations : Protected(p[1], p[2])}

Simulation ==
    [locations |-> materializations,
     discarded |-> {v \in Values : records[v] = "discarded"},
     used |-> used_bytes, reserved |-> reserved_bytes,
     peaks |-> [l \in Locations |-> used_bytes[l] + reserved_bytes[l]],
     feasible |-> TRUE]

Begin(kind, todo, scope, peaks) ==
    /\ Open
    /\ Reap
    /\ op' = [kind |-> kind, todo |-> todo, reserve |-> <<>>, scope |-> scope, load |-> NoLoad]
    /\ predicted' = peaks
    /\ UNCHANGED <<placement, headroom, use_tokens, hold_tokens, holds, closed, clients>>

\* ensure, move, drop and discard: one request, no preflight.
Run(a) ==
    /\ Begin("run", <<a>>, NoScope, NoBytes)
    /\ fresh' = ReapedFresh
    /\ UNCHANGED scopes

ExecuteActions(batch) ==
    LET explanation == ExplainActions(Simulation, batch, Live, ProtectedPairs)
    IN  /\ explanation.feasible
        /\ Begin("execute", batch, NoScope, explanation.peaks)
        /\ fresh' = ReapedFresh
        /\ UNCHANGED scopes

EndOperation ==
    /\ op.kind \in {"run", "execute"}
    /\ op.todo = <<>>
    /\ op' = Idle
    /\ predicted' = NoBytes
    /\ UNCHANGED <<placement, protection, headroom, closed, scopes, fresh, clients>>

-----------------------------------------------------------------------------
(* Plan scopes *)

Owned(s) == {r \in Reservations : reservations[r].location # NoLocation
                                    /\ reservations[r].owner = s}
FreeTokens == {r \in Reservations : reservations[r].location = NoLocation}

NewScope(s, plan, versioned) ==
    /\ scopes[s].state = "unborn"
    /\ scopes' = [scopes EXCEPT ![s] = [state |-> "new", plan |-> plan, versioned |-> versioned]]
    /\ IF versioned
       THEN Open /\ Reap /\ fresh' = ReapedFresh \cup {s}
       ELSE UNCHANGED <<leases, pending_tokens, fresh>>
    /\ UNCHANGED <<placement, headroom, use_tokens, hold_tokens, holds, closed, holder, clients>>

Explanation(s) == ExplainPlan(Simulation, scopes[s].plan, Live, ProtectedPairs)

Admitted(s) ==
    /\ scopes[s].versioned => s \in ReapedFresh
    /\ Explanation(s).feasible

\* The manager issues tokens without limit; the model needs one per reservation.
TokenBound(s) == Len(scopes[s].plan.reservations) <= Cardinality(FreeTokens)

EnterScope(s) ==
    /\ scopes[s].state = "new"
    /\ TokenBound(s)
    /\ Admitted(s)
    /\ Begin("reclaim", scopes[s].plan.reclaim, s, Explanation(s).peaks)
    /\ scopes' = [scopes EXCEPT ![s].state = "entering"]
    /\ fresh' = ReapedFresh \ {s}

\* Stale version or infeasible plan: the scope is spent, nothing is changed.
RefuseScope(s) ==
    /\ Open
    /\ scopes[s].state = "new"
    /\ ~Admitted(s)
    /\ Reap
    /\ scopes' = [scopes EXCEPT ![s].state = "closed"]
    /\ fresh' = ReapedFresh \ {s}
    /\ UNCHANGED <<placement, headroom, use_tokens, hold_tokens, holds, closed, holder, clients>>

Advance(kind) ==
    /\ op.todo = <<>>
    /\ op.reserve = <<>>
    /\ op.kind = kind
    /\ UNCHANGED <<placement, protection, headroom, closed, fresh, clients>>

ReclaimDone ==
    /\ Advance("reclaim")
    /\ op' = [op EXCEPT !.kind = "reserve", !.reserve = scopes[op.scope].plan.reservations]
    /\ UNCHANGED <<scopes, predicted>>

\* _reserve_locked
Reserve(r, l, n, owner) ==
    /\ reservations[r] = NoReservation
    /\ Fits(l, n)
    /\ reservations' = [reservations EXCEPT ![r] = [location |-> l, nbytes |-> n, owner |-> owner]]
    /\ reserved_bytes' = Charge(reserved_bytes, l, n)
    /\ locations' = locations \cup {l}
    /\ Bump
    /\ UNCHANGED <<records, materializations, used_bytes, protection, closed, scopes, clients>>

ReserveNext(r) ==
    /\ op.reserve # <<>>
    /\ LET q == Head(op.reserve) IN Reserve(r, q.location, q.nbytes, op.scope)
    /\ op' = [op EXCEPT !.reserve = Tail(@)]
    /\ UNCHANGED predicted

ReserveDone ==
    /\ Advance("reserve")
    /\ op' = [op EXCEPT !.kind = "enter", !.todo = scopes[op.scope].plan.enter]
    /\ UNCHANGED <<scopes, predicted>>

EnterDone ==
    /\ Advance("enter")
    /\ op' = Idle
    /\ predicted' = NoBytes
    /\ scopes' = [scopes EXCEPT ![op.scope].state = "entered"]

ExitScope(s) ==
    /\ scopes[s].state = "entered"
    /\ Begin("exit", scopes[s].plan.exit, s, NoBytes)
    /\ scopes' = [scopes EXCEPT ![s].state = "exiting"]
    /\ fresh' = ReapedFresh

ExitDone ==
    /\ Advance("exit")
    /\ op' = [op EXCEPT !.kind = "release"]
    /\ UNCHANGED <<scopes, predicted>>

\* _release_reservation_locked
ReleaseHeadroom(r) ==
    /\ reservations' = [reservations EXCEPT ![r] = NoReservation]
    /\ reserved_bytes' = Uncharge(reserved_bytes, reservations[r].location, reservations[r].nbytes)
    /\ Bump
    /\ UNCHANGED <<placement, protection, closed, scopes, clients>>

ReleaseNext(r) ==
    /\ op.kind = "release"
    /\ r \in Owned(op.scope)
    /\ ReleaseHeadroom(r)
    /\ UNCHANGED holder

ReleaseDone ==
    /\ Advance("release")
    /\ Owned(op.scope) = {}
    /\ op' = Idle
    /\ predicted' = NoBytes
    /\ scopes' = [scopes EXCEPT ![op.scope].state = "closed"]

\* _state_access raises while a callback is active, _require_available_locked
\* after close(): before _exit_scope has run an action or released anything.
Rejecting == CallbackActive \/ (LockFree /\ closed)

RejectScope(s) ==
    /\ Rejecting
    /\ scopes[s].state \in {"new", "entered"}
    /\ scopes' = [scopes EXCEPT ![s].state = "closed"]
    /\ fresh' = fresh \ {s}
    /\ UNCHANGED <<placement, protection, headroom, closed, holder, clients>>

\* The scope object is collected while entered: _abandon_scope_lifetime.
AbandonScope(s) ==
    /\ scopes[s].state = "entered"
    /\ scopes' = [scopes EXCEPT ![s].state = "abandoned"]
    /\ UNCHANGED <<placement, protection, headroom, closed, fresh, holder, clients>>

ReleaseAbandoned(r) ==
    /\ LockFree
    /\ r \notin orphaned
    /\ \E s \in Scopes : scopes[s].state = "abandoned" /\ r \in Owned(s)
    /\ ReleaseHeadroom(r)
    /\ UNCHANGED holder

-----------------------------------------------------------------------------
(* Leases, holds and reservations *)

Usable(H, l) == \A v \in H : records[v] = "live" /\ l \in materializations[v]

Acquire(t, H, l) ==
    /\ Open
    /\ leases[t] = NoLease
    /\ H # {}
    /\ Usable(H, l)
    /\ leases' = [ReapedLeases EXCEPT ![t] = [state |-> "active", handles |-> H, location |-> l]]
    /\ use_tokens' = [v \in Values |-> IF v \in H THEN [use_tokens[v] EXCEPT ![l] = @ \cup {t}]
                                                  ELSE use_tokens[v]]
    /\ pending_tokens' = ReapedTokens
    /\ Bump
    /\ UNCHANGED <<placement, headroom, hold_tokens, holds, closed, scopes, holder, clients>>

\* The consumer launches a kernel that reads the borrowed values.
LaunchRead(t) ==
    /\ leases[t].state = "active"
    /\ leases[t].location \in Cuda
    /\ t \notin orphaned \cup reading
    /\ reading' = reading \cup {t}
    /\ UNCHANGED <<placement, protection, headroom, closed, scopes, fresh, holder, orphaned>>

\* The consumer streams drain: every event recorded on them completes.
ReadsFinish(t) ==
    /\ t \in reading
    /\ reading' = reading \ {t}
    /\ UNCHANGED <<placement, protection, headroom, closed, scopes, fresh, holder, orphaned>>

Without(tokens, t) == [v \in Values |->
    IF v \in leases[t].handles THEN [tokens[v] EXCEPT ![leases[t].location] = @ \ {t}]
                               ELSE tokens[v]]

Releasing(t) ==
    /\ LockFree
    /\ leases[t].state = "active"
    /\ t \notin orphaned
    /\ use_tokens' = Without(use_tokens, t)
    /\ Bump
    /\ UNCHANGED <<placement, headroom, hold_tokens, holds, closed, scopes, holder, clients>>

\* A host lease; or a CUDA release that waits for its streams, because the
\* caller asked to, an event could not be recorded, or the lease was abandoned.
ReleaseNow(t) ==
    /\ Releasing(t)
    /\ t \notin reading
    /\ leases' = [leases EXCEPT ![t] = NoLease]
    /\ UNCHANGED pending_tokens

\* Mutated: a released lease is marked with a state nothing looks for.
ReleaseLaterMisnamed(t) ==
    /\ Releasing(t)
    /\ leases[t].location \in Cuda
    /\ leases' = [leases EXCEPT ![t].state = "complete"]
    /\ UNCHANGED pending_tokens

\* A CUDA release records events and keeps the materializations protected.
ReleaseLater(t) ==
    /\ Releasing(t)
    /\ leases[t].location \in Cuda
    /\ leases' = [leases EXCEPT ![t].state = "pending"]
    /\ pending_tokens' = [v \in Values |->
         IF v \in leases[t].handles
         THEN [pending_tokens[v] EXCEPT ![leases[t].location] = @ \cup {t}]
         ELSE pending_tokens[v]]

Hold(h, H, l) ==
    /\ Open
    /\ holds[h] = NoHold
    /\ H # {}
    /\ Usable(H, l)
    /\ Reap
    /\ holds' = [holds EXCEPT ![h] = [handles |-> H, location |-> l]]
    /\ hold_tokens' = [v \in Values |-> IF v \in H THEN [hold_tokens[v] EXCEPT ![l] = @ \cup {h}]
                                                   ELSE hold_tokens[v]]
    /\ Bump
    /\ UNCHANGED <<placement, headroom, use_tokens, closed, scopes, holder, clients>>

\* Mutated: releasing a hold does not advance the version.
ReleaseHoldQuietly(h) ==
    /\ LockFree
    /\ holds[h] # NoHold
    /\ h \notin orphaned
    /\ hold_tokens' = [v \in Values |-> [l \in Locations |-> hold_tokens[v][l] \ {h}]]
    /\ holds' = [holds EXCEPT ![h] = NoHold]
    /\ UNCHANGED <<placement, headroom, use_tokens, pending_tokens, leases, closed, scopes,
                   fresh, holder, clients>>

ReleaseHold(h) ==
    /\ LockFree
    /\ holds[h] # NoHold
    /\ h \notin orphaned
    /\ hold_tokens' = [v \in Values |->
         IF v \in holds[h].handles
         THEN [hold_tokens[v] EXCEPT ![holds[h].location] = @ \ {h}]
         ELSE hold_tokens[v]]
    /\ holds' = [holds EXCEPT ![h] = NoHold]
    /\ Bump
    /\ UNCHANGED <<placement, headroom, use_tokens, pending_tokens, leases, closed, scopes,
                   holder, clients>>

ReserveBytes(r, l, n) ==
    /\ Open
    /\ Reserve(r, l, n, NoScope)
    /\ UNCHANGED holder

ReleaseReservation(r) ==
    /\ LockFree
    /\ r \in Owned(NoScope)
    /\ r \notin orphaned
    /\ ReleaseHeadroom(r)
    /\ UNCHANGED holder

\* A finalizer that runs while a transition is in progress is rejected: the
\* token keeps its protection and nobody is left to release it.
Abandonable ==
         {t \in Leases : leases[t].state = "active"}
    \cup {h \in Holds : holds[h] # NoHold}
    \cup Owned(NoScope)
    \cup {r \in Reservations : \E s \in Scopes : scopes[s].state = "abandoned" /\ r \in Owned(s)}

Orphan(x) ==
    /\ ~LockFree
    /\ x \in Abandonable \ orphaned
    /\ orphaned' = orphaned \cup {x}
    /\ UNCHANGED <<placement, protection, headroom, closed, scopes, fresh, holder, reading>>

-----------------------------------------------------------------------------
(* close() drains every pending or active CUDA read before it clears state. *)

NoLifetimes ==
    /\ \A t \in Leases : ReapedLeases[t] = NoLease
    /\ \A h \in Holds : holds[h] = NoHold
    /\ \A r \in Reservations : reservations[r] = NoReservation

Close(force) ==
    /\ Open
    /\ reading = {}
    /\ force \/ NoLifetimes
    /\ closed' = TRUE
    /\ records' = [v \in Values |-> "absent"]
    /\ materializations' = [v \in Values |-> {}]
    /\ use_tokens' = [v \in Values |-> [l \in Locations |-> {}]]
    /\ pending_tokens' = [v \in Values |-> [l \in Locations |-> {}]]
    /\ hold_tokens' = [v \in Values |-> [l \in Locations |-> {}]]
    /\ leases' = [t \in Leases |-> NoLease]
    /\ holds' = [h \in Holds |-> NoHold]
    /\ reservations' = [r \in Reservations |-> NoReservation]
    /\ used_bytes' = NoBytes
    /\ reserved_bytes' = NoBytes
    /\ Bump
    /\ UNCHANGED <<locations, scopes, holder, clients>>

-----------------------------------------------------------------------------

\* What the thread that holds the lock does next.
HolderStep ==
    \/ StepNoOp \/ StepReplicate \/ StepMove \/ StepCollapse \/ StepDrop \/ StepDiscard
    \/ StartLoad \/ FinishLoad \/ LoadFails \/ StepFails
    \/ EndOperation
    \/ ReclaimDone \/ ReserveDone \/ EnterDone \/ ExitDone \/ ReleaseDone
    \/ \E r \in Reservations : ReserveNext(r) \/ ReleaseNext(r)

Register == \E v \in Values : RegisterSource(v) \/ \E l \in Locations : Adopt(v, l)

Operate ==
    \/ \E a \in Requests : Run(a)
    \/ \E batch \in Batches : ExecuteActions(batch)

UseScope == \E s \in Scopes :
    \/ \E plan \in Plans, versioned \in BOOLEAN : NewScope(s, plan, versioned)
    \/ EnterScope(s) \/ RefuseScope(s) \/ ExitScope(s) \/ RejectScope(s) \/ AbandonScope(s)

UseLease == \E t \in Leases :
    \/ \E H \in SUBSET Values, l \in Locations : Acquire(t, H, l)
    \/ LaunchRead(t) \/ ReadsFinish(t)
    \/ ReleaseNow(t) \/ ReleaseLater(t)

UseHold == \E h \in Holds :
    \/ \E H \in SUBSET Values, l \in Locations : Hold(h, H, l)
    \/ ReleaseHold(h)

UseReservation == \E r \in Reservations :
    \/ \E l \in Locations, n \in ReserveSizes : ReserveBytes(r, l, n)
    \/ ReleaseReservation(r)
    \/ ReleaseAbandoned(r)

Next ==
    \/ HolderStep
    \/ Register
    \/ Operate
    \/ UseScope
    \/ UseLease
    \/ UseHold
    \/ UseReservation
    \/ Poll
    \/ \E x \in Leases \cup Holds \cup Reservations : Orphan(x)
    \/ \E force \in BOOLEAN : Close(force)

Spec == Init /\ [][Next]_vars

\* A source callback must not wait for the manager, so it returns or raises,
\* and the thread that holds the lock runs on to release it.
FairSpec == Spec /\ WF_vars(HolderStep)

-----------------------------------------------------------------------------
(* Properties *)

OpKinds == {"idle", "run", "execute", "reclaim", "reserve", "enter", "exit", "release"}
ScopeStates == {"unborn", "new", "entering", "entered", "exiting", "closed", "abandoned"}
Place == Locations \cup {NoLocation}

PlacementTyped ==
    /\ records \in [Values -> {"absent", "live", "discarded"}]
    /\ materializations \in [Values -> SUBSET Locations]
    /\ used_bytes \in [Locations -> Int]
    /\ locations \subseteq Locations

LeaseRecord == [state : {"none", "active", "pending"}, handles : SUBSET Values,
                location : Place]
HoldRecord == [handles : SUBSET Values, location : Place]
ReservationRecord == [location : Place, nbytes : Nat, owner : Scopes \cup {NoScope}]

ProtectionTyped ==
    /\ use_tokens \in [Values -> [Locations -> SUBSET Leases]]
    /\ pending_tokens \in [Values -> [Locations -> SUBSET Leases]]
    /\ hold_tokens \in [Values -> [Locations -> SUBSET Holds]]
    /\ leases \in [Leases -> LeaseRecord]
    /\ holds \in [Holds -> HoldRecord]

HeadroomTyped ==
    /\ reservations \in [Reservations -> ReservationRecord]
    /\ reserved_bytes \in [Locations -> Int]

ScopeRecord == [state : ScopeStates, plan : Plans \cup {NoPlan}, versioned : BOOLEAN]
Load == [handle : Values, to : Locations]
Operation == [kind : OpKinds, todo : Seq(ResidencyAction), reserve : Seq(MemoryReservation),
              scope : Scopes \cup {NoScope}, load : Load \cup {NoLoad}]

ControlTyped ==
    /\ scopes \in [Scopes -> ScopeRecord]
    /\ fresh \subseteq Scopes
    /\ op \in Operation

ClientsTyped ==
    /\ orphaned \subseteq Leases \cup Holds \cup Reservations
    /\ reading \subseteq Leases
    /\ closed \in BOOLEAN

\* Every variable has its shape.  Byte counters are integers here; that they
\* never go negative is part of AccountingExact.
TypeOK ==
    /\ PlacementTyped
    /\ ProtectionTyped
    /\ HeadroomTyped
    /\ ControlTyped
    /\ ClientsTyped

-----------------------------------------------------------------------------
Sets == INSTANCE FiniteSetsExt

Total(weight, S) == Sets!MapThenSumSet(LAMBDA x : weight[x], S)

Occupants(l) == {v \in Values : l \in materializations[v]}
Reserved(l) == {r \in Reservations : reservations[r].location = l}
ReservedSize == [r \in Reservations |-> reservations[r].nbytes]
Loading(l) ==
    IF CallbackActive /\ SourceAt[op.load.handle] = l THEN Size[op.load.handle] ELSE 0

\* The byte counters are maintained incrementally by a dozen handlers; after
\* every step they equal what is really there: the materializations at the
\* location, and the admitted reservations plus the load in progress.
AccountingExact ==
    \A l \in Locations :
      /\ used_bytes[l] = Total(Size, Occupants(l))
      /\ reserved_bytes[l] = Total(ReservedSize, Reserved(l)) + Loading(l)

\* No interleaving of transfers, loads in progress and reservations takes the
\* managed bytes of a location over its strict budget (_ensure_budget_locked).
WithinBudget ==
    \A l \in Locations :
      Budget[l] # NoBudget => used_bytes[l] + reserved_bytes[l] <= Budget[l]

TokensAgree(v, l) ==
    /\ use_tokens[v][l] = {t \in Leases : leases[t].state = "active"
                             /\ v \in leases[t].handles /\ l = leases[t].location}
    /\ pending_tokens[v][l] = {t \in Leases : leases[t].state = "pending"
                                 /\ v \in leases[t].handles /\ l = leases[t].location}
    /\ hold_tokens[v][l] = {h \in Holds : v \in holds[h].handles /\ l = holds[h].location}
    /\ use_tokens[v][l] \cup pending_tokens[v][l] \cup hold_tokens[v][l] # {}
         => records[v] = "live" /\ l \in materializations[v]

\* The tokens kept on materializations and the lease and hold tables agree, and
\* every token protects a live value resident where it was borrowed.  This is
\* the state in which _leased_value and the release paths raise no error.
LifetimesConsistent == \A v \in Values, l \in Locations : TokensAgree(v, l)

\* Storage a consumer stream may still read is never given back: not by a
\* transition, a release, an abandoned lease, a reap or a forced close.
NoReadOfFreedStorage ==
    \A t \in reading :
      /\ leases[t].state \in {"active", "pending"}
      /\ \A v \in leases[t].handles : leases[t].location \in materializations[v]

\* An adopted value that was not discarded always has a copy somewhere, and a
\* discarded or unknown one occupies nothing.
NeverLost ==
    \A v \in Values :
      /\ records[v] = "live" /\ ~Reconstructible(v) => materializations[v] # {}
      /\ records[v] # "live" => materializations[v] = {}

\* An EXCLUSIVE value has one replica at rest, also when two requests and a
\* source load follow each other.
ExclusiveHasOneReplica ==
    \A v \in Exclusive : \A l, m \in materializations[v] : l = m

\* The part of the state a version covers: placement, ownership, lifetimes.
Versioned == <<records, materializations, use_tokens, pending_tokens, hold_tokens, leases,
               holds, reservations, locations, closed>>

\* Every change of placement, ownership or lifetime makes each version read
\* before it stale, so an admitted versioned plan runs on the state it was
\* decided on (_bump_state_locked, _require_expected_state_version_locked).
VersionTracksState == [][Versioned' # Versioned => fresh \cap fresh' = {}]_vars

Preflighted == op.kind \in {"execute", "reclaim", "reserve", "enter"}

\* Preflight is sound: once a plan is admitted, each of its requests and
\* reservations is possible when its turn comes, so only a source, a copy or a
\* validation can fail (_explain_actions_locked against _execute_action_locked).
AdmittedStepsFeasible ==
    Preflighted =>
      /\ Ready => Feasible
      /\ CallbackActive => LoadFits
      /\ op.reserve # <<>> => Fits(Head(op.reserve).location, Head(op.reserve).nbytes)

\* predicted_peak_bytes bounds what the plan really charges at any moment.
PredictedPeakCoversCharge ==
    Preflighted => \A l \in Locations : used_bytes[l] + reserved_bytes[l] <= predicted[l]

\* Whatever fails, the thread that took the lock gives it back.
OperationTerminates == ~LockFree ~> LockFree

\* A scope that starts to exit ends closed with all its reservations returned,
\* even when an exit request fails.
ExitReturnsReservations ==
    \A s \in Scopes : (scopes[s].state = "exiting")
                        ~> (scopes[s].state = "closed" /\ Owned(s) = {})

\* A closed scope charges nothing: "Scope exit always attempts to release
\* reservations."
ClosedScopeOwnsNothing ==
    \A s \in Scopes : scopes[s].state = "closed" => Owned(s) = {}
=============================================================================
