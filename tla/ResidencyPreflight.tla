-------------------------- MODULE ResidencyPreflight --------------------------
(***************************************************************************)
(* The dry run of an ordered plan: ResidencyManager._explain_actions_locked *)
(* and _simulate_action_locked.  It works on a private copy of placement    *)
(* and accounting, so it is a pure function of that copy, of the handles    *)
(* the manager knows and of the (handle, location) pairs that are protected.*)
(*                                                                         *)
(* A simulation is a record: locations (the replicas of every value),      *)
(* discarded, used, reserved and peaks (bytes per location) and feasible,  *)
(* which becomes FALSE at the first step that fails and stops the run.     *)
(***************************************************************************)
EXTENDS ResidencyModel
Ext == INSTANCE SequencesExt

Larger(m, n) == IF m >= n THEN m ELSE n

\* Mutated: the dry run forgets the reserved bytes.
TouchIgnoringReserved(sim, l, n) ==
    LET total == sim.used[l] + n
    IN  [sim EXCEPT !.peaks[l] = Larger(@, total),
                    !.feasible = @ /\ (Budget[l] # NoBudget => total <= Budget[l])]

\* Charge n bytes at l for the peak and the budget check only.
Touch(sim, l, n) ==
    LET total == sim.used[l] + sim.reserved[l] + n
    IN  [sim EXCEPT !.peaks[l] = Larger(@, total),
                    !.feasible = @ /\ (Budget[l] # NoBudget => total <= Budget[l])]

\* Mutated: a source load is taken to cost nothing.
AddTemporaryFree(sim, v, l) == sim

\* add(location) and add(location, temporary=True) of _simulate_action_locked.
AddTemporary(sim, v, l) == Touch(sim, l, Size[v])

AddReplica(sim, v, l) ==
    LET touched == Touch(sim, l, Size[v])
    IN  IF ~touched.feasible THEN touched
        ELSE [touched EXCEPT !.used[l] = @ + Size[v], !.locations[v] = @ \cup {l}]

RemoveReplica(sim, v, l) ==
    [sim EXCEPT !.used[l] = @ - Size[v], !.locations[v] = @ \ {l}]

Infeasible(sim) == [sim EXCEPT !.feasible = FALSE]

\* A value with no replica is first loaded at its source location.
FromSource(sim, v, l) ==
    IF ~Reconstructible(v) THEN Infeasible(sim)
    ELSE LET loaded == AddTemporary(sim, v, SourceAt[v])
         IN  IF loaded.feasible THEN AddReplica(loaded, v, l) ELSE loaded

SimulateEnsure(sim, a) ==
    LET v == a.handle
    IN  CASE a.to \in sim.locations[v] -> sim
          [] a.to \notin sim.locations[v] /\ sim.locations[v] = {} -> FromSource(sim, v, a.to)
          [] OTHER -> IF v \in Exclusive THEN Infeasible(sim) ELSE AddReplica(sim, v, a.to)

SimulateMove(sim, a, protected) ==
    LET v == a.handle
        S == sim.locations[v]
        source == SelectSource(S \ {a.to}, a.from)
        blocked == <<v, source>> \in protected
        added == AddReplica(sim, v, a.to)
    IN  CASE a.from # NoLocation /\ a.from \notin S -> Infeasible(sim)
          [] a.to \in S /\ source \in {NoLocation, a.to} -> sim
          [] S = {} /\ a.from = NoLocation -> FromSource(sim, v, a.to)
          [] OTHER -> IF blocked THEN Infeasible(sim)
                      ELSE IF a.to \in S THEN RemoveReplica(sim, v, source)
                      ELSE IF added.feasible THEN RemoveReplica(added, v, source) ELSE added

SimulateDrop(sim, a, protected) ==
    LET v == a.handle
        final == sim.locations[v] = {a.to} /\ ~Reconstructible(v)
    IN  IF a.to \notin sim.locations[v] THEN sim
        ELSE IF <<v, a.to>> \in protected \/ final THEN Infeasible(sim)
        ELSE RemoveReplica(sim, v, a.to)

SimulateDiscard(sim, a, protected) ==
    LET v == a.handle
        S == sim.locations[v]
    IN  IF \E l \in S : <<v, l>> \in protected THEN Infeasible(sim)
        ELSE [sim EXCEPT !.used = [l \in Locations |-> @[l] - IF l \in S THEN Size[v] ELSE 0],
                         !.locations[v] = {},
                         !.discarded = @ \cup {v}]

SimulateAction(sim, a, live, protected) ==
    CASE ~sim.feasible -> sim
      [] sim.feasible /\ (a.handle \notin live \/ a.handle \in sim.discarded) -> Infeasible(sim)
      [] OTHER ->
           CASE a.op = "ensure"  -> SimulateEnsure(sim, a)
             [] a.op = "move"    -> SimulateMove(sim, a, protected)
             [] a.op = "drop"    -> SimulateDrop(sim, a, protected)
             [] a.op = "discard" -> SimulateDiscard(sim, a, protected)

AdmitReservation(sim, r) ==
    LET touched == Touch(sim, r.location, r.nbytes)
    IN  IF ~sim.feasible THEN sim
        ELSE [touched EXCEPT !.reserved[r.location] = @ + r.nbytes]

ExplainActions(sim, actions, live, protected) ==
    Ext!FoldLeft(LAMBDA s, a : SimulateAction(s, a, live, protected), sim, actions)

\* A scope plan: reclaim, then the reservations, then entry and exit actions.
ExplainPlan(sim, plan, live, protected) ==
    LET reclaimed == ExplainActions(sim, plan.reclaim, live, protected)
        admitted  == Ext!FoldLeft(AdmitReservation, reclaimed, plan.reservations)
    IN  ExplainActions(admitted, plan.enter \o plan.exit, live, protected)
=============================================================================
