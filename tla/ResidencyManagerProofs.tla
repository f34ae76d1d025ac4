------------------------ MODULE ResidencyManagerProofs ------------------------
(***************************************************************************)
(* Safety of ResidencyManager for any number of values, locations, tokens, *)
(* reservations and scopes and for plans of any length: lifetimes and      *)
(* placement first, then its bookkeeping, which is exact, and its dry run, *)
(* which is sound.                                                         *)
(*                                                                         *)
(* The last two are inductions: over the set a byte counter adds up, and   *)
(* over the list of actions a plan still has to run.  They rest on two     *)
(* facts about the natural numbers, that every nonempty set of them has a  *)
(* least element and that a set closed under successor holds them all.     *)
(***************************************************************************)
EXTENDS ResidencyManager, TLAPS, WellFoundedInduction, FiniteSetTheorems, SequenceTheorems

-----------------------------------------------------------------------------
(* Induction *)

LEMMA LeastNatural ==
    ASSUME NEW T \in SUBSET Nat, T # {}
    PROVE  \E n \in T : \A m \in T : n <= m
<1>1. IsWellFoundedOn(OpToRel(<, Nat), Nat)
  BY NatLessThanWellFounded
<1>2. PICK n \in T : \A m \in T : <<m, n>> \notin OpToRel(<, Nat)
  BY <1>1, WFMin
<1>3. \A m \in T : ~ (m < n)
  BY <1>2 DEF OpToRel
<1> QED
  BY <1>3

\* Induction with a set for the property.
LEMMA InductionOnNat ==
    ASSUME NEW S, 0 \in S, \A n \in Nat : n \in S => n + 1 \in S
    PROVE  \A n \in Nat : n \in S
<1> SUFFICES ASSUME Nat \ S # {} PROVE FALSE
  OBVIOUS
<1>1. PICK n \in Nat \ S : \A m \in Nat \ S : n <= m
  BY LeastNatural
<1>2. n # 0
  OBVIOUS
<1>3. n - 1 \in Nat /\ n - 1 \in S
  BY <1>1, <1>2
<1> QED
  BY <1>3

-----------------------------------------------------------------------------
(* Auxiliary invariants *)

\* A scope that was created carries one of the plans, so does the operation
\* that executes it; a load is part of a request.
ControlConsistent ==
    /\ \A s \in Scopes : scopes[s].state # "unborn" => scopes[s].plan \in Plans
    /\ op.kind \in {"reclaim", "reserve", "enter", "exit", "release"} => op.scope # NoScope
    /\ op.scope # NoScope => scopes[op.scope].state # "unborn"
    /\ CallbackActive => op.todo # <<>>

\* A lease in use has a location, at which its tokens are found.
LeasesPlaced == \A t \in Leases : leases[t].state # "none" => leases[t].location \in Locations

-----------------------------------------------------------------------------
(* Requests *)

LEMMA RequestTyped ==
    ASSUME NEW a \in ResidencyAction
    PROVE  /\ a = [op |-> a.op, handle |-> a.handle, to |-> a.to, from |-> a.from]
           /\ a.handle \in Values
           /\ a.op \in {"ensure", "move", "drop", "discard"}
           /\ a.op # "discard" => a.to \in Locations
           /\ a.to \in Place /\ a.from \in Place
  BY DEF ResidencyAction, EnsureResident, MoveResident, DropResident, DiscardValue, Place

LEMMA HeadRequestTyped ==
    ASSUME TypeOK, op.todo # <<>>
    PROVE  Request \in ResidencyAction /\ Tail(op.todo) \in Seq(ResidencyAction)
  <1>1. op.todo \in Seq(ResidencyAction)
    BY DEF TypeOK, ControlTyped, Operation
  <1> QED BY <1>1 DEF Request

LEMMA ReapTyped ==
    ASSUME TypeOK
    PROVE  /\ ReapedLeases \in [Leases -> LeaseRecord]
           /\ ReapedTokens \in [Values -> [Locations -> SUBSET Leases]]
           /\ ReapedFresh \subseteq Scopes
  <1> USE DEF TypeOK, ProtectionTyped, ControlTyped
  <1>1. NoLease \in LeaseRecord
    BY DEF NoLease, Place, LeaseRecord
  <1>2. ReapedLeases \in [Leases -> LeaseRecord]
    BY <1>1 DEF ReapedLeases
  <1>3. ReapedTokens \in [Values -> [Locations -> SUBSET Leases]]
    <2>1. \A v \in Values, l \in Locations : pending_tokens[v][l] \ Finished \subseteq Leases
      OBVIOUS
    <2> QED BY <2>1 DEF ReapedTokens
  <1>4. ReapedFresh \subseteq Scopes
    BY DEF ReapedFresh
  <1> QED BY <1>2, <1>3, <1>4

-----------------------------------------------------------------------------
(* Type correctness *)

LEMMA EmptyTodo == <<>> \in Seq(ResidencyAction) /\ <<>> \in Seq(MemoryReservation)
  OBVIOUS

LEMMA IdleTyped == Idle \in Operation
  BY EmptyTodo DEF Idle, OpKinds, Operation

LEMMA InitTyped == ASSUME Init PROVE TypeOK
  <1> USE DEF Init
  <1>1. PlacementTyped
    BY DEF PlacementTyped, NoBytes
  <1>2. ProtectionTyped
    BY DEF ProtectionTyped, NoLease, NoHold, Place, LeaseRecord, HoldRecord
  <1>3. HeadroomTyped
    BY DEF HeadroomTyped, NoReservation, NoBytes, Place, ReservationRecord
  <1>4. ControlTyped
    BY IdleTyped DEF ControlTyped, ScopeRecord, ScopeStates
  <1>5. ClientsTyped
    BY DEF ClientsTyped
  <1> QED BY <1>1, <1>2, <1>3, <1>4, <1>5 DEF TypeOK

\* What leaves a group of variables alone keeps its type.
LEMMA FrameTyped ==
    ASSUME TypeOK
    PROVE  /\ UNCHANGED placement => PlacementTyped'
           /\ UNCHANGED protection => ProtectionTyped'
           /\ UNCHANGED headroom => HeadroomTyped'
           /\ UNCHANGED <<scopes, op>> /\ fresh' \subseteq Scopes => ControlTyped'
           /\ UNCHANGED <<closed, clients>> => ClientsTyped'
           /\ Reap /\ UNCHANGED <<use_tokens, hold_tokens, holds>> => ProtectionTyped'
  <1>1. UNCHANGED placement => PlacementTyped'
    BY DEF TypeOK, PlacementTyped, placement
  <1>2. UNCHANGED protection => ProtectionTyped'
    BY DEF TypeOK, ProtectionTyped, protection
  <1>3. UNCHANGED headroom => HeadroomTyped'
    BY DEF TypeOK, HeadroomTyped, headroom
  <1>4. UNCHANGED <<scopes, op>> /\ fresh' \subseteq Scopes => ControlTyped'
    BY DEF TypeOK, ControlTyped
  <1>5. UNCHANGED <<closed, clients>> => ClientsTyped'
    BY DEF TypeOK, ClientsTyped, clients
  <1>6. Reap /\ UNCHANGED <<use_tokens, hold_tokens, holds>> => ProtectionTyped'
    BY ReapTyped DEF TypeOK, ProtectionTyped, Reap
  <1> QED BY <1>1, <1>2, <1>3, <1>4, <1>5, <1>6

\* Byte counters stay integers, also when the location is not a known one.
LEMMA ChargeTyped ==
    ASSUME NEW bytes \in [Locations -> Int], NEW l, NEW n \in Nat
    PROVE  Charge(bytes, l, n) \in [Locations -> Int] /\ Uncharge(bytes, l, n) \in [Locations -> Int]
  <1>1. CASE l \in Locations
    BY <1>1 DEF Charge, Uncharge
  <1>2. CASE l \notin Locations
    BY <1>2 DEF Charge, Uncharge
  <1> QED BY <1>1, <1>2

LEMMA InstallTyped ==
    ASSUME TypeOK, NEW v \in Values, NEW l \in Locations, Install(v, l),
           records' \in [Values -> {"absent", "live", "discarded"}]
    PROVE  PlacementTyped'
  <1> USE DEF TypeOK, PlacementTyped, Install
  <1>1. used_bytes' \in [Locations -> Int]
    BY SpecAssumption, ChargeTyped
  <1>2. materializations' \in [Values -> SUBSET Locations] /\ locations' \subseteq Locations
    OBVIOUS
  <1> QED BY <1>1, <1>2

LEMMA RemoveTyped ==
    ASSUME TypeOK, NEW v \in Values, NEW l, Uninstall(v, l), UNCHANGED records
    PROVE  PlacementTyped'
  <1> USE DEF TypeOK, PlacementTyped, Uninstall
  <1>1. used_bytes' \in [Locations -> Int]
    BY SpecAssumption, ChargeTyped
  <1>2. materializations' \in [Values -> SUBSET Locations] /\ locations' \subseteq Locations
    OBVIOUS
  <1> QED BY <1>1, <1>2

LEMMA RegisterTyped ==
    ASSUME TypeOK, Register PROVE TypeOK'
  <1>1. ASSUME NEW v \in Values, RegisterSource(v) PROVE TypeOK'
    <2> USE <1>1 DEF RegisterSource, Bump
    <2>1. PlacementTyped'
      BY SpecAssumption DEF TypeOK, PlacementTyped, Reconstructible
    <2> QED BY <2>1, FrameTyped DEF TypeOK, holder
  <1>2. ASSUME NEW v \in Values, NEW l \in Locations, Adopt(v, l) PROVE TypeOK'
    <2> USE <1>2 DEF Adopt, Bump
    <2>1. records' \in [Values -> {"absent", "live", "discarded"}]
      BY DEF TypeOK, PlacementTyped
    <2>2. PlacementTyped'
      BY <2>1, InstallTyped
    <2> QED BY <2>2, FrameTyped DEF TypeOK, holder
  <1> QED BY <1>1, <1>2 DEF Register

-----------------------------------------------------------------------------
(* Transitions keep the types *)

LEMMA SucceedTyped ==
    ASSUME TypeOK, Ready, Reap,
           UNCHANGED <<use_tokens, hold_tokens, holds, closed, scopes, clients>>
    PROVE  /\ Request \in ResidencyAction /\ Request.handle \in Values
           /\ ProtectionTyped' /\ ClientsTyped'
  BY HeadRequestTyped, RequestTyped, FrameTyped DEF Ready

LEMMA NextRequestTyped ==
    ASSUME TypeOK, Ready, NextRequest, UNCHANGED scopes, fresh' \subseteq Scopes
    PROVE  ControlTyped'
  <1>1. Tail(op.todo) \in Seq(ResidencyAction)
    BY HeadRequestTyped DEF Ready
  <1> QED BY <1>1 DEF TypeOK, ControlTyped, NextRequest, Operation

LEMMA TransitionTyped ==
    ASSUME TypeOK,
           StepNoOp \/ StepReplicate \/ StepMove \/ StepCollapse \/ StepDrop \/ StepDiscard
    PROVE  TypeOK'
  <1> USE DEF Bump, Succeed
  <1>1. CASE StepNoOp
    <2> USE <1>1 DEF StepNoOp
    <2>1. ControlTyped'
      BY NextRequestTyped, ReapTyped
    <2> QED BY <2>1, SucceedTyped, FrameTyped DEF TypeOK
  <1>2. CASE StepReplicate
    <2> USE <1>2 DEF StepReplicate
    <2>1. Request.to \in Locations
      BY SucceedTyped, RequestTyped DEF CanReplicate
    <2>2. PlacementTyped'
      BY <2>1, SucceedTyped, InstallTyped DEF TypeOK, PlacementTyped
    <2>3. ControlTyped'
      BY NextRequestTyped
    <2> QED BY <2>2, <2>3, SucceedTyped, FrameTyped DEF TypeOK
  <1>3. CASE StepMove
    <2> USE <1>3 DEF StepMove
    <2>1. Request.to \in Locations
      BY SucceedTyped, RequestTyped DEF CanMove
    <2>2. used_bytes' \in [Locations -> Int]
      BY SucceedTyped, SpecAssumption, ChargeTyped DEF TypeOK, PlacementTyped, Nbytes
    <2>3. PlacementTyped'
      BY <2>1, <2>2, SucceedTyped DEF TypeOK, PlacementTyped
    <2>4. ControlTyped'
      BY NextRequestTyped
    <2> QED BY <2>3, <2>4, SucceedTyped, FrameTyped DEF TypeOK
  <1>4. CASE StepCollapse
    <2> USE <1>4 DEF StepCollapse
    <2>1. PlacementTyped'
      BY SucceedTyped, RemoveTyped
    <2>2. ControlTyped'
      BY NextRequestTyped
    <2> QED BY <2>1, <2>2, SucceedTyped, FrameTyped DEF TypeOK
  <1>5. CASE StepDrop
    <2> USE <1>5 DEF StepDrop
    <2>1. PlacementTyped'
      BY SucceedTyped, RemoveTyped
    <2>2. ControlTyped'
      BY NextRequestTyped
    <2> QED BY <2>1, <2>2, SucceedTyped, FrameTyped DEF TypeOK
  <1>6. CASE StepDiscard
    <2> USE <1>6 DEF StepDiscard
    <2>1. Nbytes \in Nat
      BY SucceedTyped, SpecAssumption DEF Nbytes
    <2>2. \A l \in Locations : used_bytes[l] - (IF l \in Resident THEN Nbytes ELSE 0) \in Int
      BY <2>1 DEF TypeOK, PlacementTyped
    <2>3. PlacementTyped'
      BY <2>2, SucceedTyped DEF TypeOK, PlacementTyped
    <2>4. ControlTyped'
      BY NextRequestTyped
    <2> QED BY <2>3, <2>4, SucceedTyped, FrameTyped DEF TypeOK
  <1> QED BY <1>1, <1>2, <1>3, <1>4, <1>5, <1>6

LEMMA FailTyped ==
    ASSUME TypeOK, Fail
    PROVE  op' \in Operation
  <1>1. CASE op.scope = NoScope
    BY <1>1, IdleTyped DEF Fail
  <1>2. CASE op.scope # NoScope
    BY <1>2, EmptyTodo DEF Fail, TypeOK, ControlTyped, Operation, OpKinds
  <1> QED BY <1>1, <1>2

LEMMA LoadTyped ==
    ASSUME TypeOK, ControlConsistent, StartLoad \/ FinishLoad \/ LoadFails \/ StepFails
    PROVE  TypeOK'
  <1> USE DEF Bump
  <1>1. CASE StartLoad
    <2> USE <1>1 DEF StartLoad, Succeed
    <2>1. Request.to \in Locations
      BY SucceedTyped, RequestTyped DEF NeedsLoad
    <2>2. reserved_bytes' \in [Locations -> Int]
      BY SucceedTyped, SpecAssumption, ChargeTyped DEF TypeOK, HeadroomTyped, Nbytes
    <2>3. HeadroomTyped'
      BY <2>2 DEF TypeOK, HeadroomTyped
    <2>4. ControlTyped'
      BY <2>1, SucceedTyped, ReapTyped DEF TypeOK, ControlTyped, Operation, Load
    <2> QED BY <2>3, <2>4, SucceedTyped, FrameTyped DEF TypeOK
  <1>2. ASSUME EndLoad
        PROVE  /\ op.load \in Load
               /\ HeadroomTyped' /\ ProtectionTyped' /\ ClientsTyped'
    <2> USE <1>2 DEF EndLoad
    <2>1. op.load \in Load
      BY DEF TypeOK, ControlTyped, Operation, CallbackActive
    <2>2. reserved_bytes' \in [Locations -> Int]
      BY <2>1, SpecAssumption, ChargeTyped DEF TypeOK, HeadroomTyped, Load
    <2> QED BY <2>1, <2>2, FrameTyped DEF TypeOK, HeadroomTyped
  <1>3. CASE FinishLoad
    <2> USE <1>3 DEF FinishLoad
    <2>1. PlacementTyped'
      BY <1>2, InstallTyped DEF Load, EndLoad, TypeOK, PlacementTyped
    <2>2. Tail(op.todo) \in Seq(ResidencyAction)
      BY HeadRequestTyped DEF EndLoad, ControlConsistent
    <2>3. ControlTyped'
      BY <2>2, <1>2 DEF EndLoad, TypeOK, ControlTyped, Operation
    <2> QED BY <2>1, <2>3, <1>2 DEF TypeOK
  <1>4. CASE LoadFails
    <2> USE <1>4 DEF LoadFails
    <2>1. ControlTyped'
      BY FailTyped DEF EndLoad, TypeOK, ControlTyped
    <2>2. PlacementTyped'
      BY DEF EndLoad, TypeOK, PlacementTyped
    <2> QED BY <2>1, <2>2, <1>2 DEF TypeOK
  <1>5. CASE StepFails
    <2> USE <1>5 DEF StepFails
    <2>1. ControlTyped'
      BY FailTyped, ReapTyped DEF TypeOK, ControlTyped
    <2> QED BY <2>1, FrameTyped DEF TypeOK
  <1> QED BY <1>1, <1>3, <1>4, <1>5


-----------------------------------------------------------------------------
(* Operations and scopes keep the types *)

LEMMA BeginTyped ==
    ASSUME TypeOK, NEW kind \in OpKinds, NEW todo \in Seq(ResidencyAction),
           NEW scope \in Scopes \cup {NoScope}, NEW peaks, Begin(kind, todo, scope, peaks)
    PROVE  op' \in Operation /\ PlacementTyped' /\ ProtectionTyped' /\ HeadroomTyped' /\ ClientsTyped'
  <1>1. op' \in Operation
    BY EmptyTodo DEF Begin, Operation
  <1> QED BY <1>1, FrameTyped DEF Begin

LEMMA OperateTyped ==
    ASSUME TypeOK, Operate \/ EndOperation
    PROVE  TypeOK'
  <1>1. ASSUME NEW a \in Requests, Run(a) PROVE TypeOK'
    <2> DEFINE todo == <<a>>
    <2>1. todo \in Seq(ResidencyAction)
      BY TokenAssumption
    <2> HIDE DEF todo
    <2>2. op' \in Operation /\ PlacementTyped' /\ ProtectionTyped' /\ HeadroomTyped' /\ ClientsTyped'
      BY <1>1, <2>1, BeginTyped DEF Run, OpKinds, todo
    <2> QED BY <1>1, <2>2, ReapTyped DEF Run, TypeOK, ControlTyped
  <1>2. ASSUME NEW batch \in Batches, ExecuteActions(batch) PROVE TypeOK'
    <2>1. PICK peaks : Begin("execute", batch, NoScope, peaks)
      BY <1>2 DEF ExecuteActions
    <2>2. batch \in Seq(ResidencyAction) /\ "execute" \in OpKinds
      BY TokenAssumption DEF OpKinds
    <2>3. op' \in Operation /\ PlacementTyped' /\ ProtectionTyped' /\ HeadroomTyped' /\ ClientsTyped'
      BY <2>1, <2>2, BeginTyped
    <2>4. fresh' = ReapedFresh /\ UNCHANGED scopes
      BY <1>2 DEF ExecuteActions
    <2> QED BY <2>3, <2>4, ReapTyped DEF TypeOK, ControlTyped
  <1>3. CASE EndOperation
    <2> USE <1>3 DEF EndOperation
    <2>1. ControlTyped'
      BY IdleTyped DEF TypeOK, ControlTyped
    <2> QED BY <2>1, FrameTyped DEF TypeOK
  <1> QED BY <1>1, <1>2, <1>3 DEF Operate

\* The phases of a scope only touch the scope table and the operation.
LEMMA ScopeMarkedTyped ==
    ASSUME TypeOK, NEW s, NEW state \in ScopeStates,
           scopes' = [scopes EXCEPT ![s].state = state]
    PROVE  scopes' \in [Scopes -> ScopeRecord]
  BY DEF TypeOK, ControlTyped, ScopeRecord

LEMMA PlanTyped ==
    ASSUME NEW plan \in Plans
    PROVE  /\ plan.reclaim \in Seq(ResidencyAction)
           /\ plan.reservations \in Seq(MemoryReservation)
           /\ plan.enter \in Seq(ResidencyAction)
           /\ plan.exit \in Seq(ResidencyAction)
  BY TokenAssumption DEF ResidencyPlan

LEMMA UseScopeTyped ==
    ASSUME TypeOK, ControlConsistent, UseScope
    PROVE  TypeOK'
  <1> SUFFICES ASSUME NEW s \in Scopes,
                      \/ \E plan \in Plans, versioned \in BOOLEAN : NewScope(s, plan, versioned)
                      \/ EnterScope(s) \/ RefuseScope(s) \/ ExitScope(s)
                      \/ RejectScope(s) \/ AbandonScope(s)
               PROVE  TypeOK'
    BY DEF UseScope
  <1>1. ASSUME NEW plan \in Plans, NEW versioned \in BOOLEAN, NewScope(s, plan, versioned)
        PROVE  TypeOK'
    <2> USE <1>1 DEF NewScope
    <2>1. scopes' \in [Scopes -> ScopeRecord]
      BY DEF TypeOK, ControlTyped, ScopeRecord, ScopeStates
    <2>2. ProtectionTyped' /\ fresh' \subseteq Scopes
      <3>1. CASE versioned
        BY <3>1, ReapTyped, FrameTyped
      <3>2. CASE ~versioned
        BY <3>2, FrameTyped DEF protection, TypeOK, ControlTyped
      <3> QED BY <3>1, <3>2
    <2>3. ControlTyped'
      BY <2>1, <2>2 DEF holder, TypeOK, ControlTyped
    <2> QED BY <2>2, <2>3, FrameTyped DEF TypeOK
  <1>2. CASE EnterScope(s)
    <2>1. scopes[s].plan.reclaim \in Seq(ResidencyAction)
      BY <1>2, PlanTyped DEF EnterScope, ControlConsistent
    <2>2. op' \in Operation /\ PlacementTyped' /\ ProtectionTyped' /\ HeadroomTyped' /\ ClientsTyped'
      BY <1>2, <2>1, BeginTyped DEF EnterScope, OpKinds
    <2>3. scopes' \in [Scopes -> ScopeRecord]
      BY <1>2, ScopeMarkedTyped DEF EnterScope, ScopeStates
    <2>4. fresh' \subseteq Scopes
      BY <1>2, ReapTyped DEF EnterScope
    <2> QED BY <2>2, <2>3, <2>4 DEF TypeOK, ControlTyped
  <1>3. CASE RefuseScope(s)
    <2> USE <1>3 DEF RefuseScope
    <2>1. scopes' \in [Scopes -> ScopeRecord]
      BY ScopeMarkedTyped DEF ScopeStates
    <2>2. ControlTyped'
      BY <2>1, ReapTyped DEF holder, TypeOK, ControlTyped
    <2> QED BY <2>2, FrameTyped DEF TypeOK
  <1>4. CASE ExitScope(s)
    <2>1. scopes[s].plan.exit \in Seq(ResidencyAction)
      BY <1>4, PlanTyped DEF ExitScope, ControlConsistent
    <2>2. op' \in Operation /\ PlacementTyped' /\ ProtectionTyped' /\ HeadroomTyped' /\ ClientsTyped'
      BY <1>4, <2>1, BeginTyped DEF ExitScope, OpKinds
    <2>3. scopes' \in [Scopes -> ScopeRecord]
      BY <1>4, ScopeMarkedTyped DEF ExitScope, ScopeStates
    <2>4. fresh' \subseteq Scopes
      BY <1>4, ReapTyped DEF ExitScope
    <2> QED BY <2>2, <2>3, <2>4 DEF TypeOK, ControlTyped
  <1>5. CASE RejectScope(s)
    <2> USE <1>5 DEF RejectScope
    <2>1. scopes' \in [Scopes -> ScopeRecord]
      BY ScopeMarkedTyped DEF ScopeStates
    <2>2. ControlTyped'
      BY <2>1 DEF holder, TypeOK, ControlTyped
    <2> QED BY <2>2, FrameTyped DEF TypeOK
  <1>6. CASE AbandonScope(s)
    <2> USE <1>6 DEF AbandonScope
    <2>1. scopes' \in [Scopes -> ScopeRecord]
      BY ScopeMarkedTyped DEF ScopeStates
    <2>2. ControlTyped'
      BY <2>1 DEF holder, TypeOK, ControlTyped
    <2> QED BY <2>2, FrameTyped DEF TypeOK
  <1> QED BY <1>1, <1>2, <1>3, <1>4, <1>5, <1>6

LEMMA ReserveTyped ==
    ASSUME TypeOK, NEW r \in Reservations, NEW l \in Locations, NEW n \in Nat,
           NEW owner \in Scopes \cup {NoScope}, Reserve(r, l, n, owner)
    PROVE  PlacementTyped' /\ ProtectionTyped' /\ HeadroomTyped' /\ ClientsTyped'
  <1> USE DEF Reserve
  <1>1. PlacementTyped'
    BY DEF TypeOK, PlacementTyped
  <1>2. reserved_bytes' \in [Locations -> Int]
    BY ChargeTyped DEF TypeOK, HeadroomTyped
  <1>3. HeadroomTyped'
    BY <1>2 DEF TypeOK, HeadroomTyped, ReservationRecord, Place
  <1> QED BY <1>1, <1>3, FrameTyped

LEMMA ReleaseHeadroomTyped ==
    ASSUME TypeOK, NEW r \in Reservations, ReleaseHeadroom(r)
    PROVE  PlacementTyped' /\ ProtectionTyped' /\ HeadroomTyped' /\ ClientsTyped'
  <1> USE DEF ReleaseHeadroom
  <1>1. reservations[r].nbytes \in Nat
    BY DEF TypeOK, HeadroomTyped, ReservationRecord
  <1>2. reserved_bytes' \in [Locations -> Int]
    BY <1>1, ChargeTyped DEF TypeOK, HeadroomTyped
  <1>3. NoReservation \in ReservationRecord
    BY DEF NoReservation, ReservationRecord, Place
  <1>4. HeadroomTyped'
    BY <1>2, <1>3 DEF TypeOK, HeadroomTyped
  <1> QED BY <1>4, FrameTyped

LEMMA ScopePhaseTyped ==
    ASSUME TypeOK, ControlConsistent,
           ReclaimDone \/ ReserveDone \/ EnterDone \/ ExitDone \/ ReleaseDone
    PROVE  TypeOK'
  <1> USE DEF Advance
  <1>1. PlacementTyped' /\ ProtectionTyped' /\ HeadroomTyped' /\ ClientsTyped'
    BY FrameTyped DEF ReclaimDone, ReserveDone, EnterDone, ExitDone, ReleaseDone
  <1>2. op.kind \in {"reclaim", "reserve"} =>
           /\ scopes[op.scope].plan.reservations \in Seq(MemoryReservation)
           /\ scopes[op.scope].plan.enter \in Seq(ResidencyAction)
    BY PlanTyped DEF ControlConsistent, TypeOK, ControlTyped, Operation
  <1>3. CASE ReclaimDone
    BY <1>1, <1>2, <1>3 DEF ReclaimDone, TypeOK, ControlTyped, Operation, OpKinds
  <1>4. CASE ReserveDone
    BY <1>1, <1>2, <1>4 DEF ReserveDone, TypeOK, ControlTyped, Operation, OpKinds
  <1>5. CASE EnterDone
    <2>1. scopes' \in [Scopes -> ScopeRecord]
      BY <1>5, ScopeMarkedTyped DEF EnterDone, ScopeStates
    <2> QED BY <1>1, <1>5, <2>1, IdleTyped DEF EnterDone, TypeOK, ControlTyped
  <1>6. CASE ExitDone
    BY <1>1, <1>6 DEF ExitDone, TypeOK, ControlTyped, Operation, OpKinds
  <1>7. CASE ReleaseDone
    <2>1. scopes' \in [Scopes -> ScopeRecord]
      BY <1>7, ScopeMarkedTyped DEF ReleaseDone, ScopeStates
    <2> QED BY <1>1, <1>7, <2>1, IdleTyped DEF ReleaseDone, TypeOK, ControlTyped
  <1> QED BY <1>3, <1>4, <1>5, <1>6, <1>7

LEMMA HeadroomStepTyped ==
    ASSUME TypeOK, NEW r \in Reservations,
           \/ ReserveNext(r) \/ ReleaseNext(r)
           \/ \E l \in Locations, n \in ReserveSizes : ReserveBytes(r, l, n)
           \/ ReleaseReservation(r) \/ ReleaseAbandoned(r)
    PROVE  TypeOK'
  <1> USE DEF Bump, Reserve, ReleaseHeadroom
  <1>1. CASE ReserveNext(r)
    <2> DEFINE q == Head(op.reserve)
    <2>1. op.reserve \in Seq(MemoryReservation) /\ op.reserve # <<>>
      BY <1>1 DEF ReserveNext, TypeOK, ControlTyped, Operation
    <2>2. q \in MemoryReservation /\ Tail(op.reserve) \in Seq(MemoryReservation)
      BY <2>1
    <2>3. q.location \in Locations /\ q.nbytes \in Nat
      BY <2>2 DEF MemoryReservation
    <2>4. Reserve(r, q.location, q.nbytes, op.scope) /\ op.scope \in Scopes \cup {NoScope}
      BY <1>1 DEF ReserveNext, TypeOK, ControlTyped, Operation
    <2>5. PlacementTyped' /\ ProtectionTyped' /\ HeadroomTyped' /\ ClientsTyped'
      BY <2>3, <2>4, ReserveTyped
    <2>6. ControlTyped'
      BY <1>1, <2>2 DEF ReserveNext, TypeOK, ControlTyped, Operation
    <2> QED BY <2>5, <2>6 DEF TypeOK
  <1>2. ASSUME ReleaseHeadroom(r), UNCHANGED holder PROVE TypeOK'
    BY <1>2, ReleaseHeadroomTyped, FrameTyped DEF TypeOK, holder
  <1>3. ASSUME NEW l \in Locations, NEW n \in ReserveSizes, ReserveBytes(r, l, n) PROVE TypeOK'
    BY <1>3, TokenAssumption, ReserveTyped, FrameTyped DEF ReserveBytes, TypeOK, holder
  <1> QED BY <1>1, <1>2, <1>3 DEF ReleaseNext, ReleaseReservation, ReleaseAbandoned

-----------------------------------------------------------------------------
(* Leases, holds and the rest keep the types *)

LEMMA TokenRowTyped ==
    ASSUME NEW T, NEW row \in [Locations -> SUBSET T], NEW l, NEW x \in T
    PROVE  /\ [row EXCEPT ![l] = @ \ {x}] \in [Locations -> SUBSET T]
           /\ [row EXCEPT ![l] = @ \cup {x}] \in [Locations -> SUBSET T]
  <1>1. CASE l \in Locations
    BY <1>1
  <1>2. CASE l \notin Locations
    BY <1>2
  <1> QED BY <1>1, <1>2

LEMMA UseLeaseTyped ==
    ASSUME TypeOK, UseLease
    PROVE  TypeOK'
  <1> SUFFICES ASSUME NEW t \in Leases,
                      \/ \E H \in SUBSET Values, l \in Locations : Acquire(t, H, l)
                      \/ LaunchRead(t) \/ ReadsFinish(t) \/ ReleaseNow(t) \/ ReleaseLater(t)
               PROVE  TypeOK'
    BY DEF UseLease
  <1> USE DEF Bump, holder
  <1>1. ASSUME NEW H \in SUBSET Values, NEW l \in Locations, Acquire(t, H, l) PROVE TypeOK'
    <2> USE <1>1 DEF Acquire
    <2>1. leases' \in [Leases -> LeaseRecord]
      BY ReapTyped DEF LeaseRecord, Place
    <2>2. use_tokens' \in [Values -> [Locations -> SUBSET Leases]]
      BY DEF TypeOK, ProtectionTyped
    <2>3. ProtectionTyped'
      BY <2>1, <2>2, ReapTyped DEF TypeOK, ProtectionTyped
    <2> QED BY <2>3, FrameTyped DEF TypeOK
  <1>2. CASE LaunchRead(t) \/ ReadsFinish(t)
    <2>1. ClientsTyped'
      BY <1>2 DEF LaunchRead, ReadsFinish, TypeOK, ClientsTyped
    <2> QED BY <1>2, <2>1, FrameTyped DEF LaunchRead, ReadsFinish, TypeOK, ControlTyped
  <1>3. Without(use_tokens, t) \in [Values -> [Locations -> SUBSET Leases]]
    BY TokenRowTyped DEF Without, TypeOK, ProtectionTyped
  <1>4. CASE ReleaseNow(t)
    <2> USE <1>4 DEF ReleaseNow, Releasing
    <2>1. leases' \in [Leases -> LeaseRecord]
      BY DEF TypeOK, ProtectionTyped, NoLease, LeaseRecord, Place
    <2>2. ProtectionTyped'
      BY <1>3, <2>1 DEF TypeOK, ProtectionTyped
    <2> QED BY <2>2, FrameTyped DEF TypeOK
  <1>5. CASE ReleaseLater(t)
    <2> USE <1>5 DEF ReleaseLater, Releasing
    <2>1. leases' \in [Leases -> LeaseRecord]
      BY DEF TypeOK, ProtectionTyped, LeaseRecord
    <2>2. pending_tokens' \in [Values -> [Locations -> SUBSET Leases]]
      BY TokenRowTyped DEF TypeOK, ProtectionTyped
    <2>3. ProtectionTyped'
      BY <1>3, <2>1, <2>2 DEF TypeOK, ProtectionTyped
    <2> QED BY <2>3, FrameTyped DEF TypeOK
  <1> QED BY <1>1, <1>2, <1>4, <1>5

LEMMA UseHoldTyped ==
    ASSUME TypeOK, UseHold
    PROVE  TypeOK'
  <1> SUFFICES ASSUME NEW h \in Holds,
                      \/ \E H \in SUBSET Values, l \in Locations : Hold(h, H, l)
                      \/ ReleaseHold(h)
               PROVE  TypeOK'
    BY DEF UseHold
  <1> USE DEF Bump, holder
  <1>1. ASSUME NEW H \in SUBSET Values, NEW l \in Locations, Hold(h, H, l) PROVE TypeOK'
    <2> USE <1>1 DEF Hold
    <2>1. holds' \in [Holds -> HoldRecord]
      BY DEF TypeOK, ProtectionTyped, HoldRecord, Place
    <2>2. hold_tokens' \in [Values -> [Locations -> SUBSET Holds]]
      BY DEF TypeOK, ProtectionTyped
    <2>3. ProtectionTyped'
      BY <2>1, <2>2, ReapTyped DEF TypeOK, ProtectionTyped, Reap
    <2> QED BY <2>3, FrameTyped DEF TypeOK
  <1>2. CASE ReleaseHold(h)
    <2> USE <1>2 DEF ReleaseHold
    <2>1. holds' \in [Holds -> HoldRecord]
      BY DEF TypeOK, ProtectionTyped, HoldRecord, NoHold, Place
    <2>2. hold_tokens' \in [Values -> [Locations -> SUBSET Holds]]
      BY TokenRowTyped DEF TypeOK, ProtectionTyped
    <2>3. ProtectionTyped'
      BY <2>1, <2>2 DEF TypeOK, ProtectionTyped
    <2> QED BY <2>3, FrameTyped DEF TypeOK
  <1> QED BY <1>1, <1>2

LEMMA CloseTyped ==
    ASSUME TypeOK, NEW force \in BOOLEAN, Close(force)
    PROVE  TypeOK'
  <1> USE DEF Close, Bump
  <1>1. PlacementTyped'
    BY DEF TypeOK, PlacementTyped, NoBytes
  <1>2. ProtectionTyped'
    BY DEF ProtectionTyped, NoLease, NoHold, Place, LeaseRecord, HoldRecord
  <1>3. HeadroomTyped'
    BY DEF HeadroomTyped, NoReservation, NoBytes, Place, ReservationRecord
  <1>4. ClientsTyped'
    BY DEF TypeOK, ClientsTyped, clients
  <1> QED BY <1>1, <1>2, <1>3, <1>4, FrameTyped DEF TypeOK, holder

LEMMA TypeStep ==
    ASSUME TypeOK, ControlConsistent, [Next]_vars
    PROVE  TypeOK'
  <1>1. CASE HolderStep
    <2>1. CASE \E r \in Reservations : ReserveNext(r) \/ ReleaseNext(r)
      BY <2>1, HeadroomStepTyped
    <2> QED BY <1>1, <2>1, TransitionTyped, LoadTyped, OperateTyped, ScopePhaseTyped DEF HolderStep
  <1>2. CASE Poll
    BY <1>2, FrameTyped DEF Poll, Bump, TypeOK, holder
  <1>3. ASSUME NEW x \in Leases \cup Holds \cup Reservations, Orphan(x) PROVE TypeOK'
    <2>1. ClientsTyped'
      BY <1>3 DEF Orphan, TypeOK, ClientsTyped
    <2> QED BY <1>3, <2>1, FrameTyped DEF Orphan, TypeOK, ControlTyped, holder
  <1>4. CASE UNCHANGED vars
    BY <1>4, FrameTyped DEF vars, TypeOK, ControlTyped, placement, protection, headroom, clients
  <1>5. CASE UseReservation
    BY <1>5, HeadroomStepTyped DEF UseReservation
  <1> QED
    BY <1>1, <1>2, <1>3, <1>4, <1>5, RegisterTyped, OperateTyped, UseScopeTyped, UseLeaseTyped,
       UseHoldTyped, CloseTyped DEF Next

LEMMA SameControl ==
    ASSUME ControlConsistent, UNCHANGED <<scopes, op>>
    PROVE  ControlConsistent'
  BY DEF ControlConsistent, CallbackActive

\* Marking a scope that has a plan; NoScope is never marked.
LEMMA ScopeMarked ==
    ASSUME TypeOK, ControlConsistent, NEW s \in Scopes, NEW state \in ScopeStates \ {"unborn"},
           scopes[s].state # "unborn", scopes' = [scopes EXCEPT ![s].state = state]
    PROVE  \A x \in Scopes :
             /\ scopes'[x].state # "unborn" => scopes'[x].plan \in Plans
             /\ scopes[x].state # "unborn" => scopes'[x].state # "unborn"
  BY DEF ControlConsistent, TypeOK, ControlTyped, ScopeRecord

LEMMA HolderControl ==
    ASSUME TypeOK, ControlConsistent, HolderStep
    PROVE  ControlConsistent'
  <1> USE DEF ControlConsistent, CallbackActive
  <1>1. ASSUME Ready, NextRequest, UNCHANGED scopes PROVE ControlConsistent'
    BY <1>1 DEF Ready, NextRequest, TypeOK, ControlTyped, Operation
  <1>2. ASSUME Fail, UNCHANGED scopes PROVE ControlConsistent'
    BY <1>2 DEF Fail, Idle, TypeOK, ControlTyped, Operation
  <1>3. CASE StepNoOp \/ StepReplicate \/ StepMove \/ StepCollapse \/ StepDrop \/ StepDiscard
    BY <1>1, <1>3 DEF Succeed, StepNoOp, StepReplicate, StepMove, StepCollapse, StepDrop, StepDiscard
  <1>4. CASE StartLoad
    BY <1>4 DEF StartLoad, Succeed, Ready, TypeOK, ControlTyped, Operation
  <1>5. CASE FinishLoad
    BY <1>5 DEF FinishLoad, EndLoad, TypeOK, ControlTyped, Operation
  <1>6. CASE LoadFails \/ StepFails
    BY <1>2, <1>6 DEF LoadFails, EndLoad, StepFails
  <1>7. CASE EndOperation
    BY <1>7 DEF EndOperation, Idle
  <1>8. CASE ReclaimDone \/ ReserveDone \/ ExitDone
    BY <1>8 DEF ReclaimDone, ReserveDone, ExitDone, Advance, TypeOK, ControlTyped, Operation
  <1>9. CASE EnterDone \/ ReleaseDone
    <2>1. op' = Idle /\ op.scope \in Scopes /\ scopes[op.scope].state # "unborn"
      BY <1>9 DEF EnterDone, ReleaseDone, Advance, TypeOK, ControlTyped, Operation
    <2>2. \E state \in ScopeStates \ {"unborn"} :
             scopes' = [scopes EXCEPT ![op.scope].state = state]
      BY <1>9 DEF EnterDone, ReleaseDone, ScopeStates
    <2> QED BY <2>1, <2>2, ScopeMarked DEF Idle
  <1>10. ASSUME NEW r \in Reservations, ReserveNext(r) PROVE ControlConsistent'
    BY <1>10 DEF ReserveNext, Reserve, TypeOK, ControlTyped, Operation
  <1>11. ASSUME NEW r \in Reservations, ReleaseNext(r) PROVE ControlConsistent'
    BY <1>11 DEF ReleaseNext, ReleaseHeadroom, holder
  <1> QED BY <1>3, <1>4, <1>5, <1>6, <1>7, <1>8, <1>9, <1>10, <1>11 DEF HolderStep

LEMMA ScopeControl ==
    ASSUME TypeOK, ControlConsistent, UseScope
    PROVE  ControlConsistent'
  <1> USE DEF ControlConsistent, CallbackActive
  <1> SUFFICES ASSUME NEW s \in Scopes,
                      \/ \E plan \in Plans, versioned \in BOOLEAN : NewScope(s, plan, versioned)
                      \/ EnterScope(s) \/ RefuseScope(s) \/ ExitScope(s)
                      \/ RejectScope(s) \/ AbandonScope(s)
               PROVE  ControlConsistent'
    BY DEF UseScope
  <1>1. ASSUME NEW plan \in Plans, NEW versioned \in BOOLEAN, NewScope(s, plan, versioned)
        PROVE  ControlConsistent'
    BY <1>1 DEF NewScope, holder, TypeOK, ControlTyped, ScopeRecord, Operation
  <1>2. CASE EnterScope(s) \/ ExitScope(s)
    <2>1. PICK kind, todo, peaks : Begin(kind, todo, s, peaks)
      BY <1>2 DEF EnterScope, ExitScope
    <2>2. op'.scope = s /\ op'.load = NoLoad
      BY <2>1 DEF Begin
    <2>3. \E state \in ScopeStates \ {"unborn"} : scopes' = [scopes EXCEPT ![s].state = state]
      BY <1>2 DEF EnterScope, ExitScope, ScopeStates
    <2>4. scopes[s].state # "unborn"
      BY <1>2 DEF EnterScope, ExitScope
    <2> QED BY <2>2, <2>3, <2>4, ScopeMarked, TokenAssumption
  <1>3. CASE RefuseScope(s) \/ RejectScope(s) \/ AbandonScope(s)
    <2>1. \E state \in ScopeStates \ {"unborn"} : scopes' = [scopes EXCEPT ![s].state = state]
      BY <1>3 DEF RefuseScope, RejectScope, AbandonScope, ScopeStates
    <2>2. UNCHANGED op /\ scopes[s].state # "unborn"
      BY <1>3 DEF RefuseScope, RejectScope, AbandonScope, holder
    <2> QED BY <2>1, <2>2, ScopeMarked DEF TypeOK, ControlTyped, Operation
  <1> QED BY <1>1, <1>2, <1>3

LEMMA ControlStep ==
    ASSUME TypeOK, ControlConsistent, [Next]_vars
    PROVE  ControlConsistent'
  <1>1. CASE Operate
    <2>1. PICK kind, todo, peaks : /\ Begin(kind, todo, NoScope, peaks)
                                   /\ kind \in {"run", "execute"}
                                   /\ UNCHANGED scopes
      BY <1>1 DEF Operate, Run, ExecuteActions
    <2> QED BY <2>1 DEF Begin, ControlConsistent, CallbackActive
  <1>2. CASE Register
    BY <1>2, SameControl DEF Register, RegisterSource, Adopt, holder
  <1>3. CASE UseLease
    BY <1>3, SameControl DEF UseLease, Acquire, LaunchRead, ReadsFinish, ReleaseNow, ReleaseLater, Releasing, holder
  <1>4. CASE UseHold
    BY <1>4, SameControl DEF UseHold, Hold, ReleaseHold, holder
  <1>5. CASE UseReservation
    BY <1>5, SameControl DEF UseReservation, ReserveBytes, Reserve, ReleaseReservation,
       ReleaseAbandoned, ReleaseHeadroom, holder
  <1>6. CASE Poll \/ (\E x \in Leases \cup Holds \cup Reservations : Orphan(x))
               \/ (\E force \in BOOLEAN : Close(force)) \/ UNCHANGED vars
    BY <1>6, SameControl DEF Poll, Orphan, Close, vars, holder
  <1> QED BY <1>1, <1>2, <1>3, <1>4, <1>5, <1>6, HolderControl, ScopeControl DEF Next

LEMMA InitControl == ASSUME Init PROVE ControlConsistent
  BY DEF Init, ControlConsistent, CallbackActive, Idle

\* Every reachable state has the shape TypeOK gives: no handler leaves a token
\* table, a byte counter or the operation in progress malformed.
THEOREM TypeCorrect == Spec => []TypeOK
  <1> DEFINE TInv == TypeOK /\ ControlConsistent
  <1>1. Init => TInv
    BY InitTyped, InitControl
  <1>2. TInv /\ [Next]_vars => TInv'
    BY TypeStep, ControlStep
  <1> QED BY <1>1, <1>2, PTL DEF Spec

-----------------------------------------------------------------------------
(* The strict byte budget *)

LEMMA UnchargeBound ==
    ASSUME NEW bytes \in [Locations -> Int], NEW l, NEW n \in Nat, NEW m \in Locations
    PROVE  Uncharge(bytes, l, n)[m] \in Int /\ Uncharge(bytes, l, n)[m] <= bytes[m]
  <1>1. CASE l = m
    BY <1>1 DEF Uncharge
  <1>2. CASE l # m
    BY <1>2 DEF Uncharge
  <1> QED BY <1>1, <1>2

\* Charging what fits, to either counter, keeps every location within budget.
LEMMA ChargeWithinBudget ==
    ASSUME TypeOK, WithinBudget, NEW l \in Locations, NEW n \in Nat, Fits(l, n),
           NEW m \in Locations, Budget[m] # NoBudget
    PROVE  /\ Charge(used_bytes, l, n)[m] + reserved_bytes[m] <= Budget[m]
           /\ used_bytes[m] + Charge(reserved_bytes, l, n)[m] <= Budget[m]
  <1> USE LocationAssumption DEF TypeOK, PlacementTyped, HeadroomTyped, WithinBudget
  <1>1. CASE l = m
    BY <1>1 DEF Charge, Fits
  <1>2. CASE l # m
    BY <1>2 DEF Charge
  <1> QED BY <1>1, <1>2

LEMMA BytesUnchanged ==
    ASSUME WithinBudget, UNCHANGED <<used_bytes, reserved_bytes>>
    PROVE  WithinBudget'
  BY DEF WithinBudget

LEMMA TransitionWithinBudget ==
    ASSUME TypeOK, WithinBudget,
           StepNoOp \/ StepReplicate \/ StepMove \/ StepCollapse \/ StepDrop \/ StepDiscard
    PROVE  WithinBudget'
  <1>0. Ready => /\ Request.handle \in Values /\ Nbytes \in Nat
                 /\ Request.op \in {"ensure", "move"} => Request.to \in Locations
    BY HeadRequestTyped, RequestTyped, SpecAssumption DEF Ready, Nbytes
  <1> USE DEF Succeed
  <1>1. CASE StepNoOp
    BY <1>1, BytesUnchanged DEF StepNoOp, placement, headroom
  <1>2. CASE StepReplicate
    <2>1. Request.to \in Locations /\ Fits(Request.to, Nbytes)
      BY <1>0, <1>2 DEF StepReplicate, CanReplicate
    <2>2. used_bytes' = Charge(used_bytes, Request.to, Nbytes) /\ UNCHANGED reserved_bytes
      BY <1>2 DEF StepReplicate, Install, headroom, Nbytes
    <2> QED BY <1>0, <1>2, <2>1, <2>2, ChargeWithinBudget DEF WithinBudget, StepReplicate
  <1>3. CASE StepMove
    <2>1. Request.to \in Locations /\ Fits(Request.to, Nbytes)
      BY <1>0, <1>3 DEF StepMove, CanMove
    <2> DEFINE charged == Charge(used_bytes, Request.to, Nbytes)
    <2>2. used_bytes' = Uncharge(charged, Source, Nbytes) /\ UNCHANGED reserved_bytes
      BY <1>3 DEF StepMove, headroom
    <2>3. charged \in [Locations -> Int] /\ Nbytes \in Nat
      BY <1>0, <1>3, ChargeTyped DEF StepMove, TypeOK, PlacementTyped
    <2>4. \A m \in Locations : Budget[m] # NoBudget => charged[m] + reserved_bytes[m] <= Budget[m]
      BY <2>1, <2>3, ChargeWithinBudget
    <2> HIDE DEF charged
    <2>5. \A m \in Locations : used_bytes'[m] \in Int /\ used_bytes'[m] <= charged[m]
      BY <2>2, <2>3, UnchargeBound
    <2> QED BY <2>2, <2>3, <2>4, <2>5, LocationAssumption DEF WithinBudget, TypeOK, HeadroomTyped
  <1>4. CASE StepCollapse \/ StepDrop
    <2>1. PICK l : used_bytes' = Uncharge(used_bytes, l, Nbytes)
      BY <1>4 DEF StepCollapse, StepDrop, Uninstall, Nbytes
    <2>2. \A m \in Locations : used_bytes'[m] \in Int /\ used_bytes'[m] <= used_bytes[m]
      BY <1>0, <1>4, <2>1, UnchargeBound DEF StepCollapse, StepDrop, TypeOK, PlacementTyped
    <2>3. UNCHANGED reserved_bytes
      BY <1>4 DEF StepCollapse, StepDrop, headroom
    <2> QED BY <2>2, <2>3, LocationAssumption DEF WithinBudget, TypeOK, PlacementTyped, HeadroomTyped
  <1>5. CASE StepDiscard
    <2>1. \A m \in Locations : used_bytes'[m] \in Int /\ used_bytes'[m] <= used_bytes[m]
      BY <1>0, <1>5 DEF StepDiscard, TypeOK, PlacementTyped
    <2>2. UNCHANGED reserved_bytes
      BY <1>5 DEF StepDiscard, headroom
    <2> QED BY <2>1, <2>2, LocationAssumption DEF WithinBudget, TypeOK, PlacementTyped, HeadroomTyped
  <1> QED BY <1>1, <1>2, <1>3, <1>4, <1>5

\* A finished load swaps the charge at the source for one at the destination.
LEMMA LoadWithinBudget ==
    ASSUME TypeOK, WithinBudget, StartLoad \/ FinishLoad \/ LoadFails
    PROVE  WithinBudget'
  <1> USE DEF TypeOK, PlacementTyped, HeadroomTyped
  <1>1. CASE StartLoad
    <2>1. Ready /\ Nbytes \in Nat /\ SourceAt[Request.handle] \in Locations
      BY <1>1, HeadRequestTyped, RequestTyped, SpecAssumption
      DEF StartLoad, Succeed, Ready, NeedsLoad, Reconstructible, Nbytes
    <2>2. /\ Fits(SourceAt[Request.handle], Nbytes)
          /\ reserved_bytes' = Charge(reserved_bytes, SourceAt[Request.handle], Nbytes)
          /\ UNCHANGED used_bytes
      BY <1>1 DEF StartLoad, Succeed, NeedsLoad, placement
    <2> QED BY <2>1, <2>2, ChargeWithinBudget DEF WithinBudget
  <1>2. ASSUME EndLoad
        PROVE  /\ op.load \in Load /\ Size[op.load.handle] \in Nat
               /\ \A m \in Locations : reserved_bytes'[m] \in Int /\ reserved_bytes'[m] <= reserved_bytes[m]
    <2>1. op.load \in Load
      BY <1>2 DEF EndLoad, ControlTyped, Operation, CallbackActive
    <2>2. Size[op.load.handle] \in Nat
      BY <2>1, SpecAssumption DEF Load
    <2> QED BY <1>2, <2>1, <2>2, UnchargeBound DEF EndLoad
  <1>3. CASE FinishLoad
    <2> DEFINE v == op.load.handle
               l == op.load.to
    <2>1. v \in Values /\ l \in Locations /\ Size[v] \in Nat
      BY <1>2, <1>3 DEF FinishLoad, Load
    <2>2. /\ used_bytes' = Charge(used_bytes, l, Size[v])
          /\ reserved_bytes' = Uncharge(reserved_bytes, SourceAt[v], Size[v])
          /\ l = SourceAt[v] \/ Fits(l, Size[v])
      BY <1>3 DEF FinishLoad, EndLoad, Install, LoadFits
    <2> HIDE DEF v, l
    <2>3. CASE l = SourceAt[v]
      BY <2>1, <2>2, <2>3, LocationAssumption DEF WithinBudget, Charge, Uncharge
    <2>4. CASE Fits(l, Size[v])
      <3>1. \A m \in Locations : /\ used_bytes'[m] \in Int
                                 /\ Budget[m] # NoBudget => used_bytes'[m] + reserved_bytes[m] <= Budget[m]
        BY <2>1, <2>2, <2>4, ChargeWithinBudget, ChargeTyped
      <3> QED BY <3>1, <1>2, <1>3, LocationAssumption DEF WithinBudget, FinishLoad
    <2> QED BY <2>2, <2>3, <2>4
  <1>4. CASE LoadFails
    BY <1>2, <1>4, LocationAssumption DEF LoadFails, WithinBudget
  <1> QED BY <1>1, <1>3, <1>4

LEMMA HeadroomWithinBudget ==
    ASSUME TypeOK, WithinBudget, NEW r \in Reservations,
           \/ ReleaseHeadroom(r)
           \/ \E l \in Locations, n \in Nat : \E owner : Reserve(r, l, n, owner)
    PROVE  WithinBudget'
  <1> USE LocationAssumption DEF TypeOK, PlacementTyped, HeadroomTyped
  <1>1. CASE ReleaseHeadroom(r)
    <2>1. reservations[r].nbytes \in Nat
      BY DEF ReservationRecord
    <2>2. \A m \in Locations : reserved_bytes'[m] \in Int /\ reserved_bytes'[m] <= reserved_bytes[m]
      BY <1>1, <2>1, UnchargeBound DEF ReleaseHeadroom
    <2> QED BY <1>1, <2>2 DEF ReleaseHeadroom, placement, WithinBudget
  <1>2. ASSUME NEW l \in Locations, NEW n \in Nat, NEW owner, Reserve(r, l, n, owner) PROVE WithinBudget'
    BY <1>2, ChargeWithinBudget DEF Reserve, WithinBudget
  <1> QED BY <1>1, <1>2

LEMMA ScopeStepWithinBudget ==
    ASSUME TypeOK, WithinBudget, HolderStep
    PROVE  WithinBudget'
  <1>1. CASE StepFails \/ EndOperation \/ ReclaimDone \/ ReserveDone \/ EnterDone \/ ExitDone \/ ReleaseDone
    BY <1>1, BytesUnchanged DEF StepFails, EndOperation, ReclaimDone, ReserveDone, EnterDone,
       ExitDone, ReleaseDone, Advance, placement, headroom
  <1>2. ASSUME NEW r \in Reservations, ReserveNext(r) PROVE WithinBudget'
    <2> DEFINE q == Head(op.reserve)
    <2>1. op.reserve \in Seq(MemoryReservation) /\ op.reserve # <<>>
      BY <1>2 DEF ReserveNext, TypeOK, ControlTyped, Operation
    <2>2. q \in MemoryReservation
      BY <2>1
    <2>3. q.location \in Locations /\ q.nbytes \in Nat
      BY <2>2 DEF MemoryReservation
    <2>4. Reserve(r, q.location, q.nbytes, op.scope)
      BY <1>2 DEF ReserveNext
    <2> HIDE DEF q
    <2> QED BY <2>3, <2>4, HeadroomWithinBudget
  <1>3. ASSUME NEW r \in Reservations, ReleaseNext(r) PROVE WithinBudget'
    BY <1>3, HeadroomWithinBudget DEF ReleaseNext
  <1> QED BY <1>1, <1>2, <1>3, TransitionWithinBudget, LoadWithinBudget DEF HolderStep

LEMMA BudgetStep ==
    ASSUME TypeOK, WithinBudget, [Next]_vars
    PROVE  WithinBudget'
  <1>1. CASE Register
    <2>1. ASSUME NEW v \in Values, NEW l \in Locations, Adopt(v, l) PROVE WithinBudget'
      <3>1. Fits(l, Size[v]) /\ Size[v] \in Nat
        BY <2>1, SpecAssumption DEF Adopt
      <3>2. used_bytes' = Charge(used_bytes, l, Size[v]) /\ UNCHANGED reserved_bytes
        BY <2>1 DEF Adopt, Install, headroom
      <3> QED BY <3>1, <3>2, ChargeWithinBudget DEF WithinBudget
    <2>2. ASSUME NEW v \in Values, RegisterSource(v) PROVE WithinBudget'
      BY <2>2, BytesUnchanged DEF RegisterSource, headroom
    <2> QED BY <1>1, <2>1, <2>2 DEF Register
  <1>2. CASE Operate
    BY <1>2, BytesUnchanged DEF Operate, Run, ExecuteActions, Begin, placement, headroom
  <1>3. CASE UseScope
    BY <1>3, BytesUnchanged DEF UseScope, NewScope, EnterScope, RefuseScope, ExitScope, RejectScope,
       AbandonScope, Begin, placement, headroom
  <1>4. CASE UseLease
    BY <1>4, BytesUnchanged DEF UseLease, Acquire, LaunchRead, ReadsFinish, ReleaseNow, ReleaseLater,
       Releasing, placement, headroom
  <1>5. CASE UseHold
    BY <1>5, BytesUnchanged DEF UseHold, Hold, ReleaseHold, placement, headroom
  <1>6. CASE UseReservation
    BY <1>6, TokenAssumption, HeadroomWithinBudget DEF UseReservation, ReserveBytes,
       ReleaseReservation, ReleaseAbandoned
  <1>7. ASSUME NEW force \in BOOLEAN, Close(force) PROVE WithinBudget'
    BY <1>7, LocationAssumption DEF Close, NoBytes, WithinBudget
  <1>8. CASE Poll \/ (\E x \in Leases \cup Holds \cup Reservations : Orphan(x)) \/ UNCHANGED vars
    BY <1>8, BytesUnchanged DEF Poll, Orphan, vars, placement, headroom
  <1> QED BY <1>1, <1>2, <1>3, <1>4, <1>5, <1>6, <1>7, <1>8, ScopeStepWithinBudget DEF Next

LEMMA InitWithinBudget == ASSUME Init PROVE WithinBudget
  BY LocationAssumption DEF Init, NoBytes, WithinBudget

\* The managed bytes of a location never exceed its strict budget, whatever
\* materializations, loads in progress and reservations meet there.
THEOREM BudgetRespected == Spec => []WithinBudget
  <1> DEFINE BInv == TypeOK /\ ControlConsistent /\ WithinBudget
  <1>1. Init => BInv
    BY InitTyped, InitControl, InitWithinBudget
  <1>2. BInv /\ [Next]_vars => BInv'
    BY TypeStep, ControlStep, BudgetStep
  <1> QED BY <1>1, <1>2, PTL DEF Spec

-----------------------------------------------------------------------------
(* Lifetimes *)

LEMMA FinishedReleased ==
    ASSUME TypeOK, NEW t \in Leases
    PROVE  /\ t \in Finished => leases[t].state = "pending" /\ ReapedLeases[t].state = "none"
           /\ t \notin Finished => ReapedLeases[t] = leases[t]
           /\ leases[t].state = "active" => t \notin Finished
  BY DEF Finished, ReapedLeases, NoLease

\* The lease table and the tokens agree again after a reap.
LEMMA ReapConsistent ==
    ASSUME TypeOK, LifetimesConsistent, NEW v \in Values, NEW l \in Locations
    PROVE  /\ use_tokens[v][l] = {t \in Leases : ReapedLeases[t].state = "active"
                                    /\ v \in ReapedLeases[t].handles /\ l = ReapedLeases[t].location}
           /\ ReapedTokens[v][l] = {t \in Leases : ReapedLeases[t].state = "pending"
                                      /\ v \in ReapedLeases[t].handles /\ l = ReapedLeases[t].location}
  <1>1. ReapedTokens[v][l] = pending_tokens[v][l] \ Finished
    BY DEF ReapedTokens
  <1>2. use_tokens[v][l] = {t \in Leases : leases[t].state = "active"
                              /\ v \in leases[t].handles /\ l = leases[t].location}
    BY DEF LifetimesConsistent, TokensAgree
  <1>3. pending_tokens[v][l] = {t \in Leases : leases[t].state = "pending"
                                  /\ v \in leases[t].handles /\ l = leases[t].location}
    BY DEF LifetimesConsistent, TokensAgree
  <1> QED BY <1>1, <1>2, <1>3, FinishedReleased

\* A transition is safe for every lifetime if it leaves protected
\* materializations where they are.
LEMMA ProtectedStay ==
    ASSUME TypeOK, LifetimesConsistent, Reap, UNCHANGED <<use_tokens, hold_tokens, holds>>,
           \A v \in Values, l \in Locations :
              records[v] = "live" /\ l \in materializations[v] /\ Protected(v, l)
                => records'[v] = "live" /\ l \in materializations'[v]
    PROVE  LifetimesConsistent'
  <1> SUFFICES ASSUME NEW v \in Values, NEW l \in Locations
               PROVE  TokensAgree(v, l)'
    BY DEF LifetimesConsistent
  <1>1. pending_tokens' = ReapedTokens /\ leases' = ReapedLeases
    BY DEF Reap
  <1>2. hold_tokens'[v][l] = {h \in Holds : v \in holds'[h].handles /\ l = holds'[h].location}
    BY DEF LifetimesConsistent, TokensAgree
  <1>3. ReapedTokens[v][l] \subseteq pending_tokens[v][l]
    BY DEF ReapedTokens
  <1>4. use_tokens[v][l] \cup ReapedTokens[v][l] \cup hold_tokens[v][l] # {}
          => records[v] = "live" /\ l \in materializations[v] /\ Protected(v, l)
    BY <1>3 DEF LifetimesConsistent, TokensAgree, Protected
  <1> QED BY <1>1, <1>2, <1>4, ReapConsistent DEF TokensAgree

LEMMA LifetimesUnchanged ==
    ASSUME LifetimesConsistent, UNCHANGED protection,
           \A v \in Values, l \in Locations :
              records[v] = "live" /\ l \in materializations[v]
                => records'[v] = "live" /\ l \in materializations'[v]
    PROVE  LifetimesConsistent'
  BY DEF LifetimesConsistent, TokensAgree, protection

\* Steps that at most reap are safe, too.
LEMMA QuietLifetimes ==
    ASSUME TypeOK, LifetimesConsistent, UNCHANGED <<records, materializations>>,
           \/ UNCHANGED protection
           \/ Reap /\ UNCHANGED <<use_tokens, hold_tokens, holds>>
    PROVE  LifetimesConsistent'
  BY ProtectedStay, LifetimesUnchanged

LEMMA HolderLifetimes ==
    ASSUME TypeOK, LifetimesConsistent, HolderStep
    PROVE  LifetimesConsistent'
  <1>0. Ready => Request.handle \in Values
    BY HeadRequestTyped, RequestTyped DEF Ready
  <1> USE DEF Succeed
  <1>1. CASE StepNoOp \/ StartLoad \/ StepFails
    BY <1>1, QuietLifetimes DEF StepNoOp, StartLoad, StepFails, placement
  <1>2. CASE StepReplicate
    BY <1>0, <1>2, ProtectedStay DEF StepReplicate, Install, TypeOK, PlacementTyped
  <1>3. CASE StepMove
    BY <1>0, <1>3, ProtectedStay DEF StepMove, CanMove, Removable, TypeOK, PlacementTyped
  <1>4. CASE StepCollapse
    BY <1>0, <1>4, ProtectedStay DEF StepCollapse, CanCollapse, Uninstall, Removable, TypeOK, PlacementTyped
  <1>5. CASE StepDrop
    BY <1>0, <1>5, ProtectedStay DEF StepDrop, CanDrop, Uninstall, Removable, TypeOK, PlacementTyped
  <1>6. CASE StepDiscard
    BY <1>0, <1>6, ProtectedStay DEF StepDiscard, CanDiscard, Removable, Resident, TypeOK, PlacementTyped
  <1>7. CASE FinishLoad
    BY <1>7, LifetimesUnchanged DEF FinishLoad, EndLoad, Install, TypeOK, PlacementTyped
  <1>8. CASE LoadFails \/ EndOperation \/ ReclaimDone \/ ReserveDone \/ EnterDone \/ ExitDone \/ ReleaseDone
    BY <1>8, QuietLifetimes DEF LoadFails, EndLoad, EndOperation, ReclaimDone, ReserveDone, EnterDone,
       ExitDone, ReleaseDone, Advance, placement
  <1>9. ASSUME NEW r \in Reservations, ReserveNext(r) \/ ReleaseNext(r) PROVE LifetimesConsistent'
    BY <1>9, QuietLifetimes DEF ReserveNext, Reserve, ReleaseNext, ReleaseHeadroom, placement
  <1> QED BY <1>1, <1>2, <1>3, <1>4, <1>5, <1>6, <1>7, <1>8, <1>9 DEF HolderStep

LEMMA AcquireLifetimes ==
    ASSUME TypeOK, LifetimesConsistent, NEW t \in Leases, NEW H \in SUBSET Values,
           NEW k \in Locations, Acquire(t, H, k)
    PROVE  LifetimesConsistent'
  <1> USE DEF Acquire
  <1> SUFFICES ASSUME NEW v \in Values, NEW l \in Locations
               PROVE  TokensAgree(v, l)'
    BY DEF LifetimesConsistent
  <1>1. ReapedLeases \in [Leases -> LeaseRecord] /\ ReapedLeases[t] = NoLease
    BY ReapTyped DEF ReapedLeases
  <1>2. \A u \in Leases : leases'[u] = IF u = t THEN [state |-> "active", handles |-> H, location |-> k]
                                     ELSE ReapedLeases[u]
    BY <1>1
  <1>3. use_tokens'[v][l] = use_tokens[v][l] \cup (IF v \in H /\ l = k THEN {t} ELSE {})
    BY DEF TypeOK, ProtectionTyped
  <1>4. pending_tokens'[v][l] = ReapedTokens[v][l]
    OBVIOUS
  <1>5. hold_tokens'[v][l] = {h \in Holds : v \in holds'[h].handles /\ l = holds'[h].location}
    BY DEF LifetimesConsistent, TokensAgree
  <1>6. use_tokens'[v][l] \cup pending_tokens'[v][l] \cup hold_tokens'[v][l] # {}
          => records'[v] = "live" /\ l \in materializations'[v]
    BY <1>3 DEF LifetimesConsistent, TokensAgree, ReapedTokens, Usable, placement
  <1>7. ReapedLeases[t].state = "none"
    BY <1>1 DEF NoLease
  <1>8. /\ use_tokens'[v][l] = {u \in Leases : leases'[u].state = "active"
                                 /\ v \in leases'[u].handles /\ l = leases'[u].location}
        /\ pending_tokens'[v][l] = {u \in Leases : leases'[u].state = "pending"
                                     /\ v \in leases'[u].handles /\ l = leases'[u].location}
    BY <1>2, <1>3, <1>4, <1>7, ReapConsistent
  <1> QED BY <1>5, <1>6, <1>8 DEF TokensAgree

LEMMA ReleaseLifetimes ==
    ASSUME TypeOK, LifetimesConsistent, NEW t \in Leases, ReleaseNow(t) \/ ReleaseLater(t)
    PROVE  LifetimesConsistent'
  <1> SUFFICES ASSUME NEW v \in Values, NEW l \in Locations
               PROVE  TokensAgree(v, l)'
    BY DEF LifetimesConsistent
  <1>0. TokensAgree(v, l) /\ leases[t].state = "active"
    BY DEF LifetimesConsistent, ReleaseNow, ReleaseLater, Releasing
  <1>1. use_tokens'[v][l] = use_tokens[v][l] \ {t}
    <2>1. use_tokens' = Without(use_tokens, t)
      BY DEF ReleaseNow, ReleaseLater, Releasing
    <2>2. use_tokens'[v][l] = IF v \in leases[t].handles /\ l = leases[t].location
                              THEN use_tokens[v][l] \ {t} ELSE use_tokens[v][l]
      BY <2>1 DEF Without, TypeOK, ProtectionTyped
    <2> QED BY <1>0, <2>2 DEF TokensAgree
  <1>2. hold_tokens'[v][l] = {h \in Holds : v \in holds'[h].handles /\ l = holds'[h].location}
        /\ UNCHANGED <<records, materializations, hold_tokens>>
    BY <1>0 DEF ReleaseNow, ReleaseLater, Releasing, placement, TokensAgree
  <1>3. CASE ReleaseNow(t)
    <2>1. \A u \in Leases : leases'[u] = IF u = t THEN NoLease ELSE leases[u]
      BY <1>3 DEF ReleaseNow, TypeOK, ProtectionTyped
    <2>2. UNCHANGED pending_tokens
      BY <1>3 DEF ReleaseNow
    <2> QED BY <1>0, <1>1, <1>2, <2>1, <2>2 DEF TokensAgree, NoLease
  <1>4. CASE ReleaseLater(t)
    <2>1. \A u \in Leases : leases'[u] = IF u = t THEN [leases[u] EXCEPT !.state = "pending"] ELSE leases[u]
      BY <1>4 DEF ReleaseLater, TypeOK, ProtectionTyped
    <2>2. pending_tokens'[v][l] = IF v \in leases[t].handles /\ l = leases[t].location
                                  THEN pending_tokens[v][l] \cup {t} ELSE pending_tokens[v][l]
      BY <1>4 DEF ReleaseLater, TypeOK, ProtectionTyped
    <2>3. \A u \in Leases : /\ leases'[u].state = IF u = t THEN "pending" ELSE leases[u].state
                            /\ leases'[u].handles = leases[u].handles
                            /\ leases'[u].location = leases[u].location
      BY <2>1 DEF TypeOK, ProtectionTyped, LeaseRecord
    <2>4. /\ use_tokens'[v][l] = {u \in Leases : leases'[u].state = "active"
                                  /\ v \in leases'[u].handles /\ l = leases'[u].location}
          /\ pending_tokens'[v][l] = {u \in Leases : leases'[u].state = "pending"
                                      /\ v \in leases'[u].handles /\ l = leases'[u].location}
      BY <1>0, <1>1, <2>2, <2>3 DEF TokensAgree
    <2>5. t \in pending_tokens'[v][l] => t \in use_tokens[v][l] \cup pending_tokens[v][l]
      BY <1>0, <2>2 DEF TokensAgree
    <2> QED BY <1>0, <1>1, <1>2, <2>2, <2>4, <2>5 DEF TokensAgree
  <1> QED BY <1>3, <1>4

LEMMA HoldLifetimes ==
    ASSUME TypeOK, LifetimesConsistent, NEW h \in Holds, NEW H \in SUBSET Values,
           NEW k \in Locations, Hold(h, H, k)
    PROVE  LifetimesConsistent'
  <1> USE DEF Hold
  <1> SUFFICES ASSUME NEW v \in Values, NEW l \in Locations
               PROVE  TokensAgree(v, l)'
    BY DEF LifetimesConsistent
  <1>1. /\ use_tokens'[v][l] = {u \in Leases : leases'[u].state = "active"
                                 /\ v \in leases'[u].handles /\ l = leases'[u].location}
        /\ pending_tokens'[v][l] = {u \in Leases : leases'[u].state = "pending"
                                     /\ v \in leases'[u].handles /\ l = leases'[u].location}
    BY ReapConsistent DEF Reap
  <1>2. TokensAgree(v, l) /\ ReapedTokens[v][l] \subseteq pending_tokens[v][l]
    BY DEF LifetimesConsistent, ReapedTokens
  <1>3. \A g \in Holds : holds'[g] = IF g = h THEN [handles |-> H, location |-> k] ELSE holds[g]
    BY DEF TypeOK, ProtectionTyped
  <1>4. hold_tokens'[v][l] = IF v \in H /\ l = k THEN hold_tokens[v][l] \cup {h} ELSE hold_tokens[v][l]
    BY DEF TypeOK, ProtectionTyped
  <1>5. hold_tokens'[v][l] = {g \in Holds : v \in holds'[g].handles /\ l = holds'[g].location}
    BY <1>2, <1>3, <1>4 DEF TokensAgree, NoHold
  <1>6. use_tokens'[v][l] \cup pending_tokens'[v][l] \cup hold_tokens'[v][l] # {}
          => records'[v] = "live" /\ l \in materializations'[v]
    BY <1>2, <1>4 DEF TokensAgree, Reap, Usable, placement
  <1> QED BY <1>1, <1>5, <1>6 DEF TokensAgree

LEMMA ReleaseHoldLifetimes ==
    ASSUME TypeOK, LifetimesConsistent, NEW h \in Holds, ReleaseHold(h)
    PROVE  LifetimesConsistent'
  <1> USE DEF ReleaseHold
  <1> SUFFICES ASSUME NEW v \in Values, NEW l \in Locations
               PROVE  TokensAgree(v, l)'
    BY DEF LifetimesConsistent
  <1>1. TokensAgree(v, l)
    BY DEF LifetimesConsistent
  <1>2. hold_tokens'[v][l] = IF v \in holds[h].handles /\ l = holds[h].location
                             THEN hold_tokens[v][l] \ {h} ELSE hold_tokens[v][l]
    BY DEF TypeOK, ProtectionTyped
  <1>3. \A g \in Holds : holds'[g] = IF g = h THEN NoHold ELSE holds[g]
    BY DEF TypeOK, ProtectionTyped
  <1>4. hold_tokens'[v][l] = {g \in Holds : v \in holds'[g].handles /\ l = holds'[g].location}
    BY <1>1, <1>2, <1>3 DEF TokensAgree, NoHold
  <1> QED BY <1>1, <1>2, <1>4 DEF TokensAgree, placement

LEMMA LifetimesStep ==
    ASSUME TypeOK, LifetimesConsistent, [Next]_vars
    PROVE  LifetimesConsistent'
  <1>1. CASE Register
    <2>1. ASSUME NEW v \in Values, RegisterSource(v) PROVE LifetimesConsistent'
      BY <2>1, ProtectedStay DEF RegisterSource, TypeOK, PlacementTyped
    <2>2. ASSUME NEW v \in Values, NEW l \in Locations, Adopt(v, l) PROVE LifetimesConsistent'
      BY <2>2, ProtectedStay DEF Adopt, Install, TypeOK, PlacementTyped
    <2> QED BY <1>1, <2>1, <2>2 DEF Register
  <1>2. CASE Operate
    BY <1>2, QuietLifetimes DEF Operate, Run, ExecuteActions, Begin, placement
  <1>3. CASE UseScope
    <2>1. UNCHANGED <<records, materializations, use_tokens, hold_tokens, holds>>
      BY <1>3 DEF UseScope, NewScope, EnterScope, RefuseScope, ExitScope, RejectScope,
         AbandonScope, Begin, placement, protection
    <2>2. UNCHANGED <<leases, pending_tokens>> \/ Reap
      BY <1>3 DEF UseScope, NewScope, EnterScope, RefuseScope, ExitScope, RejectScope,
         AbandonScope, Begin, protection
    <2> QED BY <2>1, <2>2, QuietLifetimes DEF protection
  <1>4. CASE UseLease
    <2>1. ASSUME NEW t \in Leases, LaunchRead(t) \/ ReadsFinish(t) PROVE LifetimesConsistent'
      BY <2>1, QuietLifetimes DEF LaunchRead, ReadsFinish, placement
    <2> QED BY <1>4, <2>1, AcquireLifetimes, ReleaseLifetimes DEF UseLease
  <1>5. CASE UseHold
    BY <1>5, HoldLifetimes, ReleaseHoldLifetimes DEF UseHold
  <1>6. CASE UseReservation
    BY <1>6, QuietLifetimes DEF UseReservation, ReserveBytes, Reserve, ReleaseReservation,
       ReleaseAbandoned, ReleaseHeadroom, placement
  <1>7. ASSUME NEW force \in BOOLEAN, Close(force) PROVE LifetimesConsistent'
    <2> SUFFICES ASSUME NEW v \in Values, NEW l \in Locations
                 PROVE  TokensAgree(v, l)'
      BY DEF LifetimesConsistent
    <2> QED BY <1>7 DEF Close, TokensAgree, NoLease, NoHold
  <1>8. CASE Poll \/ (\E x \in Leases \cup Holds \cup Reservations : Orphan(x)) \/ UNCHANGED vars
    BY <1>8, QuietLifetimes DEF Poll, Orphan, vars, placement, protection
  <1> QED BY <1>1, <1>2, <1>3, <1>4, <1>5, <1>6, <1>7, <1>8, HolderLifetimes DEF Next

LEMMA InitLifetimes == ASSUME Init PROVE LifetimesConsistent
  BY DEF Init, LifetimesConsistent, TokensAgree, NoLease, NoHold

-----------------------------------------------------------------------------
(* Reads *)

\* A read in flight belongs to a lease that is not reaped.
ReadsOwned == \A t \in reading : leases[t].state \in {"active", "pending"}

LEMMA LeasesPlacedStep ==
    ASSUME TypeOK, LeasesPlaced, [Next]_vars
    PROVE  LeasesPlaced'
  <1>1. ASSUME UNCHANGED leases PROVE LeasesPlaced'
    BY <1>1 DEF LeasesPlaced
  <1>2. ASSUME Reap PROVE LeasesPlaced'
    BY <1>2 DEF LeasesPlaced, Reap, ReapedLeases, NoLease
  <1>3. UNCHANGED leases \/ Reap \/ UseLease \/ (\E force \in BOOLEAN : Close(force))
    <2>1. CASE HolderStep
      BY <2>1 DEF HolderStep, StepNoOp, StepReplicate, StepMove, StepCollapse, StepDrop, StepDiscard,
         StartLoad, Succeed, FinishLoad, LoadFails, EndLoad, StepFails, EndOperation, ReclaimDone,
         ReserveDone, EnterDone, ExitDone, ReleaseDone, Advance, ReserveNext, Reserve, ReleaseNext,
         ReleaseHeadroom, protection
    <2> QED BY <2>1 DEF Next, Register, RegisterSource, Adopt, Operate, Run, ExecuteActions, Begin,
         UseScope, NewScope, EnterScope, RefuseScope, ExitScope, RejectScope, AbandonScope,
         UseHold, Hold, ReleaseHold, UseReservation, ReserveBytes, Reserve, ReleaseReservation,
         ReleaseAbandoned, ReleaseHeadroom, Poll, Orphan, vars, protection
  <1>4. CASE UseLease
    <2>1. PICK t \in Leases :
             \/ \E H \in SUBSET Values, l \in Locations : Acquire(t, H, l)
             \/ LaunchRead(t) \/ ReadsFinish(t) \/ ReleaseNow(t) \/ ReleaseLater(t)
      BY <1>4 DEF UseLease
    <2>2. ASSUME NEW H \in SUBSET Values, NEW l \in Locations, Acquire(t, H, l) PROVE LeasesPlaced'
      BY <2>2, ReapTyped DEF Acquire, LeasesPlaced, ReapedLeases, NoLease
    <2>3. CASE LaunchRead(t) \/ ReadsFinish(t)
      BY <1>1, <2>3 DEF LaunchRead, ReadsFinish, protection
    <2>4. CASE ReleaseNow(t) \/ ReleaseLater(t)
      <3>1. leases[t].state = "active"
        BY <2>4 DEF ReleaseNow, ReleaseLater, Releasing
      <3>2. \A u \in Leases : leases'[u].state # "none" =>
               leases[u].state # "none" /\ leases'[u].location = leases[u].location
        BY <2>4, <3>1 DEF ReleaseNow, ReleaseLater, NoLease, TypeOK, ProtectionTyped, LeaseRecord
      <3> QED BY <3>2 DEF LeasesPlaced
    <2> QED BY <2>1, <2>2, <2>3, <2>4
  <1>5. CASE \E force \in BOOLEAN : Close(force)
    BY <1>5 DEF Close, LeasesPlaced, NoLease
  <1> QED BY <1>1, <1>2, <1>3, <1>4, <1>5

LEMMA ReadsOwnedStep ==
    ASSUME TypeOK, ReadsOwned, [Next]_vars
    PROVE  ReadsOwned'
  <1>1. ASSUME UNCHANGED <<leases, reading>> PROVE ReadsOwned'
    BY <1>1 DEF ReadsOwned
  <1>2. ASSUME Reap, UNCHANGED reading PROVE ReadsOwned'
    BY <1>2 DEF ReadsOwned, Reap, ReapedLeases, Finished, TypeOK, ClientsTyped
  <1>3. \/ UNCHANGED reading /\ (UNCHANGED leases \/ Reap)
        \/ UseLease \/ (\E force \in BOOLEAN : Close(force))
    <2>1. CASE HolderStep
      BY <2>1 DEF HolderStep, StepNoOp, StepReplicate, StepMove, StepCollapse, StepDrop, StepDiscard,
         StartLoad, Succeed, FinishLoad, LoadFails, EndLoad, StepFails, EndOperation, ReclaimDone,
         ReserveDone, EnterDone, ExitDone, ReleaseDone, Advance, ReserveNext, Reserve, ReleaseNext,
         ReleaseHeadroom, protection, clients
    <2> QED BY <2>1 DEF Next, Register, RegisterSource, Adopt, Operate, Run, ExecuteActions, Begin,
         UseScope, NewScope, EnterScope, RefuseScope, ExitScope, RejectScope, AbandonScope,
         UseHold, Hold, ReleaseHold, UseReservation, ReserveBytes, Reserve, ReleaseReservation,
         ReleaseAbandoned, ReleaseHeadroom, Poll, Orphan, vars, protection, clients
  <1>4. CASE UseLease
    <2>1. PICK t \in Leases :
             \/ \E H \in SUBSET Values, l \in Locations : Acquire(t, H, l)
             \/ LaunchRead(t) \/ ReadsFinish(t) \/ ReleaseNow(t) \/ ReleaseLater(t)
      BY <1>4 DEF UseLease
    <2>2. ASSUME NEW H \in SUBSET Values, NEW l \in Locations, Acquire(t, H, l) PROVE ReadsOwned'
      BY <2>2, ReapTyped DEF Acquire, ReadsOwned, ReapedLeases, Finished, clients, TypeOK, ClientsTyped
    <2>3. CASE LaunchRead(t) \/ ReadsFinish(t)
      BY <2>3 DEF LaunchRead, ReadsFinish, ReadsOwned, protection
    <2>4. CASE ReleaseNow(t) \/ ReleaseLater(t)
      BY <2>4 DEF ReleaseNow, ReleaseLater, Releasing, ReadsOwned, clients, TypeOK, ProtectionTyped,
         ClientsTyped, LeaseRecord
    <2> QED BY <2>1, <2>2, <2>3, <2>4
  <1>5. CASE \E force \in BOOLEAN : Close(force)
    BY <1>5 DEF Close, ReadsOwned, clients
  <1> QED BY <1>1, <1>2, <1>3, <1>4, <1>5

\* The tokens of the lease keep the storage it reads in place.
LEMMA ReadsProtected ==
    ASSUME TypeOK, LifetimesConsistent, LeasesPlaced, ReadsOwned
    PROVE  NoReadOfFreedStorage
  <1> SUFFICES ASSUME NEW t \in reading, NEW v \in leases[t].handles
               PROVE  leases[t].location \in materializations[v]
    BY DEF NoReadOfFreedStorage, ReadsOwned
  <1>1. t \in Leases /\ v \in Values /\ leases[t].location \in Locations
        /\ leases[t].state \in {"active", "pending"}
    BY DEF ReadsOwned, LeasesPlaced, TypeOK, ClientsTyped, ProtectionTyped, LeaseRecord
  <1>2. TokensAgree(v, leases[t].location)
    BY <1>1 DEF LifetimesConsistent
  <1> QED BY <1>1, <1>2 DEF TokensAgree

LEMMA InitReads == ASSUME Init PROVE LeasesPlaced /\ ReadsOwned
  BY DEF Init, LeasesPlaced, ReadsOwned, NoLease

LifetimeInv ==
    /\ TypeOK
    /\ ControlConsistent
    /\ LeasesPlaced
    /\ LifetimesConsistent
    /\ ReadsOwned

LEMMA LifetimeInvariance == Spec => []LifetimeInv
  <1>1. Init => LifetimeInv
    BY InitTyped, InitControl, InitLifetimes, InitReads DEF LifetimeInv
  <1>2. LifetimeInv /\ [Next]_vars => LifetimeInv'
    BY TypeStep, ControlStep, LifetimesStep, LeasesPlacedStep, ReadsOwnedStep DEF LifetimeInv
  <1> QED BY <1>1, <1>2, PTL DEF Spec

\* Leases, holds and the tokens they left on materializations always agree, and
\* a token always protects a live value that is resident where it was borrowed.
THEOREM LifetimesAgree == Spec => []LifetimesConsistent
  <1>1. LifetimeInv => LifetimesConsistent
    BY DEF LifetimeInv
  <1> QED BY <1>1, LifetimeInvariance, PTL

\* No transition, release, abandoned lifetime or close frees storage that a
\* consumer stream still reads.
THEOREM ReadsAreSafe == Spec => []NoReadOfFreedStorage
  <1>1. LifetimeInv => NoReadOfFreedStorage
    BY ReadsProtected DEF LifetimeInv
  <1> QED BY <1>1, LifetimeInvariance, PTL

-----------------------------------------------------------------------------
(* Placement *)

\* The value that is being loaded stays known, reconstructible and without a
\* replica: nobody else gets at it while the callback runs.
LoadConsistent ==
    CallbackActive =>
      /\ records[op.load.handle] = "live"
      /\ Reconstructible(op.load.handle)
      /\ materializations[op.load.handle] = {}

PlacementInv ==
    /\ TypeOK
    /\ ControlConsistent
    /\ LoadConsistent
    /\ NeverLost
    /\ ExclusiveHasOneReplica

PlacementSafe == LoadConsistent /\ NeverLost /\ ExclusiveHasOneReplica

LEMMA PlacementUnchanged ==
    ASSUME PlacementInv, UNCHANGED <<records, materializations>>,
           CallbackActive' => op'.load = op.load
    PROVE  PlacementSafe'
  <1>1. CallbackActive' => CallbackActive
    BY DEF CallbackActive
  <1> QED BY <1>1 DEF PlacementInv, PlacementSafe, LoadConsistent, NeverLost, ExclusiveHasOneReplica

\* While nothing is loaded, a change of one value's replicas is safe if it
\* keeps an adopted value somewhere and an exclusive value in one place.
LEMMA PlacementOfOne ==
    ASSUME PlacementInv, ~CallbackActive', NEW v \in Values, NEW S \in SUBSET Locations,
           NEW r \in {"live", "discarded"},
           records' = [records EXCEPT ![v] = r],
           materializations' = [materializations EXCEPT ![v] = S],
           r = "live" /\ ~Reconstructible(v) => S # {},
           r # "live" => S = {},
           v \in Exclusive => \A l, m \in S : l = m
    PROVE  PlacementSafe'
  <1>1. records'[v] = r /\ materializations'[v] = S
    BY DEF PlacementInv, TypeOK, PlacementTyped
  <1>2. \A w \in Values : w # v => records'[w] = records[w] /\ materializations'[w] = materializations[w]
    BY DEF PlacementInv, TypeOK, PlacementTyped
  <1>3. NeverLost'
    BY <1>1, <1>2 DEF PlacementInv, NeverLost
  <1>4. ExclusiveHasOneReplica'
    BY <1>1, <1>2, SpecAssumption DEF PlacementInv, ExclusiveHasOneReplica
  <1> QED BY <1>3, <1>4 DEF PlacementSafe, LoadConsistent

\* The same for a transition of the value requested, which stays live.
LEMMA TransitionPlacement ==
    ASSUME PlacementInv, NEW outcome, Succeed(outcome), NextRequest, UNCHANGED records,
           NEW S \in SUBSET Locations,
           materializations' = [materializations EXCEPT ![Request.handle] = S],
           ~Reconstructible(Request.handle) => S # {},
           Request.handle \in Exclusive => \A l, m \in S : l = m
    PROVE  PlacementSafe'
  <1>1. Request.handle \in Values /\ records[Request.handle] = "live" /\ ~CallbackActive
    BY HeadRequestTyped, RequestTyped DEF PlacementInv, Succeed, Ready
  <1>2. op'.load = op.load
    BY DEF NextRequest, PlacementInv, TypeOK, ControlTyped, Operation
  <1>3. ~CallbackActive'
    BY <1>1, <1>2 DEF CallbackActive
  <1>4. records' = [records EXCEPT ![Request.handle] = "live"]
    BY <1>1 DEF PlacementInv, TypeOK, PlacementTyped
  <1> QED BY <1>1, <1>3, <1>4, PlacementOfOne

LEMMA TransitionsPlacement ==
    ASSUME PlacementInv,
           StepNoOp \/ StepReplicate \/ StepMove \/ StepCollapse \/ StepDrop \/ StepDiscard
    PROVE  PlacementSafe'
  <1>1. Ready /\ ~CallbackActive
    BY DEF StepNoOp, StepReplicate, StepMove, StepCollapse, StepDrop, StepDiscard, Succeed, Ready
  <1>2. /\ Request.handle \in Values
        /\ records[Request.handle] = "live"
        /\ Resident \in SUBSET Locations
        /\ Request.handle \in Exclusive => \A l, m \in Resident : l = m
        /\ ~Reconstructible(Request.handle) => Resident # {}
    <2>1. Request.handle \in Values
      BY <1>1, HeadRequestTyped, RequestTyped DEF PlacementInv, Ready
    <2>2. records[Request.handle] = "live"
      BY DEF StepNoOp, StepReplicate, StepMove, StepCollapse, StepDrop, StepDiscard, Succeed
    <2> QED BY <2>1, <2>2 DEF Resident, PlacementInv, NeverLost, ExclusiveHasOneReplica, TypeOK, PlacementTyped
  <1>3. Request.op # "discard" => Request.to \in Locations
    BY <1>1, HeadRequestTyped, RequestTyped DEF PlacementInv, Ready
  <1>4. CASE StepNoOp
    <2>1. op'.load = op.load
      BY <1>4 DEF StepNoOp, NextRequest, PlacementInv, TypeOK, ControlTyped, Operation
    <2> QED BY <1>4, <2>1, PlacementUnchanged DEF StepNoOp, placement
  <1>5. CASE StepReplicate
    <2>1. materializations' = [materializations EXCEPT ![Request.handle] = Resident \cup {Request.to}]
      BY <1>5 DEF StepReplicate, Install, Resident
    <2>2. CanReplicate
      BY <1>5 DEF StepReplicate, Succeed
    <2>3. Resident \cup {Request.to} \in SUBSET Locations
      BY <1>2, <1>3, <2>2 DEF CanReplicate
    <2>4. Request.handle \notin Exclusive
      BY <2>2 DEF CanReplicate
    <2> QED BY <1>5, <2>1, <2>3, <2>4, TransitionPlacement DEF StepReplicate
  <1>6. CASE StepMove
    <2> DEFINE S == (Resident \cup {Request.to}) \ {Source}
    <2>1. materializations' = [materializations EXCEPT ![Request.handle] = S]
      BY <1>6 DEF StepMove, Resident
    <2>2. CanMove
      BY <1>6 DEF StepMove, Succeed
    <2>3. S \in SUBSET Locations /\ Request.to \in S
      BY <1>2, <1>3, <2>2 DEF CanMove
    <2>4. Request.handle \in Exclusive => \A l, m \in S : l = m
      BY <1>2, <2>2 DEF CanMove
    <2> HIDE DEF S
    <2> QED BY <1>6, <2>1, <2>3, <2>4, TransitionPlacement DEF StepMove
  <1>7. CASE StepCollapse
    <2> DEFINE S == Resident \ {Source}
    <2>1. materializations' = [materializations EXCEPT ![Request.handle] = S]
      BY <1>7 DEF StepCollapse, Uninstall, Resident
    <2>2. CanCollapse
      BY <1>7 DEF StepCollapse, Succeed
    <2>3. S \in SUBSET Locations /\ Request.to \in S
      BY <1>2, <2>2 DEF CanCollapse
    <2>4. Request.handle \in Exclusive => \A l, m \in S : l = m
      BY <1>2
    <2> HIDE DEF S
    <2> QED BY <1>7, <2>1, <2>3, <2>4, TransitionPlacement DEF StepCollapse
  <1>8. CASE StepDrop
    <2> DEFINE S == Resident \ {Request.to}
    <2>1. materializations' = [materializations EXCEPT ![Request.handle] = S]
      BY <1>8 DEF StepDrop, Uninstall, Resident
    <2>2. CanDrop
      BY <1>8 DEF StepDrop, Succeed
    <2>3. S \in SUBSET Locations
      BY <1>2
    <2>4. ~Reconstructible(Request.handle) => S # {}
      BY <2>2 DEF CanDrop
    <2>5. Request.handle \in Exclusive => \A l, m \in S : l = m
      BY <1>2
    <2> HIDE DEF S
    <2> QED BY <1>8, <2>1, <2>3, <2>4, <2>5, TransitionPlacement DEF StepDrop
  <1>9. CASE StepDiscard
    <2>1. ~CallbackActive'
      BY <1>1, <1>9 DEF StepDiscard, NextRequest, CallbackActive, PlacementInv, TypeOK, ControlTyped, Operation
    <2> QED BY <1>2, <1>9, <2>1, PlacementOfOne DEF StepDiscard
  <1> QED BY <1>4, <1>5, <1>6, <1>7, <1>8, <1>9

LEMMA LoadPlacement ==
    ASSUME PlacementInv, StartLoad \/ FinishLoad \/ LoadFails \/ StepFails
    PROVE  PlacementSafe'
  <1>1. CASE StartLoad
    <2>1. op'.load = [handle |-> Request.handle, to |-> Request.to]
      BY <1>1 DEF StartLoad, PlacementInv, TypeOK, ControlTyped, Operation
    <2>2. records[Request.handle] = "live" /\ NeedsLoad
      BY <1>1 DEF StartLoad, Succeed
    <2>3. UNCHANGED <<records, materializations>>
      BY <1>1 DEF StartLoad, placement
    <2> QED BY <2>1, <2>2, <2>3 DEF NeedsLoad, Resident, PlacementSafe, LoadConsistent, NeverLost,
          ExclusiveHasOneReplica, PlacementInv, Reconstructible
  <1>2. CASE FinishLoad
    <2> DEFINE v == op.load.handle
               S == {op.load.to}
    <2>1. CallbackActive
      BY <1>2 DEF FinishLoad, EndLoad
    <2>2. v \in Values /\ op.load.to \in Locations
      BY <2>1 DEF CallbackActive, PlacementInv, TypeOK, ControlTyped, Operation, Load
    <2>3. records[v] = "live" /\ materializations[v] = {}
      BY <2>1 DEF PlacementInv, LoadConsistent
    <2>4. ~CallbackActive'
      BY <1>2 DEF FinishLoad, CallbackActive, PlacementInv, TypeOK, ControlTyped, Operation
    <2>5. materializations' = [materializations EXCEPT ![v] = S]
      BY <1>2, <2>3 DEF FinishLoad, Install
    <2>6. records' = [records EXCEPT ![v] = "live"]
      BY <1>2, <2>2, <2>3 DEF FinishLoad, EndLoad, PlacementInv, TypeOK, PlacementTyped
    <2>7. S \in SUBSET Locations /\ S # {} /\ \A l, m \in S : l = m
      BY <2>2
    <2>8. v \in Values /\ S \in SUBSET Locations /\ "live" \in {"live", "discarded"}
      BY <2>2, <2>7
    <2> HIDE DEF v, S
    <2> QED BY <2>4, <2>5, <2>6, <2>7, <2>8, PlacementOfOne
  <1>3. CASE LoadFails \/ StepFails
    <2>1. UNCHANGED <<records, materializations>>
      BY <1>3 DEF LoadFails, EndLoad, StepFails, placement
    <2>2. Fail
      BY <1>3 DEF LoadFails, StepFails
    <2>3. ~CallbackActive'
      BY <2>2 DEF Fail, CallbackActive, Idle, PlacementInv, TypeOK, ControlTyped, Operation
    <2> QED BY <2>1, <2>3, PlacementUnchanged
  <1> QED BY <1>1, <1>2, <1>3

LEMMA RegisterPlacement ==
    ASSUME PlacementInv, Register
    PROVE  PlacementSafe'
  <1>1. PICK v \in Values : RegisterSource(v) \/ \E l \in Locations : Adopt(v, l)
    BY DEF Register
  <1>2. ~CallbackActive'
    BY <1>1 DEF RegisterSource, Adopt, Open, LockFree, CallbackActive, Idle, holder
  <1>3. materializations[v] = {}
    BY <1>1 DEF RegisterSource, Adopt, PlacementInv, NeverLost
  <1>4. CASE RegisterSource(v)
    <2>1. materializations' = [materializations EXCEPT ![v] = {}]
      BY <1>3, <1>4 DEF RegisterSource, PlacementInv, TypeOK, PlacementTyped
    <2> QED BY <1>2, <1>4, <2>1, PlacementOfOne DEF RegisterSource
  <1>5. ASSUME NEW l \in Locations, Adopt(v, l) PROVE PlacementSafe'
    <2>1. materializations' = [materializations EXCEPT ![v] = {l}]
      BY <1>3, <1>5 DEF Adopt, Install
    <2> QED BY <1>2, <1>5, <2>1, PlacementOfOne DEF Adopt
  <1> QED BY <1>1, <1>4, <1>5

LEMMA PlacementStep ==
    ASSUME PlacementInv, [Next]_vars
    PROVE  PlacementSafe'
  <1>1. ASSUME UNCHANGED <<records, materializations>>, UNCHANGED op \/ ~CallbackActive'
        PROVE  PlacementSafe'
    BY <1>1, PlacementUnchanged
  <1>2. CASE HolderStep
    <2>1. CASE \/ StepNoOp \/ StepReplicate \/ StepMove \/ StepCollapse \/ StepDrop \/ StepDiscard
      BY <2>1, TransitionsPlacement
    <2>2. CASE StartLoad \/ FinishLoad \/ LoadFails \/ StepFails
      BY <2>2, LoadPlacement
    <2>3. CASE EndOperation \/ ReclaimDone \/ ReserveDone \/ EnterDone \/ ExitDone \/ ReleaseDone
               \/ \E r \in Reservations : ReserveNext(r) \/ ReleaseNext(r)
      <3>1. UNCHANGED <<records, materializations>>
        BY <2>3 DEF EndOperation, ReclaimDone, ReserveDone, EnterDone, ExitDone, ReleaseDone,
           Advance, ReserveNext, Reserve, ReleaseNext, ReleaseHeadroom, placement
      <3>2. op'.load \in {op.load, NoLoad}
        <4>1. CASE EndOperation \/ EnterDone \/ ReleaseDone
          BY <4>1 DEF EndOperation, EnterDone, ReleaseDone, Idle
        <4>2. CASE ReclaimDone \/ ReserveDone \/ ExitDone
          BY <4>2 DEF ReclaimDone, ReserveDone, ExitDone, PlacementInv, TypeOK, ControlTyped, Operation
        <4>3. CASE \E r \in Reservations : ReserveNext(r) \/ ReleaseNext(r)
          BY <4>3 DEF ReserveNext, ReleaseNext, holder, PlacementInv, TypeOK, ControlTyped, Operation
        <4> QED BY <2>3, <4>1, <4>2, <4>3
      <3>3. CallbackActive' => op'.load = op.load
        BY <3>2 DEF CallbackActive, NoLoad
      <3> QED BY <3>1, <3>3, PlacementUnchanged
    <2> QED BY <1>2, <2>1, <2>2, <2>3 DEF HolderStep
  <1>3. CASE Register
    BY <1>3, RegisterPlacement
  <1>4. CASE Operate
    BY <1>1, <1>4 DEF Operate, Run, ExecuteActions, Begin, CallbackActive, placement
  <1>5. CASE UseScope
    <2>1. UNCHANGED <<records, materializations>>
      BY <1>5 DEF UseScope, NewScope, EnterScope, RefuseScope, ExitScope, RejectScope, AbandonScope,
         Begin, placement
    <2>2. UNCHANGED op \/ ~CallbackActive'
      BY <1>5 DEF UseScope, NewScope, EnterScope, RefuseScope, ExitScope, RejectScope, AbandonScope,
         Begin, CallbackActive, holder
    <2> QED BY <1>1, <2>1, <2>2
  <1>6. CASE UseLease \/ UseHold
    BY <1>1, <1>6 DEF UseLease, Acquire, LaunchRead, ReadsFinish, ReleaseNow, ReleaseLater, Releasing,
       UseHold, Hold, ReleaseHold, placement, holder
  <1>7. CASE UseReservation
    BY <1>1, <1>7 DEF UseReservation, ReserveBytes, Reserve, ReleaseReservation, ReleaseAbandoned,
       ReleaseHeadroom, placement, holder
  <1>8. CASE Poll \/ (\E x \in Leases \cup Holds \cup Reservations : Orphan(x)) \/ UNCHANGED vars
    BY <1>1, <1>8 DEF Poll, Orphan, vars, placement, holder
  <1>9. CASE \E force \in BOOLEAN : Close(force)
    BY <1>9, SpecAssumption DEF Close, Open, LockFree, Idle, holder, CallbackActive, PlacementSafe,
       LoadConsistent, NeverLost, ExclusiveHasOneReplica
  <1> QED BY <1>2, <1>3, <1>4, <1>5, <1>6, <1>7, <1>8, <1>9 DEF Next

LEMMA PlacementInvariance == Spec => []PlacementInv
  <1>1. Init => PlacementInv
    <2>1. ASSUME Init PROVE PlacementSafe
      BY <2>1, SpecAssumption DEF Init, PlacementSafe, LoadConsistent, NeverLost,
         ExclusiveHasOneReplica, CallbackActive, Idle
    <2> QED BY <2>1, InitTyped, InitControl DEF PlacementInv, PlacementSafe
  <1>2. PlacementInv /\ [Next]_vars => PlacementInv'
    BY TypeStep, ControlStep, PlacementStep DEF PlacementInv, PlacementSafe
  <1> QED BY <1>1, <1>2, PTL DEF Spec

\* Whatever order transitions, loads, failures and discards come in, an adopted
\* value keeps a copy until it is discarded, and then it occupies nothing.
THEOREM NothingLost == Spec => []NeverLost
  <1>1. PlacementInv => NeverLost
    BY DEF PlacementInv
  <1> QED BY <1>1, PlacementInvariance, PTL

\* At rest an exclusive value never has two replicas.
THEOREM ExclusiveIsSingle == Spec => []ExclusiveHasOneReplica
  <1>1. PlacementInv => ExclusiveHasOneReplica
    BY DEF PlacementInv
  <1> QED BY <1>1, PlacementInvariance, PTL

-----------------------------------------------------------------------------
(* Versions *)

\* A scope's version can only be current once the scope was made.
FreshBorn == \A s \in fresh : scopes[s].state # "unborn"

LEMMA QuietReap ==
    ASSUME TypeOK, Finished = {}, Reap
    PROVE  leases' = leases /\ pending_tokens' = pending_tokens
  <1>1. leases' = [t \in Leases |-> leases[t]]
    BY DEF Reap, ReapedLeases
  <1>2. \A v \in Values : [l \in Locations |-> pending_tokens[v][l] \ Finished] = pending_tokens[v]
    BY DEF TypeOK, ProtectionTyped
  <1>3. pending_tokens' = [v \in Values |-> pending_tokens[v]]
    BY <1>2 DEF Reap, ReapedTokens
  <1> QED BY <1>1, <1>3 DEF TypeOK, ProtectionTyped

LEMMA HolderVersion ==
    ASSUME HolderStep
    PROVE  \/ Bump
           \/ UNCHANGED <<Versioned, fresh>>
           \/ /\ Reap /\ fresh' = ReapedFresh
              /\ UNCHANGED <<records, materializations, use_tokens, hold_tokens, holds,
                            reservations, locations, closed>>
  <1>1. CASE \/ StepReplicate \/ StepMove \/ StepCollapse \/ StepDrop \/ StepDiscard \/ FinishLoad
            \/ \E r \in Reservations : ReserveNext(r) \/ ReleaseNext(r)
    BY <1>1 DEF StepReplicate, StepMove, StepCollapse, StepDrop, StepDiscard, FinishLoad,
       ReserveNext, Reserve, ReleaseNext, ReleaseHeadroom
  <1>2. CASE StepNoOp \/ StartLoad \/ StepFails
    BY <1>2 DEF StepNoOp, StartLoad, StepFails, Succeed, placement, headroom
  <1>3. CASE \/ LoadFails \/ EndOperation
            \/ ReclaimDone \/ ReserveDone \/ EnterDone \/ ExitDone \/ ReleaseDone
    BY <1>3 DEF LoadFails, EndLoad, EndOperation, ReclaimDone, ReserveDone, EnterDone, ExitDone,
       ReleaseDone, Advance, Versioned, placement, protection, headroom
  <1> QED BY <1>1, <1>2, <1>3 DEF HolderStep

LEMMA VersionStep ==
    ASSUME TypeOK, FreshBorn, [Next]_vars
    PROVE  Versioned' # Versioned => fresh \cap fresh' = {}
  <1> SUFFICES ASSUME Versioned' # Versioned PROVE fresh \cap fresh' = {}
    OBVIOUS
  <1>1. CASE Bump
    BY <1>1 DEF Bump
  <1>2. ASSUME Reap,
               UNCHANGED <<records, materializations, use_tokens, hold_tokens, holds,
                           reservations, locations, closed>>
        PROVE  Finished # {}
    BY <1>2, QuietReap DEF Versioned
  <1>3. ASSUME Reap, fresh' \subseteq ReapedFresh,
               UNCHANGED <<records, materializations, use_tokens, hold_tokens, holds,
                           reservations, locations, closed>>
        PROVE  fresh' = {}
    BY <1>2, <1>3 DEF ReapedFresh
  <1>4. CASE HolderStep
    BY <1>1, <1>3, <1>4, HolderVersion
  <1>5. CASE Register \/ Poll \/ (\E force \in BOOLEAN : Close(force))
    BY <1>1, <1>5 DEF Register, RegisterSource, Adopt, Poll, Close
  <1>6. CASE Operate
    BY <1>3, <1>6 DEF Operate, Run, ExecuteActions, Begin, placement, headroom
  <1>7. CASE UseScope
    <2> PICK s \in Scopes :
          \/ \E plan \in Plans, versioned \in BOOLEAN : NewScope(s, plan, versioned)
          \/ EnterScope(s) \/ RefuseScope(s) \/ ExitScope(s) \/ RejectScope(s) \/ AbandonScope(s)
      BY <1>7 DEF UseScope
    <2>1. ASSUME NEW plan \in Plans, NEW versioned \in BOOLEAN, NewScope(s, plan, versioned)
          PROVE  fresh \cap fresh' = {}
      <3>1. versioned
        BY <2>1 DEF NewScope, Versioned, placement, headroom
      <3>2. Finished # {}
        BY <1>2, <2>1, <3>1 DEF NewScope, placement, headroom
      <3>3. fresh' = {s} /\ s \notin fresh
        BY <2>1, <3>1, <3>2 DEF NewScope, ReapedFresh, FreshBorn
      <3> QED BY <3>3
    <2>2. CASE EnterScope(s) \/ RefuseScope(s) \/ ExitScope(s)
      BY <1>3, <2>2 DEF EnterScope, RefuseScope, ExitScope, Begin, placement, headroom
    <2>3. CASE RejectScope(s) \/ AbandonScope(s)
      BY <2>3 DEF RejectScope, AbandonScope, Versioned, placement, protection, headroom
    <2> QED BY <2>1, <2>2, <2>3
  <1>8. CASE UseLease \/ UseHold \/ UseReservation
    BY <1>1, <1>8 DEF UseLease, Acquire, LaunchRead, ReadsFinish, ReleaseNow, ReleaseLater, Releasing,
       UseHold, Hold, ReleaseHold, UseReservation, ReserveBytes, Reserve, ReleaseReservation,
       ReleaseAbandoned, ReleaseHeadroom, Versioned, placement, protection, headroom
  <1>9. CASE (\E x \in Leases \cup Holds \cup Reservations : Orphan(x)) \/ UNCHANGED vars
    BY <1>9 DEF Orphan, vars, Versioned, placement, protection, headroom
  <1> QED BY <1>4, <1>5, <1>6, <1>7, <1>8, <1>9 DEF Next

LEMMA FreshBornStep ==
    ASSUME TypeOK, FreshBorn, [Next]_vars
    PROVE  FreshBorn'
  <1>1. ASSUME UNCHANGED scopes, fresh' \subseteq fresh PROVE FreshBorn'
    BY <1>1 DEF FreshBorn
  <1>2. ASSUME NEW s, NEW state, state # "unborn", fresh' \subseteq fresh,
               scopes' = [scopes EXCEPT ![s].state = state]
        PROVE  FreshBorn'
    BY <1>2 DEF FreshBorn, TypeOK, ControlTyped, ScopeRecord
  <1>3. ReapedFresh \subseteq fresh
    BY DEF ReapedFresh
  <1>4. CASE HolderStep
    <2>1. fresh' \subseteq fresh
      BY <1>3, <1>4, HolderVersion DEF Bump
    <2>2. CASE EnterDone
      BY <1>2, <2>1, <2>2 DEF EnterDone
    <2>3. CASE ReleaseDone
      BY <1>2, <2>1, <2>3 DEF ReleaseDone
    <2>4. CASE HolderStep /\ ~EnterDone /\ ~ReleaseDone
      <3>1. UNCHANGED scopes
        BY <2>4 DEF HolderStep, StepNoOp, StepReplicate, StepMove, StepCollapse, StepDrop,
           StepDiscard, StartLoad, FinishLoad, LoadFails, StepFails, EndLoad, Succeed, EndOperation,
           ReclaimDone, ReserveDone, ExitDone, ReserveNext, Reserve, ReleaseNext, ReleaseHeadroom
      <3> QED BY <1>1, <2>1, <3>1
    <2> QED BY <1>4, <2>2, <2>3, <2>4
  <1>5. CASE Register \/ Operate \/ Poll \/ (\E force \in BOOLEAN : Close(force))
    BY <1>1, <1>3, <1>5 DEF Register, RegisterSource, Adopt, Operate, Run, ExecuteActions, Poll, Close, Bump
  <1>6. CASE UseScope
    <2> PICK s \in Scopes :
          \/ \E plan \in Plans, versioned \in BOOLEAN : NewScope(s, plan, versioned)
          \/ EnterScope(s) \/ RefuseScope(s) \/ ExitScope(s) \/ RejectScope(s) \/ AbandonScope(s)
      BY <1>6 DEF UseScope
    <2>1. ASSUME NEW plan \in Plans, NEW versioned \in BOOLEAN, NewScope(s, plan, versioned)
          PROVE  FreshBorn'
      <3>1. fresh' \subseteq fresh \cup {s}
        BY <1>3, <2>1 DEF NewScope
      <3>2. scopes' = [scopes EXCEPT ![s] = [state |-> "new", plan |-> plan, versioned |-> versioned]]
        BY <2>1 DEF NewScope
      <3> QED BY <3>1, <3>2 DEF FreshBorn, TypeOK, ControlTyped
    <2>2. CASE EnterScope(s)
      BY <1>2, <1>3, <2>2 DEF EnterScope
    <2>3. CASE RefuseScope(s)
      BY <1>2, <1>3, <2>3 DEF RefuseScope
    <2>4. CASE ExitScope(s)
      BY <1>2, <1>3, <2>4 DEF ExitScope
    <2>5. CASE RejectScope(s)
      BY <1>2, <2>5 DEF RejectScope
    <2>6. CASE AbandonScope(s)
      BY <1>2, <2>6 DEF AbandonScope
    <2> QED BY <2>1, <2>2, <2>3, <2>4, <2>5, <2>6
  <1>7. CASE UseLease \/ UseHold \/ UseReservation
    BY <1>1, <1>7 DEF UseLease, Acquire, LaunchRead, ReadsFinish, ReleaseNow, ReleaseLater, Releasing,
       UseHold, Hold, ReleaseHold, UseReservation, ReserveBytes, Reserve, ReleaseReservation,
       ReleaseAbandoned, ReleaseHeadroom, Bump
  <1>8. CASE (\E x \in Leases \cup Holds \cup Reservations : Orphan(x)) \/ UNCHANGED vars
    BY <1>1, <1>8 DEF Orphan, vars
  <1> QED BY <1>4, <1>5, <1>6, <1>7, <1>8 DEF Next

\* Every operation that changes what a version covers makes each version read
\* before it stale; so does the reaping of leases on the way of any call.
THEOREM VersionsTrackState == Spec => VersionTracksState
  <1>1. Init => FreshBorn
    BY DEF Init, FreshBorn
  <1>2. TypeOK /\ FreshBorn /\ [Next]_vars => FreshBorn'
    BY FreshBornStep
  <1>3. TypeOK /\ FreshBorn /\ [Next]_vars => [Versioned' # Versioned => fresh \cap fresh' = {}]_vars
    BY VersionStep
  <1> QED BY <1>1, <1>2, <1>3, TypeCorrect, PTL DEF Spec, VersionTracksState

-----------------------------------------------------------------------------
(* Total adds the weights up in the order Pick takes the elements out; the *)
(* sum does not depend on that order.                                      *)

Pick(s) == CHOOSE x \in s : TRUE
Smaller(s) == s \ {Pick(s)}
AddUp(f, w, s) == IF s = {} THEN 0 ELSE w[Pick(s)] + f[Smaller(s)]
AddsUp(f, w, D) == f = [s \in SUBSET D |-> AddUp(f, w, s)]

LEMMA TotalUnfold ==
    ASSUME NEW w, NEW D
    PROVE  Total(w, D) = (CHOOSE f : AddsUp(f, w, D))[D]
BY DEF Total, Sets!MapThenSumSet, Sets!MapThenFoldSet, AddsUp, AddUp, Smaller, Pick

LEMMA SmallerSet ==
    ASSUME NEW s, s # {}, IsFiniteSet(s)
    PROVE  /\ Pick(s) \in s /\ Smaller(s) \subseteq s
           /\ IsFiniteSet(Smaller(s))
           /\ Cardinality(s) \in Nat /\ Cardinality(s) = Cardinality(Smaller(s)) + 1
<1>1. Pick(s) \in s
  BY DEF Pick
<1>2. IsFiniteSet(s \ {Pick(s)}) /\ Cardinality(s \ {Pick(s)}) = Cardinality(s) - 1
  BY <1>1, FS_RemoveElement
<1>3. Cardinality(s) \in Nat
  BY FS_CardinalityType
<1> QED
  BY <1>1, <1>2, <1>3 DEF Smaller

\* The recursive sum over the subsets of a finite set is defined.
LEMMA AddsUpExists ==
    ASSUME NEW D, IsFiniteSet(D), NEW w, \A x \in D : w[x] \in Int
    PROVE  \E f \in [SUBSET D -> Int] : AddsUp(f, w, D)
<1> DEFINE Upto(n) == \E f \in [SUBSET D -> Int] :
                        \A s \in SUBSET D : Cardinality(s) <= n => f[s] = AddUp(f, w, s)
           S == {n \in Nat : Upto(n)}
<1>1. \A s \in SUBSET D : IsFiniteSet(s) /\ Cardinality(s) \in Nat
  BY FS_Subset, FS_CardinalityType
<1>2. 0 \in S
  <2>1. \A s \in SUBSET D : Cardinality(s) <= 0 => s = {}
    BY <1>1, FS_EmptySet
  <2>2. [s \in SUBSET D |-> 0] \in [SUBSET D -> Int]
    OBVIOUS
  <2>3. \A s \in SUBSET D : Cardinality(s) <= 0 => [t \in SUBSET D |-> 0][s] = AddUp([t \in SUBSET D |-> 0], w, s)
    BY <2>1 DEF AddUp
  <2> QED
    BY <2>2, <2>3
<1>3. ASSUME NEW n \in Nat, n \in S PROVE n + 1 \in S
  <2>1. PICK f \in [SUBSET D -> Int] : \A s \in SUBSET D : Cardinality(s) <= n => f[s] = AddUp(f, w, s)
    BY <1>3
  <2> DEFINE g == [s \in SUBSET D |-> AddUp(f, w, s)]
  <2>2. \A s \in SUBSET D : AddUp(f, w, s) \in Int
    BY <1>1, SmallerSet DEF AddUp
  <2>3. \A s \in SUBSET D : Cardinality(s) <= n => g[s] = f[s]
    BY <2>1
  <2>4. ASSUME NEW s \in SUBSET D, Cardinality(s) <= n + 1 PROVE g[s] = AddUp(g, w, s)
    <3>1. CASE s = {}
      BY <3>1 DEF AddUp
    <3>2. CASE s # {}
      <4>1. Smaller(s) \in SUBSET D /\ Cardinality(Smaller(s)) <= n
        BY <3>2, <1>1, <2>4, SmallerSet
      <4>2. g[Smaller(s)] = f[Smaller(s)]
        BY <4>1, <2>3
      <4> HIDE DEF g
      <4>3. AddUp(g, w, s) = AddUp(f, w, s)
        BY <4>2 DEF AddUp
      <4> QED
        BY <4>3 DEF g
    <3> QED
      BY <3>1, <3>2
  <2>5. g \in [SUBSET D -> Int]
    BY <2>2
  <2> HIDE DEF g
  <2> QED
    BY <2>4, <2>5
<1>4. \A n \in Nat : n \in S
  <2> HIDE DEF S
  <2> QED
    BY <1>2, <1>3, InductionOnNat
<1>5. Cardinality(D) \in S
  BY <1>1, <1>4
<1>6. PICK f \in [SUBSET D -> Int] : \A s \in SUBSET D : Cardinality(s) <= Cardinality(D) => f[s] = AddUp(f, w, s)
  BY <1>5
<1>7. \A s \in SUBSET D : f[s] = AddUp(f, w, s)
  BY <1>6, <1>1, FS_Subset
<1> QED
  BY <1>7 DEF AddsUp

\* ... and two of them agree where both are defined.
LEMMA AddsUpUnique ==
    ASSUME NEW D, IsFiniteSet(D), NEW E \in SUBSET D, NEW w, NEW f, NEW g,
           AddsUp(f, w, D), AddsUp(g, w, E)
    PROVE  f[E] = g[E]
<1> DEFINE S == {n \in Nat : \A s \in SUBSET E : Cardinality(s) = n => f[s] = g[s]}
<1>1. \A s \in SUBSET E : IsFiniteSet(s) /\ Cardinality(s) \in Nat
  BY FS_Subset, FS_CardinalityType
<1>2. \A s \in SUBSET E : f[s] = AddUp(f, w, s) /\ g[s] = AddUp(g, w, s)
  BY DEF AddsUp
<1>3. 0 \in S
  BY <1>1, <1>2, FS_EmptySet DEF AddUp
<1>4. ASSUME NEW n \in Nat, n \in S PROVE n + 1 \in S
  <2>1. ASSUME NEW s \in SUBSET E, Cardinality(s) = n + 1 PROVE f[s] = g[s]
    <3>1. s # {} 
      BY <2>1, FS_EmptySet
    <3>2. Smaller(s) \in SUBSET E /\ Cardinality(Smaller(s)) = n
      BY <3>1, <2>1, <1>1, SmallerSet
    <3> QED
      BY <3>2, <1>4, <1>2, <3>1 DEF AddUp
  <2> QED
    BY <2>1
<1>5. \A n \in Nat : n \in S
  <2> HIDE DEF S
  <2> QED
    BY <1>3, <1>4, InductionOnNat
<1> QED
  BY <1>5, <1>1

LEMMA TotalStep ==
    ASSUME NEW D, IsFiniteSet(D), NEW w, \A x \in D : w[x] \in Int
    PROVE  /\ Total(w, D) \in Int
           /\ D = {} => Total(w, D) = 0
           /\ D # {} => Total(w, D) = w[Pick(D)] + Total(w, Smaller(D))
<1> DEFINE F(E) == CHOOSE f : AddsUp(f, w, E)
<1>1. ASSUME NEW E \in SUBSET D PROVE AddsUp(F(E), w, E) /\ Total(w, E) = F(E)[E]
  <2>1. \E f : AddsUp(f, w, E)
    BY AddsUpExists, FS_Subset
  <2>2. AddsUp(F(E), w, E)
    BY <2>1
  <2> QED BY <2>2, TotalUnfold
<1> HIDE DEF F
<1>2. PICK g \in [SUBSET D -> Int] : AddsUp(g, w, D)
  BY AddsUpExists
<1>3. Total(w, D) = g[D]
  BY <1>1, <1>2, AddsUpUnique
<1>4. CASE D # {}
  <2>1. Smaller(D) \in SUBSET D
    BY <1>4, SmallerSet
  <2>2. Total(w, Smaller(D)) = g[Smaller(D)]
    BY <2>1, <1>1, <1>2, AddsUpUnique
  <2>3. g[D] = AddUp(g, w, D)
    BY <1>2 DEF AddsUp
  <2> QED
    BY <1>3, <1>4, <2>2, <2>3 DEF AddUp
<1>5. CASE D = {}
  BY <1>2, <1>3, <1>5 DEF AddsUp, AddUp
<1> QED
  BY <1>3, <1>4, <1>5

\* Any element can be taken out first.
LEMMA TotalWithout ==
    ASSUME NEW D, IsFiniteSet(D), NEW w, \A x \in D : w[x] \in Int, NEW y \in D
    PROVE  Total(w, D) = w[y] + Total(w, D \ {y})
<1> DEFINE Any(s) == \A x \in s : Total(w, s) = w[x] + Total(w, s \ {x})
           S == {n \in Nat : \A s \in SUBSET D : Cardinality(s) = n => Any(s)}
<1>1. \A s \in SUBSET D : IsFiniteSet(s) /\ Cardinality(s) \in Nat
  BY FS_Subset, FS_CardinalityType
<1>2. \A s \in SUBSET D : Total(w, s) \in Int
  BY <1>1, TotalStep
<1>3. 0 \in S
  BY <1>1, FS_EmptySet
<1>4. ASSUME NEW n \in Nat, n \in S PROVE n + 1 \in S
  <2>1. ASSUME NEW s \in SUBSET D, Cardinality(s) = n + 1, NEW x \in s
        PROVE  Total(w, s) = w[x] + Total(w, s \ {x})
    <3> DEFINE p == Pick(s)
    <3>1. p \in s /\ Total(w, s) = w[p] + Total(w, s \ {p})
      BY <2>1, <1>1, TotalStep, SmallerSet DEF Smaller
    <3> HIDE DEF p
    <3>2. CASE p = x
      BY <3>1, <3>2
    <3>3. CASE p # x
      <4>1. Cardinality(s \ {p}) = n /\ Cardinality(s \ {x}) = n
        BY <2>1, <3>1, <1>1, FS_RemoveElement
      <4>2. Total(w, s \ {p}) = w[x] + Total(w, (s \ {p}) \ {x})
        <5>1. s \ {p} \in SUBSET D /\ x \in s \ {p}
          BY <3>3
        <5> QED
          BY <4>1, <5>1, <1>4
      <4>3. Total(w, s \ {x}) = w[p] + Total(w, (s \ {x}) \ {p})
        <5>1. s \ {x} \in SUBSET D /\ p \in s \ {x}
          BY <3>1, <3>3
        <5> QED
          BY <4>1, <5>1, <1>4
      <4>4. (s \ {p}) \ {x} = (s \ {x}) \ {p}
        OBVIOUS
      <4>5. w[x] \in Int /\ w[p] \in Int /\ Total(w, (s \ {p}) \ {x}) \in Int
        BY <1>2, <3>1
      <4> DEFINE rest == Total(w, (s \ {p}) \ {x})
      <4>6. Total(w, s \ {x}) = w[p] + rest
        BY <4>3, <4>4, Zenon
      <4>7. Total(w, s \ {p}) = w[x] + rest /\ rest \in Int
        BY <4>2, <4>5
      <4> HIDE DEF rest
      <4> QED
        BY <3>1, <4>5, <4>6, <4>7
    <3> QED
      BY <3>2, <3>3
  <2> QED
    BY <2>1
<1>5. \A n \in Nat : n \in S
  <2> HIDE DEF S
  <2> QED
    BY <1>3, <1>4, InductionOnNat
<1> QED
  BY <1>5, <1>1

\* A total only depends on the weights of its elements.
LEMMA TotalSame ==
    ASSUME NEW D, IsFiniteSet(D), NEW w, \A x \in D : w[x] \in Int,
           NEW u, \A x \in D : u[x] = w[x]
    PROVE  Total(u, D) = Total(w, D)
<1> DEFINE S == {n \in Nat : \A s \in SUBSET D : Cardinality(s) = n => Total(u, s) = Total(w, s)}
<1>1. \A s \in SUBSET D : IsFiniteSet(s) /\ Cardinality(s) \in Nat
  BY FS_Subset, FS_CardinalityType
<1>2. 0 \in S
  BY <1>1, FS_EmptySet, TotalStep
<1>3. ASSUME NEW n \in Nat, n \in S PROVE n + 1 \in S
  <2>1. ASSUME NEW s \in SUBSET D, Cardinality(s) = n + 1 PROVE Total(u, s) = Total(w, s)
    <3>1. s # {} 
      BY <2>1, FS_EmptySet
    <3>2. Pick(s) \in s /\ Smaller(s) \in SUBSET D /\ Cardinality(Smaller(s)) = n
      BY <3>1, <2>1, <1>1, SmallerSet
    <3>3. Total(u, s) = u[Pick(s)] + Total(u, Smaller(s)) /\ Total(w, s) = w[Pick(s)] + Total(w, Smaller(s))
      BY <3>1, <1>1, TotalStep
    <3> QED
      BY <3>2, <3>3, <1>3
  <2> QED
    BY <2>1
<1>4. \A n \in Nat : n \in S
  <2> HIDE DEF S
  <2> QED
    BY <1>2, <1>3, InductionOnNat
<1> QED
  BY <1>4, <1>1

Summable(w, D) == IsFiniteSet(D) /\ \A x \in D : w[x] \in Int
Alike(u, w, D) == \A x \in D : u[x] = w[x]

LEMMA TotalInsert ==
    ASSUME NEW D, NEW w, Summable(w, D), NEW y, y \notin D,
           NEW u, u[y] \in Int, Alike(u, w, D)
    PROVE  IsFiniteSet(D \cup {y}) /\ Total(u, D \cup {y}) = Total(w, D) + u[y]
<1> USE DEF Summable, Alike
<1> DEFINE E == D \cup {y}
<1>1. IsFiniteSet(E) /\ y \in E /\ E \ {y} = D
  BY FS_AddElement
<1>2. \A x \in E : u[x] \in Int
  OBVIOUS
<1>3. Total(u, D) = Total(w, D) /\ Total(w, D) \in Int
  BY TotalSame, TotalStep
<1> HIDE DEF E
<1>4. Total(u, E) = u[y] + Total(u, E \ {y})
  BY <1>1, <1>2, TotalWithout
<1>5. Total(u, E) = u[y] + Total(u, D)
  BY <1>1, <1>4
<1>6. Total(u, E) = Total(w, D) + u[y]
  BY <1>3, <1>5
<1> QED
  BY <1>1, <1>6 DEF E

LEMMA TotalRemove ==
    ASSUME NEW D, NEW w, Summable(w, D), NEW y \in D, NEW u, Alike(u, w, D \ {y})
    PROVE  IsFiniteSet(D \ {y}) /\ Total(u, D \ {y}) = Total(w, D) - w[y]
<1> USE DEF Summable, Alike
<1> DEFINE E == D \ {y}
<1>1. IsFiniteSet(E) /\ (\A x \in E : w[x] \in Int /\ u[x] = w[x])
  BY FS_Subset
<1>2. Total(w, D) = w[y] + Total(w, E)
  BY TotalWithout
<1> HIDE DEF E
<1>3. Total(u, E) = Total(w, E) /\ Total(w, E) \in Int
  BY <1>1, TotalSame, TotalStep
<1>4. Total(u, E) = Total(w, D) - w[y]
  BY <1>2, <1>3
<1> QED
  BY <1>1, <1>4 DEF E

-----------------------------------------------------------------------------
(* Accounting *)

UsedExact(l) == IsFiniteSet(Occupants(l)) /\ used_bytes[l] = Total(Size, Occupants(l))

ReservedExact(l) ==
    /\ IsFiniteSet(Reserved(l))
    /\ reserved_bytes[l] = Total(ReservedSize, Reserved(l)) + Loading(l)

BytesExact == \A l \in Locations : UsedExact(l) /\ ReservedExact(l)

\* A step that changes the replicas of one value keeps the used bytes exact if
\* it charges where a replica appears and uncharges where one disappears.
LEMMA UsedOfOne ==
    ASSUME TypeOK, NEW v \in Values, NEW S \in SUBSET Locations, NEW l \in Locations,
           UsedExact(l),
           materializations' = [materializations EXCEPT ![v] = S],
           used_bytes'[l] = used_bytes[l] + (IF l \in S THEN Size[v] ELSE 0)
                               - (IF l \in materializations[v] THEN Size[v] ELSE 0)
    PROVE  UsedExact(l)'
  <1> DEFINE D == Occupants(l)
             E == Occupants(l)'
  <1>1. Size[v] \in Int /\ (\A x \in D : Size[x] \in Int)
    BY SpecAssumption DEF Occupants
  <1>2. used_bytes[l] \in Int /\ materializations \in [Values -> SUBSET Locations]
    BY DEF TypeOK, PlacementTyped
  <1>3. IsFiniteSet(D) /\ used_bytes[l] = Total(Size, D)
    BY DEF UsedExact
  <1>4. CASE l \in S /\ l \notin materializations[v]
    <2>1. E = D \cup {v} /\ E \ {v} = D /\ v \in E
      BY <1>2, <1>4 DEF Occupants
    <2> HIDE DEF D, E
    <2>2. IsFiniteSet(E) /\ \A x \in E : Size[x] \in Int
      BY <1>1, <1>3, <2>1, FS_AddElement
    <2>3. Total(Size, E) = Size[v] + Total(Size, E \ {v})
      BY <2>1, <2>2, TotalWithout
    <2>4. Total(Size, E) = Size[v] + Total(Size, D)
      BY <2>1, <2>3
    <2> QED BY <1>1, <1>2, <1>3, <1>4, <2>2, <2>4 DEF UsedExact, E
  <1>5. CASE l \notin S /\ l \in materializations[v]
    <2>1. E = D \ {v} /\ v \in D
      BY <1>2, <1>5 DEF Occupants
    <2> HIDE DEF D, E
    <2>2. IsFiniteSet(D \ {v}) /\ Total(Size, D \ {v}) = Total(Size, D) - Size[v]
      <3>1. Summable(Size, D) /\ Alike(Size, Size, D \ {v})
        BY <1>1, <1>3 DEF Summable, Alike
      <3> QED BY <2>1, <3>1, TotalRemove
    <2>3. IsFiniteSet(E) /\ Total(Size, E) = Total(Size, D) - Size[v]
      BY <2>1, <2>2
    <2> QED BY <1>1, <1>2, <1>3, <1>5, <2>3 DEF UsedExact, E
  <1>6. CASE l \in S <=> l \in materializations[v]
    <2>1. E = D
      BY <1>2, <1>6 DEF Occupants
    <2>2. used_bytes'[l] = used_bytes[l]
      BY <1>1, <1>2, <1>6
    <2> HIDE DEF D, E
    <2> QED BY <1>3, <2>1, <2>2 DEF UsedExact, E
  <1> QED BY <1>4, <1>5, <1>6

LEMMA UsedUnchanged ==
    ASSUME NEW l, UsedExact(l), UNCHANGED <<materializations, used_bytes>>
    PROVE  UsedExact(l)'
  BY DEF UsedExact, Occupants

\* The same of the reserved bytes, when one reservation is made or given back.
LEMMA ReservedOfOne ==
    ASSUME TypeOK, NEW r \in Reservations, NEW q \in ReservationRecord, NEW l \in Locations,
           ReservedExact(l),
           reservations[r].location = NoLocation \/ q.location = NoLocation,
           reservations' = [reservations EXCEPT ![r] = q],
           Loading(l)' = Loading(l),
           reserved_bytes'[l] = reserved_bytes[l] + (IF l = q.location THEN q.nbytes ELSE 0)
                       - (IF l = reservations[r].location THEN reservations[r].nbytes ELSE 0)
    PROVE  ReservedExact(l)'
  <1> DEFINE D == Reserved(l)
             E == Reserved(l)'
             w == ReservedSize
             u == ReservedSize'
  <1>1. reservations \in [Reservations -> ReservationRecord]
        /\ reservations' \in [Reservations -> ReservationRecord]
    BY DEF TypeOK, HeadroomTyped
  <1>2. \A x \in Reservations : w[x] \in Int /\ u[x] \in Int /\ (x # r => u[x] = w[x])
    BY <1>1 DEF ReservedSize, ReservationRecord
  <1>3. w[r] = reservations[r].nbytes /\ u[r] = q.nbytes
    BY <1>1 DEF ReservedSize
  <1>4. IsFiniteSet(D) /\ reserved_bytes[l] = Total(w, D) + Loading(l)
    BY DEF ReservedExact
  <1>5. D \subseteq Reservations /\ l # NoLocation
    BY NoneAssumption DEF Reserved
  <1>6. reserved_bytes[l] \in Int /\ Loading(l) \in Int
    BY SpecAssumption DEF TypeOK, HeadroomTyped, Loading, CallbackActive, ControlTyped, Operation, Load
  <1>7. Total(w, D) \in Int
    BY <1>2, <1>4, <1>5, TotalStep
  <1> HIDE DEF w, u
  <1>8. CASE l = q.location
    <2>1. E = D \cup {r} /\ r \notin D
      BY <1>1, <1>5, <1>8 DEF Reserved
    <2> HIDE DEF D, E
    <2>2. IsFiniteSet(D \cup {r}) /\ Total(u, D \cup {r}) = Total(w, D) + u[r]
      <3>1. Summable(w, D) /\ Alike(u, w, D) /\ u[r] \in Int
        BY <1>2, <1>4, <1>5, <2>1 DEF Summable, Alike
      <3> QED BY <2>1, <3>1, TotalInsert
    <2>3. IsFiniteSet(E) /\ Total(u, E) = Total(w, D) + u[r]
      BY <2>1, <2>2
    <2>4. reserved_bytes'[l] = reserved_bytes[l] + u[r]
      BY <1>1, <1>2, <1>3, <1>5, <1>6, <1>8
    <2>5. reserved_bytes'[l] = Total(u, E) + Loading(l)'
      BY <1>2, <1>4, <1>6, <1>7, <2>3, <2>4
    <2> QED BY <2>3, <2>5 DEF ReservedExact, E, u
  <1>9. CASE l = reservations[r].location
    <2>1. E = D \ {r} /\ r \in D
      BY <1>1, <1>5, <1>9 DEF Reserved
    <2> HIDE DEF D, E
    <2>2. IsFiniteSet(D \ {r}) /\ Total(u, D \ {r}) = Total(w, D) - w[r]
      <3>1. Summable(w, D) /\ Alike(u, w, D \ {r})
        BY <1>2, <1>4, <1>5 DEF Summable, Alike
      <3> QED BY <2>1, <3>1, TotalRemove
    <2>3. IsFiniteSet(E) /\ Total(u, E) = Total(w, D) - w[r]
      BY <2>1, <2>2
    <2>4. reserved_bytes'[l] = reserved_bytes[l] - w[r]
      BY <1>1, <1>2, <1>3, <1>5, <1>6, <1>9
    <2>5. reserved_bytes'[l] = Total(u, E) + Loading(l)'
      BY <1>2, <1>4, <1>6, <1>7, <2>3, <2>4
    <2> QED BY <2>3, <2>5 DEF ReservedExact, E, u
  <1>10. CASE l # q.location /\ l # reservations[r].location
    <2>1. E = D /\ r \notin D
      BY <1>1, <1>10 DEF Reserved
    <2>2. reserved_bytes'[l] = reserved_bytes[l]
      BY <1>6, <1>10
    <2> HIDE DEF D, E
    <2>3. Total(u, D) = Total(w, D)
      BY <1>2, <1>4, <1>5, <2>1, TotalSame
    <2>4. Total(u, E) = Total(w, D)
      BY <2>1, <2>3
    <2> QED BY <1>4, <2>1, <2>2, <2>4 DEF ReservedExact, E, u
  <1> QED BY <1>8, <1>9, <1>10

LEMMA ReservedUnchanged ==
    ASSUME NEW l, ReservedExact(l), UNCHANGED headroom, Loading(l)' = Loading(l)
    PROVE  ReservedExact(l)'
  BY DEF ReservedExact, Reserved, ReservedSize, headroom
LEMMA LoadingUnchanged ==
    ASSUME NEW l, op'.load = op.load
    PROVE  Loading(l)' = Loading(l)
  BY DEF Loading, CallbackActive

LEMMA NothingLoading ==
    ASSUME NEW l, ~CallbackActive
    PROVE  Loading(l) = 0
  BY DEF Loading

\* A step that leaves the bytes and what they count alone.
LEMMA QuietBytes ==
    ASSUME BytesExact, UNCHANGED <<materializations, used_bytes>>, UNCHANGED headroom,
           op'.load = op.load
    PROVE  BytesExact'
  <1> SUFFICES ASSUME NEW l \in Locations PROVE UsedExact(l)' /\ ReservedExact(l)'
    BY DEF BytesExact
  <1> QED BY UsedUnchanged, ReservedUnchanged, LoadingUnchanged DEF BytesExact

\* _install_locked and _remove_materialization_locked.
LEMMA InstallBytes ==
    ASSUME TypeOK, NEW v \in Values, NEW m \in Locations, Install(v, m),
           m \notin materializations[v],
           NEW l \in Locations, UsedExact(l)
    PROVE  UsedExact(l)'
  <1> DEFINE S == materializations[v] \cup {m}
  <1>1. S \in SUBSET Locations /\ materializations' = [materializations EXCEPT ![v] = S]
    BY DEF Install, TypeOK, PlacementTyped
  <1>2. used_bytes[l] \in Int /\ Size[v] \in Int
    BY SpecAssumption DEF TypeOK, PlacementTyped
  <1>3. used_bytes'[l] = used_bytes[l] + (IF l = m THEN Size[v] ELSE 0)
    BY <1>2 DEF Install, Charge, TypeOK, PlacementTyped
  <1>4. used_bytes'[l] = used_bytes[l] + (IF l \in S THEN Size[v] ELSE 0)
                            - (IF l \in materializations[v] THEN Size[v] ELSE 0)
    BY <1>2, <1>3
  <1> HIDE DEF S
  <1> QED BY <1>1, <1>4, UsedOfOne

LEMMA RemoveBytes ==
    ASSUME TypeOK, NEW v \in Values, NEW m \in Locations, Uninstall(v, m),
           m \in materializations[v],
           NEW l \in Locations, UsedExact(l)
    PROVE  UsedExact(l)'
  <1> DEFINE S == materializations[v] \ {m}
  <1>1. S \in SUBSET Locations /\ materializations' = [materializations EXCEPT ![v] = S]
    BY DEF Uninstall, TypeOK, PlacementTyped
  <1>2. used_bytes[l] \in Int /\ Size[v] \in Int
    BY SpecAssumption DEF TypeOK, PlacementTyped
  <1>3. used_bytes'[l] = used_bytes[l] - (IF l = m THEN Size[v] ELSE 0)
    BY <1>2 DEF Uninstall, Uncharge, TypeOK, PlacementTyped
  <1>4. used_bytes'[l] = used_bytes[l] + (IF l \in S THEN Size[v] ELSE 0)
                            - (IF l \in materializations[v] THEN Size[v] ELSE 0)
    BY <1>2, <1>3
  <1> HIDE DEF S
  <1> QED BY <1>1, <1>4, UsedOfOne

\* The transitions that change replicas find what they take away and do not
\* find what they bring.
LEMMA TransitionBytes ==
    ASSUME TypeOK, BytesExact,
           StepNoOp \/ StepReplicate \/ StepMove \/ StepCollapse \/ StepDrop \/ StepDiscard
    PROVE  BytesExact'
  <1> DEFINE v == Request.handle
  <1>1. v \in Values /\ Request \in ResidencyAction /\ op'.load = op.load
    BY HeadRequestTyped, RequestTyped DEF StepNoOp, StepReplicate, StepMove, StepCollapse, StepDrop,
       StepDiscard, Succeed, Ready, NextRequest, TypeOK, ControlTyped, Operation
  <1>2. materializations \in [Values -> SUBSET Locations] /\ Resident \in SUBSET Locations
        /\ Resident = materializations[v]
    BY <1>1 DEF TypeOK, PlacementTyped, Resident
  <1>3. CASE StepNoOp
    BY <1>1, <1>3, QuietBytes DEF StepNoOp, placement
  <1> SUFFICES ASSUME NEW l \in Locations, UNCHANGED headroom
               PROVE  UsedExact(l)'
    BY <1>1, <1>3, ReservedUnchanged, LoadingUnchanged DEF BytesExact, StepReplicate, StepMove,
       StepCollapse, StepDrop, StepDiscard
  <1>4. UsedExact(l) /\ used_bytes[l] \in Int /\ Size[v] \in Int
        /\ used_bytes \in [Locations -> Int]
    BY <1>1, SpecAssumption DEF BytesExact, TypeOK, PlacementTyped
  <1>5. CASE StepReplicate
    <2>1. Request.to \in Locations /\ Request.to \notin materializations[v]
      BY <1>1, <1>2, <1>5, RequestTyped DEF StepReplicate, Succeed, CanReplicate
    <2> QED BY <1>1, <1>4, <1>5, <2>1, InstallBytes DEF StepReplicate
  <1>6. CASE StepMove
    <2>1. /\ Request.to \in Locations /\ Request.to \notin materializations[v]
          /\ Source \in materializations[v] /\ Source \in Locations
      BY <1>1, <1>2, <1>6, RequestTyped DEF StepMove, Succeed, CanMove
    <2> DEFINE S == (materializations[v] \cup {Request.to}) \ {Source}
    <2>2. S \in SUBSET Locations /\ materializations' = [materializations EXCEPT ![v] = S]
      BY <1>2, <1>6, <2>1 DEF StepMove
    <2>3. used_bytes'[l] = used_bytes[l] + (IF l = Request.to THEN Size[v] ELSE 0)
                              - (IF l = Source THEN Size[v] ELSE 0)
      BY <1>4, <1>6, <2>1 DEF StepMove, Charge, Uncharge, Nbytes
    <2>4. used_bytes'[l] = used_bytes[l] + (IF l \in S THEN Size[v] ELSE 0)
                              - (IF l \in materializations[v] THEN Size[v] ELSE 0)
      BY <1>4, <2>1, <2>3
    <2> HIDE DEF S, v
    <2> QED BY <1>1, <1>4, <2>2, <2>4, UsedOfOne
  <1>7. CASE StepCollapse
    <2>1. Source \in Locations /\ Source \in materializations[v]
      BY <1>2, <1>7 DEF StepCollapse, Succeed, CanCollapse
    <2> QED BY <1>1, <1>4, <1>7, <2>1, RemoveBytes DEF StepCollapse
  <1>8. CASE StepDrop
    <2>1. Request.to \in Locations /\ Request.to \in materializations[v]
      BY <1>2, <1>8 DEF StepDrop, Succeed, CanDrop
    <2> QED BY <1>1, <1>4, <1>8, <2>1, RemoveBytes DEF StepDrop
  <1>9. CASE StepDiscard
    <2>1. materializations' = [materializations EXCEPT ![v] = {}] /\ {} \in SUBSET Locations
      BY <1>9 DEF StepDiscard
    <2>2. used_bytes'[l] = used_bytes[l] + (IF l \in {} THEN Size[v] ELSE 0)
                              - (IF l \in materializations[v] THEN Size[v] ELSE 0)
      BY <1>2, <1>4, <1>9 DEF StepDiscard, Nbytes
    <2> HIDE DEF v
    <2> QED BY <1>1, <1>4, <2>1, <2>2, UsedOfOne
  <1> QED BY <1>3, <1>5, <1>6, <1>7, <1>8, <1>9 DEF BytesExact

LEMMA ReservedTotal ==
    ASSUME TypeOK, NEW l, ReservedExact(l)
    PROVE  Total(ReservedSize, Reserved(l)) \in Int
  <1>1. \A r \in Reserved(l) : ReservedSize[r] \in Int
    BY DEF Reserved, ReservedSize, TypeOK, HeadroomTyped, ReservationRecord
  <1> QED BY <1>1, TotalStep DEF ReservedExact

\* The temporary charge of a load comes and goes with the load.
LEMMA LoadBytes ==
    ASSUME PlacementInv, BytesExact, StartLoad \/ FinishLoad \/ LoadFails \/ StepFails
    PROVE  BytesExact'
  <1> SUFFICES ASSUME NEW l \in Locations PROVE UsedExact(l)' /\ ReservedExact(l)'
    BY DEF BytesExact
  <1>0. TypeOK /\ reserved_bytes[l] \in Int /\ UsedExact(l) /\ ReservedExact(l)
        /\ reserved_bytes \in [Locations -> Int]
    BY DEF PlacementInv, TypeOK, HeadroomTyped, BytesExact
  <1>1. CASE StartLoad
    <2> DEFINE v == Request.handle
    <2>1. op'.load = [handle |-> v, to |-> Request.to] /\ ~CallbackActive
      BY <1>0, <1>1 DEF StartLoad, Succeed, Ready, TypeOK, ControlTyped, Operation
    <2>2. v \in Values /\ Size[v] \in Nat /\ SourceAt[v] \in Locations
      BY <1>0, <1>1, HeadRequestTyped, RequestTyped, SpecAssumption DEF StartLoad, Succeed, Ready,
         NeedsLoad, Reconstructible
    <2>3. CallbackActive' /\ op'.load.handle = v
      BY <2>1, <2>2, <1>1, <1>0, HeadRequestTyped, RequestTyped, NoneAssumption
         DEF CallbackActive, NoLoad, StartLoad, Succeed, NeedsLoad, Ready
    <2>4. Loading(l)' = IF SourceAt[v] = l THEN Size[v] ELSE 0
      BY <2>3 DEF Loading
    <2>5. Loading(l) = 0
      BY <2>1, NothingLoading
    <2>6. reserved_bytes'[l] = reserved_bytes[l] + Loading(l)'
      BY <1>0, <1>1, <2>2, <2>4 DEF StartLoad, Charge, Nbytes
    <2>7. reserved_bytes[l] = Total(ReservedSize, Reserved(l))
      BY <1>0, <2>5, ReservedTotal DEF ReservedExact
    <2>8. UNCHANGED <<reservations, materializations, used_bytes>>
      BY <1>1 DEF StartLoad, placement
    <2> QED BY <1>0, <2>6, <2>7, <2>8, UsedUnchanged DEF ReservedExact, Reserved, ReservedSize
  <1>2. ASSUME EndLoad, ~CallbackActive' PROVE ReservedExact(l)'
    <2> DEFINE v == op.load.handle
    <2>1. op.load \in Load /\ v \in Values /\ Size[v] \in Nat
          /\ SourceAt[v] \in Locations
      BY <1>0, <1>2, SpecAssumption DEF EndLoad, CallbackActive, TypeOK, ControlTyped, Operation, Load,
         PlacementInv, LoadConsistent, Reconstructible
    <2>2. Loading(l) = IF SourceAt[v] = l THEN Size[v] ELSE 0
      BY <1>2 DEF EndLoad, Loading
    <2>3. reserved_bytes'[l] = reserved_bytes[l] - Loading(l)
      BY <1>0, <1>2, <2>1, <2>2 DEF EndLoad, Uncharge
    <2>4. Loading(l)' = 0
      BY <1>2 DEF Loading
    <2>5. UNCHANGED reservations
      BY <1>2 DEF EndLoad
    <2>6. /\ Total(ReservedSize, Reserved(l)) \in Int
          /\ Loading(l) \in Int
      BY <1>0, <2>1, <2>2, ReservedTotal
    <2>7. reserved_bytes'[l] = Total(ReservedSize, Reserved(l))
      BY <1>0, <2>3, <2>6 DEF ReservedExact
    <2>8. ReservedSize' = ReservedSize /\ Reserved(l)' = Reserved(l)
      BY <2>5 DEF Reserved, ReservedSize
    <2>9. Total(ReservedSize, Reserved(l))' = Total(ReservedSize, Reserved(l))
      BY <2>8
    <2> QED BY <1>0, <2>4, <2>6, <2>7, <2>8, <2>9 DEF ReservedExact
  <1>3. CASE FinishLoad
    <2>1. /\ op.load.handle \in Values /\ op.load.to \in Locations
          /\ op.load.to \notin materializations[op.load.handle]
      BY <1>0, <1>3 DEF FinishLoad, EndLoad, CallbackActive, TypeOK, ControlTyped, Operation, Load,
         PlacementInv, LoadConsistent
    <2>2. ~CallbackActive'
      BY <1>0, <1>3 DEF FinishLoad, CallbackActive, TypeOK, ControlTyped, Operation
    <2> QED BY <1>0, <1>2, <1>3, <2>1, <2>2, InstallBytes DEF FinishLoad
  <1>4. CASE LoadFails
    <2>1. ~CallbackActive'
      BY <1>0, <1>4 DEF LoadFails, Fail, Idle, CallbackActive, TypeOK, ControlTyped, Operation
    <2> QED BY <1>0, <1>2, <1>4, <2>1, UsedUnchanged DEF LoadFails
  <1>5. CASE StepFails
    <2>1. op'.load = op.load
      BY <1>0, <1>5 DEF StepFails, Ready, Fail, Idle, CallbackActive, TypeOK, ControlTyped, Operation
    <2> QED BY <1>0, <1>5, <2>1, UsedUnchanged, ReservedUnchanged, LoadingUnchanged DEF StepFails, placement
  <1> QED BY <1>1, <1>3, <1>4, <1>5

LEMMA RegisterBytes ==
    ASSUME PlacementInv, BytesExact, Register
    PROVE  BytesExact'
  <1>0. TypeOK /\ op' = op
    BY DEF PlacementInv, Register, RegisterSource, Adopt, holder
  <1>1. ASSUME NEW v \in Values, RegisterSource(v) PROVE BytesExact'
    BY <1>0, <1>1, QuietBytes DEF RegisterSource
  <1>2. ASSUME NEW v \in Values, NEW m \in Locations, Adopt(v, m) PROVE BytesExact'
    <2>1. m \notin materializations[v]
      BY <1>2 DEF Adopt, PlacementInv, NeverLost
    <2>2. ASSUME NEW l \in Locations PROVE UsedExact(l)' /\ ReservedExact(l)'
      BY <1>0, <1>2, <2>1, InstallBytes, ReservedUnchanged, LoadingUnchanged DEF Adopt, BytesExact
    <2> QED BY <2>2 DEF BytesExact
  <1> QED BY <1>1, <1>2 DEF Register

LEMMA ReserveBytesExact ==
    ASSUME TypeOK, BytesExact, NEW r \in Reservations, NEW m \in Locations, NEW n \in Nat,
           NEW owner \in Scopes \cup {NoScope}, Reserve(r, m, n, owner), op'.load = op.load
    PROVE  BytesExact'
  <1> DEFINE q == [location |-> m, nbytes |-> n, owner |-> owner]
  <1>1. q \in ReservationRecord /\ q.location = m /\ q.nbytes = n
    BY DEF ReservationRecord, Place
  <1>2. reservations' = [reservations EXCEPT ![r] = q] /\ reservations[r].location = NoLocation
    BY DEF Reserve, NoReservation
  <1> HIDE DEF q
  <1>3. ASSUME NEW l \in Locations PROVE UsedExact(l)' /\ ReservedExact(l)'
    <2>1. reserved_bytes'[l] = reserved_bytes[l] + (IF l = q.location THEN q.nbytes ELSE 0)
                     - (IF l = reservations[r].location THEN reservations[r].nbytes ELSE 0)
      BY <1>1, <1>2, NoneAssumption DEF Reserve, Charge, TypeOK, HeadroomTyped
    <2>2. UNCHANGED <<materializations, used_bytes>>
      BY DEF Reserve
    <2>3. UsedExact(l) /\ ReservedExact(l) /\ Loading(l)' = Loading(l)
      BY LoadingUnchanged DEF BytesExact
    <2> QED BY <1>1, <1>2, <2>1, <2>2, <2>3, ReservedOfOne, UsedUnchanged
  <1> QED BY <1>3 DEF BytesExact

LEMMA ReleaseBytesExact ==
    ASSUME TypeOK, BytesExact, NEW r \in Reservations, reservations[r].location # NoLocation,
           ReleaseHeadroom(r), op'.load = op.load
    PROVE  BytesExact'
  <1> DEFINE q == NoReservation
  <1>1. q \in ReservationRecord /\ q.location = NoLocation /\ q.nbytes = 0
    BY DEF ReservationRecord, Place, NoReservation
  <1>2. reservations' = [reservations EXCEPT ![r] = q]
    BY DEF ReleaseHeadroom
  <1> HIDE DEF q
  <1>3. ASSUME NEW l \in Locations PROVE UsedExact(l)' /\ ReservedExact(l)'
    <2>1. reserved_bytes'[l] = reserved_bytes[l] + (IF l = q.location THEN q.nbytes ELSE 0)
                     - (IF l = reservations[r].location THEN reservations[r].nbytes ELSE 0)
      BY <1>1, NoneAssumption DEF ReleaseHeadroom, Uncharge, TypeOK, HeadroomTyped, ReservationRecord
    <2> QED BY <1>1, <1>2, <2>1, ReservedOfOne, LoadingUnchanged, UsedUnchanged
            DEF ReleaseHeadroom, BytesExact, placement
  <1> QED BY <1>3 DEF BytesExact

\* A forced close clears the table and the counters together.
NothingThere ==
    /\ \A v \in Values : materializations[v] = {}
    /\ \A r \in Reservations : reservations[r] = NoReservation
    /\ used_bytes = NoBytes /\ reserved_bytes = NoBytes
    /\ ~CallbackActive

LEMMA EmptyBytes == NothingThere => BytesExact
  <1> SUFFICES ASSUME NothingThere, NEW l \in Locations PROVE UsedExact(l) /\ ReservedExact(l)
    BY DEF BytesExact
  <1>1. Occupants(l) = {} /\ Reserved(l) = {}
    BY NoneAssumption DEF NothingThere, Occupants, Reserved, NoReservation
  <1>2. IsFiniteSet({}) /\ (\A w : Total(w, {}) = 0)
    <2>1. IsFiniteSet({})
      BY FS_EmptySet
    <2> QED BY <2>1, TotalStep
  <1>3. Loading(l) = 0 /\ used_bytes[l] = 0 /\ reserved_bytes[l] = 0
    BY NothingLoading DEF NothingThere, NoBytes
  <1> QED BY <1>1, <1>2, <1>3 DEF UsedExact, ReservedExact

LEMMA BytesStep ==
    ASSUME PlacementInv, BytesExact, [Next]_vars
    PROVE  BytesExact'
  <1>0. TypeOK /\ ControlConsistent
    BY DEF PlacementInv
  <1>1. ASSUME UNCHANGED <<materializations, used_bytes>>, UNCHANGED headroom, op'.load = op.load
        PROVE  BytesExact'
    BY <1>1, QuietBytes
  <1>2. CASE HolderStep
    <2>1. CASE \/ StepNoOp \/ StepReplicate \/ StepMove \/ StepCollapse \/ StepDrop \/ StepDiscard
      BY <1>0, <2>1, TransitionBytes
    <2>2. CASE StartLoad \/ FinishLoad \/ LoadFails \/ StepFails
      BY <2>2, LoadBytes
    <2>3. CASE EndOperation \/ ReclaimDone \/ ReserveDone \/ EnterDone \/ ExitDone \/ ReleaseDone
      <3>1. UNCHANGED <<materializations, used_bytes>> /\ UNCHANGED headroom
        BY <2>3 DEF EndOperation, ReclaimDone, ReserveDone, EnterDone, ExitDone, ReleaseDone,
           Advance, placement
      <3>2. op'.load = op.load
        <4>1. op.todo = <<>> /\ op.load = NoLoad
          BY <1>0, <2>3 DEF ControlConsistent, CallbackActive, EndOperation, ReclaimDone, ReserveDone,
             EnterDone, ExitDone, ReleaseDone, Advance
        <4>2. CASE EndOperation \/ EnterDone \/ ReleaseDone
          BY <4>1, <4>2 DEF EndOperation, EnterDone, ReleaseDone, Idle
        <4>3. CASE ReclaimDone \/ ReserveDone \/ ExitDone
          BY <1>0, <4>3 DEF ReclaimDone, ReserveDone, ExitDone, TypeOK, ControlTyped, Operation
        <4> QED BY <2>3, <4>2, <4>3
      <3> QED BY <1>1, <3>1, <3>2
    <2>4. ASSUME NEW r \in Reservations, ReserveNext(r) PROVE BytesExact'
      <3> DEFINE q == Head(op.reserve)
      <3>1. q \in MemoryReservation /\ op.scope \in Scopes \cup {NoScope} /\ op'.load = op.load
        BY <1>0, <2>4 DEF ReserveNext, TypeOK, ControlTyped, Operation
      <3>2. q.location \in Locations /\ q.nbytes \in Nat
        BY <3>1 DEF MemoryReservation
      <3> QED BY <1>0, <2>4, <3>1, <3>2, ReserveBytesExact DEF ReserveNext
    <2>5. ASSUME NEW r \in Reservations, ReleaseNext(r) PROVE BytesExact'
      BY <1>0, <2>5, ReleaseBytesExact DEF ReleaseNext, Owned, holder
    <2> QED BY <1>2, <2>1, <2>2, <2>3, <2>4, <2>5 DEF HolderStep
  <1>3. CASE Register
    BY <1>3, RegisterBytes
  <1>4. CASE Operate
    BY <1>1, <1>4 DEF Operate, Run, ExecuteActions, Begin, Open, LockFree, Idle, placement
  <1>5. CASE UseScope
    <2>1. UNCHANGED <<materializations, used_bytes>> /\ UNCHANGED headroom
      BY <1>5 DEF UseScope, NewScope, EnterScope, RefuseScope, ExitScope, RejectScope, AbandonScope,
         Begin, placement
    <2>2. op'.load = op.load
      BY <1>5 DEF UseScope, NewScope, EnterScope, RefuseScope, ExitScope, RejectScope, AbandonScope,
         Begin, Open, LockFree, Idle, holder
    <2> QED BY <1>1, <2>1, <2>2
  <1>6. CASE UseLease \/ UseHold
    BY <1>1, <1>6 DEF UseLease, Acquire, LaunchRead, ReadsFinish, ReleaseNow, ReleaseLater, Releasing,
       UseHold, Hold, ReleaseHold, placement, holder
  <1>7. CASE UseReservation
    <2>1. ASSUME NEW r \in Reservations, NEW l \in Locations, NEW n \in ReserveSizes,
                 ReserveBytes(r, l, n)
          PROVE  BytesExact'
      BY <1>0, <2>1, TokenAssumption, ReserveBytesExact DEF ReserveBytes, holder
    <2>2. ASSUME NEW r \in Reservations, ReleaseReservation(r) \/ ReleaseAbandoned(r)
          PROVE  BytesExact'
      BY <1>0, <2>2, ReleaseBytesExact DEF ReleaseReservation, ReleaseAbandoned, Owned, holder
    <2> QED BY <1>7, <2>1, <2>2 DEF UseReservation
  <1>8. CASE Poll \/ (\E x \in Leases \cup Holds \cup Reservations : Orphan(x)) \/ UNCHANGED vars
    BY <1>1, <1>8 DEF Poll, Orphan, vars, placement, headroom, holder
  <1>9. ASSUME NEW force \in BOOLEAN, Close(force) PROVE BytesExact'
    <2>1. NothingThere'
      BY <1>9 DEF Close, Open, LockFree, Idle, CallbackActive, holder, NothingThere
    <2> QED BY <2>1, EmptyBytes, PTL
  <1> QED BY <1>2, <1>3, <1>4, <1>5, <1>6, <1>7, <1>8, <1>9 DEF Next

LEMMA BytesInvariance == Spec => []BytesExact
  <1>1. Init => BytesExact
    <2> SUFFICES ASSUME Init PROVE BytesExact
      OBVIOUS
    <2>1. NothingThere
      BY DEF Init, Idle, CallbackActive, NothingThere
    <2> QED BY <2>1, EmptyBytes
  <1>2. PlacementInv /\ BytesExact /\ [Next]_vars => BytesExact'
    BY BytesStep
  <1> QED BY <1>1, <1>2, PlacementInvariance, PTL DEF Spec

\* After every transition, load, failure, reservation and close, the counters
\* that the budget checks and the snapshots read are the sums of what is
\* resident, reserved and being loaded.
THEOREM BytesAreExact == Spec => []AccountingExact
  <1>1. BytesExact => AccountingExact
    BY DEF BytesExact, UsedExact, ReservedExact, AccountingExact
  <1> QED BY <1>1, BytesInvariance, PTL

-----------------------------------------------------------------------------
(* The dry run as one fold.  A scope plan is one list of steps, requests   *)
(* and reservations; Do simulates one step in a world, the pair of the     *)
(* known handles and the protected pairs.                                  *)

Do(world, sim, step) ==
    IF step \in MemoryReservation THEN AdmitReservation(sim, step)
    ELSE SimulateAction(sim, step, world[1], world[2])

Last(s) == Ext!Max(s)

DoLast(f, world, sim, q, s) ==
    IF s = {} THEN sim ELSE Do(world, f[s \ {Last(s)}], q[Last(s)])

Folds(f, world, sim, q) == f = [s \in SUBSET (DOMAIN q) |-> DoLast(f, world, sim, q, s)]

Fold(world, sim, q) == (CHOOSE f : Folds(f, world, sim, q))[DOMAIN q]

LEMMA LastIsGreatest ==
    ASSUME NEW n \in Nat, NEW s \in SUBSET (1..n), s # {}
    PROVE  Last(s) \in s /\ \A m \in s : m <= Last(s)
<1> DEFINE T == {n - m : m \in s}
<1>0. \A m \in s : m \in Nat /\ n - m \in Nat
  OBVIOUS
<1>1. T \in SUBSET Nat /\ T # {}
  BY <1>0
<1> HIDE DEF T
<1>2. PICK k \in T : \A m \in T : k <= m
  BY <1>1, LeastNatural
<1> USE DEF T
<1>3. PICK m \in s : k = n - m
  BY <1>2
<1>4. \A i \in s : i <= m
  <2> SUFFICES ASSUME NEW i \in s PROVE i <= m
    OBVIOUS
  <2>1. n - i \in T
    OBVIOUS
  <2>2. n - m <= n - i
    BY <1>2, <1>3, <2>1
  <2> QED
    BY <1>0, <2>2
<1>5. \E x \in s : \A y \in s : x >= y
  BY <1>0, <1>4
<1> QED
  BY <1>0, <1>5 DEF Last, Ext!Max

LEMMA FoldExists ==
    ASSUME NEW world, NEW sim, NEW q, NEW n \in Nat, DOMAIN q = 1..n
    PROVE  \E f : Folds(f, world, sim, q)
<1> DEFINE Upto(k) == \E f : /\ f = [s \in SUBSET (1..n) |-> f[s]]
                             /\ \A s \in SUBSET (1..n) :
                                  s \subseteq 1..k => f[s] = DoLast(f, world, sim, q, s)
           S == {k \in Nat : Upto(k)}
<1>1. 0 \in S
  <2> DEFINE f == [s \in SUBSET (1..n) |-> sim]
  <2>1. \A s \in SUBSET (1..n) : s \subseteq 1..0 => f[s] = DoLast(f, world, sim, q, s)
    BY DEF DoLast
  <2>2. f = [s \in SUBSET (1..n) |-> f[s]]
    OBVIOUS
  <2> HIDE DEF f
  <2> QED
    BY <2>1, <2>2
<1>2. ASSUME NEW k \in Nat, k \in S PROVE k + 1 \in S
  <2>1. PICK f : /\ f = [s \in SUBSET (1..n) |-> f[s]]
                 /\ \A s \in SUBSET (1..n) :
                      s \subseteq 1..k => f[s] = DoLast(f, world, sim, q, s)
    BY <1>2
  <2> DEFINE g == [s \in SUBSET (1..n) |-> DoLast(f, world, sim, q, s)]
  <2>2. \A s \in SUBSET (1..n) : s \subseteq 1..k => g[s] = f[s]
    BY <2>1
  <2>3. ASSUME NEW s \in SUBSET (1..n), s \subseteq 1..(k + 1)
        PROVE  g[s] = DoLast(g, world, sim, q, s)
    <3>1. CASE s = {}
      BY <3>1 DEF DoLast
    <3>2. CASE s # {}
      <4>1. Last(s) \in s /\ \A m \in s : m <= Last(s)
        BY <3>2, LastIsGreatest
      <4>2. s \ {Last(s)} \in SUBSET (1..n) /\ s \ {Last(s)} \subseteq 1..k
        <5>1. Last(s) \in 1..(k + 1)
          BY <2>3, <4>1
        <5>2. \A m \in s : m \in 1..(k + 1) /\ (m # Last(s) => m \in 1..k)
          BY <2>3, <4>1, <5>1
        <5> QED
          BY <5>2
      <4>3. g[s \ {Last(s)}] = f[s \ {Last(s)}]
        BY <2>2, <4>2
      <4> HIDE DEF g
      <4>4. DoLast(g, world, sim, q, s) = DoLast(f, world, sim, q, s)
        BY <4>3 DEF DoLast
      <4> QED
        BY <4>4 DEF g
    <3> QED
      BY <3>1, <3>2
  <2>4. g = [s \in SUBSET (1..n) |-> g[s]]
    OBVIOUS
  <2> HIDE DEF g
  <2>5. Upto(k + 1)
    BY <2>3, <2>4
  <2> HIDE DEF Upto
  <2> QED
    BY <2>5
<1>3. n \in S
  <2> HIDE DEF S
  <2> QED
    BY <1>1, <1>2, InductionOnNat
<1>4. PICK f : /\ f = [s \in SUBSET (1..n) |-> f[s]]
               /\ \A s \in SUBSET (1..n) :
                    s \subseteq 1..n => f[s] = DoLast(f, world, sim, q, s)
  BY <1>3
<1>5. f = [s \in SUBSET (1..n) |-> DoLast(f, world, sim, q, s)]
  BY <1>4
<1> QED
  BY <1>5 DEF Folds

\* What has been simulated after the first k steps.
LEMMA PrefixStep ==
    ASSUME NEW world, NEW sim, NEW q, NEW n \in Nat, DOMAIN q = 1..n,
           NEW f, Folds(f, world, sim, q)
    PROVE  /\ f[1..0] = sim
           /\ \A k \in Nat : k + 1 <= n => f[1..(k + 1)] = Do(world, f[1..k], q[k + 1])
<1>1. \A s \in SUBSET (DOMAIN q) : f[s] = DoLast(f, world, sim, q, s)
  BY DEF Folds
<1>2. f[1..0] = sim
  <2>1. 1..0 = {} /\ 1..0 \in SUBSET (DOMAIN q)
    OBVIOUS
  <2> QED
    BY <1>1, <2>1 DEF DoLast
<1>3. ASSUME NEW k \in Nat, k + 1 <= n PROVE f[1..(k + 1)] = Do(world, f[1..k], q[k + 1])
  <2> DEFINE s == 1..(k + 1)
  <2>1. k + 1 \in s /\ s \in SUBSET (1..n) /\ s \ {k + 1} = 1..k
    BY <1>3
  <2>2. \A m \in s : m <= k + 1
    OBVIOUS
  <2> HIDE DEF s
  <2>3. Last(s) \in s /\ \A m \in s : m <= Last(s)
    BY <2>1, LastIsGreatest
  <2>4. Last(s) = k + 1
    BY <2>1, <2>2, <2>3
  <2>5. f[s] = Do(world, f[s \ {k + 1}], q[k + 1])
    BY <1>1, <2>1, <2>4 DEF DoLast
  <2> QED
    BY <2>1, <2>5 DEF s
<1> QED
  BY <1>2, <1>3

LEMMA FoldUnique ==
    ASSUME NEW world, NEW sim, NEW q, NEW n \in Nat, DOMAIN q = 1..n,
           NEW f, Folds(f, world, sim, q)
    PROVE  Fold(world, sim, q) = f[DOMAIN q]
<1> DEFINE g == CHOOSE h : Folds(h, world, sim, q)
           S == {k \in Nat : k <= n => f[1..k] = g[1..k]}
<1>1. Folds(g, world, sim, q)
  BY FoldExists
<1> HIDE DEF g
<1>2. 0 \in S
  <2>1. f[1..0] = sim /\ g[1..0] = sim
    BY <1>1, PrefixStep
  <2> QED
    BY <2>1
<1>3. ASSUME NEW k \in Nat, k \in S PROVE k + 1 \in S
  <2> SUFFICES ASSUME k + 1 <= n PROVE f[1..(k + 1)] = g[1..(k + 1)]
    OBVIOUS
  <2>1. f[1..(k + 1)] = Do(world, f[1..k], q[k + 1])
    BY PrefixStep
  <2>2. g[1..(k + 1)] = Do(world, g[1..k], q[k + 1])
    BY <1>1, PrefixStep
  <2> QED
    BY <1>3, <2>1, <2>2
<1>4. n \in S
  <2> HIDE DEF S
  <2> QED
    BY <1>2, <1>3, InductionOnNat
<1> QED
  BY <1>4 DEF Fold, g

\* Nothing to do leaves the simulation alone.
LEMMA FoldNothing ==
    ASSUME NEW world, NEW sim
    PROVE  Fold(world, sim, <<>>) = sim
<1> DEFINE n == 0
           q == <<>>
<1>1. n \in Nat /\ DOMAIN q = 1..n /\ 1..n = 1..0
  OBVIOUS
<1> HIDE DEF n, q
<1>2. PICK f : Folds(f, world, sim, q)
  BY <1>1, FoldExists
<1>3. f[1..0] = sim
  BY <1>1, <1>2, PrefixStep
<1>4. Fold(world, sim, q) = f[DOMAIN q]
  BY <1>1, <1>2, FoldUnique
<1> QED
  BY <1>1, <1>3, <1>4 DEF q

\* The first step is simulated first.
LEMMA FoldFirst ==
    ASSUME NEW world, NEW sim, NEW A, NEW q \in Seq(A), q # <<>>
    PROVE  Fold(world, sim, q) = Fold(world, Do(world, sim, Head(q)), Tail(q))
<1> DEFINE n == Len(q) - 1
           r == Tail(q)
           start == Do(world, sim, Head(q))
<1>1. n \in Nat /\ n + 1 \in Nat /\ DOMAIN q = 1..(n + 1) /\ DOMAIN r = 1..n /\ Head(q) = q[1]
      /\ (\A k \in 1..n : r[k] = q[k + 1])
  OBVIOUS
<1> HIDE DEF n, r
<1>2. PICK f : Folds(f, world, sim, q)
  BY <1>1, FoldExists
<1>3. PICK g : Folds(g, world, start, r)
  BY <1>1, FoldExists
<1> DEFINE S == {k \in Nat : k <= n => f[1..(k + 1)] = g[1..k]}
<1>4. 0 \in S
  <2>1. f[1..0] = sim /\ g[1..0] = start
    BY <1>1, <1>2, <1>3, PrefixStep
  <2> DEFINE k == 0
  <2>2. k \in Nat /\ k + 1 <= n + 1
    BY <1>1
  <2> HIDE DEF k
  <2>3. f[1..(k + 1)] = Do(world, f[1..k], q[k + 1])
    BY <1>1, <1>2, <2>2, PrefixStep
  <2> QED
    BY <1>1, <2>1, <2>3 DEF k
<1> HIDE DEF start
<1>5. ASSUME NEW k \in Nat, k \in S PROVE k + 1 \in S
  <2> SUFFICES ASSUME k + 1 <= n PROVE f[1..((k + 1) + 1)] = g[1..(k + 1)]
    OBVIOUS
  <2>1. g[1..(k + 1)] = Do(world, g[1..k], r[k + 1])
    BY <1>1, <1>3, PrefixStep
  <2>2. k + 1 \in Nat /\ (k + 1) + 1 <= n + 1
    BY <1>1
  <2>3. f[1..((k + 1) + 1)] = Do(world, f[1..(k + 1)], q[(k + 1) + 1])
    BY <1>1, <1>2, <2>2, PrefixStep
  <2>4. r[k + 1] = q[(k + 1) + 1] /\ f[1..(k + 1)] = g[1..k]
    BY <1>1, <1>5, <2>2
  <2> QED
    BY <2>1, <2>3, <2>4
<1>6. n \in S
  <2> HIDE DEF S
  <2> QED
    BY <1>1, <1>4, <1>5, InductionOnNat
<1>7. f[DOMAIN q] = g[DOMAIN r]
  BY <1>1, <1>6
<1>8. Fold(world, sim, q) = f[DOMAIN q] /\ Fold(world, start, r) = g[DOMAIN r]
  BY <1>1, <1>2, <1>3, FoldUnique
<1> QED
  BY <1>7, <1>8 DEF start, r

LEMMA ConcatHeadTail ==
    ASSUME NEW A, NEW p \in Seq(A), NEW q \in Seq(A), p # <<>>
    PROVE  /\ p \o q \in Seq(A) /\ p \o q # <<>>
           /\ Head(p \o q) = Head(p) /\ Tail(p \o q) = Tail(p) \o q
           /\ Head(p) \in A /\ Tail(p) \in Seq(A) /\ Len(p) = Len(Tail(p)) + 1
<1> DEFINE c == p \o q
           d == Tail(p) \o q
<1>1. Head(p) \in A /\ Tail(p) \in Seq(A) /\ Len(Tail(p)) = Len(p) - 1 /\ Len(p) \in Nat \ {0}
      /\ (\A i \in 1 .. Len(Tail(p)) : Tail(p)[i] = p[i + 1])
  BY HeadTailProperties, EmptySeq
<1>2. /\ c \in Seq(A) /\ Len(c) = Len(p) + Len(q) /\ Len(q) \in Nat
      /\ \A i \in 1 .. Len(p) + Len(q) : c[i] = IF i <= Len(p) THEN p[i] ELSE q[i - Len(p)]
  BY ConcatProperties
<1>3. /\ d \in Seq(A) /\ Len(d) = Len(Tail(p)) + Len(q)
      /\ \A i \in 1 .. Len(Tail(p)) + Len(q) :
            d[i] = IF i <= Len(Tail(p)) THEN Tail(p)[i] ELSE q[i - Len(Tail(p))]
  BY <1>1, ConcatProperties
<1> HIDE DEF c, d
<1>4. c # <<>>
  BY <1>1, <1>2
<1>5. /\ Tail(c) \in Seq(A) /\ Len(Tail(c)) = Len(c) - 1
      /\ \A i \in 1 .. Len(Tail(c)) : Tail(c)[i] = c[i + 1]
  BY <1>2, <1>4, HeadTailProperties
<1>6. Len(Tail(c)) = Len(d)
  BY <1>1, <1>2, <1>3, <1>5
<1>7. ASSUME NEW i \in 1 .. Len(Tail(c)) PROVE Tail(c)[i] = d[i]
  <2>1. Tail(c)[i] = IF i + 1 <= Len(p) THEN p[i + 1] ELSE q[(i + 1) - Len(p)]
    BY <1>1, <1>2, <1>5
  <2>2. d[i] = IF i <= Len(Tail(p)) THEN Tail(p)[i] ELSE q[i - Len(Tail(p))]
    BY <1>1, <1>2, <1>3, <1>5
  <2>3. (i + 1) - Len(p) = i - Len(Tail(p)) /\ (i + 1 <= Len(p) <=> i <= Len(Tail(p)))
    BY <1>1, <1>2, <1>5
  <2> QED
    BY <1>1, <2>1, <2>2, <2>3
<1>8. Tail(c) = d
  BY <1>3, <1>5, <1>6, <1>7, SeqEqual
<1>9. Head(c) = Head(p)
  <2>1. Head(c) = c[1] /\ Head(p) = p[1]
    OBVIOUS
  <2> QED
    BY <1>1, <1>2, <2>1
<1> QED
  BY <1>1, <1>2, <1>4, <1>8, <1>9 DEF c, d

\* One list after another.
LEMMA FoldConcat ==
    ASSUME NEW world, NEW A, NEW p \in Seq(A), NEW q \in Seq(A), NEW sim
    PROVE  Fold(world, sim, p \o q) = Fold(world, Fold(world, sim, p), q)
<1> DEFINE Splits(r) == \A t : Fold(world, t, r \o q) = Fold(world, Fold(world, t, r), q)
           S == {n \in Nat : \A r \in Seq(A) : Len(r) = n => Splits(r)}
<1>1. ASSUME NEW r \in Seq(A) PROVE Len(r) \in Nat /\ (Len(r) = 0 => r = <<>>)
  BY EmptySeq, LenProperties
<1>2. 0 \in S
  <2>1. Splits(<<>>)
    BY ConcatEmptySeq, FoldNothing
  <2> HIDE DEF Splits
  <2> QED
    BY <1>1, <2>1
<1>3. ASSUME NEW n \in Nat, n \in S PROVE n + 1 \in S
  <2>1. ASSUME NEW r \in Seq(A), Len(r) = n + 1, NEW t
        PROVE  Fold(world, t, r \o q) = Fold(world, Fold(world, t, r), q)
    <3> DEFINE u == Do(world, t, Head(r))
    <3>1. r # <<>>
      BY <2>1, EmptySeq
    <3>2. /\ r \o q \in Seq(A) /\ r \o q # <<>>
          /\ Head(r \o q) = Head(r) /\ Tail(r \o q) = Tail(r) \o q
          /\ Tail(r) \in Seq(A) /\ Len(r) = Len(Tail(r)) + 1
      BY <3>1, ConcatHeadTail
    <3>3. Len(Tail(r)) = n
      BY <1>1, <2>1, <3>2
    <3>4. Fold(world, t, r \o q) = Fold(world, Do(world, t, Head(r \o q)), Tail(r \o q))
      BY <3>2, FoldFirst
    <3>5. Fold(world, t, r) = Fold(world, u, Tail(r))
      BY <3>1, FoldFirst
    <3>6. Fold(world, u, Tail(r) \o q) = Fold(world, Fold(world, u, Tail(r)), q)
      BY <1>3, <3>2, <3>3
    <3> QED
      BY <3>2, <3>4, <3>5, <3>6
  <2> QED
    BY <2>1
<1>4. Len(p) \in S
  <2> HIDE DEF S
  <2> QED
    BY <1>1, <1>2, <1>3, InductionOnNat
<1> QED
  BY <1>4

LEMMA RequestIsNoReservation ==
    ASSUME NEW a \in ResidencyAction
    PROVE  a \notin MemoryReservation
<1>1. "op" \in DOMAIN a
  BY DEF ResidencyAction, EnsureResident, MoveResident, DropResident, DiscardValue
<1>2. \A r \in MemoryReservation : DOMAIN r = {"location", "nbytes"}
  BY DEF MemoryReservation
<1> QED
  BY <1>1, <1>2

LEMMA ExplainIsFold ==
    ASSUME NEW q \in Seq(ResidencyAction), NEW sim, NEW live, NEW protected
    PROVE  ExplainActions(sim, q, live, protected) = Fold(<<live, protected>>, sim, q)
<1> DEFINE w == <<live, protected>>
           Body(f) == [s \in SUBSET (DOMAIN q) |->
                         IF s = {} THEN sim
                         ELSE SimulateAction(f[s \ {Last(s)}], q[Last(s)], live, protected)]
           E(f) == f = Body(f)
           g == CHOOSE f : E(f)
<1>1. Len(q) \in Nat /\ DOMAIN q = 1..Len(q) /\ (\A i \in DOMAIN q : q[i] \in ResidencyAction)
  BY LenProperties
<1>2. ASSUME NEW f PROVE Folds(f, w, sim, q) <=> E(f)
  <2>1. ASSUME NEW s \in SUBSET (DOMAIN q)
        PROVE  DoLast(f, w, sim, q, s) = Body(f)[s]
    <3>1. CASE s = {}
      BY <3>1 DEF DoLast
    <3>2. CASE s # {}
      <4>1. q[Last(s)] \in ResidencyAction
        BY <1>1, <3>2, LastIsGreatest
      <4> QED
        BY <3>2, <4>1, RequestIsNoReservation DEF DoLast, Do
    <3> QED
      BY <3>1, <3>2
  <2>2. Body(f) = [s \in SUBSET (DOMAIN q) |-> Body(f)[s]]
    OBVIOUS
  <2> HIDE DEF Body
  <2>3. [s \in SUBSET (DOMAIN q) |-> DoLast(f, w, sim, q, s)] = Body(f)
    BY <2>1, <2>2
  <2> QED
    BY <2>3 DEF Folds
<1>3. ExplainActions(sim, q, live, protected) = g[DOMAIN q]
  BY DEF ExplainActions, Ext!FoldLeft, Ext!MapThenFoldSet, Last
<1> HIDE DEF E, w
<1>4. PICK f : Folds(f, w, sim, q)
  BY <1>1, FoldExists
<1>5. E(g)
  BY <1>2, <1>4
<1>6. Folds(g, w, sim, q)
  BY <1>2, <1>5
<1>7. Fold(w, sim, q) = g[DOMAIN q]
  BY <1>1, <1>6, FoldUnique
<1> QED
  BY <1>3, <1>7 DEF w

LEMMA AdmitIsFold ==
    ASSUME NEW q \in Seq(MemoryReservation), NEW sim, NEW w
    PROVE  Ext!FoldLeft(AdmitReservation, sim, q) = Fold(w, sim, q)
<1> DEFINE Body(f) == [s \in SUBSET (DOMAIN q) |->
                         IF s = {} THEN sim
                         ELSE AdmitReservation(f[s \ {Last(s)}], q[Last(s)])]
           E(f) == f = Body(f)
           g == CHOOSE f : E(f)
<1>1. Len(q) \in Nat /\ DOMAIN q = 1..Len(q) /\ (\A i \in DOMAIN q : q[i] \in MemoryReservation)
  BY LenProperties
<1>2. ASSUME NEW f PROVE Folds(f, w, sim, q) <=> E(f)
  <2>1. ASSUME NEW s \in SUBSET (DOMAIN q)
        PROVE  DoLast(f, w, sim, q, s) = Body(f)[s]
    <3>1. CASE s = {}
      BY <3>1 DEF DoLast
    <3>2. CASE s # {}
      <4>1. q[Last(s)] \in MemoryReservation
        BY <1>1, <3>2, LastIsGreatest
      <4> QED
        BY <3>2, <4>1 DEF DoLast, Do
    <3> QED
      BY <3>1, <3>2
  <2>2. Body(f) = [s \in SUBSET (DOMAIN q) |-> Body(f)[s]]
    OBVIOUS
  <2> HIDE DEF Body
  <2>3. [s \in SUBSET (DOMAIN q) |-> DoLast(f, w, sim, q, s)] = Body(f)
    BY <2>1, <2>2
  <2> QED
    BY <2>3 DEF Folds
<1>3. Ext!FoldLeft(AdmitReservation, sim, q) = g[DOMAIN q]
  BY DEF Ext!FoldLeft, Ext!MapThenFoldSet, Last
<1> HIDE DEF E
<1>4. PICK f : Folds(f, w, sim, q)
  BY <1>1, FoldExists
<1>5. E(g)
  BY <1>2, <1>4
<1>6. Folds(g, w, sim, q)
  BY <1>2, <1>5
<1>7. Fold(w, sim, q) = g[DOMAIN q]
  BY <1>1, <1>6, FoldUnique
<1> QED
  BY <1>3, <1>7

-----------------------------------------------------------------------------
(* Simulations.  Two simulations that only differ in their peaks, the      *)
(* first with the lower ones, stay so under every step.                    *)

SimulationRecord ==
    [locations : [Values -> SUBSET Locations], discarded : SUBSET Values,
     used : [Locations -> Int], reserved : [Locations -> Int], peaks : [Locations -> Int],
     feasible : BOOLEAN]

Below(s, t) ==
    /\ s.locations = t.locations /\ s.discarded = t.discarded
    /\ s.used = t.used /\ s.reserved = t.reserved
    /\ s.feasible = t.feasible
    /\ \A l \in Locations : s.peaks[l] <= t.peaks[l]

\* s and t are carried to s2 and t2: no peak is forgotten and no failure undone.
Carries(s, t, s2, t2) ==
    /\ s2 \in SimulationRecord /\ t2 \in SimulationRecord
    /\ Below(s2, t2)
    /\ \A l \in Locations : s.peaks[l] <= s2.peaks[l]
    /\ s2.feasible => s.feasible

LEMMA CarriesTwice ==
    ASSUME NEW s \in SimulationRecord, NEW t, NEW s2, NEW t2, NEW s3, NEW t3,
           Carries(s, t, s2, t2), Carries(s2, t2, s3, t3)
    PROVE  Carries(s, t, s3, t3)
<1>1. \A l \in Locations : s.peaks[l] \in Int /\ s2.peaks[l] \in Int /\ s3.peaks[l] \in Int
  BY DEF Carries, SimulationRecord
<1> QED
  BY <1>1 DEF Carries

LEMMA CarriesNothing ==
    ASSUME NEW s \in SimulationRecord, NEW t \in SimulationRecord, Below(s, t)
    PROVE  Carries(s, t, s, t) /\ Carries(s, t, Infeasible(s), Infeasible(t))
<1>1. \A l \in Locations : s.peaks[l] \in Int
  BY DEF SimulationRecord
<1>2. Carries(s, t, s, t)
  BY <1>1 DEF Carries
<1>3. \A u \in SimulationRecord :
        /\ Infeasible(u) \in SimulationRecord
        /\ Infeasible(u).locations = u.locations /\ Infeasible(u).discarded = u.discarded
        /\ Infeasible(u).used = u.used /\ Infeasible(u).reserved = u.reserved
        /\ Infeasible(u).peaks = u.peaks /\ Infeasible(u).feasible = FALSE
  BY DEF Infeasible, SimulationRecord
<1>4. Below(Infeasible(s), Infeasible(t))
  BY <1>3 DEF Below
<1> QED
  BY <1>1, <1>2, <1>3, <1>4 DEF Carries

LEMMA TouchFacts ==
    ASSUME NEW s \in SimulationRecord, NEW l \in Locations, NEW n \in Nat
    PROVE  /\ Touch(s, l, n) \in SimulationRecord
           /\ Touch(s, l, n).locations = s.locations
           /\ Touch(s, l, n).discarded = s.discarded
           /\ Touch(s, l, n).used = s.used
           /\ Touch(s, l, n).reserved = s.reserved
           /\ Touch(s, l, n).feasible =
                (s.feasible /\ (Budget[l] # NoBudget => s.used[l] + s.reserved[l] + n <= Budget[l]))
           /\ \A m \in Locations : Touch(s, l, n).peaks[m] =
                IF m = l THEN Larger(s.peaks[l], s.used[l] + s.reserved[l] + n) ELSE s.peaks[m]
<1> DEFINE total == s.used[l] + s.reserved[l] + n
<1>1. total \in Int /\ s.peaks \in [Locations -> Int] /\ Larger(s.peaks[l], total) \in Int
  BY DEF SimulationRecord, Larger
<1>2. Touch(s, l, n) = [s EXCEPT !.peaks[l] = Larger(@, total),
                               !.feasible = @ /\ (Budget[l] # NoBudget => total <= Budget[l])]
  BY DEF Touch
<1> HIDE DEF total
<1>3. Touch(s, l, n) =
        [locations |-> s.locations, discarded |-> s.discarded, used |-> s.used,
         reserved |-> s.reserved, peaks |-> [s.peaks EXCEPT ![l] = Larger(@, total)],
         feasible |-> s.feasible /\ (Budget[l] # NoBudget => total <= Budget[l])]
  BY <1>2 DEF SimulationRecord
<1>4. [s.peaks EXCEPT ![l] = Larger(@, total)] \in [Locations -> Int]
  BY <1>1
<1>5. Touch(s, l, n) \in SimulationRecord
  BY <1>3, <1>4 DEF SimulationRecord
<1> QED
  BY <1>1, <1>3, <1>5 DEF total

LEMMA LargerIsLarger ==
    ASSUME NEW a \in Int, NEW b \in Int, NEW n \in Int, a <= b
    PROVE  Larger(a, n) \in Int /\ a <= Larger(a, n) /\ n <= Larger(a, n) /\ Larger(a, n) <= Larger(b, n)
  BY DEF Larger

LEMMA TouchCarries ==
    ASSUME NEW s \in SimulationRecord, NEW t \in SimulationRecord, Below(s, t),
           NEW l \in Locations, NEW n \in Nat
    PROVE  Carries(s, t, Touch(s, l, n), Touch(t, l, n))
<1> DEFINE s2 == Touch(s, l, n)
           t2 == Touch(t, l, n)
           total == s.used[l] + s.reserved[l] + n
<1>1. /\ s2 \in SimulationRecord /\ s2.locations = s.locations /\ s2.discarded = s.discarded
      /\ s2.used = s.used /\ s2.reserved = s.reserved
      /\ s2.feasible = (s.feasible /\ (Budget[l] # NoBudget => total <= Budget[l]))
      /\ \A m \in Locations : s2.peaks[m] = IF m = l THEN Larger(s.peaks[l], total) ELSE s.peaks[m]
  BY TouchFacts
<1>2. t.used[l] + t.reserved[l] + n = total
  BY DEF Below
<1>3. /\ t2 \in SimulationRecord /\ t2.locations = t.locations /\ t2.discarded = t.discarded
      /\ t2.used = t.used /\ t2.reserved = t.reserved
      /\ t2.feasible = (t.feasible /\ (Budget[l] # NoBudget => total <= Budget[l]))
      /\ \A m \in Locations : t2.peaks[m] = IF m = l THEN Larger(t.peaks[l], total) ELSE t.peaks[m]
  BY <1>2, TouchFacts
<1>4. total \in Int /\ \A m \in Locations : s.peaks[m] \in Int /\ t.peaks[m] \in Int
  BY DEF SimulationRecord
<1> HIDE DEF s2, t2, total
<1>5. Below(s2, t2)
  BY <1>1, <1>3, <1>4, LargerIsLarger DEF Below
<1>6. \A m \in Locations : s.peaks[m] <= s2.peaks[m]
  BY <1>1, <1>4, LargerIsLarger
<1>7. Carries(s, t, s2, t2)
  BY <1>1, <1>3, <1>5, <1>6 DEF Carries
<1> QED
  BY <1>7 DEF s2, t2

LEMMA AddReplicaFacts ==
    ASSUME NEW s \in SimulationRecord, NEW v \in Values, NEW l \in Locations,
           Touch(s, l, Size[v]).feasible
    PROVE  AddReplica(s, v, l) =
             [locations |-> [s.locations EXCEPT ![v] = @ \cup {l}], discarded |-> s.discarded,
              used |-> [s.used EXCEPT ![l] = @ + Size[v]], reserved |-> s.reserved,
              peaks |-> Touch(s, l, Size[v]).peaks, feasible |-> TRUE]
<1> DEFINE n == Size[v]
           t == Touch(s, l, n)
<1>1. n \in Nat
  BY SpecAssumption
<1>2. /\ t \in SimulationRecord /\ t.locations = s.locations /\ t.discarded = s.discarded
      /\ t.used = s.used /\ t.reserved = s.reserved /\ t.feasible
  BY <1>1, TouchFacts
<1>3. AddReplica(s, v, l) = [t EXCEPT !.used[l] = @ + Size[v], !.locations[v] = @ \cup {l}]
  BY <1>2 DEF AddReplica
<1> HIDE DEF t
<1>4. AddReplica(s, v, l) =
        [locations |-> [t.locations EXCEPT ![v] = @ \cup {l}], discarded |-> t.discarded,
         used |-> [t.used EXCEPT ![l] = @ + Size[v]], reserved |-> t.reserved,
         peaks |-> t.peaks, feasible |-> t.feasible]
  BY <1>3, <1>2 DEF SimulationRecord
<1>5. t.feasible = TRUE
  BY <1>2 DEF SimulationRecord
<1> QED
  BY <1>2, <1>4, <1>5 DEF t

LEMMA AddReplicaCarries ==
    ASSUME NEW s \in SimulationRecord, NEW t \in SimulationRecord, Below(s, t),
           NEW v \in Values, NEW l \in Locations
    PROVE  Carries(s, t, AddReplica(s, v, l), AddReplica(t, v, l))
<1> DEFINE s2 == Touch(s, l, Size[v])
           t2 == Touch(t, l, Size[v])
           s3 == AddReplica(s, v, l)
           t3 == AddReplica(t, v, l)
<1>1. Size[v] \in Nat /\ Size[v] \in Int
  BY SpecAssumption
<1>2. Carries(s, t, s2, t2)
  BY <1>1, TouchCarries
<1>3. CASE ~s2.feasible
  <2>1. ~t2.feasible
    BY <1>2, <1>3 DEF Carries, Below
  <2>2. s3 = s2 /\ t3 = t2
    BY <1>3, <2>1 DEF AddReplica
  <2> QED
    BY <1>2, <2>2
<1>4. CASE s2.feasible
  <2>1. t2.feasible
    BY <1>2, <1>4 DEF Carries, Below
  <2> HIDE DEF s2, t2, s3, t3
  <2>2. s3 = [locations |-> [s.locations EXCEPT ![v] = @ \cup {l}], discarded |-> s.discarded,
              used |-> [s.used EXCEPT ![l] = @ + Size[v]], reserved |-> s.reserved,
              peaks |-> s2.peaks, feasible |-> TRUE]
    BY <1>4, AddReplicaFacts DEF s2, s3
  <2>3. t3 = [locations |-> [t.locations EXCEPT ![v] = @ \cup {l}], discarded |-> t.discarded,
              used |-> [t.used EXCEPT ![l] = @ + Size[v]], reserved |-> t.reserved,
              peaks |-> t2.peaks, feasible |-> TRUE]
    BY <2>1, AddReplicaFacts DEF t2, t3
  <2>4. s2.peaks \in [Locations -> Int] /\ t2.peaks \in [Locations -> Int]
    BY <1>2 DEF Carries, SimulationRecord
  <2>5. [s.locations EXCEPT ![v] = @ \cup {l}] \in [Values -> SUBSET Locations]
        /\ [s.used EXCEPT ![l] = @ + Size[v]] \in [Locations -> Int]
    BY <1>1 DEF SimulationRecord
  <2>6. s3 \in SimulationRecord
    BY <2>2, <2>4, <2>5 DEF SimulationRecord
  <2>7. s.locations = t.locations /\ s.discarded = t.discarded /\ s.used = t.used
        /\ s.reserved = t.reserved
    BY DEF Below
  <2>8. t3 \in SimulationRecord
    BY <2>3, <2>4, <2>5, <2>7 DEF SimulationRecord
  <2>9. Below(s3, t3)
    BY <1>2, <2>2, <2>3, <2>7 DEF Below, Carries
  <2>10. Carries(s, t, s3, t3)
    BY <1>2, <1>4, <2>2, <2>6, <2>8, <2>9 DEF Carries
  <2> QED
    BY <2>10 DEF s3, t3
<1> QED
  BY <1>3, <1>4

LEMMA RemoveReplicaFacts ==
    ASSUME NEW s \in SimulationRecord, NEW v \in Values, NEW l \in Locations
    PROVE  /\ RemoveReplica(s, v, l) =
                [locations |-> [s.locations EXCEPT ![v] = @ \ {l}], discarded |-> s.discarded,
                 used |-> [s.used EXCEPT ![l] = @ - Size[v]], reserved |-> s.reserved,
                 peaks |-> s.peaks, feasible |-> s.feasible]
           /\ RemoveReplica(s, v, l) \in SimulationRecord
<1>1. Size[v] \in Int
  BY SpecAssumption
<1>2. [s.locations EXCEPT ![v] = @ \ {l}] \in [Values -> SUBSET Locations]
      /\ [s.used EXCEPT ![l] = @ - Size[v]] \in [Locations -> Int]
  BY <1>1 DEF SimulationRecord
<1>3. RemoveReplica(s, v, l) =
        [locations |-> [s.locations EXCEPT ![v] = @ \ {l}], discarded |-> s.discarded,
         used |-> [s.used EXCEPT ![l] = @ - Size[v]], reserved |-> s.reserved,
         peaks |-> s.peaks, feasible |-> s.feasible]
  <2>1. s = [locations |-> s.locations, discarded |-> s.discarded, used |-> s.used,
             reserved |-> s.reserved, peaks |-> s.peaks, feasible |-> s.feasible]
    BY DEF SimulationRecord
  <2>2. RemoveReplica(s, v, l) = [s EXCEPT !.used[l] = @ - Size[v], !.locations[v] = @ \ {l}]
    BY DEF RemoveReplica
  <2> QED
    BY <2>1, <2>2
<1> QED
  BY <1>2, <1>3 DEF SimulationRecord

LEMMA RemoveReplicaCarries ==
    ASSUME NEW s \in SimulationRecord, NEW t \in SimulationRecord, Below(s, t),
           NEW v \in Values, NEW l \in Locations
    PROVE  Carries(s, t, RemoveReplica(s, v, l), RemoveReplica(t, v, l))
<1> DEFINE s2 == RemoveReplica(s, v, l)
           t2 == RemoveReplica(t, v, l)
<1>1. s2 \in SimulationRecord /\
      s2 = [locations |-> [s.locations EXCEPT ![v] = @ \ {l}], discarded |-> s.discarded,
            used |-> [s.used EXCEPT ![l] = @ - Size[v]], reserved |-> s.reserved,
            peaks |-> s.peaks, feasible |-> s.feasible]
  BY RemoveReplicaFacts
<1>2. t2 \in SimulationRecord /\
      t2 = [locations |-> [t.locations EXCEPT ![v] = @ \ {l}], discarded |-> t.discarded,
            used |-> [t.used EXCEPT ![l] = @ - Size[v]], reserved |-> t.reserved,
            peaks |-> t.peaks, feasible |-> t.feasible]
  BY RemoveReplicaFacts
<1> HIDE DEF s2, t2
<1>3. Below(s2, t2)
  BY <1>1, <1>2 DEF Below
<1>4. \A m \in Locations : s.peaks[m] \in Int
  BY DEF SimulationRecord
<1>5. Carries(s, t, s2, t2)
  BY <1>1, <1>2, <1>3, <1>4 DEF Carries
<1> QED
  BY <1>5 DEF s2, t2

LEMMA FromSourceCarries ==
    ASSUME NEW s \in SimulationRecord, NEW t \in SimulationRecord, Below(s, t),
           NEW v \in Values, NEW l \in Locations
    PROVE  Carries(s, t, FromSource(s, v, l), FromSource(t, v, l))
<1>1. CASE ~Reconstructible(v)
  BY <1>1, CarriesNothing DEF FromSource
<1>2. CASE Reconstructible(v)
  <2> DEFINE s2 == AddTemporary(s, v, SourceAt[v])
             t2 == AddTemporary(t, v, SourceAt[v])
  <2>1. SourceAt[v] \in Locations /\ Size[v] \in Nat
    BY <1>2, SpecAssumption DEF Reconstructible
  <2>2. Carries(s, t, s2, t2)
    BY <2>1, TouchCarries DEF AddTemporary
  <2>3. s2 \in SimulationRecord /\ t2 \in SimulationRecord /\ Below(s2, t2)
    BY <2>2 DEF Carries
  <2> HIDE DEF s2, t2
  <2>4. Carries(s2, t2, AddReplica(s2, v, l), AddReplica(t2, v, l))
    BY <2>3, AddReplicaCarries
  <2>5. Carries(s, t, AddReplica(s2, v, l), AddReplica(t2, v, l))
    BY <2>2, <2>4, CarriesTwice
  <2>6. s2.feasible = t2.feasible
    BY <2>3 DEF Below
  <2> QED
    BY <1>2, <2>2, <2>5, <2>6 DEF FromSource, s2, t2
<1> QED
  BY <1>1, <1>2

-----------------------------------------------------------------------------
(* Simulated requests *)

LEMMA FirstLocationExists ==
    ASSUME NEW T \in SUBSET Locations, T # {}
    PROVE  FirstLocation(T) \in T
<1> DEFINE R == {Rank[l] : l \in T}
<1>1. R \in SUBSET Nat /\ R # {}
  BY LocationAssumption
<1> HIDE DEF R
<1>2. PICK n \in R : \A m \in R : n <= m
  BY <1>1, LeastNatural
<1>3. \E l \in T : \A m \in T : Rank[l] <= Rank[m]
  BY <1>2 DEF R
<1> QED
  BY <1>3 DEF FirstLocation

\* A move that is neither a no-op nor a load reads a replica that exists.
LEMMA MoveSource ==
    ASSUME NEW S \in SUBSET Locations, NEW to, NEW from \in Place,
           from # NoLocation => from \in S,
           ~(S = {} /\ from = NoLocation),
           ~(to \in S /\ SelectSource(S \ {to}, from) \in {NoLocation, to})
    PROVE  /\ SelectSource(S \ {to}, from) \in S
           /\ to \in S => SelectSource(S \ {to}, from) \in S \ {to}
<1>1. CASE from # NoLocation
  BY <1>1 DEF SelectSource
<1>2. CASE from = NoLocation /\ S \ {to} = {}
  BY <1>2 DEF SelectSource
<1>3. CASE from = NoLocation /\ S \ {to} # {}
  BY <1>3, FirstLocationExists DEF SelectSource
<1> QED
  BY <1>1, <1>2, <1>3

LEMMA EnsureCarries ==
    ASSUME NEW s \in SimulationRecord, NEW t \in SimulationRecord, Below(s, t),
           NEW a \in ResidencyAction, a.op = "ensure"
    PROVE  Carries(s, t, SimulateEnsure(s, a), SimulateEnsure(t, a))
<1>1. a.handle \in Values /\ a.to \in Locations /\ s.locations = t.locations
  BY RequestTyped DEF Below
<1>2. CASE a.to \in s.locations[a.handle]
  BY <1>1, <1>2, CarriesNothing DEF SimulateEnsure
<1>3. CASE a.to \notin s.locations[a.handle] /\ s.locations[a.handle] = {}
  BY <1>1, <1>3, FromSourceCarries DEF SimulateEnsure
<1>4. CASE a.to \notin s.locations[a.handle] /\ s.locations[a.handle] # {}
  BY <1>1, <1>4, CarriesNothing, AddReplicaCarries DEF SimulateEnsure
<1> QED
  BY <1>2, <1>3, <1>4

LEMMA MoveCarries ==
    ASSUME NEW s \in SimulationRecord, NEW t \in SimulationRecord, Below(s, t), NEW protected,
           NEW a \in ResidencyAction, a.op = "move"
    PROVE  Carries(s, t, SimulateMove(s, a, protected), SimulateMove(t, a, protected))
<1> DEFINE v == a.handle
           S == s.locations[v]
           source == SelectSource(S \ {a.to}, a.from)
           stale == a.from # NoLocation /\ a.from \notin S
           done == a.to \in S /\ source \in {NoLocation, a.to}
           empty == S = {} /\ a.from = NoLocation
<1>1. v \in Values /\ a.to \in Locations /\ a.from \in Place /\ S = t.locations[v]
      /\ S \in SUBSET Locations
  BY RequestTyped DEF Below, SimulationRecord
<1> HIDE DEF v, S
<1>2. CASE stale
  BY <1>1, <1>2, CarriesNothing DEF SimulateMove, v, S
<1>3. CASE ~stale /\ done
  BY <1>1, <1>3, CarriesNothing DEF SimulateMove, v, S
<1>4. CASE ~stale /\ ~done /\ empty
  <2>1. SimulateMove(s, a, protected) = FromSource(s, v, a.to)
        /\ SimulateMove(t, a, protected) = FromSource(t, v, a.to)
    BY <1>1, <1>4 DEF SimulateMove, v, S
  <2> QED
    BY <1>1, <2>1, FromSourceCarries
<1>5. CASE ~stale /\ ~done /\ ~empty /\ <<v, source>> \in protected
  BY <1>1, <1>5, CarriesNothing DEF SimulateMove, v, S
<1>6. CASE ~stale /\ ~done /\ ~empty /\ <<v, source>> \notin protected
  <2>1. source \in Locations
    BY <1>1, <1>6, MoveSource
  <2>2. CASE a.to \in S
    <3>1. SimulateMove(s, a, protected) = RemoveReplica(s, v, source)
          /\ SimulateMove(t, a, protected) = RemoveReplica(t, v, source)
      BY <1>1, <1>6, <2>2 DEF SimulateMove, v, S
    <3> HIDE DEF source
    <3> QED
      BY <1>1, <2>1, <3>1, RemoveReplicaCarries
  <2>3. CASE a.to \notin S
    <3> DEFINE s2 == AddReplica(s, v, a.to)
               t2 == AddReplica(t, v, a.to)
    <3>1. SimulateMove(s, a, protected) = (IF s2.feasible THEN RemoveReplica(s2, v, source) ELSE s2)
      BY <1>1, <1>6, <2>3 DEF SimulateMove, v, S
    <3>2. SimulateMove(t, a, protected) = (IF t2.feasible THEN RemoveReplica(t2, v, source) ELSE t2)
      BY <1>1, <1>6, <2>3 DEF SimulateMove, v, S
    <3>3. Carries(s, t, s2, t2)
      BY <1>1, AddReplicaCarries
    <3>4. s2 \in SimulationRecord /\ t2 \in SimulationRecord /\ Below(s2, t2)
          /\ s2.feasible = t2.feasible
      BY <3>3 DEF Carries, Below
    <3> HIDE DEF s2, t2, source
    <3>5. Carries(s2, t2, RemoveReplica(s2, v, source), RemoveReplica(t2, v, source))
      BY <1>1, <2>1, <3>4, RemoveReplicaCarries
    <3>6. Carries(s, t, RemoveReplica(s2, v, source), RemoveReplica(t2, v, source))
      BY <3>3, <3>5, CarriesTwice
    <3> QED
      BY <3>1, <3>2, <3>3, <3>4, <3>6
  <2> QED
    BY <2>2, <2>3
<1> QED
  BY <1>2, <1>3, <1>4, <1>5, <1>6

LEMMA DropCarries ==
    ASSUME NEW s \in SimulationRecord, NEW t \in SimulationRecord, Below(s, t), NEW protected,
           NEW a \in ResidencyAction, a.op = "drop"
    PROVE  Carries(s, t, SimulateDrop(s, a, protected), SimulateDrop(t, a, protected))
<1>1. a.handle \in Values /\ a.to \in Locations /\ s.locations = t.locations
  BY RequestTyped DEF Below
<1> QED
  BY <1>1, CarriesNothing, RemoveReplicaCarries DEF SimulateDrop

LEMMA DiscardFacts ==
    ASSUME NEW s \in SimulationRecord, NEW protected,
           NEW a \in ResidencyAction, a.op = "discard",
           ~ \E l \in s.locations[a.handle] : <<a.handle, l>> \in protected
    PROVE  /\ SimulateDiscard(s, a, protected) =
                [locations |-> [s.locations EXCEPT ![a.handle] = {}],
                 discarded |-> s.discarded \cup {a.handle},
                 used |-> [l \in Locations |-> s.used[l] - IF l \in s.locations[a.handle]
                                                          THEN Size[a.handle] ELSE 0],
                 reserved |-> s.reserved, peaks |-> s.peaks, feasible |-> s.feasible]
           /\ SimulateDiscard(s, a, protected) \in SimulationRecord
<1> DEFINE v == a.handle
           u == [l \in Locations |-> s.used[l] - IF l \in s.locations[v] THEN Size[v] ELSE 0]
<1>1. v \in Values /\ Size[v] \in Int
  BY RequestTyped, SpecAssumption
<1>2. u \in [Locations -> Int] /\ [s.locations EXCEPT ![v] = {}] \in [Values -> SUBSET Locations]
      /\ s.discarded \cup {v} \in SUBSET Values
  BY <1>1 DEF SimulationRecord
<1>3. s = [locations |-> s.locations, discarded |-> s.discarded, used |-> s.used,
           reserved |-> s.reserved, peaks |-> s.peaks, feasible |-> s.feasible]
  BY DEF SimulationRecord
<1>4. SimulateDiscard(s, a, protected) =
        [s EXCEPT !.used = u, !.locations[v] = {}, !.discarded = @ \cup {v}]
  BY DEF SimulateDiscard
<1> HIDE DEF u, v
<1>5. SimulateDiscard(s, a, protected) =
        [locations |-> [s.locations EXCEPT ![v] = {}], discarded |-> s.discarded \cup {v},
         used |-> u, reserved |-> s.reserved, peaks |-> s.peaks, feasible |-> s.feasible]
  BY <1>3, <1>4
<1>6. SimulateDiscard(s, a, protected) \in SimulationRecord
  BY <1>2, <1>5 DEF SimulationRecord
<1> QED
  BY <1>5, <1>6 DEF u, v

LEMMA DiscardCarries ==
    ASSUME NEW s \in SimulationRecord, NEW t \in SimulationRecord, Below(s, t), NEW protected,
           NEW a \in ResidencyAction, a.op = "discard"
    PROVE  Carries(s, t, SimulateDiscard(s, a, protected), SimulateDiscard(t, a, protected))
<1>1. s.locations = t.locations /\ s.used = t.used /\ s.discarded = t.discarded
      /\ s.reserved = t.reserved /\ s.feasible = t.feasible
      /\ \A l \in Locations : s.peaks[l] \in Int /\ s.peaks[l] <= t.peaks[l]
  BY DEF Below, SimulationRecord
<1>2. CASE \E l \in s.locations[a.handle] : <<a.handle, l>> \in protected
  BY <1>1, <1>2, CarriesNothing DEF SimulateDiscard
<1>3. CASE ~ \E l \in s.locations[a.handle] : <<a.handle, l>> \in protected
  <2> DEFINE s2 == SimulateDiscard(s, a, protected)
             t2 == SimulateDiscard(t, a, protected)
             u == [l \in Locations |-> s.used[l] - IF l \in s.locations[a.handle]
                                                  THEN Size[a.handle] ELSE 0]
             d == s.discarded \cup {a.handle}
             m == [s.locations EXCEPT ![a.handle] = {}]
  <2>1. s2 \in SimulationRecord /\
        s2 = [locations |-> m, discarded |-> d, used |-> u, reserved |-> s.reserved,
              peaks |-> s.peaks, feasible |-> s.feasible]
    BY <1>3, DiscardFacts
  <2>2. t2 \in SimulationRecord /\
        t2 = [locations |-> m, discarded |-> d, used |-> u, reserved |-> s.reserved,
              peaks |-> t.peaks, feasible |-> s.feasible]
    BY <1>1, <1>3, DiscardFacts
  <2> HIDE DEF s2, t2, u, d, m
  <2>3. Below(s2, t2)
    BY <1>1, <2>1, <2>2 DEF Below
  <2>4. Carries(s, t, s2, t2)
    BY <1>1, <2>1, <2>2, <2>3 DEF Carries
  <2> QED
    BY <2>4 DEF s2, t2
<1> QED
  BY <1>2, <1>3

LEMMA ActionCarries ==
    ASSUME NEW s \in SimulationRecord, NEW t \in SimulationRecord, Below(s, t),
           NEW live, NEW protected, NEW a \in ResidencyAction
    PROVE  Carries(s, t, SimulateAction(s, a, live, protected), SimulateAction(t, a, live, protected))
<1>1. s.feasible = t.feasible /\ s.discarded = t.discarded /\ s.feasible \in BOOLEAN
  BY DEF Below, SimulationRecord
<1>2. a.op \in {"ensure", "move", "drop", "discard"}
  BY RequestTyped
<1>3. CASE ~s.feasible
  BY <1>1, <1>3, CarriesNothing DEF SimulateAction
<1>4. CASE s.feasible /\ (a.handle \notin live \/ a.handle \in s.discarded)
  BY <1>1, <1>4, CarriesNothing DEF SimulateAction
<1>5. CASE s.feasible /\ ~(a.handle \notin live \/ a.handle \in s.discarded)
  BY <1>1, <1>2, <1>5, EnsureCarries, MoveCarries, DropCarries, DiscardCarries DEF SimulateAction
<1> QED
  BY <1>3, <1>4, <1>5

LEMMA AdmitFacts ==
    ASSUME NEW s \in SimulationRecord, s.feasible, NEW r \in MemoryReservation
    PROVE  /\ AdmitReservation(s, r) =
                [locations |-> s.locations, discarded |-> s.discarded, used |-> s.used,
                 reserved |-> [s.reserved EXCEPT ![r.location] = @ + r.nbytes],
                 peaks |-> Touch(s, r.location, r.nbytes).peaks,
                 feasible |-> Touch(s, r.location, r.nbytes).feasible]
           /\ AdmitReservation(s, r) \in SimulationRecord
<1> DEFINE t == Touch(s, r.location, r.nbytes)
<1>1. r.location \in Locations /\ r.nbytes \in Nat
  BY DEF MemoryReservation
<1>2. /\ t \in SimulationRecord /\ t.locations = s.locations /\ t.discarded = s.discarded
      /\ t.used = s.used /\ t.reserved = s.reserved
  BY <1>1, TouchFacts
<1>3. AdmitReservation(s, r) = [t EXCEPT !.reserved[r.location] = @ + r.nbytes]
  BY DEF AdmitReservation
<1> HIDE DEF t
<1>4. t = [locations |-> t.locations, discarded |-> t.discarded, used |-> t.used,
           reserved |-> t.reserved, peaks |-> t.peaks, feasible |-> t.feasible]
  BY <1>2 DEF SimulationRecord
<1>5. AdmitReservation(s, r) =
         [locations |-> s.locations, discarded |-> s.discarded, used |-> s.used,
          reserved |-> [s.reserved EXCEPT ![r.location] = @ + r.nbytes],
          peaks |-> t.peaks, feasible |-> t.feasible]
  BY <1>2, <1>3, <1>4
<1>6. [s.reserved EXCEPT ![r.location] = @ + r.nbytes] \in [Locations -> Int]
  BY <1>1 DEF SimulationRecord
<1>7. AdmitReservation(s, r) \in SimulationRecord
  BY <1>2, <1>5, <1>6 DEF SimulationRecord
<1> QED
  BY <1>5, <1>7 DEF t

LEMMA AdmitCarries ==
    ASSUME NEW s \in SimulationRecord, NEW t \in SimulationRecord, Below(s, t),
           NEW r \in MemoryReservation
    PROVE  Carries(s, t, AdmitReservation(s, r), AdmitReservation(t, r))
<1>1. /\ s.locations = t.locations /\ s.discarded = t.discarded /\ s.used = t.used
      /\ s.reserved = t.reserved /\ s.feasible = t.feasible
      /\ r.location \in Locations /\ r.nbytes \in Nat
  BY DEF Below, MemoryReservation
<1>2. CASE ~s.feasible
  BY <1>1, <1>2, CarriesNothing DEF AdmitReservation
<1>3. CASE s.feasible
  <2> DEFINE s2 == Touch(s, r.location, r.nbytes)
             t2 == Touch(t, r.location, r.nbytes)
             s3 == AdmitReservation(s, r)
             t3 == AdmitReservation(t, r)
             m == [s.reserved EXCEPT ![r.location] = @ + r.nbytes]
  <2>1. Carries(s, t, s2, t2)
    BY <1>1, TouchCarries
  <2>2. s3 \in SimulationRecord /\
        s3 = [locations |-> s.locations, discarded |-> s.discarded, used |-> s.used,
              reserved |-> m, peaks |-> s2.peaks, feasible |-> s2.feasible]
    BY <1>3, AdmitFacts
  <2>3. t3 \in SimulationRecord /\
        t3 = [locations |-> s.locations, discarded |-> s.discarded, used |-> s.used,
              reserved |-> m, peaks |-> t2.peaks, feasible |-> t2.feasible]
    BY <1>1, <1>3, AdmitFacts
  <2> HIDE DEF s2, t2, s3, t3, m
  <2>4. Carries(s, t, s3, t3)
    BY <2>1, <2>2, <2>3 DEF Carries, Below
  <2> QED
    BY <2>4 DEF s3, t3
<1> QED
  BY <1>2, <1>3

\* What is possible stays possible, with the same result, when reads end.
LEMMA FewerProtected ==
    ASSUME NEW s \in SimulationRecord, NEW live, NEW protected, NEW fewer \in SUBSET protected,
           NEW a \in ResidencyAction, SimulateAction(s, a, live, protected).feasible
    PROVE  SimulateAction(s, a, live, fewer) = SimulateAction(s, a, live, protected)
<1>1. s.feasible \in BOOLEAN /\ Infeasible(s).feasible = FALSE
  BY DEF SimulationRecord, Infeasible
<1>2. a.op \in {"ensure", "move", "drop", "discard"}
  BY RequestTyped
<1>3. CASE ~s.feasible
  BY <1>1, <1>3 DEF SimulateAction
<1>4. CASE s.feasible /\ (a.handle \notin live \/ a.handle \in s.discarded)
  BY <1>1, <1>4 DEF SimulateAction
<1>5. CASE s.feasible /\ ~(a.handle \notin live \/ a.handle \in s.discarded)
  <2>1. CASE a.op = "ensure"
    BY <1>5, <2>1 DEF SimulateAction
  <2>2. CASE a.op = "move"
    <3>1. SimulateAction(s, a, live, protected) = SimulateMove(s, a, protected)
          /\ SimulateAction(s, a, live, fewer) = SimulateMove(s, a, fewer)
      BY <1>5, <2>2 DEF SimulateAction
    <3>2. SimulateMove(s, a, protected).feasible
      BY <3>1
    <3>3. SimulateMove(s, a, fewer) = SimulateMove(s, a, protected)
      BY <1>1, <3>2 DEF SimulateMove
    <3> QED
      BY <3>1, <3>3
  <2>3. CASE a.op = "drop"
    <3>1. SimulateAction(s, a, live, protected) = SimulateDrop(s, a, protected)
          /\ SimulateAction(s, a, live, fewer) = SimulateDrop(s, a, fewer)
      BY <1>5, <2>3 DEF SimulateAction
    <3>2. SimulateDrop(s, a, protected).feasible
      BY <3>1
    <3>3. SimulateDrop(s, a, fewer) = SimulateDrop(s, a, protected)
      BY <1>1, <3>2 DEF SimulateDrop
    <3> QED
      BY <3>1, <3>3
  <2>4. CASE a.op = "discard"
    <3>1. SimulateAction(s, a, live, protected) = SimulateDiscard(s, a, protected)
          /\ SimulateAction(s, a, live, fewer) = SimulateDiscard(s, a, fewer)
      BY <1>5, <2>4 DEF SimulateAction
    <3>2. SimulateDiscard(s, a, protected).feasible
      BY <3>1
    <3>3. SimulateDiscard(s, a, fewer) = SimulateDiscard(s, a, protected)
      BY <1>1, <3>2 DEF SimulateDiscard
    <3> QED
      BY <3>1, <3>3
  <2> QED
    BY <1>2, <2>1, <2>2, <2>3, <2>4
<1> QED
  BY <1>3, <1>4, <1>5

-----------------------------------------------------------------------------
(* Simulated plans *)

PlanStep == ResidencyAction \cup MemoryReservation

LEMMA DoCarries ==
    ASSUME NEW s \in SimulationRecord, NEW t \in SimulationRecord, Below(s, t),
           NEW world, NEW x \in PlanStep
    PROVE  Carries(s, t, Do(world, s, x), Do(world, t, x))
  BY ActionCarries, AdmitCarries DEF Do, PlanStep

\* A whole plan forgets no peak, undoes no failure and respects Below.
LEMMA FoldCarries ==
    ASSUME NEW s \in SimulationRecord, NEW t \in SimulationRecord, Below(s, t),
           NEW world, NEW q \in Seq(PlanStep)
    PROVE  Carries(s, t, Fold(world, s, q), Fold(world, t, q))
<1> DEFINE Kept(r) == \A u, v \in SimulationRecord :
                         Below(u, v) => Carries(u, v, Fold(world, u, r), Fold(world, v, r))
           S == {n \in Nat : \A r \in Seq(PlanStep) : Len(r) = n => Kept(r)}
<1>1. ASSUME NEW r \in Seq(PlanStep) PROVE Len(r) \in Nat /\ (Len(r) = 0 => r = <<>>)
  BY EmptySeq, LenProperties
<1>2. 0 \in S
  <2>1. Kept(<<>>)
    BY CarriesNothing, FoldNothing
  <2> HIDE DEF Kept
  <2> QED
    BY <1>1, <2>1
<1>3. ASSUME NEW n \in Nat, n \in S PROVE n + 1 \in S
  <2>1. ASSUME NEW r \in Seq(PlanStep), Len(r) = n + 1,
               NEW u \in SimulationRecord, NEW v \in SimulationRecord, Below(u, v)
        PROVE  Carries(u, v, Fold(world, u, r), Fold(world, v, r))
    <3> DEFINE u2 == Do(world, u, Head(r))
               v2 == Do(world, v, Head(r))
               rest == Tail(r)
    <3>1. r # <<>>
      BY <2>1, EmptySeq
    <3>2. Head(r) \in PlanStep /\ rest \in Seq(PlanStep) /\ Len(rest) = n
      BY <1>1, <2>1, <3>1, HeadTailProperties
    <3>3. Carries(u, v, u2, v2)
      BY <2>1, <3>2, DoCarries
    <3>4. Fold(world, u, r) = Fold(world, u2, rest) /\ Fold(world, v, r) = Fold(world, v2, rest)
      BY <3>1, FoldFirst
    <3> HIDE DEF u2, v2, rest
    <3>5. Carries(u2, v2, Fold(world, u2, rest), Fold(world, v2, rest))
      BY <1>3, <3>2, <3>3 DEF Carries
    <3>6. Carries(u, v, Fold(world, u2, rest), Fold(world, v2, rest))
      BY <3>3, <3>5, CarriesTwice
    <3> QED
      BY <3>4, <3>6
  <2> QED
    BY <2>1
<1>4. Len(q) \in S
  <2> HIDE DEF S
  <2> QED
    BY <1>1, <1>2, <1>3, InductionOnNat
<1>5. Kept(q)
  BY <1>4
<1> QED
  BY <1>5

LEMMA BelowItself ==
    ASSUME NEW s \in SimulationRecord PROVE Below(s, s)
  BY DEF Below, SimulationRecord

\* Two worlds in which every feasible step does the same.
LEMMA FoldAgrees ==
    ASSUME NEW w, NEW z,
           \A u \in SimulationRecord, x \in PlanStep : Do(w, u, x).feasible => Do(z, u, x) = Do(w, u, x),
           NEW s \in SimulationRecord, NEW q \in Seq(PlanStep), Fold(w, s, q).feasible
    PROVE  Fold(z, s, q) = Fold(w, s, q)
<1> DEFINE Kept(r) == \A u \in SimulationRecord :
                         Fold(w, u, r).feasible => Fold(z, u, r) = Fold(w, u, r)
           S == {n \in Nat : \A r \in Seq(PlanStep) : Len(r) = n => Kept(r)}
<1>1. ASSUME NEW r \in Seq(PlanStep) PROVE Len(r) \in Nat /\ (Len(r) = 0 => r = <<>>)
  BY EmptySeq, LenProperties
<1>2. 0 \in S
  <2>1. Kept(<<>>)
    BY FoldNothing
  <2> HIDE DEF Kept
  <2> QED
    BY <1>1, <2>1
<1>3. ASSUME NEW n \in Nat, n \in S PROVE n + 1 \in S
  <2>1. ASSUME NEW r \in Seq(PlanStep), Len(r) = n + 1,
               NEW u \in SimulationRecord, Fold(w, u, r).feasible
        PROVE  Fold(z, u, r) = Fold(w, u, r)
    <3> DEFINE u2 == Do(w, u, Head(r))
               rest == Tail(r)
    <3>1. r # <<>>
      BY <2>1, EmptySeq
    <3>2. Head(r) \in PlanStep /\ rest \in Seq(PlanStep) /\ Len(rest) = n
      BY <1>1, <2>1, <3>1, HeadTailProperties
    <3>3. u2 \in SimulationRecord
      BY <3>2, BelowItself, DoCarries DEF Carries
    <3>4. Fold(w, u, r) = Fold(w, u2, rest) /\ Fold(z, u, r) = Fold(z, Do(z, u, Head(r)), rest)
      BY <3>1, FoldFirst
    <3> HIDE DEF u2, rest
    <3>5. Fold(w, u2, rest).feasible => u2.feasible
      BY <3>2, <3>3, BelowItself, FoldCarries DEF Carries
    <3>6. Do(z, u, Head(r)) = u2
      BY <2>1, <3>2, <3>4, <3>5 DEF u2
    <3>7. Fold(z, u2, rest) = Fold(w, u2, rest)
      BY <1>3, <2>1, <3>2, <3>3, <3>4
    <3> QED
      BY <3>4, <3>6, <3>7
  <2> QED
    BY <2>1
<1>4. Len(q) \in S
  <2> HIDE DEF S
  <2> QED
    BY <1>1, <1>2, <1>3, InductionOnNat
<1>5. Kept(q)
  BY <1>4
<1> QED
  BY <1>5

LEMMA FoldFewerProtected ==
    ASSUME NEW s \in SimulationRecord, NEW live, NEW protected, NEW fewer \in SUBSET protected,
           NEW q \in Seq(PlanStep), Fold(<<live, protected>>, s, q).feasible
    PROVE  Fold(<<live, fewer>>, s, q) = Fold(<<live, protected>>, s, q)
<1> DEFINE w == <<live, protected>>
           z == <<live, fewer>>
<1>1. ASSUME NEW u \in SimulationRecord, NEW x \in PlanStep, Do(w, u, x).feasible
      PROVE  Do(z, u, x) = Do(w, u, x)
  BY <1>1, FewerProtected DEF Do, PlanStep
<1> HIDE DEF w, z
<1>2. Fold(w, s, q).feasible => Fold(z, s, q) = Fold(w, s, q)
  BY <1>1, FoldAgrees
<1> QED
  BY <1>2 DEF w, z

\* The dry run of a plan is one fold over its actions and reservations.
LEMMA PlanIsFold ==
    ASSUME NEW plan \in ResidencyPlan, NEW sim, NEW live, NEW protected
    PROVE  LET q == plan.reclaim \o (plan.reservations \o (plan.enter \o plan.exit))
           IN  /\ q \in Seq(PlanStep)
               /\ ExplainPlan(sim, plan, live, protected) = Fold(<<live, protected>>, sim, q)
<1> DEFINE later == plan.enter \o plan.exit
           rest == plan.reservations \o later
           q == plan.reclaim \o rest
           world == <<live, protected>>
           first == ExplainActions(sim, plan.reclaim, live, protected)
           second == Ext!FoldLeft(AdmitReservation, first, plan.reservations)
<1>1. /\ plan.reclaim \in Seq(ResidencyAction) /\ plan.reservations \in Seq(MemoryReservation)
      /\ plan.enter \in Seq(ResidencyAction) /\ plan.exit \in Seq(ResidencyAction)
  BY DEF ResidencyPlan
<1>2. later \in Seq(ResidencyAction)
  BY <1>1, ConcatProperties
<1>3. ExplainPlan(sim, plan, live, protected) = ExplainActions(second, later, live, protected)
  BY DEF ExplainPlan
<1> HIDE DEF later
<1>4. plan.reclaim \in Seq(PlanStep) /\ plan.reservations \in Seq(PlanStep) /\ later \in Seq(PlanStep)
  BY <1>1, <1>2, SeqMonotonic DEF PlanStep
<1>5. rest \in Seq(PlanStep)
  BY <1>4, ConcatProperties
<1>6. second = Fold(world, first, plan.reservations)
  BY <1>1, AdmitIsFold
<1>7. first = Fold(world, sim, plan.reclaim)
  BY <1>1, ExplainIsFold
<1>8. ExplainActions(second, later, live, protected) = Fold(world, second, later)
  BY <1>2, ExplainIsFold
<1> HIDE DEF world, first, second
<1>9. Fold(world, first, rest) = Fold(world, second, later)
  BY <1>4, <1>6, FoldConcat
<1> HIDE DEF rest
<1>10. Fold(world, sim, q) = Fold(world, first, rest)
  BY <1>4, <1>5, <1>7, FoldConcat
<1>11. q \in Seq(PlanStep)
  BY <1>4, <1>5, ConcatProperties
<1> HIDE DEF q
<1>12. ExplainPlan(sim, plan, live, protected) = Fold(world, sim, q)
  BY <1>3, <1>8, <1>9, <1>10
<1> QED
  BY <1>11, <1>12 DEF q, rest, later, world

-----------------------------------------------------------------------------
(* The running plan *)

World == <<Live, ProtectedPairs>>

\* Placement and accounting as the dry run sees them: the temporary charge of a
\* load in progress belongs to the request that is being simulated.
Planned ==
    [locations |-> materializations,
     discarded |-> {v \in Values : records[v] = "discarded"},
     used |-> used_bytes,
     reserved |-> [l \in Locations |-> reserved_bytes[l] - Loading(l)],
     peaks |-> [l \in Locations |-> used_bytes[l] + (reserved_bytes[l] - Loading(l))],
     feasible |-> TRUE]

Plan == scopes[op.scope].plan

\* What the lock holder still has to run of the plan it preflighted.
Agenda ==
    CASE op.kind = "execute" -> op.todo
      [] op.kind = "reclaim" -> op.todo \o (Plan.reservations \o (Plan.enter \o Plan.exit))
      [] op.kind = "reserve" -> op.reserve \o (Plan.enter \o Plan.exit)
      [] op.kind = "enter"   -> op.todo \o Plan.exit

\* The steps q are possible one after the other and keep the peaks below limit.
Succeeds(world, sim, q, limit) ==
    /\ Fold(world, sim, q).feasible
    /\ \A l \in Locations : Fold(world, sim, q).peaks[l] <= limit[l]

\* The inductive invariant: a dry run of the rest of the plan, started in the
\* current state, still succeeds and stays below the predicted peaks.
DryRun == Preflighted => Succeeds(World, Planned, Agenda, predicted)

\* A scope works through its lists one after another, and a load belongs to
\* the request at the head of the list.
AgendaConsistent ==
    /\ op.kind # "reserve" => op.reserve = <<>>
    /\ op.kind = "reserve" => op.todo = <<>>
    /\ CallbackActive =>
         /\ op.load = [handle |-> Request.handle, to |-> Request.to]
         /\ Request.op \in {"ensure", "move"} /\ Request.from = NoLocation
    /\ predicted \in [Locations -> Int]

LEMMA LoadingTyped == TypeOK => \A l \in Locations : Loading(l) \in Nat
<1> SUFFICES ASSUME TypeOK PROVE \A l \in Locations : Loading(l) \in Nat
  OBVIOUS
<1>1. op.load \in Load \cup {NoLoad}
  BY DEF TypeOK, ControlTyped, Operation
<1>2. CallbackActive => op.load.handle \in Values
  BY <1>1 DEF CallbackActive, Load
<1> QED
  BY <1>2, SpecAssumption DEF Loading

PlannedOK == Planned \in SimulationRecord

LEMMA PlannedTyped == TypeOK => PlannedOK
<1> SUFFICES ASSUME TypeOK PROVE Planned \in SimulationRecord
  BY DEF PlannedOK
<1>1. materializations \in [Values -> SUBSET Locations] /\ used_bytes \in [Locations -> Int]
      /\ reserved_bytes \in [Locations -> Int]
  BY DEF TypeOK, PlacementTyped, HeadroomTyped
<1>2. \A l \in Locations : Loading(l) \in Nat
  BY LoadingTyped
<1>3. /\ [l \in Locations |-> reserved_bytes[l] - Loading(l)] \in [Locations -> Int]
      /\ [l \in Locations |-> used_bytes[l] + (reserved_bytes[l] - Loading(l))] \in [Locations -> Int]
  BY <1>1, <1>2
<1> QED
  BY <1>1, <1>3 DEF Planned, SimulationRecord

\* While no callback runs the dry run starts from what the preflight reads.
LEMMA PlannedAtRest == TypeOK /\ ~CallbackActive => Planned = Simulation
<1> SUFFICES ASSUME TypeOK, ~CallbackActive PROVE Planned = Simulation
  OBVIOUS
<1>1. reserved_bytes \in [Locations -> Int]
  BY DEF TypeOK, HeadroomTyped
<1>2. \A l \in Locations : reserved_bytes[l] - Loading(l) = reserved_bytes[l]
  BY <1>1 DEF Loading
<1>3. [l \in Locations |-> reserved_bytes[l] - Loading(l)] = reserved_bytes
  BY <1>1, <1>2
<1>4. [l \in Locations |-> used_bytes[l] + (reserved_bytes[l] - Loading(l))]
        = [l \in Locations |-> used_bytes[l] + reserved_bytes[l]]
  BY <1>2
<1> QED
  BY <1>3, <1>4 DEF Planned, Simulation

LEMMA AgendaTyped == TypeOK /\ ControlConsistent /\ Preflighted => Agenda \in Seq(PlanStep)
<1> SUFFICES ASSUME TypeOK, ControlConsistent, Preflighted PROVE Agenda \in Seq(PlanStep)
  OBVIOUS
<1>1. op.todo \in Seq(ResidencyAction) /\ op.reserve \in Seq(MemoryReservation)
  BY DEF TypeOK, ControlTyped, Operation
<1>2. op.todo \in Seq(PlanStep) /\ op.reserve \in Seq(PlanStep)
  BY <1>1, SeqMonotonic DEF PlanStep
<1>3. CASE op.kind = "execute"
  BY <1>2, <1>3 DEF Agenda
<1>4. CASE op.kind # "execute"
  <2>1. op.scope \in Scopes
    BY <1>4 DEF Preflighted, ControlConsistent, TypeOK, ControlTyped, Operation
  <2>2. Plan \in Plans
    BY <1>4, <2>1 DEF Preflighted, ControlConsistent, Plan
  <2>3. Plan.reservations \in Seq(MemoryReservation) /\ Plan.enter \in Seq(ResidencyAction)
        /\ Plan.exit \in Seq(ResidencyAction)
    BY <2>2, PlanTyped
  <2>4. Plan.reservations \in Seq(PlanStep) /\ Plan.enter \in Seq(PlanStep) /\ Plan.exit \in Seq(PlanStep)
    BY <2>3, SeqMonotonic DEF PlanStep
  <2>5. \A p, q \in Seq(PlanStep) : p \o q \in Seq(PlanStep)
    BY ConcatProperties
  <2> HIDE DEF Plan
  <2> QED
    BY <1>2, <1>4, <2>4, <2>5 DEF Agenda, Preflighted
<1> QED
  BY <1>3, <1>4

\* From s with the agenda q a step leads to s2 with the agenda r: it ran the head
\* of the agenda, or none of it, and ended below the simulation.
Proceeds(world, s, q, s2, r) ==
    \/ r = q /\ Below(s2, s)
    \/ q # <<>> /\ r = Tail(q) /\ Below(s2, Do(world, s, Head(q)))

\* Such a step keeps the dry run successful, also when reads end meanwhile.
LEMMA Advances ==
    ASSUME NEW s \in SimulationRecord, NEW s2 \in SimulationRecord,
           NEW live, NEW protected, NEW fewer \in SUBSET protected,
           NEW q \in Seq(PlanStep), NEW r, NEW limit \in [Locations -> Int],
           Succeeds(<<live, protected>>, s, q, limit), Proceeds(<<live, protected>>, s, q, s2, r)
    PROVE  Succeeds(<<live, fewer>>, s2, r, limit)
<1> DEFINE w == <<live, protected>>
           z == <<live, fewer>>
           end == Fold(w, s, q)
<1>1. PICK t \in SimulationRecord : Below(s2, t) /\ r \in Seq(PlanStep) /\ Fold(w, t, r) = end
  <2>1. CASE r = q /\ Below(s2, s)
    BY <2>1
  <2>2. CASE q # <<>> /\ r = Tail(q) /\ Below(s2, Do(w, s, Head(q)))
    <3>1. Head(q) \in PlanStep /\ Tail(q) \in Seq(PlanStep)
      BY <2>2, HeadTailProperties
    <3>2. Do(w, s, Head(q)) \in SimulationRecord
      BY <3>1, BelowItself, DoCarries DEF Carries
    <3>3. Fold(w, s, q) = Fold(w, Do(w, s, Head(q)), Tail(q))
      BY <2>2, FoldFirst
    <3> QED
      BY <2>2, <3>1, <3>2, <3>3
  <2> QED
    BY <2>1, <2>2 DEF Proceeds
<1>2. Carries(s2, t, Fold(w, s2, r), end)
  BY <1>1, FoldCarries
<1>3. /\ Fold(w, s2, r).feasible = end.feasible
      /\ \A l \in Locations : Fold(w, s2, r).peaks[l] <= end.peaks[l]
      /\ \A l \in Locations : Fold(w, s2, r).peaks[l] \in Int /\ end.peaks[l] \in Int /\ limit[l] \in Int
  BY <1>2 DEF Carries, Below, SimulationRecord
<1>4. end.feasible /\ \A l \in Locations : end.peaks[l] <= limit[l]
  BY DEF Succeeds
<1>5. Fold(z, s2, r) = Fold(w, s2, r)
  BY <1>1, <1>3, <1>4, FoldFewerProtected
<1> HIDE DEF w, z, end
<1>6. /\ Fold(z, s2, r).feasible
      /\ \A l \in Locations : Fold(z, s2, r).peaks[l] <= limit[l]
  <2>1. Fold(z, s2, r).feasible
    BY <1>3, <1>4, <1>5
  <2>2. ASSUME NEW l \in Locations PROVE Fold(z, s2, r).peaks[l] <= limit[l]
    <3> DEFINE a == Fold(w, s2, r).peaks[l]
               b == end.peaks[l]
               c == limit[l]
    <3>1. a \in Int /\ b \in Int /\ c \in Int /\ a <= b /\ b <= c
      BY <1>3, <1>4
    <3> HIDE DEF a, b, c
    <3>2. a <= c
      BY <3>1
    <3> QED
      BY <1>5, <3>2 DEF a, c
  <2> QED
    BY <2>1, <2>2
<1> QED
  BY <1>6 DEF z, Succeeds

\* No step makes more pairs protected while the lock is held.
LEMMA ProtectionShrinks ==
    ASSUME TypeOK, UNCHANGED <<use_tokens, hold_tokens>>,
           \/ Reap /\ UNCHANGED reading
           \/ /\ UNCHANGED <<leases, pending_tokens>>
              /\ \A t \in Leases : leases[t].state = "pending" /\ t \in reading' => t \in reading
    PROVE  ProtectedPairs' \subseteq ProtectedPairs
<1>1. \A v \in Values, l \in Locations : ReapedTokens'[v][l] \subseteq ReapedTokens[v][l]
  <2>1. CASE Reap /\ UNCHANGED reading
    BY <2>1 DEF Reap, ReapedTokens
  <2>2. CASE /\ UNCHANGED <<leases, pending_tokens>>
             /\ \A t \in Leases : leases[t].state = "pending" /\ t \in reading' => t \in reading
    <3>1. Finished \subseteq Finished'
      BY <2>2 DEF Finished
    <3> QED
      BY <2>2, <3>1 DEF ReapedTokens
  <2> QED
    BY <2>1, <2>2
<1>2. \A v \in Values, l \in Locations : Protected(v, l)' => Protected(v, l)
  BY <1>1 DEF Protected
<1> QED
  BY <1>2 DEF ProtectedPairs

-----------------------------------------------------------------------------
(* Every transition ends below the simulated request *)

Fields ==
    /\ Planned.locations = materializations
    /\ Planned.discarded = {v \in Values : records[v] = "discarded"}
    /\ Planned.used = used_bytes /\ Planned.reserved = reserved_bytes
    /\ Planned.feasible = TRUE
    /\ \A l \in Locations : Planned.peaks[l] = used_bytes[l] + reserved_bytes[l]

LEMMA FieldsAtRest == TypeOK /\ ~CallbackActive => Fields
BY PlannedAtRest DEF Fields, Simulation

LEMMA DoRequest ==
    ASSUME TypeOK, op.todo # <<>>, records[Request.handle] = "live"
    PROVE  /\ Request.op = "ensure" =>
                Do(World, Planned, Request) = SimulateEnsure(Planned, Request)
           /\ Request.op = "move" =>
                Do(World, Planned, Request) = SimulateMove(Planned, Request, ProtectedPairs)
           /\ Request.op = "drop" =>
                Do(World, Planned, Request) = SimulateDrop(Planned, Request, ProtectedPairs)
           /\ Request.op = "discard" =>
                Do(World, Planned, Request) = SimulateDiscard(Planned, Request, ProtectedPairs)
<1>1. Request \in ResidencyAction
  BY HeadRequestTyped
<1>2. Request \notin MemoryReservation /\ Request.handle \in Values
  BY <1>1, RequestIsNoReservation, RequestTyped
<1>3. Planned.feasible = TRUE /\ Planned.discarded = {v \in Values : records[v] = "discarded"}
  BY DEF Planned
<1>4. Request.handle \in Live /\ Request.handle \notin Planned.discarded
  BY <1>2, <1>3 DEF Live
<1>5. Do(World, Planned, Request) = SimulateAction(Planned, Request, Live, ProtectedPairs)
  BY <1>2 DEF Do, World
<1> HIDE DEF Request
<1> QED
  BY <1>3, <1>4, <1>5 DEF SimulateAction

\* A transition that leaves the counters below, and the rest as, a simulation.
LEMMA BelowAtRest ==
    ASSUME NEW t, Fields',
           t.locations = materializations', t.used = used_bytes', t.reserved = reserved_bytes',
           t.discarded = {v \in Values : records'[v] = "discarded"}, t.feasible = TRUE,
           \A l \in Locations : used_bytes'[l] + reserved_bytes'[l] <= t.peaks[l]
    PROVE  Below(Planned', t)
BY DEF Fields, Below

Simulated == Below(Planned', Do(World, Planned, Request))

LEMMA InstallSimulated ==
    ASSUME TypeOK, TypeOK', Fields, Fields', op.todo # <<>>, Request.op # "discard",
           Fits(Request.to, Nbytes), Install(Request.handle, Request.to),
           UNCHANGED <<records, reserved_bytes>>
    PROVE  /\ AddReplica(Planned, Request.handle, Request.to).feasible
           /\ Below(Planned', AddReplica(Planned, Request.handle, Request.to))
<1> DEFINE v == Request.handle
           l == Request.to
           n == Nbytes
           t == AddReplica(Planned, v, l)
           u == Touch(Planned, l, n)
<1>1. v \in Values /\ l \in Locations /\ n \in Nat /\ n = Size[v]
  BY HeadRequestTyped, RequestTyped, SpecAssumption DEF Nbytes
<1>2. Planned \in SimulationRecord
  BY PlannedTyped DEF PlannedOK
<1>3. Budget[l] # NoBudget => n <= Budget[l] - used_bytes[l] - reserved_bytes[l]
  BY DEF Fits
<1>4. used_bytes \in [Locations -> Int] /\ reserved_bytes \in [Locations -> Int]
      /\ (Budget[l] # NoBudget => Budget[l] \in Nat)
  BY <1>1, LocationAssumption DEF TypeOK, PlacementTyped, HeadroomTyped
<1>5. /\ materializations' = [materializations EXCEPT ![v] = @ \cup {l}]
      /\ used_bytes' = [used_bytes EXCEPT ![l] = @ + n]
  BY <1>1 DEF Install, Charge
<1> HIDE DEF v, l, n
<1>6. u.feasible /\ \A m \in Locations : u.peaks[m] =
        IF m = l THEN Larger(Planned.peaks[l], used_bytes[l] + reserved_bytes[l] + n)
        ELSE Planned.peaks[m]
  <2>1. u.feasible = (Planned.feasible /\
          (Budget[l] # NoBudget => Planned.used[l] + Planned.reserved[l] + n <= Budget[l]))
    BY <1>1, <1>2, TouchFacts
  <2>2. \A m \in Locations : u.peaks[m] =
        IF m = l THEN Larger(Planned.peaks[l], Planned.used[l] + Planned.reserved[l] + n)
        ELSE Planned.peaks[m]
    BY <1>1, <1>2, TouchFacts
  <2>3. Planned.used[l] = used_bytes[l] /\ Planned.reserved[l] = reserved_bytes[l]
        /\ Planned.feasible = TRUE
    BY DEF Fields
  <2>4. Budget[l] # NoBudget => used_bytes[l] + reserved_bytes[l] + n <= Budget[l]
    BY <1>1, <1>3, <1>4
  <2> QED
    BY <2>1, <2>2, <2>3, <2>4
<1>7. t = [locations |-> [Planned.locations EXCEPT ![v] = @ \cup {l}],
           discarded |-> Planned.discarded,
           used |-> [Planned.used EXCEPT ![l] = @ + n], reserved |-> Planned.reserved,
           peaks |-> u.peaks, feasible |-> TRUE]
  BY <1>1, <1>2, <1>6, AddReplicaFacts
<1>8. \A m \in Locations : used_bytes'[m] + reserved_bytes'[m] <= u.peaks[m]
  BY <1>1, <1>4, <1>5, <1>6 DEF Fields, Larger
<1> HIDE DEF u
<1>9. t.locations = materializations' /\ t.used = used_bytes' /\ t.reserved = reserved_bytes'
      /\ t.discarded = {x \in Values : records'[x] = "discarded"} /\ t.feasible = TRUE
      /\ t.peaks = u.peaks
  BY <1>5, <1>7 DEF Fields
<1> HIDE DEF t
<1>10. t.feasible /\ Below(Planned', t)
  BY <1>8, <1>9, BelowAtRest
<1> QED
  BY <1>10 DEF t, v, l

LEMMA RemoveSimulated ==
    ASSUME TypeOK, TypeOK', Fields, Fields', NEW v \in Values, NEW l \in Locations, Uninstall(v, l),
           UNCHANGED <<records, reserved_bytes>>
    PROVE  Below(Planned', RemoveReplica(Planned, v, l))
<1> DEFINE t == RemoveReplica(Planned, v, l)
<1>1. Planned \in SimulationRecord /\ Size[v] \in Nat
  BY PlannedTyped, SpecAssumption DEF PlannedOK
<1>2. t = [locations |-> [Planned.locations EXCEPT ![v] = @ \ {l}], discarded |-> Planned.discarded,
           used |-> [Planned.used EXCEPT ![l] = @ - Size[v]], reserved |-> Planned.reserved,
           peaks |-> Planned.peaks, feasible |-> Planned.feasible]
  BY <1>1, RemoveReplicaFacts
<1>3. used_bytes \in [Locations -> Int] /\ reserved_bytes \in [Locations -> Int]
  BY DEF TypeOK, PlacementTyped, HeadroomTyped
<1>4. /\ materializations' = [materializations EXCEPT ![v] = @ \ {l}]
      /\ used_bytes' = [used_bytes EXCEPT ![l] = @ - Size[v]]
  BY DEF Uninstall, Uncharge
<1>5. \A m \in Locations : used_bytes'[m] + reserved_bytes'[m] <= Planned.peaks[m]
  BY <1>1, <1>3, <1>4 DEF Fields
<1>6. t.locations = materializations' /\ t.used = used_bytes' /\ t.reserved = reserved_bytes'
      /\ t.discarded = {x \in Values : records'[x] = "discarded"} /\ t.feasible = TRUE
      /\ t.peaks = Planned.peaks
  BY <1>2, <1>4 DEF Fields
<1> HIDE DEF t
<1>7. Below(Planned', t)
  BY <1>5, <1>6, BelowAtRest
<1> QED
  BY <1>7 DEF t

LEMMA NoOpSimulated ==
    ASSUME TypeOK, TypeOK', ControlConsistent, Fields, Fields', StepNoOp
    PROVE  Simulated
<1>1. op.todo # <<>> /\ records[Request.handle] = "live" /\ NoOp
      /\ UNCHANGED <<records, materializations, used_bytes, reserved_bytes>>
  BY DEF StepNoOp, Succeed, Ready, placement, headroom
<1>2. Do(World, Planned, Request) = Planned
  <2>1. CASE Request.op = "ensure" /\ Request.to \in Resident
    BY <1>1, <2>1, DoRequest DEF SimulateEnsure, Fields, Resident
  <2>2. CASE Request.op = "move" /\ Request.to \in Resident /\ Source \in {NoLocation, Request.to}
    <3>1. ~(Request.from # NoLocation /\ Request.from \notin Resident)
      BY <2>2 DEF Source, SelectSource
    <3> QED
      BY <1>1, <2>2, <3>1, DoRequest DEF SimulateMove, Fields, Resident, Source
  <2>3. CASE Request.op = "drop" /\ Request.to \notin Resident
    BY <1>1, <2>3, DoRequest DEF SimulateDrop, Fields, Resident
  <2> QED
    BY <1>1, <2>1, <2>2, <2>3 DEF NoOp
<1>3. used_bytes \in [Locations -> Int] /\ reserved_bytes \in [Locations -> Int]
  BY DEF TypeOK, PlacementTyped, HeadroomTyped
<1>4. \A l \in Locations : used_bytes'[l] + reserved_bytes'[l] <= Planned.peaks[l]
  BY <1>1, <1>3 DEF Fields
<1>5. Below(Planned', Planned)
  BY <1>1, <1>4, BelowAtRest DEF Fields
<1> QED
  BY <1>2, <1>5 DEF Simulated

LEMMA ReplicateSimulated ==
    ASSUME TypeOK, TypeOK', ControlConsistent, Fields, Fields', StepReplicate
    PROVE  Simulated
<1>1. op.todo # <<>> /\ records[Request.handle] = "live" /\ CanReplicate
      /\ Install(Request.handle, Request.to) /\ UNCHANGED <<records, reserved_bytes>>
  BY DEF StepReplicate, Succeed, Ready, headroom
<1>2. Do(World, Planned, Request) = AddReplica(Planned, Request.handle, Request.to)
  BY <1>1, DoRequest DEF SimulateEnsure, Fields, Resident, CanReplicate
<1> QED
  BY <1>1, <1>2, InstallSimulated DEF Simulated, CanReplicate

LEMMA CollapseSimulated ==
    ASSUME TypeOK, TypeOK', ControlConsistent, Fields, Fields', StepCollapse
    PROVE  Simulated
<1>1. op.todo # <<>> /\ records[Request.handle] = "live" /\ CanCollapse
      /\ Uninstall(Request.handle, Source) /\ UNCHANGED <<records, reserved_bytes>>
  BY DEF StepCollapse, Succeed, Ready, headroom
<1>2. Request.handle \in Values /\ Resident \in SUBSET Locations
  BY <1>1, HeadRequestTyped, RequestTyped DEF Resident, TypeOK, PlacementTyped
<1>3. Source \in Locations /\ <<Request.handle, Source>> \notin ProtectedPairs
      /\ Source \notin {NoLocation, Request.to}
  BY <1>1, <1>2, NoneAssumption DEF CanCollapse, Removable, ProtectedPairs
<1>4. ~(Request.from # NoLocation /\ Request.from \notin Resident)
  BY <1>1 DEF Source, SelectSource, CanCollapse
<1>5. Do(World, Planned, Request) = RemoveReplica(Planned, Request.handle, Source)
  <2>1. Do(World, Planned, Request) = SimulateMove(Planned, Request, ProtectedPairs)
        /\ Planned.locations[Request.handle] = Resident
    BY <1>1, DoRequest DEF Fields, Resident, CanCollapse
  <2> QED
    BY <1>1, <1>3, <1>4, <2>1 DEF SimulateMove, CanCollapse, Source
<1> QED
  BY <1>1, <1>2, <1>3, <1>5, RemoveSimulated DEF Simulated

LEMMA DropSimulated ==
    ASSUME TypeOK, TypeOK', ControlConsistent, Fields, Fields', StepDrop
    PROVE  Simulated
<1>1. op.todo # <<>> /\ records[Request.handle] = "live" /\ CanDrop
      /\ Uninstall(Request.handle, Request.to) /\ UNCHANGED <<records, reserved_bytes>>
  BY DEF StepDrop, Succeed, Ready, headroom
<1>2. Request.handle \in Values /\ Request.to \in Locations
  BY <1>1, HeadRequestTyped, RequestTyped DEF CanDrop
<1>3. <<Request.handle, Request.to>> \notin ProtectedPairs
  BY <1>1 DEF CanDrop, Removable, ProtectedPairs
<1>4. Do(World, Planned, Request) = RemoveReplica(Planned, Request.handle, Request.to)
  BY <1>1, <1>3, DoRequest DEF SimulateDrop, Fields, Resident, CanDrop
<1> QED
  BY <1>1, <1>2, <1>4, RemoveSimulated DEF Simulated

LEMMA DiscardSimulated ==
    ASSUME TypeOK, TypeOK', ControlConsistent, Fields, Fields', StepDiscard
    PROVE  Simulated
<1> DEFINE v == Request.handle
           t == SimulateDiscard(Planned, Request, ProtectedPairs)
           u == [l \in Locations |-> used_bytes[l] - IF l \in Resident THEN Nbytes ELSE 0]
<1>1. /\ op.todo # <<>> /\ records[v] = "live" /\ CanDiscard
      /\ materializations' = [materializations EXCEPT ![v] = {}]
      /\ used_bytes' = u
      /\ records' = [records EXCEPT ![v] = "discarded"]
      /\ reserved_bytes' = reserved_bytes
  BY DEF StepDiscard, Succeed, Ready, headroom
<1>2. Request \in ResidencyAction /\ v \in Values /\ Request.op = "discard"
  BY <1>1, HeadRequestTyped, RequestTyped DEF CanDiscard
<1>3. Planned \in SimulationRecord /\ Size[v] \in Nat
  BY <1>2, PlannedTyped, SpecAssumption DEF PlannedOK
<1>4. used_bytes \in [Locations -> Int] /\ reserved_bytes \in [Locations -> Int]
  BY DEF TypeOK, PlacementTyped, HeadroomTyped
<1>5. ~ \E l \in Planned.locations[v] : <<v, l>> \in ProtectedPairs
  BY <1>1 DEF CanDiscard, Removable, ProtectedPairs, Fields, Resident
<1>6. u = [l \in Locations |-> Planned.used[l] - IF l \in Planned.locations[v] THEN Size[v] ELSE 0]
  BY DEF Fields, Resident, Nbytes
<1>7. \A l \in Locations : u[l] + reserved_bytes[l] <= Planned.peaks[l]
  BY <1>3, <1>4 DEF Fields, Nbytes
<1> HIDE DEF u
<1>8. t = [locations |-> [Planned.locations EXCEPT ![v] = {}],
           discarded |-> Planned.discarded \cup {v},
           used |-> u, reserved |-> Planned.reserved, peaks |-> Planned.peaks,
           feasible |-> Planned.feasible]
  BY <1>2, <1>3, <1>5, <1>6, DiscardFacts
<1>9. Planned.discarded \cup {v} = {x \in Values : records'[x] = "discarded"}
  <2>1. records \in [Values -> {"absent", "live", "discarded"}]
    BY DEF TypeOK, PlacementTyped
  <2>2. Planned.discarded = {x \in Values : records[x] = "discarded"}
    BY DEF Fields
  <2> QED
    BY <1>1, <1>2, <2>1, <2>2
<1>10. Do(World, Planned, Request) = t
  BY <1>1, <1>2, DoRequest
<1>11. t.locations = materializations' /\ t.used = used_bytes' /\ t.reserved = reserved_bytes'
       /\ t.discarded = {x \in Values : records'[x] = "discarded"} /\ t.feasible = TRUE
       /\ t.peaks = Planned.peaks
  BY <1>1, <1>8, <1>9 DEF Fields
<1> HIDE DEF t
<1>12. Below(Planned', t)
  BY <1>1, <1>7, <1>11, BelowAtRest
<1> QED
  BY <1>10, <1>12 DEF Simulated

\* A move copies, then gives its source up: the peak includes both replicas.
LEMMA MoveSimulated ==
    ASSUME TypeOK, TypeOK', ControlConsistent, Fields, Fields', StepMove
    PROVE  Simulated
<1> DEFINE v == Request.handle
           l == Request.to
           m == Source
           n == Nbytes
           u == Touch(Planned, l, n)
           a == AddReplica(Planned, v, l)
           t == RemoveReplica(a, v, m)
<1>1. /\ op.todo # <<>> /\ records[v] = "live" /\ CanMove
      /\ materializations' = [materializations EXCEPT ![v] = (@ \cup {l}) \ {m}]
      /\ used_bytes' = [[used_bytes EXCEPT ![l] = @ + n] EXCEPT ![m] = @ - n]
      /\ reserved_bytes' = reserved_bytes /\ records' = records
  BY DEF StepMove, Succeed, Ready, headroom, Uncharge, Charge
<1>2. v \in Values /\ Resident \in SUBSET Locations /\ l \in Locations
  BY <1>1, HeadRequestTyped, RequestTyped DEF Resident, TypeOK, PlacementTyped, CanMove
<1>3. m \in Locations /\ <<v, m>> \notin ProtectedPairs /\ l \notin Resident /\ m \in Resident
  BY <1>1, <1>2 DEF CanMove, Removable, ProtectedPairs
<1>4. ~(Request.from # NoLocation /\ Request.from \notin Resident) /\ Resident # {}
  BY <1>3 DEF Source, SelectSource
<1>5. Planned \in SimulationRecord /\ n \in Nat /\ n = Size[v]
  BY <1>2, PlannedTyped, SpecAssumption DEF Nbytes, PlannedOK
<1>6. used_bytes \in [Locations -> Int] /\ reserved_bytes \in [Locations -> Int]
      /\ (Budget[l] # NoBudget => Budget[l] \in Nat)
  BY <1>2, LocationAssumption DEF TypeOK, PlacementTyped, HeadroomTyped
<1>7. Budget[l] # NoBudget => n <= Budget[l] - used_bytes[l] - reserved_bytes[l]
  BY <1>1 DEF CanMove, Fits
<1>8. Do(World, Planned, Request) =
        (IF a.feasible THEN RemoveReplica(a, v, m) ELSE a)
  <2>1. Do(World, Planned, Request) = SimulateMove(Planned, Request, ProtectedPairs)
        /\ Planned.locations[v] = Resident
    BY <1>1, DoRequest DEF Fields, Resident, CanMove
  <2> QED
    BY <1>1, <1>3, <1>4, <2>1 DEF SimulateMove, CanMove, Source
<1> HIDE DEF v, l, m, n
<1>9. u.feasible /\ \A x \in Locations : u.peaks[x] =
        IF x = l THEN Larger(Planned.peaks[l], used_bytes[l] + reserved_bytes[l] + n)
        ELSE Planned.peaks[x]
  <2>1. u.feasible = (Planned.feasible /\
          (Budget[l] # NoBudget => Planned.used[l] + Planned.reserved[l] + n <= Budget[l]))
    BY <1>2, <1>5, TouchFacts
  <2>2. \A x \in Locations : u.peaks[x] =
        IF x = l THEN Larger(Planned.peaks[l], Planned.used[l] + Planned.reserved[l] + n)
        ELSE Planned.peaks[x]
    BY <1>2, <1>5, TouchFacts
  <2>3. Planned.used[l] = used_bytes[l] /\ Planned.reserved[l] = reserved_bytes[l]
        /\ Planned.feasible = TRUE
    BY DEF Fields
  <2>4. Budget[l] # NoBudget => used_bytes[l] + reserved_bytes[l] + n <= Budget[l]
    BY <1>2, <1>5, <1>6, <1>7
  <2> QED
    BY <2>1, <2>2, <2>3, <2>4
<1>10. a = [locations |-> [Planned.locations EXCEPT ![v] = @ \cup {l}],
            discarded |-> Planned.discarded,
            used |-> [Planned.used EXCEPT ![l] = @ + n], reserved |-> Planned.reserved,
            peaks |-> u.peaks, feasible |-> TRUE]
  BY <1>2, <1>5, <1>9, AddReplicaFacts
<1>11. a \in SimulationRecord
  BY <1>2, BelowItself, <1>5, AddReplicaCarries DEF Carries
<1> HIDE DEF u
<1>12. \A x \in Locations : used_bytes'[x] + reserved_bytes'[x] <= u.peaks[x]
  <2>1. /\ \A x \in Locations : used_bytes'[x] <= used_bytes[x] + IF x = l THEN n ELSE 0
        /\ used_bytes' \in [Locations -> Int]
    <3> DEFINE b == [used_bytes EXCEPT ![l] = @ + n]
    <3>1. b \in [Locations -> Int]
          /\ \A x \in Locations : b[x] = used_bytes[x] + IF x = l THEN n ELSE 0
      BY <1>2, <1>5, <1>6
    <3>2. used_bytes' = [b EXCEPT ![m] = @ - n]
      BY <1>1
    <3> HIDE DEF b
    <3>3. used_bytes' \in [Locations -> Int] /\ \A x \in Locations : used_bytes'[x] <= b[x]
      BY <1>3, <1>5, <3>1, <3>2
    <3> QED
      BY <3>1, <3>3
  <2>2. \A x \in Locations : Planned.peaks[x] = used_bytes[x] + reserved_bytes[x]
    BY DEF Fields
  <2>3. \A x \in Locations : used_bytes[x] + reserved_bytes[x] + (IF x = l THEN n ELSE 0) <= u.peaks[x]
    BY <1>2, <1>5, <1>6, <1>9, <2>2 DEF Larger
  <2>4. \A x \in Locations : u.peaks[x] \in Int
    BY <1>2, <1>5, <1>6, <1>9, <2>2 DEF Larger
  <2>5. ASSUME NEW x \in Locations
        PROVE  used_bytes'[x] + reserved_bytes[x] <= u.peaks[x]
    <3> DEFINE i == used_bytes[x]
               j == used_bytes'[x]
               k == reserved_bytes[x]
               p == u.peaks[x]
               d == IF x = l THEN n ELSE 0
    <3>1. i \in Int /\ j \in Int /\ k \in Int /\ p \in Int /\ d \in Int
      BY <1>5, <1>6, <2>1, <2>4
    <3>2. j <= i + d /\ i + k + d <= p
      BY <2>1, <2>3
    <3> HIDE DEF i, j, k, p, d
    <3>3. j + k <= p
      BY <3>1, <3>2
    <3> QED
      BY <3>3 DEF j, k, p
  <2> QED
    BY <1>1, <2>5
<1> HIDE DEF a
<1>13. t = [locations |-> [a.locations EXCEPT ![v] = @ \ {m}], discarded |-> a.discarded,
            used |-> [a.used EXCEPT ![m] = @ - n], reserved |-> a.reserved,
            peaks |-> a.peaks, feasible |-> a.feasible]
  BY <1>2, <1>3, <1>5, <1>11, RemoveReplicaFacts
<1> HIDE DEF t
<1>14. /\ t.locations = [[materializations EXCEPT ![v] = @ \cup {l}] EXCEPT ![v] = @ \ {m}]
       /\ t.used = [[used_bytes EXCEPT ![l] = @ + n] EXCEPT ![m] = @ - n]
       /\ t.reserved = reserved_bytes /\ t.discarded = {x \in Values : records[x] = "discarded"}
       /\ t.feasible = TRUE /\ t.peaks = u.peaks
  <2>1. /\ a.locations = [materializations EXCEPT ![v] = @ \cup {l}]
        /\ a.used = [used_bytes EXCEPT ![l] = @ + n] /\ a.reserved = reserved_bytes
        /\ a.discarded = {x \in Values : records[x] = "discarded"}
        /\ a.feasible = TRUE /\ a.peaks = u.peaks
    BY <1>10 DEF Fields
  <2> QED
    BY <1>13, <2>1
<1>15. materializations' = [[materializations EXCEPT ![v] = @ \cup {l}] EXCEPT ![v] = @ \ {m}]
  BY <1>1, <1>2 DEF TypeOK, PlacementTyped
<1>16. Below(Planned', t)
  <2>1. /\ t.locations = materializations' /\ t.used = used_bytes' /\ t.reserved = reserved_bytes'
        /\ t.discarded = {x \in Values : records'[x] = "discarded"} /\ t.feasible = TRUE
    BY <1>1, <1>14, <1>15
  <2>2. \A x \in Locations : used_bytes'[x] + reserved_bytes'[x] <= t.peaks[x]
    BY <1>12, <1>14
  <2> QED
    BY <2>1, <2>2, BelowAtRest
<1> QED
  BY <1>8, <1>10, <1>16 DEF Simulated, t

\* The charge of a load is temporary: the dry run does not move yet.
LEMMA StartLoadPlanned ==
    ASSUME TypeOK, ControlConsistent, StartLoad
    PROVE  Planned' = Planned
<1> DEFINE v == Request.handle
           l == SourceAt[v]
<1>1. /\ op.todo # <<>> /\ ~CallbackActive /\ NeedsLoad
      /\ reserved_bytes' = [reserved_bytes EXCEPT ![l] = @ + Size[v]]
      /\ op'.load = [handle |-> v, to |-> Request.to]
      /\ UNCHANGED <<records, materializations, used_bytes>>
  BY DEF StartLoad, Succeed, Ready, placement, Charge, Nbytes, TypeOK, ControlTyped, Operation
<1>2. v \in Values /\ l \in Locations /\ Size[v] \in Nat /\ Request.to \in Locations
  BY <1>1, HeadRequestTyped, RequestTyped, SpecAssumption DEF NeedsLoad, Reconstructible
<1>3. CallbackActive' /\ op'.load.handle = v
  <2>1. op'.load # NoLoad
    BY <1>1, <1>2, NoneAssumption DEF NoLoad
  <2> QED
    BY <1>1, <2>1 DEF CallbackActive
<1>4. reserved_bytes \in [Locations -> Int]
  BY DEF TypeOK, HeadroomTyped
<1> HIDE DEF v, l
<1>5. \A x \in Locations : Loading(x) = 0 /\ Loading(x)' = (IF x = l THEN Size[v] ELSE 0)
  BY <1>1, <1>3 DEF Loading, l
<1>6. \A x \in Locations : reserved_bytes'[x] - Loading(x)' = reserved_bytes[x] - Loading(x)
  BY <1>1, <1>2, <1>4, <1>5
<1>7. /\ [x \in Locations |-> reserved_bytes'[x] - Loading(x)']
            = [x \in Locations |-> reserved_bytes[x] - Loading(x)]
      /\ [x \in Locations |-> used_bytes'[x] + (reserved_bytes'[x] - Loading(x)')]
            = [x \in Locations |-> used_bytes[x] + (reserved_bytes[x] - Loading(x))]
  BY <1>1, <1>6
<1> QED
  BY <1>1, <1>7 DEF Planned

\* What the simulation of a load charges: the source location first, then the
\* destination.
LoadCharged(s, v, l, t) ==
    /\ SourceAt[v] \in Locations
    /\ t.locations = [s.locations EXCEPT ![v] = @ \cup {l}]
    /\ t.discarded = s.discarded
    /\ t.used = [s.used EXCEPT ![l] = @ + Size[v]]
    /\ t.reserved = s.reserved
    /\ t.feasible = TRUE
    /\ \A m \in Locations : s.peaks[m] <= t.peaks[m]
    /\ \A m \in {l, SourceAt[v]} :
         /\ s.used[m] + s.reserved[m] + Size[v] <= t.peaks[m]
         /\ Budget[m] # NoBudget => s.used[m] + s.reserved[m] + Size[v] <= Budget[m]

LEMMA FromSourceFacts ==
    ASSUME NEW s \in SimulationRecord, NEW v \in Values, NEW l \in Locations,
           FromSource(s, v, l).feasible
    PROVE  LoadCharged(s, v, l, FromSource(s, v, l))
<1> DEFINE n == Size[v]
           a == SourceAt[v]
           t == Touch(s, a, n)
           u == Touch(t, l, n)
           end == FromSource(s, v, l)
<1>0. s.feasible \in BOOLEAN /\ Infeasible(s).feasible = FALSE
  BY DEF SimulationRecord, Infeasible
<1>1. n \in Nat /\ Reconstructible(v)
  BY <1>0, SpecAssumption DEF FromSource
<1>2. a \in Locations
  BY <1>1, SpecAssumption DEF Reconstructible
<1>3. end = (IF t.feasible THEN AddReplica(t, v, l) ELSE t)
  BY <1>1 DEF FromSource, AddTemporary
<1>4. t.feasible /\ end = AddReplica(t, v, l)
  BY <1>3
<1> HIDE DEF n, a
<1>5. /\ t \in SimulationRecord /\ t.locations = s.locations /\ t.discarded = s.discarded
      /\ t.used = s.used /\ t.reserved = s.reserved
      /\ t.feasible = (s.feasible /\ (Budget[a] # NoBudget => s.used[a] + s.reserved[a] + n <= Budget[a]))
      /\ \A m \in Locations : t.peaks[m] =
           IF m = a THEN Larger(s.peaks[a], s.used[a] + s.reserved[a] + n) ELSE s.peaks[m]
  BY <1>1, <1>2, TouchFacts
<1> HIDE DEF t
<1>6. /\ u.feasible = (t.feasible /\ (Budget[l] # NoBudget => t.used[l] + t.reserved[l] + n <= Budget[l]))
      /\ \A m \in Locations : u.peaks[m] =
           IF m = l THEN Larger(t.peaks[l], t.used[l] + t.reserved[l] + n) ELSE t.peaks[m]
      /\ u \in SimulationRecord
  BY <1>1, <1>5, TouchFacts
<1>7. u.feasible
  <2>1. CASE ~u.feasible
    <3>1. AddReplica(t, v, l) = u
      BY <2>1 DEF AddReplica, n
    <3> QED
      BY <1>4, <2>1, <3>1
  <2> QED
    BY <2>1
<1>8. end = [locations |-> [t.locations EXCEPT ![v] = @ \cup {l}], discarded |-> t.discarded,
             used |-> [t.used EXCEPT ![l] = @ + n], reserved |-> t.reserved,
             peaks |-> u.peaks, feasible |-> TRUE]
  BY <1>4, <1>5, <1>7, AddReplicaFacts DEF n
<1> HIDE DEF u, end
<1>9. \A m \in Locations : s.peaks[m] \in Int /\ s.used[m] \in Int /\ s.reserved[m] \in Int
  BY DEF SimulationRecord
<1>10. /\ \A m \in Locations : s.peaks[m] <= u.peaks[m]
       /\ s.used[l] + s.reserved[l] + n <= u.peaks[l]
       /\ s.used[a] + s.reserved[a] + n <= u.peaks[a]
  BY <1>1, <1>2, <1>5, <1>6, <1>9 DEF Larger
<1>11. /\ end.locations = [s.locations EXCEPT ![v] = @ \cup {l}] /\ end.discarded = s.discarded
       /\ end.used = [s.used EXCEPT ![l] = @ + n] /\ end.reserved = s.reserved
       /\ end.feasible = TRUE /\ end.peaks = u.peaks
  BY <1>5, <1>8
<1>12. /\ Budget[l] # NoBudget => s.used[l] + s.reserved[l] + n <= Budget[l]
       /\ Budget[a] # NoBudget => s.used[a] + s.reserved[a] + n <= Budget[a]
  BY <1>4, <1>5, <1>6, <1>7
<1>13. LoadCharged(s, v, l, end)
  BY <1>2, <1>10, <1>11, <1>12 DEF LoadCharged, n, a
<1> QED
  BY <1>13 DEF end


\* A load in progress is simulated as a whole by the request it belongs to.
LEMMA LoadHead ==
    ASSUME PlacementInv, AgendaConsistent, CallbackActive
    PROVE  /\ op.load.handle = Request.handle /\ op.load.to = Request.to /\ op.todo # <<>>
           /\ Request.handle \in Values /\ Request.to \in Locations
           /\ records[Request.handle] = "live" /\ materializations[Request.handle] = {}
           /\ Do(World, Planned, Request) = FromSource(Planned, Request.handle, Request.to)
<1>1. TypeOK /\ LoadConsistent /\ op.todo # <<>>
  BY DEF PlacementInv, ControlConsistent
<1>2. op.load = [handle |-> Request.handle, to |-> Request.to] /\ Request.op \in {"ensure", "move"}
      /\ Request.from = NoLocation
  BY DEF AgendaConsistent
<1>3. op.load.handle = Request.handle /\ op.load.to = Request.to
  BY <1>2
<1>4. Request.handle \in Values /\ Request.to \in Locations
  BY <1>1, <1>2, HeadRequestTyped, RequestTyped
<1>5. records[Request.handle] = "live" /\ materializations[Request.handle] = {}
  BY <1>1, <1>3 DEF LoadConsistent
<1>6. Planned.locations[Request.handle] = {}
  BY <1>5 DEF Planned
<1>7. CASE Request.op = "ensure"
  <2>1. Do(World, Planned, Request) = SimulateEnsure(Planned, Request)
    BY <1>1, <1>5, <1>7, DoRequest
  <2> QED
    BY <1>1, <1>3, <1>4, <1>5, <1>6, <2>1 DEF SimulateEnsure
<1>8. CASE Request.op = "move"
  <2>1. Do(World, Planned, Request) = SimulateMove(Planned, Request, ProtectedPairs)
    BY <1>1, <1>5, <1>8, DoRequest
  <2> QED
    BY <1>1, <1>2, <1>3, <1>4, <1>5, <1>6, <2>1 DEF SimulateMove
<1> QED
  BY <1>2, <1>7, <1>8

\* The loaded value is installed and its temporary charge given back.
LEMMA FinishLoadSimulated ==
    ASSUME PlacementInv, AgendaConsistent, TypeOK', FinishLoad,
           Do(World, Planned, Request).feasible
    PROVE  Simulated
<1> DEFINE v == Request.handle
           l == Request.to
           n == Size[v]
           t == FromSource(Planned, v, l)
<1>0. TypeOK /\ ControlConsistent /\ LoadConsistent
  BY DEF PlacementInv
<1>1. /\ CallbackActive /\ op.load.handle = v /\ op'.load = NoLoad
      /\ materializations' = [materializations EXCEPT ![v] = @ \cup {l}]
      /\ used_bytes' = [used_bytes EXCEPT ![l] = @ + n]
      /\ reserved_bytes' = [reserved_bytes EXCEPT ![SourceAt[v]] = @ - n]
      /\ records' = records
  <2>1. CallbackActive /\ op \in Operation
    BY <1>0 DEF FinishLoad, EndLoad, TypeOK, ControlTyped
  <2>2. op.load.handle = v /\ op.load.to = l
    BY <2>1, LoadHead
  <2> HIDE DEF v, l
  <2>3. op'.load = NoLoad
    BY <2>1 DEF FinishLoad, Operation
  <2>4. /\ materializations' = [materializations EXCEPT ![v] = @ \cup {l}]
        /\ used_bytes' = [used_bytes EXCEPT ![l] = @ + n]
        /\ reserved_bytes' = [reserved_bytes EXCEPT ![SourceAt[v]] = @ - n]
        /\ records' = records
    BY <2>2 DEF FinishLoad, EndLoad, Install, Charge, Uncharge
  <2> QED
    BY <2>1, <2>2, <2>3, <2>4
<1>2. v \in Values /\ l \in Locations /\ n \in Nat /\ Planned \in SimulationRecord
  BY <1>0, <1>1, LoadHead, PlannedTyped, SpecAssumption DEF PlannedOK
<1>3. Do(World, Planned, Request) = t
  BY <1>1, LoadHead
<1>4. t.feasible
  BY <1>3
<1>5. ~CallbackActive' /\ Fields'
  <2>1. ~CallbackActive'
    BY <1>1 DEF CallbackActive
  <2>2. TypeOK' /\ ~CallbackActive' => Fields'
    BY FieldsAtRest, PTL
  <2> QED
    BY <2>1, <2>2
<1> HIDE DEF v, l, n
<1>6. /\ SourceAt[v] \in Locations
      /\ t.locations = [Planned.locations EXCEPT ![v] = @ \cup {l}]
      /\ t.discarded = Planned.discarded
      /\ t.used = [Planned.used EXCEPT ![l] = @ + n]
      /\ t.reserved = Planned.reserved
      /\ t.feasible = TRUE
      /\ \A m \in Locations : Planned.peaks[m] <= t.peaks[m]
      /\ Planned.used[l] + Planned.reserved[l] + n <= t.peaks[l]
      /\ t \in SimulationRecord
  <2>1. t \in SimulationRecord
    BY <1>2, BelowItself, FromSourceCarries DEF Carries
  <2>2. FromSource(Planned, v, l).feasible
    BY <1>4
  <2> HIDE DEF t
  <2>3. v \in Values /\ l \in Locations /\ Planned \in SimulationRecord
    BY <1>2
  <2>4. LoadCharged(Planned, v, l, FromSource(Planned, v, l))
    BY <2>2, <2>3, FromSourceFacts
  <2>5. LoadCharged(Planned, v, l, t)
    BY <2>4 DEF t
  <2> QED
    BY <2>1, <2>5 DEF LoadCharged, n
<1> HIDE DEF t
<1>7. /\ Planned.locations = materializations /\ Planned.used = used_bytes
      /\ Planned.discarded = {x \in Values : records[x] = "discarded"}
      /\ \A m \in Locations : Planned.peaks[m] = used_bytes[m] + Planned.reserved[m]
  BY DEF Planned
<1>8. reserved_bytes' = Planned.reserved
  <2>1. reserved_bytes \in [Locations -> Int]
    BY <1>0 DEF TypeOK, HeadroomTyped
  <2>2. \A m \in Locations : Loading(m) = IF m = SourceAt[v] THEN n ELSE 0
    BY <1>1 DEF Loading, n
  <2>3. reserved_bytes' = [m \in Locations |-> reserved_bytes[m] - Loading(m)]
    <3>1. \A m \in Locations : reserved_bytes'[m] = reserved_bytes[m] - Loading(m)
      BY <1>1, <1>2, <1>6, <2>1, <2>2
    <3>2. reserved_bytes' \in [Locations -> Int]
      BY DEF TypeOK, HeadroomTyped
    <3> QED
      BY <3>1, <3>2
  <2> QED
    BY <2>3 DEF Planned
<1>9. /\ used_bytes \in [Locations -> Int] /\ Planned.reserved \in [Locations -> Int]
      /\ t.peaks \in [Locations -> Int]
  BY <1>0, <1>2, <1>6 DEF TypeOK, PlacementTyped, SimulationRecord
<1>10. \A m \in Locations : used_bytes'[m] + reserved_bytes'[m] <= t.peaks[m]
  <2>1. ASSUME NEW m \in Locations PROVE used_bytes'[m] + reserved_bytes'[m] <= t.peaks[m]
    <3> DEFINE i == used_bytes[m]
               j == used_bytes'[m]
               k == Planned.reserved[m]
               p == t.peaks[m]
               d == IF m = l THEN n ELSE 0
    <3>1. i \in Int /\ k \in Int /\ p \in Int /\ d \in Int
      BY <1>2, <1>9
    <3>2. j = i + d
      BY <1>1, <1>2, <1>9
    <3>3. i + k + d <= p
      BY <1>2, <1>6, <1>7, <3>1
    <3> HIDE DEF i, j, k, p, d
    <3>4. j + k <= p
      BY <3>1, <3>2, <3>3
    <3> QED
      BY <1>8, <3>4 DEF j, k, p
  <2> QED
    BY <2>1
<1>11. /\ t.locations = materializations' /\ t.used = used_bytes' /\ t.reserved = reserved_bytes'
       /\ t.discarded = {x \in Values : records'[x] = "discarded"}
  BY <1>1, <1>6, <1>7, <1>8
<1>12. Below(Planned', t)
  BY <1>5, <1>6, <1>10, <1>11, BelowAtRest
<1> QED
  BY <1>3, <1>12 DEF Simulated

LEMMA ReserveSimulated ==
    ASSUME TypeOK, TypeOK', Fields, Fields', NEW r \in Reservations, ReserveNext(r)
    PROVE  Below(Planned', Do(World, Planned, Head(op.reserve)))
<1> DEFINE q == Head(op.reserve)
           l == q.location
           n == q.nbytes
           u == Touch(Planned, l, n)
           t == AdmitReservation(Planned, q)
<1>1. q \in MemoryReservation /\ l \in Locations /\ n \in Nat
  <2>1. op.reserve \in Seq(MemoryReservation) /\ op.reserve # <<>>
    BY DEF TypeOK, ControlTyped, Operation, ReserveNext
  <2>2. q \in MemoryReservation
    BY <2>1
  <2> QED
    BY <2>2 DEF MemoryReservation
<1>2. /\ Fits(l, n) /\ reserved_bytes' = [reserved_bytes EXCEPT ![l] = @ + n]
      /\ UNCHANGED <<records, materializations, used_bytes>>
  BY DEF ReserveNext, Reserve, Charge
<1>3. Planned \in SimulationRecord
  BY PlannedTyped DEF PlannedOK
<1>4. used_bytes \in [Locations -> Int] /\ reserved_bytes \in [Locations -> Int]
      /\ (Budget[l] # NoBudget => Budget[l] \in Nat)
  BY <1>1, LocationAssumption DEF TypeOK, PlacementTyped, HeadroomTyped
<1>5. Do(World, Planned, q) = t
  BY <1>1 DEF Do
<1>6. Budget[l] # NoBudget => n <= Budget[l] - used_bytes[l] - reserved_bytes[l]
  BY <1>2 DEF Fits
<1> HIDE DEF q
<1>7. t = [locations |-> Planned.locations, discarded |-> Planned.discarded, used |-> Planned.used,
           reserved |-> [Planned.reserved EXCEPT ![l] = @ + n],
           peaks |-> u.peaks, feasible |-> u.feasible]
  BY <1>1, <1>3, AdmitFacts DEF Fields
<1> HIDE DEF l, n
<1>8. /\ u.feasible = (Planned.feasible /\
           (Budget[l] # NoBudget => Planned.used[l] + Planned.reserved[l] + n <= Budget[l]))
      /\ \A m \in Locations : u.peaks[m] =
           IF m = l THEN Larger(Planned.peaks[l], Planned.used[l] + Planned.reserved[l] + n)
           ELSE Planned.peaks[m]
      /\ u \in SimulationRecord
  BY <1>1, <1>3, TouchFacts
<1> HIDE DEF u, t
<1>9. u.feasible = TRUE
  BY <1>1, <1>4, <1>6, <1>8 DEF Fields, SimulationRecord
<1>10. \A m \in Locations : used_bytes'[m] + reserved_bytes'[m] <= t.peaks[m]
  <2>1. u.peaks \in [Locations -> Int] /\ t.peaks = u.peaks
    BY <1>7, <1>8 DEF SimulationRecord
  <2> QED
    BY <1>1, <1>2, <1>4, <1>8, <2>1 DEF Fields, Larger
<1>11. /\ t.locations = materializations' /\ t.used = used_bytes' /\ t.reserved = reserved_bytes'
       /\ t.discarded = {x \in Values : records'[x] = "discarded"} /\ t.feasible = TRUE
  BY <1>2, <1>7, <1>9 DEF Fields
<1> QED
  BY <1>5, <1>10, <1>11, BelowAtRest DEF q

-----------------------------------------------------------------------------
(* The agenda *)

ScopeKinds == {"reclaim", "reserve", "enter"}

LEMMA PlanOfScope ==
    ASSUME TypeOK, ControlConsistent, op.kind \in ScopeKinds
    PROVE  op.scope \in Scopes /\ Plan \in Plans
<1>1. op.scope \in Scopes
  BY DEF ScopeKinds, ControlConsistent, TypeOK, ControlTyped, Operation
<1> QED
  BY <1>1 DEF ScopeKinds, ControlConsistent, Plan

LEMMA AgendaHead ==
    ASSUME TypeOK, ControlConsistent, AgendaConsistent, Preflighted, op.todo # <<>>
    PROVE  /\ Agenda # <<>> /\ Head(Agenda) = Request
           /\ op'.kind = op.kind /\ op'.todo = Tail(op.todo) /\ Plan' = Plan => Agenda' = Tail(Agenda)
<1>1. op.todo \in Seq(PlanStep) /\ op.kind # "reserve"
  BY SeqMonotonic DEF TypeOK, ControlTyped, Operation, PlanStep, AgendaConsistent
<1>2. CASE op.kind = "execute"
  BY <1>2 DEF Agenda, Request
<1>3. CASE op.kind # "execute"
  <2>1. Plan.reservations \in Seq(PlanStep) /\ Plan.enter \in Seq(PlanStep) /\ Plan.exit \in Seq(PlanStep)
    BY <1>3, PlanOfScope, PlanTyped, SeqMonotonic DEF PlanStep, Preflighted, ScopeKinds
  <2>2. \A p, q \in Seq(PlanStep) : p \o q \in Seq(PlanStep)
    BY ConcatProperties
  <2> DEFINE rest == IF op.kind = "enter" THEN Plan.exit
                     ELSE Plan.reservations \o (Plan.enter \o Plan.exit)
             rest2 == IF op'.kind = "enter" THEN Plan'.exit
                      ELSE Plan'.reservations \o (Plan'.enter \o Plan'.exit)
  <2>3. rest \in Seq(PlanStep)
    BY <2>1, <2>2
  <2>4. Agenda = op.todo \o rest
    BY <1>1, <1>3 DEF Agenda, Preflighted
  <2>5. op'.kind = op.kind => Agenda' = op'.todo \o rest2
    BY <1>1, <1>3 DEF Agenda, Preflighted
  <2>6. op'.kind = op.kind /\ Plan' = Plan => rest2 = rest
    OBVIOUS
  <2> HIDE DEF rest, rest2
  <2>7. op.todo \o rest # <<>> /\ Head(op.todo \o rest) = Head(op.todo)
        /\ Tail(op.todo \o rest) = Tail(op.todo) \o rest
    <3> SUFFICES ASSUME NEW s \in Seq(PlanStep), s # <<>>, NEW t \in Seq(PlanStep)
                 PROVE  s \o t # <<>> /\ Head(s \o t) = Head(s) /\ Tail(s \o t) = Tail(s) \o t
      BY <1>1, <2>3
    <3> QED
      BY ConcatHeadTail
  <2> QED
    BY <2>4, <2>5, <2>6, <2>7 DEF Request
<1> QED
  BY <1>2, <1>3

LEMMA AgendaReserve ==
    ASSUME TypeOK, ControlConsistent, AgendaConsistent, op.reserve # <<>>
    PROVE  /\ op.kind = "reserve" /\ ~CallbackActive
           /\ Agenda # <<>> /\ Head(Agenda) = Head(op.reserve)
           /\ op'.kind = op.kind /\ op'.reserve = Tail(op.reserve) /\ Plan' = Plan
                => Agenda' = Tail(Agenda)
<1>1. op.kind = "reserve" /\ ~CallbackActive
  BY DEF AgendaConsistent, ControlConsistent
<1>2. op.reserve \in Seq(PlanStep)
  BY SeqMonotonic DEF TypeOK, ControlTyped, Operation, PlanStep
<1>3. Plan.enter \in Seq(PlanStep) /\ Plan.exit \in Seq(PlanStep)
  BY <1>1, PlanOfScope, PlanTyped, SeqMonotonic DEF PlanStep, ScopeKinds
<1> DEFINE rest == Plan.enter \o Plan.exit
<1>4. rest \in Seq(PlanStep)
  BY <1>3, ConcatProperties
<1>5. Agenda = op.reserve \o rest
  BY <1>1 DEF Agenda
<1>6. op'.kind = op.kind /\ Plan' = Plan => Agenda' = op'.reserve \o rest
  BY <1>1 DEF Agenda
<1> HIDE DEF rest
<1>7. op.reserve \o rest # <<>> /\ Head(op.reserve \o rest) = Head(op.reserve)
      /\ Tail(op.reserve \o rest) = Tail(op.reserve) \o rest
  <2> SUFFICES ASSUME NEW s \in Seq(PlanStep), s # <<>>, NEW t \in Seq(PlanStep)
               PROVE  s \o t # <<>> /\ Head(s \o t) = Head(s) /\ Tail(s \o t) = Tail(s) \o t
    BY <1>2, <1>4
  <2> QED
    BY ConcatHeadTail
<1>8. Agenda # <<>> /\ Head(Agenda) = Head(op.reserve) /\ Tail(Agenda) = Tail(op.reserve) \o rest
  BY <1>5, <1>7
<1> QED
  BY <1>1, <1>6, <1>8

-----------------------------------------------------------------------------
(* The dry run stays successful *)

LEMMA DryRunKept ==
    ASSUME TypeOK, TypeOK', ControlConsistent, AgendaConsistent, DryRun, Preflighted,
           predicted' = predicted, Live' = Live, ProtectedPairs' \subseteq ProtectedPairs,
           \/ Agenda' = Agenda /\ Below(Planned', Planned)
           \/ /\ Agenda # <<>> /\ Agenda' = Tail(Agenda)
              /\ Below(Planned', Do(World, Planned, Head(Agenda)))
    PROVE  DryRun'
<1>1. Planned \in SimulationRecord /\ Planned' \in SimulationRecord
  <2>1. TypeOK' => PlannedOK'
    BY PlannedTyped, PTL
  <2> QED
    BY <2>1, PlannedTyped DEF PlannedOK
<1>2. Agenda \in Seq(PlanStep) /\ predicted \in [Locations -> Int]
  BY AgendaTyped DEF AgendaConsistent
<1> DEFINE s == Planned
           s2 == Planned'
           p == ProtectedPairs
           p2 == ProtectedPairs'
           q == Agenda
           r == Agenda'
           live == Live
<1>3. Proceeds(<<live, p>>, s, q, s2, r)
  BY DEF Proceeds, World
<1>4. p2 \in SUBSET p /\ s \in SimulationRecord /\ s2 \in SimulationRecord /\ q \in Seq(PlanStep)
  BY <1>1, <1>2
<1>5. Succeeds(<<live, p>>, s, q, predicted)
  BY DEF DryRun, World
<1> HIDE DEF s, s2, p, p2, q, r, live
<1>6. Succeeds(<<live, p2>>, s2, r, predicted)
  BY <1>2, <1>3, <1>4, <1>5, Advances
<1>7. World' = <<live, p2>> /\ Planned' = s2 /\ Agenda' = r
  BY DEF World, s2, p2, r, live
<1> QED
  BY <1>6, <1>7 DEF DryRun

\* What the successful dry run says of the next step.
LEMMA DryRunHead ==
    ASSUME TypeOK, ControlConsistent, AgendaConsistent, DryRun, Preflighted
    PROVE  /\ \A l \in Locations : Planned.peaks[l] <= predicted[l]
           /\ Agenda # <<>> =>
                /\ Do(World, Planned, Head(Agenda)) \in SimulationRecord
                /\ Do(World, Planned, Head(Agenda)).feasible
                /\ \A l \in Locations : Do(World, Planned, Head(Agenda)).peaks[l] <= predicted[l]
<1> DEFINE Outcome == Fold(World, Planned, Agenda)
<1>1. Planned \in SimulationRecord /\ Agenda \in Seq(PlanStep) /\ predicted \in [Locations -> Int]
      /\ Below(Planned, Planned)
  BY PlannedTyped, AgendaTyped, BelowItself DEF AgendaConsistent, PlannedOK
<1>2. Outcome.feasible /\ \A l \in Locations : Outcome.peaks[l] <= predicted[l]
  BY DEF DryRun, Succeeds
<1>3. ASSUME NEW t \in SimulationRecord, NEW t2 \in SimulationRecord, NEW z \in SimulationRecord,
             Carries(t, z, t2, Outcome)
      PROVE  \A l \in Locations : t.peaks[l] <= predicted[l]
  <2> SUFFICES ASSUME NEW l \in Locations PROVE t.peaks[l] <= predicted[l]
    OBVIOUS
  <2>1. /\ t.peaks[l] <= t2.peaks[l] /\ t2.peaks[l] <= Outcome.peaks[l]
        /\ Outcome \in SimulationRecord
    BY <1>3 DEF Carries, Below
  <2>2. t.peaks[l] \in Int /\ t2.peaks[l] \in Int /\ Outcome.peaks[l] \in Int /\ predicted[l] \in Int
    BY <1>1, <2>1 DEF SimulationRecord
  <2> QED
    BY <1>2, <2>1, <2>2
<1>4. Carries(Planned, Planned, Outcome, Outcome) /\ Outcome \in SimulationRecord
  BY <1>1, FoldCarries DEF Carries
<1> HIDE DEF Outcome
<1>5. \A l \in Locations : Planned.peaks[l] <= predicted[l]
  BY <1>1, <1>3, <1>4
<1>6. ASSUME Agenda # <<>>
      PROVE  /\ Do(World, Planned, Head(Agenda)) \in SimulationRecord
             /\ Do(World, Planned, Head(Agenda)).feasible
             /\ \A l \in Locations : Do(World, Planned, Head(Agenda)).peaks[l] <= predicted[l]
  <2> DEFINE t == Do(World, Planned, Head(Agenda))
  <2>1. Head(Agenda) \in PlanStep /\ Tail(Agenda) \in Seq(PlanStep)
    BY <1>1, <1>6, HeadTailProperties
  <2>2. t \in SimulationRecord
    BY <1>1, <2>1, DoCarries DEF Carries
  <2>3. Outcome = Fold(World, t, Tail(Agenda))
    BY <1>1, <1>6, FoldFirst DEF Outcome
  <2> HIDE DEF t
  <2>4. Carries(t, t, Outcome, Outcome)
    BY <2>1, <2>2, <2>3, BelowItself, FoldCarries
  <2>5. t.feasible
    BY <1>2, <2>4 DEF Carries
  <2>6. \A l \in Locations : t.peaks[l] <= predicted[l]
    BY <1>3, <1>4, <2>2, <2>4
  <2> QED
    BY <2>2, <2>5, <2>6 DEF t
<1> QED
  BY <1>5, <1>6

LEMMA PlannedUnchanged ==
    ASSUME UNCHANGED <<records, materializations, used_bytes, reserved_bytes>>, op'.load = op.load
    PROVE  Planned' = Planned
<1>1. \A l \in Locations : Loading(l)' = Loading(l)
  BY DEF Loading, CallbackActive
<1>2. /\ [l \in Locations |-> reserved_bytes'[l] - Loading(l)']
            = [l \in Locations |-> reserved_bytes[l] - Loading(l)]
      /\ [l \in Locations |-> used_bytes'[l] + (reserved_bytes'[l] - Loading(l)')]
            = [l \in Locations |-> used_bytes[l] + (reserved_bytes[l] - Loading(l))]
  BY <1>1
<1> QED
  BY <1>2 DEF Planned

\* With exact counters a dry run starts from the placement and the reservations
\* alone, whatever is being loaded.
LEMMA ReservedAtRest ==
    ASSUME TypeOK, NEW l \in Locations, ReservedExact(l)
    PROVE  reserved_bytes[l] - Loading(l) = Total(ReservedSize, Reserved(l))
<1>1. Total(ReservedSize, Reserved(l)) \in Int
  BY ReservedTotal
<1>2. Loading(l) \in Nat
  BY LoadingTyped
<1>3. reserved_bytes[l] = Total(ReservedSize, Reserved(l)) + Loading(l)
  BY DEF ReservedExact
<1>4. ASSUME NEW a \in Int, NEW b \in Nat PROVE (a + b) - b = a
  BY <1>4
<1> QED
  BY <1>1, <1>2, <1>3, <1>4

PlannedReserves == \A l \in Locations : reserved_bytes[l] - Loading(l) = Total(ReservedSize, Reserved(l))

LEMMA PlannedReserved == TypeOK /\ BytesExact => PlannedReserves
BY ReservedAtRest DEF BytesExact, PlannedReserves

LEMMA PlannedFollows ==
    ASSUME TypeOK, TypeOK', BytesExact, BytesExact', UNCHANGED <<records, materializations, reservations>>
    PROVE  Planned' = Planned
<1>1. PlannedReserves /\ PlannedReserves'
  BY PlannedReserved, PTL
<1>2. ASSUME NEW l \in Locations
      PROVE  used_bytes'[l] = used_bytes[l]
             /\ reserved_bytes'[l] - Loading(l)' = reserved_bytes[l] - Loading(l)
  <2>1. used_bytes[l] = Total(Size, Occupants(l)) /\ used_bytes'[l] = Total(Size, Occupants(l)')
    BY DEF BytesExact, UsedExact
  <2>2. Occupants(l)' = Occupants(l) /\ Reserved(l)' = Reserved(l) /\ ReservedSize' = ReservedSize
    BY DEF Occupants, Reserved, ReservedSize
  <2>3. reserved_bytes'[l] - Loading(l)' = Total(ReservedSize', Reserved(l)')
    BY <1>1 DEF PlannedReserves
  <2> QED
    BY <1>1, <2>1, <2>2, <2>3 DEF PlannedReserves
<1>3. used_bytes \in [Locations -> Int] /\ used_bytes' \in [Locations -> Int]
  BY DEF TypeOK, PlacementTyped
<1>4. used_bytes' = used_bytes
  BY <1>2, <1>3
<1>5. /\ [l \in Locations |-> reserved_bytes'[l] - Loading(l)']
            = [l \in Locations |-> reserved_bytes[l] - Loading(l)]
      /\ [l \in Locations |-> used_bytes'[l] + (reserved_bytes'[l] - Loading(l)')]
            = [l \in Locations |-> used_bytes[l] + (reserved_bytes[l] - Loading(l))]
  BY <1>2
<1> QED
  BY <1>4, <1>5 DEF Planned

LEMMA PlanUnchanged ==
    ASSUME TypeOK, ControlConsistent, op'.scope = op.scope, op.kind \in ScopeKinds,
           \A s \in Scopes : scopes[s].state # "unborn" => scopes'[s].plan = scopes[s].plan
    PROVE  Plan' = Plan
BY PlanOfScope DEF ControlConsistent, Plan, ScopeKinds

LEMMA AgendaUnchanged ==
    ASSUME Preflighted, UNCHANGED <<op.kind, op.todo, op.reserve>>,
           op.kind \in ScopeKinds => Plan' = Plan
    PROVE  Agenda' = Agenda
BY DEF Agenda, Preflighted, ScopeKinds

LEMMA TransitionDryRun ==
    ASSUME PlacementInv, TypeOK', AgendaConsistent, DryRun, Preflighted',
           \/ StepNoOp \/ StepReplicate \/ StepMove \/ StepCollapse \/ StepDrop \/ StepDiscard
    PROVE  DryRun'
<1>0. TypeOK /\ ControlConsistent
  BY DEF PlacementInv
<1>1. /\ Ready /\ Reap /\ NextRequest /\ records[Request.handle] = "live"
      /\ UNCHANGED <<use_tokens, hold_tokens, reading, scopes, predicted>>
  BY DEF StepNoOp, StepReplicate, StepMove, StepCollapse, StepDrop, StepDiscard, Succeed,
     NextRequest, clients
<1>2. /\ op'.kind = op.kind /\ op'.todo = Tail(op.todo) /\ op'.scope = op.scope /\ op'.load = op.load
      /\ op'.reserve = op.reserve
  BY <1>0, <1>1 DEF NextRequest, TypeOK, ControlTyped, Operation
<1>3. Preflighted /\ op.todo # <<>> /\ ~CallbackActive /\ ~CallbackActive'
  BY <1>1, <1>2 DEF Preflighted, Ready, CallbackActive
<1>4. Fields /\ Fields'
  <2>1. TypeOK' /\ ~CallbackActive' => Fields'
    BY FieldsAtRest, PTL
  <2> QED
    BY <1>0, <1>3, <2>1, FieldsAtRest
<1>5. Simulated
  BY <1>0, <1>4, NoOpSimulated, ReplicateSimulated, MoveSimulated, CollapseSimulated,
     DropSimulated, DiscardSimulated
<1>6. Plan' = Plan
  BY <1>1, <1>2 DEF Plan
<1>7. Agenda # <<>> /\ Head(Agenda) = Request /\ Agenda' = Tail(Agenda)
  BY <1>0, <1>2, <1>3, <1>6, AgendaHead
<1>8. ProtectedPairs' \subseteq ProtectedPairs
  BY <1>0, <1>1, ProtectionShrinks
<1>9. Live' = Live
  <2>1. records' = records \/ records' = [records EXCEPT ![Request.handle] = "discarded"]
    BY DEF StepNoOp, StepReplicate, StepMove, StepCollapse, StepDrop, StepDiscard, placement
  <2>2. records \in [Values -> {"absent", "live", "discarded"}]
    BY <1>0 DEF TypeOK, PlacementTyped
  <2> HIDE DEF Request
  <2> QED
    BY <1>1, <2>1, <2>2 DEF Live
<1> QED
  BY <1>0, <1>1, <1>3, <1>5, <1>7, <1>8, <1>9, DryRunKept DEF Simulated

LEMMA LoadDryRun ==
    ASSUME PlacementInv, TypeOK', AgendaConsistent, DryRun, Preflighted', StartLoad \/ FinishLoad
    PROVE  DryRun'
<1>0. TypeOK /\ ControlConsistent /\ Planned \in SimulationRecord
  BY PlannedTyped DEF PlannedOK, PlacementInv
<1>1. CASE StartLoad
  <2>1. /\ op'.kind = op.kind /\ op'.todo = op.todo /\ op'.reserve = op.reserve
        /\ op'.scope = op.scope /\ scopes' = scopes /\ predicted' = predicted /\ records' = records
        /\ Reap /\ UNCHANGED <<use_tokens, hold_tokens, reading>>
    BY <1>0, <1>1 DEF StartLoad, Succeed, clients, placement, TypeOK, ControlTyped, Operation
  <2>2. Preflighted /\ Plan' = Plan /\ Live' = Live
    BY <2>1 DEF Preflighted, Plan, Live
  <2>3. Agenda' = Agenda
    BY <2>1, <2>2, AgendaUnchanged
  <2>4. Below(Planned', Planned)
    BY <1>0, <1>1, StartLoadPlanned, BelowItself
  <2>5. ProtectedPairs' \subseteq ProtectedPairs
    BY <1>0, <2>1, ProtectionShrinks
  <2> QED
    BY <1>0, <2>1, <2>2, <2>3, <2>4, <2>5, DryRunKept
<1>2. CASE FinishLoad
  <2>1. /\ op'.kind = op.kind /\ op'.todo = Tail(op.todo) /\ op'.scope = op.scope
        /\ scopes' = scopes /\ predicted' = predicted /\ records' = records
        /\ UNCHANGED <<use_tokens, hold_tokens, reading, leases, pending_tokens>>
    BY <1>0, <1>2 DEF FinishLoad, EndLoad, clients, protection, TypeOK, ControlTyped, Operation
  <2>2. Preflighted /\ Plan' = Plan /\ Live' = Live /\ op.todo # <<>>
    BY <1>0, <1>2, <2>1 DEF Preflighted, Plan, Live, ControlConsistent, FinishLoad, EndLoad
  <2>3. Agenda # <<>> /\ Head(Agenda) = Request /\ Agenda' = Tail(Agenda)
    BY <1>0, <2>1, <2>2, AgendaHead
  <2>4. Do(World, Planned, Request).feasible
    BY <1>0, <2>2, <2>3, DryRunHead
  <2>5. Simulated
    BY <1>2, <2>4, FinishLoadSimulated
  <2>6. ProtectedPairs' \subseteq ProtectedPairs
    BY <1>0, <2>1, ProtectionShrinks
  <2> QED
    BY <1>0, <2>1, <2>2, <2>3, <2>5, <2>6, DryRunKept DEF Simulated
<1> QED
  BY <1>1, <1>2

LEMMA ScopePhaseDryRun ==
    ASSUME PlacementInv, TypeOK', AgendaConsistent, DryRun, Preflighted',
           ReclaimDone \/ ReserveDone \/ \E r \in Reservations : ReserveNext(r)
    PROVE  DryRun'
<1>0. TypeOK /\ ControlConsistent /\ Planned \in SimulationRecord
  BY PlannedTyped DEF PlannedOK, PlacementInv
<1>1. /\ op'.scope = op.scope /\ op'.load = op.load /\ scopes' = scopes /\ predicted' = predicted
      /\ UNCHANGED <<records, use_tokens, hold_tokens, leases, pending_tokens, reading>>
  BY <1>0 DEF ReclaimDone, ReserveDone, Advance, ReserveNext, Reserve, placement, protection, clients,
     TypeOK, ControlTyped, Operation
<1>2. ProtectedPairs' \subseteq ProtectedPairs /\ Live' = Live /\ Plan' = Plan
  BY <1>0, <1>1, ProtectionShrinks DEF Live, Plan
<1>3. CASE ReclaimDone \/ ReserveDone
  <2>1. Planned' = Planned
    BY <1>1, <1>3, PlannedUnchanged DEF ReclaimDone, ReserveDone, Advance, placement, headroom
  <2>2. op.kind \in {"reclaim", "reserve"} /\ Preflighted
    BY <1>3 DEF ReclaimDone, ReserveDone, Advance, Preflighted
  <2>3. Plan \in Plans
    BY <1>0, <2>2, PlanOfScope DEF ScopeKinds
  <2>4. Plan.reservations \in Seq(PlanStep) /\ Plan.enter \in Seq(PlanStep) /\ Plan.exit \in Seq(PlanStep)
    BY <2>3, PlanTyped, SeqMonotonic DEF PlanStep
  <2> DEFINE later == Plan.enter \o Plan.exit
             rest == Plan.reservations \o later
  <2>5. later \in Seq(PlanStep)
    BY <2>4, ConcatProperties
  <2> HIDE DEF later
  <2>6. rest \in Seq(PlanStep)
    BY <2>4, <2>5, ConcatProperties
  <2> HIDE DEF rest
  <2>7. <<>> \o rest = rest /\ <<>> \o later = later
    BY <2>5, <2>6, ConcatEmptySeq
  <2>8. Agenda' = Agenda
    <3>1. CASE ReclaimDone
      <4>1. op.todo = <<>> /\ op.kind = "reclaim" /\ op'.kind = "reserve"
            /\ op'.reserve = Plan.reservations
        BY <1>0, <3>1 DEF ReclaimDone, Advance, Plan, TypeOK, ControlTyped, Operation
      <4>2. Agenda = <<>> \o rest
        BY <4>1 DEF Agenda, rest, later
      <4>3. Agenda' = Plan.reservations \o later
        BY <1>2, <4>1 DEF Agenda, later
      <4> QED
        BY <2>7, <4>2, <4>3 DEF rest
    <3>2. CASE ReserveDone
      <4>1. op.reserve = <<>> /\ op.kind = "reserve" /\ op'.kind = "enter" /\ op'.todo = Plan.enter
        BY <1>0, <3>2 DEF ReserveDone, Advance, Plan, TypeOK, ControlTyped, Operation
      <4>2. Agenda = <<>> \o later
        BY <4>1 DEF Agenda, later
      <4>3. Agenda' = later
        BY <1>2, <4>1 DEF Agenda, later
      <4> QED
        BY <2>7, <4>2, <4>3
    <3> QED
      BY <1>3, <3>1, <3>2
  <2> QED
    BY <1>0, <1>1, <1>2, <2>1, <2>2, <2>8, BelowItself, DryRunKept
<1>4. ASSUME NEW r \in Reservations, ReserveNext(r) PROVE DryRun'
  <2>1. op.reserve # <<>> /\ op'.kind = op.kind /\ op'.reserve = Tail(op.reserve)
    BY <1>0, <1>4 DEF ReserveNext, TypeOK, ControlTyped, Operation
  <2>2. /\ op.kind = "reserve" /\ ~CallbackActive /\ Agenda # <<>>
        /\ Head(Agenda) = Head(op.reserve) /\ Agenda' = Tail(Agenda)
    BY <1>0, <1>2, <2>1, AgendaReserve
  <2>3. ~CallbackActive' /\ Preflighted
    BY <1>1, <2>2 DEF CallbackActive, Preflighted
  <2>4. Fields /\ Fields'
    <3>1. TypeOK' /\ ~CallbackActive' => Fields'
      BY FieldsAtRest, PTL
    <3> QED
      BY <1>0, <2>2, <2>3, <3>1, FieldsAtRest
  <2>5. Below(Planned', Do(World, Planned, Head(op.reserve)))
    BY <1>0, <1>4, <2>4, ReserveSimulated
  <2> QED
    BY <1>0, <1>1, <1>2, <2>2, <2>3, <2>5, DryRunKept
<1> QED
  BY <1>3, <1>4

LEMMA HolderDryRun ==
    ASSUME PlacementInv, TypeOK', AgendaConsistent, DryRun, HolderStep
    PROVE  DryRun'
<1> SUFFICES ASSUME Preflighted' PROVE DryRun'
  BY DEF DryRun
<1>0. op \in Operation
  BY DEF PlacementInv, TypeOK, ControlTyped
<1>1. CASE \/ StepNoOp \/ StepReplicate \/ StepMove \/ StepCollapse \/ StepDrop \/ StepDiscard
  BY <1>1, TransitionDryRun
<1>2. CASE StartLoad \/ FinishLoad
  BY <1>2, LoadDryRun
<1>3. CASE ReclaimDone \/ ReserveDone \/ \E r \in Reservations : ReserveNext(r)
  BY <1>3, ScopePhaseDryRun
<1>4. CASE LoadFails \/ StepFails
  <2>1. Fail
    BY <1>4 DEF LoadFails, StepFails
  <2>2. op'.kind \in {"idle", "release"}
    BY <1>0, <2>1 DEF Fail, Idle, Operation
  <2> QED
    BY <2>2 DEF Preflighted
<1>5. CASE EndOperation \/ EnterDone \/ ExitDone \/ ReleaseDone
  BY <1>0, <1>5 DEF EndOperation, EnterDone, ExitDone, ReleaseDone, Advance, Idle, Operation, Preflighted
<1>6. CASE \E r \in Reservations : ReleaseNext(r)
  BY <1>6 DEF ReleaseNext, holder, Preflighted
<1> QED
  BY <1>1, <1>2, <1>3, <1>4, <1>5, <1>6 DEF HolderStep

\* What other threads do during a callback, and consumers at any time, leaves
\* the running plan alone.
LEMMA OutsideDryRun ==
    ASSUME PlacementInv, TypeOK', AgendaConsistent, DryRun, Preflighted, [Next]_vars, ~HolderStep
    PROVE  DryRun'
<1>0. TypeOK /\ ControlConsistent /\ Planned \in SimulationRecord
  BY PlannedTyped DEF PlacementInv, PlannedOK
<1>1. ~LockFree /\ ~Open
  BY DEF LockFree, Open, Idle, Preflighted
<1>2. ASSUME UNCHANGED <<placement, headroom, op, predicted, use_tokens, hold_tokens, leases,
                         pending_tokens>>,
             \A t \in Leases : leases[t].state = "pending" /\ t \in reading' => t \in reading,
             \A s \in Scopes : scopes[s].state # "unborn" => scopes'[s].plan = scopes[s].plan
      PROVE  DryRun'
  <2>1. Planned' = Planned /\ Live' = Live
    BY <1>2, PlannedUnchanged DEF placement, headroom, Live
  <2>2. op.kind \in ScopeKinds => Plan' = Plan
    BY <1>0, <1>2, PlanUnchanged
  <2>3. Agenda' = Agenda
    BY <1>2, <2>2, AgendaUnchanged
  <2>4. ProtectedPairs' \subseteq ProtectedPairs
    BY <1>0, <1>2, ProtectionShrinks
  <2> QED
    BY <1>0, <1>2, <2>1, <2>3, <2>4, BelowItself, DryRunKept
<1>3. CASE UseScope
  <2> SUFFICES ASSUME NEW s \in Scopes,
                      \/ \E plan \in Plans, versioned \in BOOLEAN : NewScope(s, plan, versioned)
                      \/ RejectScope(s) \/ AbandonScope(s)
               PROVE  DryRun'
    BY <1>1, <1>3 DEF UseScope, EnterScope, ExitScope, RefuseScope, Begin
  <2>1. /\ UNCHANGED <<placement, headroom, op, predicted, use_tokens, hold_tokens, leases,
                       pending_tokens, reading>>
    BY <1>1 DEF NewScope, RejectScope, AbandonScope, protection, holder, clients
  <2>2. \A x \in Scopes : scopes[x].state # "unborn" => scopes'[x].plan = scopes[x].plan
    BY <1>0 DEF NewScope, RejectScope, AbandonScope, TypeOK, ControlTyped, ScopeRecord
  <2> QED
    BY <1>2, <2>1, <2>2
<1>4. CASE UseLease
  <2> SUFFICES ASSUME NEW t \in Leases, LaunchRead(t) \/ ReadsFinish(t) PROVE DryRun'
    BY <1>1, <1>4 DEF UseLease, Acquire, ReleaseNow, ReleaseLater, Releasing
  <2>1. UNCHANGED <<placement, headroom, op, predicted, use_tokens, hold_tokens, leases,
                    pending_tokens, scopes>>
    BY DEF LaunchRead, ReadsFinish, protection, holder
  <2>2. \A x \in Leases : leases[x].state = "pending" /\ x \in reading' => x \in reading
    BY DEF LaunchRead, ReadsFinish
  <2> QED
    BY <1>2, <2>1, <2>2
<1>5. CASE (\E x \in Leases \cup Holds \cup Reservations : Orphan(x)) \/ UNCHANGED vars
  BY <1>2, <1>5 DEF Orphan, vars, placement, headroom, protection, holder
<1>6. CASE Register \/ Operate \/ UseHold \/ UseReservation \/ Poll \/ \E force \in BOOLEAN : Close(force)
  BY <1>1, <1>6 DEF Register, RegisterSource, Adopt, Operate, Run, ExecuteActions, Begin, UseHold,
     Hold, ReleaseHold, UseReservation, ReserveBytes, ReleaseReservation, ReleaseAbandoned, Poll, Close
<1> QED
  BY <1>3, <1>4, <1>5, <1>6 DEF Next

\* An operation begins with the explanation it was admitted on.
LEMMA BeginDryRun ==
    ASSUME TypeOK, TypeOK', NEW kind, NEW todo, NEW scope, NEW peaks, Begin(kind, todo, scope, peaks),
           NEW q \in Seq(PlanStep), Preflighted' => Agenda' = q,
           Fold(World, Simulation, q).feasible, peaks = Fold(World, Simulation, q).peaks
    PROVE  /\ predicted' \in [Locations -> Int]
           /\ DryRun'
<1>1. ~CallbackActive /\ ~CallbackActive'
  BY DEF Begin, Open, LockFree, Idle, CallbackActive
<1>2. Planned = Simulation /\ Planned \in SimulationRecord
  BY <1>1, PlannedAtRest, PlannedTyped DEF PlannedOK
<1>3. Planned' = Planned
  BY PlannedUnchanged DEF Begin, placement, headroom, Open, LockFree, Idle
<1>4. ProtectedPairs' \subseteq ProtectedPairs /\ Live' = Live
  BY ProtectionShrinks DEF Begin, clients, placement, Live
<1> DEFINE s == Planned
           p == ProtectedPairs
           p2 == ProtectedPairs'
           live == Live
<1>5. Fold(<<live, p>>, s, q) \in SimulationRecord /\ peaks = Fold(<<live, p>>, s, q).peaks
      /\ Fold(<<live, p>>, s, q).feasible
  BY <1>2, BelowItself, FoldCarries DEF Carries, World
<1> HIDE DEF s, p, p2, live
<1>6. peaks \in [Locations -> Int] /\ predicted' = peaks
  BY <1>5 DEF SimulationRecord, Begin
<1>7. Succeeds(<<live, p>>, s, q, peaks)
  BY <1>5, <1>6 DEF Succeeds
<1>8. Proceeds(<<live, p>>, s, q, s, q) /\ s \in SimulationRecord /\ p2 \in SUBSET p
  BY <1>2, <1>4, BelowItself DEF Proceeds, s, p, p2
<1>9. Succeeds(<<live, p2>>, s, q, peaks)
  BY <1>6, <1>7, <1>8, Advances
<1>10. World' = <<live, p2>> /\ Planned' = s
  BY <1>3, <1>4 DEF World, live, p2, s
<1> QED
  BY <1>6, <1>9, <1>10 DEF DryRun

LEMMA ExecuteDryRun ==
    ASSUME TypeOK, TypeOK', NEW batch \in Batches, ExecuteActions(batch)
    PROVE  predicted' \in [Locations -> Int] /\ DryRun'
<1> DEFINE e == ExplainActions(Simulation, batch, Live, ProtectedPairs)
<1>1. batch \in Seq(ResidencyAction) /\ batch \in Seq(PlanStep)
  BY TokenAssumption, SeqMonotonic DEF PlanStep
<1>2. e = Fold(World, Simulation, batch)
  BY <1>1, ExplainIsFold DEF World
<1>3. e.feasible /\ Begin("execute", batch, NoScope, e.peaks)
  BY DEF ExecuteActions
<1> HIDE DEF e
<1>4. Agenda' = batch
  BY <1>3 DEF Begin, Agenda
<1> QED
  BY <1>1, <1>2, <1>3, <1>4, BeginDryRun

LEMMA EnterDryRun ==
    ASSUME TypeOK, TypeOK', ControlConsistent, NEW s \in Scopes, EnterScope(s)
    PROVE  predicted' \in [Locations -> Int] /\ DryRun'
<1> DEFINE plan == scopes[s].plan
           rest == plan.reservations \o (plan.enter \o plan.exit)
           q == plan.reclaim \o rest
<1>1. plan \in ResidencyPlan
  BY TokenAssumption DEF EnterScope, ControlConsistent
<1>2. Explanation(s) = ExplainPlan(Simulation, plan, Live, ProtectedPairs)
  BY DEF Explanation
<1> HIDE DEF plan
<1>3. q \in Seq(PlanStep) /\ Explanation(s) = Fold(World, Simulation, q)
  BY <1>1, <1>2, PlanIsFold DEF World
<1>4. Explanation(s).feasible /\ Begin("reclaim", plan.reclaim, s, Explanation(s).peaks)
  BY DEF EnterScope, Admitted, plan
<1>5. Agenda' = q
  <2>1. op'.kind = "reclaim" /\ op'.todo = plan.reclaim /\ op'.scope = s
    BY <1>4 DEF Begin
  <2>2. scopes'[s].plan = plan
    BY DEF EnterScope, TypeOK, ControlTyped, ScopeRecord, plan
  <2>3. Plan' = plan
    BY <2>1, <2>2 DEF Plan
  <2> QED
    BY <2>1, <2>3 DEF Agenda
<1> HIDE DEF q
<1> QED
  BY <1>3, <1>4, <1>5, BeginDryRun

LEMMA HolderAgenda ==
    ASSUME PlacementInv, AgendaConsistent, HolderStep
    PROVE  AgendaConsistent'
<1>0. op \in Operation /\ op.todo \in Seq(ResidencyAction) /\ ControlConsistent
      /\ NoBytes \in [Locations -> Int]
  BY DEF PlacementInv, TypeOK, ControlTyped, Operation, NoBytes
<1>1. CASE \/ StepNoOp \/ StepReplicate \/ StepMove \/ StepCollapse \/ StepDrop \/ StepDiscard
  <2>1. NextRequest /\ Ready
    BY <1>1 DEF StepNoOp, StepReplicate, StepMove, StepCollapse, StepDrop, StepDiscard, Succeed
  <2>2. op'.load = NoLoad /\ op'.kind = op.kind /\ op'.reserve = op.reserve /\ predicted' = predicted
        /\ op.todo # <<>>
    BY <1>0, <2>1 DEF NextRequest, Ready, CallbackActive, Operation
  <2> QED
    BY <2>2 DEF AgendaConsistent, CallbackActive
<1>2. CASE StartLoad
  <2>1. /\ op'.load = [handle |-> Request.handle, to |-> Request.to] /\ op'.kind = op.kind
        /\ op'.reserve = op.reserve /\ op'.todo = op.todo /\ predicted' = predicted
        /\ op.todo # <<>> /\ NeedsLoad
    BY <1>0, <1>2 DEF StartLoad, Succeed, Ready, Operation
  <2>2. Request' = Request
    BY <2>1 DEF Request
  <2> QED
    BY <2>1, <2>2 DEF AgendaConsistent, NeedsLoad
<1>3. CASE FinishLoad
  <2>1. op'.load = NoLoad /\ op'.kind = op.kind /\ op'.reserve = op.reserve /\ predicted' = predicted
        /\ op.todo # <<>>
    BY <1>0, <1>3 DEF FinishLoad, EndLoad, ControlConsistent, Operation
  <2> QED
    BY <2>1 DEF AgendaConsistent, CallbackActive
<1>4. CASE LoadFails \/ StepFails
  <2>1. Fail
    BY <1>4 DEF LoadFails, StepFails
  <2>2. op'.kind \in {"idle", "release"} /\ op'.reserve = <<>> /\ op'.load = NoLoad
        /\ predicted' = NoBytes
    BY <1>0, <2>1 DEF Fail, Idle, Operation
  <2> QED
    BY <1>0, <2>2 DEF AgendaConsistent, CallbackActive
<1>5. CASE EndOperation \/ EnterDone \/ ReleaseDone
  <2>1. op' = Idle /\ predicted' = NoBytes
    BY <1>5 DEF EndOperation, EnterDone, ReleaseDone
  <2> QED
    BY <1>0, <2>1 DEF AgendaConsistent, CallbackActive, Idle
<1>6. CASE ReclaimDone \/ ReserveDone \/ ExitDone
  <2>1. op.todo = <<>> /\ op.reserve = <<>> /\ ~CallbackActive /\ predicted' = predicted
    BY <1>0, <1>6 DEF ReclaimDone, ReserveDone, ExitDone, Advance, ControlConsistent
  <2>2. op'.load = op.load /\ op'.kind \in {"reserve", "enter", "release"}
        /\ (op'.kind = "reserve" => op'.todo = op.todo) /\ (op'.kind # "reserve" => op'.reserve = op.reserve)
    BY <1>0, <1>6 DEF ReclaimDone, ReserveDone, ExitDone, Operation
  <2> QED
    BY <2>1, <2>2 DEF AgendaConsistent, CallbackActive
<1>7. ASSUME NEW r \in Reservations, ReserveNext(r) PROVE AgendaConsistent'
  <2>1. op.reserve # <<>> /\ op.kind = "reserve" /\ op.todo = <<>> /\ ~CallbackActive
    BY <1>0, <1>7 DEF ReserveNext, AgendaConsistent, ControlConsistent
  <2>2. op'.load = op.load /\ op'.kind = op.kind /\ op'.todo = op.todo /\ predicted' = predicted
    BY <1>0, <1>7 DEF ReserveNext, Operation
  <2> QED
    BY <2>1, <2>2 DEF AgendaConsistent, CallbackActive
<1>8. ASSUME NEW r \in Reservations, ReleaseNext(r) PROVE AgendaConsistent'
  BY <1>8 DEF ReleaseNext, ReleaseHeadroom, holder, AgendaConsistent, CallbackActive, Request
<1> QED
  BY <1>1, <1>2, <1>3, <1>4, <1>5, <1>6, <1>7, <1>8 DEF HolderStep

LEMMA AgendaBegun ==
    ASSUME NEW kind \in OpKinds \ {"reserve"}, NEW todo, NEW scope, NEW peaks \in [Locations -> Int],
           Begin(kind, todo, scope, peaks)
    PROVE  AgendaConsistent'
BY DEF Begin, AgendaConsistent, CallbackActive

LEMMA AgendaKept ==
    ASSUME AgendaConsistent, UNCHANGED <<op, predicted>>
    PROVE  AgendaConsistent'
BY DEF AgendaConsistent, CallbackActive, Request

PlanInv == PlacementInv /\ AgendaConsistent /\ DryRun

LEMMA PlanStepKept ==
    ASSUME PlanInv, TypeOK', [Next]_vars
    PROVE  AgendaConsistent' /\ DryRun'
<1>0. TypeOK /\ ControlConsistent /\ NoBytes \in [Locations -> Int]
  BY DEF PlanInv, PlacementInv, NoBytes
<1>1. CASE HolderStep
  BY <1>1, HolderAgenda, HolderDryRun DEF PlanInv
<1>2. ASSUME NEW batch \in Batches, ExecuteActions(batch) PROVE AgendaConsistent' /\ DryRun'
  <2>1. predicted' \in [Locations -> Int] /\ DryRun'
    BY <1>0, <1>2, ExecuteDryRun
  <2>2. PICK peaks : Begin("execute", batch, NoScope, peaks)
    BY <1>2 DEF ExecuteActions
  <2> QED
    BY <2>1, <2>2, AgendaBegun DEF OpKinds, Begin
<1>3. ASSUME NEW s \in Scopes, EnterScope(s) PROVE AgendaConsistent' /\ DryRun'
  <2>1. predicted' \in [Locations -> Int] /\ DryRun'
    BY <1>0, <1>3, EnterDryRun
  <2>2. PICK todo, peaks : Begin("reclaim", todo, s, peaks)
    BY <1>3 DEF EnterScope
  <2> QED
    BY <2>1, <2>2, AgendaBegun DEF OpKinds, Begin
<1>4. ASSUME NEW a \in Requests, Run(a) PROVE AgendaConsistent' /\ DryRun'
  BY <1>0, <1>4, AgendaBegun DEF Run, OpKinds, Begin, DryRun, Preflighted
<1>5. ASSUME NEW s \in Scopes, ExitScope(s) PROVE AgendaConsistent' /\ DryRun'
  BY <1>0, <1>5, AgendaBegun DEF ExitScope, OpKinds, Begin, DryRun, Preflighted
<1>6. ASSUME ~HolderStep, UNCHANGED <<op, predicted>> PROVE AgendaConsistent' /\ DryRun'
  <2>1. CASE Preflighted
    BY <1>6, <2>1, AgendaKept, OutsideDryRun DEF PlanInv
  <2>2. CASE ~Preflighted
    BY <1>6, <2>2, AgendaKept DEF PlanInv, DryRun, Preflighted
  <2> QED
    BY <2>1, <2>2
<1>7. CASE UseScope
  <2> SUFFICES ASSUME NEW s \in Scopes,
                      \/ \E plan \in Plans, versioned \in BOOLEAN : NewScope(s, plan, versioned)
                      \/ RefuseScope(s) \/ RejectScope(s) \/ AbandonScope(s)
               PROVE  UNCHANGED <<op, predicted>>
    BY <1>1, <1>3, <1>5, <1>6, <1>7 DEF UseScope
  <2> QED
    BY DEF NewScope, RefuseScope, RejectScope, AbandonScope, holder
<1>8. CASE Register \/ UseLease \/ UseHold \/ UseReservation
  <2>1. UNCHANGED <<op, predicted>>
    BY <1>8 DEF Register, RegisterSource, Adopt, UseLease, Acquire, LaunchRead, ReadsFinish,
       ReleaseNow, ReleaseLater, Releasing, UseHold, Hold, ReleaseHold, UseReservation, ReserveBytes,
       ReleaseReservation, ReleaseAbandoned, holder
  <2> QED
    BY <1>1, <1>6, <2>1
<1>9. CASE \/ Poll \/ (\E x \in Leases \cup Holds \cup Reservations : Orphan(x))
           \/ (\E force \in BOOLEAN : Close(force)) \/ UNCHANGED vars
  <2>1. UNCHANGED <<op, predicted>>
    BY <1>9 DEF Poll, Orphan, Close, vars, holder
  <2> QED
    BY <1>1, <1>6, <2>1
<1> QED
  BY <1>1, <1>2, <1>4, <1>7, <1>8, <1>9 DEF Next, Operate

LEMMA PlanInvariance == Spec => []PlanInv
<1>1. Init => AgendaConsistent /\ DryRun
  BY DEF Init, AgendaConsistent, DryRun, Preflighted, Idle, CallbackActive, NoBytes
<1>2. PlacementInv /\ PlacementInv' /\ AgendaConsistent /\ DryRun /\ [Next]_vars
        => AgendaConsistent' /\ DryRun'
  <2>1. PlacementInv' => TypeOK'
    BY DEF PlacementInv
  <2> QED
    BY <2>1, PlanStepKept DEF PlanInv
<1>3. PlacementInv /\ AgendaConsistent /\ DryRun => PlanInv
  BY DEF PlanInv
<1> QED
  BY <1>1, <1>2, <1>3, PlacementInvariance, PTL DEF Spec

-----------------------------------------------------------------------------
(* What the preflight promises *)

LEMMA FitsTouched ==
    ASSUME TypeOK, NEW l \in Locations, NEW n \in Nat, Fields, Touch(Planned, l, n).feasible
    PROVE  Fits(l, n)
<1>1. Planned \in SimulationRecord
  BY PlannedTyped DEF PlannedOK
<1>2. Budget[l] # NoBudget => Planned.used[l] + Planned.reserved[l] + n <= Budget[l]
  BY <1>1, TouchFacts
<1>3. used_bytes[l] \in Int /\ reserved_bytes[l] \in Int /\ (Budget[l] # NoBudget => Budget[l] \in Nat)
  BY LocationAssumption DEF TypeOK, PlacementTyped, HeadroomTyped
<1>4. Planned.used[l] = used_bytes[l] /\ Planned.reserved[l] = reserved_bytes[l]
  BY DEF Fields
<1> QED
  BY <1>2, <1>3, <1>4 DEF Fits

LEMMA ReplicaFits ==
    ASSUME TypeOK, Fields, NEW v \in Values, NEW l \in Locations, AddReplica(Planned, v, l).feasible
    PROVE  Fits(l, Size[v])
<1>1. Touch(Planned, l, Size[v]).feasible
  BY DEF AddReplica
<1> QED
  BY <1>1, FitsTouched, SpecAssumption

LEMMA LoadFitsSource ==
    ASSUME TypeOK, Fields, NEW v \in Values, NEW l \in Locations, FromSource(Planned, v, l).feasible
    PROVE  Reconstructible(v) /\ Fits(SourceAt[v], Size[v])
<1>1. LoadCharged(Planned, v, l, FromSource(Planned, v, l))
  BY PlannedTyped, FromSourceFacts DEF PlannedOK
<1>2. SourceAt[v] \in Locations /\ Size[v] \in Nat
  BY <1>1, SpecAssumption DEF LoadCharged
<1>3. Reconstructible(v)
  BY <1>2, NoneAssumption DEF Reconstructible
<1>4. Budget[SourceAt[v]] # NoBudget =>
        used_bytes[SourceAt[v]] + reserved_bytes[SourceAt[v]] + Size[v] <= Budget[SourceAt[v]]
  BY <1>1 DEF LoadCharged, Fields
<1>5. used_bytes[SourceAt[v]] \in Int /\ reserved_bytes[SourceAt[v]] \in Int
      /\ (Budget[SourceAt[v]] # NoBudget => Budget[SourceAt[v]] \in Nat)
  BY <1>2, LocationAssumption DEF TypeOK, PlacementTyped, HeadroomTyped
<1> QED
  BY <1>2, <1>3, <1>4, <1>5 DEF Fits

LEMMA HeadRequestFeasible ==
    ASSUME TypeOK, Fields, op.todo # <<>>, Do(World, Planned, Request).feasible
    PROVE  Feasible
<1> DEFINE a == Request
           v == a.handle
           S == materializations[v]
<1>1. a \in ResidencyAction
  BY HeadRequestTyped
<1> HIDE DEF a
<1>2. /\ v \in Values /\ a.to \in Place /\ a.from \in Place /\ (a.op # "discard" => a.to \in Locations)
      /\ a.op \in {"ensure", "move", "drop", "discard"} /\ a \notin MemoryReservation
  BY <1>1, RequestTyped, RequestIsNoReservation
<1>3. a.op # "move" => a.from = NoLocation
  BY <1>1 DEF ResidencyAction, EnsureResident, MoveResident, DropResident, DiscardValue
<1>4. SimulateAction(Planned, a, Live, ProtectedPairs).feasible
  BY <1>2 DEF Do, World, a
<1>5. Infeasible(Planned).feasible = FALSE
  <2>1. Planned \in SimulationRecord
    BY PlannedTyped DEF PlannedOK
  <2> QED
    BY <2>1 DEF Infeasible, SimulationRecord
<1>6. v \in Live /\ v \notin Planned.discarded
  <2>1. Planned.feasible = TRUE
    BY DEF Fields
  <2> QED
    BY <1>4, <1>5, <2>1 DEF SimulateAction
<1>7. records[v] = "live"
  BY <1>2, <1>6 DEF Live, Fields, TypeOK, PlacementTyped
<1>8. /\ a.op = "ensure" => SimulateEnsure(Planned, a).feasible
      /\ a.op = "move" => SimulateMove(Planned, a, ProtectedPairs).feasible
      /\ a.op = "drop" => SimulateDrop(Planned, a, ProtectedPairs).feasible
      /\ a.op = "discard" => SimulateDiscard(Planned, a, ProtectedPairs).feasible
  BY <1>4, <1>7, DoRequest DEF Do, World, a
<1>9. Planned.locations[v] = S /\ Resident = S /\ S \in SUBSET Locations /\ Nbytes = Size[v]
  BY <1>2 DEF Fields, Resident, Nbytes, TypeOK, PlacementTyped, a
<1>10. \A l \in Locations : <<v, l>> \notin ProtectedPairs => Removable(l)
  BY <1>2 DEF Removable, ProtectedPairs, a
<1> HIDE DEF S
<1>11. CASE a.op = "ensure"
  <2>1. CASE a.to \in S
    BY <1>7, <1>9, <1>11, <2>1 DEF Feasible, NoOp, a
  <2>2. CASE a.to \notin S /\ S = {}
    <3>1. FromSource(Planned, v, a.to).feasible
      BY <1>8, <1>9, <1>11, <2>2 DEF SimulateEnsure
    <3>2. Reconstructible(v) /\ Fits(SourceAt[v], Size[v])
      BY <1>2, <1>11, <3>1, LoadFitsSource
    <3>3. NeedsLoad
      BY <1>3, <1>9, <1>11, <2>2, <3>2 DEF NeedsLoad, a
    <3> QED
      BY <1>7, <3>3 DEF Feasible, a
  <2>3. CASE a.to \notin S /\ S # {}
    <3>1. v \notin Exclusive /\ AddReplica(Planned, v, a.to).feasible
      BY <1>5, <1>8, <1>9, <1>11, <2>3 DEF SimulateEnsure
    <3>2. Fits(a.to, Size[v])
      BY <1>2, <1>11, <3>1, ReplicaFits
    <3>3. CanReplicate
      BY <1>9, <1>11, <2>3, <3>1, <3>2 DEF CanReplicate, a
    <3> QED
      BY <1>7, <3>3 DEF Feasible, a
  <2> QED
    BY <2>1, <2>2, <2>3
<1>12. CASE a.op = "move"
  <2> DEFINE source == SelectSource(S \ {a.to}, a.from)
             move == SimulateMove(Planned, a, ProtectedPairs)
  <2>0. source = Source
    BY <1>9 DEF Source, a
  <2>1. ~(a.from # NoLocation /\ a.from \notin S)
    <3> SUFFICES ASSUME a.from # NoLocation, a.from \notin S PROVE FALSE
      OBVIOUS
    <3>0. Planned.locations[a.handle] = S
      BY <1>9
    <3>1. move = Infeasible(Planned)
      BY <3>0 DEF SimulateMove, SelectSource
    <3> QED
      BY <1>5, <1>8, <1>12, <3>1
  <2>2. CASE a.to \in S /\ source \in {NoLocation, a.to}
    BY <1>7, <1>9, <1>12, <2>0, <2>2 DEF Feasible, NoOp, a
  <2>3. CASE ~(a.to \in S /\ source \in {NoLocation, a.to}) /\ S = {} /\ a.from = NoLocation
    <3>1. FromSource(Planned, v, a.to).feasible
      BY <1>8, <1>9, <1>12, <2>1, <2>3 DEF SimulateMove
    <3>2. Reconstructible(v) /\ Fits(SourceAt[v], Size[v])
      BY <1>2, <1>12, <3>1, LoadFitsSource
    <3>3. NeedsLoad
      BY <1>9, <1>12, <2>3, <3>2 DEF NeedsLoad, a
    <3> QED
      BY <1>7, <3>3 DEF Feasible, a
  <2>4. CASE ~(a.to \in S /\ source \in {NoLocation, a.to}) /\ ~(S = {} /\ a.from = NoLocation)
    <3>1. source \in S /\ (a.to \in S => source \in S \ {a.to})
      BY <1>2, <1>9, <2>1, <2>4, MoveSource
    <3> HIDE DEF source
    <3>2. /\ <<v, source>> \notin ProtectedPairs
          /\ a.to \notin S => AddReplica(Planned, v, a.to).feasible
      <4>1. move = (IF <<v, source>> \in ProtectedPairs THEN Infeasible(Planned)
                    ELSE IF a.to \in S THEN RemoveReplica(Planned, v, source)
                    ELSE IF AddReplica(Planned, v, a.to).feasible
                    THEN RemoveReplica(AddReplica(Planned, v, a.to), v, source)
                    ELSE AddReplica(Planned, v, a.to))
        BY <1>9, <2>1, <2>4 DEF SimulateMove, source
      <4> QED
        BY <1>5, <1>8, <1>12, <4>1
    <3>3. Removable(source)
      BY <1>9, <1>10, <3>1, <3>2
    <3>4. CASE a.to \in S
      <4>1. CanCollapse
        BY <1>9, <1>12, <2>0, <3>1, <3>3, <3>4 DEF CanCollapse, a
      <4> QED
        BY <1>7, <4>1 DEF Feasible, a
    <3>5. CASE a.to \notin S
      <4>1. Fits(a.to, Size[v])
        BY <1>2, <1>12, <3>2, <3>5, ReplicaFits
      <4>2. CanMove
        BY <1>9, <1>12, <2>0, <3>1, <3>3, <3>5, <4>1 DEF CanMove, a
      <4> QED
        BY <1>7, <4>2 DEF Feasible, a
    <3> QED
      BY <3>4, <3>5
  <2> QED
    BY <2>2, <2>3, <2>4
<1>13. CASE a.op = "drop"
  <2>1. CASE a.to \notin S
    BY <1>7, <1>9, <1>13, <2>1 DEF Feasible, NoOp, a
  <2>2. CASE a.to \in S
    <3>1. <<v, a.to>> \notin ProtectedPairs /\ ~(S = {a.to} /\ ~Reconstructible(v))
      BY <1>5, <1>8, <1>9, <1>13, <2>2 DEF SimulateDrop
    <3>2. CanDrop
      BY <1>9, <1>10, <1>13, <2>2, <3>1 DEF CanDrop, a
    <3> QED
      BY <1>7, <3>2 DEF Feasible, a
  <2> QED
    BY <2>1, <2>2
<1>14. CASE a.op = "discard"
  <2>1. ~ \E l \in S : <<v, l>> \in ProtectedPairs
    BY <1>5, <1>8, <1>9, <1>14 DEF SimulateDiscard
  <2>2. CanDiscard
    BY <1>9, <1>10, <1>14, <2>1 DEF CanDiscard, a
  <2> QED
    BY <1>7, <2>2 DEF Feasible, a
<1> QED
  BY <1>2, <1>11, <1>12, <1>13, <1>14

\* Every request, load and reservation of an admitted plan is possible when its
\* turn comes: between the preflight and the last step nothing a step did, a
\* callback allowed or a client released takes away what the dry run relied on,
\* so only a source, a copy or a validation can fail.
THEOREM AdmittedPlansAreFeasible == Spec => []AdmittedStepsFeasible
<1>1. ASSUME PlanInv PROVE AdmittedStepsFeasible
  <2> SUFFICES ASSUME Preflighted
               PROVE  /\ Ready => Feasible
                      /\ CallbackActive => LoadFits
                      /\ op.reserve # <<>> => Fits(Head(op.reserve).location, Head(op.reserve).nbytes)
    BY DEF AdmittedStepsFeasible
  <2>0. TypeOK /\ ControlConsistent /\ PlacementInv /\ AgendaConsistent /\ DryRun
    BY <1>1 DEF PlanInv, PlacementInv
  <2>1. op.todo # <<>> => Do(World, Planned, Request).feasible
    BY <2>0, AgendaHead, DryRunHead
  <2>2. Ready => Feasible
    BY <2>0, <2>1, FieldsAtRest, HeadRequestFeasible DEF Ready
  <2>3. ASSUME CallbackActive PROVE LoadFits
    <3> DEFINE v == Request.handle
               l == Request.to
    <3>1. /\ op.load.handle = v /\ op.load.to = l /\ v \in Values /\ l \in Locations
          /\ FromSource(Planned, v, l).feasible
      BY <2>0, <2>1, <2>3, LoadHead
    <3> HIDE DEF v, l
    <3>2. LoadCharged(Planned, v, l, FromSource(Planned, v, l))
      BY <2>0, <3>1, PlannedTyped, FromSourceFacts DEF PlannedOK
    <3>3. Budget[l] # NoBudget => Planned.used[l] + Planned.reserved[l] + Size[v] <= Budget[l]
      BY <3>2 DEF LoadCharged
    <3>4. SUFFICES ASSUME l # SourceAt[v] PROVE Fits(l, Size[v])
      BY <3>1 DEF LoadFits
    <3>5. /\ used_bytes[l] \in Int /\ reserved_bytes[l] \in Int /\ Size[v] \in Nat
          /\ Budget[l] # NoBudget => Budget[l] \in Nat
      BY <2>0, <3>1, LocationAssumption, SpecAssumption DEF TypeOK, PlacementTyped, HeadroomTyped
    <3>6. Planned.used[l] = used_bytes[l] /\ Planned.reserved[l] = reserved_bytes[l]
      BY <3>1, <3>4, <3>5 DEF Planned, Loading
    <3> QED
      BY <3>3, <3>5, <3>6 DEF Fits
  <2>4. ASSUME op.reserve # <<>>
        PROVE  Fits(Head(op.reserve).location, Head(op.reserve).nbytes)
    <3> DEFINE q == Head(op.reserve)
    <3>1. ~CallbackActive /\ Do(World, Planned, q).feasible
      BY <2>0, <2>4, AgendaReserve, DryRunHead
    <3>2. op.reserve \in Seq(MemoryReservation)
      BY <2>0 DEF TypeOK, ControlTyped, Operation
    <3>3. q \in MemoryReservation
      BY <2>4, <3>2
    <3> HIDE DEF q
    <3>4. Fields /\ Planned \in SimulationRecord /\ q.location \in Locations /\ q.nbytes \in Nat
      BY <2>0, <3>1, <3>3, FieldsAtRest, PlannedTyped DEF MemoryReservation, PlannedOK
    <3>5. AdmitReservation(Planned, q).feasible
      BY <3>1, <3>3 DEF Do
    <3>6. AdmitReservation(Planned, q).feasible = Touch(Planned, q.location, q.nbytes).feasible
      <4>1. Planned.feasible
        BY <3>4 DEF Fields
      <4> QED
        BY <3>3, <3>4, <4>1, AdmitFacts
    <3> QED
      BY <2>0, <3>4, <3>5, <3>6, FitsTouched DEF q
  <2> QED
    BY <2>2, <2>3, <2>4
<1> QED
  BY <1>1, PlanInvariance, PTL

\* The peaks announced for a plan are a bound for what it charges, at every
\* location and at every moment of its execution, also in the middle of a load.
THEOREM PeaksAreCovered == Spec => []PredictedPeakCoversCharge
<1>1. ASSUME PlanInv PROVE PredictedPeakCoversCharge
  <2> SUFFICES ASSUME Preflighted, NEW m \in Locations
               PROVE  used_bytes[m] + reserved_bytes[m] <= predicted[m]
    BY DEF PredictedPeakCoversCharge
  <2>0. TypeOK /\ ControlConsistent /\ PlacementInv /\ AgendaConsistent /\ DryRun
    BY <1>1 DEF PlanInv, PlacementInv
  <2>1. Planned.peaks[m] <= predicted[m] /\ predicted[m] \in Int
    BY <2>0, DryRunHead DEF AgendaConsistent
  <2>2. used_bytes[m] \in Int /\ reserved_bytes[m] \in Int
    BY <2>0 DEF TypeOK, PlacementTyped, HeadroomTyped
  <2>3. CASE Loading(m) = 0
    <3>1. Planned.peaks[m] = used_bytes[m] + reserved_bytes[m]
      BY <2>2, <2>3 DEF Planned
    <3> QED
      BY <2>1, <3>1
  <2>4. CASE Loading(m) # 0
    <3> DEFINE v == Request.handle
               l == Request.to
               t == FromSource(Planned, v, l)
    <3>1. CallbackActive /\ SourceAt[op.load.handle] = m /\ Loading(m) = Size[op.load.handle]
      BY <2>4 DEF Loading
    <3>2. /\ op.load.handle = v /\ v \in Values /\ l \in Locations /\ op.todo # <<>>
          /\ Do(World, Planned, Request) = t
      BY <2>0, <3>1, LoadHead
    <3>3. t.feasible /\ t.peaks[m] <= predicted[m] /\ t \in SimulationRecord
      BY <2>0, <3>2, AgendaHead, DryRunHead
    <3> HIDE DEF v, l
    <3>4. LoadCharged(Planned, v, l, t)
      BY <2>0, <3>2, <3>3, PlannedTyped, FromSourceFacts DEF PlannedOK
    <3>5. Planned.used[m] + Planned.reserved[m] + Size[v] <= t.peaks[m]
      BY <3>1, <3>2, <3>4 DEF LoadCharged
    <3>6. t.peaks[m] \in Int /\ Size[v] \in Nat
      BY <3>2, <3>3, SpecAssumption DEF SimulationRecord
    <3>7. Planned.used[m] + Planned.reserved[m] + Size[v] = used_bytes[m] + reserved_bytes[m]
      BY <2>2, <3>1, <3>2, <3>6 DEF Planned
    <3> HIDE DEF t
    <3> QED
      BY <2>1, <2>2, <3>3, <3>5, <3>6, <3>7
  <2> QED
    BY <2>3, <2>4
<1> QED
  BY <1>1, PlanInvariance, PTL
=============================================================================
