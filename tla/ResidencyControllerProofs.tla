----------------------- MODULE ResidencyControllerProofs -----------------------
(***************************************************************************)
(* What TLAPS proves of the controller, for any number of uses, any        *)
(* requests, any ranking of the values and any clients beside it.          *)
(*                                                                         *)
(* ControllerIsAClient: a behaviour of the controller, seen through the    *)
(* manager's variables, is one of ResidencyManager with any plan allowed.  *)
(* There a scope only has a version once it is made, while here a decision *)
(* has one before: Born leaves out the versions of scopes not made yet.    *)
(* ClientInv is what the mapping needs: the scope of a use follows its     *)
(* stages.  Every promise proved of the manager carries over.              *)
(*                                                                         *)
(* StacksFollow says what the ExitStack of a use holds at every stage, and *)
(* DecisionsHold that a decision whose version is still current would be   *)
(* taken again: BorrowsStayPut, EndedUsesOwnNothing and                    *)
(* PlansStartWhereDecided follow, and with ResidencyPlannerProofs that the *)
(* preflight agrees with the search.                                       *)
(***************************************************************************)
EXTENDS ResidencyController, ResidencyPlannerProofs

-----------------------------------------------------------------------------
(* The order in which a request's locations are leased *)

Wanted(request, n) == request.requirements[n].location
WantedBy(request, n) == {Wanted(request, m) : m \in 1 .. n}
Count(request, n) == Cardinality(WantedBy(request, n))
FirstWanted(request, n) == \A m \in 1 .. n - 1 : Wanted(request, m) # Wanted(request, n)

LEMMA CountSteps ==
    ASSUME NEW r
    PROVE  /\ Count(r, 0) = 0
           /\ \A n \in Nat : /\ IsFiniteSet(WantedBy(r, n)) /\ Count(r, n) \in Nat
                             /\ Count(r, n + 1) = IF FirstWanted(r, n + 1) THEN Count(r, n) + 1
                                                                       ELSE Count(r, n)
<1>1. WantedBy(r, 0) = {}
  BY DEF WantedBy
<1>2. ASSUME NEW n \in Nat
      PROVE  /\ WantedBy(r, n + 1) = WantedBy(r, n) \cup {Wanted(r, n + 1)}
             /\ FirstWanted(r, n + 1) <=> Wanted(r, n + 1) \notin WantedBy(r, n)
  <2>1. 1 .. n + 1 = (1 .. n) \cup {n + 1} /\ n + 1 - 1 = n
    OBVIOUS
  <2> QED BY <2>1 DEF WantedBy, FirstWanted
<1> DEFINE Finite == {n \in Nat : IsFiniteSet(WantedBy(r, n))}
<1>3. 0 \in Finite
  BY <1>1, FS_EmptySet
<1>4. ASSUME NEW n \in Nat, n \in Finite PROVE n + 1 \in Finite
  BY <1>2, <1>4, FS_AddElement
<1>5. \A n \in Nat : n \in Finite
  <2> HIDE DEF Finite
  <2> QED BY <1>3, <1>4, InductionOnNat
<1>6. Count(r, 0) = 0
  BY <1>1, FS_EmptySet DEF Count
<1>7. ASSUME NEW n \in Nat
      PROVE  /\ IsFiniteSet(WantedBy(r, n)) /\ Count(r, n) \in Nat
             /\ Count(r, n + 1) = IF FirstWanted(r, n + 1) THEN Count(r, n) + 1 ELSE Count(r, n)
  <2>1. IsFiniteSet(WantedBy(r, n))
    BY <1>5
  <2>2. Count(r, n) \in Nat
    BY <2>1, FS_CardinalityType DEF Count
  <2>3. Count(r, n + 1) = IF Wanted(r, n + 1) \in WantedBy(r, n) THEN Count(r, n) ELSE Count(r, n) + 1
    <3>1. Cardinality(WantedBy(r, n) \cup {Wanted(r, n + 1)})
            = IF Wanted(r, n + 1) \in WantedBy(r, n) THEN Cardinality(WantedBy(r, n))
                                                    ELSE Cardinality(WantedBy(r, n)) + 1
      BY <2>1, FS_AddElement
    <3> QED BY <1>2, <3>1 DEF Count
  <2> QED BY <1>2, <2>1, <2>2, <2>3
<1> QED BY <1>6, <1>7

\* The count grows with the requirements, so a first requirement is told apart
\* by its count.
LEMMA CountGrows ==
    ASSUME NEW r, NEW m \in Nat, NEW n \in Nat, m <= n
    PROVE  Count(r, m) <= Count(r, n)
<1> DEFINE G == {k \in Nat : Count(r, m) <= Count(r, m + k)}
<1>1. 0 \in G
  <2>1. Count(r, m) \in Nat
    BY CountSteps
  <2>2. m + 0 = m
    OBVIOUS
  <2> QED BY <2>1, <2>2
<1>2. ASSUME NEW k \in Nat, k \in G PROVE k + 1 \in G
  <2>1. m + (k + 1) = (m + k) + 1 /\ m + k \in Nat
    OBVIOUS
  <2>2. Count(r, m) \in Nat /\ Count(r, m + k) \in Nat
    BY <2>1, CountSteps
  <2>3. Count(r, (m + k) + 1) \in {Count(r, m + k), Count(r, m + k) + 1}
    BY <2>1, CountSteps
  <2>4. Count(r, m) <= Count(r, m + k)
    BY <1>2
  <2>5. Count(r, m) <= Count(r, (m + k) + 1)
    BY <2>2, <2>3, <2>4
  <2> QED BY <2>1, <2>5
<1>3. \A k \in Nat : k \in G
  <2> HIDE DEF G
  <2> QED BY <1>1, <1>2, InductionOnNat
<1>4. n - m \in Nat /\ m + (n - m) = n
  OBVIOUS
<1> QED BY <1>3, <1>4

LEMMA FirstsDiffer ==
    ASSUME NEW r, NEW m \in Nat \ {0}, NEW n \in Nat \ {0}, m < n, FirstWanted(r, n)
    PROVE  Count(r, m) < Count(r, n)
<1>1. n - 1 \in Nat /\ m <= n - 1 /\ (n - 1) + 1 = n
  OBVIOUS
<1>2. Count(r, m) <= Count(r, n - 1)
  BY <1>1, CountGrows
<1>3. Count(r, n) = Count(r, n - 1) + 1
  BY <1>1, CountSteps
<1>4. Count(r, m) \in Nat /\ Count(r, n - 1) \in Nat
  BY <1>1, CountSteps
<1> QED BY <1>2, <1>3, <1>4

Slot(r, k) == CHOOSE n \in DOMAIN r.requirements : FirstWanted(r, n) /\ Count(r, n) = k

Enough(r) == Count(r, Len(r.requirements))

LEMMA SlotExists ==
    ASSUME NEW r \in ResidencyRequest, NEW k \in 1 .. Enough(r)
    PROVE  Slot(r, k) \in DOMAIN r.requirements /\ FirstWanted(r, Slot(r, k)) /\ Count(r, Slot(r, k)) = k
<1> DEFINE Reached == {n \in Nat : Count(r, n) >= k}
<1>1. r.requirements \in Seq([handle : Values, location : Locations])
  BY DEF ResidencyRequest
<1>2. DOMAIN r.requirements = 1 .. Len(r.requirements) /\ Len(r.requirements) \in Nat
  BY <1>1
<1>3. Enough(r) \in Nat
  BY <1>2, CountSteps DEF Enough
<1>4. Len(r.requirements) \in Reached
  BY <1>2, <1>3 DEF Enough
<1>5. PICK n \in Reached : \A m \in Reached : n <= m
  <2> HIDE DEF Reached
  <2>1. Reached \in SUBSET Nat
    BY DEF Reached
  <2> QED BY <1>4, <2>1, LeastNatural
<1>6. n # 0
  BY <1>3, <1>5, CountSteps
<1>7. n - 1 \in Nat /\ (n - 1) + 1 = n /\ n - 1 < n
  BY <1>6
<1>8. Count(r, n - 1) \in Nat /\ Count(r, n - 1) < k
  <2>1. Count(r, n - 1) \in Nat
    BY <1>7, CountSteps
  <2>2. n - 1 \notin Reached
    BY <1>5, <1>7
  <2> QED BY <1>3, <1>7, <2>1, <2>2
<1>9. Count(r, n) = IF FirstWanted(r, n) THEN Count(r, n - 1) + 1 ELSE Count(r, n - 1)
  BY <1>7, CountSteps
<1>10. FirstWanted(r, n) /\ Count(r, n) = k
  BY <1>3, <1>5, <1>8, <1>9
<1>11. n \in DOMAIN r.requirements
  BY <1>2, <1>4, <1>5, <1>6
<1> QED BY <1>10, <1>11 DEF Slot

LEMMA LeaseOrderSlots ==
    ASSUME NEW r \in ResidencyRequest
    PROVE  LeaseOrder(r) = [k \in 1 .. Enough(r) |-> Wanted(r, Slot(r, k))]
<1> DEFINE places == [n \in DOMAIN r.requirements |-> r.requirements[n].location]
<1>1. r.requirements \in Seq([handle : Values, location : Locations])
  BY DEF ResidencyRequest
<1>2. DOMAIN r.requirements = 1 .. Len(r.requirements) /\ Len(r.requirements) \in Nat
  BY <1>1
<1>3. \A n \in DOMAIN r.requirements : \A m \in 1 .. n :
         m \in DOMAIN r.requirements /\ places[m] = Wanted(r, m)
  BY <1>2 DEF Wanted
<1>4. {places[n] : n \in DOMAIN places} = WantedBy(r, Len(r.requirements))
  BY <1>2 DEF Wanted, WantedBy
<1>5. ASSUME NEW n \in DOMAIN r.requirements
      PROVE  /\ (\A m \in 1 .. n - 1 : places[m] # places[n]) <=> FirstWanted(r, n)
             /\ {places[m] : m \in 1 .. n} = WantedBy(r, n)
  <2>1. n \in 1 .. n /\ \A m \in 1 .. n - 1 : m \in 1 .. n
    BY <1>2
  <2> QED BY <1>3, <2>1 DEF FirstWanted, WantedBy
<1>6. ASSUME NEW k \in 1 .. Enough(r)
      PROVE  places[CHOOSE n \in DOMAIN places :
                 /\ \A m \in 1 .. n - 1 : places[m] # places[n]
                 /\ Cardinality({places[m] : m \in 1 .. n}) = k] = Wanted(r, Slot(r, k))
  <2>1. \A n \in DOMAIN places :
          /\ \A m \in 1 .. n - 1 : places[m] # places[n]
          /\ Cardinality({places[m] : m \in 1 .. n}) = k
          <=> FirstWanted(r, n) /\ Count(r, n) = k
    BY <1>5 DEF Count
  <2> QED BY <2>1, SlotExists DEF Slot, Wanted
<1> QED BY <1>4, <1>6 DEF LeaseOrder, Count, Enough

\* The locations are leased one by one, and none of those required is left out.
LEMMA SeqOfFunction ==
    ASSUME NEW S, NEW n \in Nat, NEW f \in [1 .. n -> S]
    PROVE  f \in Seq(S) /\ Len(f) = n
  OBVIOUS

LEMMA LeaseOrderIsOrder ==
    ASSUME NEW r \in ResidencyRequest
    PROVE  /\ LeaseOrder(r) \in Seq(Locations)
           /\ \A j, k \in 1 .. Len(LeaseOrder(r)) : LeaseOrder(r)[j] = LeaseOrder(r)[k] => j = k
           /\ \A n \in DOMAIN r.requirements :
                 \E k \in 1 .. Len(LeaseOrder(r)) : LeaseOrder(r)[k] = r.requirements[n].location
<1>1. r.requirements \in Seq([handle : Values, location : Locations])
  BY DEF ResidencyRequest
<1>2. DOMAIN r.requirements = 1 .. Len(r.requirements) /\ Len(r.requirements) \in Nat
  BY <1>1
<1>3. Enough(r) \in Nat
  BY <1>2, CountSteps DEF Enough
<1>4. \A n \in DOMAIN r.requirements : Wanted(r, n) \in Locations
  <2>1. ASSUME NEW S, NEW q \in Seq(S) PROVE \A n \in 1 .. Len(q) : q[n] \in S
    OBVIOUS
  <2>2. \A n \in DOMAIN r.requirements : r.requirements[n] \in [handle : Values, location : Locations]
    BY <1>1, <1>2, <2>1
  <2>3. ASSUME NEW q \in [handle : Values, location : Locations] PROVE q.location \in Locations
    OBVIOUS
  <2> QED BY <2>2, <2>3 DEF Wanted
<1> DEFINE order == [k \in 1 .. Enough(r) |-> Wanted(r, Slot(r, k))]
<1>5. LeaseOrder(r) = order
  BY LeaseOrderSlots
<1>6. \A k \in 1 .. Enough(r) : Wanted(r, Slot(r, k)) \in Locations
  BY <1>4, SlotExists
<1>7. order \in Seq(Locations) /\ Len(order) = Enough(r)
  <2>1. order \in [1 .. Enough(r) -> Locations]
    BY <1>6
  <2> HIDE DEF order
  <2> QED BY <1>3, <2>1, SeqOfFunction
<1>8. ASSUME NEW j \in 1 .. Enough(r), NEW k \in 1 .. Enough(r), order[j] = order[k]
      PROVE  j = k
  <2> DEFINE m == Slot(r, j)
             n == Slot(r, k)
  <2>1. /\ m \in DOMAIN r.requirements /\ FirstWanted(r, m) /\ Count(r, m) = j
        /\ n \in DOMAIN r.requirements /\ FirstWanted(r, n) /\ Count(r, n) = k
    BY SlotExists
  <2>2. Wanted(r, m) = Wanted(r, n)
    BY <1>8
  <2> HIDE DEF m, n
  <2>3. m \in Nat /\ n \in Nat /\ m >= 1 /\ n >= 1
    BY <1>2, <2>1
  <2>4. ~(m < n) /\ ~(n < m)
    <3>1. m < n => m \in 1 .. n - 1
      BY <2>3
    <3>2. n < m => n \in 1 .. m - 1
      BY <2>3
    <3> QED BY <2>1, <2>2, <3>1, <3>2 DEF FirstWanted
  <2>5. m = n
    BY <2>3, <2>4
  <2> QED BY <2>1, <2>5
<1>9. ASSUME NEW n \in DOMAIN r.requirements
      PROVE  \E k \in 1 .. Enough(r) : order[k] = r.requirements[n].location
  <2> DEFINE Same == {m \in DOMAIN r.requirements : Wanted(r, m) = Wanted(r, n)}
  <2>1. PICK m \in Same : \A i \in Same : m <= i
    <3>1. n \in Same /\ Same \in SUBSET Nat
      BY <1>2
    <3> HIDE DEF Same
    <3> QED BY <3>1, LeastNatural
  <2>2. m \in 1 .. Len(r.requirements) /\ Wanted(r, m) = Wanted(r, n)
    BY <1>2, <2>1
  <2>3. FirstWanted(r, m)
    <3> SUFFICES ASSUME NEW i \in 1 .. m - 1, Wanted(r, i) = Wanted(r, m) PROVE FALSE
      BY DEF FirstWanted
    <3>1. i \in 1 .. Len(r.requirements) /\ i < m
      BY <1>2, <2>2
    <3> QED BY <1>2, <2>1, <2>2, <3>1
  <2> DEFINE k == Count(r, m)
  <2>4. k \in 1 .. Enough(r)
    <3>1. m \in Nat /\ m >= 1 /\ m <= Len(r.requirements) /\ m - 1 \in Nat /\ (m - 1) + 1 = m
      BY <1>2, <2>2
    <3>2. k <= Enough(r)
      BY <1>2, <3>1, CountGrows DEF Enough
    <3>3. Count(r, (m - 1) + 1) = Count(r, m - 1) + 1 /\ Count(r, m - 1) \in Nat
      BY <2>3, <3>1, CountSteps
    <3>4. k = Count(r, m - 1) + 1
      BY <3>1, <3>3
    <3> HIDE DEF k
    <3> QED BY <1>3, <3>2, <3>3, <3>4
  <2>5. Slot(r, k) = m
    <3> DEFINE i == Slot(r, k)
    <3>1. i \in DOMAIN r.requirements /\ FirstWanted(r, i) /\ Count(r, i) = k
      BY <2>4, SlotExists
    <3> HIDE DEF i
    <3>2. i \in Nat \ {0} /\ m \in Nat \ {0}
      BY <1>2, <2>2, <3>1
    <3>3. ~(i < m)
      BY <2>3, <2>4, <3>1, <3>2, FirstsDiffer
    <3>4. ~(m < i)
      BY <2>4, <3>1, <3>2, FirstsDiffer
    <3> QED BY <3>2, <3>3, <3>4 DEF i
  <2>6. order[k] = Wanted(r, m)
    BY <2>4, <2>5
  <2> QED BY <2>2, <2>4, <2>6 DEF Wanted
<1> HIDE DEF order
<1> QED BY <1>5, <1>7, <1>8, <1>9

-----------------------------------------------------------------------------
(* What the steps of a use do to its record *)

Stages == {"new", "decided", "explained", "entering", "leasing", "running", "leaving", "closed"}

UseRecord(x) ==
    /\ x = [stage |-> x.stage, request |-> x.request, answer |-> x.answer, plan |-> x.plan,
            todo |-> x.todo, leased |-> x.leased, lost |-> x.lost]
    /\ x.stage \in Stages
    /\ x.request \in ResidencyRequest
    /\ x.todo \in Seq(Locations) /\ x.leased \in Seq(Locations)

UsesTyped == uses = [u \in Uses |-> uses[u]] /\ \A u \in Uses : UseRecord(uses[u])

LEMMA NewUseTyped == UseRecord(NewUse)
BY DEF UseRecord, NewUse, NoRequest, Stages, ResidencyRequest

Use(stage, request, answer, plan, todo, leased, lost) ==
    [stage |-> stage, request |-> request, answer |-> answer, plan |-> plan,
     todo |-> todo, leased |-> leased, lost |-> lost]

LEMMA UseFields ==
    ASSUME NEW stage \in Stages, NEW request \in ResidencyRequest, NEW answer, NEW plan,
           NEW todo \in Seq(Locations), NEW leased \in Seq(Locations), NEW lost,
           NEW x, x = Use(stage, request, answer, plan, todo, leased, lost)
    PROVE  /\ UseRecord(x)
           /\ x.stage = stage /\ x.request = request /\ x.plan = plan
           /\ x.todo = todo /\ x.leased = leased /\ x.lost = lost
<1>1. /\ x.stage = stage /\ x.request = request /\ x.answer = answer /\ x.plan = plan
      /\ x.todo = todo /\ x.leased = leased /\ x.lost = lost
  BY DEF Use
<1>2. x = [stage |-> x.stage, request |-> x.request, answer |-> x.answer, plan |-> x.plan,
           todo |-> x.todo, leased |-> x.leased, lost |-> x.lost]
  BY <1>1 DEF Use
<1> QED BY <1>1, <1>2 DEF UseRecord

LEMMA UseOf ==
    ASSUME NEW x, UseRecord(x)
    PROVE  x = Use(x.stage, x.request, x.answer, x.plan, x.todo, x.leased, x.lost)
BY DEF UseRecord, Use

LEMMA SetStage ==
    ASSUME NEW x, UseRecord(x), NEW a
    PROVE  [x EXCEPT !.stage = a]
             = Use(a, x.request, x.answer, x.plan, x.todo, x.leased, x.lost)
BY UseOf DEF Use

LEMMA SetLeased ==
    ASSUME NEW x, UseRecord(x), NEW a
    PROVE  [x EXCEPT !.leased = a]
             = Use(x.stage, x.request, x.answer, x.plan, x.todo, a, x.lost)
BY UseOf DEF Use

LEMMA SetAnswer ==
    ASSUME NEW x, UseRecord(x), NEW a, NEW b
    PROVE  [x EXCEPT !.stage = a, !.answer = b]
             = Use(a, x.request, b, x.plan, x.todo, x.leased, x.lost)
<1>1. x = Use(x.stage, x.request, x.answer, x.plan, x.todo, x.leased, x.lost)
  BY UseOf
<1>2. PICK y1 : y1 = [x EXCEPT !.stage = a]
  OBVIOUS
<1>3. y1 = Use(a, x.request, x.answer, x.plan, x.todo, x.leased, x.lost)
  BY <1>1, <1>2 DEF Use
<1>4. PICK y2 : y2 = [y1 EXCEPT !.answer = b]
  OBVIOUS
<1>5. y2 = Use(a, x.request, b, x.plan, x.todo, x.leased, x.lost)
  BY <1>3, <1>4 DEF Use
<1>6. [x EXCEPT !.stage = a, !.answer = b] = [[x EXCEPT !.stage = a] EXCEPT !.answer = b]
  OBVIOUS
<1> QED BY <1>2, <1>4, <1>5, <1>6

LEMMA SetDecision ==
    ASSUME NEW x, UseRecord(x), NEW request, NEW plan
    PROVE  [x EXCEPT !.stage = "decided", !.answer = "plan", !.request = request, !.plan = plan]
             = Use("decided", request, "plan", plan, x.todo, x.leased, x.lost)
<1>1. x = Use(x.stage, x.request, x.answer, x.plan, x.todo, x.leased, x.lost)
  BY UseOf
<1>2. PICK y1 : y1 = [x EXCEPT !.stage = "decided"]
  OBVIOUS
<1>3. y1 = Use("decided", x.request, x.answer, x.plan, x.todo, x.leased, x.lost)
  BY <1>1, <1>2 DEF Use
<1>4. PICK y2 : y2 = [y1 EXCEPT !.answer = "plan"]
  OBVIOUS
<1>5. y2 = Use("decided", x.request, "plan", x.plan, x.todo, x.leased, x.lost)
  BY <1>3, <1>4 DEF Use
<1>6. PICK y3 : y3 = [y2 EXCEPT !.request = request]
  OBVIOUS
<1>7. y3 = Use("decided", request, "plan", x.plan, x.todo, x.leased, x.lost)
  BY <1>5, <1>6 DEF Use
<1>8. PICK y4 : y4 = [y3 EXCEPT !.plan = plan]
  OBVIOUS
<1>9. y4 = Use("decided", request, "plan", plan, x.todo, x.leased, x.lost)
  BY <1>7, <1>8 DEF Use
<1>10. [x EXCEPT !.stage = "decided", !.answer = "plan", !.request = request, !.plan = plan]
         = [[[[x EXCEPT !.stage = "decided"] EXCEPT !.answer = "plan"] EXCEPT !.request = request]
              EXCEPT !.plan = plan]
  OBVIOUS
<1> QED BY <1>2, <1>4, <1>6, <1>8, <1>9, <1>10

LEMMA SetTodo ==
    ASSUME NEW x, UseRecord(x), NEW a, NEW b
    PROVE  [x EXCEPT !.stage = a, !.todo = b]
             = Use(a, x.request, x.answer, x.plan, b, x.leased, x.lost)
<1>1. x = Use(x.stage, x.request, x.answer, x.plan, x.todo, x.leased, x.lost)
  BY UseOf
<1>2. PICK y1 : y1 = [x EXCEPT !.stage = a]
  OBVIOUS
<1>3. y1 = Use(a, x.request, x.answer, x.plan, x.todo, x.leased, x.lost)
  BY <1>1, <1>2 DEF Use
<1>4. PICK y2 : y2 = [y1 EXCEPT !.todo = b]
  OBVIOUS
<1>5. y2 = Use(a, x.request, x.answer, x.plan, b, x.leased, x.lost)
  BY <1>3, <1>4 DEF Use
<1>6. [x EXCEPT !.stage = a, !.todo = b] = [[x EXCEPT !.stage = a] EXCEPT !.todo = b]
  OBVIOUS
<1> QED BY <1>2, <1>4, <1>5, <1>6

LEMMA SetBorrowed ==
    ASSUME NEW x, UseRecord(x), NEW a, NEW b
    PROVE  [x EXCEPT !.todo = a, !.leased = b]
             = Use(x.stage, x.request, x.answer, x.plan, a, b, x.lost)
<1>1. x = Use(x.stage, x.request, x.answer, x.plan, x.todo, x.leased, x.lost)
  BY UseOf
<1>2. PICK y1 : y1 = [x EXCEPT !.todo = a]
  OBVIOUS
<1>3. y1 = Use(x.stage, x.request, x.answer, x.plan, a, x.leased, x.lost)
  BY <1>1, <1>2 DEF Use
<1>4. PICK y2 : y2 = [y1 EXCEPT !.leased = b]
  OBVIOUS
<1>5. y2 = Use(x.stage, x.request, x.answer, x.plan, a, b, x.lost)
  BY <1>3, <1>4 DEF Use
<1>6. [x EXCEPT !.todo = a, !.leased = b] = [[x EXCEPT !.todo = a] EXCEPT !.leased = b]
  OBVIOUS
<1> QED BY <1>2, <1>4, <1>5, <1>6

LEMMA SetLost ==
    ASSUME NEW x, UseRecord(x), NEW a, NEW b
    PROVE  [x EXCEPT !.leased = a, !.lost = b]
             = Use(x.stage, x.request, x.answer, x.plan, x.todo, a, b)
<1>1. x = Use(x.stage, x.request, x.answer, x.plan, x.todo, x.leased, x.lost)
  BY UseOf
<1>2. PICK y1 : y1 = [x EXCEPT !.leased = a]
  OBVIOUS
<1>3. y1 = Use(x.stage, x.request, x.answer, x.plan, x.todo, a, x.lost)
  BY <1>1, <1>2 DEF Use
<1>4. PICK y2 : y2 = [y1 EXCEPT !.lost = b]
  OBVIOUS
<1>5. y2 = Use(x.stage, x.request, x.answer, x.plan, x.todo, a, b)
  BY <1>3, <1>4 DEF Use
<1>6. [x EXCEPT !.leased = a, !.lost = b] = [[x EXCEPT !.leased = a] EXCEPT !.lost = b]
  OBVIOUS
<1> QED BY <1>2, <1>4, <1>5, <1>6

LEMMA SetGone ==
    ASSUME NEW x, UseRecord(x), NEW a, NEW b
    PROVE  [x EXCEPT !.stage = a, !.lost = b]
             = Use(a, x.request, x.answer, x.plan, x.todo, x.leased, b)
<1>1. x = Use(x.stage, x.request, x.answer, x.plan, x.todo, x.leased, x.lost)
  BY UseOf
<1>2. PICK y1 : y1 = [x EXCEPT !.stage = a]
  OBVIOUS
<1>3. y1 = Use(a, x.request, x.answer, x.plan, x.todo, x.leased, x.lost)
  BY <1>1, <1>2 DEF Use
<1>4. PICK y2 : y2 = [y1 EXCEPT !.lost = b]
  OBVIOUS
<1>5. y2 = Use(a, x.request, x.answer, x.plan, x.todo, x.leased, b)
  BY <1>3, <1>4 DEF Use
<1>6. [x EXCEPT !.stage = a, !.lost = b] = [[x EXCEPT !.stage = a] EXCEPT !.lost = b]
  OBVIOUS
<1> QED BY <1>2, <1>4, <1>5, <1>6

Only(u) == UsesTyped' /\ \A v \in Uses : v # u => uses'[v] = uses[v]

LEMMA UseSet ==
    ASSUME UsesTyped, NEW u \in Uses, NEW x, UseRecord(x), uses' = [uses EXCEPT ![u] = x]
    PROVE  Only(u) /\ uses'[u] = x
BY DEF UsesTyped, Only

\* A use after a step, in terms of the use before it.
Goes(u, stage, todo, leased, lost) ==
    /\ uses'[u].stage = stage
    /\ uses'[u].request = uses[u].request /\ uses'[u].plan = uses[u].plan
    /\ uses'[u].todo = todo /\ uses'[u].leased = leased /\ uses'[u].lost = lost

LEMMA StageGoes ==
    ASSUME UsesTyped, NEW u \in Uses, NEW stage \in Stages, uses' = [uses EXCEPT ![u].stage = stage]
    PROVE  Only(u) /\ Goes(u, stage, uses[u].todo, uses[u].leased, uses[u].lost)
<1>1. PICK r : r = uses[u]
  OBVIOUS
<1>2. UseRecord(r)
  BY <1>1 DEF UsesTyped
<1>3. PICK x : x = [r EXCEPT !.stage = stage]
  OBVIOUS
<1>4. /\ UseRecord(x) /\ x.stage = stage /\ x.request = r.request /\ x.plan = r.plan
      /\ x.todo = r.todo /\ x.leased = r.leased /\ x.lost = r.lost
  <2>1. x = Use(stage, r.request, r.answer, r.plan, r.todo, r.leased, r.lost)
    BY <1>2, <1>3, SetStage
  <2>2. r.request \in ResidencyRequest /\ r.todo \in Seq(Locations) /\ r.leased \in Seq(Locations)
    BY <1>2 DEF UseRecord
  <2> QED BY <2>1, <2>2, UseFields
<1>5. Only(u) /\ uses'[u] = x
  BY <1>1, <1>3, <1>4, UseSet
<1> QED BY <1>1, <1>4, <1>5 DEF Goes

LEMMA UseRecordTyped ==
    ASSUME UsesTyped, NEW u \in Uses
    PROVE  /\ UseRecord(uses[u]) /\ uses[u].stage \in Stages
           /\ uses[u].request \in ResidencyRequest
           /\ uses[u].todo \in Seq(Locations) /\ uses[u].leased \in Seq(Locations)
BY DEF UsesTyped, UseRecord

LEMMA DecideGoes ==
    ASSUME UsesTyped, NEW u \in Uses, NEW request \in AutoRequests, NEW order, Decide(u, request, order)
    PROVE  /\ Only(u)
           /\ uses'[u].todo = uses[u].todo /\ uses'[u].leased = uses[u].leased
           /\ uses'[u].lost = uses[u].lost
           /\ \/ uses'[u].stage = "closed" /\ fresh' = ReapedFresh
              \/ /\ uses'[u].stage = "decided" /\ uses'[u].request = request
                 /\ Outcome(request, order).verdict = "plan"
                 /\ uses'[u].plan = DecidedPlan(Outcome(request, order), request)
                 /\ uses'[u].plan \in ResidencyPlan
                 /\ ValidRequest(request)
                 /\ fresh' = ReapedFresh \cup {Scope(u)}
<1>1. request \in ResidencyRequest
  BY UseAssumption
<1>2. PICK r : r = uses[u] /\ UseRecord(r)
  BY UseRecordTyped
<1>3. PICK found, plan : found = Outcome(request, order) /\ plan = DecidedPlan(found, request)
  OBVIOUS
<1>4. r.request \in ResidencyRequest /\ r.todo \in Seq(Locations) /\ r.leased \in Seq(Locations)
  BY <1>2 DEF UseRecord
<1>5. CASE ValidRequest(request) /\ found.verdict = "plan" /\ plan \in ResidencyPlan
  <2>1. PICK x : x = [r EXCEPT !.stage = "decided", !.answer = "plan", !.request = request, !.plan = plan]
    OBVIOUS
  <2>2. uses' = [uses EXCEPT ![u] = x] /\ fresh' = ReapedFresh \cup {Scope(u)}
    BY <1>2, <1>3, <1>5, <2>1 DEF Decide, DecidedUse
  <2>3. x = Use("decided", request, "plan", plan, r.todo, r.leased, r.lost)
    BY <1>2, <2>1, SetDecision
  <2>4. /\ UseRecord(x) /\ x.stage = "decided" /\ x.request = request /\ x.plan = plan
        /\ x.todo = r.todo /\ x.leased = r.leased /\ x.lost = r.lost
    BY <1>1, <1>4, <2>3, UseFields DEF Stages
  <2>5. Only(u) /\ uses'[u] = x
    BY <2>2, <2>4, UseSet
  <2> QED BY <1>2, <1>3, <1>5, <2>2, <2>4, <2>5
<1>6. CASE ~(ValidRequest(request) /\ found.verdict = "plan" /\ plan \in ResidencyPlan)
  <2>1. PICK answer : uses' = [uses EXCEPT ![u] = Refused(uses[u], answer)]
    BY <1>3, <1>6 DEF Decide
  <2>2. PICK x : x = [r EXCEPT !.stage = "closed", !.answer = answer]
    OBVIOUS
  <2>3. uses' = [uses EXCEPT ![u] = x]
    BY <1>2, <2>1, <2>2 DEF Refused
  <2>4. x = Use("closed", r.request, answer, r.plan, r.todo, r.leased, r.lost)
    BY <1>2, <2>2, SetAnswer
  <2>5. UseRecord(x) /\ x.stage = "closed" /\ x.todo = r.todo /\ x.leased = r.leased /\ x.lost = r.lost
    BY <1>4, <2>4, UseFields DEF Stages
  <2>6. Only(u) /\ uses'[u] = x
    BY <2>3, <2>5, UseSet
  <2>7. fresh' = ReapedFresh
    BY <1>3, <1>6 DEF Decide
  <2> QED BY <1>2, <2>5, <2>6, <2>7
<1> QED BY <1>5, <1>6

LEMMA EnteredGoes ==
    ASSUME UsesTyped, NEW u \in Uses, Entered(u)
    PROVE  /\ Only(u)
           /\ Goes(u, "leasing", LeaseOrder(uses[u].request), uses[u].leased, uses[u].lost)
<1>1. PICK r, order : r = uses[u] /\ UseRecord(r) /\ order = LeaseOrder(r.request)
  BY UseRecordTyped
<1>2. r.request \in ResidencyRequest /\ r.leased \in Seq(Locations) /\ order \in Seq(Locations)
  BY <1>1, LeaseOrderIsOrder DEF UseRecord
<1>3. PICK x : x = [r EXCEPT !.stage = "leasing", !.todo = order]
  OBVIOUS
<1>4. uses' = [uses EXCEPT ![u] = x]
  BY <1>1, <1>3 DEF Entered
<1>5. x = Use("leasing", r.request, r.answer, r.plan, order, r.leased, r.lost)
  BY <1>1, <1>3, SetTodo
<1>6. /\ UseRecord(x) /\ x.stage = "leasing" /\ x.request = r.request /\ x.plan = r.plan
      /\ x.todo = order /\ x.leased = r.leased /\ x.lost = r.lost
  BY <1>2, <1>5, UseFields DEF Stages
<1>7. Only(u) /\ uses'[u] = x
  BY <1>4, <1>6, UseSet
<1> QED BY <1>1, <1>6, <1>7 DEF Goes

LEMMA BorrowGoes ==
    ASSUME UsesTyped, NEW u \in Uses, Borrow(u)
    PROVE  /\ Only(u)
           /\ NextLocation(u) \in Locations
           /\ Goes(u, "leasing", Tail(uses[u].todo), Append(uses[u].leased, NextLocation(u)), uses[u].lost)
<1>1. PICK r : r = uses[u] /\ UseRecord(r)
  BY UseRecordTyped
<1>2. PICK l, rest, more : l = NextLocation(u) /\ rest = Tail(r.todo) /\ more = Append(r.leased, l)
  OBVIOUS
<1>3. r.request \in ResidencyRequest /\ r.todo \in Seq(Locations) /\ r.leased \in Seq(Locations)
  BY <1>1 DEF UseRecord
<1>4. r.stage = "leasing" /\ r.todo # <<>> /\ l = Head(r.todo)
  BY <1>1, <1>2 DEF Borrow, Stage, NextLocation
<1>5. l \in Locations /\ rest \in Seq(Locations) /\ more \in Seq(Locations)
  BY <1>2, <1>3, <1>4
<1>6. PICK x : x = [r EXCEPT !.todo = rest, !.leased = more]
  OBVIOUS
<1>7. uses' = [uses EXCEPT ![u] = x]
  BY <1>1, <1>2, <1>6 DEF Borrow
<1>8. x = Use("leasing", r.request, r.answer, r.plan, rest, more, r.lost)
  <2>1. [r EXCEPT !.todo = rest, !.leased = more]
          = Use(r.stage, r.request, r.answer, r.plan, rest, more, r.lost)
    BY <1>1, SetBorrowed
  <2> QED BY <1>4, <1>6, <2>1
<1>9. /\ UseRecord(x) /\ x.stage = "leasing" /\ x.request = r.request /\ x.plan = r.plan
      /\ x.todo = rest /\ x.leased = more /\ x.lost = r.lost
  BY <1>3, <1>5, <1>8, UseFields DEF Stages
<1>10. Only(u) /\ uses'[u] = x
  BY <1>7, <1>9, UseSet
<1> QED BY <1>1, <1>2, <1>5, <1>9, <1>10 DEF Goes

LEMMA FrontOf ==
    ASSUME NEW S, NEW s \in Seq(S), s # <<>>
    PROVE  /\ Front(s) \in Seq(S) /\ Len(Front(s)) = Len(s) - 1
           /\ \A n \in 1 .. Len(s) - 1 : Front(s)[n] = s[n]
           /\ Len(s) \in 1 .. Len(s) /\ s[Len(s)] \in S
<1>1. Len(s) \in Nat /\ Len(s) # 0
  OBVIOUS
<1>2. Len(s) - 1 \in Nat /\ Len(s) \in 1 .. Len(s) /\ \A n \in 1 .. Len(s) - 1 : n \in 1 .. Len(s)
  BY <1>1
<1>3. \A n \in 1 .. Len(s) : s[n] \in S
  OBVIOUS
<1> DEFINE f == [n \in 1 .. Len(s) - 1 |-> s[n]]
<1>4. Front(s) = f
  BY <1>2 DEF Front
<1>5. f \in [1 .. Len(s) - 1 -> S]
  BY <1>2, <1>3
<1>6. f \in Seq(S) /\ Len(f) = Len(s) - 1
  <2> HIDE DEF f
  <2> QED BY <1>2, <1>5, SeqOfFunction
<1> QED BY <1>2, <1>3, <1>4, <1>6

\* The last lease is taken off the stack, whatever became of it.
LEMMA PopGoes ==
    ASSUME UsesTyped, NEW u \in Uses, ReturnLease(u) \/ LeaseGone(u) \/ LeaseRejected(u)
    PROVE  /\ Only(u)
           /\ Unwinding(u)
           /\ \E lost : /\ Goes(u, "leaving", uses[u].todo, Front(uses[u].leased), lost)
                        /\ \/ ~LeaseRejected(u) /\ lost = uses[u].lost
                           \/ LeaseRejected(u) /\ lost = uses[u].lost \cup {LastLease(u)}
<1>1. PICK r : r = uses[u] /\ UseRecord(r)
  BY UseRecordTyped
<1>2. PICK less : less = Front(r.leased)
  OBVIOUS
<1>3. Unwinding(u)
  BY DEF ReturnLease, LeaseGone, LeaseRejected
<1>4. r.stage = "leaving" /\ r.leased # <<>>
  BY <1>1, <1>3 DEF Unwinding, Stage
<1>5. r.request \in ResidencyRequest /\ r.todo \in Seq(Locations) /\ less \in Seq(Locations)
  BY <1>1, <1>2, <1>4, FrontOf DEF UseRecord
<1>6. ASSUME NEW lost, NEW x, x = Use("leaving", r.request, r.answer, r.plan, r.todo, less, lost),
             uses' = [uses EXCEPT ![u] = x]
      PROVE  Only(u) /\ Goes(u, "leaving", uses[u].todo, Front(uses[u].leased), lost)
  <2>1. /\ UseRecord(x) /\ x.stage = "leaving" /\ x.request = r.request /\ x.plan = r.plan
        /\ x.todo = r.todo /\ x.leased = less /\ x.lost = lost
    BY <1>5, <1>6, UseFields DEF Stages
  <2>2. Only(u) /\ uses'[u] = x
    BY <1>6, <2>1, UseSet
  <2> QED BY <1>1, <1>2, <2>1, <2>2 DEF Goes
<1>7. CASE LeaseRejected(u)
  <2>1. PICK lost : lost = r.lost \cup {LastLease(u)}
    OBVIOUS
  <2>2. PICK x : x = [r EXCEPT !.leased = less, !.lost = lost]
    OBVIOUS
  <2>3. uses' = [uses EXCEPT ![u] = x]
    BY <1>1, <1>2, <1>7, <2>1, <2>2 DEF LeaseRejected
  <2>4. x = Use("leaving", r.request, r.answer, r.plan, r.todo, less, lost)
    <3>1. [r EXCEPT !.leased = less, !.lost = lost]
            = Use(r.stage, r.request, r.answer, r.plan, r.todo, less, lost)
      <4>1. UseRecord(r)
        BY <1>1
      <4> QED BY ONLY <4>1, SetLost, Zenon
    <3> QED BY <1>4, <2>2, <3>1
  <2> QED BY <1>1, <1>3, <1>6, <1>7, <2>1, <2>3, <2>4
<1>8. CASE ~LeaseRejected(u)
  <2>1. PICK x : x = [r EXCEPT !.leased = less]
    OBVIOUS
  <2>2. uses' = [uses EXCEPT ![u] = x]
    BY <1>1, <1>2, <1>8, <2>1 DEF ReturnLease, LeaseGone, PopLease
  <2>3. x = Use("leaving", r.request, r.answer, r.plan, r.todo, less, r.lost)
    BY <1>1, <1>4, <2>1, SetLeased
  <2> QED BY <1>1, <1>3, <1>6, <1>8, <2>2, <2>3
<1> QED BY <1>7, <1>8

LEMMA LeaveGoes ==
    ASSUME UsesTyped, NEW u \in Uses, LeaveScope(u)
    PROVE  /\ Only(u)
           /\ \E lost : /\ Goes(u, "closed", uses[u].todo, uses[u].leased, lost)
                        /\ uses[u].lost \subseteq lost
<1>1. PICK r : r = uses[u] /\ UseRecord(r)
  BY UseRecordTyped
<1>2. CASE uses' = [uses EXCEPT ![u].stage = "closed"]
  BY <1>2, StageGoes DEF Stages
<1>3. CASE uses' = [uses EXCEPT ![u].stage = "closed", ![u].lost = @ \cup {Scope(u)}]
  <2>1. PICK lost : lost = r.lost \cup {Scope(u)}
    OBVIOUS
  <2>2. PICK x : x = [r EXCEPT !.stage = "closed", !.lost = lost]
    OBVIOUS
  <2>3. uses' = [uses EXCEPT ![u] = x]
    BY <1>1, <1>3, <2>1, <2>2
  <2>4. x = Use("closed", r.request, r.answer, r.plan, r.todo, r.leased, lost)
    <3>1. [r EXCEPT !.stage = "closed", !.lost = lost]
            = Use("closed", r.request, r.answer, r.plan, r.todo, r.leased, lost)
      <4>1. UseRecord(r)
        BY <1>1
      <4> QED BY ONLY <4>1, SetGone, Zenon
    <3> QED BY <2>2, <3>1
  <2>5. /\ UseRecord(x) /\ x.stage = "closed" /\ x.request = r.request /\ x.plan = r.plan
        /\ x.todo = r.todo /\ x.leased = r.leased /\ x.lost = lost
    BY <1>1, <2>4, UseFields DEF Stages, UseRecord
  <2>6. Only(u) /\ uses'[u] = x
    BY <2>3, <2>5, UseSet
  <2> QED BY <1>1, <2>1, <2>5, <2>6 DEF Goes
<1> QED BY <1>2, <1>3 DEF LeaveScope

-----------------------------------------------------------------------------
(* The leases of a use                                                     *)

LeasesTyped == leases \in [Leases -> LeaseRecord]

\* A step that neither acquires a lease nor takes an active one back.
Steady(t) ==
    /\ leases[t].state = "active" => leases'[t] = leases[t]
    /\ leases'[t].state = "active" => leases[t].state = "active"

Reaping == (Reap \/ UNCHANGED leases) /\ UNCHANGED closed

LEMMA ReapingIsSteady ==
    ASSUME LeasesTyped, Reaping, NEW t \in Leases
    PROVE  Steady(t)
BY DEF Reaping, Reap, ReapedLeases, Finished, NoLease, Steady, LeasesTyped, LeaseRecord

LEMMA HolderReaps == HolderStep => Reaping
BY DEF Reaping, HolderStep, StepNoOp, StepReplicate, StepMove, StepCollapse, StepDrop, StepDiscard,
   StartLoad, Succeed, FinishLoad, LoadFails, EndLoad, StepFails, EndOperation, ReclaimDone,
   ReserveDone, EnterDone, ExitDone, ReleaseDone, Advance, ReserveNext, Reserve, ReleaseNext,
   ReleaseHeadroom, protection

LEMMA ScopeReaps ==
    ASSUME NEW s, EnterScope(s) \/ RefuseScope(s) \/ RejectScope(s) \/ ExitScope(s)
    PROVE  Reaping
BY DEF Reaping, EnterScope, RefuseScope, RejectScope, ExitScope, Begin, protection

LEMMA OwnLease ==
    ASSUME NEW u \in Uses, NEW l \in Locations
    PROVE  LeaseOf[u][l] \in Leases \cap UseLeases
BY UseAssumption DEF UseLeases

LEMMA OthersSteady ==
    ASSUME LeasesTyped, OtherClients, NEW t \in Leases \cap UseLeases
    PROVE  (Steady(t) /\ UNCHANGED closed) \/ \E force \in BOOLEAN : Close(force)
<1>1. CASE \/ Register \/ Operate \/ UseHold \/ UseReservation \/ Poll
           \/ \E x \in Leases : LaunchRead(x) \/ ReadsFinish(x)
           \/ \E x \in (Leases \ UseLeases) \cup Holds \cup Reservations : Orphan(x)
  <2>1. Reaping
    BY <1>1 DEF Reaping, Register, RegisterSource, Adopt, Operate, Run, ExecuteActions, Begin,
       UseHold, Hold, ReleaseHold, UseReservation, ReserveBytes, Reserve, ReleaseReservation,
       ReleaseAbandoned, ReleaseHeadroom, Poll, LaunchRead, ReadsFinish, Orphan, protection
  <2> QED BY <2>1, ReapingIsSteady DEF Reaping
<1>2. ASSUME NEW x \in Leases \ UseLeases, LeaseCall(x) PROVE Steady(t) /\ UNCHANGED closed
  <2>1. x # t
    OBVIOUS
  <2>2. CASE \E H \in SUBSET Values, l \in Locations : Acquire(x, H, l)
    <3>1. UNCHANGED closed /\ leases'[t] = ReapedLeases[t]
      BY <2>1, <2>2 DEF Acquire, ReapedLeases
    <3> QED BY <3>1 DEF ReapedLeases, Finished, NoLease, Steady, LeasesTyped, LeaseRecord
  <2>3. CASE ReleaseNow(x) \/ ReleaseLater(x)
    BY <2>1, <2>3 DEF ReleaseNow, ReleaseLater, Releasing, Steady, LeasesTyped
  <2> QED BY <1>2, <2>2, <2>3 DEF LeaseCall
<1> QED BY <1>1, <1>2 DEF OtherClients

Has(s, l) == \E n \in DOMAIN s : s[n] = l

LEMMA HasNothing == \A l : ~Has(<<>>, l)
BY DEF Has

LEMMA HasAppended ==
    ASSUME NEW S, NEW s \in Seq(S), NEW e \in S, NEW l
    PROVE  Has(Append(s, e), l) <=> Has(s, l) \/ l = e
<1>1. Len(s) \in Nat /\ Len(Append(s, e)) = Len(s) + 1 /\ DOMAIN s = 1 .. Len(s)
      /\ DOMAIN Append(s, e) = 1 .. Len(s) + 1
  OBVIOUS
<1>2. Append(s, e)[Len(s) + 1] = e /\ \A n \in 1 .. Len(s) : Append(s, e)[n] = s[n]
  OBVIOUS
<1>3. 1 .. Len(s) + 1 = (1 .. Len(s)) \cup {Len(s) + 1}
  BY <1>1
<1> QED BY <1>1, <1>2, <1>3 DEF Has

LEMMA HasHeadOrTail ==
    ASSUME NEW S, NEW s \in Seq(S), s # <<>>, NEW l, Has(s, l)
    PROVE  l = Head(s) \/ Has(Tail(s), l)
<1>1. Len(s) \in Nat /\ Len(s) # 0 /\ DOMAIN s = 1 .. Len(s) /\ Head(s) = s[1]
  OBVIOUS
<1>2. PICK n \in 1 .. Len(s) : s[n] = l
  BY <1>1 DEF Has
<1>3. CASE n = 1
  BY <1>1, <1>2, <1>3
<1>4. CASE n # 1
  <2>1. n - 1 \in 1 .. Len(s) - 1 /\ (n - 1) + 1 = n
    BY <1>1, <1>2, <1>4
  <2>2. DOMAIN Tail(s) = 1 .. Len(s) - 1 /\ \A m \in 1 .. Len(s) - 1 : Tail(s)[m] = s[m + 1]
    BY <1>1
  <2> QED BY <1>2, <2>1, <2>2 DEF Has
<1> QED BY <1>3, <1>4

LEMMA HasFrontOrLast ==
    ASSUME NEW S, NEW s \in Seq(S), s # <<>>, NEW l, Has(s, l)
    PROVE  l = s[Len(s)] \/ Has(Front(s), l)
<1>1. Len(s) \in Nat /\ Len(s) # 0 /\ DOMAIN s = 1 .. Len(s)
  OBVIOUS
<1>2. PICK n \in 1 .. Len(s) : s[n] = l
  BY <1>1 DEF Has
<1>3. Front(s) \in Seq(S) /\ Len(Front(s)) = Len(s) - 1
      /\ \A m \in 1 .. Len(s) - 1 : Front(s)[m] = s[m]
  BY FrontOf
<1>4. CASE n # Len(s)
  <2>1. ASSUME NEW k \in Nat, NEW m \in 1 .. k, m # k PROVE m \in 1 .. k - 1
    BY <2>1
  <2>3. n \in 1 .. Len(s) - 1
    BY <1>1, <1>4, <2>1
  <2>2. DOMAIN Front(s) = 1 .. Len(s) - 1
    BY <1>3
  <2> QED BY <1>2, <1>3, <2>3, <2>2 DEF Has
<1> QED BY <1>2, <1>4

\* The lease a use has at a location once it has acquired it.
Borrowing(u, l) == [state |-> "active", handles |-> Required(u, l), location |-> l]

\* A use knows its leases: what is active is on the stack the exit unwinds or
\* was refused by the manager, and until the exit or a forced close everything
\* on the stack is active.  No required location is left out.
StackEmpty(u) ==
    Stage(u) \in {"new", "decided", "explained", "entering", "closed"} => uses[u].leased = <<>>

StackComplete(u) ==
    /\ Stage(u) \in {"leasing", "running"} =>
         \A n \in DOMAIN uses[u].request.requirements :
            LET l == uses[u].request.requirements[n].location IN
            Has(uses[u].leased, l) \/ Has(uses[u].todo, l)
    /\ Stage(u) = "running" => uses[u].todo = <<>>

StackActive(u) ==
    Stage(u) \in {"leasing", "running"} /\ ~closed =>
        \A l \in Locations : Has(uses[u].leased, l) => leases[LeaseOf[u][l]] = Borrowing(u, l)

NothingForgotten(u) ==
    \A l \in Locations : leases[LeaseOf[u][l]].state = "active" =>
        Has(uses[u].leased, l) \/ LeaseOf[u][l] \in uses[u].lost

StackFollows(u) == StackEmpty(u) /\ StackComplete(u) /\ StackActive(u) /\ NothingForgotten(u)

LEMMA NewStack == ASSUME ControllerInit, NEW u \in Uses PROVE StackFollows(u)
<1>1. uses[u] = NewUse /\ \A t \in Leases : leases[t] = NoLease
  BY DEF ControllerInit, Init
<1>2. Stage(u) = "new" /\ uses[u].leased = <<>>
  BY <1>1 DEF Stage, NewUse
<1>3. \A l \in Locations : leases[LeaseOf[u][l]].state # "active"
  BY <1>1, OwnLease DEF NoLease
<1> QED BY <1>2, <1>3 DEF StackFollows, StackEmpty, StackComplete, StackActive, NothingForgotten

LEMMA SameBorrowing ==
    ASSUME NEW u, uses'[u].request = uses[u].request
    PROVE  \A l : Borrowing(u, l)' = Borrowing(u, l)
BY DEF Borrowing, Required

LEMMA StackKept ==
    ASSUME NEW u \in Uses, StackFollows(u), uses'[u] = uses[u],
           \/ (\A l \in Locations : Steady(LeaseOf[u][l])) /\ UNCHANGED closed
           \/ \E force \in BOOLEAN : Close(force)
    PROVE  StackFollows(u)'
<1>1. StackEmpty(u)' /\ StackComplete(u)'
  BY DEF StackFollows, StackEmpty, StackComplete, Stage
<1>2. CASE (\A l \in Locations : Steady(LeaseOf[u][l])) /\ UNCHANGED closed
  <2>1. StackActive(u)'
    <3> SUFFICES ASSUME NEW l \in Locations, Stage(u)' \in {"leasing", "running"}, ~closed',
                        Has(uses'[u].leased, l)
                 PROVE  leases'[LeaseOf[u][l]] = Borrowing(u, l)'
      BY DEF StackActive
    <3>1. leases[LeaseOf[u][l]] = Borrowing(u, l)
      BY <1>2 DEF StackFollows, StackActive, Stage
    <3>2. leases[LeaseOf[u][l]].state = "active"
      BY <3>1 DEF Borrowing
    <3> QED BY <1>2, <3>1, <3>2, SameBorrowing DEF Steady
  <2>2. NothingForgotten(u)'
    BY <1>2 DEF StackFollows, NothingForgotten, Steady
  <2> QED BY <1>1, <2>1, <2>2 DEF StackFollows
<1>3. CASE \E force \in BOOLEAN : Close(force)
  <2>1. closed' /\ \A t \in Leases : leases'[t] = NoLease
    BY <1>3 DEF Close
  <2>2. \A l \in Locations : leases'[LeaseOf[u][l]].state # "active"
    BY <2>1, OwnLease DEF NoLease
  <2> QED BY <1>1, <2>1, <2>2 DEF StackFollows, StackActive, NothingForgotten
<1> QED BY <1>2, <1>3

LEMMA ObserveSteady ==
    ASSUME LeasesTyped, Observe \/ UNCHANGED vars, NEW u \in Uses
    PROVE  (\A l \in Locations : Steady(LeaseOf[u][l])) /\ UNCHANGED closed
<1>1. Reaping
  BY DEF Reaping, Observe, vars, protection
<1> QED BY <1>1, OwnLease, ReapingIsSteady DEF Reaping

\* A step that keeps the stack while nothing is borrowed, or ends the borrowing.
LEMMA StackIdle ==
    ASSUME NEW u \in Uses, StackFollows(u),
           uses'[u].stage \notin {"leasing", "running"},
           uses'[u].stage # "leaving" => uses[u].leased = <<>>,
           uses'[u].leased = uses[u].leased, uses[u].lost \subseteq uses'[u].lost,
           \A l \in Locations : Steady(LeaseOf[u][l])
    PROVE  StackFollows(u)'
<1>1. StackEmpty(u)'
  BY DEF StackEmpty, Stage
<1>2. StackComplete(u)' /\ StackActive(u)'
  BY DEF StackComplete, StackActive, Stage
<1>3. NothingForgotten(u)'
  BY DEF StackFollows, NothingForgotten, Steady
<1> QED BY <1>1, <1>2, <1>3 DEF StackFollows

LEMMA DecidingStack ==
    ASSUME UsesTyped, LeasesTyped, NEW u \in Uses, StackFollows(u),
           \/ \E request \in AutoRequests, order \in Rankings : Decide(u, request, order)
           \/ Explain(u) \/ MakeScope(u) \/ DecideRejected(u) \/ NotEntered(u)
    PROVE  Only(u) /\ StackFollows(u)'
<1>1. uses[u].leased = <<>>
  <2>1. Stage(u) \in {"new", "decided", "explained", "entering"}
    BY DEF Decide, Explain, MakeScope, DecideRejected, NotEntered
  <2> QED BY <2>1 DEF StackFollows, StackEmpty
<1>2. \A l \in Locations : Steady(LeaseOf[u][l])
  BY ObserveSteady DEF Decide, Explain, MakeScope, DecideRejected, NotEntered
<1>3. ASSUME NEW request \in AutoRequests, NEW order \in Rankings, Decide(u, request, order)
      PROVE  Only(u) /\ StackFollows(u)'
  <2>1. /\ Only(u) /\ uses'[u].leased = uses[u].leased /\ uses'[u].lost = uses[u].lost
        /\ uses'[u].stage \in {"closed", "decided"}
    BY <1>3, DecideGoes
  <2> QED BY <1>1, <1>2, <2>1, StackIdle
<1>4. ASSUME Explain(u) \/ MakeScope(u) \/ DecideRejected(u) \/ NotEntered(u)
      PROVE  Only(u) /\ StackFollows(u)'
  <2>1. PICK stage \in {"explained", "entering", "closed"} : uses' = [uses EXCEPT ![u].stage = stage]
    BY <1>4 DEF Explain, MakeScope, DecideRejected, NotEntered
  <2>2. Only(u) /\ Goes(u, stage, uses[u].todo, uses[u].leased, uses[u].lost)
    BY <2>1, StageGoes DEF Stages
  <2>3. uses'[u].stage \in {"explained", "entering", "closed"} /\ uses'[u].leased = uses[u].leased
        /\ uses'[u].lost = uses[u].lost
    BY <2>2 DEF Goes
  <2> QED BY <1>1, <1>2, <2>2, <2>3, StackIdle
<1> QED BY <1>3, <1>4

LEMMA EndingStack ==
    ASSUME UsesTyped, LeasesTyped, NEW u \in Uses, StackFollows(u),
           BorrowFails(u) \/ Leave(u) \/ LeaveScope(u)
    PROVE  Only(u) /\ StackFollows(u)'
<1>1. CASE BorrowFails(u) \/ Leave(u)
  <2>1. uses' = [uses EXCEPT ![u].stage = "leaving"]
    BY <1>1 DEF BorrowFails, Leave
  <2>2. Only(u) /\ Goes(u, "leaving", uses[u].todo, uses[u].leased, uses[u].lost)
    BY <2>1, StageGoes DEF Stages
  <2>3. \A l \in Locations : Steady(LeaseOf[u][l])
    BY <1>1, ObserveSteady DEF BorrowFails, Leave
  <2> QED BY <2>2, <2>3, StackIdle DEF Goes
<1>2. CASE LeaveScope(u)
  <2>1. PICK lost : Goes(u, "closed", uses[u].todo, uses[u].leased, lost) /\ uses[u].lost \subseteq lost
    BY <1>2, LeaveGoes
  <2>2. Only(u) /\ uses[u].leased = <<>>
    BY <1>2, LeaveGoes DEF LeaveScope
  <2>3. \A l \in Locations : Steady(LeaseOf[u][l])
    BY <1>2, ScopeReaps, OwnLease, ReapingIsSteady DEF LeaveScope
  <2> QED BY <2>1, <2>2, <2>3, StackIdle DEF Goes
<1> QED BY <1>1, <1>2

LEMMA EnteredStack ==
    ASSUME UsesTyped, LeasesTyped, NEW u \in Uses, StackFollows(u), Entered(u)
    PROVE  Only(u) /\ StackFollows(u)'
<1>1. uses[u].leased = <<>>
  BY DEF Entered, StackFollows, StackEmpty
<1>2. PICK order, r : order = LeaseOrder(r) /\ r = uses[u].request
  OBVIOUS
<1>3. Only(u) /\ Goes(u, "leasing", order, uses[u].leased, uses[u].lost)
  BY <1>2, EnteredGoes
<1>4. StackComplete(u)'
  <2>1. r \in ResidencyRequest
    BY <1>2, UseRecordTyped
  <2>2. \A n \in DOMAIN r.requirements : Has(order, r.requirements[n].location)
    <3>1. DOMAIN order = 1 .. Len(order)
      BY <1>2, <2>1, LeaseOrderIsOrder
    <3> QED BY <1>2, <2>1, <3>1, LeaseOrderIsOrder DEF Has
  <2>3. uses'[u].request = r /\ uses'[u].todo = order /\ uses'[u].stage = "leasing"
    BY <1>2, <1>3 DEF Goes
  <2> QED BY <2>2, <2>3 DEF StackComplete, Stage
<1>5. uses'[u].leased = <<>> /\ uses'[u].lost = uses[u].lost /\ UNCHANGED leases
  BY <1>1, <1>3 DEF Goes, Entered, vars, protection
<1>6. StackEmpty(u)' /\ StackActive(u)' /\ NothingForgotten(u)'
  BY <1>1, <1>5, HasNothing DEF StackFollows, StackEmpty, StackActive, NothingForgotten
<1> QED BY <1>3, <1>4, <1>6 DEF StackFollows

LEMMA BorrowStack ==
    ASSUME UsesTyped, LeasesTyped, NEW u \in Uses, StackFollows(u), Borrow(u)
    PROVE  Only(u) /\ StackFollows(u)'
<1>1. PICK l0, todo, leased : l0 = NextLocation(u) /\ todo = uses[u].todo /\ leased = uses[u].leased
  OBVIOUS
<1>2. /\ Only(u) /\ l0 \in Locations
      /\ uses'[u].stage = "leasing" /\ uses'[u].request = uses[u].request
      /\ uses'[u].todo = Tail(todo) /\ uses'[u].leased = Append(leased, l0)
      /\ uses'[u].lost = uses[u].lost
  BY <1>1, BorrowGoes DEF Goes
<1>3. /\ Stage(u) = "leasing" /\ todo # <<>> /\ l0 = Head(todo)
      /\ todo \in Seq(Locations) /\ leased \in Seq(Locations)
  BY <1>1, UseRecordTyped DEF Borrow, NextLocation
<1>4. Acquire(LeaseOf[u][l0], Required(u, l0), l0)
  BY <1>1 DEF Borrow
<1>5. LeaseOf[u][l0] \in Leases
  BY <1>2, OwnLease
<1>6. leases'[LeaseOf[u][l0]] = Borrowing(u, l0) /\ UNCHANGED closed
  BY <1>4, <1>5 DEF Acquire, Borrowing, ReapedLeases
<1>7. ASSUME NEW l \in Locations, l # l0 PROVE Steady(LeaseOf[u][l])
  <2>1. LeaseOf[u][l] \in Leases /\ LeaseOf[u][l] # LeaseOf[u][l0]
    BY <1>2, <1>7, OwnLease, UseAssumption
  <2>2. leases'[LeaseOf[u][l]] = ReapedLeases[LeaseOf[u][l]]
    BY <1>4, <2>1 DEF Acquire, ReapedLeases
  <2> QED BY <2>1, <2>2 DEF ReapedLeases, Finished, NoLease, Steady, LeasesTyped, LeaseRecord
<1>8. \A l : Has(uses'[u].leased, l) <=> Has(leased, l) \/ l = l0
  BY <1>2, <1>3, HasAppended
<1>9. StackComplete(u)'
  <2>1. ASSUME NEW l, Has(leased, l) \/ Has(todo, l)
        PROVE  Has(uses'[u].leased, l) \/ Has(uses'[u].todo, l)
    BY <1>2, <1>3, <1>8, <2>1, HasHeadOrTail
  <2>2. \A n \in DOMAIN uses[u].request.requirements :
           \/ Has(leased, uses[u].request.requirements[n].location)
           \/ Has(todo, uses[u].request.requirements[n].location)
    BY <1>1, <1>3 DEF StackFollows, StackComplete
  <2> QED BY <1>2, <2>1, <2>2 DEF StackComplete, Stage
<1>10. StackActive(u)'
  <2> SUFFICES ASSUME NEW l \in Locations, ~closed', Has(uses'[u].leased, l)
               PROVE  leases'[LeaseOf[u][l]] = Borrowing(u, l)'
    BY DEF StackActive
  <2>1. Borrowing(u, l)' = Borrowing(u, l)
    BY <1>2, SameBorrowing
  <2>2. CASE l = l0
    BY <1>6, <2>1, <2>2
  <2>3. CASE l # l0
    <3>1. leases[LeaseOf[u][l]] = Borrowing(u, l)
      BY <1>1, <1>3, <1>6, <1>8, <2>3 DEF StackFollows, StackActive
    <3>2. leases[LeaseOf[u][l]].state = "active"
      BY <3>1 DEF Borrowing
    <3> QED BY <1>7, <2>1, <2>3, <3>1, <3>2 DEF Steady
  <2> QED BY <2>2, <2>3
<1>11. NothingForgotten(u)'
  <2> SUFFICES ASSUME NEW l \in Locations, leases'[LeaseOf[u][l]].state = "active", l # l0
               PROVE  Has(uses'[u].leased, l) \/ LeaseOf[u][l] \in uses'[u].lost
    BY <1>8 DEF NothingForgotten
  <2>1. leases[LeaseOf[u][l]].state = "active"
    BY <1>7 DEF Steady
  <2> QED BY <1>1, <1>2, <1>8, <2>1 DEF StackFollows, NothingForgotten
<1>12. StackEmpty(u)'
  BY <1>2 DEF StackEmpty, Stage
<1> QED BY <1>2, <1>9, <1>10, <1>11, <1>12 DEF StackFollows

LEMMA BorrowedStack ==
    ASSUME UsesTyped, LeasesTyped, NEW u \in Uses, StackFollows(u), Borrowed(u)
    PROVE  Only(u) /\ StackFollows(u)'
<1>1. Only(u) /\ Goes(u, "running", uses[u].todo, uses[u].leased, uses[u].lost)
  BY StageGoes DEF Borrowed, Stages
<1>2. /\ Stage(u) = "leasing" /\ uses[u].todo = <<>> /\ UNCHANGED <<leases, closed>>
      /\ uses'[u].stage = "running" /\ uses'[u].request = uses[u].request
      /\ uses'[u].todo = uses[u].todo /\ uses'[u].leased = uses[u].leased
      /\ uses'[u].lost = uses[u].lost
  BY <1>1 DEF Goes, Borrowed, vars, protection
<1>3. StackEmpty(u)' /\ StackComplete(u)'
  BY <1>2 DEF StackFollows, StackEmpty, StackComplete, Stage
<1>4. StackActive(u)'
  BY <1>2, SameBorrowing DEF StackFollows, StackActive
<1>5. NothingForgotten(u)'
  BY <1>2 DEF StackFollows, NothingForgotten
<1> QED BY <1>1, <1>3, <1>4, <1>5 DEF StackFollows

LEMMA PopStack ==
    ASSUME UsesTyped, LeasesTyped, NEW u \in Uses, StackFollows(u),
           ReturnLease(u) \/ LeaseGone(u) \/ LeaseRejected(u)
    PROVE  Only(u) /\ StackFollows(u)'
<1>1. PICK leased, last : leased = uses[u].leased /\ last = leased[Len(leased)]
  OBVIOUS
<1>2. PICK lost :
        /\ Goes(u, "leaving", uses[u].todo, Front(leased), lost)
        /\ \/ ~LeaseRejected(u) /\ lost = uses[u].lost
           \/ LeaseRejected(u) /\ lost = uses[u].lost \cup {LastLease(u)}
  BY <1>1, PopGoes
<1>3. Only(u) /\ leased # <<>> /\ leased \in Seq(Locations) /\ LastLease(u) = LeaseOf[u][last]
  BY <1>1, PopGoes, UseRecordTyped DEF Unwinding, LastLease
<1>4. last \in Locations
  BY <1>1, <1>3, FrontOf
<1>5. LeaseOf[u][last] \in Leases
  BY <1>4, OwnLease
<1>6. ASSUME NEW l \in Locations, leases'[LeaseOf[u][l]].state = "active"
      PROVE  Has(Front(leased), l) \/ LeaseOf[u][l] \in lost
  <2>1. CASE l = last
    <3>1. CASE ReturnLease(u)
      <4>1. PICK t : t = LeaseOf[u][last]
        OBVIOUS
      <4>2. ReleaseNow(t) \/ ReleaseLater(t)
        BY <1>3, <3>1, <4>1 DEF ReturnLease
      <4>3. \/ leases' = [leases EXCEPT ![t] = NoLease]
            \/ leases' = [leases EXCEPT ![t].state = "pending"]
        BY <4>2 DEF ReleaseNow, ReleaseLater
      <4>4. leases \in [Leases -> LeaseRecord] /\ t \in Leases
        BY <1>5, <4>1 DEF LeasesTyped
      <4>5. leases'[t].state # "active"
        BY <4>3, <4>4 DEF NoLease, LeaseRecord
      <4> QED BY <1>6, <2>1, <4>1, <4>5
    <3>2. CASE LeaseGone(u)
      BY <1>3, <1>6, <2>1, <3>2 DEF LeaseGone, NoLease, vars, protection
    <3>3. CASE LeaseRejected(u)
      BY <1>2, <1>3, <2>1, <3>3
    <3> QED BY <3>1, <3>2, <3>3
  <2>2. CASE l # last
    <3>1. LeaseOf[u][l] \in Leases /\ LeaseOf[u][l] # LeaseOf[u][last]
      BY <1>4, <2>2, OwnLease, UseAssumption
    <3>2. leases'[LeaseOf[u][l]] = leases[LeaseOf[u][l]]
      BY <1>3, <3>1 DEF ReturnLease, ReleaseNow, ReleaseLater, Releasing, LeaseGone, LeaseRejected, vars,
         protection, LeasesTyped
    <3>3. Has(leased, l) \/ LeaseOf[u][l] \in uses[u].lost
      BY <1>1, <1>6, <3>2 DEF StackFollows, NothingForgotten
    <3>4. Has(leased, l) => Has(Front(leased), l)
      BY <1>1, <1>3, <2>2, HasFrontOrLast
    <3> QED BY <1>2, <3>3, <3>4
  <2> QED BY <2>1, <2>2
<1>7. uses'[u].stage = "leaving" /\ uses'[u].leased = Front(leased) /\ uses'[u].lost = lost
  BY <1>2 DEF Goes
<1>8. StackEmpty(u)' /\ StackComplete(u)' /\ StackActive(u)'
  BY <1>7 DEF StackEmpty, StackComplete, StackActive, Stage
<1>9. NothingForgotten(u)'
  BY <1>6, <1>7 DEF NothingForgotten
<1> QED BY <1>3, <1>8, <1>9 DEF StackFollows

\* One step of a use, seen from every use.
LEMMA OwnStack ==
    ASSUME UsesTyped, LeasesTyped, NEW u \in Uses, StackFollows(u), UseStep(u)
    PROVE  Only(u) /\ StackFollows(u)'
<1>1. CASE EnterUse(u)
  <2>1. Reaping /\ UNCHANGED uses
    BY <1>1, ScopeReaps DEF EnterUse
  <2>2. \A l \in Locations : Steady(LeaseOf[u][l])
    BY <2>1, OwnLease, ReapingIsSteady
  <2> QED BY <2>1, <2>2, StackKept DEF Only, UsesTyped, Reaping
<1> QED BY <1>1, DecidingStack, EndingStack, EnteredStack, BorrowStack, BorrowedStack, PopStack DEF UseStep

LEMMA UseIsSteady ==
    ASSUME LeasesTyped, UsesTyped, NEW u \in Uses, UseStep(u), NEW v \in Uses, v # u,
           NEW l \in Locations
    PROVE  Steady(LeaseOf[v][l])
<1>1. LeaseOf[v][l] \in Leases
  BY OwnLease
<1>2. CASE \/ \E request \in AutoRequests, order \in Rankings : Decide(u, request, order)
           \/ Explain(u) \/ MakeScope(u)
  BY <1>2, ObserveSteady DEF Decide, Explain, MakeScope
<1>3. CASE EnterUse(u) \/ LeaveScope(u)
  BY <1>1, <1>3, ScopeReaps, ReapingIsSteady DEF EnterUse, LeaveScope, Reaping
<1>4. CASE Borrow(u)
  <2>1. PICK k : k = NextLocation(u) /\ k \in Locations
    BY <1>4, BorrowGoes
  <2>2. LeaseOf[v][l] # LeaseOf[u][k]
    BY <2>1, UseAssumption
  <2>3. leases'[LeaseOf[v][l]] = ReapedLeases[LeaseOf[v][l]]
    BY <1>1, <1>4, <2>1, <2>2 DEF Borrow, Acquire, ReapedLeases
  <2> QED BY <1>1, <2>3 DEF ReapedLeases, Finished, NoLease, Steady, LeasesTyped, LeaseRecord
<1>5. CASE ReturnLease(u)
  <2>1. PICK k : k = uses[u].leased[Len(uses[u].leased)]
    OBVIOUS
  <2>2. k \in Locations
    BY <1>5, <2>1, UseRecordTyped, FrontOf DEF ReturnLease, Unwinding
  <2>3. LeaseOf[v][l] # LeaseOf[u][k] /\ LastLease(u) = LeaseOf[u][k]
    BY <2>1, <2>2, UseAssumption DEF LastLease
  <2> QED BY <1>1, <1>5, <2>3 DEF ReturnLease, ReleaseNow, ReleaseLater, Releasing, Steady, LeasesTyped
<1>6. CASE \/ DecideRejected(u) \/ Entered(u) \/ NotEntered(u) \/ BorrowFails(u) \/ Borrowed(u)
           \/ Leave(u) \/ LeaseGone(u) \/ LeaseRejected(u)
  BY <1>6, ObserveSteady DEF DecideRejected, Entered, NotEntered, BorrowFails, Borrowed, Leave, LeaseGone,
     LeaseRejected
<1> QED BY <1>2, <1>3, <1>4, <1>5, <1>6 DEF UseStep

LEMMA UseKeepsOpen ==
    ASSUME NEW u \in Uses, UseStep(u)
    PROVE  UNCHANGED closed
BY ScopeReaps
DEF UseStep, Decide, Explain, MakeScope, DecideRejected, Observe, EnterUse, LeaveScope, Reaping, Entered,
    NotEntered, Borrow, Acquire, BorrowFails, Borrowed, Leave, ReturnLease, ReleaseNow, ReleaseLater,
    Releasing, LeaseGone, LeaseRejected, vars

StacksFollow == \A u \in Uses : StackFollows(u)

LEMMA StackStep ==
    ASSUME UsesTyped, LeasesTyped, StacksFollow, [ControllerNext]_ControllerVars
    PROVE  UsesTyped' /\ StacksFollow'
<1>1. ASSUME NEW u \in Uses, UseStep(u) PROVE UsesTyped' /\ StacksFollow'
  <2>1. Only(u) /\ StackFollows(u)'
    BY <1>1, OwnStack DEF StacksFollow
  <2>2. ASSUME NEW v \in Uses, v # u PROVE StackFollows(v)'
    <3>1. (\A l \in Locations : Steady(LeaseOf[v][l])) /\ UNCHANGED closed
      BY <1>1, <2>2, UseIsSteady, UseKeepsOpen
    <3>2. uses'[v] = uses[v]
      BY <2>1, <2>2 DEF Only
    <3> QED BY <3>1, <3>2, StackKept DEF StacksFollow
  <2> QED BY <2>1, <2>2 DEF Only, StacksFollow
<1>2. CASE UNCHANGED uses /\ (HolderStep \/ OtherClients \/ UNCHANGED vars)
  <2>1. UsesTyped'
    BY <1>2 DEF UsesTyped
  <2>2. ASSUME NEW v \in Uses PROVE StackFollows(v)'
    <3>1. \/ (\A l \in Locations : Steady(LeaseOf[v][l])) /\ UNCHANGED closed
          \/ \E force \in BOOLEAN : Close(force)
      <4>1. CASE HolderStep
        BY <4>1, HolderReaps, ReapingIsSteady, OwnLease DEF Reaping
      <4>2. CASE UNCHANGED vars
        BY <4>2, ObserveSteady
      <4>3. CASE OtherClients
        <5>1. CASE \E force \in BOOLEAN : Close(force)
          BY <5>1
        <5>2. CASE ~\E force \in BOOLEAN : Close(force)
          <6>1. \A l \in Locations : Steady(LeaseOf[v][l])
            BY <4>3, <5>2, OthersSteady, OwnLease
          <6>2. UNCHANGED closed
            BY <4>3, <5>2 DEF OtherClients, Register, RegisterSource, Adopt, Operate, Run, ExecuteActions,
               Begin, UseHold, Hold, ReleaseHold, UseReservation, ReserveBytes, Reserve,
               ReleaseReservation, ReleaseAbandoned, ReleaseHeadroom, Poll, LeaseCall, Acquire,
               ReleaseNow, ReleaseLater, Releasing, LaunchRead, ReadsFinish, Orphan
          <6> QED BY <6>1, <6>2
        <5> QED BY <5>1, <5>2
      <4> QED BY <1>2, <4>1, <4>2, <4>3
    <3> QED BY <1>2, <3>1, StackKept DEF StacksFollow
  <2> QED BY <2>1, <2>2 DEF StacksFollow
<1> QED BY <1>1, <1>2 DEF ControllerNext, ControllerVars

-----------------------------------------------------------------------------
(* The manager the controller works with                                   *)

Born == {s \in fresh : scopes[s].state # "unborn"}
M == INSTANCE ResidencyManagerProofs WITH Plans <- ResidencyPlan, fresh <- Born

LEMMA SameVocabulary ==
    /\ M!ResidencyAction = ResidencyAction
    /\ M!MemoryReservation = MemoryReservation
    /\ M!ResidencyPlan = ResidencyPlan
BY DEF M!ResidencyAction, ResidencyAction, M!EnsureResident, EnsureResident, M!MoveResident,
   MoveResident, M!DropResident, DropResident, M!DiscardValue, DiscardValue,
   M!MemoryReservation, MemoryReservation, M!ResidencyPlan, ResidencyPlan

LEMMA SameRecords ==
    /\ M!NoLease = NoLease /\ M!NoHold = NoHold /\ M!NoReservation = NoReservation
    /\ M!NoLoad = NoLoad /\ M!NoBytes = NoBytes /\ M!Idle = Idle
BY DEF M!NoLease, NoLease, M!NoHold, NoHold, M!NoReservation, NoReservation, M!NoLoad, NoLoad,
   M!NoBytes, NoBytes, M!Idle, Idle

LEMMA SameReaping ==
    /\ M!Finished = Finished /\ M!ReapedLeases = ReapedLeases /\ M!ReapedTokens = ReapedTokens
    /\ M!Reap = Reap
    /\ \A v, l : M!Protected(v, l) = Protected(v, l)
    /\ M!LockFree = LockFree /\ M!CallbackActive = CallbackActive /\ M!Open = Open
BY SameRecords DEF M!Finished, Finished, M!ReapedLeases, ReapedLeases, M!ReapedTokens, ReapedTokens,
   M!Reap, Reap,
   M!Protected, Protected, M!LockFree, LockFree, M!CallbackActive, CallbackActive, M!Open, Open

LEMMA SameRequest ==
    /\ M!Request = Request /\ M!Resident = Resident /\ M!Source = Source /\ M!Nbytes = Nbytes
    /\ \A l, n : M!Fits(l, n) = Fits(l, n)
    /\ \A l : M!Removable(l) = Removable(l)
    /\ M!NoOp = NoOp /\ M!NeedsLoad = NeedsLoad /\ M!CanReplicate = CanReplicate
    /\ M!CanMove = CanMove /\ M!CanCollapse = CanCollapse /\ M!CanDrop = CanDrop
    /\ M!CanDiscard = CanDiscard /\ M!Feasible = Feasible /\ M!Transfers = Transfers
    /\ M!Ready = Ready /\ M!LoadFits = LoadFits
BY SameReaping DEF M!Request, Request, M!Resident, Resident, M!Source, Source, M!Nbytes, Nbytes, M!Fits, Fits,
   M!Removable, Removable, M!NoOp, NoOp, M!NeedsLoad, NeedsLoad, M!CanReplicate, CanReplicate,
   M!CanMove, CanMove, M!CanCollapse, CanCollapse, M!CanDrop, CanDrop, M!CanDiscard, CanDiscard,
   M!Feasible, Feasible, M!Transfers, Transfers, M!Ready, Ready, M!LoadFits, LoadFits,
   M!SelectSource, SelectSource, M!FirstLocation, FirstLocation, M!Reconstructible, Reconstructible

LEMMA SameEffects ==
    ASSUME NEW v, NEW l
    PROVE  /\ Install(v, l) => M!Install(v, l)
           /\ Uninstall(v, l) => M!Uninstall(v, l)
<1>1. Install(v, l) => M!Install(v, l)
  BY DEF Install, M!Install, Charge, M!Charge
<1>2. Uninstall(v, l) => M!Uninstall(v, l)
  BY DEF Uninstall, M!Uninstall, Uncharge, M!Uncharge
<1> QED BY <1>1, <1>2

SameBirths == \A s \in fresh : scopes'[s].state = "unborn" <=> scopes[s].state = "unborn"

LEMMA BornVersions ==
    ASSUME SameBirths
    PROVE  /\ Bump => M!Bump
           /\ fresh' = fresh => Born' = Born
           /\ fresh' = ReapedFresh => Born' = M!ReapedFresh
BY SameReaping DEF SameBirths, Born, Bump, M!Bump, ReapedFresh, M!ReapedFresh

LEMMA SameSteps ==
    ASSUME SameBirths
    PROVE  /\ StepNoOp => M!StepNoOp
           /\ StepReplicate => M!StepReplicate
           /\ StepMove => M!StepMove
           /\ StepCollapse => M!StepCollapse
           /\ StepDrop => M!StepDrop
           /\ StepDiscard => M!StepDiscard
<1> USE BornVersions, SameRecords, SameReaping, SameRequest
    DEF Succeed, M!Succeed, NextRequest, M!NextRequest, placement, M!placement, headroom, M!headroom,
        clients, M!clients
<1>1. StepNoOp => M!StepNoOp
  BY DEF StepNoOp, M!StepNoOp
<1>2. StepReplicate => M!StepReplicate
  BY DEF StepReplicate, M!StepReplicate, Install, M!Install, Charge, M!Charge
<1>3. StepMove => M!StepMove
  BY DEF StepMove, M!StepMove, Charge, M!Charge, Uncharge, M!Uncharge
<1>4. StepCollapse => M!StepCollapse
  <2>1. Uninstall(Request.handle, Source) => M!Uninstall(Request.handle, Source)
    BY SameEffects
  <2> QED BY <2>1 DEF StepCollapse, M!StepCollapse
<1>5. StepDrop => M!StepDrop
  <2>1. Uninstall(Request.handle, Request.to) => M!Uninstall(Request.handle, Request.to)
    BY SameEffects
  <2> QED BY <2>1 DEF StepDrop, M!StepDrop
<1>6. StepDiscard => M!StepDiscard
  BY DEF StepDiscard, M!StepDiscard
<1> QED BY <1>1, <1>2, <1>3, <1>4, <1>5, <1>6

LEMMA SameLoads ==
    ASSUME SameBirths
    PROVE  /\ StartLoad => M!StartLoad
           /\ FinishLoad => M!FinishLoad
           /\ LoadFails => M!LoadFails
           /\ StepFails => M!StepFails
           /\ EndOperation => M!EndOperation
<1> USE BornVersions, SameRecords, SameReaping, SameRequest
    DEF placement, M!placement, headroom, M!headroom, protection, M!protection, clients, M!clients,
        EndLoad, M!EndLoad, Fail, M!Fail, Charge, M!Charge, Uncharge, M!Uncharge
<1>1. StartLoad => M!StartLoad
  BY DEF StartLoad, M!StartLoad, Succeed, M!Succeed
<1>2. FinishLoad => M!FinishLoad
  BY DEF FinishLoad, M!FinishLoad, Install, M!Install
<1>3. LoadFails => M!LoadFails
  BY DEF LoadFails, M!LoadFails
<1>4. StepFails => M!StepFails
  BY DEF StepFails, M!StepFails
<1>5. EndOperation => M!EndOperation
  BY DEF EndOperation, M!EndOperation
<1> QED BY <1>1, <1>2, <1>3, <1>4, <1>5

LEMMA SamePhases ==
    ASSUME SameBirths
    PROVE  /\ ReclaimDone => M!ReclaimDone
           /\ ReserveDone => M!ReserveDone
           /\ EnterDone => M!EnterDone
           /\ ExitDone => M!ExitDone
           /\ ReleaseDone => M!ReleaseDone
           /\ \A r : ReserveNext(r) => M!ReserveNext(r)
           /\ \A r : ReleaseNext(r) => M!ReleaseNext(r)
<1> USE BornVersions, SameRecords, SameReaping, SameRequest
    DEF placement, M!placement, headroom, M!headroom, protection, M!protection, clients, M!clients,
        holder, M!holder, Charge, M!Charge, Uncharge, M!Uncharge, Advance, M!Advance, Owned, M!Owned
<1>1. ReclaimDone => M!ReclaimDone
  BY DEF ReclaimDone, M!ReclaimDone
<1>2. ReserveDone => M!ReserveDone
  BY DEF ReserveDone, M!ReserveDone
<1>3. EnterDone => M!EnterDone
  BY DEF EnterDone, M!EnterDone
<1>4. ExitDone => M!ExitDone
  BY DEF ExitDone, M!ExitDone
<1>5. ReleaseDone => M!ReleaseDone
  BY DEF ReleaseDone, M!ReleaseDone
<1>6. ASSUME NEW r PROVE ReserveNext(r) => M!ReserveNext(r)
  BY DEF ReserveNext, M!ReserveNext, Reserve, M!Reserve
<1>7. ASSUME NEW r PROVE ReleaseNext(r) => M!ReleaseNext(r)
  BY DEF ReleaseNext, M!ReleaseNext, ReleaseHeadroom, M!ReleaseHeadroom
<1> QED BY <1>1, <1>2, <1>3, <1>4, <1>5, <1>6, <1>7

LEMMA SameHolder == SameBirths /\ HolderStep => M!HolderStep
BY SameSteps, SameLoads, SamePhases DEF HolderStep, M!HolderStep

-----------------------------------------------------------------------------
(* Everything the clients of the manager do *)

LEMMA SameAction ==
    ASSUME NEW s, NEW a, NEW live, NEW protected
    PROVE  M!SimulateAction(s, a, live, protected) = SimulateAction(s, a, live, protected)
<1>1. \A sim, v, l : M!AddReplica(sim, v, l) = AddReplica(sim, v, l)
  BY DEF M!AddReplica, AddReplica, M!Touch, Touch, M!Larger, Larger
<1>2. \A sim, v, l : M!RemoveReplica(sim, v, l) = RemoveReplica(sim, v, l)
  BY DEF M!RemoveReplica, RemoveReplica
<1>3. \A sim : M!Infeasible(sim) = Infeasible(sim)
  BY DEF M!Infeasible, Infeasible
<1>4. \A sim, v, l : M!FromSource(sim, v, l) = FromSource(sim, v, l)
  BY <1>1, <1>3 DEF M!FromSource, FromSource, M!AddTemporary, AddTemporary, M!Touch, Touch, M!Larger, Larger,
     M!Reconstructible, Reconstructible
<1>5. \A S, from : M!SelectSource(S, from) = SelectSource(S, from)
  BY DEF M!SelectSource, SelectSource, M!FirstLocation, FirstLocation
<1>6. M!SimulateEnsure(s, a) = SimulateEnsure(s, a)
  BY <1>1, <1>3, <1>4 DEF M!SimulateEnsure, SimulateEnsure
<1>7. M!SimulateMove(s, a, protected) = SimulateMove(s, a, protected)
  BY <1>1, <1>2, <1>3, <1>4, <1>5 DEF M!SimulateMove, SimulateMove
<1>8. M!SimulateDrop(s, a, protected) = SimulateDrop(s, a, protected)
  BY <1>2, <1>3 DEF M!SimulateDrop, SimulateDrop, M!Reconstructible, Reconstructible
<1>9. M!SimulateDiscard(s, a, protected) = SimulateDiscard(s, a, protected)
  BY <1>3 DEF M!SimulateDiscard, SimulateDiscard
<1> QED BY <1>3, <1>6, <1>7, <1>8, <1>9 DEF M!SimulateAction, SimulateAction

LEMMA SameExplained ==
    ASSUME NEW sim, NEW q, NEW live, NEW protected
    PROVE  M!ExplainActions(sim, q, live, protected) = ExplainActions(sim, q, live, protected)
<1> DEFINE F(s, a) == SimulateAction(s, a, live, protected)
           G(s, a) == M!SimulateAction(s, a, live, protected)
<1>1. \A s, a : F(s, a) = G(s, a)
  BY SameAction
<1>2. ExplainActions(sim, q, live, protected) = Ext!FoldLeft(F, sim, q)
  BY DEF ExplainActions
<1>3. M!ExplainActions(sim, q, live, protected) = M!Ext!FoldLeft(G, sim, q)
  BY DEF M!ExplainActions
<1> HIDE DEF F, G
<1>4. Ext!FoldLeft(F, sim, q) = M!Ext!FoldLeft(G, sim, q)
  BY <1>1 DEF Ext!FoldLeft, Ext!MapThenFoldSet, Ext!Max,
   M!Ext!FoldLeft, M!Ext!MapThenFoldSet, M!Ext!Max
<1> QED BY <1>2, <1>3, <1>4

LEMMA SamePreflight ==
    /\ M!Live = Live /\ M!ProtectedPairs = ProtectedPairs /\ M!Simulation = Simulation
    /\ \A sim, q, live, protected :
          M!ExplainActions(sim, q, live, protected) = ExplainActions(sim, q, live, protected)
    /\ \A sim, plan, live, protected :
          M!ExplainPlan(sim, plan, live, protected) = ExplainPlan(sim, plan, live, protected)
<1>1. M!Live = Live /\ M!ProtectedPairs = ProtectedPairs /\ M!Simulation = Simulation
  BY SameReaping DEF M!Live, Live, M!ProtectedPairs, ProtectedPairs, M!Simulation, Simulation
<1>2. \A sim, q, live, protected :
        M!ExplainActions(sim, q, live, protected) = ExplainActions(sim, q, live, protected)
  BY SameExplained
<1>3. ASSUME NEW sim, NEW q
      PROVE  M!Ext!FoldLeft(M!AdmitReservation, sim, q) = Ext!FoldLeft(AdmitReservation, sim, q)
  <2>1. \A s, r : M!AdmitReservation(s, r) = AdmitReservation(s, r)
    BY DEF M!AdmitReservation, AdmitReservation, M!Touch, Touch, M!Larger, Larger
  <2> QED
    BY <2>1 DEF Ext!FoldLeft, Ext!MapThenFoldSet, Ext!Max, M!Ext!FoldLeft, M!Ext!MapThenFoldSet, M!Ext!Max
<1>4. \A sim, plan, live, protected :
        M!ExplainPlan(sim, plan, live, protected) = ExplainPlan(sim, plan, live, protected)
  BY <1>2, <1>3 DEF M!ExplainPlan, ExplainPlan
<1> QED BY <1>1, <1>2, <1>4

LEMMA SameRegister ==
    ASSUME SameBirths
    PROVE  /\ Register => M!Register
           /\ Operate => M!Operate
<1> USE BornVersions, SameRecords, SameReaping, SameRequest, SamePreflight
    DEF placement, M!placement, headroom, M!headroom, clients, M!clients, holder, M!holder,
        Begin, M!Begin
<1>1. Register => M!Register
  BY DEF Register, M!Register, RegisterSource, M!RegisterSource, Adopt, M!Adopt, Install, M!Install,
     Charge, M!Charge, Reconstructible, M!Reconstructible
<1>2. ASSUME NEW a PROVE Run(a) => M!Run(a)
  BY DEF Run, M!Run
<1>3. ASSUME NEW batch PROVE ExecuteActions(batch) => M!ExecuteActions(batch)
  BY DEF ExecuteActions, M!ExecuteActions
<1> QED BY <1>1, <1>2, <1>3 DEF Operate, M!Operate

LEMMA SameProtection ==
    ASSUME SameBirths
    PROVE  /\ \A t, H, l : Acquire(t, H, l) => M!Acquire(t, H, l)
           /\ \A t : LaunchRead(t) => M!LaunchRead(t)
           /\ \A t : ReadsFinish(t) => M!ReadsFinish(t)
           /\ \A t : ReleaseNow(t) => M!ReleaseNow(t)
           /\ \A t : ReleaseLater(t) => M!ReleaseLater(t)
           /\ UseHold => M!UseHold
<1> USE BornVersions, SameRecords, SameReaping
    DEF placement, M!placement, headroom, M!headroom, clients, M!clients, holder, M!holder,
        protection, M!protection, Usable, M!Usable, Releasing, M!Releasing, Without, M!Without
<1>1. ASSUME NEW t, NEW H, NEW l PROVE Acquire(t, H, l) => M!Acquire(t, H, l)
  BY DEF Acquire, M!Acquire
<1>2. ASSUME NEW t PROVE (LaunchRead(t) => M!LaunchRead(t)) /\ (ReadsFinish(t) => M!ReadsFinish(t))
  BY DEF LaunchRead, M!LaunchRead, ReadsFinish, M!ReadsFinish
<1>3. ASSUME NEW t PROVE ReleaseNow(t) => M!ReleaseNow(t)
  BY DEF ReleaseNow, M!ReleaseNow
<1>4. ASSUME NEW t PROVE ReleaseLater(t) => M!ReleaseLater(t)
  BY DEF ReleaseLater, M!ReleaseLater
<1>5. ASSUME NEW h, NEW H, NEW l PROVE Hold(h, H, l) => M!Hold(h, H, l)
  BY DEF Hold, M!Hold
<1>6. ASSUME NEW h PROVE ReleaseHold(h) => M!ReleaseHold(h)
  BY DEF ReleaseHold, M!ReleaseHold
<1> QED BY <1>1, <1>2, <1>3, <1>4, <1>5, <1>6 DEF UseHold, M!UseHold

LEMMA SameRest ==
    ASSUME SameBirths
    PROVE  /\ UseReservation => M!UseReservation
           /\ Poll => M!Poll
           /\ \A x : Orphan(x) => M!Orphan(x)
           /\ \A force : Close(force) => M!Close(force)
<1> USE BornVersions, SameRecords, SameReaping, SameRequest
    DEF placement, M!placement, headroom, M!headroom, clients, M!clients, holder, M!holder,
        protection, M!protection, Owned, M!Owned
<1>1. UseReservation => M!UseReservation
  <2> USE DEF ReleaseHeadroom, M!ReleaseHeadroom, Charge, M!Charge, Uncharge, M!Uncharge
  <2>1. ASSUME NEW r, NEW l, NEW n PROVE ReserveBytes(r, l, n) => M!ReserveBytes(r, l, n)
    BY DEF ReserveBytes, M!ReserveBytes, Reserve, M!Reserve
  <2>2. ASSUME NEW r PROVE ReleaseReservation(r) => M!ReleaseReservation(r)
    BY DEF ReleaseReservation, M!ReleaseReservation
  <2>3. ASSUME NEW r PROVE ReleaseAbandoned(r) => M!ReleaseAbandoned(r)
    BY DEF ReleaseAbandoned, M!ReleaseAbandoned
  <2> QED BY <2>1, <2>2, <2>3 DEF UseReservation, M!UseReservation
<1>2. Poll => M!Poll
  BY DEF Poll, M!Poll
<1>3. ASSUME NEW x PROVE Orphan(x) => M!Orphan(x)
  BY DEF Orphan, M!Orphan, Abandonable, M!Abandonable
<1>4. ASSUME NEW force PROVE Close(force) => M!Close(force)
  BY DEF Close, M!Close, NoLifetimes, M!NoLifetimes
<1> QED BY <1>1, <1>2, <1>3, <1>4

-----------------------------------------------------------------------------
(* The scope of a use follows its stages *)

ScopeFollows(u) ==
    /\ Stage(u) \in {"new", "decided", "explained"} => scopes[Scope(u)].state = "unborn"
    /\ Stage(u) \in {"decided", "explained"} => uses[u].plan \in ResidencyPlan
    /\ Stage(u) = "entering" =>
         /\ scopes[Scope(u)].state \in {"new", "entering", "entered", "closed"}
         /\ scopes[Scope(u)].state = "new" => scopes[Scope(u)].versioned
    /\ Stage(u) \in {"leasing", "running", "leaving"} => scopes[Scope(u)].state = "entered"
    /\ Stage(u) = "closed" => scopes[Scope(u)].state \in {"unborn", "exiting", "closed"}

LockedScope ==
    /\ op.scope # NoScope => scopes[op.scope].state \in {"entering", "exiting"}
    /\ op.kind \in {"reclaim", "reserve", "enter"} => scopes[op.scope].state = "entering"

ClientInv ==
    /\ M!TypeOK /\ M!ControlConsistent
    /\ fresh \subseteq Scopes
    /\ UsesTyped
    /\ \A u \in Uses : ScopeFollows(u)
    /\ LockedScope

LEMMA ScopesTyped ==
    ASSUME M!TypeOK
    PROVE  /\ scopes \in [Scopes -> [state : ScopeStates, plan : ResidencyPlan \cup {NoPlan},
                                     versioned : BOOLEAN]]
           /\ op.scope \in Scopes \cup {NoScope}
           /\ op = [kind |-> op.kind, todo |-> op.todo, reserve |-> op.reserve, scope |-> op.scope,
                    load |-> op.load]
BY SameVocabulary DEF M!TypeOK, M!ControlTyped, M!ScopeRecord, M!ScopeStates, ScopeStates, M!Operation

LEMMA HolderScopes ==
    ASSUME M!TypeOK, M!ControlConsistent, LockedScope, HolderStep
    PROVE  \/ UNCHANGED scopes
           \/ /\ op.scope \in Scopes
              /\ op' = Idle
              /\ \/ /\ scopes[op.scope].state = "entering"
                    /\ scopes' = [scopes EXCEPT ![op.scope].state = "entered"]
                 \/ /\ scopes[op.scope].state \in {"entering", "exiting"}
                    /\ scopes' = [scopes EXCEPT ![op.scope].state = "closed"]
<1> USE ScopesTyped DEF M!ControlConsistent, LockedScope
<1>1. CASE EnterDone
  BY <1>1 DEF EnterDone, Advance
<1>2. CASE ReleaseDone
  BY <1>2 DEF ReleaseDone, Advance
<1>3. CASE ~EnterDone /\ ~ReleaseDone
  BY <1>3 DEF HolderStep, StepNoOp, StepReplicate, StepMove, StepCollapse, StepDrop, StepDiscard,
     StartLoad, FinishLoad, LoadFails, StepFails, EndLoad, Succeed, EndOperation,
     ReclaimDone, ReserveDone, ExitDone, ReserveNext, Reserve, ReleaseNext, ReleaseHeadroom
<1> QED BY <1>1, <1>2, <1>3

LEMMA HolderBirths ==
    ASSUME ClientInv, HolderStep
    PROVE  SameBirths
BY HolderScopes, ScopesTyped DEF ClientInv, SameBirths

LEMMA MarkedBirths ==
    ASSUME ClientInv, NEW s, NEW state, state # "unborn", scopes[s].state # "unborn",
           scopes' = [scopes EXCEPT ![s].state = state]
    PROVE  SameBirths
BY ScopesTyped DEF ClientInv, SameBirths

LEMMA KeptBirths == UNCHANGED scopes => SameBirths
BY DEF SameBirths

LEMMA SameCardinality ==
    ASSUME NEW S
    PROVE  M!Cardinality(S) = Cardinality(S)
BY DEF M!Cardinality, Cardinality

LEMMA SameScopes ==
    ASSUME SameBirths, NEW s, scopes[s].state # "unborn"
    PROVE  /\ EnterScope(s) => M!EnterScope(s)
           /\ RefuseScope(s) => M!RefuseScope(s)
           /\ RejectScope(s) => M!RejectScope(s)
           /\ ExitScope(s) => M!ExitScope(s)
<1> USE BornVersions, SameRecords, SameReaping, SamePreflight
    DEF placement, M!placement, headroom, M!headroom, clients, M!clients, holder, M!holder,
        protection, M!protection, Begin, M!Begin
<1>1. /\ M!Explanation(s) = Explanation(s)
      /\ M!TokenBound(s) <=> TokenBound(s)
      /\ M!Admitted(s) <=> Admitted(s)
  <2>1. M!Explanation(s) = Explanation(s)
    BY DEF Explanation, M!Explanation
  <2>2. M!FreeTokens = FreeTokens
    BY DEF FreeTokens, M!FreeTokens
  <2>3. s \in M!ReapedFresh <=> s \in ReapedFresh
    BY DEF Born, ReapedFresh, M!ReapedFresh
  <2>4. M!TokenBound(s) <=> TokenBound(s)
    BY <2>2, SameCardinality DEF TokenBound, M!TokenBound
  <2>5. M!Admitted(s) <=> Admitted(s)
    BY <2>1, <2>3 DEF Admitted, M!Admitted
  <2> QED BY <2>1, <2>4, <2>5
<1>2. fresh' = ReapedFresh \ {s} => Born' = M!ReapedFresh \ {s}
  BY DEF SameBirths, Born, ReapedFresh, M!ReapedFresh
<1>3. fresh' = fresh \ {s} => Born' = Born \ {s}
  BY DEF SameBirths, Born
<1>4. EnterScope(s) => M!EnterScope(s)
  BY <1>1, <1>2 DEF EnterScope, M!EnterScope
<1>5. RefuseScope(s) => M!RefuseScope(s)
  BY <1>1, <1>2 DEF RefuseScope, M!RefuseScope
<1>6. RejectScope(s) => M!RejectScope(s)
  BY <1>3 DEF RejectScope, M!RejectScope, Rejecting, M!Rejecting
<1>7. ExitScope(s) => M!ExitScope(s)
  BY DEF ExitScope, M!ExitScope
<1> QED BY <1>4, <1>5, <1>6, <1>7

-----------------------------------------------------------------------------
(* Every step of a use, and of the other clients, is one the manager allows *)

LEMMA QuietStep ==
    ASSUME ClientInv, Observe, UNCHANGED scopes,
           \/ fresh' = ReapedFresh
           \/ \E s : scopes[s].state = "unborn" /\ fresh' = ReapedFresh \cup {s}
    PROVE  M!Poll \/ UNCHANGED M!vars
<1>1. Born' = M!ReapedFresh
  BY SameReaping DEF Born, M!ReapedFresh, ReapedFresh
<1>2. CASE Finished = {}
  <2>1. M!TypeOK /\ M!Finished = {} /\ M!Reap
    BY <1>2, SameReaping DEF ClientInv, Observe
  <2>2. leases' = leases /\ pending_tokens' = pending_tokens
    BY <2>1, M!QuietReap, NoneAssumption, LocationAssumption, SpecAssumption, TokenAssumption,
       SameVocabulary
  <2>3. Born' = Born
    BY <1>1, <2>1 DEF M!ReapedFresh
  <2> QED BY <2>2, <2>3 DEF Observe, M!vars, placement, headroom, holder, clients
<1>3. CASE Finished # {}
  BY <1>1, <1>3, SameReaping
  DEF M!Poll, Observe, M!Bump, M!ReapedFresh, placement, M!placement, headroom, M!headroom,
      holder, M!holder, clients, M!clients
<1> QED BY <1>2, <1>3

LEMMA DecideStep ==
    ASSUME ClientInv, NEW u \in Uses,
           \/ \E request \in AutoRequests, order \in Rankings : Decide(u, request, order)
           \/ Explain(u)
    PROVE  M!Poll \/ UNCHANGED M!vars
<1>1. Scope(u) \in Scopes
  BY UseAssumption DEF Scope
<1>2. ASSUME NEW request \in AutoRequests, NEW order \in Rankings, Decide(u, request, order)
      PROVE  M!Poll \/ UNCHANGED M!vars
  <2>1. scopes[Scope(u)].state = "unborn"
    BY <1>2 DEF Decide, ClientInv, ScopeFollows
  <2>2. fresh' = ReapedFresh \/ fresh' = ReapedFresh \cup {Scope(u)}
    BY <1>2 DEF Decide
  <2>3. Observe /\ UNCHANGED scopes
    BY <1>2 DEF Decide
  <2> QED BY <2>1, <2>2, <2>3, QuietStep
<1>3. CASE Explain(u)
  BY <1>3, QuietStep DEF Explain
<1> QED BY <1>2, <1>3

LEMMA MakeScopeStep ==
    ASSUME ClientInv, NEW u \in Uses, MakeScope(u)
    PROVE  [M!Next]_M!vars
<1>1. Scope(u) \in Scopes /\ scopes[Scope(u)].state = "unborn" /\ uses[u].plan \in ResidencyPlan
  BY UseAssumption DEF Scope, MakeScope, ClientInv, ScopeFollows
<1>2. CASE ~CurrentDecision(u)
  <2>1. Observe /\ UNCHANGED scopes /\ fresh' = ReapedFresh
    BY <1>2 DEF MakeScope
  <2> QED BY <2>1, QuietStep DEF M!Next
<1>3. CASE CurrentDecision(u)
  <2> DEFINE made == [state |-> "new", plan |-> uses[u].plan, versioned |-> TRUE]
  <2>1. Observe /\ fresh' = ReapedFresh /\ scopes' = [scopes EXCEPT ![Scope(u)] = made]
    BY <1>3 DEF MakeScope
  <2>2. Finished = {} /\ Scope(u) \in fresh
    BY <1>3 DEF CurrentDecision, ReapedFresh
  <2>3. \A s \in Scopes : scopes'[s].state # "unborn" <=> s = Scope(u) \/ scopes[s].state # "unborn"
    BY <1>1, <2>1, ScopesTyped DEF ClientInv
  <2>4. Born' = M!ReapedFresh \cup {Scope(u)}
    BY <2>1, <2>2, <2>3, SameReaping DEF Born, M!ReapedFresh, ReapedFresh, ClientInv
  <2>5. M!NewScope(Scope(u), uses[u].plan, TRUE)
    BY <1>1, <2>1, <2>4, SameReaping
    DEF M!NewScope, Observe, placement, M!placement, headroom, M!headroom, holder, M!holder,
        clients, M!clients
  <2> QED BY <1>1, <2>5 DEF M!Next, M!UseScope
<1> QED BY <1>2, <1>3

LEMMA EnterStep ==
    ASSUME ClientInv, NEW u \in Uses, EnterUse(u)
    PROVE  M!Next
<1>1. Scope(u) \in Scopes
  BY UseAssumption DEF Scope
<1>2. scopes[Scope(u)].state = "new" \/ scopes[Scope(u)].state = "entered"
  BY DEF EnterUse, EnterScope, RefuseScope, RejectScope
<1>3. SameBirths
  BY <1>2, MarkedBirths DEF EnterUse, EnterScope, RefuseScope, RejectScope
<1> QED BY <1>1, <1>2, <1>3, SameScopes DEF EnterUse, M!Next, M!UseScope

LEMMA LeaveStep ==
    ASSUME ClientInv, NEW u \in Uses, LeaveScope(u)
    PROVE  M!Next
<1>1. Scope(u) \in Scopes
  BY UseAssumption DEF Scope
<1>2. scopes[Scope(u)].state = "new" \/ scopes[Scope(u)].state = "entered"
  BY DEF LeaveScope, ExitScope, RejectScope
<1>3. SameBirths
  BY <1>2, MarkedBirths DEF LeaveScope, ExitScope, RejectScope
<1> QED BY <1>1, <1>2, <1>3, SameScopes DEF LeaveScope, M!Next, M!UseScope

LEMMA BorrowStep ==
    ASSUME ClientInv, NEW u \in Uses, Borrow(u) \/ ReturnLease(u)
    PROVE  M!Next
<1>1. UNCHANGED scopes
  BY DEF Borrow, Acquire, ReturnLease, ReleaseNow, ReleaseLater, Releasing
<1>2. CASE Borrow(u)
  <2> DEFINE l == NextLocation(u)
  <2>1. l \in Locations
    <3>1. uses[u].todo \in Seq(Locations) /\ uses[u].todo # <<>>
      BY <1>2 DEF Borrow, ClientInv, UsesTyped, UseRecord
    <3> QED BY <3>1 DEF NextLocation
  <2>2. LeaseOf[u][l] \in Leases /\ Required(u, l) \in SUBSET Values
    BY <2>1, UseAssumption DEF Required
  <2>3. M!Acquire(LeaseOf[u][l], Required(u, l), l)
    BY <1>1, <1>2, KeptBirths, SameProtection DEF Borrow
  <2> QED BY <2>1, <2>2, <2>3 DEF M!Next, M!UseLease
<1>3. CASE ReturnLease(u)
  <2> DEFINE l == uses[u].leased[Len(uses[u].leased)]
  <2>1. l \in Locations
    <3>1. uses[u].leased \in Seq(Locations) /\ uses[u].leased # <<>>
      BY <1>3 DEF ReturnLease, Unwinding, ClientInv, UsesTyped, UseRecord
    <3> QED BY <3>1
  <2>2. LastLease(u) \in Leases
    BY <2>1, UseAssumption DEF LastLease
  <2>3. M!ReleaseNow(LastLease(u)) \/ M!ReleaseLater(LastLease(u))
    BY <1>1, <1>3, KeptBirths, SameProtection DEF ReturnLease
  <2> QED BY <2>2, <2>3 DEF M!Next, M!UseLease
<1> QED BY <1>2, <1>3

LEMMA OtherStep ==
    ASSUME OtherClients
    PROVE  M!Next
<1>1. SameBirths
  <2>1. UNCHANGED scopes
    BY DEF OtherClients, Register, RegisterSource, Adopt, Operate, Run, ExecuteActions, UseHold, Hold,
       ReleaseHold, UseReservation, ReserveBytes, Reserve, ReleaseReservation, ReleaseAbandoned,
       ReleaseHeadroom, Poll, LeaseCall, Acquire, ReleaseNow, ReleaseLater, Releasing, LaunchRead,
       ReadsFinish, Orphan, Close
  <2> QED BY <2>1, KeptBirths
<1>2. CASE Register \/ Operate
  BY <1>1, <1>2, SameRegister DEF M!Next
<1>3. CASE UseHold \/ UseReservation \/ Poll
  BY <1>1, <1>3, SameProtection, SameRest DEF M!Next
<1>4. CASE \E t \in Leases \ UseLeases : LeaseCall(t)
  BY <1>1, <1>4, SameProtection DEF LeaseCall, M!Next, M!UseLease
<1>5. CASE \E t \in Leases : LaunchRead(t) \/ ReadsFinish(t)
  BY <1>1, <1>5, SameProtection DEF M!Next, M!UseLease
<1>6. CASE \E x \in (Leases \ UseLeases) \cup Holds \cup Reservations : Orphan(x)
  BY <1>1, <1>6, SameRest DEF M!Next
<1>7. CASE \E force \in BOOLEAN : Close(force)
  BY <1>1, <1>7, SameRest DEF M!Next
<1> QED BY <1>2, <1>3, <1>4, <1>5, <1>6, <1>7 DEF OtherClients

QuietUse(u) ==
    \/ DecideRejected(u) \/ Entered(u) \/ NotEntered(u) \/ BorrowFails(u) \/ Borrowed(u)
    \/ Leave(u) \/ LeaseGone(u) \/ LeaseRejected(u)

LEMMA SameVars ==
    ASSUME UNCHANGED vars
    PROVE  UNCHANGED M!vars
BY DEF vars, M!vars, Born

LEMMA ManagerStep ==
    ASSUME ClientInv, [ControllerNext]_ControllerVars
    PROVE  [M!Next]_M!vars
<1>1. CASE UNCHANGED ControllerVars
  BY <1>1, SameVars DEF ControllerVars
<1>2. CASE HolderStep
  <2>1. M!HolderStep
    BY <1>2, HolderBirths, SameHolder
  <2> QED BY <2>1 DEF M!Next
<1>3. CASE OtherClients
  BY <1>3, OtherStep
<1>4. ASSUME NEW u \in Uses, UseStep(u) PROVE [M!Next]_M!vars
  <2>1. CASE QuietUse(u)
    <3>1. UNCHANGED vars
      BY <2>1 DEF QuietUse, DecideRejected, Entered, NotEntered, BorrowFails, Borrowed, Leave, LeaseGone,
         LeaseRejected, vars
    <3> QED BY <3>1, SameVars
  <2>2. CASE \/ \E request \in AutoRequests, order \in Rankings : Decide(u, request, order)
             \/ Explain(u)
    BY <2>2, DecideStep DEF M!Next
  <2> QED BY <1>4, <2>1, <2>2, MakeScopeStep, EnterStep, LeaveStep, BorrowStep DEF UseStep, QuietUse
<1> QED BY <1>1, <1>2, <1>3, <1>4 DEF ControllerNext

-----------------------------------------------------------------------------
(* The invariant of the controller and its clients                         *)

LEMMA HolderLock ==
    ASSUME M!TypeOK, HolderStep
    PROVE  \/ op' = Idle
           \/ /\ op'.scope = op.scope
              /\ op'.kind \in {"reclaim", "reserve", "enter"} => op.kind \in {"reclaim", "reserve", "enter"}
<1> USE ScopesTyped
<1>1. CASE \/ StepNoOp \/ StepReplicate \/ StepMove \/ StepCollapse \/ StepDrop \/ StepDiscard
  BY <1>1 DEF StepNoOp, StepReplicate, StepMove, StepCollapse, StepDrop, StepDiscard, NextRequest
<1>2. CASE StartLoad \/ FinishLoad
  BY <1>2 DEF StartLoad, FinishLoad
<1>3. CASE LoadFails \/ StepFails
  BY <1>3 DEF LoadFails, StepFails, Fail
<1>4. CASE EndOperation \/ ReclaimDone \/ ReserveDone \/ EnterDone \/ ExitDone \/ ReleaseDone
  BY <1>4 DEF EndOperation, ReclaimDone, ReserveDone, EnterDone, ExitDone, ReleaseDone, Advance
<1>5. CASE \E r \in Reservations : ReserveNext(r) \/ ReleaseNext(r)
  BY <1>5 DEF ReserveNext, ReleaseNext, holder
<1> QED BY <1>1, <1>2, <1>3, <1>4, <1>5 DEF HolderStep

LEMMA OthersKeepScopes ==
    ASSUME OtherClients \/ UNCHANGED vars
    PROVE  /\ UNCHANGED scopes
           /\ op' = op \/ (op'.scope = NoScope /\ op'.kind \in {"run", "execute"})
<1>1. CASE Operate
  BY <1>1 DEF Operate, Run, ExecuteActions, Begin
<1>2. CASE OtherClients /\ ~Operate
  BY <1>2
  DEF OtherClients, Register, RegisterSource, Adopt, UseHold, Hold, ReleaseHold, UseReservation,
      ReserveBytes, Reserve, ReleaseReservation, ReleaseAbandoned, ReleaseHeadroom, Poll, LeaseCall,
      Acquire, ReleaseNow, ReleaseLater, Releasing, LaunchRead, ReadsFinish, Orphan, Close, holder
<1>3. CASE UNCHANGED vars
  BY <1>3 DEF vars, holder
<1> QED BY <1>1, <1>2, <1>3

LEMMA LockKept ==
    ASSUME ClientInv, [ControllerNext]_ControllerVars
    PROVE  LockedScope'
<1>1. CASE HolderStep
  <2>1. LockedScope /\ M!TypeOK /\ M!ControlConsistent
    BY DEF ClientInv
  <2>2. CASE op' = Idle
    BY <2>2 DEF LockedScope, Idle
  <2>3. CASE UNCHANGED scopes /\ op'.scope = op.scope
             /\ (op'.kind \in {"reclaim", "reserve", "enter"} => op.kind \in {"reclaim", "reserve", "enter"})
    BY <2>1, <2>3 DEF LockedScope
  <2> QED BY <1>1, <2>1, <2>2, <2>3, HolderLock, HolderScopes
<1>2. CASE OtherClients \/ UNCHANGED vars
  BY <1>2, OthersKeepScopes DEF ClientInv, LockedScope
<1>3. ASSUME NEW u \in Uses, UseStep(u) PROVE LockedScope'
  <2>1. Scope(u) \in Scopes /\ scopes = [s \in Scopes |-> scopes[s]]
    BY UseAssumption, ScopesTyped DEF Scope, ClientInv
  <2>2. LockedScope /\ Scope(u) # NoScope
    BY <2>1, TokenAssumption DEF ClientInv
  <2>3. CASE UNCHANGED scopes /\ UNCHANGED op
    BY <2>2, <2>3 DEF LockedScope
  <2>4. CASE MakeScope(u)
    BY <2>4 DEF MakeScope, Observe, holder, Open, LockFree, Idle, LockedScope
  <2>5. ASSUME NEW s, s = Scope(u), EnterScope(s) \/ ExitScope(s) PROVE LockedScope'
    <3>1. PICK kind, state :
             /\ op'.kind = kind /\ op'.scope = s /\ scopes' = [scopes EXCEPT ![s].state = state]
             /\ state \in {"entering", "exiting"}
             /\ kind \in {"reclaim", "reserve", "enter"} => state = "entering"
      <4>1. CASE EnterScope(s)
        <5>1. op'.kind = "reclaim" /\ op'.scope = s
          BY <4>1 DEF EnterScope, Begin
        <5>2. scopes' = [scopes EXCEPT ![s].state = "entering"]
          BY <4>1 DEF EnterScope
        <5> QED BY <5>1, <5>2
      <4>2. CASE ExitScope(s)
        <5>1. op'.kind = "exit" /\ op'.scope = s
          BY <4>2 DEF ExitScope, Begin
        <5>2. scopes' = [scopes EXCEPT ![s].state = "exiting"]
          BY <4>2 DEF ExitScope
        <5> QED BY <5>1, <5>2
      <4> QED BY <2>5, <4>1, <4>2
    <3>2. scopes'[s].state = state
      BY <2>1, <2>5, <3>1, ScopesTyped DEF ClientInv
    <3> QED BY <3>1, <3>2 DEF LockedScope
  <2>6. ASSUME NEW s, s = Scope(u), RefuseScope(s) PROVE LockedScope'
    BY <2>6 DEF RefuseScope, holder, Open, LockFree, Idle, LockedScope
  <2>7. ASSUME NEW s, s = Scope(u), RejectScope(s) PROVE LockedScope'
    <3>1. UNCHANGED op /\ scopes' = [scopes EXCEPT ![s].state = "closed"]
          /\ scopes[s].state \in {"new", "entered"}
      BY <2>7 DEF RejectScope, holder
    <3>2. op.scope # NoScope => op.scope # s
      BY <2>2, <3>1 DEF LockedScope
    <3>3. op.scope # NoScope => scopes'[op.scope] = scopes[op.scope]
      BY <2>1, <3>1, <3>2, ScopesTyped DEF ClientInv
    <3>4. op.kind \in {"reclaim", "reserve", "enter"} => op.scope # NoScope
      BY DEF ClientInv, M!ControlConsistent
    <3> QED BY <2>2, <3>1, <3>3, <3>4 DEF LockedScope
  <2>8. CASE EnterUse(u) \/ LeaveScope(u)
    BY <2>5, <2>6, <2>7, <2>8 DEF EnterUse, LeaveScope
  <2>9. CASE ~MakeScope(u) /\ ~EnterUse(u) /\ ~LeaveScope(u)
    <3>1. UNCHANGED scopes /\ UNCHANGED op
      BY <1>3, <2>9
      DEF UseStep, Decide, Explain, DecideRejected, Observe, Entered, NotEntered, Borrow, Acquire,
          BorrowFails, Borrowed, Leave, ReturnLease, ReleaseNow, ReleaseLater, Releasing, LeaseGone,
          LeaseRejected, vars, holder
    <3> QED BY <2>3, <3>1
  <2> QED BY <2>4, <2>8, <2>9
<1> QED BY <1>1, <1>2, <1>3 DEF ControllerNext, ControllerVars

\* Only a decision makes a version current for a scope, its own.
LEMMA FreshGrows ==
    ASSUME [ControllerNext]_ControllerVars
    PROVE  \/ fresh' \subseteq fresh
           \/ \E u \in Uses, request \in AutoRequests, order \in Rankings :
                 Decide(u, request, order) /\ fresh' \subseteq ReapedFresh \cup {Scope(u)}
<1>1. ReapedFresh \subseteq fresh
  BY DEF ReapedFresh
<1>2. CASE HolderStep
  BY <1>1, <1>2, HolderVersion DEF Bump
<1>3. CASE OtherClients
  BY <1>1, <1>3
  DEF OtherClients, Register, RegisterSource, Adopt, Operate, Run, ExecuteActions, UseHold, Hold,
      ReleaseHold, UseReservation, ReserveBytes, Reserve, ReleaseReservation, ReleaseAbandoned,
      ReleaseHeadroom, Poll, LeaseCall, Acquire, ReleaseNow, ReleaseLater, Releasing, LaunchRead,
      ReadsFinish, Orphan, Close, Bump
<1>4. CASE UNCHANGED ControllerVars
  BY <1>4 DEF ControllerVars, vars
<1>5. ASSUME NEW u \in Uses, UseStep(u),
             ~\E request \in AutoRequests, order \in Rankings : Decide(u, request, order)
      PROVE  fresh' \subseteq fresh
  BY <1>1, <1>5
  DEF UseStep, Explain, MakeScope, DecideRejected, EnterUse, EnterScope, RefuseScope, RejectScope,
      Entered, NotEntered, Borrow, Acquire, BorrowFails, Borrowed, Leave, ReturnLease, ReleaseNow,
      ReleaseLater, Releasing, LeaseGone, LeaseRejected, LeaveScope, ExitScope, Bump, vars
<1>6. ASSUME NEW u \in Uses, NEW request \in AutoRequests, NEW order \in Rankings,
             Decide(u, request, order)
      PROVE  fresh' \subseteq ReapedFresh \cup {Scope(u)}
  BY <1>6 DEF Decide
<1> QED BY <1>2, <1>3, <1>4, <1>5, <1>6 DEF ControllerNext

\* Another use's scope, and a use that waits, are left alone.
LEMMA ScopeKept ==
    ASSUME NEW u, ScopeFollows(u), uses'[u] = uses[u], scopes'[Scope(u)] = scopes[Scope(u)]
    PROVE  ScopeFollows(u)'
BY DEF ScopeFollows, Stage, Scope

LEMMA HolderKeepsScope ==
    ASSUME ClientInv, HolderStep, NEW u \in Uses, uses'[u] = uses[u]
    PROVE  ScopeFollows(u)'
<1>1. ScopeFollows(u) /\ Scope(u) \in Scopes
  BY UseAssumption DEF ClientInv, Scope
<1>2. CASE scopes'[Scope(u)] = scopes[Scope(u)]
  BY <1>1, <1>2, ScopeKept
<1>3. CASE \/ scopes[Scope(u)].state = "entering" /\ scopes'[Scope(u)].state = "entered"
           \/ scopes[Scope(u)].state \in {"entering", "exiting"} /\ scopes'[Scope(u)].state = "closed"
  BY <1>1, <1>3 DEF ScopeFollows, Stage, Scope
<1>4. \/ scopes'[Scope(u)] = scopes[Scope(u)]
      \/ scopes[Scope(u)].state = "entering" /\ scopes'[Scope(u)].state = "entered"
      \/ scopes[Scope(u)].state \in {"entering", "exiting"} /\ scopes'[Scope(u)].state = "closed"
  BY <1>1, HolderScopes, ScopesTyped DEF ClientInv
<1> QED BY <1>2, <1>3, <1>4

LEMMA UseKeepsScopes ==
    ASSUME ClientInv, NEW u \in Uses, UseStep(u), NEW v \in Uses, v # u
    PROVE  scopes'[Scope(v)] = scopes[Scope(v)]
<1>1. Scope(v) # Scope(u) /\ Scope(v) \in Scopes
  BY UseAssumption DEF Scope
<1>2. scopes = [s \in Scopes |-> scopes[s]]
  BY ScopesTyped DEF ClientInv
<1> QED
  BY <1>1, <1>2
  DEF UseStep, Decide, Explain, MakeScope, DecideRejected, Observe, EnterUse, EnterScope, RefuseScope,
      RejectScope, Entered, NotEntered, Borrow, Acquire, BorrowFails, Borrowed, Leave, ReturnLease,
      ReleaseNow, ReleaseLater, Releasing, LeaseGone, LeaseRejected, LeaveScope, ExitScope, vars

LEMMA OwnScope ==
    ASSUME ClientInv, NEW u \in Uses, UseStep(u)
    PROVE  ScopeFollows(u)'
<1> DEFINE s == Scope(u)
<1>1. s \in Scopes /\ scopes = [x \in Scopes |-> scopes[x]] /\ ScopeFollows(u) /\ UsesTyped
  BY UseAssumption, ScopesTyped DEF Scope, ClientInv
<1>2. scopes \in [Scopes -> [state : ScopeStates, plan : ResidencyPlan \cup {NoPlan}, versioned : BOOLEAN]]
  BY ScopesTyped DEF ClientInv
<1>3. ASSUME NEW request \in AutoRequests, NEW order \in Rankings, Decide(u, request, order)
      PROVE  ScopeFollows(u)'
  <2>1. UNCHANGED scopes /\ Stage(u) = "new"
    BY <1>3 DEF Decide
  <2>2. uses'[u].stage = "closed" \/ (uses'[u].stage = "decided" /\ uses'[u].plan \in ResidencyPlan)
    BY <1>1, <1>3, DecideGoes
  <2>3. scopes[s].state = "unborn"
    BY <1>1, <2>1 DEF ScopeFollows
  <2> QED BY <2>1, <2>2, <2>3 DEF ScopeFollows, Stage, Scope
<1>4. ASSUME NEW stage \in Stages, uses' = [uses EXCEPT ![u].stage = stage]
      PROVE  uses'[u].stage = stage /\ uses'[u].plan = uses[u].plan
  BY <1>1, <1>4, StageGoes DEF Goes
<1>5. CASE Explain(u) \/ DecideRejected(u) \/ NotEntered(u)
  <2>1. PICK stage \in {"explained", "closed"} :
           /\ uses' = [uses EXCEPT ![u].stage = stage]
           /\ stage = "explained" => Stage(u) = "decided"
    BY <1>5 DEF Explain, DecideRejected, NotEntered
  <2>2. UNCHANGED scopes /\ scopes[s].state \in {"unborn", "closed"}
        /\ (Stage(u) = "decided" => scopes[s].state = "unborn")
    BY <1>1, <1>5 DEF Explain, DecideRejected, NotEntered, vars, ScopeFollows
  <2>3. uses'[u].stage = stage /\ uses'[u].plan = uses[u].plan
    BY <1>4, <2>1 DEF Stages
  <2> QED BY <1>1, <2>1, <2>2, <2>3 DEF ScopeFollows, Stage, Scope
<1>6. CASE MakeScope(u)
  <2>1. PICK made : made = [state |-> "new", plan |-> uses[u].plan, versioned |-> TRUE]
    OBVIOUS
  <2>2. CASE CurrentDecision(u)
    <3>1. scopes' = [scopes EXCEPT ![s] = made] /\ uses' = [uses EXCEPT ![u].stage = "entering"]
      BY <1>6, <2>1, <2>2 DEF MakeScope
    <3>2. uses'[u].stage = "entering"
      BY <1>4, <3>1 DEF Stages
    <3>3. scopes'[s] = made
      BY <1>1, <3>1
    <3> QED BY <2>1, <3>2, <3>3 DEF ScopeFollows, Stage, Scope
  <2>3. CASE ~CurrentDecision(u)
    <3>1. UNCHANGED scopes /\ uses' = [uses EXCEPT ![u].stage = "closed"]
      BY <1>6, <2>3 DEF MakeScope
    <3>2. uses'[u].stage = "closed"
      BY <1>4, <3>1 DEF Stages
    <3>3. scopes[s].state = "unborn"
      BY <1>1, <1>6 DEF MakeScope, ScopeFollows
    <3> QED BY <3>1, <3>2, <3>3 DEF ScopeFollows, Stage, Scope
  <2> QED BY <2>2, <2>3
<1>7. CASE EnterUse(u)
  <2>1. UNCHANGED uses /\ Stage(u) = "entering"
    BY <1>7 DEF EnterUse
  <2>2. scopes'[s].state \in {"entering", "closed"}
    BY <1>2, <1>1, <1>7 DEF EnterUse, EnterScope, RefuseScope, RejectScope
  <2> QED BY <2>1, <2>2 DEF ScopeFollows, Stage, Scope
<1>8. CASE Entered(u)
  <2>1. uses'[u].stage = "leasing"
    BY <1>1, <1>8, EnteredGoes DEF Goes
  <2>2. UNCHANGED scopes /\ scopes[s].state = "entered"
    BY <1>8 DEF Entered, vars
  <2> QED BY <2>1, <2>2 DEF ScopeFollows, Stage, Scope
<1>9. CASE Borrow(u)
  <2>1. uses'[u].stage = "leasing" /\ Stage(u) = "leasing" /\ UNCHANGED scopes
    BY <1>1, <1>9, BorrowGoes DEF Goes, Borrow, Acquire
  <2> QED BY <1>1, <2>1 DEF ScopeFollows, Stage, Scope
<1>10. CASE BorrowFails(u) \/ Borrowed(u) \/ Leave(u)
  <2>1. PICK stage \in {"leaving", "running"} : uses' = [uses EXCEPT ![u].stage = stage]
    BY <1>10 DEF BorrowFails, Borrowed, Leave
  <2>2. uses'[u].stage = stage
    BY <1>4, <2>1 DEF Stages
  <2>3. UNCHANGED scopes /\ Stage(u) \in {"leasing", "running"}
    BY <1>10 DEF BorrowFails, Borrowed, Leave, vars
  <2> QED BY <1>1, <2>2, <2>3 DEF ScopeFollows, Stage, Scope
<1>11. CASE ReturnLease(u) \/ LeaseGone(u) \/ LeaseRejected(u)
  <2>1. uses'[u].stage = "leaving" /\ Stage(u) = "leaving"
    BY <1>1, <1>11, PopGoes DEF Goes, Unwinding
  <2>2. UNCHANGED scopes
    BY <1>11 DEF ReturnLease, ReleaseNow, ReleaseLater, Releasing, LeaseGone, LeaseRejected, vars
  <2> QED BY <1>1, <2>1, <2>2 DEF ScopeFollows, Stage, Scope
<1>12. CASE LeaveScope(u)
  <2>1. uses'[u].stage = "closed"
    BY <1>1, <1>12, LeaveGoes DEF Goes
  <2>2. scopes'[s].state \in {"exiting", "closed"}
    BY <1>2, <1>1, <1>12 DEF LeaveScope, ExitScope, RejectScope
  <2> QED BY <2>1, <2>2 DEF ScopeFollows, Stage, Scope
<1> QED BY <1>3, <1>5, <1>6, <1>7, <1>8, <1>9, <1>10, <1>11, <1>12 DEF UseStep

LEMMA ClientStep ==
    ASSUME ClientInv, StacksFollow, [ControllerNext]_ControllerVars
    PROVE  ClientInv' /\ StacksFollow'
<1>1. [M!Next]_M!vars /\ M!TypeOK /\ M!ControlConsistent
  BY ManagerStep DEF ClientInv
<1>2. M!TypeOK'
  BY <1>1, M!TypeStep, NoneAssumption, LocationAssumption, SpecAssumption, TokenAssumption, SameVocabulary
<1>3. M!ControlConsistent'
  BY <1>1, M!ControlStep, NoneAssumption, LocationAssumption, SpecAssumption, TokenAssumption, SameVocabulary
<1>4. (fresh \subseteq Scopes)'
  BY FreshGrows, UseAssumption DEF ClientInv, Scope, ReapedFresh
<1>5. UsesTyped' /\ StacksFollow'
  <2>1. LeasesTyped
    BY DEF ClientInv, M!TypeOK, M!ProtectionTyped, M!LeaseRecord, M!Place, LeasesTyped, LeaseRecord, Place
  <2> QED BY <2>1, StackStep DEF ClientInv
<1>6. ASSUME NEW v \in Uses PROVE ScopeFollows(v)'
  <2>1. CASE HolderStep /\ UNCHANGED uses
    BY <2>1, HolderKeepsScope
  <2>2. CASE (OtherClients \/ UNCHANGED vars) /\ UNCHANGED uses
    BY <2>2, OthersKeepScopes, ScopeKept DEF ClientInv
  <2>3. ASSUME NEW u \in Uses, UseStep(u) PROVE ScopeFollows(v)'
    <3>1. CASE v = u
      BY <2>3, <3>1, OwnScope
    <3>2. CASE v # u
      <4>1. LeasesTyped /\ UsesTyped /\ StackFollows(u)
        BY DEF ClientInv, M!TypeOK, M!ProtectionTyped, M!LeaseRecord, M!Place, LeasesTyped, LeaseRecord,
           Place, StacksFollow
      <4>2. uses'[v] = uses[v]
        BY <2>3, <3>2, <4>1, OwnStack DEF Only
      <4> QED BY <2>3, <3>2, <4>2, UseKeepsScopes, ScopeKept DEF ClientInv
    <3> QED BY <3>1, <3>2
  <2> QED BY <2>1, <2>2, <2>3 DEF ControllerNext, ControllerVars
<1>7. LockedScope'
  BY LockKept
<1> QED BY <1>2, <1>3, <1>4, <1>5, <1>6, <1>7 DEF ClientInv

-----------------------------------------------------------------------------
(* The controller and the manager                                          *)

LEMMA ClientInit == ControllerInit => ClientInv /\ StacksFollow /\ M!Init
<1> SUFFICES ASSUME ControllerInit PROVE ClientInv /\ StacksFollow /\ M!Init
  OBVIOUS
<1>1. Init /\ uses = [u \in Uses |-> NewUse]
  BY DEF ControllerInit
<1>2. Born = {}
  BY <1>1 DEF Init, Born
<1>3. M!Init
  BY <1>1, <1>2, SameRecords DEF Init, M!Init
<1>4. M!TypeOK /\ M!ControlConsistent
  BY <1>3, M!InitTyped, M!InitControl, NoneAssumption, LocationAssumption, SpecAssumption, TokenAssumption,
     SameVocabulary
<1>5. fresh \subseteq Scopes /\ LockedScope
  BY <1>1 DEF Init, LockedScope, Idle
<1>6. UsesTyped
  BY <1>1, NewUseTyped DEF UsesTyped
<1>7. ASSUME NEW u \in Uses PROVE ScopeFollows(u)
  <2>1. Stage(u) = "new" /\ Scope(u) \in Scopes
    BY <1>1, UseAssumption DEF Stage, NewUse, Scope
  <2>2. scopes[Scope(u)].state = "unborn"
    BY <1>1, <2>1 DEF Init
  <2> QED BY <2>1, <2>2 DEF ScopeFollows
<1>8. StacksFollow
  BY NewStack DEF StacksFollow
<1> QED BY <1>3, <1>4, <1>5, <1>6, <1>7, <1>8 DEF ClientInv

LEMMA ClientInvariance == ControllerSpec => [](ClientInv /\ StacksFollow)
<1>1. ControllerInit => ClientInv /\ StacksFollow
  BY ClientInit
<1>2. ClientInv /\ StacksFollow /\ [ControllerNext]_ControllerVars => (ClientInv /\ StacksFollow)'
  BY ClientStep
<1> QED BY <1>1, <1>2, PTL DEF ControllerSpec

\* The controller is one more client of the manager: whatever it does, with its
\* scopes and leases and between the steps of everybody else, is a behaviour
\* the manager's own specification allows (controller.py only calls the public
\* operations of manager.py).
THEOREM ControllerIsAClient == ControllerSpec => M!Spec
<1>1. ControllerInit => M!Init
  BY ClientInit
<1>2. ClientInv /\ [ControllerNext]_ControllerVars => [M!Next]_M!vars
  BY ManagerStep
<1> QED BY <1>1, <1>2, ClientInvariance, PTL DEF ControllerSpec, M!Spec

LEMMA SamePromises ==
    /\ M!LifetimesConsistent <=> LifetimesConsistent
    /\ M!WithinBudget <=> WithinBudget
    /\ M!NoReadOfFreedStorage <=> NoReadOfFreedStorage
    /\ M!NeverLost <=> NeverLost
    /\ M!ExclusiveHasOneReplica <=> ExclusiveHasOneReplica
<1>1. M!LifetimesConsistent <=> LifetimesConsistent
  BY DEF M!LifetimesConsistent, LifetimesConsistent, M!TokensAgree, TokensAgree
<1>2. M!WithinBudget <=> WithinBudget
  BY DEF M!WithinBudget, WithinBudget
<1>3. M!NoReadOfFreedStorage <=> NoReadOfFreedStorage
  BY DEF M!NoReadOfFreedStorage, NoReadOfFreedStorage
<1>4. M!NeverLost <=> NeverLost
  BY DEF M!NeverLost, NeverLost, M!Reconstructible, Reconstructible
<1>5. M!ExclusiveHasOneReplica <=> ExclusiveHasOneReplica
  BY DEF M!ExclusiveHasOneReplica, ExclusiveHasOneReplica
<1> QED BY <1>1, <1>2, <1>3, <1>4, <1>5

LEMMA SamePlanPromises ==
    /\ M!AccountingExact <=> AccountingExact
    /\ M!AdmittedStepsFeasible <=> AdmittedStepsFeasible
    /\ M!PredictedPeakCoversCharge <=> PredictedPeakCoversCharge
<1>1. M!Preflighted <=> Preflighted
  BY DEF M!Preflighted, Preflighted
<1>2. ASSUME NEW f, NEW S PROVE M!Total(f, S) = Total(f, S)
  BY DEF M!Total, Total, M!Sets!MapThenSumSet, M!Sets!MapThenFoldSet, Sets!MapThenSumSet, Sets!MapThenFoldSet
<1>3. M!AccountingExact <=> AccountingExact
  <2>1. M!ReservedSize = ReservedSize
    BY DEF M!ReservedSize, ReservedSize
  <2>2. \A l : M!Occupants(l) = Occupants(l) /\ M!Reserved(l) = Reserved(l) /\ M!Loading(l) = Loading(l)
    BY SameReaping DEF M!Occupants, Occupants, M!Reserved, Reserved, M!Loading, Loading
  <2>3. \A l : /\ M!Total(Size, M!Occupants(l)) = Total(Size, Occupants(l))
               /\ M!Total(M!ReservedSize, M!Reserved(l)) = Total(ReservedSize, Reserved(l))
    BY <1>2, <2>1, <2>2
  <2> QED BY <2>2, <2>3 DEF M!AccountingExact, AccountingExact
<1>4. M!AdmittedStepsFeasible <=> AdmittedStepsFeasible
  BY <1>1, SameRequest, SameReaping DEF M!AdmittedStepsFeasible, AdmittedStepsFeasible
<1>5. M!PredictedPeakCoversCharge <=> PredictedPeakCoversCharge
  BY <1>1 DEF M!PredictedPeakCoversCharge, PredictedPeakCoversCharge
<1> QED BY <1>3, <1>4, <1>5

\* What the manager promises its clients it also promises while controllers
\* decide, enter and leave uses: budgets, lifetimes, reads, values and replicas,
\* exact counters, and plans that run as their preflight said.
THEOREM PromisesKept ==
    ControllerSpec => [](/\ WithinBudget /\ LifetimesConsistent /\ NoReadOfFreedStorage
                         /\ NeverLost /\ ExclusiveHasOneReplica
                         /\ AccountingExact /\ AdmittedStepsFeasible /\ PredictedPeakCoversCharge)
<1>1. /\ M!Spec => []M!WithinBudget
      /\ M!Spec => []M!LifetimesConsistent
      /\ M!Spec => []M!NoReadOfFreedStorage
      /\ M!Spec => []M!NeverLost
      /\ M!Spec => []M!ExclusiveHasOneReplica
  BY M!BudgetRespected, M!LifetimesAgree, M!ReadsAreSafe, M!NothingLost, M!ExclusiveIsSingle,
     NoneAssumption, LocationAssumption, SpecAssumption, TokenAssumption, SameVocabulary
<1>2. /\ M!Spec => []M!AccountingExact
      /\ M!Spec => []M!AdmittedStepsFeasible
      /\ M!Spec => []M!PredictedPeakCoversCharge
  BY M!BytesAreExact, M!AdmittedPlansAreFeasible, M!PeaksAreCovered,
     NoneAssumption, LocationAssumption, SpecAssumption, TokenAssumption, SameVocabulary
<1> QED BY <1>1, <1>2, SamePromises, SamePlanPromises, ControllerIsAClient, PTL

-----------------------------------------------------------------------------
(* Uses that run, and uses that ended                                      *)

LEMMA RunningIsBorrowed ==
    ASSUME ClientInv, StacksFollow, LifetimesConsistent
    PROVE  BorrowsStayPut
<1> SUFFICES ASSUME NEW u \in Uses, Stage(u) = "running", ~closed,
                    NEW n \in DOMAIN uses[u].request.requirements
             PROVE  LET q == uses[u].request.requirements[n] IN
                    /\ q.location \in materializations[q.handle]
                    /\ LeaseOf[u][q.location] \in use_tokens[q.handle][q.location]
  BY DEF BorrowsStayPut
<1>1. PICK q : q = uses[u].request.requirements[n]
  OBVIOUS
<1>2. q \in [handle : Values, location : Locations]
  <2>1. uses[u].request \in ResidencyRequest
    BY UseRecordTyped DEF ClientInv
  <2>2. uses[u].request.requirements \in Seq([handle : Values, location : Locations])
    BY <2>1 DEF ResidencyRequest
  <2>3. ASSUME NEW S, NEW s \in Seq(S), NEW m \in DOMAIN s PROVE s[m] \in S
    BY <2>3
  <2> QED BY <1>1, <2>2, <2>3
<1>3. q.handle \in Values /\ q.location \in Locations /\ q = Requirement(q.handle, q.location)
  BY <1>2 DEF Requirement
<1>4. Has(uses[u].leased, q.location)
  <2>1. StackComplete(u)
    BY DEF StacksFollow, StackFollows
  <2> QED BY <1>1, <2>1, HasNothing DEF StackComplete
<1>5. leases[LeaseOf[u][q.location]] = Borrowing(u, q.location)
  BY <1>3, <1>4 DEF StacksFollow, StackFollows, StackActive
<1>6. q.handle \in Required(u, q.location)
  BY <1>1, <1>3 DEF Required
<1>7. PICK t \in Leases : t = LeaseOf[u][q.location]
  BY <1>3, OwnLease
<1>8. leases[t].state = "active" /\ q.handle \in leases[t].handles /\ leases[t].location = q.location
  BY <1>5, <1>6, <1>7 DEF Borrowing
<1>9. TokensAgree(q.handle, q.location)
  BY <1>3 DEF LifetimesConsistent
<1>10. t \in use_tokens[q.handle][q.location] /\ q.location \in materializations[q.handle]
  BY <1>7, <1>8, <1>9 DEF TokensAgree
<1> QED BY <1>1, <1>7, <1>10

\* While the body of a use runs, everything it asked for stays where it asked
\* for it, protected by its lease, whatever other clients do (controller.py
\* __enter__ leases each location before the body starts).
THEOREM RunningUsesAreServed == ControllerSpec => []BorrowsStayPut
<1>1. ClientInv /\ StacksFollow /\ LifetimesConsistent => BorrowsStayPut
  BY RunningIsBorrowed
<1> QED BY <1>1, ClientInvariance, PromisesKept, PTL

LEMMA EndedIsReturned ==
    ASSUME ClientInv, StacksFollow
    PROVE  EndedUsesOwnNothing
<1> SUFFICES ASSUME NEW u \in Uses, Stage(u) = "closed"
             PROVE  /\ \A l \in Locations : leases[LeaseOf[u][l]].state = "active"
                                              => LeaseOf[u][l] \in uses[u].lost
                    /\ scopes[Scope(u)].state \in {"new", "entering", "entered"} => Scope(u) \in uses[u].lost
  BY DEF EndedUsesOwnNothing
<1>1. uses[u].leased = <<>> /\ NothingForgotten(u)
  BY DEF StacksFollow, StackFollows, StackEmpty
<1>2. \A l \in Locations : leases[LeaseOf[u][l]].state = "active" => LeaseOf[u][l] \in uses[u].lost
  BY <1>1, HasNothing DEF NothingForgotten
<1>3. scopes[Scope(u)].state \in {"unborn", "exiting", "closed"}
  BY DEF ClientInv, ScopeFollows
<1> QED BY <1>2, <1>3

\* However a use ends, it keeps neither a lease nor a scope, except what the
\* manager refused to take back during a callback (the ExitStack of __exit__).
THEOREM EndedUsesReturnAll == ControllerSpec => []EndedUsesOwnNothing
<1>1. ClientInv /\ StacksFollow => EndedUsesOwnNothing
  BY EndedIsReturned
<1> QED BY <1>1, ClientInvariance, PTL

-----------------------------------------------------------------------------
(* The state a plan was decided on                                         *)

\* A use that has decided nothing yet has no version to be current.
NewIsStale == \A u \in Uses : Stage(u) = "new" => Scope(u) \notin fresh

LEMMA QuietWhenUnfinished ==
    ASSUME ClientInv, Reap,
           UNCHANGED <<records, materializations, use_tokens, hold_tokens, holds, reservations,
                       locations, closed>>
    PROVE  Finished = {} => UNCHANGED Versioned
<1> SUFFICES ASSUME Finished = {} PROVE UNCHANGED Versioned
  OBVIOUS
<1>1. M!TypeOK /\ M!Finished = {} /\ M!Reap
  BY SameReaping DEF ClientInv
<1>2. leases' = leases /\ pending_tokens' = pending_tokens
  BY <1>1, M!QuietReap, NoneAssumption, LocationAssumption, SpecAssumption, TokenAssumption, SameVocabulary
<1> QED BY <1>2 DEF Versioned

LEMMA ControllerVersion ==
    ASSUME ClientInv, NewIsStale, [ControllerNext]_ControllerVars
    PROVE  Versioned' # Versioned => fresh \cap fresh' = {}
<1> SUFFICES ASSUME Versioned' # Versioned PROVE fresh \cap fresh' = {}
  OBVIOUS
<1>1. CASE Bump
  BY <1>1 DEF Bump
<1>2. ASSUME Reap,
             UNCHANGED <<records, materializations, use_tokens, hold_tokens, holds, reservations,
                         locations, closed>>
      PROVE  ReapedFresh = {}
  BY <1>2, QuietWhenUnfinished DEF ReapedFresh
<1>3. ASSUME Observe PROVE ReapedFresh = {}
  BY <1>2, <1>3 DEF Observe, placement, headroom
<1>4. CASE HolderStep
  BY <1>1, <1>2, <1>4, HolderVersion
<1>5. CASE Register \/ UseHold \/ UseReservation \/ Poll \/ \E force \in BOOLEAN : Close(force)
  BY <1>1, <1>5
  DEF Register, RegisterSource, Adopt, UseHold, Hold, ReleaseHold, UseReservation, ReserveBytes, Reserve,
      ReleaseReservation, ReleaseAbandoned, ReleaseHeadroom, Poll, Close
<1>6. CASE Operate
  BY <1>2, <1>6 DEF Operate, Run, ExecuteActions, Begin, placement, headroom
<1>7. ASSUME NEW t, NEW H, NEW l, Acquire(t, H, l) \/ ReleaseNow(t) \/ ReleaseLater(t)
      PROVE  Bump
  BY <1>7 DEF Acquire, ReleaseNow, ReleaseLater, Releasing
<1>8. ASSUME NEW t, LaunchRead(t) \/ ReadsFinish(t) \/ Orphan(t) PROVE FALSE
  BY <1>8 DEF LaunchRead, ReadsFinish, Orphan, vars, Versioned, placement, protection, headroom
<1>9. CASE OtherClients
  BY <1>1, <1>5, <1>6, <1>7, <1>8, <1>9 DEF OtherClients, LeaseCall
<1>10. ASSUME NEW u \in Uses, UseStep(u) PROVE fresh \cap fresh' = {}
  <2>1. ASSUME NEW request \in AutoRequests, NEW order \in Rankings, Decide(u, request, order)
        PROVE  fresh \cap fresh' = {}
    <3>1. Observe /\ Stage(u) = "new" /\ fresh' \subseteq ReapedFresh \cup {Scope(u)}
      BY <2>1 DEF Decide
    <3> QED BY <1>3, <3>1 DEF NewIsStale
  <2>2. CASE Explain(u) \/ MakeScope(u)
    BY <1>3, <2>2 DEF Explain, MakeScope
  <2>3. ASSUME NEW s, EnterScope(s) \/ RefuseScope(s) \/ ExitScope(s) PROVE fresh \cap fresh' = {}
    BY <1>2, <2>3 DEF EnterScope, RefuseScope, ExitScope, Begin, placement, headroom
  <2>4. ASSUME NEW s, RejectScope(s) PROVE FALSE
    BY <2>4 DEF RejectScope, Versioned, placement, protection, headroom
  <2>5. CASE EnterUse(u) \/ LeaveScope(u)
    BY <2>3, <2>4, <2>5 DEF EnterUse, LeaveScope
  <2>6. CASE Borrow(u) \/ ReturnLease(u)
    BY <1>1, <1>7, <2>6 DEF Borrow, ReturnLease
  <2>7. CASE QuietUse(u)
    BY <2>7 DEF QuietUse, DecideRejected, Entered, NotEntered, BorrowFails, Borrowed, Leave, LeaseGone,
       LeaseRejected, vars, Versioned
  <2> QED BY <1>10, <2>1, <2>2, <2>5, <2>6, <2>7 DEF UseStep, QuietUse
<1>11. CASE UNCHANGED ControllerVars
  BY <1>11 DEF ControllerVars, vars, Versioned
<1> QED BY <1>4, <1>9, <1>10, <1>11 DEF ControllerNext

-----------------------------------------------------------------------------
(* How far a decision has come                                             *)

Decides(u) == \E request \in AutoRequests, order \in Rankings : Decide(u, request, order)
Waiting(u) ==
    \/ Stage(u) \in {"decided", "explained"}
    \/ Stage(u) = "entering" /\ scopes[Scope(u)].state = "new"

\* Nothing but a decision takes a use out of "new" or gives it a plan.
LEMMA OwnProgress ==
    ASSUME ClientInv, NEW u \in Uses, UseStep(u), ~Decides(u)
    PROVE  /\ Stage(u)' = "new" => Stage(u) = "new"
           /\ Waiting(u)' => Waiting(u) /\ uses'[u].request = uses[u].request /\ uses'[u].plan = uses[u].plan
<1> DEFINE Kept == uses'[u].request = uses[u].request /\ uses'[u].plan = uses[u].plan
<1>1. UsesTyped /\ ScopeFollows(u)
  BY DEF ClientInv
<1>2. Scope(u) \in Scopes
  BY UseAssumption DEF Scope
<1>3. ASSUME NEW stage \in Stages, uses' = [uses EXCEPT ![u].stage = stage]
      PROVE  uses'[u].stage = stage /\ Kept
  BY <1>1, <1>3, StageGoes DEF Goes
<1>4. CASE Explain(u) \/ MakeScope(u)
  <2>1. PICK stage \in {"explained", "entering", "closed"} : uses' = [uses EXCEPT ![u].stage = stage]
    BY <1>4 DEF Explain, MakeScope
  <2>2. uses'[u].stage = stage /\ Kept
    BY <1>3, <2>1 DEF Stages
  <2>3. Stage(u) \in {"decided", "explained"}
    BY <1>4 DEF Explain, MakeScope
  <2> QED BY <2>1, <2>2, <2>3 DEF Stage, Waiting
<1>5. CASE DecideRejected(u) \/ NotEntered(u) \/ BorrowFails(u) \/ Borrowed(u) \/ Leave(u)
  <2>1. PICK stage \in {"closed", "leaving", "running"} : uses' = [uses EXCEPT ![u].stage = stage]
    BY <1>5 DEF DecideRejected, NotEntered, BorrowFails, Borrowed, Leave
  <2>2. uses'[u].stage = stage
    BY <1>3, <2>1 DEF Stages
  <2> QED BY <2>1, <2>2 DEF Stage, Waiting
<1>6. CASE EnterUse(u)
  <2>1. UNCHANGED uses /\ Stage(u) = "entering"
    BY <1>6 DEF EnterUse
  <2>2. scopes'[Scope(u)].state \in {"entering", "closed"}
    BY <1>2, <1>6, ScopesTyped DEF EnterUse, EnterScope, RefuseScope, RejectScope, ClientInv
  <2>3. Stage(u)' = "entering"
    BY <2>1 DEF Stage
  <2> QED BY <2>2, <2>3 DEF Waiting, Scope
<1>7. CASE Entered(u) \/ Borrow(u) \/ ReturnLease(u) \/ LeaseGone(u) \/ LeaseRejected(u) \/ LeaveScope(u)
  <2>1. uses'[u].stage \in {"leasing", "leaving", "closed"}
    BY <1>1, <1>7, EnteredGoes, BorrowGoes, PopGoes, LeaveGoes DEF Goes
  <2> QED BY <2>1 DEF Stage, Waiting
<1> QED BY <1>4, <1>5, <1>6, <1>7 DEF UseStep, Decides

LEMMA OtherUses ==
    ASSUME ClientInv, StacksFollow, NEW u \in Uses, UseStep(u), NEW v \in Uses, v # u
    PROVE  uses'[v] = uses[v]
<1>1. LeasesTyped /\ UsesTyped /\ StackFollows(u)
  BY DEF ClientInv, M!TypeOK, M!ProtectionTyped, M!LeaseRecord, M!Place, LeasesTyped, LeaseRecord, Place,
     StacksFollow
<1> QED BY <1>1, OwnStack DEF Only

LEMMA Progress ==
    ASSUME ClientInv, StacksFollow, [ControllerNext]_ControllerVars, NEW v \in Uses, ~Decides(v)
    PROVE  /\ Stage(v)' = "new" => Stage(v) = "new"
           /\ Waiting(v)' => Waiting(v) /\ uses'[v].request = uses[v].request /\ uses'[v].plan = uses[v].plan
<1> DEFINE s == Scope(v)
<1>1. s \in Scopes /\ M!TypeOK /\ M!ControlConsistent /\ LockedScope
  BY UseAssumption DEF Scope, ClientInv
<1>2. ASSUME uses'[v] = uses[v], scopes'[s].state = "new" => scopes[s].state = "new"
      PROVE  /\ Stage(v)' = "new" => Stage(v) = "new"
             /\ Waiting(v)' => Waiting(v) /\ uses'[v].request = uses[v].request /\ uses'[v].plan = uses[v].plan
  BY <1>2 DEF Stage, Waiting, Scope
<1>3. CASE HolderStep /\ UNCHANGED uses
  <2>1. scopes'[s].state = "new" => scopes[s].state = "new"
    BY <1>1, <1>3, HolderScopes, ScopesTyped
  <2> QED BY <1>2, <1>3, <2>1
<1>4. CASE (OtherClients \/ UNCHANGED vars) /\ UNCHANGED uses
  BY <1>2, <1>4, OthersKeepScopes
<1>5. ASSUME NEW u \in Uses, UseStep(u), u # v
      PROVE  uses'[v] = uses[v] /\ scopes'[s] = scopes[s]
  BY <1>5, OtherUses, UseKeepsScopes
<1> QED BY <1>2, <1>3, <1>4, <1>5, OwnProgress DEF ControllerNext, ControllerVars

\* Only a use's own decision makes a version current for it.
LEMMA NoVersionRegained ==
    ASSUME [ControllerNext]_ControllerVars, NEW v \in Uses, ~Decides(v), Scope(v) \in fresh'
    PROVE  Scope(v) \in fresh
<1>1. CASE fresh' \subseteq fresh
  BY <1>1
<1>2. ASSUME NEW u \in Uses, Decides(u), fresh' \subseteq ReapedFresh \cup {Scope(u)}
      PROVE  Scope(v) \in fresh
  BY <1>2, UseAssumption DEF ReapedFresh, Scope
<1> QED BY <1>1, <1>2, FreshGrows DEF Decides

LEMMA NewStaysStale ==
    ASSUME ClientInv, StacksFollow, NewIsStale, [ControllerNext]_ControllerVars
    PROVE  NewIsStale'
<1> SUFFICES ASSUME NEW v \in Uses, Stage(v)' = "new" PROVE Scope(v) \notin fresh'
  BY DEF NewIsStale, Scope
<1>1. CASE Decides(v)
  <2>1. uses'[v].stage \in {"closed", "decided"}
    BY <1>1, DecideGoes DEF Decides, ClientInv
  <2> QED BY <2>1 DEF Stage
<1>2. CASE ~Decides(v)
  BY <1>2, Progress, NoVersionRegained DEF NewIsStale
<1> QED BY <1>1, <1>2

\* The pairs protected once every finished lease has been reaped.
Held == {p \in Values \X Locations :
           \/ use_tokens[p[1]][p[2]] # {} \/ hold_tokens[p[1]][p[2]] # {} \/ pending_tokens[p[1]][p[2]] # {}}

\* A plan the search finds for a request, from a placement and protected pairs.
Search(request, order, sim, pairs) ==
    SearchRequest(sim, [request |-> request, order |-> order, protected |-> pairs])

Answers(plan, request, sim, pairs) ==
    \E order \in Rankings :
        /\ Search(request, order, sim, pairs).verdict = "plan"
        /\ plan = DecidedPlan(Search(request, order, sim, pairs), request)

\* As long as the version of its decision is current, a waiting use could decide
\* again and find its plan.  A placement counts without the bytes of a load in
\* progress: the decision was made, and the scope starts, while none runs.
DecisionHolds(u) ==
    Waiting(u) /\ Scope(u) \in fresh =>
        /\ ValidRequest(uses[u].request)
        /\ Answers(uses[u].plan, uses[u].request, M!Planned, Held)

DecisionsHold == \A u \in Uses : DecisionHolds(u)

LEMMA HeldPairs == Finished = {} => ProtectedPairs = Held
<1> SUFFICES ASSUME Finished = {} PROVE ProtectedPairs = Held
  OBVIOUS
<1>1. ASSUME NEW v \in Values, NEW l \in Locations PROVE ReapedTokens[v][l] = pending_tokens[v][l]
  BY DEF ReapedTokens
<1> QED BY <1>1 DEF ProtectedPairs, Protected, Held

LEMMA HeldAfterReap ==
    ASSUME use_tokens' = use_tokens, hold_tokens' = hold_tokens, pending_tokens' = ReapedTokens
    PROVE  Held' = ProtectedPairs
BY DEF ProtectedPairs, Protected, Held

ExactNow == M!TypeOK /\ M!BytesExact

LEMMA PlannedStays ==
    ASSUME ExactNow, ExactNow', UNCHANGED <<records, materializations, reservations>>
    PROVE  M!Planned' = M!Planned
BY M!PlannedFollows, NoneAssumption, LocationAssumption, SpecAssumption, TokenAssumption, SameVocabulary
DEF ExactNow

LEMMA PlannedWhenFree ==
    ASSUME ClientInv, LockFree
    PROVE  M!Planned = Simulation
<1>1. M!TypeOK /\ ~M!CallbackActive
  <2>1. op.load = NoLoad
    BY DEF LockFree, Idle
  <2> QED BY <2>1, SameReaping DEF ClientInv, CallbackActive
<1>2. M!Planned = M!Simulation
  BY <1>1, M!PlannedAtRest, NoneAssumption, LocationAssumption, SpecAssumption, TokenAssumption, SameVocabulary
<1> QED BY <1>2, SamePreflight

LEMMA SameValidity ==
    ASSUME NEW request, records' = records
    PROVE  ValidRequest(request)' <=> ValidRequest(request)
BY DEF ValidRequest

\* A decision, and the state right after it.
LEMMA DecisionMade ==
    ASSUME ClientInv, ExactNow, ExactNow', NEW v \in Uses, Decides(v)
    PROVE  DecisionHolds(v)'
<1> PICK request \in AutoRequests, order \in Rankings : Decide(v, request, order)
  BY DEF Decides
<1>1. UsesTyped /\ Observe
  BY DEF ClientInv, Decide
<1>2. CASE uses'[v].stage = "closed"
  BY <1>2 DEF DecisionHolds, Waiting, Stage
<1>3. CASE /\ uses'[v].request = request
           /\ Outcome(request, order).verdict = "plan"
           /\ uses'[v].plan = DecidedPlan(Outcome(request, order), request)
           /\ ValidRequest(request)
  <2>1. M!Planned' = M!Planned
    BY <1>1, PlannedStays DEF Observe, placement, headroom
  <2>2. M!Planned = Simulation
    BY <1>1, PlannedWhenFree DEF Observe, Open
  <2>3. Held' = ProtectedPairs
    BY <1>1, HeldAfterReap DEF Observe, Reap
  <2>4. ValidRequest(request)'
    BY <1>1, <1>3, SameValidity DEF Observe, placement
  <2>5. PICK plan : plan = uses'[v].plan
    OBVIOUS
  <2>6. PICK sim, pairs : sim = Simulation /\ pairs = ProtectedPairs
    OBVIOUS
  <2>7. Answers(plan, request, sim, pairs)
    BY <1>3, <2>5, <2>6 DEF Answers, Outcome, Search
  <2>8. sim = M!Planned' /\ pairs = Held'
    BY <2>1, <2>2, <2>3, <2>6
  <2> QED BY <1>3, <2>4, <2>5, <2>7, <2>8 DEF DecisionHolds
<1> QED BY <1>1, <1>2, <1>3, DecideGoes

LEMMA DecisionKept ==
    ASSUME ClientInv, StacksFollow, NewIsStale, ExactNow, ExactNow', [ControllerNext]_ControllerVars,
           NEW v \in Uses, ~Decides(v), DecisionHolds(v)
    PROVE  DecisionHolds(v)'
<1> SUFFICES ASSUME Waiting(v)', Scope(v) \in fresh'
             PROVE  (/\ ValidRequest(uses[v].request)
                     /\ Answers(uses[v].plan, uses[v].request, M!Planned, Held))'
  BY DEF DecisionHolds, Scope
<1>1. Waiting(v) /\ uses'[v].request = uses[v].request /\ uses'[v].plan = uses[v].plan
  BY Progress
<1>2. Scope(v) \in fresh
  BY NoVersionRegained
<1>3. UNCHANGED Versioned
  BY <1>2, ControllerVersion
<1>4. M!Planned' = M!Planned
  BY <1>3, PlannedStays DEF Versioned
<1>5. Held' = Held
  BY <1>3 DEF Versioned, Held
<1>6. PICK plan, request, sim, pairs :
        /\ plan = uses[v].plan /\ request = uses[v].request /\ sim = M!Planned /\ pairs = Held
        /\ plan = uses'[v].plan /\ request = uses'[v].request /\ sim = M!Planned' /\ pairs = Held'
  BY <1>1, <1>4, <1>5
<1>7. ValidRequest(request) /\ Answers(plan, request, sim, pairs)
  BY <1>1, <1>2, <1>6 DEF DecisionHolds
<1>8. ValidRequest(request)'
  BY <1>3, <1>7, SameValidity DEF Versioned
<1> QED BY <1>6, <1>7, <1>8

LEMMA DecisionStep ==
    ASSUME ClientInv, StacksFollow, NewIsStale, DecisionsHold, ExactNow, ExactNow',
           [ControllerNext]_ControllerVars
    PROVE  NewIsStale' /\ DecisionsHold'
BY NewStaysStale, DecisionMade, DecisionKept DEF DecisionsHold

\* A versioned plan starts only while its version is current.
LEMMA StartsCurrent ==
    ASSUME ClientInv, StacksFollow, DecisionsHold, [ControllerNext]_ControllerVars, NEW v \in Uses,
           scopes[Scope(v)].state = "new", scopes'[Scope(v)].state = "entering"
    PROVE  /\ ValidRequest(uses[v].request)
           /\ \E order \in Rankings :
                 DecidedPlan(Outcome(uses[v].request, order), uses[v].request) = uses[v].plan
<1> DEFINE s == Scope(v)
<1>1. s \in Scopes /\ M!TypeOK /\ M!ControlConsistent /\ LockedScope /\ ScopeFollows(v)
  BY UseAssumption DEF Scope, ClientInv
<1>2. ~HolderStep
  BY <1>1, HolderScopes, ScopesTyped
<1>3. ~(OtherClients \/ UNCHANGED vars)
  BY OthersKeepScopes
<1>4. UseStep(v)
  BY <1>2, <1>3, UseKeepsScopes DEF ControllerNext, ControllerVars
<1>5. Stage(v) = "entering" /\ scopes[s].versioned
  BY <1>1, UseRecordTyped DEF ScopeFollows, ClientInv, UseRecord, Stages, Stage
<1>6. EnterScope(s)
  <2>1. scopes \in [Scopes -> [state : ScopeStates, plan : ResidencyPlan \cup {NoPlan}, versioned : BOOLEAN]]
    BY <1>1, ScopesTyped
  <2>2. ~RefuseScope(s) /\ ~RejectScope(s)
    BY <1>1, <2>1 DEF RefuseScope, RejectScope
  <2>3. EnterUse(v)
    BY <1>4, <1>5
    DEF UseStep, Decide, Explain, MakeScope, DecideRejected, EnterUse, Entered, NotEntered, Borrow,
        BorrowFails, Borrowed, Leave, ReturnLease, LeaseGone, LeaseRejected, LeaveScope, Unwinding, vars
  <2> QED BY <2>2, <2>3 DEF EnterUse
<1>7. Open /\ s \in ReapedFresh
  BY <1>5, <1>6 DEF EnterScope, Admitted, Begin
<1>8. Finished = {} /\ s \in fresh
  BY <1>7 DEF ReapedFresh
<1>9. ValidRequest(uses[v].request) /\ Answers(uses[v].plan, uses[v].request, M!Planned, Held)
  BY <1>5, <1>8 DEF DecisionsHold, DecisionHolds, Waiting
<1>10. M!Planned = Simulation /\ Held = ProtectedPairs
  BY <1>7, <1>8, PlannedWhenFree, HeldPairs DEF Open
<1> QED BY <1>9, <1>10 DEF Answers, Outcome, Search

LEMMA DecisionInit == ControllerInit => NewIsStale /\ DecisionsHold
<1> SUFFICES ASSUME ControllerInit PROVE NewIsStale /\ DecisionsHold
  OBVIOUS
<1>1. fresh = {}
  BY DEF ControllerInit, Init
<1> QED BY <1>1 DEF NewIsStale, DecisionsHold, DecisionHolds

LEMMA ExactInvariance == ControllerSpec => []ExactNow
<1>1. M!Spec => []M!BytesExact
  BY M!BytesInvariance, NoneAssumption, LocationAssumption, SpecAssumption, TokenAssumption, SameVocabulary
<1>2. ClientInv => M!TypeOK
  BY DEF ClientInv
<1> QED BY <1>1, <1>2, ControllerIsAClient, ClientInvariance, PTL DEF ExactNow

LEMMA DecisionInvariance == ControllerSpec => [](NewIsStale /\ DecisionsHold)
<1>1. ControllerInit => NewIsStale /\ DecisionsHold
  BY DecisionInit
<1>2. /\ ClientInv /\ StacksFollow /\ NewIsStale /\ DecisionsHold /\ ExactNow /\ ExactNow'
      /\ [ControllerNext]_ControllerVars
      => (NewIsStale /\ DecisionsHold)'
  BY DecisionStep
<1> QED BY <1>1, <1>2, ClientInvariance, ExactInvariance, PTL DEF ControllerSpec

\* No change of placement, ownership or lifetime leaves a decided version
\* current, whichever of the controller's own calls makes it (manager.py
\* _bump_state_locked, controller.py __enter__).
THEOREM ControllerVersionsTrackState == ControllerSpec => VersionTracksState
<1>1. ClientInv /\ NewIsStale /\ [ControllerNext]_ControllerVars
      => [Versioned' # Versioned => fresh \cap fresh' = {}]_vars
  BY ControllerVersion
<1> QED BY <1>1, ClientInvariance, DecisionInvariance, PTL DEF ControllerSpec, VersionTracksState

\* A plan that starts is one the search gives on the very state it starts from:
\* deciding again there, for the same request, would find it (controller.py
\* __enter__ passes the version of the decision on to the scope).
THEOREM PlansStartFresh == ControllerSpec => PlansStartWhereDecided
<1>1. ClientInv /\ StacksFollow /\ DecisionsHold /\ [ControllerNext]_ControllerVars
      => [\A u \in Uses :
            scopes[Scope(u)].state = "new" /\ scopes'[Scope(u)].state = "entering"
                => /\ ValidRequest(uses[u].request)
                   /\ \E order \in Rankings :
                        DecidedPlan(Outcome(uses[u].request, order), uses[u].request) = uses[u].plan
         ]_ControllerVars
  BY StartsCurrent
<1> QED BY <1>1, ClientInvariance, DecisionInvariance, PTL DEF ControllerSpec, PlansStartWhereDecided

-----------------------------------------------------------------------------
(* A decided plan and the preflight                                        *)

Known == {v \in Values : records[v] = "live"}

\* What the search starts from at rest.
LEMMA SimulationMirrors ==
    ASSUME ClientInv, NeverLost
    PROVE  Mirrors(Simulation, Planning(Simulation), Known) /\ Known \subseteq Live
<1>1. /\ materializations \in [Values -> SUBSET Locations]
      /\ used_bytes \in [Locations -> Int] /\ reserved_bytes \in [Locations -> Int]
  BY DEF ClientInv, M!TypeOK, M!PlacementTyped, M!HeadroomTyped
<1>2. [l \in Locations |-> used_bytes[l] + reserved_bytes[l]] \in [Locations -> Int]
  BY <1>1
<1>3. {v \in Values : records[v] = "discarded"} \in SUBSET Values
  OBVIOUS
<1>4. Simulation \in SimulationRecord
  BY <1>1, <1>2, <1>3 DEF Simulation, SimulationRecord
<1>5. /\ Simulation.locations = materializations /\ Simulation.feasible
      /\ Simulation.discarded = {v \in Values : records[v] = "discarded"}
  BY DEF Simulation
<1>6. /\ Simulation.locations = Planning(Simulation).locations
      /\ Simulation.used = Planning(Simulation).used
      /\ Simulation.reserved = Planning(Simulation).reserved
  BY DEF Planning
<1>7. Simulation.discarded \cap Known = {}
  BY <1>5 DEF Known
<1>8. \A v \in Values : Simulation.locations[v] # {} => v \in Known
  BY <1>5 DEF NeverLost, Known
<1>9. \A v \in Values : v \in Known => Simulation.locations[v] # {} \/ Reconstructible(v)
  BY <1>5 DEF NeverLost, Known
<1>10. Known \subseteq Live
  BY DEF Known, Live
<1> HIDE DEF Known
<1> QED BY <1>4, <1>5, <1>6, <1>7, <1>8, <1>9, <1>10 DEF Mirrors

LEMMA AnswersPass ==
    ASSUME ClientInv, NeverLost, NEW request \in ResidencyRequest, ValidRequest(request), NEW plan,
           Answers(plan, request, Simulation, ProtectedPairs)
    PROVE  Predicted(plan).feasible \/ MovesProtected(plan)
<1>1. PICK order \in Rankings :
        /\ Search(request, order, Simulation, ProtectedPairs).verdict = "plan"
        /\ plan = DecidedPlan(Search(request, order, Simulation, ProtectedPairs), request)
  BY DEF Answers
<1> DEFINE ctx == [request |-> request, order |-> order, protected |-> ProtectedPairs]
           found == SearchRequest(Simulation, ctx)
<1>2. ctx \in SearchContext
  <2>1. order \in Seq(Values) /\ ProtectedPairs \in SUBSET (Values \X Locations)
    BY UseAssumption DEF ProtectedPairs
  <2>2. request \in [requirements : Seq([handle : Values, location : Locations]),
                     reservations : Seq(MemoryReservation)]
    BY DEF ResidencyRequest
  <2> QED BY <2>1, <2>2 DEF SearchContext
<1>3. ctx.request = request /\ ctx.protected = ProtectedPairs
  OBVIOUS
<1>4. found.verdict = "plan" /\ plan = DecidedPlan(found, request)
  BY <1>1 DEF Search
<1>5. Mirrors(Simulation, Planning(Simulation), Known) /\ Known \subseteq Live
  BY SimulationMirrors
<1>6. \A n \in DOMAIN request.requirements : request.requirements[n].handle \in Known
  <2>1. ASSUME NEW n \in DOMAIN request.requirements
        PROVE  request.requirements[n].handle \in Known
    <3>1. request.requirements[n] \in [handle : Values, location : Locations]
      <4>1. request.requirements \in Seq([handle : Values, location : Locations])
        BY DEF ResidencyRequest
      <4>2. ASSUME NEW S, NEW s \in Seq(S), NEW m \in DOMAIN s PROVE s[m] \in S
        BY <4>2
      <4> QED BY <4>1, <4>2
    <3>2. records[request.requirements[n].handle] = "live"
      BY DEF ValidRequest
    <3> QED BY <3>1, <3>2 DEF Known
  <2> QED BY <2>1
<1>7. Simulation \in SimulationRecord
  BY <1>5 DEF Mirrors
<1> HIDE DEF ctx
<1>8. /\ plan \in ResidencyPlan
      /\ \/ InUse(found.enter, ProtectedPairs)
         \/ ExplainPlan(Simulation, plan, Known, ProtectedPairs).feasible
  BY <1>2, <1>3, <1>4, <1>5, <1>6, SearchPasses
<1>9. plan.enter = found.enter
  BY <1>4 DEF DecidedPlan
<1>10. CASE InUse(found.enter, ProtectedPairs)
  BY <1>9, <1>10 DEF InUse, MovesProtected
<1>11. CASE ExplainPlan(Simulation, plan, Known, ProtectedPairs).feasible
  <2>1. ExplainPlan(Simulation, plan, Live, ProtectedPairs).feasible
    BY <1>5, <1>7, <1>8, <1>11, PlanMoreKnown
  <2> QED BY <2>1 DEF Predicted
<1> QED BY <1>8, <1>10, <1>11

LEMMA DecisionsPass ==
    ASSUME ClientInv, DecisionsHold, NeverLost
    PROVE  SearchAgreesWithPreflight
<1> SUFFICES ASSUME NEW u \in Uses, Stage(u) = "decided", LockFree, CurrentDecision(u)
             PROVE  Predicted(uses[u].plan).feasible \/ MovesProtected(uses[u].plan)
  BY DEF SearchAgreesWithPreflight
<1>1. Finished = {} /\ Scope(u) \in fresh
  BY DEF CurrentDecision, ReapedFresh
<1>2. ValidRequest(uses[u].request) /\ Answers(uses[u].plan, uses[u].request, M!Planned, Held)
  BY <1>1 DEF DecisionsHold, DecisionHolds, Waiting
<1>3. M!Planned = Simulation /\ Held = ProtectedPairs
  BY <1>1, PlannedWhenFree, HeldPairs
<1>4. uses[u].request \in ResidencyRequest
  BY UseRecordTyped DEF ClientInv
<1> QED BY <1>2, <1>3, <1>4, AnswersPass

\* As long as its version is current, a decided plan passes the preflight of the
\* manager unless it moves a replica in use: the arithmetic of the search agrees
\* with that of the manager, drop by drop and move by move (controller.py
\* _search_request_plan, manager.py _explain_actions_locked).
THEOREM DecisionsPassPreflight == ControllerSpec => []SearchAgreesWithPreflight
<1>1. ClientInv /\ DecisionsHold /\ NeverLost => SearchAgreesWithPreflight
  BY DecisionsPass
<1> QED BY <1>1, ClientInvariance, DecisionInvariance, PromisesKept, PTL
=============================================================================
