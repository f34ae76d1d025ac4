------------------------ MODULE ResidencyPlannerProofs ------------------------
(***************************************************************************)
(* The search of ResidencyController.decide and the dry run of the manager *)
(* agree, for any request, any ranking of the values and any placement.    *)
(*                                                                         *)
(* The search simulates with arithmetic of its own.  The placement at each *)
(* node it reaches is the one the preflight comes to after the actions     *)
(* chosen so far (Reaches), by induction over the nodes in the order in    *)
(* which the search tries them (Nearer).  Its recursion is well founded:   *)
(* a node only leads to nodes that are deeper, or as deep with a shorter   *)
(* list of goals.                                                          *)
(***************************************************************************)
EXTENDS ResidencyManagerProofs, ResidencyPlanner

-----------------------------------------------------------------------------
(* The search.  Its folds are all of one shape: a run combines what it has *)
(* with the next element, and how says which combination is meant.         *)

Combine(how, x, y) ==
    CASE how[1] = "keep"    -> IF y \in how[2] THEN Append(x, y) ELSE x
      [] how[1] = "options" -> x \o Reclaim(how[2], y, how[3], how[4], how[5], how[6])
      [] how[1] = "first"   -> IF x # Exhausted THEN x
                               ELSE how[2][Node(y.at, y.goals \o how[3].goals, how[3].depth + 1)]
      [] how[1] = "reserve" -> SimulateReservation(x, y)
      [] how[1] = "require" -> SimulateRequirement(x, y)
      [] how[1] = "admit"   -> AdmitReservation(x, y)

CombineLast(f, how, base, q, s) ==
    IF s = {} THEN base ELSE Combine(how, f[s \ {Last(s)}], q[Last(s)])

Combines(f, how, base, q) == f = [s \in SUBSET (DOMAIN q) |-> CombineLast(f, how, base, q, s)]

IsRun(v, how, base, q, n) ==
    v[0] = base /\ \A k \in 0 .. n - 1 : v[k + 1] = Combine(how, v[k], q[k + 1])

Runs(result, how, base, q) ==
    \E v : IsRun(v, how, base, q, Len(q)) /\ v[Len(q)] = result

LEMMA CombinesExists ==
    ASSUME NEW how, NEW base, NEW q, NEW n \in Nat, DOMAIN q = 1..n
    PROVE  \E f : Combines(f, how, base, q)
<1> DEFINE Upto(k) == \E f : /\ f = [s \in SUBSET (1..n) |-> f[s]]
                             /\ \A s \in SUBSET (1..n) :
                                  s \subseteq 1..k => f[s] = CombineLast(f, how, base, q, s)
           S == {k \in Nat : Upto(k)}
<1>1. 0 \in S
  <2> DEFINE f == [s \in SUBSET (1..n) |-> base]
  <2>1. \A s \in SUBSET (1..n) : s \subseteq 1..0 => f[s] = CombineLast(f, how, base, q, s)
    BY DEF CombineLast
  <2>2. f = [s \in SUBSET (1..n) |-> f[s]]
    OBVIOUS
  <2> HIDE DEF f
  <2> QED
    BY <2>1, <2>2
<1>2. ASSUME NEW k \in Nat, k \in S PROVE k + 1 \in S
  <2>1. PICK f : /\ f = [s \in SUBSET (1..n) |-> f[s]]
                 /\ \A s \in SUBSET (1..n) :
                      s \subseteq 1..k => f[s] = CombineLast(f, how, base, q, s)
    BY <1>2
  <2> DEFINE g == [s \in SUBSET (1..n) |-> CombineLast(f, how, base, q, s)]
  <2>2. \A s \in SUBSET (1..n) : s \subseteq 1..k => g[s] = f[s]
    BY <2>1
  <2>3. ASSUME NEW s \in SUBSET (1..n), s \subseteq 1..(k + 1)
        PROVE  g[s] = CombineLast(g, how, base, q, s)
    <3>1. CASE s = {}
      BY <3>1 DEF CombineLast
    <3>2. CASE s # {}
      <4>1. Last(s) \in s /\ \A m \in s : m <= Last(s)
        BY <3>2, LastIsGreatest
      <4>2. s \ {Last(s)} \in SUBSET (1..n) /\ s \ {Last(s)} \subseteq 1..k
        <5>1. Last(s) \in 1..(k + 1)
          BY <2>3, <4>1
        <5>2. \A m \in s : m \in 1..(k + 1) /\ (m # Last(s) => m \in 1..k)
          BY <2>3, <4>1, <5>1
        <5> QED
          BY <5>2
      <4>3. g[s \ {Last(s)}] = f[s \ {Last(s)}]
        BY <2>2, <4>2
      <4> HIDE DEF g
      <4>4. CombineLast(g, how, base, q, s) = CombineLast(f, how, base, q, s)
        BY <4>3 DEF CombineLast
      <4> QED
        BY <4>4 DEF g
    <3> QED
      BY <3>1, <3>2
  <2>4. g = [s \in SUBSET (1..n) |-> g[s]]
    OBVIOUS
  <2> HIDE DEF g
  <2>5. Upto(k + 1)
    BY <2>3, <2>4
  <2> HIDE DEF Upto
  <2> QED
    BY <2>5
<1>3. n \in S
  <2> HIDE DEF S
  <2> QED
    BY <1>1, <1>2, InductionOnNat
<1>4. PICK f : /\ f = [s \in SUBSET (1..n) |-> f[s]]
               /\ \A s \in SUBSET (1..n) :
                    s \subseteq 1..n => f[s] = CombineLast(f, how, base, q, s)
  BY <1>3
<1>5. f = [s \in SUBSET (1..n) |-> CombineLast(f, how, base, q, s)]
  BY <1>4
<1> QED
  BY <1>5 DEF Combines

\* What a fold has combined after its first k elements.
LEMMA CombinesRuns ==
    ASSUME NEW how, NEW base, NEW A, NEW q \in Seq(A), NEW f, Combines(f, how, base, q)
    PROVE  Runs(f[DOMAIN q], how, base, q)
<1> DEFINE n == Len(q)
           v == [k \in 0 .. n |-> f[1..k]]
<1>0. n \in Nat /\ DOMAIN q = 1..n
  BY LenProperties
<1> HIDE DEF n
<1>1. \A s \in SUBSET (DOMAIN q) : f[s] = CombineLast(f, how, base, q, s)
  BY DEF Combines
<1>2. v[0] = base
  <2>1. 1..0 = {} /\ 1..0 \in SUBSET (DOMAIN q) /\ v[0] = f[1..0]
    BY <1>0
  <2> QED
    BY <1>1, <2>1 DEF CombineLast
<1>3. ASSUME NEW k \in 0 .. n - 1 PROVE v[k + 1] = Combine(how, v[k], q[k + 1])
  <2> DEFINE s == 1..(k + 1)
  <2>1. k + 1 \in Nat /\ k + 1 \in s /\ s \in SUBSET (1..n) /\ s \ {k + 1} = 1..k
        /\ v[k + 1] = f[s] /\ v[k] = f[1..k] /\ s \in SUBSET (1..(k + 1))
    BY <1>0, <1>3
  <2>2. \A m \in s : m \in Nat /\ m <= k + 1
    OBVIOUS
  <2> HIDE DEF s, v
  <2>3. Last(s) \in s /\ \A m \in s : m <= Last(s)
    BY <2>1, LastIsGreatest
  <2>4. Last(s) = k + 1
    BY <2>1, <2>2, <2>3
  <2>5. f[s] = Combine(how, f[s \ {k + 1}], q[k + 1])
    BY <1>0, <1>1, <2>1, <2>4 DEF CombineLast
  <2> QED
    BY <2>1, <2>5
<1>4. v[n] = f[DOMAIN q]
  BY <1>0
<1> HIDE DEF v
<1>5. IsRun(v, how, base, q, Len(q)) /\ v[Len(q)] = f[DOMAIN q]
  BY <1>2, <1>3, <1>4 DEF IsRun, n
<1> QED
  BY <1>5 DEF Runs

\* What is kept by every combination holds of the result.
LEMMA RunStays ==
    ASSUME NEW how, NEW base, NEW A, NEW q \in Seq(A), NEW result, Runs(result, how, base, q),
           NEW G, base \in G, \A x \in G : \A y \in A : Combine(how, x, y) \in G
    PROVE  result \in G
<1>1. PICK v : IsRun(v, how, base, q, Len(q)) /\ v[Len(q)] = result
  BY DEF Runs
<1> DEFINE n == Len(q)
           S == {k \in Nat : k <= n => v[k] \in G}
<1>2. n \in Nat /\ \A k \in 1..n : q[k] \in A
  BY LenProperties
<1> HIDE DEF n
<1>3. 0 \in S
  BY <1>1 DEF IsRun
<1>4. ASSUME NEW k \in Nat, k \in S PROVE k + 1 \in S
  <2> SUFFICES ASSUME k + 1 <= n PROVE v[k + 1] \in G
    OBVIOUS
  <2>1. k \in 0 .. n - 1 /\ k + 1 \in 1 .. n /\ v[k] \in G
    BY <1>2, <1>4
  <2> QED
    BY <1>1, <1>2, <2>1 DEF IsRun, n
<1>5. n \in S
  <2> HIDE DEF S
  <2> QED
    BY <1>2, <1>3, <1>4, InductionOnNat
<1> QED
  BY <1>1, <1>2, <1>5 DEF n

\* Two runs over the same list stay related.
LEMMA RunsStayRelated ==
    ASSUME NEW how, NEW base, NEW how2, NEW base2, NEW A, NEW q \in Seq(A),
           NEW result, Runs(result, how, base, q),
           NEW result2, Runs(result2, how2, base2, q),
           NEW G, <<base, base2>> \in G,
           \A x, x2 : <<x, x2>> \in G => \A y \in A : <<Combine(how, x, y), Combine(how2, x2, y)>> \in G
    PROVE  <<result, result2>> \in G
<1>1. PICK v : IsRun(v, how, base, q, Len(q)) /\ v[Len(q)] = result
  BY DEF Runs
<1>2. PICK w : IsRun(w, how2, base2, q, Len(q)) /\ w[Len(q)] = result2
  BY DEF Runs
<1> DEFINE n == Len(q)
           S == {k \in Nat : k <= n => <<v[k], w[k]>> \in G}
<1>3. n \in Nat /\ \A k \in 1..n : q[k] \in A
  BY LenProperties
<1> HIDE DEF n
<1>4. 0 \in S
  BY <1>1, <1>2 DEF IsRun
<1>5. ASSUME NEW k \in Nat, k \in S PROVE k + 1 \in S
  <2> SUFFICES ASSUME k + 1 <= n PROVE <<v[k + 1], w[k + 1]>> \in G
    OBVIOUS
  <2>1. k \in 0 .. n - 1 /\ k + 1 \in 1 .. n /\ <<v[k], w[k]>> \in G /\ q[k + 1] \in A
    BY <1>3, <1>5
  <2>2. v[k + 1] = Combine(how, v[k], q[k + 1]) /\ w[k + 1] = Combine(how2, w[k], q[k + 1])
    BY <1>1, <1>2, <2>1 DEF IsRun, n
  <2> QED
    BY <2>1, <2>2
<1>6. n \in S
  <2> HIDE DEF S
  <2> QED
    BY <1>3, <1>4, <1>5, InductionOnNat
<1> QED
  BY <1>1, <1>2, <1>3, <1>6 DEF n

\* Every fold of the search is such a run.
LEMMA KeepRuns ==
    ASSUME NEW A, NEW q \in Seq(A), NEW S
    PROVE  Runs(Keep(q, S), <<"keep", S>>, <<>>, q)
<1> DEFINE how == <<"keep", S>>
           Body(f) == [s \in SUBSET (DOMAIN q) |->
                         IF s = {} THEN <<>>
                         ELSE IF q[Last(s)] \in S THEN Append(f[s \ {Last(s)}], q[Last(s)]) ELSE f[s \ {Last(s)}]]
           E(f) == f = Body(f)
           g == CHOOSE f : E(f)
<1>1. Len(q) \in Nat /\ DOMAIN q = 1..Len(q)
  BY LenProperties
<1>2. ASSUME NEW f PROVE Combines(f, how, <<>>, q) <=> E(f)
  <2>1. \A s \in SUBSET (DOMAIN q) : CombineLast(f, how, <<>>, q, s) = Body(f)[s]
    BY DEF CombineLast, Combine
  <2>2. Body(f) = [s \in SUBSET (DOMAIN q) |-> Body(f)[s]]
    OBVIOUS
  <2> HIDE DEF Body
  <2>3. [s \in SUBSET (DOMAIN q) |-> CombineLast(f, how, <<>>, q, s)] = Body(f)
    BY <2>1, <2>2
  <2> QED
    BY <2>3 DEF Combines
<1>3. Keep(q, S) = g[DOMAIN q]
  BY DEF Keep, Ext!FoldLeft, Ext!MapThenFoldSet, Last
<1> HIDE DEF E, how
<1>4. PICK f : Combines(f, how, <<>>, q)
  BY <1>1, CombinesExists
<1>5. E(g)
  BY <1>2, <1>4
<1>6. Combines(g, how, <<>>, q)
  BY <1>2, <1>5
<1>7. Runs(g[DOMAIN q], how, <<>>, q)
  BY <1>6, CombinesRuns
<1> QED
  BY <1>3, <1>7 DEF how

LEMMA OptionsRun ==
    ASSUME NEW A, NEW p, NEW l, NEW blocked, NEW active, NEW ctx,
           NEW q \in Seq(A), q = Candidates(p, l, blocked, ctx)
    PROVE  Runs(Options(p, l, blocked, active, ctx), <<"options", p, l, blocked, active, ctx>>, <<>>, q)
<1> DEFINE how == <<"options", p, l, blocked, active, ctx>>
           Body(f) == [s \in SUBSET (DOMAIN q) |->
                         IF s = {} THEN <<>>
                         ELSE f[s \ {Last(s)}] \o Reclaim(p, q[Last(s)], l, blocked, active, ctx)]
           E(f) == f = Body(f)
           g == CHOOSE f : E(f)
<1>1. Len(q) \in Nat /\ DOMAIN q = 1..Len(q)
  BY LenProperties
<1>2. ASSUME NEW f PROVE Combines(f, how, <<>>, q) <=> E(f)
  <2>1. \A s \in SUBSET (DOMAIN q) : CombineLast(f, how, <<>>, q, s) = Body(f)[s]
    BY DEF CombineLast, Combine
  <2>2. Body(f) = [s \in SUBSET (DOMAIN q) |-> Body(f)[s]]
    OBVIOUS
  <2> HIDE DEF Body
  <2>3. [s \in SUBSET (DOMAIN q) |-> CombineLast(f, how, <<>>, q, s)] = Body(f)
    BY <2>1, <2>2
  <2> QED
    BY <2>3 DEF Combines
<1>3. Options(p, l, blocked, active, ctx) = g[DOMAIN q]
  BY DEF Options, Ext!FoldLeft, Ext!MapThenFoldSet, Last
<1> HIDE DEF E, how
<1>4. PICK f : Combines(f, how, <<>>, q)
  BY <1>1, CombinesExists
<1>5. E(g)
  BY <1>2, <1>4
<1>6. Combines(g, how, <<>>, q)
  BY <1>2, <1>5
<1>7. Runs(g[DOMAIN q], how, <<>>, q)
  BY <1>6, CombinesRuns
<1> QED
  BY <1>3, <1>7 DEF how

LEMMA FirstRuns ==
    ASSUME NEW A, NEW try, NEW q \in Seq(A), NEW x
    PROVE  Runs(FirstOf(try, q, x), <<"first", try, x>>, Exhausted, q)
<1> DEFINE how == <<"first", try, x>>
           Body(f) == [s \in SUBSET (DOMAIN q) |->
                         IF s = {} THEN Exhausted
                         ELSE IF f[s \ {Last(s)}] # Exhausted THEN f[s \ {Last(s)}]
                              ELSE try[Node(q[Last(s)].at, q[Last(s)].goals \o x.goals, x.depth + 1)]]
           E(f) == f = Body(f)
           g == CHOOSE f : E(f)
<1>1. Len(q) \in Nat /\ DOMAIN q = 1..Len(q)
  BY LenProperties
<1>2. ASSUME NEW f PROVE Combines(f, how, Exhausted, q) <=> E(f)
  <2>1. \A s \in SUBSET (DOMAIN q) : CombineLast(f, how, Exhausted, q, s) = Body(f)[s]
    BY DEF CombineLast, Combine
  <2>2. Body(f) = [s \in SUBSET (DOMAIN q) |-> Body(f)[s]]
    OBVIOUS
  <2> HIDE DEF Body
  <2>3. [s \in SUBSET (DOMAIN q) |-> CombineLast(f, how, Exhausted, q, s)] = Body(f)
    BY <2>1, <2>2
  <2> QED
    BY <2>3 DEF Combines
<1>3. FirstOf(try, q, x) = g[DOMAIN q]
  BY DEF FirstOf, Ext!FoldLeft, Ext!MapThenFoldSet, Last
<1> HIDE DEF E, how
<1>4. PICK f : Combines(f, how, Exhausted, q)
  BY <1>1, CombinesExists
<1>5. E(g)
  BY <1>2, <1>4
<1>6. Combines(g, how, Exhausted, q)
  BY <1>2, <1>5
<1>7. Runs(g[DOMAIN q], how, Exhausted, q)
  BY <1>6, CombinesRuns
<1> QED
  BY <1>3, <1>7 DEF how

LEMMA ReserveRuns ==
    ASSUME NEW A, NEW q \in Seq(A), NEW x
    PROVE  Runs(Ext!FoldLeft(SimulateReservation, x, q), <<"reserve">>, x, q)
<1> DEFINE how == <<"reserve">>
           Body(f) == [s \in SUBSET (DOMAIN q) |->
                         IF s = {} THEN x
                         ELSE SimulateReservation(f[s \ {Last(s)}], q[Last(s)])]
           E(f) == f = Body(f)
           g == CHOOSE f : E(f)
<1>1. Len(q) \in Nat /\ DOMAIN q = 1..Len(q)
  BY LenProperties
<1>2. ASSUME NEW f PROVE Combines(f, how, x, q) <=> E(f)
  <2>1. \A s \in SUBSET (DOMAIN q) : CombineLast(f, how, x, q, s) = Body(f)[s]
    BY DEF CombineLast, Combine
  <2>2. Body(f) = [s \in SUBSET (DOMAIN q) |-> Body(f)[s]]
    OBVIOUS
  <2> HIDE DEF Body
  <2>3. [s \in SUBSET (DOMAIN q) |-> CombineLast(f, how, x, q, s)] = Body(f)
    BY <2>1, <2>2
  <2> QED
    BY <2>3 DEF Combines
<1>3. Ext!FoldLeft(SimulateReservation, x, q) = g[DOMAIN q]
  BY DEF Ext!FoldLeft, Ext!MapThenFoldSet, Last
<1> HIDE DEF E, how
<1>4. PICK f : Combines(f, how, x, q)
  BY <1>1, CombinesExists
<1>5. E(g)
  BY <1>2, <1>4
<1>6. Combines(g, how, x, q)
  BY <1>2, <1>5
<1>7. Runs(g[DOMAIN q], how, x, q)
  BY <1>6, CombinesRuns
<1> QED
  BY <1>3, <1>7 DEF how

LEMMA RequireRuns ==
    ASSUME NEW A, NEW q \in Seq(A), NEW x
    PROVE  Runs(Ext!FoldLeft(SimulateRequirement, x, q), <<"require">>, x, q)
<1> DEFINE how == <<"require">>
           Body(f) == [s \in SUBSET (DOMAIN q) |->
                         IF s = {} THEN x
                         ELSE SimulateRequirement(f[s \ {Last(s)}], q[Last(s)])]
           E(f) == f = Body(f)
           g == CHOOSE f : E(f)
<1>1. Len(q) \in Nat /\ DOMAIN q = 1..Len(q)
  BY LenProperties
<1>2. ASSUME NEW f PROVE Combines(f, how, x, q) <=> E(f)
  <2>1. \A s \in SUBSET (DOMAIN q) : CombineLast(f, how, x, q, s) = Body(f)[s]
    BY DEF CombineLast, Combine
  <2>2. Body(f) = [s \in SUBSET (DOMAIN q) |-> Body(f)[s]]
    OBVIOUS
  <2> HIDE DEF Body
  <2>3. [s \in SUBSET (DOMAIN q) |-> CombineLast(f, how, x, q, s)] = Body(f)
    BY <2>1, <2>2
  <2> QED
    BY <2>3 DEF Combines
<1>3. Ext!FoldLeft(SimulateRequirement, x, q) = g[DOMAIN q]
  BY DEF Ext!FoldLeft, Ext!MapThenFoldSet, Last
<1> HIDE DEF E, how
<1>4. PICK f : Combines(f, how, x, q)
  BY <1>1, CombinesExists
<1>5. E(g)
  BY <1>2, <1>4
<1>6. Combines(g, how, x, q)
  BY <1>2, <1>5
<1>7. Runs(g[DOMAIN q], how, x, q)
  BY <1>6, CombinesRuns
<1> QED
  BY <1>3, <1>7 DEF how

LEMMA AdmitRuns ==
    ASSUME NEW A, NEW q \in Seq(A), NEW x
    PROVE  Runs(Ext!FoldLeft(AdmitReservation, x, q), <<"admit">>, x, q)
<1> DEFINE how == <<"admit">>
           Body(f) == [s \in SUBSET (DOMAIN q) |->
                         IF s = {} THEN x
                         ELSE AdmitReservation(f[s \ {Last(s)}], q[Last(s)])]
           E(f) == f = Body(f)
           g == CHOOSE f : E(f)
<1>1. Len(q) \in Nat /\ DOMAIN q = 1..Len(q)
  BY LenProperties
<1>2. ASSUME NEW f PROVE Combines(f, how, x, q) <=> E(f)
  <2>1. \A s \in SUBSET (DOMAIN q) : CombineLast(f, how, x, q, s) = Body(f)[s]
    BY DEF CombineLast, Combine
  <2>2. Body(f) = [s \in SUBSET (DOMAIN q) |-> Body(f)[s]]
    OBVIOUS
  <2> HIDE DEF Body
  <2>3. [s \in SUBSET (DOMAIN q) |-> CombineLast(f, how, x, q, s)] = Body(f)
    BY <2>1, <2>2
  <2> QED
    BY <2>3 DEF Combines
<1>3. Ext!FoldLeft(AdmitReservation, x, q) = g[DOMAIN q]
  BY DEF Ext!FoldLeft, Ext!MapThenFoldSet, Last
<1> HIDE DEF E, how
<1>4. PICK f : Combines(f, how, x, q)
  BY <1>1, CombinesExists
<1>5. E(g)
  BY <1>2, <1>4
<1>6. Combines(g, how, x, q)
  BY <1>2, <1>5
<1>7. Runs(g[DOMAIN q], how, x, q)
  BY <1>6, CombinesRuns
<1> QED
  BY <1>3, <1>7 DEF how

-----------------------------------------------------------------------------
(* Victims and destinations *)

\* What the search is given: a request and a ranking of the values.
SearchContext ==
    [request : [requirements : Seq([handle : Values, location : Locations]),
                reservations : Seq(MemoryReservation)],
     order : Seq(Values), protected : SUBSET (Values \X Locations)]

LEMMA KeepStays ==
    ASSUME NEW A, NEW q \in Seq(A), NEW S
    PROVE  Keep(q, S) \in Seq(A \cap S)
<1> DEFINE how == <<"keep", S>>
           G == Seq(A \cap S)
<1>1. Runs(Keep(q, S), how, <<>>, q)
  BY KeepRuns
<1>2. <<>> \in G
  BY EmptySeq
<1>3. ASSUME NEW x \in G, NEW y \in A PROVE Combine(how, x, y) \in G
  <2>1. Combine(how, x, y) = IF y \in S THEN Append(x, y) ELSE x
    BY DEF Combine
  <2>2. y \in S => Append(x, y) \in G
    OBVIOUS
  <2> QED
    BY <2>1, <2>2
<1> DEFINE none == <<>>
<1>4. Runs(Keep(q, S), how, none, q) /\ none \in G
  BY <1>1, <1>2
<1> HIDE DEF how, G, none
<1>5. Keep(q, S) \in G
  BY <1>3, <1>4, RunStays
<1> QED
  BY <1>5 DEF G

\* The replicas at l that a reclaim may touch.
Eligible(p, l, blocked, ctx) ==
    {v \in Values : l \in p.locations[v] /\ v \notin blocked /\ <<v, l>> \notin ctx.protected}

LEMMA CandidatesAreEligible ==
    ASSUME NEW ctx \in SearchContext, NEW p, NEW l, NEW blocked
    PROVE  Candidates(p, l, blocked, ctx) \in Seq(Eligible(p, l, blocked, ctx))
<1> DEFINE E == Eligible(p, l, blocked, ctx)
           R == {v \in E : <<v, l>> \in Endpoints(ctx)}
           s == Keep(ctx.order, E \ R)
           t == Keep(ctx.order, R)
<1>1. Candidates(p, l, blocked, ctx) = s \o t
  BY DEF Candidates, Eligible
<1>2. ctx.order \in Seq(Values)
  BY DEF SearchContext
<1>3. R \subseteq E
  OBVIOUS
<1> HIDE DEF E, R
<1>4. s \in Seq(Values \cap (E \ R)) /\ t \in Seq(Values \cap R)
  BY <1>2, KeepStays
<1>5. Values \cap (E \ R) \subseteq E /\ Values \cap R \subseteq E
  BY <1>3
<1>6. s \in Seq(E) /\ t \in Seq(E)
  BY <1>4, <1>5, SeqMonotonic
<1> HIDE DEF s, t
<1>7. s \o t \in Seq(E)
  BY <1>6, ConcatProperties
<1> QED
  BY <1>1, <1>7 DEF E

EarlierIn(W, m) == Cardinality({k \in W : Rank[k] < Rank[m]})

\* The ranks order the locations: the k-th of a finite set of them exists.
LEMMA PlaceOfRank ==
    ASSUME NEW W \in SUBSET Locations, IsFiniteSet(W), NEW k \in 1 .. Cardinality(W)
    PROVE  \E m \in W : EarlierIn(W, m) = k - 1
<1> DEFINE n == Cardinality(W)
           T == 0 .. n - 1
           f == [m \in W |-> EarlierIn(W, m)]
<1>0. \A m \in W : Rank[m] \in Nat
  BY LocationAssumption
<1>1. n \in Nat /\ n >= 1
  BY FS_CardinalityType
<1>2. IsFiniteSet(T) /\ Cardinality(T) = n
  <2>1. n - 1 \in Int /\ 0 \in Int
    BY <1>1
  <2>2. IsFiniteSet(T) /\ Cardinality(T) = IF 0 > n - 1 THEN 0 ELSE (n - 1) - 0 + 1
    BY <2>1, FS_Interval
  <2> QED
    BY <1>1, <2>2
<1>3. ASSUME NEW m \in W PROVE EarlierIn(W, m) \in T
  <2> DEFINE B == {k1 \in W : Rank[k1] < Rank[m]}
  <2>1. B \in SUBSET W /\ m \notin B
    BY <1>0
  <2>2. IsFiniteSet(B) /\ Cardinality(B) <= n /\ (n = Cardinality(B) => W = B)
    BY <2>1, FS_Subset
  <2>3. Cardinality(B) \in Nat
    BY <2>2, FS_CardinalityType
  <2>4. Cardinality(B) # n
    BY <2>1, <2>2
  <2> QED
    BY <1>1, <2>2, <2>3, <2>4 DEF EarlierIn
<1>4. ASSUME NEW r \in W, NEW s \in W, Rank[r] < Rank[s] PROVE EarlierIn(W, r) # EarlierIn(W, s)
  <2> DEFINE A == {x \in W : Rank[x] < Rank[r]}
             B == {x \in W : Rank[x] < Rank[s]}
  <2>1. A \in SUBSET B /\ r \in B /\ r \notin A
    <3>1. \A x \in W : Rank[x] < Rank[r] => Rank[x] < Rank[s]
      BY <1>0, <1>4
    <3>2. r \in B /\ r \notin A
      BY <1>0, <1>4
    <3> QED
      BY <3>1, <3>2
  <2>2. IsFiniteSet(B)
    BY FS_Subset
  <2>3. Cardinality(B) = Cardinality(A) => B = A
    BY <2>1, <2>2, FS_Subset
  <2> QED
    BY <2>1, <2>3 DEF EarlierIn
<1>5. f \in Injection(W, T)
  <2>1. f \in [W -> T]
    BY <1>3
  <2>2. ASSUME NEW r \in W, NEW s \in W, f[r] = f[s] PROVE r = s
    <3>1. ~(Rank[r] < Rank[s]) /\ ~(Rank[s] < Rank[r])
      BY <1>4, <2>2
    <3>2. Rank[r] = Rank[s]
      BY <1>0, <3>1
    <3> QED
      BY <3>2, LocationAssumption
  <2> QED
    BY <2>1, <2>2 DEF Injection, IsInjective
<1> HIDE DEF f
<1>6. f \in Surjection(W, T)
  BY <1>2, <1>5, FS_Injection
<1>7. k - 1 \in T
  BY <1>1
<1>8. PICK m \in W : f[m] = k - 1
  BY <1>6, <1>7 DEF Surjection
<1> QED
  BY <1>8 DEF f

\* A value moves to another location.
LEMMA DestinationsAreElsewhere ==
    ASSUME NEW ctx \in SearchContext, NEW v, NEW l \in Locations
    PROVE  Destinations(v, l, ctx) \in Seq(Locations \ {l})
<1> DEFINE W == {m \in Locations : <<v, m>> \in Endpoints(ctx)} \ {l}
           q == [n \in 1 .. Cardinality(W) |-> CHOOSE m \in W : EarlierIn(W, m) = n - 1]
           r == Keep(Fallback[l], Locations \ W)
           reqs == ctx.request.requirements
           F == [i \in 1 .. Len(reqs) |-> reqs[i].location]
           L == {F[i] : i \in 1 .. Len(reqs)}
<1>1. Destinations(v, l, ctx) = q \o r
  BY DEF Destinations, EarlierIn
<1>2. reqs \in Seq([handle : Values, location : Locations])
  BY DEF SearchContext
<1>3. Len(reqs) \in Nat /\ DOMAIN reqs = 1 .. Len(reqs)
  BY <1>2, LenProperties
<1>4. W \subseteq L
  <2> SUFFICES ASSUME NEW m \in W PROVE m \in L
    OBVIOUS
  <2>1. PICK i \in DOMAIN reqs : <<v, m>> = <<reqs[i].handle, reqs[i].location>>
    BY DEF Endpoints, Ext!ToSet
  <2>2. m = F[i]
    BY <1>3, <2>1
  <2> QED
    BY <1>3, <2>2
<1>5. IsFiniteSet(L)
  <2>1. F \in Surjection(1 .. Len(reqs), L)
    BY DEF Surjection
  <2>2. IsFiniteSet(1 .. Len(reqs))
    BY <1>3, FS_Interval
  <2> HIDE DEF F, L
  <2> QED
    BY <2>1, <2>2, FS_Surjection
<1>6. IsFiniteSet(W)
  <2> HIDE DEF W, L
  <2> QED
    BY <1>4, <1>5, FS_Subset
<1>7. W \subseteq Locations \ {l}
  OBVIOUS
<1> HIDE DEF W, reqs, L
<1>8. Cardinality(W) \in Nat
  BY <1>6, FS_CardinalityType
<1>9. \A n \in 1 .. Cardinality(W) : q[n] \in W
  <2> SUFFICES ASSUME NEW n \in 1 .. Cardinality(W) PROVE q[n] \in W
    OBVIOUS
  <2>1. \E m \in W : EarlierIn(W, m) = n - 1
    BY <1>6, <1>7, PlaceOfRank
  <2> QED
    BY <2>1
<1>10. q \in Seq(Locations \ {l})
  BY <1>7, <1>8, <1>9
<1>11. r \in Seq(Locations \ {l})
  <2> DEFINE D == Locations \ {l}
             fb == Fallback[l]
  <2>1. fb \in Seq(Locations) /\ \A n \in DOMAIN fb : fb[n] # l
    BY PlannerAssumption
  <2>2. DOMAIN fb = 1 .. Len(fb) /\ Len(fb) \in Nat /\ \A n \in 1 .. Len(fb) : fb[n] \in D
    BY <2>1, LenProperties
  <2>2a. fb = [n \in 1 .. Len(fb) |-> fb[n]]
    BY <2>1, LenProperties
  <2> HIDE DEF fb, D
  <2>3. fb \in Seq(D)
    BY <2>2, <2>2a
  <2>4. Keep(fb, Locations \ W) \in Seq(D \cap (Locations \ W))
    BY <2>3, KeepStays
  <2>5. Keep(fb, Locations \ W) \in Seq(D)
    <3>1. D \cap (Locations \ W) \subseteq D
      OBVIOUS
    <3> QED
      BY <2>4, <3>1, SeqMonotonic
  <2> QED
    BY <2>5 DEF fb, D
<1> HIDE DEF q, r
<1>12. q \o r \in Seq(Locations \ {l})
  BY <1>10, <1>11, ConcatProperties
<1> QED
  BY <1>1, <1>12

-----------------------------------------------------------------------------
(* Choices *)

Droppable(p, l, blocked, ctx) ==
    {v \in Eligible(p, l, blocked, ctx) : p.locations[v] # {l} \/ Reconstructible(v)}

\* Sole replicas with a place to go to.
Movable(p, l, blocked, ctx) ==
    {e \in Eligible(p, l, blocked, ctx) \X (Locations \ {l}) : p.locations[e[1]] = {l}}

ChoicesAt(p, l, blocked, active, ctx) ==
         {Dropped(p, v, l) : v \in Droppable(p, l, blocked, ctx)}
    \cup {Moved(p, e[1], l, e[2], blocked, active) : e \in Movable(p, l, blocked, ctx)}

LEMMA ReclaimIsChoices ==
    ASSUME NEW ctx \in SearchContext, NEW p, NEW l \in Locations, NEW blocked, NEW active,
           NEW v \in Eligible(p, l, blocked, ctx)
    PROVE  Reclaim(p, v, l, blocked, active, ctx) \in Seq(ChoicesAt(p, l, blocked, active, ctx))
<1> DEFINE C == ChoicesAt(p, l, blocked, active, ctx)
           alternatives == p.locations[v] \ {l}
           canDrop == alternatives # {} \/ Reconstructible(v)
           none == <<>>
           drop == IF canDrop THEN <<Dropped(p, v, l)>> ELSE none
           D == IF alternatives # {} THEN none ELSE Destinations(v, l, ctx)
           moves == [n \in 1 .. Len(D) |-> Moved(p, v, l, D[n], blocked, active)]
<1>1. Reclaim(p, v, l, blocked, active, ctx) = IF <<v, l>> \in active THEN none ELSE drop \o moves
  BY DEF Reclaim
<1>2. l \in p.locations[v]
  BY DEF Eligible
<1>3. none \in Seq(C) /\ none \in Seq(Locations \ {l}) /\ Len(none) = 0
  BY EmptySeq
<1>4. drop \in Seq(C)
  <2>1. CASE canDrop
    <3>1. v \in Droppable(p, l, blocked, ctx)
      BY <2>1 DEF Droppable
    <3> DEFINE d == Dropped(p, v, l)
    <3>2. d \in C
      BY <3>1 DEF ChoicesAt
    <3> HIDE DEF d, C
    <3>3. <<d>> \in Seq(C)
      BY <3>2
    <3> QED
      BY <2>1, <3>3 DEF d
  <2>2. CASE ~canDrop
    <3> HIDE DEF canDrop, none, C
    <3> QED
      BY <1>3, <2>2
  <2> QED
    BY <2>1, <2>2
<1>5. D \in Seq(Locations \ {l})
  <2> HIDE DEF none
  <2> QED
    BY <1>3, DestinationsAreElsewhere
<1>6. alternatives # {} => Len(D) = 0
  <2> HIDE DEF none
  <2> QED
    BY <1>3
<1>7. ASSUME NEW n \in 1 .. Len(D) PROVE moves[n] \in C
  <2>1. alternatives = {}
    <3> HIDE DEF D, alternatives
    <3> QED
      BY <1>6
  <2>2. p.locations[v] = {l}
    BY <1>2, <2>1
  <2>3. D[n] \in Locations \ {l}
    <3> HIDE DEF D
    <3> QED
      BY <1>5, ElementOfSeq
  <2>4. <<v, D[n]>> \in Movable(p, l, blocked, ctx)
    <3> HIDE DEF D
    <3> QED
      BY <2>2, <2>3 DEF Movable
  <2>5. moves[n] = Moved(p, v, l, D[n], blocked, active)
    OBVIOUS
  <2> HIDE DEF D, moves
  <2> QED
    BY <2>4, <2>5 DEF ChoicesAt
<1>8. moves \in Seq(C)
  <2>1. Len(D) \in Nat
    <3> HIDE DEF D
    <3> QED
      BY <1>5, LenProperties
  <2> HIDE DEF D, C
  <2> QED
    BY <1>7, <2>1
<1> HIDE DEF drop, moves, none, C
<1>9. drop \o moves \in Seq(C)
  BY <1>4, <1>8, ConcatProperties
<1> QED
  BY <1>1, <1>3, <1>9 DEF C

LEMMA OptionsAreChoices ==
    ASSUME NEW ctx \in SearchContext, NEW p, NEW l \in Locations, NEW blocked, NEW active
    PROVE  Options(p, l, blocked, active, ctx) \in Seq(ChoicesAt(p, l, blocked, active, ctx))
<1> DEFINE q == Candidates(p, l, blocked, ctx)
           A == Eligible(p, l, blocked, ctx)
           C == ChoicesAt(p, l, blocked, active, ctx)
           how == <<"options", p, l, blocked, active, ctx>>
           none == <<>>
           G == Seq(C)
<1>1. q \in Seq(A)
  BY CandidatesAreEligible
<1>2. none \in G
  BY EmptySeq
<1>3. ASSUME NEW x \in G, NEW y \in A PROVE Combine(how, x, y) \in G
  <2>1. Combine(how, x, y) = x \o Reclaim(p, y, l, blocked, active, ctx)
    BY DEF Combine
  <2>2. Reclaim(p, y, l, blocked, active, ctx) \in Seq(C)
    BY ReclaimIsChoices
  <2> HIDE DEF how, C
  <2> QED
    BY <2>1, <2>2, ConcatProperties
<1>4. Runs(Options(p, l, blocked, active, ctx), how, none, q)
  BY <1>1, OptionsRun
<1> HIDE DEF q, A, how, none, G
<1>5. Options(p, l, blocked, active, ctx) \in G
  BY <1>1, <1>2, <1>3, <1>4, RunStays
<1> QED
  BY <1>5 DEF G, C

-----------------------------------------------------------------------------
(* The recursion of the search is well-founded: a choice goes one level    *)
(* down and adds at most two goals, everything else removes a goal.        *)

Distance(x) == IF x.depth > MaxDepth THEN 0 ELSE 3 * (MaxDepth + 1 - x.depth) + Len(x.goals)

\* The nodes the verdict at x may depend on.
Nearer(x) == {y \in Nodes : x.depth <= MaxDepth /\ Distance(y) < Distance(x)}

LEMMA NodeTyped ==
    ASSUME NEW x \in Nodes
    PROVE  /\ x.at \in Placement /\ x.goals \in Seq(Goal) /\ x.depth \in 0 .. MaxDepth + 1
           /\ Len(x.goals) \in Nat /\ Len(x.goals) <= 2 * x.depth /\ MaxDepth \in Nat
           /\ Distance(x) \in 0 .. 5 * (MaxDepth + 1)
<1>1. /\ x.at \in Placement /\ x.goals \in Seq(Goal) /\ x.depth \in 0 .. MaxDepth + 1
      /\ Len(x.goals) <= 2 * x.depth
  BY DEF Nodes
<1>2. Len(x.goals) \in Nat
  BY <1>1, LenProperties
<1>3. MaxDepth \in Nat
  BY PlannerAssumption
<1> DEFINE n == Len(x.goals)
           d == x.depth
<1>4. n \in Nat /\ d \in 0 .. MaxDepth + 1 /\ n <= 2 * d
  BY <1>1, <1>2
<1>5. Distance(x) = IF d > MaxDepth THEN 0 ELSE 3 * (MaxDepth + 1 - d) + n
  BY DEF Distance
<1> HIDE DEF n, d
<1>6. Distance(x) \in 0 .. 5 * (MaxDepth + 1)
  BY <1>3, <1>4, <1>5
<1> QED
  BY <1>1, <1>2, <1>3, <1>6

LEMMA RestNearer ==
    ASSUME NEW x \in Nodes, x.goals # <<>>, x.depth <= MaxDepth, NEW q \in Placement
    PROVE  Node(q, Tail(x.goals), x.depth) \in Nearer(x)
<1> DEFINE y == Node(q, Tail(x.goals), x.depth)
<1>1. /\ x.goals \in Seq(Goal) /\ x.depth \in 0 .. MaxDepth + 1
      /\ Len(x.goals) \in Nat /\ Len(x.goals) <= 2 * x.depth /\ MaxDepth \in Nat
  BY NodeTyped
<1>2. Tail(x.goals) \in Seq(Goal) /\ Len(Tail(x.goals)) = Len(x.goals) - 1
  BY <1>1, HeadTailProperties
<1>3. y.at = q /\ y.goals = Tail(x.goals) /\ y.depth = x.depth
      /\ y \in [at : Placement, goals : Seq(Goal), depth : 0 .. MaxDepth + 1]
  BY <1>1, <1>2 DEF Node
<1> DEFINE n == Len(x.goals)
           d == x.depth
<1>4. /\ n \in Nat /\ d \in 0 .. MaxDepth + 1 /\ n <= 2 * d /\ d <= MaxDepth
      /\ Len(y.goals) = n - 1 /\ y.depth = d
  BY <1>1, <1>2, <1>3
<1>5. Distance(x) = 3 * (MaxDepth + 1 - d) + n /\ Distance(y) = 3 * (MaxDepth + 1 - d) + (n - 1)
  <2> HIDE DEF y
  <2> QED
    BY <1>1, <1>4 DEF Distance
<1> HIDE DEF n, d, y
<1>6. Len(y.goals) <= 2 * y.depth
  BY <1>1, <1>4
<1>7. y \in Nodes
  BY <1>3, <1>6 DEF Nodes
<1>8. Distance(y) < Distance(x)
  BY <1>1, <1>4, <1>5
<1> QED
  BY <1>7, <1>8 DEF Nearer, y

Choice == {c \in [at : Placement, goals : Seq(Goal)] : Len(c.goals) <= 2}

Chosen(c, x) == Node(c.at, c.goals \o x.goals, x.depth + 1)

LEMMA ChosenNearer ==
    ASSUME NEW x \in Nodes, x.depth <= MaxDepth, NEW c \in Choice
    PROVE  Chosen(c, x) \in Nearer(x)
<1> DEFINE y == Chosen(c, x)
           r == c.goals \o x.goals
<1>1. /\ x.goals \in Seq(Goal) /\ x.depth \in 0 .. MaxDepth + 1
      /\ Len(x.goals) \in Nat /\ Len(x.goals) <= 2 * x.depth /\ MaxDepth \in Nat
  BY NodeTyped
<1>2. c.at \in Placement /\ c.goals \in Seq(Goal) /\ Len(c.goals) <= 2
  BY DEF Choice
<1>3. r \in Seq(Goal) /\ Len(r) = Len(c.goals) + Len(x.goals) /\ Len(c.goals) \in Nat
  BY <1>1, <1>2, ConcatProperties, LenProperties
<1>4. x.depth + 1 \in 0 .. MaxDepth + 1
  BY <1>1
<1>5. y.at = c.at /\ y.goals = r /\ y.depth = x.depth + 1
  BY DEF Chosen, Node
<1>6. y \in [at : Placement, goals : Seq(Goal), depth : 0 .. MaxDepth + 1]
  <2> HIDE DEF r
  <2>1. y = [at |-> c.at, goals |-> r, depth |-> x.depth + 1]
    BY DEF Chosen, Node, r
  <2> QED
    BY <1>2, <1>3, <1>4, <2>1
<1> DEFINE n == Len(x.goals)
           m == Len(c.goals)
           d == x.depth
<1>7. /\ n \in Nat /\ m \in 0 .. 2 /\ d \in 0 .. MaxDepth /\ n <= 2 * d
      /\ Len(r) = m + n /\ Len(y.goals) = m + n /\ y.depth = d + 1
  <2> HIDE DEF y, r
  <2>1. n \in Nat /\ n <= 2 * d /\ d \in 0 .. MaxDepth
    BY <1>1
  <2>2. m \in 0 .. 2
    <3>1. m \in Nat /\ m <= 2
      BY <1>2, <1>3
    <3> HIDE DEF m
    <3> QED
      BY <3>1
  <2>3. Len(r) = m + n /\ Len(y.goals) = m + n /\ y.depth = d + 1
    BY <1>3, <1>5
  <2> QED
    BY <2>1, <2>2, <2>3
<1>8. /\ Distance(x) = 3 * (MaxDepth + 1 - d) + n
      /\ Distance(y) = IF d + 1 > MaxDepth THEN 0 ELSE 3 * (MaxDepth + 1 - (d + 1)) + (m + n)
  <2> HIDE DEF y
  <2> QED
    BY <1>1, <1>7 DEF Distance
<1> HIDE DEF y, r, n, m, d
<1>9. Len(y.goals) <= 2 * y.depth
  BY <1>1, <1>7
<1>10. y \in Nodes
  BY <1>6, <1>9 DEF Nodes
<1>11. Distance(y) < Distance(x)
  BY <1>1, <1>7, <1>8
<1> QED
  BY <1>10, <1>11 DEF Nearer, y

-----------------------------------------------------------------------------
(* Placements *)

LEMMA RemoveFromFacts ==
    ASSUME NEW p \in Placement, NEW v \in Values, NEW l \in Locations
    PROVE  /\ RemoveFrom(p, v, l) =
                [locations |-> [p.locations EXCEPT ![v] = @ \ {l}],
                 used |-> [p.used EXCEPT ![l] = @ - Size[v]],
                 reserved |-> p.reserved, reclaim |-> p.reclaim]
           /\ RemoveFrom(p, v, l) \in Placement
<1>1. Size[v] \in Int
  BY SpecAssumption
<1>2. [p.locations EXCEPT ![v] = @ \ {l}] \in [Values -> SUBSET Locations]
      /\ [p.used EXCEPT ![l] = @ - Size[v]] \in [Locations -> Int]
  BY <1>1 DEF Placement
<1>3. p = [locations |-> p.locations, used |-> p.used, reserved |-> p.reserved, reclaim |-> p.reclaim]
  BY DEF Placement
<1>4. RemoveFrom(p, v, l) = [p EXCEPT !.locations[v] = @ \ {l}, !.used[l] = @ - Size[v]]
  BY DEF RemoveFrom
<1>5. RemoveFrom(p, v, l) =
        [locations |-> [p.locations EXCEPT ![v] = @ \ {l}],
         used |-> [p.used EXCEPT ![l] = @ - Size[v]],
         reserved |-> p.reserved, reclaim |-> p.reclaim]
  BY <1>3, <1>4
<1> QED
  BY <1>2, <1>5 DEF Placement

LEMMA PlaceAtFacts ==
    ASSUME NEW p \in Placement, NEW v \in Values, NEW l \in Locations
    PROVE  /\ PlaceAt(p, v, l) =
                [locations |-> [p.locations EXCEPT ![v] = @ \cup {l}],
                 used |-> [p.used EXCEPT ![l] = @ + Size[v]],
                 reserved |-> p.reserved, reclaim |-> p.reclaim]
           /\ PlaceAt(p, v, l) \in Placement
<1>1. Size[v] \in Int
  BY SpecAssumption
<1>2. [p.locations EXCEPT ![v] = @ \cup {l}] \in [Values -> SUBSET Locations]
      /\ [p.used EXCEPT ![l] = @ + Size[v]] \in [Locations -> Int]
  BY <1>1 DEF Placement
<1>3. p = [locations |-> p.locations, used |-> p.used, reserved |-> p.reserved, reclaim |-> p.reclaim]
  BY DEF Placement
<1>4. PlaceAt(p, v, l) = [p EXCEPT !.locations[v] = @ \cup {l}, !.used[l] = @ + Size[v]]
  BY DEF PlaceAt
<1>5. PlaceAt(p, v, l) =
        [locations |-> [p.locations EXCEPT ![v] = @ \cup {l}],
         used |-> [p.used EXCEPT ![l] = @ + Size[v]],
         reserved |-> p.reserved, reclaim |-> p.reclaim]
  BY <1>3, <1>4
<1> QED
  BY <1>2, <1>5 DEF Placement

LEMMA ActionKinds ==
    ASSUME NEW v \in Values, NEW l \in Locations, NEW m \in Place
    PROVE  /\ EnsureResident(v, l) \in ResidencyAction /\ DropResident(v, l) \in ResidencyAction
           /\ MoveResident(v, l, m) \in ResidencyAction
BY DEF ResidencyAction, Place

LEMMA ReclaimGrows ==
    ASSUME NEW p \in Placement, NEW a \in ResidencyAction
    PROVE  /\ [p EXCEPT !.reclaim = Append(@, a)] =
                [locations |-> p.locations, used |-> p.used,
                 reserved |-> p.reserved, reclaim |-> Append(p.reclaim, a)]
           /\ [p EXCEPT !.reclaim = Append(@, a)] \in Placement
<1>1. p = [locations |-> p.locations, used |-> p.used, reserved |-> p.reserved, reclaim |-> p.reclaim]
      /\ p.reclaim \in Seq(ResidencyAction)
  BY DEF Placement
<1>2. Append(p.reclaim, a) \in Seq(ResidencyAction)
  BY <1>1
<1>3. [p EXCEPT !.reclaim = Append(@, a)] =
        [locations |-> p.locations, used |-> p.used,
         reserved |-> p.reserved, reclaim |-> Append(p.reclaim, a)]
  BY <1>1
<1> QED
  BY <1>2, <1>3 DEF Placement

LEMMA DroppedFacts ==
    ASSUME NEW p \in Placement, NEW v \in Values, NEW l \in Locations
    PROVE  /\ Dropped(p, v, l).at =
                [locations |-> [p.locations EXCEPT ![v] = @ \ {l}],
                 used |-> [p.used EXCEPT ![l] = @ - Size[v]],
                 reserved |-> p.reserved, reclaim |-> Append(p.reclaim, DropResident(v, l))]
           /\ Dropped(p, v, l).at \in Placement
           /\ Dropped(p, v, l).goals = <<>>
           /\ Dropped(p, v, l) \in Choice
<1> DEFINE q == RemoveFrom(p, v, l)
           a == DropResident(v, l)
           r == [q EXCEPT !.reclaim = Append(@, a)]
           none == <<>>
<1>1. /\ q = [locations |-> [p.locations EXCEPT ![v] = @ \ {l}],
              used |-> [p.used EXCEPT ![l] = @ - Size[v]],
              reserved |-> p.reserved, reclaim |-> p.reclaim]
      /\ q \in Placement
  BY RemoveFromFacts
<1>2. a \in ResidencyAction
  BY DEF ResidencyAction
<1>3. Dropped(p, v, l) = [at |-> r, goals |-> none]
  BY DEF Dropped
<1>4. none \in Seq(Goal) /\ Len(none) <= 2
  BY EmptySeq
<1> HIDE DEF q, a
<1>5. /\ r = [locations |-> q.locations, used |-> q.used,
              reserved |-> q.reserved, reclaim |-> Append(q.reclaim, a)]
      /\ r \in Placement
  BY <1>1, <1>2, ReclaimGrows
<1>6. r = [locations |-> [p.locations EXCEPT ![v] = @ \ {l}],
           used |-> [p.used EXCEPT ![l] = @ - Size[v]],
           reserved |-> p.reserved, reclaim |-> Append(p.reclaim, a)]
  BY <1>1, <1>5
<1> HIDE DEF r, none
<1>7. [at |-> r, goals |-> none] \in Choice
  BY <1>4, <1>5 DEF Choice
<1>8. /\ Dropped(p, v, l).at = r /\ Dropped(p, v, l).at \in Placement
      /\ Dropped(p, v, l).goals = none /\ Dropped(p, v, l) \in Choice
  BY <1>3, <1>5, <1>7
<1> QED
  BY <1>6, <1>8 DEF a, none

LEMMA MovedTyped ==
    ASSUME NEW p \in Placement, NEW v \in Values, NEW l \in Locations, NEW m \in Locations,
           NEW blocked \in SUBSET Values, NEW active \in SUBSET (Values \X Locations)
    PROVE  Moved(p, v, l, m, blocked, active) \in Choice
<1> DEFINE n == IF m \in p.locations[v] THEN 0 ELSE Size[v]
           g == RoomGoal(m, n, blocked \cup {v}, active \cup {<<v, l>>})
           h == RelocateGoal(v, l, m)
           s == <<g, h>>
<1>1. n \in Nat
  BY SpecAssumption
<1> HIDE DEF n
<1>2. g \in Goal
  BY <1>1 DEF Goal, RoomGoal
<1>3. h \in Goal
  BY DEF Goal, RelocateGoal
<1>4. Moved(p, v, l, m, blocked, active) = [at |-> p, goals |-> s]
  BY DEF Moved, n
<1> HIDE DEF g, h
<1>5. s \in Seq(Goal) /\ Len(s) <= 2
  BY <1>2, <1>3
<1> HIDE DEF s
<1>6. [at |-> p, goals |-> s] \in Choice
  BY <1>5 DEF Choice
<1> QED
  BY <1>4, <1>6

LEMMA ChoicesTyped ==
    ASSUME NEW ctx \in SearchContext, NEW p \in Placement, NEW l \in Locations,
           NEW blocked \in SUBSET Values, NEW active \in SUBSET (Values \X Locations)
    PROVE  ChoicesAt(p, l, blocked, active, ctx) \subseteq Choice
<1>1. \A v \in Droppable(p, l, blocked, ctx) : Dropped(p, v, l) \in Choice
  BY DroppedFacts DEF Droppable, Eligible
<1>2. ASSUME NEW e \in Movable(p, l, blocked, ctx)
      PROVE  Moved(p, e[1], l, e[2], blocked, active) \in Choice
  <2>1. e[1] \in Values /\ e[2] \in Locations
    BY DEF Movable, Eligible
  <2> QED
    BY <2>1, MovedTyped
<1> QED
  BY <1>1, <1>2 DEF ChoicesAt

LEMMA OptionsTyped ==
    ASSUME NEW ctx \in SearchContext, NEW p \in Placement, NEW l \in Locations,
           NEW blocked \in SUBSET Values, NEW active \in SUBSET (Values \X Locations)
    PROVE  Options(p, l, blocked, active, ctx) \in Seq(Choice)
<1>1. Options(p, l, blocked, active, ctx) \in Seq(ChoicesAt(p, l, blocked, active, ctx))
  BY OptionsAreChoices
<1>2. ChoicesAt(p, l, blocked, active, ctx) \subseteq Choice
  BY ChoicesTyped
<1> QED
  BY <1>1, <1>2, SeqMonotonic

LEMMA RelocatedTyped ==
    ASSUME NEW p \in Placement, NEW v \in Values, NEW l \in Locations, NEW m \in Locations,
           NEW g, g.handle = v, g.from = l, g.to = m
    PROVE  Relocated(p, g) \in Placement
<1> DEFINE there == IF m \in p.locations[v] THEN p ELSE PlaceAt(p, v, m)
           q == RemoveFrom(there, v, l)
<1>1. there \in Placement
  BY PlaceAtFacts
<1> HIDE DEF there
<1>2. q \in Placement
  BY <1>1, RemoveFromFacts
<1>3. MoveResident(v, m, l) \in ResidencyAction
  BY ActionKinds DEF Place
<1> HIDE DEF q
<1>4. [q EXCEPT !.reclaim = Append(@, MoveResident(v, m, l))] \in Placement
  BY <1>2, <1>3, ReclaimGrows
<1>5. Relocated(p, g) = [q EXCEPT !.reclaim = Append(@, MoveResident(v, m, l))]
  BY DEF Relocated, q, there
<1> QED
  BY <1>4, <1>5

-----------------------------------------------------------------------------
(* The request on a placement *)

RequestState == [at : Placement, enter : Seq(ResidencyAction), short : Place]

LEMMA StateFields ==
    ASSUME NEW s \in RequestState
    PROVE  /\ s = [at |-> s.at, enter |-> s.enter, short |-> s.short]
           /\ s.at \in Placement /\ s.enter \in Seq(ResidencyAction) /\ s.short \in Place
BY DEF RequestState

LEMMA ShortOfFacts ==
    ASSUME NEW s \in RequestState, NEW l \in Place
    PROVE  /\ ShortOf(s, l) \in RequestState
           /\ ShortOf(s, l).short = l
<1>1. /\ s = [at |-> s.at, enter |-> s.enter, short |-> s.short]
      /\ s.at \in Placement /\ s.enter \in Seq(ResidencyAction)
  BY StateFields
<1>2. ShortOf(s, l) = [at |-> s.at, enter |-> s.enter, short |-> l]
  BY <1>1 DEF ShortOf
<1> QED
  BY <1>1, <1>2 DEF RequestState

LEMMA ReservationFacts ==
    ASSUME NEW s \in RequestState, NEW r \in MemoryReservation
    PROVE  /\ SimulateReservation(s, r) \in RequestState
           /\ SimulateReservation(s, r).short = NoLocation =>
                /\ s.short = NoLocation /\ HasRoom(s.at, r.location, r.nbytes)
                /\ SimulateReservation(s, r) =
                     [at |-> [locations |-> s.at.locations, used |-> s.at.used,
                              reserved |-> [s.at.reserved EXCEPT ![r.location] = @ + r.nbytes],
                              reclaim |-> s.at.reclaim],
                      enter |-> s.enter, short |-> NoLocation]
<1>1. r.location \in Locations /\ r.nbytes \in Nat
  BY DEF MemoryReservation
<1>2. /\ s = [at |-> s.at, enter |-> s.enter, short |-> s.short]
      /\ s.at \in Placement /\ s.enter \in Seq(ResidencyAction) /\ s.short \in Place
  BY StateFields
<1>3. CASE s.short # NoLocation
  <2>1. SimulateReservation(s, r) = s
    BY <1>3 DEF SimulateReservation
  <2> QED
    BY <1>3, <2>1
<1>4. CASE s.short = NoLocation /\ ~HasRoom(s.at, r.location, r.nbytes)
  <2>1. SimulateReservation(s, r) = ShortOf(s, r.location)
    BY <1>4 DEF SimulateReservation
  <2>2. r.location \in Place /\ r.location # NoLocation
    BY <1>1, NoneAssumption DEF Place
  <2> QED
    BY <2>1, <2>2, ShortOfFacts
<1>5. CASE s.short = NoLocation /\ HasRoom(s.at, r.location, r.nbytes)
  <2> DEFINE p == s.at
             held == [p.reserved EXCEPT ![r.location] = @ + r.nbytes]
             q == [locations |-> p.locations, used |-> p.used,
                   reserved |-> held, reclaim |-> p.reclaim]
  <2>1. SimulateReservation(s, r) = [s EXCEPT !.at.reserved[r.location] = @ + r.nbytes]
    BY <1>5 DEF SimulateReservation
  <2>2. p = [locations |-> p.locations, used |-> p.used, reserved |-> p.reserved, reclaim |-> p.reclaim]
    BY <1>2 DEF Placement
  <2>3. SimulateReservation(s, r) = [at |-> q, enter |-> s.enter, short |-> NoLocation]
    BY <1>2, <1>5, <2>1, <2>2
  <2>4. held \in [Locations -> Int]
    BY <1>1, <1>2 DEF Placement
  <2> HIDE DEF held
  <2>5. q \in Placement
    BY <1>2, <2>4 DEF Placement
  <2>6. NoLocation \in Place
    BY DEF Place
  <2>7. [at |-> q, enter |-> s.enter, short |-> NoLocation] \in RequestState
    <3> HIDE DEF q
    <3> QED
      BY <1>2, <2>5, <2>6 DEF RequestState
  <2> QED
    BY <1>5, <2>3, <2>7 DEF held
<1> QED
  BY <1>3, <1>4, <1>5

\* What one requirement does when it finds room.
Entering(s, v, l, t) ==
    LET S == s.at.locations[v]
        placed == PlaceAt(s.at, v, l)
    IN  /\ l \notin S
        /\ S = {} => HasRoom(s.at, SourceAt[v], Size[v])
        /\ HasRoom(s.at, l, Size[v])
        /\ t.at \in Placement /\ t.enter \in Seq(ResidencyAction)
        /\ \/ /\ v \in Exclusive /\ S = {}
              /\ t.at = placed /\ t.enter = Append(s.enter, MoveResident(v, l, NoLocation))
           \/ /\ v \in Exclusive /\ S # {}
              /\ t.at = RemoveFrom(placed, v, FirstLocation(S))
              /\ t.enter = Append(s.enter, MoveResident(v, l, FirstLocation(S)))
           \/ /\ v \notin Exclusive
              /\ t.at = placed /\ t.enter = Append(s.enter, EnsureResident(v, l))

LEMMA RequirementFacts ==
    ASSUME NEW s \in RequestState, NEW q, q.handle \in Values, q.location \in Locations
    PROVE  /\ SimulateRequirement(s, q) \in RequestState
           /\ /\ SimulateRequirement(s, q).short = NoLocation
              /\ s.at.locations[q.handle] # {} \/ Reconstructible(q.handle)
              => /\ s.short = NoLocation
                 /\ \/ SimulateRequirement(s, q) = s
                    \/ Entering(s, q.handle, q.location, SimulateRequirement(s, q))
<1> DEFINE v == q.handle
           l == q.location
           S == s.at.locations[v]
           source == IF S = {} THEN NoLocation ELSE FirstLocation(S)
           placed == PlaceAt(s.at, v, l)
           p2 == IF v \in Exclusive /\ S # {} THEN RemoveFrom(placed, v, source) ELSE placed
           a == IF v \in Exclusive THEN MoveResident(v, l, source) ELSE EnsureResident(v, l)
           t == [at |-> p2, enter |-> Append(s.enter, a), short |-> NoLocation]
<1>1. /\ s = [at |-> s.at, enter |-> s.enter, short |-> s.short]
      /\ s.at \in Placement /\ s.enter \in Seq(ResidencyAction) /\ s.short \in Place
  BY StateFields
<1>2. S \in SUBSET Locations
  BY <1>1 DEF Placement
<1>3. CASE s.short # NoLocation \/ l \in S
  <2>1. SimulateRequirement(s, q) = s
    BY <1>3 DEF SimulateRequirement
  <2> QED
    BY <1>3, <2>1
<1>4. CASE s.short = NoLocation /\ l \notin S /\ S = {} /\ ~HasRoom(s.at, SourceAt[v], Size[v])
  <2>1. SimulateRequirement(s, q) = ShortOf(s, SourceAt[v])
    BY <1>4 DEF SimulateRequirement
  <2>2. SourceAt[v] \in Place
    BY SpecAssumption DEF Place
  <2>3. SimulateRequirement(s, q) \in RequestState /\ SimulateRequirement(s, q).short = SourceAt[v]
    BY <2>1, <2>2, ShortOfFacts
  <2> QED
    BY <1>4, <2>3 DEF Reconstructible
<1>5. CASE /\ s.short = NoLocation /\ l \notin S /\ ~(S = {} /\ ~HasRoom(s.at, SourceAt[v], Size[v]))
           /\ ~HasRoom(s.at, l, Size[v])
  <2>1. SimulateRequirement(s, q) = ShortOf(s, l)
    BY <1>5 DEF SimulateRequirement
  <2>2. l \in Place /\ l # NoLocation
    BY NoneAssumption DEF Place
  <2> QED
    BY <2>1, <2>2, ShortOfFacts
<1>6. CASE /\ s.short = NoLocation /\ l \notin S /\ ~(S = {} /\ ~HasRoom(s.at, SourceAt[v], Size[v]))
           /\ HasRoom(s.at, l, Size[v])
  <2>1. placed \in Placement
    BY <1>1, PlaceAtFacts
  <2>2. S # {} => source \in Locations
    BY <1>2, FirstLocationExists
  <2>3. source \in Place
    BY <2>2 DEF Place
  <2>4. p2 \in Placement
    <3> HIDE DEF placed, source
    <3> QED
      BY <2>1, <2>2, RemoveFromFacts
  <2>5. a \in ResidencyAction
    <3> HIDE DEF source
    <3>1. EnsureResident(v, l) \in ResidencyAction /\ MoveResident(v, l, source) \in ResidencyAction
      BY <2>3, ActionKinds
    <3> QED
      BY <3>1
  <2>6. SimulateRequirement(s, q) =
          IF v \in Exclusive
          THEN [s EXCEPT !.at = IF S = {} THEN placed ELSE RemoveFrom(placed, v, source),
                         !.enter = Append(@, MoveResident(v, l, source))]
          ELSE [s EXCEPT !.at = placed, !.enter = Append(@, EnsureResident(v, l))]
    BY <1>6 DEF SimulateRequirement
  <2>7. SimulateRequirement(s, q) = t
    <3> HIDE DEF S, placed, source
    <3>1. CASE v \in Exclusive /\ S = {}
      BY <1>1, <1>6, <2>6, <3>1
    <3>2. CASE v \in Exclusive /\ S # {}
      BY <1>1, <1>6, <2>6, <3>2
    <3>3. CASE v \notin Exclusive
      BY <1>1, <1>6, <2>6, <3>3
    <3> QED
      BY <3>1, <3>2, <3>3
  <2>8. NoLocation \in Place
    BY DEF Place
  <2>9. Append(s.enter, a) \in Seq(ResidencyAction)
    <3> HIDE DEF a
    <3> QED
      BY <1>1, <2>5
  <2>10. t \in RequestState /\ t.at = p2 /\ t.enter = Append(s.enter, a)
    <3> HIDE DEF p2, a
    <3> QED
      BY <2>4, <2>8, <2>9 DEF RequestState
  <2>11. Entering(s, v, l, t)
    <3>1. S # {} => source = FirstLocation(S)
      OBVIOUS
    <3>2. S = {} => source = NoLocation
      OBVIOUS
    <3> HIDE DEF t, source
    <3>3. CASE v \in Exclusive /\ S = {}
      <4>1. p2 = placed /\ a = MoveResident(v, l, NoLocation)
        BY <3>2, <3>3
      <4> HIDE DEF p2, a
      <4> QED
        BY <1>6, <2>4, <2>9, <2>10, <3>3, <4>1 DEF Entering
    <3>4. CASE v \in Exclusive /\ S # {}
      <4>1. p2 = RemoveFrom(placed, v, FirstLocation(S)) /\ a = MoveResident(v, l, FirstLocation(S))
        BY <3>1, <3>4
      <4> HIDE DEF p2, a
      <4> QED
        BY <1>6, <2>4, <2>9, <2>10, <3>4, <4>1 DEF Entering
    <3>5. CASE v \notin Exclusive
      <4>1. p2 = placed /\ a = EnsureResident(v, l)
        BY <3>5
      <4> HIDE DEF p2, a
      <4> QED
        BY <1>6, <2>4, <2>9, <2>10, <3>5, <4>1 DEF Entering
    <3> QED
      BY <3>3, <3>4, <3>5
  <2> HIDE DEF t
  <2> QED
    BY <1>6, <2>7, <2>10, <2>11
<1> QED
  BY <1>3, <1>4, <1>5, <1>6

-----------------------------------------------------------------------------
(* The verdict at a node follows from those at the nodes it leads to.      *)

LEMMA SimulateTyped ==
    ASSUME NEW ctx \in SearchContext, NEW p \in Placement
    PROVE  SimulateRequest(p, ctx.request) \in RequestState
<1> DEFINE none == <<>>
           start == [at |-> p, enter |-> none, short |-> NoLocation]
           rs == ctx.request.reservations
           qs == ctx.request.requirements
           R == [handle : Values, location : Locations]
           admitted == Ext!FoldLeft(SimulateReservation, start, rs)
           result == Ext!FoldLeft(SimulateRequirement, admitted, qs)
           how1 == <<"reserve">>
           how2 == <<"require">>
<1>1. rs \in Seq(MemoryReservation) /\ qs \in Seq(R)
  BY DEF SearchContext
<1>2. SimulateRequest(p, ctx.request) = result
  BY DEF SimulateRequest
<1>3. start \in RequestState
  <2>1. none \in Seq(ResidencyAction) /\ NoLocation \in Place
    BY EmptySeq DEF Place
  <2> HIDE DEF none
  <2> QED
    BY <2>1 DEF RequestState
<1> HIDE DEF start
<1>4. Runs(admitted, how1, start, rs)
  BY <1>1, ReserveRuns
<1>5. ASSUME NEW x \in RequestState, NEW y \in MemoryReservation PROVE Combine(how1, x, y) \in RequestState
  <2>1. Combine(how1, x, y) = SimulateReservation(x, y)
    BY DEF Combine
  <2> QED
    BY <2>1, ReservationFacts
<1> HIDE DEF admitted, how1
<1>6. admitted \in RequestState
  BY <1>1, <1>3, <1>4, <1>5, RunStays
<1>7. Runs(result, how2, admitted, qs)
  BY <1>1, RequireRuns
<1>8. ASSUME NEW x \in RequestState, NEW y \in R PROVE Combine(how2, x, y) \in RequestState
  <2>1. Combine(how2, x, y) = SimulateRequirement(x, y)
    BY DEF Combine
  <2>2. y.handle \in Values /\ y.location \in Locations
    OBVIOUS
  <2> QED
    BY <2>1, <2>2, RequirementFacts
<1> HIDE DEF result, how2, R, qs
<1>9. result \in RequestState
  BY <1>1, <1>6, <1>7, <1>8, RunStays
<1> QED
  BY <1>2, <1>9

-----------------------------------------------------------------------------
(* The verdict at a node is what Attempt says of the verdicts nearer by.   *)

LEMMA FirstOfAgrees ==
    ASSUME NEW x, NEW f, NEW g, NEW q \in Seq(Choice), \A c \in Choice : f[Chosen(c, x)] = g[Chosen(c, x)]
    PROVE  FirstOf(f, q, x) = FirstOf(g, q, x)
<1> DEFINE how == <<"first", f, x>>
           how2 == <<"first", g, x>>
           V == {Exhausted} \cup {f[Chosen(c, x)] : c \in Choice}
           G == {<<r, r>> : r \in V}
           a == FirstOf(f, q, x)
           b == FirstOf(g, q, x)
<1>1. Runs(a, how, Exhausted, q) /\ Runs(b, how2, Exhausted, q)
  BY FirstRuns
<1>2. <<Exhausted, Exhausted>> \in G
  OBVIOUS
<1>3. ASSUME NEW r, NEW r2, <<r, r2>> \in G, NEW c \in Choice
      PROVE  <<Combine(how, r, c), Combine(how2, r2, c)>> \in G
  <2>1. r = r2 /\ r \in V
    BY <1>3
  <2>2. Combine(how, r, c) = IF r # Exhausted THEN r ELSE f[Chosen(c, x)]
    BY DEF Combine, Chosen
  <2>3. Combine(how2, r2, c) = IF r2 # Exhausted THEN r2 ELSE g[Chosen(c, x)]
    BY DEF Combine, Chosen
  <2>4. Combine(how, r, c) = Combine(how2, r2, c) /\ Combine(how, r, c) \in V
    BY <2>1, <2>2, <2>3
  <2> HIDE DEF how, how2, V
  <2> QED
    BY <2>4
<1> HIDE DEF how, how2, G, a, b
<1>4. <<a, b>> \in G
  BY <1>1, <1>2, <1>3, RunsStayRelated
<1>5. a = b
  BY <1>4 DEF G
<1> QED
  BY <1>5 DEF a, b

\* Where a node that is not a leaf looks for a victim.
LEMMA HeadGoal ==
    ASSUME NEW x \in Nodes, x.goals # <<>>
    PROVE  /\ Head(x.goals) \in Goal /\ Head(x.goals).kind \in {"room", "relocate"}
           /\ Head(x.goals).kind = "room" =>
                /\ Head(x.goals).at \in Locations /\ Head(x.goals).nbytes \in Nat
                /\ Head(x.goals).blocked \in SUBSET Values
                /\ Head(x.goals).active \in SUBSET (Values \X Locations)
           /\ Head(x.goals).kind = "relocate" =>
                /\ Head(x.goals).handle \in Values
                /\ Head(x.goals).from \in Locations /\ Head(x.goals).to \in Locations
<1>1. Head(x.goals) \in Goal
  BY NodeTyped, HeadTailProperties
<1> QED
  BY <1>1 DEF Goal

LEMMA AttemptAgrees ==
    ASSUME NEW ctx \in SearchContext, NEW x \in Nodes, NEW f, NEW g,
           \A y \in Nearer(x) : f[y] = g[y]
    PROVE  Attempt(ctx, f, x) = Attempt(ctx, g, x)
<1> DEFINE p == x.at
           sim == SimulateRequest(p, ctx.request)
           h == Head(x.goals)
<1>1. p \in Placement
  BY NodeTyped
<1>2. CASE x.depth > MaxDepth
  <2>1. ~(x.depth <= MaxDepth)
    BY <1>2, NodeTyped
  <2>2. Attempt(ctx, f, x) = Endless /\ Attempt(ctx, g, x) = Endless
    BY <1>2, <2>1 DEF Attempt
  <2> QED
    BY <2>2
<1>3. CASE x.depth <= MaxDepth
  <2>0. ~(x.depth > MaxDepth)
    BY <1>3, NodeTyped
  <2>1. \A c \in Choice : f[Chosen(c, x)] = g[Chosen(c, x)]
    BY <1>3, ChosenNearer
  <2>2. CASE x.goals = <<>>
    <3>1. sim \in RequestState
      BY <1>1, SimulateTyped
    <3>2. CASE sim.short = NoLocation
      BY <2>0, <1>3, <2>2, <3>2 DEF Attempt
    <3>3. CASE sim.short # NoLocation
      <4>1. sim.short \in Locations
        BY <3>1, <3>3 DEF RequestState, Place
      <4> DEFINE q == Options(p, sim.short, {}, {}, ctx)
      <4>2. q \in Seq(Choice)
        BY <1>1, <4>1, OptionsTyped
      <4> HIDE DEF q
      <4>3. FirstOf(f, q, x) = FirstOf(g, q, x)
        BY <2>1, <4>2, FirstOfAgrees
      <4> QED
        BY <2>0, <1>3, <2>2, <3>3, <4>3 DEF Attempt, q
    <3> QED
      BY <3>2, <3>3
  <2>3. CASE x.goals # <<>>
    <3>1. \A q \in Placement : f[Node(q, Tail(x.goals), x.depth)] = g[Node(q, Tail(x.goals), x.depth)]
      BY <1>3, <2>3, RestNearer
    <3>2. CASE h.kind = "room" /\ HasRoom(p, h.at, h.nbytes)
      <4> DEFINE y == Node(p, Tail(x.goals), x.depth)
      <4>1. f[y] = g[y]
        BY <1>1, <3>1
      <4>2. Attempt(ctx, f, x) = f[y] /\ Attempt(ctx, g, x) = g[y]
        BY <2>0, <1>3, <2>3, <3>2 DEF Attempt
      <4> QED
        BY <4>1, <4>2
    <3>3. CASE h.kind = "room" /\ ~HasRoom(p, h.at, h.nbytes)
      <4> DEFINE q == Options(p, h.at, h.blocked, h.active, ctx)
      <4>1. q \in Seq(Choice)
        <5>1. h.at \in Locations /\ h.blocked \in SUBSET Values /\ h.active \in SUBSET (Values \X Locations)
          BY <2>3, <3>3, HeadGoal
        <5> HIDE DEF h, p
        <5> QED
          BY <1>1, <5>1, OptionsTyped
      <4>2. Attempt(ctx, f, x) = FirstOf(f, q, x) /\ Attempt(ctx, g, x) = FirstOf(g, q, x)
        BY <2>0, <1>3, <2>3, <3>3 DEF Attempt
      <4> HIDE DEF q
      <4> QED
        BY <2>1, <4>1, <4>2, FirstOfAgrees
    <3>4. CASE h.kind = "relocate"
      <4> DEFINE y == Node(Relocated(p, h), Tail(x.goals), x.depth)
      <4>1. Relocated(p, h) \in Placement
        <5>1. h.handle \in Values /\ h.from \in Locations /\ h.to \in Locations
          BY <2>3, <3>4, HeadGoal
        <5> HIDE DEF h, p
        <5> QED
          BY <1>1, <5>1, RelocatedTyped
      <4>2. f[y] = g[y]
        BY <3>1, <4>1
      <4>3. Attempt(ctx, f, x) = f[y] /\ Attempt(ctx, g, x) = g[y]
        BY <2>0, <1>3, <2>3, <3>4 DEF Attempt
      <4> QED
        BY <4>2, <4>3
    <3> QED
      BY <2>3, <3>2, <3>3, <3>4, HeadGoal
  <2> QED
    BY <2>2, <2>3
<1> QED
  BY <1>2, <1>3, NodeTyped

Achieves(ctx, try) == try = [x \in Nodes |-> Attempt(ctx, try, x)]

\* There is a function that satisfies the recursion.
LEMMA AchieveUnfolds ==
    ASSUME NEW ctx \in SearchContext, NEW x \in Nodes
    PROVE  Achieve(ctx)[x] = Attempt(ctx, Achieve(ctx), x)
<1> DEFINE far == 5 * (MaxDepth + 1)
           Upto(n) == \E f : /\ f = [y \in Nodes |-> f[y]]
                             /\ \A y \in Nodes : Distance(y) < n => f[y] = Attempt(ctx, f, y)
           S == {n \in Nat : Upto(n)}
<1>1. far + 1 \in Nat /\ \A y \in Nodes : Distance(y) \in Nat /\ Distance(y) < far + 1
  BY NodeTyped, PlannerAssumption
<1>2. 0 \in S
  <2> DEFINE f == [y \in Nodes |-> Exhausted]
  <2>1. f = [y \in Nodes |-> f[y]]
    OBVIOUS
  <2>2. \A y \in Nodes : ~(Distance(y) < 0)
    BY <1>1
  <2> HIDE DEF f
  <2> QED
    BY <2>1, <2>2
<1>3. ASSUME NEW n \in Nat, n \in S PROVE n + 1 \in S
  <2>1. PICK f : /\ f = [y \in Nodes |-> f[y]]
                 /\ \A y \in Nodes : Distance(y) < n => f[y] = Attempt(ctx, f, y)
    BY <1>3
  <2> DEFINE g == [y \in Nodes |-> Attempt(ctx, f, y)]
  <2>2. \A y \in Nodes : Distance(y) < n => g[y] = f[y]
    BY <2>1
  <2>3. ASSUME NEW y \in Nodes, Distance(y) < n + 1 PROVE g[y] = Attempt(ctx, g, y)
    <3>1. \A z \in Nearer(y) : f[z] = g[z]
      <4> SUFFICES ASSUME NEW z \in Nearer(y) PROVE f[z] = g[z]
        OBVIOUS
      <4>1. z \in Nodes /\ Distance(z) < Distance(y)
        BY DEF Nearer
      <4>2. Distance(z) < n
        BY <1>1, <2>3, <4>1
      <4> HIDE DEF g
      <4> QED
        BY <2>2, <4>1, <4>2
    <3>2. g[y] = Attempt(ctx, f, y)
      OBVIOUS
    <3> HIDE DEF g
    <3>3. Attempt(ctx, f, y) = Attempt(ctx, g, y)
      BY <3>1, AttemptAgrees
    <3> QED
      BY <3>2, <3>3
  <2>4. g = [y \in Nodes |-> g[y]]
    OBVIOUS
  <2> HIDE DEF g
  <2>5. Upto(n + 1)
    BY <2>3, <2>4
  <2> HIDE DEF Upto
  <2> QED
    BY <2>5
<1>4. far + 1 \in S
  <2> HIDE DEF S, far
  <2> QED
    BY <1>1, <1>2, <1>3, InductionOnNat
<1>5. PICK f : /\ f = [y \in Nodes |-> f[y]]
               /\ \A y \in Nodes : Distance(y) < far + 1 => f[y] = Attempt(ctx, f, y)
  BY <1>4
<1>6. Achieves(ctx, f)
  <2>1. \A y \in Nodes : f[y] = Attempt(ctx, f, y)
    BY <1>1, <1>5
  <2>2. f = [y \in Nodes |-> Attempt(ctx, f, y)]
    BY <1>5, <2>1
  <2> QED
    BY <2>2 DEF Achieves
<1>7. Achieve(ctx) = CHOOSE try : Achieves(ctx, try)
  BY DEF Achieve, Achieves
<1>8. Achieves(ctx, Achieve(ctx))
  BY <1>6, <1>7
<1> QED
  BY <1>8 DEF Achieves

\* What holds of a node when it holds of all that are nearer holds of all.
LEMMA NodeInduction ==
    ASSUME NEW G, \A x \in Nodes : Nearer(x) \subseteq G => x \in G
    PROVE  Nodes \subseteq G
<1> DEFINE S == {n \in Nat : \A x \in Nodes : Distance(x) < n => x \in G}
<1>1. \A x \in Nodes : Distance(x) \in Nat
  BY NodeTyped
<1>2. 0 \in S
  BY <1>1
<1>3. ASSUME NEW n \in Nat, n \in S PROVE n + 1 \in S
  <2> SUFFICES ASSUME NEW x \in Nodes, Distance(x) < n + 1 PROVE x \in G
    OBVIOUS
  <2>1. ASSUME NEW y \in Nearer(x) PROVE y \in G
    <3>1. y \in Nodes /\ Distance(y) < Distance(x)
      BY DEF Nearer
    <3>2. Distance(y) < n
      BY <1>1, <3>1
    <3> QED
      BY <1>3, <3>1, <3>2
  <2> QED
    BY <2>1
<1>4. S = Nat
  <2>1. \A n \in Nat : n \in S => n + 1 \in S
    BY <1>3
  <2> HIDE DEF S
  <2>2. \A n \in Nat : n \in S
    BY <1>2, <2>1, InductionOnNat
  <2> QED
    BY <2>2 DEF S
<1>5. ASSUME NEW x \in Nodes PROVE x \in G
  <2>1. Distance(x) + 1 \in S /\ Distance(x) < Distance(x) + 1
    BY <1>1, <1>4
  <2> QED
    BY <2>1
<1> QED
  BY <1>5

-----------------------------------------------------------------------------
(* The search simulates what the manager simulates.  s mirrors p when the  *)
(* dry run that reached s agrees with the placement p, no known value is   *)
(* discarded, and every known value has a replica or a source.             *)

Mirrors(s, p, live) ==
    /\ s \in SimulationRecord /\ s.feasible
    /\ s.locations = p.locations /\ s.used = p.used /\ s.reserved = p.reserved
    /\ s.discarded \cap live = {}
    /\ \A v \in Values : s.locations[v] # {} => v \in live
    /\ \A v \in Values : v \in live => s.locations[v] # {} \/ Reconstructible(v)

LEMMA RoomIsFeasible ==
    ASSUME NEW s, NEW p, NEW live, Mirrors(s, p, live),
           NEW l \in Locations, NEW n \in Nat, HasRoom(p, l, n)
    PROVE  /\ Touch(s, l, n).feasible
           /\ Mirrors(Touch(s, l, n), p, live)
<1>1. s \in SimulationRecord /\ s.feasible /\ s.used = p.used /\ s.reserved = p.reserved
  BY DEF Mirrors
<1> DEFINE t == Touch(s, l, n)
<1>2. /\ t \in SimulationRecord /\ t.locations = s.locations /\ t.discarded = s.discarded
      /\ t.used = s.used /\ t.reserved = s.reserved
      /\ t.feasible =
           (s.feasible /\ (Budget[l] # NoBudget => s.used[l] + s.reserved[l] + n <= Budget[l]))
  BY <1>1, TouchFacts
<1> HIDE DEF t
<1>3. t.feasible
  BY <1>1, <1>2 DEF HasRoom
<1>4. Mirrors(t, p, live)
  BY <1>2, <1>3 DEF Mirrors
<1> QED
  BY <1>3, <1>4 DEF t

LEMMA AddMirrors ==
    ASSUME NEW s, NEW p \in Placement, NEW live, Mirrors(s, p, live),
           NEW v \in Values, v \in live, NEW l \in Locations, HasRoom(p, l, Size[v])
    PROVE  Mirrors(AddReplica(s, v, l), PlaceAt(p, v, l), live)
<1> DEFINE t == AddReplica(s, v, l)
           q == PlaceAt(p, v, l)
<1>1. Size[v] \in Nat /\ s \in SimulationRecord
  BY SpecAssumption DEF Mirrors
<1>2. Touch(s, l, Size[v]).feasible /\ Mirrors(Touch(s, l, Size[v]), p, live)
  BY <1>1, RoomIsFeasible
<1>3. t = [locations |-> [s.locations EXCEPT ![v] = @ \cup {l}], discarded |-> s.discarded,
           used |-> [s.used EXCEPT ![l] = @ + Size[v]], reserved |-> s.reserved,
           peaks |-> Touch(s, l, Size[v]).peaks, feasible |-> TRUE]
  BY <1>1, <1>2, AddReplicaFacts
<1>4. /\ q = [locations |-> [p.locations EXCEPT ![v] = @ \cup {l}],
              used |-> [p.used EXCEPT ![l] = @ + Size[v]],
              reserved |-> p.reserved, reclaim |-> p.reclaim]
      /\ q \in Placement
  BY PlaceAtFacts
<1>5. /\ s.locations = p.locations /\ s.used = p.used /\ s.reserved = p.reserved
      /\ s.locations \in [Values -> SUBSET Locations] /\ s.discarded \in SUBSET Values
      /\ Touch(s, l, Size[v]).peaks \in [Locations -> Int]
  BY <1>2 DEF Mirrors, SimulationRecord
<1> HIDE DEF t, q
<1>6. /\ t.locations = q.locations /\ t.used = q.used /\ t.reserved = q.reserved
      /\ t.feasible /\ t.discarded = s.discarded
      /\ t.locations = [s.locations EXCEPT ![v] = @ \cup {l}]
  BY <1>3, <1>4, <1>5
<1>7. t \in SimulationRecord
  <2>1. /\ q.locations \in [Values -> SUBSET Locations] /\ q.used \in [Locations -> Int]
        /\ q.reserved \in [Locations -> Int]
    BY <1>4 DEF Placement
  <2>2. t = [locations |-> q.locations, discarded |-> s.discarded, used |-> q.used,
             reserved |-> q.reserved, peaks |-> Touch(s, l, Size[v]).peaks, feasible |-> TRUE]
    BY <1>3, <1>6
  <2> QED
    BY <1>5, <2>1, <2>2 DEF SimulationRecord
<1>8. \A w \in Values : t.locations[w] = IF w = v THEN s.locations[v] \cup {l} ELSE s.locations[w]
  BY <1>5, <1>6
<1>9. \A w \in Values : /\ t.locations[w] # {} => w \in live
                        /\ w \in live => t.locations[w] # {} \/ Reconstructible(w)
  BY <1>8 DEF Mirrors
<1>10. t.discarded \cap live = {}
  BY <1>6 DEF Mirrors
<1>11. Mirrors(t, q, live)
  BY <1>6, <1>7, <1>9, <1>10 DEF Mirrors
<1> QED
  BY <1>11 DEF t, q

LEMMA RemoveMirrors ==
    ASSUME NEW s, NEW p \in Placement, NEW live, Mirrors(s, p, live),
           NEW v \in Values, NEW l \in Locations,
           p.locations[v] \ {l} # {} \/ Reconstructible(v)
    PROVE  Mirrors(RemoveReplica(s, v, l), RemoveFrom(p, v, l), live)
<1> DEFINE t == RemoveReplica(s, v, l)
           q == RemoveFrom(p, v, l)
<1>1. /\ s \in SimulationRecord /\ s.locations = p.locations /\ s.used = p.used
      /\ s.reserved = p.reserved /\ s.feasible /\ s.locations \in [Values -> SUBSET Locations]
  BY DEF Mirrors, SimulationRecord
<1>2. /\ t = [locations |-> [s.locations EXCEPT ![v] = @ \ {l}], discarded |-> s.discarded,
              used |-> [s.used EXCEPT ![l] = @ - Size[v]], reserved |-> s.reserved,
              peaks |-> s.peaks, feasible |-> s.feasible]
      /\ t \in SimulationRecord
  BY <1>1, RemoveReplicaFacts
<1>3. q = [locations |-> [p.locations EXCEPT ![v] = @ \ {l}],
           used |-> [p.used EXCEPT ![l] = @ - Size[v]],
           reserved |-> p.reserved, reclaim |-> p.reclaim]
  BY RemoveFromFacts
<1> HIDE DEF t, q
<1>4. /\ t.locations = q.locations /\ t.used = q.used /\ t.reserved = q.reserved
      /\ t.feasible /\ t.discarded = s.discarded
      /\ t.locations = [s.locations EXCEPT ![v] = @ \ {l}]
  BY <1>1, <1>2, <1>3
<1>5. \A w \in Values : t.locations[w] = IF w = v THEN s.locations[v] \ {l} ELSE s.locations[w]
  BY <1>1, <1>4
<1>6. \A w \in Values : /\ t.locations[w] # {} => w \in live
                        /\ w \in live => t.locations[w] # {} \/ Reconstructible(w)
  BY <1>1, <1>5 DEF Mirrors
<1>7. t.discarded \cap live = {}
  BY <1>4 DEF Mirrors
<1>8. Mirrors(t, q, live)
  BY <1>2, <1>4, <1>6, <1>7 DEF Mirrors
<1> QED
  BY <1>8 DEF t, q

\* The chosen actions are no part of the placement.
LEMMA MirrorsSame ==
    ASSUME NEW s, NEW p, NEW q, NEW live, Mirrors(s, p, live),
           p.locations = q.locations, p.used = q.used, p.reserved = q.reserved
    PROVE  Mirrors(s, q, live)
BY DEF Mirrors

\* A known value is simulated.
LEMMA KnownActs ==
    ASSUME NEW s, NEW p, NEW live, Mirrors(s, p, live), NEW protected,
           NEW v \in Values, v \in live, NEW l, NEW m
    PROVE  /\ SimulateAction(s, DropResident(v, l), live, protected) =
                 SimulateDrop(s, DropResident(v, l), protected)
           /\ SimulateAction(s, MoveResident(v, l, m), live, protected) =
                 SimulateMove(s, MoveResident(v, l, m), protected)
           /\ SimulateAction(s, EnsureResident(v, l), live, protected) =
                 SimulateEnsure(s, EnsureResident(v, l))
<1>1. s.feasible /\ v \notin s.discarded
  BY DEF Mirrors
<1> DEFINE a == DropResident(v, l)
           b == MoveResident(v, l, m)
           c == EnsureResident(v, l)
<1>2. a.op = "drop" /\ a.handle = v /\ b.op = "move" /\ b.handle = v /\ c.op = "ensure" /\ c.handle = v
  BY DEF DropResident, MoveResident, EnsureResident
<1> HIDE DEF a, b, c
<1>3. SimulateAction(s, a, live, protected) = SimulateDrop(s, a, protected)
  BY <1>1, <1>2 DEF SimulateAction
<1>4. SimulateAction(s, b, live, protected) = SimulateMove(s, b, protected)
  BY <1>1, <1>2 DEF SimulateAction
<1>5. SimulateAction(s, c, live, protected) = SimulateEnsure(s, c)
  BY <1>1, <1>2 DEF SimulateAction
<1> QED
  BY <1>3, <1>4, <1>5 DEF a, b, c

LEMMA DropMirrors ==
    ASSUME NEW s, NEW p \in Placement, NEW live, Mirrors(s, p, live), NEW protected,
           NEW v \in Values, NEW l \in Locations, l \in p.locations[v], <<v, l>> \notin protected,
           p.locations[v] # {l} \/ Reconstructible(v)
    PROVE  Mirrors(SimulateAction(s, DropResident(v, l), live, protected), Dropped(p, v, l).at, live)
<1> DEFINE a == DropResident(v, l)
           q == Dropped(p, v, l).at
           r == RemoveFrom(p, v, l)
<1>1. s.locations = p.locations /\ v \in live
  BY DEF Mirrors
<1>2. a.handle = v /\ a.to = l
  BY DEF DropResident
<1>3. SimulateAction(s, a, live, protected) = SimulateDrop(s, a, protected)
  BY <1>1, KnownActs
<1> HIDE DEF a
<1>4. SimulateDrop(s, a, protected) = RemoveReplica(s, v, l)
  BY <1>1, <1>2 DEF SimulateDrop
<1>5. p.locations[v] \ {l} # {} \/ Reconstructible(v)
  OBVIOUS
<1>6. Mirrors(RemoveReplica(s, v, l), r, live)
  BY <1>5, RemoveMirrors
<1>7. r.locations = q.locations /\ r.used = q.used /\ r.reserved = q.reserved
  <2>1. q = [locations |-> [p.locations EXCEPT ![v] = @ \ {l}],
             used |-> [p.used EXCEPT ![l] = @ - Size[v]],
             reserved |-> p.reserved, reclaim |-> Append(p.reclaim, DropResident(v, l))]
    BY DroppedFacts
  <2>2. r = [locations |-> [p.locations EXCEPT ![v] = @ \ {l}],
             used |-> [p.used EXCEPT ![l] = @ - Size[v]],
             reserved |-> p.reserved, reclaim |-> p.reclaim]
    BY RemoveFromFacts
  <2> HIDE DEF q, r
  <2> QED
    BY <2>1, <2>2
<1> HIDE DEF q, r
<1>8. Mirrors(RemoveReplica(s, v, l), q, live)
  BY <1>6, <1>7, MirrorsSame
<1> QED
  BY <1>3, <1>4, <1>8 DEF a, q

\* A move of a replica that is there, to where there is room.
LEMMA MoveMirrors ==
    ASSUME NEW s, NEW p \in Placement, NEW live, Mirrors(s, p, live), NEW protected,
           NEW v \in Values, NEW l \in Locations, NEW m \in Locations,
           m \in p.locations[v], l \notin p.locations[v], <<v, m>> \notin protected,
           HasRoom(p, l, Size[v])
    PROVE  Mirrors(SimulateAction(s, MoveResident(v, l, m), live, protected),
                   RemoveFrom(PlaceAt(p, v, l), v, m), live)
<1> DEFINE a == MoveResident(v, l, m)
           added == AddReplica(s, v, l)
           q == PlaceAt(p, v, l)
<1>1. s.locations = p.locations /\ v \in live /\ m # NoLocation /\ l # m
  BY NoneAssumption DEF Mirrors
<1>2. a.handle = v /\ a.to = l /\ a.from = m
  BY DEF MoveResident
<1>3. SimulateAction(s, a, live, protected) = SimulateMove(s, a, protected)
  BY <1>1, KnownActs
<1>4. Mirrors(added, q, live)
  BY <1>1, AddMirrors
<1>5. added.feasible
  BY <1>4 DEF Mirrors
<1> HIDE DEF a
<1>6. SimulateMove(s, a, protected) = RemoveReplica(added, v, m)
  <2>1. SelectSource(s.locations[v] \ {a.to}, a.from) = m
    BY <1>1, <1>2 DEF SelectSource
  <2> HIDE DEF added
  <2> QED
    BY <1>1, <1>2, <1>5, <2>1 DEF SimulateMove, added
<1>7. q \in Placement /\ q.locations[v] \ {m} # {}
  <2>0. /\ q = [locations |-> [p.locations EXCEPT ![v] = @ \cup {l}],
                used |-> [p.used EXCEPT ![l] = @ + Size[v]],
                reserved |-> p.reserved, reclaim |-> p.reclaim]
        /\ q \in Placement
    BY PlaceAtFacts
  <2>1. q \in Placement /\ q.locations = [p.locations EXCEPT ![v] = @ \cup {l}]
    <3> HIDE DEF q
    <3> QED
      BY <2>0
  <2>2. q.locations[v] = p.locations[v] \cup {l}
    BY <2>1 DEF Placement
  <2> HIDE DEF q
  <2> QED
    BY <1>1, <2>1, <2>2
<1> HIDE DEF added, q
<1>8. Mirrors(RemoveReplica(added, v, m), RemoveFrom(q, v, m), live)
  BY <1>4, <1>7, RemoveMirrors
<1> QED
  BY <1>3, <1>6, <1>8 DEF a, q

\* A value without a replica is loaded at its source first.
LEMMA LoadMirrors ==
    ASSUME NEW s, NEW p \in Placement, NEW live, Mirrors(s, p, live),
           NEW v \in Values, v \in live, NEW l \in Locations, p.locations[v] = {},
           HasRoom(p, SourceAt[v], Size[v]), HasRoom(p, l, Size[v])
    PROVE  Mirrors(FromSource(s, v, l), PlaceAt(p, v, l), live)
<1> DEFINE loaded == AddTemporary(s, v, SourceAt[v])
<1>1. s.locations = p.locations /\ Reconstructible(v)
  BY DEF Mirrors
<1>2. SourceAt[v] \in Locations /\ Size[v] \in Nat
  BY <1>1, SpecAssumption DEF Reconstructible
<1>3. loaded.feasible /\ Mirrors(loaded, p, live)
  BY <1>2, RoomIsFeasible DEF AddTemporary
<1>4. FromSource(s, v, l) = AddReplica(loaded, v, l)
  BY <1>1, <1>3 DEF FromSource
<1> HIDE DEF loaded
<1>5. Mirrors(AddReplica(loaded, v, l), PlaceAt(p, v, l), live)
  BY <1>3, AddMirrors
<1> QED
  BY <1>4, <1>5

\* One more action at the end.
LEMMA FoldLast ==
    ASSUME NEW world, NEW sim, NEW q \in Seq(ResidencyAction), NEW a \in ResidencyAction
    PROVE  /\ Append(q, a) \in Seq(ResidencyAction)
           /\ Fold(world, sim, Append(q, a)) =
                SimulateAction(Fold(world, sim, q), a, world[1], world[2])
<1> DEFINE r == <<a>>
           none == <<>>
           t == Fold(world, sim, q)
<1>1. r \in Seq(ResidencyAction) /\ r # <<>> /\ Head(r) = a /\ Append(q, a) = q \o r
      /\ Append(q, a) \in Seq(ResidencyAction)
  OBVIOUS
<1>2. Tail(r) = none
  OBVIOUS
<1> HIDE DEF r
<1>3. Fold(world, sim, q \o r) = Fold(world, t, r)
  BY <1>1, FoldConcat
<1>4. Fold(world, t, r) = Fold(world, Do(world, t, a), none)
  BY <1>1, <1>2, FoldFirst
<1>5. Fold(world, Do(world, t, a), none) = Do(world, t, a)
  BY FoldNothing
<1>6. Do(world, t, a) = SimulateAction(t, a, world[1], world[2])
  BY RequestIsNoReservation DEF Do
<1> HIDE DEF none, t
<1>7. Fold(world, sim, Append(q, a)) = SimulateAction(t, a, world[1], world[2])
  BY <1>1, <1>3, <1>4, <1>5, <1>6
<1> QED
  BY <1>1, <1>7 DEF t

(* The plan and the other values' replicas after a relocation. *)
Repositioned(q, p, g) ==
    /\ q.reclaim = Append(p.reclaim, MoveResident(g.handle, g.to, g.from))
    /\ \A w \in Values : w # g.handle => q.locations[w] = p.locations[w]

LEMMA RelocatedMirrors ==
    ASSUME NEW s, NEW p \in Placement, NEW live, Mirrors(s, p, live), NEW protected,
           NEW g, g.handle \in Values, g.from \in Locations, g.to \in Locations,
           p.locations[g.handle] = {g.from}, g.to # g.from, <<g.handle, g.from>> \notin protected,
           HasRoom(p, g.to, Size[g.handle])
    PROVE  /\ Mirrors(SimulateAction(s, MoveResident(g.handle, g.to, g.from), live, protected),
                      Relocated(p, g), live)
           /\ Relocated(p, g) \in Placement
           /\ Repositioned(Relocated(p, g), p, g)
<1> DEFINE v == g.handle
           l == g.to
           m == g.from
           there == PlaceAt(p, v, l)
           q == RemoveFrom(there, v, m)
           a == MoveResident(v, l, m)
           r == [q EXCEPT !.reclaim = Append(@, a)]
<1>1. Relocated(p, g) = r
  BY DEF Relocated
<1>2. /\ there = [locations |-> [p.locations EXCEPT ![v] = @ \cup {l}],
                  used |-> [p.used EXCEPT ![l] = @ + Size[v]],
                  reserved |-> p.reserved, reclaim |-> p.reclaim]
      /\ there \in Placement
  BY PlaceAtFacts
<1>3. a \in ResidencyAction
  BY ActionKinds DEF Place
<1>4. Mirrors(SimulateAction(s, a, live, protected), q, live)
  BY MoveMirrors
<1> HIDE DEF there, a
<1>5. /\ q = [locations |-> [there.locations EXCEPT ![v] = @ \ {m}],
              used |-> [there.used EXCEPT ![m] = @ - Size[v]],
              reserved |-> there.reserved, reclaim |-> there.reclaim]
      /\ q \in Placement
  BY <1>2, RemoveFromFacts
<1> HIDE DEF q
<1>6. /\ r = [locations |-> q.locations, used |-> q.used,
              reserved |-> q.reserved, reclaim |-> Append(q.reclaim, a)]
      /\ r \in Placement
  BY <1>3, <1>5, ReclaimGrows
<1> HIDE DEF r
<1>7. /\ r.reclaim = Append(p.reclaim, a)
      /\ r.locations = q.locations /\ r.used = q.used /\ r.reserved = q.reserved
  BY <1>2, <1>5, <1>6
<1>8. Mirrors(SimulateAction(s, a, live, protected), r, live)
  BY <1>4, <1>7, MirrorsSame
<1>9. \A w \in Values : w # v => r.locations[w] = p.locations[w]
  <2>1. /\ r.locations = [there.locations EXCEPT ![v] = @ \ {m}]
        /\ there.locations = [p.locations EXCEPT ![v] = @ \cup {l}]
        /\ p.locations \in [Values -> SUBSET Locations]
    BY <1>2, <1>5, <1>7 DEF Placement
  <2> QED
    BY <2>1
<1> QED
  BY <1>1, <1>6, <1>7, <1>8, <1>9 DEF a, Repositioned

InUse(q, protected) == \E n \in DOMAIN q : q[n].op = "move" /\ <<q[n].handle, q[n].from>> \in protected

LEMMA InUseGrows ==
    ASSUME NEW q \in Seq(ResidencyAction), NEW a \in ResidencyAction, NEW protected
    PROVE  /\ InUse(q, protected) => InUse(Append(q, a), protected)
           /\ a.op = "move" /\ <<a.handle, a.from>> \in protected => InUse(Append(q, a), protected)
<1> DEFINE r == Append(q, a)
<1>1. /\ Len(q) \in Nat /\ DOMAIN q = 1 .. Len(q)
      /\ DOMAIN r = 1 .. Len(q) + 1
      /\ \A n \in 1 .. Len(q) : r[n] = q[n]
      /\ r[Len(q) + 1] = a
  OBVIOUS
<1> HIDE DEF r
<1>2. \A n \in 1 .. Len(q) : n \in 1 .. Len(q) + 1
  BY <1>1
<1>3. Len(q) + 1 \in 1 .. Len(q) + 1
  BY <1>1
<1>4. InUse(q, protected) => InUse(r, protected)
  BY <1>1, <1>2 DEF InUse
<1>5. a.op = "move" /\ <<a.handle, a.from>> \in protected => InUse(r, protected)
  BY <1>1, <1>3 DEF InUse
<1> QED
  BY <1>4, <1>5 DEF r

Obtainable(p, live) == \A v \in Values : v \in live => p.locations[v] # {} \/ Reconstructible(v)

\* One requirement of the search is one action of the preflight.
LEMMA EnterMirrors ==
    ASSUME NEW st \in RequestState, NEW t, NEW live, NEW protected,
           NEW v \in Values, v \in live, NEW l \in Locations,
           Entering(st, v, l, t), Obtainable(st.at, live)
    PROVE  /\ Obtainable(t.at, live)
           /\ \E a \in ResidencyAction :
                /\ t.enter = Append(st.enter, a)
                /\ \A s : Mirrors(s, st.at, live) =>
                     \/ Mirrors(SimulateAction(s, a, live, protected), t.at, live)
                     \/ a.op = "move" /\ <<a.handle, a.from>> \in protected
<1> DEFINE p == st.at
           S == p.locations[v]
           placed == PlaceAt(p, v, l)
<1>1. p \in Placement /\ S \in SUBSET Locations
  BY StateFields DEF Placement
<1>2. /\ placed = [locations |-> [p.locations EXCEPT ![v] = @ \cup {l}],
                   used |-> [p.used EXCEPT ![l] = @ + Size[v]],
                   reserved |-> p.reserved, reclaim |-> p.reclaim]
      /\ placed \in Placement
  BY <1>1, PlaceAtFacts
<1> HIDE DEF placed
<1>2a. \A w \in Values : placed.locations[w] = IF w = v THEN S \cup {l} ELSE p.locations[w]
  BY <1>1, <1>2 DEF Placement
<1>3. /\ l \notin S
      /\ S = {} => HasRoom(p, SourceAt[v], Size[v])
      /\ HasRoom(p, l, Size[v])
  BY DEF Entering
<1>4. Obtainable(placed, live)
  BY <1>2a DEF Obtainable
<1>5. ASSUME NEW s, Mirrors(s, p, live)
      PROVE  s.locations[v] = S /\ s.feasible
  BY <1>5 DEF Mirrors
<1>6. CASE v \in Exclusive /\ S = {}
  <2> DEFINE a == MoveResident(v, l, NoLocation)
  <2>1. t.at = placed /\ t.enter = Append(st.enter, a)
    BY <1>6 DEF Entering, placed
  <2>2. a \in ResidencyAction
    BY ActionKinds DEF Place
  <2>3. ASSUME NEW s, Mirrors(s, p, live)
        PROVE  Mirrors(SimulateAction(s, a, live, protected), placed, live)
    <3>1. SimulateAction(s, a, live, protected) = SimulateMove(s, a, protected)
      BY <1>1, <2>3, KnownActs
    <3>2. a.handle = v /\ a.to = l /\ a.from = NoLocation
      BY DEF MoveResident
    <3> HIDE DEF a
    <3>3. SimulateMove(s, a, protected) = FromSource(s, v, l)
      BY <1>3, <1>5, <1>6, <2>3, <3>2 DEF SimulateMove
    <3>4. Mirrors(FromSource(s, v, l), placed, live)
      BY <1>1, <1>3, <1>6, <2>3, LoadMirrors DEF placed
    <3> QED
      BY <3>1, <3>3, <3>4
  <2> HIDE DEF a
  <2> QED
    BY <1>4, <2>1, <2>2, <2>3
<1>7. CASE v \in Exclusive /\ S # {}
  <2> DEFINE m == FirstLocation(S)
             a == MoveResident(v, l, m)
             q == RemoveFrom(placed, v, m)
  <2>1. t.at = q /\ t.enter = Append(st.enter, a)
    BY <1>7 DEF Entering, placed
  <2>2. m \in S /\ m \in Locations
    BY <1>1, <1>7, FirstLocationExists
  <2>3. a \in ResidencyAction /\ a.op = "move" /\ a.handle = v /\ a.from = m
    <3>1. a \in ResidencyAction
      BY <2>2, ActionKinds DEF Place
    <3> QED
      BY <3>1 DEF MoveResident
  <2>4. ASSUME NEW s, Mirrors(s, p, live), <<v, m>> \notin protected
        PROVE  Mirrors(SimulateAction(s, a, live, protected), q, live)
    BY <1>1, <1>3, <2>2, <2>4, MoveMirrors DEF placed
  <2>5. Obtainable(q, live)
    <3>1. /\ q = [locations |-> [placed.locations EXCEPT ![v] = @ \ {m}],
                  used |-> [placed.used EXCEPT ![m] = @ - Size[v]],
                  reserved |-> placed.reserved, reclaim |-> placed.reclaim]
      BY <1>2, <2>2, RemoveFromFacts
    <3> HIDE DEF q
    <3>2. \A w \in Values : q.locations[w] = IF w = v THEN (S \cup {l}) \ {m} ELSE p.locations[w]
      BY <1>2, <1>2a, <3>1 DEF Placement
    <3> QED
      BY <1>3, <2>2, <3>2 DEF Obtainable
  <2> HIDE DEF a, q
  <2> QED
    BY <2>1, <2>3, <2>4, <2>5
<1>8. CASE v \notin Exclusive
  <2> DEFINE a == EnsureResident(v, l)
  <2>1. t.at = placed /\ t.enter = Append(st.enter, a)
    BY <1>8 DEF Entering, placed
  <2>2. a \in ResidencyAction
    BY ActionKinds DEF Place
  <2>3. ASSUME NEW s, Mirrors(s, p, live)
        PROVE  Mirrors(SimulateAction(s, a, live, protected), placed, live)
    <3>1. SimulateAction(s, a, live, protected) = SimulateEnsure(s, a)
      BY <1>1, <2>3, KnownActs
    <3>2. a.handle = v /\ a.to = l
      BY DEF EnsureResident
    <3> HIDE DEF a
    <3>3. SimulateEnsure(s, a) = IF S = {} THEN FromSource(s, v, l) ELSE AddReplica(s, v, l)
      BY <1>3, <1>5, <1>8, <2>3, <3>2 DEF SimulateEnsure
    <3>4. S = {} => Mirrors(FromSource(s, v, l), placed, live)
      BY <1>1, <1>3, <2>3, LoadMirrors DEF placed
    <3>5. Mirrors(AddReplica(s, v, l), placed, live)
      BY <1>1, <1>3, <2>3, AddMirrors DEF placed
    <3> QED
      BY <3>1, <3>3, <3>4, <3>5
  <2> HIDE DEF a
  <2> QED
    BY <1>4, <2>1, <2>2, <2>3
<1> QED
  BY <1>6, <1>7, <1>8

-----------------------------------------------------------------------------
(* The request on a placement passes the dry run that reached it.          *)

LEMMA AdmitMirrors ==
    ASSUME NEW s, NEW p \in Placement, NEW live, Mirrors(s, p, live),
           NEW r \in MemoryReservation, HasRoom(p, r.location, r.nbytes),
           NEW q, q.locations = p.locations, q.used = p.used,
           q.reserved = [p.reserved EXCEPT ![r.location] = @ + r.nbytes]
    PROVE  Mirrors(AdmitReservation(s, r), q, live)
<1> DEFINE t == AdmitReservation(s, r)
<1>1. r.location \in Locations /\ r.nbytes \in Nat
  BY DEF MemoryReservation
<1>2. s \in SimulationRecord /\ s.feasible
  BY DEF Mirrors
<1>3. Touch(s, r.location, r.nbytes).feasible
  BY <1>1, RoomIsFeasible
<1>4. /\ t = [locations |-> s.locations, discarded |-> s.discarded, used |-> s.used,
              reserved |-> [s.reserved EXCEPT ![r.location] = @ + r.nbytes],
              peaks |-> Touch(s, r.location, r.nbytes).peaks,
              feasible |-> Touch(s, r.location, r.nbytes).feasible]
      /\ t \in SimulationRecord
  BY <1>2, AdmitFacts
<1> HIDE DEF t
<1>5. /\ t.locations = s.locations /\ t.discarded = s.discarded /\ t.used = s.used
      /\ t.reserved = [s.reserved EXCEPT ![r.location] = @ + r.nbytes] /\ t.feasible
  BY <1>3, <1>4
<1>6. /\ s.locations = p.locations /\ s.used = p.used /\ s.reserved = p.reserved
  BY DEF Mirrors
<1>7. Mirrors(t, q, live)
  BY <1>4, <1>5, <1>6 DEF Mirrors
<1> QED
  BY <1>7 DEF t

LEMMA ReservationsMirror ==
    ASSUME NEW s, NEW p \in Placement, NEW live, Mirrors(s, p, live),
           NEW q \in Seq(MemoryReservation), NEW none, none = <<>>
    PROVE  LET start == [at |-> p, enter |-> none, short |-> NoLocation]
               st == Ext!FoldLeft(SimulateReservation, start, q)
           IN  /\ st \in RequestState
               /\ st.short = NoLocation =>
                    /\ st.enter = none
                    /\ Mirrors(Ext!FoldLeft(AdmitReservation, s, q), st.at, live)
<1> DEFINE start == [at |-> p, enter |-> none, short |-> NoLocation]
           st == Ext!FoldLeft(SimulateReservation, start, q)
           ad == Ext!FoldLeft(AdmitReservation, s, q)
           how == <<"reserve">>
           how2 == <<"admit">>
           Good(x, y) == x.short = NoLocation => x.enter = none /\ Mirrors(y, x.at, live)
           G == {e \in RequestState \X SimulationRecord : Good(e[1], e[2])}
<1>1. start \in RequestState /\ start.at = p /\ start.enter = none
  <2>1. none \in Seq(ResidencyAction) /\ NoLocation \in Place
    BY EmptySeq DEF Place
  <2> QED
    BY <2>1 DEF RequestState
<1> HIDE DEF start
<1>2. Runs(st, how, start, q) /\ Runs(ad, how2, s, q)
  BY ReserveRuns, AdmitRuns
<1>3. <<start, s>> \in G
  <2>1. s \in SimulationRecord
    BY DEF Mirrors
  <2> QED
    BY <1>1, <2>1
<1>4. ASSUME NEW x, NEW y, <<x, y>> \in G, NEW r \in MemoryReservation
      PROVE  <<Combine(how, x, r), Combine(how2, y, r)>> \in G
  <2> DEFINE x2 == SimulateReservation(x, r)
             y2 == AdmitReservation(y, r)
  <2>1. Combine(how, x, r) = x2 /\ Combine(how2, y, r) = y2
    BY DEF Combine
  <2>2. x \in RequestState /\ y \in SimulationRecord /\ Good(x, y)
    BY <1>4
  <2>3. x2 \in RequestState
    BY <2>2, ReservationFacts
  <2>4. y2 \in SimulationRecord
    <3>1. CASE y.feasible
      BY <2>2, <3>1, AdmitFacts
    <3>2. CASE ~y.feasible
      BY <2>2, <3>2 DEF AdmitReservation
    <3> QED
      BY <3>1, <3>2
  <2>5. ASSUME x2.short = NoLocation PROVE x2.enter = none /\ Mirrors(y2, x2.at, live)
    <3> DEFINE l == r.location
               p2 == [locations |-> x.at.locations, used |-> x.at.used,
                      reserved |-> [x.at.reserved EXCEPT ![l] = @ + r.nbytes],
                      reclaim |-> x.at.reclaim]
    <3>1. /\ x.short = NoLocation /\ HasRoom(x.at, l, r.nbytes)
          /\ x2 = [at |-> p2, enter |-> x.enter, short |-> NoLocation]
      BY <2>2, <2>5, ReservationFacts
    <3>2. x.at \in Placement
      BY <2>2, StateFields
    <3>3. p2.locations = x.at.locations /\ p2.used = x.at.used
          /\ p2.reserved = [x.at.reserved EXCEPT ![l] = @ + r.nbytes]
      OBVIOUS
    <3> HIDE DEF x2, y2, p2, l
    <3>4. Mirrors(y2, p2, live)
      BY <2>2, <3>1, <3>2, <3>3, AdmitMirrors DEF y2, l
    <3> QED
      BY <2>2, <3>1, <3>4
  <2> HIDE DEF how, how2, x2, y2
  <2>6. Good(x2, y2)
    BY <2>5
  <2> HIDE DEF Good
  <2> QED
    BY <2>1, <2>3, <2>4, <2>6
<1> HIDE DEF how, how2, st, ad, G
<1>5. <<st, ad>> \in G
  BY <1>2, <1>3, <1>4, RunsStayRelated
<1>6. st \in RequestState /\ Good(st, ad)
  BY <1>5 DEF G
<1> QED
  BY <1>6 DEF st, ad, start

\* A request that finds room on a placement passes the preflight there.
LEMMA RequestPasses ==
    ASSUME NEW ctx \in SearchContext, NEW p \in Placement, NEW s, NEW live,
           Mirrors(s, p, live),
           \A n \in DOMAIN ctx.request.requirements : ctx.request.requirements[n].handle \in live,
           SimulateRequest(p, ctx.request).short = NoLocation
    PROVE  LET st == SimulateRequest(p, ctx.request)
               admitted == Ext!FoldLeft(AdmitReservation, s, ctx.request.reservations)
           IN  \/ InUse(st.enter, ctx.protected)
               \/ Fold(<<live, ctx.protected>>, admitted, st.enter).feasible
<1> DEFINE none == <<>>
           start == [at |-> p, enter |-> none, short |-> NoLocation]
           rs == ctx.request.reservations
           qs == ctx.request.requirements
           world == <<live, ctx.protected>>
           first == Ext!FoldLeft(SimulateReservation, start, rs)
           st == Ext!FoldLeft(SimulateRequirement, first, qs)
           ad == Ext!FoldLeft(AdmitReservation, s, rs)
           R == {q \in [handle : Values, location : Locations] : q.handle \in live}
           how == <<"require">>
           Good(x) == x.short = NoLocation =>
                         /\ Obtainable(x.at, live)
                         /\ \/ InUse(x.enter, ctx.protected)
                            \/ Mirrors(Fold(world, ad, x.enter), x.at, live)
           G == {x \in RequestState : Good(x)}
<1>1. rs \in Seq(MemoryReservation)
  BY DEF SearchContext
<1>2. SimulateRequest(p, ctx.request) = st
  BY DEF SimulateRequest
<1>3. /\ first \in RequestState
      /\ first.short = NoLocation => first.enter = none /\ Mirrors(ad, first.at, live)
  <2> HIDE DEF none, rs
  <2>1. none = <<>>
    BY DEF none
  <2> QED
    BY <1>1, <2>1, ReservationsMirror
<1>4. qs \in Seq(R)
  <2>1. qs \in Seq([handle : Values, location : Locations])
    BY DEF SearchContext
  <2>2. /\ Len(qs) \in Nat /\ DOMAIN qs = 1 .. Len(qs)
        /\ \A n \in DOMAIN qs : qs[n] \in [handle : Values, location : Locations]
        /\ qs = [n \in 1 .. Len(qs) |-> qs[n]]
    BY <2>1, LenProperties
  <2>3. \A n \in 1 .. Len(qs) : qs[n] \in R
    BY <2>2
  <2> HIDE DEF qs, R
  <2> QED
    BY <2>2, <2>3
<1>5. Runs(st, how, first, qs)
  BY <1>4, RequireRuns
<1>6. first \in G
  <2>1. ASSUME first.short = NoLocation
        PROVE  Obtainable(first.at, live) /\ Mirrors(Fold(world, ad, first.enter), first.at, live)
    <3> HIDE DEF first, ad, world, none
    <3>1. first.enter = none /\ Mirrors(ad, first.at, live)
      BY <1>3, <2>1
    <3>2. Fold(world, ad, none) = ad
      BY FoldNothing DEF none
    <3>3. Obtainable(first.at, live)
      BY <3>1 DEF Mirrors, Obtainable
    <3> QED
      BY <3>1, <3>2, <3>3
  <2> HIDE DEF first
  <2> QED
    BY <1>3, <2>1
<1> HIDE DEF first, ad, none, rs
<1>7. ASSUME NEW x \in G, NEW q \in R PROVE Combine(how, x, q) \in G
  <2> DEFINE t == SimulateRequirement(x, q)
             v == q.handle
             l == q.location
  <2>1. Combine(how, x, q) = t
    BY DEF Combine
  <2>2. x \in RequestState /\ Good(x) /\ v \in Values /\ l \in Locations /\ v \in live
    OBVIOUS
  <2>3. t \in RequestState
    BY <2>2, RequirementFacts
  <2>4. ASSUME t.short = NoLocation PROVE Good(t)
    <3>0. x.short = NoLocation
      <4>1. CASE x.short # NoLocation
        <5>1. t = x
          BY <4>1 DEF SimulateRequirement
        <5> QED
          BY <2>4, <5>1
      <4> QED
        BY <4>1
    <3>1. Obtainable(x.at, live) /\ (InUse(x.enter, ctx.protected) \/ Mirrors(Fold(world, ad, x.enter), x.at, live))
      BY <2>2, <3>0
    <3>2. x.at.locations[v] # {} \/ Reconstructible(v)
      BY <2>2, <3>1 DEF Obtainable
    <3>3. t = x \/ Entering(x, v, l, t)
      BY <2>2, <2>4, <3>2, RequirementFacts
    <3>4. CASE t = x
      BY <2>2, <3>4
    <3>5. CASE Entering(x, v, l, t)
      <4> HIDE DEF Good, t
      <4>1. Obtainable(t.at, live)
        BY <2>2, <3>1, <3>5, EnterMirrors
      <4>2. PICK a \in ResidencyAction :
              /\ t.enter = Append(x.enter, a)
              /\ \A z : Mirrors(z, x.at, live) =>
                   \/ Mirrors(SimulateAction(z, a, live, ctx.protected), t.at, live)
                   \/ a.op = "move" /\ <<a.handle, a.from>> \in ctx.protected
        BY <2>2, <3>1, <3>5, EnterMirrors
      <4>3. x.enter \in Seq(ResidencyAction)
        BY <2>2, StateFields
      <4>4. Fold(world, ad, t.enter) = SimulateAction(Fold(world, ad, x.enter), a, live, ctx.protected)
        <5>1. Fold(world, ad, Append(x.enter, a)) = SimulateAction(Fold(world, ad, x.enter), a, world[1], world[2])
          BY <4>3, FoldLast
        <5>2. world[1] = live /\ world[2] = ctx.protected
          OBVIOUS
        <5> HIDE DEF world
        <5> QED
          BY <4>2, <5>1, <5>2
      <4> HIDE DEF world
      <4>5. InUse(x.enter, ctx.protected) => InUse(t.enter, ctx.protected)
        BY <4>2, <4>3, InUseGrows
      <4>6. a.op = "move" /\ <<a.handle, a.from>> \in ctx.protected => InUse(t.enter, ctx.protected)
        BY <4>2, <4>3, InUseGrows
      <4>7. InUse(t.enter, ctx.protected) \/ Mirrors(Fold(world, ad, t.enter), t.at, live)
        BY <3>1, <4>2, <4>4, <4>5, <4>6
      <4> QED
        BY <4>1, <4>7 DEF Good
    <3> QED
      BY <3>3, <3>4, <3>5
  <2>5. Good(t)
    BY <2>4
  <2> HIDE DEF Good, t
  <2> QED
    BY <2>1, <2>3, <2>5
<1> HIDE DEF st, how, G, R, qs
<1>8. st \in G
  BY <1>4, <1>5, <1>6, <1>7, RunStays
<1>9. InUse(st.enter, ctx.protected) \/ Mirrors(Fold(world, ad, st.enter), st.at, live)
  <2>1. st.short = NoLocation
    BY <1>2
  <2> QED
    BY <1>8, <2>1 DEF G
<1>10. InUse(st.enter, ctx.protected) \/ Fold(world, ad, st.enter).feasible
  BY <1>9 DEF Mirrors
<1> QED
  BY <1>2, <1>10 DEF ad, rs

-----------------------------------------------------------------------------
(* Goals.  A relocation that is still to come moves the only replica of a  *)
(* value nothing before it may touch, and the goal before it makes room.   *)

Pending(p, goals, i, protected) ==
    LET g == goals[i]
    IN  /\ p.locations[g.handle] = {g.from} /\ g.to # g.from
        /\ <<g.handle, g.from>> \notin protected
        /\ i = 1 => HasRoom(p, g.to, Size[g.handle])
        /\ i > 1 => /\ goals[i - 1].kind = "room" /\ goals[i - 1].at = g.to
                    /\ goals[i - 1].nbytes = Size[g.handle]
        /\ \A j \in 1 .. i - 1 :
              IF goals[j].kind = "room" THEN g.handle \in goals[j].blocked
              ELSE goals[j].handle # g.handle

GoalsFit(p, goals, protected) ==
    \A i \in 1 .. Len(goals) : goals[i].kind = "relocate" => Pending(p, goals, i, protected)

LEMMA GoalTyped ==
    ASSUME NEW goals \in Seq(Goal), NEW i \in 1 .. Len(goals)
    PROVE  /\ goals[i].kind \in {"room", "relocate"}
           /\ goals[i].kind = "relocate" =>
                 /\ goals[i].handle \in Values
                 /\ goals[i].from \in Locations /\ goals[i].to \in Locations
<1>1. goals[i] \in Goal
  BY ElementOfSeq
<1> QED
  BY <1>1 DEF Goal

\* The goal at the head is reached; q only differs from p in the value that a
\* relocation moved.
LEMMA RestFits ==
    ASSUME NEW p, NEW q, NEW protected, NEW goals \in Seq(Goal), goals # <<>>,
           GoalsFit(p, goals, protected),
           goals[1].kind = "room" => q = p /\ HasRoom(p, goals[1].at, goals[1].nbytes),
           goals[1].kind = "relocate" =>
              \A w \in Values : w # goals[1].handle => q.locations[w] = p.locations[w]
    PROVE  GoalsFit(q, Tail(goals), protected)
<1> DEFINE rest == Tail(goals)
           n == Len(goals)
<1>1. /\ n \in Nat /\ n >= 1 /\ rest \in Seq(Goal) /\ Len(rest) = n - 1
      /\ \A i \in 1 .. n - 1 : rest[i] = goals[i + 1]
  BY HeadTailProperties, EmptySeq
<1> HIDE DEF rest, n
<1>2. ASSUME NEW i \in 1 .. n - 1, rest[i].kind = "relocate"
      PROVE  Pending(q, rest, i, protected)
  <2> DEFINE k == i + 1
             g == goals[k]
  <2>1. k \in 1 .. n /\ k > 1 /\ rest[i] = g /\ k - 1 = i /\ 1 \in 1 .. k - 1 /\ 1 \in 1 .. n
    BY <1>1
  <2>2. g.kind = "relocate"
    BY <1>2, <2>1
  <2>3. Pending(p, goals, k, protected)
    BY <2>1, <2>2 DEF GoalsFit, n
  <2> HIDE DEF k
  <2>4. g.handle \in Values /\ goals[1].kind \in {"room", "relocate"}
    BY <2>1, <2>2, GoalTyped DEF n
  <2>5. /\ p.locations[g.handle] = {g.from} /\ g.to # g.from
        /\ <<g.handle, g.from>> \notin protected
        /\ goals[k - 1].kind = "room" /\ goals[k - 1].at = g.to
        /\ goals[k - 1].nbytes = Size[g.handle]
        /\ \A j \in 1 .. k - 1 : IF goals[j].kind = "room" THEN g.handle \in goals[j].blocked
                                 ELSE goals[j].handle # g.handle
    BY <2>1, <2>3 DEF Pending
  <2>6. q.locations[g.handle] = p.locations[g.handle]
    <3>1. CASE goals[1].kind = "room"
      BY <3>1
    <3>2. CASE goals[1].kind = "relocate"
      <4>1. goals[1].handle # g.handle
        BY <2>1, <2>5, <3>2
      <4> QED
        BY <2>4, <3>2, <4>1
    <3> QED
      BY <2>4, <3>1, <3>2
  <2>7. i = 1 => HasRoom(q, g.to, Size[g.handle])
    <3> SUFFICES ASSUME i = 1 PROVE HasRoom(q, g.to, Size[g.handle])
      OBVIOUS
    <3>1. goals[1].kind = "room" /\ goals[1].at = g.to /\ goals[1].nbytes = Size[g.handle]
      BY <2>1, <2>5
    <3> QED
      BY <3>1
  <2>8. i > 1 => rest[i - 1].kind = "room" /\ rest[i - 1].at = g.to /\ rest[i - 1].nbytes = Size[g.handle]
    <3> SUFFICES ASSUME i > 1 PROVE rest[i - 1] = goals[k - 1]
      BY <2>5
    <3>1. i - 1 \in 1 .. n - 1 /\ (i - 1) + 1 = k - 1
      BY <1>1, <2>1
    <3>2. rest[i - 1] = goals[(i - 1) + 1]
      BY <1>1, <3>1
    <3> QED
      BY <3>1, <3>2
  <2>9. ASSUME NEW j \in 1 .. i - 1
        PROVE  IF rest[j].kind = "room" THEN g.handle \in rest[j].blocked ELSE rest[j].handle # g.handle
    <3>1. j \in 1 .. n - 1 /\ j + 1 \in 1 .. k - 1
      BY <1>1, <2>1
    <3>2. rest[j] = goals[j + 1]
      BY <1>1, <3>1
    <3> QED
      BY <2>5, <3>1, <3>2
  <2> HIDE DEF g
  <2> QED
    BY <2>1, <2>5, <2>6, <2>7, <2>8, <2>9 DEF Pending
<1>3. GoalsFit(q, rest, protected)
  BY <1>1, <1>2 DEF GoalsFit
<1> QED
  BY <1>3 DEF rest

\* What the room a choice makes must leave alone.
Untouched(goals) == IF goals = <<>> THEN {} ELSE goals[1].blocked

\* Dropping a replica of another value disturbs no goal.
LEMMA DropFits ==
    ASSUME NEW p, NEW q, NEW protected, NEW goals \in Seq(Goal),
           goals # <<>> => goals[1].kind = "room",
           GoalsFit(p, goals, protected),
           NEW v, v \notin Untouched(goals),
           \A w \in Values : w # v => q.locations[w] = p.locations[w]
    PROVE  GoalsFit(q, goals, protected)
<1>1. Len(goals) \in Nat
  BY LenProperties
<1>2. ASSUME NEW i \in 1 .. Len(goals), goals[i].kind = "relocate"
      PROVE  Pending(q, goals, i, protected)
  <2> DEFINE g == goals[i]
  <2>1. Pending(p, goals, i, protected)
    BY <1>2 DEF GoalsFit
  <2>2. goals # <<>> /\ 1 \in 1 .. Len(goals)
    BY <1>1, EmptySeq
  <2>3. i # 1
    BY <1>2, <2>2
  <2>4. 1 \in 1 .. i - 1 /\ g.handle \in goals[1].blocked
    <3>1. 1 \in 1 .. i - 1
      BY <1>1, <2>3
    <3> QED
      BY <2>1, <2>2, <3>1 DEF Pending
  <2>5. g.handle # v /\ g.handle \in Values
    BY <1>2, <2>2, <2>4, GoalTyped DEF Untouched
  <2>6. q.locations[g.handle] = p.locations[g.handle]
    BY <2>5
  <2> QED
    BY <2>1, <2>3, <2>6 DEF Pending
<1> QED
  BY <1>2 DEF GoalsFit

LEMMA PairInFront ==
    ASSUME NEW A, NEW s \in Seq(A), NEW q \in Seq(A), Len(s) = 2
    PROVE  /\ Len(q) \in Nat /\ s \o q \in Seq(A) /\ Len(s \o q) = 2 + Len(q)
           /\ \A i \in 1 .. 2 + Len(q) : (s \o q)[i] = IF i <= 2 THEN s[i] ELSE q[i - 2]
<1>1. /\ s \o q \in Seq(A)
      /\ Len(s \o q) = Len(s) + Len(q)
      /\ \A i \in 1 .. Len(s) + Len(q) : (s \o q)[i] = IF i <= Len(s) THEN s[i] ELSE q[i - Len(s)]
  BY ConcatProperties
<1>2. Len(q) \in Nat
  BY LenProperties
<1> QED
  BY <1>1, <1>2

\* Two goals, one after the other.
Then(g, h) == <<g, h>>

\* Making room elsewhere for a value, then moving it there, fits in front.
LEMMA MoveFits ==
    ASSUME NEW p, NEW protected, NEW goals \in Seq(Goal),
           goals # <<>> => goals[1].kind = "room",
           GoalsFit(p, goals, protected),
           NEW v \in Values, v \notin Untouched(goals), NEW l \in Locations, NEW m \in Locations,
           p.locations[v] = {l}, m # l, <<v, l>> \notin protected,
           NEW r \in Goal, r.kind = "room", r.at = m, r.nbytes = Size[v],
           r.blocked = Untouched(goals) \cup {v},
           NEW h \in Goal, h.kind = "relocate", h.handle = v, h.from = l, h.to = m
    PROVE  GoalsFit(p, Then(r, h) \o goals, protected)
<1> DEFINE s == Then(r, h)
           c == s \o goals
           n == Len(goals)
<1>1. s \in Seq(Goal) /\ Len(s) = 2 /\ s[1] = r /\ s[2] = h
  BY DEF Then
<1> HIDE DEF s
<1>2. /\ n \in Nat /\ c \in Seq(Goal) /\ Len(c) = 2 + n
      /\ \A i \in 1 .. 2 + n : c[i] = IF i <= 2 THEN s[i] ELSE goals[i - 2]
  BY <1>1, PairInFront
<1> HIDE DEF c, n
<1>3. c[1] = r /\ c[2] = h
  BY <1>1, <1>2
<1>4. \A i \in 1 .. n : c[i + 2] = goals[i]
  <2> SUFFICES ASSUME NEW i \in 1 .. n PROVE c[i + 2] = goals[i]
    OBVIOUS
  <2>1. i + 2 \in 1 .. 2 + n /\ ~(i + 2 <= 2) /\ (i + 2) - 2 = i
    BY <1>2
  <2> QED
    BY <1>2, <2>1
<1>5. Pending(p, c, 2, protected)
  <2>1. \A j \in 1 .. 2 - 1 : j = 1
    OBVIOUS
  <2>2. 2 - 1 = 1 /\ 2 # 1
    OBVIOUS
  <2>3. \A j \in 1 .. 2 - 1 : IF c[j].kind = "room" THEN h.handle \in c[j].blocked ELSE c[j].handle # h.handle
    BY <1>3, <2>1
  <2> QED
    BY <1>3, <2>2, <2>3 DEF Pending
<1>6. ASSUME NEW i \in 1 .. n, goals[i].kind = "relocate"
      PROVE  Pending(p, c, i + 2, protected)
  <2> DEFINE g == goals[i]
             k == i + 2
  <2>1. Pending(p, goals, i, protected)
    BY <1>6 DEF GoalsFit, n
  <2>2. goals # <<>> /\ i \in Nat
    BY <1>2, EmptySeq DEF n
  <2>3. i # 1
    BY <1>6, <2>2
  <2>4. 1 \in 1 .. i - 1 /\ i > 1
    BY <1>2, <2>3
  <2>5. /\ p.locations[g.handle] = {g.from} /\ g.to # g.from
        /\ <<g.handle, g.from>> \notin protected
        /\ goals[i - 1].kind = "room" /\ goals[i - 1].at = g.to
        /\ goals[i - 1].nbytes = Size[g.handle]
        /\ \A j \in 1 .. i - 1 : IF goals[j].kind = "room" THEN g.handle \in goals[j].blocked
                                 ELSE goals[j].handle # g.handle
    BY <2>1, <2>4 DEF Pending
  <2>6. g.handle \in goals[1].blocked
    BY <2>2, <2>4, <2>5
  <2>7. g.handle # v /\ g.handle \in r.blocked
    BY <2>2, <2>6 DEF Untouched
  <2>8. c[k] = g /\ c[k - 1] = goals[i - 1] /\ k # 1
    <3>1. i - 1 \in 1 .. n /\ (i - 1) + 2 = k - 1
      BY <1>2, <2>4
    <3> QED
      BY <1>4, <2>2, <3>1
  <2>9. ASSUME NEW j \in 1 .. k - 1
        PROVE  IF c[j].kind = "room" THEN g.handle \in c[j].blocked ELSE c[j].handle # g.handle
    <3>1. CASE j = 1
      BY <1>3, <2>7, <3>1
    <3>2. CASE j = 2
      BY <1>3, <2>7, <3>2
    <3>3. CASE j # 1 /\ j # 2
      <4>1. j - 2 \in 1 .. i - 1 /\ j - 2 \in 1 .. n /\ (j - 2) + 2 = j
        BY <1>2, <3>3
      <4>2. c[j] = goals[j - 2]
        BY <1>4, <4>1
      <4> QED
        BY <2>5, <4>1, <4>2
    <3> QED
      BY <3>1, <3>2, <3>3
  <2> HIDE DEF g, k
  <2>10. Pending(p, c, k, protected)
    BY <2>5, <2>8, <2>9 DEF Pending
  <2> QED
    BY <2>10 DEF k
<1>7. ASSUME NEW i \in 1 .. 2 + n, c[i].kind = "relocate" PROVE Pending(p, c, i, protected)
  <2>1. i # 1
    BY <1>3, <1>7
  <2>2. CASE i = 2
    BY <1>5, <2>2
  <2>3. CASE i # 2
    <3>1. i - 2 \in 1 .. n /\ (i - 2) + 2 = i
      BY <1>2, <2>1, <2>3
    <3>2. goals[i - 2].kind = "relocate"
      BY <1>4, <1>7, <3>1
    <3>3. Pending(p, c, (i - 2) + 2, protected)
      BY <1>6, <3>1, <3>2
    <3> QED
      BY <3>1, <3>3
  <2> QED
    BY <2>2, <2>3
<1>8. GoalsFit(p, c, protected)
  BY <1>2, <1>7 DEF GoalsFit
<1> QED
  BY <1>8 DEF c, s

-----------------------------------------------------------------------------
(* Every placement the search reaches is one the dry run reaches.          *)

Reaches(x, sim, live, ctx) ==
    /\ Mirrors(Fold(<<live, ctx.protected>>, sim, x.at.reclaim), x.at, live)
    /\ GoalsFit(x.at, x.goals, ctx.protected)

\* A plan is the way to a placement on which the request finds room.
PlanAt(r, p, sim, live, ctx) ==
    /\ Mirrors(Fold(<<live, ctx.protected>>, sim, p.reclaim), p, live)
    /\ SimulateRequest(p, ctx.request).short = NoLocation
    /\ r.reclaim = p.reclaim /\ r.enter = SimulateRequest(p, ctx.request).enter

PlanReached(r, sim, live, ctx) ==
    r.verdict = "plan" => \E p \in Placement : PlanAt(r, p, sim, live, ctx)

LEMMA FirstIsChosen ==
    ASSUME NEW A, NEW try, NEW q \in Seq(A), NEW x
    PROVE  FirstOf(try, q, x) \in {Exhausted} \cup {try[Chosen(c, x)] : c \in A}
<1> DEFINE how == <<"first", try, x>>
           G == {Exhausted} \cup {try[Chosen(c, x)] : c \in A}
<1>1. Runs(FirstOf(try, q, x), how, Exhausted, q)
  BY FirstRuns
<1>2. Exhausted \in G
  OBVIOUS
<1>3. ASSUME NEW r \in G, NEW c \in A PROVE Combine(how, r, c) \in G
  <2>1. Combine(how, r, c) = IF r # Exhausted THEN r ELSE try[Chosen(c, x)]
    BY DEF Combine, Chosen
  <2> QED
    BY <2>1
<1> HIDE DEF how, G
<1>4. FirstOf(try, q, x) \in G
  BY <1>1, <1>2, <1>3, RunStays
<1> QED
  BY <1>4 DEF G

LEMMA SafeDrop ==
    ASSUME NEW ctx \in SearchContext, NEW sim, NEW live, NEW x \in Nodes, Reaches(x, sim, live, ctx),
           x.goals # <<>> => x.goals[1].kind = "room",
           NEW l \in Locations, NEW v \in Droppable(x.at, l, Untouched(x.goals), ctx)
    PROVE  Reaches(Chosen(Dropped(x.at, v, l), x), sim, live, ctx)
<1> DEFINE p == x.at
           d == Dropped(p, v, l)
           q == d.at
           y == Chosen(d, x)
           world == <<live, ctx.protected>>
           s == Fold(world, sim, p.reclaim)
           a == DropResident(v, l)
           none == <<>>
<1>1. p \in Placement /\ x.goals \in Seq(Goal) /\ p.reclaim \in Seq(ResidencyAction)
  BY NodeTyped DEF Placement
<1>2. /\ v \in Values /\ l \in p.locations[v] /\ v \notin Untouched(x.goals)
      /\ <<v, l>> \notin ctx.protected /\ (p.locations[v] # {l} \/ Reconstructible(v))
  BY DEF Droppable, Eligible
<1>3. Mirrors(s, p, live) /\ GoalsFit(p, x.goals, ctx.protected)
  BY DEF Reaches
<1>4. Mirrors(SimulateAction(s, a, live, ctx.protected), q, live)
  <2> HIDE DEF s, a, p
  <2> QED
    BY <1>1, <1>2, <1>3, DropMirrors DEF a
<1>5. /\ q = [locations |-> [p.locations EXCEPT ![v] = @ \ {l}],
              used |-> [p.used EXCEPT ![l] = @ - Size[v]],
              reserved |-> p.reserved, reclaim |-> Append(p.reclaim, a)]
      /\ d.goals = none
  <2> HIDE DEF p
  <2> QED
    BY <1>1, <1>2, DroppedFacts
<1> HIDE DEF d, q
<1>6. q.reclaim = Append(p.reclaim, a)
  BY <1>5
<1>7. a \in ResidencyAction
  BY <1>2, ActionKinds DEF Place
<1>8. Fold(world, sim, q.reclaim) = SimulateAction(s, a, live, ctx.protected)
  <2>1. Fold(world, sim, Append(p.reclaim, a)) = SimulateAction(s, a, world[1], world[2])
    BY <1>1, <1>7, FoldLast
  <2>2. world[1] = live /\ world[2] = ctx.protected
    OBVIOUS
  <2> HIDE DEF world, s, a
  <2> QED
    BY <1>6, <2>1, <2>2
<1>9. \A w \in Values : w # v => q.locations[w] = p.locations[w]
  BY <1>1, <1>5 DEF Placement
<1>10. GoalsFit(q, x.goals, ctx.protected)
  <2> HIDE DEF p
  <2> QED
    BY <1>1, <1>2, <1>3, <1>9, DropFits DEF p
<1>11. y.at = q /\ y.goals = x.goals
  <2>1. y.at = d.at /\ y.goals = d.goals \o x.goals
    BY DEF Chosen, Node
  <2>2. none \o x.goals = x.goals
    BY <1>1, ConcatEmptySeq
  <2> HIDE DEF y, none
  <2> QED
    BY <1>5, <2>1, <2>2 DEF q
<1> HIDE DEF y, s, a
<1>12. Reaches(y, sim, live, ctx)
  BY <1>4, <1>8, <1>10, <1>11 DEF Reaches
<1> QED
  BY <1>12 DEF y, d

LEMMA SafeMove ==
    ASSUME NEW ctx \in SearchContext, NEW sim, NEW live, NEW x \in Nodes, Reaches(x, sim, live, ctx),
           x.goals # <<>> => x.goals[1].kind = "room",
           Untouched(x.goals) \in SUBSET Values, NEW active \in SUBSET (Values \X Locations),
           NEW l \in Locations, NEW e \in Movable(x.at, l, Untouched(x.goals), ctx)
    PROVE  Reaches(Chosen(Moved(x.at, e[1], l, e[2], Untouched(x.goals), active), x), sim, live, ctx)
<1> DEFINE p == x.at
           v == e[1]
           m == e[2]
           blocked == Untouched(x.goals)
           d == Moved(p, v, l, m, blocked, active)
           y == Chosen(d, x)
           n == IF m \in p.locations[v] THEN 0 ELSE Size[v]
           r == RoomGoal(m, n, blocked \cup {v}, active \cup {<<v, l>>})
           h == RelocateGoal(v, l, m)
<1>1. p \in Placement /\ x.goals \in Seq(Goal)
  BY NodeTyped
<1>2. /\ v \in Values /\ m \in Locations /\ m # l /\ v \notin blocked
      /\ <<v, l>> \notin ctx.protected /\ p.locations[v] = {l}
  BY DEF Movable, Eligible
<1>3. GoalsFit(p, x.goals, ctx.protected)
  BY DEF Reaches
<1>4. d.at = p /\ d.goals = Then(r, h) /\ r \in Goal /\ h \in Goal
  <2>1. n \in Nat /\ blocked \cup {v} \in SUBSET Values /\ active \cup {<<v, l>>} \in SUBSET (Values \X Locations)
    BY <1>2, SpecAssumption
  <2> HIDE DEF n, blocked, v, m, p
  <2>2. r \in Goal
    BY <1>2, <2>1 DEF Goal, RoomGoal
  <2>3. h \in Goal
    BY <1>2 DEF Goal, RelocateGoal
  <2>4. d = [at |-> p, goals |-> Then(r, h)]
    BY DEF Moved, Then, n
  <2> HIDE DEF d, r, h
  <2> QED
    BY <2>2, <2>3, <2>4
<1>5. /\ r.kind = "room" /\ r.at = m /\ r.nbytes = Size[v] /\ r.blocked = blocked \cup {v}
      /\ h.kind = "relocate" /\ h.handle = v /\ h.from = l /\ h.to = m
  <2>1. n = Size[v]
    BY <1>2
  <2> HIDE DEF n, blocked
  <2> QED
    BY <2>1 DEF RoomGoal, RelocateGoal
<1> HIDE DEF r, h, d, v, m, p
<1>6. GoalsFit(p, Then(r, h) \o x.goals, ctx.protected)
  BY <1>1, <1>2, <1>3, <1>4, <1>5, MoveFits
<1>7. y.at = p /\ y.goals = Then(r, h) \o x.goals
  BY <1>4 DEF Chosen, Node
<1>8. Mirrors(Fold(<<live, ctx.protected>>, sim, p.reclaim), p, live)
  BY DEF Reaches, p
<1> HIDE DEF y
<1>9. Reaches(y, sim, live, ctx)
  BY <1>6, <1>7, <1>8 DEF Reaches
<1> QED
  BY <1>9 DEF y, d, p, v, m

\* Every choice that is tried leads to a placement the dry run reaches.
LEMMA SafeOptions ==
    ASSUME NEW ctx \in SearchContext, NEW sim, NEW live, NEW x \in Nodes, Reaches(x, sim, live, ctx),
           x.goals # <<>> => x.goals[1].kind = "room", x.depth <= MaxDepth,
           NEW blocked \in SUBSET Values, blocked = Untouched(x.goals),
           NEW active \in SUBSET (Values \X Locations), NEW l \in Locations, NEW try,
           \A y \in Nearer(x) : Reaches(y, sim, live, ctx) => PlanReached(try[y], sim, live, ctx)
    PROVE  PlanReached(FirstOf(try, Options(x.at, l, blocked, active, ctx), x), sim, live, ctx)
<1> DEFINE p == x.at
           C == ChoicesAt(p, l, blocked, active, ctx)
           q == Options(p, l, blocked, active, ctx)
           found == FirstOf(try, q, x)
<1>1. p \in Placement
  BY NodeTyped
<1>2. q \in Seq(C)
  BY OptionsAreChoices
<1>3. C \subseteq Choice
  BY <1>1, ChoicesTyped
<1>4. ASSUME NEW c \in C PROVE Reaches(Chosen(c, x), sim, live, ctx)
  <2>1. CASE c \in {Dropped(p, v, l) : v \in Droppable(p, l, blocked, ctx)}
    BY <2>1, SafeDrop
  <2>2. CASE c \in {Moved(p, e[1], l, e[2], blocked, active) : e \in Movable(p, l, blocked, ctx)}
    BY <2>2, SafeMove
  <2> QED
    BY <2>1, <2>2 DEF ChoicesAt
<1> HIDE DEF C, q
<1>5. found \in {Exhausted} \cup {try[Chosen(c, x)] : c \in C}
  BY <1>2, FirstIsChosen
<1>6. Exhausted.verdict # "plan"
  BY DEF Exhausted, Verdict
<1>7. ASSUME NEW c \in C PROVE PlanReached(try[Chosen(c, x)], sim, live, ctx)
  BY <1>3, <1>4, ChosenNearer
<1> HIDE DEF found
<1>8. PlanReached(found, sim, live, ctx)
  <2>1. CASE found = Exhausted
    BY <1>6, <2>1 DEF PlanReached
  <2>2. CASE found # Exhausted
    BY <1>5, <1>7, <2>2
  <2> QED
    BY <2>1, <2>2
<1> QED
  BY <1>8 DEF found, q

LEMMA SearchPlans ==
    ASSUME NEW ctx \in SearchContext, NEW sim, NEW live
    PROVE  \A x \in Nodes : Reaches(x, sim, live, ctx) => PlanReached(Achieve(ctx)[x], sim, live, ctx)
<1> DEFINE try == Achieve(ctx)
           G == {x \in Nodes : Reaches(x, sim, live, ctx) => PlanReached(try[x], sim, live, ctx)}
<1>1. ASSUME NEW x \in Nodes, Nearer(x) \subseteq G, Reaches(x, sim, live, ctx)
      PROVE  PlanReached(try[x], sim, live, ctx)
  <2> DEFINE p == x.at
             st == SimulateRequest(p, ctx.request)
             h == Head(x.goals)
             rest == Tail(x.goals)
             none == {}
  <2>1. try[x] = Attempt(ctx, try, x)
    BY AchieveUnfolds
  <2>2. /\ p \in Placement /\ x.goals \in Seq(Goal) /\ x.depth \in 0 .. MaxDepth + 1
        /\ MaxDepth \in Nat
    BY NodeTyped
  <2>3. \A y \in Nearer(x) : Reaches(y, sim, live, ctx) => PlanReached(try[y], sim, live, ctx)
    BY <1>1
  <2>4. Mirrors(Fold(<<live, ctx.protected>>, sim, p.reclaim), p, live)
        /\ GoalsFit(p, x.goals, ctx.protected)
    BY <1>1 DEF Reaches
  <2> HIDE DEF try, G
  <2>5. CASE x.depth > MaxDepth
    <3>1. ~(x.depth <= MaxDepth)
      BY <2>2, <2>5
    <3>2. try[x] = Endless
      BY <2>1, <2>5, <3>1 DEF Attempt
    <3>3. Endless.verdict # "plan"
      BY DEF Endless, Verdict
    <3> QED
      BY <3>2, <3>3 DEF PlanReached
  <2>6. CASE x.depth <= MaxDepth /\ x.goals = <<>>
    <3>0. ~(x.depth > MaxDepth)
      BY <2>2, <2>6
    <3>1. CASE st.short = NoLocation
      <4>1. try[x] = Verdict("plan", p.reclaim, st.enter)
        BY <2>1, <2>6, <3>0, <3>1 DEF Attempt
      <4>2. PlanAt(try[x], p, sim, live, ctx)
        <5> HIDE DEF p
        <5> QED
          BY <2>4, <3>1, <4>1 DEF PlanAt, Verdict
      <4> QED
        BY <2>2, <4>2 DEF PlanReached
    <3>2. CASE st.short # NoLocation
      <4> DEFINE l == st.short
      <4>1. l \in Locations
        BY <2>2, <3>2, SimulateTyped DEF RequestState, Place
      <4>2. try[x] = FirstOf(try, Options(p, l, none, none, ctx), x)
        BY <2>1, <2>6, <3>0, <3>2 DEF Attempt
      <4>3. none = Untouched(x.goals) /\ none \in SUBSET Values /\ none \in SUBSET (Values \X Locations)
        BY <2>6 DEF Untouched
      <4> HIDE DEF l, none
      <4>4. PlanReached(FirstOf(try, Options(p, l, none, none, ctx), x), sim, live, ctx)
        BY <1>1, <2>3, <2>6, <4>1, <4>3, SafeOptions
      <4> QED
        BY <4>2, <4>4
    <3> QED
      BY <3>1, <3>2
  <2>7. CASE x.depth <= MaxDepth /\ x.goals # <<>>
    <3>0. ~(x.depth > MaxDepth) /\ h = x.goals[1]
      BY <2>2, <2>7
    <3>1. h.kind \in {"room", "relocate"}
      BY <2>7, HeadGoal
    <3>2. CASE h.kind = "room" /\ HasRoom(p, h.at, h.nbytes)
      <4> DEFINE y == Node(p, rest, x.depth)
      <4>1. try[x] = try[y]
        BY <2>1, <2>7, <3>0, <3>2 DEF Attempt
      <4>2. y \in Nearer(x)
        BY <2>2, <2>7, RestNearer
      <4>3. y.at = p /\ y.goals = rest
        BY DEF Node
      <4>4. GoalsFit(p, rest, ctx.protected)
        <5>1. h.kind # "relocate"
          BY <3>2
        <5> HIDE DEF p
        <5> QED
          BY <2>2, <2>4, <2>7, <3>0, <3>2, <5>1, RestFits
      <4> HIDE DEF y
      <4>5. Reaches(y, sim, live, ctx)
        BY <2>4, <4>3, <4>4 DEF Reaches
      <4> QED
        BY <2>3, <4>1, <4>2, <4>5
    <3>3. CASE h.kind = "room" /\ ~HasRoom(p, h.at, h.nbytes)
      <4>1. try[x] = FirstOf(try, Options(p, h.at, h.blocked, h.active, ctx), x)
        BY <2>1, <2>7, <3>0, <3>3 DEF Attempt
      <4>2. /\ h.at \in Locations /\ h.blocked \in SUBSET Values
            /\ h.active \in SUBSET (Values \X Locations)
        BY <2>7, <3>3, HeadGoal
      <4>3. h.blocked = Untouched(x.goals) /\ x.goals[1].kind = "room"
        BY <2>7, <3>0, <3>3 DEF Untouched
      <4> DEFINE l == h.at
                 blocked == h.blocked
                 active == h.active
      <4>4. l \in Locations /\ blocked \in SUBSET Values /\ active \in SUBSET (Values \X Locations)
            /\ blocked = Untouched(x.goals)
        BY <4>2, <4>3
      <4>5. try[x] = FirstOf(try, Options(p, l, blocked, active, ctx), x)
        BY <4>1
      <4> HIDE DEF l, blocked, active
      <4>6. PlanReached(FirstOf(try, Options(p, l, blocked, active, ctx), x), sim, live, ctx)
        BY <1>1, <2>3, <2>7, <4>3, <4>4, SafeOptions
      <4> QED
        BY <4>5, <4>6
    <3>4. CASE h.kind = "relocate"
      <4> DEFINE q == Relocated(p, h)
                 y == Node(q, rest, x.depth)
                 s == Fold(<<live, ctx.protected>>, sim, p.reclaim)
                 a == MoveResident(h.handle, h.to, h.from)
      <4>1. try[x] = try[y]
        BY <2>1, <2>7, <3>0, <3>4 DEF Attempt
      <4>2. h.handle \in Values /\ h.from \in Locations /\ h.to \in Locations
        BY <2>7, <3>4, HeadGoal
      <4>3. Pending(p, x.goals, 1, ctx.protected)
        <5>1. 1 \in 1 .. Len(x.goals)
          BY <2>2, <2>7, EmptySeq
        <5> QED
          BY <2>4, <3>0, <3>4, <5>1 DEF GoalsFit
      <4>4. /\ p.locations[h.handle] = {h.from} /\ h.to # h.from
            /\ <<h.handle, h.from>> \notin ctx.protected /\ HasRoom(p, h.to, Size[h.handle])
        BY <3>0, <4>3 DEF Pending
      <4>5. /\ Mirrors(SimulateAction(s, a, live, ctx.protected), q, live)
            /\ q \in Placement
            /\ q.reclaim = Append(p.reclaim, a)
            /\ \A w \in Values : w # h.handle => q.locations[w] = p.locations[w]
        <5>1. Mirrors(s, p, live) /\ p \in Placement
          BY <2>2, <2>4
        <5> HIDE DEF p, h, s, q, a
        <5>2. Mirrors(SimulateAction(s, a, live, ctx.protected), q, live)
          BY <5>1, <4>2, <4>4, RelocatedMirrors DEF q, a
        <5>3. q \in Placement
          BY <5>1, <4>2, <4>4, RelocatedMirrors DEF q
        <5>4. Repositioned(q, p, h)
          BY <5>1, <4>2, <4>4, RelocatedMirrors DEF q
        <5>5. /\ q.reclaim = Append(p.reclaim, a)
              /\ \A w \in Values : w # h.handle => q.locations[w] = p.locations[w]
          BY <5>4 DEF Repositioned, a
        <5> QED
          BY <5>2, <5>3, <5>4, <5>5
      <4> HIDE DEF q
      <4>6. y \in Nearer(x)
        BY <2>7, <4>5, RestNearer
      <4>7. y.at = q /\ y.goals = rest
        BY DEF Node
      <4>8. GoalsFit(q, rest, ctx.protected)
        <5>1. h.kind # "room"
          BY <3>4
        <5> HIDE DEF p
        <5> QED
          BY <2>2, <2>4, <2>7, <3>0, <4>5, <5>1, RestFits
      <4>9. Fold(<<live, ctx.protected>>, sim, q.reclaim) = SimulateAction(s, a, live, ctx.protected)
        <5> DEFINE world == <<live, ctx.protected>>
        <5>1. a \in ResidencyAction
          BY <4>2, ActionKinds DEF Place
        <5>2. p.reclaim \in Seq(ResidencyAction)
          BY <2>2 DEF Placement
        <5>3. world[1] = live /\ world[2] = ctx.protected
          OBVIOUS
        <5> HIDE DEF a, p, world
        <5>4. Fold(world, sim, Append(p.reclaim, a))
                 = SimulateAction(Fold(world, sim, p.reclaim), a, world[1], world[2])
          BY <5>1, <5>2, FoldLast
        <5> QED
          BY <4>5, <5>3, <5>4 DEF world
      <4> HIDE DEF y, s, a
      <4>10. Reaches(y, sim, live, ctx)
        BY <4>5, <4>7, <4>8, <4>9 DEF Reaches
      <4> QED
        BY <2>3, <4>1, <4>6, <4>10
    <3> QED
      BY <3>1, <3>2, <3>3, <3>4
  <2> QED
    BY <2>2, <2>5, <2>6, <2>7
<1>2. \A x \in Nodes : Nearer(x) \subseteq G => x \in G
  BY <1>1
<1> HIDE DEF G
<1>3. Nodes \subseteq G
  BY <1>2, NodeInduction
<1> QED
  BY <1>3 DEF G

\* A plan the search returns passes the dry run that begins where the search
\* began, unless it moves a replica that may not be moved (controller.py
\* _search_request_plan and _simulate_request, manager.py _simulate_action_locked).
THEOREM SearchPasses ==
    ASSUME NEW ctx \in SearchContext, NEW sim, NEW live,
           Mirrors(sim, Planning(sim), live),
           \A n \in DOMAIN ctx.request.requirements : ctx.request.requirements[n].handle \in live,
           SearchRequest(sim, ctx).verdict = "plan"
    PROVE  /\ DecidedPlan(SearchRequest(sim, ctx), ctx.request) \in ResidencyPlan
           /\ \/ InUse(SearchRequest(sim, ctx).enter, ctx.protected)
              \/ ExplainPlan(sim, DecidedPlan(SearchRequest(sim, ctx), ctx.request),
                             live, ctx.protected).feasible
<1> DEFINE none == <<>>
           start == Planning(sim)
           root == Node(start, none, 0)
           found == SearchRequest(sim, ctx)
           world == <<live, ctx.protected>>
           plan == DecidedPlan(found, ctx.request)
           rs == ctx.request.reservations
<1>1. /\ sim \in SimulationRecord
      /\ start.locations = sim.locations /\ start.used = sim.used
      /\ start.reserved = sim.reserved /\ start.reclaim = none
  BY DEF Mirrors, Planning
<1>2. none \in Seq(ResidencyAction) /\ none \in Seq(Goal) /\ Len(none) = 0
  OBVIOUS
<1>3. start \in Placement
  <2>1. start = [locations |-> sim.locations, used |-> sim.used, reserved |-> sim.reserved,
                 reclaim |-> none]
    BY DEF Planning
  <2> HIDE DEF start, none
  <2> QED
    BY <1>1, <1>2, <2>1 DEF SimulationRecord, Placement
<1>4. root \in Nodes /\ root.at = start /\ root.goals = none
  <2>1. root = [at |-> start, goals |-> none, depth |-> 0]
    BY DEF Node
  <2> HIDE DEF root, start, none
  <2>2. MaxDepth \in Nat
    BY PlannerAssumption
  <2>3. root \in [at : Placement, goals : Seq(Goal), depth : 0 .. MaxDepth + 1]
    BY <1>2, <1>3, <2>1, <2>2
  <2> QED
    BY <1>2, <2>1, <2>3 DEF Nodes
<1>5. Fold(world, sim, none) = sim
  BY FoldNothing
<1>6. Reaches(root, sim, live, ctx)
  <2>1. Mirrors(sim, start, live)
    OBVIOUS
  <2> HIDE DEF start, none
  <2>2. GoalsFit(start, none, ctx.protected)
    BY <1>2 DEF GoalsFit
  <2> HIDE DEF root
  <2> QED
    BY <1>1, <1>4, <1>5, <2>1, <2>2 DEF Reaches
<1>7. found = Achieve(ctx)[root]
  BY DEF SearchRequest
<1> HIDE DEF start, root, none
<1>8. PlanReached(found, sim, live, ctx)
  <2> HIDE DEF found
  <2> QED
    BY <1>4, <1>6, <1>7, SearchPlans
<1>9. found.verdict = "plan"
  OBVIOUS
<1> HIDE DEF found
<1>10. PICK p \in Placement : PlanAt(found, p, sim, live, ctx)
  BY <1>8, <1>9 DEF PlanReached
<1> DEFINE there == Fold(world, sim, p.reclaim)
           st == SimulateRequest(p, ctx.request)
           admitted == Ext!FoldLeft(AdmitReservation, there, rs)
<1>11. /\ Mirrors(there, p, live) /\ st.short = NoLocation
       /\ found.reclaim = p.reclaim /\ found.enter = st.enter
  BY <1>10 DEF PlanAt
<1>12. p.reclaim \in Seq(ResidencyAction)
  BY DEF Placement
<1>13. st.enter \in Seq(ResidencyAction)
  BY SimulateTyped DEF RequestState
<1>14. \/ InUse(st.enter, ctx.protected)
       \/ Fold(world, admitted, st.enter).feasible
  BY <1>11, RequestPasses
<1>15. /\ plan = [reclaim |-> found.reclaim, reservations |-> rs, enter |-> found.enter, exit |-> none]
       /\ plan.reclaim = found.reclaim /\ plan.reservations = rs
       /\ plan.enter = found.enter /\ plan.exit = none
  BY DEF DecidedPlan, none
<1> HIDE DEF plan
<1>16. plan.enter \o plan.exit = st.enter
  BY <1>11, <1>13, <1>15, ConcatEmptySeq DEF none
<1>17. plan \in ResidencyPlan
  <2>1. rs \in Seq(MemoryReservation)
    BY DEF SearchContext
  <2> HIDE DEF rs, st
  <2> QED
    BY <1>2, <1>11, <1>12, <1>13, <1>15, <2>1 DEF ResidencyPlan
<1> HIDE DEF st
<1>18. ExplainActions(sim, p.reclaim, live, ctx.protected) = there
  BY <1>12, ExplainIsFold
<1> HIDE DEF there
<1>19. ExplainActions(admitted, st.enter, live, ctx.protected) = Fold(world, admitted, st.enter)
  BY <1>13, ExplainIsFold
<1>20. ExplainPlan(sim, plan, live, ctx.protected)
         = ExplainActions(admitted, st.enter, live, ctx.protected)
  BY <1>11, <1>15, <1>16, <1>18 DEF ExplainPlan
<1>21. \/ InUse(found.enter, ctx.protected)
       \/ ExplainPlan(sim, plan, live, ctx.protected).feasible
  BY <1>11, <1>14, <1>19, <1>20
<1> QED
  BY <1>21, <1>17 DEF plan, found

-----------------------------------------------------------------------------
(* Knowing more values does not make a feasible plan infeasible. *)

LEMMA MoreKnown ==
    ASSUME NEW s \in SimulationRecord, NEW live, NEW more, live \subseteq more, NEW protected,
           NEW x \in PlanStep, Do(<<live, protected>>, s, x).feasible
    PROVE  Do(<<more, protected>>, s, x) = Do(<<live, protected>>, s, x)
<1>1. CASE x \in MemoryReservation
  BY <1>1 DEF Do
<1>2. CASE x \notin MemoryReservation
  <2>1. /\ Do(<<live, protected>>, s, x) = SimulateAction(s, x, live, protected)
        /\ Do(<<more, protected>>, s, x) = SimulateAction(s, x, more, protected)
    BY <1>2 DEF Do
  <2>2. s.feasible \in BOOLEAN /\ Infeasible(s).feasible = FALSE
    BY DEF SimulationRecord, Infeasible
  <2>3. CASE ~s.feasible
    BY <2>1, <2>3 DEF SimulateAction
  <2>4. CASE s.feasible
    <3>1. ~(x.handle \notin live \/ x.handle \in s.discarded)
      BY <2>1, <2>2, <2>4 DEF SimulateAction
    <3>2. ~(x.handle \notin more \/ x.handle \in s.discarded)
      BY <3>1
    <3> QED
      BY <2>1, <2>4, <3>1, <3>2 DEF SimulateAction
  <2> QED
    BY <2>2, <2>3, <2>4
<1> QED
  BY <1>1, <1>2

LEMMA PlanMoreKnown ==
    ASSUME NEW plan \in ResidencyPlan, NEW sim \in SimulationRecord, NEW protected,
           NEW live, NEW more, live \subseteq more,
           ExplainPlan(sim, plan, live, protected).feasible
    PROVE  ExplainPlan(sim, plan, more, protected).feasible
<1> DEFINE q == plan.reclaim \o (plan.reservations \o (plan.enter \o plan.exit))
           w == <<live, protected>>
           z == <<more, protected>>
<1>1. /\ q \in Seq(PlanStep)
      /\ ExplainPlan(sim, plan, live, protected) = Fold(w, sim, q)
      /\ ExplainPlan(sim, plan, more, protected) = Fold(z, sim, q)
  BY PlanIsFold
<1>2. ASSUME NEW u \in SimulationRecord, NEW x \in PlanStep, Do(w, u, x).feasible
      PROVE  Do(z, u, x) = Do(w, u, x)
  BY <1>2, MoreKnown
<1> HIDE DEF q, w, z
<1>3. Fold(z, sim, q) = Fold(w, sim, q)
  BY <1>1, <1>2, FoldAgrees
<1> QED
  BY <1>1, <1>3
=============================================================================
