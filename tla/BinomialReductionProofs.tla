------------------------ MODULE BinomialReductionProofs ------------------------
(***************************************************************************)
(* The reduction is correct for every group size, destination and pace of  *)
(* the ranks.  A rank in phase mask holds the partials of the mask logical *)
(* ranks that start at its own, and a message holds the subtree of its     *)
(* sender; a rank that is still in the tree when the phases are over can   *)
(* only be logical rank 0.                                                 *)
(***************************************************************************)
EXTENDS BinomialReduction, TLAPS

\* The partials of the size logical ranks from l on.
Subtree(l, size) ==
    [c \in Ranks |-> IF l <= Place(c) /\ Place(c) < l + size THEN 1 ELSE 0]

HoldsSubtree(r) ==
    stage[r] = "tree" =>
        /\ \E q \in Nat : Place(r) = q * mask[r]
        /\ value[r] = Subtree(Place(r), mask[r])

CarriesSubtree(m) ==
    /\ Place(m.from) > Place(m.to)
    /\ m.sum = Subtree(Place(m.from), Place(m.from) - Place(m.to))

\* The values that are no longer added to are parts of the sum.
HoldsPart(r) == \A c \in Ranks : value[r][c] <= 1

\* A rank whose value still counts: it is in the tree, or holds the result.
Live(r) == stage[r] = "tree" \/ (r = Root /\ stage[r] = "returned")

Apart(a, b) == \A c \in Ranks : a[c] = 0 \/ b[c] = 0

\* Each partial is in one live value or one message.
EachPartialOnce ==
    /\ \A r, s \in Ranks :
          Live(r) /\ Live(s) /\ r # s => Apart(value[r], value[s])
    /\ \A r \in Ranks : \A m \in wire : Live(r) => Apart(value[r], m.sum)
    /\ \A m, n \in wire : m # n => Apart(m.sum, n.sum)

\* The inductive invariant of a reduction.
IInv ==
    /\ TypeOK
    /\ \A r \in Ranks : HoldsSubtree(r)
    /\ \A m \in wire : CarriesSubtree(m)
    /\ \A r \in Ranks : HoldsPart(r)
    /\ stage[Root] # "sending"
    /\ stage[Root] = "returned" => value[Root] = [c \in Ranks |-> 1]
    /\ EachPartialOnce

\* Counting from the destination turns each group rank into one logical rank.
LEMMA PlaceValue ==
    ASSUME NEW r \in Ranks
    PROVE  /\ Place(r) = IF r >= Root THEN r - Root ELSE r - Root + WorldSize
           /\ Place(r) \in Ranks
<1> USE WorldSizeAssumption, RootAssumption DEF Place, Logical, Ranks
<1>1. CASE r >= Root
  <2>1. r - Root \in 0 .. (WorldSize - 1) BY <1>1
  <2>2. (r - Root) % WorldSize = r - Root BY <2>1
  <2> QED BY <1>1, <2>1, <2>2
<1>2. CASE r < Root
  <2> DEFINE x == r - Root
  <2>1. x + WorldSize \in 0 .. (WorldSize - 1) BY <1>2
  <2>2. x % WorldSize = x + WorldSize BY <2>1
  <2> QED BY <1>2, <2>1, <2>2
<1> QED BY <1>1, <1>2

\* Turning a logical rank back gives the group rank it came from.
LEMMA AtValue ==
    ASSUME NEW l \in Ranks
    PROVE  At(l) \in Ranks /\ Place(At(l)) = l
<1> USE WorldSizeAssumption, RootAssumption DEF Ranks
<1>1. CASE l + Root < WorldSize
  <2>1. At(l) = l + Root BY <1>1 DEF At, Physical
  <2> QED BY <1>1, <2>1, PlaceValue
<1>2. CASE l + Root >= WorldSize
  <2> DEFINE y == l + Root
  <2>1. y - WorldSize \in 0 .. (WorldSize - 1) BY <1>2
  <2>2. y % WorldSize = y - WorldSize BY <2>1
  <2>3. At(l) = y - WorldSize BY <2>2 DEF At, Physical
  <2> QED BY <1>2, <2>1, <2>3, PlaceValue
<1> QED BY <1>1, <1>2

\* Two adjacent subtrees make the subtree of the next phase.
LEMMA SubtreesJoin ==
    ASSUME NEW l \in Nat, NEW size \in Nat
    PROVE  Plus(Subtree(l, size), Subtree(l + size, size)) = Subtree(l, 2 * size)
<1>1. \A c \in Ranks : Place(c) \in Nat
  BY PlaceValue, WorldSizeAssumption DEF Ranks
<1>2. ASSUME NEW c \in Ranks
      PROVE  Subtree(l, size)[c] + Subtree(l + size, size)[c]
                = Subtree(l, 2 * size)[c]
  <2>1. Subtree(l, size)[c]
           = IF l <= Place(c) /\ Place(c) < l + size THEN 1 ELSE 0
    BY DEF Subtree
  <2>2. Subtree(l + size, size)[c]
           = IF l + size <= Place(c) /\ Place(c) < l + size + size THEN 1 ELSE 0
    BY DEF Subtree
  <2>3. Subtree(l, 2 * size)[c]
           = IF l <= Place(c) /\ Place(c) < l + 2 * size THEN 1 ELSE 0
    BY DEF Subtree
  <2> HIDE DEF Subtree
  <2> QED BY <1>1, <2>1, <2>2, <2>3
<1> QED BY <1>2 DEF Plus, Subtree

LEMMA SubtreeType ==
    ASSUME NEW l, NEW size
    PROVE  /\ Subtree(l, size) \in Ciphertexts
           /\ \A c \in Ranks : Subtree(l, size)[c] <= 1
BY DEF Subtree, Ciphertexts

LEMMA PlusType ==
    ASSUME NEW a \in Ciphertexts, NEW b \in Ciphertexts
    PROVE  Plus(a, b) \in Ciphertexts
BY DEF Plus, Ciphertexts

\* A receiver of a phase starts a subtree of the next phase.
LEMMA ReceiverPlace ==
    ASSUME NEW l \in Ranks, NEW k \in Nat \ {0}, IsReceiver(l, k)
    PROVE  /\ \E q \in Nat : l = q * (2 * k)
           /\ l + k \in Ranks
BY WorldSizeAssumption DEF IsReceiver, Receivers, Ranks

\* A sender sends to the rank that starts the subtree it belongs to.
LEMMA SenderPlace ==
    ASSUME NEW l \in Ranks, NEW k \in Nat \ {0}, IsSender(l, k)
    PROVE  l - k \in Ranks
BY WorldSizeAssumption DEF IsSender, Receivers, Ranks

\* A rank that neither sends nor receives starts a subtree of the next phase,
\* and that subtree is the one it holds.
LEMMA BystanderPlace ==
    ASSUME NEW l \in Ranks, NEW k \in Nat \ {0}, NEW q \in Nat, l = q * k,
           ~IsSender(l, k), ~IsReceiver(l, k)
    PROVE  /\ \E t \in Nat : l = t * (2 * k)
           /\ l + k >= WorldSize
<1> USE WorldSizeAssumption DEF Ranks
<1>1. PICK t \in Nat : q = 2 * t \/ q = 2 * t + 1
  <2>1. q = 2 * (q \div 2) \/ q = 2 * (q \div 2) + 1
    OBVIOUS
  <2> QED BY <2>1
<1>2. CASE q = 2 * t
  <2>1. l = t * (2 * k) BY <1>2
  <2>2. t <= l BY <2>1
  <2>3. ~(l + k < WorldSize)
    BY <2>1, <2>2 DEF IsReceiver, Receivers
  <2> QED BY <2>1, <2>3
<1>3. CASE q = 2 * t + 1
  <2> DEFINE i == t * (2 * k)
  <2>1. i \in Nat OBVIOUS
  <2>2. l = i + k BY <1>3
  <2>3. t <= i OBVIOUS
  <2>4. i \in Receivers(k)
    <3>1. i \in Ranks /\ t \in Ranks BY <2>1, <2>2, <2>3
    <3> QED BY <2>2, <3>1 DEF Receivers
  <2> HIDE DEF i
  <2> QED BY <2>2, <2>4 DEF IsSender
<1> QED BY <1>1, <1>2, <1>3

LEMMA InitIInv == Init => IInv
<1> USE WorldSizeAssumption, RootAssumption
<1> SUFFICES ASSUME Init PROVE IInv OBVIOUS
<1>1. \A r \in Ranks : Partial(r) \in Ciphertexts
  BY DEF Partial, Ciphertexts
<1>2. TypeOK
  BY <1>1 DEF Init, TypeOK, Stages
<1>3. ASSUME NEW r \in Ranks PROVE HoldsSubtree(r)
  <2>1. Place(r) \in Nat /\ Place(r) = Place(r) * 1
    BY PlaceValue DEF Ranks
  <2>2. \A c \in Ranks : Place(r) <= Place(c) /\ Place(c) < Place(r) + 1 <=> c = r
    BY PlaceValue DEF Ranks
  <2>3. Partial(r) = Subtree(Place(r), 1)
    BY <2>2 DEF Partial, Subtree
  <2> QED BY <2>1, <2>3 DEF Init, HoldsSubtree
<1>4. \A r, c \in Ranks : value[r][c] = IF c = r THEN 1 ELSE 0
  BY DEF Init, Partial
<1>5. EachPartialOnce
  BY <1>4 DEF Init, EachPartialOnce, Apart
<1>6. \A r \in Ranks : HoldsPart(r)
  BY <1>4 DEF HoldsPart
<1>7. stage[Root] = "tree" /\ wire = {}
  BY DEF Init
<1> QED BY <1>2, <1>3, <1>5, <1>6, <1>7 DEF IInv

\* A send moves a rank's subtree onto the wire.
LEMMA SendStep ==
    ASSUME IInv, NEW r \in Ranks, Send(r) PROVE IInv'
<1> USE WorldSizeAssumption, RootAssumption
<1> DEFINE new == [from |-> r, to |-> At(Place(r) - mask[r]), sum |-> value[r]]
<1>1. mask[r] \in Nat \ {0} /\ value[r] \in Ciphertexts
  BY DEF IInv, TypeOK
<1>2. Place(r) - mask[r] \in Ranks
  BY <1>1, PlaceValue, SenderPlace DEF Send
<1>3. At(Place(r) - mask[r]) \in Ranks /\ Place(At(Place(r) - mask[r])) = Place(r) - mask[r]
  BY <1>2, AtValue
<1>4. wire' = wire \cup {new} /\ stage' = [stage EXCEPT ![r] = "sending"]
      /\ mask' = mask /\ value' = value /\ stage[r] = "tree"
  BY DEF Send, Running
<1>5. TypeOK'
  BY <1>1, <1>3, <1>4 DEF IInv, TypeOK, Stages
<1>6. CarriesSubtree(new)
  <2>1. value[r] = Subtree(Place(r), mask[r])
    BY <1>4 DEF IInv, HoldsSubtree
  <2>2. Place(r) \in Int /\ Place(r) - (Place(r) - mask[r]) = mask[r]
    BY <1>1, PlaceValue DEF Ranks
  <2>3. Place(r) > Place(r) - mask[r]
    BY <1>1, <2>2
  <2> QED BY <1>3, <2>1, <2>2, <2>3 DEF CarriesSubtree
<1>7. r # Root
  <2>1. Place(Root) = 0 BY PlaceValue DEF Ranks
  <2> QED BY <1>1, <1>2, <2>1 DEF Ranks
<1>8. EachPartialOnce'
  <2>1. Live(r) /\ \A s \in Ranks : Live(s)' => Live(s) /\ s # r
    BY <1>4, <1>7 DEF Live, IInv, TypeOK
  <2>2. \A m \in wire : Apart(value[r], m.sum)
    BY <2>1 DEF IInv, EachPartialOnce
  <2>3. \A s \in Ranks : Live(s)' => Apart(value[s], value[r])
    BY <2>1 DEF IInv, EachPartialOnce
  <2> HIDE DEF new
  <2>4. new.sum = value[r] BY DEF new
  <2>5. \A m, n \in wire' : m # n => Apart(m.sum, n.sum)
    BY <1>4, <2>2, <2>4 DEF IInv, EachPartialOnce, Apart
  <2>6. \A s \in Ranks : \A m \in wire' : Live(s)' => Apart(value'[s], m.sum)
    BY <1>4, <2>1, <2>3, <2>4 DEF IInv, EachPartialOnce
  <2>7. \A s, t \in Ranks : Live(s)' /\ Live(t)' /\ s # t => Apart(value'[s], value'[t])
    BY <1>4, <2>1 DEF IInv, EachPartialOnce
  <2> QED BY <2>5, <2>6, <2>7 DEF EachPartialOnce, Apart
<1>9. \A s \in Ranks : HoldsSubtree(s)' /\ HoldsPart(s)'
  BY <1>4 DEF IInv, TypeOK, HoldsSubtree, HoldsPart
<1>10. \A m \in wire' : CarriesSubtree(m)'
  BY <1>4, <1>6 DEF IInv, CarriesSubtree
<1>11. stage'[Root] = stage[Root]
  BY <1>4, <1>7 DEF IInv, TypeOK
<1> HIDE DEF new
<1> QED BY <1>4, <1>5, <1>8, <1>9, <1>10, <1>11 DEF IInv

\* A receive joins the sender's subtree to the receiver's.
LEMMA ReceiveStep ==
    ASSUME IInv, NEW r \in Ranks, Receive(r) PROVE IInv'
<1> USE WorldSizeAssumption, RootAssumption
<1>1. PICK m \in Incoming(r) : /\ value' = [value EXCEPT ![r] = Plus(value[r], m.sum)]
                               /\ wire' = wire \ {m}
  BY DEF Receive
<1>2. /\ mask' = [mask EXCEPT ![r] = 2 * mask[r]] /\ stage' = stage
      /\ stage[r] = "tree" /\ IsReceiver(Place(r), mask[r])
  BY DEF Receive, Running
<1>3. mask[r] \in Nat \ {0} /\ value[r] \in Ciphertexts
  BY DEF IInv, TypeOK
<1>4. m \in wire /\ m.from = At(Place(r) + mask[r]) /\ m.to = r
  BY <1>1 DEF Incoming
<1>5. /\ \E q \in Nat : Place(r) = q * (2 * mask[r])
      /\ Place(r) + mask[r] \in Ranks
  BY <1>2, <1>3, PlaceValue, ReceiverPlace
<1>6. Place(m.from) = Place(r) + mask[r] /\ m.sum \in Ciphertexts
  BY <1>4, <1>5, AtValue DEF IInv, TypeOK
<1>7. Plus(value[r], m.sum) = Subtree(Place(r), 2 * mask[r])
  <2>1. value[r] = Subtree(Place(r), mask[r])
    BY <1>2 DEF IInv, HoldsSubtree
  <2>2. Place(r) \in Nat BY PlaceValue DEF Ranks
  <2>3. Place(m.from) - Place(m.to) = mask[r]
    BY <1>3, <1>4, <1>6, <2>2
  <2>4. m.sum = Subtree(Place(r) + mask[r], mask[r])
    BY <1>4, <1>6, <2>3 DEF IInv, CarriesSubtree
  <2> QED BY <1>3, <2>1, <2>2, <2>4, SubtreesJoin
<1>8. Plus(value[r], m.sum) \in Ciphertexts
  BY <1>3, <1>6, PlusType
<1>9. TypeOK'
  BY <1>1, <1>2, <1>3, <1>8 DEF IInv, TypeOK
<1>10. ASSUME NEW s \in Ranks PROVE HoldsSubtree(s)' /\ HoldsPart(s)'
  <2>1. CASE s = r
    <3>1. value'[r] = Subtree(Place(r), mask'[r]) /\ mask'[r] = 2 * mask[r]
      BY <1>1, <1>2, <1>7 DEF IInv, TypeOK
    <3>2. HoldsPart(r)'
      BY <3>1, SubtreeType DEF HoldsPart
    <3> QED BY <1>5, <2>1, <3>1, <3>2 DEF HoldsSubtree, Place
  <2>2. CASE s # r
    BY <1>1, <1>2, <2>2 DEF IInv, TypeOK, HoldsSubtree, HoldsPart, Place
  <2> QED BY <2>1, <2>2
<1>11. EachPartialOnce'
  <2>1. \A s \in Ranks : Live(s)' <=> Live(s)
    BY <1>2 DEF Live
  <2>2. Live(r) BY <1>2 DEF Live
  <2>3. \A s \in Ranks \ {r} : value'[s] = value[s]
    BY <1>1 DEF IInv, TypeOK
  <2>4. value'[r] = Plus(value[r], m.sum)
    BY <1>1 DEF IInv, TypeOK
  <2>5. \A d \in Ciphertexts :
           Apart(value[r], d) /\ Apart(m.sum, d) => Apart(value'[r], d) /\ Apart(d, value'[r])
    BY <1>3, <1>6, <2>4 DEF Apart, Plus, Ciphertexts
  <2>6. \A n \in wire' : n \in wire /\ n # m /\ n.sum \in Ciphertexts
    BY <1>1 DEF IInv, TypeOK
  <2>7. \A s \in Ranks : Live(s) /\ s # r =>
           Apart(value'[r], value[s]) /\ Apart(value[s], value'[r])
    <3>1. ASSUME NEW s \in Ranks, Live(s), s # r
          PROVE  /\ Apart(value[r], value[s]) /\ Apart(m.sum, value[s])
                 /\ value[s] \in Ciphertexts
      BY <1>4, <2>2, <3>1 DEF IInv, TypeOK, EachPartialOnce, Apart
    <3> QED BY <2>5, <3>1
  <2>8. \A n \in wire' : Apart(value'[r], n.sum)
    <3>1. ASSUME NEW n \in wire'
          PROVE  Apart(value[r], n.sum) /\ Apart(m.sum, n.sum)
      BY <1>4, <2>2, <2>6 DEF IInv, EachPartialOnce
    <3> QED BY <2>5, <2>6, <3>1
  <2>9. \A s, t \in Ranks : Live(s)' /\ Live(t)' /\ s # t => Apart(value'[s], value'[t])
    BY <2>1, <2>3, <2>7 DEF IInv, EachPartialOnce
  <2>10. \A s \in Ranks : \A n \in wire' : Live(s)' => Apart(value'[s], n.sum)
    BY <2>1, <2>3, <2>6, <2>8 DEF IInv, EachPartialOnce
  <2>11. \A n, k \in wire' : n # k => Apart(n.sum, k.sum)
    BY <2>6 DEF IInv, EachPartialOnce
  <2> QED BY <2>9, <2>10, <2>11 DEF EachPartialOnce, Apart
<1>12. \A n \in wire' : CarriesSubtree(n)'
  BY <1>1 DEF IInv, CarriesSubtree
<1>13. stage'[Root] # "sending" /\ (stage'[Root] = "returned" => value'[Root] = value[Root])
  BY <1>1, <1>2 DEF IInv, TypeOK
<1> QED BY <1>2, <1>9, <1>10, <1>11, <1>12, <1>13 DEF IInv

\* A rank that sits a phase out already holds the subtree of the next one.
LEMMA SitOutStep ==
    ASSUME IInv, NEW r \in Ranks, SitOut(r) PROVE IInv'
<1> USE WorldSizeAssumption, RootAssumption
<1>1. /\ mask' = [mask EXCEPT ![r] = 2 * mask[r]] /\ stage[r] = "tree"
      /\ UNCHANGED <<stage, value, wire>>
      /\ ~IsReceiver(Place(r), mask[r]) /\ ~IsSender(Place(r), mask[r])
  BY DEF SitOut, Running
<1>2. mask[r] \in Nat \ {0}
  BY DEF IInv, TypeOK
<1>3. TypeOK'
  BY <1>1, <1>2 DEF IInv, TypeOK
<1>4. PICK q \in Nat : Place(r) = q * mask[r]
  BY <1>1 DEF IInv, HoldsSubtree
<1>5. /\ \E t \in Nat : Place(r) = t * (2 * mask[r])
      /\ Place(r) + mask[r] >= WorldSize
  BY <1>1, <1>2, <1>4, PlaceValue, BystanderPlace
<1>6. Subtree(Place(r), mask[r]) = Subtree(Place(r), 2 * mask[r])
  <2>1. \A c \in Ranks : Place(c) < Place(r) + mask[r]
                         <=> Place(c) < Place(r) + 2 * mask[r]
    BY <1>2, <1>5, PlaceValue DEF Ranks
  <2> QED BY <2>1 DEF Subtree
<1>7. ASSUME NEW s \in Ranks PROVE HoldsSubtree(s)'
  <2>1. CASE s = r
    <3>1. mask'[r] = 2 * mask[r] /\ value'[r] = Subtree(Place(r), mask[r])
      BY <1>1 DEF IInv, TypeOK, HoldsSubtree
    <3> QED BY <1>5, <1>6, <2>1, <3>1 DEF HoldsSubtree, Place
  <2>2. CASE s # r
    BY <1>1, <2>2 DEF IInv, TypeOK, HoldsSubtree, Place
  <2> QED BY <2>1, <2>2
<1> QED BY <1>1, <1>3, <1>7
        DEF IInv, HoldsPart, CarriesSubtree, EachPartialOnce, Live, Apart

\* Only logical rank 0 runs out of phases, and it then holds every partial.
LEMMA OutlastsTheTree ==
    ASSUME IInv, NEW r \in Ranks, stage[r] = "tree", mask[r] >= WorldSize
    PROVE  r = Root /\ value[r] = [c \in Ranks |-> 1]
<1> USE WorldSizeAssumption, RootAssumption
<1>1. mask[r] \in Nat /\ Place(r) \in Ranks
  BY PlaceValue DEF IInv, TypeOK
<1>2. PICK q \in Nat : Place(r) = q * mask[r]
  BY DEF IInv, HoldsSubtree
<1>3. Place(r) = 0
  <2>1. CASE q = 0 BY <1>1, <1>2, <2>1
  <2>2. CASE q >= 1
    <3>1. q * mask[r] >= mask[r] BY <1>1, <2>2
    <3> QED BY <1>1, <1>2, <3>1 DEF Ranks
  <2> QED BY <2>1, <2>2
<1>4. r = Root
  BY <1>3, PlaceValue DEF Ranks
<1>5. \A c \in Ranks : 0 <= Place(c) /\ Place(c) < 0 + mask[r]
  BY <1>1, PlaceValue DEF Ranks
<1>6. value[r] = Subtree(0, mask[r])
  BY <1>3 DEF IInv, HoldsSubtree
<1> QED BY <1>4, <1>5, <1>6 DEF Subtree

LEMMA FinishStep ==
    ASSUME IInv, NEW r \in Ranks, Finish(r) PROVE IInv'
<1> USE WorldSizeAssumption, RootAssumption
<1>1. r = Root /\ value[r] = [c \in Ranks |-> 1]
  BY OutlastsTheTree DEF Finish
<1>2. TypeOK'
  BY DEF IInv, TypeOK, Finish, Stages
<1>3. \A s \in Ranks : Live(s)' <=> Live(s)
  BY <1>1 DEF Live, Finish, IInv, TypeOK
<1> QED BY <1>1, <1>2, <1>3
        DEF IInv, Finish, TypeOK, HoldsSubtree, HoldsPart, CarriesSubtree,
            EachPartialOnce, Apart, Place

LEMMA ReturnStep ==
    ASSUME IInv, NEW r \in Ranks,
           SendReturns(r) \/ BufferedSendReturns(r)
    PROVE  IInv'
<1> USE RootAssumption
<1>1. /\ stage[r] = "sending" /\ stage' = [stage EXCEPT ![r] = "returned"]
      /\ UNCHANGED <<mask, value, wire>>
  BY DEF SendReturns, BufferedSendReturns
<1>2. r # Root
  BY <1>1 DEF IInv
<1>3. TypeOK'
  BY <1>1 DEF IInv, TypeOK, Stages
<1>4. \A s \in Ranks : Live(s)' <=> Live(s)
  BY <1>1, <1>2 DEF Live, IInv, TypeOK
<1> QED BY <1>1, <1>2, <1>3, <1>4
        DEF IInv, TypeOK, HoldsSubtree, HoldsPart, CarriesSubtree,
            EachPartialOnce, Apart, Place

LEMMA RaiseStep ==
    ASSUME IInv, NEW r \in Ranks, AddRaises(r) PROVE IInv'
<1> USE RootAssumption
<1>1. /\ stage' = [stage EXCEPT ![r] = "raised"] /\ wire' \subseteq wire
      /\ UNCHANGED <<mask, value>>
  BY DEF AddRaises
<1>2. TypeOK'
  BY <1>1 DEF IInv, TypeOK, Stages
<1>3. \A s \in Ranks : Live(s)' => Live(s)
  BY <1>1 DEF Live, IInv, TypeOK
<1>4. EachPartialOnce'
  BY <1>1, <1>3 DEF IInv, EachPartialOnce, Apart
<1> QED BY <1>1, <1>2, <1>4
        DEF IInv, TypeOK, HoldsSubtree, HoldsPart, CarriesSubtree, Place

LEMMA Inductive == Spec => []IInv
<1>1. IInv /\ [Next]_vars => IInv'
  <2> SUFFICES ASSUME IInv, [Next]_vars PROVE IInv' OBVIOUS
  <2>1. CASE UNCHANGED vars
    BY <2>1 DEF vars, IInv, TypeOK, HoldsSubtree, HoldsPart, CarriesSubtree,
                EachPartialOnce, Live, Apart, Place
  <2>2. ASSUME NEW r \in Ranks, Advance(r) \/ BufferedSendReturns(r) \/ AddRaises(r)
        PROVE  IInv'
    BY <2>2, SendStep, ReceiveStep, SitOutStep, FinishStep, ReturnStep, RaiseStep
       DEF Advance
  <2> QED BY <2>1, <2>2 DEF Next
<1> QED BY <1>1, InitIInv, PTL DEF Spec

\* The state of a reduction keeps its types.
THEOREM ReductionTypes == Spec => []TypeOK
<1>1. IInv => TypeOK BY DEF IInv
<1> QED BY <1>1, Inductive, PTL

\* reduce_ciphertext sums every partial exactly once onto its destination.
THEOREM ReductionIsASum == Spec => []RootHoldsTheSum
<1>1. IInv => RootHoldsTheSum BY DEF IInv, RootHoldsTheSum
<1> QED BY <1>1, Inductive, PTL

\* A rank other than the destination leaves the tree by sending its subtree.
THEOREM TheRestSend == Spec => []OnlyRootOutlastsTheTree
<1>1. IInv => OnlyRootOutlastsTheTree
  BY OutlastsTheTree DEF OnlyRootOutlastsTheTree
<1> QED BY <1>1, Inductive, PTL

\* No value and no message counts a partial twice.
THEOREM PartialsCountOnce == Spec => []NothingCountedTwice
<1>1. IInv => NothingCountedTwice
  <2> SUFFICES ASSUME IInv PROVE NothingCountedTwice OBVIOUS
  <2>1. \A m \in wire : \A c \in Ranks : m.sum[c] <= 1
    BY SubtreeType DEF IInv, CarriesSubtree
  <2> QED BY <2>1 DEF IInv, HoldsPart, NothingCountedTwice
<1> QED BY <1>1, Inductive, PTL

\* Every message has been taken by the time the destination returns.
THEOREM MessagesAreTaken == Spec => []NothingLeftOnTheWire
<1>1. IInv => NothingLeftOnTheWire
  <2> SUFFICES ASSUME IInv, stage[Root] = "returned", NEW m \in wire PROVE FALSE
    BY DEF NothingLeftOnTheWire
  <2> USE RootAssumption
  <2>1. Live(Root) /\ value[Root] = [c \in Ranks |-> 1]
    BY DEF IInv, Live
  <2>2. m.from \in Ranks /\ m.to \in Ranks
    BY DEF IInv, TypeOK
  <2>3. m.sum[m.from] = 1
    <3>1. Place(m.from) \in Int /\ Place(m.to) \in Int /\ Place(m.from) > Place(m.to)
      BY <2>2, PlaceValue DEF IInv, CarriesSubtree, Ranks
    <3>2. m.sum = Subtree(Place(m.from), Place(m.from) - Place(m.to))
      BY DEF IInv, CarriesSubtree
    <3>3. Place(m.from) < Place(m.from) + (Place(m.from) - Place(m.to))
      BY <3>1
    <3> QED BY <2>2, <3>1, <3>2, <3>3 DEF Subtree
  <2>4. Apart(value[Root], m.sum)
    BY <2>1 DEF IInv, EachPartialOnce
  <2> QED BY <2>1, <2>2, <2>3, <2>4 DEF Apart
<1> QED BY <1>1, Inductive, PTL
=============================================================================
