--------------------------- MODULE BinomialReduction ---------------------------
(***************************************************************************)
(* One reduction of a ciphertext per rank onto Root, every rank running    *)
(* the phases of the tree at its own pace.  A ciphertext is the number of  *)
(* times it contains each rank's partial.  A send is over when its message *)
(* is taken, or earlier when the transport buffers it.  Engine addition    *)
(* may raise on the ranks of MayRaise.                                     *)
(***************************************************************************)
EXTENDS ReductionTree

CONSTANTS Root, MayRaise

ASSUME RootAssumption == Root \in Ranks
ASSUME RaiseAssumption == MayRaise \subseteq Ranks

VARIABLES
    stage,   \* where each rank is in _reduce_ciphertext_tree
    mask,    \* the phase a rank is in
    value,   \* each rank's ciphertext
    wire     \* messages sent and not yet received

vars == <<stage, mask, value, wire>>

Place(r) == Logical(r, Root)

At(l) == Physical(l, Root)

Partial(r) == [c \in Ranks |-> IF c = r THEN 1 ELSE 0]

Plus(a, b) == [c \in Ranks |-> a[c] + b[c]]

Init ==
    /\ stage = [r \in Ranks |-> "tree"]
    /\ mask = [r \in Ranks |-> 1]
    /\ value = [r \in Ranks |-> Partial(r)]
    /\ wire = {}

Running(r) == stage[r] = "tree" /\ mask[r] < WorldSize

\* Mutated: the receiver is not translated back to a group rank.
SendToLogical(r) ==
    /\ Running(r)
    /\ IsSender(Place(r), mask[r])
    /\ wire' = wire \cup {[from |-> r, to |-> Place(r) - mask[r],
                           sum |-> value[r]]}
    /\ stage' = [stage EXCEPT ![r] = "sending"]
    /\ UNCHANGED <<mask, value>>

Send(r) ==
    /\ Running(r)
    /\ IsSender(Place(r), mask[r])
    /\ wire' = wire \cup {[from |-> r, to |-> At(Place(r) - mask[r]),
                           sum |-> value[r]]}
    /\ stage' = [stage EXCEPT ![r] = "sending"]
    /\ UNCHANGED <<mask, value>>

SendReturns(r) ==
    /\ stage[r] = "sending"
    /\ \A m \in wire : m.from # r
    /\ stage' = [stage EXCEPT ![r] = "returned"]
    /\ UNCHANGED <<mask, value, wire>>

BufferedSendReturns(r) ==
    /\ stage[r] = "sending"
    /\ stage' = [stage EXCEPT ![r] = "returned"]
    /\ UNCHANGED <<mask, value, wire>>

Incoming(r) == {m \in wire : m.from = At(Place(r) + mask[r]) /\ m.to = r}

Receive(r) ==
    /\ Running(r)
    /\ IsReceiver(Place(r), mask[r])
    /\ \E m \in Incoming(r) :
          /\ value' = [value EXCEPT ![r] = Plus(@, m.sum)]
          /\ wire' = wire \ {m}
    /\ mask' = [mask EXCEPT ![r] = 2 * @]
    /\ UNCHANGED stage

AddRaises(r) ==
    /\ Running(r)
    /\ r \in MayRaise
    /\ IsReceiver(Place(r), mask[r])
    /\ \E m \in Incoming(r) : wire' = wire \ {m}
    /\ stage' = [stage EXCEPT ![r] = "raised"]
    /\ UNCHANGED <<mask, value>>

SitOut(r) ==
    /\ Running(r)
    /\ ~IsReceiver(Place(r), mask[r])
    /\ ~IsSender(Place(r), mask[r])
    /\ mask' = [mask EXCEPT ![r] = 2 * @]
    /\ UNCHANGED <<stage, value, wire>>

\* Mutated: the loop ends one phase early.
FinishEarly(r) ==
    /\ stage[r] = "tree"
    /\ 2 * mask[r] >= WorldSize
    /\ stage' = [stage EXCEPT ![r] = "returned"]
    /\ UNCHANGED <<mask, value, wire>>

Finish(r) ==
    /\ stage[r] = "tree"
    /\ mask[r] >= WorldSize
    /\ stage' = [stage EXCEPT ![r] = "returned"]
    /\ UNCHANGED <<mask, value, wire>>

Advance(r) == Send(r) \/ SendReturns(r) \/ Receive(r) \/ SitOut(r) \/ Finish(r)

Next == \E r \in Ranks : Advance(r) \/ BufferedSendReturns(r) \/ AddRaises(r)

Spec == Init /\ [][Next]_vars

FairSpec == Spec /\ \A r \in Ranks : WF_vars(Advance(r))
-----------------------------------------------------------------------------
Stages == {"tree", "sending", "returned", "raised"}

Ciphertexts == [Ranks -> Nat]

\* Type invariant of a reduction.
TypeOK ==
    /\ stage \in [Ranks -> Stages]
    /\ mask \in [Ranks -> Nat \ {0}]
    /\ value \in [Ranks -> Ciphertexts]
    /\ wire \subseteq [from : Ranks, to : Ranks, sum : Ciphertexts]

\* When reduce_ciphertext returns on the destination, its value holds every
\* rank's partial exactly once, at any group size and pace of the ranks.
RootHoldsTheSum ==
    stage[Root] = "returned" => value[Root] = [c \in Ranks |-> 1]

\* A rank other than the destination leaves the tree by sending its subtree, so
\* no partial stays behind in a rank that runs out of phases.
OnlyRootOutlastsTheTree ==
    \A r \in Ranks : stage[r] = "tree" /\ mask[r] >= WorldSize => r = Root

\* No partial is counted twice, in a value or in a message.
NothingCountedTwice ==
    /\ \A r, c \in Ranks : value[r][c] <= 1
    /\ \A m \in wire : \A c \in Ranks : m.sum[c] <= 1

\* A message is taken by the receive posted for it: nothing stays on the wire
\* once the destination has its sum.
NothingLeftOnTheWire == stage[Root] = "returned" => wire = {}

\* A reduction ends on every rank, also when no send is buffered, unless an
\* addition raises: then the receivers above that rank wait for good.
EveryRankReturns ==
    <>(\E r \in Ranks : stage[r] = "raised") \/ <>(\A r \in Ranks : stage[r] = "returned")
=============================================================================
