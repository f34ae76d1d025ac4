----------------------------- MODULE RotationPaths -----------------------------
(***************************************************************************)
(* utils/rotation.py: a rotation for which no key is installed is composed *)
(* of installed ones, found by a breadth-first search of the residues.     *)
(***************************************************************************)
EXTENDS Integers, FiniteSets, SequencesExt

CONSTANT NumSlots

ASSUME SlotsAssumption == NumSlots \in Nat \ {0}

NormalizeStep(step) == ((step + NumSlots \div 2) % NumSlots) - (NumSlots \div 2)

Residue(step) == step % NumSlots

\* The usable steps, in the order in which the search tries them.
SortedSteps(steps) ==
    LET usable == {s \in steps : Residue(s) # 0}
    IN  [k \in 1 .. Cardinality(usable) |->
            CHOOSE s \in usable : Cardinality({r \in usable : r < s}) = k - 1]

\* A search: residues to go on from, and how each known residue was reached.
Visit(search, back, step) ==
    LET candidate == Residue(back + step) IN
    IF candidate \in DOMAIN search.reached THEN search
    ELSE [queue |-> Append(search.queue, candidate),
          reached |-> [c \in DOMAIN search.reached \cup {candidate} |->
                         IF c = candidate THEN [back |-> back, step |-> step]
                         ELSE search.reached[c]]]

Searched(search, target) == search.queue = <<>> \/ target \in DOMAIN search.reached

\* Mutated: the residue reached last is taken first.
ExpandLast(search, target, steps) ==
    IF Searched(search, target) THEN search
    ELSE FoldLeft(LAMBDA found, step : Visit(found, Last(search.queue), step),
                  [search EXCEPT !.queue = Front(@)],
                  SortedSteps(steps))

Expand(search, target, steps) ==
    IF Searched(search, target) THEN search
    ELSE FoldLeft(LAMBDA found, step : Visit(found, Head(search.queue), step),
                  [search EXCEPT !.queue = Tail(@)],
                  SortedSteps(steps))

Search(target, steps) ==
    LET start == [queue |-> <<0>>, reached |-> [c \in {0} |-> [back |-> 0, step |-> 0]]]
        after[n \in 0 .. NumSlots] ==
            IF n = 0 THEN start ELSE Expand(after[n - 1], target, steps)
    IN  after[NumSlots].reached

\* KeyError: no path of usable steps has a zero.
NoPath == <<0>>

DecomposeRotationStep(rotation, steps) ==
    LET reached == Search(Residue(rotation), steps)
        path[c \in DOMAIN reached] ==
            IF c = 0 THEN <<>> ELSE Append(path[reached[c].back], reached[c].step)
    IN  IF Residue(rotation) \in DOMAIN reached THEN path[Residue(rotation)] ELSE NoPath

-----------------------------------------------------------------------------
(* Reference *)

\* The residues of all sums of exactly n steps.
Sums(n, steps) ==
    LET sums[i \in 0 .. n] ==
            IF i = 0 THEN {0}
            ELSE {Residue(c + s) : c \in sums[i - 1], s \in steps}
    IN  sums[n]

IsShortestPath(path, rotation, steps) ==
    IF path = NoPath
    THEN \A n \in 0 .. NumSlots : Residue(rotation) \notin Sums(n, steps)
    ELSE /\ \A i \in DOMAIN path : path[i] \in steps
         /\ Residue(FoldLeft(+, 0, path)) = Residue(rotation)
         /\ \A n \in 0 .. Len(path) - 1 : Residue(rotation) \notin Sums(n, steps)
=============================================================================
