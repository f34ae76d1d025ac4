---------------------------- MODULE TypedCollectives ----------------------------
(***************************************************************************)
(* The typed collectives of one process group.  Every rank runs the same   *)
(* program of calls; a call is a script of steps, each a collective or a   *)
(* set of point-to-point messages of the process group.  The group's       *)
(* contract is the library's: the n-th collectives of all ranks meet, a    *)
(* receive takes a message of the rank it names.                           *)
(* Tensors are reduced to who contributed them in which call, ciphertexts  *)
(* to how often they contain each rank's partial.                          *)
(***************************************************************************)
EXTENDS ReductionTree, Sequences, SequencesExt, FiniteSets

CONSTANTS
    Calls,   \* length of the program
    Kinds,   \* collectives the program may call
    Roots,   \* source or destination of a call
    Faults,  \* what can be wrong with an argument: "wrong_type", "odd_layout", "opaque"
    MayRaise \* ranks that may fail alone: their device holds no tensor of the sender's
             \* kind, or their engine rejects an addition

AllKinds == {"broadcast", "scatter", "scatter_limbs", "gather", "all_gather",
             "reduce", "all_reduce"}

ASSUME ProgramAssumption ==
    /\ Calls \in Nat /\ Roots \subseteq Ranks /\ WorldSize > 1 /\ Kinds \subseteq AllKinds
    /\ MayRaise \subseteq Ranks

VARIABLES
    program,   \* the calls of the application, the same on every rank
    rank,      \* control state and values of each rank
    posts,     \* collectives each rank has entered, in order
    wire       \* point-to-point messages sent and not yet received

vars == <<program, rank, posts, wire>>

\* Mutated: scatter relies on its descriptors and all_reduce on its sum to find
\* wrong arguments.
ScriptUnchecked(kind) ==
    CASE kind = "broadcast"      -> <<"errors", "describe", "tensors">>
      [] kind = "scatter"        -> <<"describe", "pieces">>
      [] kind = "scatter_limbs"  -> <<"errors", "errors", "describe", "pieces">>
      [] kind = "gather"         -> <<"errors", "layouts", "pieces">>
      [] kind = "all_gather"     -> <<"layouts", "tensors">>
      [] kind = "reduce"         -> <<"errors", "layouts", "tree">>
      [] kind = "all_reduce"     -> <<"errors", "tree", "tensors">>

Script(kind) ==
    CASE kind = "broadcast"      -> <<"errors", "describe", "tensors">>
      [] kind = "scatter"        -> <<"errors", "describe", "pieces">>
      [] kind = "scatter_limbs"  -> <<"errors", "errors", "describe", "pieces">>
      [] kind = "gather"         -> <<"errors", "layouts", "pieces">>
      [] kind = "all_gather"     -> <<"layouts", "tensors">>
      [] kind = "reduce"         -> <<"errors", "layouts", "tree">>
      [] kind = "all_reduce"     -> <<"errors", "layouts", "tree", "tensors">>

KindOf(k) == program[k].kind

RootOf(k) == IF KindOf(k) = "all_reduce" THEN 0 ELSE program[k].root

Partial(r) == [c \in Ranks |-> IF c = r THEN 1 ELSE 0]

Plus(a, b) == [c \in Ranks |-> a[c] + b[c]]

Part(position, from, k) == [position |-> position, from |-> from, call |-> k]

Init ==
    /\ program \in [1 .. Calls -> [kind : Kinds, root : Roots]]
    /\ rank = [r \in Ranks |-> [call |-> 0, step |-> 0, arg |-> "good", mask |-> 1,
                                sum |-> Partial(r), got |-> {}, outcomes |-> <<>>]]
    /\ posts = [r \in Ranks |-> <<>>]
    /\ wire = {}

Me(r) == rank[r]

StepOf(r) ==
    IF Me(r).step = 0 THEN "idle" ELSE Script(KindOf(Me(r).call))[Me(r).step]

IsRoot(r) == r = RootOf(Me(r).call)

Describes(r, k, name) ==
    \/ name = "layouts"
    \/ name = "describe" /\ r = RootOf(k)

Item(r, me, name) ==
    CASE name = "errors"  -> me.arg = "wrong_type"
      [] name = "layouts" -> me.arg = "odd_layout"
      [] OTHER            -> me.sum

\* Mutated: pieces are numbered from one.
SendsFromOne(r, k, name) ==
    LET pieces == IF KindOf(k) = "gather"
                  THEN IF r = RootOf(k) THEN {} ELSE {<<RootOf(k), r + 1>>}
                  ELSE IF r = RootOf(k) THEN {<<d, d + 1>> : d \in Ranks \ {r}} ELSE {}
    IN  IF name = "pieces"
        THEN {[from |-> r, to |-> p[1], position |-> p[2], call |-> k,
               sum |-> Partial(r)] : p \in pieces}
        ELSE {}

Sends(r, k, name) ==
    LET pieces == IF KindOf(k) = "gather"
                  THEN IF r = RootOf(k) THEN {} ELSE {<<RootOf(k), r>>}
                  ELSE IF r = RootOf(k) THEN {<<d, d>> : d \in Ranks \ {r}} ELSE {}
    IN  IF name = "pieces"
        THEN {[from |-> r, to |-> p[1], position |-> p[2], call |-> k,
               sum |-> Partial(r)] : p \in pieces}
        ELSE {}

Ended(me, outcome) ==
    [me EXCEPT !.step = 0, !.arg = "good", !.mask = 1, !.outcomes = Append(@, outcome)]

\* Rank r, now in state me and with the messages in left on the wire, enters the
\* next step of its call, or returns from it.
Proceed(r, me, left) ==
    LET script == Script(KindOf(me.call))
        name == script[me.step + 1]
    IN  /\ UNCHANGED program
        /\ \/ /\ me.step = Len(script)
              /\ rank' = [rank EXCEPT ![r] = Ended(me, "ok")]
              /\ wire' = left
              /\ UNCHANGED posts
           \/ /\ me.step < Len(script)
              /\ me.arg = "opaque" /\ Describes(r, me.call, name)
              /\ rank' = [rank EXCEPT ![r] = Ended(me, "raised")]
              /\ wire' = left
              /\ UNCHANGED posts
           \/ /\ me.step < Len(script)
              /\ ~(me.arg = "opaque" /\ Describes(r, me.call, name))
              /\ rank' = [rank EXCEPT ![r] = [me EXCEPT !.step = @ + 1]]
              /\ wire' = left \cup Sends(r, me.call, name)
              /\ posts' = IF name \in {"pieces", "tree"} THEN posts
                          ELSE [posts EXCEPT ![r] = Append(@,
                                  [call |-> me.call, step |-> me.step + 1,
                                   item |-> Item(r, me, name)])]

Refuse(r) ==
    /\ rank' = [rank EXCEPT ![r] = Ended(@, "refused")]
    /\ UNCHANGED <<program, posts, wire>>

\* The call of rank r fails on r alone; what was sent to r stays on the wire.
Raise(r) ==
    /\ rank' = [rank EXCEPT ![r] = Ended(@, "raised")]
    /\ UNCHANGED <<program, posts, wire>>

CanCall(r) ==
    /\ StepOf(r) = "idle"
    /\ Me(r).call < Calls
    /\ \A n \in DOMAIN Me(r).outcomes : Me(r).outcomes[n] # "raised"

Fresh(r, a) ==
    LET kept == IF KindOf(Me(r).call + 1) \in {"broadcast", "scatter", "scatter_limbs"}
                    /\ r = RootOf(Me(r).call + 1)
                THEN {Part(IF KindOf(Me(r).call + 1) = "broadcast" THEN 0 ELSE r,
                           r, Me(r).call + 1)}
                ELSE IF KindOf(Me(r).call + 1) = "gather" /\ r = RootOf(Me(r).call + 1)
                THEN {Part(r, r, Me(r).call + 1)}
                ELSE {}
    IN  [Me(r) EXCEPT !.call = @ + 1, !.arg = a, !.sum = Partial(r), !.got = kept]

Start(r) ==
    /\ CanCall(r)
    /\ \E a \in Faults \cup {"good"} :
          /\ ~(KindOf(Me(r).call + 1) = "all_gather" /\ a = "wrong_type")
          /\ Proceed(r, Fresh(r, a), wire)

\* all_gather_ciphertexts checks the type of its argument on its own.
RaiseTypeError(r) ==
    /\ CanCall(r)
    /\ "wrong_type" \in Faults
    /\ KindOf(Me(r).call + 1) = "all_gather"
    /\ rank' = [rank EXCEPT ![r] = Ended(Fresh(r, "wrong_type"), "raised")]
    /\ UNCHANGED <<program, posts, wire>>

\* The collective rank r is in, as rank s posted it.
Met(s, r) == posts[s][Len(posts[r])]

EveryoneJoined(r) == \A s \in Ranks : Len(posts[s]) >= Len(posts[r])

RootJoined(r) == Len(posts[RootOf(Me(r).call)]) >= Len(posts[r])

\* Mutated: a rank looks at its own argument only.
CollectArgumentErrorsAlone(r) ==
    /\ StepOf(r) = "errors"
    /\ EveryoneJoined(r)
    /\ IF Met(r, r).item THEN Refuse(r) ELSE Proceed(r, Me(r), wire)

CollectArgumentErrors(r) ==
    /\ StepOf(r) = "errors"
    /\ EveryoneJoined(r)
    /\ IF \E s \in Ranks : Met(s, r).item THEN Refuse(r) ELSE Proceed(r, Me(r), wire)

CheckIdenticalLayout(r) ==
    /\ StepOf(r) = "layouts"
    /\ EveryoneJoined(r)
    /\ IF /\ KindOf(Me(r).call) # "gather"
          /\ \E s \in Ranks : Met(s, r).item # Met(0, r).item
       THEN Refuse(r)
       ELSE Proceed(r, Me(r), wire)

BroadcastDescriptor(r) ==
    /\ StepOf(r) = "describe"
    /\ RootJoined(r)
    /\ Proceed(r, Me(r), wire)

\* The descriptors that rank r has just received describe tensors it allocates.
Allocates(r) ==
    \/ StepOf(r) = "describe" /\ ~IsRoot(r) /\ RootJoined(r)
    \/ StepOf(r) = "layouts" /\ KindOf(Me(r).call) = "gather" /\ IsRoot(r) /\ EveryoneJoined(r)

\* A CUDA tensor is described to a rank whose device is not a CUDA device.
AllocationRaises(r) == r \in MayRaise /\ Allocates(r) /\ Raise(r)

BroadcastTensor(r) ==
    LET source == RootOf(Me(r).call)
        sent == Met(source, r)
    IN  /\ StepOf(r) = "tensors"
        /\ KindOf(Me(r).call) # "all_gather"
        /\ RootJoined(r)
        /\ Proceed(r, [Me(r) EXCEPT !.sum = sent.item,
                                    !.got = IF KindOf(sent.call) = "broadcast"
                                            THEN {Part(0, source, sent.call)} ELSE @],
                   wire)

AllGatherTensor(r) ==
    /\ StepOf(r) = "tensors"
    /\ KindOf(Me(r).call) = "all_gather"
    /\ EveryoneJoined(r)
    /\ Proceed(r, [Me(r) EXCEPT !.got = {Part(s, s, Met(s, r).call) : s \in Ranks}], wire)

\* The messages that the irecv operations a rank has posted can take.
Arrived(r) ==
    {m \in wire : /\ m.to = r
                  /\ \/ KindOf(Me(r).call) = "gather"
                     \/ m.from = RootOf(Me(r).call)}

\* The peers whose pieces a rank still waits for.
Awaited(r) ==
    CASE KindOf(Me(r).call) = "gather" /\ IsRoot(r) ->
            {s \in Ranks : ~\E p \in Me(r).got : p.position = s}
      [] KindOf(Me(r).call) # "gather" /\ ~IsRoot(r) ->
            IF Me(r).got = {} THEN {RootOf(Me(r).call)} ELSE {}
      [] OTHER -> {}

\* Mutated: the destination files parts in the order in which they arrive.
ReceivePieceInOrder(r) ==
    /\ StepOf(r) = "pieces"
    /\ Awaited(r) # {}
    /\ \E m \in Arrived(r) :
          /\ rank' = [rank EXCEPT ![r].got =
                         @ \cup {Part(IF IsRoot(r) THEN CHOOSE s \in Awaited(r) : TRUE
                                      ELSE m.position, m.from, m.call)}]
          /\ wire' = wire \ {m}
    /\ UNCHANGED <<program, posts>>

ReceivePiece(r) ==
    /\ StepOf(r) = "pieces"
    /\ \E m \in Arrived(r) :
          /\ m.from \in Awaited(r)
          /\ rank' = [rank EXCEPT ![r].got = @ \cup {Part(m.position, m.from, m.call)}]
          /\ wire' = wire \ {m}
    /\ UNCHANGED <<program, posts>>

Unsent(r) == \E m \in wire : m.from = r

PiecesDone(r) ==
    /\ StepOf(r) = "pieces"
    /\ Awaited(r) = {}
    /\ ~Unsent(r)
    /\ Proceed(r, Me(r), wire)

InTree(r) == StepOf(r) = "tree" /\ Me(r).mask # 0

Place(r) == Logical(r, RootOf(Me(r).call))

At(r, l) == Physical(l, RootOf(Me(r).call))

TreeSend(r) ==
    /\ InTree(r)
    /\ Me(r).mask < WorldSize
    /\ IsSender(Place(r), Me(r).mask)
    /\ rank' = [rank EXCEPT ![r].mask = 0]
    /\ wire' = wire \cup {[from |-> r, to |-> At(r, Place(r) - Me(r).mask),
                           position |-> r, call |-> Me(r).call, sum |-> Me(r).sum]}
    /\ UNCHANGED <<program, posts>>

TreeSent(r) ==
    /\ StepOf(r) = "tree"
    /\ Me(r).mask = 0
    /\ ~Unsent(r)
    /\ Proceed(r, [Me(r) EXCEPT !.mask = 1], wire)

\* What the irecv of the phase that rank r is in can take.
Incoming(r) ==
    {m \in wire : m.to = r /\ m.from = At(r, Place(r) + Me(r).mask)}

TreeReceive(r) ==
    /\ InTree(r)
    /\ Me(r).mask < WorldSize
    /\ IsReceiver(Place(r), Me(r).mask)
    /\ \E m \in Incoming(r) :
          /\ rank' = [rank EXCEPT ![r].sum = Plus(@, m.sum), ![r].mask = 2 * @]
          /\ wire' = wire \ {m}
    /\ UNCHANGED <<program, posts>>

\* engine.add_ rejects the value that was received; r sends nothing to its parent.
AddRaises(r) ==
    /\ r \in MayRaise
    /\ InTree(r)
    /\ Me(r).mask < WorldSize
    /\ IsReceiver(Place(r), Me(r).mask)
    /\ \E m \in Incoming(r) : wire' = wire \ {m}
    /\ rank' = [rank EXCEPT ![r] = Ended(@, "raised")]
    /\ UNCHANGED <<program, posts>>

TreeSitOut(r) ==
    /\ InTree(r)
    /\ Me(r).mask < WorldSize
    /\ ~IsReceiver(Place(r), Me(r).mask)
    /\ ~IsSender(Place(r), Me(r).mask)
    /\ rank' = [rank EXCEPT ![r].mask = 2 * @]
    /\ UNCHANGED <<program, posts, wire>>

TreeDone(r) ==
    /\ InTree(r)
    /\ Me(r).mask >= WorldSize
    /\ Proceed(r, [Me(r) EXCEPT !.mask = 1], wire)

\* A transport that buffers lets a send return before its message is taken.
BufferedSend(r) ==
    /\ Unsent(r)
    /\ \/ StepOf(r) = "pieces" /\ Awaited(r) = {}
       \/ StepOf(r) = "tree" /\ Me(r).mask = 0
    /\ Proceed(r, [Me(r) EXCEPT !.mask = 1], wire)

Advance(r) ==
    \/ CollectArgumentErrors(r) \/ CheckIdenticalLayout(r)
    \/ BroadcastDescriptor(r) \/ BroadcastTensor(r) \/ AllGatherTensor(r)
    \/ ReceivePiece(r) \/ PiecesDone(r)
    \/ TreeSend(r) \/ TreeSent(r) \/ TreeReceive(r) \/ TreeSitOut(r) \/ TreeDone(r)

Next ==
    \E r \in Ranks :
        \/ Start(r) \/ Advance(r) \/ BufferedSend(r)
        \/ RaiseTypeError(r) \/ AllocationRaises(r) \/ AddRaises(r)

Spec == Init /\ [][Next]_vars
-----------------------------------------------------------------------------
\* The n-th collectives of all ranks belong to the same call and the same step of
\* it, whatever arguments are wrong and however far ranks run ahead.
CollectivesMeet ==
    \A r, s \in Ranks : \A n \in 1 .. Len(posts[r]) :
        n <= Len(posts[s]) => /\ posts[r][n].call = posts[s][n].call
                              /\ posts[r][n].step = posts[s][n].step

Finished(r, k, outcome) ==
    Len(Me(r).outcomes) >= k /\ Me(r).outcomes[k] = outcome

\* A call that one rank refuses for the arguments of the group is refused by every
\* rank that does not raise in it: no rank returns from it.
RefusalsAgree ==
    \A r, s \in Ranks, k \in 1 .. Calls :
        ~(Finished(r, k, "refused") /\ Finished(s, k, "ok"))

ExpectedParts(r, k) ==
    CASE KindOf(k) = "broadcast"  -> {Part(0, RootOf(k), k)}
      [] KindOf(k) \in {"scatter", "scatter_limbs"} -> {Part(r, RootOf(k), k)}
      [] KindOf(k) = "gather" /\ r = RootOf(k) -> {Part(s, s, k) : s \in Ranks}
      [] KindOf(k) = "all_gather" -> {Part(s, s, k) : s \in Ranks}
      [] OTHER -> {}

ExpectedSum(r, k) == r = RootOf(k) \/ KindOf(k) = "all_reduce"

\* A call that returns gives each rank the values of this call, in group-rank
\* order, and a reduction the sum of every rank's partial, each counted once.
ResultsAreExact ==
    \A r \in Ranks : LET k == Me(r).call IN
        StepOf(r) = "idle" /\ k > 0 /\ Finished(r, k, "ok") =>
            /\ Me(r).got = ExpectedParts(r, k)
            /\ KindOf(k) \in {"reduce", "all_reduce"} /\ ExpectedSum(r, k) =>
                   Me(r).sum = [c \in Ranks |-> 1]

\* A message finds its receiver in the call it was sent in, or out of that call
\* by an exception and then for good: no receive can take a message of another
\* call or phase, and messages need no tag to tell calls and phases apart.
MessagesMeetTheirCall ==
    /\ \A m \in wire :
          /\ Me(m.to).call = m.call
          /\ StepOf(m.to) = "idle" => Finished(m.to, m.call, "raised")
    /\ \A m, n \in wire : m.from = n.from /\ m.to = n.to => m = n

\* No rank waits for a collective or a message that never comes: where nothing
\* can move, every rank is out of its call.  A step takes a rank forward in a
\* finite program, so this is also all that keeps a call from ending.
NobodyWaitsForever == ENABLED Next \/ \A r \in Ranks : StepOf(r) = "idle"

\* Ranks are left waiting only by a rank that raised on its own, before, between or
\* after the collectives of its call: refused arguments, unbuffered sends and ranks
\* that run ahead never strand anybody.
OnlyRaisingStrands ==
    NobodyWaitsForever \/ \E r \in Ranks, k \in 1 .. Calls : Finished(r, k, "raised")
=============================================================================
