------------------------ MODULE TypedCollectivesProofs ------------------------
(***************************************************************************)
(* The collectives of all ranks meet, refusals agree, messages find their  *)
(* call and results are exact, for every program, group size, root and mix *)
(* of wrong arguments.                                                     *)
(* What a rank posts next is decided by the place of its last post and by  *)
(* what all ranks posted there, so the ranks' posts are prefixes of one    *)
(* sequence (MeetInv).  A rank that is about to send a message has passed  *)
(* every step of the call that waits for all ranks, so its receiver has    *)
(* entered the call and passed them too; and the receiver cannot leave     *)
(* before it has taken the message, unless it raises, and then it makes no *)
(* further call (FlowInv).  In the tree a rank at mask m holds the sum of  *)
(* the m places from its own on, because the masks are powers of two and a *)
(* message of place l + m carries the next m places.                       *)
(***************************************************************************)
EXTENDS TypedCollectives, TLAPS

LastStep(k) == Len(Script(KindOf(k)))

StepName(k, i) == Script(KindOf(k))[i]

\* A step in which the rank posts no collective.
Silent(k, i) == StepName(k, i) \in {"pieces", "tree"}

\* A step that waits for every rank and may refuse the call.
Judges(k, i) == StepName(k, i) \in {"errors", "layouts"}

Sums == [Ranks -> Nat]

Outcomes == {"ok", "refused", "raised"}

Parts == [position : Ranks, from : Ranks, call : 1 .. Calls]

Controls ==
    [call : 0 .. Calls, step : 0 .. 4, arg : Faults \cup {"good"}, mask : Nat,
     sum : Sums, got : SUBSET Parts, outcomes : Seq(Outcomes)]

Posts == [call : 1 .. Calls, step : 1 .. 4, item : BOOLEAN \cup Sums]

Messages ==
    [from : Ranks, to : Ranks, position : Ranks, call : 1 .. Calls, sum : Sums]

\* A post belongs to a step that posts, and holds what that step shows the others.
Placed(p) ==
    /\ p.call \in 1 .. Calls /\ p.step \in 1 .. LastStep(p.call)
    /\ ~Silent(p.call, p.step)
    /\ ~Judges(p.call, p.step) => p.item \in Sums

Typed ==
    /\ program \in [1 .. Calls -> [kind : Kinds, root : Roots]]
    /\ rank \in [Ranks -> Controls]
    /\ posts \in [Ranks -> Seq(Posts)]
    /\ wire \subseteq Messages
    /\ \A r \in Ranks : /\ Me(r).step > 0 => Me(r).call > 0
                        /\ Me(r).call > 0 => Me(r).step <= LastStep(Me(r).call)
                        /\ \A n \in 1 .. Len(posts[r]) : Placed(posts[r][n])
-----------------------------------------------------------------------------
(* The posts of a rank follow each other as the verdicts command. *)

Full(n) == \A s \in Ranks : n <= Len(posts[s])

AllAlike(n) == \A s \in Ranks : posts[s][n].item = posts[0][n].item

\* The n-th post of rank r asked for a verdict, and it was to go on.
Passed(r, n) ==
    LET p == posts[r][n] IN
    Judges(p.call, p.step) =>
        /\ Full(n)
        /\ StepName(p.call, p.step) = "errors" => \A s \in Ranks : ~posts[s][n].item
        /\ StepName(p.call, p.step) = "layouts" => KindOf(p.call) = "gather" \/ AllAlike(n)

Refused(r, n) ==
    LET p == posts[r][n] IN
    /\ Judges(p.call, p.step) /\ Full(n)
    /\ StepName(p.call, p.step) = "errors" => \E s \in Ranks : posts[s][n].item
    /\ StepName(p.call, p.step) = "layouts" => KindOf(p.call) # "gather" /\ ~AllAlike(n)

SilentAfter(k, i, j) == \A l \in (i + 1) .. j : Silent(k, l)

\* After its n-th post, rank r is to post in step i of call k.
Leads(r, n, k, i) ==
    LET p == posts[r][n] IN
    \/ /\ Passed(r, n)
       /\ k = p.call /\ p.step < i /\ SilentAfter(k, p.step, i - 1)
    \/ /\ k = p.call + 1 /\ i = 1
       /\ Refused(r, n) \/ (Passed(r, n) /\ SilentAfter(p.call, p.step, LastStep(p.call)))

Lineage(r) ==
    /\ Len(posts[r]) > 0 => posts[r][1].call = 1 /\ posts[r][1].step = 1
    /\ \A n \in 1 .. (Len(posts[r]) - 1) :
          Leads(r, n, posts[r][n + 1].call, posts[r][n + 1].step)

HasRaised(r) == \E k \in DOMAIN Me(r).outcomes : Me(r).outcomes[k] = "raised"

\* Where a rank is, seen from its last post.
Located(r) ==
    LET last == Len(posts[r])
        p == posts[r][last]
    IN  Me(r).call > 0 /\ ~HasRaised(r) =>
          /\ last > 0 /\ p.call = Me(r).call
          /\ Me(r).step > 0 =>
                /\ p.step <= Me(r).step
                /\ SilentAfter(p.call, p.step, Me(r).step)
                /\ p.step < Me(r).step => Passed(r, last)
          /\ Me(r).step = 0 =>
                \/ Refused(r, last)
                \/ Passed(r, last) /\ SilentAfter(p.call, p.step, LastStep(p.call))

Counted(r) ==
    /\ Len(Me(r).outcomes) = IF Me(r).step = 0 THEN Me(r).call ELSE Me(r).call - 1
    /\ Me(r).call = 0 => Len(posts[r]) = 0
    /\ Me(r).step > 0 => ~HasRaised(r)

\* The posts of a call were passed when the rank is beyond them.
Judged(r) ==
    \A n \in 1 .. Len(posts[r]) :
        LET p == posts[r][n] IN
        /\ p.call <= Me(r).call
        /\ p.call = Me(r).call /\ Me(r).step > 0 =>
              /\ p.step <= Me(r).step
              /\ n < Len(posts[r]) => p.step < Me(r).step
              /\ p.step < Me(r).step => Passed(r, n)
        /\ Finished(r, p.call, "ok") => Passed(r, n)

RefusedTogether(r) ==
    \A k \in 1 .. Calls : Finished(r, k, "refused") =>
        \E n \in 1 .. Len(posts[r]) : posts[r][n].call = k /\ Refused(r, n)

\* A rank in a call has posted every step that posts, up to its own.
Opened(r) ==
    Me(r).step > 0 =>
        \A i \in 1 .. Me(r).step : Silent(Me(r).call, i) \/
            \E n \in 1 .. Len(posts[r]) :
                posts[r][n].call = Me(r).call /\ posts[r][n].step = i

\* A rank makes no call after the one that raised.
RaisedLast(r) ==
    \A k \in 1 .. Calls : Finished(r, k, "raised") => Me(r).call = k /\ Me(r).step = 0

Coherent(r) ==
    /\ Lineage(r) /\ Located(r) /\ Counted(r) /\ Judged(r)
    /\ RefusedTogether(r) /\ Opened(r) /\ RaisedLast(r)

\* The inductive invariant of what the ranks post.
MeetInv == Typed /\ CollectivesMeet /\ \A r \in Ranks : Coherent(r)
-----------------------------------------------------------------------------
(* The messages of a call and the values it leaves. *)

Ones == [c \in Ranks |-> 1]

Scatters(k) == KindOf(k) \in {"scatter", "scatter_limbs"}

Gathers(k) == KindOf(k) = "gather"

Reduces(k) == KindOf(k) \in {"reduce", "all_reduce"}

HasData(k) == Scatters(k) \/ Gathers(k) \/ Reduces(k)

\* The step of a call that exchanges messages.
DataStep(k) == IF KindOf(k) = "scatter_limbs" THEN 4 ELSE 3

AtData(r, k) == HasData(k) /\ Me(r).call = k /\ Me(r).step = DataStep(k)

PlaceIn(r, k) == Logical(r, RootOf(k))

\* The masks of the tree: the powers of two.
Phases ==
    {b \in Nat : \A S \in SUBSET Nat : 1 \in S /\ (\A x \in S : 2 * x \in S) => b \in S}

\* The partials of the size logical ranks from l on.
Subtree(k, l, size) ==
    [c \in Ranks |-> IF l <= PlaceIn(c, k) /\ PlaceIn(c, k) < l + size THEN 1 ELSE 0]

\* In call k, rank t is to receive from rank s.
Feeds(s, t, k) ==
    \/ Gathers(k) /\ t = RootOf(k) /\ s # t
    \/ Scatters(k) /\ s = RootOf(k) /\ s # t
    \/ Reduces(k) /\ \E b \in Phases :
          IsReceiver(PlaceIn(t, k), b) /\ PlaceIn(s, k) = PlaceIn(t, k) + b

\* Rank r has sent all it sends in call k.
Sent(r, k) ==
    \/ Me(r).call > k
    \/ Me(r).call = k /\ (Me(r).step = 0 \/ Me(r).step > DataStep(k))
    \/ AtData(r, k) /\ (Reduces(k) => Me(r).mask = 0)

\* Rank t, in the data step of call k, no longer waits for rank s.
Taken(t, s, k) ==
    \/ Gathers(k) /\ \E p \in Me(t).got : p.position = s
    \/ Scatters(k) /\ Me(t).got # {}
    \/ Reduces(k) /\ (Me(t).mask = 0 \/ PlaceIn(s, k) - PlaceIn(t, k) < Me(t).mask)

Completed(t, k) ==
    Finished(t, k, "ok") \/ (Me(t).call = k /\ Me(t).step > DataStep(k))

SuppliedTo(t) ==
    \A s \in Ranks, k \in 1 .. Calls :
        Feeds(s, t, k) /\ (Completed(t, k) \/ (AtData(t, k) /\ Taken(t, s, k))) => Sent(s, k)

Payload(m) ==
    LET k == m.call IN
    IF Reduces(k)
    THEN /\ m.position = m.from
         /\ m.sum = Subtree(k, PlaceIn(m.from, k), PlaceIn(m.from, k) - PlaceIn(m.to, k))
    ELSE /\ m.position = IF Scatters(k) THEN m.to ELSE m.from
         /\ m.sum = Partial(m.from)

\* Rank t has passed every step of call k that judges.
Cleared(t, k) ==
    \A i \in 1 .. LastStep(k) : Judges(k, i) =>
        \E n \in 1 .. Len(posts[t]) :
            posts[t][n].call = k /\ posts[t][n].step = i /\ Passed(t, n)

Ready(t, s, k) ==
    /\ Me(t).call = k /\ Me(t).step \in 1 .. DataStep(k)
    /\ Me(t).step = DataStep(k) => ~Taken(t, s, k)
    /\ Cleared(t, k)

\* Rank t has yet to take what rank s sends it in call k, or raised in that call.
Expects(t, s, k) == Ready(t, s, k) \/ Finished(t, k, "raised")

\* A message on its way: its receiver expects it.
Travels(m) ==
    /\ m.from \in Ranks /\ m.to \in Ranks /\ m.call \in 1 .. Calls
    /\ Feeds(m.from, m.to, m.call) /\ Sent(m.from, m.call)
    /\ Expects(m.to, m.from, m.call)
    /\ Payload(m)

Kept(r, k) ==
    IF r = RootOf(k) /\ (Gathers(k) \/ Scatters(k) \/ KindOf(k) = "broadcast")
    THEN {Part(IF KindOf(k) = "broadcast" THEN 0 ELSE r, r, k)}
    ELSE {}

\* What a rank in call k holds in the data step.
PiecesHeld(r, k) ==
    /\ Me(r).mask = 1
    /\ Gathers(k) => /\ Kept(r, k) \subseteq Me(r).got
                     /\ Me(r).got \subseteq {Part(s, s, k) : s \in Ranks}
                     /\ r # RootOf(k) => Me(r).got = {}
    /\ Scatters(k) => /\ Kept(r, k) \subseteq Me(r).got
                      /\ Me(r).got \subseteq {Part(r, RootOf(k), k)}

Multiples(mask) == {q * mask : q \in Nat}

SubtreeHeld(r, k) ==
    /\ Me(r).got = {}
    /\ Me(r).mask = 0 => r # RootOf(k)
    /\ Me(r).mask # 0 =>
          /\ Me(r).mask \in Phases
          /\ PlaceIn(r, k) \in Multiples(Me(r).mask)
          /\ Me(r).sum = Subtree(k, PlaceIn(r, k), Me(r).mask)

Carries(r) ==
    LET k == Me(r).call IN
    /\ Me(r).step = 0 => Me(r).mask = 1
    /\ Me(r).step > 0 =>
          /\ ~HasData(k) \/ Me(r).step < DataStep(k) =>
                Me(r).got = Kept(r, k) /\ Me(r).sum = Partial(r) /\ Me(r).mask = 1
          /\ AtData(r, k) => IF Reduces(k) THEN SubtreeHeld(r, k) ELSE PiecesHeld(r, k)
          /\ HasData(k) /\ Me(r).step > DataStep(k) =>
                /\ Me(r).got = {} /\ Me(r).mask = 1
                /\ r = RootOf(k) => Me(r).sum = Ones

\* What the root of an all_reduce broadcasts is the sum.
Shipped(r) ==
    \A n \in 1 .. Len(posts[r]) :
        LET k == posts[r][n].call IN
        KindOf(k) = "all_reduce" /\ posts[r][n].step = 4 /\ r = RootOf(k) =>
            posts[r][n].item = Ones

Delivered(r) ==
    LET k == Me(r).call IN
    Me(r).step = 0 /\ k > 0 /\ Finished(r, k, "ok") =>
        /\ Me(r).got = ExpectedParts(r, k)
        /\ Reduces(k) /\ ExpectedSum(r, k) => Me(r).sum = Ones

\* The inductive invariant of messages and values.
FlowInv ==
    /\ MeetInv
    /\ \A m \in wire : Travels(m)
    /\ \A r \in Ranks : SuppliedTo(r) /\ Carries(r) /\ Shipped(r) /\ Delivered(r)
-----------------------------------------------------------------------------
\* Every call opens with a step that judges it, and no call ends with one.
LEMMA Scripts ==
    /\ Script("broadcast") = <<"errors", "describe", "tensors">>
    /\ Script("scatter") = <<"errors", "describe", "pieces">>
    /\ Script("scatter_limbs") = <<"errors", "errors", "describe", "pieces">>
    /\ Script("gather") = <<"errors", "layouts", "pieces">>
    /\ Script("all_gather") = <<"layouts", "tensors">>
    /\ Script("reduce") = <<"errors", "layouts", "tree">>
    /\ Script("all_reduce") = <<"errors", "layouts", "tree", "tensors">>
BY DEF Script

\* The names of a script, and which of them judge.
WellFormed(script) ==
    /\ Len(script) \in 2 .. 4
    /\ script[1] \in {"errors", "layouts"}
    /\ \A i \in 1 .. Len(script) :
          /\ script[i] \in {"errors", "layouts"} => i < Len(script)
          /\ script[i] \in {"errors", "layouts", "describe", "tensors", "pieces", "tree"}

LEMMA ScriptShape == \A kind \in AllKinds : WellFormed(Script(kind))
<1>1. \A i \in 1 .. 3 : i = 1 \/ i = 2 \/ i = 3
  OBVIOUS
<1>2. \A i \in 1 .. 4 : i = 1 \/ i = 2 \/ i = 3 \/ i = 4
  OBVIOUS
<1>3. \A i \in 1 .. 2 : i = 1 \/ i = 2
  OBVIOUS
<1>4. WellFormed(Script("broadcast"))
  <2> DEFINE s == Script("broadcast")
  <2>1. Len(s) = 3
    BY Scripts
  <2>2. s[1] = "errors" /\ s[2] = "describe" /\ s[3] = "tensors"
    BY Scripts
  <2> HIDE DEF s
  <2>3. WellFormed(s)
    BY <2>1, <2>2, <1>1 DEF WellFormed
  <2> QED BY <2>3 DEF s
<1>5. WellFormed(Script("scatter"))
  <2> DEFINE s == Script("scatter")
  <2>1. Len(s) = 3
    BY Scripts
  <2>2. s[1] = "errors" /\ s[2] = "describe" /\ s[3] = "pieces"
    BY Scripts
  <2> HIDE DEF s
  <2>3. WellFormed(s)
    BY <2>1, <2>2, <1>1 DEF WellFormed
  <2> QED BY <2>3 DEF s
<1>6. WellFormed(Script("scatter_limbs"))
  <2> DEFINE s == Script("scatter_limbs")
  <2>1. Len(s) = 4
    BY Scripts
  <2>2. s[1] = "errors" /\ s[2] = "errors" /\ s[3] = "describe" /\ s[4] = "pieces"
    BY Scripts
  <2> HIDE DEF s
  <2>3. WellFormed(s)
    BY <2>1, <2>2, <1>2 DEF WellFormed
  <2> QED BY <2>3 DEF s
<1>7. WellFormed(Script("gather"))
  <2> DEFINE s == Script("gather")
  <2>1. Len(s) = 3
    BY Scripts
  <2>2. s[1] = "errors" /\ s[2] = "layouts" /\ s[3] = "pieces"
    BY Scripts
  <2> HIDE DEF s
  <2>3. WellFormed(s)
    BY <2>1, <2>2, <1>1 DEF WellFormed
  <2> QED BY <2>3 DEF s
<1>8. WellFormed(Script("all_gather"))
  <2> DEFINE s == Script("all_gather")
  <2>1. Len(s) = 2
    BY Scripts
  <2>2. s[1] = "layouts" /\ s[2] = "tensors"
    BY Scripts
  <2> HIDE DEF s
  <2>3. WellFormed(s)
    BY <2>1, <2>2, <1>3 DEF WellFormed
  <2> QED BY <2>3 DEF s
<1>9. WellFormed(Script("reduce"))
  <2> DEFINE s == Script("reduce")
  <2>1. Len(s) = 3
    BY Scripts
  <2>2. s[1] = "errors" /\ s[2] = "layouts" /\ s[3] = "tree"
    BY Scripts
  <2> HIDE DEF s
  <2>3. WellFormed(s)
    BY <2>1, <2>2, <1>1 DEF WellFormed
  <2> QED BY <2>3 DEF s
<1>10. WellFormed(Script("all_reduce"))
  <2> DEFINE s == Script("all_reduce")
  <2>1. Len(s) = 4
    BY Scripts
  <2>2. s[1] = "errors" /\ s[2] = "layouts" /\ s[3] = "tree" /\ s[4] = "tensors"
    BY Scripts
  <2> HIDE DEF s
  <2>3. WellFormed(s)
    BY <2>1, <2>2, <1>2 DEF WellFormed
  <2> QED BY <2>3 DEF s
<1> QED BY <1>4, <1>5, <1>6, <1>7, <1>8, <1>9, <1>10 DEF AllKinds

LEMMA CallShape ==
    ASSUME Typed, NEW k \in 1 .. Calls
    PROVE  /\ KindOf(k) \in AllKinds /\ RootOf(k) \in Ranks
           /\ LastStep(k) \in 2 .. 4 /\ Judges(k, 1)
           /\ \A i \in 1 .. LastStep(k) :
                 /\ Judges(k, i) => i < LastStep(k)
                 /\ ~(Judges(k, i) /\ Silent(k, i))
<1> USE ProgramAssumption, WorldSizeAssumption
<1>1. KindOf(k) \in AllKinds /\ program[k].root \in Ranks
  BY DEF Typed, KindOf
<1>2. RootOf(k) \in Ranks
  BY <1>1 DEF RootOf, Ranks
<1> QED BY <1>1, <1>2, ScriptShape DEF WellFormed, LastStep, Judges, Silent, StepName
-----------------------------------------------------------------------------
(* What an action does to the place of a rank and to its posts. *)

OthersStay(r) == \A s \in Ranks \ {r} : rank'[s] = rank[s]

\* Rank r enters step i of call k.
Enters(r, k, i) ==
    /\ OthersStay(r) /\ i \in 1 .. LastStep(k)
    /\ rank'[r].call = k /\ rank'[r].step = i /\ rank'[r].outcomes = Me(r).outcomes
    /\ IF Silent(k, i) THEN posts' = posts
       ELSE \E x \in Posts : /\ x.call = k /\ x.step = i
                             /\ posts' = [posts EXCEPT ![r] = Append(@, x)]

\* Rank r leaves call k.
Leaves(r, k, outcome) ==
    /\ OthersStay(r) /\ posts' = posts
    /\ rank'[r].call = k /\ rank'[r].step = 0
    /\ rank'[r].outcomes = Append(Me(r).outcomes, outcome)

Begins(r) ==
    /\ Me(r).step = 0 /\ ~HasRaised(r) /\ Me(r).call < Calls
    /\ Enters(r, Me(r).call + 1, 1) \/ Leaves(r, Me(r).call + 1, "raised")

\* Rank r goes on from step i of call k.
Proceeds(r, k, i) ==
    \/ Enters(r, k, i + 1)
    \/ i = LastStep(k) /\ Leaves(r, k, "ok")
    \/ /\ i < LastStep(k) /\ Describes(r, k, StepName(k, i + 1))
       /\ Leaves(r, k, "raised")

Continues(r) ==
    /\ Me(r).step > 0 /\ Passed(r, Len(posts[r]))
    /\ Proceeds(r, Me(r).call, Me(r).step)

Refuses(r) ==
    /\ Me(r).step > 0 /\ Refused(r, Len(posts[r]))
    /\ Leaves(r, Me(r).call, "refused")

\* Rank r fails on its own in the call it is in.
Raises(r) == Me(r).step > 0 /\ Leaves(r, Me(r).call, "raised")

Stays(r) ==
    /\ OthersStay(r) /\ posts' = posts
    /\ rank'[r].call = Me(r).call /\ rank'[r].step = Me(r).step
    /\ rank'[r].outcomes = Me(r).outcomes

Moves(r) == Begins(r) \/ Continues(r) \/ Refuses(r) \/ Raises(r) \/ Stays(r)

\* A step changes the state of one rank, r, to me, and the posts and the wire to
\* values of their types.
Becomes(r, me) ==
    /\ me \in Controls
    /\ me.step > 0 => me.call > 0
    /\ me.call > 0 => me.step <= LastStep(me.call)
    /\ UNCHANGED program
    /\ rank' = [rank EXCEPT ![r] = me]
    /\ wire' \subseteq Messages
    /\ \/ posts' = posts
       \/ \E x \in Posts : Placed(x) /\ posts' = [posts EXCEPT ![r] = Append(@, x)]

LEMMA TypedStep ==
    ASSUME Typed, NEW r \in Ranks, NEW me, Becomes(r, me)
    PROVE  Typed'
<1> USE DEF Becomes
<1>1. rank' \in [Ranks -> Controls] /\ \A s \in Ranks : rank'[s] = IF s = r THEN me ELSE rank[s]
  BY DEF Typed
<1>2. posts' \in [Ranks -> Seq(Posts)]
  <2>1. posts \in [Ranks -> Seq(Posts)]
    BY DEF Typed
  <2>2. \A x \in Posts : Append(posts[r], x) \in Seq(Posts)
    BY <2>1
  <2> QED BY <2>1, <2>2
<1>3. \A k \in 1 .. Calls, i \in 1 .. 4 :
         LastStep(k)' = LastStep(k) /\ Silent(k, i)' = Silent(k, i) /\ Judges(k, i)' = Judges(k, i)
  BY DEF LastStep, Silent, Judges, StepName, KindOf
<1>4. \A p : Placed(p)' <=> Placed(p)
  BY <1>3 DEF Placed, LastStep, Silent, Judges, StepName, KindOf
<1>5. ASSUME NEW s \in Ranks PROVE \A n \in 1 .. Len(posts'[s]) : Placed(posts'[s][n])
  <2>1. CASE posts' = posts
    BY <2>1 DEF Typed
  <2>2. ASSUME NEW x \in Posts, Placed(x), posts' = [posts EXCEPT ![r] = Append(@, x)]
        PROVE  \A n \in 1 .. Len(posts'[s]) : Placed(posts'[s][n])
    <3>1. CASE s # r
      BY <2>2, <3>1 DEF Typed
    <3>2. CASE s = r
      <4>1. posts[r] \in Seq(Posts) /\ posts'[s] = Append(posts[r], x)
        BY <2>2, <3>2 DEF Typed
      <4>2. \A n \in 1 .. Len(posts[r]) : Placed(posts[r][n])
        BY DEF Typed
      <4>3. /\ Len(Append(posts[r], x)) = Len(posts[r]) + 1
            /\ \A n \in 1 .. Len(posts[r]) + 1 :
                  Append(posts[r], x)[n] = IF n <= Len(posts[r]) THEN posts[r][n] ELSE x
        BY <4>1
      <4>4. Len(posts[r]) \in Nat
        BY <4>1
      <4>5. ASSUME NEW n \in 1 .. Len(posts'[s]) PROVE Placed(posts'[s][n])
        <5>1. CASE n <= Len(posts[r])
          BY <4>1, <4>2, <4>3, <4>4, <4>5, <5>1
        <5>2. CASE ~(n <= Len(posts[r]))
          BY <2>2, <4>1, <4>3, <4>4, <4>5, <5>2
        <5> QED BY <5>1, <5>2
      <4> QED BY <4>5
    <3> QED BY <3>1, <3>2
  <2> QED BY <2>1, <2>2
<1>6. \A k : LastStep(k)' = LastStep(k)
  BY DEF LastStep, KindOf
<1>7. \A s \in Ranks : /\ Me(s)'.step > 0 => Me(s)'.call > 0
                       /\ Me(s)'.call > 0 => Me(s)'.step <= LastStep(Me(s)'.call)
  BY <1>1 DEF Typed, Me
<1>8. program' \in [1 .. Calls -> [kind : Kinds, root : Roots]]
  BY DEF Typed
<1> QED BY <1>1, <1>2, <1>4, <1>5, <1>6, <1>7, <1>8 DEF Typed, LastStep, KindOf, Me
LEMMA SendsTyped ==
    ASSUME Typed, NEW r \in Ranks, NEW k \in 1 .. Calls, NEW name
    PROVE  Sends(r, k, name) \subseteq Messages
<1>1. RootOf(k) \in Ranks /\ Partial(r) \in Sums
  BY CallShape DEF Partial, Sums
<1> QED BY <1>1 DEF Sends, Messages

LEMMA EndedControl ==
    ASSUME NEW me \in Controls, NEW outcome \in Outcomes
    PROVE  /\ Ended(me, outcome) \in Controls
           /\ Ended(me, outcome).call = me.call /\ Ended(me, outcome).step = 0
           /\ Ended(me, outcome).outcomes = Append(me.outcomes, outcome)
           /\ Ended(me, outcome).got = me.got /\ Ended(me, outcome).sum = me.sum
           /\ Ended(me, outcome).mask = 1
<1>1. Append(me.outcomes, outcome) \in Seq(Outcomes)
  BY DEF Controls
<1> DEFINE o == Append(me.outcomes, outcome)
<1> DEFINE new == [me EXCEPT !.step = 0, !.arg = "good", !.mask = 1, !.outcomes = o]
<1>2. Ended(me, outcome) = new
  BY DEF Ended
<1> HIDE DEF o
<1>3. new \in Controls
  <2>1. o \in Seq(Outcomes)
    BY <1>1 DEF o
  <2> DEFINE m1 == [me EXCEPT !.step = 0]
  <2> DEFINE m2 == [m1 EXCEPT !.arg = "good"]
  <2> DEFINE m3 == [m2 EXCEPT !.mask = 1]
  <2> DEFINE m4 == [m3 EXCEPT !.outcomes = o]
  <2>2. new = m4
    OBVIOUS
  <2> HIDE DEF new
  <2>3. m1 \in Controls
    BY DEF Controls
  <2> HIDE DEF m1
  <2>4. m2 \in Controls
    BY <2>3 DEF Controls
  <2> HIDE DEF m2
  <2>5. m3 \in Controls
    BY <2>4 DEF Controls
  <2> HIDE DEF m3
  <2>6. m4 \in Controls
    BY <2>1, <2>5 DEF Controls
  <2> QED BY <2>2, <2>6
<1>4. new.call = me.call /\ new.step = 0 /\ new.outcomes = o
  BY DEF Controls
<1>5. new.got = me.got /\ new.sum = me.sum /\ new.mask = 1
  BY DEF Controls
<1> HIDE DEF new
<1> QED BY <1>2, <1>3, <1>4, <1>5 DEF o

LEMMA ProceedStep ==
    ASSUME Typed, NEW r \in Ranks, NEW me \in Controls, NEW left \in SUBSET Messages,
           me.call \in 1 .. Calls, me.step <= LastStep(me.call),
           me.outcomes = Me(r).outcomes, Proceed(r, me, left)
    PROVE  Typed' /\ Proceeds(r, me.call, me.step)
<1> DEFINE k == me.call
<1> DEFINE i == me.step
<1> DEFINE name == StepName(k, i + 1)
<1>1. LastStep(k) = Len(Script(KindOf(me.call))) /\ name = Script(KindOf(me.call))[me.step + 1]
  BY DEF LastStep, StepName
<1>2. i \in 0 .. 4 /\ LastStep(k) \in 2 .. 4 /\ k \in 1 .. Calls
  BY CallShape DEF Controls
<1>3. \A new \in Controls : rank' = [rank EXCEPT ![r] = new] => OthersStay(r) /\ rank'[r] = new
  BY DEF Typed, OthersStay
<1>4. UNCHANGED program
  BY DEF Proceed
<1>5. CASE /\ me.step = LastStep(k) /\ rank' = [rank EXCEPT ![r] = Ended(me, "ok")]
           /\ wire' = left /\ posts' = posts
  <2>1. Ended(me, "ok") \in Controls /\ Leaves(r, k, "ok")
    BY <1>3, <1>5, EndedControl DEF Leaves, Outcomes
  <2>2. Typed'
    <3>1. Becomes(r, Ended(me, "ok"))
      BY <1>2, <1>4, <1>5, <2>1, EndedControl DEF Becomes, Outcomes
    <3> QED BY <3>1, TypedStep
  <2> QED BY <1>5, <2>1, <2>2 DEF Proceeds
<1>6. CASE /\ me.step < LastStep(k) /\ Describes(r, k, name)
           /\ rank' = [rank EXCEPT ![r] = Ended(me, "raised")]
           /\ wire' = left /\ posts' = posts
  <2>1. Ended(me, "raised") \in Controls /\ Leaves(r, k, "raised")
    BY <1>3, <1>6, EndedControl DEF Leaves, Outcomes
  <2>2. Ended(me, "raised").step = 0
    BY EndedControl DEF Outcomes
  <2>3. Typed'
    <3>1. Becomes(r, Ended(me, "raised"))
      BY <1>2, <1>4, <1>6, <2>1, EndedControl DEF Becomes, Outcomes
    <3> QED BY <3>1, TypedStep
  <2> QED BY <1>6, <2>1, <2>3 DEF Proceeds
<1>7. CASE /\ me.step < LastStep(k)
           /\ rank' = [rank EXCEPT ![r] = [me EXCEPT !.step = @ + 1]]
           /\ wire' = left \cup Sends(r, k, name)
           /\ posts' = IF name \in {"pieces", "tree"} THEN posts
                       ELSE [posts EXCEPT ![r] = Append(@,
                               [call |-> k, step |-> i + 1, item |-> Item(r, me, name)])]
  <2> DEFINE new == [me EXCEPT !.step = @ + 1]
  <2> DEFINE x == [call |-> k, step |-> i + 1, item |-> Item(r, me, name)]
  <2>1. i + 1 \in 1 .. 4 /\ i + 1 <= LastStep(k)
    BY <1>2, <1>7
  <2>2. /\ new \in Controls /\ new.call = k /\ new.step = i + 1
        /\ new.outcomes = me.outcomes
    BY <2>1 DEF Controls
  <2>3. OthersStay(r) /\ rank'[r] = new
    BY <1>3, <1>7, <2>2
  <2>4. wire' \subseteq Messages
    BY <1>2, <1>7, SendsTyped
  <2>5. name # "errors" /\ name # "layouts" => Item(r, me, name) \in Sums
    BY DEF Item, Controls
  <2>6. name = "errors" \/ name = "layouts" => Item(r, me, name) \in BOOLEAN
    BY DEF Item
  <2>7. name \notin {"pieces", "tree"} => x \in Posts /\ Placed(x)
    BY <1>2, <2>1, <2>5, <2>6 DEF Posts, Placed, Silent, Judges
  <2>8. Typed'
    <3> HIDE DEF new, x
    <3>1. \/ posts' = posts
          \/ \E y \in Posts : Placed(y) /\ posts' = [posts EXCEPT ![r] = Append(@, y)]
      BY <1>7, <2>7 DEF x
    <3>2. rank' = [rank EXCEPT ![r] = new]
      BY <1>7 DEF new
    <3>3. Becomes(r, new)
      BY <1>2, <1>4, <2>1, <2>2, <2>4, <3>1, <3>2 DEF Becomes
    <3> QED BY <3>3, TypedStep
  <2>9. Enters(r, k, i + 1)
    <3>1. x.call = k /\ x.step = i + 1
      OBVIOUS
    <3> HIDE DEF x
    <3>2. IF Silent(k, i + 1) THEN posts' = posts
          ELSE \E y \in Posts : /\ y.call = k /\ y.step = i + 1
                                /\ posts' = [posts EXCEPT ![r] = Append(@, y)]
      BY <1>7, <2>7, <3>1 DEF x, Silent
    <3> QED BY <2>1, <2>2, <2>3, <3>2 DEF Enters
  <2> QED BY <2>8, <2>9 DEF Proceeds
<1> QED BY <1>1, <1>5, <1>6, <1>7 DEF Proceed
-----------------------------------------------------------------------------
LEMMA RankTyped ==
    ASSUME Typed, NEW r \in Ranks
    PROVE  /\ Me(r) \in Controls /\ Me(r).call \in 0 .. Calls /\ Me(r).step \in 0 .. 4
           /\ Me(r).outcomes \in Seq(Outcomes)
           /\ posts[r] \in Seq(Posts) /\ Len(posts[r]) \in Nat
           /\ Me(r).step > 0 => /\ Me(r).call \in 1 .. Calls
                                /\ Me(r).step \in 1 .. LastStep(Me(r).call)
<1>1. Me(r) \in Controls /\ posts[r] \in Seq(Posts)
  BY DEF Typed, Me
<1>2. /\ Me(r).call \in 0 .. Calls /\ Me(r).step \in 0 .. 4
      /\ Me(r).outcomes \in Seq(Outcomes)
  BY <1>1 DEF Controls
<1>3. Me(r).step > 0 => Me(r).call > 0 /\ Me(r).step <= LastStep(Me(r).call)
  BY <1>2, ProgramAssumption DEF Typed
<1>4. ASSUME Me(r).step > 0
      PROVE  Me(r).call \in 1 .. Calls /\ Me(r).step \in 1 .. LastStep(Me(r).call)
  <2>1. Me(r).call \in 1 .. Calls
    BY <1>2, <1>3, <1>4, ProgramAssumption
  <2>2. LastStep(Me(r).call) \in 2 .. 4
    BY <2>1, CallShape
  <2> QED BY <1>2, <1>3, <1>4, <2>1, <2>2
<1> QED BY <1>1, <1>2, <1>4

LEMMA PostTyped ==
    ASSUME Typed, NEW r \in Ranks, NEW n \in 1 .. Len(posts[r])
    PROVE  /\ posts[r][n] \in Posts
           /\ posts[r][n].call \in 1 .. Calls
           /\ posts[r][n].step \in 1 .. LastStep(posts[r][n].call)
           /\ ~Silent(posts[r][n].call, posts[r][n].step)
BY DEF Typed, Placed

LEMMA StepNames ==
    ASSUME Typed, NEW r \in Ranks
    PROVE  /\ StepOf(r) = "idle" <=> Me(r).step = 0
           /\ Me(r).step > 0 => StepOf(r) = StepName(Me(r).call, Me(r).step)
<1>1. CASE Me(r).step = 0
  BY <1>1 DEF StepOf
<1>2. CASE Me(r).step > 0
  <2>1. /\ Me(r).call \in 1 .. Calls /\ Me(r).step \in 1 .. LastStep(Me(r).call)
    BY <1>2, RankTyped
  <2>2. KindOf(Me(r).call) \in AllKinds
    BY <2>1, CallShape
  <2>3. Script(KindOf(Me(r).call))[Me(r).step] \in {"errors", "layouts", "describe",
           "tensors", "pieces", "tree"}
    BY <2>1, <2>2, ScriptShape DEF WellFormed, LastStep
  <2> QED BY <1>2, <2>3 DEF StepOf, StepName
<1> QED BY <1>1, <1>2, RankTyped

\* The last post of a rank in a step that posts is that of the step; a rank in a
\* silent step has passed its last post.
LEMMA LastPost ==
    ASSUME MeetInv, NEW r \in Ranks, Me(r).step > 0
    PROVE  /\ Len(posts[r]) \in 1 .. Len(posts[r])
           /\ posts[r][Len(posts[r])].call = Me(r).call
           /\ ~Silent(Me(r).call, Me(r).step) => posts[r][Len(posts[r])].step = Me(r).step
           /\ ~Judges(Me(r).call, Me(r).step) => Passed(r, Len(posts[r]))
<1> DEFINE n == Len(posts[r])
<1> DEFINE p == posts[r][n]
<1>1. Typed /\ Located(r) /\ Counted(r)
  BY DEF MeetInv, Coherent
<1>2. n \in Nat /\ Me(r).step \in 1 .. 4 /\ Me(r).call > 0
  BY <1>1, RankTyped
<1>3. /\ n > 0 /\ p.call = Me(r).call /\ p.step <= Me(r).step
      /\ SilentAfter(p.call, p.step, Me(r).step)
      /\ p.step < Me(r).step => Passed(r, n)
  BY <1>1, <1>2 DEF Located, Counted
<1>4. n \in 1 .. n
  BY <1>2, <1>3
<1>5. p.step \in 1 .. LastStep(p.call) /\ ~Silent(p.call, p.step) /\ p.call \in 1 .. Calls
  BY <1>1, <1>4, PostTyped
<1>6. p.step \in Nat
  BY <1>1, <1>5, CallShape
<1>7. p.step < Me(r).step => Silent(Me(r).call, Me(r).step)
  BY <1>2, <1>3, <1>6 DEF SilentAfter
<1>8. ASSUME ~Judges(Me(r).call, Me(r).step), ~(p.step < Me(r).step) PROVE Passed(r, n)
  <2>1. p.step = Me(r).step
    BY <1>2, <1>3, <1>6, <1>8
  <2> QED BY <1>3, <1>8, <2>1 DEF Passed
<1> QED BY <1>2, <1>3, <1>4, <1>6, <1>7, <1>8
-----------------------------------------------------------------------------
(* The actions, as moves. *)

\* me is rank r in the same place, with other values.
SamePlace(r, me) ==
    /\ me \in Controls
    /\ me.call = Me(r).call /\ me.step = Me(r).step /\ me.outcomes = Me(r).outcomes

LEMMA ContinueStep ==
    ASSUME MeetInv, NEW r \in Ranks, Me(r).step > 0, Passed(r, Len(posts[r])),
           NEW me, SamePlace(r, me), NEW left \in SUBSET Messages, Proceed(r, me, left)
    PROVE  Typed' /\ Moves(r)
<1>1. /\ Typed /\ me \in Controls /\ me.outcomes = Me(r).outcomes
      /\ me.call \in 1 .. Calls /\ me.step <= LastStep(me.call)
  BY RankTyped DEF MeetInv, Coherent, SamePlace
<1>2. Typed' /\ Proceeds(r, me.call, me.step)
  BY <1>1, ProceedStep
<1> QED BY <1>2 DEF SamePlace, Continues, Moves

LEMMA RefuseStep ==
    ASSUME MeetInv, NEW r \in Ranks, Me(r).step > 0, Refused(r, Len(posts[r])), Refuse(r)
    PROVE  Typed' /\ Moves(r)
<1> DEFINE new == Ended(Me(r), "refused")
<1>1. Typed /\ Me(r) \in Controls /\ Me(r).call \in 1 .. Calls
  BY RankTyped DEF MeetInv, Coherent
<1>2. /\ new \in Controls /\ new.call = Me(r).call /\ new.step = 0
      /\ new.outcomes = Append(Me(r).outcomes, "refused")
  BY <1>1, EndedControl DEF Outcomes
<1>3. /\ rank' = [rank EXCEPT ![r] = new] /\ UNCHANGED <<program, posts, wire>>
  BY DEF Refuse, Me
<1>4. LastStep(new.call) \in 2 .. 4
  BY <1>1, <1>2, CallShape
<1> HIDE DEF new
<1>5. Becomes(r, new)
  BY <1>1, <1>2, <1>3, <1>4 DEF Becomes, Typed
<1>6. OthersStay(r) /\ rank'[r] = new
  BY <1>1, <1>3 DEF OthersStay, Typed
<1>7. Refuses(r)
  BY <1>2, <1>3, <1>6 DEF Refuses, Leaves
<1> QED BY <1>1, <1>5, <1>7, TypedStep DEF Moves

LEMMA StayStep ==
    ASSUME Typed, NEW r \in Ranks, NEW me, SamePlace(r, me),
           rank' = [rank EXCEPT ![r] = me], wire' \subseteq Messages,
           UNCHANGED <<program, posts>>
    PROVE  Typed' /\ Moves(r)
<1>1. Me(r).step > 0 => Me(r).call \in 1 .. Calls /\ Me(r).step <= LastStep(Me(r).call)
  BY RankTyped
<1>2. Me(r).call > 0 => Me(r).step <= LastStep(Me(r).call)
  BY DEF Typed
<1>3. Me(r).step > 0 => Me(r).call > 0
  BY DEF Typed
<1>4. Becomes(r, me)
  BY <1>2, <1>3 DEF Becomes, SamePlace
<1>5. OthersStay(r) /\ rank'[r] = me
  BY DEF OthersStay, Typed
<1>6. Stays(r)
  BY <1>5 DEF Stays, SamePlace
<1> QED BY <1>4, <1>6, TypedStep DEF Moves

LEMMA FreshControl ==
    ASSUME Typed, NEW r \in Ranks, Me(r).call < Calls, NEW a \in Faults \cup {"good"}
    PROVE  /\ Fresh(r, a) \in Controls
           /\ Fresh(r, a).call = Me(r).call + 1 /\ Fresh(r, a).step = Me(r).step
           /\ Fresh(r, a).outcomes = Me(r).outcomes
           /\ Me(r).call + 1 \in 1 .. Calls
<1>1. /\ Me(r) \in Controls /\ Me(r).call \in Nat /\ Me(r).call + 1 \in 1 .. Calls
      /\ Partial(r) \in Sums
  BY RankTyped, ProgramAssumption DEF Partial, Sums
<1> DEFINE k == Me(r).call + 1
<1> DEFINE got == IF KindOf(k) \in {"broadcast", "scatter", "scatter_limbs"}
                     /\ r = RootOf(k)
                  THEN {Part(IF KindOf(k) = "broadcast" THEN 0 ELSE r, r, k)}
                  ELSE IF KindOf(k) = "gather" /\ r = RootOf(k)
                  THEN {Part(r, r, k)}
                  ELSE {}
<1>2. got \in SUBSET Parts
  BY <1>1, WorldSizeAssumption DEF Part, Parts, Ranks
<1> HIDE DEF got
<1>3. Fresh(r, a) = [Me(r) EXCEPT !.call = k, !.arg = a, !.sum = Partial(r), !.got = got]
  BY DEF Fresh, got
<1> DEFINE m1 == [Me(r) EXCEPT !.call = k]
<1> DEFINE m2 == [m1 EXCEPT !.arg = a]
<1> DEFINE m3 == [m2 EXCEPT !.sum = Partial(r)]
<1> DEFINE m4 == [m3 EXCEPT !.got = got]
<1>4. Fresh(r, a) = m4
  BY <1>3
<1>5. m1 \in Controls /\ m1.call = k /\ m1.step = Me(r).step /\ m1.outcomes = Me(r).outcomes
  <2>1. k \in 0 .. Calls
    BY <1>1
  <2> HIDE DEF k
  <2> QED BY <1>1, <2>1 DEF Controls
<1> HIDE DEF k, m1
<1>6. m2 \in Controls /\ m2.call = k /\ m2.step = Me(r).step /\ m2.outcomes = Me(r).outcomes
  BY <1>5 DEF Controls
<1> HIDE DEF m2
<1>7. m3 \in Controls /\ m3.call = k /\ m3.step = Me(r).step /\ m3.outcomes = Me(r).outcomes
  BY <1>1, <1>6 DEF Controls
<1> HIDE DEF m3
<1>8. m4 \in Controls /\ m4.call = k /\ m4.step = Me(r).step /\ m4.outcomes = Me(r).outcomes
  BY <1>2, <1>7 DEF Controls
<1> HIDE DEF m4
<1> QED BY <1>1, <1>4, <1>8 DEF k
LEMMA CallIsFree ==
    ASSUME Typed, NEW r \in Ranks, CanCall(r)
    PROVE  Me(r).step = 0 /\ ~HasRaised(r) /\ Me(r).call < Calls
BY StepNames DEF CanCall, HasRaised

LEMMA StartStep ==
    ASSUME MeetInv, NEW r \in Ranks, Start(r)
    PROVE  Typed' /\ Moves(r)
<1>1. Typed /\ CanCall(r) /\ wire \in SUBSET Messages
  BY DEF MeetInv, Coherent, Start, Typed
<1>2. Me(r).step = 0 /\ ~HasRaised(r) /\ Me(r).call < Calls
  BY <1>1, CallIsFree
<1>3. PICK a \in Faults \cup {"good"} : Proceed(r, Fresh(r, a), wire)
  BY DEF Start
<1> DEFINE k == Me(r).call + 1
<1>4. /\ Fresh(r, a) \in Controls /\ Fresh(r, a).call = k /\ Fresh(r, a).step = 0
      /\ Fresh(r, a).outcomes = Me(r).outcomes /\ k \in 1 .. Calls
  BY <1>1, <1>2, FreshControl
<1>5. LastStep(k) \in 2 .. 4
  BY <1>1, <1>4, CallShape
<1>6. Typed' /\ Proceeds(r, k, 0)
  BY <1>1, <1>3, <1>4, <1>5, ProceedStep
<1>7. Begins(r)
  BY <1>2, <1>5, <1>6 DEF Begins, Proceeds
<1> QED BY <1>6, <1>7 DEF Moves

LEMMA RaiseTypeErrorStep ==
    ASSUME MeetInv, NEW r \in Ranks, RaiseTypeError(r)
    PROVE  Typed' /\ Moves(r)
<1> DEFINE me == Fresh(r, "wrong_type")
<1> DEFINE new == Ended(me, "raised")
<1>1. Typed /\ CanCall(r) /\ "wrong_type" \in Faults \cup {"good"}
  BY DEF MeetInv, Coherent, RaiseTypeError
<1>2. Me(r).step = 0 /\ ~HasRaised(r) /\ Me(r).call < Calls
  BY <1>1, CallIsFree
<1>3. rank' = [rank EXCEPT ![r] = new] /\ UNCHANGED <<program, posts, wire>>
  BY DEF RaiseTypeError
<1>4. /\ me \in Controls /\ me.call = Me(r).call + 1 /\ me.outcomes = Me(r).outcomes
      /\ Me(r).call + 1 \in 1 .. Calls
  BY <1>1, <1>2, FreshControl
<1> HIDE DEF me
<1>5. /\ new \in Controls /\ new.call = Me(r).call + 1 /\ new.step = 0
      /\ new.outcomes = Append(Me(r).outcomes, "raised")
  BY <1>4, EndedControl DEF Outcomes
<1> HIDE DEF new
<1>6. LastStep(new.call) \in 2 .. 4
  BY <1>1, <1>4, <1>5, CallShape
<1>7. Becomes(r, new)
  BY <1>1, <1>3, <1>5, <1>6 DEF Becomes, Typed
<1>8. OthersStay(r) /\ rank'[r] = new
  BY <1>1, <1>3 DEF OthersStay, Typed
<1>9. Begins(r)
  BY <1>2, <1>3, <1>5, <1>8 DEF Begins, Leaves
<1> QED BY <1>1, <1>7, <1>9, TypedStep DEF Moves

LEMMA RaiseStep ==
    ASSUME MeetInv, NEW r \in Ranks, Me(r).step > 0, UNCHANGED <<program, posts>>,
           rank' = [rank EXCEPT ![r] = Ended(Me(r), "raised")], wire' \subseteq wire
    PROVE  Typed' /\ Moves(r)
<1> DEFINE new == Ended(Me(r), "raised")
<1>1. Typed /\ Me(r) \in Controls /\ Me(r).call \in 1 .. Calls
  BY RankTyped DEF MeetInv, Coherent
<1>2. /\ new \in Controls /\ new.call = Me(r).call /\ new.step = 0
      /\ new.outcomes = Append(Me(r).outcomes, "raised")
  BY <1>1, EndedControl DEF Outcomes
<1>3. rank' = [rank EXCEPT ![r] = new]
  OBVIOUS
<1>4. LastStep(new.call) \in 2 .. 4
  BY <1>1, <1>2, CallShape
<1> HIDE DEF new
<1>5. Becomes(r, new)
  <2>1. wire' \subseteq Messages
    BY <1>1 DEF Typed
  <2>2. new.call > 0 => new.step <= LastStep(new.call)
    BY <1>2, <1>4
  <2>3. UNCHANGED program /\ posts' = posts
    OBVIOUS
  <2>4. new \in Controls /\ (new.step > 0 => new.call > 0)
    BY <1>2
  <2> QED BY <1>3, <2>1, <2>2, <2>3, <2>4 DEF Becomes
<1>6. OthersStay(r) /\ rank'[r] = new
  BY <1>1, <1>3 DEF OthersStay, Typed
<1>7. Raises(r)
  BY <1>2, <1>3, <1>6 DEF Raises, Leaves
<1> QED BY <1>1, <1>5, <1>7, TypedStep DEF Moves

\* What a rank does that raises inside its call.
LEMMA RaisingRank ==
    ASSUME MeetInv, NEW r \in Ranks, AllocationRaises(r) \/ AddRaises(r)
    PROVE  /\ Me(r).step > 0 /\ UNCHANGED <<program, posts>> /\ wire' \subseteq wire
           /\ rank' = [rank EXCEPT ![r] = Ended(Me(r), "raised")]
<1>1. Typed
  BY DEF MeetInv
<1>2. StepOf(r) \in {"describe", "layouts", "tree"}
  BY DEF AllocationRaises, Allocates, AddRaises, InTree
<1>3. Me(r).step > 0
  BY <1>1, <1>2, StepNames, RankTyped
<1> QED BY <1>3 DEF AllocationRaises, Raise, AddRaises, Me

\* A rank whose argument everybody saw goes on or refuses, as all do.
LEMMA Verdict ==
    ASSUME MeetInv, NEW r \in Ranks, CollectArgumentErrors(r) \/ CheckIdenticalLayout(r)
    PROVE  /\ Me(r).step > 0 /\ Judges(Me(r).call, Me(r).step)
           /\ \/ Refuse(r) /\ Refused(r, Len(posts[r]))
              \/ Proceed(r, Me(r), wire) /\ Passed(r, Len(posts[r]))
<1> DEFINE n == Len(posts[r])
<1>1. Typed
  BY DEF MeetInv
<1>2. Me(r).step > 0 /\ StepName(Me(r).call, Me(r).step) = StepOf(r)
  BY <1>1, StepNames, RankTyped DEF CollectArgumentErrors, CheckIdenticalLayout
<1>3. StepOf(r) = "errors" \/ StepOf(r) = "layouts"
  BY DEF CollectArgumentErrors, CheckIdenticalLayout
<1>4. posts[r][n].call = Me(r).call /\ posts[r][n].step = Me(r).step
  BY <1>2, <1>3, LastPost DEF Silent
<1>5. Full(n)
  BY <1>1, RankTyped DEF CollectArgumentErrors, CheckIdenticalLayout, EveryoneJoined, Full
<1>6. CASE CollectArgumentErrors(r)
  <2>1. StepOf(r) = "errors"
    BY <1>6 DEF CollectArgumentErrors
  <2>2. CASE \E s \in Ranks : Met(s, r).item
    <3>1. Refused(r, n)
      BY <1>2, <1>4, <1>5, <2>1, <2>2 DEF Refused, Judges, Met
    <3> QED BY <1>2, <1>6, <2>1, <2>2, <3>1 DEF CollectArgumentErrors, Judges
  <2>3. CASE ~\E s \in Ranks : Met(s, r).item
    <3>1. Passed(r, n)
      BY <1>2, <1>4, <1>5, <2>1, <2>3 DEF Passed, Judges, Met
    <3> QED BY <1>2, <1>6, <2>1, <2>3, <3>1 DEF CollectArgumentErrors, Judges
  <2> QED BY <2>2, <2>3
<1>7. CASE CheckIdenticalLayout(r)
  <2> DEFINE Odd == /\ KindOf(Me(r).call) # "gather"
                    /\ \E s \in Ranks : Met(s, r).item # Met(0, r).item
  <2>1. StepOf(r) = "layouts"
    BY <1>7 DEF CheckIdenticalLayout
  <2>2. CASE Odd
    <3>1. Refused(r, n)
      BY <1>2, <1>4, <1>5, <2>1, <2>2 DEF Refused, Judges, Met, AllAlike
    <3>2. Refuse(r)
      BY <1>7, <2>2 DEF CheckIdenticalLayout
    <3> QED BY <1>2, <2>1, <3>1, <3>2 DEF Judges
  <2>3. CASE ~Odd
    <3>1. Passed(r, n)
      BY <1>2, <1>4, <1>5, <2>1, <2>3 DEF Passed, Judges, Met, AllAlike
    <3>2. Proceed(r, Me(r), wire)
      BY <1>7, <2>3 DEF CheckIdenticalLayout
    <3> QED BY <1>2, <2>1, <3>1, <3>2 DEF Judges
  <2> QED BY <2>2, <2>3
<1> QED BY <1>6, <1>7

LEMMA VerdictStep ==
    ASSUME MeetInv, NEW r \in Ranks, CollectArgumentErrors(r) \/ CheckIdenticalLayout(r)
    PROVE  Typed' /\ Moves(r)
<1>1. Typed /\ wire \in SUBSET Messages
  BY DEF MeetInv, Typed
<1>2. SamePlace(r, Me(r))
  BY <1>1, RankTyped DEF SamePlace
<1> QED BY <1>1, <1>2, Verdict, RefuseStep, ContinueStep

LEMMA GoesOn ==
    ASSUME MeetInv, NEW r \in Ranks, StepOf(r) \in {"describe", "tensors", "pieces", "tree"}
    PROVE  /\ Me(r).step > 0 /\ Passed(r, Len(posts[r]))
           /\ StepName(Me(r).call, Me(r).step) = StepOf(r)
           /\ Typed /\ wire \in SUBSET Messages
           /\ Me(r) \in Controls /\ SamePlace(r, Me(r))
           /\ Me(r).call \in 1 .. Calls
<1>1. Typed /\ wire \in SUBSET Messages
  BY DEF MeetInv, Coherent, Typed
<1>2. Me(r).step > 0 /\ StepName(Me(r).call, Me(r).step) = StepOf(r)
  BY <1>1, StepNames, RankTyped
<1>3. ~Judges(Me(r).call, Me(r).step)
  BY <1>2 DEF Judges
<1> QED BY <1>1, <1>2, <1>3, LastPost, RankTyped DEF SamePlace

\* The collective a rank is in, as another rank entered it.
LEMMA Meeting ==
    ASSUME MeetInv, NEW r \in Ranks, NEW s \in Ranks,
           StepOf(r) \in {"describe", "tensors"}, Len(posts[s]) >= Len(posts[r])
    PROVE  /\ Len(posts[r]) \in 1 .. Len(posts[s])
           /\ Met(s, r).call = Me(r).call /\ Met(s, r).step = Me(r).step
           /\ Met(s, r).item \in Sums
<1> DEFINE n == Len(posts[r])
<1>1. Typed /\ Me(r).step > 0 /\ StepName(Me(r).call, Me(r).step) = StepOf(r)
  BY GoesOn
<1>2. ~Silent(Me(r).call, Me(r).step) /\ ~Judges(Me(r).call, Me(r).step)
  BY <1>1 DEF Silent, Judges
<1>3. n \in 1 .. n /\ posts[r][n].call = Me(r).call /\ posts[r][n].step = Me(r).step
  BY <1>1, <1>2, LastPost
<1>4. n \in 1 .. Len(posts[s])
  BY <1>1, <1>3, RankTyped
<1>5. posts[s][n].call = posts[r][n].call /\ posts[s][n].step = posts[r][n].step
  BY <1>3, <1>4 DEF MeetInv, Coherent, CollectivesMeet
<1>6. Placed(posts[s][n])
  BY <1>1, <1>4 DEF Typed
<1> QED BY <1>2, <1>3, <1>4, <1>5, <1>6 DEF Met, Placed

LEMMA DescriptorStep ==
    ASSUME MeetInv, NEW r \in Ranks, BroadcastDescriptor(r)
    PROVE  Typed' /\ Moves(r)
BY GoesOn, ContinueStep DEF BroadcastDescriptor

LEMMA TensorControl ==
    ASSUME MeetInv, NEW r \in Ranks, StepOf(r) = "tensors", NEW sum \in Sums,
           NEW got \in SUBSET Parts
    PROVE  SamePlace(r, [Me(r) EXCEPT !.sum = sum, !.got = got])
<1>1. Me(r) \in Controls
  BY GoesOn
<1> DEFINE m1 == [Me(r) EXCEPT !.sum = sum]
<1> DEFINE m2 == [m1 EXCEPT !.got = got]
<1>2. [Me(r) EXCEPT !.sum = sum, !.got = got] = m2
  OBVIOUS
<1>3. SamePlace(r, m1)
  BY <1>1 DEF SamePlace, Controls
<1> HIDE DEF m1
<1>4. SamePlace(r, m2)
  BY <1>3 DEF SamePlace, Controls
<1> QED BY <1>2, <1>4

LEMMA BroadcastStep ==
    ASSUME MeetInv, NEW r \in Ranks, BroadcastTensor(r)
    PROVE  Typed' /\ Moves(r)
<1> DEFINE source == RootOf(Me(r).call)
<1> DEFINE sent == Met(source, r)
<1> DEFINE got == IF KindOf(sent.call) = "broadcast" THEN {Part(0, source, sent.call)}
                  ELSE Me(r).got
<1> DEFINE me == [Me(r) EXCEPT !.sum = sent.item, !.got = got]
<1>1. /\ StepOf(r) = "tensors" /\ RootJoined(r)
      /\ Proceed(r, [Me(r) EXCEPT !.sum = sent.item,
                                  !.got = IF KindOf(sent.call) = "broadcast"
                                          THEN {Part(0, source, sent.call)} ELSE @], wire)
  BY DEF BroadcastTensor
<1>2. Proceed(r, me, wire)
  BY <1>1
<1>3. Typed /\ Me(r).call \in 1 .. Calls /\ Me(r) \in Controls
  BY <1>1, GoesOn
<1>4. source \in Ranks
  BY <1>3, CallShape
<1>5. sent.call = Me(r).call /\ sent.item \in Sums
  BY <1>1, <1>4, Meeting DEF RootJoined
<1>6. got \in SUBSET Parts
  <2>1. Me(r).got \in SUBSET Parts
    BY <1>3 DEF Controls
  <2>2. 0 \in Ranks
    BY WorldSizeAssumption DEF Ranks
  <2> QED BY <1>3, <1>4, <1>5, <2>1, <2>2 DEF Part, Parts
<1> HIDE DEF got
<1>7. SamePlace(r, me)
  BY <1>1, <1>5, <1>6, TensorControl
<1> HIDE DEF me
<1> QED BY <1>1, <1>2, <1>7, GoesOn, ContinueStep

LEMMA AllGatherStep ==
    ASSUME MeetInv, NEW r \in Ranks, AllGatherTensor(r)
    PROVE  Typed' /\ Moves(r)
<1> DEFINE got == {Part(s, s, Met(s, r).call) : s \in Ranks}
<1> DEFINE me == [Me(r) EXCEPT !.got = got]
<1>1. StepOf(r) = "tensors" /\ EveryoneJoined(r) /\ Proceed(r, me, wire)
  BY DEF AllGatherTensor
<1>2. Me(r).call \in 1 .. Calls /\ Me(r) \in Controls
  BY <1>1, GoesOn
<1>3. \A s \in Ranks : Met(s, r).call = Me(r).call
  BY <1>1, Meeting DEF EveryoneJoined
<1>4. got \in SUBSET Parts
  BY <1>2, <1>3 DEF Part, Parts
<1> HIDE DEF got
<1>5. SamePlace(r, me)
  BY <1>2, <1>4 DEF SamePlace, Controls
<1> HIDE DEF me
<1> QED BY <1>1, <1>5, GoesOn, ContinueStep
LEMMA PlaceTyped ==
    ASSUME NEW root \in Ranks, NEW l \in Int
    PROVE  Physical(l, root) \in Ranks /\ Logical(l, root) \in Ranks
<1>1. \A a \in Int : a % WorldSize \in Ranks
  BY WorldSizeAssumption DEF Ranks
<1> QED BY <1>1 DEF Physical, Logical, Ranks

LEMMA PieceStep ==
    ASSUME MeetInv, NEW r \in Ranks, ReceivePiece(r)
    PROVE  Typed' /\ Moves(r)
<1>1. PICK m \in Arrived(r) :
         /\ rank' = [rank EXCEPT ![r].got = @ \cup {Part(m.position, m.from, m.call)}]
         /\ wire' = wire \ {m} /\ UNCHANGED <<program, posts>>
  BY DEF ReceivePiece
<1>2. /\ Typed /\ Me(r) \in Controls /\ m \in Messages /\ wire' \subseteq Messages
  BY <1>1, GoesOn DEF ReceivePiece, Arrived
<1> DEFINE got == Me(r).got \cup {Part(m.position, m.from, m.call)}
<1> DEFINE me == [Me(r) EXCEPT !.got = got]
<1>3. got \in SUBSET Parts
  <2>1. Part(m.position, m.from, m.call) \in Parts
    BY <1>2 DEF Messages, Part, Parts
  <2> QED BY <1>2, <2>1 DEF Controls
<1>4. rank' = [rank EXCEPT ![r] = me]
  BY <1>1 DEF Me
<1> HIDE DEF got
<1>5. SamePlace(r, me)
  BY <1>2, <1>3 DEF SamePlace, Controls
<1> HIDE DEF me
<1> QED BY <1>1, <1>2, <1>4, <1>5, StayStep

LEMMA PiecesDoneStep ==
    ASSUME MeetInv, NEW r \in Ranks, PiecesDone(r)
    PROVE  Typed' /\ Moves(r)
BY GoesOn, ContinueStep DEF PiecesDone

LEMMA MaskControl ==
    ASSUME Typed, NEW r \in Ranks, NEW mask \in Nat
    PROVE  SamePlace(r, [Me(r) EXCEPT !.mask = mask])
BY RankTyped DEF SamePlace, Controls

LEMMA TreeSendStep ==
    ASSUME MeetInv, NEW r \in Ranks, TreeSend(r)
    PROVE  Typed' /\ Moves(r)
<1> DEFINE m == [from |-> r, to |-> At(r, Place(r) - Me(r).mask), position |-> r,
                 call |-> Me(r).call, sum |-> Me(r).sum]
<1>1. StepOf(r) = "tree" /\ wire' = wire \cup {m} /\ UNCHANGED <<program, posts>>
  BY DEF TreeSend, InTree
<1>2. rank' = [rank EXCEPT ![r] = [Me(r) EXCEPT !.mask = 0]]
  BY DEF TreeSend, Me
<1>3. Typed /\ Me(r) \in Controls /\ Me(r).call \in 1 .. Calls /\ wire \subseteq Messages
  BY <1>1, GoesOn
<1>4. RootOf(Me(r).call) \in Ranks /\ r \in Int /\ Me(r).mask \in Int /\ Me(r).sum \in Sums
  BY <1>3, CallShape DEF Controls, Ranks
<1>5. Place(r) \in Int
  BY <1>4, PlaceTyped DEF Place, Ranks
<1>6. At(r, Place(r) - Me(r).mask) \in Ranks
  <2>1. Place(r) - Me(r).mask \in Int
    BY <1>4, <1>5
  <2> QED BY <1>4, <2>1, PlaceTyped DEF At
<1>7. m \in Messages
  BY <1>3, <1>4, <1>6 DEF Messages
<1> HIDE DEF m
<1>8. SamePlace(r, [Me(r) EXCEPT !.mask = 0])
  BY <1>3, MaskControl
<1> QED BY <1>1, <1>2, <1>3, <1>7, <1>8, StayStep

LEMMA PlusTyped == \A a, b \in Sums : Plus(a, b) \in Sums
BY DEF Plus, Sums

LEMMA TreeReceiveStep ==
    ASSUME MeetInv, NEW r \in Ranks, TreeReceive(r)
    PROVE  Typed' /\ Moves(r)
<1>1. PICK m \in wire :
         /\ rank' = [rank EXCEPT ![r].sum = Plus(@, m.sum), ![r].mask = 2 * @]
         /\ wire' = wire \ {m}
  BY DEF TreeReceive, Incoming
<1>2. /\ Typed /\ Me(r) \in Controls /\ m \in Messages /\ wire' \subseteq Messages
      /\ UNCHANGED <<program, posts>>
  BY <1>1, GoesOn DEF TreeReceive, InTree
<1> DEFINE sum == Plus(Me(r).sum, m.sum)
<1> DEFINE mask == 2 * Me(r).mask
<1> DEFINE m1 == [Me(r) EXCEPT !.sum = sum]
<1> DEFINE me == [m1 EXCEPT !.mask = mask]
<1>3. sum \in Sums /\ mask \in Nat
  BY <1>2, PlusTyped DEF Controls, Messages
<1>4. rank' = [rank EXCEPT ![r] = me]
  <2>1. rank[r] \in Controls /\ rank \in [Ranks -> Controls]
    BY <1>2 DEF Me, Typed
  <2>2. \A s \in Ranks : rank'[s] = IF s = r THEN me ELSE rank[s]
    BY <1>1, <2>1 DEF Me, Controls
  <2> QED BY <1>1, <2>1, <2>2
<1> HIDE DEF sum, mask
<1>5. SamePlace(r, m1)
  BY <1>2, <1>3 DEF SamePlace, Controls
<1> HIDE DEF m1
<1>6. SamePlace(r, me)
  BY <1>3, <1>5 DEF SamePlace, Controls
<1> HIDE DEF me
<1> QED BY <1>1, <1>2, <1>4, <1>6, StayStep

LEMMA TreeSitOutStep ==
    ASSUME MeetInv, NEW r \in Ranks, TreeSitOut(r)
    PROVE  Typed' /\ Moves(r)
<1> DEFINE mask == 2 * Me(r).mask
<1>1. rank' = [rank EXCEPT ![r] = [Me(r) EXCEPT !.mask = mask]]
  BY DEF TreeSitOut, Me
<1>2. /\ Typed /\ Me(r) \in Controls /\ wire' \subseteq Messages
      /\ UNCHANGED <<program, posts>>
  BY GoesOn DEF TreeSitOut, InTree
<1>3. mask \in Nat
  BY <1>2 DEF Controls
<1>4. SamePlace(r, [Me(r) EXCEPT !.mask = mask])
  BY <1>2, <1>3, MaskControl
<1> QED BY <1>1, <1>2, <1>4, StayStep

\* A rank leaves the tree with a mask for the next call.
LEMMA TreeLeaveStep ==
    ASSUME MeetInv, NEW r \in Ranks, TreeSent(r) \/ TreeDone(r) \/ BufferedSend(r)
    PROVE  Typed' /\ Moves(r)
<1>1. StepOf(r) \in {"pieces", "tree"} /\ Proceed(r, [Me(r) EXCEPT !.mask = 1], wire)
  BY DEF TreeSent, TreeDone, BufferedSend, InTree
<1>2. SamePlace(r, [Me(r) EXCEPT !.mask = 1])
  BY <1>1, GoesOn, MaskControl
<1> QED BY <1>1, <1>2, GoesOn, ContinueStep

LEMMA ActionMoves ==
    ASSUME MeetInv, NEW r \in Ranks,
           \/ Start(r) \/ RaiseTypeError(r) \/ Advance(r) \/ BufferedSend(r)
           \/ AllocationRaises(r) \/ AddRaises(r)
    PROVE  Typed' /\ Moves(r) /\ UNCHANGED program
<1>1. Typed' /\ Moves(r)
  BY StartStep, RaiseTypeErrorStep, VerdictStep, DescriptorStep, BroadcastStep,
     AllGatherStep, PieceStep, PiecesDoneStep, TreeSendStep, TreeReceiveStep,
     TreeSitOutStep, TreeLeaveStep, RaisingRank, RaiseStep
     DEF Advance
<1>2. UNCHANGED program
  BY DEF Start, RaiseTypeError, Advance, BufferedSend, CollectArgumentErrors, Refuse,
         CheckIdenticalLayout, BroadcastDescriptor, BroadcastTensor, AllGatherTensor,
         ReceivePiece, PiecesDone, TreeSend, TreeSent, TreeReceive, TreeSitOut, TreeDone,
         AllocationRaises, Raise, AddRaises, Proceed
<1> QED BY <1>1, <1>2
-----------------------------------------------------------------------------
(* The posts agree. *)

SameAt(r, s, n) ==
    posts[r][n].call = posts[s][n].call /\ posts[r][n].step = posts[s][n].step

LEMMA VerdictsAgree ==
    ASSUME NEW r \in Ranks, NEW s \in Ranks, NEW n, SameAt(r, s, n)
    PROVE  /\ Passed(r, n) <=> Passed(s, n)
           /\ Refused(r, n) <=> Refused(s, n)
           /\ ~(Passed(r, n) /\ Refused(s, n))
<1>1. Passed(r, n) <=> Passed(s, n)
  BY DEF SameAt, Passed
<1>2. Refused(r, n) <=> Refused(s, n)
  BY DEF SameAt, Refused
<1>3. ~(Passed(s, n) /\ Refused(s, n))
  BY DEF Passed, Refused, Judges
<1> QED BY <1>1, <1>2, <1>3

\* The place of a post and the verdict there decide where the next post belongs.
LEMMA Decided ==
    ASSUME Typed, NEW r \in Ranks, NEW s \in Ranks, NEW n \in 1 .. Len(posts[r]),
           SameAt(r, s, n),
           NEW k \in 1 .. Calls, NEW i \in 1 .. LastStep(k), ~Silent(k, i), Leads(r, n, k, i),
           NEW l \in 1 .. Calls, NEW j \in 1 .. LastStep(l), ~Silent(l, j), Leads(s, n, l, j)
    PROVE  k = l /\ i = j
<1> DEFINE c == posts[r][n].call
<1> DEFINE b == posts[r][n].step
<1>1. c \in 1 .. Calls /\ b \in 1 .. LastStep(c)
  BY PostTyped
<1>2. c \in Int /\ b \in Int /\ i \in Int /\ j \in Int /\ LastStep(c) \in Int
      /\ 1 <= b /\ i <= LastStep(k) /\ j <= LastStep(l)
  BY <1>1, CallShape
<1>3. posts[s][n].call = c /\ posts[s][n].step = b
  BY DEF SameAt
<1> HIDE DEF c, b
<1> DEFINE Same(x, m, h) == /\ Passed(x, n)
                            /\ m = c /\ b < h /\ SilentAfter(m, b, h - 1)
<1> DEFINE Later(x, m, h) == /\ m = c + 1 /\ h = 1
                             /\ Refused(x, n) \/ (Passed(x, n) /\ SilentAfter(c, b, LastStep(c)))
<1>4. Same(r, k, i) \/ Later(r, k, i)
  BY DEF Leads, c, b
<1>5. Same(s, l, j) \/ Later(s, l, j)
  BY <1>3 DEF Leads
<1>6. CASE Same(r, k, i) /\ Same(s, l, j)
  <2>1. k = c /\ l = c
    BY <1>6
  <2>2. ~(i > j)
    BY <1>2, <1>6, <2>1 DEF SilentAfter
  <2>3. ~(j > i)
    BY <1>2, <1>6, <2>1 DEF SilentAfter
  <2> QED BY <1>2, <2>1, <2>2, <2>3
<1>7. CASE Later(r, k, i) /\ Later(s, l, j)
  BY <1>7
<1>8. ~(Same(r, k, i) /\ Later(s, l, j))
  <2> SUFFICES ASSUME Same(r, k, i), Later(s, l, j) PROVE FALSE
    OBVIOUS
  <2>1. SilentAfter(c, b, LastStep(c))
    BY VerdictsAgree
  <2> QED BY <1>2, <2>1 DEF SilentAfter
<1>9. ~(Later(r, k, i) /\ Same(s, l, j))
  <2> SUFFICES ASSUME Later(r, k, i), Same(s, l, j) PROVE FALSE
    OBVIOUS
  <2>1. ~Refused(r, n)
    BY VerdictsAgree
  <2>2. SilentAfter(c, b, LastStep(c))
    BY <2>1
  <2> QED BY <1>2, <2>2 DEF SilentAfter
<1> QED BY <1>4, <1>5, <1>6, <1>7, <1>8, <1>9
\* Rank r is free to enter step i of call k.
Onward(r, k, i) ==
    \/ /\ Me(r).step = 0 /\ ~HasRaised(r) /\ Me(r).call < Calls
       /\ k = Me(r).call + 1 /\ i = 1
    \/ /\ Me(r).step > 0 /\ Passed(r, Len(posts[r]))
       /\ k = Me(r).call /\ i = Me(r).step + 1

LEMMA NextPost ==
    ASSUME MeetInv, NEW r \in Ranks, NEW k, NEW i, Onward(r, k, i)
    PROVE  /\ k \in 1 .. Calls
           /\ Len(posts[r]) = 0 => k = 1 /\ i = 1
           /\ Len(posts[r]) > 0 => Leads(r, Len(posts[r]), k, i)
<1> DEFINE n == Len(posts[r])
<1> DEFINE p == posts[r][n]
<1>1. Typed /\ Located(r) /\ Counted(r)
  BY DEF MeetInv, Coherent
<1>2. /\ Me(r).call \in 0 .. Calls /\ Me(r).step \in 0 .. 4 /\ n \in Nat
      /\ Me(r).step > 0 => Me(r).call \in 1 .. Calls
  BY <1>1, RankTyped
<1>3. k \in 1 .. Calls
  BY <1>2, ProgramAssumption DEF Onward
<1>4. ~HasRaised(r)
  BY <1>1 DEF Onward, Counted
<1>5. Me(r).call > 0 =>
        /\ n > 0 /\ p.call = Me(r).call
        /\ Me(r).step > 0 => p.step <= Me(r).step /\ SilentAfter(p.call, p.step, Me(r).step)
        /\ Me(r).step = 0 =>
              Refused(r, n) \/ (Passed(r, n) /\ SilentAfter(p.call, p.step, LastStep(p.call)))
  BY <1>1, <1>4 DEF Located
<1>6. n = 0 => k = 1 /\ i = 1
  BY <1>2, <1>5 DEF Onward
<1>7. ASSUME n > 0 PROVE Leads(r, n, k, i)
  <2>1. Me(r).call > 0
    BY <1>1, <1>2, <1>7 DEF Counted
  <2>2. n \in 1 .. n
    BY <1>2, <1>7
  <2>3. p.step \in Int
    BY <1>1, <2>2, PostTyped, CallShape
  <2>4. CASE Me(r).step = 0
    BY <1>5, <2>1, <2>4 DEF Onward, Leads
  <2>5. CASE Me(r).step > 0
    <3>1. Passed(r, n) /\ k = p.call /\ i = Me(r).step + 1 /\ i - 1 = Me(r).step
      BY <1>2, <1>5, <2>1, <2>5 DEF Onward
    <3>2. p.step < i /\ SilentAfter(p.call, p.step, Me(r).step)
      BY <1>2, <1>5, <2>1, <2>3, <2>5, <3>1
    <3> QED BY <3>1, <3>2 DEF Leads
  <2> QED BY <1>2, <2>4, <2>5
<1> QED BY <1>3, <1>6, <1>7

PostsKept ==
    \A s \in Ranks : /\ Len(posts'[s]) \in Nat /\ Len(posts[s]) <= Len(posts'[s])
                     /\ \A n \in 1 .. Len(posts[s]) : posts'[s][n] = posts[s][n]

Posting(r, x) == posts' = [posts EXCEPT ![r] = Append(@, x)]

LEMMA Appended ==
    ASSUME Typed, NEW r \in Ranks, NEW x \in Posts, Posting(r, x)
    PROVE  /\ Len(posts'[r]) = Len(posts[r]) + 1
           /\ posts'[r][Len(posts[r]) + 1] = x
           /\ \A n \in 1 .. Len(posts[r]) : posts'[r][n] = posts[r][n]
           /\ \A s \in Ranks \ {r} : posts'[s] = posts[s]
           /\ PostsKept
<1>1. posts \in [Ranks -> Seq(Posts)] /\ \A s \in Ranks : Len(posts[s]) \in Nat
  BY DEF Typed
<1>2. posts'[r] = Append(posts[r], x) /\ \A s \in Ranks \ {r} : posts'[s] = posts[s]
  BY <1>1 DEF Posting
<1>3. /\ Len(posts'[r]) = Len(posts[r]) + 1 /\ posts'[r][Len(posts[r]) + 1] = x
      /\ \A n \in 1 .. Len(posts[r]) : posts'[r][n] = posts[r][n]
  BY <1>1, <1>2
<1> QED BY <1>1, <1>2, <1>3 DEF PostsKept

\* An agreed sequence stays agreed when a rank posts what its last post leads to.
LEMMA MeetingKept ==
    ASSUME MeetInv, NEW r \in Ranks, NEW k, NEW i \in 1 .. LastStep(k), ~Silent(k, i),
           Onward(r, k, i), NEW x \in Posts, x.call = k, x.step = i, Posting(r, x)
    PROVE  CollectivesMeet'
<1> DEFINE N == Len(posts[r])
<1>1. Typed /\ CollectivesMeet /\ N \in Nat
  BY RankTyped DEF MeetInv, Coherent
<1>2. /\ k \in 1 .. Calls /\ (N = 0 => k = 1 /\ i = 1) /\ (N > 0 => Leads(r, N, k, i))
  BY NextPost
<1>3. /\ Len(posts'[r]) = N + 1 /\ posts'[r][N + 1] = x
      /\ \A n \in 1 .. N : posts'[r][n] = posts[r][n]
      /\ \A s \in Ranks \ {r} : posts'[s] = posts[s]
  BY <1>1, Appended
<1>4. ASSUME NEW s \in Ranks, Len(posts[s]) >= N + 1
      PROVE  posts[s][N + 1].call = k /\ posts[s][N + 1].step = i
  <2>1. Lineage(s) /\ Len(posts[s]) \in Nat
    BY <1>1, RankTyped DEF MeetInv, Coherent
  <2>2. CASE N = 0
    BY <1>2, <1>4, <2>1, <2>2 DEF Lineage
  <2>3. CASE N > 0
    <3> DEFINE q == posts[s][N + 1]
    <3>1. N \in 1 .. N /\ N \in 1 .. Len(posts[s]) /\ N \in 1 .. (Len(posts[s]) - 1)
          /\ N + 1 \in 1 .. Len(posts[s])
      BY <1>1, <1>4, <2>1, <2>3
    <3>2. Leads(s, N, q.call, q.step)
      BY <2>1, <3>1 DEF Lineage
    <3>3. SameAt(r, s, N)
      BY <1>1, <3>1 DEF CollectivesMeet, SameAt
    <3>4. q.call \in 1 .. Calls /\ q.step \in 1 .. LastStep(q.call) /\ ~Silent(q.call, q.step)
      BY <1>1, <3>1, PostTyped
    <3>5. Typed /\ k \in 1 .. Calls /\ Leads(r, N, k, i)
      BY <1>1, <1>2, <2>3
    <3>6. \A l, j : l \in 1 .. Calls /\ j \in 1 .. LastStep(l) /\ ~Silent(l, j) /\ Leads(s, N, l, j)
                     => l = k /\ j = i
      BY <3>1, <3>3, <3>5, Decided
    <3> QED BY <3>2, <3>4, <3>6
  <2> QED BY <1>1, <2>2, <2>3
<1>5. ASSUME NEW s \in Ranks, NEW t \in Ranks, NEW n \in 1 .. Len(posts'[s]),
             n <= Len(posts'[t])
      PROVE  posts'[s][n].call = posts'[t][n].call /\ posts'[s][n].step = posts'[t][n].step
  <2>1. Len(posts[s]) \in Nat /\ Len(posts[t]) \in Nat
    BY <1>1, RankTyped
  <2>2. CASE s # r /\ t # r
    <3>1. posts'[s] = posts[s] /\ posts'[t] = posts[t]
      BY <1>3, <2>2
    <3>2. n \in 1 .. Len(posts[s]) /\ n <= Len(posts[t])
      BY <1>5, <3>1
    <3> HIDE DEF N
    <3> QED BY <1>1, <3>1, <3>2 DEF CollectivesMeet
  <2>3. CASE s = t
    BY <2>3
  <2>4. CASE s = r /\ t # r
    <3>1. posts'[t] = posts[t] /\ n \in 1 .. N + 1
      BY <1>3, <1>5, <2>4
    <3>2. CASE n <= N
      <4>1. n \in 1 .. Len(posts[s]) /\ n <= Len(posts[t]) /\ n \in 1 .. N
        BY <1>1, <1>5, <2>4, <3>1, <3>2
      <4>2. SameAt(s, t, n)
        BY <1>1, <4>1 DEF CollectivesMeet, SameAt
      <4>3. posts'[s][n] = posts[s][n] /\ posts'[t][n] = posts[t][n]
        BY <1>3, <2>4, <3>1, <4>1
      <4> HIDE DEF N
      <4> QED BY <4>2, <4>3 DEF SameAt
    <3>3. CASE n = N + 1
      BY <1>1, <1>3, <1>4, <1>5, <2>1, <2>4, <3>1, <3>3
    <3> QED BY <1>1, <3>1, <3>2, <3>3
  <2>5. CASE s # r /\ t = r
    <3>1. posts'[s] = posts[s] /\ n \in 1 .. N + 1 /\ n \in 1 .. Len(posts[s])
      BY <1>3, <1>5, <2>1, <2>5
    <3>2. CASE n <= N
      <4>1. n \in 1 .. Len(posts[s]) /\ n <= Len(posts[t]) /\ n \in 1 .. N
        BY <1>1, <2>5, <3>1, <3>2
      <4>2. SameAt(s, t, n)
        BY <1>1, <4>1 DEF CollectivesMeet, SameAt
      <4>3. posts'[s][n] = posts[s][n] /\ posts'[t][n] = posts[t][n]
        BY <1>3, <2>5, <3>1, <4>1
      <4> HIDE DEF N
      <4> QED BY <4>2, <4>3 DEF SameAt
    <3>3. CASE n = N + 1
      BY <1>1, <1>3, <1>4, <1>5, <2>1, <2>5, <3>1, <3>3
    <3> QED BY <1>1, <3>1, <3>2, <3>3
  <2> QED BY <2>2, <2>3, <2>4, <2>5
<1> QED BY <1>5 DEF CollectivesMeet
-----------------------------------------------------------------------------
(* The invariant of a rank is kept. *)

\* A verdict, once it can be read, does not change.
LEMMA VerdictsKept ==
    ASSUME Typed, PostsKept, UNCHANGED program, NEW s \in Ranks, NEW n \in 1 .. Len(posts[s])
    PROVE  /\ Passed(s, n) => Passed(s, n)'
           /\ Refused(s, n) => Refused(s, n)'
<1> DEFINE p == posts[s][n]
<1>1. \A t \in Ranks : Len(posts[t]) \in Nat
  BY DEF Typed
<1>2. 0 \in Ranks /\ n \in Nat /\ n >= 1
  BY WorldSizeAssumption, <1>1 DEF Ranks
<1>3. ASSUME Full(n)
      PROVE  Full(n)' /\ \A t \in Ranks : posts'[t][n] = posts[t][n]
  <2>1. \A t \in Ranks : n \in 1 .. Len(posts[t])
    BY <1>1, <1>2, <1>3 DEF Full
  <2> QED BY <1>1, <1>2, <2>1 DEF PostsKept, Full
<1>4. posts'[s][n] = p
  BY DEF PostsKept
<1>5. \A k, i : (Judges(k, i)' <=> Judges(k, i)) /\ StepName(k, i)' = StepName(k, i)
                /\ KindOf(k)' = KindOf(k)
  BY DEF Judges, StepName, KindOf
<1>6. Passed(s, n) => Passed(s, n)'
  BY <1>2, <1>3, <1>4, <1>5 DEF Passed, AllAlike
<1>7. Refused(s, n) => Refused(s, n)'
  BY <1>2, <1>3, <1>4, <1>5 DEF Refused, AllAlike
<1> QED BY <1>6, <1>7

LEMMA ScriptsKept ==
    ASSUME UNCHANGED program
    PROVE  \A k, i, j : /\ Silent(k, i)' = Silent(k, i) /\ LastStep(k)' = LastStep(k)
                        /\ SilentAfter(k, i, j)' = SilentAfter(k, i, j)
                        /\ StepName(k, i)' = StepName(k, i) /\ Judges(k, i)' = Judges(k, i)
                        /\ KindOf(k)' = KindOf(k) /\ RootOf(k)' = RootOf(k)
BY DEF Silent, LastStep, SilentAfter, StepName, Judges, KindOf, RootOf

LEMMA LeadsKept ==
    ASSUME Typed, PostsKept, UNCHANGED program, NEW s \in Ranks, NEW n \in 1 .. Len(posts[s]),
           NEW k, NEW i, Leads(s, n, k, i)
    PROVE  Leads(s, n, k, i)'
<1>1. posts'[s][n] = posts[s][n]
  BY DEF PostsKept
<1>2. /\ Passed(s, n) => Passed(s, n)'
      /\ Refused(s, n) => Refused(s, n)'
  BY VerdictsKept
<1> QED BY <1>1, <1>2, ScriptsKept DEF Leads

\* The history of a rank is kept where its posts are.
LEMMA PastKept ==
    ASSUME MeetInv, PostsKept, UNCHANGED program, NEW s \in Ranks, posts'[s] = posts[s]
    PROVE  Lineage(s)'
<1>1. Typed /\ Lineage(s) /\ Len(posts[s]) \in Nat
  BY RankTyped DEF MeetInv, Coherent
<1>2. ASSUME NEW n \in 1 .. (Len(posts[s]) - 1)
      PROVE  Leads(s, n, posts[s][n + 1].call, posts[s][n + 1].step)'
  <2>1. n \in 1 .. Len(posts[s])
    BY <1>1
  <2>2. Leads(s, n, posts[s][n + 1].call, posts[s][n + 1].step)
    BY <1>1 DEF Lineage
  <2> DEFINE k == posts[s][n + 1].call
  <2> DEFINE i == posts[s][n + 1].step
  <2>3. Leads(s, n, k, i)
    BY <2>2
  <2>4. posts'[s][n + 1].call = k /\ posts'[s][n + 1].step = i
    OBVIOUS
  <2>5. \A h, j : Leads(s, n, h, j) => Leads(s, n, h, j)'
    BY <1>1, <2>1, LeadsKept
  <2> HIDE DEF k, i
  <2> QED BY <2>3, <2>4, <2>5
<1> QED BY <1>1, <1>2 DEF Lineage

LEMMA CoherenceKept ==
    ASSUME MeetInv, PostsKept, UNCHANGED program, NEW s \in Ranks, posts'[s] = posts[s],
           rank'[s].call = Me(s).call, rank'[s].step = Me(s).step,
           rank'[s].outcomes = Me(s).outcomes
    PROVE  Coherent(s)'
<1>1. Typed /\ Coherent(s)
  BY DEF MeetInv
<1>2. \A n \in 1 .. Len(posts[s]) : /\ Passed(s, n) => Passed(s, n)'
                                    /\ Refused(s, n) => Refused(s, n)'
  BY <1>1, VerdictsKept
<1>3. Lineage(s)'
  BY PastKept
<1>4. HasRaised(s)' <=> HasRaised(s)
  BY DEF HasRaised, Me
<1>5. \A k, o : Finished(s, k, o)' <=> Finished(s, k, o)
  BY DEF Finished, Me
<1>6. Len(posts[s]) \in Nat
  BY <1>1, RankTyped
<1>7. Located(s)'
  <2>1. Len(posts[s]) > 0 => Len(posts[s]) \in 1 .. Len(posts[s])
    BY <1>6
  <2> QED BY <1>1, <1>2, <1>4, <2>1, ScriptsKept DEF Coherent, Located, Me
<1>8. Counted(s)'
  BY <1>1, <1>4 DEF Coherent, Counted, Me
<1>9. Judged(s)'
  BY <1>1, <1>2, <1>5 DEF Coherent, Judged, Me
<1>10. RefusedTogether(s)'
  BY <1>1, <1>2, <1>5 DEF Coherent, RefusedTogether
<1>11. Opened(s)'
  BY <1>1, ScriptsKept DEF Coherent, Opened, Me
<1>12. RaisedLast(s)'
  BY <1>1, <1>5 DEF Coherent, RaisedLast, Me
<1> QED BY <1>3, <1>7, <1>8, <1>9, <1>10, <1>11, <1>12 DEF Coherent
\* The outcomes of a rank that leaves a call.
LEMMA OutcomeAdded ==
    ASSUME Typed, NEW r \in Ranks, NEW c \in 1 .. Calls, NEW o,
           rank'[r].outcomes = Append(Me(r).outcomes, o), Len(Me(r).outcomes) = c - 1
    PROVE  /\ Len(rank'[r].outcomes) = c
           /\ \A k \in 1 .. Calls : \A x :
                 Finished(r, k, x)' <=> Finished(r, k, x) \/ (k = c /\ x = o)
           /\ ~HasRaised(r) /\ o # "raised" => ~HasRaised(r)'
           /\ o = "raised" => HasRaised(r)'
<1> DEFINE out == Me(r).outcomes
<1>1. out \in Seq(Outcomes) /\ Len(out) = c - 1
  BY RankTyped
<1>2. rank'[r].outcomes = Append(out, o)
  OBVIOUS
<1>3. Len(Append(out, o)) = c /\ DOMAIN Append(out, o) = 1 .. c /\ DOMAIN out = 1 .. (c - 1)
      /\ \A k \in 1 .. c : Append(out, o)[k] = IF k = c THEN o ELSE out[k]
  BY <1>1
<1> HIDE DEF out
<1>4. Len(rank'[r].outcomes) = c
  BY <1>2, <1>3
<1>5. ASSUME NEW k \in 1 .. Calls, NEW x
      PROVE  Finished(r, k, x)' <=> Finished(r, k, x) \/ (k = c /\ x = o)
  <2>1. Finished(r, k, x)' <=> c >= k /\ Append(out, o)[k] = x
    BY <1>2, <1>4 DEF Finished, Me
  <2>2. Finished(r, k, x) <=> c - 1 >= k /\ out[k] = x
    BY <1>1 DEF Finished, out
  <2> QED BY <1>3, <2>1, <2>2
<1>6. ASSUME ~HasRaised(r), o # "raised" PROVE ~HasRaised(r)'
  <2>1. \A k \in 1 .. (c - 1) : out[k] # "raised"
    BY <1>3, <1>6 DEF HasRaised, out
  <2>2. \A k \in 1 .. c : Append(out, o)[k] # "raised"
    BY <1>3, <1>6, <2>1
  <2> QED BY <1>2, <1>3, <2>2 DEF HasRaised, Me
<1>7. ASSUME o = "raised" PROVE HasRaised(r)'
  <2>1. c \in DOMAIN Append(out, o) /\ Append(out, o)[c] = "raised"
    BY <1>3, <1>7
  <2> QED BY <1>2, <2>1 DEF HasRaised, Me
<1> QED BY <1>4, <1>5, <1>6, <1>7

\* What a rank in a call knows of its posts.
LEMMA Inside ==
    ASSUME MeetInv, NEW r \in Ranks, Me(r).step > 0
    PROVE  /\ Typed /\ Me(r).call \in 1 .. Calls /\ Me(r).step \in 1 .. LastStep(Me(r).call)
           /\ LastStep(Me(r).call) \in 2 .. 4
           /\ Len(posts[r]) \in 1 .. Len(posts[r]) /\ Len(posts[r]) \in Nat
           /\ Len(Me(r).outcomes) = Me(r).call - 1 /\ ~HasRaised(r)
           /\ posts[r][Len(posts[r])].call = Me(r).call
           /\ posts[r][Len(posts[r])].step <= Me(r).step
           /\ SilentAfter(Me(r).call, posts[r][Len(posts[r])].step, Me(r).step)
           /\ Me(r).step > posts[r][Len(posts[r])].step => Passed(r, Len(posts[r]))
           /\ \A n \in 1 .. Len(posts[r]) :
                 /\ posts[r][n].call \in 1 .. Me(r).call
                 /\ posts[r][n].step \in 1 .. 4
                 /\ posts[r][n].call = Me(r).call =>
                       /\ posts[r][n].step <= Me(r).step
                       /\ n < Len(posts[r]) => posts[r][n].step < Me(r).step
                       /\ posts[r][n].step < Me(r).step => Passed(r, n)
<1>1. Typed /\ Located(r) /\ Counted(r) /\ Judged(r)
  BY DEF MeetInv, Coherent
<1>2. /\ Me(r).call \in 1 .. Calls /\ Me(r).step \in 1 .. LastStep(Me(r).call)
      /\ LastStep(Me(r).call) \in 2 .. 4 /\ Len(posts[r]) \in Nat
  BY <1>1, RankTyped, CallShape
<1>3. ~HasRaised(r) /\ Len(Me(r).outcomes) = Me(r).call - 1
  BY <1>1, <1>2 DEF Counted
<1>4. /\ Len(posts[r]) > 0
      /\ posts[r][Len(posts[r])].call = Me(r).call
      /\ posts[r][Len(posts[r])].step <= Me(r).step
      /\ SilentAfter(Me(r).call, posts[r][Len(posts[r])].step, Me(r).step)
      /\ Me(r).step > posts[r][Len(posts[r])].step => Passed(r, Len(posts[r]))
  <2>1. Me(r).call > 0
    BY <1>2
  <2>2. Len(posts[r]) > 0 /\ posts[r][Len(posts[r])].call = Me(r).call
    BY <1>1, <1>3, <2>1 DEF Located
  <2>3. Len(posts[r]) \in 1 .. Len(posts[r])
    BY <1>2, <2>2
  <2>4. posts[r][Len(posts[r])].step \in Int /\ Me(r).step \in Int
    BY <1>1, <1>2, <2>3, PostTyped, CallShape
  <2> QED BY <1>1, <1>3, <2>1, <2>2, <2>4 DEF Located
<1>5. ASSUME NEW n \in 1 .. Len(posts[r])
      PROVE  /\ posts[r][n].call \in 1 .. Me(r).call
             /\ posts[r][n].step \in 1 .. 4
             /\ posts[r][n].call = Me(r).call =>
                   /\ posts[r][n].step <= Me(r).step
                   /\ n < Len(posts[r]) => posts[r][n].step < Me(r).step
                   /\ posts[r][n].step < Me(r).step => Passed(r, n)
  <2>1. posts[r][n].call \in 1 .. Calls /\ posts[r][n].step \in 1 .. 4
    BY <1>1, PostTyped DEF Posts
  <2> QED BY <1>1, <1>2, <2>1 DEF Judged
<1> QED BY <1>1, <1>2, <1>3, <1>4, <1>5

LEMMA ReturnKept ==
    ASSUME MeetInv, UNCHANGED program, NEW r \in Ranks, Me(r).step > 0,
           Passed(r, Len(posts[r])), Me(r).step = LastStep(Me(r).call),
           Leaves(r, Me(r).call, "ok")
    PROVE  Coherent(r)'
<1> DEFINE N == Len(posts[r])
<1> DEFINE c == Me(r).call
<1>1. PostsKept /\ posts' = posts
  BY RankTyped DEF Leaves, PostsKept, MeetInv
<1>2. /\ rank'[r].call = c /\ rank'[r].step = 0
      /\ rank'[r].outcomes = Append(Me(r).outcomes, "ok")
  BY DEF Leaves
<1>3. Coherent(r) /\ Typed
  BY DEF MeetInv
<1>4. /\ Len(rank'[r].outcomes) = c /\ ~HasRaised(r)'
      /\ \A k \in 1 .. Calls : \A x : Finished(r, k, x)' <=> Finished(r, k, x) \/ (k = c /\ x = "ok")
  <2>1. Len(Me(r).outcomes) = c - 1 /\ c \in 1 .. Calls /\ ~HasRaised(r)
    BY Inside
  <2> HIDE DEF c
  <2> QED BY <1>2, <1>3, <2>1, OutcomeAdded
<1>5. \A n \in 1 .. N : /\ Passed(r, n) => Passed(r, n)'
                        /\ Refused(r, n) => Refused(r, n)'
  BY <1>1, <1>3, VerdictsKept
<1>6. Lineage(r)'
  BY <1>1, PastKept
<1>7. Located(r)'
  <2>1. N \in 1 .. N /\ N > 0 /\ posts[r][N].call = c
        /\ SilentAfter(c, posts[r][N].step, LastStep(c))
    BY Inside
  <2>2. \A n : n = N => Passed(r, n)'
    BY <1>5, <2>1
  <2> QED BY <1>1, <1>2, <2>1, <2>2, ScriptsKept DEF Located, Me
<1>8. Counted(r)'
  BY <1>2, <1>4, Inside DEF Counted, Me
<1>9. Judged(r)'
  <2>1. ASSUME NEW n \in 1 .. N
        PROVE  /\ posts[r][n].call <= c
               /\ \A k : k = posts[r][n].call /\ Finished(r, k, "ok")' => Passed(r, n)'
    <3>1. /\ posts[r][n].call \in 1 .. c /\ posts[r][n].step \in 1 .. 4
          /\ c \in 1 .. Calls /\ Me(r).step \in Int
      BY Inside
    <3>2. posts[r][n].call \in 1 .. Calls
      BY <1>3, PostTyped
    <3>3. Finished(r, posts[r][n].call, "ok") => Passed(r, n)
      BY <1>3 DEF Coherent, Judged
    <3>4. ASSUME posts[r][n].call = c PROVE Passed(r, n)
      <4>1. CASE posts[r][n].step < Me(r).step
        BY <3>4, <4>1, Inside
      <4>2. CASE n = N
        BY <4>2
      <4>3. CASE n # N
        <5>1. n < N
          BY <4>3, Inside
        <5> QED BY <3>4, <5>1, Inside
      <4> QED BY <4>1, <4>2, <4>3
    <3> QED BY <1>4, <1>5, <3>1, <3>3, <3>4, <3>2
  <2> QED BY <1>1, <1>2, <2>1 DEF Judged, Me
<1>10. RefusedTogether(r)'
  BY <1>1, <1>3, <1>4, <1>5 DEF Coherent, RefusedTogether
<1>11. Opened(r)'
  BY <1>2 DEF Opened, Me
<1>12. RaisedLast(r)'
  <2>1. \A k \in 1 .. Calls : ~Finished(r, k, "raised")'
    <3>1. \A k \in 1 .. Calls : ~Finished(r, k, "raised")
      BY Inside, RankTyped DEF HasRaised, Finished
    <3> QED BY <1>4, <3>1
  <2> QED BY <2>1 DEF RaisedLast
<1> QED BY <1>6, <1>7, <1>8, <1>9, <1>10, <1>11, <1>12 DEF Coherent
LEMMA RefusalKept ==
    ASSUME MeetInv, UNCHANGED program, NEW r \in Ranks, Me(r).step > 0,
           Refused(r, Len(posts[r])), Leaves(r, Me(r).call, "refused")
    PROVE  Coherent(r)'
<1> DEFINE N == Len(posts[r])
<1> DEFINE c == Me(r).call
<1>1. PostsKept /\ posts' = posts
  BY RankTyped DEF Leaves, PostsKept, MeetInv
<1>2. /\ rank'[r].call = c /\ rank'[r].step = 0
      /\ rank'[r].outcomes = Append(Me(r).outcomes, "refused")
  BY DEF Leaves
<1>3. Coherent(r) /\ Typed
  BY DEF MeetInv
<1>4. /\ Len(rank'[r].outcomes) = c /\ ~HasRaised(r)'
      /\ \A k \in 1 .. Calls : \A x :
            Finished(r, k, x)' <=> Finished(r, k, x) \/ (k = c /\ x = "refused")
  <2>1. Len(Me(r).outcomes) = c - 1 /\ c \in 1 .. Calls /\ ~HasRaised(r)
    BY Inside
  <2> HIDE DEF c
  <2> QED BY <1>2, <1>3, <2>1, OutcomeAdded
<1>5. \A n \in 1 .. N : /\ Passed(r, n) => Passed(r, n)'
                        /\ Refused(r, n) => Refused(r, n)'
  BY <1>1, <1>3, VerdictsKept
<1>6. Lineage(r)'
  BY <1>1, PastKept
<1>7. N \in 1 .. N /\ N > 0 /\ posts[r][N].call = c /\ \A n : n = N => Refused(r, n)'
  BY <1>5, Inside
<1>8. Located(r)'
  BY <1>1, <1>2, <1>7 DEF Located, Me
<1>9. Counted(r)'
  BY <1>2, <1>4, Inside DEF Counted, Me
<1>10. Judged(r)'
  <2>1. ASSUME NEW n \in 1 .. N
        PROVE  /\ posts[r][n].call <= c
               /\ \A k : k = posts[r][n].call /\ Finished(r, k, "ok")' => Passed(r, n)'
    <3>1. posts[r][n].call \in 1 .. c
      BY Inside
    <3>2. posts[r][n].call \in 1 .. Calls
      BY <1>3, PostTyped
    <3>3. Finished(r, posts[r][n].call, "ok") => Passed(r, n)
      BY <1>3 DEF Coherent, Judged
    <3> QED BY <1>4, <1>5, <3>1, <3>2, <3>3
  <2> QED BY <1>1, <1>2, <2>1 DEF Judged, Me
<1>11. RefusedTogether(r)'
  <2>1. ASSUME NEW k \in 1 .. Calls, Finished(r, k, "refused")'
        PROVE  \E n \in 1 .. N : posts[r][n].call = k /\ Refused(r, n)'
    <3>1. CASE k = c
      BY <1>7, <3>1
    <3>2. CASE k # c
      <4>1. Finished(r, k, "refused")
        BY <1>4, <2>1, <3>2
      <4> QED BY <1>3, <1>5, <4>1 DEF Coherent, RefusedTogether
    <3> QED BY <3>1, <3>2
  <2> QED BY <1>1, <2>1 DEF RefusedTogether
<1>12. Opened(r)'
  BY <1>2 DEF Opened, Me
<1>13. RaisedLast(r)'
  <2>1. \A k \in 1 .. Calls : ~Finished(r, k, "raised")'
    <3>1. \A k \in 1 .. Calls : ~Finished(r, k, "raised")
      BY Inside, RankTyped DEF HasRaised, Finished
    <3> QED BY <1>4, <3>1
  <2> QED BY <2>1 DEF RaisedLast
<1> QED BY <1>6, <1>8, <1>9, <1>10, <1>11, <1>12, <1>13 DEF Coherent

\* A rank raises in call c, its last so far.
LEMMA RaiseKept ==
    ASSUME MeetInv, UNCHANGED program, NEW r \in Ranks, NEW c \in 1 .. Calls,
           Leaves(r, c, "raised"), Len(Me(r).outcomes) = c - 1, ~HasRaised(r),
           \A n \in 1 .. Len(posts[r]) : posts[r][n].call <= c
    PROVE  Coherent(r)'
<1> DEFINE N == Len(posts[r])
<1>1. PostsKept /\ posts' = posts
  BY RankTyped DEF Leaves, PostsKept, MeetInv
<1>2. /\ rank'[r].call = c /\ rank'[r].step = 0
      /\ rank'[r].outcomes = Append(Me(r).outcomes, "raised")
  BY DEF Leaves
<1>3. Coherent(r) /\ Typed
  BY DEF MeetInv
<1>4. /\ Len(rank'[r].outcomes) = c /\ HasRaised(r)'
      /\ \A k \in 1 .. Calls : \A x :
            Finished(r, k, x)' <=> Finished(r, k, x) \/ (k = c /\ x = "raised")
  BY <1>2, <1>3, OutcomeAdded
<1>5. \A n \in 1 .. N : /\ Passed(r, n) => Passed(r, n)'
                        /\ Refused(r, n) => Refused(r, n)'
  BY <1>1, <1>3, VerdictsKept
<1>6. Lineage(r)'
  BY <1>1, PastKept
<1>7. Located(r)'
  BY <1>4 DEF Located
<1>8. Counted(r)'
  BY <1>2, <1>4 DEF Counted, Me
<1>9. Judged(r)'
  <2>1. ASSUME NEW n \in 1 .. N
        PROVE  \A k : k = posts[r][n].call /\ Finished(r, k, "ok")' => Passed(r, n)'
    <3>1. posts[r][n].call \in 1 .. Calls
      BY <1>3, PostTyped
    <3>2. Finished(r, posts[r][n].call, "ok") => Passed(r, n)
      BY <1>3 DEF Coherent, Judged
    <3> QED BY <1>4, <1>5, <3>1, <3>2
  <2> QED BY <1>1, <1>2, <2>1 DEF Judged, Me
<1>10. RefusedTogether(r)'
  BY <1>1, <1>3, <1>4, <1>5 DEF Coherent, RefusedTogether
<1>11. Opened(r)'
  BY <1>2 DEF Opened, Me
<1>12. RaisedLast(r)'
  <2>1. \A k \in 1 .. Calls : Finished(r, k, "raised")' => k = c
    <3>1. \A k \in 1 .. Calls : ~Finished(r, k, "raised")
      BY <1>3, RankTyped DEF HasRaised, Finished
    <3> QED BY <1>4, <3>1
  <2> QED BY <1>2, <2>1 DEF RaisedLast, Me
<1> QED BY <1>6, <1>7, <1>8, <1>9, <1>10, <1>11, <1>12 DEF Coherent
\* A rank enters a step in which it posts nothing.
LEMMA SilentKept ==
    ASSUME MeetInv, UNCHANGED program, NEW r \in Ranks, Me(r).step > 0,
           Passed(r, Len(posts[r])), Enters(r, Me(r).call, Me(r).step + 1),
           Silent(Me(r).call, Me(r).step + 1)
    PROVE  Coherent(r)'
<1> DEFINE N == Len(posts[r])
<1> DEFINE c == Me(r).call
<1> DEFINE i == Me(r).step + 1
<1>1. PostsKept /\ posts' = posts
  BY RankTyped DEF Enters, PostsKept, MeetInv
<1>2. rank'[r].call = c /\ rank'[r].step = i /\ rank'[r].outcomes = Me(r).outcomes
  BY DEF Enters
<1>3. Coherent(r) /\ Typed /\ Me(r).step \in Int /\ i \in Int /\ i > 1 /\ c > 0
      /\ N \in 1 .. N /\ N > 0 /\ Len(Me(r).outcomes) = c - 1 /\ ~HasRaised(r)
      /\ posts[r][N].call = c /\ posts[r][N].step \in Int /\ posts[r][N].step < i
      /\ SilentAfter(c, posts[r][N].step, Me(r).step)
  <2>1. Coherent(r) /\ Typed
    BY DEF MeetInv
  <2>2. /\ c \in 1 .. Calls /\ Me(r).step \in 1 .. LastStep(c) /\ LastStep(c) \in 2 .. 4
        /\ N \in 1 .. N /\ N \in Nat
    BY Inside
  <2>3. /\ posts[r][N].call = c /\ posts[r][N].step <= Me(r).step /\ posts[r][N].step \in 1 .. 4
        /\ SilentAfter(c, posts[r][N].step, Me(r).step)
    BY <2>2, Inside
  <2>4. Len(Me(r).outcomes) = c - 1 /\ ~HasRaised(r)
    BY Inside
  <2>5. Me(r).step \in Int /\ i \in Int /\ i > 1 /\ c > 0 /\ N > 0 /\ N \in 1 .. N
    BY <2>2
  <2>6. posts[r][N].step \in Int /\ posts[r][N].step < i
    BY <2>3, <2>5
  <2> HIDE DEF c, i, N
  <2> QED BY <2>1, <2>3, <2>4, <2>5, <2>6
<1>4. HasRaised(r)' <=> HasRaised(r)
  BY <1>2 DEF HasRaised, Me
<1>5. \A k, x : Finished(r, k, x)' <=> Finished(r, k, x)
  BY <1>2 DEF Finished, Me
<1>6. \A n \in 1 .. N : /\ Passed(r, n) => Passed(r, n)'
                        /\ Refused(r, n) => Refused(r, n)'
  BY <1>1, <1>3, VerdictsKept
<1>7. Lineage(r)'
  BY <1>1, PastKept
<1>8. Located(r)'
  <2>1. \A n : n = N => Passed(r, n)'
    BY <1>3, <1>6
  <2>2. SilentAfter(c, posts[r][N].step, i)
    BY <1>3 DEF SilentAfter
  <2> HIDE DEF i
  <2> QED BY <1>1, <1>2, <1>3, <2>1, <2>2, ScriptsKept DEF Located, Me
<1>9. Counted(r)'
  BY <1>2, <1>3, <1>4 DEF Counted, Me
<1>10. Judged(r)'
  <2>1. ASSUME NEW n \in 1 .. N, posts[r][n].call = c
        PROVE  posts[r][n].step < i /\ Passed(r, n)
    <3>1. /\ posts[r][n].step <= Me(r).step /\ posts[r][n].step \in Int
          /\ n < N => posts[r][n].step < Me(r).step
          /\ posts[r][n].step < Me(r).step => Passed(r, n)
      BY <2>1, Inside
    <3>2. n = N \/ n < N
      BY <1>3
    <3> QED BY <1>3, <3>1, <3>2
  <2>2. \A n \in 1 .. N : posts[r][n].call \in 1 .. c
    BY Inside
  <2>3. \A n \in 1 .. N : Finished(r, posts[r][n].call, "ok") => Passed(r, n)
    BY <1>3 DEF Coherent, Judged
  <2>4. ASSUME NEW n \in 1 .. N
        PROVE  /\ posts[r][n].call <= c
               /\ posts[r][n].call = c => posts[r][n].step < i /\ Passed(r, n)'
               /\ \A k : k = posts[r][n].call /\ Finished(r, k, "ok")' => Passed(r, n)'
    BY <1>5, <1>6, <2>1, <2>2, <2>3
  <2>5. \A n \in 1 .. N : posts[r][n].step \in Int
    BY Inside
  <2>6. ASSUME NEW n \in 1 .. N
        PROVE  /\ posts[r][n].call <= rank'[r].call
               /\ posts[r][n].call = rank'[r].call =>
                     /\ posts[r][n].step < rank'[r].step
                     /\ posts[r][n].step <= rank'[r].step
                     /\ Passed(r, n)'
               /\ Finished(r, posts[r][n].call, "ok")' => Passed(r, n)'
    <3>1. /\ posts[r][n].call <= c
          /\ posts[r][n].call = c => posts[r][n].step < i /\ Passed(r, n)'
      BY <2>4
    <3>2. posts[r][n].step < i => posts[r][n].step <= i
      BY <1>3, <2>5
    <3>3. Finished(r, posts[r][n].call, "ok")' => Passed(r, n)'
      <4> SUFFICES ASSUME NEW k, k = posts[r][n].call
                   PROVE  Finished(r, k, "ok")' => Passed(r, n)'
        BY <1>1
      <4> QED BY <2>4
    <3> QED BY <1>2, <3>1, <3>2, <3>3
  <2> HIDE DEF i, c
  <2> QED BY <1>1, <2>6 DEF Judged, Me
<1>11. RefusedTogether(r)'
  BY <1>1, <1>3, <1>5, <1>6 DEF Coherent, RefusedTogether
<1>12. Opened(r)'
  <2>1. Opened(r)
    BY <1>3 DEF Coherent
  <2>2. ASSUME NEW j \in 1 .. i
        PROVE  Silent(c, j) \/ \E n \in 1 .. N : posts[r][n].call = c /\ posts[r][n].step = j
    <3>1. j \in 1 .. Me(r).step \/ j = i
      BY <1>3
    <3> QED BY <1>3, <2>1, <3>1 DEF Opened
  <2> HIDE DEF i
  <2> QED BY <1>1, <1>2, <2>2, ScriptsKept DEF Opened, Me
<1>13. RaisedLast(r)'
  <2>1. \A k \in 1 .. Calls : ~Finished(r, k, "raised")
    BY <1>3, RankTyped DEF HasRaised, Finished
  <2> QED BY <1>5, <2>1 DEF RaisedLast
<1> QED BY <1>7, <1>8, <1>9, <1>10, <1>11, <1>12, <1>13 DEF Coherent

\* A rank enters a step by posting in it.
LEMMA PostKept ==
    ASSUME MeetInv, UNCHANGED program, NEW r \in Ranks, NEW c, NEW i, Onward(r, c, i),
           Enters(r, c, i), ~Silent(c, i)
    PROVE  Coherent(r)' /\ CollectivesMeet' /\ PostsKept /\ \A s \in Ranks \ {r} : posts'[s] = posts[s]
<1> DEFINE N == Len(posts[r])
<1>1. PICK x \in Posts : x.call = c /\ x.step = i /\ Posting(r, x)
  BY DEF Enters, Posting
<1>2. /\ rank'[r].call = c /\ rank'[r].step = i /\ rank'[r].outcomes = Me(r).outcomes
      /\ i \in 1 .. LastStep(c)
  BY DEF Enters
<1>3. Coherent(r) /\ Typed /\ N \in Nat /\ Me(r).step \in 0 .. 4 /\ Me(r).call \in 0 .. Calls
  BY RankTyped DEF MeetInv
<1>4. /\ c \in 1 .. Calls /\ (N = 0 => c = 1 /\ i = 1) /\ (N > 0 => Leads(r, N, c, i))
  BY NextPost
<1>5. i \in 1 .. 4 /\ LastStep(c) \in 2 .. 4
  BY <1>2, <1>3, <1>4, CallShape
<1>6. /\ Len(posts'[r]) = N + 1 /\ posts'[r][N + 1] = x /\ PostsKept
      /\ \A n \in 1 .. N : posts'[r][n] = posts[r][n]
      /\ \A s \in Ranks \ {r} : posts'[s] = posts[s]
  BY <1>1, <1>3, Appended
<1>7. CollectivesMeet'
  BY <1>1, <1>2, MeetingKept
<1>8. HasRaised(r)' <=> HasRaised(r)
  BY <1>2 DEF HasRaised, Me
<1>9. \A k, y : Finished(r, k, y)' <=> Finished(r, k, y)
  BY <1>2 DEF Finished, Me
<1>10. \A n \in 1 .. N : /\ Passed(r, n) => Passed(r, n)'
                         /\ Refused(r, n) => Refused(r, n)'
  BY <1>3, <1>6, VerdictsKept
<1>11. ~HasRaised(r) /\ Len(Me(r).outcomes) = c - 1
  BY <1>3 DEF Onward, Coherent, Counted
<1>12. Lineage(r)'
  <2>1. ASSUME NEW n \in 1 .. N
        PROVE  Leads(r, n, posts[r][n + 1].call, posts[r][n + 1].step)'
    <3>1. CASE n < N
      <4>1. n \in 1 .. (N - 1) /\ n + 1 \in 1 .. N
        BY <1>3, <3>1
      <4>2. Leads(r, n, posts[r][n + 1].call, posts[r][n + 1].step)
        BY <1>3, <4>1 DEF Coherent, Lineage
      <4>3. \A k, j : Leads(r, n, k, j) => Leads(r, n, k, j)'
        BY <1>3, <1>6, LeadsKept
      <4>4. posts'[r][n + 1] = posts[r][n + 1]
        BY <1>6, <4>1
      <4> QED BY <4>2, <4>3, <4>4
    <3>2. CASE n = N
      <4>1. Leads(r, n, c, i)
        BY <1>3, <1>4, <3>2
      <4>2. Leads(r, n, c, i)'
        BY <1>3, <1>6, <4>1, LeadsKept
      <4>3. posts'[r][n + 1].call = c /\ posts'[r][n + 1].step = i
        BY <1>1, <1>6, <3>2
      <4> QED BY <4>2, <4>3
    <3> QED BY <1>3, <3>1, <3>2
  <2>2. posts'[r][1].call = 1 /\ posts'[r][1].step = 1
    <3>1. CASE N = 0
      BY <1>1, <1>4, <1>6, <3>1
    <3>2. CASE N > 0
      BY <1>3, <1>6, <3>2 DEF Coherent, Lineage
    <3> QED BY <1>3, <3>1, <3>2
  <2>3. 1 .. (Len(posts'[r]) - 1) = 1 .. N
    BY <1>3, <1>6
  <2> QED BY <2>1, <2>2, <2>3 DEF Lineage
<1>13. Located(r)'
  <2>1. SilentAfter(c, i, i)'
    BY <1>5 DEF SilentAfter
  <2> QED BY <1>1, <1>2, <1>3, <1>5, <1>6, <2>1 DEF Located, Me
<1>14. Counted(r)'
  BY <1>2, <1>4, <1>5, <1>8, <1>11 DEF Counted, Me
<1>15. \A n \in 1 .. N :
         /\ posts[r][n].call <= c /\ posts[r][n].step \in Int
         /\ posts[r][n].call = c => posts[r][n].step < i /\ Passed(r, n)
  <2>1. CASE Me(r).step = 0
    <3>1. c = Me(r).call + 1
      BY <2>1 DEF Onward
    <3>2. \A n \in 1 .. N : posts[r][n].call <= Me(r).call
      BY <1>3 DEF Coherent, Judged
    <3>3. \A n \in 1 .. N : posts[r][n].call \in Int /\ posts[r][n].step \in Int
      BY <1>3, PostTyped DEF Posts
    <3> QED BY <1>3, <3>1, <3>2, <3>3
  <2>2. CASE Me(r).step > 0
    <3>1. c = Me(r).call /\ i = Me(r).step + 1 /\ Passed(r, N)
      BY <2>2 DEF Onward
    <3>2. ASSUME NEW n \in 1 .. N
          PROVE  /\ posts[r][n].call <= c /\ posts[r][n].step \in Int
                 /\ posts[r][n].call = c => posts[r][n].step < i /\ Passed(r, n)
      <4>1. /\ posts[r][n].call \in 1 .. c /\ posts[r][n].step \in 1 .. 4
            /\ posts[r][n].call = c =>
                  /\ posts[r][n].step <= Me(r).step
                  /\ n < N => posts[r][n].step < Me(r).step
                  /\ posts[r][n].step < Me(r).step => Passed(r, n)
        BY <2>2, <3>1, Inside
      <4>2. n = N \/ n < N
        BY <1>3
      <4>3. posts[r][n].step \in Int /\ posts[r][n].call <= c /\ Me(r).step \in Int
        BY <1>3, <3>1, <4>1
      <4>4. ASSUME posts[r][n].call = c PROVE posts[r][n].step < i
        BY <3>1, <4>1, <4>3, <4>4
      <4>5. ASSUME posts[r][n].call = c PROVE Passed(r, n)
        <5>1. CASE n = N
          BY <3>1, <5>1
        <5>2. CASE n < N
          BY <4>1, <4>5, <5>2
        <5> QED BY <4>2, <5>1, <5>2
      <4> QED BY <4>3, <4>4, <4>5
    <3> QED BY <3>2
  <2> QED BY <1>3, <2>1, <2>2
<1>16. Judged(r)'
  <2>1. ASSUME NEW n \in 1 .. N
        PROVE  \A k : k = posts[r][n].call /\ Finished(r, k, "ok")' => Passed(r, n)'
    <3>1. Finished(r, posts[r][n].call, "ok") => Passed(r, n)
      BY <1>3 DEF Coherent, Judged
    <3> QED BY <1>9, <1>10, <3>1
  <2>2. ~Finished(r, c, "ok")'
    <3>1. ~Finished(r, c, "ok")
      BY <1>4, <1>11 DEF Finished
    <3> QED BY <1>9, <3>1
  <2>3. ASSUME NEW n \in 1 .. (N + 1)
        PROVE  LET p == posts'[r][n] IN
               /\ p.call <= c
               /\ p.call = c => /\ p.step <= i
                                /\ n < N + 1 => p.step < i
                                /\ p.step < i => Passed(r, n)'
               /\ \A k : k = p.call /\ Finished(r, k, "ok")' => Passed(r, n)'
    <3>1. CASE n \in 1 .. N
      BY <1>5, <1>6, <1>10, <1>15, <2>1, <3>1
    <3>2. CASE n = N + 1
      BY <1>1, <1>3, <1>4, <1>5, <1>6, <2>2, <3>2
    <3> QED BY <1>3, <3>1, <3>2
  <2>4. \A n \in 1 .. Len(posts'[r]) : n \in 1 .. (N + 1)
    BY <1>6
  <2>5. rank'[r].step > 0 /\ rank'[r].step = i /\ rank'[r].call = c /\ Len(posts'[r]) = N + 1
    BY <1>2, <1>5, <1>6
  <2> HIDE DEF N
  <2> QED BY <2>3, <2>4, <2>5 DEF Judged, Me
<1>17. RefusedTogether(r)'
  <2>1. ASSUME NEW k \in 1 .. Calls, Finished(r, k, "refused")'
        PROVE  \E n \in 1 .. N : posts[r][n].call = k /\ Refused(r, n)'
    BY <1>3, <1>9, <1>10, <2>1 DEF Coherent, RefusedTogether
  <2>2. \A n \in 1 .. N : n \in 1 .. Len(posts'[r])
    BY <1>3, <1>6
  <2> QED BY <1>6, <2>1, <2>2 DEF RefusedTogether
<1>18. Opened(r)'
  <2>1. ASSUME NEW j \in 1 .. i
        PROVE  Silent(c, j) \/ \E n \in 1 .. (N + 1) : posts'[r][n].call = c /\ posts'[r][n].step = j
    <3>1. CASE j = i
      BY <1>1, <1>3, <1>6, <3>1
    <3>2. CASE j # i
      <4>1. Me(r).step > 0 /\ c = Me(r).call /\ j \in 1 .. Me(r).step
        BY <1>3, <1>5, <3>2 DEF Onward
      <4>2. Opened(r)
        BY <1>3 DEF Coherent
      <4>3. Silent(c, j) \/ \E n \in 1 .. N : posts[r][n].call = c /\ posts[r][n].step = j
        BY <4>1, <4>2 DEF Opened
      <4>4. \A n \in 1 .. N : n \in 1 .. (N + 1) /\ posts'[r][n] = posts[r][n]
        BY <1>3, <1>6
      <4> HIDE DEF N
      <4> QED BY <4>3, <4>4
    <3> QED BY <3>1, <3>2
  <2> QED BY <1>2, <1>6, <2>1, ScriptsKept DEF Opened, Me
<1>19. RaisedLast(r)'
  <2>1. \A k \in 1 .. Calls : ~Finished(r, k, "raised")
    BY <1>3, <1>11, RankTyped DEF HasRaised, Finished
  <2> QED BY <1>9, <2>1 DEF RaisedLast
<1> QED BY <1>6, <1>7, <1>12, <1>13, <1>14, <1>16, <1>17, <1>18, <1>19 DEF Coherent
LEMMA MoveKept ==
    ASSUME MeetInv, NEW r \in Ranks, Moves(r), Typed', UNCHANGED program
    PROVE  /\ MeetInv' /\ PostsKept
           /\ \A s \in Ranks \ {r} : rank'[s] = rank[s] /\ posts'[s] = posts[s]
<1>1. Typed /\ \A s \in Ranks : Len(posts[s]) \in Nat
  BY RankTyped DEF MeetInv
<1>2. \A s \in Ranks \ {r} : rank'[s] = rank[s]
  BY DEF Moves, Begins, Continues, Proceeds, Refuses, Raises, Stays, Enters, Leaves, OthersStay
<1>3. ASSUME posts' = posts PROVE PostsKept /\ CollectivesMeet'
  BY <1>1, <1>3 DEF PostsKept, MeetInv, CollectivesMeet
<1>4. ASSUME PostsKept, \A s \in Ranks \ {r} : posts'[s] = posts[s]
      PROVE  \A s \in Ranks \ {r} : Coherent(s)'
  BY <1>2, <1>4, CoherenceKept DEF Me
<1>5. SUFFICES PostsKept /\ CollectivesMeet' /\ Coherent(r)'
               /\ \A s \in Ranks \ {r} : posts'[s] = posts[s]
  BY <1>2, <1>4 DEF MeetInv
<1>6. ASSUME NEW c, NEW i, Onward(r, c, i), Enters(r, c, i), Silent(c, i) => Me(r).step > 0
      PROVE  PostsKept /\ CollectivesMeet' /\ Coherent(r)'
             /\ \A s \in Ranks \ {r} : posts'[s] = posts[s]
  <2>1. CASE Silent(c, i)
    <3>1. /\ Me(r).step > 0 /\ Passed(r, Len(posts[r])) /\ c = Me(r).call
          /\ i = Me(r).step + 1
      BY <1>6, <2>1 DEF Onward
    <3>2. Coherent(r)' /\ posts' = posts
      BY <1>6, <2>1, <3>1, SilentKept DEF Enters
    <3> QED BY <1>3, <3>2
  <2>2. CASE ~Silent(c, i)
    BY <1>6, <2>2, PostKept
  <2> QED BY <2>1, <2>2
<1>7. ASSUME NEW c, NEW o, Leaves(r, c, o), Coherent(r)'
      PROVE  PostsKept /\ CollectivesMeet' /\ Coherent(r)'
             /\ \A s \in Ranks \ {r} : posts'[s] = posts[s]
  BY <1>3, <1>7 DEF Leaves
<1>8. CASE Begins(r)
  <2> DEFINE c == Me(r).call + 1
  <2>1. c \in 1 .. Calls /\ Me(r).step = 0 /\ ~HasRaised(r) /\ Me(r).call < Calls
    BY <1>1, <1>8, RankTyped, ProgramAssumption DEF Begins
  <2>2. Judges(c, 1) /\ ~Silent(c, 1) /\ 1 \in 1 .. LastStep(c)
    BY <1>1, <2>1, CallShape
  <2>3. CASE Enters(r, c, 1)
    <3>1. Onward(r, c, 1)
      BY <2>1 DEF Onward
    <3> HIDE DEF c
    <3> QED BY <1>6, <2>2, <2>3, <3>1
  <2>4. CASE Leaves(r, c, "raised")
    <3>1. Len(Me(r).outcomes) = c - 1
      BY <2>1 DEF MeetInv, Coherent, Counted
    <3>2. \A n \in 1 .. Len(posts[r]) : posts[r][n].call <= Me(r).call
                                        /\ posts[r][n].call \in Int
      BY <1>1, PostTyped DEF MeetInv, Coherent, Judged
    <3>3. \A n \in 1 .. Len(posts[r]) : posts[r][n].call <= c
      BY <1>1, <3>2, RankTyped
    <3> HIDE DEF c
    <3>4. Coherent(r)'
      BY <2>1, <2>4, <3>1, <3>3, RaiseKept
    <3> QED BY <1>7, <2>4, <3>4
  <2> QED BY <1>8, <2>3, <2>4 DEF Begins
<1>9. CASE Raises(r)
  <2> DEFINE c == Me(r).call
  <2>1. Me(r).step > 0 /\ Leaves(r, c, "raised")
    BY <1>9 DEF Raises
  <2>2. /\ c \in 1 .. Calls /\ Len(Me(r).outcomes) = c - 1 /\ ~HasRaised(r)
        /\ \A n \in 1 .. Len(posts[r]) : posts[r][n].call \in 1 .. c
    BY <2>1, Inside
  <2> HIDE DEF c
  <2>3. \A n \in 1 .. Len(posts[r]) : posts[r][n].call <= c
    BY <2>2
  <2>4. Coherent(r)'
    BY <2>1, <2>2, <2>3, RaiseKept
  <2> QED BY <1>7, <2>1, <2>4
<1>10. CASE Continues(r)
  <2> DEFINE c == Me(r).call
  <2> DEFINE i == Me(r).step + 1
  <2>1. /\ Me(r).step > 0 /\ Passed(r, Len(posts[r]))
        /\ \/ Enters(r, c, i)
           \/ Me(r).step = LastStep(c) /\ Leaves(r, c, "ok")
           \/ /\ Me(r).step < LastStep(c) /\ Describes(r, c, StepName(c, i))
              /\ Leaves(r, c, "raised")
    BY <1>10 DEF Continues, Proceeds
  <2>2. CASE Enters(r, c, i)
    <3>1. Onward(r, c, i)
      BY <2>1 DEF Onward
    <3> HIDE DEF c, i
    <3> QED BY <1>6, <2>1, <2>2, <3>1
  <2>3. CASE Me(r).step = LastStep(c) /\ Leaves(r, c, "ok")
    BY <1>7, <2>1, <2>3, ReturnKept
  <2>4. CASE Leaves(r, c, "raised")
    BY <1>9, <2>1, <2>4 DEF Raises
  <2> QED BY <2>1, <2>2, <2>3, <2>4
<1>11. CASE Refuses(r)
  <2>1. Me(r).step > 0 /\ Refused(r, Len(posts[r])) /\ Leaves(r, Me(r).call, "refused")
    BY <1>11 DEF Refuses
  <2>2. Coherent(r)'
    BY <2>1, RefusalKept
  <2> QED BY <1>7, <2>1, <2>2
<1>12. CASE Stays(r)
  <2>1. posts' = posts
    BY <1>12 DEF Stays
  <2>2. PostsKept
    BY <1>3, <2>1
  <2>3. Coherent(r)'
    BY <1>12, <2>1, <2>2, CoherenceKept DEF Stays
  <2> QED BY <1>3, <2>1, <2>3
<1> QED BY <1>8, <1>10, <1>11, <1>12, <1>9 DEF Moves

LEMMA InitMeetInv == Init => MeetInv
<1> SUFFICES ASSUME Init PROVE MeetInv
  OBVIOUS
<1> USE ProgramAssumption, WorldSizeAssumption
<1>1. /\ program \in [1 .. Calls -> [kind : Kinds, root : Roots]] /\ wire = {}
      /\ posts = [r \in Ranks |-> <<>>]
      /\ rank = [r \in Ranks |-> [call |-> 0, step |-> 0, arg |-> "good", mask |-> 1,
                                  sum |-> Partial(r), got |-> {}, outcomes |-> <<>>]]
  BY DEF Init
<1>2. \A r \in Ranks : Partial(r) \in Sums
  BY DEF Partial, Sums
<1>3. <<>> \in Seq(Outcomes) /\ <<>> \in Seq(Posts) /\ 0 \in 0 .. Calls
  OBVIOUS
<1>4. rank \in [Ranks -> Controls] /\ posts \in [Ranks -> Seq(Posts)]
  BY <1>1, <1>2, <1>3 DEF Controls
<1>5. \A r \in Ranks : /\ Me(r).call = 0 /\ Me(r).step = 0 /\ Me(r).outcomes = <<>>
                       /\ posts[r] = <<>> /\ Len(posts[r]) = 0
  BY <1>1 DEF Me
<1>6. Typed
  BY <1>1, <1>4, <1>5 DEF Typed
<1>7. CollectivesMeet
  BY <1>5 DEF CollectivesMeet
<1>8. ASSUME NEW r \in Ranks PROVE Coherent(r)
  <2>1. \A k \in 1 .. Calls : \A o : ~Finished(r, k, o)
    BY <1>5 DEF Finished
  <2>2. ~HasRaised(r)
    BY <1>5 DEF HasRaised
  <2>3. Lineage(r) /\ Located(r) /\ Counted(r) /\ Judged(r)
    BY <1>5, <2>2 DEF Lineage, Located, Counted, Judged
  <2> QED BY <1>5, <2>1, <2>3 DEF Coherent, RefusedTogether, Opened, RaisedLast
<1> QED BY <1>6, <1>7, <1>8 DEF MeetInv

LEMMA MeetStep == MeetInv /\ [Next]_vars => MeetInv'
<1> SUFFICES ASSUME MeetInv, [Next]_vars PROVE MeetInv'
  OBVIOUS
<1>1. CASE UNCHANGED vars
  <2>1. Typed' /\ UNCHANGED program
    BY <1>1 DEF vars, MeetInv, Typed, Placed, LastStep, Silent, Judges, StepName, KindOf, Me
  <2>2. 0 \in Ranks
    BY WorldSizeAssumption DEF Ranks
  <2>3. Moves(0)
    BY <1>1, <2>2 DEF vars, Moves, Stays, OthersStay, Me
  <2> QED BY <2>1, <2>2, <2>3, MoveKept
<1>2. CASE Next
  BY <1>2, ActionMoves, MoveKept DEF Next
<1> QED BY <1>1, <1>2

LEMMA MeetInvariance == Spec => []MeetInv
BY InitMeetInv, MeetStep, PTL DEF Spec

\* The n-th collectives of all ranks belong to the same step of the same call.
THEOREM PostsMeet == Spec => []CollectivesMeet
<1>1. MeetInv => CollectivesMeet
  BY DEF MeetInv
<1> QED BY <1>1, MeetInvariance, PTL

\* No rank returns from a call that another rank refused.
THEOREM RefusalsAreShared == Spec => []RefusalsAgree
<1>1. MeetInv => RefusalsAgree
  <2> SUFFICES ASSUME MeetInv, NEW r \in Ranks, NEW s \in Ranks, NEW k \in 1 .. Calls,
                      Finished(r, k, "refused"), Finished(s, k, "ok")
               PROVE  FALSE
    BY DEF RefusalsAgree
  <2>1. PICK n \in 1 .. Len(posts[r]) : posts[r][n].call = k /\ Refused(r, n)
    BY DEF MeetInv, Coherent, RefusedTogether
  <2>2. n <= Len(posts[s]) /\ Len(posts[s]) \in Nat /\ Len(posts[r]) \in Nat
    BY <2>1, RankTyped DEF Refused, Full, MeetInv
  <2>3. SameAt(r, s, n)
    BY <2>2 DEF MeetInv, CollectivesMeet, SameAt
  <2>4. Passed(s, n)
    BY <2>1, <2>2, <2>3 DEF MeetInv, Coherent, Judged, SameAt
  <2> QED BY <2>1, <2>3, <2>4, VerdictsAgree
<1> QED BY <1>1, MeetInvariance, PTL
-----------------------------------------------------------------------------
(* Masks and places. *)

LEMMA PhaseInduction ==
    ASSUME NEW S \in SUBSET Nat, 1 \in S, \A x \in S : 2 * x \in S
    PROVE  Phases \subseteq S
BY DEF Phases

LEMMA PhaseOne == 1 \in Phases
BY DEF Phases

LEMMA PhaseDouble == \A b \in Phases : 2 * b \in Phases
BY DEF Phases

LEMMA PhasePositive == \A b \in Phases : b \in Nat /\ b >= 1
<1> DEFINE S == {b \in Nat : b >= 1}
<1>1. S \in SUBSET Nat /\ 1 \in S /\ \A x \in S : 2 * x \in S
  OBVIOUS
<1>2. Phases \subseteq S
  <2> HIDE DEF S
  <2> QED BY <1>1, PhaseInduction
<1> QED BY <1>2

LEMMA PhaseInverse == \A b \in Phases : b = 1 \/ \E a \in Phases : b = 2 * a
<1> DEFINE S == {b \in Phases : b = 1 \/ \E a \in Phases : b = 2 * a}
<1>1. S \in SUBSET Nat /\ 1 \in S
  BY PhaseOne, PhasePositive
<1>2. \A x \in S : 2 * x \in S
  BY PhaseDouble
<1>3. Phases \subseteq S
  <2> HIDE DEF S
  <2> QED BY <1>1, <1>2, PhaseInduction
<1> QED BY <1>3

\* A larger mask is a multiple of every double of a smaller one.
LEMMA PhaseMultiple ==
    \A a \in Phases : \A b \in Phases : a < b => \E q \in Nat : b = q * (2 * a)
<1> DEFINE Divides(a) == \A b \in Phases : a < b => \E q \in Nat : b = q * (2 * a)
<1> DEFINE S == {a \in Nat : Divides(a)}
<1>1. Divides(1)
  <2>1. ASSUME NEW b \in Phases, 1 < b PROVE \E q \in Nat : b = q * (2 * 1)
    <3>1. PICK a \in Phases : b = 2 * a
      BY <2>1, PhaseInverse
    <3>2. a \in Nat /\ b = a * (2 * 1)
      BY <3>1, PhasePositive
    <3> QED BY <3>2
  <2> QED BY <2>1
<1>2. ASSUME NEW a \in Nat, Divides(a) PROVE Divides(2 * a)
  <2>1. ASSUME NEW b \in Phases, 2 * a < b PROVE \E q \in Nat : b = q * (2 * (2 * a))
    <3>1. b # 1 \/ a = 0
      BY <2>1, PhasePositive
    <3>2. CASE a = 0
      <4>1. 0 < b
        BY <2>1, <3>2, PhasePositive
      <4>2. \E q \in Nat : b = q * (2 * a)
        BY <1>2, <3>2, <4>1
      <4> QED BY <3>2, <4>1, <4>2, PhasePositive
    <3>3. CASE a # 0
      <4>1. PICK c \in Phases : b = 2 * c
        BY <3>1, <3>3, PhaseInverse
      <4>2. c \in Nat /\ a < c
        BY <2>1, <4>1, PhasePositive
      <4>3. PICK q \in Nat : c = q * (2 * a)
        BY <1>2, <4>2
      <4>4. b = q * (2 * (2 * a))
        BY <4>1, <4>3
      <4> QED BY <4>4
    <3> QED BY <3>2, <3>3
  <2> QED BY <2>1
<1>3. S \in SUBSET Nat /\ 1 \in S /\ \A x \in S : 2 * x \in S
  <2>1. \A x \in Nat : 2 * x \in Nat
    OBVIOUS
  <2> HIDE DEF Divides
  <2> QED BY <1>1, <1>2, <2>1
<1>4. Phases \subseteq S
  <2> HIDE DEF S
  <2> QED BY <1>3, PhaseInduction
<1> QED BY <1>4

\* No mask lies between a mask and its double.
LEMMA PhaseGap ==
    ASSUME NEW a \in Phases, NEW b \in Phases, b < 2 * a
    PROVE  b < a \/ b = a
<1> SUFFICES ASSUME a < b PROVE FALSE
  BY PhasePositive
<1>1. PICK q \in Nat : b = q * (2 * a)
  BY PhaseMultiple
<1>2. a \in Nat /\ b \in Nat /\ a >= 1 /\ b >= 1
  BY PhasePositive
<1>3. q >= 1
  BY <1>1, <1>2
<1>4. q * (2 * a) >= 2 * a
  BY <1>2, <1>3
<1> QED BY <1>1, <1>2, <1>4

LEMMA Cancel ==
    ASSUME NEW a \in Int, NEW b \in Int, NEW c \in Nat \ {0}, a * c = b * c
    PROVE  a = b
<1>1. (a - b) * c = 0
  OBVIOUS
<1>2. a - b = 0
  BY <1>1
<1> QED BY <1>2

\* What a rank receives comes in smaller masks than the one it sends in.
LEMMA ChildrenFirst ==
    ASSUME NEW l \in Ranks, NEW mask \in Phases, NEW b \in Phases,
           IsSender(l, mask), IsReceiver(l, b)
    PROVE  b < mask
<1>1. mask \in Nat \ {0} /\ b \in Nat \ {0}
  BY PhasePositive
<1>2. PICK i \in Receivers(mask) : l = i + mask
  BY DEF IsSender
<1>3. PICK q \in Ranks : i = q * (2 * mask)
  BY <1>2 DEF Receivers
<1>4. PICK t \in Ranks : l = t * (2 * b)
  BY DEF IsReceiver, Receivers
<1>5. q \in Nat /\ t \in Nat
  BY WorldSizeAssumption DEF Ranks
<1>6. l = (2 * q + 1) * mask
  BY <1>1, <1>2, <1>3, <1>5
<1>7. ASSUME b = mask PROVE FALSE
  <2>1. (2 * q + 1) * mask = (2 * t) * mask
    BY <1>1, <1>4, <1>5, <1>6, <1>7
  <2>2. 2 * q + 1 \in Int /\ 2 * t \in Int
    BY <1>5
  <2>3. 2 * q + 1 = 2 * t
    BY <1>1, <2>1, <2>2, Cancel
  <2> QED BY <1>5, <2>3
<1>8. ASSUME mask < b PROVE FALSE
  <2>1. PICK w \in Nat : b = w * (2 * mask)
    BY <1>8, PhaseMultiple
  <2>2. l = (2 * (t * (2 * w))) * mask
    BY <1>1, <1>4, <1>5, <2>1
  <2> DEFINE v == t * (2 * w)
  <2>3. v \in Int
    BY <1>5
  <2> HIDE DEF v
  <2>4. (2 * q + 1) * mask = (2 * v) * mask
    BY <1>6, <2>2 DEF v
  <2>5. 2 * q + 1 = 2 * v
    <3>1. 2 * q + 1 \in Int /\ 2 * v \in Int
      BY <1>5, <2>3
    <3> QED BY <1>1, <2>4, <3>1, Cancel
  <2> QED BY <1>5, <2>3, <2>5
<1> QED BY <1>1, <1>7, <1>8

\* Counting from a root turns each group rank into one logical rank.
LEMMA LogicalValue ==
    ASSUME NEW root \in Ranks, NEW r \in Ranks
    PROVE  /\ Logical(r, root) = IF r >= root THEN r - root ELSE r - root + WorldSize
           /\ Logical(r, root) \in Ranks
<1> USE WorldSizeAssumption DEF Logical, Ranks
<1>1. CASE r >= root
  <2>1. r - root \in 0 .. (WorldSize - 1)
    BY <1>1
  <2>2. (r - root) % WorldSize = r - root
    BY <2>1
  <2> QED BY <1>1, <2>1, <2>2
<1>2. CASE ~(r >= root)
  <2> DEFINE d == r - root + WorldSize
  <2>1. d \in 0 .. (WorldSize - 1) /\ r - root = d - WorldSize
    BY <1>2
  <2> HIDE DEF d
  <2>2. (d - WorldSize) % WorldSize = d
    BY <2>1
  <2> QED BY <1>2, <2>1, <2>2 DEF d
<1> QED BY <1>1, <1>2

LEMMA PhysicalValue ==
    ASSUME NEW root \in Ranks, NEW l \in Ranks
    PROVE  Physical(l, root) \in Ranks /\ Logical(Physical(l, root), root) = l
<1> USE WorldSizeAssumption DEF Ranks
<1>1. CASE l + root < WorldSize
  <2>1. (l + root) % WorldSize = l + root
    BY <1>1
  <2> QED BY <1>1, <2>1, LogicalValue DEF Physical
<1>2. CASE ~(l + root < WorldSize)
  <2> DEFINE d == l + root - WorldSize
  <2>1. d \in 0 .. (WorldSize - 1) /\ l + root = d + WorldSize
    BY <1>2
  <2> HIDE DEF d
  <2>2. (d + WorldSize) % WorldSize = d
    BY <2>1
  <2>3. Physical(l, root) = d /\ d < root
    BY <1>2, <2>1, <2>2 DEF Physical, d
  <2> QED BY <2>1, <2>3, LogicalValue DEF d
<1> QED BY <1>1, <1>2

LEMMA PlaceValue ==
    ASSUME Typed, NEW k \in 1 .. Calls, NEW r \in Ranks
    PROVE  /\ PlaceIn(r, k) \in Ranks /\ PlaceIn(r, k) \in Nat /\ RootOf(k) \in Ranks
           /\ PlaceIn(r, k) = 0 => r = RootOf(k)
           /\ PlaceIn(RootOf(k), k) = 0
           /\ \A s \in Ranks : PlaceIn(s, k) = PlaceIn(r, k) => s = r
<1>1. RootOf(k) \in Ranks
  BY CallShape
<1>2. \A s \in Ranks : PlaceIn(s, k) = IF s >= RootOf(k) THEN s - RootOf(k)
                                       ELSE s - RootOf(k) + WorldSize
  BY <1>1, LogicalValue DEF PlaceIn
<1>3. PlaceIn(r, k) \in Ranks /\ PlaceIn(r, k) \in Nat
  <2>1. PlaceIn(r, k) \in Ranks
    BY <1>1, LogicalValue DEF PlaceIn
  <2> QED BY <2>1, WorldSizeAssumption DEF Ranks
<1>4. PlaceIn(r, k) = 0 => r = RootOf(k)
  BY <1>1, <1>2, WorldSizeAssumption DEF Ranks
<1>5. PlaceIn(RootOf(k), k) = 0
  BY <1>1, <1>2, WorldSizeAssumption DEF Ranks
<1>6. ASSUME NEW s \in Ranks, PlaceIn(s, k) = PlaceIn(r, k) PROVE s = r
  <2>1. /\ s >= RootOf(k) => PlaceIn(s, k) = s - RootOf(k)
        /\ ~(s >= RootOf(k)) => PlaceIn(s, k) = s - RootOf(k) + WorldSize
        /\ r >= RootOf(k) => PlaceIn(r, k) = r - RootOf(k)
        /\ ~(r >= RootOf(k)) => PlaceIn(r, k) = r - RootOf(k) + WorldSize
    BY <1>2
  <2>2. r \in Int /\ s \in Int /\ RootOf(k) \in Int /\ WorldSize \in Int
        /\ 0 <= r /\ r < WorldSize /\ 0 <= s /\ s < WorldSize
        /\ 0 <= RootOf(k) /\ RootOf(k) < WorldSize
    BY <1>1, WorldSizeAssumption DEF Ranks
  <2>3. s - RootOf(k) = r - RootOf(k)
    BY <1>6, <2>1, <2>2
  <2> QED BY <2>2, <2>3
<1> QED BY <1>1, <1>3, <1>4, <1>5, <1>6

LEMMA PlaceOfPeer ==
    ASSUME Typed, NEW k \in 1 .. Calls, NEW l \in Ranks
    PROVE  Physical(l, RootOf(k)) \in Ranks /\ PlaceIn(Physical(l, RootOf(k)), k) = l
BY CallShape, PhysicalValue DEF PlaceIn
-----------------------------------------------------------------------------
(* Where in a call messages are exchanged. *)

\* The step of a script that exchanges messages, and the steps around it.
Shaped(kind, script) ==
    LET data == kind \notin {"broadcast", "all_gather"}
        d == IF kind = "scatter_limbs" THEN 4 ELSE 3
    IN  /\ data => /\ d \in 3 .. Len(script)
                   /\ script[d] = IF kind \in {"reduce", "all_reduce"} THEN "tree" ELSE "pieces"
        /\ Len(script) = IF kind = "all_gather" THEN 2
                         ELSE IF kind \in {"scatter_limbs", "all_reduce"} THEN 4 ELSE 3
        /\ \A i \in 1 .. Len(script) :
              /\ script[i] \in {"pieces", "tree"} => data /\ i = d
              /\ data /\ script[i] \in {"errors", "layouts"} => i < d
              /\ ~data /\ script[i] \in {"errors", "layouts"} => i < Len(script)
              /\ script[i] = "tensors" => /\ i = Len(script)
                                          /\ kind \in {"broadcast", "all_gather", "all_reduce"}
              /\ script[i] = "describe" => /\ i < Len(script)
                                           /\ kind \in {"broadcast", "scatter", "scatter_limbs"}

LEMMA DataScripts == \A kind \in AllKinds : Shaped(kind, Script(kind))
<1>1. \A i \in 1 .. 3 : i = 1 \/ i = 2 \/ i = 3
  OBVIOUS
<1>2. \A i \in 1 .. 4 : i = 1 \/ i = 2 \/ i = 3 \/ i = 4
  OBVIOUS
<1>3. \A i \in 1 .. 2 : i = 1 \/ i = 2
  OBVIOUS
<1>4. Shaped("broadcast", Script("broadcast"))
  <2> DEFINE s == Script("broadcast")
  <2>1. Len(s) = 3 /\ s[1] = "errors" /\ s[2] = "describe" /\ s[3] = "tensors"
    BY Scripts
  <2> HIDE DEF s
  <2>2. Shaped("broadcast", s)
    BY <2>1, <1>1 DEF Shaped
  <2> QED BY <2>2 DEF s
<1>5. Shaped("scatter", Script("scatter"))
  <2> DEFINE s == Script("scatter")
  <2>1. Len(s) = 3 /\ s[1] = "errors" /\ s[2] = "describe" /\ s[3] = "pieces"
    BY Scripts
  <2> HIDE DEF s
  <2>2. Shaped("scatter", s)
    BY <2>1, <1>1 DEF Shaped
  <2> QED BY <2>2 DEF s
<1>6. Shaped("scatter_limbs", Script("scatter_limbs"))
  <2> DEFINE s == Script("scatter_limbs")
  <2>1. Len(s) = 4 /\ s[1] = "errors" /\ s[2] = "errors" /\ s[3] = "describe" /\ s[4] = "pieces"
    BY Scripts
  <2> HIDE DEF s
  <2>2. Shaped("scatter_limbs", s)
    BY <2>1, <1>2 DEF Shaped
  <2> QED BY <2>2 DEF s
<1>7. Shaped("gather", Script("gather"))
  <2> DEFINE s == Script("gather")
  <2>1. Len(s) = 3 /\ s[1] = "errors" /\ s[2] = "layouts" /\ s[3] = "pieces"
    BY Scripts
  <2> HIDE DEF s
  <2>2. Shaped("gather", s)
    BY <2>1, <1>1 DEF Shaped
  <2> QED BY <2>2 DEF s
<1>8. Shaped("all_gather", Script("all_gather"))
  <2> DEFINE s == Script("all_gather")
  <2>1. Len(s) = 2 /\ s[1] = "layouts" /\ s[2] = "tensors"
    BY Scripts
  <2> HIDE DEF s
  <2>2. Shaped("all_gather", s)
    BY <2>1, <1>3 DEF Shaped
  <2> QED BY <2>2 DEF s
<1>9. Shaped("reduce", Script("reduce"))
  <2> DEFINE s == Script("reduce")
  <2>1. Len(s) = 3 /\ s[1] = "errors" /\ s[2] = "layouts" /\ s[3] = "tree"
    BY Scripts
  <2> HIDE DEF s
  <2>2. Shaped("reduce", s)
    BY <2>1, <1>1 DEF Shaped
  <2> QED BY <2>2 DEF s
<1>10. Shaped("all_reduce", Script("all_reduce"))
  <2> DEFINE s == Script("all_reduce")
  <2>1. Len(s) = 4 /\ s[1] = "errors" /\ s[2] = "layouts" /\ s[3] = "tree" /\ s[4] = "tensors"
    BY Scripts
  <2> HIDE DEF s
  <2>2. Shaped("all_reduce", s)
    BY <2>1, <1>2 DEF Shaped
  <2> QED BY <2>2 DEF s
<1> QED BY <1>4, <1>5, <1>6, <1>7, <1>8, <1>9, <1>10 DEF AllKinds

LEMMA DataShape ==
    ASSUME Typed, NEW k \in 1 .. Calls
    PROVE  /\ HasData(k) => DataStep(k) \in 3 .. LastStep(k) /\ Silent(k, DataStep(k))
           /\ DataStep(k) \in 3 .. 4 /\ LastStep(k) \in 2 .. 4
           /\ Scatters(k) \/ Gathers(k) =>
                 LastStep(k) = DataStep(k) /\ StepName(k, DataStep(k)) = "pieces" /\ ~Reduces(k)
           /\ Scatters(k) => ~Gathers(k)
           /\ Reduces(k) => StepName(k, DataStep(k)) = "tree" /\ DataStep(k) = 3
           /\ KindOf(k) = "reduce" => LastStep(k) = 3
           /\ KindOf(k) = "all_reduce" => LastStep(k) = 4 /\ Reduces(k)
           /\ ~HasData(k) => KindOf(k) \in {"broadcast", "all_gather"}
           /\ \A i \in 1 .. LastStep(k) :
                 /\ Silent(k, i) => HasData(k) /\ i = DataStep(k)
                 /\ HasData(k) /\ Judges(k, i) => i < DataStep(k)
                 /\ Judges(k, i) => i < LastStep(k)
                 /\ StepName(k, i) = "pieces" => Scatters(k) \/ Gathers(k)
                 /\ StepName(k, i) = "tree" => Reduces(k)
                 /\ StepName(k, i) = "tensors" =>
                       i = LastStep(k) /\ KindOf(k) \in {"broadcast", "all_gather", "all_reduce"}
                 /\ StepName(k, i) = "describe" =>
                       i < LastStep(k) /\ (Scatters(k) \/ KindOf(k) = "broadcast")
<1>1. KindOf(k) \in AllKinds
  BY CallShape
<1>2. Shaped(KindOf(k), Script(KindOf(k)))
  BY <1>1, DataScripts
<1> USE DEF LastStep, StepName, Silent, Judges, HasData, Scatters, Gathers, Reduces, DataStep
<1>3. HasData(k) <=> KindOf(k) \notin {"broadcast", "all_gather"}
  BY <1>1 DEF AllKinds
<1> DEFINE kind == KindOf(k)
<1> DEFINE s == Script(KindOf(k))
<1>4. /\ HasData(k) => DataStep(k) \in 3 .. Len(s) /\ Silent(k, DataStep(k))
      /\ DataStep(k) \in 3 .. 4 /\ Len(s) \in 2 .. 4
      /\ Scatters(k) => ~Gathers(k)
      /\ ~HasData(k) => KindOf(k) \in {"broadcast", "all_gather"}
  BY <1>1, <1>2, <1>3 DEF Shaped
<1>5. /\ Scatters(k) \/ Gathers(k) =>
            Len(s) = DataStep(k) /\ StepName(k, DataStep(k)) = "pieces" /\ ~Reduces(k)
      /\ Reduces(k) => StepName(k, DataStep(k)) = "tree" /\ DataStep(k) = 3
      /\ KindOf(k) = "reduce" => Len(s) = 3
      /\ KindOf(k) = "all_reduce" => Len(s) = 4 /\ Reduces(k)
  BY <1>1, <1>2, <1>3 DEF Shaped
<1>6. ASSUME NEW i \in 1 .. Len(s)
      PROVE  /\ Silent(k, i) => HasData(k) /\ i = DataStep(k)
             /\ HasData(k) /\ Judges(k, i) => i < DataStep(k)
             /\ Judges(k, i) => i < Len(s)
             /\ StepName(k, i) = "tensors" =>
                   i = Len(s) /\ KindOf(k) \in {"broadcast", "all_gather", "all_reduce"}
             /\ StepName(k, i) = "describe" =>
                   i < Len(s) /\ (Scatters(k) \/ KindOf(k) = "broadcast")
  BY <1>1, <1>2, <1>3, CallShape DEF Shaped
<1>7. ASSUME NEW i \in 1 .. Len(s)
      PROVE  /\ StepName(k, i) = "pieces" => Scatters(k) \/ Gathers(k)
             /\ StepName(k, i) = "tree" => Reduces(k)
  BY <1>2, <1>3, <1>5, <1>6
<1> QED BY <1>4, <1>5, <1>6, <1>7
-----------------------------------------------------------------------------
(* Who feeds whom, and who has sent. *)

LEMMA FeedsApart ==
    ASSUME Typed, NEW k \in 1 .. Calls, NEW s \in Ranks, NEW t \in Ranks, Feeds(s, t, k)
    PROVE  /\ HasData(k) /\ s # t
           /\ Scatters(k) => s = RootOf(k)
           /\ Gathers(k) => t = RootOf(k)
           /\ Reduces(k) => PlaceIn(s, k) > PlaceIn(t, k)
<1>1. PlaceIn(s, k) \in Nat /\ PlaceIn(t, k) \in Nat
  BY PlaceValue
<1>2. ASSUME Reduces(k) PROVE PlaceIn(s, k) > PlaceIn(t, k) /\ ~Scatters(k) /\ ~Gathers(k)
  <2>1. ~Scatters(k) /\ ~Gathers(k)
    BY <1>2 DEF Reduces, Scatters, Gathers
  <2>2. PICK b \in Phases : PlaceIn(s, k) = PlaceIn(t, k) + b
    BY <1>2, <2>1 DEF Feeds
  <2>3. b \in Nat /\ b >= 1
    BY PhasePositive
  <2> QED BY <1>1, <2>1, <2>2, <2>3
<1>3. CASE Reduces(k)
  <2>1. s # t
    BY <1>1, <1>2, <1>3
  <2> QED BY <1>2, <1>3, <2>1 DEF HasData
<1>4. CASE ~Reduces(k)
  BY <1>4 DEF Feeds, HasData, Scatters, Gathers
<1> QED BY <1>3, <1>4

LEMMA CallsKept ==
    ASSUME UNCHANGED program
    PROVE  \A k, s, t :
              /\ KindOf(k)' = KindOf(k) /\ RootOf(k)' = RootOf(k)
              /\ HasData(k)' = HasData(k) /\ DataStep(k)' = DataStep(k)
              /\ Scatters(k)' = Scatters(k) /\ Gathers(k)' = Gathers(k)
              /\ Reduces(k)' = Reduces(k)
              /\ PlaceIn(s, k)' = PlaceIn(s, k) /\ Feeds(s, t, k)' = Feeds(s, t, k)
              /\ Kept(s, k)' = Kept(s, k)
              /\ ExpectedParts(s, k)' = ExpectedParts(s, k)
              /\ ExpectedSum(s, k)' = ExpectedSum(s, k)
BY DEF KindOf, RootOf, HasData, DataStep, Scatters, Gathers, Reduces, PlaceIn, Feeds, Kept,
       ExpectedParts, ExpectedSum

LEMMA SubtreesKept ==
    ASSUME UNCHANGED program
    PROVE  \A k, l, size : Subtree(k, l, size)' = Subtree(k, l, size)
BY DEF Subtree, PlaceIn, RootOf, KindOf

LEMMA PayloadKept ==
    ASSUME UNCHANGED program, NEW m, Payload(m)
    PROVE  Payload(m)'
BY CallsKept, SubtreesKept DEF Payload

LEMMA ClearedKept ==
    ASSUME Typed, PostsKept, UNCHANGED program, NEW t \in Ranks, NEW k \in 1 .. Calls,
           Cleared(t, k)
    PROVE  Cleared(t, k)'
<1> SUFFICES ASSUME NEW i \in 1 .. LastStep(k), Judges(k, i)
             PROVE  \E n \in 1 .. Len(posts'[t]) :
                       posts'[t][n].call = k /\ posts'[t][n].step = i /\ Passed(t, n)'
  BY ScriptsKept DEF Cleared
<1>1. PICK n \in 1 .. Len(posts[t]) :
         posts[t][n].call = k /\ posts[t][n].step = i /\ Passed(t, n)
  BY DEF Cleared
<1>2. posts'[t][n] = posts[t][n] /\ n \in 1 .. Len(posts'[t])
  BY RankTyped DEF PostsKept
<1>3. Passed(t, n)'
  BY <1>1, VerdictsKept
<1> QED BY <1>1, <1>2, <1>3

\* A rank about to exchange messages has passed every step that judges its call.
LEMMA ClearedHere ==
    ASSUME MeetInv, NEW r \in Ranks, Me(r).step > 0, Passed(r, Len(posts[r])),
           HasData(Me(r).call), Me(r).step >= DataStep(Me(r).call) - 1
    PROVE  Cleared(r, Me(r).call)
<1> DEFINE k == Me(r).call
<1> SUFFICES ASSUME NEW i \in 1 .. LastStep(k), Judges(k, i)
             PROVE  \E n \in 1 .. Len(posts[r]) :
                       posts[r][n].call = k /\ posts[r][n].step = i /\ Passed(r, n)
  BY DEF Cleared
<1>1. /\ Typed /\ k \in 1 .. Calls /\ Me(r).step \in 1 .. LastStep(k) /\ LastStep(k) \in 2 .. 4
      /\ Len(posts[r]) \in Nat
  BY Inside
<1>2. i < DataStep(k) /\ DataStep(k) \in 3 .. 4 /\ ~Silent(k, i)
  BY <1>1, DataShape, CallShape
<1>3. i \in 1 .. Me(r).step
  BY <1>1, <1>2
<1>4. PICK n \in 1 .. Len(posts[r]) : posts[r][n].call = k /\ posts[r][n].step = i
  BY <1>2, <1>3 DEF MeetInv, Coherent, Opened
<1>5. /\ n < Len(posts[r]) => posts[r][n].step < Me(r).step
      /\ posts[r][n].step < Me(r).step => Passed(r, n)
  BY <1>4, Inside
<1>6. n = Len(posts[r]) \/ n < Len(posts[r])
  BY <1>1
<1> QED BY <1>4, <1>5, <1>6

\* A rank in a call has passed all its posts of the call once it passed those that judge.
LEMMA ClearedPasses ==
    ASSUME MeetInv, NEW r \in Ranks, Me(r).step > 0, Cleared(r, Me(r).call),
           NEW n \in 1 .. Len(posts[r]), posts[r][n].call = Me(r).call
    PROVE  Passed(r, n)
<1> DEFINE k == Me(r).call
<1> DEFINE i == posts[r][n].step
<1>1. /\ Typed /\ k \in 1 .. Calls /\ Me(r).step \in 1 .. LastStep(k) /\ LastStep(k) \in 2 .. 4
      /\ Len(posts[r]) \in Nat
  BY Inside
<1>2. \A h \in 1 .. Len(posts[r]) : posts[r][h].call = k =>
         /\ posts[r][h].step <= Me(r).step
         /\ h < Len(posts[r]) => posts[r][h].step < Me(r).step
         /\ posts[r][h].step < Me(r).step => Passed(r, h)
  BY Inside
<1>3. i \in 1 .. LastStep(k) /\ i \in Nat
  BY <1>1, PostTyped
<1>4. CASE ~Judges(k, i)
  BY <1>4 DEF Passed
<1>5. CASE Judges(k, i)
  <2>1. PICK h \in 1 .. Len(posts[r]) :
           posts[r][h].call = k /\ posts[r][h].step = i /\ Passed(r, h)
    BY <1>3, <1>5 DEF Cleared
  <2>2. CASE i < Me(r).step
    BY <1>2, <2>2
  <2>3. CASE ~(i < Me(r).step)
    <3>1. ~(n < Len(posts[r])) /\ ~(h < Len(posts[r]))
      BY <1>2, <2>1, <2>3
    <3>2. n = h
      BY <1>1, <3>1
    <3> QED BY <2>1, <3>2
  <2> QED BY <2>2, <2>3
<1> QED BY <1>4, <1>5

\* What a rank has sent it has sent for good.
LEMMA SentKept ==
    ASSUME MeetInv, NEW r \in Ranks, Moves(r), UNCHANGED program,
           Me(r).mask = 0 /\ rank'[r].step = Me(r).step => rank'[r].mask = 0,
           \A s \in Ranks \ {r} : rank'[s] = rank[s],
           NEW s \in Ranks, NEW k \in 1 .. Calls, Sent(s, k)
    PROVE  Sent(s, k)'
<1>1. DataStep(k) \in 3 .. 4 /\ HasData(k)' = HasData(k) /\ DataStep(k)' = DataStep(k)
      /\ Reduces(k)' = Reduces(k)
  BY DataShape, CallsKept DEF MeetInv
<1>2. CASE s # r
  BY <1>1, <1>2 DEF Sent, AtData, Me
<1>3. CASE s = r
  <2>1. Me(r).call \in 0 .. Calls /\ Me(r).step \in 0 .. 4
    BY RankTyped DEF MeetInv
  <2>2. CASE Begins(r)
    <3>1. rank'[r].call = Me(r).call + 1 /\ Me(r).step = 0
      BY <2>2 DEF Begins, Enters, Leaves
    <3>2. Me(r).call >= k
      BY <1>1, <1>3, <2>1, <3>1 DEF Sent, AtData
    <3>3. rank'[r].call > k
      BY <2>1, <3>1, <3>2
    <3> QED BY <1>3, <3>3 DEF Sent, Me
  <2>3. CASE Continues(r) \/ Refuses(r) \/ Raises(r)
    <3>1. rank'[r].call = Me(r).call /\ (rank'[r].step = 0 \/ rank'[r].step = Me(r).step + 1)
      BY <2>3 DEF Continues, Refuses, Raises, Proceeds, Enters, Leaves
    <3>2. Me(r).call > k \/ (Me(r).call = k /\ (Me(r).step = 0 \/ Me(r).step >= DataStep(k)))
      BY <1>1, <1>3, <2>1 DEF Sent, AtData
    <3>3. Me(r).step # 0
      BY <2>3 DEF Continues, Refuses, Raises
    <3>4. Me(r)'.call = Me(r).call /\ (Me(r)'.step = 0 \/ Me(r)'.step = Me(r).step + 1)
      BY <3>1 DEF Me
    <3>5. Me(r)'.call > k \/ (Me(r)'.call = k /\ (Me(r)'.step = 0 \/ Me(r)'.step > DataStep(k)))
      BY <1>1, <2>1, <3>2, <3>3, <3>4
    <3> QED BY <1>1, <1>3, <3>5 DEF Sent
  <2>4. CASE Stays(r)
    <3>1. rank'[r].call = Me(r).call /\ rank'[r].step = Me(r).step
      BY <2>4 DEF Stays
    <3> QED BY <1>1, <1>3, <3>1 DEF Sent, AtData, Me
  <2> QED BY <2>2, <2>3, <2>4 DEF Moves
<1> QED BY <1>2, <1>3
-----------------------------------------------------------------------------
(* Messages reach a rank that waits for them. *)

LEMMA OutcomeTyped ==
    ASSUME Typed, NEW t \in Ranks, NEW k \in 1 .. Calls, Len(Me(t).outcomes) >= k
    PROVE  Finished(t, k, "ok") \/ Finished(t, k, "refused") \/ Finished(t, k, "raised")
<1>1. Me(t).outcomes \in Seq(Outcomes)
  BY RankTyped
<1>2. k \in 1 .. Len(Me(t).outcomes)
  BY <1>1
<1>3. Me(t).outcomes[k] \in Outcomes
  BY <1>1, <1>2
<1> QED BY <1>3 DEF Finished, Outcomes

\* Where a rank that is to send has passed all steps that judge its call, so has
\* the rank it sends to.
LEMMA ClearedTogether ==
    ASSUME MeetInv, NEW s \in Ranks, NEW t \in Ranks, NEW k \in 1 .. Calls, Cleared(s, k)
    PROVE  Cleared(t, k)
<1> SUFFICES ASSUME NEW i \in 1 .. LastStep(k), Judges(k, i)
             PROVE  \E n \in 1 .. Len(posts[t]) :
                       posts[t][n].call = k /\ posts[t][n].step = i /\ Passed(t, n)
  BY DEF Cleared
<1>1. PICK n \in 1 .. Len(posts[s]) :
         posts[s][n].call = k /\ posts[s][n].step = i /\ Passed(s, n)
  BY DEF Cleared
<1>2. Full(n)
  BY <1>1 DEF Passed
<1>3. Len(posts[t]) \in Nat /\ Len(posts[s]) \in Nat
  BY RankTyped DEF MeetInv
<1>4. n \in 1 .. Len(posts[t])
  BY <1>2, <1>3 DEF Full
<1>5. SameAt(s, t, n)
  BY <1>3, <1>4 DEF MeetInv, CollectivesMeet, SameAt
<1>6. Passed(t, n)
  BY <1>1, <1>5, VerdictsAgree
<1> QED BY <1>1, <1>4, <1>5, <1>6 DEF SameAt

\* A call that a rank is to send in was not left by the rank it sends to, unless
\* that rank raised in it.
LEMMA SendReaches ==
    ASSUME FlowInv, NEW s \in Ranks, NEW t \in Ranks, NEW k \in 1 .. Calls,
           Feeds(s, t, k), Cleared(s, k), ~Sent(s, k), Me(s).call = k, Me(s).step > 0
    PROVE  Expects(t, s, k)
<1> SUFFICES ASSUME ~Finished(t, k, "raised") PROVE Ready(t, s, k)
  BY DEF Expects
<1>1. MeetInv /\ Typed /\ SuppliedTo(t)
  BY DEF FlowInv, MeetInv
<1>2. /\ HasData(k) /\ DataStep(k) \in 3 .. 4 /\ LastStep(k) \in 2 .. 4 /\ Judges(k, 1)
      /\ 1 \in 1 .. LastStep(k)
  BY <1>1, FeedsApart, DataShape, CallShape
<1>3. Cleared(t, k)
  BY <1>1, ClearedTogether
<1>4. PICK o \in 1 .. Len(posts[t]) : posts[t][o].call = k /\ posts[t][o].step = 1
  BY <1>2, <1>3 DEF Cleared
<1>5. /\ Me(t).call \in 0 .. Calls /\ Me(t).step \in 0 .. 4 /\ k \in Nat
      /\ Len(Me(t).outcomes) = IF Me(t).step = 0 THEN Me(t).call ELSE Me(t).call - 1
  BY <1>1, RankTyped, ProgramAssumption DEF MeetInv, Coherent, Counted
<1>6. k <= Me(t).call
  BY <1>1, <1>4 DEF MeetInv, Coherent, Judged
<1>7. ~Completed(t, k)
  BY <1>1 DEF SuppliedTo
<1>8. ~Finished(t, k, "refused")
  <2> SUFFICES ASSUME Finished(t, k, "refused") PROVE FALSE
    OBVIOUS
  <2>1. PICK n \in 1 .. Len(posts[t]) : posts[t][n].call = k /\ Refused(t, n)
    BY <1>1 DEF MeetInv, Coherent, RefusedTogether
  <2>2. n \in 1 .. Len(posts[s]) /\ n \in 1 .. Len(posts[t]) /\ n <= Len(posts[t])
    BY <1>1, <2>1, RankTyped DEF Refused, Full
  <2>3. SameAt(s, t, n)
    BY <1>1, <2>2 DEF MeetInv, CollectivesMeet, SameAt
  <2>4. Passed(s, n)
    BY <1>1, <2>1, <2>2, <2>3, ClearedPasses DEF SameAt
  <2> QED BY <2>1, <2>3, <2>4, VerdictsAgree
<1>9. ~(Len(Me(t).outcomes) >= k)
  BY <1>1, <1>7, <1>8, OutcomeTyped DEF Completed
<1>10. Me(t).call = k /\ Me(t).step # 0
  BY <1>5, <1>6, <1>9
<1>11. Me(t).step <= DataStep(k)
  BY <1>2, <1>5, <1>7, <1>10 DEF Completed
<1>12. Me(t).step = DataStep(k) => ~Taken(t, s, k)
  BY <1>1, <1>2, <1>10 DEF SuppliedTo, AtData
<1> QED BY <1>2, <1>3, <1>5, <1>10, <1>11, <1>12 DEF Ready

\* A rank that does not move goes on expecting its mail.
LEMMA ExpectsKept ==
    ASSUME Typed, PostsKept, UNCHANGED program, NEW t \in Ranks, NEW s, NEW k \in 1 .. Calls,
           Expects(t, s, k), rank'[t] = rank[t]
    PROVE  Expects(t, s, k)'
<1>1. Ready(t, s, k) => Cleared(t, k)'
  BY ClearedKept DEF Ready
<1>2. /\ Taken(t, s, k)' = Taken(t, s, k) /\ Me(t)' = Me(t)
      /\ Finished(t, k, "raised")' = Finished(t, k, "raised")
  BY CallsKept DEF Taken, Finished, Me
<1>3. Ready(t, s, k) => Ready(t, s, k)'
  BY <1>1, <1>2, CallsKept DEF Ready
<1> QED BY <1>2, <1>3 DEF Expects

\* What the move of rank r leaves of its mail, and of those that were to feed it.
Keeps(r) ==
    /\ \A m \in wire \cap wire' : m.to = r => Expects(r, m.from, m.call)'
    /\ \A m \in wire' \ wire : Travels(m)'
    /\ \A s \in Ranks, k \in 1 .. Calls :
          Feeds(s, r, k) /\ (Completed(r, k)' \/ (AtData(r, k)' /\ Taken(r, s, k)')) =>
              Sent(s, k)
    /\ Me(r).mask = 0 /\ rank'[r].step = Me(r).step => rank'[r].mask = 0

LEMMA FlowKept ==
    ASSUME FlowInv, NEW r \in Ranks, Moves(r), Typed', UNCHANGED program,
           Keeps(r), Carries(r)', Shipped(r)', Delivered(r)'
    PROVE  FlowInv'
<1>1. MeetInv /\ Typed /\ Calls \in Nat
  BY ProgramAssumption DEF FlowInv, MeetInv
<1>2. /\ MeetInv' /\ PostsKept
      /\ \A s \in Ranks \ {r} : rank'[s] = rank[s] /\ posts'[s] = posts[s]
  BY <1>1, MoveKept
<1>3. \A s \in Ranks, k \in 1 .. Calls : Sent(s, k) => Sent(s, k)'
  BY <1>1, <1>2, SentKept DEF Keeps
<1>4. ASSUME NEW t \in Ranks \ {r}
      PROVE  (SuppliedTo(t) /\ Carries(t) /\ Shipped(t) /\ Delivered(t))'
  <2>1. SuppliedTo(t) /\ Carries(t) /\ Shipped(t) /\ Delivered(t)
    BY DEF FlowInv
  <2>2. rank'[t] = rank[t] /\ posts'[t] = posts[t]
    BY <1>2
  <2>3. SuppliedTo(t)'
    <3>1. \A s, k : /\ Completed(t, k)' = Completed(t, k) /\ AtData(t, k)' = AtData(t, k)
                    /\ Taken(t, s, k)' = Taken(t, s, k) /\ Feeds(s, t, k)' = Feeds(s, t, k)
      BY <2>2, CallsKept DEF Completed, AtData, Taken, Finished, Me
    <3> QED BY <1>3, <2>1, <3>1 DEF SuppliedTo
  <2>4. Carries(t)'
    <3>1. \A k : /\ PiecesHeld(t, k)' = PiecesHeld(t, k)
                 /\ AtData(t, k)' = AtData(t, k)
      BY <2>2, CallsKept DEF PiecesHeld, AtData, Me
    <3>2. \A k : SubtreeHeld(t, k)' = SubtreeHeld(t, k)
      BY <2>2, CallsKept, SubtreesKept DEF SubtreeHeld, Me
    <3>3. Me(t)' = Me(t)
      BY <2>2 DEF Me
    <3> QED BY <2>1, <3>1, <3>2, <3>3, CallsKept DEF Carries
  <2>5. Shipped(t)'
    BY <2>1, <2>2, CallsKept DEF Shipped
  <2>6. Delivered(t)'
    <3>1. Me(t)' = Me(t) /\ \A k : Finished(t, k, "ok")' = Finished(t, k, "ok")
      BY <2>2 DEF Me, Finished
    <3> QED BY <2>1, <3>1, CallsKept DEF Delivered
  <2> QED BY <2>3, <2>4, <2>5, <2>6
<1>5. SuppliedTo(r)'
  BY <1>3, CallsKept DEF SuppliedTo, Keeps
<1>6. ASSUME NEW m \in wire, m \in wire' PROVE Travels(m)'
  <2>1. /\ m.from \in Ranks /\ m.to \in Ranks /\ m.call \in 1 .. Calls
        /\ Feeds(m.from, m.to, m.call) /\ Sent(m.from, m.call)
        /\ Expects(m.to, m.from, m.call) /\ Payload(m)
    BY DEF FlowInv, Travels
  <2>2. Feeds(m.from, m.to, m.call)' /\ Sent(m.from, m.call)' /\ Payload(m)'
    BY <1>3, <2>1, CallsKept, PayloadKept
  <2>3. CASE m.to = r
    BY <1>6, <2>1, <2>2, <2>3 DEF Keeps, Travels
  <2>4. CASE m.to # r
    <3>1. rank'[m.to] = rank[m.to]
      BY <1>2, <2>1, <2>4
    <3>2. Expects(m.to, m.from, m.call)'
      BY <1>1, <1>2, <2>1, <3>1, ExpectsKept
    <3> QED BY <2>1, <2>2, <3>2 DEF Travels
  <2> QED BY <2>3, <2>4
<1>7. \A m \in wire' : Travels(m)'
  BY <1>6 DEF Keeps
<1> QED BY <1>2, <1>4, <1>5, <1>7 DEF FlowInv
-----------------------------------------------------------------------------
(* What a move does to the values of its rank. *)

\* me is rank r in its call, or at the beginning of its next call.
Going(r, me) ==
    /\ ~HasRaised(r)
    /\ me \in Controls /\ me.outcomes = Me(r).outcomes /\ me.step = Me(r).step
    /\ me.call \in 1 .. Calls
    /\ me.call = IF Me(r).step > 0 THEN Me(r).call ELSE Me(r).call + 1

\* Rank r, now in state me, enters the next step of its call.
EntersWith(r, me) ==
    LET k == me.call
        i == me.step + 1
    IN  /\ i <= LastStep(k)
        /\ rank'[r].call = k /\ rank'[r].step = i /\ rank'[r].outcomes = me.outcomes
        /\ rank'[r].got = me.got /\ rank'[r].sum = me.sum /\ rank'[r].mask = me.mask
        /\ wire' = wire \cup Sends(r, k, StepName(k, i))
        /\ IF Silent(k, i) THEN posts' = posts
           ELSE posts' = [posts EXCEPT ![r] = Append(@,
                             [call |-> k, step |-> i, item |-> Item(r, me, StepName(k, i))])]

\* Rank r, now in state me, leaves its call.
EndsWith(r, me, outcome) ==
    /\ rank'[r].call = me.call /\ rank'[r].step = 0 /\ rank'[r].mask = 1
    /\ rank'[r].got = me.got /\ rank'[r].sum = me.sum
    /\ rank'[r].outcomes = Append(me.outcomes, outcome)
    /\ wire' \subseteq wire /\ posts' = posts

LEMMA ProceedData ==
    ASSUME Typed, NEW r \in Ranks, NEW me \in Controls, me.call \in 1 .. Calls,
           me.step <= LastStep(me.call), Proceed(r, me, wire)
    PROVE  \/ me.step = LastStep(me.call) /\ EndsWith(r, me, "ok")
           \/ /\ me.step < LastStep(me.call)
              /\ Describes(r, me.call, StepName(me.call, me.step + 1))
              /\ EndsWith(r, me, "raised")
           \/ EntersWith(r, me)
<1> DEFINE k == me.call
<1> DEFINE i == me.step
<1> DEFINE name == StepName(k, i + 1)
<1>1. LastStep(k) = Len(Script(KindOf(me.call))) /\ name = Script(KindOf(me.call))[me.step + 1]
  BY DEF LastStep, StepName
<1>2. i \in 0 .. 4 /\ LastStep(k) \in 2 .. 4
  BY CallShape DEF Controls
<1>3. \A new : rank' = [rank EXCEPT ![r] = new] => rank'[r] = new
  BY DEF Typed
<1>4. CASE /\ me.step = LastStep(k) /\ rank' = [rank EXCEPT ![r] = Ended(me, "ok")]
           /\ wire' = wire /\ posts' = posts
  <2> DEFINE new == Ended(me, "ok")
  <2>1. /\ new.call = k /\ new.step = 0 /\ new.outcomes = Append(me.outcomes, "ok")
        /\ new.got = me.got /\ new.sum = me.sum /\ new.mask = 1
    BY EndedControl DEF Outcomes
  <2>2. rank'[r] = new
    BY <1>3, <1>4
  <2> HIDE DEF new
  <2> QED BY <1>4, <2>1, <2>2 DEF EndsWith
<1>5. CASE /\ me.step < LastStep(k) /\ Describes(r, k, name)
           /\ rank' = [rank EXCEPT ![r] = Ended(me, "raised")]
           /\ wire' = wire /\ posts' = posts
  <2> DEFINE new == Ended(me, "raised")
  <2>1. /\ new.call = k /\ new.step = 0 /\ new.outcomes = Append(me.outcomes, "raised")
        /\ new.got = me.got /\ new.sum = me.sum /\ new.mask = 1
    BY EndedControl DEF Outcomes
  <2>2. rank'[r] = new
    BY <1>3, <1>5
  <2> HIDE DEF new
  <2> QED BY <1>5, <2>1, <2>2 DEF EndsWith
<1>6. CASE /\ me.step < LastStep(k)
           /\ rank' = [rank EXCEPT ![r] = [me EXCEPT !.step = @ + 1]]
           /\ wire' = wire \cup Sends(r, k, name)
           /\ posts' = IF name \in {"pieces", "tree"} THEN posts
                       ELSE [posts EXCEPT ![r] = Append(@,
                               [call |-> k, step |-> i + 1, item |-> Item(r, me, name)])]
  <2> DEFINE new == [me EXCEPT !.step = @ + 1]
  <2>1. /\ new.call = k /\ new.step = i + 1 /\ new.outcomes = me.outcomes
        /\ new.got = me.got /\ new.sum = me.sum /\ new.mask = me.mask
    BY DEF Controls
  <2>2. rank'[r] = new
    BY <1>3, <1>6
  <2>3. i + 1 <= LastStep(k)
    BY <1>2, <1>6
  <2> HIDE DEF new
  <2> QED BY <1>6, <2>1, <2>2, <2>3 DEF EntersWith, Silent
<1> QED BY <1>1, <1>4, <1>5, <1>6 DEF Proceed

\* A rank that begins a call holds what it keeps of it.
Unused(r, me) ==
    me.got = Kept(r, me.call) /\ me.sum = Partial(r) /\ me.mask = 1

LEMMA FreshUnused ==
    ASSUME FlowInv, NEW r \in Ranks, CanCall(r), NEW a \in Faults \cup {"good"}
    PROVE  Going(r, Fresh(r, a)) /\ Unused(r, Fresh(r, a)) /\ Me(r).step = 0
<1>1. Typed /\ Carries(r)
  BY DEF FlowInv, MeetInv
<1>2. Me(r).step = 0 /\ ~HasRaised(r) /\ Me(r).call < Calls
  BY <1>1, CallIsFree
<1> DEFINE k == Me(r).call + 1
<1>3. /\ Fresh(r, a) \in Controls /\ Fresh(r, a).call = k /\ Fresh(r, a).step = Me(r).step
      /\ Fresh(r, a).outcomes = Me(r).outcomes /\ k \in 1 .. Calls
  BY <1>1, <1>2, FreshControl
<1>4. Me(r) \in Controls /\ Me(r).mask = 1
  BY <1>1, <1>2, RankTyped DEF Carries
<1> DEFINE got == IF KindOf(k) \in {"broadcast", "scatter", "scatter_limbs"}
                     /\ r = RootOf(k)
                  THEN {Part(IF KindOf(k) = "broadcast" THEN 0 ELSE r, r, k)}
                  ELSE IF KindOf(k) = "gather" /\ r = RootOf(k)
                  THEN {Part(r, r, k)}
                  ELSE {}
<1>5. got = Kept(r, k)
  BY DEF Kept, Gathers, Scatters
<1>6. Fresh(r, a) = [Me(r) EXCEPT !.call = k, !.arg = a, !.sum = Partial(r), !.got = got]
  BY DEF Fresh
<1> HIDE DEF got
<1>7. Fresh(r, a).got = got /\ Fresh(r, a).sum = Partial(r) /\ Fresh(r, a).mask = Me(r).mask
  BY <1>4, <1>6 DEF Controls
<1> QED BY <1>2, <1>3, <1>4, <1>5, <1>7 DEF Going, Unused

LEMMA GoingCounts ==
    ASSUME FlowInv, NEW r \in Ranks, NEW me, Going(r, me)
    PROVE  /\ Typed /\ me.call \in 1 .. Calls /\ me.step \in 0 .. 4
           /\ Len(Me(r).outcomes) = me.call - 1
           /\ Me(r).step = 0 => Me(r).mask = 1
           /\ me.step <= LastStep(me.call)
           /\ \A o : ~Finished(r, me.call, o)
<1>1. Typed /\ Carries(r) /\ Counted(r)
  BY DEF FlowInv, MeetInv, Coherent
<1>2. Me(r).call \in Nat /\ Me(r).step \in 0 .. 4 /\ Calls \in Nat
  BY <1>1, RankTyped, ProgramAssumption
<1>3. Len(Me(r).outcomes) = me.call - 1
  BY <1>1, <1>2 DEF Counted, Going
<1>4. me.step <= LastStep(me.call)
  <2>1. LastStep(me.call) \in 2 .. 4
    BY <1>1, CallShape DEF Going
  <2>2. CASE Me(r).step > 0
    BY <1>1, <2>1, <2>2, RankTyped DEF Going
  <2>3. CASE Me(r).step = 0
    BY <2>1, <2>3 DEF Going
  <2> QED BY <1>2, <2>2, <2>3
<1>5. \A o : ~Finished(r, me.call, o)
  BY <1>2, <1>3 DEF Finished, Going
<1> QED BY <1>1, <1>2, <1>3, <1>4, <1>5 DEF Carries, Going

\* A rank that begins a call has no mail; other mail is for its call, unless the
\* rank raised.
LEMMA Mail ==
    ASSUME FlowInv, NEW r \in Ranks, Me(r).step > 0 \/ ~HasRaised(r),
           NEW m \in wire, m.to = r
    PROVE  /\ Feeds(m.from, r, m.call) /\ m.from \in Ranks /\ m.call \in 1 .. Calls
           /\ HasData(m.call) /\ Me(r).step > 0 /\ Me(r).call = m.call
           /\ Cleared(r, m.call)
           /\ Me(r).step = DataStep(m.call) => ~Taken(r, m.from, m.call)
           /\ Me(r).step <= DataStep(m.call)
<1>1. Travels(m) /\ Typed
  BY DEF FlowInv, MeetInv
<1>2. /\ m.from \in Ranks /\ m.call \in 1 .. Calls /\ Feeds(m.from, r, m.call)
      /\ Expects(r, m.from, m.call)
  BY <1>1 DEF Travels
<1>3. HasData(m.call) /\ DataStep(m.call) \in 3 .. 4
  BY <1>1, <1>2, FeedsApart, DataShape
<1>4. ~Finished(r, m.call, "raised")
  <2>1. ~HasRaised(r)
    BY Inside DEF FlowInv
  <2> QED BY <1>1, <1>2, <2>1, RankTyped DEF HasRaised, Finished
<1> QED BY <1>2, <1>3, <1>4 DEF Expects, Ready
-----------------------------------------------------------------------------
(* A rank that leaves a call without its result, or enters it. *)

\* A rank that refuses leaves no mail behind; one that raises leaves its mail for good.
LEMMA EndBadly ==
    ASSUME FlowInv, NEW r \in Ranks, Moves(r), Typed', UNCHANGED program,
           NEW me, Going(r, me), NEW o \in {"refused", "raised"}, EndsWith(r, me, o),
           o = "refused" => \A m \in wire : m.to # r
    PROVE  FlowInv'
<1>1. /\ Typed /\ me.call \in 1 .. Calls /\ Len(Me(r).outcomes) = me.call - 1
      /\ Me(r).step = 0 => Me(r).mask = 1
      /\ \A x : ~Finished(r, me.call, x)
  BY GoingCounts
<1>2. /\ rank'[r].step = 0 /\ rank'[r].mask = 1 /\ rank'[r].call = me.call
      /\ rank'[r].outcomes = Append(Me(r).outcomes, o)
      /\ wire' \subseteq wire /\ posts' = posts
  BY DEF EndsWith, Going
<1>3. /\ \A k \in 1 .. Calls : Finished(r, k, "ok")' <=> Finished(r, k, "ok")
      /\ Finished(r, me.call, o)'
  <2>1. \A k \in 1 .. Calls : \A x :
           Finished(r, k, x)' <=> Finished(r, k, x) \/ (k = me.call /\ x = o)
    BY <1>1, <1>2, OutcomeAdded
  <2>2. "ok" # o
    OBVIOUS
  <2> QED BY <1>1, <2>1, <2>2
<1>4. ASSUME NEW s \in Ranks, NEW k \in 1 .. Calls, Feeds(s, r, k),
             Completed(r, k)' \/ (AtData(r, k)' /\ Taken(r, s, k)')
      PROVE  Sent(s, k)
  <2>1. DataStep(k)' \in 3 .. 4
    BY <1>1, CallsKept, DataShape
  <2>2. Finished(r, k, "ok")
    BY <1>2, <1>3, <1>4, <2>1 DEF Completed, AtData, Me
  <2> QED BY <1>4, <2>2 DEF FlowInv, SuppliedTo, Completed
<1>5. Keeps(r)
  <2>1. Me(r).mask = 0 /\ rank'[r].step = Me(r).step => rank'[r].mask = 0
    BY <1>1, <1>2
  <2>2. ASSUME NEW m \in wire, m.to = r PROVE Expects(r, m.from, m.call)'
    <3>1. Me(r).step > 0 /\ Me(r).call = m.call
      BY <2>2, Mail DEF Going
    <3>2. m.call = me.call
      BY <3>1 DEF Going
    <3>3. o = "raised"
      BY <2>2
    <3> QED BY <1>3, <3>2, <3>3 DEF Expects
  <2> QED BY <1>2, <1>4, <2>1, <2>2 DEF Keeps
<1>6. Carries(r)'
  BY <1>2 DEF Carries, Me
<1>7. Shipped(r)'
  BY <1>2, CallsKept DEF Shipped, FlowInv
<1>8. Delivered(r)'
  BY <1>1, <1>2, <1>3 DEF Delivered, Me
<1> QED BY <1>5, <1>6, <1>7, <1>8, FlowKept

\* Nothing changes in the finished calls of a rank that enters a step.
LEMMA EnterFrame ==
    ASSUME FlowInv, NEW r \in Ranks, UNCHANGED program,
           NEW me, Going(r, me), EntersWith(r, me)
    PROVE  /\ \A k, o : Finished(r, k, o)' <=> Finished(r, k, o)
           /\ rank'[r].step = me.step + 1 /\ rank'[r].step > 0 /\ rank'[r].step # Me(r).step
           /\ rank'[r].call = me.call
           /\ Delivered(r)'
           /\ \A s \in Ranks, k \in 1 .. Calls :
                 Feeds(s, r, k) /\ Completed(r, k)' =>
                    Sent(s, k) \/ (k = me.call /\ me.step + 1 > DataStep(k))
<1>1. Typed /\ me.call \in 1 .. Calls /\ me.step \in 0 .. 4
  BY GoingCounts
<1>2. /\ rank'[r].step = me.step + 1 /\ rank'[r].call = me.call
      /\ rank'[r].outcomes = Me(r).outcomes /\ me.step = Me(r).step
  BY DEF EntersWith, Going
<1>3. rank'[r].step > 0 /\ rank'[r].step # Me(r).step
  BY <1>1, <1>2
<1>4. \A k, o : Finished(r, k, o)' <=> Finished(r, k, o)
  BY <1>2 DEF Finished, Me
<1>5. Delivered(r)'
  BY <1>3 DEF Delivered, Me
<1>6. ASSUME NEW s \in Ranks, NEW k \in 1 .. Calls, Feeds(s, r, k), Completed(r, k)'
      PROVE  Sent(s, k) \/ (k = me.call /\ me.step + 1 > DataStep(k))
  <2>1. CASE Finished(r, k, "ok")'
    BY <1>4, <1>6, <2>1 DEF FlowInv, SuppliedTo, Completed
  <2>2. CASE ~Finished(r, k, "ok")'
    <3>1. Me(r)'.call = k /\ Me(r)'.step > DataStep(k)'
      BY <1>6, <2>2 DEF Completed
    <3> QED BY <1>2, <3>1, CallsKept DEF Me
  <2> QED BY <2>1, <2>2
<1> QED BY <1>2, <1>3, <1>4, <1>5, <1>6

\* What a rank posts before and in a call does not show a sum of all_reduce.
LEMMA EnterPosts ==
    ASSUME FlowInv, NEW r \in Ranks, UNCHANGED program,
           NEW me, Going(r, me), EntersWith(r, me),
           KindOf(me.call) = "all_reduce" /\ me.step = 3 /\ r = RootOf(me.call) => me.sum = Ones
    PROVE  Shipped(r)'
<1>1. Typed /\ me.call \in 1 .. Calls /\ me.step \in 0 .. 4 /\ me \in Controls
  BY GoingCounts DEF Going
<1> DEFINE k == me.call
<1> DEFINE i == me.step + 1
<1> DEFINE x == [call |-> k, step |-> i, item |-> Item(r, me, StepName(k, i))]
<1>2. Shipped(r)
  BY DEF FlowInv
<1>3. CASE Silent(k, i)
  BY <1>2, <1>3, CallsKept DEF Shipped, EntersWith
<1>4. CASE ~Silent(k, i)
  <2>1. posts' = [posts EXCEPT ![r] = Append(@, x)] /\ i <= LastStep(k)
    BY <1>4 DEF EntersWith
  <2>2. i \in 1 .. LastStep(k) /\ LastStep(k) \in 2 .. 4 /\ i \in 1 .. 4
    BY <1>1, <2>1, CallShape
  <2>3. x.call = k /\ x.step = i /\ x.item = Item(r, me, StepName(k, i))
    OBVIOUS
  <2> HIDE DEF x
  <2>4. ASSUME KindOf(k) = "all_reduce", x.step = 4, r = RootOf(k) PROVE x.item = Ones
    <3>1. HasData(k) /\ LastStep(k) = 4 /\ DataStep(k) = 3 /\ i = 4
      BY <1>1, <2>3, <2>4, DataShape DEF HasData
    <3>2. ~Judges(k, i)
      BY <1>1, <2>2, <3>1, DataShape
    <3>3. Item(r, me, StepName(k, i)) = me.sum
      BY <3>2 DEF Item, Judges
    <3>4. me.step = 3
      BY <1>1, <3>1
    <3> QED BY <2>3, <2>4, <3>3, <3>4
  <2>5. posts[r] \in Seq(Posts) /\ posts'[r] = Append(posts[r], x)
    BY <1>1, <2>1, RankTyped DEF Typed
  <2>6. /\ Len(posts'[r]) = Len(posts[r]) + 1 /\ Len(posts[r]) \in Nat
        /\ \A n \in 1 .. Len(posts[r]) : posts'[r][n] = posts[r][n]
        /\ posts'[r][Len(posts[r]) + 1] = x
    BY <2>5
  <2>7. ASSUME NEW n \in 1 .. Len(posts'[r]), KindOf(posts'[r][n].call) = "all_reduce",
               posts'[r][n].step = 4, r = RootOf(posts'[r][n].call)
        PROVE  posts'[r][n].item = Ones
    <3>1. CASE n \in 1 .. Len(posts[r])
      BY <1>2, <2>6, <2>7, <3>1 DEF Shipped
    <3>2. CASE n = Len(posts[r]) + 1
      BY <2>3, <2>4, <2>6, <2>7, <3>2
    <3> QED BY <2>6, <3>1, <3>2
  <2> QED BY <2>7, CallsKept DEF Shipped
<1> QED BY <1>3, <1>4

LEMMA NoPieces ==
    ASSUME NEW r, NEW k, NEW name, name # "pieces"
    PROVE  Sends(r, k, name) = {}
BY DEF Sends

\* A rank goes on before the messages of its call.
LEMMA EnterBefore ==
    ASSUME FlowInv, NEW r \in Ranks, Moves(r), Typed', UNCHANGED program,
           NEW me, Going(r, me), EntersWith(r, me), Unused(r, me),
           ~HasData(me.call) \/ me.step + 1 < DataStep(me.call)
    PROVE  FlowInv'
<1> DEFINE k == me.call
<1> DEFINE i == me.step + 1
<1>1. Typed /\ k \in 1 .. Calls /\ me.step \in 0 .. 4 /\ me.step <= LastStep(k)
  BY GoingCounts
<1>2. /\ i \in 1 .. LastStep(k) /\ LastStep(k) \in 2 .. 4 /\ DataStep(k) \in 3 .. 4
      /\ rank'[r].got = me.got /\ rank'[r].sum = me.sum /\ rank'[r].mask = me.mask
      /\ rank'[r].call = k /\ rank'[r].step = i
      /\ wire' = wire \cup Sends(r, k, StepName(k, i))
  BY <1>1, CallShape, DataShape DEF EntersWith
<1>3. StepName(k, i) # "pieces"
  <2>1. Silent(k, i) => HasData(k) /\ i = DataStep(k)
    BY <1>1, <1>2, DataShape
  <2> QED BY <1>2, <2>1 DEF Silent
<1>4. wire' = wire
  BY <1>2, <1>3, NoPieces
<1>5. /\ Delivered(r)' /\ rank'[r].step # Me(r).step
      /\ \A s \in Ranks, c \in 1 .. Calls :
            Feeds(s, r, c) /\ Completed(r, c)' => Sent(s, c) \/ (c = k /\ i > DataStep(c))
  BY EnterFrame
<1>6. Shipped(r)'
  <2>1. KindOf(k) = "all_reduce" => HasData(k) /\ DataStep(k) = 3
    BY <1>1, DataShape DEF HasData
  <2>2. ~(KindOf(k) = "all_reduce" /\ me.step = 3)
    BY <1>1, <2>1
  <2> QED BY <2>2, EnterPosts
<1>7. \A c \in 1 .. Calls : ~AtData(r, c)'
  <2> SUFFICES ASSUME NEW c \in 1 .. Calls, AtData(r, c)' PROVE FALSE
    OBVIOUS
  <2>1. c = k /\ HasData(c) /\ i = DataStep(c)
    BY <1>2, CallsKept DEF AtData, Me
  <2> QED BY <1>1, <1>2, <2>1
<1>8. ASSUME NEW m \in wire, m.to = r PROVE Expects(r, m.from, m.call)'
  <2>1. /\ Me(r).step > 0 /\ Me(r).call = m.call /\ Cleared(r, m.call) /\ HasData(m.call)
        /\ m.call \in 1 .. Calls
    BY <1>8, Mail DEF Going
  <2>2. m.call = k
    BY <2>1 DEF Going
  <2>3. PostsKept
    BY MoveKept DEF FlowInv
  <2>4. Cleared(r, k)'
    BY <1>1, <2>1, <2>2, <2>3, ClearedKept
  <2>5. DataStep(k)' = DataStep(k)
    BY CallsKept
  <2> QED BY <1>2, <2>1, <2>2, <2>4, <2>5 DEF Expects, Ready, Me
<1>9. ASSUME NEW s \in Ranks, NEW c \in 1 .. Calls, Feeds(s, r, c),
             Completed(r, c)' \/ (AtData(r, c)' /\ Taken(r, s, c)')
      PROVE  Sent(s, c)
  <2>1. HasData(c)
    BY <1>1, <1>9, FeedsApart
  <2>2. Sent(s, c) \/ (c = k /\ i > DataStep(c))
    BY <1>5, <1>7, <1>9
  <2> QED BY <1>2, <2>1, <2>2
<1>10. Keeps(r)
  BY <1>4, <1>5, <1>8, <1>9 DEF Keeps
<1>11. Carries(r)'
  <2>1. ~(HasData(k)' /\ i > DataStep(k)')
    BY <1>2, CallsKept
  <2>2. ~AtData(r, k)'
    BY <1>1, <1>7
  <2> QED BY <1>2, <2>1, <2>2, CallsKept DEF Carries, Unused, Me, Partial
<1> QED BY <1>5, <1>6, <1>10, <1>11, FlowKept
-----------------------------------------------------------------------------
(* A rank that enters or leaves the exchange of messages. *)

\* A rank that begins to exchange messages has taken none.
LEMMA UnusedWaits ==
    ASSUME Typed, UNCHANGED program, NEW k \in 1 .. Calls, NEW r \in Ranks, NEW s \in Ranks,
           Feeds(s, r, k), rank'[r].got = Kept(r, k), rank'[r].mask = 1
    PROVE  ~Taken(r, s, k)'
<1>1. /\ s # r /\ PlaceIn(s, k) \in Nat /\ PlaceIn(r, k) \in Nat
      /\ Scatters(k) => s = RootOf(k)
      /\ Reduces(k) => PlaceIn(s, k) > PlaceIn(r, k)
  BY FeedsApart, PlaceValue
<1>2. ~(Gathers(k) /\ \E p \in Kept(r, k) : p.position = s)
  BY <1>1 DEF Kept, Part, Gathers
<1>3. ~(Scatters(k) /\ Kept(r, k) # {})
  BY <1>1 DEF Kept
<1>4. ~(Reduces(k) /\ PlaceIn(s, k) - PlaceIn(r, k) < 1)
  BY <1>1
<1>5. Gathers(k)' = Gathers(k) /\ Scatters(k)' = Scatters(k) /\ Reduces(k)' = Reduces(k)
      /\ PlaceIn(s, k)' = PlaceIn(s, k) /\ PlaceIn(r, k)' = PlaceIn(r, k)
  BY CallsKept
<1> QED BY <1>2, <1>3, <1>4, <1>5 DEF Taken, Me

LEMMA LeafSubtree ==
    ASSUME Typed, NEW k \in 1 .. Calls, NEW r \in Ranks
    PROVE  Subtree(k, PlaceIn(r, k), 1) = Partial(r)
<1>1. \A c \in Ranks : /\ PlaceIn(c, k) \in Nat
                       /\ PlaceIn(c, k) = PlaceIn(r, k) <=> c = r
  BY PlaceValue
<1>2. PlaceIn(r, k) \in Nat
  BY PlaceValue
<1>3. \A c \in Ranks : PlaceIn(r, k) <= PlaceIn(c, k) /\ PlaceIn(c, k) < PlaceIn(r, k) + 1
                          <=> c = r
  BY <1>1, <1>2
<1> QED BY <1>3 DEF Subtree, Partial

LEMMA UnusedHeld ==
    ASSUME Typed, UNCHANGED program, NEW k \in 1 .. Calls, NEW r \in Ranks, HasData(k),
           rank'[r].got = Kept(r, k), rank'[r].sum = Partial(r), rank'[r].mask = 1
    PROVE  IF Reduces(k) THEN SubtreeHeld(r, k)' ELSE PiecesHeld(r, k)'
<1>1. CASE Reduces(k)
  <2>1. Kept(r, k) = {}
    BY <1>1 DEF Kept, Reduces, Gathers, Scatters
  <2>2. PlaceIn(r, k) \in Nat /\ PlaceIn(r, k) = PlaceIn(r, k) * 1
    BY PlaceValue
  <2>3. Partial(r) = Subtree(k, PlaceIn(r, k), 1)
    BY LeafSubtree
  <2>4. PlaceIn(r, k)' = PlaceIn(r, k) /\ \A l, z : Subtree(k, l, z)' = Subtree(k, l, z)
    BY CallsKept, SubtreesKept
  <2>5. PlaceIn(r, k)' \in Multiples(Me(r).mask)'
    <3>1. PlaceIn(r, k) \in {q * 1 : q \in Nat}
      BY <2>2
    <3>2. Me(r)'.mask = 1
      BY DEF Me
    <3>3. Multiples(Me(r).mask)' = {q * 1 : q \in Nat}
      BY <3>2 DEF Multiples
    <3>4. PlaceIn(r, k)' \in {q * 1 : q \in Nat}
      BY <2>4, <3>1
    <3> QED BY <3>3, <3>4
  <2>6. (Me(r).sum = Subtree(k, PlaceIn(r, k), Me(r).mask))'
    BY <2>3, <2>4 DEF Me
  <2>7. SubtreeHeld(r, k)'
    BY <2>1, <2>5, <2>6, PhaseOne DEF SubtreeHeld, Me
  <2> QED BY <1>1, <2>7
<1>2. CASE ~Reduces(k)
  <2>1. Kept(r, k)' = Kept(r, k) /\ RootOf(k)' = RootOf(k)
        /\ Gathers(k)' = Gathers(k) /\ Scatters(k)' = Scatters(k)
    BY CallsKept
  <2>2. Gathers(k) => /\ Kept(r, k) \subseteq {Part(s, s, k) : s \in Ranks}
                      /\ r # RootOf(k) => Kept(r, k) = {}
    BY DEF Kept, Gathers
  <2>3. Scatters(k) => Kept(r, k) \subseteq {Part(r, RootOf(k), k)}
    BY DEF Kept, Scatters
  <2>4. PiecesHeld(r, k)'
    BY <2>1, <2>2, <2>3 DEF PiecesHeld, Me
  <2> QED BY <1>2, <2>4
<1> QED BY <1>1, <1>2

\* A rank enters the exchange: what it sends reaches ranks that wait for it.
LEMMA EnterData ==
    ASSUME FlowInv, NEW r \in Ranks, Moves(r), Typed', UNCHANGED program,
           NEW me, Going(r, me), EntersWith(r, me), Unused(r, me),
           HasData(me.call), me.step + 1 = DataStep(me.call),
           Me(r).step > 0, Passed(r, Len(posts[r]))
    PROVE  FlowInv'
<1> DEFINE k == me.call
<1> DEFINE i == me.step + 1
<1>1. Typed /\ k \in 1 .. Calls /\ me.step \in 0 .. 4 /\ me.step <= LastStep(k) /\ MeetInv
  BY GoingCounts DEF FlowInv
<1>2. /\ i \in 1 .. LastStep(k) /\ LastStep(k) \in 2 .. 4 /\ DataStep(k) \in 3 .. 4
      /\ rank'[r].got = Kept(r, k) /\ rank'[r].sum = Partial(r) /\ rank'[r].mask = 1
      /\ rank'[r].call = k /\ rank'[r].step = i
      /\ wire' = wire \cup Sends(r, k, StepName(k, i))
  BY <1>1, CallShape, DataShape DEF EntersWith, Unused
<1>3. Me(r).call = k /\ Me(r).step = me.step
  BY DEF Going
<1>4. PostsKept /\ \A s \in Ranks \ {r} : rank'[s] = rank[s] /\ posts'[s] = posts[s]
  BY <1>1, MoveKept
<1>5. /\ Delivered(r)' /\ rank'[r].step # Me(r).step
      /\ \A s \in Ranks, c \in 1 .. Calls :
            Feeds(s, r, c) /\ Completed(r, c)' => Sent(s, c) \/ (c = k /\ i > DataStep(c))
  BY EnterFrame
<1>6. Shipped(r)'
  <2>1. KindOf(k) = "all_reduce" => DataStep(k) = 3
    BY <1>1, DataShape
  <2>2. ~(KindOf(k) = "all_reduce" /\ me.step = 3)
    BY <1>1, <2>1
  <2> QED BY <2>2, EnterPosts
<1>7. Cleared(r, k)
  <2>1. Me(r).step >= DataStep(Me(r).call) - 1
    BY <1>1, <1>2, <1>3
  <2> QED BY <1>1, <1>3, <2>1, ClearedHere
<1>8. Cleared(r, k)'
  BY <1>1, <1>4, <1>7, ClearedKept
<1>9. AtData(r, k)' /\ HasData(k)' /\ DataStep(k)' = DataStep(k)
  BY <1>2, CallsKept DEF AtData, Me
<1>10. ~Sent(r, k)
  <2>1. Me(r).step # 0 /\ Me(r).step < DataStep(k) /\ Me(r).step \in 0 .. 4
    BY <1>1, <1>2, <1>3
  <2>2. k \in Int
    BY <1>1
  <2> QED BY <1>2, <1>3, <2>1, <2>2 DEF Sent, AtData
<1>11. ASSUME NEW s \in Ranks, Feeds(s, r, k) PROVE ~Taken(r, s, k)'
  BY <1>1, <1>2, <1>11, UnusedWaits
<1>12. ASSUME NEW m \in wire, m.to = r PROVE Expects(r, m.from, m.call)'
  <2>1. /\ m.call = k /\ m.from \in Ranks /\ Feeds(m.from, r, k)
    BY <1>3, <1>12, Mail
  <2>2. ~Taken(r, m.from, k)'
    BY <1>11, <2>1
  <2> QED BY <1>2, <1>8, <1>9, <2>1, <2>2 DEF Expects, Ready, Me
<1>13. ASSUME NEW s \in Ranks, NEW c \in 1 .. Calls, Feeds(s, r, c),
              Completed(r, c)' \/ (AtData(r, c)' /\ Taken(r, s, c)')
       PROVE  Sent(s, c)
  <2>1. AtData(r, c)' => c = k
    BY <1>2 DEF AtData, Me
  <2>2. Sent(s, c) \/ (c = k /\ i > DataStep(c))
    BY <1>5, <1>11, <1>13, <2>1
  <2> QED BY <1>2, <2>2
<1>14. ASSUME NEW m \in wire', m \notin wire PROVE Travels(m)'
  <2>1. m \in Sends(r, k, StepName(k, i))
    BY <1>2, <1>14
  <2>2. StepName(k, i) = "pieces"
    BY <2>1, NoPieces
  <2>3. (Scatters(k) \/ Gathers(k)) /\ ~(Scatters(k) /\ Gathers(k))
    BY <1>1, <1>2, <2>2, DataShape
  <2>4. ~Reduces(k)
    BY <1>1, <2>3, DataShape
  <2>5. RootOf(k) \in Ranks
    BY <1>1, CallShape
  <2>6. /\ m.from = r /\ m.call = k /\ m.sum = Partial(r) /\ m.to \in Ranks
        /\ Gathers(k) => r # RootOf(k) /\ m.to = RootOf(k) /\ m.position = r
        /\ Scatters(k) => r = RootOf(k) /\ m.to # r /\ m.position = m.to
    <3>1. CASE Gathers(k)
      BY <2>1, <2>2, <2>3, <2>5, <3>1 DEF Sends, Gathers
    <3>2. CASE Scatters(k)
      BY <2>1, <2>2, <2>3, <2>5, <3>2 DEF Sends, Gathers
    <3> QED BY <2>3, <3>1, <3>2
  <2>7. Feeds(r, m.to, k) /\ m.to # r
    BY <2>3, <2>6 DEF Feeds
  <2>8. Expects(m.to, r, k)
    BY <1>1, <1>3, <1>7, <1>10, <2>6, <2>7, SendReaches
  <2>9. Expects(m.to, r, k)'
    BY <1>1, <1>4, <2>6, <2>7, <2>8, ExpectsKept
  <2>10. Sent(r, k)' /\ Feeds(r, m.to, k)'
    BY <1>9, <2>4, <2>7, CallsKept DEF Sent
  <2>11. Payload(m)'
    BY <2>3, <2>4, <2>6, CallsKept DEF Payload
  <2> QED BY <1>1, <2>6, <2>9, <2>10, <2>11 DEF Travels
<1>15. Keeps(r)
  BY <1>5, <1>12, <1>13, <1>14 DEF Keeps
<1>16. Carries(r)'
  <2>1. IF Reduces(k)' THEN SubtreeHeld(r, k)' ELSE PiecesHeld(r, k)'
    BY <1>1, <1>2, UnusedHeld, CallsKept
  <2>2. Me(r)'.call = k /\ Me(r)'.step = i /\ i # 0 /\ ~(i < DataStep(k)) /\ ~(i > DataStep(k))
    BY <1>2 DEF Me
  <2> QED BY <1>9, <2>1, <2>2 DEF Carries
<1> QED BY <1>5, <1>6, <1>15, <1>16, FlowKept

\* Rank r has taken all that it is to receive in call k.
Served(r, k) == \A s \in Ranks : Feeds(s, r, k) => Taken(r, s, k)

LEMMA ServedSupplied ==
    ASSUME FlowInv, NEW r \in Ranks, Me(r).step > 0, HasData(Me(r).call),
           \/ Me(r).step = DataStep(Me(r).call) /\ Served(r, Me(r).call)
           \/ Me(r).step > DataStep(Me(r).call)
    PROVE  /\ \A m \in wire : m.to # r
           /\ \A s \in Ranks : Feeds(s, r, Me(r).call) => Sent(s, Me(r).call)
<1> DEFINE k == Me(r).call
<1>1. Typed /\ SuppliedTo(r) /\ k \in 1 .. Calls /\ Me(r).step \in 0 .. 4
  BY RankTyped DEF FlowInv, MeetInv
<1>2. DataStep(k) \in 3 .. 4
  BY <1>1, DataShape
<1>3. ASSUME NEW m \in wire, m.to = r PROVE FALSE
  <2>1. /\ m.call = k /\ Feeds(m.from, r, k) /\ m.from \in Ranks /\ Me(r).step <= DataStep(k)
        /\ Me(r).step = DataStep(k) => ~Taken(r, m.from, k)
    BY <1>3, Mail
  <2> QED BY <1>1, <1>2, <2>1 DEF Served
<1>4. ASSUME NEW s \in Ranks, Feeds(s, r, k) PROVE Sent(s, k)
  <2>1. CASE Me(r).step > DataStep(k)
    BY <1>1, <1>4, <2>1 DEF SuppliedTo, Completed
  <2>2. CASE Me(r).step = DataStep(k) /\ Served(r, k)
    BY <1>1, <1>4, <2>2 DEF SuppliedTo, AtData, Served
  <2> QED BY <2>1, <2>2
<1> QED BY <1>3, <1>4

\* A rank goes on from the exchange, in an all_reduce.
LEMMA EnterAfter ==
    ASSUME FlowInv, NEW r \in Ranks, Moves(r), Typed', UNCHANGED program,
           NEW me, Going(r, me), EntersWith(r, me), Me(r).step > 0,
           HasData(me.call), Me(r).step = DataStep(me.call), Served(r, me.call),
           me.got = {}, me.mask = 1, r = RootOf(me.call) => me.sum = Ones
    PROVE  FlowInv'
<1> DEFINE k == me.call
<1> DEFINE i == me.step + 1
<1>1. /\ Typed /\ k \in 1 .. Calls /\ me.step \in 0 .. 4 /\ me.step <= LastStep(k)
      /\ Me(r).call = k /\ Me(r).step = me.step
  BY GoingCounts DEF Going
<1>2. /\ i \in 1 .. LastStep(k) /\ i = DataStep(k) + 1 /\ DataStep(k) \in 3 .. 4
      /\ rank'[r].got = me.got /\ rank'[r].sum = me.sum /\ rank'[r].mask = me.mask
      /\ rank'[r].call = k /\ rank'[r].step = i
      /\ wire' = wire \cup Sends(r, k, StepName(k, i))
  <2>1. LastStep(k) \in 2 .. 4 /\ DataStep(k) \in 3 .. 4
    BY <1>1, DataShape
  <2>2. me.step = DataStep(k) /\ i <= LastStep(k)
    BY <1>1 DEF EntersWith
  <2>3. i \in 1 .. LastStep(k) /\ i = DataStep(k) + 1
    BY <2>1, <2>2
  <2> QED BY <2>1, <2>3 DEF EntersWith
<1>3. StepName(k, i) # "pieces"
  <2>1. Silent(k, i) => i = DataStep(k)
    BY <1>1, <1>2, DataShape
  <2> QED BY <1>1, <1>2, <2>1 DEF Silent
<1>4. wire' = wire
  BY <1>2, <1>3, NoPieces
<1>5. /\ Delivered(r)' /\ rank'[r].step # Me(r).step
      /\ \A s \in Ranks, c \in 1 .. Calls :
            Feeds(s, r, c) /\ Completed(r, c)' => Sent(s, c) \/ (c = k /\ i > DataStep(c))
  BY EnterFrame
<1>6. Shipped(r)'
  BY EnterPosts
<1>7. /\ \A m \in wire : m.to # r
      /\ \A s \in Ranks : Feeds(s, r, k) => Sent(s, k)
  BY <1>1, ServedSupplied
<1>8. \A c \in 1 .. Calls : ~AtData(r, c)'
  <2> SUFFICES ASSUME NEW c \in 1 .. Calls, AtData(r, c)' PROVE FALSE
    OBVIOUS
  <2>1. c = k /\ i = DataStep(c)
    BY <1>2, CallsKept DEF AtData, Me
  <2> QED BY <1>2, <2>1
<1>9. \A s \in Ranks, c \in 1 .. Calls :
         Feeds(s, r, c) /\ (Completed(r, c)' \/ (AtData(r, c)' /\ Taken(r, s, c)')) => Sent(s, c)
  BY <1>5, <1>7, <1>8
<1>10. Keeps(r)
  BY <1>4, <1>5, <1>7, <1>9 DEF Keeps
<1>11. Carries(r)'
  <2>1. ~(i < DataStep(k))
    BY <1>2
  <2>2. HasData(k)' = HasData(k) /\ DataStep(k)' = DataStep(k) /\ RootOf(k)' = RootOf(k)
    BY CallsKept
  <2>3. ~AtData(r, k)'
    BY <1>1, <1>8
  <2>4. Me(r)'.call = k /\ Me(r)'.step = i /\ i # 0
    BY <1>2 DEF Me
  <2> QED BY <1>2, <2>1, <2>3, <2>4, <2>2 DEF Carries, Me, Ones
<1> QED BY <1>5, <1>6, <1>10, <1>11, FlowKept

\* A rank returns from a call with its result.
LEMMA EndWell ==
    ASSUME FlowInv, NEW r \in Ranks, Moves(r), Typed', UNCHANGED program,
           NEW me, Going(r, me), EndsWith(r, me, "ok"), Me(r).step > 0,
           HasData(me.call) => \/ Me(r).step = DataStep(me.call) /\ Served(r, me.call)
                               \/ Me(r).step > DataStep(me.call),
           me.got = ExpectedParts(r, me.call),
           Reduces(me.call) /\ ExpectedSum(r, me.call) => me.sum = Ones
    PROVE  FlowInv'
<1> DEFINE k == me.call
<1>1. /\ Typed /\ k \in 1 .. Calls /\ Len(Me(r).outcomes) = k - 1 /\ Me(r).call = k
  BY GoingCounts DEF Going
<1>2. /\ rank'[r].step = 0 /\ rank'[r].mask = 1 /\ rank'[r].call = k
      /\ rank'[r].got = me.got /\ rank'[r].sum = me.sum
      /\ rank'[r].outcomes = Append(Me(r).outcomes, "ok")
      /\ wire' \subseteq wire /\ posts' = posts
  BY DEF EndsWith, Going
<1>3. \A c \in 1 .. Calls : Finished(r, c, "ok")' <=> Finished(r, c, "ok") \/ c = k
  BY <1>1, <1>2, OutcomeAdded
<1>4. ASSUME NEW m \in wire, m.to = r PROVE FALSE
  <2>1. HasData(m.call) /\ m.call = k
    BY <1>1, <1>4, Mail
  <2> QED BY <1>1, <1>4, <2>1, ServedSupplied
<1>5. ASSUME NEW s \in Ranks, NEW c \in 1 .. Calls, Feeds(s, r, c),
             Completed(r, c)' \/ (AtData(r, c)' /\ Taken(r, s, c)')
      PROVE  Sent(s, c)
  <2>1. DataStep(c)' \in 3 .. 4
    BY <1>1, CallsKept, DataShape
  <2>2. Finished(r, c, "ok") \/ c = k
    BY <1>2, <1>3, <1>5, <2>1 DEF Completed, AtData, Me
  <2>3. CASE Finished(r, c, "ok")
    BY <1>5, <2>3 DEF FlowInv, SuppliedTo, Completed
  <2>4. CASE c = k
    <3>1. HasData(k)
      BY <1>1, <1>5, <2>4, FeedsApart
    <3> QED BY <1>1, <1>5, <2>4, <3>1, ServedSupplied
  <2> QED BY <2>2, <2>3, <2>4
<1>6. Keeps(r)
  <2>1. Me(r).mask = 0 /\ rank'[r].step = Me(r).step => rank'[r].mask = 0
    BY <1>2
  <2> QED BY <1>2, <1>4, <1>5, <2>1 DEF Keeps
<1>7. Carries(r)'
  BY <1>2 DEF Carries, Me
<1>8. Shipped(r)'
  BY <1>2, CallsKept DEF Shipped, FlowInv
<1>9. Delivered(r)'
  <2>1. Me(r)'.call = k /\ Me(r)'.got = me.got /\ Me(r)'.sum = me.sum
    BY <1>2 DEF Me
  <2> QED BY <2>1, CallsKept DEF Delivered, Ones
<1> QED BY <1>6, <1>7, <1>8, <1>9, FlowKept
-----------------------------------------------------------------------------
(* The actions before the exchange of messages, and of calls without one. *)

LEMMA GoOnBefore ==
    ASSUME FlowInv, NEW r \in Ranks, Moves(r), Typed', UNCHANGED program,
           NEW me, Going(r, me), Unused(r, me), Proceed(r, me, wire),
           me.step < LastStep(me.call),
           HasData(me.call) => me.step < DataStep(me.call),
           Me(r).step > 0 => Passed(r, Len(posts[r]))
    PROVE  FlowInv'
<1> DEFINE k == me.call
<1> DEFINE i == me.step + 1
<1>1. /\ Typed /\ k \in 1 .. Calls /\ me.step \in 0 .. 4 /\ me.step <= LastStep(k)
      /\ MeetInv /\ me \in Controls
  BY GoingCounts DEF Going, FlowInv
<1>2. LastStep(k) \in 2 .. 4 /\ DataStep(k) \in 3 .. 4
  BY <1>1, DataShape
<1>3. i \in 1 .. LastStep(k)
  BY <1>1, <1>2
<1>4. CASE EndsWith(r, me, "raised")
  BY <1>4, EndBadly
<1>5. CASE EntersWith(r, me)
  <2>1. CASE ~HasData(k) \/ i < DataStep(k)
    BY <1>5, <2>1, EnterBefore
  <2>2. CASE HasData(k) /\ ~(i < DataStep(k))
    <3>1. i = DataStep(k)
      BY <1>1, <1>2, <2>2
    <3>2. Me(r).step > 0
      <4>1. me.step = Me(r).step
        BY DEF Going
      <4> QED BY <1>1, <1>2, <3>1, <4>1
    <3> QED BY <1>5, <2>2, <3>1, <3>2, EnterData
  <2> QED BY <2>1, <2>2
<1> QED BY <1>1, <1>4, <1>5, ProceedData

\* A rank in a call, as it is.
LEMMA GoingHere ==
    ASSUME FlowInv, NEW r \in Ranks, Me(r).step > 0
    PROVE  /\ Going(r, Me(r))
           /\ ~HasData(Me(r).call) \/ Me(r).step < DataStep(Me(r).call) => Unused(r, Me(r))
<1>1. Typed /\ Carries(r) /\ ~HasRaised(r)
  BY Inside DEF FlowInv, MeetInv
<1> QED BY <1>1, RankTyped DEF Carries, Going, Unused

LEMMA GoingOn ==
    ASSUME FlowInv, NEW r \in Ranks, Me(r).step > 0, NEW me, SamePlace(r, me)
    PROVE  Going(r, me) /\ me \in Controls /\ me.call = Me(r).call /\ me.step = Me(r).step
<1>1. Typed /\ ~HasRaised(r)
  BY Inside DEF FlowInv, MeetInv
<1> QED BY <1>1, RankTyped DEF SamePlace, Going

LEMMA StartFlow ==
    ASSUME FlowInv, NEW r \in Ranks, Start(r)
    PROVE  FlowInv'
<1>1. MeetInv /\ Typed
  BY DEF FlowInv, MeetInv
<1>2. Typed' /\ Moves(r) /\ UNCHANGED program
  BY <1>1, ActionMoves
<1>3. PICK a \in Faults \cup {"good"} : Proceed(r, Fresh(r, a), wire)
  BY DEF Start
<1> DEFINE me == Fresh(r, a)
<1>4. Going(r, me) /\ Unused(r, me) /\ Me(r).step = 0
  BY FreshUnused DEF Start
<1>5. me.step = 0 /\ me.call \in 1 .. Calls
  BY <1>4 DEF Going
<1> HIDE DEF me
<1>6. LastStep(me.call) \in 2 .. 4 /\ DataStep(me.call) \in 3 .. 4
  BY <1>1, <1>5, DataShape
<1>7. me.step < LastStep(me.call) /\ me.step < DataStep(me.call)
  BY <1>5, <1>6
<1>8. Proceed(r, me, wire)
  BY <1>3 DEF me
<1>9. Me(r).step > 0 => Passed(r, Len(posts[r]))
  BY <1>4
<1> QED BY <1>2, <1>4, <1>7, <1>8, <1>9, GoOnBefore

\* A rank that leaves a call without having sent or received.
LEMMA EndedData ==
    ASSUME NEW r \in Ranks, Typed, NEW me \in Controls, NEW o \in Outcomes,
           rank' = [rank EXCEPT ![r] = Ended(me, o)], UNCHANGED posts, wire' \subseteq wire
    PROVE  EndsWith(r, me, o)
<1> DEFINE new == Ended(me, o)
<1>1. /\ new.call = me.call /\ new.step = 0 /\ new.outcomes = Append(me.outcomes, o)
      /\ new.got = me.got /\ new.sum = me.sum /\ new.mask = 1
  BY EndedControl
<1>2. rank'[r] = new
  BY DEF Typed
<1> HIDE DEF new
<1> QED BY <1>1, <1>2 DEF EndsWith

LEMMA RaiseFlow ==
    ASSUME FlowInv, NEW r \in Ranks, RaiseTypeError(r)
    PROVE  FlowInv'
<1>1. MeetInv /\ Typed
  BY DEF FlowInv, MeetInv
<1>2. Typed' /\ Moves(r) /\ UNCHANGED program
  BY <1>1, ActionMoves
<1> DEFINE me == Fresh(r, "wrong_type")
<1>3. Going(r, me) /\ Me(r).step = 0
  BY FreshUnused DEF RaiseTypeError
<1>4. rank' = [rank EXCEPT ![r] = Ended(me, "raised")] /\ UNCHANGED <<posts, wire>>
  BY DEF RaiseTypeError
<1> HIDE DEF me
<1>5. me \in Controls
  BY <1>3 DEF Going
<1>6. EndsWith(r, me, "raised")
  BY <1>1, <1>4, <1>5, EndedData DEF Outcomes
<1> QED BY <1>2, <1>3, <1>6, EndBadly

\* A rank that raises inside its call.
LEMMA AloneFlow ==
    ASSUME FlowInv, NEW r \in Ranks, AllocationRaises(r) \/ AddRaises(r)
    PROVE  FlowInv'
<1>1. MeetInv /\ Typed
  BY DEF FlowInv, MeetInv
<1>2. Typed' /\ Moves(r) /\ UNCHANGED program
  BY <1>1, ActionMoves
<1>3. /\ Me(r).step > 0 /\ UNCHANGED posts /\ wire' \subseteq wire
      /\ rank' = [rank EXCEPT ![r] = Ended(Me(r), "raised")]
  BY <1>1, RaisingRank
<1>4. Going(r, Me(r)) /\ Me(r) \in Controls
  BY <1>1, <1>3, GoingHere, RankTyped
<1>5. EndsWith(r, Me(r), "raised")
  BY <1>1, <1>3, <1>4, EndedData DEF Outcomes
<1> QED BY <1>2, <1>4, <1>5, EndBadly

LEMMA VerdictFlow ==
    ASSUME FlowInv, NEW r \in Ranks, CollectArgumentErrors(r) \/ CheckIdenticalLayout(r)
    PROVE  FlowInv'
<1>1. MeetInv /\ Typed
  BY DEF FlowInv, MeetInv
<1>2. Typed' /\ Moves(r) /\ UNCHANGED program
  BY <1>1, ActionMoves DEF Advance
<1> DEFINE k == Me(r).call
<1> DEFINE i == Me(r).step
<1>3. /\ i > 0 /\ Judges(k, i)
      /\ \/ Refuse(r) /\ Refused(r, Len(posts[r]))
         \/ Proceed(r, Me(r), wire) /\ Passed(r, Len(posts[r]))
  BY <1>1, Verdict
<1>4. k \in 1 .. Calls /\ i \in 1 .. LastStep(k) /\ Going(r, Me(r)) /\ Me(r) \in Controls
  BY <1>1, <1>3, RankTyped, GoingHere
<1>5. CASE Refuse(r) /\ Refused(r, Len(posts[r]))
  <2>1. EndsWith(r, Me(r), "refused")
    BY <1>1, <1>4, <1>5, EndedData DEF Refuse, Outcomes, Me
  <2>2. ASSUME NEW m \in wire, m.to = r PROVE FALSE
    <3>1. Cleared(r, k)
      BY <1>3, <2>2, Mail
    <3>2. Len(posts[r]) \in 1 .. Len(posts[r]) /\ posts[r][Len(posts[r])].call = k
      BY <1>1, <1>3, LastPost
    <3>3. Passed(r, Len(posts[r]))
      BY <1>1, <1>3, <3>1, <3>2, ClearedPasses
    <3> QED BY <1>5, <3>3, VerdictsAgree DEF SameAt
  <2> QED BY <1>2, <1>4, <2>1, <2>2, EndBadly
<1>6. CASE Proceed(r, Me(r), wire) /\ Passed(r, Len(posts[r]))
  <2>1. i < LastStep(k) /\ (HasData(k) => i < DataStep(k))
    BY <1>1, <1>3, <1>4, DataShape
  <2>2. Unused(r, Me(r))
    BY <1>3, <2>1, GoingHere
  <2> QED BY <1>2, <1>4, <1>6, <2>1, <2>2, GoOnBefore
<1> QED BY <1>3, <1>5, <1>6

LEMMA DescriptorFlow ==
    ASSUME FlowInv, NEW r \in Ranks, BroadcastDescriptor(r)
    PROVE  FlowInv'
<1>1. MeetInv /\ Typed
  BY DEF FlowInv, MeetInv
<1>2. Typed' /\ Moves(r) /\ UNCHANGED program
  BY <1>1, ActionMoves DEF Advance
<1> DEFINE k == Me(r).call
<1> DEFINE i == Me(r).step
<1>3. /\ i > 0 /\ Passed(r, Len(posts[r])) /\ StepName(k, i) = "describe"
      /\ Proceed(r, Me(r), wire)
  BY <1>1, GoesOn DEF BroadcastDescriptor
<1>4. k \in 1 .. Calls /\ i \in 1 .. LastStep(k) /\ Going(r, Me(r))
  BY <1>1, <1>3, RankTyped, GoingHere
<1>5. i < LastStep(k) /\ (Scatters(k) \/ KindOf(k) = "broadcast")
  BY <1>1, <1>3, <1>4, DataShape
<1>6. HasData(k) => i < DataStep(k)
  <2>1. HasData(k) => Scatters(k)
    BY <1>5 DEF HasData, Scatters, Gathers, Reduces
  <2>2. Scatters(k) => LastStep(k) = DataStep(k)
    BY <1>1, <1>4, DataShape
  <2> QED BY <1>5, <2>1, <2>2
<1>7. Unused(r, Me(r))
  BY <1>3, <1>6, GoingHere
<1> QED BY <1>2, <1>3, <1>4, <1>5, <1>6, <1>7, GoOnBefore
-----------------------------------------------------------------------------
(* The last step of a call. *)

LEMMA ReturnFrom ==
    ASSUME FlowInv, NEW r \in Ranks, Moves(r), Typed', UNCHANGED program,
           NEW me, Going(r, me), Proceed(r, me, wire), Me(r).step > 0,
           me.step = LastStep(me.call),
           HasData(me.call) => \/ Me(r).step = DataStep(me.call) /\ Served(r, me.call)
                               \/ Me(r).step > DataStep(me.call),
           me.got = ExpectedParts(r, me.call),
           Reduces(me.call) /\ ExpectedSum(r, me.call) => me.sum = Ones
    PROVE  FlowInv'
<1>1. Typed /\ me.call \in 1 .. Calls /\ me \in Controls /\ LastStep(me.call) \in 2 .. 4
  BY GoingCounts, DataShape DEF Going
<1>2. /\ me.step <= LastStep(me.call)
      /\ ~(me.step < LastStep(me.call)) /\ ~(me.step + 1 <= LastStep(me.call))
  BY <1>1
<1>3. EndsWith(r, me, "ok")
  BY <1>1, <1>2, ProceedData DEF EntersWith
<1> QED BY <1>3, EndWell

LEMMA TensorFlow ==
    ASSUME FlowInv, NEW r \in Ranks, BroadcastTensor(r)
    PROVE  FlowInv'
<1> DEFINE k == Me(r).call
<1> DEFINE i == Me(r).step
<1> DEFINE source == RootOf(k)
<1> DEFINE sent == Met(source, r)
<1> DEFINE got == IF KindOf(sent.call) = "broadcast" THEN {Part(0, source, sent.call)}
                  ELSE Me(r).got
<1> DEFINE me == [Me(r) EXCEPT !.sum = sent.item, !.got = got]
<1>1. MeetInv /\ Typed
  BY DEF FlowInv, MeetInv
<1>2. Typed' /\ Moves(r) /\ UNCHANGED program
  BY <1>1, ActionMoves DEF Advance
<1>3. StepOf(r) = "tensors" /\ RootJoined(r) /\ KindOf(k) # "all_gather"
  BY DEF BroadcastTensor
<1>4. Proceed(r, me, wire)
  BY DEF BroadcastTensor
<1>5. i > 0 /\ StepName(k, i) = "tensors" /\ Me(r) \in Controls
  BY <1>1, <1>3, GoesOn
<1>6. k \in 1 .. Calls /\ i \in 1 .. LastStep(k) /\ source \in Ranks
  BY <1>1, <1>5, RankTyped, CallShape
<1>7. i = LastStep(k) /\ KindOf(k) \in {"broadcast", "all_reduce"}
  BY <1>1, <1>3, <1>5, <1>6, DataShape
<1>8. /\ sent.call = k /\ sent.step = i /\ sent.item \in Sums
      /\ Len(posts[r]) \in 1 .. Len(posts[source])
  BY <1>1, <1>3, <1>6, Meeting DEF RootJoined
<1>9. got \in SUBSET Parts
  <2>1. Me(r).got \in SUBSET Parts
    BY <1>5 DEF Controls
  <2>2. 0 \in Ranks
    BY WorldSizeAssumption DEF Ranks
  <2> QED BY <1>6, <1>8, <2>1, <2>2 DEF Part, Parts
<1>10. got = ExpectedParts(r, k)
  <2>1. CASE KindOf(k) = "broadcast"
    BY <1>8, <2>1 DEF ExpectedParts
  <2>2. CASE KindOf(k) = "all_reduce"
    <3>1. HasData(k) /\ i > DataStep(k)
      BY <1>1, <1>6, <1>7, <2>2, DataShape DEF HasData
    <3>2. Me(r).got = {}
      BY <1>5, <3>1 DEF FlowInv, Carries
    <3> QED BY <1>8, <2>2, <3>2 DEF ExpectedParts
  <2> QED BY <1>7, <2>1, <2>2
<1>11. Reduces(k) => sent.item = Ones
  <2> SUFFICES ASSUME Reduces(k) PROVE sent.item = Ones
    OBVIOUS
  <2>1. KindOf(k) = "all_reduce" /\ i = 4
    BY <1>1, <1>6, <1>7, DataShape DEF Reduces
  <2>2. Shipped(source)
    BY <1>6 DEF FlowInv
  <2> QED BY <1>8, <2>1, <2>2 DEF Shipped, Met
<1>12. HasData(k) => i > DataStep(k)
  <2> SUFFICES ASSUME HasData(k) PROVE i > DataStep(k)
    OBVIOUS
  <2>1. KindOf(k) = "all_reduce"
    BY <1>7 DEF HasData, Scatters, Gathers, Reduces
  <2> QED BY <1>1, <1>6, <1>7, <2>1, DataShape
<1> HIDE DEF got
<1>13. SamePlace(r, me)
  BY <1>1, <1>3, <1>8, <1>9, TensorControl
<1>14. me.got = got /\ me.sum = sent.item
  <2> DEFINE m1 == [Me(r) EXCEPT !.sum = sent.item]
  <2>1. m1 \in Controls /\ m1.sum = sent.item
    BY <1>5, <1>8 DEF Controls
  <2> QED BY <1>5, <1>8 DEF Controls
<1> HIDE DEF me
<1>15. /\ Going(r, me) /\ me.call = k /\ me.step = i
  BY <1>5, <1>6, <1>13, GoingOn
<1> QED BY <1>2, <1>4, <1>5, <1>7, <1>10, <1>11, <1>12, <1>14, <1>15, ReturnFrom

LEMMA AllGatherFlow ==
    ASSUME FlowInv, NEW r \in Ranks, AllGatherTensor(r)
    PROVE  FlowInv'
<1> DEFINE k == Me(r).call
<1> DEFINE i == Me(r).step
<1> DEFINE got == {Part(s, s, Met(s, r).call) : s \in Ranks}
<1> DEFINE me == [Me(r) EXCEPT !.got = got]
<1>1. MeetInv /\ Typed
  BY DEF FlowInv, MeetInv
<1>2. Typed' /\ Moves(r) /\ UNCHANGED program
  BY <1>1, ActionMoves DEF Advance
<1>3. StepOf(r) = "tensors" /\ EveryoneJoined(r) /\ KindOf(k) = "all_gather"
      /\ Proceed(r, me, wire)
  BY DEF AllGatherTensor
<1>4. i > 0 /\ StepName(k, i) = "tensors" /\ Me(r) \in Controls
  BY <1>1, <1>3, GoesOn
<1>5. k \in 1 .. Calls /\ i \in 1 .. LastStep(k)
  BY <1>1, <1>4, RankTyped
<1>6. i = LastStep(k) /\ ~HasData(k) /\ ~Reduces(k)
  BY <1>1, <1>3, <1>4, <1>5, DataShape DEF HasData, Scatters, Gathers, Reduces
<1>7. \A s \in Ranks : Met(s, r).call = k
  BY <1>1, <1>3, Meeting DEF EveryoneJoined
<1>8. got = ExpectedParts(r, k)
  BY <1>3, <1>7 DEF ExpectedParts
<1>9. got \in SUBSET Parts
  BY <1>5, <1>7 DEF Part, Parts
<1> HIDE DEF got
<1>10. SamePlace(r, me) /\ me.got = got
  BY <1>4, <1>9 DEF SamePlace, Controls
<1> HIDE DEF me
<1>11. Going(r, me) /\ me.call = k /\ me.step = i
  BY <1>4, <1>5, <1>10, GoingOn
<1> QED BY <1>2, <1>3, <1>4, <1>6, <1>8, <1>10, <1>11, ReturnFrom
-----------------------------------------------------------------------------
(* The end of the exchange of messages. *)

LEMMA PiecesServed ==
    ASSUME FlowInv, NEW r \in Ranks, StepOf(r) = "pieces", Awaited(r) = {}
    PROVE  /\ HasData(Me(r).call) /\ ~Reduces(Me(r).call)
           /\ Me(r).step = DataStep(Me(r).call) /\ Me(r).step = LastStep(Me(r).call)
           /\ Served(r, Me(r).call) /\ Me(r).got = ExpectedParts(r, Me(r).call)
           /\ Me(r).mask = 1
<1> DEFINE k == Me(r).call
<1>1. MeetInv /\ Typed /\ Carries(r)
  BY DEF FlowInv, MeetInv
<1>2. /\ Me(r).step > 0 /\ StepName(k, Me(r).step) = "pieces" /\ k \in 1 .. Calls
      /\ Me(r).step \in 1 .. LastStep(k)
  BY <1>1, GoesOn, RankTyped
<1>3. Scatters(k) \/ Gathers(k)
  BY <1>1, <1>2, DataShape
<1>4. /\ HasData(k) /\ ~Reduces(k) /\ LastStep(k) = DataStep(k)
      /\ Me(r).step = DataStep(k) /\ ~(Scatters(k) /\ Gathers(k))
  BY <1>1, <1>2, <1>3, DataShape DEF Silent, HasData
<1>5. PiecesHeld(r, k)
  BY <1>1, <1>2, <1>4 DEF Carries, AtData
<1>6. CASE Gathers(k) /\ r = RootOf(k)
  <2>1. \A s \in Ranks : \E p \in Me(r).got : p.position = s
    BY <1>6 DEF Awaited, IsRoot, Gathers
  <2>2. Me(r).got \subseteq {Part(s, s, k) : s \in Ranks}
    BY <1>5, <1>6 DEF PiecesHeld
  <2>3. \A s \in Ranks : Part(s, s, k) \in Me(r).got
    BY <2>1, <2>2 DEF Part
  <2>4. Me(r).got = ExpectedParts(r, k)
    BY <1>6, <2>2, <2>3 DEF ExpectedParts, Gathers
  <2>5. Served(r, k)
    BY <1>6, <2>1 DEF Served, Taken
  <2> QED BY <1>4, <1>5, <2>4, <2>5 DEF PiecesHeld
<1>7. CASE Gathers(k) /\ r # RootOf(k)
  <2>1. Me(r).got = {}
    BY <1>5, <1>7 DEF PiecesHeld
  <2>2. ExpectedParts(r, k) = {}
    BY <1>7 DEF ExpectedParts, Gathers
  <2>3. Served(r, k)
    BY <1>1, <1>2, <1>7, FeedsApart DEF Served
  <2> QED BY <1>4, <1>5, <2>1, <2>2, <2>3 DEF PiecesHeld
<1>8. CASE Scatters(k)
  <2>1. Me(r).got \subseteq {Part(r, RootOf(k), k)} /\ Kept(r, k) \subseteq Me(r).got
    BY <1>5, <1>8 DEF PiecesHeld
  <2>2. Me(r).got # {}
    <3>1. CASE r = RootOf(k)
      BY <1>8, <2>1, <3>1 DEF Kept
    <3>2. CASE r # RootOf(k)
      BY <1>4, <1>8, <3>2 DEF Awaited, IsRoot, Gathers
    <3> QED BY <3>1, <3>2
  <2>3. Me(r).got = ExpectedParts(r, k)
    BY <1>8, <2>1, <2>2 DEF ExpectedParts, Scatters
  <2>4. Served(r, k)
    BY <1>8, <2>2 DEF Served, Taken
  <2> QED BY <1>4, <1>5, <2>3, <2>4 DEF PiecesHeld
<1> QED BY <1>3, <1>6, <1>7, <1>8

\* The root of the tree ends with the partials of all ranks.
LEMMA WholeTree ==
    ASSUME Typed, NEW k \in 1 .. Calls, NEW mask \in Nat, mask >= WorldSize
    PROVE  Subtree(k, 0, mask) = Ones
<1>1. \A c \in Ranks : PlaceIn(c, k) \in Nat /\ PlaceIn(c, k) < WorldSize
  BY PlaceValue, WorldSizeAssumption DEF Ranks
<1>2. \A c \in Ranks : 0 <= PlaceIn(c, k) /\ PlaceIn(c, k) < 0 + mask
  BY <1>1, WorldSizeAssumption
<1> QED BY <1>2 DEF Subtree, Ones

LEMMA TreePlace ==
    ASSUME FlowInv, NEW r \in Ranks, StepOf(r) = "tree"
    PROVE  /\ MeetInv /\ Typed /\ Me(r).call \in 1 .. Calls /\ Reduces(Me(r).call)
           /\ HasData(Me(r).call) /\ Me(r).step > 0 /\ Me(r).step = 3
           /\ DataStep(Me(r).call) = 3 /\ AtData(r, Me(r).call)
           /\ SubtreeHeld(r, Me(r).call) /\ Me(r) \in Controls
           /\ Passed(r, Len(posts[r]))
<1> DEFINE k == Me(r).call
<1>1. MeetInv /\ Typed /\ Carries(r)
  BY DEF FlowInv, MeetInv
<1>2. /\ Me(r).step > 0 /\ StepName(k, Me(r).step) = "tree" /\ k \in 1 .. Calls
      /\ Me(r).step \in 1 .. LastStep(k) /\ Me(r) \in Controls /\ Passed(r, Len(posts[r]))
  BY <1>1, GoesOn, RankTyped
<1>3. Reduces(k)
  BY <1>1, <1>2, DataShape
<1>4. HasData(k) /\ Me(r).step = DataStep(k) /\ DataStep(k) = 3
  BY <1>1, <1>2, <1>3, DataShape DEF Silent, HasData
<1>5. AtData(r, k)
  BY <1>4 DEF AtData
<1> QED BY <1>1, <1>2, <1>3, <1>4, <1>5 DEF Carries

LEMMA TreeServed ==
    ASSUME FlowInv, NEW r \in Ranks, StepOf(r) = "tree", Me(r).mask = 0 \/ Me(r).mask >= WorldSize
    PROVE  /\ Served(r, Me(r).call) /\ Me(r).got = {}
           /\ r = RootOf(Me(r).call) => Me(r).sum = Ones
<1> DEFINE k == Me(r).call
<1>1. Typed /\ k \in 1 .. Calls /\ Reduces(k) /\ SubtreeHeld(r, k) /\ Me(r).mask \in Nat
  BY TreePlace DEF Controls
<1>2. \A s \in Ranks : PlaceIn(s, k) \in Nat /\ PlaceIn(s, k) < WorldSize
  BY <1>1, PlaceValue, WorldSizeAssumption DEF Ranks
<1>3. WorldSize \in Nat /\ WorldSize > 0
  BY WorldSizeAssumption
<1>4. Served(r, k)
  <2> SUFFICES ASSUME NEW s \in Ranks, Feeds(s, r, k) PROVE Taken(r, s, k)
    BY DEF Served
  <2>1. PlaceIn(s, k) \in Nat /\ PlaceIn(s, k) < WorldSize /\ PlaceIn(r, k) \in Nat
    BY <1>2
  <2>2. Me(r).mask = 0 \/ PlaceIn(s, k) - PlaceIn(r, k) < Me(r).mask
    BY <1>1, <1>3, <2>1
  <2> QED BY <1>1, <2>2 DEF Taken
<1>5. ASSUME r = RootOf(k) PROVE Me(r).sum = Ones
  <2>1. Me(r).mask # 0 /\ Me(r).mask >= WorldSize
    BY <1>1, <1>5 DEF SubtreeHeld
  <2>2. PlaceIn(r, k) = 0
    BY <1>1, <1>5, PlaceValue
  <2> QED BY <1>1, <2>1, <2>2, WholeTree DEF SubtreeHeld
<1> QED BY <1>1, <1>4, <1>5 DEF SubtreeHeld

\* A rank that is done with its messages goes on or returns.
LEMMA LeaveFlow ==
    ASSUME FlowInv, NEW r \in Ranks, Moves(r), Typed', UNCHANGED program,
           \/ StepOf(r) = "pieces" /\ Awaited(r) = {}
           \/ StepOf(r) = "tree" /\ (Me(r).mask = 0 \/ Me(r).mask >= WorldSize),
           NEW me, SamePlace(r, me), me.got = Me(r).got, me.sum = Me(r).sum, me.mask = 1,
           Proceed(r, me, wire)
    PROVE  FlowInv'
<1> DEFINE k == Me(r).call
<1>1. /\ MeetInv /\ Typed
      /\ Me(r).step > 0 /\ k \in 1 .. Calls /\ Me(r).step \in 1 .. LastStep(k)
  <2>1. MeetInv /\ Typed
    BY DEF FlowInv, MeetInv
  <2> QED BY <2>1, GoesOn, RankTyped
<1>2. Going(r, me) /\ me.call = k /\ me.step = Me(r).step /\ me \in Controls
  BY <1>1, GoingOn
<1>3. CASE StepOf(r) = "pieces"
  <2>1. /\ HasData(k) /\ ~Reduces(k) /\ Me(r).step = DataStep(k) /\ Me(r).step = LastStep(k)
        /\ Served(r, k) /\ Me(r).got = ExpectedParts(r, k)
    BY <1>3, PiecesServed
  <2> QED BY <1>1, <1>2, <2>1, ReturnFrom
<1>4. CASE StepOf(r) = "tree"
  <2>1. /\ Reduces(k) /\ HasData(k) /\ Me(r).step = 3 /\ DataStep(k) = 3
        /\ Served(r, k) /\ Me(r).got = {} /\ (r = RootOf(k) => Me(r).sum = Ones)
    BY <1>4, TreePlace, TreeServed
  <2>2. CASE KindOf(k) = "reduce"
    <3>1. LastStep(k) = 3
      BY <1>1, <2>2, DataShape
    <3>2. ExpectedParts(r, k) = {} /\ (ExpectedSum(r, k) => r = RootOf(k))
      BY <2>2 DEF ExpectedParts, ExpectedSum
    <3> QED BY <1>1, <1>2, <2>1, <3>1, <3>2, ReturnFrom
  <2>3. CASE KindOf(k) = "all_reduce"
    <3>1. LastStep(k) = 4
      BY <1>1, <2>3, DataShape
    <3>2. me.step # LastStep(k) /\ me.step <= LastStep(k) /\ me.step + 1 \in 1 .. LastStep(k)
      BY <1>2, <2>1, <3>1
    <3>3. ~Describes(r, k, StepName(k, me.step + 1))
      <4>1. me.step + 1 # DataStep(k) /\ ~(me.step + 1 < DataStep(k)) /\ me.step + 1 = LastStep(k)
        BY <1>2, <2>1, <3>1
      <4>2. ~Judges(k, me.step + 1)
        BY <1>1, <2>1, <3>2, <4>1, DataShape
      <4>3. StepName(k, me.step + 1) # "describe"
        BY <1>1, <3>1, <3>2, <4>1, DataShape
      <4> QED BY <4>2, <4>3 DEF Describes, Judges
    <3>4. EntersWith(r, me)
      BY <1>1, <1>2, <3>2, <3>3, ProceedData
    <3> QED BY <1>1, <1>2, <2>1, <3>4, EnterAfter
  <2> QED BY <2>1, <2>2, <2>3 DEF Reduces
<1> QED BY <1>3, <1>4

LEMMA DoneFlow ==
    ASSUME FlowInv, NEW r \in Ranks, PiecesDone(r)
    PROVE  FlowInv'
<1>1. MeetInv /\ StepOf(r) = "pieces" /\ Awaited(r) = {} /\ Proceed(r, Me(r), wire)
  BY DEF FlowInv, PiecesDone
<1>2. Typed' /\ Moves(r) /\ UNCHANGED program
  BY <1>1, ActionMoves DEF Advance
<1>3. SamePlace(r, Me(r)) /\ Me(r).mask = 1
  BY <1>1, GoesOn, PiecesServed
<1> QED BY <1>1, <1>2, <1>3, LeaveFlow

LEMMA TreeLeaveFlow ==
    ASSUME FlowInv, NEW r \in Ranks, TreeSent(r) \/ TreeDone(r) \/ BufferedSend(r)
    PROVE  FlowInv'
<1> DEFINE me == [Me(r) EXCEPT !.mask = 1]
<1>1. MeetInv /\ Typed
  BY DEF FlowInv, MeetInv
<1>2. Typed' /\ Moves(r) /\ UNCHANGED program
  BY <1>1, ActionMoves DEF Advance
<1>3. Proceed(r, me, wire)
  BY DEF TreeSent, TreeDone, BufferedSend
<1>4. \/ StepOf(r) = "pieces" /\ Awaited(r) = {}
      \/ StepOf(r) = "tree" /\ (Me(r).mask = 0 \/ Me(r).mask >= WorldSize)
  BY DEF TreeSent, TreeDone, BufferedSend, InTree
<1>5. SamePlace(r, me) /\ me.got = Me(r).got /\ me.sum = Me(r).sum /\ me.mask = 1
  <2>1. Me(r) \in Controls
    BY <1>1, RankTyped
  <2>2. me.got = Me(r).got /\ me.sum = Me(r).sum /\ me.mask = 1
    BY <2>1 DEF Controls
  <2> QED BY <1>1, <2>2, MaskControl
<1> HIDE DEF me
<1> QED BY <1>2, <1>3, <1>4, <1>5, LeaveFlow
-----------------------------------------------------------------------------
(* The exchange of messages. *)

\* A rank that changes what it holds in the exchange.
LEMMA StayFlow ==
    ASSUME FlowInv, NEW r \in Ranks, Typed', UNCHANGED program, Stays(r),
           NEW k \in 1 .. Calls, AtData(r, k),
           \A m \in wire \cap wire' : m.to = r => ~Taken(r, m.from, k)',
           \A m \in wire' \ wire : Travels(m)',
           \A s \in Ranks : Feeds(s, r, k) /\ Taken(r, s, k)' => Sent(s, k),
           Me(r).mask = 0 => rank'[r].mask = 0,
           IF Reduces(k) THEN SubtreeHeld(r, k)' ELSE PiecesHeld(r, k)'
    PROVE  FlowInv'
<1>1. MeetInv /\ Typed /\ PostsKept
  BY MoveKept DEF FlowInv, MeetInv, Moves
<1>2. /\ rank'[r].call = k /\ rank'[r].step = DataStep(k) /\ rank'[r].outcomes = Me(r).outcomes
      /\ posts' = posts /\ Me(r).call = k /\ Me(r).step = DataStep(k) /\ HasData(k)
  BY DEF Stays, AtData
<1>3. DataStep(k) \in 3 .. 4
  BY <1>1, DataShape
<1>4. \A c \in 1 .. Calls : Completed(r, c)' => Completed(r, c)
  BY <1>2, CallsKept DEF Completed, Finished, Me
<1>5. \A c \in 1 .. Calls : AtData(r, c)' => c = k
  BY <1>2 DEF AtData, Me
<1>6. ASSUME NEW s \in Ranks, NEW c \in 1 .. Calls, Feeds(s, r, c),
             Completed(r, c)' \/ (AtData(r, c)' /\ Taken(r, s, c)')
      PROVE  Sent(s, c)
  <2>1. CASE Completed(r, c)
    BY <1>6, <2>1 DEF FlowInv, SuppliedTo
  <2>2. CASE ~Completed(r, c)
    BY <1>4, <1>5, <1>6, <2>2
  <2> QED BY <2>1, <2>2
<1>7. ASSUME NEW m \in wire, m \in wire', m.to = r PROVE Expects(r, m.from, m.call)'
  <2>1. m.call = k /\ Cleared(r, k)
    BY <1>2, <1>3, <1>7, Mail
  <2>2. Cleared(r, k)' /\ ~Taken(r, m.from, k)'
    BY <1>1, <1>7, <2>1, ClearedKept
  <2> QED BY <1>2, <1>3, <2>1, <2>2, CallsKept DEF Expects, Ready, Me
<1>8. Keeps(r)
  BY <1>6, <1>7 DEF Keeps
<1>9. Carries(r)'
  <2>1. /\ Me(r)'.call = k /\ Me(r)'.step = DataStep(k) /\ DataStep(k) # 0
        /\ ~(DataStep(k) > DataStep(k)) /\ ~(DataStep(k) < DataStep(k))
        /\ HasData(k)' /\ DataStep(k)' = DataStep(k) /\ Reduces(k)' = Reduces(k)
    BY <1>2, <1>3, CallsKept DEF Me
  <2> QED BY <2>1 DEF Carries
<1>10. Shipped(r)'
  BY <1>2, CallsKept DEF Shipped, FlowInv
<1>11. Delivered(r)'
  BY <1>2, <1>3 DEF Delivered, Me
<1> QED BY <1>8, <1>9, <1>10, <1>11, FlowKept DEF Moves

\* A message is addressed to a rank in its call, or raised in it.
LEMMA Addressed ==
    ASSUME FlowInv, NEW m \in wire
    PROVE  /\ m.to \in Ranks /\ Me(m.to).call = m.call
           /\ Me(m.to).step > 0 \/ Finished(m.to, m.call, "raised")
<1>1. /\ m.to \in Ranks /\ m.call \in 1 .. Calls /\ RaisedLast(m.to)
      /\ Expects(m.to, m.from, m.call)
  BY DEF FlowInv, Travels, MeetInv, Coherent
<1>2. CASE Ready(m.to, m.from, m.call)
  BY <1>1, <1>2 DEF Ready, DataStep
<1>3. CASE Finished(m.to, m.call, "raised")
  BY <1>1, <1>3 DEF RaisedLast
<1> QED BY <1>1, <1>2, <1>3 DEF Expects

\* A rank has at most one message of another on its way.
LEMMA OneMessage ==
    ASSUME FlowInv, NEW m \in wire, NEW n \in wire, m.from = n.from, m.to = n.to
    PROVE  m = n
<1>1. Travels(m) /\ Travels(n) /\ m \in Messages /\ n \in Messages
  BY DEF FlowInv, MeetInv, Typed
<1>2. m.call = n.call
  BY <1>1, Addressed
<1>3. m.position = n.position /\ m.sum = n.sum
  BY <1>1, <1>2 DEF Travels, Payload
<1> QED BY <1>1, <1>2, <1>3 DEF Messages

LEMMA PieceFlow ==
    ASSUME FlowInv, NEW r \in Ranks, ReceivePiece(r)
    PROVE  FlowInv'
<1> SUFFICES ASSUME NEW k, k = Me(r).call PROVE FlowInv'
  OBVIOUS
<1>1. MeetInv /\ Typed /\ Carries(r) /\ StepOf(r) = "pieces"
  BY DEF FlowInv, MeetInv, ReceivePiece
<1>2. Typed' /\ UNCHANGED program
  BY <1>1, ActionMoves DEF Advance
<1>3. PICK m \in Arrived(r) :
         /\ m.from \in Awaited(r)
         /\ rank' = [rank EXCEPT ![r].got = @ \cup {Part(m.position, m.from, m.call)}]
         /\ wire' = wire \ {m} /\ UNCHANGED <<program, posts>>
  BY DEF ReceivePiece
<1>4. m \in wire /\ m.to = r
  BY <1>3 DEF Arrived
<1> DEFINE part == Part(m.position, m.from, m.call)
<1>5. /\ rank'[r].got = Me(r).got \cup {part} /\ rank'[r].mask = Me(r).mask
      /\ rank'[r].call = Me(r).call /\ rank'[r].step = Me(r).step
      /\ rank'[r].outcomes = Me(r).outcomes
      /\ OthersStay(r)
  <2>1. Me(r) \in Controls /\ rank \in [Ranks -> Controls]
    BY <1>1, RankTyped DEF Typed
  <2> DEFINE new == [Me(r) EXCEPT !.got = Me(r).got \cup {part}]
  <2>2. rank' = [rank EXCEPT ![r] = new]
    BY <1>3 DEF Me
  <2>3. /\ new.got = Me(r).got \cup {part} /\ new.mask = Me(r).mask
        /\ new.call = Me(r).call /\ new.step = Me(r).step /\ new.outcomes = Me(r).outcomes
    BY <2>1 DEF Controls
  <2> HIDE DEF new
  <2> QED BY <2>1, <2>2, <2>3 DEF OthersStay
<1>6. /\ Me(r).step > 0 /\ StepName(k, Me(r).step) = "pieces" /\ k \in 1 .. Calls
      /\ Me(r).step \in 1 .. LastStep(k)
  BY <1>1, GoesOn, RankTyped
<1>7. Scatters(k) \/ Gathers(k)
  BY <1>1, <1>6, DataShape
<1>8. /\ HasData(k) /\ ~Reduces(k) /\ Me(r).step = DataStep(k) /\ ~(Scatters(k) /\ Gathers(k))
  BY <1>1, <1>6, <1>7, DataShape DEF Silent, HasData
<1>9. PiecesHeld(r, k)
  BY <1>1, <1>6, <1>8 DEF Carries, AtData
<1>10. /\ m.call = k /\ m.from \in Ranks /\ Feeds(m.from, r, k) /\ Sent(m.from, k)
       /\ m.position = IF Scatters(k) THEN r ELSE m.from
  BY <1>4, <1>6, <1>8, Mail DEF FlowInv, Travels, Payload
<1>11. /\ Scatters(k) => m.from = RootOf(k) /\ part = Part(r, RootOf(k), k)
       /\ Gathers(k) => r = RootOf(k) /\ part = Part(m.from, m.from, k)
  BY <1>1, <1>6, <1>8, <1>10, FeedsApart
<1>12. Stays(r) /\ AtData(r, k)
  BY <1>3, <1>5, <1>8 DEF Stays, AtData
<1>13. /\ Gathers(k)' = Gathers(k) /\ Scatters(k)' = Scatters(k) /\ Reduces(k)' = Reduces(k)
       /\ Kept(r, k)' = Kept(r, k) /\ RootOf(k)' = RootOf(k)
  BY <1>2, CallsKept
<1> HIDE DEF part
<1>14. ASSUME NEW s \in Ranks, Feeds(s, r, k), Taken(r, s, k)'
       PROVE  Taken(r, s, k) \/ s = m.from
  <2>1. CASE Scatters(k)
    BY <1>1, <1>6, <1>11, <1>14, <2>1, FeedsApart
  <2>2. CASE Gathers(k)
    <3>1. PICK p \in rank'[r].got : p.position = s
      BY <1>8, <1>14, <1>13, <2>2 DEF Taken, Me
    <3>2. CASE p \in Me(r).got
      BY <2>2, <3>1, <3>2 DEF Taken
    <3>3. CASE p = part
      BY <1>11, <2>2, <3>1, <3>3 DEF Part
    <3> QED BY <1>5, <3>1, <3>2, <3>3
  <2> QED BY <1>7, <2>1, <2>2
<1>15. ASSUME NEW n \in wire, n \in wire', n.to = r PROVE ~Taken(r, n.from, k)'
  <2>1. /\ n.from \in Ranks /\ Feeds(n.from, r, k) /\ ~Taken(r, n.from, k)
    BY <1>6, <1>8, <1>15, Mail
  <2>2. n.from # m.from
    BY <1>3, <1>4, <1>15, OneMessage
  <2> QED BY <1>14, <2>1, <2>2
<1>16. ASSUME NEW s \in Ranks, Feeds(s, r, k), Taken(r, s, k)' PROVE Sent(s, k)
  BY <1>6, <1>10, <1>12, <1>14, <1>16 DEF FlowInv, SuppliedTo
<1>17. PiecesHeld(r, k)'
  <2>1. /\ rank'[r].mask = 1
        /\ Gathers(k) => /\ Kept(r, k) \subseteq rank'[r].got
                         /\ rank'[r].got \subseteq {Part(s, s, k) : s \in Ranks}
                         /\ r = RootOf(k)
        /\ Scatters(k) => /\ Kept(r, k) \subseteq rank'[r].got
                          /\ rank'[r].got \subseteq {Part(r, RootOf(k), k)}
    BY <1>5, <1>9, <1>10, <1>11 DEF PiecesHeld
  <2> QED BY <1>13, <2>1 DEF PiecesHeld, Me
<1>18. Me(r).mask = 0 => rank'[r].mask = 0
  BY <1>5
<1>19. \A n \in wire' \ wire : Travels(n)'
  BY <1>3
<1>20. \A n \in wire \cap wire' : n.to = r => ~Taken(r, n.from, k)'
  BY <1>15
<1>21. IF Reduces(k) THEN SubtreeHeld(r, k)' ELSE PiecesHeld(r, k)'
  BY <1>8, <1>17
<1> QED BY <1>2, <1>6, <1>12, <1>16, <1>18, <1>19, <1>20, <1>21, StayFlow
-----------------------------------------------------------------------------
(* The exchange of messages along the tree. *)

\* A rank in the tree, at a mask that is a phase.
LEMMA TreeHeld ==
    ASSUME FlowInv, NEW r \in Ranks, InTree(r), NEW k, k = Me(r).call
    PROVE  /\ MeetInv /\ Typed /\ Me(r) \in Controls /\ k \in 1 .. Calls /\ Reduces(k)
           /\ AtData(r, k) /\ StepOf(r) = "tree"
           /\ Place(r) = PlaceIn(r, k) /\ PlaceIn(r, k) \in Nat /\ PlaceIn(r, k) \in Ranks
           /\ Me(r).mask \in Phases /\ Me(r).mask \in Nat /\ Me(r).mask >= 1
           /\ PlaceIn(r, k) \in Multiples(Me(r).mask)
           /\ Me(r).sum = Subtree(k, PlaceIn(r, k), Me(r).mask) /\ Me(r).got = {}
           /\ \A m \in wire : m.to = r =>
                 m.from \in Ranks /\ Feeds(m.from, r, k) /\ ~Taken(r, m.from, k)
<1>1. StepOf(r) = "tree" /\ Me(r).mask # 0
  BY DEF InTree
<1>2. /\ MeetInv /\ Typed /\ Me(r) \in Controls /\ k \in 1 .. Calls /\ Reduces(k)
      /\ AtData(r, k) /\ SubtreeHeld(r, k)
  BY <1>1, TreePlace
<1>3. Place(r) = PlaceIn(r, k) /\ PlaceIn(r, k) \in Nat /\ PlaceIn(r, k) \in Ranks
  BY <1>2, PlaceValue DEF Place, PlaceIn
<1>4. /\ Me(r).mask \in Phases /\ PlaceIn(r, k) \in Multiples(Me(r).mask)
      /\ Me(r).sum = Subtree(k, PlaceIn(r, k), Me(r).mask) /\ Me(r).got = {}
  BY <1>1, <1>2 DEF SubtreeHeld
<1>5. Me(r).mask \in Nat /\ Me(r).mask >= 1
  BY <1>4, PhasePositive
<1>6. \A m \in wire : m.to = r =>
         m.from \in Ranks /\ Feeds(m.from, r, k) /\ ~Taken(r, m.from, k)
  <2>1. Me(r).step > 0
    BY <1>1, <1>2, StepNames, RankTyped
  <2> QED BY <1>2, <2>1, Mail DEF AtData
<1> QED BY <1>1, <1>2, <1>3, <1>4, <1>5, <1>6

\* A rank in the tree that changes its mask and its sum.
LEMMA TreeFlow ==
    ASSUME FlowInv, NEW r \in Ranks, InTree(r), NEW k, k = Me(r).call,
           Typed', UNCHANGED program, Stays(r), rank'[r].got = Me(r).got,
           \A m \in wire \cap wire' : m.to = r =>
              rank'[r].mask # 0 /\ ~(PlaceIn(m.from, k) - PlaceIn(r, k) < rank'[r].mask),
           \A m \in wire' \ wire : Travels(m)',
           \A s \in Ranks : Feeds(s, r, k)
              /\ (rank'[r].mask = 0 \/ PlaceIn(s, k) - PlaceIn(r, k) < rank'[r].mask) =>
                 Sent(s, k),
           rank'[r].mask = 0 => r # RootOf(k),
           rank'[r].mask # 0 =>
              /\ rank'[r].mask \in Phases /\ PlaceIn(r, k) \in Multiples(rank'[r].mask)
              /\ rank'[r].sum = Subtree(k, PlaceIn(r, k), rank'[r].mask)
    PROVE  FlowInv'
<1>1. /\ Typed /\ k \in 1 .. Calls /\ Reduces(k) /\ AtData(r, k) /\ Me(r).got = {}
      /\ Me(r).mask # 0
  BY TreeHeld DEF InTree
<1>2. /\ Reduces(k)' /\ RootOf(k)' = RootOf(k) /\ ~Gathers(k)' /\ ~Scatters(k)'
      /\ \A s : PlaceIn(s, k)' = PlaceIn(s, k)
  BY <1>1, CallsKept DEF Reduces, Gathers, Scatters
<1>3. \A s : Taken(r, s, k)' <=>
               rank'[r].mask = 0 \/ PlaceIn(s, k) - PlaceIn(r, k) < rank'[r].mask
  BY <1>2 DEF Taken, Me
<1>4. SubtreeHeld(r, k)'
  <2>1. \A l, z : Subtree(k, l, z)' = Subtree(k, l, z)
    BY SubtreesKept
  <2> QED BY <1>1, <1>2, <2>1 DEF SubtreeHeld, Me, Multiples
<1>5. \A m \in wire \cap wire' : m.to = r => ~Taken(r, m.from, k)'
  BY <1>3
<1>6. \A s \in Ranks : Feeds(s, r, k) /\ Taken(r, s, k)' => Sent(s, k)
  BY <1>3
<1>7. IF Reduces(k) THEN SubtreeHeld(r, k)' ELSE PiecesHeld(r, k)'
  BY <1>1, <1>4
<1>8. Me(r).mask = 0 => rank'[r].mask = 0
  BY <1>1
<1> QED BY <1>1, <1>5, <1>6, <1>7, <1>8, StayFlow

\* The mask in which a rank of the tree receives from another.
LEMMA Edge ==
    ASSUME Typed, NEW k \in 1 .. Calls, Reduces(k), NEW s \in Ranks, NEW t \in Ranks,
           Feeds(s, t, k)
    PROVE  \E b \in Phases : /\ IsReceiver(PlaceIn(t, k), b) /\ b \in Nat
                             /\ PlaceIn(s, k) - PlaceIn(t, k) = b
                             /\ PlaceIn(s, k) = PlaceIn(t, k) + b
<1>1. PICK b \in Phases : IsReceiver(PlaceIn(t, k), b) /\ PlaceIn(s, k) = PlaceIn(t, k) + b
  BY DEF Feeds, Reduces, Gathers, Scatters
<1>2. b \in Nat /\ PlaceIn(t, k) \in Nat
  BY PhasePositive, PlaceValue
<1>3. PlaceIn(s, k) - PlaceIn(t, k) = b
  BY <1>1, <1>2
<1> QED BY <1>1, <1>2, <1>3

LEMMA TreeSendFlow ==
    ASSUME FlowInv, NEW r \in Ranks, TreeSend(r)
    PROVE  FlowInv'
<1> SUFFICES ASSUME NEW k, k = Me(r).call PROVE FlowInv'
  OBVIOUS
<1> DEFINE l == PlaceIn(r, k)
<1> DEFINE mask == Me(r).mask
<1>1. InTree(r) /\ IsSender(Place(r), mask) /\ mask < WorldSize
  BY DEF TreeSend
<1>2. /\ MeetInv /\ Typed /\ Me(r) \in Controls /\ k \in 1 .. Calls /\ Reduces(k)
      /\ AtData(r, k) /\ StepOf(r) = "tree" /\ Place(r) = l /\ l \in Nat /\ l \in Ranks
      /\ mask \in Phases /\ mask \in Nat /\ mask >= 1
      /\ Me(r).sum = Subtree(k, l, mask)
      /\ \A m \in wire : m.to = r =>
            m.from \in Ranks /\ Feeds(m.from, r, k) /\ ~Taken(r, m.from, k)
  BY <1>1, TreeHeld
<1>3. Typed' /\ UNCHANGED program
  BY <1>2, ActionMoves DEF Advance
<1> SUFFICES ASSUME NEW new, new = [from |-> r, to |-> At(r, Place(r) - Me(r).mask),
                                    position |-> r, call |-> k, sum |-> Me(r).sum]
             PROVE  FlowInv'
  OBVIOUS
<1>4. rank' = [rank EXCEPT ![r].mask = 0] /\ wire' = wire \cup {new}
      /\ UNCHANGED <<program, posts>>
  BY DEF TreeSend
<1>5. /\ rank'[r].mask = 0 /\ rank'[r].got = Me(r).got /\ Stays(r)
      /\ \A s \in Ranks \ {r} : rank'[s] = rank[s]
  <2>1. rank \in [Ranks -> Controls]
    BY <1>2 DEF Typed
  <2> DEFINE me == [Me(r) EXCEPT !.mask = 0]
  <2>2. rank' = [rank EXCEPT ![r] = me]
    BY <1>4 DEF Me
  <2>3. /\ me.mask = 0 /\ me.got = Me(r).got /\ me.call = Me(r).call /\ me.step = Me(r).step
        /\ me.outcomes = Me(r).outcomes
    BY <1>2 DEF Controls
  <2> HIDE DEF me
  <2> QED BY <1>4, <2>1, <2>2, <2>3 DEF Stays, OthersStay
<1>6. ASSUME NEW s \in Ranks, Feeds(s, r, k) PROVE Taken(r, s, k) /\ Sent(s, k)
  <2>1. PICK b \in Phases : IsReceiver(l, b) /\ b \in Nat /\ PlaceIn(s, k) - l = b
    BY <1>2, <1>6, Edge
  <2>2. b < mask
    BY <1>1, <1>2, <2>1, ChildrenFirst
  <2>3. Taken(r, s, k)
    BY <1>2, <2>1, <2>2 DEF Taken
  <2> QED BY <1>2, <1>6, <2>3 DEF FlowInv, SuppliedTo
<1>7. PICK i \in Receivers(mask) : l = i + mask
  BY <1>1, <1>2 DEF IsSender
<1>8. i \in Ranks /\ i \in Nat /\ l - mask = i /\ l > 0
  <2>1. i \in Ranks
    BY <1>7 DEF Receivers
  <2>2. i \in Nat
    BY <2>1, WorldSizeAssumption DEF Ranks
  <2> QED BY <1>2, <1>7, <2>1, <2>2
<1>9. r # RootOf(k)
  BY <1>2, <1>8, PlaceValue
<1> SUFFICES ASSUME NEW to, to = Physical(i, RootOf(k)) PROVE FlowInv'
  OBVIOUS
<1>10. to \in Ranks /\ PlaceIn(to, k) = i /\ new.to = to
  BY <1>2, <1>8, PlaceOfPeer DEF At
<1>11. /\ new.from = r /\ new.position = r /\ new.call = k /\ new.sum = Subtree(k, l, mask)
  BY <1>2
<1>12. Feeds(r, to, k) /\ to # r
  <2>1. IsReceiver(PlaceIn(to, k), mask) /\ PlaceIn(r, k) = PlaceIn(to, k) + mask
    BY <1>7, <1>10 DEF IsReceiver
  <2>2. Feeds(r, to, k)
    BY <1>2, <2>1 DEF Feeds
  <2> QED BY <1>2, <1>10, <2>2, FeedsApart
<1>13. Expects(to, r, k)
  <2>1. DataStep(k) = 3 /\ HasData(k) /\ Me(r).step = 3 /\ Passed(r, Len(posts[r]))
    BY <1>2, TreePlace
  <2>2. Cleared(r, k)
    BY <1>2, <2>1, ClearedHere
  <2>3. ~Sent(r, k)
    BY <1>2, <2>1 DEF Sent
  <2> QED BY <1>2, <1>10, <1>12, <2>1, <2>2, <2>3, SendReaches
<1>14. Expects(to, r, k)'
  <2>1. PostsKept
    BY <1>2, <1>3, <1>5, MoveKept DEF Moves
  <2> QED BY <1>2, <1>3, <1>5, <1>10, <1>12, <1>13, <2>1, ExpectsKept
<1>15. Travels(new)'
  <2>1. /\ Feeds(r, to, k)' /\ Reduces(k)' /\ RootOf(k)' = RootOf(k) /\ HasData(k)'
        /\ DataStep(k)' = DataStep(k)
        /\ PlaceIn(r, k)' = l /\ PlaceIn(to, k)' = i
    BY <1>2, <1>3, <1>10, <1>12, CallsKept DEF AtData
  <2>2. Sent(r, k)'
    BY <1>2, <1>5, <2>1 DEF Sent, AtData, Stays, Me
  <2>3. l - i = mask
    BY <1>2, <1>8
  <2>4. Subtree(k, l, mask) = Subtree(k, PlaceIn(r, k), PlaceIn(r, k) - PlaceIn(to, k))
    BY <1>10, <2>3
  <2>5. \A a, z : Subtree(k, a, z)' = Subtree(k, a, z)
    BY <1>3, SubtreesKept
  <2>6. Payload(new)'
    BY <1>10, <1>11, <2>1, <2>3, <2>5 DEF Payload
  <2> QED BY <1>2, <1>10, <1>11, <1>14, <2>1, <2>2, <2>6 DEF Travels
<1>16. \A m \in wire \cap wire' : m.to = r =>
          rank'[r].mask # 0 /\ ~(PlaceIn(m.from, k) - PlaceIn(r, k) < rank'[r].mask)
  BY <1>2, <1>6
<1>17. \A m \in wire' \ wire : Travels(m)'
  BY <1>4, <1>15
<1> QED BY <1>1, <1>3, <1>5, <1>6, <1>9, <1>16, <1>17, TreeFlow

LEMMA SubtreesJoin ==
    ASSUME Typed, NEW k \in 1 .. Calls, NEW l \in Nat, NEW mask \in Nat
    PROVE  Plus(Subtree(k, l, mask), Subtree(k, l + mask, mask)) = Subtree(k, l, 2 * mask)
<1>1. ASSUME NEW c \in Ranks
      PROVE  (IF l <= PlaceIn(c, k) /\ PlaceIn(c, k) < l + mask THEN 1 ELSE 0)
             + (IF l + mask <= PlaceIn(c, k) /\ PlaceIn(c, k) < l + mask + mask THEN 1 ELSE 0)
             = IF l <= PlaceIn(c, k) /\ PlaceIn(c, k) < l + 2 * mask THEN 1 ELSE 0
  <2>1. PlaceIn(c, k) \in Nat
    BY PlaceValue
  <2> QED BY <2>1
<1> QED BY <1>1 DEF Plus, Subtree

\* A rank of the tree goes on to the next mask.
LEMMA MaskDoubles ==
    ASSUME FlowInv, NEW r \in Ranks, InTree(r), NEW k, k = Me(r).call,
           Typed', UNCHANGED program, Stays(r), rank'[r].got = Me(r).got,
           rank'[r].mask = 2 * Me(r).mask, wire' \subseteq wire,
           \A s \in Ranks : Feeds(s, r, k) /\ PlaceIn(s, k) - PlaceIn(r, k) = Me(r).mask =>
              Sent(s, k) /\ \A m \in wire' : m.to = r => m.from # s,
           PlaceIn(r, k) \in Multiples(2 * Me(r).mask),
           rank'[r].sum = Subtree(k, PlaceIn(r, k), 2 * Me(r).mask)
    PROVE  FlowInv'
<1> DEFINE mask == Me(r).mask
<1> DEFINE l == PlaceIn(r, k)
<1>1. /\ Typed /\ k \in 1 .. Calls /\ Reduces(k) /\ AtData(r, k)
      /\ mask \in Phases /\ mask \in Nat /\ mask >= 1 /\ l \in Nat
      /\ \A m \in wire : m.to = r =>
            m.from \in Ranks /\ Feeds(m.from, r, k) /\ ~Taken(r, m.from, k)
  BY TreeHeld
<1>2. 2 * mask # 0 /\ 2 * mask \in Phases
  BY <1>1, PhaseDouble
<1>3. ASSUME NEW s \in Ranks, Feeds(s, r, k), PlaceIn(s, k) - l < 2 * mask
      PROVE  PlaceIn(s, k) - l < mask \/ PlaceIn(s, k) - l = mask
  <2>1. PICK b \in Phases : PlaceIn(s, k) - l = b
    BY <1>1, <1>3, Edge
  <2> QED BY <1>1, <1>3, <2>1, PhaseGap
<1>4. ASSUME NEW m \in wire \cap wire', m.to = r
      PROVE  rank'[r].mask # 0 /\ ~(PlaceIn(m.from, k) - PlaceIn(r, k) < rank'[r].mask)
  <2>1. m.from \in Ranks /\ Feeds(m.from, r, k) /\ ~Taken(r, m.from, k)
    BY <1>1, <1>4
  <2>2. ~(PlaceIn(m.from, k) - l < mask)
    BY <1>1, <2>1 DEF Taken
  <2>3. PlaceIn(m.from, k) - l # mask
    BY <1>4, <2>1
  <2> QED BY <1>2, <1>3, <2>1, <2>2, <2>3
<1>5. ASSUME NEW s \in Ranks, Feeds(s, r, k),
             rank'[r].mask = 0 \/ PlaceIn(s, k) - PlaceIn(r, k) < rank'[r].mask
      PROVE  Sent(s, k)
  <2>1. CASE PlaceIn(s, k) - l < mask
    <3>1. Taken(r, s, k)
      BY <1>1, <2>1 DEF Taken
    <3> QED BY <1>1, <1>5, <3>1 DEF FlowInv, SuppliedTo
  <2>2. CASE PlaceIn(s, k) - l = mask
    BY <1>5, <2>2
  <2> QED BY <1>2, <1>3, <1>5, <2>1, <2>2
<1>6. \A m \in wire' \ wire : Travels(m)'
  OBVIOUS
<1> QED BY <1>2, <1>4, <1>5, <1>6, TreeFlow

LEMMA TreeReceiveFlow ==
    ASSUME FlowInv, NEW r \in Ranks, TreeReceive(r)
    PROVE  FlowInv'
<1> SUFFICES ASSUME NEW k, k = Me(r).call PROVE FlowInv'
  OBVIOUS
<1> DEFINE l == PlaceIn(r, k)
<1> DEFINE mask == Me(r).mask
<1>1. InTree(r) /\ IsReceiver(Place(r), mask)
  BY DEF TreeReceive
<1>2. /\ MeetInv /\ Typed /\ Me(r) \in Controls /\ k \in 1 .. Calls /\ Reduces(k)
      /\ Place(r) = l /\ l \in Nat /\ l \in Ranks
      /\ mask \in Nat /\ mask >= 1 /\ Me(r).sum = Subtree(k, l, mask)
  BY <1>1, TreeHeld
<1>3. Typed' /\ UNCHANGED program
  BY <1>2, ActionMoves DEF Advance
<1>4. PICK m \in wire : /\ m.to = r /\ m.from = At(r, Place(r) + mask)
                        /\ rank' = [rank EXCEPT ![r].sum = Plus(@, m.sum), ![r].mask = 2 * @]
                        /\ wire' = wire \ {m} /\ UNCHANGED <<program, posts>>
  BY DEF TreeReceive, Incoming
<1>5. l + mask \in Ranks /\ l + mask \in Nat /\ \E q \in Ranks : l = q * (2 * mask)
  <2>1. l + mask < WorldSize /\ \E q \in Ranks : l = q * (2 * mask)
    BY <1>1, <1>2 DEF IsReceiver, Receivers
  <2> QED BY <1>2, <2>1, WorldSizeAssumption DEF Ranks
<1>6. PlaceIn(m.from, k) = l + mask
  BY <1>2, <1>4, <1>5, PlaceOfPeer DEF At
<1>7. /\ Feeds(m.from, r, k) /\ m.from \in Ranks /\ m.call = k /\ Sent(m.from, k)
      /\ Payload(m)
  <2>1. Feeds(m.from, r, m.call) /\ m.from \in Ranks /\ m.call = k
    <3>1. Me(r).step > 0
      BY <1>1, <1>2, StepNames, RankTyped DEF InTree
    <3> QED BY <1>4, <3>1, Mail
  <2> QED BY <2>1 DEF FlowInv, Travels
<1>8. m.sum = Subtree(k, l + mask, mask)
  <2>1. m.sum = Subtree(k, PlaceIn(m.from, k), PlaceIn(m.from, k) - PlaceIn(m.to, k))
    BY <1>2, <1>7 DEF Payload
  <2>2. (l + mask) - l = mask
    BY <1>2
  <2> QED BY <1>4, <1>6, <2>1, <2>2
<1>9. Plus(Me(r).sum, m.sum) = Subtree(k, l, 2 * mask)
  BY <1>2, <1>8, SubtreesJoin
<1>10. /\ rank'[r].mask = 2 * mask /\ rank'[r].got = Me(r).got
       /\ rank'[r].sum = Subtree(k, l, 2 * mask) /\ Stays(r)
  <2>1. rank \in [Ranks -> Controls]
    BY <1>2 DEF Typed
  <2> DEFINE me == [Me(r) EXCEPT !.sum = Plus(@, m.sum), !.mask = 2 * @]
  <2>2. rank' = [rank EXCEPT ![r] = me]
    BY <1>4 DEF Me
  <2>3. /\ me.mask = 2 * mask /\ me.sum = Plus(Me(r).sum, m.sum) /\ me.got = Me(r).got
        /\ me.call = Me(r).call /\ me.step = Me(r).step /\ me.outcomes = Me(r).outcomes
    BY <1>2 DEF Controls
  <2> HIDE DEF me
  <2> QED BY <1>4, <1>9, <2>1, <2>2, <2>3 DEF Stays, OthersStay
<1>11. ASSUME NEW s \in Ranks, Feeds(s, r, k), PlaceIn(s, k) - l = mask
       PROVE  Sent(s, k) /\ \A n \in wire' : n.to = r => n.from # s
  <2>1. PlaceIn(s, k) = l + mask
    <3>1. PlaceIn(s, k) \in Nat
      BY <1>2, PlaceValue
    <3> QED BY <1>2, <1>11, <3>1
  <2>2. s = m.from
    BY <1>2, <1>6, <1>7, <2>1, PlaceValue
  <2>3. \A n \in wire : n.to = r /\ n.from = m.from => n = m
    BY <1>4, OneMessage
  <2> QED BY <1>4, <1>7, <2>2, <2>3
<1>12. l \in Multiples(2 * mask)
  BY <1>5, WorldSizeAssumption DEF Multiples, Ranks
<1>13. wire' \subseteq wire
  BY <1>4
<1> HIDE DEF l, mask
<1>14. /\ rank'[r].mask = 2 * Me(r).mask
       /\ rank'[r].sum = Subtree(k, PlaceIn(r, k), 2 * Me(r).mask)
       /\ PlaceIn(r, k) \in Multiples(2 * Me(r).mask)
  BY <1>10, <1>12 DEF l, mask
<1>15. \A s \in Ranks : Feeds(s, r, k) /\ PlaceIn(s, k) - PlaceIn(r, k) = Me(r).mask =>
              Sent(s, k) /\ \A n \in wire' : n.to = r => n.from # s
  BY <1>11 DEF l, mask
<1> QED BY <1>1, <1>3, <1>10, <1>13, <1>14, <1>15, MaskDoubles

\* A place with nobody to send to and nobody to receive from at a mask.
LEMMA LonePlace ==
    ASSUME NEW l \in Ranks, NEW mask \in Nat, mask >= 1, l \in Multiples(mask),
           ~IsSender(l, mask), ~IsReceiver(l, mask)
    PROVE  l \in Multiples(2 * mask) /\ l + mask >= WorldSize
<1>1. l \in Nat /\ l < WorldSize /\ WorldSize \in Nat
  BY WorldSizeAssumption DEF Ranks
<1>2. PICK q \in Nat : l = q * mask
  BY DEF Multiples
<1>3. PICK p \in Nat : q = 2 * p \/ q = 2 * p + 1
  <2>1. q \div 2 \in Nat /\ (q = 2 * (q \div 2) \/ q = 2 * (q \div 2) + 1)
    OBVIOUS
  <2> QED BY <2>1
<1>4. p * (2 * mask) \in Nat /\ p * (2 * mask) >= p
  OBVIOUS
<1>5. q # 2 * p + 1
  <2> SUFFICES ASSUME q = 2 * p + 1 PROVE FALSE
    OBVIOUS
  <2>1. l = p * (2 * mask) + mask
    BY <1>2
  <2>2. p \in Ranks /\ p * (2 * mask) \in Ranks
    BY <1>1, <1>4, <2>1 DEF Ranks
  <2>3. p * (2 * mask) + mask < WorldSize
    BY <1>1, <2>1
  <2>4. p * (2 * mask) \in Receivers(mask)
    BY <2>2, <2>3 DEF Receivers
  <2> QED BY <2>1, <2>4 DEF IsSender
<1>6. l = p * (2 * mask)
  BY <1>2, <1>3, <1>5
<1>7. p \in Ranks
  BY <1>1, <1>4, <1>6 DEF Ranks
<1>8. ~(l + mask < WorldSize)
  BY <1>6, <1>7 DEF IsReceiver, Receivers
<1> QED BY <1>1, <1>6, <1>8 DEF Multiples

LEMMA TreeSitOutFlow ==
    ASSUME FlowInv, NEW r \in Ranks, TreeSitOut(r)
    PROVE  FlowInv'
<1> SUFFICES ASSUME NEW k, k = Me(r).call PROVE FlowInv'
  OBVIOUS
<1> DEFINE l == PlaceIn(r, k)
<1> DEFINE mask == Me(r).mask
<1>1. /\ InTree(r) /\ ~IsReceiver(Place(r), mask) /\ ~IsSender(Place(r), mask)
      /\ rank' = [rank EXCEPT ![r].mask = 2 * @] /\ UNCHANGED <<program, posts, wire>>
  BY DEF TreeSitOut
<1>2. /\ MeetInv /\ Typed /\ Me(r) \in Controls /\ k \in 1 .. Calls /\ Reduces(k)
      /\ Place(r) = l /\ l \in Nat /\ l \in Ranks /\ l \in Multiples(mask)
      /\ mask \in Nat /\ mask >= 1 /\ Me(r).sum = Subtree(k, l, mask)
  BY <1>1, TreeHeld
<1>3. Typed' /\ UNCHANGED program
  BY <1>2, ActionMoves DEF Advance
<1>4. l \in Multiples(2 * mask) /\ l + mask >= WorldSize
  BY <1>1, <1>2, LonePlace
<1>5. Subtree(k, l, mask) = Subtree(k, l, 2 * mask)
  <2>1. ASSUME NEW c \in Ranks
        PROVE  PlaceIn(c, k) < l + mask /\ PlaceIn(c, k) < l + 2 * mask
    <3>1. PlaceIn(c, k) \in Nat /\ PlaceIn(c, k) < WorldSize
      BY <1>2, PlaceValue, WorldSizeAssumption DEF Ranks
    <3> QED BY <1>2, <1>4, <3>1, WorldSizeAssumption
  <2> QED BY <2>1 DEF Subtree
<1>6. /\ rank'[r].mask = 2 * mask /\ rank'[r].got = Me(r).got
      /\ rank'[r].sum = Subtree(k, l, 2 * mask) /\ Stays(r)
  <2>1. rank \in [Ranks -> Controls]
    BY <1>2 DEF Typed
  <2> DEFINE me == [Me(r) EXCEPT !.mask = 2 * @]
  <2>2. rank' = [rank EXCEPT ![r] = me]
    BY <1>1 DEF Me
  <2>3. /\ me.mask = 2 * mask /\ me.sum = Me(r).sum /\ me.got = Me(r).got
        /\ me.call = Me(r).call /\ me.step = Me(r).step /\ me.outcomes = Me(r).outcomes
    BY <1>2 DEF Controls
  <2> HIDE DEF me
  <2> QED BY <1>1, <1>2, <1>5, <2>1, <2>2, <2>3 DEF Stays, OthersStay
<1>7. \A s \in Ranks : ~(Feeds(s, r, k) /\ PlaceIn(s, k) - l = mask)
  <2> SUFFICES ASSUME NEW s \in Ranks, Feeds(s, r, k), PlaceIn(s, k) - l = mask PROVE FALSE
    OBVIOUS
  <2>1. PICK b \in Phases : IsReceiver(l, b) /\ PlaceIn(s, k) - l = b
    BY <1>2, Edge
  <2> QED BY <1>1, <1>2, <2>1
<1> QED BY <1>1, <1>3, <1>4, <1>6, <1>7, MaskDoubles
-----------------------------------------------------------------------------
(* Messages and values are right in every reachable state. *)

LEMMA InitFlow == Init => FlowInv
<1> SUFFICES ASSUME Init PROVE FlowInv
  OBVIOUS
<1>1. MeetInv /\ Typed
  BY InitMeetInv DEF MeetInv
<1>2. wire = {} /\ \A r \in Ranks : /\ Me(r).call = 0 /\ Me(r).step = 0 /\ Me(r).mask = 1
                                    /\ Me(r).outcomes = <<>> /\ posts[r] = <<>>
  BY DEF Init, Me
<1>3. ASSUME NEW r \in Ranks
      PROVE  SuppliedTo(r) /\ Carries(r) /\ Shipped(r) /\ Delivered(r)
  <2>1. \A k \in 1 .. Calls : ~AtData(r, k) /\ ~Completed(r, k)
    BY <1>2, <1>3 DEF AtData, Completed, Finished
  <2>2. SuppliedTo(r)
    BY <2>1 DEF SuppliedTo
  <2>3. Carries(r)
    BY <1>2, <1>3, <2>1 DEF Carries
  <2>4. Shipped(r)
    BY <1>2, <1>3 DEF Shipped
  <2>5. Delivered(r)
    BY <1>2, <1>3 DEF Delivered
  <2> QED BY <2>2, <2>3, <2>4, <2>5
<1> QED BY <1>1, <1>2, <1>3 DEF FlowInv

LEMMA FlowStutters ==
    ASSUME FlowInv, UNCHANGED vars
    PROVE  FlowInv'
<1>1. /\ UNCHANGED program /\ rank' = rank /\ posts' = posts /\ wire' = wire
  BY DEF vars
<1>2. MeetInv /\ MeetInv' /\ Typed'
  BY <1>1, MeetStep DEF FlowInv, MeetInv, vars
<1>3. \A r, s, k : /\ AtData(r, k)' = AtData(r, k) /\ Taken(r, s, k)' = Taken(r, s, k)
                   /\ Sent(r, k)' = Sent(r, k) /\ Completed(r, k)' = Completed(r, k)
                   /\ Feeds(s, r, k)' = Feeds(s, r, k) /\ HasData(k)' = HasData(k)
  BY <1>1, CallsKept DEF AtData, Taken, Sent, Completed, Finished, Me
<1>4. \A m \in wire' : Travels(m)'
  <2> SUFFICES ASSUME NEW m \in wire PROVE Travels(m)'
    BY <1>1
  <2>1. Travels(m) /\ Typed
    BY <1>2 DEF FlowInv, MeetInv
  <2>2. PostsKept
    <3>1. \A s \in Ranks : posts'[s] = posts[s] /\ Len(posts[s]) \in Nat
      BY <1>1, <2>1, RankTyped
    <3> QED BY <3>1 DEF PostsKept
  <2>3. Expects(m.to, m.from, m.call)'
    BY <1>1, <2>1, <2>2, ExpectsKept DEF Travels
  <2>4. Payload(m)'
    BY <1>1, <2>1, PayloadKept DEF Travels
  <2> QED BY <1>3, <2>1, <2>3, <2>4 DEF Travels
<1>5. ASSUME NEW r \in Ranks
      PROVE  SuppliedTo(r)' /\ Carries(r)' /\ Shipped(r)' /\ Delivered(r)'
  <2>1. SuppliedTo(r) /\ Carries(r) /\ Shipped(r) /\ Delivered(r)
    BY <1>5 DEF FlowInv
  <2>2. SuppliedTo(r)'
    BY <1>3, <2>1 DEF SuppliedTo
  <2>3. Carries(r)'
    BY <1>1, <2>1 DEF Carries, SubtreeHeld, PiecesHeld, AtData, HasData, DataStep, Scatters,
                      Gathers, Reduces, KindOf, RootOf, Me, Kept, PlaceIn, Subtree, Multiples
  <2>4. Shipped(r)'
    BY <1>1, <2>1 DEF Shipped, KindOf, RootOf
  <2>5. Delivered(r)'
    BY <1>1, <2>1, CallsKept DEF Delivered, Finished, Me
  <2> QED BY <2>2, <2>3, <2>4, <2>5
<1> QED BY <1>2, <1>4, <1>5 DEF FlowInv

LEMMA FlowStep == FlowInv /\ [Next]_vars => FlowInv'
<1> SUFFICES ASSUME FlowInv, [Next]_vars PROVE FlowInv'
  OBVIOUS
<1>1. CASE UNCHANGED vars
  BY <1>1, FlowStutters
<1>2. ASSUME NEW r \in Ranks, Advance(r) PROVE FlowInv'
  BY <1>2, VerdictFlow, DescriptorFlow, TensorFlow, AllGatherFlow, PieceFlow, DoneFlow,
     TreeSendFlow, TreeReceiveFlow, TreeSitOutFlow, TreeLeaveFlow DEF Advance
<1>3. CASE Next
  BY <1>2, <1>3, StartFlow, RaiseFlow, AloneFlow, TreeLeaveFlow DEF Next
<1> QED BY <1>1, <1>3

LEMMA FlowInvariance == Spec => []FlowInv
BY InitFlow, FlowStep, PTL DEF Spec

\* A message finds its receiver in the call it was sent in, or raised in it and
\* making no further call, and no other message of its sender waits there with it:
\* the order in which messages arrive and the missing tags cannot mix up calls,
\* phases or peers, for every program, group and choice of ranks that raise.
THEOREM MessagesFindTheirCall == Spec => []MessagesMeetTheirCall
<1>1. FlowInv => MessagesMeetTheirCall
  <2> SUFFICES ASSUME FlowInv PROVE MessagesMeetTheirCall
    OBVIOUS
  <2>1. ASSUME NEW m \in wire
        PROVE  /\ Me(m.to).call = m.call
               /\ StepOf(m.to) = "idle" => Finished(m.to, m.call, "raised")
    <3>1. Typed /\ m.to \in Ranks
      BY Addressed DEF FlowInv, MeetInv
    <3>2. StepOf(m.to) = "idle" => ~(Me(m.to).step > 0)
      BY <3>1, StepNames
    <3> QED BY <3>2, Addressed
  <2> QED BY <2>1, OneMessage DEF MessagesMeetTheirCall
<1> QED BY <1>1, FlowInvariance, PTL

\* What a call returns is made of this call's values, each in its place, and the
\* sum of a reduction counts the partial of every rank exactly once.
THEOREM ResultsHold == Spec => []ResultsAreExact
<1>1. FlowInv => ResultsAreExact
  <2> SUFFICES ASSUME FlowInv, NEW r \in Ranks, StepOf(r) = "idle", Me(r).call > 0,
                      Finished(r, Me(r).call, "ok")
               PROVE  /\ Me(r).got = ExpectedParts(r, Me(r).call)
                      /\ KindOf(Me(r).call) \in {"reduce", "all_reduce"}
                         /\ ExpectedSum(r, Me(r).call) => Me(r).sum = [c \in Ranks |-> 1]
    BY DEF ResultsAreExact
  <2>1. Typed /\ Delivered(r)
    BY DEF FlowInv, MeetInv
  <2>2. Me(r).step = 0
    BY <2>1, StepNames
  <2> QED BY <2>1, <2>2 DEF Delivered, Reduces, Ones
<1> QED BY <1>1, FlowInvariance, PTL
=============================================================================
