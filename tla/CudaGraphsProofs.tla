--------------------------- MODULE CudaGraphsProofs ---------------------------
(***************************************************************************)
(* Replays, copies, reads and clones that could disturb one another are    *)
(* ordered, so what a task waits for decides what it sees.                 *)
(*                                                                         *)
(* First the order of work on streams: which tasks the start of a task, a  *)
(* front or an event waits for, directly or through others.  A set of      *)
(* tasks waits for a task when that task is in every closed set around it; *)
(* a set is closed when it has all that its members follow.  Said so,      *)
(* waiting through others needs no induction.                              *)
(*                                                                         *)
(* Then the graphs.  Traced says which event covers which tasks in flight, *)
(* Ordered that clashing tasks follow one another, and Foreseen that the   *)
(* last writer before a reader leaves the payload the reader was enqueued  *)
(* for.                                                                    *)
(***************************************************************************)
EXTENDS CudaGraphs, FiniteSetTheorems, TLAPS

-----------------------------------------------------------------------------
(* The order of tasks *)

Queued(tasks) == {t \in Tasks : tasks[t] # NoTask}

Closed(tasks, D) == \A y \in D : y \in Queued(tasks) => tasks[y].after \subseteq D

WaitsFor(tasks, S, x) ==
    \A D \in SUBSET Tasks : S \subseteq D /\ Closed(tasks, D) => x \in D

Before(tasks, x, y) == WaitsFor(tasks, tasks[y].after, x)

TasksTyped(tasks, W) ==
    tasks \in [Tasks -> [work : W, after : SUBSET Tasks, running : BOOLEAN] \cup {NoTask}]

\* Tasks only follow tasks in flight, and run when they follow none.
Sound(tasks) ==
    \A t \in Queued(tasks) :
        /\ tasks[t].after \subseteq Queued(tasks)
        /\ tasks[t].running => tasks[t].after = {}

LEMMA WaitsForMember ==
    ASSUME NEW tasks, NEW S, NEW x \in S
    PROVE  WaitsFor(tasks, S, x)
BY DEF WaitsFor

LEMMA WaitsForMore ==
    ASSUME NEW tasks, NEW S, NEW T, NEW x, WaitsFor(tasks, S, x), S \subseteq T
    PROVE  WaitsFor(tasks, T, x)
BY DEF WaitsFor

\* What a member follows is waited for.
LEMMA WaitsForEarlier ==
    ASSUME NEW tasks, NEW S, NEW y \in S, NEW x, y \in Queued(tasks), Before(tasks, x, y)
    PROVE  WaitsFor(tasks, S, x)
BY DEF WaitsFor, Before, Closed

LEMMA NothingWaitsForNothing ==
    ASSUME NEW tasks, NEW x
    PROVE  ~WaitsFor(tasks, {}, x)
<1>1. {} \in SUBSET Tasks /\ Closed(tasks, {})
  BY DEF Closed
<1> QED BY <1>1 DEF WaitsFor

-----------------------------------------------------------------------------
(* A task is enqueued *)

LEMMA SlotIsFree ==
    ASSUME NEW d, HasSlots(d, 1)
    PROVE  Slot(d) \in Tasks /\ Slot(d) \notin InFlight(d)
<1>1. IsFiniteSet(Tasks) /\ Cardinality(Tasks) = MaxTasks
  BY FS_Interval, TaskAssumption DEF Tasks
<1>2. InFlight(d) # Tasks
  BY <1>1, TaskAssumption DEF HasSlots
<1> QED BY <1>2 DEF Slot, InFlight

LEMMA SlotsCount ==
    ASSUME NEW d
    PROVE  IsFiniteSet(InFlight(d)) /\ Cardinality(InFlight(d)) \in Nat
<1>1. IsFiniteSet(Tasks)
  BY FS_Interval, TaskAssumption DEF Tasks
<1>2. InFlight(d) \in SUBSET Tasks
  BY DEF InFlight
<1> QED BY <1>1, <1>2, FS_Subset, FS_CardinalityType

LEMMA SlotForOne ==
    ASSUME NEW d, HasSlots(d, 2)
    PROVE  HasSlots(d, 1)
BY SlotsCount, TaskAssumption DEF HasSlots

LEMMA SlotForAnother ==
    ASSUME NEW d, NEW e, HasSlots(d, 2), NEW t, InFlight(e) = InFlight(d) \cup {t}
    PROVE  HasSlots(e, 1)
<1>1. Cardinality(InFlight(e)) \in {Cardinality(InFlight(d)), Cardinality(InFlight(d)) + 1}
  BY SlotsCount, FS_AddElement
<1> QED BY <1>1, SlotsCount, TaskAssumption DEF HasSlots

\* What enqueuing t after the tasks A makes of tasks.
Enqueued(tasks, t, A, w) ==
    [tasks EXCEPT ![t] = [work |-> w, after |-> A, running |-> FALSE]]

Room(tasks, t, A, w) ==
    /\ DOMAIN tasks = Tasks
    /\ Sound(tasks)
    /\ t \in Tasks /\ t \notin Queued(tasks)
    /\ A \subseteq Queued(tasks)
    /\ [work |-> w, after |-> A, running |-> FALSE] # NoTask

Grown(tasks, now, t, A, w) ==
    /\ Queued(now) = Queued(tasks) \cup {t}
    /\ now[t] = [work |-> w, after |-> A, running |-> FALSE]
    /\ \A x \in Queued(tasks) : now[x] = tasks[x]
    /\ Sound(now)

LEMMA QueuedNow ==
    ASSUME NEW tasks, NEW t, NEW A, NEW w, Room(tasks, t, A, w),
           NEW now, now = Enqueued(tasks, t, A, w)
    PROVE  Grown(tasks, now, t, A, w)
BY DEF Room, Enqueued, Queued, Sound, Grown

\* The order of earlier tasks is what it was, and none of them waits for t.
LEMMA OrderKept ==
    ASSUME NEW tasks, NEW t, NEW A, NEW w, Room(tasks, t, A, w),
           NEW now, now = Enqueued(tasks, t, A, w),
           NEW S \in SUBSET Queued(tasks)
    PROVE  /\ \A x \in Queued(tasks) : WaitsFor(now, S, x) <=> WaitsFor(tasks, S, x)
           /\ ~WaitsFor(now, S, t)
<1>0. Grown(tasks, now, t, A, w)
  BY QueuedNow
<1>1. /\ Queued(now) = Queued(tasks) \cup {t}
      /\ \A x \in Queued(tasks) : now[x] = tasks[x]
      /\ Sound(tasks) /\ Queued(tasks) \subseteq Tasks /\ t \notin Queued(tasks)
  BY <1>0 DEF Grown, Room, Queued
<1>2. ASSUME NEW x \in Queued(tasks), WaitsFor(now, S, x), NEW D \in SUBSET Tasks,
             S \subseteq D, Closed(tasks, D)
      PROVE  x \in D
  <2>1. Closed(now, D \cap Queued(tasks))
    BY <1>1, <1>2 DEF Closed, Sound
  <2> QED BY <1>1, <1>2, <2>1 DEF WaitsFor
<1>3. ASSUME NEW x \in Queued(tasks), WaitsFor(tasks, S, x), NEW D \in SUBSET Tasks,
             S \subseteq D, Closed(now, D)
      PROVE  x \in D
  <2>1. Closed(tasks, D \cap Queued(tasks))
    BY <1>1, <1>3 DEF Closed, Sound
  <2> QED BY <1>1, <1>3, <2>1 DEF WaitsFor
<1>4. ~WaitsFor(now, S, t)
  <2>1. Closed(now, Queued(tasks))
    BY <1>1 DEF Closed, Sound
  <2> QED BY <1>1, <2>1 DEF WaitsFor
<1>5. \A x \in Queued(tasks) : WaitsFor(now, S, x) <=> WaitsFor(tasks, S, x)
  BY <1>2, <1>3 DEF WaitsFor
<1> QED BY <1>4, <1>5

\* What t follows is before it.
LEMMA FollowedIsBefore ==
    ASSUME NEW tasks, NEW t, NEW A, NEW w, Room(tasks, t, A, w),
           NEW now, now = Enqueued(tasks, t, A, w),
           NEW x \in Queued(tasks), WaitsFor(tasks, A, x)
    PROVE  Before(now, x, t)
<1>1. A \in SUBSET Queued(tasks)
  BY DEF Room
<1>0. Grown(tasks, now, t, A, w)
  BY QueuedNow
<1>2. now[t].after = A
  BY <1>0 DEF Grown
<1>3. WaitsFor(now, A, x)
  BY <1>1, OrderKept
<1> QED BY <1>2, <1>3 DEF Before

LEMMA BeforeKept ==
    ASSUME NEW tasks, NEW t, NEW A, NEW w, Room(tasks, t, A, w),
           NEW now, now = Enqueued(tasks, t, A, w),
           NEW y \in Queued(tasks)
    PROVE  /\ \A x \in Queued(tasks) : Before(now, x, y) <=> Before(tasks, x, y)
           /\ ~Before(now, t, y)
<1>0. Grown(tasks, now, t, A, w)
  BY QueuedNow
<1>1. tasks[y].after \in SUBSET Queued(tasks) /\ now[y] = tasks[y]
  BY <1>0 DEF Grown, Room, Sound
<1>2. /\ \A x \in Queued(tasks) : WaitsFor(now, tasks[y].after, x) <=> WaitsFor(tasks, tasks[y].after, x)
      /\ ~WaitsFor(now, tasks[y].after, t)
  BY <1>1, OrderKept
<1> QED BY <1>1, <1>2 DEF Before

-----------------------------------------------------------------------------
(* A task ends *)

Ended(tasks, t) ==
    [u \in Tasks |->
        IF u = t \/ tasks[u] = NoTask THEN (IF u = t THEN NoTask ELSE tasks[u])
        ELSE [tasks[u] EXCEPT !.after = @ \ {t}]]

Ending(tasks, W, t) ==
    /\ TasksTyped(tasks, W)
    /\ NoTask \notin [work : W, after : SUBSET Tasks, running : BOOLEAN]
    /\ Sound(tasks)
    /\ t \in Queued(tasks)
    /\ tasks[t].after = {}

LEMMA QueuedStill ==
    ASSUME NEW tasks, NEW W, NEW t, Ending(tasks, W, t),
           NEW now, now = Ended(tasks, t)
    PROVE  /\ TasksTyped(now, W)
           /\ Queued(now) = Queued(tasks) \ {t}
           /\ \A x \in Queued(now) : now[x] = [tasks[x] EXCEPT !.after = @ \ {t}]
           /\ \A x \in Queued(now) : now[x].after = tasks[x].after \ {t}
           /\ Sound(now)
<1> DEFINE Task == [work : W, after : SUBSET Tasks, running : BOOLEAN]
<1>1. \A x \in Queued(tasks) : tasks[x] \in Task
  BY DEF Queued, Ending, TasksTyped
<1>2. \A x \in Queued(tasks) : [tasks[x] EXCEPT !.after = @ \ {t}] \in Task
  BY <1>1
<1>3. \A x \in Tasks : IF x \in Queued(tasks) \ {t}
                       THEN now[x] = [tasks[x] EXCEPT !.after = @ \ {t}]
                       ELSE now[x] = NoTask
  BY DEF Ended, Queued
<1>4. Queued(now) = Queued(tasks) \ {t}
  BY <1>2, <1>3 DEF Queued, Ending
<1>5. TasksTyped(now, W)
  BY <1>2 DEF TasksTyped, Ended, Queued
<1>6. \A x \in Queued(now) : /\ now[x] = [tasks[x] EXCEPT !.after = @ \ {t}]
                             /\ now[x].after = tasks[x].after \ {t}
                             /\ now[x].running = tasks[x].running
  BY <1>1, <1>3, <1>4 DEF Queued
<1>7. Sound(now)
  BY <1>4, <1>6 DEF Sound, Ending
<1> QED BY <1>4, <1>5, <1>6, <1>7

LEMMA OrderLeft ==
    ASSUME NEW tasks, NEW W, NEW t, Ending(tasks, W, t),
           NEW now, now = Ended(tasks, t),
           NEW S, NEW x, x # t
    PROVE  WaitsFor(now, S \ {t}, x) <=> WaitsFor(tasks, S, x)
<1> Queued(now) = Queued(tasks) \ {t} /\ \A y \in Queued(now) : now[y].after = tasks[y].after \ {t}
  BY QueuedStill
<1>1. /\ Queued(now) = Queued(tasks) \ {t}
      /\ \A y \in Queued(now) : now[y].after = tasks[y].after \ {t}
      /\ t \in Tasks /\ tasks[t].after = {}
  BY DEF Ending, Queued
<1>2. ASSUME WaitsFor(now, S \ {t}, x), NEW D \in SUBSET Tasks, S \subseteq D, Closed(tasks, D)
      PROVE  x \in D
  <2>1. Closed(now, D \ {t})
    BY <1>1, <1>2 DEF Closed
  <2> QED BY <1>2, <2>1 DEF WaitsFor
<1>3. ASSUME WaitsFor(tasks, S, x), NEW D \in SUBSET Tasks, S \ {t} \subseteq D, Closed(now, D)
      PROVE  x \in D
  <2>1. Closed(tasks, D \cup {t})
    BY <1>1, <1>3 DEF Closed
  <2> QED BY <1>1, <1>3, <2>1 DEF WaitsFor
<1> QED BY <1>2, <1>3 DEF WaitsFor

LEMMA BeforeLeft ==
    ASSUME NEW tasks, NEW W, NEW t, Ending(tasks, W, t),
           NEW now, now = Ended(tasks, t),
           NEW y \in Queued(tasks) \ {t}, NEW x, x # t
    PROVE  Before(now, x, y) <=> Before(tasks, x, y)
<1>1. now[y].after = tasks[y].after \ {t}
  BY QueuedStill
<1>2. WaitsFor(now, tasks[y].after \ {t}, x) <=> WaitsFor(tasks, tasks[y].after, x)
  BY OrderLeft
<1> QED BY <1>1, <1>2 DEF Before

-----------------------------------------------------------------------------
(* A task starts *)

Begun(tasks, t) == [tasks EXCEPT ![t].running = TRUE]

LEMMA OrderBegun ==
    ASSUME NEW tasks, NEW W, NEW t, Ending(tasks, W, t),
           NEW now, now = Begun(tasks, t)
    PROVE  /\ TasksTyped(now, W)
           /\ Queued(now) = Queued(tasks)
           /\ Sound(now)
           /\ \A x \in Queued(tasks) : now[x].after = tasks[x].after /\ now[x].work = tasks[x].work
           /\ \A S, x : WaitsFor(now, S, x) <=> WaitsFor(tasks, S, x)
<1> DEFINE Task == [work : W, after : SUBSET Tasks, running : BOOLEAN]
<1>1. t \in Tasks /\ tasks[t] \in Task
  BY DEF Queued, Ending, TasksTyped
<1>2. [tasks[t] EXCEPT !.running = TRUE] \in Task
  BY <1>1
<1>3. TasksTyped(now, W)
  BY <1>1, <1>2 DEF TasksTyped, Begun, Ending
<1>4. \A x \in Tasks : now[x] = IF x = t THEN [tasks[t] EXCEPT !.running = TRUE] ELSE tasks[x]
  BY DEF Begun, Ending, TasksTyped
<1>5. Queued(now) = Queued(tasks)
  BY <1>2, <1>4 DEF Queued, Ending
<1>6. \A x \in Queued(tasks) : now[x].after = tasks[x].after /\ now[x].work = tasks[x].work
  BY <1>1, <1>4 DEF Queued
<1>7. Sound(now)
  BY <1>4, <1>5, <1>6 DEF Sound, Ending, Queued
<1>8. \A D : Closed(now, D) <=> Closed(tasks, D)
  BY <1>5, <1>6 DEF Closed
<1>9. \A S, x : WaitsFor(now, S, x) <=> WaitsFor(tasks, S, x)
  BY <1>8 DEF WaitsFor
<1> QED BY <1>3, <1>5, <1>6, <1>7, <1>9

-----------------------------------------------------------------------------
(* What the operations of a device change *)

Sane(d) ==
    /\ Sound(d.tasks)
    /\ \A s \in Streams : d.front[s] \subseteq Queued(d.tasks)
    /\ \A e \in Events : d.points[e] \subseteq Queued(d.tasks)

Good(d, W) == d \in Device(W) /\ Sane(d)

\* The device n is d but for what its events recorded.
OnlyPoints(d, n, points) ==
    /\ n.tasks = d.tasks
    /\ n.front = d.front
    /\ n.points = points

\* The device n is d and a task more, enqueued on the stream s.
Adds(d, n, s, w) ==
    /\ Room(d.tasks, Slot(d), d.front[s], w)
    /\ n.tasks = Enqueued(d.tasks, Slot(d), d.front[s], w)
    /\ n.points = d.points
    /\ n.front[s] = {Slot(d)}
    /\ InFlight(n) = InFlight(d) \cup {Slot(d)}

LEMMA Idle ==
    ASSUME NEW W
    PROVE  Good(IdleDevice, W) /\ Queued(IdleDevice.tasks) = {}
BY DEF Good, Device, IdleDevice, Sane, Sound, Queued

LEMMA Waited ==
    ASSUME NEW d, NEW W, Good(d, W), NEW s \in Streams, NEW e \in Events,
           NEW n, n = WaitEvent(d, s, e)
    PROVE  /\ Good(n, W)
           /\ n.tasks = d.tasks
           /\ n.points = d.points
           /\ n.front[s] = d.front[s] \cup d.points[e]
<1>1. /\ n.tasks = d.tasks
      /\ n.points = d.points
      /\ n.front = [d.front EXCEPT ![s] = @ \cup d.points[e]]
  BY DEF WaitEvent, Good, Device
<1>2. n.front \in [Streams -> SUBSET Tasks] /\ n \in Device(W)
  BY DEF WaitEvent, Good, Device
<1> QED BY <1>1, <1>2 DEF Good, Sane, Device

LEMMA Recorded ==
    ASSUME NEW d, NEW W, Good(d, W), NEW s \in Streams, NEW e \in Events,
           NEW n, n = RecordEvent(d, s, e)
    PROVE  Good(n, W) /\ OnlyPoints(d, n, [d.points EXCEPT ![e] = d.front[s]])
<1>1. /\ n.tasks = d.tasks
      /\ n.front = d.front
      /\ n.points = [d.points EXCEPT ![e] = d.front[s]]
  BY DEF RecordEvent, Good, Device
<1>2. n \in Device(W)
  BY DEF RecordEvent, Good, Device
<1> QED BY <1>1, <1>2 DEF Good, Sane, Device, OnlyPoints

LEMMA RecordedAlso ==
    ASSUME NEW d, NEW W, Good(d, W), NEW s \in Streams, NEW e \in Events,
           NEW n, n = RecordAlso(d, s, e)
    PROVE  Good(n, W) /\ OnlyPoints(d, n, [d.points EXCEPT ![e] = @ \cup d.front[s]])
<1>1. /\ n.tasks = d.tasks
      /\ n.front = d.front
      /\ n.points = [d.points EXCEPT ![e] = @ \cup d.front[s]]
  BY DEF RecordAlso, Good, Device
<1>2. n \in Device(W)
  BY DEF RecordAlso, Good, Device
<1> QED BY <1>1, <1>2 DEF Good, Sane, Device, OnlyPoints

LEMMA Submitted ==
    ASSUME NEW d, NEW W, Good(d, W), NEW s \in Streams, NEW w \in W, HasSlots(d, 1),
           NoTask \notin [work : W, after : SUBSET Tasks, running : BOOLEAN],
           NEW n, n = Submit(d, s, w)
    PROVE  Good(n, W) /\ Adds(d, n, s, w)
<1> DEFINE t == Slot(d)
           task == [work |-> w, after |-> d.front[s], running |-> FALSE]
<1>1. t \in Tasks /\ t \notin InFlight(d)
  BY SlotIsFree
<1> HIDE DEF t
<1>2. d.front[s] \in SUBSET Tasks /\ d.front[s] \subseteq Queued(d.tasks)
  BY DEF Good, Device, Sane
<1>3. task \in [work : W, after : SUBSET Tasks, running : BOOLEAN] /\ task # NoTask
  <2>1. task \in [work : W, after : SUBSET Tasks, running : BOOLEAN]
    BY <1>2
  <2> HIDE DEF task
  <2> QED BY <2>1
<1>4. /\ n.tasks = [d.tasks EXCEPT ![t] = task]
      /\ n.points = d.points
      /\ n.front = [d.front EXCEPT ![s] = {t}]
  BY DEF Submit, Good, Device, t
<1>5. n \in Device(W)
  <2>1. n.tasks \in [Tasks -> [work : W, after : SUBSET Tasks, running : BOOLEAN] \cup {NoTask}]
    BY <1>1, <1>3, <1>4 DEF Good, Device
  <2>2. n.front \in [Streams -> SUBSET Tasks] /\ n.points \in [Events -> SUBSET Tasks]
    BY <1>1, <1>4 DEF Good, Device
  <2>3. n = [tasks |-> n.tasks, front |-> n.front, points |-> n.points]
    BY DEF Submit, Good, Device
  <2> QED BY <2>1, <2>2, <2>3 DEF Device
<1>6. Room(d.tasks, t, d.front[s], w)
  BY <1>1, <1>2, <1>3 DEF Room, Good, Device, Sane, InFlight, Queued
<1>7. n.tasks = Enqueued(d.tasks, t, d.front[s], w)
  BY <1>4 DEF Enqueued
<1>8. Grown(d.tasks, n.tasks, t, d.front[s], w)
  BY <1>6, <1>7, QueuedNow
<1>9. Good(n, W)
  <2>1. Sane(n)
    BY <1>4, <1>8 DEF Grown, Sane, Good, Device
  <2> QED BY <1>5, <2>1 DEF Good
<1>10. n.front[s] = {t}
  BY <1>4 DEF Good, Device
<1>11. InFlight(n) = InFlight(d) \cup {t}
  BY <1>8 DEF Grown, Queued, InFlight
<1> QED BY <1>4, <1>6, <1>7, <1>9, <1>10, <1>11 DEF t, Adds

LEMMA Starting ==
    ASSUME NEW d, NEW W, Good(d, W), NEW t \in Tasks, CanStart(d, t),
           NoTask \notin [work : W, after : SUBSET Tasks, running : BOOLEAN],
           NEW n, n = Started(d, t)
    PROVE  /\ Good(n, W)
           /\ Ending(d.tasks, W, t)
           /\ n.tasks = Begun(d.tasks, t)
           /\ n.points = d.points
<1>1. Ending(d.tasks, W, t)
  BY DEF Ending, Good, Sane, Device, TasksTyped, CanStart, Queued
<1>2. n.tasks = Begun(d.tasks, t) /\ n.points = d.points /\ n.front = d.front
  BY DEF Started, Begun, Good, Device
<1>3. TasksTyped(n.tasks, W) /\ Queued(n.tasks) = Queued(d.tasks) /\ Sound(n.tasks)
  BY <1>1, <1>2, OrderBegun
<1>4. n = [tasks |-> n.tasks, front |-> n.front, points |-> n.points]
  BY DEF Started, Good, Device
<1>5. n \in Device(W)
  BY <1>2, <1>3, <1>4 DEF Good, Device, TasksTyped
<1>6. Sane(n)
  BY <1>2, <1>3 DEF Good, Sane
<1> QED BY <1>1, <1>2, <1>5, <1>6 DEF Good

LEMMA Finishing ==
    ASSUME NEW d, NEW W, Good(d, W), NEW t \in Tasks, t \in Running(d),
           NoTask \notin [work : W, after : SUBSET Tasks, running : BOOLEAN],
           NEW n, n = Finished(d, t)
    PROVE  /\ Good(n, W)
           /\ Ending(d.tasks, W, t)
           /\ n.tasks = Ended(d.tasks, t)
           /\ n.points = [e \in Events |-> d.points[e] \ {t}]
<1>1. Ending(d.tasks, W, t)
  BY DEF Ending, Good, Sane, Sound, Device, TasksTyped, Running, InFlight, Queued
<1>2. /\ n.tasks = Ended(d.tasks, t)
      /\ n.points = [e \in Events |-> d.points[e] \ {t}]
      /\ n.front = [s \in Streams |-> d.front[s] \ {t}]
      /\ n = [tasks |-> n.tasks, front |-> n.front, points |-> n.points]
  BY DEF Finished, Ended
<1>3. /\ TasksTyped(n.tasks, W)
      /\ Queued(n.tasks) = Queued(d.tasks) \ {t}
      /\ Sound(n.tasks)
  BY <1>1, <1>2, QueuedStill
<1>4. n \in Device(W)
  BY <1>2, <1>3 DEF Good, Device, TasksTyped
<1>5. Sane(n)
  BY <1>2, <1>3 DEF Good, Sane
<1> QED BY <1>1, <1>2, <1>4, <1>5 DEF Good

-----------------------------------------------------------------------------
(* The invariant *)

\* Only programs are replayed, and what is in use is open.
Live(ts, st) ==
    \A t \in Queued(ts) :
        /\ st[ts[t].work.of] = "ready"
        /\ ts[t].work.kind \in {"replay", "clone"} => ts[t].work.of \in Programs

Fresh(ready, st) == \A b \in Owners : ready[b] => st[b] # "absent"

\* The work that event e covers.
By(ts, points, e, t) == WaitsFor(ts, points[e], t)

TracedTask(ts, points, ready, t) ==
    LET work == ts[t].work IN
    /\ work.kind = "copy" => By(ts, points, Copies(work.of), t)
    /\ work.kind = "copy" /\ ready[work.of] => By(ts, points, Latest(work.of), t)
    /\ work.kind = "copy" /\ ~ready[work.of] /\ work.of \in Programs => By(ts, points, Reads(work.of), t)
    /\ work.kind # "copy" => By(ts, points, Reads(work.of), t)
    /\ work.kind = "replay" /\ work.of \in Pooled => By(ts, points, Pool, t)

Traced(ts, points, ready) == \A t \in Queued(ts) : TracedTask(ts, points, ready, t)

\* Two tasks that must not run together.
Clash(w, x) ==
    \/ w.of = x.of /\ ~(w.kind = "read" /\ x.kind = "read")
    \/ w.kind = "replay" /\ x.kind = "replay" /\ w.of \in Pooled /\ x.of \in Pooled

Ordered(ts) ==
    \A t, u \in Queued(ts) :
        Clash(ts[t].work, ts[u].work) => t = u \/ Before(ts, t, u) \/ Before(ts, u, t)

\* The writers X, last of all the one that follows the others, leave the value v.
Settles(ts, X, current, v) ==
    /\ \A c \in X : (\A x \in X \ {c} : Before(ts, x, c)) => ts[c].work.payload = v
    /\ X = {} => current = v

OfKind(ts, kind, b) == {t \in Queued(ts) : ts[t].work.kind = kind /\ ts[t].work.of = b}

\* Those of them that t waits for.
Earlier(ts, kind, b, t) == {c \in OfKind(ts, kind, b) : Before(ts, c, t)}

ForeseenTask(ts, ins, outs, t) ==
    LET work == ts[t].work IN
    /\ work.kind \in {"replay", "read"} =>
           Settles(ts, Earlier(ts, "copy", work.of, t), ins[work.of], work.payload)
    /\ work.kind = "clone" =>
           Settles(ts, Earlier(ts, "replay", work.of, t), outs[work.of], work.payload)

Foreseen(ts, ins, outs) == \A t \in Queued(ts) : ForeseenTask(ts, ins, outs, t)

\* The copies in flight leave the payload last submitted.
HeldComes(ts, st, ins, hs) ==
    \A b \in Owners :
        st[b] = "ready" => hs[b] \in Payloads /\ Settles(ts, OfKind(ts, "copy", b), ins[b], hs[b])

IInv ==
    /\ TypeOK
    /\ Sane(device)
    /\ Live(device.tasks, stage)
    /\ Fresh(prepared, stage)
    /\ Traced(device.tasks, device.points, prepared)
    /\ Ordered(device.tasks)
    /\ Foreseen(device.tasks, inputs, outputs)
    /\ HeldComes(device.tasks, stage, inputs, held)

-----------------------------------------------------------------------------
(* A task is enqueued *)

LEMMA OrderedMore ==
    ASSUME NEW ts, NEW t, NEW A, NEW w, Room(ts, t, A, w),
           NEW now, now = Enqueued(ts, t, A, w),
           Ordered(ts),
           \A u \in Queued(ts) : Clash(ts[u].work, w) \/ Clash(w, ts[u].work) => WaitsFor(ts, A, u)
    PROVE  Ordered(now)
<1>1. Grown(ts, now, t, A, w)
  BY QueuedNow
<1>2. now[t].work = w
  BY <1>1 DEF Grown
<1>3. \A y \in Queued(ts) : now[y] = ts[y]
  BY <1>1 DEF Grown
<1>4. \A x, y \in Queued(ts) : Before(now, x, y) <=> Before(ts, x, y)
  BY BeforeKept
<1>5. \A x \in Queued(ts) : WaitsFor(ts, A, x) => Before(now, x, t)
  BY FollowedIsBefore
<1> SUFFICES ASSUME NEW x \in Queued(ts) \cup {t}, NEW y \in Queued(ts) \cup {t},
                    Clash(now[x].work, now[y].work)
             PROVE  x = y \/ Before(now, x, y) \/ Before(now, y, x)
  BY <1>1 DEF Ordered, Grown
<1>6. CASE x \in Queued(ts) /\ y \in Queued(ts)
  BY <1>3, <1>4, <1>6 DEF Ordered
<1>7. CASE x = t /\ y \in Queued(ts)
  BY <1>2, <1>3, <1>5, <1>7
<1>8. CASE x \in Queued(ts) /\ y = t
  BY <1>2, <1>3, <1>5, <1>8
<1> QED BY <1>6, <1>7, <1>8

LEMMA SettlesStill ==
    ASSUME NEW ts, NEW t, NEW A, NEW w, Room(ts, t, A, w),
           NEW now, now = Enqueued(ts, t, A, w),
           NEW X \in SUBSET Queued(ts), NEW current, NEW v, Settles(ts, X, current, v)
    PROVE  Settles(now, X, current, v)
<1>1. Grown(ts, now, t, A, w)
  BY QueuedNow
<1>2. \A x \in X : now[x] = ts[x]
  BY <1>1 DEF Grown
<1>3. \A x, y \in X : Before(now, x, y) <=> Before(ts, x, y)
  BY BeforeKept
<1> QED BY <1>2, <1>3 DEF Settles

\* Nothing enqueued earlier can be the last of X and the new task.
LEMMA SettlesNow ==
    ASSUME NEW ts, NEW t, NEW A, NEW w, Room(ts, t, A, w),
           NEW now, now = Enqueued(ts, t, A, w),
           NEW X \in SUBSET Queued(ts), NEW current
    PROVE  Settles(now, X \cup {t}, current, w.payload)
<1>1. Grown(ts, now, t, A, w)
  BY QueuedNow
<1>2. now[t].work.payload = w.payload
  BY <1>1 DEF Grown
<1>3. \A y \in X : ~Before(now, t, y)
  BY BeforeKept
<1>4. t \notin X
  BY DEF Room
<1> QED BY <1>2, <1>3, <1>4 DEF Settles

LEMMA EarlierKept ==
    ASSUME NEW ts, NEW t, NEW A, NEW w, Room(ts, t, A, w),
           NEW now, now = Enqueued(ts, t, A, w), NEW kind, NEW b,
           NEW y \in Queued(ts)
    PROVE  Earlier(now, kind, b, y) = Earlier(ts, kind, b, y)
<1>1. Grown(ts, now, t, A, w)
  BY QueuedNow
<1>2. Queued(now) = Queued(ts) \cup {t} /\ \A x \in Queued(ts) : now[x] = ts[x]
  BY <1>1 DEF Grown
<1>3. ~Before(now, t, y) /\ \A x \in Queued(ts) : Before(now, x, y) <=> Before(ts, x, y)
  BY BeforeKept
<1> QED BY <1>2, <1>3 DEF Earlier, OfKind

\* What the new task must find is what those it follows leave.
LEMMA ForeseenMore ==
    ASSUME NEW ts, NEW t, NEW A, NEW w, Room(ts, t, A, w),
           NEW now, now = Enqueued(ts, t, A, w), NEW ins, NEW outs,
           Foreseen(ts, ins, outs),
           ForeseenTask(now, ins, outs, t)
    PROVE  Foreseen(now, ins, outs)
<1>1. Grown(ts, now, t, A, w)
  BY QueuedNow
<1> SUFFICES ASSUME NEW y \in Queued(ts)
             PROVE  ForeseenTask(now, ins, outs, y)
  BY <1>1 DEF Foreseen, Grown
<1>2. now[y] = ts[y]
  BY <1>1 DEF Grown
<1>3. ForeseenTask(ts, ins, outs, y)
  BY DEF Foreseen
<1>4. /\ Earlier(now, "copy", ts[y].work.of, y) = Earlier(ts, "copy", ts[y].work.of, y)
      /\ Earlier(now, "replay", ts[y].work.of, y) = Earlier(ts, "replay", ts[y].work.of, y)
  BY EarlierKept
<1>5. /\ Earlier(ts, "copy", ts[y].work.of, y) \in SUBSET Queued(ts)
      /\ Earlier(ts, "replay", ts[y].work.of, y) \in SUBSET Queued(ts)
  BY DEF Earlier, OfKind
<1>6. ASSUME ts[y].work.kind \in {"replay", "read"}
      PROVE  Settles(now, Earlier(ts, "copy", ts[y].work.of, y), ins[ts[y].work.of], ts[y].work.payload)
  <2>1. Settles(ts, Earlier(ts, "copy", ts[y].work.of, y), ins[ts[y].work.of], ts[y].work.payload)
    BY <1>3, <1>6 DEF ForeseenTask
  <2> QED BY <1>5, <2>1, SettlesStill
<1>7. ASSUME ts[y].work.kind = "clone"
      PROVE  Settles(now, Earlier(ts, "replay", ts[y].work.of, y), outs[ts[y].work.of], ts[y].work.payload)
  <2>1. Settles(ts, Earlier(ts, "replay", ts[y].work.of, y), outs[ts[y].work.of], ts[y].work.payload)
    BY <1>3, <1>7 DEF ForeseenTask
  <2> QED BY <1>5, <2>1, SettlesStill
<1> QED BY <1>2, <1>4, <1>6, <1>7 DEF ForeseenTask

\* The event e keeps what it covers or comes to cover the new task as well.
LEMMA CoveredStill ==
    ASSUME NEW ts, NEW t, NEW A, NEW w, Room(ts, t, A, w),
           NEW now, now = Enqueued(ts, t, A, w),
           NEW P \in SUBSET Queued(ts), NEW Q, NEW u \in Queued(ts),
           \/ WaitsFor(ts, P, u) /\ P \subseteq Q
           \/ WaitsFor(ts, A, u) /\ t \in Q
    PROVE  WaitsFor(now, Q, u)
<1>1. CASE WaitsFor(ts, P, u) /\ P \subseteq Q
  <2>1. WaitsFor(now, P, u)
    BY <1>1, OrderKept
  <2> QED BY <1>1, <2>1, WaitsForMore
<1>2. CASE WaitsFor(ts, A, u) /\ t \in Q
  <2>1. Before(now, u, t)
    BY <1>2, FollowedIsBefore
  <2>2. Grown(ts, now, t, A, w)
    BY QueuedNow
  <2>3. t \in Queued(now)
    BY <2>2 DEF Grown
  <2> QED BY <1>2, <2>1, <2>3, WaitsForEarlier
<1> QED BY <1>1, <1>2

-----------------------------------------------------------------------------
(* Copies *)

Names(b) == {Copies(b), Latest(b), Reads(b), Pool}

LEMMA NamesDiffer ==
    /\ \A b \in Owners : Names(b) \subseteq Events
    /\ \A b, c : Copies(b) # Latest(c) /\ Copies(b) # Reads(c) /\ Latest(b) # Reads(c)
    /\ \A b, c : b # c => Copies(b) # Copies(c) /\ Latest(b) # Latest(c) /\ Reads(b) # Reads(c)
    /\ \A b \in Owners : Copies(b) # Pool /\ Latest(b) # Pool /\ Reads(b) # Pool
BY GraphAssumption DEF Names, Copies, Latest, Reads

\* The task t, enqueued after A, is all that a step adds to the device.
Gains(d, now, t, A, w) ==
    /\ Room(d.tasks, t, A, w)
    /\ now.tasks = Enqueued(d.tasks, t, A, w)
    /\ InFlight(now) = InFlight(d) \cup {t}

Changes(d, now, events) == \A e \in Events \ events : now.points[e] = d.points[e]

\* The copy follows those before it, and both of its events cover it.
CopyGained(d, now, b, s, v) ==
    \E t, A :
        /\ Gains(d, now, t, A, Item("copy", b, v))
        /\ d.front[s] \cup d.points[Copies(b)] \subseteq A
        /\ Changes(d, now, {Copies(b), Latest(b)})
        /\ now.points[Copies(b)] = d.points[Copies(b)] \cup {t}
        /\ now.points[Latest(b)] = {t}

LEMMA Copied ==
    ASSUME NEW d, Good(d, Work), HasSlots(d, 1),
           NEW b \in Owners, NEW s \in Streams, NEW v \in Payloads,
           NEW now, now = BufferCopy(d, b, s, v)
    PROVE  Good(now, Work) /\ CopyGained(d, now, b, s, v)
<1> DEFINE w == Item("copy", b, v)
           d1 == WaitEvent(d, s, Copies(b))
           d2 == Submit(d1, s, w)
           d3 == RecordAlso(d2, s, Copies(b))
           t == Slot(d1)
<1>1. w \in Work
  BY DEF Item, Work
<1>2. Copies(b) \in Events /\ Latest(b) \in Events /\ Copies(b) # Latest(b)
  BY NamesDiffer DEF Names
<1>3. now = RecordEvent(d3, s, Latest(b))
  BY DEF BufferCopy
<1> HIDE DEF w
<1>4. /\ Good(d1, Work) /\ d1.tasks = d.tasks /\ d1.points = d.points
      /\ d1.front[s] = d.front[s] \cup d.points[Copies(b)]
  BY <1>2, Waited
<1> HIDE DEF d1
<1>5. HasSlots(d1, 1) /\ InFlight(d1) = InFlight(d)
  BY <1>4 DEF HasSlots, InFlight
<1>6. Good(d2, Work) /\ Adds(d1, d2, s, w)
  BY <1>1, <1>4, <1>5, WorkAssumption, Submitted
<1> HIDE DEF d2
<1>7. Good(d3, Work) /\ OnlyPoints(d2, d3, [d2.points EXCEPT ![Copies(b)] = @ \cup d2.front[s]])
  BY <1>2, <1>6, RecordedAlso
<1> HIDE DEF d3
<1>8. Good(now, Work) /\ OnlyPoints(d3, now, [d3.points EXCEPT ![Latest(b)] = d3.front[s]])
  BY <1>2, <1>3, <1>7, Recorded
<1>9. Gains(d, now, t, d1.front[s], w)
  <2>1. now.tasks = d2.tasks
    BY <1>7, <1>8 DEF OnlyPoints
  <2>2. InFlight(now) = InFlight(d2)
    BY <2>1 DEF InFlight
  <2> QED BY <1>4, <1>5, <1>6, <2>1, <2>2 DEF Adds, Gains
<1>10. d.points \in [Events -> SUBSET Tasks]
  BY DEF Good, Device
<1>11. /\ Changes(d, now, {Copies(b), Latest(b)})
       /\ now.points[Copies(b)] = d.points[Copies(b)] \cup {t}
       /\ now.points[Latest(b)] = {t}
  BY <1>2, <1>4, <1>6, <1>7, <1>8, <1>10 DEF Changes, Adds, OnlyPoints
<1> QED BY <1>4, <1>8, <1>9, <1>11 DEF w, CopyGained

LEMMA HeldComesStill ==
    ASSUME NEW ts, NEW t, NEW A, NEW w, Room(ts, t, A, w),
           NEW now, now = Enqueued(ts, t, A, w),
           NEW st, NEW ins, NEW hs, HeldComes(ts, st, ins, hs), w.kind # "copy"
    PROVE  HeldComes(now, st, ins, hs)
<1>1. Grown(ts, now, t, A, w)
  BY QueuedNow
<1> SUFFICES ASSUME NEW b \in Owners, st[b] = "ready"
             PROVE  hs[b] \in Payloads /\ Settles(now, OfKind(now, "copy", b), ins[b], hs[b])
  BY DEF HeldComes
<1>2. OfKind(now, "copy", b) = OfKind(ts, "copy", b)
  BY <1>1 DEF Grown, OfKind
<1>3. hs[b] \in Payloads /\ Settles(ts, OfKind(ts, "copy", b), ins[b], hs[b])
  BY DEF HeldComes
<1>4. OfKind(ts, "copy", b) \in SUBSET Queued(ts)
  BY DEF OfKind
<1>5. Settles(now, OfKind(ts, "copy", b), ins[b], hs[b])
  BY <1>3, <1>4, SettlesStill
<1> QED BY <1>2, <1>3, <1>5

\* The host submits v to b, and changes nothing of the others.
SubmitsTo(b, v, st, hs, st2, hs2) ==
    /\ hs2[b] = v /\ v \in Payloads
    /\ \A c \in Owners : c # b => st2[c] = st[c] /\ hs2[c] = hs[c]

\* The payload of the new copy is the one last submitted.
LEMMA HeldComesNow ==
    ASSUME NEW ts, NEW t, NEW A, NEW w, Room(ts, t, A, w),
           NEW now, now = Enqueued(ts, t, A, w),
           NEW st, NEW ins, NEW hs, HeldComes(ts, st, ins, hs),
           w.kind = "copy",
           NEW st2, NEW hs2, SubmitsTo(w.of, w.payload, st, hs, st2, hs2)
    PROVE  HeldComes(now, st2, ins, hs2)
<1>1. Grown(ts, now, t, A, w)
  BY QueuedNow
<1>0. /\ hs2[w.of] = w.payload /\ w.payload \in Payloads
      /\ \A c \in Owners : c # w.of => st2[c] = st[c] /\ hs2[c] = hs[c]
  BY DEF SubmitsTo
<1> SUFFICES ASSUME NEW b \in Owners, st2[b] = "ready"
             PROVE  hs2[b] \in Payloads /\ Settles(now, OfKind(now, "copy", b), ins[b], hs2[b])
  BY DEF HeldComes
<1>2. OfKind(ts, "copy", b) \in SUBSET Queued(ts)
  BY DEF OfKind
<1>3. CASE b # w.of
  <2>1. OfKind(now, "copy", b) = OfKind(ts, "copy", b)
    BY <1>1, <1>3 DEF Grown, OfKind
  <2>2. hs[b] \in Payloads /\ Settles(ts, OfKind(ts, "copy", b), ins[b], hs[b])
    BY <1>0, <1>3 DEF HeldComes
  <2>3. Settles(now, OfKind(ts, "copy", b), ins[b], hs[b])
    BY <1>2, <2>2, SettlesStill
  <2> QED BY <1>0, <1>3, <2>1, <2>2, <2>3
<1>4. CASE b = w.of
  <2>1. OfKind(now, "copy", b) = OfKind(ts, "copy", b) \cup {t}
    BY <1>1, <1>4 DEF Grown, OfKind
  <2>2. Settles(now, OfKind(ts, "copy", b) \cup {t}, ins[b], w.payload)
    BY <1>2, SettlesNow
  <2> QED BY <1>0, <1>4, <2>1, <2>2
<1> QED BY <1>3, <1>4

LEMMA LiveMore ==
    ASSUME NEW ts, NEW t, NEW A, NEW w, Room(ts, t, A, w),
           NEW now, now = Enqueued(ts, t, A, w),
           NEW st, NEW st2, Live(ts, st), st2[w.of] = "ready",
           w.kind \in {"replay", "clone"} => w.of \in Programs,
           \A b : st[b] = "ready" => st2[b] = "ready"
    PROVE  Live(now, st2)
<1>1. Grown(ts, now, t, A, w)
  BY QueuedNow
<1> QED BY <1>1 DEF Grown, Live

\* A copy that follows all uses of its buffer.
LEMMA CopyKeeps ==
    ASSUME IInv, NEW b \in Owners, NEW s \in Streams, NEW v \in Payloads,
           NEW t, NEW A, Gains(device, device', t, A, Item("copy", b, v)), Good(device', Work),
           \A u \in Queued(device.tasks) : device.tasks[u].work.of = b => WaitsFor(device.tasks, A, u),
           stage'[b] = "ready", \A c \in Owners \ {b} : stage'[c] = stage[c],
           \A c : stage[c] = "ready" => stage'[c] = "ready",
           held' = [held EXCEPT ![b] = v], UNCHANGED memory
    PROVE  /\ Live(device'.tasks, stage')
           /\ Ordered(device'.tasks)
           /\ Foreseen(device'.tasks, inputs', outputs')
           /\ HeldComes(device'.tasks, stage', inputs', held')
<1> DEFINE w == Item("copy", b, v)
           ts == device.tasks
           now == device'.tasks
<1>1. w.kind = "copy" /\ w.of = b /\ w.payload = v
  BY DEF Item
<1> HIDE DEF w
<1>2. Room(ts, t, A, w) /\ now = Enqueued(ts, t, A, w)
  BY DEF Gains, w
<1>3. inputs' = inputs /\ outputs' = outputs /\ held \in Contents
  BY DEF IInv, TypeOK, memory
<1>4. Live(ts, stage) /\ Ordered(ts) /\ Foreseen(ts, inputs, outputs) /\ HeldComes(ts, stage, inputs, held)
  BY DEF IInv
<1> HIDE DEF ts, now
<1>5. Live(now, stage')
  BY <1>1, <1>2, <1>4, LiveMore
<1>6. Ordered(now)
  <2>1. \A u \in Queued(ts) : Clash(ts[u].work, w) \/ Clash(w, ts[u].work) => WaitsFor(ts, A, u)
    BY <1>1 DEF Clash, ts
  <2> QED BY <1>2, <1>4, <2>1, OrderedMore
<1>7. Foreseen(now, inputs, outputs)
  <2>1. Grown(ts, now, t, A, w)
    BY <1>2, QueuedNow
  <2>2. ForeseenTask(now, inputs, outputs, t)
    BY <1>1, <2>1 DEF Grown, ForeseenTask
  <2> QED BY <1>2, <1>4, <2>2, ForeseenMore
<1>8. HeldComes(now, stage', inputs, held')
  <2>1. held'[b] = v /\ \A c \in Owners \ {b} : held'[c] = held[c]
    BY <1>3 DEF Contents
  <2>2. SubmitsTo(w.of, w.payload, stage, held, stage', held')
    BY <1>1, <2>1 DEF SubmitsTo
  <2>3. w.kind = "copy"
    BY <1>1
  <2> QED BY <1>2, <1>4, <2>2, <2>3, HeldComesNow
<1> QED BY <1>3, <1>5, <1>6, <1>7, <1>8 DEF now

\* What a step does to an event decides whether it still covers its tasks.
LEMMA EventsCover ==
    ASSUME NEW d, NEW now, NEW t, NEW A, NEW w, Gains(d, now, t, A, w), Good(d, Work)
    PROVE  /\ \A u \in Queued(d.tasks), e \in Events :
                \/ By(d.tasks, d.points, e, u) /\ d.points[e] \subseteq now.points[e]
                \/ WaitsFor(d.tasks, A, u) /\ t \in now.points[e]
                => By(now.tasks, now.points, e, u)
           /\ \A e \in Events : t \in now.points[e] => By(now.tasks, now.points, e, t)
           /\ Queued(now.tasks) = Queued(d.tasks) \cup {t}
           /\ now.tasks[t].work = w
           /\ \A u \in Queued(d.tasks) : now.tasks[u].work = d.tasks[u].work
<1>1. Room(d.tasks, t, A, w) /\ now.tasks = Enqueued(d.tasks, t, A, w)
  BY DEF Gains
<1>2. Grown(d.tasks, now.tasks, t, A, w)
  BY <1>1, QueuedNow
<1>3. ASSUME NEW u \in Queued(d.tasks), NEW e \in Events,
             \/ By(d.tasks, d.points, e, u) /\ d.points[e] \subseteq now.points[e]
             \/ WaitsFor(d.tasks, A, u) /\ t \in now.points[e]
      PROVE  By(now.tasks, now.points, e, u)
  <2>1. d.points[e] \in SUBSET Queued(d.tasks)
    BY DEF Good, Sane
  <2>2. \/ WaitsFor(d.tasks, d.points[e], u) /\ d.points[e] \subseteq now.points[e]
        \/ WaitsFor(d.tasks, A, u) /\ t \in now.points[e]
    BY <1>3 DEF By
  <2>3. WaitsFor(now.tasks, now.points[e], u)
    BY <1>1, <2>1, <2>2, CoveredStill
  <2> QED BY <2>3 DEF By
<1>4. \A e \in Events : t \in now.points[e] => By(now.tasks, now.points, e, t)
  BY WaitsForMember DEF By
<1> QED BY <1>2, <1>3, <1>4 DEF Grown

LEMMA CopyTraced ==
    ASSUME IInv, NEW b \in Owners, NEW v, NEW t, NEW A,
           Gains(device, device', t, A, Item("copy", b, v)),
           device.points[Copies(b)] \subseteq A,
           Changes(device, device', {Copies(b), Latest(b)}),
           device'.points[Copies(b)] = device.points[Copies(b)] \cup {t},
           device'.points[Latest(b)] = {t},
           prepared' = [prepared EXCEPT ![b] = TRUE]
    PROVE  Traced(device'.tasks, device'.points, prepared')
<1> DEFINE ts == device.tasks
           now == device'.tasks
           w == Item("copy", b, v)
<1>1. /\ device \in Device(Work) /\ Good(device, Work) /\ prepared \in [Owners -> BOOLEAN]
      /\ Traced(ts, device.points, prepared)
  BY DEF IInv, TypeOK, Good
<1>2. /\ \A u \in Queued(ts), e \in Events :
                \/ By(ts, device.points, e, u) /\ device.points[e] \subseteq device'.points[e]
                \/ WaitsFor(ts, A, u) /\ t \in device'.points[e]
                => By(now, device'.points, e, u)
      /\ \A e \in Events : t \in device'.points[e] => By(now, device'.points, e, t)
      /\ Queued(now) = Queued(ts) \cup {t}
      /\ now[t].work = w
      /\ \A u \in Queued(ts) : now[u].work = ts[u].work
  BY <1>1, EventsCover
<1>3. w.kind = "copy" /\ w.of = b
  BY DEF Item
<1> HIDE DEF w
<1>4. \A e \in Events : e # Latest(b) => device.points[e] \subseteq device'.points[e]
  BY DEF Changes
<1>5. \A u \in Queued(ts) : By(ts, device.points, Copies(b), u) => WaitsFor(ts, A, u)
  BY WaitsForMore DEF By
<1>6. \A u \in Queued(ts) : ts[u].work.of \in Owners
  BY <1>1 DEF Device, Work, Queued
<1> HIDE DEF ts, now
<1>7. ASSUME NEW u \in Queued(ts)
      PROVE  TracedTask(now, device'.points, prepared', u)
  <2> DEFINE c == ts[u].work.of
             kind == ts[u].work.kind
  <2>1. c \in Owners /\ Names(c) \subseteq Events /\ now[u].work = ts[u].work
    BY <1>2, <1>6, NamesDiffer
  <2>2. TracedTask(ts, device.points, prepared, u)
    BY <1>1 DEF Traced
  <2>3. kind = "copy" => By(now, device'.points, Copies(c), u)
    BY <1>2, <1>4, <2>1, <2>2, NamesDiffer DEF TracedTask, Names
  <2>4. kind # "copy" \/ (~prepared'[c] /\ c \in Programs) => By(now, device'.points, Reads(c), u)
    BY <1>1, <1>2, <1>4, <2>1, <2>2, NamesDiffer DEF TracedTask, Names
  <2>5. kind = "replay" /\ c \in Pooled => By(now, device'.points, Pool, u)
    BY <1>2, <1>4, <2>1, <2>2, NamesDiffer DEF TracedTask, Names
  <2>6. kind = "copy" /\ prepared'[c] => By(now, device'.points, Latest(c), u)
    <3>1. CASE c = b
      BY <1>2, <1>5, <2>1, <2>2, <3>1 DEF TracedTask, Names
    <3>2. CASE c # b
      BY <1>1, <1>2, <1>4, <2>1, <2>2, <3>2, NamesDiffer DEF TracedTask, Names
    <3> QED BY <3>1, <3>2
  <2> QED BY <2>1, <2>3, <2>4, <2>5, <2>6 DEF TracedTask
<1>8. TracedTask(now, device'.points, prepared', t)
  BY <1>1, <1>2, <1>3, NamesDiffer DEF TracedTask, Names
<1> QED BY <1>2, <1>7, <1>8 DEF Traced, now

LEMMA HandleCopied ==
    ASSUME IInv, NEW b \in Owners, NEW s \in Streams, NEW v \in Payloads,
           Ready(b), HasSlots(device, 1),
           device' = BufferCopy(WaitEvent(device, s, Reads(b)), b, s, v),
           held' = [held EXCEPT ![b] = v], prepared' = [prepared EXCEPT ![b] = TRUE],
           UNCHANGED <<stage, pool, memory>>
    PROVE  IInv'
<1> DEFINE w == Item("copy", b, v)
           d == WaitEvent(device, s, Reads(b))
           ts == device.tasks
<1>1. Good(device, Work) /\ Traced(ts, device.points, prepared) /\ Fresh(prepared, stage) /\ TypeOK
  BY DEF IInv, TypeOK, Good
<1>2. Reads(b) \in Events
  BY NamesDiffer DEF Names
<1>3. /\ Good(d, Work) /\ d.tasks = device.tasks /\ d.points = device.points
      /\ d.front[s] = device.front[s] \cup device.points[Reads(b)]
  BY <1>1, <1>2, Waited
<1>4. device' = BufferCopy(d, b, s, v)
  OBVIOUS
<1> HIDE DEF d
<1>5. HasSlots(d, 1) /\ InFlight(d) = InFlight(device)
  BY <1>3 DEF HasSlots, InFlight
<1>6. Good(device', Work) /\ CopyGained(d, device', b, s, v)
  BY <1>3, <1>4, <1>5, Copied
<1>7. PICK t, A :
        /\ Gains(d, device', t, A, w)
        /\ d.front[s] \cup d.points[Copies(b)] \subseteq A
        /\ Changes(d, device', {Copies(b), Latest(b)})
        /\ device'.points[Copies(b)] = d.points[Copies(b)] \cup {t}
        /\ device'.points[Latest(b)] = {t}
  BY <1>6 DEF CopyGained
<1> HIDE DEF w
<1>8. /\ Gains(device, device', t, A, w)
      /\ Changes(device, device', {Copies(b), Latest(b)})
      /\ device.points[Reads(b)] \subseteq A /\ device.points[Copies(b)] \subseteq A
      /\ device'.points[Copies(b)] = device.points[Copies(b)] \cup {t}
      /\ device'.points[Latest(b)] = {t}
  BY <1>3, <1>5, <1>7 DEF Gains, Changes
<1>9. \A u \in Queued(ts) : ts[u].work.of = b => WaitsFor(ts, A, u)
  <2>1. \A u \in Queued(ts) : ts[u].work.of = b =>
          WaitsFor(ts, device.points[Copies(b)], u) \/ WaitsFor(ts, device.points[Reads(b)], u)
    BY <1>1 DEF Traced, TracedTask, By
  <2> QED BY <1>8, <2>1, WaitsForMore
<1>10. stage'[b] = "ready" /\ stage' = stage
  BY DEF Ready
<1>11. /\ Live(device'.tasks, stage')
       /\ Ordered(device'.tasks)
       /\ Foreseen(device'.tasks, inputs', outputs')
       /\ HeldComes(device'.tasks, stage', inputs', held')
  BY <1>6, <1>8, <1>9, <1>10, CopyKeeps DEF w
<1>12. Traced(device'.tasks, device'.points, prepared')
  BY <1>8, CopyTraced DEF w
<1>13. TypeOK' /\ Sane(device')
  BY <1>1, <1>6 DEF TypeOK, Good, Contents, memory
<1>14. Fresh(prepared', stage')
  BY <1>1, <1>10 DEF Fresh, TypeOK
<1> QED BY <1>11, <1>12, <1>13, <1>14 DEF IInv

LEMMA MakeBufferKeeps ==
    ASSUME IInv, NEW b \in Buffers, NEW s \in Streams, NEW v \in Payloads, MakeBuffer(b, s, v)
    PROVE  IInv'
<1> DEFINE w == Item("copy", b, v)
           n == Submit(device, s, w)
           ts == device.tasks
           t == Slot(device)
           A == device.front[s]
<1>0. b \in Owners /\ b \notin Programs
  BY GraphAssumption DEF Owners
<1>1. Good(device, Work) /\ Traced(ts, device.points, prepared) /\ Fresh(prepared, stage) /\ TypeOK
      /\ Live(ts, stage)
  BY DEF IInv, TypeOK, Good
<1>2. Copies(b) \in Events
  BY <1>0, NamesDiffer DEF Names
<1>3. w \in Work /\ w.kind = "copy" /\ w.of = b
  BY <1>0 DEF Item, Work
<1>4. /\ HasSlots(device, 1) /\ device' = RecordAlso(n, s, Copies(b))
      /\ stage[b] = "absent" /\ stage' = [stage EXCEPT ![b] = "ready"]
      /\ held' = [held EXCEPT ![b] = v] /\ prepared' = prepared /\ pool' = pool /\ UNCHANGED memory
  BY DEF MakeBuffer
<1> HIDE DEF w
<1>5. Good(n, Work) /\ Adds(device, n, s, w)
  BY <1>1, <1>3, <1>4, WorkAssumption, Submitted
<1> HIDE DEF n
<1>6. Good(device', Work) /\ OnlyPoints(n, device', [n.points EXCEPT ![Copies(b)] = @ \cup n.front[s]])
  BY <1>2, <1>4, <1>5, RecordedAlso
<1> HIDE DEF t, A
<1>7. Gains(device, device', t, A, w)
  <2>1. device'.tasks = n.tasks
    BY <1>6 DEF OnlyPoints
  <2>2. InFlight(device') = InFlight(n)
    BY <2>1 DEF InFlight
  <2> QED BY <1>5, <2>1, <2>2 DEF Adds, Gains, t, A
<1>8. /\ device'.points[Copies(b)] = device.points[Copies(b)] \cup {t}
      /\ \A e \in Events : e # Copies(b) => device'.points[e] = device.points[e]
  BY <1>1, <1>2, <1>5, <1>6 DEF Adds, OnlyPoints, t, Good, Device
<1>9. \A u \in Queued(ts) : ts[u].work.of # b
  BY <1>1, <1>4 DEF Live
<1>10. /\ stage'[b] = "ready"
       /\ \A c \in Owners \ {b} : stage'[c] = stage[c]
       /\ \A c : stage[c] = "ready" => stage'[c] = "ready"
  BY <1>0, <1>1, <1>4 DEF TypeOK
<1>11. /\ Live(device'.tasks, stage')
       /\ Ordered(device'.tasks)
       /\ Foreseen(device'.tasks, inputs', outputs')
       /\ HeldComes(device'.tasks, stage', inputs', held')
  BY <1>0, <1>4, <1>6, <1>7, <1>9, <1>10, CopyKeeps DEF w
<1>12. Traced(device'.tasks, device'.points, prepared')
  <2> DEFINE now == device'.tasks
  <2>1. /\ \A u \in Queued(ts), e \in Events :
                \/ By(ts, device.points, e, u) /\ device.points[e] \subseteq device'.points[e]
                \/ WaitsFor(ts, A, u) /\ t \in device'.points[e]
                => By(now, device'.points, e, u)
        /\ \A e \in Events : t \in device'.points[e] => By(now, device'.points, e, t)
        /\ Queued(now) = Queued(ts) \cup {t}
        /\ now[t].work = w
        /\ \A u \in Queued(ts) : now[u].work = ts[u].work
    BY <1>1, <1>7, EventsCover
  <2>2. \A u \in Queued(ts), e \in Events : By(ts, device.points, e, u) => By(now, device'.points, e, u)
    BY <1>8, <2>1
  <2>3. \A u \in Queued(ts) : Names(ts[u].work.of) \subseteq Events
    <3>1. \A u \in Queued(ts) : ts[u].work.of \in Owners
      BY <1>1 DEF Good, Device, Work, Queued
    <3> QED BY <3>1, NamesDiffer
  <2> HIDE DEF now, ts
  <2>4. \A u \in Queued(ts) : TracedTask(now, device'.points, prepared, u)
    BY <1>1, <2>1, <2>2, <2>3 DEF Traced, TracedTask, Names
  <2>5. ~prepared[b]
    BY <1>0, <1>1, <1>4 DEF Fresh
  <2>6. By(now, device'.points, Copies(b), t)
    BY <1>2, <1>8, <2>1
  <2>7. TracedTask(now, device'.points, prepared, t)
    BY <1>0, <1>3, <2>1, <2>5, <2>6 DEF TracedTask
  <2> QED BY <1>4, <2>1, <2>4, <2>7 DEF Traced, now
<1>13. TypeOK' /\ Sane(device')
  BY <1>0, <1>1, <1>4, <1>6 DEF TypeOK, Good, Contents, memory
<1>14. Fresh(prepared', stage')
  BY <1>1, <1>4, <1>10 DEF Fresh, TypeOK
<1> QED BY <1>11, <1>12, <1>13, <1>14 DEF IInv

-----------------------------------------------------------------------------
(* Reads, replays and clones *)

\* The copies in flight all come before the new reader.
LEMMA ReaderForeseen ==
    ASSUME NEW ts, NEW t, NEW A, NEW w, Room(ts, t, A, w),
           NEW now, now = Enqueued(ts, t, A, w),
           NEW st, NEW ins, NEW outs, NEW hs, HeldComes(ts, st, ins, hs),
           w.of \in Owners, st[w.of] = "ready",
           w.kind \in {"replay", "read"}, w.payload = hs[w.of],
           \A c \in OfKind(ts, "copy", w.of) : WaitsFor(ts, A, c)
    PROVE  ForeseenTask(now, ins, outs, t)
<1> DEFINE X == OfKind(ts, "copy", w.of)
<1>1. Grown(ts, now, t, A, w)
  BY QueuedNow
<1>2. X \in SUBSET Queued(ts)
  BY DEF OfKind
<1>3. \A c \in X : Before(now, c, t)
  BY <1>2, FollowedIsBefore
<1>4. Earlier(now, "copy", w.of, t) = X
  BY <1>1, <1>3 DEF Grown, Earlier, OfKind
<1>5. Settles(ts, X, ins[w.of], hs[w.of])
  BY DEF HeldComes
<1> HIDE DEF X
<1>6. Settles(now, X, ins[w.of], hs[w.of])
  BY <1>2, <1>5, SettlesStill
<1>7. now[t].work = w
  BY <1>1 DEF Grown
<1> QED BY <1>4, <1>6, <1>7 DEF ForeseenTask

\* A use that follows all it clashes with, and finds what it should.
LEMMA UseKeeps ==
    ASSUME NEW ts, NEW t, NEW A, NEW w, Room(ts, t, A, w),
           NEW now, now = Enqueued(ts, t, A, w),
           NEW st, NEW ins, NEW outs, NEW hs,
           Live(ts, st), Ordered(ts), Foreseen(ts, ins, outs), HeldComes(ts, st, ins, hs),
           w.kind # "copy", st[w.of] = "ready",
           w.kind \in {"replay", "clone"} => w.of \in Programs,
           \A u \in Queued(ts) : Clash(ts[u].work, w) \/ Clash(w, ts[u].work) => WaitsFor(ts, A, u),
           ForeseenTask(now, ins, outs, t)
    PROVE  Live(now, st) /\ Ordered(now) /\ Foreseen(now, ins, outs) /\ HeldComes(now, st, ins, hs)
<1>1. Live(now, st)
  BY LiveMore
<1>2. Ordered(now)
  BY OrderedMore
<1>3. Foreseen(now, ins, outs)
  BY ForeseenMore
<1>4. HeldComes(now, st, ins, hs)
  BY HeldComesStill
<1> QED BY <1>1, <1>2, <1>3, <1>4

LEMMA ReadBufferKeeps ==
    ASSUME IInv, NEW b \in Buffers, NEW s \in Streams, ReadBuffer(b, s)
    PROVE  IInv'
<1> DEFINE w == Item("read", b, held[b])
           d == WaitEvent(device, s, Latest(b))
           n == Submit(d, s, w)
           ts == device.tasks
           now == device'.tasks
           t == Slot(d)
           A == d.front[s]
<1>0. b \in Owners /\ b \notin Programs
  BY GraphAssumption DEF Owners
<1>1. /\ Good(device, Work) /\ TypeOK /\ Sane(device)
      /\ Traced(ts, device.points, prepared) /\ Fresh(prepared, stage)
      /\ Live(ts, stage) /\ Ordered(ts)
      /\ Foreseen(ts, inputs, outputs) /\ HeldComes(ts, stage, inputs, held)
  BY DEF IInv, TypeOK, Good
<1>2. Latest(b) \in Events /\ Reads(b) \in Events
  BY <1>0, NamesDiffer DEF Names
<1>3. /\ HasSlots(device, 1) /\ device' = RecordAlso(n, s, Reads(b))
      /\ stage[b] = "ready" /\ prepared[b] /\ UNCHANGED <<stage, held, prepared, pool, inputs, outputs>>
  BY DEF ReadBuffer, Ready, host, memory
<1>4. w \in Work /\ w.kind = "read" /\ w.of = b /\ w.payload = held[b]
  BY <1>0, <1>1, <1>3 DEF Item, Work, HeldComes
<1> HIDE DEF w
<1>5. /\ Good(d, Work) /\ d.tasks = device.tasks /\ d.points = device.points
      /\ d.front[s] = device.front[s] \cup device.points[Latest(b)]
  BY <1>1, <1>2, Waited
<1> HIDE DEF d
<1>6. HasSlots(d, 1) /\ InFlight(d) = InFlight(device)
  BY <1>3, <1>5 DEF HasSlots, InFlight
<1>7. Good(n, Work) /\ Adds(d, n, s, w)
  BY <1>4, <1>5, <1>6, WorkAssumption, Submitted
<1> HIDE DEF n
<1>8. Good(device', Work) /\ OnlyPoints(n, device', [n.points EXCEPT ![Reads(b)] = @ \cup n.front[s]])
  BY <1>2, <1>3, <1>7, RecordedAlso
<1> HIDE DEF t, A
<1>9. Gains(device, device', t, A, w)
  <2>1. device'.tasks = n.tasks
    BY <1>8 DEF OnlyPoints
  <2>2. InFlight(device') = InFlight(n)
    BY <2>1 DEF InFlight
  <2> QED BY <1>5, <1>6, <1>7, <2>1, <2>2 DEF Adds, Gains, t, A
<1>10. /\ device'.points[Reads(b)] = device.points[Reads(b)] \cup {t}
       /\ \A e \in Events : e # Reads(b) => device'.points[e] = device.points[e]
  BY <1>1, <1>2, <1>5, <1>7, <1>8 DEF Adds, OnlyPoints, t, Good, Device
<1>11. \A c \in Queued(ts) : ts[c].work.kind = "copy" /\ ts[c].work.of = b => WaitsFor(ts, A, c)
  <2>1. \A c \in Queued(ts) : ts[c].work.kind = "copy" /\ ts[c].work.of = b
                              => WaitsFor(ts, device.points[Latest(b)], c)
    BY <1>1, <1>3 DEF Traced, TracedTask, By
  <2>2. device.points[Latest(b)] \subseteq A
    BY <1>5 DEF A
  <2> QED BY <2>1, <2>2, WaitsForMore
<1>12. Room(ts, t, A, w) /\ now = Enqueued(ts, t, A, w)
  BY <1>9 DEF Gains
<1>13. \A u \in Queued(ts) : Clash(ts[u].work, w) \/ Clash(w, ts[u].work) => WaitsFor(ts, A, u)
  <2>1. \A u \in Queued(ts) : ts[u].work.of = b => ts[u].work.kind \in {"copy", "read"}
    BY <1>0, <1>1 DEF Live, Good, Device, Work, Queued
  <2> QED BY <1>4, <1>11, <2>1 DEF Clash
<1> HIDE DEF ts, now
<1>14. ForeseenTask(now, inputs, outputs, t)
  <2>1. \A c \in OfKind(ts, "copy", w.of) : WaitsFor(ts, A, c)
    BY <1>4, <1>11 DEF OfKind
  <2> QED BY <1>0, <1>1, <1>3, <1>4, <1>12, <2>1, ReaderForeseen
<1>15. Live(now, stage) /\ Ordered(now) /\ Foreseen(now, inputs, outputs) /\ HeldComes(now, stage, inputs, held)
  BY <1>1, <1>3, <1>4, <1>12, <1>13, <1>14, UseKeeps
<1>16. Traced(now, device'.points, prepared)
  <2>1. /\ \A u \in Queued(ts), e \in Events :
                \/ By(ts, device.points, e, u) /\ device.points[e] \subseteq device'.points[e]
                \/ WaitsFor(ts, A, u) /\ t \in device'.points[e]
                => By(now, device'.points, e, u)
        /\ \A e \in Events : t \in device'.points[e] => By(now, device'.points, e, t)
        /\ Queued(now) = Queued(ts) \cup {t}
        /\ now[t].work = w
        /\ \A u \in Queued(ts) : now[u].work = ts[u].work
    BY <1>1, <1>9, EventsCover DEF ts, now
  <2>2. \A u \in Queued(ts), e \in Events : By(ts, device.points, e, u) => By(now, device'.points, e, u)
    BY <1>10, <2>1
  <2>3. \A u \in Queued(ts) : Names(ts[u].work.of) \subseteq Events
    <3>1. \A u \in Queued(ts) : ts[u].work.of \in Owners
      BY <1>1 DEF Good, Device, Work, Queued, ts
    <3> QED BY <3>1, NamesDiffer
  <2>4. \A u \in Queued(ts) : TracedTask(now, device'.points, prepared, u)
    BY <1>1, <2>1, <2>2, <2>3 DEF Traced, TracedTask, Names
  <2>5. By(now, device'.points, Reads(b), t)
    BY <1>2, <1>10, <2>1
  <2>6. TracedTask(now, device'.points, prepared, t)
    BY <1>4, <2>1, <2>5 DEF TracedTask
  <2> QED BY <2>1, <2>4, <2>6 DEF Traced
<1>17. TypeOK' /\ Sane(device')
  BY <1>1, <1>3, <1>8 DEF TypeOK, Good
<1> QED BY <1>1, <1>3, <1>15, <1>16, <1>17 DEF IInv, now

\* A launch follows every use of its program, and every use of the scratch.
FollowsUses(d, A, p) ==
    /\ \A u \in Queued(d.tasks) : d.tasks[u].work.of = p => WaitsFor(d.tasks, A, u)
    /\ p \in Pooled =>
         \A u \in Queued(d.tasks) :
            d.tasks[u].work.kind = "replay" /\ d.tasks[u].work.of \in Pooled => WaitsFor(d.tasks, A, u)

LaunchGained(n, p, s) ==
    \E t, A :
        /\ Gains(device, n, t, A, Item("replay", p, held[p]))
        /\ FollowsUses(device, A, p)
        /\ n.points = device.points
        /\ n.front[s] = {t}

LEMMA LaunchFollows ==
    ASSUME IInv, NEW p \in Programs, NEW s \in Streams, Ready(p), HasSlots(device, 1),
           NEW n, n = Launched(p, s)
    PROVE  Good(n, Work) /\ LaunchGained(n, p, s)
<1> DEFINE w == Item("replay", p, held[p])
           d1 == WaitEvent(device, s, Reads(p))
           d2 == AfterHandle(d1, p, s)
           d3 == AfterScratch(d2, p, s)
           A == d3.front[s]
           t == Slot(d3)
<1>0. p \in Owners
  BY DEF Owners
<1>1. Good(device, Work) /\ Traced(device.tasks, device.points, prepared)
  BY DEF IInv, TypeOK, Good
<1>2. {Reads(p), Latest(p), Pool} \subseteq Events
  BY <1>0, NamesDiffer DEF Names
<1>3. w \in Work
  BY <1>0 DEF IInv, HeldComes, Ready, Item, Work
<1>4. n = Submit(d3, s, w)
  BY DEF Launched
<1> HIDE DEF w
<1>5. /\ Good(d1, Work) /\ d1.tasks = device.tasks /\ d1.points = device.points
      /\ d1.front[s] = device.front[s] \cup device.points[Reads(p)]
  BY <1>1, <1>2, Waited
<1> HIDE DEF d1
<1>6. /\ Good(d2, Work) /\ d2.tasks = device.tasks /\ d2.points = device.points
      /\ device.points[Reads(p)] \subseteq d2.front[s]
      /\ prepared[p] => device.points[Latest(p)] \subseteq d2.front[s]
  <2>1. CASE prepared[p]
    <3>1. d2 = WaitEvent(d1, s, Latest(p))
      BY <2>1 DEF AfterHandle
    <3>2. /\ Good(d2, Work) /\ d2.tasks = d1.tasks /\ d2.points = d1.points
          /\ d2.front[s] = d1.front[s] \cup d1.points[Latest(p)]
      BY <1>2, <1>5, <3>1, Waited
    <3> QED BY <1>5, <3>2
  <2>2. CASE ~prepared[p]
    <3>1. d2 = d1
      BY <2>2 DEF AfterHandle
    <3> QED BY <1>5, <2>2, <3>1
  <2> QED BY <2>1, <2>2
<1> HIDE DEF d2
<1>7. /\ Good(d3, Work) /\ d3.tasks = device.tasks /\ d3.points = device.points
      /\ device.points[Reads(p)] \subseteq A
      /\ prepared[p] => device.points[Latest(p)] \subseteq A
      /\ p \in Pooled => device.points[Pool] \subseteq A
  <2>1. CASE p \in Pooled
    <3>1. d3 = WaitEvent(d2, s, Pool)
      BY <2>1 DEF AfterScratch
    <3>2. /\ Good(d3, Work) /\ d3.tasks = d2.tasks /\ d3.points = d2.points
          /\ d3.front[s] = d2.front[s] \cup d2.points[Pool]
      BY <1>2, <1>6, <3>1, Waited
    <3> QED BY <1>6, <3>2
  <2>2. CASE p \notin Pooled
    <3>1. d3 = d2
      BY <2>2 DEF AfterScratch
    <3> QED BY <1>6, <2>2, <3>1
  <2> QED BY <2>1, <2>2
<1> HIDE DEF d3
<1>8. HasSlots(d3, 1) /\ InFlight(d3) = InFlight(device)
  BY <1>7 DEF HasSlots, InFlight
<1>9. Good(n, Work) /\ Adds(d3, n, s, w)
  BY <1>3, <1>4, <1>7, <1>8, WorkAssumption, Submitted
<1> HIDE DEF t, A
<1>10. Gains(device, n, t, A, w) /\ n.points = device.points /\ n.front[s] = {t}
  BY <1>7, <1>8, <1>9 DEF Adds, Gains, t, A
<1>11. FollowsUses(device, A, p)
  <2>1. \A u \in Queued(device.tasks) : device.tasks[u].work.of = p =>
          \/ WaitsFor(device.tasks, device.points[Reads(p)], u)
          \/ prepared[p] /\ WaitsFor(device.tasks, device.points[Latest(p)], u)
    BY <1>1 DEF Traced, TracedTask, By
  <2>2. \A u \in Queued(device.tasks) :
          device.tasks[u].work.kind = "replay" /\ device.tasks[u].work.of \in Pooled
          => WaitsFor(device.tasks, device.points[Pool], u)
    BY <1>1 DEF Traced, TracedTask, By
  <2>3. \A u \in Queued(device.tasks) : device.tasks[u].work.of = p => WaitsFor(device.tasks, A, u)
    BY <1>7, <2>1, WaitsForMore
  <2>4. p \in Pooled => \A u \in Queued(device.tasks) :
          device.tasks[u].work.kind = "replay" /\ device.tasks[u].work.of \in Pooled
          => WaitsFor(device.tasks, A, u)
    BY <1>7, <2>2, WaitsForMore
  <2> QED BY <2>3, <2>4 DEF FollowsUses
<1> QED BY <1>9, <1>10, <1>11 DEF LaunchGained, w

\* The events that a replay records when it is launched.
CompletedAt(n, m, p, t) ==
    /\ m.tasks = n.tasks
    /\ m.points[Reads(p)] = {t}
    /\ p \in Pooled => m.points[Pool] = {t}
    /\ \A e \in Events : e # Reads(p) /\ (p \in Pooled => e # Pool) => m.points[e] = n.points[e]

LEMMA CompletedRecords ==
    ASSUME NEW n, Good(n, Work), NEW p \in Programs, NEW s \in Streams,
           NEW t, n.front[s] = {t}, NEW m, m = Completed(n, p, s)
    PROVE  Good(m, Work) /\ CompletedAt(n, m, p, t)
<1> DEFINE own == RecordEvent(n, s, Reads(p))
<1>1. p \in Owners /\ Reads(p) \in Events /\ Pool \in Events /\ Reads(p) # Pool
  <2>1. p \in Owners
    BY DEF Owners
  <2> QED BY <2>1, NamesDiffer DEF Names
<1>2. Good(own, Work) /\ OnlyPoints(n, own, [n.points EXCEPT ![Reads(p)] = n.front[s]])
  BY <1>1, Recorded
<1>3. m = IF p \in Pooled THEN RecordEvent(own, s, Pool) ELSE own
  BY DEF Completed
<1> HIDE DEF own
<1>4. n.points \in [Events -> SUBSET Tasks]
  BY DEF Good, Device
<1>5. CASE p \in Pooled
  <2>1. Good(m, Work) /\ OnlyPoints(own, m, [own.points EXCEPT ![Pool] = own.front[s]])
    BY <1>1, <1>2, <1>3, <1>5, Recorded
  <2> QED BY <1>1, <1>2, <1>4, <1>5, <2>1 DEF OnlyPoints, CompletedAt
<1>6. CASE p \notin Pooled
  BY <1>1, <1>2, <1>3, <1>4, <1>6 DEF OnlyPoints, CompletedAt
<1> QED BY <1>5, <1>6

\* The launched graph, or the clone after it, is covered by the events.
LEMMA CompletedTraced ==
    ASSUME NEW d, Good(d, Work), NEW n, NEW p \in Programs, NEW t, NEW A, NEW w,
           Gains(d, n, t, A, w), w.of = p, w.kind \in {"replay", "clone"}, FollowsUses(d, A, p),
           n.points = d.points, NEW m, CompletedAt(n, m, p, t),
           NEW ready \in [Owners -> BOOLEAN], NEW ready2, ready2 = [ready EXCEPT ![p] = FALSE],
           \A u \in Queued(d.tasks) : d.tasks[u].work.of # p => TracedTask(d.tasks, d.points, ready, u),
           \A u \in Queued(d.tasks) : d.tasks[u].work.of = p /\ d.tasks[u].work.kind = "copy"
                                      => By(d.tasks, d.points, Copies(p), u)
    PROVE  Traced(m.tasks, m.points, ready2)
<1> DEFINE ts == d.tasks
           now == m.tasks
<1>0. p \in Owners /\ Names(p) \subseteq Events
  <2>1. p \in Owners
    BY DEF Owners
  <2> QED BY <2>1, NamesDiffer
<1>1. Gains(d, m, t, A, w)
  <2>1. m.tasks = n.tasks
    BY DEF CompletedAt
  <2>2. InFlight(m) = InFlight(n)
    BY <2>1 DEF InFlight
  <2> QED BY <2>1, <2>2 DEF Gains
<1>2. /\ \A u \in Queued(ts), e \in Events :
                \/ By(ts, d.points, e, u) /\ d.points[e] \subseteq m.points[e]
                \/ WaitsFor(ts, A, u) /\ t \in m.points[e]
                => By(now, m.points, e, u)
      /\ \A e \in Events : t \in m.points[e] => By(now, m.points, e, t)
      /\ Queued(now) = Queued(ts) \cup {t}
      /\ now[t].work = w
      /\ \A u \in Queued(ts) : now[u].work = ts[u].work
  BY <1>1, EventsCover
<1>3. /\ m.points[Reads(p)] = {t}
      /\ p \in Pooled => m.points[Pool] = {t}
      /\ \A e \in Events : e # Reads(p) /\ (p \in Pooled => e # Pool) => m.points[e] = d.points[e]
  BY DEF CompletedAt
<1>4. \A u \in Queued(ts) : ts[u].work.of \in Owners
  BY DEF Good, Device, Work, Queued
<1>5. /\ \A u \in Queued(ts) : ts[u].work.of = p => WaitsFor(ts, A, u)
      /\ p \in Pooled =>
           \A u \in Queued(ts) : ts[u].work.kind = "replay" /\ ts[u].work.of \in Pooled => WaitsFor(ts, A, u)
  BY DEF FollowsUses
<1> HIDE DEF ts, now
<1>6. ASSUME NEW u \in Queued(ts)
      PROVE  TracedTask(now, m.points, ready2, u)
  <2> DEFINE c == ts[u].work.of
             kind == ts[u].work.kind
  <2>1. c \in Owners /\ Names(c) \subseteq Events /\ now[u].work = ts[u].work
    BY <1>2, <1>4, NamesDiffer
  <2>2. c # p => TracedTask(ts, d.points, ready, u)
    BY DEF ts
  <2>3. c = p /\ kind = "copy" => By(ts, d.points, Copies(p), u)
    BY DEF ts
  <2>4. m.points[Copies(c)] = d.points[Copies(c)]
    BY <1>0, <1>3, <2>1, NamesDiffer DEF Names
  <2>5. c # p => m.points[Latest(c)] = d.points[Latest(c)] /\ m.points[Reads(c)] = d.points[Reads(c)]
    BY <1>0, <1>3, <2>1, NamesDiffer DEF Names
  <2>6. p \notin Pooled => m.points[Pool] = d.points[Pool]
    BY <1>0, <1>3, <2>1, NamesDiffer DEF Names
  <2>7. kind = "copy" => By(now, m.points, Copies(c), u)
    <3>1. kind = "copy" => By(ts, d.points, Copies(c), u)
      BY <2>2, <2>3 DEF TracedTask
    <3> QED BY <1>2, <2>1, <2>4, <3>1 DEF Names
  <2>8. c = p => By(now, m.points, Reads(c), u)
    BY <1>0, <1>2, <1>3, <1>5 DEF Names
  <2>9. c # p /\ kind = "copy" /\ ready2[c] => By(now, m.points, Latest(c), u)
    BY <1>2, <2>1, <2>2, <2>5 DEF TracedTask, Names
  <2>10. c # p /\ (kind # "copy" \/ (~ready2[c] /\ c \in Programs)) => By(now, m.points, Reads(c), u)
    BY <1>2, <2>1, <2>2, <2>5 DEF TracedTask, Names
  <2>11. kind = "replay" /\ c \in Pooled => By(now, m.points, Pool, u)
    <3>1. CASE p \in Pooled
      BY <1>0, <1>2, <1>3, <1>5, <3>1 DEF Names
    <3>2. CASE p \notin Pooled
      <4>1. c # p \/ c \notin Pooled
        BY <3>2
      <4> QED BY <1>2, <2>1, <2>2, <2>6, <3>2, <4>1 DEF TracedTask, Names
    <3> QED BY <3>1, <3>2
  <2>12. ~ready2[p]
    BY <1>0
  <2>13. kind = "copy" /\ ready2[c] => By(now, m.points, Latest(c), u)
    BY <2>9, <2>12
  <2>14. kind # "copy" \/ (~ready2[c] /\ c \in Programs) => By(now, m.points, Reads(c), u)
    BY <2>8, <2>10
  <2> QED BY <2>1, <2>7, <2>11, <2>13, <2>14 DEF TracedTask
<1>7. TracedTask(now, m.points, ready2, t)
  <2>1. By(now, m.points, Reads(p), t) /\ (p \in Pooled => By(now, m.points, Pool, t))
    BY <1>0, <1>2, <1>3 DEF Names
  <2> QED BY <1>2, <2>1 DEF TracedTask
<1> QED BY <1>2, <1>6, <1>7 DEF Traced, now

LEMMA LaunchKeeps ==
    ASSUME IInv, NEW p \in Programs, Ready(p), NEW n, NEW t, NEW A,
           Gains(device, n, t, A, Item("replay", p, held[p])), FollowsUses(device, A, p)
    PROVE  /\ Live(n.tasks, stage)
           /\ Ordered(n.tasks)
           /\ Foreseen(n.tasks, inputs, outputs)
           /\ HeldComes(n.tasks, stage, inputs, held)
<1> DEFINE w == Item("replay", p, held[p])
           ts == device.tasks
           now == n.tasks
<1>1. w.kind = "replay" /\ w.of = p /\ w.payload = held[p] /\ p \in Owners
  BY DEF Item, Owners
<1> HIDE DEF w
<1>2. Room(ts, t, A, w) /\ now = Enqueued(ts, t, A, w)
  BY DEF Gains, w
<1>3. Live(ts, stage) /\ Ordered(ts) /\ Foreseen(ts, inputs, outputs) /\ HeldComes(ts, stage, inputs, held)
  BY DEF IInv
<1>4. stage[p] = "ready"
  BY DEF Ready
<1>5. \A u \in Queued(ts) : Clash(ts[u].work, w) \/ Clash(w, ts[u].work) => WaitsFor(ts, A, u)
  BY <1>1 DEF FollowsUses, Clash
<1>6. \A c \in OfKind(ts, "copy", w.of) : WaitsFor(ts, A, c)
  BY <1>1 DEF FollowsUses, OfKind
<1> HIDE DEF ts, now
<1>7. ForeseenTask(now, inputs, outputs, t)
  BY <1>1, <1>2, <1>3, <1>4, <1>6, ReaderForeseen
<1>8. Live(now, stage) /\ Ordered(now) /\ Foreseen(now, inputs, outputs) /\ HeldComes(now, stage, inputs, held)
  BY <1>1, <1>2, <1>3, <1>4, <1>5, <1>7, UseKeeps
<1> QED BY <1>8 DEF now

LEMMA ReplayKeeps ==
    ASSUME IInv, NEW p \in Programs, NEW s \in Streams, Replay(p, s)
    PROVE  IInv'
<1> DEFINE n == Launched(p, s)
           w == Item("replay", p, held[p])
<1>1. /\ Good(device, Work) /\ TypeOK /\ Fresh(prepared, stage)
      /\ Traced(device.tasks, device.points, prepared)
  BY DEF IInv, TypeOK, Good
<1>2. /\ Ready(p) /\ HasSlots(device, 1) /\ device' = Completed(n, p, s)
      /\ prepared' = [prepared EXCEPT ![p] = FALSE]
      /\ stage' = stage /\ held' = held /\ pool' = pool /\ inputs' = inputs /\ outputs' = outputs
  BY DEF Replay, memory
<1>3. Good(n, Work) /\ LaunchGained(n, p, s)
  BY <1>2, LaunchFollows
<1> HIDE DEF n
<1>4. PICK t, A :
        /\ Gains(device, n, t, A, w)
        /\ FollowsUses(device, A, p)
        /\ n.points = device.points
        /\ n.front[s] = {t}
  BY <1>3 DEF LaunchGained
<1>5. Good(device', Work) /\ CompletedAt(n, device', p, t)
  BY <1>2, <1>3, <1>4, CompletedRecords
<1>6. /\ Live(n.tasks, stage)
      /\ Ordered(n.tasks)
      /\ Foreseen(n.tasks, inputs, outputs)
      /\ HeldComes(n.tasks, stage, inputs, held)
  BY <1>2, <1>4, LaunchKeeps
<1>7. device'.tasks = n.tasks
  BY <1>5 DEF CompletedAt
<1>8. Traced(device'.tasks, device'.points, prepared')
  <2>1. w.of = p /\ w.kind = "replay"
    BY DEF Item
  <2> HIDE DEF w
  <2>2. w.kind \in {"replay", "clone"}
    BY <2>1
  <2>3. prepared \in [Owners -> BOOLEAN]
    BY <1>1 DEF TypeOK
  <2>4. \A u \in Queued(device.tasks) : TracedTask(device.tasks, device.points, prepared, u)
    BY <1>1 DEF Traced
  <2>5. \A u \in Queued(device.tasks) : device.tasks[u].work.of = p /\ device.tasks[u].work.kind = "copy"
                                        => By(device.tasks, device.points, Copies(p), u)
    BY <2>4 DEF TracedTask
  <2> QED BY <1>1, <1>2, <1>4, <1>5, <2>1, <2>2, <2>3, <2>4, <2>5, CompletedTraced
<1>9. TypeOK' /\ Sane(device')
  BY <1>1, <1>2, <1>5 DEF TypeOK, Good
<1>10. Fresh(prepared', stage')
  BY <1>1, <1>2 DEF Fresh, TypeOK
<1> QED BY <1>2, <1>6, <1>7, <1>8, <1>9, <1>10 DEF IInv

LEMMA ReplayAndCloneKeeps ==
    ASSUME IInv, NEW p \in Programs, NEW s \in Streams, ReplayAndClone(p, s)
    PROVE  IInv'
<1> DEFINE n == Launched(p, s)
           w == Item("replay", p, held[p])
           x == Item("clone", p, held[p])
           m == Submit(n, s, x)
           u2 == Slot(n)
<1>0. p \in Owners
  BY DEF Owners
<1>1. /\ Good(device, Work) /\ TypeOK /\ Fresh(prepared, stage)
      /\ Traced(device.tasks, device.points, prepared)
      /\ HeldComes(device.tasks, stage, inputs, held)
  BY DEF IInv, TypeOK, Good
<1>2. /\ Ready(p) /\ HasSlots(device, 2) /\ device' = Completed(m, p, s)
      /\ prepared' = [prepared EXCEPT ![p] = FALSE]
      /\ stage' = stage /\ held' = held /\ pool' = pool /\ inputs' = inputs /\ outputs' = outputs
  BY DEF ReplayAndClone, memory
<1>3. x \in Work /\ x.kind = "clone" /\ x.of = p /\ x.payload = held[p]
  BY <1>0, <1>1, <1>2 DEF Ready, HeldComes, Item, Work
<1>4. w.of = p /\ w.payload = held[p] /\ w.kind = "replay"
  BY DEF Item
<1>5. HasSlots(device, 1)
  BY <1>2, SlotForOne
<1>6. Good(n, Work) /\ LaunchGained(n, p, s)
  BY <1>2, <1>5, LaunchFollows
<1> HIDE DEF n, x
<1>7. PICK t, A :
        /\ Gains(device, n, t, A, w)
        /\ FollowsUses(device, A, p)
        /\ n.points = device.points
        /\ n.front[s] = {t}
  BY <1>6 DEF LaunchGained
<1>8. /\ Live(n.tasks, stage)
      /\ Ordered(n.tasks)
      /\ Foreseen(n.tasks, inputs, outputs)
      /\ HeldComes(n.tasks, stage, inputs, held)
  BY <1>2, <1>7, LaunchKeeps
<1> HIDE DEF w
<1>9. Good(m, Work) /\ Adds(n, m, s, x)
  <2>1. InFlight(n) = InFlight(device) \cup {t}
    BY <1>7 DEF Gains
  <2>2. HasSlots(n, 1)
    BY <1>2, <2>1, SlotForAnother
  <2> QED BY <1>3, <1>6, <2>2, WorkAssumption, Submitted
<1> HIDE DEF m, u2
<1>10. /\ Gains(n, m, u2, {t}, x) /\ m.points = n.points /\ m.front[s] = {u2}
  BY <1>7, <1>9 DEF Adds, Gains, u2
<1>11. Good(device', Work) /\ CompletedAt(m, device', p, u2)
  BY <1>2, <1>9, <1>10, CompletedRecords
<1>12. /\ \A u \in Queued(device.tasks), e \in Events :
            By(device.tasks, device.points, e, u) => By(n.tasks, n.points, e, u)
       /\ Queued(n.tasks) = Queued(device.tasks) \cup {t}
       /\ n.tasks[t].work = w
       /\ \A u \in Queued(device.tasks) : n.tasks[u].work = device.tasks[u].work
  <2>1. /\ \A u \in Queued(device.tasks), e \in Events :
                \/ By(device.tasks, device.points, e, u) /\ device.points[e] \subseteq n.points[e]
                \/ WaitsFor(device.tasks, A, u) /\ t \in n.points[e]
                => By(n.tasks, n.points, e, u)
        /\ Queued(n.tasks) = Queued(device.tasks) \cup {t}
        /\ n.tasks[t].work = w
        /\ \A u \in Queued(device.tasks) : n.tasks[u].work = device.tasks[u].work
    BY <1>1, <1>7, EventsCover
  <2> QED BY <1>7, <2>1
<1>13. FollowsUses(n, {t}, p)
  <2>1. Room(device.tasks, t, A, w) /\ n.tasks = Enqueued(device.tasks, t, A, w)
    BY <1>7 DEF Gains
  <2>2. \A u \in Queued(device.tasks) : WaitsFor(device.tasks, A, u) => Before(n.tasks, u, t)
    BY <2>1, FollowedIsBefore
  <2>3. t \in Queued(n.tasks)
    BY <1>12
  <2>4. \A u \in Queued(device.tasks) : WaitsFor(device.tasks, A, u) => WaitsFor(n.tasks, {t}, u)
    BY <2>2, <2>3, WaitsForEarlier
  <2>5. WaitsFor(n.tasks, {t}, t)
    BY WaitsForMember
  <2> QED BY <1>7, <1>12, <2>4, <2>5 DEF FollowsUses
<1>14. Room(n.tasks, u2, {t}, x) /\ m.tasks = Enqueued(n.tasks, u2, {t}, x)
  BY <1>10 DEF Gains
<1>15. ForeseenTask(m.tasks, inputs, outputs, u2)
  <2> DEFINE X == OfKind(device.tasks, "replay", p)
  <2>1. Room(device.tasks, t, A, w) /\ n.tasks = Enqueued(device.tasks, t, A, w)
    BY <1>7 DEF Gains
  <2>2. X \in SUBSET Queued(device.tasks) /\ X \cup {t} \in SUBSET Queued(n.tasks)
    BY <1>12 DEF OfKind
  <2>3. OfKind(n.tasks, "replay", p) = X \cup {t}
    BY <1>4, <1>12 DEF OfKind
  <2> HIDE DEF X
  <2>4. Settles(n.tasks, X \cup {t}, outputs[p], w.payload)
    BY <2>1, <2>2, SettlesNow
  <2>5. Settles(m.tasks, X \cup {t}, outputs[p], w.payload)
    BY <1>14, <2>2, <2>4, SettlesStill
  <2>6. Grown(n.tasks, m.tasks, u2, {t}, x)
    BY <1>14, QueuedNow
  <2>7. \A c \in Queued(n.tasks) : WaitsFor(n.tasks, {t}, c) => Before(m.tasks, c, u2)
    BY <1>14, FollowedIsBefore
  <2>8. \A c \in X \cup {t} : Before(m.tasks, c, u2)
    BY <1>13, <2>3, <2>7 DEF FollowsUses, OfKind
  <2>9. OfKind(m.tasks, "replay", p) = X \cup {t}
    BY <1>3, <2>3, <2>6 DEF OfKind, Grown
  <2>10. Earlier(m.tasks, "replay", p, u2) = X \cup {t}
    BY <2>8, <2>9 DEF Earlier
  <2>11. m.tasks[u2].work = x
    BY <2>6 DEF Grown
  <2> QED BY <1>3, <1>4, <2>5, <2>10, <2>11 DEF ForeseenTask
<1>16. /\ Live(m.tasks, stage)
       /\ Ordered(m.tasks)
       /\ Foreseen(m.tasks, inputs, outputs)
       /\ HeldComes(m.tasks, stage, inputs, held)
  <2>1. \A u \in Queued(n.tasks) : Clash(n.tasks[u].work, x) \/ Clash(x, n.tasks[u].work)
                                   => WaitsFor(n.tasks, {t}, u)
    BY <1>3, <1>13 DEF FollowsUses, Clash
  <2>2. stage[x.of] = "ready" /\ x.kind # "copy" /\ x.of \in Programs
    BY <1>2, <1>3 DEF Ready
  <2> QED BY <1>8, <1>14, <1>15, <2>1, <2>2, UseKeeps
<1>17. device'.tasks = m.tasks
  BY <1>11 DEF CompletedAt
<1>18. Traced(device'.tasks, device'.points, prepared')
  <2>1. x.kind \in {"replay", "clone"}
    BY <1>3
  <2>2. prepared \in [Owners -> BOOLEAN]
    BY <1>1 DEF TypeOK
  <2>3. \A u \in Queued(device.tasks) : device.tasks[u].work.of \in Owners
    BY <1>1 DEF Good, Device, Work, Queued
  <2>4. \A u \in Queued(device.tasks) : TracedTask(n.tasks, n.points, prepared, u)
    <3>1. \A u \in Queued(device.tasks) : Names(device.tasks[u].work.of) \subseteq Events
      BY <2>3, NamesDiffer
    <3>2. \A u \in Queued(device.tasks) : TracedTask(device.tasks, device.points, prepared, u)
      BY <1>1 DEF Traced
    <3> QED BY <1>12, <3>1, <3>2 DEF TracedTask, Names
  <2>5. \A u \in Queued(n.tasks) : n.tasks[u].work.of # p => TracedTask(n.tasks, n.points, prepared, u)
    BY <1>4, <1>12, <2>4
  <2>6. \A u \in Queued(n.tasks) : n.tasks[u].work.of = p /\ n.tasks[u].work.kind = "copy"
                                   => By(n.tasks, n.points, Copies(p), u)
    BY <1>4, <1>12, <2>4 DEF TracedTask
  <2>7. x.of = p
    BY <1>3
  <2> QED BY <1>2, <1>6, <1>10, <1>11, <1>13, <2>1, <2>2, <2>5, <2>6, <2>7, CompletedTraced
<1>19. TypeOK' /\ Sane(device')
  BY <1>1, <1>2, <1>11 DEF TypeOK, Good
<1>20. Fresh(prepared', stage')
  BY <1>1, <1>2 DEF Fresh, TypeOK
<1> QED BY <1>2, <1>16, <1>17, <1>18, <1>19, <1>20 DEF IInv

-----------------------------------------------------------------------------
(* Capture and close *)

LEMMA CaptureKeeps ==
    ASSUME IInv, NEW p \in Programs, NEW v \in Payloads, Capture(p, v)
    PROVE  IInv'
<1>0. p \in Owners
  BY DEF Owners
<1>1. TypeOK /\ Sane(device) /\ Fresh(prepared, stage) /\ HeldComes(device.tasks, stage, inputs, held)
  BY DEF IInv
<1>2. /\ Queued(device.tasks) = {} /\ UNCHANGED <<device, prepared, pool>>
      /\ stage' = [stage EXCEPT ![p] = "ready"] /\ held' = [held EXCEPT ![p] = v]
      /\ inputs' = [inputs EXCEPT ![p] = v] /\ outputs' = [outputs EXCEPT ![p] = v]
  BY DEF Capture, InFlight, Queued
<1>3. TypeOK' /\ Sane(device')
  BY <1>0, <1>1, <1>2 DEF TypeOK, Contents
<1>4. Fresh(prepared', stage')
  BY <1>0, <1>1, <1>2 DEF Fresh, TypeOK
<1>5. HeldComes(device'.tasks, stage', inputs', held')
  <2> SUFFICES ASSUME NEW b \in Owners, stage'[b] = "ready"
               PROVE  held'[b] \in Payloads /\ Settles(device.tasks, OfKind(device.tasks, "copy", b), inputs'[b], held'[b])
    BY <1>2 DEF HeldComes
  <2>1. OfKind(device.tasks, "copy", b) = {}
    BY <1>2 DEF OfKind
  <2>2. CASE b = p
    <3>1. held'[b] = v /\ inputs'[b] = v
      BY <1>0, <1>1, <1>2, <2>2 DEF TypeOK, Contents
    <3> QED BY <2>1, <3>1 DEF Settles
  <2>3. CASE b # p
    <3>1. held'[b] = held[b] /\ inputs'[b] = inputs[b] /\ stage[b] = "ready"
      BY <1>1, <1>2, <2>3 DEF TypeOK, Contents
    <3> QED BY <1>1, <3>1 DEF HeldComes
  <2> QED BY <2>2, <2>3
<1>6. Queued(device'.tasks) = {}
  BY <1>2
<1>7. /\ Live(device'.tasks, stage') /\ Traced(device'.tasks, device'.points, prepared')
      /\ Ordered(device'.tasks) /\ Foreseen(device'.tasks, inputs', outputs')
  BY <1>6 DEF Live, Traced, Ordered, Foreseen
<1> QED BY <1>3, <1>4, <1>5, <1>7 DEF IInv

LEMMA CloseKeeps ==
    ASSUME IInv, NEW b \in Owners, Quiet(b), stage' = [stage EXCEPT ![b] = "closed"],
           UNCHANGED <<device, held, prepared, pool, memory>>
    PROVE  IInv'
<1>1. /\ TypeOK /\ Sane(device) /\ Fresh(prepared, stage) /\ Live(device.tasks, stage)
      /\ Traced(device.tasks, device.points, prepared) /\ HeldComes(device.tasks, stage, inputs, held)
      /\ Ordered(device.tasks) /\ Foreseen(device.tasks, inputs, outputs)
  BY DEF IInv
<1>2. \A t \in Queued(device.tasks) : device.tasks[t].work.of # b
  <2>1. device.points[Reads(b)] = {} /\ device.points[Copies(b)] = {}
    BY DEF Quiet, Complete
  <2>2. \A t \in Queued(device.tasks) : device.tasks[t].work.of = b =>
          WaitsFor(device.tasks, device.points[Copies(b)], t) \/ WaitsFor(device.tasks, device.points[Reads(b)], t)
    BY <1>1 DEF Traced, TracedTask, By
  <2> QED BY <2>1, <2>2, NothingWaitsForNothing
<1>3. \A c \in Owners : stage'[c] = IF c = b THEN "closed" ELSE stage[c]
  BY <1>1 DEF TypeOK
<1>4. Live(device.tasks, stage')
  <2>1. \A t \in Queued(device.tasks) : device.tasks[t].work.of \in Owners
    BY <1>1 DEF TypeOK, Device, Work, Queued
  <2> QED BY <1>1, <1>2, <1>3, <2>1 DEF Live
<1>5. Fresh(prepared, stage') /\ HeldComes(device.tasks, stage', inputs, held)
  BY <1>1, <1>3 DEF Fresh, HeldComes
<1>6. TypeOK'
  BY <1>1, <1>3 DEF TypeOK, memory
<1> QED BY <1>1, <1>4, <1>5, <1>6 DEF IInv, memory

LEMMA PoolKeeps ==
    ASSUME IInv, ClosePool \/ PoolClosed
    PROVE  IInv'
BY DEF IInv, TypeOK, ClosePool, PoolClosed, memory

-----------------------------------------------------------------------------
(* The device runs *)

LEMMA FirstOfClash ==
    ASSUME NEW ts, Ordered(ts), NEW t \in Queued(ts), ts[t].after = {},
           NEW y \in Queued(ts), y # t, Clash(ts[t].work, ts[y].work)
    PROVE  Before(ts, t, y)
<1>1. ~Before(ts, y, t)
  BY NothingWaitsForNothing DEF Before
<1> QED BY <1>1 DEF Ordered

LEMMA StartTaskKeeps ==
    ASSUME IInv, NEW t \in Tasks, StartTask(t)
    PROVE  IInv'
<1> DEFINE ts == device.tasks
           now == device'.tasks
           w == ts[t].work
<1>1. /\ Good(device, Work) /\ TypeOK /\ Fresh(prepared, stage)
      /\ Traced(ts, device.points, prepared) /\ Live(ts, stage) /\ Ordered(ts)
      /\ Foreseen(ts, inputs, outputs) /\ HeldComes(ts, stage, inputs, held)
  BY DEF IInv, TypeOK, Good
<1>2. /\ CanStart(device, t) /\ device' = Started(device, t)
      /\ inputs' = IF w.kind = "copy" THEN [inputs EXCEPT ![w.of] = Torn] ELSE inputs
      /\ outputs' = IF w.kind = "replay" THEN [outputs EXCEPT ![w.of] = Torn] ELSE outputs
      /\ UNCHANGED <<stage, held, prepared, pool>>
  BY DEF StartTask, host
<1>3. /\ Good(device', Work) /\ Ending(ts, Work, t) /\ now = Begun(ts, t) /\ device'.points = device.points
  BY <1>1, <1>2, WorkAssumption, Starting
<1>4. /\ Queued(now) = Queued(ts)
      /\ \A x \in Queued(ts) : now[x].after = ts[x].after /\ now[x].work = ts[x].work
      /\ \A S, x : WaitsFor(now, S, x) <=> WaitsFor(ts, S, x)
  BY <1>3, OrderBegun
<1>5. t \in Queued(ts) /\ ts[t].after = {} /\ w \in Work
  BY <1>1, <1>2 DEF CanStart, Queued, Good, Device
<1>6. \A x, y : y \in Queued(ts) => (Before(now, x, y) <=> Before(ts, x, y))
  BY <1>4 DEF Before
<1> HIDE DEF ts, now
<1>7. /\ \A kind, b : OfKind(now, kind, b) = OfKind(ts, kind, b)
      /\ \A kind, b : \A y \in Queued(ts) : Earlier(now, kind, b, y) = Earlier(ts, kind, b, y)
  BY <1>4, <1>6 DEF OfKind, Earlier
<1>8. \A X \in SUBSET Queued(ts) : \A current, next, v :
        Settles(ts, X, current, v) /\ (next = current \/ t \in X) => Settles(now, X, next, v)
  BY <1>4, <1>6 DEF Settles
<1>9. /\ Live(now, stage) /\ Ordered(now) /\ Traced(now, device.points, prepared)
  BY <1>1, <1>4, <1>6 DEF Live, Ordered, Traced, TracedTask, By
<1>10. w.of \in Owners /\ inputs \in Contents /\ outputs \in Contents
  BY <1>1, <1>5 DEF Work, TypeOK
<1>11. Foreseen(now, inputs', outputs')
  <2> SUFFICES ASSUME NEW y \in Queued(ts)
               PROVE  ForeseenTask(now, inputs', outputs', y)
    BY <1>4 DEF Foreseen
  <2> DEFINE c == ts[y].work.of
             v == ts[y].work.payload
             kind == ts[y].work.kind
  <2>1. ForeseenTask(ts, inputs, outputs, y) /\ c \in Owners
    BY <1>1 DEF Foreseen, Good, Device, Work, Queued, ts
  <2>2. Earlier(ts, "copy", c, y) \in SUBSET Queued(ts) /\ Earlier(ts, "replay", c, y) \in SUBSET Queued(ts)
    BY DEF Earlier, OfKind
  <2>3. ASSUME kind \in {"replay", "read"}
        PROVE  Settles(now, Earlier(ts, "copy", c, y), inputs'[c], v)
    <3>1. Settles(ts, Earlier(ts, "copy", c, y), inputs[c], v)
      BY <2>1, <2>3 DEF ForeseenTask
    <3>2. inputs'[c] = inputs[c] \/ t \in Earlier(ts, "copy", c, y)
      <4>1. CASE w.kind = "copy" /\ w.of = c
        <5>1. y # t /\ Clash(w, ts[y].work)
          BY <2>3, <4>1 DEF Clash
        <5>2. Before(ts, t, y)
          BY <1>1, <1>5, <5>1, FirstOfClash
        <5> QED BY <1>5, <4>1, <5>2 DEF Earlier, OfKind
      <4>2. CASE ~(w.kind = "copy" /\ w.of = c)
        BY <1>2, <1>10, <2>1, <4>2 DEF Contents
      <4> QED BY <4>1, <4>2
    <3> QED BY <1>8, <2>2, <3>1, <3>2
  <2>4. ASSUME kind = "clone"
        PROVE  Settles(now, Earlier(ts, "replay", c, y), outputs'[c], v)
    <3>1. Settles(ts, Earlier(ts, "replay", c, y), outputs[c], v)
      BY <2>1, <2>4 DEF ForeseenTask
    <3>2. outputs'[c] = outputs[c] \/ t \in Earlier(ts, "replay", c, y)
      <4>1. CASE w.kind = "replay" /\ w.of = c
        <5>1. y # t /\ Clash(w, ts[y].work)
          BY <2>4, <4>1 DEF Clash
        <5>2. Before(ts, t, y)
          BY <1>1, <1>5, <5>1, FirstOfClash
        <5> QED BY <1>5, <4>1, <5>2 DEF Earlier, OfKind
      <4>2. CASE ~(w.kind = "replay" /\ w.of = c)
        BY <1>2, <1>10, <2>1, <4>2 DEF Contents
      <4> QED BY <4>1, <4>2
    <3> QED BY <1>8, <2>2, <3>1, <3>2
  <2>5. now[y].work = ts[y].work
    BY <1>4
  <2>6. /\ Earlier(now, "copy", c, y) = Earlier(ts, "copy", c, y)
        /\ Earlier(now, "replay", c, y) = Earlier(ts, "replay", c, y)
    BY <1>7
  <2> QED BY <2>3, <2>4, <2>5, <2>6 DEF ForeseenTask
<1>12. HeldComes(now, stage, inputs', held)
  <2> SUFFICES ASSUME NEW b \in Owners, stage[b] = "ready"
               PROVE  held[b] \in Payloads /\ Settles(now, OfKind(now, "copy", b), inputs'[b], held[b])
    BY DEF HeldComes
  <2>1. held[b] \in Payloads /\ Settles(ts, OfKind(ts, "copy", b), inputs[b], held[b])
    BY <1>1 DEF HeldComes
  <2>2. OfKind(ts, "copy", b) \in SUBSET Queued(ts)
    BY DEF OfKind
  <2>3. inputs'[b] = inputs[b] \/ t \in OfKind(ts, "copy", b)
    BY <1>2, <1>5, <1>10 DEF Contents, OfKind
  <2>4. Settles(now, OfKind(ts, "copy", b), inputs'[b], held[b])
    BY <1>8, <2>1, <2>2, <2>3
  <2>5. OfKind(now, "copy", b) = OfKind(ts, "copy", b)
    BY <1>7
  <2> QED BY <2>1, <2>4, <2>5
<1>13. TypeOK' /\ Sane(device')
  <2>1. inputs' \in Contents /\ outputs' \in Contents
    BY <1>2, <1>10 DEF Contents
  <2> QED BY <1>1, <1>2, <1>3, <2>1 DEF TypeOK, Good
<1> QED BY <1>1, <1>2, <1>3, <1>9, <1>11, <1>12, <1>13 DEF IInv, now

\* When a writer ends, what it wrote is current and the rest settle on it.
LEMMA SettlesAfter ==
    ASSUME NEW ts, NEW t, Ending(ts, Work, t), NEW now, now = Ended(ts, t),
           NEW X \in SUBSET Queued(ts), NEW current, NEW next, NEW v, Settles(ts, X, current, v),
           \/ t \notin X /\ next = current
           \/ t \in X /\ next = ts[t].work.payload /\ \A x \in X \ {t} : Before(ts, t, x)
    PROVE  Settles(now, X \ {t}, next, v)
<1>1. /\ Queued(now) = Queued(ts) \ {t}
      /\ \A x \in Queued(now) : now[x] = [ts[x] EXCEPT !.after = @ \ {t}]
      /\ \A x \in Queued(now) : now[x].after = ts[x].after \ {t}
  BY QueuedStill
<1>2. \A x \in X \ {t} : now[x].work = ts[x].work
  <2>1. \A x \in Queued(now) : ts[x] \in [work : Work, after : SUBSET Tasks, running : BOOLEAN]
    BY <1>1 DEF Ending, TasksTyped, Queued
  <2>2. \A x \in Queued(now) : now[x].work = ts[x].work
    BY <1>1, <2>1
  <2> QED BY <1>1, <2>2
<1>3. \A x, y \in X \ {t} : Before(now, x, y) <=> Before(ts, x, y)
  BY BeforeLeft
<1>4. CASE t \notin X /\ next = current
  <2>1. X \ {t} = X
    BY <1>4
  <2> QED BY <1>2, <1>3, <1>4, <2>1 DEF Settles
<1>5. CASE t \in X /\ next = ts[t].work.payload /\ \A x \in X \ {t} : Before(ts, t, x)
  <2>1. ASSUME NEW c \in X \ {t}, \A x \in (X \ {t}) \ {c} : Before(now, x, c)
        PROVE  now[c].work.payload = v
    <3>1. \A x \in X \ {c} : Before(ts, x, c)
      BY <1>3, <1>5, <2>1
    <3> QED BY <1>2, <3>1 DEF Settles
  <2>2. ASSUME X \ {t} = {}
        PROVE  next = v
    BY <1>5, <2>2 DEF Settles
  <2> QED BY <2>1, <2>2 DEF Settles
<1> QED BY <1>4, <1>5

LEMMA FinishTaskKeeps ==
    ASSUME IInv, NEW t \in Tasks, FinishTask(t)
    PROVE  IInv'
<1> DEFINE ts == device.tasks
           now == device'.tasks
           w == ts[t].work
<1>1. /\ Good(device, Work) /\ TypeOK /\ Fresh(prepared, stage)
      /\ Traced(ts, device.points, prepared) /\ Live(ts, stage) /\ Ordered(ts)
      /\ Foreseen(ts, inputs, outputs) /\ HeldComes(ts, stage, inputs, held)
  BY DEF IInv, TypeOK, Good
<1>2. /\ t \in Running(device) /\ device' = Finished(device, t)
      /\ inputs' = IF w.kind = "copy" THEN [inputs EXCEPT ![w.of] = w.payload] ELSE inputs
      /\ outputs' = IF w.kind = "replay" THEN [outputs EXCEPT ![w.of] = inputs[w.of]] ELSE outputs
      /\ UNCHANGED <<stage, held, prepared, pool>>
  BY DEF FinishTask, host
<1>3. /\ Good(device', Work) /\ Ending(ts, Work, t) /\ now = Ended(ts, t)
      /\ device'.points = [e \in Events |-> device.points[e] \ {t}]
  BY <1>1, <1>2, WorkAssumption, Finishing
<1>4. t \in Queued(ts) /\ ts[t].after = {} /\ w \in Work
  BY <1>1, <1>3 DEF Ending, Queued, Good, Device
<1>5. w.of \in Owners /\ w.payload \in Payloads /\ inputs \in Contents /\ outputs \in Contents
  BY <1>1, <1>4 DEF Work, TypeOK
<1> HIDE DEF ts, now
<1>6. Queued(now) = Queued(ts) \ {t}
  BY <1>3, QueuedStill
<1>7. \A x \in Queued(now) : now[x].work = ts[x].work
  <2>1. \A x \in Queued(now) : now[x] = [ts[x] EXCEPT !.after = @ \ {t}]
    BY <1>3, QueuedStill
  <2>2. \A x \in Queued(now) : ts[x] \in [work : Work, after : SUBSET Tasks, running : BOOLEAN]
    BY <1>3, <1>6 DEF Ending, TasksTyped, Queued
  <2> QED BY <2>1, <2>2
<1>8. \A x, y \in Queued(now) : Before(now, x, y) <=> Before(ts, x, y)
  BY <1>3, <1>6, BeforeLeft
<1>9. \A e \in Events : \A x \in Queued(now) :
        By(now, device'.points, e, x) <=> By(ts, device.points, e, x)
  BY <1>3, <1>6, OrderLeft DEF By
<1>10. /\ \A kind, b : OfKind(now, kind, b) = OfKind(ts, kind, b) \ {t}
       /\ \A kind, b : \A y \in Queued(now) : Earlier(now, kind, b, y) = Earlier(ts, kind, b, y) \ {t}
  BY <1>6, <1>7, <1>8 DEF OfKind, Earlier
<1>11. Live(now, stage) /\ Ordered(now)
  BY <1>1, <1>6, <1>7, <1>8 DEF Live, Ordered
<1>12. Traced(now, device'.points, prepared)
  <2>1. \A u \in Queued(ts) : Names(ts[u].work.of) \subseteq Events
    <3>1. \A u \in Queued(ts) : ts[u].work.of \in Owners
      BY <1>1 DEF Good, Device, Work, Queued, ts
    <3> QED BY <3>1, NamesDiffer
  <2> QED BY <1>1, <1>6, <1>7, <1>9, <2>1 DEF Traced, TracedTask, Names
<1>13. Foreseen(now, inputs', outputs')
  <2> SUFFICES ASSUME NEW y \in Queued(ts), y # t
               PROVE  ForeseenTask(now, inputs', outputs', y)
    BY <1>6 DEF Foreseen
  <2> DEFINE c == ts[y].work.of
             v == ts[y].work.payload
             kind == ts[y].work.kind
  <2>1. ForeseenTask(ts, inputs, outputs, y) /\ c \in Owners /\ y \in Queued(now)
    BY <1>1, <1>6 DEF Foreseen, Good, Device, Work, Queued, ts
  <2>2. Earlier(ts, "copy", c, y) \in SUBSET Queued(ts) /\ Earlier(ts, "replay", c, y) \in SUBSET Queued(ts)
    BY DEF Earlier, OfKind
  <2>3. ASSUME kind \in {"replay", "read"}
        PROVE  Settles(now, Earlier(ts, "copy", c, y) \ {t}, inputs'[c], v)
    <3> DEFINE X == Earlier(ts, "copy", c, y)
    <3>1. Settles(ts, X, inputs[c], v)
      BY <2>1, <2>3 DEF ForeseenTask
    <3>2. \/ t \notin X /\ inputs'[c] = inputs[c]
          \/ t \in X /\ inputs'[c] = w.payload /\ \A x \in X \ {t} : Before(ts, t, x)
      <4>1. CASE w.kind = "copy" /\ w.of = c
        <5>1. Clash(w, ts[y].work)
          BY <2>3, <4>1 DEF Clash
        <5>2. Before(ts, t, y)
          BY <1>1, <1>4, <5>1, FirstOfClash
        <5>3. \A x \in X \ {t} : x \in Queued(ts) /\ x # t /\ Clash(w, ts[x].work)
          BY <4>1 DEF Earlier, OfKind, Clash
        <5>4. \A x \in X \ {t} : Before(ts, t, x)
          BY <1>1, <1>4, <5>3, FirstOfClash
        <5>5. inputs'[c] = w.payload
          BY <1>2, <1>5, <4>1 DEF Contents
        <5> QED BY <1>4, <4>1, <5>2, <5>4, <5>5 DEF Earlier, OfKind
      <4>2. CASE ~(w.kind = "copy" /\ w.of = c)
        <5>1. inputs'[c] = inputs[c]
          BY <1>2, <1>5, <2>1, <4>2 DEF Contents
        <5> QED BY <4>2, <5>1 DEF Earlier, OfKind
      <4> QED BY <4>1, <4>2
    <3> HIDE DEF X
    <3>3. X \in SUBSET Queued(ts)
      BY <2>2 DEF X
    <3>4. Settles(now, X \ {t}, inputs'[c], v)
      BY <1>3, <3>1, <3>2, <3>3, SettlesAfter
    <3> QED BY <3>4 DEF X
  <2>4. ASSUME kind = "clone"
        PROVE  Settles(now, Earlier(ts, "replay", c, y) \ {t}, outputs'[c], v)
    <3> DEFINE X == Earlier(ts, "replay", c, y)
    <3>1. Settles(ts, X, outputs[c], v)
      BY <2>1, <2>4 DEF ForeseenTask
    <3>2. \/ t \notin X /\ outputs'[c] = outputs[c]
          \/ t \in X /\ outputs'[c] = w.payload /\ \A x \in X \ {t} : Before(ts, t, x)
      <4>1. CASE w.kind = "replay" /\ w.of = c
        <5>1. Clash(w, ts[y].work)
          BY <2>4, <4>1 DEF Clash
        <5>2. Before(ts, t, y)
          BY <1>1, <1>4, <5>1, FirstOfClash
        <5>3. \A x \in X \ {t} : x \in Queued(ts) /\ x # t /\ Clash(w, ts[x].work)
          BY <4>1 DEF Earlier, OfKind, Clash
        <5>4. \A x \in X \ {t} : Before(ts, t, x)
          BY <1>1, <1>4, <5>3, FirstOfClash
        <5>5. outputs'[c] = inputs[c]
          BY <1>2, <1>5, <4>1 DEF Contents
        <5>6. inputs[c] = w.payload
          <6>1. Earlier(ts, "copy", c, t) = {}
            BY <1>4, NothingWaitsForNothing DEF Earlier, Before
          <6>2. ForeseenTask(ts, inputs, outputs, t)
            BY <1>1, <1>4 DEF Foreseen
          <6> QED BY <4>1, <6>1, <6>2 DEF ForeseenTask, Settles
        <5> QED BY <1>4, <4>1, <5>2, <5>4, <5>5, <5>6 DEF Earlier, OfKind
      <4>2. CASE ~(w.kind = "replay" /\ w.of = c)
        <5>1. outputs'[c] = outputs[c]
          BY <1>2, <1>5, <2>1, <4>2 DEF Contents
        <5> QED BY <4>2, <5>1 DEF Earlier, OfKind
      <4> QED BY <4>1, <4>2
    <3> HIDE DEF X
    <3>3. X \in SUBSET Queued(ts)
      BY <2>2 DEF X
    <3>4. Settles(now, X \ {t}, outputs'[c], v)
      BY <1>3, <3>1, <3>2, <3>3, SettlesAfter
    <3> QED BY <3>4 DEF X
  <2>5. now[y].work = ts[y].work
    BY <1>7, <2>1
  <2>6. /\ Earlier(now, "copy", c, y) = Earlier(ts, "copy", c, y) \ {t}
        /\ Earlier(now, "replay", c, y) = Earlier(ts, "replay", c, y) \ {t}
    BY <1>10, <2>1
  <2> QED BY <2>3, <2>4, <2>5, <2>6 DEF ForeseenTask
<1>14. HeldComes(now, stage, inputs', held)
  <2> SUFFICES ASSUME NEW b \in Owners, stage[b] = "ready"
               PROVE  held[b] \in Payloads /\ Settles(now, OfKind(now, "copy", b), inputs'[b], held[b])
    BY DEF HeldComes
  <2> DEFINE X == OfKind(ts, "copy", b)
  <2>1. held[b] \in Payloads /\ Settles(ts, X, inputs[b], held[b])
    BY <1>1 DEF HeldComes
  <2>2. X \in SUBSET Queued(ts)
    BY DEF OfKind
  <2>3. \/ t \notin X /\ inputs'[b] = inputs[b]
        \/ t \in X /\ inputs'[b] = w.payload /\ \A x \in X \ {t} : Before(ts, t, x)
    <3>1. CASE w.kind = "copy" /\ w.of = b
      <4>1. \A x \in X \ {t} : x \in Queued(ts) /\ x # t /\ Clash(w, ts[x].work)
        BY <3>1 DEF OfKind, Clash
      <4>2. \A x \in X \ {t} : Before(ts, t, x)
        BY <1>1, <1>4, <4>1, FirstOfClash
      <4> QED BY <1>2, <1>4, <1>5, <3>1, <4>2 DEF OfKind, Contents
    <3>2. CASE ~(w.kind = "copy" /\ w.of = b)
      BY <1>2, <1>5, <3>2 DEF OfKind, Contents
    <3> QED BY <3>1, <3>2
  <2> HIDE DEF X
  <2>4. Settles(now, X \ {t}, inputs'[b], held[b])
    BY <1>3, <2>1, <2>2, <2>3, SettlesAfter
  <2>5. OfKind(now, "copy", b) = X \ {t}
    BY <1>10 DEF X
  <2> QED BY <2>1, <2>4, <2>5
<1>15. TypeOK' /\ Sane(device')
  <2>1. inputs' \in Contents /\ outputs' \in Contents
    BY <1>2, <1>5 DEF Contents
  <2> QED BY <1>1, <1>2, <1>3, <2>1 DEF TypeOK, Good
<1> QED BY <1>1, <1>2, <1>11, <1>12, <1>13, <1>14, <1>15 DEF IInv, now

-----------------------------------------------------------------------------
(* The theorems *)

LEMMA Starts == Init => IInv
<1> SUFFICES ASSUME Init
             PROVE  IInv
  OBVIOUS
<1>1. Good(device, Work) /\ Queued(device.tasks) = {}
  BY Idle DEF Init
<1>2. TypeOK
  BY <1>1 DEF Init, TypeOK, Good, Contents
<1>3. Fresh(prepared, stage) /\ HeldComes(device.tasks, stage, inputs, held)
  BY DEF Init, Fresh, HeldComes
<1> QED BY <1>1, <1>2, <1>3 DEF IInv, Good, Live, Traced, Ordered, Foreseen

LEMMA StepKeeps == IInv /\ [Next]_vars => IInv'
<1> SUFFICES ASSUME IInv, [Next]_vars
             PROVE  IInv'
  OBVIOUS
<1>1. ASSUME NEW b \in Buffers, NEW s \in Streams, NEW v \in Payloads,
             MakeBuffer(b, s, v) \/ FillBuffer(b, s, v)
      PROVE  IInv'
  <2>1. b \in Owners
    BY DEF Owners
  <2>2. CASE MakeBuffer(b, s, v)
    BY <2>2, MakeBufferKeeps
  <2>3. CASE FillBuffer(b, s, v)
    BY <2>1, <2>3, HandleCopied DEF FillBuffer
  <2> QED BY <1>1, <2>2, <2>3
<1>2. ASSUME NEW b \in Buffers, NEW s \in Streams, ReadBuffer(b, s)
      PROVE  IInv'
  BY <1>2, ReadBufferKeeps
<1>3. ASSUME NEW b \in Owners, Close(b)
      PROVE  IInv'
  BY <1>3, CloseKeeps DEF Close
<1>4. ASSUME NEW p \in Programs, NEW v \in Payloads, Capture(p, v)
      PROVE  IInv'
  BY <1>4, CaptureKeeps
<1>5. ASSUME NEW p \in Programs, NEW s \in Streams, NEW v \in Payloads, CopyInputs(p, s, v)
      PROVE  IInv'
  <2>1. p \in Owners
    BY DEF Owners
  <2> QED BY <1>5, <2>1, HandleCopied DEF CopyInputs
<1>6. ASSUME NEW p \in Programs, NEW s \in Streams, Replay(p, s) \/ ReplayAndClone(p, s)
      PROVE  IInv'
  BY <1>6, ReplayKeeps, ReplayAndCloneKeeps
<1>7. CASE ClosePool \/ PoolClosed
  BY <1>7, PoolKeeps
<1>8. ASSUME NEW p \in Pooled, CloseMember(p)
      PROVE  IInv'
  <2>1. p \in Owners
    BY GraphAssumption DEF Owners
  <2> QED BY <1>8, <2>1, CloseKeeps DEF CloseMember
<1>9. ASSUME NEW t \in Tasks, StartTask(t) \/ FinishTask(t)
      PROVE  IInv'
  BY <1>9, StartTaskKeeps, FinishTaskKeeps
<1>10. CASE UNCHANGED vars
  BY <1>10 DEF IInv, TypeOK, vars, host, memory
<1> QED BY <1>1, <1>2, <1>3, <1>4, <1>5, <1>6, <1>7, <1>8, <1>9, <1>10 DEF Next

\* A running task waits for none, so no task it clashes with runs or comes first.
LEMMA RunningIsAlone ==
    ASSUME IInv, NEW t \in Running(device)
    PROVE  /\ t \in Queued(device.tasks)
           /\ \A x : ~Before(device.tasks, x, t)
           /\ \A u \in Running(device) :
                Clash(device.tasks[t].work, device.tasks[u].work) => t = u
<1>1. \A x \in Running(device) : x \in Queued(device.tasks) /\ device.tasks[x].after = {}
  BY DEF IInv, Sane, Sound, Running, InFlight, Queued
<1>2. \A y \in Running(device) : \A x : ~Before(device.tasks, x, y)
  BY <1>1, NothingWaitsForNothing DEF Before
<1> QED BY <1>1, <1>2 DEF IInv, Ordered

LEMMA IInvAlways == Spec => []IInv
<1> QED BY Starts, StepKeeps, PTL DEF Spec

\* Streams, events, buffers and outputs keep their types, for any number of
\* programs, buffers, streams and tasks in flight.
THEOREM GraphTypes == Spec => []TypeOK
<1>1. IInv => TypeOK
  BY DEF IInv
<1> QED BY <1>1, IInvAlways, PTL

\* The pool's last event puts the replays of its programs in one order, so no
\* two of them use the scratch storage at once.
THEOREM ScratchIsExclusive == Spec => []ScratchHasOneUser
<1>1. IInv => ScratchHasOneUser
  BY RunningIsAlone DEF ScratchHasOneUser, Active, WorkOf, Clash
<1> QED BY <1>1, IInvAlways, PTL

\* What a close waits for covers all that is in flight on the storage.
THEOREM ClosedStaysIdle == Spec => []ClosedIsIdle
<1>1. IInv => ClosedIsIdle
  BY DEF IInv, Live, ClosedIsIdle, WorkOf, InFlight, Queued
<1> QED BY <1>1, IInvAlways, PTL

\* Replays, eager reads and clones see the payload they were enqueued for, on
\* whatever streams the caller chose.
THEOREM ReadersFindTheirs == Spec => []ReadersSeeTheirPayload
<1>1. IInv => ReadersSeeTheirPayload
  <2> SUFFICES ASSUME IInv
               PROVE  ReadersSeeTheirPayload
    OBVIOUS
  <2>1. ASSUME NEW t \in Running(device)
        PROVE  /\ t \in Queued(device.tasks)
               /\ Earlier(device.tasks, "copy", WorkOf(t).of, t) = {}
               /\ Earlier(device.tasks, "replay", WorkOf(t).of, t) = {}
    BY <2>1, RunningIsAlone DEF Earlier
  <2>2. \A t \in Queued(device.tasks) : ForeseenTask(device.tasks, inputs, outputs, t)
    BY DEF IInv, Foreseen
  <2>3. ASSUME NEW t \in Active({"replay", "read"})
        PROVE  inputs[WorkOf(t).of] = WorkOf(t).payload
    BY <2>1, <2>2 DEF Active, ForeseenTask, Settles, WorkOf
  <2>4. ASSUME NEW t \in Active({"clone"})
        PROVE  outputs[WorkOf(t).of] = WorkOf(t).payload
    BY <2>1, <2>2 DEF Active, ForeseenTask, Settles, WorkOf
  <2> QED BY <2>3, <2>4 DEF ReadersSeeTheirPayload
<1> QED BY <1>1, IInvAlways, PTL
=============================================================================
