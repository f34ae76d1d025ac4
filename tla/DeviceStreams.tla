----------------------------- MODULE DeviceStreams -----------------------------
(***************************************************************************)
(* CUDA streams and events, as runtime/buffer.py and runtime/cuda_graph.py *)
(* use them: the host enqueues work and goes on; each stream runs its work *)
(* in order, different streams run concurrently.  wait_event makes what a  *)
(* stream gets next follow what the event had recorded, and nothing else.  *)
(*                                                                         *)
(* A device is a record of the tasks in flight, the front of every stream  *)
(* (the tasks its next task must follow) and the point every event last    *)
(* recorded (the tasks it must still wait for).                            *)
(***************************************************************************)
EXTENDS Naturals, FiniteSets

CONSTANTS
    Streams,
    Events,        \* names of the events the program keeps
    MaxTasks,      \* bound: tasks in flight at once
    NoTask

ASSUME TaskAssumption == MaxTasks \in Nat

Tasks == 1 .. MaxTasks

Device(Work) ==
    [tasks : [Tasks -> [work : Work, after : SUBSET Tasks, running : BOOLEAN] \cup {NoTask}],
     front : [Streams -> SUBSET Tasks],
     points : [Events -> SUBSET Tasks]]

IdleDevice ==
    [tasks |-> [t \in Tasks |-> NoTask],
     front |-> [s \in Streams |-> {}],
     points |-> [e \in Events |-> {}]]

InFlight(d) == {t \in Tasks : d.tasks[t] # NoTask}
Running(d) == {t \in InFlight(d) : d.tasks[t].running}
Slot(d) == CHOOSE t \in Tasks : t \notin InFlight(d)
HasSlots(d, n) == Cardinality(InFlight(d)) + n <= MaxTasks

-----------------------------------------------------------------------------
(* What the host enqueues *)

\* stream.wait_event(event)
WaitEvent(d, s, e) == [d EXCEPT !.front[s] = @ \cup d.points[e]]

\* A kernel, a copy or a graph launch.
Submit(d, s, work) ==
    LET t == Slot(d)
    IN  [d EXCEPT !.tasks[t] = [work |-> work, after |-> d.front[s], running |-> FALSE],
                  !.front[s] = {t}]

\* A new event recorded on the stream, in place of the one kept under e ...
RecordEvent(d, s, e) == [d EXCEPT !.points[e] = d.front[s]]
\* ... or kept beside it.
RecordAlso(d, s, e) == [d EXCEPT !.points[e] = @ \cup d.front[s]]

\* event.query() and event.synchronize()
Complete(d, e) == d.points[e] = {}

-----------------------------------------------------------------------------
(* What the device does *)

CanStart(d, t) ==
    /\ d.tasks[t] # NoTask
    /\ ~d.tasks[t].running
    /\ d.tasks[t].after = {}

Started(d, t) == [d EXCEPT !.tasks[t].running = TRUE]

Finished(d, t) ==
    [tasks |-> [u \in Tasks |->
                  IF u = t \/ d.tasks[u] = NoTask THEN (IF u = t THEN NoTask ELSE d.tasks[u])
                  ELSE [d.tasks[u] EXCEPT !.after = @ \ {t}]],
     front |-> [s \in Streams |-> d.front[s] \ {t}],
     points |-> [e \in Events |-> d.points[e] \ {t}]]
=============================================================================
