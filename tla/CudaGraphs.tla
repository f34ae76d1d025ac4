------------------------------ MODULE CudaGraphs ------------------------------
(***************************************************************************)
(* Reusable value buffers, captured CUDA graph programs and their shared   *)
(* pool on one device.  One host thread prefetches inputs and replays on   *)
(* any streams; nothing blocks it but closing, so copies, replays, reads   *)
(* and clones of one buffer are ordered by events alone.                   *)
(*                                                                         *)
(* A program is the sole reader of its input buffer and bears its name;    *)
(* the other buffers are read by eager code that keeps the documented      *)
(* contract: wait on the handle before reading, record an event after, and *)
(* pass it to the next copy_from.  The payload of an output is the payload *)
(* of the input it was computed from.                                      *)
(***************************************************************************)
EXTENDS DeviceStreams

CONSTANTS
    Programs,
    Pooled,        \* the programs captured with the pool
    Buffers,       \* buffers used without a graph
    Payloads,
    Torn,          \* contents while they are written, or before
    Pool           \* the name of the pool's last event

Owners == Programs \cup Buffers

ASSUME GraphAssumption ==
    /\ Pooled \subseteq Programs
    /\ Programs \cap Buffers = {}
    /\ Events = ({"copies", "latest", "reads"} \X Owners) \cup {Pool}
    /\ Pool \notin {"copies", "latest", "reads"} \X Owners
    /\ Torn \notin Payloads

VARIABLES
    device,
    stage,         \* a program or buffer: absent, ready or closed
    held,          \* the payload last submitted to a buffer
    prepared,      \* a copy handle that no replay has consumed is outstanding
    pool,          \* open, closing or closed
    inputs,        \* the contents of the input storage
    outputs        \* the contents of the retained outputs

host == <<stage, held, prepared, pool>>
memory == <<inputs, outputs>>
vars == <<device, host, memory>>

Copies(b) == <<"copies", b>>    \* the buffer's copies in flight
Latest(b) == <<"latest", b>>    \* the latest copy handle
Reads(b) == <<"reads", b>>      \* the last replay, or the reads of eager code

Work == [kind : {"copy", "replay", "clone", "read"}, of : Owners, payload : Payloads]
Contents == [Owners -> Payloads \cup {Torn}]

ASSUME WorkAssumption ==
    NoTask \notin [work : Work, after : SUBSET Tasks, running : BOOLEAN]

Init ==
    /\ device = IdleDevice
    /\ stage = [b \in Owners |-> "absent"]
    /\ held = [b \in Owners |-> Torn]
    /\ prepared = [b \in Owners |-> FALSE]
    /\ pool = "open"
    /\ inputs = held
    /\ outputs = held

HostFree == pool # "closing"
Ready(b) == stage[b] = "ready" /\ HostFree
Item(kind, b, v) == [kind |-> kind, of |-> b, payload |-> v]

-----------------------------------------------------------------------------
(* ReusableValueBuffer *)

\* Mutated: a copy does not wait for the copies before it.
BufferCopyUnordered(d, b, s, v) ==
    LET copied == Submit(d, s, Item("copy", b, v))
    IN  RecordEvent(RecordAlso(copied, s, Copies(b)), s, Latest(b))

\* copy_from: after every copy still in flight; the handle is kept until the
\* copy is done.
BufferCopy(d, b, s, v) ==
    LET copied == Submit(WaitEvent(d, s, Copies(b)), s, Item("copy", b, v))
    IN  RecordEvent(RecordAlso(copied, s, Copies(b)), s, Latest(b))

\* like: the example is copied on the current stream and the copy remembered.
MakeBuffer(b, s, v) ==
    /\ stage[b] = "absent"
    /\ HostFree
    /\ HasSlots(device, 1)
    /\ device' = RecordAlso(Submit(device, s, Item("copy", b, v)), s, Copies(b))
    /\ stage' = [stage EXCEPT ![b] = "ready"]
    /\ held' = [held EXCEPT ![b] = v]
    /\ UNCHANGED <<prepared, pool, memory>>

FillBuffer(b, s, v) ==
    /\ Ready(b)
    /\ HasSlots(device, 1)
    /\ device' = BufferCopy(WaitEvent(device, s, Reads(b)), b, s, v)
    /\ held' = [held EXCEPT ![b] = v]
    /\ prepared' = [prepared EXCEPT ![b] = TRUE]
    /\ UNCHANGED <<stage, pool, memory>>

\* Eager code with a handle: handle.wait_on(stream), read, record.
ReadBuffer(b, s) ==
    /\ Ready(b)
    /\ prepared[b]
    /\ HasSlots(device, 1)
    /\ device' = RecordAlso(Submit(WaitEvent(device, s, Latest(b)), s, Item("read", b, held[b])),
                            s, Reads(b))
    /\ UNCHANGED <<host, memory>>

\* Mutated: the storage is released while copies are in flight.
QuietIfRead(b) == Complete(device, Reads(b))

\* close blocks until the copies in flight and the last replay are done; the
\* reads of eager code are the caller's to wait for.
Quiet(b) == Complete(device, Reads(b)) /\ Complete(device, Copies(b))

Close(b) ==
    /\ Ready(b)
    /\ Quiet(b)
    /\ stage' = [stage EXCEPT ![b] = "closed"]
    /\ UNCHANGED <<device, held, prepared, pool, memory>>

-----------------------------------------------------------------------------
(* CudaGraphProgram *)

\* Mutated: the payload the examples left in the buffer is not noted.
CaptureForgetful(p, v) ==
    /\ stage[p] = "absent"
    /\ HostFree
    /\ p \in Pooled => pool = "open"
    /\ InFlight(device) = {}
    /\ stage' = [stage EXCEPT ![p] = "ready"]
    /\ UNCHANGED <<device, held, prepared, pool, memory>>

\* capture synchronizes the device after the warmups, the capture and the
\* first replay.  When a stage of it fails there is no program.
Capture(p, v) ==
    /\ stage[p] = "absent"
    /\ HostFree
    /\ p \in Pooled => pool = "open"
    /\ InFlight(device) = {}
    /\ stage' = [stage EXCEPT ![p] = "ready"]
    /\ held' = [held EXCEPT ![p] = v]
    /\ inputs' = [inputs EXCEPT ![p] = v]
    /\ outputs' = [outputs EXCEPT ![p] = v]
    /\ UNCHANGED <<device, prepared, pool>>

\* copy_inputs_from: the last replay is an overwrite dependency.
CopyInputs(p, s, v) ==
    /\ Ready(p)
    /\ HasSlots(device, 1)
    /\ device' = BufferCopy(WaitEvent(device, s, Reads(p)), p, s, v)
    /\ held' = [held EXCEPT ![p] = v]
    /\ prepared' = [prepared EXCEPT ![p] = TRUE]
    /\ UNCHANGED <<stage, pool, memory>>

\* Mutated: the scratch storage of the pool is used at once.
AfterScratchNow(d, p, s) == d

AfterScratch(d, p, s) == IF p \in Pooled THEN WaitEvent(d, s, Pool) ELSE d
AfterHandle(d, p, s) == IF prepared[p] THEN WaitEvent(d, s, Latest(p)) ELSE d

\* The graph launch follows the last replay, the latest copy if its handle is
\* outstanding (no other handle is accepted), and the last user of the scratch.
Launched(p, s) ==
    Submit(AfterScratch(AfterHandle(WaitEvent(device, s, Reads(p)), p, s), p, s),
           s, Item("replay", p, held[p]))

Completed(d, p, s) ==
    LET own == RecordEvent(d, s, Reads(p))
    IN  IF p \in Pooled THEN RecordEvent(own, s, Pool) ELSE own

\* replay_prepared, with copy_output or without.
Replay(p, s) ==
    /\ Ready(p)
    /\ HasSlots(device, 1)
    /\ device' = Completed(Launched(p, s), p, s)
    /\ prepared' = [prepared EXCEPT ![p] = FALSE]
    /\ UNCHANGED <<stage, held, pool, memory>>

ReplayAndClone(p, s) ==
    /\ Ready(p)
    /\ HasSlots(device, 2)
    /\ device' = Completed(Submit(Launched(p, s), s, Item("clone", p, held[p])), p, s)
    /\ prepared' = [prepared EXCEPT ![p] = FALSE]
    /\ UNCHANGED <<stage, held, pool, memory>>

\* The clone's allocation raises: the graph has been launched, but no event is
\* recorded and the handle stays outstanding.
ReplayRaises(p, s) ==
    /\ Ready(p)
    /\ HasSlots(device, 1)
    /\ device' = Launched(p, s)
    /\ UNCHANGED <<host, memory>>

-----------------------------------------------------------------------------
(* CudaGraphPool.close: the last user of the scratch, then every member.   *)

ClosePool ==
    /\ pool = "open"
    /\ Complete(device, Pool)
    /\ pool' = "closing"
    /\ UNCHANGED <<device, stage, held, prepared, memory>>

CloseMember(p) ==
    /\ pool = "closing"
    /\ stage[p] = "ready"
    /\ Quiet(p)
    /\ stage' = [stage EXCEPT ![p] = "closed"]
    /\ UNCHANGED <<device, held, prepared, pool, memory>>

PoolClosed ==
    /\ pool = "closing"
    /\ \A p \in Pooled : stage[p] # "ready"
    /\ pool' = "closed"
    /\ UNCHANGED <<device, stage, held, prepared, memory>>

-----------------------------------------------------------------------------
(* The device *)

StartTask(t) ==
    LET work == device.tasks[t].work IN
    /\ CanStart(device, t)
    /\ device' = Started(device, t)
    /\ inputs' = IF work.kind = "copy" THEN [inputs EXCEPT ![work.of] = Torn] ELSE inputs
    /\ outputs' = IF work.kind = "replay" THEN [outputs EXCEPT ![work.of] = Torn] ELSE outputs
    /\ UNCHANGED host

FinishTask(t) ==
    LET work == device.tasks[t].work IN
    /\ t \in Running(device)
    /\ device' = Finished(device, t)
    /\ inputs' = IF work.kind = "copy" THEN [inputs EXCEPT ![work.of] = work.payload] ELSE inputs
    /\ outputs' = IF work.kind = "replay" THEN [outputs EXCEPT ![work.of] = inputs[work.of]]
                  ELSE outputs
    /\ UNCHANGED host

-----------------------------------------------------------------------------
Next ==
    \/ \E b \in Buffers, s \in Streams, v \in Payloads : MakeBuffer(b, s, v) \/ FillBuffer(b, s, v)
    \/ \E b \in Buffers, s \in Streams : ReadBuffer(b, s)
    \/ \E b \in Owners : Close(b)
    \/ \E p \in Programs, v \in Payloads : Capture(p, v)
    \/ \E p \in Programs, s \in Streams, v \in Payloads : CopyInputs(p, s, v)
    \/ \E p \in Programs, s \in Streams : Replay(p, s) \/ ReplayAndClone(p, s)
    \/ ClosePool \/ PoolClosed
    \/ \E p \in Pooled : CloseMember(p)
    \/ \E t \in Tasks : StartTask(t) \/ FinishTask(t)

Spec == Init /\ [][Next]_vars

\* The same where cloning an output may run out of memory.
ScarceNext == Next \/ \E p \in Programs, s \in Streams : ReplayRaises(p, s)

ScarceSpec == Init /\ [][ScarceNext]_vars

-----------------------------------------------------------------------------
(* Properties *)

\* Streams, events, buffers and outputs have their types.
TypeOK ==
    /\ device \in Device(Work)
    /\ stage \in [Owners -> {"absent", "ready", "closed"}]
    /\ held \in Contents
    /\ prepared \in [Owners -> BOOLEAN]
    /\ pool \in {"open", "closing", "closed"}
    /\ inputs \in Contents
    /\ outputs \in Contents

Active(kinds) == {t \in Running(device) : device.tasks[t].work.kind \in kinds}
WorkOf(t) == device.tasks[t].work

\* Whatever streams the caller chose, a replay or an eager read sees exactly
\* the payload last submitted before it was enqueued, whole, for as long as it
\* runs; a clone sees the output of its own replay.
ReadersSeeTheirPayload ==
    /\ \A t \in Active({"replay", "read"}) : inputs[WorkOf(t).of] = WorkOf(t).payload
    /\ \A t \in Active({"clone"}) : outputs[WorkOf(t).of] = WorkOf(t).payload

\* The programs of a pool never use its scratch storage at the same time.
ScratchHasOneUser ==
    \A t, u \in Active({"replay"}) :
        WorkOf(t).of \in Pooled /\ WorkOf(u).of \in Pooled => t = u

\* Once a program or a buffer is closed, directly or by its pool, nothing in
\* flight touches the storage it gave up.
ClosedIsIdle == \A t \in InFlight(device) : stage[WorkOf(t).of] = "ready"
=============================================================================
