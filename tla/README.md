# A TLA+ model of fhelium

fhelium computes on CKKS ciphertexts with PyTorch. Most of its code is numerical
and sequential: modular arithmetic, number theoretic transforms, a compiler that
rewrites programs. This project models the parts whose correctness depends on the
*order* of events:

- where large values live and who may move them (the residency manager and
  controller);
- an artifact store that several processes share and that must survive crashes;
- collectives that all ranks of a group must run alike;
- reusable buffers and CUDA graphs, ordered only by stream events;
- the keys of an engine, with a cache of copies on other devices.

All paths below are relative to `src/`.

## 1. Inventory

### 1.1 Residency manager, leases and plan scopes (`fhelium/residency/{manager,lease,plan,model,location}.py`) - modelled

State. One `_ValueRecord` per issued handle with its `_Materialization`s; on each
materialization the tokens of active leases, of released leases whose CUDA events
are unfinished, and of holds; tables of leases, holds and reservations; used and
reserved bytes and an optional budget per location; a state version; the
identities of the thread that runs a transition and of the thread inside a source
callback; whether the manager is closed. A `ResidencyScope` keeps its plan, the
version it expects, the reservation tokens it obtained, and whether it was
entered or closed.

Operations. `adopt`, `register_source`; `ensure`, `move`, `drop`, `discard` (one
request each), `execute_actions` (a preflighted batch); `acquire`, `hold`,
`reserve` and their releases; `scope` with entry and exit; `snapshot`, `explain`,
`state_version`; `close`. Weak-reference finalizers release what a collected
object still owns.

Interactions. Every method runs under one re-entrant lock. While user code runs
in `source.load()` an access guard turns every other call, of any thread, into an
error. Consumers run kernels on their own streams: the manager learns that they
ended only when a later public operation polls their events.

| hard behaviour | property |
|---|---|
| a read in flight against a move, drop, discard or forced close of what it reads | `NoReadOfFreedStorage` |
| tokens kept twice (on the materialization and in the tables) and reaped as a side effect of any call | `LifetimesConsistent` |
| byte counters updated by a dozen handlers, with a temporary charge around a callback that may raise | `AccountingExact` |
| materializations, reservations and the load in progress share one limit | `WithinBudget` |
| sequences of legal requests that could remove the last copy, or give an exclusive value two | `NeverLost`, `ExclusiveHasOneReplica` |
| a plan is admitted by a dry run that was written separately from the code that executes it | `AdmittedStepsFeasible`, `PredictedPeakCoversCharge` |
| a plan decided on a snapshot is entered later | `VersionTracksState` |
| requests, loads and exits fail half way and nothing is rolled back | `ExitReturnsReservations`, `OperationTerminates`, `ClosedScopeOwnsNothing` |

### 1.2 Residency controller (`fhelium/residency/{controller,policy,request,snapshot}.py`) - modelled

State: last access epochs and policy metadata per handle, under a lock of its
own; each `ResidencyUse` with its decision and the contexts it has entered.
`decide` takes a snapshot, searches a depth-first tree of evictions for a plan
that makes room for a request, has the manager explain it and reads the version
again. `ResidencyUse` enters the scope of the decision, acquires one lease per
location, and unwinds an `ExitStack`.

| hard behaviour | property |
|---|---|
| the manager is unlocked between snapshot, explanation, scope and entry | `PlansStartWhereDecided` |
| the manager is unlocked between entry and each acquire | `BorrowsStayPut`, `EndedUsesOwnNothing` |
| the search projects placement with a third copy of the transition rules | `SearchAgreesWithPreflight` |
| the search must end with a plan or a refusal | `SearchEnds` |

### 1.3 Artifact store (`fhelium/artifacts`) - modelled

State: an SQLite catalog of rows, payload files, claim and temporary files, the
locks on the catalog. Operations: open (create or recognize a root, recover), put
and replace, get, inspect, exists, list, delete. Readers and writers are separate
processes; any of them may die, and the host may lose power, between publishing a
payload, committing its row and unlinking the payload it replaced.

| hard behaviour | property |
|---|---|
| death or power loss between two steps of a put or delete | `CommittedPayloadPresent`, `TakesEffectAtOnce` |
| a reader resolves a row that another process replaces or deletes | `ReaderKeepsPayload` |
| a payload becomes unreachable while others publish | `GenerationsAreUnique` |
| recovery sweeps while others are about to open or are half way | `RecoveryIsComplete` |
| a crash or a power loss in the first initialization | `RootIsRecognized` |
| readers, one writer and a committer wait for each other's locks | `LocksAreReturned` |

### 1.4 Execution buffers and CUDA graphs (`fhelium/runtime`) - partly

State: copies in flight into a reusable buffer, its last copy handle, the last
replay that reads it, the last replay of a memory pool shared by several
programs. Nothing blocks the host but `close`: copies, replays, reads and clones
on any streams are ordered by events alone.

| hard behaviour | property |
|---|---|
| a copy overtakes the copy before it, or a replay that still reads | `ReadersSeeTheirPayload` |
| two programs of a pool replay on different streams | `ScratchHasOneUser` |
| storage is released with work in flight | `ClosedIsIdle` |

Not modelled: pinned and CPU buffers (synchronous), a copy that fails between
two leaves of one value, garbage collection of unclosed programs, reads of
borrowed outputs, signature checks.

### 1.5 Distributed collectives and transfers (`fhelium/distributed`) - partly

State: each rank's position in its program and in the call, the messages in
flight, the accumulators of the binomial ciphertext reduction.

| hard behaviour | property |
|---|---|
| one rank's argument is wrong, differs or cannot be described | `CollectivesMeet`, `RefusalsAgree`, `OnlyRaisingStrands`, `NobodyWaitsForever` |
| ranks run ahead into the next call; messages carry no tag | `MessagesMeetTheirCall`, `ResultsAreExact` |
| a reduction tree over a group size that is no power of two and an arbitrary destination | `RootHoldsTheSum`, `NothingLeftOnTheWire` |
| unbuffered sends | `EveryRankReturns` |
| an addition or an allocation that raises on one rank | `RootHoldsTheSum`, `MessagesMeetTheirCall`, `OnlyRaisingStrands` |

Not modelled: initialization and shutdown of the process group, staging copies,
the local check of gathered limb intervals, collectives of the IR.

### 1.6 Eager engine, keys (`fhelium/eager/{_engine,_key_inventory}.py`, `fhelium/utils/rotation.py`, rotation steps of `fhelium/values`) - partly

State: the secret, public and evaluation keys of an engine, the symbols its
evaluation keys are bound to, and copies of keys on other devices, cached by the
identity and tensor version of the key. One thread uses an engine.

| hard behaviour | property |
|---|---|
| a new secret must invalidate what was derived from the old one, also when the key is generated on demand | `KeysShareTheSecret` |
| the cache outlives keys: addresses are reused, tensors are written | `ReplicasFollowTheirKeys` |
| a rotation without a key is composed of installed ones | `RotationPathsAreShortest` |

Not modelled: key-switch keys that belong to no role, assignment of a new tensor
to a key's `data`, key generation by two threads at once, and everything the
engine computes with keys.

### 1.7 Not modelled

| part | reason |
|---|---|
| compiled callables (`compile/_callable.py`, `_specialization.py`) | what can go wrong is a table that one thread iterates without the lock while another inserts: whether that raises is decided between two bytecodes of the interpreter, and a model would have to assume the answer |
| compiler frontend, passes, pipeline, materials, code generation; intermediate representation | sequential transformations of large immutable graphs, guarded by IR validators and unit tests |
| rest of the values and of the engine, serialization, configuration, errors, utilities | immutable containers, byte formats, dispatch and argument validation |
| random numbers | a wrapper of an external generator |
| backend (CKKS, RNS, NTT, Triton, memory), native wrappers and kernels, bootstrapping, multiparty | arithmetic on tensors of 2^13 to 2^16 coefficients and approximation error: out of reach of a model checker |
| legacy engine | superseded |
| benchmarks, command line, scripts, packaging, documentation site, examples | tooling around the library |

These are most of the repository by lines, which is why the modelled definitions
stand for a small share of it: they cover the code that has evolving shared
state, and little of the code that only computes.

## 2. Modules

| module | content | used by |
|---|---|---|
| `ResidencyModel` | values, locations, requests, plans, choice of a source replica | all residency modules |
| `ResidencyPreflight` | the dry run of a plan | manager, planner |
| `ResidencyManager` | the manager | `ResidencyController`, `MCResidencyPlans` |
| `ResidencyPlanner` | the search of the controller | `ResidencyController` |
| `ResidencyController` | uses among other clients; extends manager and planner | `MCResidencyController` |
| `AtomicStore` | what a store promises | `ArtifactStore` (refinement) |
| `ArtifactStore` | catalog, files, processes and faults | `MCArtifactStore` |
| `ReductionTree` | ranks, rotation of ranks, phases of the tree | next two |
| `BinomialReduction` | one reduction, for proof and liveness | `MCBinomialReduction` |
| `TypedCollectives` | programs of calls on all ranks | `MCTypedCollectives` |
| `DeviceStreams` | streams, events, tasks | `CudaGraphs` |
| `CudaGraphs` | buffers, programs, a pool | `MCCudaGraphs` |
| `RotationPaths` | the search for rotation paths and its reference | `EngineKeys` |
| `EngineKeys` | inventory, symbols, replicas | `MCEngineKeys` |
| `*Proofs` | theorems about the module they are named after; `ResidencyManagerProofs` includes the preflight, `CudaGraphsProofs` starts with `DeviceStreams` | |
| `MC*` | values of the constants for TLC | |

A definition whose comment begins with `Mutated:` is a plausible slip in the
definition that follows it. No specification uses it: each property of a passing
run has one, with which the run must find the property violated.

## 3. The models

### 3.1 Residency

`ResidencyPreflight` is written from the simulation code
(`_explain_actions_locked`, `_simulate_action_locked`) and shares nothing with the
transition actions of `ResidencyManager` except `SelectSource`, so comparing the
two says something. The same holds for `ResidencyPlanner`, which projects
placements the way the controller does.

| variables of `ResidencyManager` | code |
|---|---|
| `records`, `materializations` | `_values`: `absent` is a handle not issued yet or forgotten by `close`; `discarded` keeps its record |
| `use_tokens`, `pending_tokens`, `hold_tokens` | the token sets of a `_Materialization`; kept as a total function, empty where nothing is resident |
| `leases`, `holds`, `reservations` | the tables of the manager; a lease is `none`, `active` or `pending` (released, events not reaped) |
| `used_bytes`, `reserved_bytes`, `locations` | `_LocationState`, created on first use or for a budget |
| `closed` | `_closed` |
| `scopes` | the `ResidencyScope` objects with their progress |
| `fresh` | `_state_version`, see below |
| `op` | who runs inside the lock and how far: kind of operation, requests and reservations still to do, its scope, and the load in progress |
| `predicted` | `predicted_peak_bytes` of the explanation that admitted `op` |
| `orphaned` | tokens whose Python object is gone and whose finalizer was rejected |
| `reading` | leases whose consumer stream still has work: the hardware, not the manager, knows this |

A method that runs no transition is one action (`Adopt`, `Acquire`, `Hold`,
`ReserveBytes`, `Close`, ...). A method that runs transitions is a `Begin`
(`Run`, `ExecuteActions`, `EnterScope`, `ExitScope`), a step of the lock holder
for each request (`StepMove`, `StepDrop`, ...), and an end. Other threads are
locked out in between, so the split matters in two ways: the properties are
checked between any two requests of a plan, and `StartLoad` / `FinishLoad` /
`LoadFails` open the window in which a callback runs and other threads do observe
the manager, to be rejected (`RejectScope`, `Orphan`).

Every action that polls events (`_reap_completed_locked`) contains `Reap`, as the
code does it on entry, and bumps the version when anything was reaped. What
fails: an infeasible request (`~Feasible`), or a transfer that raises although
feasible (`Transfers`: allocation, copy, validation). `Fail` ends the operation
as the code's handlers do: nothing is rolled back, a scope returns its
reservations.

The controller adds `uses`. A use goes through `Decide` (snapshot and search),
`Explain`, `MakeScope`, `EnterUse` (the manager's `EnterScope`), one `Borrow` per
location (the manager's `Acquire`), `Leave`, one `ReturnLease` per location in
reverse order, `LeaveScope`. Each is one call of the manager; between any two of
them the other clients (`OtherClients`) adopt, load, move, drop, discard, lease,
hold, reserve, abandon and close. The search is one step, since it works on a
snapshot: `Achieve` in `ResidencyPlanner` works off a list of goals where the
code nests generators, in the same order of choices (a function defined by
recursion over what remains to be done). Its domain, `Nodes`, bounds the depth and the
number of goals; a choice goes one level down and adds two goals at most, so the
search never leaves it. The policy is any ranking of
the values (`Rankings`) with fixed fallback tiers.

Abstractions.

- A version is only ever compared with one read earlier. So `state_version` is the
  set `fresh` of scopes whose expected version is still current; `Bump` empties it.
- Payloads, CKKS metadata, storage aliasing checks, peaks of allocator metrics,
  traces, explanations and reports are left out. A storage check that fails is a
  failed transfer.
- Tokens are issued from a finite set. `TokenBound` keeps a scope from entering
  when the set is too small for its plan; `Leases`, `Holds` and `Reservations`
  bound the lifetimes that exist at a time, not in total, since a token is free
  again after release. A scope and a use are used once, as in the code.
- A CUDA release that waits for its streams (the `synchronize` request, an event
  that cannot be recorded, or an abandoned lease) is `ReleaseNow` with no read in
  flight; the wait itself is left out.
- `LaunchRead` only happens while a lease is active and its object is alive:
  using a borrowed value afterwards is an error of the caller that the code
  rejects.
- The memo of exhausted placements saves work and is left out. A search nested
  deeper than `MaxDepth`, which exceeds the number of placements of the
  instance, goes round in circles: that is `search_state_limit` and Python's
  recursion limit.
- Not modelled: a finalizer that the garbage collector runs on the very thread
  that holds the re-entrant lock outside a transition; an event query that
  raises; explicit stream arguments of transfers (a transfer is complete when
  its method returns); access epochs.

### 3.2 Artifact store

A client is a thread with a store object of its own. The catalog's rows are one
variable, committed in one step; what surrounds that step is modelled file by
file.

| variables | code |
|---|---|
| `catalog`, `storage`, `bootstrap` | `catalog.sqlite3` and its schema, `objects/` and `tmp/`, `.store.lock` |
| `durable_catalog`, `durable_storage` | what a power loss may make of the two |
| `rows` | the table, as committed |
| `durable_rows` | the rows a power loss may go back to |
| `staging`, `objects` | content of `tmp/<id>` and `objects/<prefix>/<id>`: none, partial, written, whole (flushed) |
| `durable_objects`, `directories` | synced directory entries, prefix directories |
| `lock` | SQLite's lock on the catalog: none, shared, reserved, pending, exclusive |
| `pc`, `name`, `artifact`, `retired`, `wanted` | how far a call is and what it works on |
| `issued`, `committed`, `returned` | history for the refinement |

A put is `BeginPut` (the reserved lock), `CreateStaging`, `WriteStaging`,
`FlushStaging`, `MakeDirectory`, `LinkPayload`, `UnlinkStaging`, `SyncPayload`,
`StartCommit` (pending: new readers stay out), `Commit`, `UnlinkRetired`,
`RemoveDirectory`. Each may fail (`FailWrite`, `FailLink`, `LeaveOrphan`), be cut
off (`Crash`), or be cut off for everybody (`PowerLoss`, which loses what was not
synced and may bring back removals that were not). Opening is `CreateCatalog`,
`InitializeCatalog` (the transaction of the schema), `SyncCatalog`, `MakeStorage`,
`SyncRoot` and the recovery; a power loss in between may undo the schema, the entry
of the catalog or the storage directories, as far as they were not synced. A
journal is no file of its own, and `objects/` and `tmp/` come and go together. Recovery
syncs the directories it removed a payload from (`SyncedEntries`). Encoding, checksums and
metadata validation are one step that may fail. A collection is a name prefix.

SQLite and the directory cache are outside the repository and modelled from what
the code relies on: locks of a rollback journal, `BEGIN IMMEDIATE` for writers,
`BEGIN EXCLUSIVE` for recovery, `fsync`. `SyncedCommit` says whether a commit
that returned survives a power loss; see the second finding. With it the schema is
durable once it is committed, and the syncs of the catalog add nothing to that. Without
it `RootIsRecognized` has one more way to fail, which follows from the model and has no
run: a process dies between the commit of the schema and the syncs after it
(`fhelium/artifacts/store.py:413-415`), the next one finds the schema, makes `objects/`
and `tmp/`, and the power fails before it has synced the root (`:562`). The schema may
then be rolled back beside directories that stay, and every later open refuses the root.

`AtomicStore` is the abstract specification: a map from names to generations, put
and delete in one step, reads of what is current at one moment, generations never
reused. `ArtifactStore` implements it under the mapping `current <- rows`,
`used <- committed`, `answer <- returned`: a put takes effect at `Commit`, a read
at `EndRead`, all other steps, faults included, stutter.

### 3.3 Distributed

`ReductionTree` has the arithmetic of `_ciphertext_reduction.py`: logical ranks
(rotated so that the destination is 0), sender and receiver of a phase.

`BinomialReduction` is one reduction. `stage`, `mask`, `value` are the locals of
`_reduce_ciphertext_tree` on each rank, `wire` the messages. A ciphertext is how
often it contains each rank's partial. A send returns when its message is taken,
or at any time before (`BufferedSendReturns`): the code may not rely on either.

`TypedCollectives` runs a program of calls, the same on every rank, chosen in the
initial state. `Script` gives the steps of each of the seven collectives:
`errors` (`_collect_argument_errors`, an all-gather of argument errors),
`layouts` (descriptors of all ranks), `describe` (the root's descriptor),
`tensors`, `pieces` (point to point), `tree`. `posts` is what each rank has
entered; a step of a collective is taken when the others, or the root, have
posted theirs. An argument may be right, `wrong_type`, `odd_layout` (differs from
the others), or `opaque` (`describe_value` raises). Two things fail on a rank alone
for reasons of its own (`MayRaise`), after it took what the others sent it:
`AllocationRaises`, a CUDA tensor is described to a rank without CUDA device, which
`_allocate_tensor` refuses when a broadcast, a scatter or the root of a gather is about
to receive; and `AddRaises`, `engine.add_` rejects what arrived in the tree. Such a
rank leaves the call at once, with messages to it on the wire or still to be sent, and
the application calls no further collective on it (`CanCall`): the others are not in
step with it any more. The transport's contract is
modelled as external: the n-th collectives of all ranks meet, and a receive takes
a message of the rank it names.

### 3.4 Buffers and CUDA graphs

`DeviceStreams` is a calculus of streams: a task follows the front of its stream;
`WaitEvent` adds what an event had recorded to the front; `RecordEvent` notes the
front. A task starts when everything it follows has finished, and any number of
tasks run at once. `MaxTasks` bounds what is in flight.

| `CudaGraphs` | code |
|---|---|
| `Copies(b)`, `Latest(b)` | `_inflight_copies` of a `ReusableValueBuffer`, the handle `copy_from` returns |
| `Reads(p)` | `_last_replay_event` of a program; the event of the caller for other buffers |
| `Pool` | `_last_event` of a `CudaGraphPool` |
| `stage`, `prepared`, `pool` | closed flags, the outstanding prefetch |
| `inputs`, `outputs` | what is in the storage; `Torn` while it is written |
| `held` | the payload last submitted: what a reader enqueued now must see |

`CopyInputs`, `Replay`, `ReplayAndClone`, `FillBuffer`, `ReadBuffer` take any
stream. A `Task` of the device reads and writes memory between `StartTask` and
`FinishTask`, so an overtaking copy is seen as a torn or a wrong payload. Eager
readers of a buffer keep the documented contract (wait for the handle, pass the
event of the read to the next copy); programs need no such help. Closing blocks
the host until events complete, and `close` of a pool closes its programs one by
one.

### 3.5 Keys of an engine

`heap` is what Python's memory holds at each address; every step ends with the
collection of keys that neither the engine nor the application refers to
(`Becomes`), so an address can be reused by the next key. `engine` has the
inventory (`secret`, `public`, `evaluation` by role) and `bound` (symbols).
A caller may bind a key to the symbol of another role. `replicas` is the cache: entries that know a key by address and version only; `of`
is what was copied. Actions: the setters of secret, public and evaluation keys
with the order in which they discard replicas, their refusals (which come *after*
the discards), removal, generation on demand with the secret generated on the
way, writes into a key, `_key_on_device`.

The application keeps to its part (`docs/concepts/ckks/key-lifecycle.md`): a key
it installs belongs to the secret of the keys already there, or is a new secret.
A conjugation key is treated like a relinearization key.

`adrift` records that an installed evaluation key lost its symbol: after a
`set_secret_key` that was refused, or when a symbol that is not that of its role is
bound to another key or removed. `ReplicasFollowTheirKeys` says nothing of such an engine, see 4.3.

## 4. Runs

| run | question | distinct states |
|---|---|---|
| `residency_plans` | does an admitted plan ever meet a step that cannot run, or charge more than predicted, while a scope, batches and single requests compete? Is the manager always given back, and are reservations returned when exit fails? | 147 thousand |
| `residency_controller` | is an automatic use safe among other clients, from decision to unwinding, and do budgets, lifetimes and placements hold under every interleaving, loads, lost finalizers and forced close included? | 358 thousand |
| `artifact_store` | do rows, readers and recovery survive crashes and power loss, is every call atomic, are locks always returned? | 228 thousand |
| `binomial_reduction` | does the destination get the exact sum, and does every rank return? | 1 thousand |
| `typed_collectives` | do ranks agree on every call, whatever arguments are wrong where and whichever rank raises? | 577 thousand |
| `cuda_graphs` | are copies, replays, clones and reads ordered on any streams? | 1.48 million |
| `engine_keys` | do keys share a secret and replicas follow their keys? | 327 thousand |
| `residency_scope_leak` | (violation) does a closed scope charge nothing? | - |
| `residency_search` | (violation) does the search end? | - |
| `artifact_power_loss` | (violation) do rows have payloads without a synced commit? | - |
| `collectives_hang` | (violation) does nobody wait for ever? | - |
| `cuda_graph_clone` | (violation) do readers see their payload when a clone runs out of memory? | - |

The invariants of the manager that `ResidencyManagerProofs` proves are checked in
`residency_controller`, which contains every operation of the manager except
plan scopes of other clients; those are in `residency_plans`.

### 4.1 Bounds

*Residency.* Two values cover the two kinds that matter: `weights` is adopted,
exclusive and one unit large; `keys` is reconstructible, replicable and two units
large. Every branch of the transition rules depends on replica mode, on having a
source and on the replicas of one value; a second value is needed to compete for
bytes. Two locations, one of them CUDA, with budgets of three units: keys, weights
and a workspace of one unit do not fit together, and the host has a budget so
that the temporary charge of a load can be refused. `residency_plans` has two plans
(one evicts and restores, one takes two reservations and fails half way), three
batches and two reservation tokens. `residency_controller` has one automatic use
with two leases of its own, and a lease, a hold and a reservation of other
clients; it needs no manual plan scopes, which the first run has. Two leases
matter because a second acquire can fail when the first succeeded.

*Artifacts.* Two clients, two names and two artifact ids whose payloads share a
directory: a put that replaces one name, a put of another that meets the `rmdir`
of the first, reader against writer, and recovery against both. An id is never
reused, so two ids bound the number of puts in a behaviour; a replaced generation
exists, and so does a deleted one.

*Distributed.* Six ranks have a phase in which a rank sits out, and the
destination 4 makes the rotation of ranks matter. Three ranks and two calls of
seven kinds: a root that is neither first nor last, a rank ahead of the other
two, every pair of successive collectives. In `typed_collectives` any rank may fail
alone (`MayRaise` is all of them); in `collectives_hang` none, so that the finding does
not rest on it.

*CUDA.* Two programs in a pool and an eager buffer, two streams, two payloads,
three tasks in flight: a copy, the replay it must not overtake, and what that
replay waits for.

*Keys.* Three addresses: a key, one that replaces it and a secret. Two steps of
eight slots, of which one does not reach all rotations; each of the three evaluation
roles is also a symbol keys of the others are bound to, and a symbol of no role
(`OtherSymbols`), which is a special case of that, is left to the proofs. One write per key, and only
one of the keys that exist at a time is written (`OneWritten`): each entry of the cache is
about one key. The constraint `Followed` ends a behaviour when the engine goes adrift.

Symmetry is used in the runs without temporal properties where the members of a
set are interchangeable (`cuda_graphs`, `engine_keys`).

### 4.2 Fairness and deadlock

- `ResidencyManager!FairSpec`: `WF_vars(HolderStep)` alone. The thread that holds
  the lock keeps running, and a source callback returns or raises: the first is
  the scheduler's promise, the second what the access guard is for, since a
  callback cannot wait for the manager. So `OperationTerminates` assumes that callbacks
  end and does not test the guard; what the guard does to the calls it rejects is
  modelled (`RejectScope`, `Orphan`, `LeaseRejected`). Nothing is assumed of clients, streams or
  the garbage collector.
- `ArtifactStore!FairSpec`: weak fairness of every client that is in a call
  (`Continue`): codecs and file operations return. No fairness for failures, so
  nothing relies on SQLite's busy timeout.
- `BinomialReduction!FairSpec`: weak fairness of every rank, without the transport
  buffering anything for sure and without additions raising.
- `TypedCollectives` needs none: each step takes a rank forward in a finite
  program, so a rank waits for ever exactly when nothing can move
  (`NobodyWaitsForever`).

Deadlock is checked in `artifact_store` and `engine_keys`. It is not where the
system may stop: a closed manager without objects, finished programs of ranks,
closed buffers. What must not stop there is stated as a property instead.

### 4.3 Findings

1. `residency_scope_leak`. `ResidencyScope.close` (`fhelium/residency/manager.py:2418`)
   marks the scope closed and detaches its finalizer in a `finally` block, also
   when the call was rejected before it did anything because a source callback
   of another thread is active. Its reservations then stay charged until the
   manager closes. The documentation says "Scope exit always attempts to release
   reservations." (`docs/developer/residency-plans-and-execution.md:184`). Leases,
   holds and single reservations stay active when rejected and can be released
   again.
2. `artifact_power_loss`. With `synchronous=FULL` and a DELETE journal
   (`fhelium/artifacts/store.py:363`) SQLite does not sync the directory after it
   unlinks the journal, which is what makes a commit final; the code syncs `tmp/`
   and `objects/`, not the root. On a file system that persists operations on
   different directories in any order, a power loss after a delete brings the
   row back without its payload, and every later open fails. The class promises
   "never a committed row pointing to a partially written payload" (`:183`).
   With `SyncedCommit` (another file system, or `synchronous=EXTRA`) the property
   is proved.
3. `collectives_hang`. `all_gather_ciphertexts` raises for a wrong argument on one
   rank before any control collective
   (`fhelium/distributed/_value_collectives.py:568`), and the others wait; compare
   `docs/developer/distributed-internals.md:118`. `OnlyRaisingStrands` shows that
   ranks are stranded only by a rank that raised on its own: here, in `describe_value`,
   in the allocation of a tensor it cannot receive
   (`fhelium/distributed/_transfer.py:151`), or in an addition
   (`fhelium/distributed/_ciphertext_reduction.py:129`, as its docstring says).
   Arguments refused by all, unbuffered sends and ranks that run ahead strand nobody.
4. `residency_search`. The search remembers a placement only when its subtree is
   exhausted (`fhelium/residency/controller.py:641`) and so revisits placements on
   its own stack: it moves a value to the host and back until a limit ends it,
   where `docs/developer/residency-plans-and-execution.md:157` promises an
   infeasible answer.
5. `cuda_graph_clone`. When the clone of an output runs out of memory
   (`fhelium/runtime/cuda_graph.py:602`), the graph was launched but no event was
   recorded: the next prefetch on another stream overwrites the inputs of the
   replay, against the docstring at `:515`.

Two more disagreements were met and have no run.

- A refused `set_secret_key` (`fhelium/eager/_engine.py:1475`) has dropped the
  symbols of evaluation keys that stay installed. Their replicas are then not
  discarded when they are replaced, and a key at a reused address can be given a
  stale one. TLC finds this when `ReplicasFollowTheirKeys` is stated without its
  premise `~adrift` and the run without its constraint.
- The search of the controller (`fhelium/residency/controller.py:905`) only tries
  replicas at the location that is short, and never moves a replica that has
  another copy, so it can miss a plan. The smallest case known has three tiers
  and three values of size 1: v0 in pinned memory, v1 in pageable memory, v2
  exclusive on the GPU; budgets 1, 2, 1 for host, pinned, GPU; the request is v2
  and v1 in pinned memory and one unit reserved on the GPU.
  `docs/how-to/diagnose-residency-failure.md:107` takes a refusal for a proof.

## 5. Proofs

Proved for all values of the constants, no set assumed finite; the named
assumptions of the constants are all evaluated by the runs.

| module | theorem | states |
|---|---|---|
| `ResidencyManagerProofs` | `TypeCorrect`, `BudgetRespected`, `LifetimesAgree`, `ReadsAreSafe`, `NothingLost`, `ExclusiveIsSingle` | `[]TypeOK`, `[]WithinBudget`, `[]LifetimesConsistent`, `[]NoReadOfFreedStorage`, `[]NeverLost`, `[]ExclusiveHasOneReplica` |
| | `VersionsTrackState` | `VersionTracksState`: no step that changes what a version covers leaves an older version current |
| | `BytesAreExact` | `[]AccountingExact` |
| | `AdmittedPlansAreFeasible`, `PeaksAreCovered` | `[]AdmittedStepsFeasible`, `[]PredictedPeakCoversCharge` |
| `ResidencyPlannerProofs` | `SearchPasses` | a plan found by the search passes the dry run it started from, unless it moves a protected replica |
| `ResidencyControllerProofs` | `ControllerIsAClient` | `ControllerSpec` implements the specification of the manager |
| | `PromisesKept` | the eight invariants of the manager, `TypeOK` apart, under `ControllerSpec` |
| | `ControllerVersionsTrackState`, `PlansStartFresh` | `VersionTracksState`, `PlansStartWhereDecided` |
| | `DecisionsPassPreflight` | `[]SearchAgreesWithPreflight` |
| | `RunningUsesAreServed`, `EndedUsesReturnAll` | `[]BorrowsStayPut`, `[]EndedUsesOwnNothing` |
| `ArtifactStoreProofs` | `StoreTypes`, `RowsHavePayloads`, `ReadersAreSafe`, `GenerationsDiffer` | `[]TypeOK`, `[]CommittedPayloadPresent`, `[]ReaderKeepsPayload`, `[]GenerationsAreUnique` |
| | `RootsAreRecognized`, `RecoveriesAreComplete` | `[]RootIsRecognized`, `[]RecoveryIsComplete` |
| | `StoreIsAtomic` | `TakesEffectAtOnce`: the refinement of `AtomicStore` |
| `BinomialReductionProofs` | `ReductionTypes`, `ReductionIsASum`, `MessagesAreTaken` | `[]TypeOK`, `[]RootHoldsTheSum`, `[]NothingLeftOnTheWire` |
| | `TheRestSend`, `PartialsCountOnce` | `[]OnlyRootOutlastsTheTree`, `[]NothingCountedTwice` |
| `TypedCollectivesProofs` | `PostsMeet`, `RefusalsAreShared` | `[]CollectivesMeet`, `[]RefusalsAgree` |
| | `MessagesFindTheirCall`, `ResultsHold` | `[]MessagesMeetTheirCall`, `[]ResultsAreExact` |
| `CudaGraphsProofs` | `GraphTypes`, `ScratchIsExclusive`, `ClosedStaysIdle`, `ReadersFindTheirs` | `[]TypeOK`, `[]ScratchHasOneUser`, `[]ClosedIsIdle`, `[]ReadersSeeTheirPayload` |
| `EngineKeysProofs` | `EngineTypes`, `KeysShare`, `ReplicasFollow` | `[]TypeOK`, `[]KeysShareTheSecret`, `[]ReplicasFollowTheirKeys` |
| | `PathsAreShortest` | `[]RotationPathsAreShortest` |

`ArtifactStoreProofs` assumes `SyncedCommit`; without it the second finding
refutes `RowsHavePayloads`. What is resident or reserved is finite in every
reachable state although the sets of values and tokens need not be, and the proof
of `BytesAreExact` shows it. `Kinds` is any set of the seven collectives the code
has.

*Residency.* `TypeOK` alone is not inductive: the steps of a scope read
`scopes[op.scope].plan`, and the end of a load takes the tail of `op.todo`.
`ControlConsistent` adds that a created scope carries a plan, that an operation
in a scope phase has a scope, and that a load belongs to a request. `predicted` is
left untyped: it is the result of a fold, and no action reads it. Budget: each
action leaves both counters, lowers them, or raises one under `Fits`; a load that
ends gives its charge back in the step that installs the value. Lifetimes:
`ProtectedStay`, a transition that leaves protected materializations alone
preserves the agreement of tokens and tables, with the reap that precedes it.
Reads: `LeasesPlaced` and `ReadsOwned` say that a lease in use has a location and
that a read belongs to a lease that was not reaped; with the agreement they give
`NoReadOfFreedStorage`, which is not inductive alone, since that the storage stays
is known only through the token. Placement: `LoadConsistent` says that while a
callback runs, the value being loaded stays live, reconstructible and without
replica; without it the end of a load could revive a discarded value or give an
exclusive one a second replica. Versions: an action that changes what a version
covers empties the set of current ones in the same step, except that making a
scope adds its own; `FreshBorn`, a version current for a scope means that the
scope was made, tells that one from the old ones.

*Bytes.* `BytesExact` says of each location that its counters are the sums over
what is resident, being loaded and reserved, and that these sets are finite. A
sum is the fold of the community modules, a function defined by choice over all
subsets; `TotalInsert` and `TotalRemove`, by induction over the size of the set,
show that it does not depend on the order of summation. Each action then changes
a sum by the term it changes the counter by.

*Plans.* `DryRun` says that the preflight, were it run now from the present
placement over the steps still to do, would succeed and stay within the announced
peaks. It is kept by a step because the dry run of one request does what the
transition does (`MoveSimulated` and its companions), and by whatever other
threads may do in the meantime, releases and finalizers, because a simulation
with less charged and fewer replicas protected succeeds whenever one with more
does (`Below`). A request at the head of the list is then feasible because its
own simulated step is. `AgendaConsistent` ties the lists of the operation to the
plan.

*Controller.* `ControllerIsAClient` is a refinement: `M` is the manager with the
controller's variables, with any plan allowed in a scope (`Plans <- ResidencyPlan`).
Only the current versions have to be mapped. The manager knows versions of scopes
that were made; the controller reads one when it decides, before the scope exists.
`Born` is `fresh` without the scopes not made yet: a decision is then a poll of the
manager, and `MakeScope` the step in which the version appears. The mapping needs
that the scope of a use is unborn until `MakeScope`, versioned when it is made, and
entered, exited and closed as the use's stage says (`ClientInv`). With the refinement,
what is proved of the manager holds for the controller (`PromisesKept`), the exact
counters and the admitted plans included.

`StacksFollow` says what the stack of a use owns at each stage. While it leases, the
locations of the request are those on the stack, each with its own active lease, and
those still to do, none twice. For that, `LeaseOrderIsOrder` shows that grouping by
location names every location of a request exactly once. Nobody else touches these
leases, except a forced close, which returns all of them: this is what no step of
another thread may break, and with the agreement of leases and tokens it gives
`BorrowsStayPut`. A use that ended has an empty stack, so what is left active is what
`LeaseRejected` recorded in `lost`.

`DecisionsHold` says that a waiting use whose version is current would, on the present
state, be answered with its own plan. It needs that every change of a versioned part
empties `fresh` (`ControllerVersion`, with `NewIsStale`: a use that has not decided
has no version). What the search reads besides that are the byte counters, and those
do change while a version stays current: a load that starts charges its source, and
gives the charge back when it fails. `PlannedFollows` closes the gap with `BytesExact`:
without the load's charge the counters are functions of placement and reservations,
and no load runs when a plan is decided or started. For `PlansStartWhereDecided` the
search enters as any function of snapshot, request, ranking and protected pairs.

*Planner.* `SearchAgreesWithPreflight` needs what the search computes. `SearchPlans` says
of every node that a plan found there leads over a placement `p` on which the request
finds room, and that `p` is where the manager's dry run of the chosen actions ends
(`Mirrors`). The recursion is well founded: a node only leads to nodes that are
deeper, or as deep with fewer goals (`Nearer`), and the depth is bounded, so
`NodeInduction` holds and `AchieveUnfolds` shows that the function exists. What goes down
this recursion is `Reaches`. Besides `Mirrors` it says of each relocation still to come
that its value has only the replica to be moved, that nobody uses this replica, and that
no goal in front may touch the value (`GoalsFit`): dropping another value or making room
for it cannot spoil a move that was chosen further up, since a goal for room carries
the values it may not touch (`blocked`). A choice keeps that (`SafeDrop`, `SafeMove`) because
a candidate is no protected replica and only a sole replica is moved, elsewhere: no tier
falls back to itself (`PlannerAssumption`; `DeterministicTieredLRU` refuses such a tier). At the leaves,
each reservation and each requirement is one action of the preflight (`EnterMirrors`,
`RequestPasses`); only here may the search plan what the preflight refuses, the move of an
exclusive value in use, which the property exempts. The folds of the search are reduced
to one shape once (`Combine`, `Runs`), since a fold is a function defined by choice.
In the controller, `Mirrors` holds at the root by `NeverLost`, and `DecisionsHold` says that
the plan is still the answer of a search on the present state.

*Artifacts.* The invariant says which lock each phase holds (`LocksFollow`,
`LocksExclude`), that rows point to whole, durable payloads (`RowsSound`), how far
the payload of a put in progress is (`WritersSound`, `PayloadsSound`), that what a
client is about to unlink is in no row (`RetirementSound`), and that a reader's
selection is among the rows (`ReadersSound`). The chain of reasons is short to
say: a reader holds a shared lock, a commit waits for shared locks, and unlinking
comes after the commit. `StorageSound`, nobody writes a payload before the
directories are durable, says that a power loss that takes the directories takes no
payload of a row. Two more facts hold beside it: a catalog with a schema
keeps it, also through a power loss, and only such a store gets its directories
(`RootSound`); what recovery
swept stays swept, since EXCLUSIVE keeps every writer out (`SweepsLast`). The
refinement maps each action to a step or a stutter.

*Reduction.* A rank in phase `mask` holds exactly the partials of the `mask`
logical ranks that start at its own (as far as they exist); a message is the
subtree of its sender; each partial is in one live value or message. At the end
of the destination's loop its subtree is everybody.

*Collectives.* Where a rank's last post stands, and what all ranks posted there,
decide its next post (`Decided`). So the posts of any two ranks are prefixes of one
sequence, which is `CollectivesMeet`. `Coherent` holds the rest of what this needs:
which posts a rank inside a call has made and which verdicts it has read, and that a
rank that raised has entered nothing it would have to describe. A refusal is read from
the same posts by everybody, hence `RefusalsAgree`. `FlowInv` adds the messages. A rank
about to send has passed each step of the call that waits for all ranks, so its
receiver has entered the call and passed them too, and leaves before it has taken the
message only by an exception of its own, an allocation or an addition that raised, after
which it calls nothing (`RaiseStep`); one pair of ranks exchanges at most one message in
a call. For
the values, a rank of the tree at mask `m` holds the sum of the `m` places from its
own on, because the masks are powers of two (the least set that contains 1 and is
closed under doubling) and a message of place `l + m` carries the next `m` places.
What `OnlyRaisingStrands` says is not covered: see below.

*Graphs.* The first part of `CudaGraphsProofs`, about `DeviceStreams`, defines
what a set of tasks waits for, directly or through others, as what is in every
closed set around it, so that no induction is needed, and proves what enqueuing,
starting and ending a task do to that order. The invariant has three parts.
`Traced`: the copies in flight are covered by the buffer's copy events and by its
latest handle (or, once a replay has consumed that, by the replay), the replays,
clones and reads by the read event, pooled replays by the pool's. `Ordered`: of
two tasks in flight that clash one waits for the other; a running task waits for
none, which gives exclusion. `Foreseen` and `HeldComes`: of the writers a reader
waits for, the last leaves the payload the reader was enqueued for, and of all
copies in flight the last leaves the payload last submitted. The theorems are
about `Spec`; with `ReplayRaises` (`ScarceSpec`) `Traced` fails, which is the
fifth finding.

*Keys.* Everything the engine, the application or a replica refers to is in the
heap, so a fresh address is nobody's; the keys an engine owns share one secret; a
replica belongs to an owned key and is never of a later
version than it, and at the same version is a copy of its contents.

*Rotation paths.* The property is about a search, so its proof is about recursive
functions: that the search, its folds and the sums of the reference exist and are
what their recursion says (`RunExists`, `RunsAgree`), then an invariant of one
expansion. It says that every known residue but 0 was reached from a known one by a
usable step, at a distance one greater; that the queue is ordered by distance and
spans at most two successive ones; and that the residues no longer in the queue are
done with: a usable step from one of them leads to a known residue. Each expansion
takes one residue from the queue for good, so `NumSlots` expansions end with an empty
queue or the target. In the first case the known residues are closed under steps, so
no sum is the target; in the second the path read off backwards has as many steps as
the target is distant. `SortedSteps` gives the steps in ascending order; the proof
only uses that it lists each usable one.

Model-checked only:

- `NobodyWaitsForever` and `OnlyRaisingStrands` of `TypedCollectives`, which speak
  of `ENABLED`;
- `OperationTerminates`, `ExitReturnsReservations`, `LocksAreReturned`,
  `EveryRankReturns`: liveness under fairness;
- the findings.

The induction theorems of the library take an operator and cannot be used.
Where an induction over numbers is needed, the proofs state the property as a
set of numbers, or as a least set closed under a step (`InductionOnNat` in
`ResidencyManagerProofs`, from the well-foundedness of the naturals).

## 6. Running it

    tlc -workers 2 -config MCResidencyPlans.cfg      MCResidencyPlans
    tlc -workers 2 -config MCResidencyController.cfg MCResidencyController
    tlc -workers 2 -config MCArtifactStore.cfg       MCArtifactStore
    tlc -workers 2 -config MCBinomialReduction.cfg   MCBinomialReduction
    tlc -workers 2 -config MCTypedCollectives.cfg    MCTypedCollectives
    tlc -workers 2 -config MCCudaGraphs.cfg          MCCudaGraphs
    tlc -workers 2 -config MCEngineKeys.cfg          MCEngineKeys

and, each ending in the counterexample of a finding,

    tlc -workers 2 -config MCResidencyScopeLeak.cfg  MCResidencyPlans
    tlc -workers 2 -config MCResidencySearch.cfg     MCResidencyController
    tlc -workers 2 -config MCArtifactPowerLoss.cfg   MCArtifactStore
    tlc -workers 2 -config MCCollectivesHang.cfg     MCTypedCollectives
    tlc -workers 2 -config MCCudaGraphsScarce.cfg    MCCudaGraphs

A passing run takes from seconds to about three minutes. The proofs are checked by

    tlapm ResidencyManagerProofs.tla
    tlapm ResidencyPlannerProofs.tla
    tlapm ResidencyControllerProofs.tla
    tlapm ArtifactStoreProofs.tla
    tlapm BinomialReductionProofs.tla
    tlapm TypedCollectivesProofs.tla
    tlapm CudaGraphsProofs.tla
    tlapm EngineKeysProofs.tla

from seconds to about a quarter of an hour each (`ResidencyControllerProofs`, which carries
the manager and its proofs along twice, takes longest).

## 7. What is left

- Refinement of `ResidencyManager` to an abstract custody of values (who protects
  what, how many bytes are left) without operations in progress.
- Failing event queries and finalizers at the granularity of bytecode, and with
  them the table of compiled callables.
- Several uses at once in a run of `ResidencyController`, which exceeds what TLC
  explores in minutes; the theorems hold for any number.
- When the refusals of the search are right: with three tiers it misses plans
  (section 4.3), and a condition under which it misses none is not stated.
