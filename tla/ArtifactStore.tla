---------------------------- MODULE ArtifactStore ----------------------------
(***************************************************************************)
(* The artifact repository (fhelium/artifacts/store.py): an SQLite catalog *)
(* of names and immutable payload files beside it, used by several         *)
(* processes.  A client is one thread of one process with its own store    *)
(* object and connection.  Between any two steps a process may die         *)
(* (Crash) or the host may lose power (PowerLoss).                         *)
(*                                                                         *)
(* SQLite's file locks and the directory cache of the operating system are *)
(* outside the repository: they are modelled from how store.py relies on   *)
(* them (rollback journal, BEGIN IMMEDIATE and EXCLUSIVE, fsync).          *)
(***************************************************************************)
EXTENDS FiniteSets, Naturals

CONSTANTS
    Clients,        \* threads that use the store
    Names,          \* normalized logical names
    Ids,            \* artifact UUIDs; bounds how many puts are ever started
    Directories,    \* object directories objects/<uuid-prefix>/
    DirectoryOf,    \* the directory of an artifact's payload
    None,           \* no row, no artifact, nobody
    SyncedCommit    \* does a committed transaction survive a power loss?

ASSUME StoreAssumption ==
    /\ DirectoryOf \in [Ids -> Directories]
    /\ None \notin Ids \cup Clients
    /\ SyncedCommit \in BOOLEAN

VARIABLES
    catalog,          \* the catalog file: "absent", "empty" or "ready"
    durable_catalog,  \* what a power loss may make of it
    storage,          \* do objects/ and tmp/ exist?
    durable_storage,  \* are their directory entries on disk?
    rows,             \* the current artifact of each name, as committed
    durable_rows,     \* the rows before a commit that may not be on disk
    staging,          \* tmp/<id>: "none", "partial", "written", "whole"
    objects,          \* objects/<prefix>/<id>: the same
    durable_objects,  \* ids whose directory entry is on disk
    directories,      \* existing object directories
    lock,             \* each client's SQLite lock on the catalog
    bootstrap,        \* the holder of .store.lock
    pc,               \* how far each client is in its call
    name,             \* the name a put or delete works on
    artifact,         \* the artifact a put publishes
    retired,          \* the artifact its call makes unreachable
    wanted,           \* the artifacts a reader selected in its transaction
    issued,           \* artifact ids ever allocated
    committed,        \* artifact ids that were ever current (history)
    returned          \* what each client's last get returned (history)

files == <<staging, objects, durable_objects, directories>>
root  == <<catalog, durable_catalog, storage, durable_storage>>
table == <<root, rows, durable_rows, committed>>
calls == <<name, artifact, retired, wanted, returned>>
vars  == <<files, table, calls, lock, bootstrap, pc, issued>>

Contents == {"none", "partial", "written", "whole"}
Locks == {"none", "shared", "reserved", "pending", "exclusive"}
Opening == {"bootstrapping", "initializing", "persisting", "validating",
            "rooting", "locking", "draining", "sweeping", "pruning", "opened"}
Putting == {"staging", "writing", "flushing", "linking", "publishing",
            "unlinking", "fsyncing", "updating"}
Phases == Opening \cup Putting \cup
          {"closed", "ready", "reading", "deleting", "committing",
           "abandoning", "retiring", "removing"}

Rows == [Names -> Ids \cup {None}]
Referenced(r) == {r[n] : n \in Names} \ {None}

TypeOK ==
    /\ catalog \in {"absent", "empty", "ready"}
    /\ durable_catalog \in {"absent", "empty", "ready"}
    /\ storage \in BOOLEAN /\ durable_storage \in BOOLEAN
    /\ rows \in Rows /\ durable_rows \in Rows
    /\ staging \in [Ids -> Contents] /\ objects \in [Ids -> Contents]
    /\ durable_objects \subseteq Ids
    /\ directories \subseteq Directories
    /\ lock \in [Clients -> Locks]
    /\ bootstrap \in Clients \cup {None}
    /\ pc \in [Clients -> Phases]
    /\ name \in [Clients -> Names \cup {None}]
    /\ artifact \in [Clients -> Ids \cup {None}]
    /\ retired \in [Clients -> Ids \cup {None}]
    /\ wanted \in [Clients -> SUBSET Ids]
    /\ issued \subseteq Ids /\ committed \subseteq Ids
    /\ returned \in [Clients -> SUBSET Ids]

Init ==
    /\ catalog = "absent" /\ durable_catalog = "absent"
    /\ storage = FALSE /\ durable_storage = FALSE
    /\ rows = [n \in Names |-> None] /\ durable_rows = rows
    /\ staging = [i \in Ids |-> "none"] /\ objects = staging
    /\ durable_objects = {} /\ directories = {}
    /\ lock = [c \in Clients |-> "none"] /\ bootstrap = None
    /\ pc = [c \in Clients |-> "closed"]
    /\ name = [c \in Clients |-> None] /\ artifact = name /\ retired = name
    /\ wanted = [c \in Clients |-> {}] /\ returned = wanted
    /\ issued = {} /\ committed = {}

(***************************************************************************)
(* SQLite's locks on the catalog file                                      *)
(***************************************************************************)
Others(c) == Clients \ {c}
\* Mutated: readers are admitted while a commit waits for readers.
CanShareAnyTime(c) == \A d \in Others(c) : lock[d] # "exclusive"

CanShare(c) == \A d \in Others(c) : lock[d] \notin {"pending", "exclusive"}
CanReserve(c) == \A d \in Others(c) : lock[d] \in {"none", "shared"}
CanExclude(c) == \A d \in Others(c) : lock[d] = "none"

Goto(c, phase) == pc' = [pc EXCEPT ![c] = phase]
Lock(c, mode) == lock' = [lock EXCEPT ![c] = mode]

\* The end of a call: the connection is closed and its work forgotten.
Forget(c) ==
    /\ name' = [name EXCEPT ![c] = None]
    /\ artifact' = [artifact EXCEPT ![c] = None]
    /\ retired' = [retired EXCEPT ![c] = None]
    /\ wanted' = [wanted EXCEPT ![c] = {}]

(***************************************************************************)
(* Opening a store, with recovery                                          *)
(***************************************************************************)
OpenStore(c) ==
    /\ pc[c] = "closed" /\ bootstrap = None
    /\ bootstrap' = c
    /\ Goto(c, "bootstrapping")
    /\ UNCHANGED <<files, table, calls, lock, issued>>

\* sqlite3.connect creates an empty file before the schema is committed.
CreateCatalog(c) ==
    /\ pc[c] = "bootstrapping" /\ catalog = "absent" /\ ~storage
    /\ catalog' = "empty"
    /\ Goto(c, "initializing")
    /\ UNCHANGED <<durable_catalog, storage, durable_storage, rows,
                   durable_rows, committed, files, calls, lock, bootstrap,
                   issued>>

\* Mutated: a discarded catalog is remembered instead of forgotten.
DiscardCatalogMisnamed(c) ==
    /\ pc[c] = "bootstrapping" /\ catalog = "empty" /\ ~storage
    /\ catalog' = "discarded" /\ durable_catalog' = "absent"
    /\ UNCHANGED <<storage, durable_storage, rows, durable_rows, committed,
                   files, calls, lock, bootstrap, pc, issued>>

DiscardCatalog(c) ==
    /\ pc[c] = "bootstrapping" /\ catalog = "empty" /\ ~storage
    /\ catalog' = "absent" /\ durable_catalog' = "absent"
    /\ UNCHANGED <<storage, durable_storage, rows, durable_rows, committed,
                   files, calls, lock, bootstrap, pc, issued>>

\* Mutated: the schema commits without synchronous=FULL.
InitializeCatalogUnsynced(c) ==
    /\ pc[c] = "initializing"
    /\ catalog' = "ready"
    /\ Goto(c, "persisting")
    /\ UNCHANGED <<durable_catalog, storage, durable_storage, rows,
                   durable_rows, committed, files, calls, lock, bootstrap,
                   issued>>

\* The transaction of the schema commits.  Its journal is on disk with the
\* entry of the catalog, so a commit that is lost leaves an empty catalog.
InitializeCatalog(c) ==
    /\ pc[c] = "initializing"
    /\ catalog' = "ready"
    /\ durable_catalog' = IF SyncedCommit THEN "ready" ELSE "empty"
    /\ Goto(c, "persisting")
    /\ UNCHANGED <<storage, durable_storage, rows, durable_rows, committed,
                   files, calls, lock, bootstrap, issued>>

SyncCatalog(c) ==
    /\ pc[c] = "persisting"
    /\ durable_catalog' = catalog
    /\ Goto(c, "validating")
    /\ UNCHANGED <<catalog, storage, durable_storage, rows, durable_rows,
                   committed, files, calls, lock, bootstrap, issued>>

FindCatalog(c) ==
    /\ pc[c] = "bootstrapping" /\ catalog = "ready"
    /\ Goto(c, "validating")
    /\ UNCHANGED <<files, table, calls, lock, bootstrap, issued>>

MakeStorage(c) ==
    /\ pc[c] = "validating"
    /\ storage' = TRUE
    /\ Goto(c, "rooting")
    /\ UNCHANGED <<catalog, durable_catalog, durable_storage, rows,
                   durable_rows, committed, files, calls, lock, bootstrap,
                   issued>>

\* The root directory also holds the rollback journal of the last commit.
SyncRoot(c) ==
    /\ pc[c] = "rooting"
    /\ durable_storage' = storage
    /\ durable_catalog' = catalog /\ durable_rows' = rows
    /\ Goto(c, "locking")
    /\ UNCHANGED <<catalog, storage, rows, committed, files, calls, lock,
                   bootstrap, issued>>

BeginRecovery(c) ==
    /\ pc[c] = "locking" /\ CanReserve(c)
    /\ Lock(c, "pending")
    /\ Goto(c, "draining")
    /\ UNCHANGED <<files, table, calls, bootstrap, issued>>

\* Every row must have its payload; the check and the sweeps hold EXCLUSIVE.
PayloadsPresent == \A i \in Referenced(rows) : objects[i] # "none"

ValidateRows(c) ==
    /\ pc[c] = "draining" /\ CanExclude(c) /\ PayloadsPresent
    /\ Lock(c, "exclusive")
    /\ Goto(c, "sweeping")
    /\ UNCHANGED <<files, table, calls, bootstrap, issued>>

RefuseOpen(c) ==
    /\ \/ pc[c] = "draining" /\ CanExclude(c) /\ ~PayloadsPresent
       \/ pc[c] \in {"locking", "draining"}     \* the busy timeout expired
       \/ pc[c] = "bootstrapping" /\ catalog # "ready" /\ storage
    /\ Lock(c, "none")
    /\ bootstrap' = None
    /\ Goto(c, "closed")
    /\ UNCHANGED <<files, table, calls, issued>>

SweepStaging(c) ==
    /\ pc[c] = "sweeping"
    /\ staging' = [i \in Ids |-> "none"]
    /\ Goto(c, "pruning")
    /\ UNCHANGED <<objects, durable_objects, directories, table, calls, lock,
                   bootstrap, issued>>

Nonempty(obj) == {DirectoryOf[i] : i \in {j \in Ids : obj[j] # "none"}}

\* The entries on disk once the directories from which objects were removed
\* are synced; obj is what is left.
SyncedEntries(obj) ==
    LET modified == {DirectoryOf[i] : i \in {j \in Ids : obj[j] # objects[j]}} IN
    {i \in Ids : IF DirectoryOf[i] \in modified THEN obj[i] # "none"
                                                ELSE i \in durable_objects}

\* Mutated: recovery keeps every payload whose directory is still in use.
SweepDirectoriesOnly(c) ==
    /\ pc[c] = "pruning"
    /\ LET kept == {DirectoryOf[i] : i \in Referenced(rows)} IN
       objects' = [i \in Ids |->
                     IF DirectoryOf[i] \in kept THEN objects[i] ELSE "none"]
    /\ directories' = directories \cap Nonempty(objects')
    /\ durable_objects' = SyncedEntries(objects')
    /\ Goto(c, "opened")
    /\ UNCHANGED <<staging, table, calls, lock, bootstrap, issued>>

SweepObjects(c) ==
    /\ pc[c] = "pruning"
    /\ objects' = [i \in Ids |->
                     IF i \in Referenced(rows) THEN objects[i] ELSE "none"]
    /\ directories' = directories \cap Nonempty(objects')
    /\ durable_objects' = SyncedEntries(objects')
    /\ Goto(c, "opened")
    /\ UNCHANGED <<staging, table, calls, lock, bootstrap, issued>>

FinishOpen(c) ==
    /\ pc[c] = "opened"
    /\ Lock(c, "none")
    /\ bootstrap' = None
    /\ Goto(c, "ready")
    /\ UNCHANGED <<files, table, calls, issued>>

(***************************************************************************)
(* put                                                                     *)
(***************************************************************************)
\* BEGIN IMMEDIATE, the overwrite check, and a fresh UUID.
BeginPut(c) ==
    /\ pc[c] = "ready" /\ CanReserve(c)
    /\ \E n \in Names, overwrite \in BOOLEAN, i \in Ids \ issued :
         /\ rows[n] = None \/ overwrite
         /\ name' = [name EXCEPT ![c] = n]
         /\ artifact' = [artifact EXCEPT ![c] = i]
         /\ retired' = [retired EXCEPT ![c] = rows[n]]
         /\ issued' = issued \cup {i}
    /\ Lock(c, "reserved")
    /\ Goto(c, "staging")
    /\ UNCHANGED <<files, table, wanted, returned, bootstrap>>

Stage(c, from, to, content) ==
    /\ pc[c] = from
    /\ staging' = [staging EXCEPT ![artifact[c]] = content]
    /\ Goto(c, to)
    /\ UNCHANGED <<objects, durable_objects, directories, table, calls, lock,
                   bootstrap, issued>>

CreateStaging(c) == Stage(c, "staging", "writing", "partial")
WriteStaging(c)  == Stage(c, "writing", "flushing", "written")
FlushStaging(c)  == Stage(c, "flushing", "linking", "whole")

MakeDirectory(c) ==
    /\ pc[c] = "linking"
    /\ directories' = directories \cup {DirectoryOf[artifact[c]]}
    /\ Goto(c, "publishing")
    /\ UNCHANGED <<staging, objects, durable_objects, table, calls, lock,
                   bootstrap, issued>>

\* os.link: the object is the staged file.  It fails when the directory was
\* removed by another client in the meantime (FailLink).
LinkPayload(c) ==
    /\ pc[c] = "publishing" /\ DirectoryOf[artifact[c]] \in directories
    /\ objects' = [objects EXCEPT ![artifact[c]] = staging[artifact[c]]]
    /\ Goto(c, "unlinking")
    /\ UNCHANGED <<staging, durable_objects, directories, table, calls, lock,
                   bootstrap, issued>>

UnlinkStaging(c) == Stage(c, "unlinking", "fsyncing", "none")

\* Mutated: the directories are not synced before the row commits.
SyncPayloadLazily(c) ==
    /\ pc[c] = "fsyncing"
    /\ Goto(c, "updating")
    /\ UNCHANGED <<files, table, calls, lock, bootstrap, issued>>

SyncPayload(c) ==
    /\ pc[c] = "fsyncing"
    /\ durable_objects' = durable_objects \cup {artifact[c]}
    /\ Goto(c, "updating")
    /\ UNCHANGED <<staging, objects, directories, table, calls, lock,
                   bootstrap, issued>>

\* commit() first keeps new readers out, then waits for the present ones.
StartCommit(c) ==
    /\ pc[c] \in {"updating", "deleting"}
    /\ Lock(c, "pending")
    /\ Goto(c, "committing")
    /\ UNCHANGED <<files, table, calls, bootstrap, issued>>

\* The row of a put names its artifact, that of a delete is gone: artifact
\* is None.  Writing the journal syncs the directory, so the commit before
\* this one is on disk.
Commit(c) ==
    /\ pc[c] = "committing" /\ CanExclude(c)
    /\ rows' = [rows EXCEPT ![name[c]] = artifact[c]]
    /\ durable_rows' = IF SyncedCommit THEN rows' ELSE rows
    /\ committed' = committed \cup ({artifact[c]} \ {None})
    /\ Lock(c, "none")
    /\ Goto(c, IF retired[c] = None THEN "removing" ELSE "retiring")
    /\ UNCHANGED <<root, files, calls, bootstrap, issued>>

\* Mutated: the superseded payload is removed in the finally block.
RollbackAndRetire(c) ==
    /\ Lock(c, "none")
    /\ Goto(c, IF retired[c] = None THEN "abandoning" ELSE "retiring")
    /\ UNCHANGED <<files, table, calls, bootstrap, issued>>

\* Roll back and close the connection; a payload that was linked stays.
Rollback(c) ==
    /\ Lock(c, "none")
    /\ Goto(c, "abandoning")
    /\ UNCHANGED <<files, table, calls, bootstrap, issued>>

\* Any step of a put or delete may raise, a commit also when readers stay
\* longer than the busy timeout.
FailWrite(c) == pc[c] \in Putting \cup {"deleting", "committing"} /\ Rollback(c)

FailLink(c) ==
    /\ pc[c] = "publishing" /\ DirectoryOf[artifact[c]] \notin directories
    /\ Rollback(c)

AbandonStaging(c) ==
    /\ pc[c] = "abandoning"
    /\ staging' = [i \in Ids |-> IF i = artifact[c] THEN "none" ELSE staging[i]]
    /\ Goto(c, "ready")
    /\ Forget(c)
    /\ UNCHANGED <<objects, durable_objects, directories, table, returned,
                   lock, bootstrap, issued>>

(***************************************************************************)
(* Removing what a committed put or delete made unreachable, outside of    *)
(* the transaction                                                         *)
(***************************************************************************)
UnlinkRetired(c) ==
    /\ pc[c] = "retiring"
    /\ objects' = [objects EXCEPT ![retired[c]] = "none"]
    /\ Goto(c, "removing")
    /\ UNCHANGED <<staging, durable_objects, directories, table, calls, lock,
                   bootstrap, issued>>

\* fsync of the directory, then rmdir, which succeeds when it is empty.
RemoveDirectory(c) ==
    /\ pc[c] = "removing"
    /\ durable_objects' = durable_objects \ ({retired[c]} \ {None})
    /\ directories' =
         IF retired[c] = None THEN directories
         ELSE directories \ ({DirectoryOf[retired[c]]} \ Nonempty(objects))
    /\ Goto(c, "ready")
    /\ Forget(c)
    /\ UNCHANGED <<staging, objects, table, returned, lock, bootstrap, issued>>

\* An OSError is reported as a warning; the file waits for recovery.
LeaveOrphan(c) ==
    /\ pc[c] \in {"retiring", "removing"}
    /\ Goto(c, "ready")
    /\ Forget(c)
    /\ UNCHANGED <<files, table, returned, lock, bootstrap, issued>>

(***************************************************************************)
(* delete, by name or by a reference to the current generation             *)
(***************************************************************************)
Current(n, ref) == rows[n] # None /\ ref \in {None, rows[n]}

BeginDelete(c) ==
    /\ pc[c] = "ready" /\ CanReserve(c)
    /\ \E n \in Names, ref \in committed \cup {None} :
         /\ Current(n, ref)
         /\ name' = [name EXCEPT ![c] = n]
         /\ retired' = [retired EXCEPT ![c] = rows[n]]
    /\ Lock(c, "reserved")
    /\ Goto(c, "deleting")
    /\ UNCHANGED <<files, table, artifact, wanted, returned, bootstrap, issued>>

(***************************************************************************)
(* get, inspect and exists select one row; list selects all of them.  The  *)
(* read transaction lasts until the payloads were read.                    *)
(***************************************************************************)
\* Mutated: the read transaction ends once the row is selected.
BeginReadUnlocked(c) ==
    /\ pc[c] = "ready" /\ CanShare(c)
    /\ \/ \E n \in Names, ref \in committed \cup {None} :
            /\ Current(n, ref)
            /\ wanted' = [wanted EXCEPT ![c] = {rows[n]}]
       \/ wanted' = [wanted EXCEPT ![c] = Referenced(rows)]
    /\ Goto(c, "reading")
    /\ UNCHANGED <<files, table, lock, name, artifact, retired, returned,
                   bootstrap, issued>>

BeginRead(c) ==
    /\ pc[c] = "ready" /\ CanShare(c)
    /\ \/ \E n \in Names, ref \in committed \cup {None} :
            /\ Current(n, ref)
            /\ wanted' = [wanted EXCEPT ![c] = {rows[n]}]
       \/ wanted' = [wanted EXCEPT ![c] = Referenced(rows)]
    /\ Lock(c, "shared")
    /\ Goto(c, "reading")
    /\ UNCHANGED <<files, table, name, artifact, retired, returned, bootstrap,
                   issued>>

EndRead(c) ==
    /\ pc[c] = "reading"
    /\ \A i \in wanted[c] : objects[i] = "whole"
    /\ returned' = [returned EXCEPT ![c] = wanted[c]]
    /\ Lock(c, "none")
    /\ Goto(c, "ready")
    /\ Forget(c)
    /\ UNCHANGED <<files, table, bootstrap, issued>>

\* A missing payload, a checksum error, or any other failure of the codec.
FailRead(c) ==
    /\ pc[c] = "reading"
    /\ Lock(c, "none")
    /\ Goto(c, "ready")
    /\ Forget(c)
    /\ UNCHANGED <<files, table, returned, bootstrap, issued>>

(***************************************************************************)
(* Faults                                                                  *)
(***************************************************************************)
\* The process of c dies: the operating system drops its locks.
Crash(c) ==
    /\ pc[c] # "closed"
    /\ Goto(c, "closed")
    /\ Lock(c, "none")
    /\ bootstrap' = IF bootstrap = c THEN None ELSE bootstrap
    /\ Forget(c)
    /\ UNCHANGED <<files, table, returned, issued>>

\* What reaches the disk of a file whose content was not flushed.
Settled(content) == IF content = "written" THEN "partial" ELSE content

\* What a power loss leaves of the object files: entries that were not synced
\* may be lost, removals that were not synced may be undone.
Survivors(lost, back) ==
    [i \in Ids |-> CASE i \in lost -> "none"
                     [] i \in back -> "whole"
                     [] OTHER -> Settled(objects[i])]

\* Every process dies, a commit whose journal removal is not on disk is rolled
\* back, and directories that were not synced into the root may be gone.
PowerLoss ==
    /\ \E c \in Clients : pc[c] # "closed"
    /\ pc' = [c \in Clients |-> "closed"]
    /\ lock' = [c \in Clients |-> "none"]
    /\ bootstrap' = None
    /\ \E r \in {rows, durable_rows} : rows' = r /\ durable_rows' = r
    /\ catalog' \in {catalog, durable_catalog} /\ durable_catalog' = catalog'
    /\ storage' \in {storage, durable_storage} /\ durable_storage' = storage'
    /\ \E lost \in IF storage' THEN SUBSET (Ids \ durable_objects) ELSE {Ids},
          back \in SUBSET {i \in durable_objects : objects[i] = "none"} :
         objects' = Survivors(lost, back)
    /\ staging' = [i \in Ids |-> IF storage' THEN Settled(staging[i]) ELSE "none"]
    /\ durable_objects' = {i \in Ids : objects'[i] # "none"}
    /\ directories' = IF storage' THEN directories \cup Nonempty(objects') ELSE {}
    /\ name' = [c \in Clients |-> None]
    /\ artifact' = name' /\ retired' = name'
    /\ wanted' = [c \in Clients |-> {}]
    /\ UNCHANGED <<committed, returned, issued>>

(***************************************************************************)
(* The specification                                                       *)
(***************************************************************************)
Open(c) ==
    \/ CreateCatalog(c) \/ DiscardCatalog(c) \/ InitializeCatalog(c)
    \/ SyncCatalog(c) \/ FindCatalog(c) \/ MakeStorage(c) \/ SyncRoot(c) \/ BeginRecovery(c)
    \/ ValidateRows(c) \/ SweepStaging(c) \/ SweepObjects(c) \/ FinishOpen(c)

Write(c) ==
    \/ CreateStaging(c) \/ WriteStaging(c) \/ FlushStaging(c)
    \/ MakeDirectory(c) \/ LinkPayload(c) \/ FailLink(c)
    \/ UnlinkStaging(c) \/ SyncPayload(c) \/ StartCommit(c) \/ Commit(c)
    \/ AbandonStaging(c) \/ UnlinkRetired(c) \/ RemoveDirectory(c)

Continue(c) == Open(c) \/ Write(c) \/ EndRead(c)

FailCall(c) == RefuseOpen(c) \/ FailWrite(c) \/ LeaveOrphan(c) \/ FailRead(c)

Call(c) == OpenStore(c) \/ BeginPut(c) \/ BeginDelete(c) \/ BeginRead(c)

Next ==
    \/ \E c \in Clients : Continue(c) \/ FailCall(c) \/ Call(c) \/ Crash(c)
    \/ PowerLoss

Spec == Init /\ [][Next]_vars

\* A client that is in a call goes on: codecs and file operations return.
\* No fairness for failures: nothing below relies on a busy timeout.
FairSpec == Spec /\ \A c \in Clients : WF_vars(Continue(c))

(***************************************************************************)
(* Safety                                                                  *)
(***************************************************************************)
\* A row of the catalog points to a complete payload, whatever crashed and
\* whoever is in the middle of a put, a delete or a recovery: the payload is
\* durable before its row commits and removed after its row is gone.
CommittedPayloadPresent ==
    \A n \in Names : rows[n] # None => objects[rows[n]] = "whole"

\* A reader keeps the payloads it selected until its transaction ends: a
\* writer commits after the readers, and unlinks after its commit.
ReaderKeepsPayload ==
    \A c \in Clients : pc[c] = "reading" =>
        \A i \in wanted[c] : i \in Referenced(rows) /\ objects[i] = "whole"

\* An artifact is the generation of at most one name, and one that was
\* replaced or deleted never becomes current again.
GenerationsAreUnique ==
    /\ \A n, m \in Names : rows[n] # None /\ rows[n] = rows[m] => n = m
    /\ \A c \in Clients : pc[c] \in {"retiring", "removing"} =>
          retired[c] \notin Referenced(rows)

\* Recovery hands over a store without staging files and without payloads
\* that no row reaches.
RecoveryIsComplete ==
    \A c \in Clients : pc[c] = "opened" =>
        /\ \A i \in Ids : staging[i] = "none"
        /\ \A i \in Ids : objects[i] # "none" => i \in Referenced(rows)

\* Objects and staging directories never exist beside a catalog without
\* schema, whatever process dies or power fails during initialization: such a
\* root would be refused as a foreign directory for good.
RootIsRecognized == storage => catalog = "ready"

(***************************************************************************)
(* Liveness                                                                *)
(***************************************************************************)
\* Whoever holds a lock on the catalog gives it back: a commit and a recovery
\* that wait for readers keep new readers out, so they are not starved, and
\* nobody waits for a client that waits for him.
LocksAreReturned == \A c \in Clients : lock[c] # "none" ~> lock[c] = "none"

(***************************************************************************)
(* What the store promises its callers                                     *)
(***************************************************************************)
Promise == INSTANCE AtomicStore
             WITH current <- rows, used <- committed, answer <- returned

\* Every call takes effect at one moment, also with crashes: a put when its
\* row commits, a get when its transaction ends.
TakesEffectAtOnce == Promise!Spec

=============================================================================
