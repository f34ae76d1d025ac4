-------------------------- MODULE ArtifactStoreProofs --------------------------
(***************************************************************************)
(* Safety of the artifact store for any number of clients, names and       *)
(* artifacts, with process crashes and power losses at any moment, under   *)
(* the assumption SyncedCommit: a commit that returned survives a power    *)
(* loss.                                                                   *)
(***************************************************************************)
EXTENDS ArtifactStore, TLAPS

(***************************************************************************)
(* The inductive invariant                                                 *)
(***************************************************************************)
\* The SQLite lock follows from how far a call is.
LockOf(phase) ==
    CASE phase \in Putting \cup {"deleting"} -> "reserved"
      [] phase \in {"committing", "draining"} -> "pending"
      [] phase \in {"sweeping", "pruning", "opened"} -> "exclusive"
      [] phase = "reading" -> "shared"
      [] OTHER -> "none"

Writers == Putting \cup {"deleting", "committing"}
Finishing == {"committing", "abandoning", "retiring", "removing"}
Linked == {"unlinking", "fsyncing", "updating", "committing"}
Strong == {"reserved", "pending", "exclusive"}

LocksFollow == \A c \in Clients : lock[c] = LockOf(pc[c])

LocksExclude ==
    \A c, d \in Clients : c # d =>
        /\ lock[c] \in Strong => lock[d] \in {"none", "shared"}
        /\ lock[c] = "exclusive" => lock[d] = "none"

\* Rows name committed artifacts with a durable payload, each once.
RowsSound ==
    /\ SyncedCommit
    /\ durable_rows = rows
    /\ committed \subseteq issued
    /\ \A n \in Names : rows[n] # None =>
         /\ rows[n] \in committed
         /\ objects[rows[n]] = "whole"
         /\ rows[n] \in durable_objects
    /\ \A n, m \in Names : rows[n] # None /\ rows[n] = rows[m] => n = m

\* What a writer knows: its artifact is its own and was never committed, and
\* the row it saw is still the current one.
WritersSound ==
    /\ \A c \in Clients : artifact[c] # None => artifact[c] \in issued
    /\ \A c, d \in Clients :
         artifact[c] # None /\ artifact[c] = artifact[d] => c = d
    /\ \A c \in Clients : pc[c] \in Writers =>
         /\ name[c] \in Names
         /\ retired[c] = rows[name[c]]
         /\ artifact[c] \notin committed
    /\ \A c \in Clients : pc[c] \in Putting => artifact[c] # None
    /\ \A c \in Clients :
         pc[c] \notin Putting \cup Finishing => artifact[c] = None

\* How far the payload of a writer is.
PayloadsSound ==
    /\ \A c \in Clients : pc[c] \in {"linking", "publishing"} =>
         staging[artifact[c]] = "whole"
    /\ \A c \in Clients : pc[c] \in Linked /\ artifact[c] # None =>
         objects[artifact[c]] = "whole"
    /\ \A c \in Clients : pc[c] \in {"updating", "committing"}
                            /\ artifact[c] # None =>
         artifact[c] \in durable_objects

\* What is about to be unlinked was current once and is not any more.
RetirementSound ==
    \A c \in Clients : pc[c] \in {"retiring", "removing"} =>
        /\ retired[c] # None => retired[c] \in committed
        /\ retired[c] \notin Referenced(rows)

RetiredExists == \A c \in Clients : pc[c] = "retiring" => retired[c] # None

\* A reader's selection is still what the catalog says.
ReadersSound ==
    \A c \in Clients : pc[c] = "reading" =>
        \/ \E n \in Names : rows[n] # None /\ wanted[c] = {rows[n]}
        \/ wanted[c] = Referenced(rows)

Unsettled == {"closed", "bootstrapping", "initializing", "persisting",
              "validating", "rooting"}

\* Nobody writes a payload before objects/ and tmp/ are durable.
StorageSound ==
    /\ durable_storage => storage
    /\ durable_objects # {} => durable_storage
    /\ \A c \in Clients : /\ pc[c] = "rooting" => storage
                          /\ pc[c] \notin Unsettled => durable_storage

StoreInvariant ==
    /\ TypeOK /\ LocksFollow /\ LocksExclude /\ RowsSound /\ WritersSound
    /\ PayloadsSound /\ RetirementSound /\ RetiredExists /\ ReadersSound
    /\ StorageSound

(***************************************************************************)
(* Types and locks                                                         *)
(***************************************************************************)
LEMMA TypeStep ==
    ASSUME StoreInvariant, Next
    PROVE  TypeOK'
<1> USE StoreAssumption DEF StoreInvariant, TypeOK, Rows, Phases, Writers,
        Putting, Opening, Locks, Contents, Goto, Lock, Forget, files,
        table, root, calls
<1>1. ASSUME NEW c \in Clients,
             Continue(c) \/ FailCall(c) \/ Call(c) \/ Crash(c)
      PROVE  TypeOK'
  <2>1. CASE CreateCatalog(c)
    BY <2>1 DEF CreateCatalog
  <2>2. CASE DiscardCatalog(c)
    BY <2>2 DEF DiscardCatalog
  <2>3. CASE InitializeCatalog(c)
    BY <2>3 DEF InitializeCatalog
  <2>4. CASE FindCatalog(c)
    BY <2>4 DEF FindCatalog
  <2>35. CASE SyncCatalog(c)
    BY <2>35 DEF SyncCatalog
  <2>5. CASE MakeStorage(c)
    BY <2>5 DEF MakeStorage
  <2>6. CASE SyncRoot(c)
    BY <2>6 DEF SyncRoot
  <2>7. CASE BeginRecovery(c)
    BY <2>7 DEF BeginRecovery
  <2>8. CASE ValidateRows(c)
    BY <2>8 DEF ValidateRows
  <2>9. CASE SweepStaging(c)
    BY <2>9 DEF SweepStaging
  <2>10. CASE SweepObjects(c)
    BY <2>10 DEF SweepObjects, SyncedEntries, Nonempty
  <2>11. CASE FinishOpen(c)
    BY <2>11 DEF FinishOpen
  <2>12. CASE CreateStaging(c)
    BY <2>12 DEF CreateStaging, Stage
  <2>13. CASE WriteStaging(c)
    BY <2>13 DEF WriteStaging, Stage
  <2>14. CASE FlushStaging(c)
    BY <2>14 DEF FlushStaging, Stage
  <2>15. CASE MakeDirectory(c)
    BY <2>15 DEF MakeDirectory, WritersSound
  <2>16. CASE LinkPayload(c)
    BY <2>16 DEF LinkPayload
  <2>17. CASE FailLink(c)
    BY <2>17 DEF FailLink, Rollback
  <2>18. CASE UnlinkStaging(c)
    BY <2>18 DEF UnlinkStaging, Stage
  <2>19. CASE SyncPayload(c)
    BY <2>19 DEF SyncPayload, WritersSound
  <2>20. CASE StartCommit(c)
    BY <2>20 DEF StartCommit
  <2>21. CASE Commit(c)
    BY <2>21 DEF Commit, WritersSound
  <2>22. CASE AbandonStaging(c)
    BY <2>22 DEF AbandonStaging
  <2>23. CASE UnlinkRetired(c)
    BY <2>23 DEF UnlinkRetired
  <2>24. CASE RemoveDirectory(c)
    BY <2>24 DEF RemoveDirectory
  <2>25. CASE EndRead(c)
    BY <2>25 DEF EndRead
  <2>26. CASE RefuseOpen(c)
    BY <2>26 DEF RefuseOpen
  <2>27. CASE FailWrite(c)
    BY <2>27 DEF FailWrite, Rollback
  <2>28. CASE LeaveOrphan(c)
    BY <2>28 DEF LeaveOrphan
  <2>29. CASE FailRead(c)
    BY <2>29 DEF FailRead
  <2>30. CASE OpenStore(c)
    BY <2>30 DEF OpenStore
  <2>31. CASE BeginPut(c)
    BY <2>31 DEF BeginPut
  <2>32. CASE BeginDelete(c)
    BY <2>32 DEF BeginDelete
  <2>33. CASE BeginRead(c)
    <3>1. Referenced(rows) \subseteq Ids
      BY DEF Referenced
    <3>2. \A n \in Names : rows[n] # None => {rows[n]} \subseteq Ids
      OBVIOUS
    <3>3. wanted' \in [Clients -> SUBSET Ids]
      BY <2>33, <3>1, <3>2 DEF BeginRead, Current
    <3> QED
      BY <2>33, <3>3 DEF BeginRead
  <2>34. CASE Crash(c)
    BY <2>34 DEF Crash
  <2> QED
    BY <1>1, <2>1, <2>2, <2>3, <2>4, <2>5, <2>6, <2>7, <2>8, <2>9, <2>10,
       <2>11, <2>12, <2>13, <2>14, <2>15, <2>16, <2>17, <2>18, <2>19, <2>20,
       <2>21, <2>22, <2>23, <2>24, <2>25, <2>26, <2>27, <2>28, <2>29, <2>30,
       <2>31, <2>32, <2>33, <2>34, <2>35
       DEF Continue, Open, Write, FailCall, Call
<1>2. CASE PowerLoss
  <2>1. objects' \in [Ids -> Contents]
    BY <1>2 DEF PowerLoss, Survivors, Settled
  <2>2. staging' \in [Ids -> Contents]
    BY <1>2 DEF PowerLoss, Settled
  <2>3. directories' \subseteq Directories
    BY <1>2, <2>1 DEF PowerLoss, Nonempty
  <2>4. durable_objects' \subseteq Ids /\ rows' \in Rows /\ durable_rows' \in Rows
    BY <1>2 DEF PowerLoss
  <2> QED
    BY <1>2, <2>1, <2>2, <2>3, <2>4 DEF PowerLoss
<1> QED
  BY <1>1, <1>2 DEF Next

\* The SQLite lock rules keep writers apart and readers out of a commit.
LEMMA LockStep ==
    ASSUME StoreInvariant, Next
    PROVE  LocksFollow' /\ LocksExclude'
<1> USE StoreAssumption DEF StoreInvariant, TypeOK, LocksFollow,
        LocksExclude, LockOf, Strong, Phases, Putting, Opening, Locks,
        Others, CanShare, CanReserve, CanExclude, Goto, Lock, Forget, files,
        table, root, calls
<1>1. ASSUME NEW c \in Clients,
             Continue(c) \/ FailCall(c) \/ Call(c) \/ Crash(c)
      PROVE  LocksFollow' /\ LocksExclude'
  <2>1. CASE CreateCatalog(c)
    BY <2>1 DEF CreateCatalog
  <2>2. CASE DiscardCatalog(c)
    BY <2>2 DEF DiscardCatalog
  <2>3. CASE InitializeCatalog(c)
    BY <2>3 DEF InitializeCatalog
  <2>4. CASE FindCatalog(c)
    BY <2>4 DEF FindCatalog
  <2>35. CASE SyncCatalog(c)
    BY <2>35 DEF SyncCatalog
  <2>5. CASE MakeStorage(c)
    BY <2>5 DEF MakeStorage
  <2>6. CASE SyncRoot(c)
    BY <2>6 DEF SyncRoot
  <2>7. CASE BeginRecovery(c)
    BY <2>7 DEF BeginRecovery
  <2>8. CASE ValidateRows(c)
    BY <2>8 DEF ValidateRows
  <2>9. CASE SweepStaging(c)
    BY <2>9 DEF SweepStaging
  <2>10. CASE SweepObjects(c)
    BY <2>10 DEF SweepObjects, SyncedEntries
  <2>11. CASE FinishOpen(c)
    BY <2>11 DEF FinishOpen
  <2>12. CASE CreateStaging(c)
    BY <2>12 DEF CreateStaging, Stage
  <2>13. CASE WriteStaging(c)
    BY <2>13 DEF WriteStaging, Stage
  <2>14. CASE FlushStaging(c)
    BY <2>14 DEF FlushStaging, Stage
  <2>15. CASE MakeDirectory(c)
    BY <2>15 DEF MakeDirectory
  <2>16. CASE LinkPayload(c)
    BY <2>16 DEF LinkPayload
  <2>17. CASE FailLink(c)
    BY <2>17 DEF FailLink, Rollback
  <2>18. CASE UnlinkStaging(c)
    BY <2>18 DEF UnlinkStaging, Stage
  <2>19. CASE SyncPayload(c)
    BY <2>19 DEF SyncPayload
  <2>20. CASE StartCommit(c)
    BY <2>20 DEF StartCommit
  <2>21. CASE Commit(c)
    BY <2>21 DEF Commit
  <2>22. CASE AbandonStaging(c)
    BY <2>22 DEF AbandonStaging
  <2>23. CASE UnlinkRetired(c)
    BY <2>23 DEF UnlinkRetired
  <2>24. CASE RemoveDirectory(c)
    BY <2>24 DEF RemoveDirectory
  <2>25. CASE EndRead(c)
    BY <2>25 DEF EndRead
  <2>26. CASE RefuseOpen(c)
    BY <2>26 DEF RefuseOpen
  <2>27. CASE FailWrite(c)
    BY <2>27 DEF FailWrite, Rollback
  <2>28. CASE LeaveOrphan(c)
    BY <2>28 DEF LeaveOrphan
  <2>29. CASE FailRead(c)
    BY <2>29 DEF FailRead
  <2>30. CASE OpenStore(c)
    BY <2>30 DEF OpenStore
  <2>31. CASE BeginPut(c)
    BY <2>31 DEF BeginPut
  <2>32. CASE BeginDelete(c)
    BY <2>32 DEF BeginDelete
  <2>33. CASE BeginRead(c)
    BY <2>33 DEF BeginRead
  <2>34. CASE Crash(c)
    BY <2>34 DEF Crash
  <2> QED
    BY <1>1, <2>1, <2>2, <2>3, <2>4, <2>5, <2>6, <2>7, <2>8, <2>9, <2>10,
       <2>11, <2>12, <2>13, <2>14, <2>15, <2>16, <2>17, <2>18, <2>19, <2>20,
       <2>21, <2>22, <2>23, <2>24, <2>25, <2>26, <2>27, <2>28, <2>29, <2>30,
       <2>31, <2>32, <2>33, <2>34, <2>35
       DEF Continue, Open, Write, FailCall, Call
<1>2. CASE PowerLoss
  BY <1>2 DEF PowerLoss
<1> QED
  BY <1>1, <1>2 DEF Next

LEMMA RowsStep ==
    ASSUME StoreInvariant, Next
    PROVE  RowsSound'
<1> USE StoreAssumption DEF StoreInvariant, TypeOK, Rows, Phases, Writers,
        Putting, Finishing, Linked, Opening, Contents, Goto, Lock, Forget,
        files, table, root, calls, RowsSound, WritersSound, PayloadsSound,
        RetirementSound, Referenced
<1>1. ASSUME NEW c \in Clients,
             Continue(c) \/ FailCall(c) \/ Call(c) \/ Crash(c)
      PROVE  RowsSound'
  <2>1. CASE CreateCatalog(c)
    BY <2>1 DEF CreateCatalog
  <2>2. CASE DiscardCatalog(c)
    BY <2>2 DEF DiscardCatalog
  <2>3. CASE InitializeCatalog(c)
    BY <2>3 DEF InitializeCatalog
  <2>4. CASE FindCatalog(c)
    BY <2>4 DEF FindCatalog
  <2>35. CASE SyncCatalog(c)
    BY <2>35 DEF SyncCatalog
  <2>5. CASE MakeStorage(c)
    BY <2>5 DEF MakeStorage
  <2>6. CASE SyncRoot(c)
    BY <2>6 DEF SyncRoot
  <2>7. CASE BeginRecovery(c)
    BY <2>7 DEF BeginRecovery
  <2>8. CASE ValidateRows(c)
    BY <2>8 DEF ValidateRows
  <2>9. CASE SweepStaging(c)
    BY <2>9 DEF SweepStaging
  <2>10. CASE SweepObjects(c)
    <3>1. \A n \in Names : rows[n] # None => objects'[rows[n]] = objects[rows[n]]
      BY <2>10 DEF SweepObjects
    <3>2. \A i \in durable_objects : objects'[i] = "whole" => i \in durable_objects'
      BY <2>10 DEF SweepObjects, SyncedEntries
    <3>3. UNCHANGED <<rows, durable_rows, committed, issued>>
      BY <2>10 DEF SweepObjects
    <3> QED
      BY <3>1, <3>2, <3>3
  <2>11. CASE FinishOpen(c)
    BY <2>11 DEF FinishOpen
  <2>12. CASE CreateStaging(c)
    BY <2>12 DEF CreateStaging, Stage
  <2>13. CASE WriteStaging(c)
    BY <2>13 DEF WriteStaging, Stage
  <2>14. CASE FlushStaging(c)
    BY <2>14 DEF FlushStaging, Stage
  <2>15. CASE MakeDirectory(c)
    BY <2>15 DEF MakeDirectory
  <2>16. CASE LinkPayload(c)
    BY <2>16 DEF LinkPayload
  <2>17. CASE FailLink(c)
    BY <2>17 DEF FailLink, Rollback
  <2>18. CASE UnlinkStaging(c)
    BY <2>18 DEF UnlinkStaging, Stage
  <2>19. CASE SyncPayload(c)
    BY <2>19 DEF SyncPayload
  <2>20. CASE StartCommit(c)
    BY <2>20 DEF StartCommit
  <2>21. CASE Commit(c)
    BY <2>21 DEF Commit
  <2>22. CASE AbandonStaging(c)
    BY <2>22 DEF AbandonStaging
  <2>23. CASE UnlinkRetired(c)
    BY <2>23 DEF UnlinkRetired
  <2>24. CASE RemoveDirectory(c)
    BY <2>24 DEF RemoveDirectory
  <2>25. CASE EndRead(c)
    BY <2>25 DEF EndRead
  <2>26. CASE RefuseOpen(c)
    BY <2>26 DEF RefuseOpen
  <2>27. CASE FailWrite(c)
    BY <2>27 DEF FailWrite, Rollback
  <2>28. CASE LeaveOrphan(c)
    BY <2>28 DEF LeaveOrphan
  <2>29. CASE FailRead(c)
    BY <2>29 DEF FailRead
  <2>30. CASE OpenStore(c)
    BY <2>30 DEF OpenStore
  <2>31. CASE BeginPut(c)
    BY <2>31 DEF BeginPut
  <2>32. CASE BeginDelete(c)
    BY <2>32 DEF BeginDelete
  <2>33. CASE BeginRead(c)
    BY <2>33 DEF BeginRead
  <2>34. CASE Crash(c)
    BY <2>34 DEF Crash
  <2> QED
    BY <1>1, <2>1, <2>2, <2>3, <2>4, <2>5, <2>6, <2>7, <2>8, <2>9, <2>10,
       <2>11, <2>12, <2>13, <2>14, <2>15, <2>16, <2>17, <2>18, <2>19, <2>20,
       <2>21, <2>22, <2>23, <2>24, <2>25, <2>26, <2>27, <2>28, <2>29, <2>30,
       <2>31, <2>32, <2>33, <2>34, <2>35
       DEF Continue, Open, Write, FailCall, Call
<1>2. CASE PowerLoss
  <2>1. CASE storage'
    BY <1>2, <2>1 DEF PowerLoss, Survivors, Settled
  <2>2. CASE ~storage'
    <3>1. durable_objects = {}
      BY <1>2, <2>2 DEF PowerLoss, StorageSound
    <3>2. \A n \in Names : rows[n] = None
      BY <3>1
    <3> QED
      BY <1>2, <3>2 DEF PowerLoss
  <2> QED
    BY <2>1, <2>2
<1> QED
  BY <1>1, <1>2 DEF Next

LEMMA WritersStep ==
    ASSUME StoreInvariant, Next
    PROVE  WritersSound'
<1> USE StoreAssumption DEF StoreInvariant, TypeOK, Rows, Phases, Writers,
        Putting, Finishing, Linked, Opening, Contents, Goto, Lock, Forget,
        files, table, root, calls, RowsSound, WritersSound, LocksFollow,
        LocksExclude, LockOf, Strong, CanReserve, CanExclude, CanShare,
        Others
<1>1. ASSUME NEW c \in Clients,
             Continue(c) \/ FailCall(c) \/ Call(c) \/ Crash(c)
      PROVE  WritersSound'
  <2>1. CASE CreateCatalog(c)
    BY <2>1 DEF CreateCatalog
  <2>2. CASE DiscardCatalog(c)
    BY <2>2 DEF DiscardCatalog
  <2>3. CASE InitializeCatalog(c)
    BY <2>3 DEF InitializeCatalog
  <2>4. CASE FindCatalog(c)
    BY <2>4 DEF FindCatalog
  <2>35. CASE SyncCatalog(c)
    BY <2>35 DEF SyncCatalog
  <2>5. CASE MakeStorage(c)
    BY <2>5 DEF MakeStorage
  <2>6. CASE SyncRoot(c)
    BY <2>6 DEF SyncRoot
  <2>7. CASE BeginRecovery(c)
    BY <2>7 DEF BeginRecovery
  <2>8. CASE ValidateRows(c)
    BY <2>8 DEF ValidateRows
  <2>9. CASE SweepStaging(c)
    BY <2>9 DEF SweepStaging
  <2>10. CASE SweepObjects(c)
    BY <2>10 DEF SweepObjects, SyncedEntries
  <2>11. CASE FinishOpen(c)
    BY <2>11 DEF FinishOpen
  <2>12. CASE CreateStaging(c)
    BY <2>12 DEF CreateStaging, Stage
  <2>13. CASE WriteStaging(c)
    BY <2>13 DEF WriteStaging, Stage
  <2>14. CASE FlushStaging(c)
    BY <2>14 DEF FlushStaging, Stage
  <2>15. CASE MakeDirectory(c)
    BY <2>15 DEF MakeDirectory
  <2>16. CASE LinkPayload(c)
    BY <2>16 DEF LinkPayload
  <2>17. CASE FailLink(c)
    BY <2>17 DEF FailLink, Rollback
  <2>18. CASE UnlinkStaging(c)
    BY <2>18 DEF UnlinkStaging, Stage
  <2>19. CASE SyncPayload(c)
    BY <2>19 DEF SyncPayload
  <2>20. CASE StartCommit(c)
    BY <2>20 DEF StartCommit
  <2>21. CASE Commit(c)
    BY <2>21 DEF Commit
  <2>22. CASE AbandonStaging(c)
    BY <2>22 DEF AbandonStaging
  <2>23. CASE UnlinkRetired(c)
    BY <2>23 DEF UnlinkRetired
  <2>24. CASE RemoveDirectory(c)
    BY <2>24 DEF RemoveDirectory
  <2>25. CASE EndRead(c)
    BY <2>25 DEF EndRead
  <2>26. CASE RefuseOpen(c)
    BY <2>26 DEF RefuseOpen
  <2>27. CASE FailWrite(c)
    BY <2>27 DEF FailWrite, Rollback
  <2>28. CASE LeaveOrphan(c)
    BY <2>28 DEF LeaveOrphan
  <2>29. CASE FailRead(c)
    BY <2>29 DEF FailRead
  <2>30. CASE OpenStore(c)
    BY <2>30 DEF OpenStore
  <2>31. CASE BeginPut(c)
    BY <2>31 DEF BeginPut
  <2>32. CASE BeginDelete(c)
    BY <2>32 DEF BeginDelete
  <2>33. CASE BeginRead(c)
    BY <2>33 DEF BeginRead
  <2>34. CASE Crash(c)
    BY <2>34 DEF Crash
  <2> QED
    BY <1>1, <2>1, <2>2, <2>3, <2>4, <2>5, <2>6, <2>7, <2>8, <2>9, <2>10,
       <2>11, <2>12, <2>13, <2>14, <2>15, <2>16, <2>17, <2>18, <2>19, <2>20,
       <2>21, <2>22, <2>23, <2>24, <2>25, <2>26, <2>27, <2>28, <2>29, <2>30,
       <2>31, <2>32, <2>33, <2>34, <2>35
       DEF Continue, Open, Write, FailCall, Call
<1>2. CASE PowerLoss
  BY <1>2 DEF PowerLoss
<1> QED
  BY <1>1, <1>2 DEF Next

LEMMA PayloadsStep ==
    ASSUME StoreInvariant, Next
    PROVE  PayloadsSound'
<1> USE StoreAssumption DEF StoreInvariant, TypeOK, Rows, Phases, Writers,
        Putting, Finishing, Linked, Opening, Contents, Goto, Lock, Forget,
        files, table, root, calls, RowsSound, WritersSound, PayloadsSound,
        RetirementSound, RetiredExists, LocksFollow, LocksExclude, LockOf,
        Strong, CanReserve, CanExclude, CanShare, Others
<1>1. ASSUME NEW c \in Clients,
             Continue(c) \/ FailCall(c) \/ Call(c) \/ Crash(c)
      PROVE  PayloadsSound'
  <2>1. CASE CreateCatalog(c)
    BY <2>1 DEF CreateCatalog
  <2>2. CASE DiscardCatalog(c)
    BY <2>2 DEF DiscardCatalog
  <2>3. CASE InitializeCatalog(c)
    BY <2>3 DEF InitializeCatalog
  <2>4. CASE FindCatalog(c)
    BY <2>4 DEF FindCatalog
  <2>35. CASE SyncCatalog(c)
    BY <2>35 DEF SyncCatalog
  <2>5. CASE MakeStorage(c)
    BY <2>5 DEF MakeStorage
  <2>6. CASE SyncRoot(c)
    BY <2>6 DEF SyncRoot
  <2>7. CASE BeginRecovery(c)
    BY <2>7 DEF BeginRecovery
  <2>8. CASE ValidateRows(c)
    BY <2>8 DEF ValidateRows
  <2>9. CASE SweepStaging(c)
    BY <2>9 DEF SweepStaging
  <2>10. CASE SweepObjects(c)
    BY <2>10 DEF SweepObjects, SyncedEntries
  <2>11. CASE FinishOpen(c)
    BY <2>11 DEF FinishOpen
  <2>12. CASE CreateStaging(c)
    BY <2>12 DEF CreateStaging, Stage
  <2>13. CASE WriteStaging(c)
    BY <2>13 DEF WriteStaging, Stage
  <2>14. CASE FlushStaging(c)
    BY <2>14 DEF FlushStaging, Stage
  <2>15. CASE MakeDirectory(c)
    BY <2>15 DEF MakeDirectory
  <2>16. CASE LinkPayload(c)
    BY <2>16 DEF LinkPayload
  <2>17. CASE FailLink(c)
    BY <2>17 DEF FailLink, Rollback
  <2>18. CASE UnlinkStaging(c)
    BY <2>18 DEF UnlinkStaging, Stage
  <2>19. CASE SyncPayload(c)
    BY <2>19 DEF SyncPayload
  <2>20. CASE StartCommit(c)
    BY <2>20 DEF StartCommit
  <2>21. CASE Commit(c)
    BY <2>21 DEF Commit
  <2>22. CASE AbandonStaging(c)
    BY <2>22 DEF AbandonStaging
  <2>23. CASE UnlinkRetired(c)
    BY <2>23 DEF UnlinkRetired
  <2>24. CASE RemoveDirectory(c)
    BY <2>24 DEF RemoveDirectory
  <2>25. CASE EndRead(c)
    BY <2>25 DEF EndRead
  <2>26. CASE RefuseOpen(c)
    BY <2>26 DEF RefuseOpen
  <2>27. CASE FailWrite(c)
    BY <2>27 DEF FailWrite, Rollback
  <2>28. CASE LeaveOrphan(c)
    BY <2>28 DEF LeaveOrphan
  <2>29. CASE FailRead(c)
    BY <2>29 DEF FailRead
  <2>30. CASE OpenStore(c)
    BY <2>30 DEF OpenStore
  <2>31. CASE BeginPut(c)
    BY <2>31 DEF BeginPut
  <2>32. CASE BeginDelete(c)
    BY <2>32 DEF BeginDelete
  <2>33. CASE BeginRead(c)
    BY <2>33 DEF BeginRead
  <2>34. CASE Crash(c)
    BY <2>34 DEF Crash
  <2> QED
    BY <1>1, <2>1, <2>2, <2>3, <2>4, <2>5, <2>6, <2>7, <2>8, <2>9, <2>10,
       <2>11, <2>12, <2>13, <2>14, <2>15, <2>16, <2>17, <2>18, <2>19, <2>20,
       <2>21, <2>22, <2>23, <2>24, <2>25, <2>26, <2>27, <2>28, <2>29, <2>30,
       <2>31, <2>32, <2>33, <2>34, <2>35
       DEF Continue, Open, Write, FailCall, Call
<1>2. CASE PowerLoss
  BY <1>2 DEF PowerLoss
<1> QED
  BY <1>1, <1>2 DEF Next

LEMMA RetirementStep ==
    ASSUME StoreInvariant, Next
    PROVE  RetirementSound' /\ RetiredExists'
<1> USE StoreAssumption DEF StoreInvariant, TypeOK, Rows, Phases, Writers,
        Putting, Finishing, Linked, Opening, Contents, Goto, Lock, Forget,
        files, table, root, calls, RowsSound, WritersSound, RetirementSound,
        RetiredExists, Referenced
<1>1. ASSUME NEW c \in Clients,
             Continue(c) \/ FailCall(c) \/ Call(c) \/ Crash(c)
      PROVE  RetirementSound' /\ RetiredExists'
  <2>1. CASE CreateCatalog(c)
    BY <2>1 DEF CreateCatalog
  <2>2. CASE DiscardCatalog(c)
    BY <2>2 DEF DiscardCatalog
  <2>3. CASE InitializeCatalog(c)
    BY <2>3 DEF InitializeCatalog
  <2>4. CASE FindCatalog(c)
    BY <2>4 DEF FindCatalog
  <2>35. CASE SyncCatalog(c)
    BY <2>35 DEF SyncCatalog
  <2>5. CASE MakeStorage(c)
    BY <2>5 DEF MakeStorage
  <2>6. CASE SyncRoot(c)
    BY <2>6 DEF SyncRoot
  <2>7. CASE BeginRecovery(c)
    BY <2>7 DEF BeginRecovery
  <2>8. CASE ValidateRows(c)
    BY <2>8 DEF ValidateRows
  <2>9. CASE SweepStaging(c)
    BY <2>9 DEF SweepStaging
  <2>10. CASE SweepObjects(c)
    BY <2>10 DEF SweepObjects, SyncedEntries
  <2>11. CASE FinishOpen(c)
    BY <2>11 DEF FinishOpen
  <2>12. CASE CreateStaging(c)
    BY <2>12 DEF CreateStaging, Stage
  <2>13. CASE WriteStaging(c)
    BY <2>13 DEF WriteStaging, Stage
  <2>14. CASE FlushStaging(c)
    BY <2>14 DEF FlushStaging, Stage
  <2>15. CASE MakeDirectory(c)
    BY <2>15 DEF MakeDirectory
  <2>16. CASE LinkPayload(c)
    BY <2>16 DEF LinkPayload
  <2>17. CASE FailLink(c)
    BY <2>17 DEF FailLink, Rollback
  <2>18. CASE UnlinkStaging(c)
    BY <2>18 DEF UnlinkStaging, Stage
  <2>19. CASE SyncPayload(c)
    BY <2>19 DEF SyncPayload
  <2>20. CASE StartCommit(c)
    BY <2>20 DEF StartCommit
  <2>21. CASE Commit(c)
    BY <2>21 DEF Commit
  <2>22. CASE AbandonStaging(c)
    BY <2>22 DEF AbandonStaging
  <2>23. CASE UnlinkRetired(c)
    BY <2>23 DEF UnlinkRetired
  <2>24. CASE RemoveDirectory(c)
    BY <2>24 DEF RemoveDirectory
  <2>25. CASE EndRead(c)
    BY <2>25 DEF EndRead
  <2>26. CASE RefuseOpen(c)
    BY <2>26 DEF RefuseOpen
  <2>27. CASE FailWrite(c)
    BY <2>27 DEF FailWrite, Rollback
  <2>28. CASE LeaveOrphan(c)
    BY <2>28 DEF LeaveOrphan
  <2>29. CASE FailRead(c)
    BY <2>29 DEF FailRead
  <2>30. CASE OpenStore(c)
    BY <2>30 DEF OpenStore
  <2>31. CASE BeginPut(c)
    BY <2>31 DEF BeginPut
  <2>32. CASE BeginDelete(c)
    BY <2>32 DEF BeginDelete
  <2>33. CASE BeginRead(c)
    BY <2>33 DEF BeginRead
  <2>34. CASE Crash(c)
    BY <2>34 DEF Crash
  <2> QED
    BY <1>1, <2>1, <2>2, <2>3, <2>4, <2>5, <2>6, <2>7, <2>8, <2>9, <2>10,
       <2>11, <2>12, <2>13, <2>14, <2>15, <2>16, <2>17, <2>18, <2>19, <2>20,
       <2>21, <2>22, <2>23, <2>24, <2>25, <2>26, <2>27, <2>28, <2>29, <2>30,
       <2>31, <2>32, <2>33, <2>34, <2>35
       DEF Continue, Open, Write, FailCall, Call
<1>2. CASE PowerLoss
  BY <1>2 DEF PowerLoss
<1> QED
  BY <1>1, <1>2 DEF Next

LEMMA ReadersStep ==
    ASSUME StoreInvariant, Next
    PROVE  ReadersSound'
<1> USE StoreAssumption DEF StoreInvariant, TypeOK, Rows, Phases, Writers,
        Putting, Finishing, Linked, Opening, Contents, Goto, Lock, Forget,
        files, table, root, calls, RowsSound, WritersSound, ReadersSound,
        Referenced, LocksFollow, LocksExclude, LockOf, Strong, CanReserve,
        CanExclude, CanShare, Others
<1>1. ASSUME NEW c \in Clients,
             Continue(c) \/ FailCall(c) \/ Call(c) \/ Crash(c)
      PROVE  ReadersSound'
  <2>1. CASE CreateCatalog(c)
    BY <2>1 DEF CreateCatalog
  <2>2. CASE DiscardCatalog(c)
    BY <2>2 DEF DiscardCatalog
  <2>3. CASE InitializeCatalog(c)
    BY <2>3 DEF InitializeCatalog
  <2>4. CASE FindCatalog(c)
    BY <2>4 DEF FindCatalog
  <2>35. CASE SyncCatalog(c)
    BY <2>35 DEF SyncCatalog
  <2>5. CASE MakeStorage(c)
    BY <2>5 DEF MakeStorage
  <2>6. CASE SyncRoot(c)
    BY <2>6 DEF SyncRoot
  <2>7. CASE BeginRecovery(c)
    BY <2>7 DEF BeginRecovery
  <2>8. CASE ValidateRows(c)
    BY <2>8 DEF ValidateRows
  <2>9. CASE SweepStaging(c)
    BY <2>9 DEF SweepStaging
  <2>10. CASE SweepObjects(c)
    BY <2>10 DEF SweepObjects, SyncedEntries
  <2>11. CASE FinishOpen(c)
    BY <2>11 DEF FinishOpen
  <2>12. CASE CreateStaging(c)
    BY <2>12 DEF CreateStaging, Stage
  <2>13. CASE WriteStaging(c)
    BY <2>13 DEF WriteStaging, Stage
  <2>14. CASE FlushStaging(c)
    BY <2>14 DEF FlushStaging, Stage
  <2>15. CASE MakeDirectory(c)
    BY <2>15 DEF MakeDirectory
  <2>16. CASE LinkPayload(c)
    BY <2>16 DEF LinkPayload
  <2>17. CASE FailLink(c)
    BY <2>17 DEF FailLink, Rollback
  <2>18. CASE UnlinkStaging(c)
    BY <2>18 DEF UnlinkStaging, Stage
  <2>19. CASE SyncPayload(c)
    BY <2>19 DEF SyncPayload
  <2>20. CASE StartCommit(c)
    BY <2>20 DEF StartCommit
  <2>21. CASE Commit(c)
    BY <2>21 DEF Commit
  <2>22. CASE AbandonStaging(c)
    BY <2>22 DEF AbandonStaging
  <2>23. CASE UnlinkRetired(c)
    BY <2>23 DEF UnlinkRetired
  <2>24. CASE RemoveDirectory(c)
    BY <2>24 DEF RemoveDirectory
  <2>25. CASE EndRead(c)
    BY <2>25 DEF EndRead
  <2>26. CASE RefuseOpen(c)
    BY <2>26 DEF RefuseOpen
  <2>27. CASE FailWrite(c)
    BY <2>27 DEF FailWrite, Rollback
  <2>28. CASE LeaveOrphan(c)
    BY <2>28 DEF LeaveOrphan
  <2>29. CASE FailRead(c)
    BY <2>29 DEF FailRead
  <2>30. CASE OpenStore(c)
    BY <2>30 DEF OpenStore
  <2>31. CASE BeginPut(c)
    BY <2>31 DEF BeginPut
  <2>32. CASE BeginDelete(c)
    BY <2>32 DEF BeginDelete
  <2>33. CASE BeginRead(c)
    <3>1. PICK w \in SUBSET Ids :
             /\ wanted' = [wanted EXCEPT ![c] = w]
             /\ \/ \E n \in Names : rows[n] # None /\ w = {rows[n]}
                \/ w = Referenced(rows)
      BY <2>33 DEF BeginRead, Current
    <3>2. rows' = rows /\ pc' = [pc EXCEPT ![c] = "reading"]
      BY <2>33 DEF BeginRead
    <3>3. ASSUME NEW d \in Clients, pc'[d] = "reading"
          PROVE  \/ \E n \in Names : rows'[n] # None /\ wanted'[d] = {rows'[n]}
                 \/ wanted'[d] = Referenced(rows)'
      <4>1. CASE d = c
        BY <3>1, <3>2, <4>1
      <4>2. CASE d # c
        BY <3>1, <3>2, <3>3, <4>2
      <4> QED
        BY <4>1, <4>2
    <3> QED
      BY <3>3 DEF ReadersSound
  <2>34. CASE Crash(c)
    BY <2>34 DEF Crash
  <2> QED
    BY <1>1, <2>1, <2>2, <2>3, <2>4, <2>5, <2>6, <2>7, <2>8, <2>9, <2>10,
       <2>11, <2>12, <2>13, <2>14, <2>15, <2>16, <2>17, <2>18, <2>19, <2>20,
       <2>21, <2>22, <2>23, <2>24, <2>25, <2>26, <2>27, <2>28, <2>29, <2>30,
       <2>31, <2>32, <2>33, <2>34, <2>35
       DEF Continue, Open, Write, FailCall, Call
<1>2. CASE PowerLoss
  BY <1>2 DEF PowerLoss
<1> QED
  BY <1>1, <1>2 DEF Next

LEMMA StorageStep ==
    ASSUME StoreInvariant, Next
    PROVE  StorageSound'
<1> USE DEF StoreInvariant, TypeOK, StorageSound, Unsettled, Goto, Lock, Forget,
        Rollback, files, table, root, calls, Phases, Opening, Putting
<1>1. ASSUME NEW c \in Clients,
             Continue(c) \/ FailCall(c) \/ Call(c) \/ Crash(c)
      PROVE  StorageSound'
  <2>1. CASE \/ CreateCatalog(c) \/ DiscardCatalog(c) \/ InitializeCatalog(c)
             \/ SyncCatalog(c) \/ FindCatalog(c)
    BY <2>1 DEF CreateCatalog, DiscardCatalog, InitializeCatalog, SyncCatalog,
       FindCatalog
  <2>2. CASE MakeStorage(c)
    BY <2>2 DEF MakeStorage
  <2>3. CASE SyncRoot(c)
    BY <2>3 DEF SyncRoot
  <2>4. CASE BeginRecovery(c) \/ ValidateRows(c) \/ SweepStaging(c) \/ FinishOpen(c)
    BY <2>4 DEF BeginRecovery, ValidateRows, SweepStaging, FinishOpen
  <2>5. CASE SweepObjects(c)
    BY <2>5 DEF SweepObjects
  <2>6. CASE \/ CreateStaging(c) \/ WriteStaging(c) \/ FlushStaging(c)
             \/ MakeDirectory(c) \/ LinkPayload(c) \/ FailLink(c)
             \/ UnlinkStaging(c) \/ SyncPayload(c)
    BY <2>6 DEF CreateStaging, WriteStaging, FlushStaging, Stage,
       MakeDirectory, LinkPayload, FailLink, UnlinkStaging, SyncPayload
  <2>7. CASE StartCommit(c) \/ Commit(c)
    BY <2>7 DEF StartCommit, Commit
  <2>8. CASE AbandonStaging(c) \/ UnlinkRetired(c) \/ RemoveDirectory(c)
    BY <2>8 DEF AbandonStaging, UnlinkRetired, RemoveDirectory
  <2>9. CASE EndRead(c) \/ FailCall(c)
    BY <2>9 DEF EndRead, FailCall, RefuseOpen, FailWrite, LeaveOrphan, FailRead
  <2>10. CASE Call(c) \/ Crash(c)
    BY <2>10 DEF Call, OpenStore, BeginPut, BeginDelete, BeginRead, Crash
  <2> QED
    BY <1>1, <2>1, <2>2, <2>3, <2>4, <2>5, <2>6, <2>7, <2>8, <2>9, <2>10
       DEF Continue, Open, Write
<1>2. CASE PowerLoss
  <2>1. durable_objects' # {} => storage'
    BY <1>2 DEF PowerLoss, Survivors
  <2> QED
    BY <1>2, <2>1 DEF PowerLoss
<1> QED
  BY <1>1, <1>2 DEF Next

(***************************************************************************)
(* The theorems                                                            *)
(***************************************************************************)
LEMMA InitStore ==
    ASSUME SyncedCommit, Init
    PROVE  StoreInvariant
<1> USE StoreAssumption DEF Init, Phases, Opening, Putting
<1>1. TypeOK
  BY DEF TypeOK, Rows, Locks, Contents
<1>2. LocksFollow /\ LocksExclude
  BY DEF LocksFollow, LocksExclude, LockOf, Strong
<1>3. RowsSound /\ WritersSound /\ PayloadsSound
  BY DEF RowsSound, WritersSound, PayloadsSound, Writers, Linked
<1>4. RetirementSound /\ RetiredExists /\ ReadersSound /\ StorageSound
  BY DEF RetirementSound, RetiredExists, ReadersSound, StorageSound, Unsettled
<1> QED
  BY <1>1, <1>2, <1>3, <1>4 DEF StoreInvariant

LEMMA StoreStep == StoreInvariant /\ [Next]_vars => StoreInvariant'
<1> SUFFICES ASSUME StoreInvariant, [Next]_vars
             PROVE  StoreInvariant'
  OBVIOUS
<1>1. CASE Next
  BY <1>1, TypeStep, LockStep, RowsStep, WritersStep, PayloadsStep,
     RetirementStep, ReadersStep, StorageStep DEF StoreInvariant
<1>2. CASE UNCHANGED vars
  <2> USE <1>2 DEF vars, files, table, root, calls, StoreInvariant
  <2>1. TypeOK'
    BY DEF TypeOK, Rows
  <2>2. LocksFollow' /\ LocksExclude'
    BY DEF LocksFollow, LocksExclude
  <2>3. RowsSound' /\ WritersSound' /\ PayloadsSound'
    BY DEF RowsSound, WritersSound, PayloadsSound
  <2>4. RetirementSound' /\ RetiredExists' /\ ReadersSound' /\ StorageSound'
    BY DEF RetirementSound, RetiredExists, ReadersSound, Referenced,
       StorageSound
  <2> QED
    BY <2>1, <2>2, <2>3, <2>4
<1> QED
  BY <1>1, <1>2

\* Every history of the store satisfies the invariant: the one fact from
\* which the theorems below follow.
LEMMA StoreInvariantHolds ==
    ASSUME SyncedCommit
    PROVE  Spec => []StoreInvariant
BY InitStore, StoreStep, PTL DEF Spec

\* Every variable keeps its shape (store.py has no other states).
THEOREM StoreTypes ==
    ASSUME SyncedCommit
    PROVE  Spec => []TypeOK
<1>1. StoreInvariant => TypeOK
  BY DEF StoreInvariant
<1> QED
  BY <1>1, StoreInvariantHolds, PTL

\* No crash, power loss or interleaving leaves a committed row without its
\* complete payload (put, delete, recovery).
THEOREM RowsHavePayloads ==
    ASSUME SyncedCommit
    PROVE  Spec => []CommittedPayloadPresent
<1>1. StoreInvariant => CommittedPayloadPresent
  BY DEF StoreInvariant, RowsSound, CommittedPayloadPresent
<1> QED
  BY <1>1, StoreInvariantHolds, PTL

\* What a reader selected is neither replaced, deleted nor unlinked while its
\* read transaction lasts (get, inspect, exists, list).
THEOREM ReadersAreSafe ==
    ASSUME SyncedCommit
    PROVE  Spec => []ReaderKeepsPayload
<1>1. StoreInvariant => ReaderKeepsPayload
  BY StoreAssumption DEF StoreInvariant, TypeOK, Rows, RowsSound, ReadersSound,
     ReaderKeepsPayload, Referenced
<1> QED
  BY <1>1, StoreInvariantHolds, PTL

\* An artifact is current for one name only, and once retired it stays
\* unreachable: what is unlinked is never a current payload.
THEOREM GenerationsDiffer ==
    ASSUME SyncedCommit
    PROVE  Spec => []GenerationsAreUnique
<1>1. StoreInvariant => GenerationsAreUnique
  BY DEF StoreInvariant, RowsSound, RetirementSound, GenerationsAreUnique
<1> QED
  BY <1>1, StoreInvariantHolds, PTL

(***************************************************************************)
(* What opening a store relies on                                          *)
(***************************************************************************)
\* The storage directories are made once the catalog has its schema, and the
\* schema stays: only an empty catalog is ever discarded, and the transaction
\* that made the schema survives a power loss.
RootSound ==
    /\ storage => catalog = "ready"
    /\ catalog = "ready" => durable_catalog = "ready"
    /\ \A c \in Clients :
          pc[c] \in {"persisting", "validating"} => catalog = "ready"

\* Nobody but the client that recovers publishes, commits or stages while it
\* holds EXCLUSIVE, so what it swept stays swept.
SweepsLast ==
    \A c \in Clients :
        /\ pc[c] \in {"pruning", "opened"} =>
             \A i \in Ids : staging[i] = "none"
        /\ pc[c] = "opened" =>
             \A i \in Ids : objects[i] # "none" => i \in Referenced(rows)

LEMMA RootStep ==
    ASSUME StoreInvariant, RootSound, Next
    PROVE  RootSound'
<1> USE DEF StoreInvariant, TypeOK, RootSound, Goto, Lock, Forget, Rollback,
        files, table, root, calls, Phases, Opening, Putting
<1>1. ASSUME NEW c \in Clients,
             Continue(c) \/ FailCall(c) \/ Call(c) \/ Crash(c)
      PROVE  RootSound'
  <2>1. CASE CreateCatalog(c) \/ DiscardCatalog(c) \/ InitializeCatalog(c)
    BY <2>1 DEF CreateCatalog, DiscardCatalog, InitializeCatalog, RowsSound
  <2>2. CASE SyncCatalog(c) \/ FindCatalog(c) \/ MakeStorage(c) \/ SyncRoot(c)
    BY <2>2 DEF SyncCatalog, FindCatalog, MakeStorage, SyncRoot
  <2>3. CASE \/ BeginRecovery(c) \/ ValidateRows(c) \/ SweepStaging(c)
             \/ SweepObjects(c) \/ FinishOpen(c)
    BY <2>3 DEF BeginRecovery, ValidateRows, SweepStaging, SweepObjects,
       FinishOpen
  <2>4. CASE \/ CreateStaging(c) \/ WriteStaging(c) \/ FlushStaging(c)
             \/ MakeDirectory(c) \/ LinkPayload(c) \/ FailLink(c)
             \/ UnlinkStaging(c) \/ SyncPayload(c)
    BY <2>4 DEF CreateStaging, WriteStaging, FlushStaging, Stage,
       MakeDirectory, LinkPayload, FailLink, UnlinkStaging, SyncPayload
  <2>5. CASE \/ StartCommit(c) \/ Commit(c) \/ AbandonStaging(c)
             \/ UnlinkRetired(c) \/ RemoveDirectory(c)
    BY <2>5 DEF StartCommit, Commit, AbandonStaging, UnlinkRetired,
       RemoveDirectory
  <2>6. CASE EndRead(c) \/ FailCall(c)
    BY <2>6 DEF EndRead, FailCall, RefuseOpen, FailWrite, LeaveOrphan, FailRead
  <2>7. CASE Call(c) \/ Crash(c)
    BY <2>7 DEF Call, OpenStore, BeginPut, BeginDelete, BeginRead, Crash
  <2> QED
    BY <1>1, <2>1, <2>2, <2>3, <2>4, <2>5, <2>6, <2>7
       DEF Continue, Open, Write
<1>2. CASE PowerLoss
  BY <1>2 DEF PowerLoss, StorageSound
<1> QED
  BY <1>1, <1>2 DEF Next

LEMMA SweepStep ==
    ASSUME StoreInvariant, SweepsLast, Next
    PROVE  SweepsLast'
<1> USE DEF StoreInvariant, TypeOK, SweepsLast, LocksFollow, LocksExclude,
        LockOf, Strong, Locks, Goto, Lock, Forget, Rollback, files,
        table, root, calls, Phases, Opening, Putting
<1>1. ASSUME NEW c \in Clients,
             Continue(c) \/ FailCall(c) \/ Call(c) \/ Crash(c)
      PROVE  SweepsLast'
  <2>1. CASE \/ CreateCatalog(c) \/ DiscardCatalog(c) \/ InitializeCatalog(c)
             \/ SyncCatalog(c) \/ FindCatalog(c) \/ MakeStorage(c) \/ SyncRoot(c)
    BY <2>1 DEF CreateCatalog, DiscardCatalog, InitializeCatalog, SyncCatalog,
       FindCatalog, MakeStorage, SyncRoot
  <2>2. CASE BeginRecovery(c) \/ ValidateRows(c) \/ FinishOpen(c)
    BY <2>2 DEF BeginRecovery, ValidateRows, FinishOpen
  <2>3. CASE SweepStaging(c)
    BY <2>3 DEF SweepStaging
  <2>4. CASE SweepObjects(c)
    BY <2>4 DEF SweepObjects
  <2>5. CASE CreateStaging(c) \/ WriteStaging(c) \/ FlushStaging(c)
    BY <2>5 DEF CreateStaging, WriteStaging, FlushStaging, Stage
  <2>6. CASE MakeDirectory(c) \/ FailLink(c) \/ SyncPayload(c)
    BY <2>6 DEF MakeDirectory, FailLink, SyncPayload
  <2>7. CASE LinkPayload(c) \/ UnlinkStaging(c)
    BY <2>7 DEF LinkPayload, UnlinkStaging, Stage
  <2>8. CASE StartCommit(c) \/ Commit(c)
    BY <2>8 DEF StartCommit, Commit
  <2>9. CASE AbandonStaging(c) \/ UnlinkRetired(c) \/ RemoveDirectory(c)
    BY <2>9 DEF AbandonStaging, UnlinkRetired, RemoveDirectory
  <2>10. CASE EndRead(c) \/ FailCall(c)
    BY <2>10 DEF EndRead, FailCall, RefuseOpen, FailWrite, LeaveOrphan,
       FailRead
  <2>11. CASE Call(c) \/ Crash(c)
    BY <2>11 DEF Call, OpenStore, BeginPut, BeginDelete, BeginRead, Crash
  <2> QED
    BY <1>1, <2>1, <2>2, <2>3, <2>4, <2>5, <2>6, <2>7, <2>8, <2>9, <2>10,
       <2>11 DEF Continue, Open, Write
<1>2. CASE PowerLoss
  BY <1>2 DEF PowerLoss
<1> QED
  BY <1>1, <1>2 DEF Next

\* The two facts hold beside the invariant, in every history.
LEMMA OpeningHolds ==
    ASSUME SyncedCommit
    PROVE  Spec => [](RootSound /\ SweepsLast)
<1>1. Init => RootSound /\ SweepsLast
  BY DEF Init, RootSound, SweepsLast
<1>2. StoreInvariant /\ RootSound /\ SweepsLast /\ [Next]_vars
        => RootSound' /\ SweepsLast'
  <2>1. CASE Next
    BY <2>1, RootStep, SweepStep
  <2>2. CASE UNCHANGED vars
    BY <2>2 DEF vars, files, table, root, RootSound, SweepsLast, Referenced
  <2> QED
    BY <2>1, <2>2
<1> QED
  BY <1>1, <1>2, StoreInvariantHolds, PTL DEF Spec

\* Neither a crash nor a power loss during the first open leaves objects/ or
\* tmp/ beside a catalog without schema, which every later open would refuse.
THEOREM RootsAreRecognized ==
    ASSUME SyncedCommit
    PROVE  Spec => []RootIsRecognized
<1>1. RootSound => RootIsRecognized
  BY DEF RootSound, RootIsRecognized
<1> QED
  BY <1>1, OpeningHolds, PTL

\* When recovery hands the store over, no staging file and no unreachable
\* payload is left, whoever wrote, crashed or deleted before.
THEOREM RecoveriesAreComplete ==
    ASSUME SyncedCommit
    PROVE  Spec => []RecoveryIsComplete
<1>1. SweepsLast => RecoveryIsComplete
  BY DEF SweepsLast, RecoveryIsComplete
<1> QED
  BY <1>1, OpeningHolds, PTL

(***************************************************************************)
(* Refinement                                                              *)
(***************************************************************************)
LEMMA InitRefines == Init => Promise!Init
BY DEF Init, Promise!Init

LEMMA CommitRefines ==
    ASSUME StoreInvariant, NEW c \in Clients, Commit(c)
    PROVE  [Promise!Next]_<<rows, committed, returned>>
<1> USE DEF StoreInvariant, TypeOK, Rows
<1>1. name[c] \in Names /\ retired[c] = rows[name[c]]
      /\ artifact[c] \notin committed
  BY DEF Commit, WritersSound, Writers
<1>2. CASE artifact[c] # None
  <2>1. Promise!Publish(name[c], artifact[c])
    BY <1>1, <1>2 DEF Commit, Promise!Publish, files, calls
  <2> QED
    BY <1>1, <1>2, <2>1 DEF Promise!Next
<1>3. CASE artifact[c] = None /\ rows[name[c]] # None
  <2>1. Promise!Delete(name[c])
    BY <1>1, <1>3 DEF Commit, Promise!Delete, files, calls
  <2> QED
    BY <1>1, <2>1 DEF Promise!Next
<1>4. CASE artifact[c] = None /\ rows[name[c]] = None
  <2>1. rows' = rows
    BY <1>1, <1>4 DEF Commit
  <2> QED
    BY <1>4, <2>1 DEF Commit, files, calls
<1> QED
  BY <1>2, <1>3, <1>4

LEMMA EndReadRefines ==
    ASSUME StoreInvariant, NEW c \in Clients, EndRead(c)
    PROVE  Promise!Next
<1>1. CASE wanted[c] = Referenced(rows)
  <2>1. Promise!List(c)
    BY <1>1 DEF EndRead, Promise!List, Referenced, table, root
  <2> QED
    BY <2>1 DEF Promise!Next
<1>2. CASE \E n \in Names : rows[n] # None /\ wanted[c] = {rows[n]}
  <2>1. PICK n \in Names : rows[n] # None /\ wanted[c] = {rows[n]}
    BY <1>2
  <2>2. Promise!Get(c, n)
    BY <2>1 DEF EndRead, Promise!Get, table, root
  <2> QED
    BY <2>2 DEF Promise!Next
<1> QED
  BY <1>1, <1>2 DEF EndRead, StoreInvariant, ReadersSound

\* Everything else is invisible to callers, a power loss included.
LEMMA StepRefines ==
    ASSUME StoreInvariant, [Next]_vars
    PROVE  [Promise!Next]_<<rows, committed, returned>>
<1> USE DEF Goto, Lock, Forget, files, table, root, calls
<1>1. CASE UNCHANGED vars
  BY <1>1 DEF vars
<1>2. CASE PowerLoss
  BY <1>2 DEF PowerLoss, StoreInvariant, RowsSound
<1>3. ASSUME NEW c \in Clients, Continue(c) \/ FailCall(c) \/ Call(c) \/ Crash(c)
      PROVE  [Promise!Next]_<<rows, committed, returned>>
  <2>1. CASE Open(c)
    BY <2>1 DEF Open, CreateCatalog, DiscardCatalog, InitializeCatalog,
       SyncCatalog, FindCatalog, MakeStorage, SyncRoot, BeginRecovery, ValidateRows,
       SweepStaging, SweepObjects, FinishOpen
  <2>2. CASE Commit(c)
    BY <2>2, CommitRefines
  <2>3. CASE Write(c) /\ ~Commit(c)
    BY <2>3 DEF Write, CreateStaging, WriteStaging, FlushStaging, Stage,
       MakeDirectory, LinkPayload, FailLink, Rollback, UnlinkStaging,
       SyncPayload, StartCommit, AbandonStaging, UnlinkRetired, RemoveDirectory
  <2>4. CASE EndRead(c)
    BY <2>4, EndReadRefines
  <2>5. CASE FailCall(c)
    BY <2>5 DEF FailCall, RefuseOpen, FailWrite, Rollback, LeaveOrphan, FailRead
  <2>6. CASE Call(c)
    BY <2>6 DEF Call, OpenStore, BeginPut, BeginDelete, BeginRead
  <2>7. CASE Crash(c)
    BY <2>7 DEF Crash
  <2> QED
    BY <1>3, <2>1, <2>2, <2>3, <2>4, <2>5, <2>6, <2>7 DEF Continue
<1> QED
  BY <1>1, <1>2, <1>3 DEF Next

\* The store implements the atomic store: with respect to what its callers
\* can observe, each put, delete and read happens at one moment, also when
\* processes crash in between.
THEOREM StoreIsAtomic ==
    ASSUME SyncedCommit
    PROVE  Spec => TakesEffectAtOnce
<1>1. StoreInvariant /\ [Next]_vars => [Promise!Next]_<<rows, committed, returned>>
  BY StepRefines
<1> QED
  BY <1>1, InitRefines, StoreInvariantHolds, PTL
     DEF Spec, TakesEffectAtOnce, Promise!Spec
=============================================================================
