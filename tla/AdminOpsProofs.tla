---- MODULE AdminOpsProofs ----
(***************************************************************************)
(* Theorems about AdminOps, for any number of processes.                   *)
(***************************************************************************)
EXTENDS AdminOps, TLAPS

-----------------------------------------------------------------------------
(* The inductive invariant.  The lock part shows that a rebuild past its    *)
(* drops is alone with its tables; the writer part, that a user whose audit *)
(* row is about to commit cannot be dropped.                                *)

\* Each operation executes its own statements only.
Route ==
    \A p \in Procs :
        /\ pc[p] \in {"acquire", "unlock"} => Locked(p)
        /\ pc[p] \in {"drop-scan", "drop"} => op[p] = "rebuild"
        /\ pc[p] \in {"create-scan", "create", "backfill"} => op[p] \in {"rebuild", "migrate"}
        /\ pc[p] \in {"count", "seed"} => op[p] \in {"rebuild", "seed"}
        /\ pc[p] = "delete" => op[p] = "prune"
        /\ pc[p] \in {"read", "audit"} => op[p] = "use"
        /\ pc[p] = "commit" => op[p] # "migrate"

\* A lock file is held exactly by the process inside its section.
LocksExact ==
    \A l \in Locks, p \in Procs : held[l] = p <=> InLock(p) /\ LockOf[op[p]] = l

\* The write lock belongs to a process about to commit, and the user of an
\* open request is still there.
Writing ==
    /\ \A p \in Procs : writer = p =>
        \/ pc[p] = "commit"
        \/ pc[p] = "unlock" /\ op[p] = "prune"
    /\ \A p \in Procs : pc[p] = "commit" /\ op[p] # "prune" => writer = p
    /\ \A p \in Procs : writer = p /\ op[p] = "use" => rows["users"] # {}

\* How far a rebuild has restored the database.
Rebuilding ==
    \A p \in Procs : op[p] = "rebuild" =>
        /\ pc[p] = "create" => Tables \ todo[p] \subseteq tables
        /\ pc[p] \in {"backfill", "count", "seed", "commit", "unlock"} => tables = Tables
        /\ pc[p] = "unlock" => rows["catalog"] # {}
        /\ pc[p] = "done" <=> outcome[p] # "pending"

IInv ==
    /\ TypeOK
    /\ Route
    /\ LocksExact
    /\ Writing
    /\ Rebuilding
    /\ NoOrphanAudit
    /\ RebuildIsComplete

-----------------------------------------------------------------------------
(* The invariant holds initially.                                          *)

\* An existing or an empty database file satisfies the invariant.
LEMMA InitIInv == Init => IInv
<1> SUFFICES ASSUME Init PROVE IInv
  OBVIOUS
<1> USE AdminConstants
<1>1. \A p \in Procs : op[p] \in Ops /\ pc[p] = FirstStep(op[p])
  BY DEF Init
<1>2. TypeOK
  BY <1>1 DEF Init, TypeOK, FirstStep, Steps
<1>3. Route
  BY <1>1 DEF Init, Route, FirstStep, Locked, LockOf
<1>4. LocksExact
  BY <1>1 DEF Init, LocksExact, InLock, Locked, LockOf, FirstStep
<1>5. Writing
  BY <1>1 DEF Init, Writing, FirstStep
<1>6. Rebuilding
  BY <1>1 DEF Init, Rebuilding, FirstStep
<1>7. NoOrphanAudit /\ RebuildIsComplete
  BY DEF Init, NoOrphanAudit, RebuildIsComplete, Tables
<1> QED BY <1>2, <1>3, <1>4, <1>5, <1>6, <1>7 DEF IInv

-----------------------------------------------------------------------------
(* Every action preserves the invariant.                                   *)

\* Taking a free lock puts exactly its taker inside the section.
LEMMA AcquireKeeps == ASSUME IInv, NEW p \in Procs, Acquire(p) PROVE IInv'
<1> USE AdminConstants DEF IInv, Acquire, Goto, Finish
<1>1. TypeOK'
  BY DEF TypeOK, Steps, Tables, Locks, LockOf, Route, Locked
<1>2. Route'
  BY DEF TypeOK, Route, Locked, LockOf
<1>3. LocksExact'
  BY DEF TypeOK, Route, LocksExact, InLock, Locked, LockOf, Locks
<1>4. Writing'
  BY DEF TypeOK, Route, Writing, Tables
<1>5. Rebuilding'
  BY DEF TypeOK, Route, LocksExact, InLock, Locked, LockOf, Locks, Writing, Rebuilding, Tables
<1>6. NoOrphanAudit'
  BY DEF TypeOK, Writing, NoOrphanAudit, Tables
<1>7. RebuildIsComplete'
  BY DEF TypeOK, Route, Rebuilding, RebuildIsComplete, Tables
<1> QED BY <1>1, <1>2, <1>3, <1>4, <1>5, <1>6, <1>7

\* Giving up leaves everything but the outcome alone.
LEMMA LockTimeoutKeeps == ASSUME IInv, NEW p \in Procs, LockTimeout(p) PROVE IInv'
<1> USE AdminConstants DEF IInv, LockTimeout, Goto, Finish
<1>1. TypeOK'
  BY DEF TypeOK, Steps, Tables, Locks, LockOf, Route, Locked
<1>2. Route'
  BY DEF TypeOK, Route, Locked, LockOf
<1>3. LocksExact'
  BY DEF TypeOK, Route, LocksExact, InLock, Locked, LockOf, Locks
<1>4. Writing'
  BY DEF TypeOK, Route, Writing, Tables
<1>5. Rebuilding'
  BY DEF TypeOK, Route, LocksExact, InLock, Locked, LockOf, Locks, Writing, Rebuilding, Tables
<1>6. NoOrphanAudit'
  BY DEF TypeOK, Writing, NoOrphanAudit, Tables
<1>7. RebuildIsComplete'
  BY DEF TypeOK, Route, Rebuilding, RebuildIsComplete, Tables
<1> QED BY <1>1, <1>2, <1>3, <1>4, <1>5, <1>6, <1>7

\* A rebuild that gives up its lock leaves a whole database.
LEMMA UnlockKeeps == ASSUME IInv, NEW p \in Procs, Unlock(p) PROVE IInv'
<1> USE AdminConstants DEF IInv, Unlock, ReleaseLocks, Goto, Finish
<1>1. TypeOK'
  BY DEF TypeOK, Steps, Tables, Locks, LockOf, Route, Locked
<1>2. Route'
  BY DEF TypeOK, Route, Locked, LockOf
<1>3. LocksExact'
  BY DEF TypeOK, Route, LocksExact, InLock, Locked, LockOf, Locks
<1>4. Writing'
  BY DEF TypeOK, Route, Locked, LockOf, Writing, Tables
<1>5. Rebuilding'
  <2> SUFFICES ASSUME NEW q \in Procs, op[q] = "rebuild"
               PROVE (/\ pc[q] = "create" => Tables \ todo[q] \subseteq tables
                      /\ pc[q] \in {"backfill", "count", "seed", "commit", "unlock"}
                            => tables = Tables
                      /\ pc[q] = "unlock" => rows["catalog"] # {}
                      /\ pc[q] = "done" <=> outcome[q] # "pending")'
    BY DEF Rebuilding
  <2>1. CASE q = p
    BY <2>1 DEF TypeOK, Rebuilding
  <2>2. CASE q # p
    BY <2>2 DEF TypeOK, Rebuilding
  <2> QED BY <2>1, <2>2
<1>6. NoOrphanAudit'
  BY DEF TypeOK, Writing, NoOrphanAudit, Tables
<1>7. RebuildIsComplete'
  BY DEF TypeOK, Route, Rebuilding, RebuildIsComplete, Tables
<1> QED BY <1>1, <1>2, <1>3, <1>4, <1>5, <1>6, <1>7

\* The scan only notes what exists.
LEMMA DropScanKeeps == ASSUME IInv, NEW p \in Procs, DropScan(p) PROVE IInv'
<1> USE AdminConstants DEF IInv, DropScan, Goto, Finish
<1>1. TypeOK'
  BY DEF TypeOK, Steps, Tables, Locks, LockOf, Route, Locked
<1>2. Route'
  BY DEF TypeOK, Route, Locked, LockOf
<1>3. LocksExact'
  BY DEF TypeOK, Route, LocksExact, InLock, Locked, LockOf, Locks
<1>4. Writing'
  BY DEF TypeOK, Route, Writing, Tables
<1>5. Rebuilding'
  BY DEF TypeOK, Route, LocksExact, InLock, Locked, LockOf, Locks, Writing, Rebuilding, Tables
<1>6. NoOrphanAudit'
  BY DEF TypeOK, Writing, NoOrphanAudit, Tables
<1>7. RebuildIsComplete'
  BY DEF TypeOK, Route, Rebuilding, RebuildIsComplete, Tables
<1> QED BY <1>1, <1>2, <1>3, <1>4, <1>5, <1>6, <1>7

\* A table is dropped by the one rebuild in progress, the users last.
LEMMA DropTableKeeps == ASSUME IInv, NEW p \in Procs, DropTable(p) PROVE IInv'
<1> USE AdminConstants DEF IInv, DropTable, CanDrop, Goto, Finish
<1>1. TypeOK'
  BY DEF TypeOK, Steps, Tables, Locks, LockOf, Route, Locked
<1>2. Route'
  BY DEF TypeOK, Route, Locked, LockOf
<1>3. LocksExact'
  BY DEF TypeOK, Route, LocksExact, InLock, Locked, LockOf, Locks
<1>4. Writing'
  BY DEF TypeOK, Route, Writing, Tables
<1>5. Rebuilding'
  <2> SUFFICES ASSUME NEW q \in Procs, op[q] = "rebuild"
               PROVE (/\ pc[q] = "create" => Tables \ todo[q] \subseteq tables
                      /\ pc[q] \in {"backfill", "count", "seed", "commit", "unlock"}
                            => tables = Tables
                      /\ pc[q] = "unlock" => rows["catalog"] # {}
                      /\ pc[q] = "done" <=> outcome[q] # "pending")'
    BY DEF Rebuilding
  <2>1. op[p] = "rebuild" /\ InLock(p)
    BY DEF Route, InLock, Locked, LockOf
  <2>2. pc[q] \notin {"acquire", "done"} => InLock(q)
    BY DEF InLock, Locked, LockOf
  <2>3. InLock(q) => q = p
    <3>1. "admin-db-rebuild" \in Locks /\ LockOf["rebuild"] = "admin-db-rebuild"
      BY DEF Locks, LockOf
    <3> HIDE DEF DropTable
    <3> QED BY <2>1, <3>1 DEF LocksExact
  <2>4. pc' = pc /\ outcome' = outcome /\ pc[p] = "drop"
    OBVIOUS
  <2>5. CASE InLock(q)
    BY <2>3, <2>4, <2>5 DEF Rebuilding
  <2>6. CASE ~InLock(q)
    BY <2>2, <2>4, <2>6 DEF Rebuilding
  <2> QED BY <2>5, <2>6
<1>6. NoOrphanAudit'
  BY DEF TypeOK, Writing, NoOrphanAudit, Tables
<1>7. RebuildIsComplete'
  BY DEF TypeOK, Route, Rebuilding, RebuildIsComplete, Tables
<1> QED BY <1>1, <1>2, <1>3, <1>4, <1>5, <1>6, <1>7

\* The drops are over.
LEMMA DroppedKeeps == ASSUME IInv, NEW p \in Procs, Dropped(p) PROVE IInv'
<1> USE AdminConstants DEF IInv, Dropped, Goto, Finish
<1>1. TypeOK'
  BY DEF TypeOK, Steps, Tables, Locks, LockOf, Route, Locked
<1>2. Route'
  BY DEF TypeOK, Route, Locked, LockOf
<1>3. LocksExact'
  BY DEF TypeOK, Route, LocksExact, InLock, Locked, LockOf, Locks
<1>4. Writing'
  BY DEF TypeOK, Route, Writing, Tables
<1>5. Rebuilding'
  BY DEF TypeOK, Route, LocksExact, InLock, Locked, LockOf, Locks, Writing, Rebuilding, Tables
<1>6. NoOrphanAudit'
  BY DEF TypeOK, Writing, NoOrphanAudit, Tables
<1>7. RebuildIsComplete'
  BY DEF TypeOK, Route, Rebuilding, RebuildIsComplete, Tables
<1> QED BY <1>1, <1>2, <1>3, <1>4, <1>5, <1>6, <1>7

\* The scan only notes what is missing.
LEMMA CreateScanKeeps == ASSUME IInv, NEW p \in Procs, CreateScan(p) PROVE IInv'
<1> USE AdminConstants DEF IInv, CreateScan, Goto, Finish
<1>1. TypeOK'
  BY DEF TypeOK, Steps, Tables, Locks, LockOf, Route, Locked
<1>2. Route'
  BY DEF TypeOK, Route, Locked, LockOf
<1>3. LocksExact'
  BY DEF TypeOK, Route, LocksExact, InLock, Locked, LockOf, Locks
<1>4. Writing'
  BY DEF TypeOK, Route, Writing, Tables
<1>5. Rebuilding'
  BY DEF TypeOK, Route, LocksExact, InLock, Locked, LockOf, Locks, Writing, Rebuilding, Tables
<1>6. NoOrphanAudit'
  BY DEF TypeOK, Writing, NoOrphanAudit, Tables
<1>7. RebuildIsComplete'
  BY DEF TypeOK, Route, Rebuilding, RebuildIsComplete, Tables
<1> QED BY <1>1, <1>2, <1>3, <1>4, <1>5, <1>6, <1>7

\* A table is added, empty.
LEMMA CreateTableKeeps == ASSUME IInv, NEW p \in Procs, CreateTable(p) PROVE IInv'
<1> USE AdminConstants DEF IInv, CreateTable, CanCreate, Goto, Finish
<1>1. TypeOK'
  BY DEF TypeOK, Steps, Tables, Locks, LockOf, Route, Locked
<1>2. Route'
  BY DEF TypeOK, Route, Locked, LockOf
<1>3. LocksExact'
  BY DEF TypeOK, Route, LocksExact, InLock, Locked, LockOf, Locks
<1>4. Writing'
  BY DEF TypeOK, Route, Writing, Tables
<1>5. Rebuilding'
  BY DEF TypeOK, Route, LocksExact, InLock, Locked, LockOf, Locks, Writing, Rebuilding, Tables
<1>6. NoOrphanAudit'
  BY DEF TypeOK, Writing, NoOrphanAudit, Tables
<1>7. RebuildIsComplete'
  BY DEF TypeOK, Route, Rebuilding, RebuildIsComplete, Tables
<1> QED BY <1>1, <1>2, <1>3, <1>4, <1>5, <1>6, <1>7

\* The creations are over.
LEMMA CreatedKeeps == ASSUME IInv, NEW p \in Procs, Created(p) PROVE IInv'
<1> USE AdminConstants DEF IInv, Created, Goto, Finish
<1>1. TypeOK'
  BY DEF TypeOK, Steps, Tables, Locks, LockOf, Route, Locked
<1>2. Route'
  BY DEF TypeOK, Route, Locked, LockOf
<1>3. LocksExact'
  BY DEF TypeOK, Route, LocksExact, InLock, Locked, LockOf, Locks
<1>4. Writing'
  BY DEF TypeOK, Route, Writing, Tables
<1>5. Rebuilding'
  <2>1. op[p] = "rebuild" => tables = Tables
    BY DEF TypeOK, Rebuilding
  <2>2. ASSUME NEW q \in Procs, op[q] = "rebuild"
        PROVE  (/\ pc[q] = "create" => Tables \ todo[q] \subseteq tables
                /\ pc[q] \in {"backfill", "count", "seed", "commit", "unlock"}
                     => tables = Tables
                /\ pc[q] = "unlock" => rows["catalog"] # {}
                /\ pc[q] = "done" <=> outcome[q] # "pending")'
    <3>1. CASE q = p
      BY <2>1, <2>2, <3>1 DEF TypeOK, Rebuilding
    <3>2. CASE q # p
      BY <2>2, <3>2 DEF TypeOK, Rebuilding
    <3> QED BY <3>1, <3>2
  <2> QED BY <2>2 DEF Rebuilding
<1>6. NoOrphanAudit'
  BY DEF TypeOK, Writing, NoOrphanAudit, Tables
<1>7. RebuildIsComplete'
  BY DEF TypeOK, Route, Rebuilding, RebuildIsComplete, Tables
<1> QED BY <1>1, <1>2, <1>3, <1>4, <1>5, <1>6, <1>7

\* A rebuild passes the backfill with every table in place: it has created what
\* its scan missed, and no other rebuild drops a table meanwhile.
LEMMA BackfillKeeps == ASSUME IInv, NEW p \in Procs, Backfill(p) PROVE IInv'
<1> USE AdminConstants DEF IInv, Backfill, CanBackfill, Goto, Finish
<1>1. TypeOK'
  BY DEF TypeOK, Steps, Tables, Locks, LockOf, Route, Locked
<1>2. Route'
  BY DEF TypeOK, Route, Locked, LockOf
<1>3. LocksExact'
  BY DEF TypeOK, Route, LocksExact, InLock, Locked, LockOf, Locks
<1>4. Writing'
  BY DEF TypeOK, Route, Writing, Tables
<1>5. Rebuilding'
  BY DEF TypeOK, Route, LocksExact, InLock, Locked, LockOf, Locks, Writing, Rebuilding, Tables
<1>6. NoOrphanAudit'
  BY DEF TypeOK, Writing, NoOrphanAudit, Tables
<1>7. RebuildIsComplete'
  BY DEF TypeOK, Route, Rebuilding, RebuildIsComplete, Tables
<1> QED BY <1>1, <1>2, <1>3, <1>4, <1>5, <1>6, <1>7

\* A rebuild skips the seed only if there is one.
LEMMA CountCatalogKeeps == ASSUME IInv, NEW p \in Procs, CountCatalog(p) PROVE IInv'
<1> USE AdminConstants DEF IInv, CountCatalog, Goto, Finish
<1>1. TypeOK'
  BY DEF TypeOK, Steps, Tables, Locks, LockOf, Route, Locked
<1>2. Route'
  BY DEF TypeOK, Route, Locked, LockOf
<1>3. LocksExact'
  BY DEF TypeOK, Route, LocksExact, InLock, Locked, LockOf, Locks
<1>4. Writing'
  BY DEF TypeOK, Route, Writing, Tables
<1>5. Rebuilding'
  BY DEF TypeOK, Route, LocksExact, InLock, Locked, LockOf, Locks, Writing, Rebuilding, Tables
<1>6. NoOrphanAudit'
  BY DEF TypeOK, Writing, NoOrphanAudit, Tables
<1>7. RebuildIsComplete'
  BY DEF TypeOK, Route, Rebuilding, RebuildIsComplete, Tables
<1> QED BY <1>1, <1>2, <1>3, <1>4, <1>5, <1>6, <1>7

\* The seed takes the write lock.
LEMMA SeedCatalogKeeps == ASSUME IInv, NEW p \in Procs, SeedCatalog(p) PROVE IInv'
<1> USE AdminConstants DEF IInv, SeedCatalog, CanWrite, Goto, Finish
<1>1. TypeOK'
  BY DEF TypeOK, Steps, Tables, Locks, LockOf, Route, Locked
<1>2. Route'
  BY DEF TypeOK, Route, Locked, LockOf
<1>3. LocksExact'
  BY DEF TypeOK, Route, LocksExact, InLock, Locked, LockOf, Locks
<1>4. Writing'
  BY DEF TypeOK, Route, Writing, Tables
<1>5. Rebuilding'
  BY DEF TypeOK, Route, LocksExact, InLock, Locked, LockOf, Locks, Writing, Rebuilding, Tables
<1>6. NoOrphanAudit'
  BY DEF TypeOK, Writing, NoOrphanAudit, Tables
<1>7. RebuildIsComplete'
  BY DEF TypeOK, Route, Rebuilding, RebuildIsComplete, Tables
<1> QED BY <1>1, <1>2, <1>3, <1>4, <1>5, <1>6, <1>7

\* The prune takes the write lock.
LEMMA DeleteOldKeeps == ASSUME IInv, NEW p \in Procs, DeleteOld(p) PROVE IInv'
<1> USE AdminConstants DEF IInv, DeleteOld, CanWrite, Goto, Finish
<1>1. TypeOK'
  BY DEF TypeOK, Steps, Tables, Locks, LockOf, Route, Locked
<1>2. Route'
  BY DEF TypeOK, Route, Locked, LockOf
<1>3. LocksExact'
  BY DEF TypeOK, Route, LocksExact, InLock, Locked, LockOf, Locks
<1>4. Writing'
  BY DEF TypeOK, Route, Writing, Tables
<1>5. Rebuilding'
  BY DEF TypeOK, Route, LocksExact, InLock, Locked, LockOf, Locks, Writing, Rebuilding, Tables
<1>6. NoOrphanAudit'
  BY DEF TypeOK, Writing, NoOrphanAudit, Tables
<1>7. RebuildIsComplete'
  BY DEF TypeOK, Route, Rebuilding, RebuildIsComplete, Tables
<1> QED BY <1>1, <1>2, <1>3, <1>4, <1>5, <1>6, <1>7

\* A dry run writes nothing.
LEMMA CountOldKeeps == ASSUME IInv, NEW p \in Procs, CountOld(p) PROVE IInv'
<1> USE AdminConstants DEF IInv, CountOld, Goto, Finish
<1>1. TypeOK'
  BY DEF TypeOK, Steps, Tables, Locks, LockOf, Route, Locked
<1>2. Route'
  BY DEF TypeOK, Route, Locked, LockOf
<1>3. LocksExact'
  BY DEF TypeOK, Route, LocksExact, InLock, Locked, LockOf, Locks
<1>4. Writing'
  BY DEF TypeOK, Route, Writing, Tables
<1>5. Rebuilding'
  BY DEF TypeOK, Route, LocksExact, InLock, Locked, LockOf, Locks, Writing, Rebuilding, Tables
<1>6. NoOrphanAudit'
  BY DEF TypeOK, Writing, NoOrphanAudit, Tables
<1>7. RebuildIsComplete'
  BY DEF TypeOK, Route, Rebuilding, RebuildIsComplete, Tables
<1> QED BY <1>1, <1>2, <1>3, <1>4, <1>5, <1>6, <1>7

\* The read takes no lock.
LEMMA ReadUserKeeps == ASSUME IInv, NEW p \in Procs, ReadUser(p) PROVE IInv'
<1> USE AdminConstants DEF IInv, ReadUser, Goto, Finish
<1>1. TypeOK'
  BY DEF TypeOK, Steps, Tables, Locks, LockOf, Route, Locked
<1>2. Route'
  BY DEF TypeOK, Route, Locked, LockOf
<1>3. LocksExact'
  BY DEF TypeOK, Route, LocksExact, InLock, Locked, LockOf, Locks
<1>4. Writing'
  BY DEF TypeOK, Route, Writing, Tables
<1>5. Rebuilding'
  BY DEF TypeOK, Route, LocksExact, InLock, Locked, LockOf, Locks, Writing, Rebuilding, Tables
<1>6. NoOrphanAudit'
  BY DEF TypeOK, Writing, NoOrphanAudit, Tables
<1>7. RebuildIsComplete'
  BY DEF TypeOK, Route, Rebuilding, RebuildIsComplete, Tables
<1> QED BY <1>1, <1>2, <1>3, <1>4, <1>5, <1>6, <1>7

\* The audit row takes the write lock while its user exists.
LEMMA InsertAuditKeeps == ASSUME IInv, NEW p \in Procs, InsertAudit(p) PROVE IInv'
<1> USE AdminConstants DEF IInv, InsertAudit, CanAudit, CanWrite, Goto, Finish
<1>1. TypeOK'
  BY DEF TypeOK, Steps, Tables, Locks, LockOf, Route, Locked
<1>2. Route'
  BY DEF TypeOK, Route, Locked, LockOf
<1>3. LocksExact'
  BY DEF TypeOK, Route, LocksExact, InLock, Locked, LockOf, Locks
<1>4. Writing'
  BY DEF TypeOK, Route, Writing, Tables
<1>5. Rebuilding'
  BY DEF TypeOK, Route, LocksExact, InLock, Locked, LockOf, Locks, Writing, Rebuilding, Tables
<1>6. NoOrphanAudit'
  BY DEF TypeOK, Writing, NoOrphanAudit, Tables
<1>7. RebuildIsComplete'
  BY DEF TypeOK, Route, Rebuilding, RebuildIsComplete, Tables
<1> QED BY <1>1, <1>2, <1>3, <1>4, <1>5, <1>6, <1>7

\* A commit adds a catalog or an audit row, or removes old ones.
LEMMA CommitKeeps == ASSUME IInv, NEW p \in Procs, Commit(p) PROVE IInv'
<1> USE AdminConstants DEF IInv, Commit, Written, EndTransaction, Goto, Finish
<1>1. TypeOK'
  BY DEF TypeOK, Steps, Tables, Locks, LockOf, Route, Locked
<1>2. Route'
  BY DEF TypeOK, Route, Locked, LockOf
<1>3. LocksExact'
  BY DEF TypeOK, Route, LocksExact, InLock, Locked, LockOf, Locks
<1>4. Writing'
  BY DEF TypeOK, Route, Writing, Tables
<1>5. Rebuilding'
  BY DEF TypeOK, Route, LocksExact, InLock, Locked, LockOf, Locks, Writing, Rebuilding, Tables
<1>6. NoOrphanAudit'
  BY DEF TypeOK, Writing, NoOrphanAudit, Tables
<1>7. RebuildIsComplete'
  BY DEF TypeOK, Route, Rebuilding, RebuildIsComplete, Tables
<1> QED BY <1>1, <1>2, <1>3, <1>4, <1>5, <1>6, <1>7

\* A failure releases what the process held.
LEMMA FailKeeps == ASSUME IInv, NEW p \in Procs, Fail(p) PROVE IInv'
<1> USE AdminConstants DEF IInv, Fail, CannotRun, EndTransaction, ReleaseLocks, Goto, Finish
<1>1. TypeOK'
  BY DEF TypeOK, Steps, Tables, Locks, LockOf, Route, Locked
<1>2. Route'
  BY DEF TypeOK, Route, Locked, LockOf
<1>3. LocksExact'
  BY DEF TypeOK, Route, LocksExact, InLock, Locked, LockOf, Locks
<1>4. Writing'
  BY DEF TypeOK, Route, Writing, Tables
<1>5. Rebuilding'
  BY DEF TypeOK, Route, LocksExact, InLock, Locked, LockOf, Locks, Writing, Rebuilding, Tables
<1>6. NoOrphanAudit'
  BY DEF TypeOK, Writing, NoOrphanAudit, Tables
<1>7. RebuildIsComplete'
  BY DEF TypeOK, Route, Rebuilding, RebuildIsComplete, Tables
<1> QED BY <1>1, <1>2, <1>3, <1>4, <1>5, <1>6, <1>7

\* A death releases what the process held.
LEMMA CrashKeeps == ASSUME IInv, NEW p \in Procs, Crash(p) PROVE IInv'
<1> USE AdminConstants DEF IInv, Crash, EndTransaction, ReleaseLocks, Goto, Finish
<1>1. TypeOK'
  BY DEF TypeOK, Steps, Tables, Locks, LockOf, Route, Locked
<1>2. Route'
  BY DEF TypeOK, Route, Locked, LockOf
<1>3. LocksExact'
  BY DEF TypeOK, Route, LocksExact, InLock, Locked, LockOf, Locks
<1>4. Writing'
  BY DEF TypeOK, Route, Writing, Tables
<1>5. Rebuilding'
  BY DEF TypeOK, Route, LocksExact, InLock, Locked, LockOf, Locks, Writing, Rebuilding, Tables
<1>6. NoOrphanAudit'
  BY DEF TypeOK, Writing, NoOrphanAudit, Tables
<1>7. RebuildIsComplete'
  BY DEF TypeOK, Route, Rebuilding, RebuildIsComplete, Tables
<1> QED BY <1>1, <1>2, <1>3, <1>4, <1>5, <1>6, <1>7

\* Every step preserves the invariant.
LEMMA StepIInv == IInv /\ [Next]_vars => IInv'
<1> SUFFICES ASSUME IInv, [Next]_vars PROVE IInv'
  OBVIOUS
<1>1. CASE UNCHANGED vars
  <2> USE <1>1 DEF vars
  <2>1. TypeOK' /\ Route' /\ Writing'
    BY DEF IInv, TypeOK, Route, Locked, Writing
  <2>2. LocksExact'
    BY DEF IInv, LocksExact, InLock, Locked
  <2>3. Rebuilding' /\ NoOrphanAudit' /\ RebuildIsComplete'
    BY DEF IInv, Rebuilding, NoOrphanAudit, RebuildIsComplete
  <2> QED BY <2>1, <2>2, <2>3 DEF IInv
<1>2. ASSUME NEW p \in Procs, Step(p) PROVE IInv'
  BY <1>2, AcquireKeeps, LockTimeoutKeeps, UnlockKeeps, DropScanKeeps,
     DropTableKeeps, DroppedKeeps, CreateScanKeeps, CreateTableKeeps,
     CreatedKeeps, BackfillKeeps, CountCatalogKeeps, SeedCatalogKeeps,
     DeleteOldKeeps, CountOldKeeps, ReadUserKeeps, InsertAuditKeeps,
     CommitKeeps, FailKeeps DEF Step
<1>3. ASSUME NEW p \in Procs, Crash(p) PROVE IInv'
  BY <1>3, CrashKeeps
<1> QED BY <1>1, <1>2, <1>3 DEF Next

-----------------------------------------------------------------------------
(* Seeding.  A rebuild counts the catalog some statements before it writes; *)
(* among rebuilds what it counted is still so, since they are alone.        *)

NobodySeeds == \A p \in Procs : op[p] # "seed"

\* A rebuild about to seed, or to commit its seed, still finds no row.
SeedsEmpty ==
    NobodySeeds => \A p \in Procs :
        op[p] = "rebuild" /\ pc[p] \in {"seed", "commit"} => rows["catalog"] = {}

Seeding == SeedsEmpty /\ SeededOnce

\* The only step that fills the catalog is the commit of the one rebuild in
\* progress, which found it empty.
LEMMA CommitSeedsOnce ==
    ASSUME IInv, Seeding, NEW p \in Procs, Commit(p)
    PROVE  Seeding'
<1>1. op' = op /\ pc[p] = "commit" /\ pc' = [pc EXCEPT ![p] = IF op[p] = "rebuild" THEN "unlock" ELSE "done"]
  BY DEF Commit, Goto, Finish
<1> SUFFICES ASSUME NobodySeeds
             PROVE  /\ \A q \in Procs : op[q] = "rebuild" /\ pc'[q] \in {"seed", "commit"}
                                              => rows'["catalog"] = {}
                    /\ \A a, b \in rows'["catalog"] : a = b
  BY <1>1 DEF Seeding, SeedsEmpty, SeededOnce, NobodySeeds
<1>2. CASE op[p] = "rebuild"
  <2>1. rows["catalog"] = {}
    BY <1>1, <1>2 DEF Seeding, SeedsEmpty
  <2>2. \A a, b \in rows'["catalog"] : a = b
    BY <1>2, <2>1 DEF Commit, Written, IInv, TypeOK, Tables
  <2>3. ASSUME NEW q \in Procs, op[q] = "rebuild", pc'[q] \in {"seed", "commit"}
        PROVE  FALSE
    <3>1. q # p /\ pc[q] \in {"seed", "commit"}
      BY <1>1, <1>2, <2>3 DEF IInv, TypeOK
    <3>2. InLock(p) /\ InLock(q)
      BY <1>1, <1>2, <2>3, <3>1 DEF InLock, Locked, LockOf
    <3> QED BY <1>2, <2>3, <3>1, <3>2 DEF IInv, LocksExact, Locks, LockOf
  <2> QED BY <2>2, <2>3
<1>3. CASE op[p] # "rebuild"
  <2>1. rows'["catalog"] = rows["catalog"]
    <3>1. op[p] \in {"prune", "use"}
      BY <1>1, <1>3, AdminConstants DEF IInv, TypeOK, Route, NobodySeeds
    <3>2. Written(p)["catalog"] = rows["catalog"]
      BY <3>1 DEF Written, IInv, TypeOK, Tables
    <3> QED BY <3>2 DEF Commit
  <2>2. \A q \in Procs : pc'[q] \in {"seed", "commit"} => pc[q] \in {"seed", "commit"}
    BY <1>1 DEF IInv, TypeOK
  <2>3. \A a, b \in rows["catalog"] : a = b
    BY DEF Seeding, SeededOnce, NobodySeeds
  <2> QED BY <2>1, <2>2, <2>3 DEF Seeding, SeedsEmpty
<1> QED BY <1>2, <1>3

\* Every other statement leaves the catalog alone or empties it, and comes to
\* the seed only through a count that found nothing.
LEMMA SeedingKept == IInv /\ Seeding /\ [Next]_vars => Seeding'
<1> SUFFICES ASSUME IInv, Seeding, [Next]_vars PROVE Seeding'
  OBVIOUS
<1> USE DEF IInv, TypeOK, Tables, NobodySeeds, Seeding, SeedsEmpty, SeededOnce
<1>1. CASE UNCHANGED vars
  BY <1>1 DEF vars
<1>2. ASSUME NEW p \in Procs, Acquire(p) \/ LockTimeout(p) \/ DropScan(p) \/ Dropped(p)
                                \/ CreateScan(p) \/ CreateTable(p) \/ Created(p)
      PROVE  Seeding'
  BY <1>2 DEF Acquire, LockTimeout, DropScan, Dropped, CreateScan, CreateTable, Created,
              Goto, Finish
<1>3. ASSUME NEW p \in Procs, Unlock(p) PROVE Seeding'
  BY <1>3 DEF Unlock, Goto, Finish
<1>4. ASSUME NEW p \in Procs, DropTable(p) PROVE Seeding'
  <2>1. op' = op /\ pc' = pc /\ (rows'["catalog"] = rows["catalog"] \/ rows'["catalog"] = {})
    BY <1>4 DEF DropTable
  <2> QED BY <2>1
<1>5. ASSUME NEW p \in Procs, Backfill(p) \/ CountCatalog(p) \/ SeedCatalog(p)
      PROVE  Seeding'
  BY <1>5 DEF Backfill, CountCatalog, SeedCatalog, Goto, Finish
<1>6. ASSUME NEW p \in Procs, DeleteOld(p) \/ CountOld(p) \/ ReadUser(p) \/ InsertAudit(p)
      PROVE  Seeding'
  BY <1>6 DEF DeleteOld, CountOld, ReadUser, InsertAudit, Route, Goto, Finish
<1>7. ASSUME NEW p \in Procs, Fail(p) \/ Crash(p) PROVE Seeding'
  BY <1>7 DEF Fail, Crash, Goto, Finish
<1> QED
  BY <1>1, <1>2, <1>3, <1>4, <1>5, <1>6, <1>7, CommitSeedsOnce DEF Next, Step

-----------------------------------------------------------------------------
(* The theorems.                                                           *)

\* The invariant holds in every reachable state.
THEOREM AdminInvariance == Spec => []IInv
<1>1. Init => IInv
  BY InitIInv
<1>2. IInv /\ [Next]_vars => IInv'
  BY StepIInv
<1> QED BY <1>1, <1>2, PTL DEF Spec

\* Every variable keeps its type.
THEOREM AdminTypeCorrect == Spec => []TypeOK
<1>1. IInv => TypeOK
  BY DEF IInv
<1> QED BY <1>1, AdminInvariance, PTL

\* operation_lock keeps rebuilds apart, and is never left locked.
THEOREM OneRebuildAtATime == Spec => []RebuildsSerialized
<1>1. IInv => RebuildsSerialized
  BY DEF IInv, LocksExact, RebuildsSerialized, Locks, LockOf
<1> QED BY <1>1, AdminInvariance, PTL

\* A successful demo reset leaves the whole schema and a seeded catalog,
\* whatever runs beside it.
THEOREM ResetIsWhole == Spec => []RebuildIsComplete
<1>1. IInv => RebuildIsComplete
  BY DEF IInv
<1> QED BY <1>1, AdminInvariance, PTL

\* No audit row outlives its user.
THEOREM AuditNamesAUser == Spec => []NoOrphanAudit
<1>1. IInv => NoOrphanAudit
  BY DEF IInv
<1> QED BY <1>1, AdminInvariance, PTL

\* However long the seed of a rebuild takes and wherever one dies, rebuilds
\* insert the starter catalog once.
THEOREM CatalogIsSeededOnce == Spec => []SeededOnce
<1>1. Init => Seeding
  BY DEF Init, Seeding, SeedsEmpty, SeededOnce, NobodySeeds, FirstStep, Tables
<1>2. IInv /\ Seeding /\ [Next]_vars => Seeding'
  BY SeedingKept
<1>3. Seeding => SeededOnce
  BY DEF Seeding
<1> QED BY <1>1, <1>2, <1>3, AdminInvariance, PTL DEF Spec
====
