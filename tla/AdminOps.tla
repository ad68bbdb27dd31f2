---- MODULE AdminOps ----
(***************************************************************************)
(* The maintenance operations on one SQLite file, run by API workers and   *)
(* CLI processes side by side with ordinary user requests:                 *)
(* rebuild (POST /admin/demo-reset, "db reset"), prune (POST               *)
(* /admin/audit-prune), migrate (startup, POST /db/migrate), seed (POST    *)
(* /db/seed) and use, any user request that reads its user and writes an   *)
(* audit row.                                                              *)
(*                                                                         *)
(* Every DDL statement commits by itself, so a rebuild is a sequence of    *)
(* visible steps.  operation_lock keeps calls of the same kind apart, and  *)
(* only calls of the same kind: rebuild and prune name different files,    *)
(* migrate, seed and use take no lock.                                     *)
(***************************************************************************)
EXTENDS Naturals

CONSTANTS
    Procs,   \* one operation each
    Ops,     \* the operations of this run
    Origin,  \* the author of the rows that were there before
    NoOne

ASSUME AdminConstants ==
    /\ Ops \subseteq {"rebuild", "prune", "migrate", "seed", "use"}
    /\ Origin \notin Procs /\ NoOne \notin Procs

\* "catalog" stands for the node and item tables, "users" for the users and
\* the tables of what they own.  "audit_events", which references users too, is
\* apart: the schema migrations leave it alone.
Tables == {"catalog", "users", "audit_events"}

VARIABLES
    op,      \* what each process was asked to do
    pc,      \* the statement it is about to execute
    todo,    \* tables left to drop or create: checked once, beforehand
    tables,  \* the tables that exist
    rows,    \* their committed rows, each named by the process that wrote it
    held,    \* lock file -> the process holding its flock
    writer,  \* the process inside a write transaction
    outcome

vars == <<op, pc, todo, tables, rows, held, writer, outcome>>

Locks == {"admin-db-rebuild", "admin-audit-prune"}

LockOf == [o \in {"rebuild", "prune"} |->
               IF o = "rebuild" THEN "admin-db-rebuild" ELSE "admin-audit-prune"]

Locked(p) == op[p] \in DOMAIN LockOf

Steps ==
    {"acquire", "drop-scan", "drop", "create-scan", "create", "backfill",
     "count", "seed", "delete", "read", "audit", "commit", "unlock", "done"}

FirstStep(o) ==
    CASE o \in {"rebuild", "prune"} -> "acquire"
      [] o = "migrate" -> "create-scan"
      [] o = "seed"    -> "count"
      [] o = "use"     -> "read"

Init ==
    /\ op \in [Procs -> Ops]
    /\ pc = [p \in Procs |-> FirstStep(op[p])]
    /\ todo = [p \in Procs |-> {}]
    /\ \/ tables = Tables /\ rows = [t \in Tables |-> {Origin}]
       \/ tables = {} /\ rows = [t \in Tables |-> {}]
    /\ held = [l \in Locks |-> NoOne]
    /\ writer = NoOne
    /\ outcome = [p \in Procs |-> "pending"]

Goto(p, step) == pc' = [pc EXCEPT ![p] = step]

Finish(p, result) ==
    /\ Goto(p, "done")
    /\ outcome' = [outcome EXCEPT ![p] = result]

\* The transaction of p, if it has one, is over.
EndTransaction(p) == writer' = IF writer = p THEN NoOne ELSE writer

\* The finally clause of operation_lock, or the kernel when p dies.
ReleaseLocks(p) == held' = [l \in Locks |-> IF held[l] = p THEN NoOne ELSE held[l]]

-----------------------------------------------------------------------------
\* operation_lock polls a non-blocking flock until its deadline.

\* Mutated: a failed flock counts as success.
AcquireAlways(p) ==
    /\ pc[p] = "acquire"
    /\ held' = [held EXCEPT ![LockOf[op[p]]] = p]
    /\ Goto(p, IF op[p] = "rebuild" THEN "drop-scan" ELSE "delete")
    /\ UNCHANGED <<op, todo, tables, rows, writer, outcome>>

Acquire(p) ==
    /\ pc[p] = "acquire"
    /\ held[LockOf[op[p]]] = NoOne
    /\ held' = [held EXCEPT ![LockOf[op[p]]] = p]
    /\ Goto(p, IF op[p] = "rebuild" THEN "drop-scan" ELSE "delete")
    /\ UNCHANGED <<op, todo, tables, rows, writer, outcome>>

\* OperationLockTimeoutError, answered 409.
LockTimeout(p) ==
    /\ pc[p] = "acquire"
    /\ held[LockOf[op[p]]] # NoOne
    /\ Finish(p, "conflict")
    /\ UNCHANGED <<op, todo, tables, rows, held, writer>>

\* A rebuild has committed by now; a prune's session commits afterwards.
Unlock(p) ==
    /\ pc[p] = "unlock"
    /\ ReleaseLocks(p)
    /\ IF op[p] = "rebuild" THEN Finish(p, "ok")
       ELSE Goto(p, "commit") /\ UNCHANGED outcome
    /\ UNCHANGED <<op, todo, tables, rows, writer>>

-----------------------------------------------------------------------------
\* drop_all and create_all decide once which tables to touch (checkfirst)
\* and then issue a plain DROP or CREATE for each, children dropped first.

Rank == [t \in Tables |->
            CASE t = "catalog" -> 1 [] t = "users" -> 2 [] t = "audit_events" -> 3]

DropScan(p) ==
    /\ pc[p] = "drop-scan"
    /\ todo' = [todo EXCEPT ![p] = tables]
    /\ Goto(p, "drop")
    /\ UNCHANGED <<op, tables, rows, held, writer, outcome>>

\* DROP TABLE deletes the rows first, so it fails if a child row refers to one.
CanDrop(t) ==
    /\ writer = NoOne
    /\ t \in tables
    /\ t = "users" => rows["audit_events"] = {}

LastOf(S, t) == t \in S /\ \A u \in S : Rank[u] <= Rank[t]

DropTable(p) ==
    /\ pc[p] = "drop"
    /\ \E t \in Tables :
        /\ LastOf(todo[p], t)
        /\ CanDrop(t)
        /\ tables' = tables \ {t}
        /\ rows' = [rows EXCEPT ![t] = {}]
        /\ todo' = [todo EXCEPT ![p] = @ \ {t}]
    /\ UNCHANGED <<op, pc, held, writer, outcome>>

Dropped(p) ==
    /\ pc[p] = "drop"
    /\ todo[p] = {}
    /\ Goto(p, "create-scan")
    /\ UNCHANGED <<op, todo, tables, rows, held, writer, outcome>>

CreateScan(p) ==
    /\ pc[p] = "create-scan"
    /\ todo' = [todo EXCEPT ![p] = Tables \ tables]
    /\ Goto(p, "create")
    /\ UNCHANGED <<op, tables, rows, held, writer, outcome>>

FirstOf(S, t) == t \in S /\ \A u \in S : Rank[t] <= Rank[u]

\* The checkfirst scan is over: a table created since makes CREATE fail.
CanCreate(t) == writer = NoOne /\ t \notin tables

CreateTable(p) ==
    /\ pc[p] = "create"
    /\ \E t \in Tables :
        /\ FirstOf(todo[p], t)
        /\ CanCreate(t)
        /\ tables' = tables \cup {t}
        /\ todo' = [todo EXCEPT ![p] = @ \ {t}]
    /\ UNCHANGED <<op, pc, rows, held, writer, outcome>>

Created(p) ==
    /\ pc[p] = "create"
    /\ todo[p] = {}
    /\ Goto(p, "backfill")
    /\ UNCHANGED <<op, todo, tables, rows, held, writer, outcome>>

\* _run_sqlite_schema_migrations updates users, alters the catalog's items and
\* indexes the billing tables.
CanBackfill == writer = NoOne /\ {"catalog", "users"} \subseteq tables

Backfill(p) ==
    /\ pc[p] = "backfill"
    /\ CanBackfill
    /\ IF op[p] = "rebuild" THEN Goto(p, "count") /\ UNCHANGED outcome
       ELSE Finish(p, "ok")
    /\ UNCHANGED <<op, todo, tables, rows, held, writer>>

-----------------------------------------------------------------------------
\* Transactions.  Reads take no lock; the first write takes SQLite's one
\* write lock and keeps it to the commit.

CanWrite(t) == writer = NoOne /\ t \in tables

\* seed_catalog: nothing to do when the catalog has a row.
CountCatalog(p) ==
    /\ pc[p] = "count"
    /\ "catalog" \in tables
    /\ IF rows["catalog"] = {} THEN Goto(p, "seed") /\ UNCHANGED outcome
       ELSE IF op[p] = "rebuild" THEN Goto(p, "unlock") /\ UNCHANGED outcome
       ELSE Finish(p, "ok")
    /\ UNCHANGED <<op, todo, tables, rows, held, writer>>

SeedCatalog(p) ==
    /\ pc[p] = "seed"
    /\ CanWrite("catalog")
    /\ writer' = p
    /\ Goto(p, "commit")
    /\ UNCHANGED <<op, todo, tables, rows, held, outcome>>

\* prune_audit_events: DELETE of the old rows.
DeleteOld(p) ==
    /\ pc[p] = "delete"
    /\ CanWrite("audit_events")
    /\ writer' = p
    /\ Goto(p, "unlock")
    /\ UNCHANGED <<op, todo, tables, rows, held, outcome>>

\* prune_audit_events, dry_run: only counts them.
CountOld(p) ==
    /\ pc[p] = "delete"
    /\ "audit_events" \in tables
    /\ Goto(p, "unlock")
    /\ UNCHANGED <<op, todo, tables, rows, held, writer, outcome>>

\* _require_user; the user may be gone: 400.
ReadUser(p) ==
    /\ pc[p] = "read"
    /\ "users" \in tables
    /\ IF rows["users"] # {} THEN Goto(p, "audit") /\ UNCHANGED outcome
       ELSE Finish(p, "rejected")
    /\ UNCHANGED <<op, todo, tables, rows, held, writer>>

\* Mutated: foreign_keys left OFF, SQLite's default.
CanAuditUnchecked == CanWrite("audit_events")

\* PRAGMA foreign_keys=ON: the user must still be there.
CanAudit == CanWrite("audit_events") /\ rows["users"] # {}

InsertAudit(p) ==
    /\ pc[p] = "audit"
    /\ CanAudit
    /\ writer' = p
    /\ Goto(p, "commit")
    /\ UNCHANGED <<op, todo, tables, rows, held, outcome>>

\* Mutated: the session that seeds the catalog is closed without a commit.
WrittenWithoutSeed(p) ==
    CASE op[p] = "prune" -> [rows EXCEPT !["audit_events"] = @ \ {Origin}]
      [] op[p] = "use"   -> [rows EXCEPT !["audit_events"] = @ \cup {p}]
      [] OTHER           -> rows

\* The rows as the transaction of p leaves them.
Written(p) ==
    CASE op[p] = "prune" -> [rows EXCEPT !["audit_events"] = @ \ {Origin}]
      [] op[p] = "use"   -> [rows EXCEPT !["audit_events"] = @ \cup {p}]
      [] OTHER           -> [rows EXCEPT !["catalog"] = @ \cup {p}]

Commit(p) ==
    /\ pc[p] = "commit"
    /\ rows' = IF writer = p THEN Written(p) ELSE rows
    /\ EndTransaction(p)
    /\ IF op[p] = "rebuild" THEN Goto(p, "unlock") /\ UNCHANGED outcome
       ELSE Finish(p, "ok")
    /\ UNCHANGED <<op, todo, tables, held>>

-----------------------------------------------------------------------------
\* The statement p is about to execute raises: its table is missing or in
\* the way, a foreign key fails, or busy_timeout expires on the write lock.
CannotRun(p) ==
    \/ pc[p] = "drop"     /\ \E t \in Tables : LastOf(todo[p], t) /\ ~CanDrop(t)
    \/ pc[p] = "create"   /\ \E t \in Tables : FirstOf(todo[p], t) /\ ~CanCreate(t)
    \/ pc[p] = "backfill" /\ ~CanBackfill
    \/ pc[p] = "count"    /\ "catalog" \notin tables
    \/ pc[p] = "seed"     /\ ~CanWrite("catalog")
    \/ pc[p] = "delete"   /\ ~CanWrite("audit_events")
    \/ pc[p] = "read"     /\ "users" \notin tables
    \/ pc[p] = "audit"    /\ ~CanAudit

\* Mutated: operation_lock without its finally clause.
FailKeepsLock(p) ==
    /\ CannotRun(p)
    /\ EndTransaction(p)
    /\ Finish(p, "failed")
    /\ UNCHANGED <<op, todo, tables, rows, held>>

\* Rollback, then the finally clause: 500.
Fail(p) ==
    /\ CannotRun(p)
    /\ EndTransaction(p)
    /\ ReleaseLocks(p)
    /\ Finish(p, "failed")
    /\ UNCHANGED <<op, todo, tables, rows>>

\* The process dies: SQLite forgets its transaction, the kernel its flock.
Crash(p) ==
    /\ pc[p] # "done"
    /\ EndTransaction(p)
    /\ ReleaseLocks(p)
    /\ Finish(p, "lost")
    /\ UNCHANGED <<op, todo, tables, rows>>

Step(p) ==
    \/ Acquire(p) \/ LockTimeout(p) \/ Unlock(p)
    \/ DropScan(p) \/ DropTable(p) \/ Dropped(p)
    \/ CreateScan(p) \/ CreateTable(p) \/ Created(p) \/ Backfill(p)
    \/ CountCatalog(p) \/ SeedCatalog(p)
    \/ DeleteOld(p) \/ CountOld(p)
    \/ ReadUser(p) \/ InsertAudit(p)
    \/ Commit(p) \/ Fail(p)

Next == \E p \in Procs : Step(p) \/ Crash(p)

Spec == Init /\ [][Next]_vars

\* The operating system runs every live process.
FairSpec == Spec /\ \A p \in Procs : WF_vars(Step(p))

-----------------------------------------------------------------------------
\* Every variable keeps its type.
TypeOK ==
    /\ op \in [Procs -> Ops]
    /\ pc \in [Procs -> Steps]
    /\ todo \in [Procs -> SUBSET Tables]
    /\ tables \in SUBSET Tables
    /\ rows \in [Tables -> SUBSET (Procs \cup {Origin})]
    /\ held \in [Locks -> Procs \cup {NoOne}]
    /\ writer \in Procs \cup {NoOne}
    /\ outcome \in
        [Procs -> {"pending", "ok", "conflict", "failed", "rejected", "lost"}]

\* p is between taking its lock and giving it up.
InLock(p) ==
    /\ Locked(p)
    /\ pc[p] \notin {"acquire", "done"}
    /\ op[p] = "prune" => pc[p] # "commit"

\* Two rebuilds never run between each other's statements, whatever crashes
\* or fails, and a lock is held exactly by the process inside its section.
RebuildsSerialized ==
    /\ \A p, q \in Procs :
        InLock(p) /\ InLock(q) /\ op[p] = "rebuild" /\ op[q] = "rebuild" => p = q
    /\ \A l \in Locks, p \in Procs : held[l] = p <=> InLock(p) /\ LockOf[op[p]] = l

\* Among rebuilds alone the starter catalog is never inserted twice, although
\* seed_catalog counts the rows long before it inserts its own: the file lock
\* covers both.  (POST /db/seed takes no lock and can insert it again.)
SeededOnce ==
    (\A p \in Procs : op[p] # "seed") => \A p, q \in rows["catalog"] : p = q

\* When every rebuild so far has answered 200 or 409 and none is running, the
\* database is whole: all tables exist and the catalog is seeded.
RebuildIsComplete ==
    /\ \E p \in Procs : op[p] = "rebuild" /\ outcome[p] = "ok"
    /\ \A p \in Procs : op[p] = "rebuild" =>
        pc[p] = "acquire" \/ outcome[p] \in {"ok", "conflict"}
    => tables = Tables /\ rows["catalog"] # {}

\* No audit row outlives the user it names, although users vanish under
\* requests that have already read them.
NoOrphanAudit == rows["audit_events"] # {} => rows["users"] # {}

\* Every operation ends, and gives up its lock and its transaction.
EveryOperationEnds ==
    \A p \in Procs : <>(pc[p] = "done" /\ writer # p /\ \A l \in Locks : held[l] # p)
====
