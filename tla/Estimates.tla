---- MODULE Estimates ----
(***************************************************************************)
(* The calls on one estimate and its line items (service.py), each in an   *)
(* ORM session of its own over SQLite.                                     *)
(*                                                                         *)
(* A session remembers every row it has loaded and never reloads it, so    *)
(* base holds what was read and mem what the handler has made of it.       *)
(* Reads before the first write take no lock and see the latest commit.    *)
(* A flush writes only the columns in which mem and base differ; from the  *)
(* first one to the commit the session is the only writer.  autoflush is   *)
(* off: queries do not see what the handler has not flushed.               *)
(***************************************************************************)
EXTENDS Naturals, FiniteSets

CONSTANTS
    Sessions,  \* one call each; a line added by a call has its name
    Lines0,    \* the lines there at the start
    Prices, Markups, Groups,
    Commands,  \* the calls that may be made
    MaxOpen,   \* how many calls may be in progress at a time
    Priced(_, _), \* recalc_estimate: the total for a markup and line prices
    NoOne, NoRow

LineIds == Sessions \cup Lines0

Statuses == {"draft", "in_progress", "completed", "locked"}

AllCommands ==
    [kind : {"add", "template"}, price : Prices]
    \cup [kind : {"edit"}, line : LineIds, price : Prices]
    \cup [kind : {"remove"}, line : LineIds]
    \cup [kind : {"reorder"}, line : LineIds, index : Nat]
    \cup [kind : {"group"}, group : Groups]
    \cup [kind : {"group_line"}, line : LineIds, group : Groups]
    \cup [kind : {"update"}, markup : Markups]
    \cup [kind : {"status"}, status : Statuses]
    \cup [kind : {"unlock", "recalc", "version", "delete"}]

Line == [price : Prices, order : Nat, group : Groups]

Estimate == [status : Statuses, markup : Markups, version : Nat, total : Nat]

ASSUME EstimateConstants ==
    /\ IsFiniteSet(Sessions) /\ IsFiniteSet(Lines0) /\ Sessions \cap Lines0 = {}
    /\ \A c \in Commands : c \in AllCommands
    /\ MaxOpen \in Nat
    /\ NoOne \notin Sessions /\ NoRow \notin Estimate
    /\ Groups # {}

ASSUME PricingIsDefined ==
    \A m \in Markups, S \in SUBSET LineIds :
        \A price \in [S -> Prices] : Priced(m, price) \in Nat

VARIABLES
    db,      \* the committed estimate row and its lines
    txn,     \* what the writer's transaction sees instead
    writer,
    op, pc,  \* each call and the statement it is about to execute
    base, mem, \* rows as loaded and as the handler left them
    removed, \* lines the session has marked deleted
    outcome,
    alone    \* history: nothing was committed since the call began

vars == <<db, txn, writer, op, pc, base, mem, removed, outcome, alone>>

IsRows(rows) == DOMAIN rows \subseteq LineIds /\ rows \in [DOMAIN rows -> Line]

IsStore(store) ==
    /\ store = [est |-> store.est, lines |-> store.lines]
    /\ store.est \in Estimate \cup {NoRow}
    /\ IsRows(store.lines)

Total(markup, lines) == Priced(markup, [l \in DOMAIN lines |-> lines[l].price])

Consistent(store) ==
    store.est # NoRow => store.est.total = Total(store.est.markup, store.lines)

Open(s) == pc[s] \notin {"idle", "done"}

NoLines == [l \in {} |-> {}]

Empty == [est |-> NoRow, lines |-> NoLines]

\* Lines are numbered from 0 in some order.
Init ==
    /\ \E status \in {"draft", "locked"}, markup \in Markups, group \in Groups,
          price \in [Lines0 -> Prices], order \in [Lines0 -> 0..Cardinality(Lines0)] :
        /\ \A k, l \in Lines0 : k # l => order[k] # order[l]
        /\ \A l \in Lines0 : order[l] < Cardinality(Lines0)
        /\ db = [est |-> [status |-> status, markup |-> markup, version |-> 1,
                          total |-> Priced(markup, price)],
                 lines |-> [l \in Lines0 |->
                    [price |-> price[l], order |-> order[l], group |-> group]]]
    /\ txn = db
    /\ writer = NoOne
    /\ op = [s \in Sessions |-> NoOne]
    /\ pc = [s \in Sessions |-> "idle"]
    /\ base = [s \in Sessions |-> Empty]
    /\ mem = [s \in Sessions |-> Empty]
    /\ removed = [s \in Sessions |-> {}]
    /\ outcome = [s \in Sessions |-> "pending"]
    /\ alone = [s \in Sessions |-> TRUE]

Goto(s, step) == pc' = [pc EXCEPT ![s] = step]

Finish(s, result) ==
    /\ Goto(s, "done")
    /\ outcome' = [outcome EXCEPT ![s] = result]

Begin(s) ==
    /\ pc[s] = "idle"
    /\ Cardinality({t \in Sessions : Open(t)}) < MaxOpen
    /\ \E c \in Commands : op' = [op EXCEPT ![s] = c]
    /\ Goto(s, "load")
    /\ UNCHANGED <<db, txn, writer, base, mem, removed, outcome, alone>>

-----------------------------------------------------------------------------
\* The reads, each of the latest commit.

\* Mutated: the status check is left out of the line handlers.
RefusesOnlyStatus(c, est) ==
    est.status = "locked" /\ c.kind = "status" /\ c.status # "locked"

\* "Estimate is locked."; a status call may only repeat "locked".
RefusesLocked(c, est) ==
    /\ est.status = "locked"
    /\ \/ c.kind \in {"add", "template", "edit", "remove", "reorder", "group", "group_line",
                    "update"}
       \/ c.kind = "status" /\ c.status # "locked"

\* The estimate as the handler of c leaves it before any repricing.
Handled(c, est) ==
    CASE c.kind = "update"  -> [est EXCEPT !.markup = c.markup, !.version = @ + 1]
      [] c.kind = "status"  -> [est EXCEPT !.status = c.status, !.version = @ + 1]
      [] c.kind = "unlock"  -> [est EXCEPT !.status = "in_progress", !.version = @ + 1]
      [] c.kind = "version" -> [est EXCEPT !.version = @ + 1]
      [] OTHER              -> est

AfterLoad(c) ==
    CASE c.kind \in {"status", "unlock"}  -> "commit"
      [] c.kind \in {"recalc", "version"} -> "flush"
      [] OTHER                            -> "read"

\* session.get(Estimate) and the guards on it; create_estimate_version reads
\* the version here, although it writes it after copying the lines.
Load(s) ==
    /\ pc[s] = "load"
    /\ IF db.est = NoRow \/ RefusesLocked(op[s], db.est)
       THEN /\ Finish(s, "rejected")
            /\ UNCHANGED <<base, mem>>
       ELSE /\ Goto(s, AfterLoad(op[s]))
            /\ base' = [base EXCEPT ![s].est = db.est]
            /\ mem' = [mem EXCEPT ![s].est = Handled(op[s], db.est)]
            /\ UNCHANGED outcome
    /\ alone' = [alone EXCEPT ![s] = TRUE]
    /\ UNCHANGED <<db, txn, writer, op, removed>>

\* _line_select: positions by sort_order; rows that tie come in any order.
Positions(lines) ==
    {f \in [DOMAIN lines -> 0..Cardinality(DOMAIN lines)] :
        /\ \A l \in DOMAIN lines : f[l] < Cardinality(DOMAIN lines)
        /\ \A k, l \in DOMAIN lines :
            /\ k # l => f[k] # f[l]
            /\ lines[k].order < lines[l].order => f[k] < f[l]}

\* Mutated: the line is inserted at its new index before it is taken out.
ShiftedBeforeRemoval(p, from, to) ==
    IF p = from THEN to ELSE IF p >= to THEN p + 1 ELSE p

\* The position of a line once another has moved from one index to the next.
Shifted(p, from, to) ==
    LET q == IF p > from THEN p - 1 ELSE p
    IN  IF p = from THEN to ELSE IF q >= to THEN q + 1 ELSE q

\* The handler has read these lines and leaves them like this.
ReadLines(s, lines, changed) ==
    /\ base' = [base EXCEPT ![s].lines = lines]
    /\ mem' = [mem EXCEPT ![s].lines = changed]

AddLine(s) ==
    /\ op[s].kind \in {"add", "template"}
    /\ \E group \in Groups :
        mem' = [mem EXCEPT ![s].lines =
            [l \in {s} |-> [price |-> op[s].price, group |-> group,
                order |-> IF op[s].kind = "add" THEN Cardinality(DOMAIN db.lines) ELSE 0]]]
    /\ UNCHANGED <<base, removed>>

EditLine(s) ==
    /\ op[s].kind = "edit"
    /\ op[s].line \in DOMAIN db.lines
    /\ LET row == db.lines[op[s].line]
       IN  ReadLines(s, [l \in {op[s].line} |-> row],
                        [l \in {op[s].line} |-> [row EXCEPT !.price = op[s].price]])
    /\ UNCHANGED removed

\* The deleted line is still among the "remaining" ones that are renumbered:
\* its delete has not been flushed.
RemoveLine(s) ==
    /\ op[s].kind = "remove"
    /\ op[s].line \in DOMAIN db.lines
    /\ \E f \in Positions(db.lines) :
        ReadLines(s, db.lines,
            [l \in DOMAIN db.lines |-> [db.lines[l] EXCEPT !.order = f[l]]])
    /\ removed' = [removed EXCEPT ![s] = {op[s].line}]

ReorderLine(s) ==
    /\ op[s].kind = "reorder"
    /\ op[s].line \in DOMAIN db.lines
    /\ \E f \in Positions(db.lines) :
        LET last == Cardinality(DOMAIN db.lines) - 1
            to == IF op[s].index < last THEN op[s].index ELSE last
        IN  ReadLines(s, db.lines, [l \in DOMAIN db.lines |->
                [db.lines[l] EXCEPT !.order = Shifted(f[l], f[op[s].line], to)]])
    /\ UNCHANGED removed

\* group_line_item without one: every line.
GroupLines(s) ==
    /\ op[s].kind = "group"
    /\ ReadLines(s, db.lines,
            [l \in DOMAIN db.lines |-> [db.lines[l] EXCEPT !.group = op[s].group]])
    /\ UNCHANGED removed

\* group_line_item with a line_item_id.
GroupLine(s) ==
    /\ op[s].kind = "group_line"
    /\ op[s].line \in DOMAIN db.lines
    /\ LET row == db.lines[op[s].line]
       IN  ReadLines(s, [l \in {op[s].line} |-> row],
                        [l \in {op[s].line} |-> [row EXCEPT !.group = op[s].group]])
    /\ UNCHANGED removed

\* update_estimate loads the lines to set their labour rates.
RateLines(s) ==
    /\ op[s].kind = "update"
    /\ ReadLines(s, db.lines, db.lines)
    /\ UNCHANGED removed

\* session.delete(est) loads the lines it will cascade to.
CascadeDelete(s) ==
    /\ op[s].kind = "delete"
    /\ ReadLines(s, db.lines, db.lines)
    /\ removed' = [removed EXCEPT ![s] = DOMAIN db.lines]

ReadStep(s) ==
    /\ pc[s] = "read"
    /\ \/ AddLine(s) \/ EditLine(s) \/ RemoveLine(s) \/ ReorderLine(s)
       \/ GroupLines(s) \/ GroupLine(s) \/ RateLines(s) \/ CascadeDelete(s)
    /\ Goto(s, IF op[s].kind = "delete" THEN "commit" ELSE "flush")
    /\ UNCHANGED <<db, txn, writer, op, outcome, alone>>

\* "Line item not found."
LineNotFound(s) ==
    /\ pc[s] = "read"
    /\ op[s].kind \in {"edit", "remove", "reorder", "group_line"}
    /\ op[s].line \notin DOMAIN db.lines
    /\ Finish(s, "rejected")
    /\ UNCHANGED <<db, txn, writer, op, base, mem, removed, alone>>

-----------------------------------------------------------------------------
\* The flush: the store as the session sees it, and what it writes.

Seen(s) == IF writer = s THEN txn ELSE db

Added(s) == DOMAIN mem[s].lines \ DOMAIN base[s].lines

ChangedLines(s) ==
    {l \in DOMAIN base[s].lines \ removed[s] : mem[s].lines[l] # base[s].lines[l]}

EstimateChanged(s) == mem[s].est # base[s].est

\* Columns that differ are written, the others keep the stored value.
Merged(new, old, stored) ==
    [c \in DOMAIN stored |-> IF new[c] # old[c] THEN new[c] ELSE stored[c]]

\* Mutated: every remembered line is written back, as a merge would.
WrittenWhole(s) ==
    LET store == Seen(s)
    IN  [est |-> IF op[s].kind = "delete" \/ store.est = NoRow THEN NoRow
                 ELSE Merged(mem[s].est, base[s].est, store.est),
         lines |-> [l \in (DOMAIN store.lines \cup DOMAIN mem[s].lines) \ removed[s] |->
             IF l \in DOMAIN mem[s].lines THEN mem[s].lines[l] ELSE store.lines[l]]]

\* What the store becomes.
Written(s) ==
    LET store == Seen(s)
    IN  [est |-> IF op[s].kind = "delete" \/ store.est = NoRow THEN NoRow
                 ELSE Merged(mem[s].est, base[s].est, store.est),
         lines |-> [l \in (DOMAIN store.lines \ removed[s]) \cup Added(s) |->
             IF l \in Added(s) THEN mem[s].lines[l]
             ELSE IF l \in ChangedLines(s)
             THEN Merged(mem[s].lines[l], base[s].lines[l], store.lines[l])
             ELSE store.lines[l]]]

\* Mutated: foreign_keys left OFF.
AcceptedUnchecked(s) ==
    /\ EstimateChanged(s) => Seen(s).est # NoRow
    /\ ChangedLines(s) \subseteq DOMAIN Seen(s).lines

\* An UPDATE that finds no row raises StaleDataError; a line needs its
\* estimate, and an estimate goes only without lines (foreign keys are ON).
Accepted(s) ==
    /\ EstimateChanged(s) => Seen(s).est # NoRow
    /\ ChangedLines(s) \subseteq DOMAIN Seen(s).lines
    /\ Added(s) # {} => Seen(s).est # NoRow
    /\ op[s].kind = "delete" => DOMAIN Seen(s).lines \subseteq removed[s]

Granted(s) == writer \in {NoOne, s}

\* A copy of the estimate is inserted before its version is.
Writes(s) ==
    \/ EstimateChanged(s) \/ ChangedLines(s) # {} \/ Added(s) # {}
    \/ removed[s] # {} \/ op[s].kind = "version"

\* Mutated: recalc_estimate does not flush before it prices.
FlushNothing(s) ==
    /\ pc[s] = "flush"
    /\ Goto(s, IF op[s].kind = "version" THEN "commit" ELSE "price")
    /\ UNCHANGED <<db, txn, writer, op, base, mem, removed, outcome, alone>>

\* session.flush() at the start of recalc_estimate.
Flush(s) ==
    /\ pc[s] = "flush"
    /\ Goto(s, IF op[s].kind = "version" THEN "commit" ELSE "price")
    /\ IF Writes(s)
       THEN /\ Granted(s) /\ Accepted(s)
            /\ writer' = s
            /\ txn' = Written(s)
            /\ base' = [base EXCEPT ![s] = mem[s]]
       ELSE UNCHANGED <<txn, writer, base>>
    /\ UNCHANGED <<db, op, mem, removed, outcome, alone>>

\* The pricing loop: rows already loaded keep their remembered values.
Price(s) ==
    /\ pc[s] = "price"
    /\ LET rows == Seen(s).lines
           known == [l \in DOMAIN rows |->
               IF l \in DOMAIN mem[s].lines THEN mem[s].lines[l] ELSE rows[l]]
       IN  mem' = [mem EXCEPT ![s].est.total = Total(mem[s].est.markup, known)]
    /\ Goto(s, "commit")
    /\ UNCHANGED <<db, txn, writer, op, base, removed, outcome, alone>>

\* session.commit(): the last flush, which always has an audit row to insert.
Commit(s) ==
    /\ pc[s] = "commit"
    /\ Granted(s) /\ Accepted(s)
    /\ db' = Written(s)
    /\ txn' = Written(s)
    /\ writer' = NoOne
    /\ alone' = [t \in Sessions |-> alone[t] /\ (t = s \/ ~Open(t))]
    /\ Finish(s, "ok")
    /\ UNCHANGED <<op, base, mem, removed>>

Needs(s) ==
    \/ pc[s] = "flush" /\ Writes(s)
    \/ pc[s] = "commit"

\* A flush is refused or waits in vain for the write lock: rollback, 500.
Fail(s) ==
    /\ Needs(s)
    /\ ~(Granted(s) /\ Accepted(s))
    /\ writer' = IF writer = s THEN NoOne ELSE writer
    /\ Finish(s, "failed")
    /\ UNCHANGED <<db, txn, op, base, mem, removed, alone>>

Step(s) ==
    \/ Load(s) \/ ReadStep(s) \/ LineNotFound(s)
    \/ Flush(s) \/ Price(s) \/ Commit(s) \/ Fail(s)

Next == \E s \in Sessions : Begin(s) \/ Step(s)

Spec == Init /\ [][Next]_vars

-----------------------------------------------------------------------------
\* Every variable keeps its type.
TypeOK ==
    /\ IsStore(db) /\ IsStore(txn)
    /\ writer \in Sessions \cup {NoOne}
    /\ op \in [Sessions -> Commands \cup {NoOne}]
    /\ pc \in [Sessions -> {"idle", "load", "read", "flush", "price", "commit", "done"}]
    /\ DOMAIN base = Sessions /\ DOMAIN mem = Sessions
    /\ \A s \in Sessions : IsStore(base[s]) /\ IsStore(mem[s])
    /\ removed \in [Sessions -> SUBSET LineIds]
    /\ outcome \in [Sessions -> {"pending", "ok", "rejected", "failed"}]
    /\ alone \in [Sessions -> BOOLEAN]

\* No line outlives its estimate, although a call may insert one after
\* another has deleted the estimate it read.
NoOrphanLines == db.est = NoRow => db.lines = NoLines

\* An acknowledged change of the set of lines stays: a line a client was told
\* it added is there until someone removes it or its estimate, and a line it
\* was told is gone is not brought back by a session that still remembers it.
AcknowledgedLines ==
    \A s \in Sessions : outcome[s] = "ok" =>
        /\ op[s].kind \in {"add", "template"} =>
            \/ s \in DOMAIN db.lines
            \/ \E t \in Sessions : outcome[t] = "ok" /\ s \in removed[t]
        /\ removed[s] \cap DOMAIN db.lines = {}

Commits(s) == pc[s] = "commit" /\ outcome'[s] = "ok" /\ outcome[s] = "pending"

Reprices(c) ==
    c.kind \in {"add", "template", "edit", "remove", "reorder", "group", "group_line", "update",
               "recalc"}

\* Only overlapping commits can make a total stale: a repricing call during
\* which nothing else was committed leaves the total of exactly the rows it
\* leaves, whatever stale total it found.
UndisturbedTotalIsRight ==
    [][\A s \in Sessions : Commits(s) /\ alone[s] /\ Reprices(op[s]) => Consistent(db')]_vars

\* Only a call that overlapped the locking can change a locked estimate: it
\* is otherwise changed by nothing but its deletion.
LockHoldsUndisturbed ==
    [][\A s \in Sessions :
        Commits(s) /\ alone[s] /\ db.est # NoRow /\ db'.est # NoRow
        /\ db.est.status = "locked" /\ db'.est.status = "locked"
        => db'.lines = db.lines /\ db'.est.markup = db.est.markup]_vars

\* However gapped or tied the line numbers were (a removal leaves a gap, a
\* template a tie), an undisturbed reorder numbers the lines 0..n-1 again and
\* puts its line at the index it was given, or last.
ReorderRestoresPositions ==
    [][\A s \in Sessions : Commits(s) /\ alone[s] /\ op[s].kind = "reorder" =>
        LET n == Cardinality(DOMAIN db'.lines)
        IN  /\ {db'.lines[l].order : l \in DOMAIN db'.lines} = 0..(n - 1)
            /\ db'.lines[op[s].line].order =
                IF op[s].index < n THEN op[s].index ELSE n - 1]_vars

\* ARCHITECTURE "Totals are deterministic": when no call is in progress the
\* stored total is the total of the stored lines.
TotalsMatch == (\A s \in Sessions : ~Open(s)) => Consistent(db)
====
