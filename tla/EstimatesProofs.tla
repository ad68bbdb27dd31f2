---- MODULE EstimatesProofs ----
(***************************************************************************)
(* Proofs about Estimates, for any pricing and any number of calls and     *)
(* lines: whatever overlaps, the store keeps its type, no line is left     *)
(* without its estimate, and acknowledged lines stay.                      *)
(***************************************************************************)
EXTENDS Estimates, FiniteSetTheorems, TLAPS

IsAdd(s) == op[s].kind \in {"add", "template"}

NoOrphan(store) == store.est = NoRow => store.lines = NoLines

\* Lines that the store may have: a client was told of them.
Acked == Lines0 \cup {s \in Sessions : outcome[s] = "ok" /\ IsAdd(s)}

\* What a session holds at each statement.
ShapeOf(s) ==
    /\ pc[s] # "idle" => op[s] \in Commands
    /\ outcome[s] # "pending" => pc[s] = "done"
    /\ pc[s] \in {"read", "flush", "price", "commit"} =>
        base[s].est \in Estimate /\ mem[s].est \in Estimate
    /\ pc[s] \in {"idle", "load", "read"} =>
        removed[s] = {} /\ base[s].lines = NoLines /\ mem[s].lines = NoLines
    /\ DOMAIN base[s].lines \subseteq DOMAIN mem[s].lines
    /\ DOMAIN mem[s].lines \subseteq DOMAIN base[s].lines \cup {s}
    /\ pc[s] \in {"flush", "price"} => op[s].kind # "delete"
    /\ s \in DOMAIN mem[s].lines => IsAdd(s)
    /\ IsAdd(s) /\ pc[s] \in {"flush", "price", "commit"} => s \in DOMAIN mem[s].lines
    /\ removed[s] \subseteq Acked

Shape == \A s \in Sessions : ShapeOf(s)

\* What the writer's transaction is to the store.
Transaction ==
    /\ \A s \in Sessions : writer = s => pc[s] \in {"price", "commit"}
    /\ \A s \in Sessions : s \in DOMAIN base[s].lines /\ pc[s] # "done" => writer = s
    /\ writer # NoOne =>
        /\ NoOrphan(txn)
        /\ DOMAIN txn.lines \subseteq DOMAIN db.lines \cup {writer}
        /\ DOMAIN db.lines \ removed[writer] \subseteq DOMAIN txn.lines
        /\ writer \in DOMAIN base[writer].lines => writer \in DOMAIN txn.lines
        /\ writer \in DOMAIN txn.lines => IsAdd(writer)

IInv ==
    /\ TypeOK /\ Shape /\ Transaction
    /\ NoOrphanLines /\ AcknowledgedLines /\ DOMAIN db.lines \subseteq Acked

-----------------------------------------------------------------------------
\* What the fields of a command are.
LEMMA CommandFields ==
    ASSUME NEW c \in Commands
    PROVE  /\ c.kind \in {"add", "template", "edit", "remove", "reorder", "group",
                          "group_line", "update", "status", "unlock", "recalc", "version", "delete"}
           /\ c.kind \in {"add", "template", "edit"} => c.price \in Prices
           /\ c.kind \in {"edit", "remove", "reorder", "group_line"} => c.line \in LineIds
           /\ c.kind = "reorder" => c.index \in Nat
           /\ c.kind \in {"group", "group_line"} => c.group \in Groups
           /\ c.kind = "update" => c.markup \in Markups
           /\ c.kind = "status" => c.status \in Statuses
<1>1. c \in AllCommands
  BY EstimateConstants
<1> QED
  BY <1>1 DEF AllCommands

\* Stores are built from a row and rows.
LEMMA StoreParts ==
    ASSUME NEW e \in Estimate \cup {NoRow}, NEW r, IsRows(r)
    PROVE  IsStore([est |-> e, lines |-> r])
BY DEF IsStore

\* Lines by their ids are rows.
LEMMA RowsByLine ==
    ASSUME NEW S \in SUBSET LineIds, NEW f \in [S -> Line]
    PROVE  IsRows(f) /\ DOMAIN f = S
BY DEF IsRows

\* The markers' rows: no lines, and nothing read.
LEMMA EmptyStore == IsRows(NoLines) /\ DOMAIN NoLines = {} /\ IsStore(Empty)
BY DEF IsRows, NoLines, IsStore, Empty

\* A column-wise merge of rows is a row.
LEMMA MergedEstimate ==
    ASSUME NEW a \in Estimate, NEW b \in Estimate, NEW c \in Estimate
    PROVE  Merged(a, b, c) \in Estimate
<1>1. /\ c = [status |-> c.status, markup |-> c.markup, version |-> c.version, total |-> c.total]
      /\ DOMAIN c = {"status", "markup", "version", "total"}
  BY DEF Estimate
<1>2. /\ \A x \in {a, b, c} : x.status \in Statuses /\ x.markup \in Markups
      /\ \A x \in {a, b, c} : x.version \in Nat /\ x.total \in Nat
  BY DEF Estimate
<1> DEFINE pick(k) == IF a[k] # b[k] THEN a[k] ELSE c[k]
<1>3. /\ pick("status") \in Statuses /\ pick("markup") \in Markups
      /\ pick("version") \in Nat /\ pick("total") \in Nat
  BY <1>2
<1>4. Merged(a, b, c) = [k \in {"status", "markup", "version", "total"} |-> pick(k)]
  BY <1>1 DEF Merged
<1> HIDE DEF pick
<1>5. [k \in {"status", "markup", "version", "total"} |-> pick(k)]
        \in [status : Statuses, markup : Markups, version : Nat, total : Nat]
  BY <1>3
<1> QED
  BY <1>4, <1>5 DEF Estimate

\* So does the flush of a line.
LEMMA MergedLine ==
    ASSUME NEW a \in Line, NEW b \in Line, NEW c \in Line
    PROVE  Merged(a, b, c) \in Line
BY DEF Merged, Line

\* The handlers keep the type of the estimate.
LEMMA HandledEstimate ==
    ASSUME NEW c \in Commands, NEW e \in Estimate
    PROVE  Handled(c, e) \in Estimate
<1>1. /\ e = [status |-> e.status, markup |-> e.markup, version |-> e.version, total |-> e.total]
      /\ e.status \in Statuses /\ e.markup \in Markups
      /\ e.version \in Nat /\ e.version + 1 \in Nat /\ e.total \in Nat
  BY DEF Estimate
<1> DEFINE made(st, mk) == [status |-> st, markup |-> mk, version |-> e.version + 1, total |-> e.total]
<1>2. ASSUME NEW st \in Statuses, NEW mk \in Markups PROVE made(st, mk) \in Estimate
  BY <1>1 DEF Estimate
<1>3. CASE c.kind = "update"
  <2>1. Handled(c, e) = made(e.status, c.markup)
    BY <1>1, <1>3 DEF Handled
  <2> QED
    BY <1>1, <1>2, <1>3, <2>1, CommandFields
<1>4. CASE c.kind = "status"
  <2>1. Handled(c, e) = made(c.status, e.markup)
    BY <1>1, <1>4 DEF Handled
  <2> QED
    BY <1>1, <1>2, <1>4, <2>1, CommandFields
<1>5. CASE c.kind = "unlock"
  <2>1. Handled(c, e) = made("in_progress", e.markup)
    BY <1>1, <1>5 DEF Handled
  <2> QED
    BY <1>1, <1>2, <2>1 DEF Statuses
<1>6. CASE c.kind = "version"
  <2>1. Handled(c, e) = made(e.status, e.markup)
    BY <1>1, <1>6 DEF Handled
  <2> QED
    BY <1>1, <1>2, <2>1
<1>7. CASE c.kind \notin {"update", "status", "unlock", "version"}
  BY <1>7 DEF Handled
<1> QED
  BY <1>3, <1>4, <1>5, <1>6, <1>7

\* An estimate has finitely many lines.
LEMMA LinesAreFinite ==
    ASSUME NEW r, IsRows(r)
    PROVE  /\ Cardinality(DOMAIN r) \in Nat
           /\ DOMAIN r # {} => Cardinality(DOMAIN r) - 1 \in Nat
<1>1. IsFiniteSet(LineIds)
  BY EstimateConstants, FS_Union DEF LineIds
<1>2. IsFiniteSet(DOMAIN r)
  BY <1>1, FS_Subset DEF IsRows
<1>3. Cardinality(DOMAIN r) \in Nat /\ (Cardinality(DOMAIN r) = 0 <=> DOMAIN r = {})
  BY <1>2, FS_CardinalityType, FS_EmptySet
<1> QED
  BY <1>3

\* A total is priced from rows of the type.
LEMMA TotalType ==
    ASSUME NEW m \in Markups, NEW r, IsRows(r)
    PROVE  Total(m, r) \in Nat
<1>1. [l \in DOMAIN r |-> r[l].price] \in [DOMAIN r -> Prices]
  BY DEF IsRows, Line
<1>2. DOMAIN r \in SUBSET LineIds
  BY DEF IsRows
<1> QED
  BY <1>1, <1>2, PricingIsDefined DEF Total

-----------------------------------------------------------------------------
\* What a session sees is a store; to the writer it is its own transaction.
LEMMA SeenStore ==
    ASSUME IInv, NEW s \in Sessions, Granted(s)
    PROVE  /\ IsStore(Seen(s)) /\ NoOrphan(Seen(s))
           /\ DOMAIN Seen(s).lines \subseteq DOMAIN db.lines \cup {s}
           /\ DOMAIN db.lines \ removed[s] \subseteq DOMAIN Seen(s).lines
           /\ s \in DOMAIN base[s].lines /\ pc[s] # "done" => s \in DOMAIN Seen(s).lines
           /\ s \in DOMAIN Seen(s).lines => IsAdd(s)
<1>1. writer \in {NoOne, s} /\ NoOne # s
  BY EstimateConstants DEF Granted
<1>2. CASE writer = s
  BY <1>1, <1>2 DEF Seen, IInv, TypeOK, Transaction
<1>3. CASE writer = NoOne
  <2>1. s \in DOMAIN db.lines => IsAdd(s)
    BY EstimateConstants DEF IInv, Acked
  <2> QED
    BY <1>1, <1>3, <2>1 DEF Seen, IInv, TypeOK, Transaction, NoOrphanLines, NoOrphan
<1> QED
  BY <1>1, <1>2, <1>3

\* What an accepted flush makes of the store.
LEMMA WrittenStore ==
    ASSUME IInv, NEW s \in Sessions, Granted(s), Accepted(s), pc[s] \in {"flush", "commit"}
    PROVE  /\ IsStore(Written(s)) /\ NoOrphan(Written(s))
           /\ DOMAIN Written(s).lines = (DOMAIN Seen(s).lines \ removed[s]) \cup Added(s)
<1> DEFINE store == Seen(s)
           row == IF op[s].kind = "delete" \/ store.est = NoRow THEN NoRow
                  ELSE Merged(mem[s].est, base[s].est, store.est)
           ids == (DOMAIN store.lines \ removed[s]) \cup Added(s)
           line(l) == IF l \in Added(s) THEN mem[s].lines[l]
                      ELSE IF l \in ChangedLines(s)
                      THEN Merged(mem[s].lines[l], base[s].lines[l], store.lines[l])
                      ELSE store.lines[l]
<1>1. Written(s) = [est |-> row, lines |-> [l \in ids |-> line(l)]]
  BY DEF Written
<1>2. /\ IsStore(store) /\ NoOrphan(store)
      /\ IsStore(base[s]) /\ IsStore(mem[s])
      /\ base[s].est \in Estimate /\ mem[s].est \in Estimate
      /\ DOMAIN base[s].lines \subseteq DOMAIN mem[s].lines
      /\ DOMAIN mem[s].lines \subseteq DOMAIN base[s].lines \cup {s}
      /\ s \in DOMAIN mem[s].lines => IsAdd(s)
  BY SeenStore DEF IInv, TypeOK, Shape, ShapeOf
<1>3. /\ Added(s) \subseteq DOMAIN mem[s].lines /\ Added(s) \subseteq {s}
      /\ ChangedLines(s) \subseteq DOMAIN base[s].lines
      /\ op[s].kind = "delete" => Added(s) = {}
  BY <1>2 DEF Added, ChangedLines, IsAdd
<1>4. /\ Added(s) # {} => store.est # NoRow
      /\ op[s].kind = "delete" => DOMAIN store.lines \subseteq removed[s]
  BY DEF Accepted
<1> HIDE DEF store
<1>5. store.est \in Estimate \cup {NoRow} /\ IsRows(store.lines)
  BY <1>2 DEF IsStore
<1>6. row \in Estimate \cup {NoRow}
  BY <1>2, <1>5, MergedEstimate
<1>7. IsRows(mem[s].lines) /\ IsRows(base[s].lines)
  BY <1>2 DEF IsStore
<1>8. \A l \in ids : line(l) \in Line
  <2> SUFFICES ASSUME NEW l \in ids PROVE line(l) \in Line
    OBVIOUS
  <2>1. CASE l \in Added(s)
    BY <1>3, <1>7, <2>1 DEF IsRows
  <2>2. CASE l \notin Added(s)
    <3>1. l \in DOMAIN store.lines /\ store.lines[l] \in Line
      BY <1>5, <2>2 DEF IsRows
    <3>2. l \in ChangedLines(s) => mem[s].lines[l] \in Line /\ base[s].lines[l] \in Line
      BY <1>2, <1>3, <1>7 DEF IsRows
    <3> QED
      BY <2>2, <3>1, <3>2, MergedLine
  <2> QED
    BY <2>1, <2>2
<1>9. ids \in SUBSET LineIds
  BY <1>3, <1>5, <1>7 DEF IsRows
<1>10. [l \in ids |-> line(l)] \in [ids -> Line]
  BY <1>8
<1>11. row = NoRow => ids = {}
  <2>1. CASE op[s].kind = "delete"
    BY <1>3, <1>4, <2>1
  <2>2. CASE op[s].kind # "delete" /\ store.est = NoRow
    BY <1>2, <1>4, <2>2, EmptyStore DEF NoOrphan
  <2>3. CASE op[s].kind # "delete" /\ store.est # NoRow
    BY <1>2, <1>5, <2>3, MergedEstimate, EstimateConstants
  <2> QED
    BY <2>1, <2>2, <2>3
<1> HIDE DEF row, ids, line
<1>12. IsRows([l \in ids |-> line(l)])
  BY <1>9, <1>10, RowsByLine
<1>13. ids = {} => [l \in ids |-> line(l)] = NoLines
  BY DEF NoLines
<1> QED
  BY <1>1, <1>6, <1>11, <1>12, <1>13, StoreParts DEF NoOrphan, ids, store

-----------------------------------------------------------------------------
\* The estimate is there, or is not, with its lines.
LEMMA Initially == Init => IInv
<1> SUFFICES ASSUME Init PROVE IInv
  OBVIOUS
<1>1. PICK status \in {"draft", "locked"}, markup \in Markups, group \in Groups,
          price \in [Lines0 -> Prices], order \in [Lines0 -> 0..Cardinality(Lines0)] :
        /\ \A k, l \in Lines0 : k # l => order[k] # order[l]
        /\ \A l \in Lines0 : order[l] < Cardinality(Lines0)
        /\ db = [est |-> [status |-> status, markup |-> markup, version |-> 1,
                          total |-> Priced(markup, price)],
                 lines |-> [l \in Lines0 |->
                    [price |-> price[l], order |-> order[l], group |-> group]]]
  BY Zenon DEF Init
<1>2. /\ txn = db /\ writer = NoOne
      /\ op = [s \in Sessions |-> NoOne] /\ pc = [s \in Sessions |-> "idle"]
      /\ base = [s \in Sessions |-> Empty] /\ mem = [s \in Sessions |-> Empty]
      /\ removed = [s \in Sessions |-> {}] /\ outcome = [s \in Sessions |-> "pending"]
      /\ alone = [s \in Sessions |-> TRUE]
  BY DEF Init
<1>3. IsStore(db) /\ DOMAIN db.lines = Lines0 /\ db.est \in Estimate
  <2>1. Priced(markup, price) \in Nat
    BY PricingIsDefined DEF LineIds
  <2>2. db.est \in Estimate
    BY <1>1, <2>1 DEF Estimate, Statuses
  <2>3. Lines0 \in SUBSET LineIds
    BY DEF LineIds
  <2>4. db.lines \in [Lines0 -> Line]
    <3>1. Cardinality(Lines0) \in Nat
      BY EstimateConstants, FS_CardinalityType
    <3>2. \A l \in Lines0 : [price |-> price[l], order |-> order[l], group |-> group] \in Line
      BY <3>1 DEF Line
    <3> QED
      BY <1>1, <3>2
  <2>5. IsRows(db.lines) /\ DOMAIN db.lines = Lines0
    BY <2>3, <2>4, RowsByLine
  <2> QED
    BY <1>1, <2>2, <2>5 DEF IsStore
<1>4. TypeOK
  BY <1>2, <1>3, EmptyStore DEF TypeOK
<1>5. Shape
  <2>1. \A s \in Sessions :
            /\ pc[s] = "idle" /\ outcome[s] = "pending" /\ removed[s] = {}
            /\ base[s].lines = NoLines /\ mem[s].lines = NoLines
    BY <1>2 DEF Empty
  <2> QED
    BY <2>1, EmptyStore DEF Shape, ShapeOf
<1>6. Transaction
  <2>1. \A s \in Sessions : pc[s] = "idle" /\ base[s].lines = NoLines /\ writer # s
    BY <1>2, EstimateConstants DEF Empty
  <2> QED
    BY <1>2, <2>1, EmptyStore DEF Transaction
<1>7. NoOrphanLines /\ AcknowledgedLines
  BY <1>2, <1>3, EstimateConstants DEF NoOrphanLines, AcknowledgedLines
<1>8. DOMAIN db.lines \subseteq Acked
  BY <1>3 DEF Acked
<1> QED
  BY <1>4, <1>5, <1>6, <1>7, <1>8 DEF IInv

\* A step of one session that commits nothing leaves what the others hold, and
\* the acknowledgements.
Quiet(s) ==
    /\ db' = db
    /\ outcome' \in [Sessions -> {"pending", "ok", "rejected", "failed"}]
    /\ outcome[s] # "ok" /\ outcome'[s] # "ok"
    /\ \A t \in Sessions : t # s =>
        /\ pc'[t] = pc[t] /\ op'[t] = op[t] /\ base'[t] = base[t] /\ mem'[t] = mem[t]
        /\ removed'[t] = removed[t] /\ outcome'[t] = outcome[t]

\* A step that leaves the store keeps what is said of it.
LEMMA QuietKeeps ==
    ASSUME IInv, NEW s \in Sessions, Quiet(s)
    PROVE  /\ Acked' = Acked /\ NoOrphanLines' /\ AcknowledgedLines'
           /\ DOMAIN db'.lines \subseteq Acked'
           /\ ShapeOf(s)' => Shape'
<1>1. NoOrphanLines /\ AcknowledgedLines /\ DOMAIN db.lines \subseteq Acked /\ Shape
  BY DEF IInv
<1>2. /\ \A t \in Sessions : outcome'[t] = "ok" <=> outcome[t] = "ok"
      /\ \A t \in Sessions : outcome[t] = "ok" => op'[t] = op[t] /\ removed'[t] = removed[t]
      /\ db' = db
  BY DEF Quiet
<1>3. Acked' = Acked
  BY <1>2 DEF Acked, IsAdd
<1>4. AcknowledgedLines'
  BY <1>1, <1>2 DEF AcknowledgedLines
<1>5. ASSUME NEW t \in Sessions, t # s PROVE ShapeOf(t)'
  <2>1. ShapeOf(t)
    BY <1>1 DEF Shape
  <2>2. /\ pc'[t] = pc[t] /\ op'[t] = op[t] /\ base'[t] = base[t] /\ mem'[t] = mem[t]
        /\ removed'[t] = removed[t] /\ outcome'[t] = outcome[t]
    BY <1>5 DEF Quiet
  <2> QED
    BY <1>3, <2>1, <2>2 DEF ShapeOf, IsAdd
<1>6. ShapeOf(s)' => Shape'
  BY <1>5 DEF Shape
<1> QED
  BY <1>1, <1>2, <1>3, <1>4, <1>6 DEF NoOrphanLines

\* Such a step leaves the writer's transaction, too, unless it flushes.
LEMMA TransactionStays ==
    ASSUME IInv, NEW s \in Sessions, Quiet(s), UNCHANGED <<txn, writer>>,
           \/ writer # s
           \/ pc'[s] \in {"price", "commit"} /\ removed'[s] = removed[s] /\ op'[s] = op[s],
           s \in DOMAIN base'[s].lines /\ pc'[s] # "done" =>
                s \in DOMAIN base[s].lines /\ pc[s] # "done"
    PROVE  Transaction'
<1>1. Transaction
  BY DEF IInv
<1>2. /\ db' = db /\ UNCHANGED <<txn, writer>>
      /\ \A t \in Sessions : t # s =>
            pc'[t] = pc[t] /\ op'[t] = op[t] /\ base'[t] = base[t] /\ removed'[t] = removed[t]
  BY DEF Quiet
<1>3. writer \in Sessions \cup {NoOne}
  BY DEF IInv, TypeOK
<1>4. \A t \in Sessions : writer' = t => pc'[t] \in {"price", "commit"}
  BY <1>1, <1>2 DEF Transaction
<1>5. \A t \in Sessions : t \in DOMAIN base'[t].lines /\ pc'[t] # "done" => writer' = t
  BY <1>1, <1>2 DEF Transaction
<1>6. ASSUME writer # NoOne
      PROVE  /\ removed'[writer] = removed[writer] /\ op'[writer] = op[writer]
             /\ writer \in DOMAIN base'[writer].lines => writer \in DOMAIN base[writer].lines
  <2>1. CASE writer = s
    BY <1>4, <1>2, <2>1
  <2>2. CASE writer # s
    BY <1>2, <1>3, <1>6, <2>2
  <2> QED
    BY <2>1, <2>2
<1> QED
  BY <1>1, <1>2, <1>4, <1>5, <1>6 DEF Transaction, NoOrphan, IsAdd

-----------------------------------------------------------------------------
\* The steps, one after the other.

\* A call begins.
LEMMA BeginKeeps ==
    ASSUME IInv, NEW s \in Sessions, Begin(s) PROVE IInv'
<1>1. TypeOK /\ ShapeOf(s)
  BY DEF IInv, Shape
<1>2. PICK c \in Commands : op' = [op EXCEPT ![s] = c]
  BY DEF Begin
<1>3. /\ pc[s] = "idle" /\ pc' = [pc EXCEPT ![s] = "load"]
      /\ UNCHANGED <<db, txn, writer, base, mem, removed, outcome, alone>>
  BY DEF Begin, Goto
<1>4. /\ outcome[s] = "pending" /\ pc'[s] = "load" /\ op'[s] = c
      /\ \A t \in Sessions : t # s => pc'[t] = pc[t] /\ op'[t] = op[t]
  BY <1>1, <1>2, <1>3 DEF TypeOK, ShapeOf
<1>5. TypeOK'
  BY <1>1, <1>2, <1>3 DEF TypeOK
<1>6. Quiet(s)
  BY <1>1, <1>3, <1>4 DEF Quiet, TypeOK
<1>7. Acked' = Acked /\ (ShapeOf(s)' => Shape')
  BY <1>6, QuietKeeps
<1>8. ShapeOf(s)'
  BY <1>1, <1>3, <1>4, <1>7, EmptyStore DEF ShapeOf
<1>9. writer # s
  BY <1>3 DEF IInv, Transaction
<1>10. Transaction'
  BY <1>3, <1>4, <1>6, <1>9, TransactionStays
<1> QED
  BY <1>5, <1>6, <1>7, <1>8, <1>10, QuietKeeps DEF IInv

\* The estimate is loaded, or is missing or locked.
LEMMA LoadKeeps ==
    ASSUME IInv, NEW s \in Sessions, Load(s) PROVE IInv'
<1>1. TypeOK /\ ShapeOf(s)
  BY DEF IInv, Shape
<1>2. /\ pc[s] = "load" /\ UNCHANGED <<db, txn, writer, op, removed>>
      /\ alone' \in [Sessions -> BOOLEAN]
  BY <1>1 DEF Load, TypeOK
<1>3. /\ outcome[s] = "pending" /\ op[s] \in Commands /\ writer # s
      /\ removed[s] = {} /\ base[s].lines = NoLines /\ mem[s].lines = NoLines
  BY <1>1, <1>2 DEF ShapeOf, IInv, Transaction
<1>4. IsStore(base[s]) /\ IsStore(mem[s]) /\ IsStore(db)
  BY <1>1 DEF TypeOK
<1>5. CASE db.est = NoRow \/ RefusesLocked(op[s], db.est)
  <2>1. /\ pc' = [pc EXCEPT ![s] = "done"] /\ outcome' = [outcome EXCEPT ![s] = "rejected"]
        /\ UNCHANGED <<base, mem>>
    BY <1>5 DEF Load, Finish, Goto
  <2>2. /\ pc'[s] = "done" /\ outcome'[s] = "rejected"
        /\ \A t \in Sessions : t # s => pc'[t] = pc[t] /\ outcome'[t] = outcome[t]
    BY <1>1, <2>1 DEF TypeOK
  <2>3. TypeOK'
    BY <1>1, <1>2, <2>1 DEF TypeOK
  <2>4. Quiet(s)
    BY <1>1, <1>2, <1>3, <2>1, <2>2, <2>3 DEF Quiet, TypeOK
  <2>5. ShapeOf(s)'
    BY <1>1, <1>2, <1>3, <2>1, <2>2, <2>4, QuietKeeps, EmptyStore DEF ShapeOf
  <2>6. Transaction'
    BY <1>2, <1>3, <2>2, <2>4, TransactionStays
  <2> QED
    BY <2>3, <2>4, <2>5, <2>6, QuietKeeps DEF IInv
<1>6. CASE ~(db.est = NoRow \/ RefusesLocked(op[s], db.est))
  <2>1. /\ pc' = [pc EXCEPT ![s] = AfterLoad(op[s])]
        /\ base' = [base EXCEPT ![s].est = db.est]
        /\ mem' = [mem EXCEPT ![s].est = Handled(op[s], db.est)]
        /\ outcome' = outcome
    BY <1>6 DEF Load, Goto
  <2>2. db.est \in Estimate /\ Handled(op[s], db.est) \in Estimate
    BY <1>3, <1>4, <1>6, HandledEstimate DEF IsStore
  <2>3. /\ AfterLoad(op[s]) \in {"commit", "flush", "read"}
        /\ AfterLoad(op[s]) \in {"commit", "flush"} => ~IsAdd(s) /\ op[s].kind # "delete"
    BY <1>3, CommandFields DEF AfterLoad, IsAdd
  <2>4. /\ base'[s] = [est |-> db.est, lines |-> NoLines]
        /\ mem'[s] = [est |-> Handled(op[s], db.est), lines |-> NoLines]
        /\ \A t \in Sessions : t # s => base'[t] = base[t] /\ mem'[t] = mem[t]
        /\ DOMAIN base' = Sessions /\ DOMAIN mem' = Sessions
    <3>1. /\ base[s] = [est |-> base[s].est, lines |-> NoLines]
          /\ mem[s] = [est |-> mem[s].est, lines |-> NoLines]
      BY <1>3, <1>4 DEF IsStore
    <3>2. /\ base'[s] = [base[s] EXCEPT !.est = db.est]
          /\ mem'[s] = [mem[s] EXCEPT !.est = Handled(op[s], db.est)]
          /\ \A t \in Sessions : t # s => base'[t] = base[t] /\ mem'[t] = mem[t]
          /\ DOMAIN base' = Sessions /\ DOMAIN mem' = Sessions
      BY <1>1, <2>1 DEF TypeOK
    <3> QED
      BY <3>1, <3>2
  <2>5. /\ pc'[s] = AfterLoad(op[s]) /\ \A t \in Sessions : t # s => pc'[t] = pc[t]
        /\ pc' \in [Sessions -> {"idle", "load", "read", "flush", "price", "commit", "done"}]
    BY <1>1, <2>1, <2>3 DEF TypeOK
  <2>6. IsStore(base'[s]) /\ IsStore(mem'[s])
    BY <2>2, <2>4, StoreParts, EmptyStore
  <2>7. TypeOK'
    BY <1>1, <1>2, <2>1, <2>4, <2>5, <2>6 DEF TypeOK
  <2>8. Quiet(s)
    BY <1>1, <1>2, <1>3, <2>1, <2>4, <2>5 DEF Quiet, TypeOK
  <2>9. ShapeOf(s)'
    <3>1. base'[s].est \in Estimate /\ mem'[s].est \in Estimate
      BY <2>2, <2>4
    <3>2. base'[s].lines = NoLines /\ mem'[s].lines = NoLines /\ removed'[s] = {}
      BY <1>2, <1>3, <2>4
    <3>3. IsAdd(s)' <=> IsAdd(s)
      BY <1>2 DEF IsAdd
    <3> QED
      BY <1>2, <1>3, <2>1, <2>3, <2>5, <3>1, <3>2, <3>3, EmptyStore DEF ShapeOf
  <2>10. Transaction'
    <3>1. base'[s].lines = NoLines
      BY <2>4
    <3> QED
      BY <1>2, <1>3, <2>8, <3>1, EmptyStore, TransactionStays
  <2> QED
    BY <2>7, <2>8, <2>9, <2>10, QuietKeeps DEF IInv
<1> QED
  BY <1>5, <1>6

\* A line is not found: rejected.
LEMMA LineNotFoundKeeps ==
    ASSUME IInv, NEW s \in Sessions, LineNotFound(s) PROVE IInv'
<1>1. TypeOK /\ ShapeOf(s)
  BY DEF IInv, Shape
<1>2. /\ pc[s] = "read" /\ UNCHANGED <<db, txn, writer, op, base, mem, removed, alone>>
      /\ pc' = [pc EXCEPT ![s] = "done"] /\ outcome' = [outcome EXCEPT ![s] = "rejected"]
  BY DEF LineNotFound, Finish, Goto
<1>3. /\ outcome[s] = "pending" /\ writer # s
      /\ removed[s] = {} /\ base[s].lines = NoLines /\ mem[s].lines = NoLines
  BY <1>1, <1>2 DEF ShapeOf, IInv, Transaction
<1>4. /\ pc'[s] = "done" /\ outcome'[s] = "rejected"
      /\ \A t \in Sessions : t # s => pc'[t] = pc[t] /\ outcome'[t] = outcome[t]
  BY <1>1, <1>2 DEF TypeOK
<1>5. TypeOK'
  BY <1>1, <1>2 DEF TypeOK
<1>6. Quiet(s)
  BY <1>2, <1>3, <1>4, <1>5 DEF Quiet, TypeOK
<1>7. ShapeOf(s)'
  BY <1>1, <1>2, <1>3, <1>4, <1>6, QuietKeeps, EmptyStore DEF ShapeOf
<1>8. Transaction'
  BY <1>2, <1>3, <1>4, <1>6, TransactionStays
<1> QED
  BY <1>5, <1>6, <1>7, <1>8, QuietKeeps DEF IInv

\* What every handler that reads lines has in common: r is what it read, ch
\* what it makes of it, gone what it deletes.
Reads(s, r, ch, gone) ==
    /\ IsRows(r) /\ IsRows(ch)
    /\ DOMAIN r \subseteq DOMAIN ch /\ DOMAIN ch \subseteq DOMAIN r \cup {s}
    /\ DOMAIN r \subseteq DOMAIN db.lines /\ gone \subseteq DOMAIN db.lines
    /\ s \in DOMAIN ch <=> IsAdd(s)
    /\ \/ base' = [base EXCEPT ![s].lines = r]
       \/ base' = base /\ r = NoLines
    /\ mem' = [mem EXCEPT ![s].lines = ch]
    /\ removed' = [removed EXCEPT ![s] = gone]

\* The rows that a statement reads and changes are rows.
LEMMA RowsRead ==
    ASSUME IInv, NEW s \in Sessions, pc[s] = "read",
           NEW r, NEW ch, NEW gone, Reads(s, r, ch, gone),
           pc' = [pc EXCEPT ![s] = IF op[s].kind = "delete" THEN "commit" ELSE "flush"],
           UNCHANGED <<db, txn, writer, op, outcome, alone>>
    PROVE  IInv'
<1>0. /\ IsRows(r) /\ IsRows(ch)
      /\ DOMAIN r \subseteq DOMAIN ch /\ DOMAIN ch \subseteq DOMAIN r \cup {s}
      /\ DOMAIN r \subseteq DOMAIN db.lines /\ gone \subseteq DOMAIN db.lines
      /\ s \in DOMAIN ch <=> IsAdd(s)
  BY DEF Reads
<1>1. TypeOK /\ ShapeOf(s) /\ DOMAIN db.lines \subseteq Acked
  BY DEF IInv, Shape
<1>2. /\ outcome[s] = "pending" /\ op[s] \in Commands /\ writer # s
      /\ base[s].est \in Estimate /\ mem[s].est \in Estimate /\ base[s].lines = NoLines
  BY <1>1 DEF ShapeOf, IInv, Transaction
<1>3. IsStore(base[s]) /\ IsStore(mem[s])
  BY <1>1 DEF TypeOK
<1>4. s \notin DOMAIN db.lines
  BY <1>1, <1>2, EstimateConstants DEF Acked
<1>5. /\ base'[s] = [est |-> base[s].est, lines |-> r]
      /\ mem'[s] = [est |-> mem[s].est, lines |-> ch]
      /\ \A t \in Sessions : t # s => base'[t] = base[t] /\ mem'[t] = mem[t]
      /\ DOMAIN base' = Sessions /\ DOMAIN mem' = Sessions
  <2>1. /\ base[s] = [est |-> base[s].est, lines |-> base[s].lines]
        /\ mem[s] = [est |-> mem[s].est, lines |-> mem[s].lines]
    BY <1>3 DEF IsStore
  <2>2. /\ \/ base'[s] = [base[s] EXCEPT !.lines = r]
           \/ base'[s] = base[s] /\ r = NoLines
        /\ mem'[s] = [mem[s] EXCEPT !.lines = ch]
        /\ \A t \in Sessions : t # s => base'[t] = base[t] /\ mem'[t] = mem[t]
        /\ DOMAIN base' = Sessions /\ DOMAIN mem' = Sessions
    BY <1>1 DEF TypeOK, Reads
  <2> QED
    BY <1>2, <2>1, <2>2
<1>6. IsStore(base'[s]) /\ IsStore(mem'[s])
  BY <1>0, <1>2, <1>5, StoreParts
<1>7. /\ pc'[s] = IF op[s].kind = "delete" THEN "commit" ELSE "flush"
      /\ removed'[s] = gone
      /\ \A t \in Sessions : t # s => pc'[t] = pc[t] /\ removed'[t] = removed[t]
      /\ pc' \in [Sessions -> {"idle", "load", "read", "flush", "price", "commit", "done"}]
      /\ removed' \in [Sessions -> SUBSET LineIds]
  <2>1. gone \in SUBSET LineIds
    BY <1>0, <1>1 DEF TypeOK, IsStore, IsRows
  <2> QED
    BY <1>1, <2>1 DEF TypeOK, Reads
<1>8. TypeOK'
  BY <1>1, <1>5, <1>6, <1>7 DEF TypeOK
<1>9. Quiet(s)
  BY <1>1, <1>2, <1>5, <1>7 DEF Quiet, TypeOK
<1>10. Acked' = Acked /\ (ShapeOf(s)' => Shape')
  BY <1>9, QuietKeeps
<1>11. ShapeOf(s)'
  <2>1. /\ base'[s].est \in Estimate /\ mem'[s].est \in Estimate
        /\ base'[s].lines = r /\ mem'[s].lines = ch
    BY <1>2, <1>5
  <2>2. /\ pc'[s] \in {"commit", "flush"} /\ (pc'[s] = "flush" => op[s].kind # "delete")
        /\ removed'[s] \subseteq Acked
        /\ IsAdd(s)' <=> IsAdd(s)
    BY <1>0, <1>1, <1>7 DEF IsAdd
  <2> QED
    BY <1>0, <1>2, <1>10, <2>1, <2>2 DEF ShapeOf
<1>12. Transaction'
  <2>1. s \notin DOMAIN base'[s].lines
    BY <1>0, <1>4, <1>5
  <2> QED
    BY <1>2, <1>9, <2>1, TransactionStays
<1> QED
  BY <1>8, <1>9, <1>10, <1>11, <1>12, QuietKeeps DEF IInv

\* The rows in some order, and after a move.
LEMMA Renumbered ==
    ASSUME NEW r, IsRows(r), NEW f \in Positions(r)
    PROVE  /\ IsRows([l \in DOMAIN r |-> [r[l] EXCEPT !.order = f[l]]])
           /\ \A to \in Nat, k \in DOMAIN r :
                IsRows([l \in DOMAIN r |-> [r[l] EXCEPT !.order = Shifted(f[l], f[k], to)]])
<1>1. \A l \in DOMAIN r : f[l] \in Nat
  BY LinesAreFinite DEF Positions
<1>2. DOMAIN r \in SUBSET LineIds /\ \A l \in DOMAIN r : r[l] \in Line
  BY DEF IsRows
<1>3. \A l \in DOMAIN r, n \in Nat : [r[l] EXCEPT !.order = n] \in Line
  BY <1>2 DEF Line
<1>4. \A p \in Nat, q \in Nat, to \in Nat : Shifted(p, q, to) \in Nat
  BY DEF Shifted
<1>5. [l \in DOMAIN r |-> [r[l] EXCEPT !.order = f[l]]] \in [DOMAIN r -> Line]
  BY <1>1, <1>3
<1>6. ASSUME NEW to \in Nat, NEW k \in DOMAIN r
      PROVE  [l \in DOMAIN r |-> [r[l] EXCEPT !.order = Shifted(f[l], f[k], to)]]
                \in [DOMAIN r -> Line]
  BY <1>1, <1>3, <1>4
<1> QED
  BY <1>2, <1>5, <1>6, RowsByLine

\* A handler reads the lines it changes or deletes.
LEMMA ReadKeeps ==
    ASSUME IInv, NEW s \in Sessions, ReadStep(s) PROVE IInv'
<1>1. TypeOK /\ ShapeOf(s)
  BY DEF IInv, Shape
<1>2. /\ pc[s] = "read" /\ UNCHANGED <<db, txn, writer, op, outcome, alone>>
      /\ pc' = [pc EXCEPT ![s] = IF op[s].kind = "delete" THEN "commit" ELSE "flush"]
  BY DEF ReadStep, Goto
<1>3. /\ op[s] \in Commands /\ removed[s] = {} /\ base[s].lines = NoLines
  BY <1>1, <1>2 DEF ShapeOf
<1>4. IsRows(db.lines) /\ DOMAIN db.lines \in SUBSET LineIds
  BY <1>1 DEF TypeOK, IsStore, IsRows
<1>5. UNCHANGED removed => removed' = [removed EXCEPT ![s] = {}]
  BY <1>1, <1>3 DEF TypeOK
<1>6. \A l \in DOMAIN db.lines : db.lines[l] \in Line
  BY <1>4 DEF IsRows
<1>7. CASE AddLine(s)
  <2>1. PICK group \in Groups : mem' = [mem EXCEPT ![s].lines =
            [l \in {s} |-> [price |-> op[s].price, group |-> group,
                order |-> IF op[s].kind = "add" THEN Cardinality(DOMAIN db.lines) ELSE 0]]]
    BY <1>7 DEF AddLine
  <2>2. IsAdd(s) /\ UNCHANGED <<base, removed>>
    BY <1>7 DEF AddLine, IsAdd
  <2> DEFINE line == [price |-> op[s].price, group |-> group,
                order |-> IF op[s].kind = "add" THEN Cardinality(DOMAIN db.lines) ELSE 0]
  <2>3. line \in Line
    BY <1>3, <1>4, <2>2, LinesAreFinite, CommandFields DEF Line, IsAdd
  <2> HIDE DEF line
  <2>4. [l \in {s} |-> line] \in [{s} -> Line] /\ {s} \in SUBSET LineIds
    BY <2>3 DEF LineIds
  <2>5. IsRows([l \in {s} |-> line]) /\ DOMAIN [l \in {s} |-> line] = {s}
    BY <2>4, RowsByLine
  <2>6. mem' = [mem EXCEPT ![s].lines = [l \in {s} |-> line]]
    BY <2>1 DEF line
  <2>7. removed' = [removed EXCEPT ![s] = {}]
    BY <1>5, <2>2
  <2>8. Reads(s, NoLines, [l \in {s} |-> line], {})
    BY <2>2, <2>5, <2>6, <2>7, EmptyStore DEF Reads
  <2> QED
    BY <1>2, <2>8, RowsRead
<1>8. ASSUME NEW k \in DOMAIN db.lines, NEW new \in Line, ~IsAdd(s), UNCHANGED removed,
             base' = [base EXCEPT ![s].lines = [l \in {k} |-> db.lines[k]]],
             mem' = [mem EXCEPT ![s].lines = [l \in {k} |-> new]]
      PROVE  IInv'
  <2> DEFINE found == [l \in {k} |-> db.lines[k]]
             left == [l \in {k} |-> new]
  <2>1. db.lines[k] \in Line /\ {k} \in SUBSET LineIds
    BY <1>4, <1>6
  <2>2. IsRows(found) /\ DOMAIN found = {k} /\ IsRows(left) /\ DOMAIN left = {k}
    <3>1. found \in [{k} -> Line] /\ left \in [{k} -> Line]
      BY <2>1
    <3> QED
      BY <2>1, <3>1, RowsByLine
  <2>3. base' = [base EXCEPT ![s].lines = found] /\ mem' = [mem EXCEPT ![s].lines = left]
    BY <1>8
  <2> HIDE DEF found, left
  <2>4. s # k
    BY <1>1, <1>2, EstimateConstants DEF IInv, Acked, ShapeOf
  <2>5. removed' = [removed EXCEPT ![s] = {}]
    BY <1>5, <1>8
  <2>6. /\ DOMAIN found \subseteq DOMAIN left /\ DOMAIN left \subseteq DOMAIN found \cup {s}
        /\ DOMAIN found \subseteq DOMAIN db.lines /\ {} \subseteq DOMAIN db.lines
        /\ s \in DOMAIN left <=> IsAdd(s)
    BY <1>8, <2>2, <2>4
  <2>7. Reads(s, found, left, {})
    BY <2>2, <2>3, <2>5, <2>6 DEF Reads
  <2> QED
    BY <1>2, <2>7, RowsRead
<1>9. s \notin DOMAIN db.lines
  BY <1>1, <1>2, EstimateConstants DEF IInv, Acked, ShapeOf
<1>10. ASSUME NEW left, NEW del, IsRows(left), DOMAIN left = DOMAIN db.lines,
              del \subseteq DOMAIN db.lines, ~IsAdd(s),
              base' = [base EXCEPT ![s].lines = db.lines],
              mem' = [mem EXCEPT ![s].lines = left],
              removed' = [removed EXCEPT ![s] = del]
       PROVE  IInv'
  <2>1. Reads(s, db.lines, left, del)
    BY <1>4, <1>9, <1>10 DEF Reads
  <2> QED
    BY <1>2, <2>1, RowsRead
<1>11. CASE RemoveLine(s)
  <2>1. PICK f \in Positions(db.lines) :
            ReadLines(s, db.lines,
                [l \in DOMAIN db.lines |-> [db.lines[l] EXCEPT !.order = f[l]]])
    BY <1>11 DEF RemoveLine
  <2>2. /\ ~IsAdd(s) /\ {op[s].line} \subseteq DOMAIN db.lines
        /\ removed' = [removed EXCEPT ![s] = {op[s].line}]
    BY <1>11 DEF RemoveLine, IsAdd
  <2>3. IsRows([l \in DOMAIN db.lines |-> [db.lines[l] EXCEPT !.order = f[l]]])
    BY <1>4, Renumbered
  <2> QED
    BY <1>10, <2>1, <2>2, <2>3 DEF ReadLines
<1>12. CASE ReorderLine(s)
  <2> DEFINE last == Cardinality(DOMAIN db.lines) - 1
             to == IF op[s].index < last THEN op[s].index ELSE last
  <2>1. PICK f \in Positions(db.lines) :
            ReadLines(s, db.lines, [l \in DOMAIN db.lines |->
                [db.lines[l] EXCEPT !.order = Shifted(f[l], f[op[s].line], to)]])
    BY <1>12 DEF ReorderLine
  <2>2. /\ op[s].kind = "reorder" /\ op[s].line \in DOMAIN db.lines /\ UNCHANGED removed
        /\ ~IsAdd(s)
    BY <1>12 DEF ReorderLine, IsAdd
  <2>3. to \in Nat
    BY <1>3, <1>4, <2>2, LinesAreFinite, CommandFields
  <2> HIDE DEF to
  <2>4. IsRows([l \in DOMAIN db.lines |->
                [db.lines[l] EXCEPT !.order = Shifted(f[l], f[op[s].line], to)]])
    <3>1. \A n \in Nat, k \in DOMAIN db.lines :
            IsRows([l \in DOMAIN db.lines |->
                [db.lines[l] EXCEPT !.order = Shifted(f[l], f[k], n)]])
      BY <1>4, Renumbered
    <3> QED
      BY <2>2, <2>3, <3>1
  <2> QED
    BY <1>5, <1>10, <2>1, <2>2, <2>4 DEF ReadLines
<1>13. CASE GroupLines(s)
  <2> DEFINE ch == [l \in DOMAIN db.lines |-> [db.lines[l] EXCEPT !.group = op[s].group]]
  <2>1. /\ op[s].kind = "group" /\ UNCHANGED removed /\ ~IsAdd(s)
        /\ base' = [base EXCEPT ![s].lines = db.lines] /\ mem' = [mem EXCEPT ![s].lines = ch]
    BY <1>13 DEF GroupLines, ReadLines, IsAdd
  <2>2. op[s].group \in Groups
    BY <1>3, <2>1, CommandFields
  <2>3. \A l \in DOMAIN db.lines : [db.lines[l] EXCEPT !.group = op[s].group] \in Line
    BY <1>6, <2>2 DEF Line
  <2>4. ch \in [DOMAIN db.lines -> Line]
    BY <2>3
  <2>5. IsRows(ch) /\ DOMAIN ch = DOMAIN db.lines
    BY <1>4, <2>4, RowsByLine
  <2> QED
    BY <1>5, <1>10, <2>1, <2>5
<1>14. CASE RateLines(s)
  BY <1>4, <1>5, <1>10, <1>14 DEF RateLines, ReadLines, IsAdd
<1>15. CASE CascadeDelete(s)
  BY <1>4, <1>10, <1>15 DEF CascadeDelete, ReadLines, IsAdd
<1>16. CASE EditLine(s)
  <2> DEFINE k == op[s].line
             new == [db.lines[k] EXCEPT !.price = op[s].price]
  <2>1. /\ op[s].kind = "edit" /\ k \in DOMAIN db.lines /\ UNCHANGED removed /\ ~IsAdd(s)
        /\ base' = [base EXCEPT ![s].lines = [l \in {k} |-> db.lines[k]]]
        /\ mem' = [mem EXCEPT ![s].lines = [l \in {k} |-> new]]
    BY <1>16 DEF EditLine, ReadLines, IsAdd
  <2>2. db.lines[k] \in Line /\ op[s].price \in Prices
    BY <1>3, <1>6, <2>1, CommandFields
  <2>3. new \in Line
    BY <2>2 DEF Line
  <2> HIDE DEF k, new
  <2> QED
    BY <1>8, <2>1, <2>3
<1>17. CASE GroupLine(s)
  <2> DEFINE k == op[s].line
             new == [db.lines[k] EXCEPT !.group = op[s].group]
  <2>1. /\ op[s].kind = "group_line" /\ k \in DOMAIN db.lines /\ UNCHANGED removed /\ ~IsAdd(s)
        /\ base' = [base EXCEPT ![s].lines = [l \in {k} |-> db.lines[k]]]
        /\ mem' = [mem EXCEPT ![s].lines = [l \in {k} |-> new]]
    BY <1>17 DEF GroupLine, ReadLines, IsAdd
  <2>2. db.lines[k] \in Line /\ op[s].group \in Groups
    BY <1>3, <1>6, <2>1, CommandFields
  <2>3. new \in Line
    BY <2>2 DEF Line
  <2> HIDE DEF k, new
  <2> QED
    BY <1>8, <2>1, <2>3
<1> QED
  BY <1>7, <1>11, <1>12, <1>13, <1>14, <1>15, <1>16, <1>17 DEF ReadStep

\* The flush writes what the session has changed, or nothing.
LEMMA FlushKeeps ==
    ASSUME IInv, NEW s \in Sessions, Flush(s) PROVE IInv'
<1>1. TypeOK /\ ShapeOf(s)
  BY DEF IInv, Shape
<1>2. /\ pc[s] = "flush" /\ UNCHANGED <<db, op, mem, removed, outcome, alone>>
      /\ pc' = [pc EXCEPT ![s] = IF op[s].kind = "version" THEN "commit" ELSE "price"]
  BY DEF Flush, Goto
<1>3. /\ outcome[s] = "pending" /\ op[s].kind # "delete"
      /\ base[s].est \in Estimate /\ mem[s].est \in Estimate
  BY <1>1, <1>2 DEF ShapeOf
<1>4. /\ pc'[s] \in {"price", "commit"}
      /\ \A t \in Sessions : t # s => pc'[t] = pc[t]
      /\ pc' \in [Sessions -> {"idle", "load", "read", "flush", "price", "commit", "done"}]
  BY <1>1, <1>2 DEF TypeOK
<1>5. IsAdd(s)' <=> IsAdd(s)
  BY <1>2 DEF IsAdd
<1>6. CASE Writes(s)
  <2>1. /\ Granted(s) /\ Accepted(s)
        /\ writer' = s /\ txn' = Written(s) /\ base' = [base EXCEPT ![s] = mem[s]]
    BY <1>6 DEF Flush
  <2>2. /\ base'[s] = mem[s] /\ DOMAIN base' = Sessions
        /\ \A t \in Sessions : t # s => base'[t] = base[t]
    BY <1>1, <2>1 DEF TypeOK
  <2>3. /\ IsStore(Written(s)) /\ NoOrphan(Written(s))
        /\ DOMAIN Written(s).lines = (DOMAIN Seen(s).lines \ removed[s]) \cup Added(s)
    BY <1>2, <2>1, WrittenStore
  <2>4. TypeOK'
    BY <1>1, <1>2, <1>4, <2>1, <2>2, <2>3 DEF TypeOK
  <2>5. Quiet(s)
    BY <1>1, <1>2, <1>3, <1>4, <2>2 DEF Quiet, TypeOK
  <2>6. ShapeOf(s)'
    BY <1>1, <1>2, <1>3, <1>4, <1>5, <2>2, <2>5, QuietKeeps DEF ShapeOf
  <2>7. Transaction'
    <3>1. /\ DOMAIN Seen(s).lines \subseteq DOMAIN db.lines \cup {s}
          /\ DOMAIN db.lines \ removed[s] \subseteq DOMAIN Seen(s).lines
          /\ s \in DOMAIN base[s].lines => s \in DOMAIN Seen(s).lines
          /\ s \in DOMAIN Seen(s).lines => IsAdd(s)
      BY <1>2, <2>1, SeenStore
    <3>2. /\ Added(s) \subseteq {s} /\ (Added(s) # {} => IsAdd(s))
          /\ s \in DOMAIN mem[s].lines => s \in Added(s) \cup DOMAIN base[s].lines
      BY <1>1 DEF Added, ShapeOf
    <3>3. s \notin removed[s]
      BY <1>1, <1>3, EstimateConstants DEF ShapeOf, Acked
    <3>4. \A t \in Sessions : t \in DOMAIN base'[t].lines /\ pc'[t] # "done" => writer' = t
      BY <1>4, <2>1, <2>2, EstimateConstants DEF IInv, Transaction, Granted
    <3>5. \A t \in Sessions : writer' = t => pc'[t] \in {"price", "commit"}
      BY <1>4, <2>1
    <3>6. /\ DOMAIN txn'.lines \subseteq DOMAIN db'.lines \cup {s}
          /\ DOMAIN db'.lines \ removed'[s] \subseteq DOMAIN txn'.lines
          /\ s \in DOMAIN txn'.lines => IsAdd(s)'
      BY <1>2, <1>5, <2>1, <2>3, <3>1, <3>2
    <3>7. s \in DOMAIN base'[s].lines => s \in DOMAIN txn'.lines
      BY <2>1, <2>2, <2>3, <3>1, <3>2, <3>3
    <3>8. NoOrphan(txn)'
      BY <2>1, <2>3 DEF NoOrphan
    <3> QED
      BY <2>1, <3>4, <3>5, <3>6, <3>7, <3>8 DEF Transaction, IsAdd
  <2> QED
    BY <2>4, <2>5, <2>6, <2>7, QuietKeeps DEF IInv
<1>7. CASE ~Writes(s)
  <2>1. UNCHANGED <<txn, writer, base>>
    BY <1>7 DEF Flush
  <2>2. TypeOK'
    BY <1>1, <1>2, <1>4, <2>1 DEF TypeOK
  <2>3. Quiet(s)
    BY <1>1, <1>2, <1>3, <1>4, <2>1 DEF Quiet, TypeOK
  <2>4. ShapeOf(s)'
    BY <1>1, <1>2, <1>3, <1>4, <1>5, <2>1, <2>3, QuietKeeps DEF ShapeOf
  <2>5. Transaction'
    BY <1>2, <1>4, <2>1, <2>3, TransactionStays
  <2> QED
    BY <2>2, <2>3, <2>4, <2>5, QuietKeeps DEF IInv
<1> QED
  BY <1>6, <1>7

\* The estimate gets its total.
LEMMA PriceKeeps ==
    ASSUME IInv, NEW s \in Sessions, Price(s) PROVE IInv'
<1> DEFINE rows == Seen(s).lines
           known == [l \in DOMAIN rows |->
               IF l \in DOMAIN mem[s].lines THEN mem[s].lines[l] ELSE rows[l]]
           total == Total(mem[s].est.markup, known)
<1>1. TypeOK /\ ShapeOf(s)
  BY DEF IInv, Shape
<1>2. /\ pc[s] = "price" /\ UNCHANGED <<db, txn, writer, op, base, removed, outcome, alone>>
      /\ pc' = [pc EXCEPT ![s] = "commit"] /\ mem' = [mem EXCEPT ![s].est.total = total]
  BY DEF Price, Goto
<1>3. /\ outcome[s] = "pending" /\ op[s].kind # "delete" /\ mem[s].est \in Estimate
      /\ IsStore(mem[s])
  BY <1>1, <1>2 DEF ShapeOf, TypeOK
<1>4. total \in Nat
  <2>1. IsRows(rows) /\ IsRows(mem[s].lines)
    BY <1>1 DEF TypeOK, Seen, IsStore
  <2> HIDE DEF rows
  <2>2. known \in [DOMAIN rows -> Line] /\ DOMAIN rows \in SUBSET LineIds
    BY <2>1 DEF IsRows
  <2> HIDE DEF known
  <2>3. IsRows(known)
    BY <2>2, RowsByLine
  <2>4. mem[s].est.markup \in Markups
    BY <1>3 DEF Estimate
  <2> QED
    BY <2>3, <2>4, TotalType
<1> HIDE DEF rows, known, total
<1>5. /\ mem'[s] = [est |-> [mem[s].est EXCEPT !.total = total], lines |-> mem[s].lines]
      /\ \A t \in Sessions : t # s => mem'[t] = mem[t] /\ pc'[t] = pc[t]
      /\ DOMAIN mem' = Sessions /\ pc'[s] = "commit"
  <2>1. mem[s] = [est |-> mem[s].est, lines |-> mem[s].lines]
    BY <1>3 DEF IsStore
  <2>2. /\ mem'[s] = [mem[s] EXCEPT !.est = [mem[s].est EXCEPT !.total = total]]
        /\ \A t \in Sessions : t # s => mem'[t] = mem[t] /\ pc'[t] = pc[t]
        /\ DOMAIN mem' = Sessions /\ pc'[s] = "commit"
    BY <1>1, <1>2 DEF TypeOK
  <2> QED
    BY <2>1, <2>2
<1>6. [mem[s].est EXCEPT !.total = total] \in Estimate
  BY <1>3, <1>4 DEF Estimate
<1>7. IsStore(mem'[s])
  BY <1>3, <1>5, <1>6, StoreParts DEF IsStore
<1>8. TypeOK'
  BY <1>1, <1>2, <1>5, <1>7 DEF TypeOK
<1>9. Quiet(s)
  BY <1>1, <1>2, <1>3, <1>5 DEF Quiet, TypeOK
<1>10. ShapeOf(s)'
  <2>1. mem'[s].est \in Estimate /\ mem'[s].lines = mem[s].lines
    BY <1>5, <1>6
  <2>2. IsAdd(s)' <=> IsAdd(s)
    BY <1>2 DEF IsAdd
  <2> QED
    BY <1>1, <1>2, <1>3, <1>5, <1>9, <2>1, <2>2, QuietKeeps DEF ShapeOf
<1>11. Transaction'
  BY <1>2, <1>5, <1>9, TransactionStays
<1> QED
  BY <1>8, <1>9, <1>10, <1>11, QuietKeeps DEF IInv

\* A call fails and is rolled back.
LEMMA FailKeeps ==
    ASSUME IInv, NEW s \in Sessions, Fail(s) PROVE IInv'
<1>1. TypeOK /\ ShapeOf(s)
  BY DEF IInv, Shape
<1>2. /\ pc[s] \in {"flush", "commit"}
      /\ UNCHANGED <<db, txn, op, base, mem, removed, alone>>
      /\ writer' = IF writer = s THEN NoOne ELSE writer
      /\ pc' = [pc EXCEPT ![s] = "done"] /\ outcome' = [outcome EXCEPT ![s] = "failed"]
  BY DEF Fail, Needs, Finish, Goto
<1>3. /\ outcome[s] = "pending" /\ op[s] \in Commands
      /\ pc'[s] = "done" /\ outcome'[s] = "failed"
      /\ \A t \in Sessions : t # s => pc'[t] = pc[t] /\ outcome'[t] = outcome[t]
  BY <1>1, <1>2 DEF TypeOK, ShapeOf
<1>4. TypeOK'
  BY <1>1, <1>2 DEF TypeOK
<1>5. Quiet(s)
  BY <1>2, <1>3, <1>4 DEF Quiet, TypeOK
<1>6. ShapeOf(s)'
  <2>1. IsAdd(s)' <=> IsAdd(s)
    BY <1>2 DEF IsAdd
  <2> QED
    BY <1>1, <1>2, <1>3, <1>5, <2>1, QuietKeeps DEF ShapeOf
<1>7. Transaction'
  <2>1. CASE writer = s
    <3>1. writer' = NoOne
      BY <1>2, <2>1
    <3>2. \A t \in Sessions : ~(t \in DOMAIN base'[t].lines /\ pc'[t] # "done")
      BY <1>2, <1>3, <2>1 DEF IInv, Transaction
    <3> QED
      BY <3>1, <3>2, EstimateConstants DEF Transaction
  <2>2. CASE writer # s
    BY <1>2, <1>3, <1>5, <2>2, TransactionStays
  <2> QED
    BY <2>1, <2>2
<1> QED
  BY <1>4, <1>5, <1>6, <1>7, QuietKeeps DEF IInv

\* The commit is what the others will see, and the client is told.
LEMMA CommitKeeps ==
    ASSUME IInv, NEW s \in Sessions, Commit(s) PROVE IInv'
<1>1. TypeOK /\ ShapeOf(s)
  BY DEF IInv, Shape
<1>2. /\ pc[s] = "commit" /\ Granted(s) /\ Accepted(s)
      /\ db' = Written(s) /\ txn' = Written(s) /\ writer' = NoOne
      /\ pc' = [pc EXCEPT ![s] = "done"] /\ outcome' = [outcome EXCEPT ![s] = "ok"]
      /\ UNCHANGED <<op, base, mem, removed>> /\ alone' \in [Sessions -> BOOLEAN]
  BY <1>1 DEF Commit, Finish, Goto, TypeOK
<1>3. /\ outcome[s] = "pending" /\ op[s] \in Commands
      /\ pc'[s] = "done" /\ outcome'[s] = "ok"
      /\ \A t \in Sessions : t # s => pc'[t] = pc[t] /\ outcome'[t] = outcome[t]
  BY <1>1, <1>2 DEF TypeOK, ShapeOf
<1>4. /\ IsStore(Written(s)) /\ NoOrphan(Written(s))
      /\ DOMAIN Written(s).lines = (DOMAIN Seen(s).lines \ removed[s]) \cup Added(s)
  BY <1>2, WrittenStore
<1>5. /\ DOMAIN Seen(s).lines \subseteq DOMAIN db.lines \cup {s}
      /\ DOMAIN db.lines \ removed[s] \subseteq DOMAIN Seen(s).lines
      /\ s \in DOMAIN base[s].lines => s \in DOMAIN Seen(s).lines
      /\ s \in DOMAIN Seen(s).lines => IsAdd(s)
  BY <1>2, SeenStore
<1>6. /\ Added(s) \subseteq {s} /\ (Added(s) # {} => IsAdd(s))
      /\ s \in DOMAIN mem[s].lines => s \in Added(s) \cup DOMAIN base[s].lines
      /\ IsAdd(s) => s \in DOMAIN mem[s].lines
  BY <1>1, <1>2 DEF Added, ShapeOf
<1>7. s \notin Acked
  BY <1>3, EstimateConstants DEF Acked
<1>8. /\ Acked \subseteq Acked' /\ (IsAdd(s) => s \in Acked')
  <2>1. \A t \in Sessions : outcome[t] = "ok" => outcome'[t] = "ok"
    BY <1>3
  <2> QED
    BY <1>2, <1>3, <2>1 DEF Acked, IsAdd
<1>9. \A t \in Sessions : removed[t] \subseteq Acked
  BY DEF IInv, Shape, ShapeOf
<1>10. /\ DOMAIN db'.lines \subseteq DOMAIN db.lines \cup {s}
       /\ DOMAIN db.lines \ removed[s] \subseteq DOMAIN db'.lines
       /\ s \in DOMAIN db'.lines => IsAdd(s)
       /\ IsAdd(s) => s \in DOMAIN db'.lines
       /\ removed[s] \cap DOMAIN db'.lines = {}
  BY <1>2, <1>4, <1>5, <1>6, <1>7, <1>9
<1>11. TypeOK'
  BY <1>1, <1>2, <1>4 DEF TypeOK
<1>12. Shape'
  <2>1. ASSUME NEW t \in Sessions PROVE ShapeOf(t)'
    <3>1. ShapeOf(t) /\ (IsAdd(t)' <=> IsAdd(t))
      BY <1>2 DEF IInv, Shape, IsAdd
    <3>2. CASE t = s
      BY <1>2, <1>3, <1>8, <3>1, <3>2 DEF ShapeOf
    <3>3. CASE t # s
      BY <1>2, <1>3, <1>8, <3>1, <3>3 DEF ShapeOf
    <3> QED
      BY <3>2, <3>3
  <2> QED
    BY <2>1 DEF Shape
<1>13. Transaction'
  <2>1. \A t \in Sessions : ~(t \in DOMAIN base'[t].lines /\ pc'[t] # "done")
    BY <1>2, <1>3, EstimateConstants DEF IInv, Transaction, Granted
  <2> QED
    BY <1>2, <2>1, EstimateConstants DEF Transaction
<1>14. NoOrphanLines'
  BY <1>2, <1>4 DEF NoOrphanLines, NoOrphan
<1>15. DOMAIN db'.lines \subseteq Acked'
  BY <1>8, <1>10 DEF IInv
<1>16. AcknowledgedLines'
  <2> SUFFICES ASSUME NEW t \in Sessions, outcome'[t] = "ok"
               PROVE  /\ op[t].kind \in {"add", "template"} =>
                            \/ t \in DOMAIN db'.lines
                            \/ \E u \in Sessions : outcome'[u] = "ok" /\ t \in removed[u]
                      /\ removed[t] \cap DOMAIN db'.lines = {}
    BY <1>2 DEF AcknowledgedLines
  <2>1. CASE t = s
    BY <1>10, <2>1 DEF IsAdd
  <2>2. CASE t # s
    <3>1. /\ outcome[t] = "ok"
          /\ op[t].kind \in {"add", "template"} =>
                \/ t \in DOMAIN db.lines
                \/ \E u \in Sessions : outcome[u] = "ok" /\ t \in removed[u]
          /\ removed[t] \cap DOMAIN db.lines = {}
      BY <1>3, <2>2 DEF IInv, AcknowledgedLines
    <3>2. removed[t] \cap DOMAIN db'.lines = {}
      BY <1>7, <1>9, <1>10, <3>1
    <3>3. \A u \in Sessions : outcome[u] = "ok" => outcome'[u] = "ok"
      BY <1>3
    <3>4. t \in DOMAIN db.lines => t \in DOMAIN db'.lines \/ t \in removed[s]
      BY <1>10
    <3> QED
      BY <1>3, <3>1, <3>2, <3>3, <3>4
  <2> QED
    BY <2>1, <2>2
<1> QED
  BY <1>11, <1>12, <1>13, <1>14, <1>15, <1>16 DEF IInv

-----------------------------------------------------------------------------
\* Every step keeps the invariant.
LEMMA Preserved == IInv /\ [Next]_vars => IInv'
<1> SUFFICES ASSUME IInv, [Next]_vars PROVE IInv'
  OBVIOUS
<1>1. ASSUME NEW s \in Sessions, Begin(s) \/ Step(s) PROVE IInv'
  BY <1>1, BeginKeeps, LoadKeeps, ReadKeeps, LineNotFoundKeeps, FlushKeeps, PriceKeeps,
     CommitKeeps, FailKeeps DEF Step
<1>2. CASE UNCHANGED vars
  BY <1>2 DEF vars, IInv, TypeOK, Shape, ShapeOf, Transaction, NoOrphan, NoOrphanLines,
     AcknowledgedLines, Acked, IsAdd
<1> QED
  BY <1>1, <1>2 DEF Next

\* The invariant holds throughout.
LEMMA Inductive == Spec => []IInv
BY Initially, Preserved, PTL DEF Spec

\* The variables keep their types: whatever the calls, every row that is
\* loaded, changed, merged column by column and written is a row of the schema.
THEOREM EstimatesTypeCorrect == Spec => []TypeOK
<1>1. IInv => TypeOK
  BY DEF IInv
<1> QED
  BY <1>1, Inductive, PTL

\* No line outlives its estimate: a call that adds a line and one that deletes
\* the estimate may overlap in any way, and one of them is refused.
THEOREM NoLineIsOrphaned == Spec => []NoOrphanLines
<1>1. IInv => NoOrphanLines
  BY DEF IInv
<1> QED
  BY <1>1, Inductive, PTL

\* A line a client was told it added stays until someone removes it or its
\* estimate, and no session that still remembers a removed line restores it.
THEOREM AcknowledgedLinesStay == Spec => []AcknowledgedLines
<1>1. IInv => AcknowledgedLines
  BY DEF IInv
<1> QED
  BY <1>1, Inductive, PTL

-----------------------------------------------------------------------------
(* Calls that nothing was committed during.  Such a call works on the rows  *)
(* it would read again, and its commit leaves what it worked out.           *)

\* A call that has loaded the estimate, and nothing was committed since.
Undisturbed(s) == alone[s] /\ pc[s] \in {"read", "flush", "price", "commit"}

\* What the session remembers to have read is what it would read again.
Faithful(s) ==
    /\ base[s].est = Seen(s).est
    /\ \A l \in DOMAIN base[s].lines \ removed[s] :
        l \in DOMAIN Seen(s).lines /\ base[s].lines[l] = Seen(s).lines[l]

\* Nothing that the handler did to the lines is left to be written.
Flushed(s) ==
    Added(s) = {} /\ ChangedLines(s) = {} /\ removed[s] \cap DOMAIN Seen(s).lines = {}

\* A call that leaves lines and markup alone.
Neutral(s) ==
    /\ base[s].lines = NoLines /\ mem[s].lines = NoLines /\ removed[s] = {}
    /\ mem[s].est.markup = base[s].est.markup
    /\ Seen(s).lines = db.lines /\ Seen(s).est.markup = db.est.markup

\* The line is at its index, or last, among lines numbered from 0.
Placed(c, rows) ==
    LET n == Cardinality(DOMAIN rows)
    IN  /\ c.line \in DOMAIN rows
        /\ {rows[l].order : l \in DOMAIN rows} = 0..(n - 1)
        /\ rows[c.line].order = IF c.index < n THEN c.index ELSE n - 1

Reordered(s) ==
    /\ DOMAIN mem[s].lines = DOMAIN Seen(s).lines /\ removed[s] = {}
    /\ Placed(op[s], mem[s].lines)

CalmOf(s) ==
    Undisturbed(s) =>
        /\ db.est # NoRow /\ ~RefusesLocked(op[s], db.est)
        /\ Faithful(s)
        /\ pc[s] = "price" \/ (pc[s] = "commit" /\ Reprices(op[s])) => Flushed(s)
        /\ pc[s] = "commit" /\ Reprices(op[s]) =>
            mem[s].est.total = Total(mem[s].est.markup, Seen(s).lines)
        /\ op[s].kind \in {"status", "unlock", "recalc", "version"} => Neutral(s)
        /\ op[s].kind = "reorder" /\ pc[s] # "read" => Reordered(s)

Calm == \A s \in Sessions : CalmOf(s)

-----------------------------------------------------------------------------
\* Rows are equal if they have the same lines.
LEMMA SameRows ==
    ASSUME NEW a, NEW b, IsRows(a), IsRows(b), DOMAIN a = DOMAIN b,
           \A l \in DOMAIN a : a[l] = b[l]
    PROVE  a = b
BY DEF IsRows

\* A merge over the row that was read gives the changed row.
LEMMA MergedOverOld ==
    /\ \A a, b \in Estimate : Merged(a, b, b) = a
    /\ \A a, b \in Line : Merged(a, b, b) = a
<1>1. ASSUME NEW a \in Estimate, NEW b \in Estimate PROVE Merged(a, b, b) = a
  BY DEF Merged, Estimate
<1>2. ASSUME NEW a \in Line, NEW b \in Line PROVE Merged(a, b, b) = a
  BY DEF Merged, Line
<1> QED BY <1>1, <1>2

\* What a call has in hand, and sees.
LEMMA InHand ==
    ASSUME IInv, NEW s \in Sessions
    PROVE  /\ TypeOK /\ ShapeOf(s) /\ s # NoOne
           /\ IsStore(Seen(s)) /\ IsRows(Seen(s).lines)
           /\ IsStore(mem[s]) /\ IsRows(mem[s].lines)
           /\ IsStore(base[s]) /\ IsRows(base[s].lines)
           /\ pc[s] \in {"idle", "load", "read", "flush"} => writer # s /\ Seen(s) = db
<1>1. TypeOK /\ ShapeOf(s) /\ s # NoOne
  BY EstimateConstants DEF IInv, Shape
<1>2. IsStore(Seen(s)) /\ IsStore(mem[s]) /\ IsStore(base[s])
  BY <1>1 DEF TypeOK, Seen
<1>3. pc[s] \in {"idle", "load", "read", "flush"} => writer # s
  BY DEF IInv, Transaction
<1> QED BY <1>1, <1>2, <1>3 DEF IsStore, Seen

\* A flush of a faithful memory writes what is remembered.
LEMMA WrittenAsRemembered ==
    ASSUME IInv, NEW s \in Sessions, Granted(s), Accepted(s), pc[s] \in {"flush", "commit"},
           Faithful(s)
    PROVE  /\ Written(s).est = IF op[s].kind = "delete" THEN NoRow ELSE mem[s].est
           /\ DOMAIN Written(s).lines = (DOMAIN Seen(s).lines \ removed[s]) \cup Added(s)
           /\ IsRows(Written(s).lines)
           /\ \A l \in DOMAIN Written(s).lines : Written(s).lines[l] =
                IF l \in DOMAIN mem[s].lines THEN mem[s].lines[l] ELSE Seen(s).lines[l]
<1>1. /\ IsRows(Seen(s).lines) /\ IsRows(mem[s].lines) /\ IsRows(base[s].lines)
      /\ base[s].est \in Estimate /\ mem[s].est \in Estimate /\ NoRow \notin Estimate
      /\ DOMAIN base[s].lines \subseteq DOMAIN mem[s].lines
  BY InHand, EstimateConstants DEF ShapeOf
<1>2. /\ DOMAIN Written(s).lines = (DOMAIN Seen(s).lines \ removed[s]) \cup Added(s)
      /\ IsStore(Written(s))
  BY WrittenStore
<1>3. Written(s).est = IF op[s].kind = "delete" THEN NoRow ELSE mem[s].est
  BY <1>1, MergedOverOld DEF Written, Faithful
<1>4. ASSUME NEW l \in DOMAIN Written(s).lines
      PROVE  Written(s).lines[l] =
                IF l \in DOMAIN mem[s].lines THEN mem[s].lines[l] ELSE Seen(s).lines[l]
  <2>0. l \in (DOMAIN Seen(s).lines \ removed[s]) \cup Added(s)
    BY <1>2
  <2>1. Written(s).lines[l] =
            IF l \in Added(s) THEN mem[s].lines[l]
            ELSE IF l \in ChangedLines(s)
            THEN Merged(mem[s].lines[l], base[s].lines[l], Seen(s).lines[l])
            ELSE Seen(s).lines[l]
    BY <2>0 DEF Written
  <2>2. CASE l \in Added(s)
    BY <2>1, <2>2 DEF Added
  <2>3. CASE l \notin Added(s) /\ l \in ChangedLines(s)
    <3>1. /\ l \in DOMAIN base[s].lines /\ l \in DOMAIN mem[s].lines
          /\ base[s].lines[l] = Seen(s).lines[l]
      BY <1>1, <2>3 DEF ChangedLines, Faithful
    <3>2. base[s].lines[l] \in Line /\ mem[s].lines[l] \in Line
      BY <1>1, <3>1 DEF IsRows
    <3> QED BY <2>1, <2>3, <3>1, <3>2, MergedOverOld
  <2>4. CASE l \notin Added(s) /\ l \notin ChangedLines(s)
    <3>1. l \in DOMAIN mem[s].lines =>
            l \in DOMAIN base[s].lines \ removed[s] /\ mem[s].lines[l] = base[s].lines[l]
      BY <2>0, <2>4 DEF Added, ChangedLines
    <3> QED BY <2>1, <2>4, <3>1 DEF Faithful
  <2> QED BY <2>2, <2>3, <2>4
<1> QED BY <1>2, <1>3, <1>4 DEF IsStore

\* With nothing left to write, the store is what is seen.
LEMMA NothingLeft ==
    ASSUME IInv, NEW s \in Sessions, Faithful(s), Flushed(s)
    PROVE  \A l \in DOMAIN Seen(s).lines :
                l \in DOMAIN mem[s].lines => mem[s].lines[l] = Seen(s).lines[l]
<1> SUFFICES ASSUME NEW l \in DOMAIN Seen(s).lines, l \in DOMAIN mem[s].lines
             PROVE  mem[s].lines[l] = Seen(s).lines[l]
  OBVIOUS
<1>1. l \in DOMAIN base[s].lines \ removed[s]
  BY DEF Flushed, Added
<1>2. mem[s].lines[l] = base[s].lines[l]
  BY <1>1 DEF Flushed, ChangedLines
<1> QED BY <1>1, <1>2 DEF Faithful

\* A step of one call that commits nothing leaves the others as they are.
LEMMA CalmStays ==
    ASSUME IInv, Calm, NEW s \in Sessions, CalmOf(s)', db' = db,
           \A t \in Sessions : t # s =>
                /\ pc'[t] = pc[t] /\ op'[t] = op[t] /\ base'[t] = base[t] /\ mem'[t] = mem[t]
                /\ removed'[t] = removed[t] /\ alone'[t] = alone[t],
           UNCHANGED <<writer, txn>> \/ (writer \in {s, NoOne} /\ writer' \in {s, NoOne})
    PROVE  Calm'
<1> SUFFICES ASSUME NEW t \in Sessions, t # s PROVE CalmOf(t)'
  BY DEF Calm
<1>1. /\ pc'[t] = pc[t] /\ op'[t] = op[t] /\ base'[t] = base[t] /\ mem'[t] = mem[t]
      /\ removed'[t] = removed[t] /\ alone'[t] = alone[t]
  OBVIOUS
<1>2. Seen(t)' = Seen(t)
  BY EstimateConstants DEF Seen
<1>3. (Undisturbed(t)' <=> Undisturbed(t)) /\ (Faithful(t)' <=> Faithful(t))
  BY <1>1, <1>2 DEF Undisturbed, Faithful
<1>4. (Flushed(t)' <=> Flushed(t)) /\ (Neutral(t)' <=> Neutral(t)) /\ (Reordered(t)' <=> Reordered(t))
  BY <1>1, <1>2 DEF Flushed, Added, ChangedLines, Neutral, Reordered, Placed
<1>5. Total(mem[t].est.markup, Seen(t).lines)' = Total(mem[t].est.markup, Seen(t).lines)
  BY <1>1, <1>2 DEF Total
<1> QED BY <1>1, <1>3, <1>4, <1>5 DEF Calm, CalmOf

\* Positions are the numbers from 0, each once.
LEMMA PositionsFill ==
    ASSUME NEW r, IsRows(r), NEW f \in Positions(r)
    PROVE  /\ Cardinality(DOMAIN r) \in Nat
           /\ \A l \in DOMAIN r : f[l] \in 0..(Cardinality(DOMAIN r) - 1)
           /\ \A p \in 0..(Cardinality(DOMAIN r) - 1) : \E l \in DOMAIN r : f[l] = p
<1> DEFINE n == Cardinality(DOMAIN r)
           T == 0..(n - 1)
<1>1. n \in Nat
  BY LinesAreFinite
<1> HIDE DEF n
<1>2. IsFiniteSet(T) /\ Cardinality(T) = n
  <2>1. 0 \in Int /\ n - 1 \in Int
    BY <1>1
  <2>2. IsFiniteSet(0..(n - 1)) /\ Cardinality(0..(n - 1)) = IF 0 > n - 1 THEN 0 ELSE n - 1 - 0 + 1
    BY <2>1, FS_Interval
  <2> QED BY <1>1, <2>2
<1>3. /\ f \in [DOMAIN r -> 0..n] /\ \A l \in DOMAIN r : f[l] < n
      /\ \A k, l \in DOMAIN r : k # l => f[k] # f[l]
  BY DEF Positions, n
<1>4. f \in [DOMAIN r -> T]
  BY <1>1, <1>3
<1>5. f \in Injection(DOMAIN r, T)
  BY <1>3, <1>4 DEF Injection, IsInjective
<1>6. f \in Surjection(DOMAIN r, T)
  BY <1>2, <1>5, FS_Injection DEF n
<1>7. \A p \in T : \E l \in DOMAIN r : f[l] = p
  BY <1>6 DEF Surjection
<1> QED BY <1>1, <1>4, <1>7 DEF n

\* A line moved among the numbers from 0 leaves the numbers from 0.
LEMMA ShiftedFill ==
    ASSUME NEW n \in Nat, NEW from \in 0..(n - 1), NEW to \in 0..(n - 1)
    PROVE  /\ Shifted(from, from, to) = to
           /\ \A p \in 0..(n - 1) : Shifted(p, from, to) \in 0..(n - 1)
           /\ \A q \in 0..(n - 1) : \E p \in 0..(n - 1) : Shifted(p, from, to) = q
<1>1. Shifted(from, from, to) = to
  BY DEF Shifted
<1>2. \A p \in 0..(n - 1) : Shifted(p, from, to) \in 0..(n - 1)
  BY DEF Shifted
<1>3. ASSUME NEW q \in 0..(n - 1) PROVE \E p \in 0..(n - 1) : Shifted(p, from, to) = q
  <2> DEFINE r == IF q < to THEN q ELSE q - 1
             p == IF r >= from THEN r + 1 ELSE r
  <2>1. CASE q = to
    BY <1>1, <2>1
  <2>2. CASE q # to
    <3>1. p \in 0..(n - 1)
      BY <2>2
    <3>2. Shifted(p, from, to) = q
      BY <2>2 DEF Shifted
    <3> QED BY <3>1, <3>2
  <2> QED BY <2>1, <2>2
<1> QED BY <1>1, <1>2, <1>3

\* A reorder leaves its line at the index among lines numbered from 0.
LEMMA LinePlaced ==
    ASSUME NEW r, IsRows(r), NEW f \in Positions(r), NEW c, c.line \in DOMAIN r, c.index \in Nat,
           NEW to, to = IF c.index < Cardinality(DOMAIN r) - 1
                        THEN c.index ELSE Cardinality(DOMAIN r) - 1
    PROVE  Placed(c, [l \in DOMAIN r |-> [r[l] EXCEPT !.order = Shifted(f[l], f[c.line], to)]])
<1> DEFINE n == Cardinality(DOMAIN r)
           rows == [l \in DOMAIN r |-> [r[l] EXCEPT !.order = Shifted(f[l], f[c.line], to)]]
<1>1. /\ n \in Nat /\ \A l \in DOMAIN r : f[l] \in 0..(n - 1)
      /\ \A p \in 0..(n - 1) : \E l \in DOMAIN r : f[l] = p
  BY PositionsFill
<1>2. to \in 0..(n - 1) /\ to = IF c.index < n THEN c.index ELSE n - 1
  BY <1>1
<1>3. DOMAIN rows = DOMAIN r
  OBVIOUS
<1>4. \A l \in DOMAIN r : rows[l].order = Shifted(f[l], f[c.line], to)
  BY DEF IsRows, Line
<1> HIDE DEF n, rows
<1>5. /\ Shifted(f[c.line], f[c.line], to) = to
      /\ \A p \in 0..(n - 1) : Shifted(p, f[c.line], to) \in 0..(n - 1)
      /\ \A q \in 0..(n - 1) : \E p \in 0..(n - 1) : Shifted(p, f[c.line], to) = q
  <2>1. f[c.line] \in 0..(n - 1)
    BY <1>1
  <2>2. n \in Nat /\ to \in 0..(n - 1)
    BY <1>1, <1>2
  <2> QED BY ONLY <2>1, <2>2, ShiftedFill
<1>6. {rows[l].order : l \in DOMAIN rows} = 0..(n - 1)
  <2>1. \A l \in DOMAIN rows : rows[l].order \in 0..(n - 1)
    BY <1>1, <1>3, <1>4, <1>5
  <2>2. ASSUME NEW q \in 0..(n - 1) PROVE \E l \in DOMAIN rows : rows[l].order = q
    <3>1. PICK p \in 0..(n - 1) : Shifted(p, f[c.line], to) = q
      BY <1>5
    <3>2. PICK l \in DOMAIN r : f[l] = p
      BY <1>1
    <3> QED BY <1>3, <1>4, <3>1, <3>2
  <2> QED BY <2>1, <2>2
<1>7. Placed(c, rows)
  BY <1>2, <1>3, <1>4, <1>5, <1>6 DEF Placed, n
<1> QED BY <1>7 DEF rows

-----------------------------------------------------------------------------
\* A call that begins, or ends without a commit.
LEMMA EndsCalm ==
    ASSUME IInv, Calm, NEW s \in Sessions, Begin(s) \/ LineNotFound(s) \/ Fail(s)
    PROVE  Calm'
<1>1. pc'[s] \in {"load", "done"} /\ db' = db /\ TypeOK
  BY InHand DEF Begin, LineNotFound, Fail, Finish, Goto, TypeOK
<1>2. CalmOf(s)'
  BY <1>1 DEF CalmOf, Undisturbed
<1>3. \A t \in Sessions : t # s =>
        /\ pc'[t] = pc[t] /\ op'[t] = op[t] /\ base'[t] = base[t] /\ mem'[t] = mem[t]
        /\ removed'[t] = removed[t] /\ alone'[t] = alone[t]
  BY <1>1 DEF Begin, LineNotFound, Fail, Finish, Goto, TypeOK
<1>4. UNCHANGED <<writer, txn>> \/ (writer \in {s, NoOne} /\ writer' \in {s, NoOne})
  BY DEF Begin, LineNotFound, Fail
<1> QED BY <1>1, <1>2, <1>3, <1>4, CalmStays

\* The load reads the stored estimate; it was not refused.
LEMMA LoadCalm ==
    ASSUME IInv, Calm, NEW s \in Sessions, Load(s) PROVE Calm'
<1>1. /\ TypeOK /\ ShapeOf(s) /\ pc[s] = "load" /\ Seen(s) = db /\ writer # s
      /\ IsStore(base[s]) /\ IsStore(mem[s])
  BY InHand DEF Load
<1>2. /\ UNCHANGED <<db, txn, writer, op, removed>> /\ alone' = [alone EXCEPT ![s] = TRUE]
      /\ op[s] \in Commands /\ Seen(s)' = db
      /\ removed[s] = {} /\ base[s].lines = NoLines /\ mem[s].lines = NoLines
  BY <1>1 DEF Load, ShapeOf, Seen
<1>3. \A t \in Sessions : t # s =>
        /\ pc'[t] = pc[t] /\ op'[t] = op[t] /\ base'[t] = base[t] /\ mem'[t] = mem[t]
        /\ removed'[t] = removed[t] /\ alone'[t] = alone[t]
  BY <1>1, <1>2 DEF Load, Finish, Goto, TypeOK
<1>4. CASE db.est = NoRow \/ RefusesLocked(op[s], db.est)
  <2>1. pc'[s] = "done"
    BY <1>1, <1>4 DEF Load, Finish, Goto, TypeOK
  <2>2. CalmOf(s)'
    BY <2>1 DEF CalmOf, Undisturbed
  <2> QED BY <1>2, <1>3, <2>2, CalmStays
<1>5. CASE ~(db.est = NoRow \/ RefusesLocked(op[s], db.est))
  <2>1. /\ pc'[s] = AfterLoad(op[s])
        /\ base'[s] = [base[s] EXCEPT !.est = db.est]
        /\ mem'[s] = [mem[s] EXCEPT !.est = Handled(op[s], db.est)]
    BY <1>1, <1>5 DEF Load, Goto, TypeOK
  <2>2. /\ base'[s].est = db.est /\ base'[s].lines = NoLines
        /\ mem'[s].est = Handled(op[s], db.est) /\ mem'[s].lines = NoLines
    BY <1>1, <1>2, <2>1 DEF IsStore
  <2>3. Faithful(s)'
    BY <1>2, <2>2, EmptyStore DEF Faithful
  <2>4. op[s].kind \in {"status", "unlock", "recalc", "version"} => Neutral(s)'
    <3>1. ASSUME op[s].kind \in {"status", "unlock", "recalc", "version"}
          PROVE  Handled(op[s], db.est).markup = db.est.markup
      <4>1. db.est \in Estimate
        BY <1>1, <1>5 DEF TypeOK, IsStore
      <4> QED BY <3>1, <4>1 DEF Handled, Estimate
    <3> QED BY <1>2, <2>2, <3>1 DEF Neutral
  <2>5. /\ pc'[s] # "price" /\ (pc'[s] = "commit" => ~Reprices(op[s]))
        /\ op[s].kind = "reorder" => pc'[s] = "read"
    BY <2>1 DEF AfterLoad, Reprices
  <2>6. db.est # NoRow /\ ~RefusesLocked(op[s], db.est)
    BY <1>5
  <2>7. CalmOf(s)'
    BY <1>2, <2>3, <2>4, <2>5, <2>6 DEF CalmOf
  <2> QED BY <1>2, <1>3, <2>7, CalmStays
<1> QED BY <1>4, <1>5

\* The lines are read from the store, and a moved one is put in its place.
LEMMA ReadCalm ==
    ASSUME IInv, Calm, NEW s \in Sessions, ReadStep(s) PROVE Calm'
<1>1. /\ TypeOK /\ ShapeOf(s) /\ pc[s] = "read" /\ Seen(s) = db /\ writer # s
      /\ IsStore(base[s]) /\ IsStore(mem[s]) /\ IsRows(db.lines)
  BY InHand DEF ReadStep
<1>2. /\ UNCHANGED <<db, txn, writer, op, outcome, alone>>
      /\ op[s] \in Commands /\ Seen(s)' = db
      /\ removed[s] = {} /\ base[s].lines = NoLines /\ mem[s].lines = NoLines
      /\ pc' = [pc EXCEPT ![s] = IF op[s].kind = "delete" THEN "commit" ELSE "flush"]
  BY <1>1 DEF ReadStep, ShapeOf, Seen, Goto
<1>3. /\ pc'[s] = IF op[s].kind = "delete" THEN "commit" ELSE "flush"
      /\ \A t \in Sessions : t # s => pc'[t] = pc[t]
  BY <1>1, <1>2 DEF TypeOK
<1>4. SUFFICES ASSUME Undisturbed(s)
               PROVE  /\ base'[s].est = base[s].est
                      /\ \A l \in DOMAIN base'[s].lines \ removed'[s] :
                            l \in DOMAIN db.lines /\ base'[s].lines[l] = db.lines[l]
                      /\ op[s].kind \in {"add", "template", "edit", "remove", "reorder", "group",
                                         "group_line", "update", "delete"}
                      /\ op[s].kind = "reorder" =>
                            /\ DOMAIN mem'[s].lines = DOMAIN db.lines /\ removed'[s] = {}
                            /\ Placed(op[s], mem'[s].lines)
  <2>1. \A t \in Sessions : t # s =>
            /\ pc'[t] = pc[t] /\ op'[t] = op[t] /\ base'[t] = base[t] /\ mem'[t] = mem[t]
            /\ removed'[t] = removed[t] /\ alone'[t] = alone[t]
    BY <1>1, <1>2, <1>3 DEF TypeOK, ReadStep, AddLine, EditLine, RemoveLine, ReorderLine, GroupLines,
       GroupLine, RateLines, CascadeDelete, ReadLines
  <2>2. SUFFICES CalmOf(s)'
    BY <1>2, <2>1, CalmStays
  <2>3. SUFFICES ASSUME Undisturbed(s)' PROVE CalmOf(s)'
    BY DEF CalmOf
  <2>4. Undisturbed(s)
    BY <1>1, <1>2, <2>3 DEF Undisturbed
  <2>5. /\ db.est # NoRow /\ ~RefusesLocked(op[s], db.est) /\ base[s].est = db.est
    BY <1>1, <2>4 DEF Calm, CalmOf, Faithful
  <2>6. Faithful(s)'
    BY <1>2, <1>4, <2>4, <2>5 DEF Faithful
  <2>7. op[s].kind = "reorder" => Reordered(s)'
    <3>1. Placed(op[s], mem'[s].lines) <=> Placed(op[s], mem[s].lines)'
      BY <1>2 DEF Placed
    <3> QED BY <1>2, <1>4, <2>4, <3>1 DEF Reordered
  <2> QED BY <1>2, <1>3, <1>4, <2>4, <2>5, <2>6, <2>7 DEF CalmOf, Reprices
<1>5. /\ \A r : base' = [base EXCEPT ![s].lines = r] =>
            base'[s].est = base[s].est /\ base'[s].lines = r
      /\ \A r : mem' = [mem EXCEPT ![s].lines = r] => mem'[s].lines = r
  BY <1>1 DEF TypeOK, IsStore
<1>6. CASE AddLine(s)
  BY <1>2, <1>6, EmptyStore DEF AddLine
<1>7. CASE EditLine(s) \/ GroupLine(s)
  <2> DEFINE found == [l \in {op[s].line} |-> db.lines[op[s].line]]
  <2>1. /\ op[s].kind \in {"edit", "group_line"} /\ op[s].line \in DOMAIN db.lines
        /\ base' = [base EXCEPT ![s].lines = found]
    BY <1>7 DEF EditLine, GroupLine, ReadLines
  <2>2. \A l \in DOMAIN found : l \in DOMAIN db.lines /\ found[l] = db.lines[l]
    BY <2>1
  <2> HIDE DEF found
  <2>3. base'[s].est = base[s].est /\ base'[s].lines = found
    BY <1>5, <2>1
  <2> QED BY <2>1, <2>2, <2>3
<1>8. CASE RemoveLine(s) \/ GroupLines(s) \/ RateLines(s) \/ CascadeDelete(s)
  <2>1. /\ op[s].kind \in {"remove", "group", "update", "delete"}
        /\ base' = [base EXCEPT ![s].lines = db.lines]
    BY <1>8 DEF RemoveLine, GroupLines, RateLines, CascadeDelete, ReadLines
  <2> QED BY <1>5, <2>1
<1>9. CASE ReorderLine(s)
  <2>1. /\ op[s].kind = "reorder" /\ op[s].line \in DOMAIN db.lines /\ UNCHANGED removed
        /\ base' = [base EXCEPT ![s].lines = db.lines]
    BY <1>9 DEF ReorderLine, ReadLines
  <2> DEFINE last == Cardinality(DOMAIN db.lines) - 1
             to == IF op[s].index < last THEN op[s].index ELSE last
  <2>2. PICK f \in Positions(db.lines) : mem' = [mem EXCEPT ![s].lines =
            [l \in DOMAIN db.lines |->
                [db.lines[l] EXCEPT !.order = Shifted(f[l], f[op[s].line], to)]]]
    BY <1>9 DEF ReorderLine, ReadLines
  <2>3. op[s].index \in Nat
    BY <1>2, <2>1, CommandFields
  <2> DEFINE rows == [l \in DOMAIN db.lines |->
                        [db.lines[l] EXCEPT !.order = Shifted(f[l], f[op[s].line], to)]]
  <2>4. Placed(op[s], rows) /\ DOMAIN rows = DOMAIN db.lines
    BY <1>1, <2>1, <2>3, LinePlaced
  <2>5. mem'[s].lines = rows
    BY <1>5, <2>2
  <2> HIDE DEF rows, to
  <2> QED BY <1>2, <1>5, <2>1, <2>4, <2>5
<1> QED BY <1>6, <1>7, <1>8, <1>9 DEF ReadStep

\* The flush leaves nothing to be written, and the transaction as remembered.
LEMMA FlushCalm ==
    ASSUME IInv, Calm, NEW s \in Sessions, Flush(s) PROVE Calm'
<1>1. /\ TypeOK /\ ShapeOf(s) /\ pc[s] = "flush" /\ Seen(s) = db /\ writer # s
      /\ IsRows(mem[s].lines) /\ IsRows(db.lines) /\ s # NoOne
  BY InHand DEF Flush
<1>2. /\ UNCHANGED <<db, op, mem, removed, outcome, alone>>
      /\ pc'[s] = IF op[s].kind = "version" THEN "commit" ELSE "price"
      /\ \A t \in Sessions : t # s => pc'[t] = pc[t] /\ base'[t] = base[t]
      /\ UNCHANGED <<writer, txn>> \/ (writer \in {s, NoOne} /\ writer' = s)
  BY <1>1 DEF Flush, Goto, Granted, TypeOK
<1>3. SUFFICES ASSUME Undisturbed(s)
               PROVE  /\ Faithful(s)' /\ Flushed(s)'
                      /\ Neutral(s) => Neutral(s)'
                      /\ Reordered(s) => Reordered(s)'
  <2>1. SUFFICES CalmOf(s)'
    BY <1>2, CalmStays
  <2>2. SUFFICES ASSUME Undisturbed(s)' PROVE CalmOf(s)'
    BY DEF CalmOf
  <2>3. Undisturbed(s)
    BY <1>1, <1>2, <2>2 DEF Undisturbed
  <2>4. CalmOf(s)
    BY DEF Calm
  <2> QED BY <1>1, <1>2, <1>3, <2>3, <2>4 DEF CalmOf, Reprices
<1>4. CalmOf(s) /\ Faithful(s)
  BY <1>3 DEF Calm, CalmOf
<1>5. CASE Writes(s)
  <2>1. /\ Granted(s) /\ Accepted(s) /\ writer' = s /\ txn' = Written(s)
        /\ base'[s] = mem[s] /\ Seen(s)' = Written(s)
    BY <1>1, <1>5 DEF Flush, TypeOK, Seen
  <2>2. /\ Written(s).est = mem[s].est
        /\ DOMAIN Written(s).lines = (DOMAIN db.lines \ removed[s]) \cup Added(s)
        /\ IsRows(Written(s).lines)
        /\ \A l \in DOMAIN Written(s).lines : Written(s).lines[l] =
                IF l \in DOMAIN mem[s].lines THEN mem[s].lines[l] ELSE db.lines[l]
    BY <1>1, <1>4, <2>1, WrittenAsRemembered DEF ShapeOf
  <2>3. Added(s) \subseteq {s} /\ s \notin removed[s]
    BY <1>1, EstimateConstants DEF ShapeOf, Added, Acked
  <2>4. Faithful(s)'
    <3>1. \A l \in DOMAIN mem[s].lines \ removed[s] : l \in DOMAIN Written(s).lines
      BY <1>1, <1>4, <2>2 DEF Faithful, Added
    <3> QED BY <1>2, <2>1, <2>2, <3>1 DEF Faithful
  <2>5. Flushed(s)'
    BY <1>2, <2>1, <2>2, <2>3 DEF Flushed, Added, ChangedLines
  <2>6. Neutral(s) => Neutral(s)'
    <3> SUFFICES ASSUME Neutral(s) PROVE Neutral(s)'
      OBVIOUS
    <3>1. DOMAIN Written(s).lines = DOMAIN db.lines
      BY <2>2, EmptyStore DEF Neutral, Added
    <3>2. \A l \in DOMAIN db.lines : Written(s).lines[l] = db.lines[l]
      BY <2>2, <3>1, EmptyStore DEF Neutral
    <3>3. Written(s).lines = db.lines
      BY <1>1, <2>2, <3>1, <3>2, SameRows
    <3>4. mem[s].est.markup = db.est.markup
      BY <1>1, <1>4 DEF Neutral, Faithful
    <3> QED BY <1>2, <2>1, <2>2, <3>3, <3>4 DEF Neutral
  <2>7. Reordered(s) => Reordered(s)'
    <3>1. Placed(op[s], mem[s].lines)' <=> Placed(op[s], mem[s].lines)
      BY <1>2 DEF Placed
    <3> QED BY <1>1, <1>2, <2>1, <2>2, <3>1 DEF Reordered, Added
  <2> QED BY <2>4, <2>5, <2>6, <2>7
<1>6. CASE ~Writes(s)
  <2>1. UNCHANGED <<txn, writer, base>> /\ Seen(s)' = Seen(s)
    BY <1>2, <1>6 DEF Flush, Seen
  <2>2. Placed(op[s], mem[s].lines)' <=> Placed(op[s], mem[s].lines)
    BY <1>2 DEF Placed
  <2> QED
    BY <1>2, <1>4, <1>6, <2>1, <2>2
       DEF Faithful, Flushed, Neutral, Reordered, Writes, Added, ChangedLines
<1> QED BY <1>5, <1>6

\* The total is that of the lines the call sees.
LEMMA PriceCalm ==
    ASSUME IInv, Calm, NEW s \in Sessions, Price(s) PROVE Calm'
<1> DEFINE rows == Seen(s).lines
           known == [l \in DOMAIN rows |->
               IF l \in DOMAIN mem[s].lines THEN mem[s].lines[l] ELSE rows[l]]
<1>1. /\ TypeOK /\ ShapeOf(s) /\ pc[s] = "price" /\ IsStore(mem[s]) /\ IsRows(rows)
      /\ mem[s].est \in Estimate
  BY InHand DEF Price, ShapeOf
<1>2. /\ UNCHANGED <<db, txn, writer, op, base, removed, outcome, alone>>
      /\ pc'[s] = "commit" /\ Seen(s)' = Seen(s)
      /\ mem'[s] = [mem[s] EXCEPT !.est.total = Total(mem[s].est.markup, known)]
      /\ \A t \in Sessions : t # s => pc'[t] = pc[t] /\ mem'[t] = mem[t]
  BY <1>1 DEF Price, Goto, TypeOK, Seen
<1>3. /\ mem'[s].lines = mem[s].lines /\ mem'[s].est.markup = mem[s].est.markup
      /\ mem'[s].est.total = Total(mem[s].est.markup, known)
  <2> HIDE DEF known
  <2> QED BY <1>1, <1>2 DEF IsStore, Estimate
<1>4. SUFFICES ASSUME Undisturbed(s)' PROVE CalmOf(s)'
  BY <1>2, CalmStays DEF CalmOf
<1>5. Undisturbed(s) /\ CalmOf(s) /\ Faithful(s) /\ Flushed(s)
  BY <1>1, <1>2, <1>4 DEF Undisturbed, Calm, CalmOf
<1>6. known = rows
  <2>1. \A l \in DOMAIN rows : known[l] = rows[l]
    BY <1>5, NothingLeft
  <2> QED BY <1>1, <2>1 DEF IsRows
<1>7. mem'[s].est.total = Total(mem[s].est.markup, Seen(s).lines)'
  BY <1>2, <1>3, <1>6 DEF Total
<1>8. Faithful(s)' /\ Flushed(s)' /\ (Neutral(s) => Neutral(s)')
  BY <1>2, <1>3, <1>5 DEF Faithful, Flushed, Neutral, Added, ChangedLines
<1>9. Reordered(s) => Reordered(s)'
  BY <1>2, <1>3 DEF Reordered, Placed
<1> HIDE DEF known, rows
<1>10. Total(mem[s].est.markup, Seen(s).lines)' = Total(mem'[s].est.markup, Seen(s)'.lines)
  BY DEF Total
<1> QED BY <1>1, <1>2, <1>5, <1>7, <1>8, <1>9, <1>10 DEF CalmOf, Reprices

\* A commit disturbs every other call in progress.
LEMMA CommitCalm ==
    ASSUME IInv, Calm, NEW s \in Sessions, Commit(s) PROVE Calm'
<1>1. /\ TypeOK /\ pc' = [pc EXCEPT ![s] = "done"]
      /\ alone' = [t \in Sessions |-> alone[t] /\ (t = s \/ ~Open(t))]
  BY InHand DEF Commit, Finish, Goto
<1>2. ASSUME NEW t \in Sessions PROVE ~Undisturbed(t)'
  BY <1>1 DEF Undisturbed, Open, TypeOK
<1> QED BY <1>2 DEF Calm, CalmOf

\* Every step keeps undisturbed calls calm.
LEMMA CalmKept == IInv /\ Calm /\ [Next]_vars => Calm'
<1> SUFFICES ASSUME IInv, Calm, [Next]_vars PROVE Calm'
  OBVIOUS
<1>1. ASSUME NEW s \in Sessions, Begin(s) \/ Step(s) PROVE Calm'
  BY <1>1, EndsCalm, LoadCalm, ReadCalm, FlushCalm, PriceCalm, CommitCalm DEF Step
<1>2. CASE UNCHANGED vars
  BY <1>2 DEF vars, Calm, CalmOf, Undisturbed, Faithful, Flushed, Neutral, Reordered, Placed,
     Seen, Added, ChangedLines, Total
<1> QED BY <1>1, <1>2 DEF Next

\* The invariant holds throughout.
LEMMA CalmThroughout == Spec => []Calm
<1>1. Init => Calm
  BY DEF Init, Calm, CalmOf, Undisturbed
<1> QED BY <1>1, Inductive, CalmKept, PTL DEF Spec

\* An acknowledged call has committed what it remembers.
LEMMA CommitsItsMemory ==
    ASSUME IInv, Calm, [Next]_vars, NEW s \in Sessions, Commits(s), alone[s]
    PROVE  /\ CalmOf(s) /\ Undisturbed(s) /\ Faithful(s) /\ db' = Written(s)
           /\ UNCHANGED <<op, removed>>
           /\ db'.est = IF op[s].kind = "delete" THEN NoRow ELSE mem[s].est
           /\ DOMAIN db'.lines = (DOMAIN Seen(s).lines \ removed[s]) \cup Added(s)
           /\ IsRows(db'.lines)
           /\ \A l \in DOMAIN db'.lines : db'.lines[l] =
                IF l \in DOMAIN mem[s].lines THEN mem[s].lines[l] ELSE Seen(s).lines[l]
<1>1. pc[s] = "commit" /\ outcome'[s] = "ok" /\ outcome[s] = "pending" /\ TypeOK
  BY DEF Commits, IInv
<1>2. PICK t \in Sessions : Begin(t) \/ Step(t)
  BY <1>1 DEF Next, vars
<1>3. ~(Begin(t) \/ Load(t) \/ ReadStep(t) \/ LineNotFound(t) \/ Flush(t) \/ Price(t) \/ Fail(t))
  BY <1>1 DEF Begin, Load, ReadStep, LineNotFound, Flush, Price, Fail, Finish, TypeOK
<1>4. t = s /\ Commit(s)
  BY <1>1, <1>2, <1>3 DEF Step, Commit, Finish, TypeOK
<1>5. CalmOf(s) /\ Undisturbed(s) /\ Faithful(s)
  BY <1>1 DEF Calm, CalmOf, Undisturbed
<1>6. db' = Written(s) /\ Granted(s) /\ Accepted(s) /\ UNCHANGED <<op, removed>>
  BY <1>4 DEF Commit
<1> QED BY <1>1, <1>5, <1>6, WrittenAsRemembered

\* Its lines are those it sees, once all are flushed.
LEMMA CommitsItsLines ==
    ASSUME IInv, Calm, [Next]_vars, NEW s \in Sessions, Commits(s), alone[s], Reprices(op[s])
    PROVE  db'.lines = Seen(s).lines
<1>1. Faithful(s) /\ Flushed(s) /\ IsRows(Seen(s).lines)
  BY CommitsItsMemory, InHand DEF CalmOf, Commits
<1>2. DOMAIN db'.lines = DOMAIN Seen(s).lines
  BY <1>1, CommitsItsMemory DEF Flushed
<1>3. \A l \in DOMAIN db'.lines : db'.lines[l] = Seen(s).lines[l]
  BY <1>1, <1>2, CommitsItsMemory, NothingLeft
<1> QED BY <1>1, <1>2, <1>3, CommitsItsMemory, SameRows

\* Only overlapping commits can make a total stale.
THEOREM UndisturbedTotalsAreRight == Spec => UndisturbedTotalIsRight
<1> DEFINE Right == \A s \in Sessions : Commits(s) /\ alone[s] /\ Reprices(op[s]) => Consistent(db')
<1>1. ASSUME IInv, Calm, [Next]_vars PROVE Right
  <2> SUFFICES ASSUME NEW s \in Sessions, Commits(s), alone[s], Reprices(op[s]), db'.est # NoRow
               PROVE  db'.est.total = Total(db'.est.markup, db'.lines)
    BY DEF Consistent
  <2>1. db'.lines = Seen(s).lines
    BY <1>1, CommitsItsLines
  <2>2. db'.est = mem[s].est /\ mem[s].est.total = Total(mem[s].est.markup, Seen(s).lines)
    BY <1>1, CommitsItsMemory DEF CalmOf, Commits
  <2> QED BY <2>1, <2>2
<1>2. Right <=> \A s \in Sessions : Commits(s) /\ alone[s] /\ Reprices(op[s]) => Consistent(db')
  OBVIOUS
<1> HIDE DEF Right
<1> QED
  BY <1>1, <1>2, Inductive, CalmThroughout, PTL DEF Spec, UndisturbedTotalIsRight

\* Only a call that overlapped the locking can change a locked estimate.
THEOREM LocksHoldUndisturbed == Spec => LockHoldsUndisturbed
<1> DEFINE Holds ==
        \A s \in Sessions :
            Commits(s) /\ alone[s] /\ db.est # NoRow /\ db'.est # NoRow
            /\ db.est.status = "locked" /\ db'.est.status = "locked"
            => db'.lines = db.lines /\ db'.est.markup = db.est.markup
<1>1. ASSUME IInv, Calm, [Next]_vars PROVE Holds
  <2> SUFFICES ASSUME NEW s \in Sessions, Commits(s), alone[s], db.est.status = "locked",
                      db'.est # NoRow
               PROVE  db'.lines = db.lines /\ db'.est.markup = db.est.markup
    OBVIOUS
  <2>1. /\ CalmOf(s) /\ Undisturbed(s) /\ Faithful(s) /\ op[s].kind # "delete"
        /\ db'.est = mem[s].est /\ ~RefusesLocked(op[s], db.est)
        /\ op[s] \in Commands
    BY <1>1, CommitsItsMemory, InHand DEF CalmOf, Commits, ShapeOf
  <2>2. op[s].kind \in {"status", "unlock", "recalc", "version"}
    BY <2>1, CommandFields DEF RefusesLocked
  <2>3. Neutral(s)
    BY <2>1, <2>2 DEF CalmOf
  <2>4. DOMAIN db'.lines = DOMAIN db.lines
    <3>1. Added(s) = {} /\ removed[s] = {} /\ Seen(s).lines = db.lines
      BY <2>3, EmptyStore DEF Neutral, Added
    <3>2. DOMAIN db'.lines = (DOMAIN Seen(s).lines \ removed[s]) \cup Added(s)
      BY <1>1, CommitsItsMemory
    <3> QED BY <3>1, <3>2
  <2>5. \A l \in DOMAIN db'.lines : db'.lines[l] = db.lines[l]
    BY <1>1, <2>3, CommitsItsMemory, EmptyStore DEF Neutral
  <2>6. db'.lines = db.lines
    <3>1. IsRows(db'.lines)
      BY <1>1, CommitsItsMemory
    <3>2. IsRows(db.lines)
      BY <1>1, <2>3, InHand DEF Neutral
    <3> QED BY <2>4, <2>5, <3>1, <3>2, SameRows
  <2> QED BY <2>1, <2>3, <2>6 DEF Neutral, Faithful
<1>2. Holds <=> \A s \in Sessions :
            Commits(s) /\ alone[s] /\ db.est # NoRow /\ db'.est # NoRow
            /\ db.est.status = "locked" /\ db'.est.status = "locked"
            => db'.lines = db.lines /\ db'.est.markup = db.est.markup
  OBVIOUS
<1> HIDE DEF Holds
<1> QED
  BY <1>1, <1>2, Inductive, CalmThroughout, PTL DEF Spec, LockHoldsUndisturbed

\* An undisturbed reorder numbers the lines from 0 again and puts its line at
\* the index it was given, or last, whatever gaps and ties it found.
THEOREM ReordersRestorePositions == Spec => ReorderRestoresPositions
<1> DEFINE Restores ==
        \A s \in Sessions : Commits(s) /\ alone[s] /\ op[s].kind = "reorder" =>
            LET n == Cardinality(DOMAIN db'.lines)
            IN  /\ {db'.lines[l].order : l \in DOMAIN db'.lines} = 0..(n - 1)
                /\ db'.lines[op[s].line].order =
                    IF op[s].index < n THEN op[s].index ELSE n - 1
<1>1. ASSUME IInv, Calm, [Next]_vars PROVE Restores
  <2> SUFFICES ASSUME NEW s \in Sessions, Commits(s), alone[s], op[s].kind = "reorder"
               PROVE  Placed(op[s], db'.lines)
    BY DEF Placed
  <2>1. Reprices(op[s])
    BY DEF Reprices
  <2>2. Reordered(s) /\ IsRows(mem[s].lines)
    BY <1>1, CommitsItsMemory, InHand DEF CalmOf, Commits
  <2>3. db'.lines = Seen(s).lines
    BY <1>1, <2>1, CommitsItsLines
  <2>4. \A l \in DOMAIN db'.lines : db'.lines[l] = mem[s].lines[l]
    BY <1>1, <2>2, <2>3, CommitsItsMemory DEF Reordered
  <2>5. db'.lines = mem[s].lines
    BY <1>1, <2>2, <2>3, <2>4, CommitsItsMemory, SameRows DEF Reordered
  <2> QED BY <2>2, <2>5 DEF Reordered
<1>2. Restores <=> \A s \in Sessions : Commits(s) /\ alone[s] /\ op[s].kind = "reorder" =>
            LET n == Cardinality(DOMAIN db'.lines)
            IN  /\ {db'.lines[l].order : l \in DOMAIN db'.lines} = 0..(n - 1)
                /\ db'.lines[op[s].line].order =
                    IF op[s].index < n THEN op[s].index ELSE n - 1
  OBVIOUS
<1> HIDE DEF Restores
<1> QED
  BY <1>1, <1>2, Inductive, CalmThroughout, PTL DEF Spec, ReorderRestoresPositions
====
