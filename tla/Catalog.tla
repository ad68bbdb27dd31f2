---- MODULE Catalog ----
(***************************************************************************)
(* The items of the catalog: upserts and imports that look a name up row   *)
(* by row, outside any transaction, and write what they decided in one.    *)
(* Nothing but the look-up keeps a name unique.  A payload is a name with  *)
(* a price, for all the data of an item, and a node.                       *)
(***************************************************************************)
EXTENDS Naturals, FiniteSets, Sequences

CONSTANTS
    Calls,
    Payloads, \* [name, price, node], with node = None for none
    Seeded,   \* sequence of the payloads of a new catalog
    None

\* Two calls may each set some columns of a row.
Item == [name : {p.name : p \in Payloads}, price : {p.price : p \in Payloads},
         node : {p.node : p \in Payloads}]

Job ==
    {[op |-> op, rows |-> <<p>>] : op \in {"form", "upsert"}, p \in Payloads} \cup
    {[op |-> "import", rows |-> <<p, q>>] : p, q \in Payloads}

ASSUME CatalogConstants ==
    /\ IsFiniteSet(Calls)
    /\ Payloads \subseteq Item
    /\ Seeded \in Seq(Payloads)
    /\ \A m, n \in DOMAIN Seeded : Seeded[m].name = Seeded[n].name => m = n
    /\ None \notin Calls \cup Item \cup Job

VARIABLES
    items,  \* id -> the row, or None; an id is the place in Seeded or in a call
    job, pc, result,
    mem,    \* for each row of the call: the id that it writes
    loaded, \* ids that the session holds -> the row as it was loaded
    before  \* history: <<c, d>> when c had ended before d began

work == <<job, pc, result, mem, loaded>>
vars == <<items, work, before>>

FromSeed == {None} \X DOMAIN Seeded
Ids == FromSeed \cup Calls \X {1, 2}

TypeOK ==
    /\ items \in [Ids -> Item \cup {None}]
    /\ job \in [Calls -> Job \cup {None}]
    /\ pc \in [Calls -> {"idle", "look up", "write", "done"}]
    /\ result \in [Calls -> {"pending", "ok", "refused", "failed"}]
    /\ mem \in [Calls -> Seq(Ids)]
    /\ \A c \in Calls : pc[c] = "write" => Len(mem[c]) = Len(job[c].rows)
    /\ loaded \in [Calls -> [Ids -> Item \cup {None}]]
    /\ before \subseteq Calls \X Calls

Init ==
    /\ items = [i \in Ids |-> IF i \in FromSeed THEN Seeded[i[2]] ELSE None]
    /\ job = [c \in Calls |-> None]
    /\ pc = [c \in Calls |-> "idle"]
    /\ result = [c \in Calls |-> "pending"]
    /\ mem = [c \in Calls |-> <<>>]
    /\ loaded = [c \in Calls |-> [i \in Ids |-> None]]
    /\ before = {}

Rows == {i \in Ids : items[i] # None}
Named(name) == {i \in Rows : items[i].name = name}
Done == {c \in Calls : pc[c] = "done"}

\* The form sends a node as "category", a field the API does not know.
Unknown(j) == j.op = "form" /\ j.rows[1].node # None

Submit(c) ==
    /\ pc[c] = "idle"
    /\ \E j \in Job :
        /\ job' = [job EXCEPT ![c] = j]
        /\ IF Unknown(j)
           THEN /\ pc' = [pc EXCEPT ![c] = "done"]
                /\ result' = [result EXCEPT ![c] = "refused"]
           ELSE /\ pc' = [pc EXCEPT ![c] = "look up"]
                /\ UNCHANGED result
    /\ before' = before \cup (Done \X {c})
    /\ UNCHANGED <<items, mem, loaded>>

Row(c) == job[c].rows[Len(mem[c]) + 1]

\* Mutated: the rows are looked up by name and price.
FoundPriced(c) == {i \in Named(Row(c).name) : items[i].price = Row(c).price}

\* Mutated: the first of several rows is taken.
FoundFirst(c) == IF Named(Row(c).name) = {} THEN {} ELSE {CHOOSE i \in Named(Row(c).name) : TRUE}

\* What the query returns: rows of the database, and not those that the call
\* itself has added, for nothing is flushed.
Found(c) == Named(Row(c).name)

IsLast(c) == Len(mem[c]) + 1 = Len(job[c].rows)

\* The row that an item of the call writes: the one found, or a new one.
LookUp(c) ==
    /\ pc[c] = "look up"
    /\ Cardinality(Found(c)) <= 1
    /\ \E i \in Ids :
        /\ IF Found(c) = {} THEN i = <<c, Len(mem[c]) + 1>> ELSE i \in Found(c)
        /\ mem' = [mem EXCEPT ![c] = Append(@, i)]
        /\ loaded' = IF loaded[c][i] = None THEN [loaded EXCEPT ![c][i] = items[i]] ELSE loaded
    /\ pc' = [pc EXCEPT ![c] = IF IsLast(c) THEN "write" ELSE "look up"]
    /\ UNCHANGED <<items, job, result, before>>

\* scalar_one_or_none finds more than one row.
Ambiguous(c) ==
    /\ pc[c] = "look up"
    /\ Cardinality(Found(c)) > 1
    /\ pc' = [pc EXCEPT ![c] = "done"]
    /\ result' = [result EXCEPT ![c] = "failed"]
    /\ UNCHANGED <<items, job, mem, loaded, before>>

\* For comparison: the first of the call's rows that writes it.
FirstPayload(c, i) ==
    LET places == {n \in DOMAIN mem[c] : mem[c][n] = i}
        first == CHOOSE n \in places : \A m \in places : n <= m
    IN  job[c].rows[first]

\* The payload an id ends with: the last of the call's rows that writes it.
Payload(c, i) ==
    LET places == {n \in DOMAIN mem[c] : mem[c][n] = i}
        last == CHOOSE n \in places : \A m \in places : m <= n
    IN  job[c].rows[last]

\* UPDATE sets the columns whose value is not the one loaded.
Stored(c, i) ==
    IF loaded[c][i] = None THEN Payload(c, i)
    ELSE [k \in {"name", "price", "node"} |->
            IF Payload(c, i)[k] # loaded[c][i][k] THEN Payload(c, i)[k] ELSE items[i][k]]

\* flush and commit, as one transaction.
Write(c) ==
    /\ pc[c] = "write"
    /\ items' = [i \in Ids |->
            IF \E n \in DOMAIN mem[c] : mem[c][n] = i THEN Stored(c, i) ELSE items[i]]
    /\ pc' = [pc EXCEPT ![c] = "done"]
    /\ result' = [result EXCEPT ![c] = "ok"]
    /\ UNCHANGED <<job, mem, loaded, before>>

\* The database stays busy or the server stops.
Abort(c) ==
    /\ pc[c] \in {"look up", "write"}
    /\ pc' = [pc EXCEPT ![c] = "done"]
    /\ result' = [result EXCEPT ![c] = "failed"]
    /\ UNCHANGED <<items, job, mem, loaded, before>>

Next == \E c \in Calls : Submit(c) \/ LookUp(c) \/ Ambiguous(c) \/ Write(c) \/ Abort(c)

Spec == Init /\ [][Next]_vars

-----------------------------------------------------------------------------
Overlap(c, d) == <<c, d>> \notin before /\ <<d, c>> \notin before
Names(c) == {job[c].rows[n].name : n \in DOMAIN job[c].rows}
Written == {c \in Calls : result[c] = "ok"}

\* Two items have one name only if one import repeats it or two calls that
\* overlapped both added it.
NamesAreUnique ==
    \A i, j \in Rows : (i # j /\ items[i].name = items[j].name) =>
        /\ {i, j} \cap FromSeed = {}
        /\ i[1] # j[1] => Overlap(i[1], j[1])

\* A name that two items have cannot be upserted any more: no call that began
\* later has written it.
AmbiguityStays ==
    \A c \in Written : \A i, j \in Rows \ FromSeed :
        ~(/\ i # j /\ items[i].name = items[j].name /\ items[i].name \in Names(c)
          /\ <<i[1], c>> \in before /\ <<j[1], c>> \in before)

\* The last to write a name decides the item, node included, unless another
\* call on that name overlapped it.
LastWriteStays ==
    \A c \in Written : \A n \in DOMAIN job[c].rows :
        LET row == job[c].rows[n]
        IN  (/\ \A d \in Written \ {c} : row.name \in Names(d) => <<d, c>> \in before
             /\ \A m \in DOMAIN job[c].rows : m > n => job[c].rows[m].name # row.name)
            => \E i \in Rows : items[i] = row

====
