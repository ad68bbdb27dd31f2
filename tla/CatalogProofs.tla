---- MODULE CatalogProofs ----
(***************************************************************************)
(* Catalog, for any number of calls, names and seeded items: the names of  *)
(* rows never change and rows never go, so that what a call found when it  *)
(* looked a name up still tells who else can have added it.                *)
(***************************************************************************)
EXTENDS Catalog, FiniteSetTheorems, TLAPS

StageOf(c) ==
    /\ pc[c] = "idle" => /\ mem[c] = <<>> /\ result[c] = "pending"
                         /\ \A i \in Ids : loaded[c][i] = None
    /\ pc[c] \in {"look up", "write"} => job[c] # None /\ result[c] = "pending"
    /\ job[c] = None => mem[c] = <<>>
    /\ pc[c] = "look up" => Len(mem[c]) < Len(job[c].rows)
    /\ job[c] # None => Len(mem[c]) <= Len(job[c].rows)
    /\ result[c] = "ok" => /\ pc[c] = "done" /\ job[c] # None
                           /\ Len(mem[c]) = Len(job[c].rows)

Stages == \A c \in Calls : StageOf(c)

\* Who is in before has ended, and those after it have begun.
Ordered == \A c, d \in Calls :
    <<c, d>> \in before => pc[c] = "done" /\ pc[d] # "idle" /\ c # d

Earlier(i, c) == i \in FromSeed \/ <<i[1], c>> \in before

NameAt(c, n) == job[c].rows[n].name

\* A row is a seeded one or what its call has added under the name it asked for.
Origin(i) ==
    \/ i \in FromSeed /\ items[i] # None /\ items[i].name = Seeded[i[2]].name
    \/ /\ i[1] \in Calls /\ i[2] \in {1, 2} /\ i = <<i[1], i[2]>>
       /\ items[i] # None =>
            /\ result[i[1]] = "ok" /\ i[2] \in DOMAIN mem[i[1]]
            /\ mem[i[1]][i[2]] = i /\ items[i].name = NameAt(i[1], i[2])

Origins == \A i \in Ids : Origin(i)

\* A place of a call is for a new row of its own or for a row it has loaded.
Target(c, n) ==
    \/ mem[c][n] = <<c, n>>
    \/ loaded[c][mem[c][n]] # None /\ items[mem[c][n]].name = NameAt(c, n)

Targets == \A c \in Calls : \A n \in DOMAIN mem[c] : Target(c, n)

LoadedRow(c, i) ==
    loaded[c][i] # None =>
        /\ items[i] # None /\ i[1] # c /\ items[i].name = loaded[c][i].name

LoadedRows == \A c \in Calls, i \in Ids : LoadedRow(c, i)

\* The look-up found every row of that name whose call had ended when this
\* call began.
LooksUp == \A c \in Calls : \A n \in DOMAIN mem[c] : \A i \in Ids :
    items[i] # None /\ items[i].name = NameAt(c, n) /\ Earlier(i, c) => mem[c][n] = i

\* Another call on the name has written that was not over when c began.
Disturbed(c, name) ==
    \E d \in Calls \ {c} : result[d] = "ok" /\ name \in Names(d) /\ <<d, c>> \notin before

Fresh == \A c \in Calls, i \in Ids :
    result[c] = "pending" /\ loaded[c][i] # None =>
        loaded[c][i] = items[i] \/ Disturbed(c, items[i].name)

Lasting(c, n) == \A m \in DOMAIN job[c].rows : m > n => NameAt(c, m) # NameAt(c, n)

Stay == \A c \in Calls : result[c] = "ok" =>
    \A n \in DOMAIN job[c].rows : Lasting(c, n) =>
        items[mem[c][n]] = job[c].rows[n] \/ Disturbed(c, NameAt(c, n))

IInv ==
    /\ TypeOK /\ Stages /\ Ordered /\ Origins /\ Targets /\ LoadedRows
    /\ LooksUp /\ Fresh /\ Stay

-----------------------------------------------------------------------------
\* A call has one row or two.
LEMMA JobShape ==
    ASSUME NEW j \in Job
    PROVE  /\ j.rows \in Seq(Payloads) /\ Len(j.rows) \in {1, 2}
           /\ \A n \in 1..Len(j.rows) : j.rows[n] \in Item
<1>1. PICK p, q \in Payloads : j.rows = <<p>> \/ j.rows = <<p, q>>
  BY DEF Job
<1>2. CASE j.rows = <<p>>
  BY <1>2, CatalogConstants
<1>3. CASE j.rows = <<p, q>>
  BY <1>3, CatalogConstants
<1> QED
  BY <1>1, <1>2, <1>3

\* A place of a call is one of its rows, and an id.
LEMMA PlaceOf ==
    ASSUME TypeOK, Stages, NEW c \in Calls, NEW n \in DOMAIN mem[c]
    PROVE  /\ job[c] \in Job /\ n \in {1, 2} /\ n \in DOMAIN job[c].rows
           /\ mem[c][n] \in Ids /\ job[c].rows[n] \in Item
<1>1. mem[c] \in Seq(Ids) /\ job[c] \in Job \cup {None}
  BY DEF TypeOK
<1>2. n \in 1..Len(mem[c]) /\ mem[c][n] \in Ids /\ mem[c] # <<>>
  BY <1>1
<1>3. job[c] \in Job /\ Len(mem[c]) <= Len(job[c].rows)
  BY <1>1, <1>2 DEF Stages, StageOf
<1> QED
  BY <1>1, <1>2, <1>3, JobShape

\* An id is a place among the seeded items or in one call.
LEMMA IdShape ==
    ASSUME NEW i \in Ids
    PROVE  /\ i = <<i[1], i[2]>>
           /\ \/ i \in FromSeed /\ i[1] = None /\ i[2] \in DOMAIN Seeded
              \/ i \notin FromSeed /\ i[1] \in Calls /\ i[1] # None /\ i[2] \in {1, 2}
BY CatalogConstants DEF Ids, FromSeed

\* The payloads of a new catalog are rows.
LEMMA SeededRows ==
    ASSUME NEW i \in FromSeed
    PROVE  i \in Ids /\ Seeded[i[2]] \in Item /\ Seeded[i[2]] # None
BY CatalogConstants, IdShape DEF Ids, FromSeed

\* A new catalog, and nobody has begun.
LEMMA InitIInv == Init => IInv
<1> SUFFICES ASSUME Init PROVE IInv
  OBVIOUS
<1> USE DEF Init
<1>1. TypeOK
  BY SeededRows DEF TypeOK
<1>2. Stages
  BY DEF Stages, StageOf
<1>3. Origins
  <2> SUFFICES ASSUME NEW i \in Ids PROVE Origin(i)
    BY DEF Origins
  <2>1. CASE i \in FromSeed
    BY <2>1, SeededRows DEF Origin
  <2>2. CASE i \notin FromSeed
    BY <2>2, IdShape DEF Origin
  <2> QED
    BY <2>1, <2>2
<1>4. \A c \in Calls : DOMAIN mem[c] = {}
  OBVIOUS
<1> QED
  BY <1>1, <1>2, <1>3, <1>4 DEF IInv, Ordered, Targets, LoadedRows, LoadedRow, LooksUp, Fresh, Stay

-----------------------------------------------------------------------------
\* A call that begins.
LEMMA SubmitKeeps == ASSUME IInv, NEW c \in Calls, Submit(c) PROVE IInv'
<1> USE DEF IInv
<1>1. PICK j \in Job :
        /\ job' = [job EXCEPT ![c] = j]
        /\ IF Unknown(j)
           THEN pc' = [pc EXCEPT ![c] = "done"] /\ result' = [result EXCEPT ![c] = "refused"]
           ELSE pc' = [pc EXCEPT ![c] = "look up"] /\ UNCHANGED result
  BY DEF Submit
<1>2. /\ pc[c] = "idle" /\ before' = before \cup (Done \X {c})
      /\ items' = items /\ mem' = mem /\ loaded' = loaded
  BY DEF Submit
<1>3. /\ mem[c] = <<>> /\ result[c] = "pending" /\ \A i \in Ids : loaded[c][i] = None
  BY <1>2 DEF Stages, StageOf
<1>4. /\ j \in Job /\ j # None /\ Len(j.rows) \in {1, 2}
  BY JobShape, CatalogConstants
<1>5. \A d \in Calls : d # c =>
        pc'[d] = pc[d] /\ job'[d] = job[d] /\ result'[d] = result[d]
        /\ \A b \in Calls : <<b, d>> \in before' <=> <<b, d>> \in before
  BY <1>1, <1>2 DEF TypeOK
<1>6. /\ job'[c] = j /\ pc'[c] \in {"look up", "done"} /\ result'[c] \in {"pending", "refused"}
      /\ pc'[c] = "look up" => result'[c] = "pending"
  BY <1>1, <1>3 DEF TypeOK
<1>7. TypeOK'
  BY <1>1, <1>2 DEF TypeOK, Done
<1>8. Stages'
  <2> SUFFICES ASSUME NEW d \in Calls PROVE StageOf(d)'
    BY DEF Stages
  <2>1. CASE d = c
    <3>1. Len(mem[c]) = 0
      BY <1>3
    <3>2. \A k \in {1, 2} : 0 < k /\ 0 <= k
      OBVIOUS
    <3>3. Len(job'[c].rows) \in {1, 2}
      BY <1>4, <1>6
    <3>4. Len(mem[c]) < Len(job'[c].rows) /\ Len(mem[c]) <= Len(job'[c].rows)
      BY <3>1, <3>2, <3>3, Zenon
    <3>5. result'[c] # "ok" /\ pc'[c] # "idle" /\ pc'[c] # "write" /\ job'[c] # None
      BY <1>4, <1>6
    <3> QED
      BY <1>2, <1>6, <2>1, <3>4, <3>5 DEF StageOf
  <2>2. CASE d # c
    <3>1. StageOf(d)
      BY DEF IInv, Stages
    <3> QED
      BY <1>2, <1>5, <2>2, <3>1 DEF StageOf
  <2> QED
    BY <2>1, <2>2
<1>9. Ordered'
  BY <1>2, <1>5, <1>6 DEF Ordered, Done
<1>10. \A name : \A d \in Calls : d # c => (Disturbed(d, name) => Disturbed(d, name)')
  BY <1>2, <1>3, <1>5 DEF Disturbed, Names
<1>11. Origins'
  BY <1>2, <1>3, <1>5 DEF Origins, Origin, NameAt
<1>12. Targets' /\ LoadedRows'
  BY <1>2, <1>3, <1>5 DEF Targets, Target, LoadedRows, LoadedRow, NameAt
<1>13. LooksUp'
  <2> SUFFICES ASSUME NEW d \in Calls, NEW n \in DOMAIN mem[d], NEW i \in Ids,
                      items[i] # None, items[i].name = NameAt(d, n)', Earlier(i, d)'
               PROVE  mem[d][n] = i
    BY <1>2 DEF LooksUp
  <2>1. d # c
    BY <1>3
  <2>2. NameAt(d, n)' = NameAt(d, n)
    BY <1>5, <2>1 DEF NameAt
  <2>3. Earlier(i, d)
    BY <1>5, <2>1, IdShape DEF Earlier
  <2> QED
    BY <2>2, <2>3 DEF LooksUp
<1>14. Fresh'
  BY <1>2, <1>3, <1>5, <1>10 DEF Fresh
<1>15. Stay'
  <2> SUFFICES ASSUME NEW d \in Calls, result'[d] = "ok", NEW n \in DOMAIN job'[d].rows, Lasting(d, n)'
               PROVE  items[mem[d][n]] = job'[d].rows[n] \/ Disturbed(d, NameAt(d, n))'
    BY <1>2 DEF Stay
  <2>1. d # c
    BY <1>6
  <2>2. job'[d] = job[d] /\ result[d] = "ok"
    BY <1>5, <2>1
  <2>3. items[mem[d][n]] = job[d].rows[n] \/ Disturbed(d, NameAt(d, n))
    BY <2>2 DEF Stay, Lasting, NameAt
  <2>4. NameAt(d, n)' = NameAt(d, n)
    BY <2>2 DEF NameAt
  <2> QED
    BY <1>10, <2>1, <2>2, <2>3, <2>4
<1> QED
  BY <1>7, <1>8, <1>9, <1>11, <1>12, <1>13, <1>14, <1>15

\* A call that ends without success.
LEMMA FailureKeeps ==
    ASSUME IInv, NEW c \in Calls, pc[c] \in {"look up", "write"},
           pc' = [pc EXCEPT ![c] = "done"], result' = [result EXCEPT ![c] = "failed"],
           UNCHANGED <<items, job, mem, loaded, before>>
    PROVE  IInv'
<1> USE DEF IInv
<1>1. \A d \in Calls : /\ d # c => pc'[d] = pc[d] /\ result'[d] = result[d]
                       /\ pc'[c] = "done" /\ result'[c] = "failed"
  BY DEF TypeOK
<1>2. job[c] # None /\ result[c] = "pending"
  BY DEF Stages, StageOf
<1>3. \A d \in Calls : result'[d] = "ok" <=> result[d] = "ok"
  BY <1>1, <1>2
<1>4. \A d \in Calls : result'[d] = "pending" => result[d] = "pending"
  BY <1>1
<1>5. TypeOK'
  BY DEF TypeOK
<1>6. Stages'
  <2> SUFFICES ASSUME NEW d \in Calls PROVE StageOf(d)'
    BY DEF Stages
  <2>1. CASE d = c
    BY <1>1, <1>2, <2>1 DEF Stages, StageOf
  <2>2. CASE d # c
    <3>1. StageOf(d)
      BY DEF IInv, Stages
    <3> QED
      BY <1>1, <2>2, <3>1 DEF StageOf
  <2> QED
    BY <2>1, <2>2
<1>7. Ordered'
  BY <1>1 DEF Ordered
<1>8. \A name : \A d \in Calls : Disturbed(d, name)' <=> Disturbed(d, name)
  BY <1>3 DEF Disturbed, Names
<1>9. Origins'
  BY <1>3 DEF Origins, Origin, NameAt
<1>10. Targets'
  BY DEF Targets, Target, NameAt
<1>11. LoadedRows'
  BY DEF LoadedRows, LoadedRow
<1>12. LooksUp'
  BY DEF LooksUp, NameAt, Earlier
<1>13. Fresh' /\ Stay'
  BY <1>3, <1>4, <1>8 DEF Fresh, Stay, Lasting, NameAt
<1> QED
  BY <1>5, <1>6, <1>7, <1>9, <1>10, <1>11, <1>12, <1>13

\* What the query returns is one row at most, or the call fails.
LEMMA FoundIsOne ==
    ASSUME NEW c \in Calls, Cardinality(Found(c)) <= 1, NEW i \in Found(c), NEW k \in Found(c)
    PROVE  i = k
<1>1. IsFiniteSet(Ids)
  <2>1. IsFiniteSet(DOMAIN Seeded)
    BY CatalogConstants, FS_Interval
  <2>2. IsFiniteSet({None}) /\ IsFiniteSet({1, 2})
    <3>1. 1 \in Int /\ 2 \in Int
      OBVIOUS
    <3>2. IsFiniteSet(1..2)
      BY <3>1, FS_Interval
    <3>3. 1..2 = {1, 2}
      OBVIOUS
    <3> QED
      BY <3>2, <3>3, FS_Singleton
  <2>3. IsFiniteSet(FromSeed) /\ IsFiniteSet(Calls \X {1, 2})
    BY <2>1, <2>2, CatalogConstants, FS_Product DEF FromSeed
  <2> QED
    BY <2>3, FS_Union DEF Ids
<1>2. Found(c) \subseteq Ids
  BY DEF Found, Named, Rows
<1>3. IsFiniteSet(Found(c))
  BY <1>1, <1>2, FS_Subset
<1>4. {i, k} \subseteq Found(c) /\ IsFiniteSet({i, k}) /\ Cardinality({i, k}) <= Cardinality(Found(c))
  BY <1>3, FS_Subset
<1>5. SUFFICES ASSUME i # k PROVE FALSE
  OBVIOUS
<1>6. Cardinality({i}) = 1 /\ IsFiniteSet({i})
  BY FS_Singleton
<1>7. Cardinality({i} \cup {k}) = 2
  BY <1>5, <1>6, FS_AddElement
<1>8. {i} \cup {k} = {i, k}
  OBVIOUS
<1>9. Cardinality({i, k}) = 2 /\ Cardinality(Found(c)) \in Nat
  BY <1>3, <1>7, <1>8, FS_CardinalityType
<1> QED
  BY <1>4, <1>9

\* The ids of a call that has not written are of no row.
LEMMA NotYetRows ==
    ASSUME IInv, NEW c \in Calls, result[c] # "ok", NEW i \in Ids, i[1] = c
    PROVE  items[i] = None
<1>1. Origin(i) /\ i \notin FromSeed
  BY IdShape, CatalogConstants DEF IInv, Origins
<1> QED
  BY <1>1 DEF Origin

\* A row of the payload is looked up.
LEMMA LookUpKeeps == ASSUME IInv, NEW c \in Calls, LookUp(c) PROVE IInv'
<1> DEFINE n == Len(mem[c]) + 1
<1>1. /\ pc[c] = "look up" /\ Cardinality(Found(c)) <= 1
      /\ pc' = [pc EXCEPT ![c] = IF IsLast(c) THEN "write" ELSE "look up"]
      /\ items' = items /\ job' = job /\ result' = result /\ before' = before
  BY DEF LookUp
<1>2. PICK i \in Ids :
        /\ IF Found(c) = {} THEN i = <<c, n>> ELSE i \in Found(c)
        /\ mem' = [mem EXCEPT ![c] = Append(@, i)]
        /\ loaded' = IF loaded[c][i] = None THEN [loaded EXCEPT ![c][i] = items[i]] ELSE loaded
  BY DEF LookUp
<1>3. /\ job[c] \in Job /\ job[c] # None /\ result[c] = "pending"
      /\ Len(mem[c]) < Len(job[c].rows)
  BY <1>1 DEF IInv, TypeOK, Stages, StageOf
<1>4. mem[c] \in Seq(Ids) /\ Len(job[c].rows) \in {1, 2} /\ job[c].rows \in Seq(Payloads)
  BY <1>3, JobShape DEF IInv, TypeOK
<1>5. /\ mem'[c] = Append(mem[c], i)
      /\ \A d \in Calls : d # c => mem'[d] = mem[d] /\ loaded'[d] = loaded[d] /\ pc'[d] = pc[d]
  BY <1>1, <1>2 DEF IInv, TypeOK
<1>6. /\ Len(mem'[c]) = n /\ DOMAIN mem'[c] = DOMAIN mem[c] \cup {n} /\ mem'[c][n] = i
      /\ \A m \in DOMAIN mem[c] : mem'[c][m] = mem[c][m]
      /\ n \in DOMAIN job[c].rows /\ n <= Len(job[c].rows) /\ mem'[c] # <<>>
  <2>1. Len(mem[c]) \in Nat /\ Len(job[c].rows) \in Nat
    BY <1>4
  <2>2. /\ Len(mem'[c]) = n /\ mem'[c][n] = i
        /\ \A m \in 1..Len(mem[c]) : mem'[c][m] = mem[c][m]
    BY <1>4, <1>5
  <2>3. mem'[c] \in Seq(Ids)
    BY <1>4, <1>5
  <2>4. DOMAIN mem'[c] = 1..n /\ DOMAIN mem[c] = 1..Len(mem[c])
    BY <1>4, <2>2, <2>3
  <2>5. 1..n = 1..Len(mem[c]) \cup {n} /\ n \in 1..Len(job[c].rows) /\ n <= Len(job[c].rows)
    BY <1>3, <2>1
  <2>6. DOMAIN job[c].rows = 1..Len(job[c].rows)
    BY <1>4
  <2>7. mem'[c] # <<>>
    BY <2>4, <2>5
  <2> QED
    BY <2>2, <2>4, <2>5, <2>6, <2>7
<1>7. n \in Nat
  BY <1>4
<1>8. \A k \in Ids : loaded'[c][k] =
        IF k = i /\ loaded[c][i] = None THEN items[i] ELSE loaded[c][k]
  BY <1>2 DEF IInv, TypeOK
<1>9. pc'[c] = (IF n = Len(job[c].rows) THEN "write" ELSE "look up")
  BY <1>1 DEF IsLast, IInv, TypeOK
<1>10. \A k \in Ids : k \in Found(c) <=> items[k] # None /\ items[k].name = NameAt(c, n)
  BY DEF Found, Named, Rows, Row, NameAt
<1> HIDE DEF n
<1>11. TypeOK'
  <2>1. loaded' \in [Calls -> [Ids -> Item \cup {None}]]
    BY <1>2 DEF IInv, TypeOK
  <2>2. mem' \in [Calls -> Seq(Ids)]
    <3>1. Append(mem[c], i) \in Seq(Ids)
      BY <1>4
    <3> QED
      BY <1>2, <3>1 DEF IInv, TypeOK
  <2>3. pc' \in [Calls -> {"idle", "look up", "write", "done"}]
    BY <1>1 DEF IInv, TypeOK
  <2>4. \A d \in Calls : pc'[d] = "write" => Len(mem'[d]) = Len(job'[d].rows)
    BY <1>1, <1>5, <1>6, <1>9 DEF IInv, TypeOK
  <2> QED
    BY <1>1, <2>1, <2>2, <2>3, <2>4 DEF IInv, TypeOK
<1>12. Stages'
  <2> SUFFICES ASSUME NEW d \in Calls PROVE StageOf(d)'
    BY DEF Stages
  <2>1. CASE d = c
    <3>1. pc'[c] = "look up" => Len(mem'[c]) < Len(job[c].rows)
      <4>1. ASSUME pc'[c] = "look up" PROVE n # Len(job[c].rows)
        BY <1>9, <4>1
      <4>2. Len(job[c].rows) \in Nat /\ n <= Len(job[c].rows) /\ Len(mem'[c]) = n
        BY <1>4, <1>6
      <4>3. n # Len(job[c].rows) => Len(mem'[c]) < Len(job[c].rows)
        BY <1>7, <4>2
      <4> QED
        BY <4>1, <4>3
    <3>2. /\ pc'[c] \in {"look up", "write"} /\ mem'[c] # <<>>
          /\ Len(mem'[c]) <= Len(job[c].rows)
      BY <1>6, <1>9
    <3> QED
      BY <1>1, <1>3, <2>1, <3>1, <3>2 DEF StageOf
  <2>2. CASE d # c
    <3>1. StageOf(d)
      BY DEF IInv, Stages
    <3> QED
      BY <1>1, <1>5, <2>2, <3>1 DEF StageOf
  <2> QED
    BY <2>1, <2>2
<1>13. Ordered'
  <2>1. \A d \in Calls : /\ pc[d] = "done" => pc'[d] = "done"
                         /\ pc'[d] = "idle" => pc[d] = "idle"
    <3>1. pc[c] # "done"
      BY <1>1
    <3>2. pc'[c] # "idle"
      BY <1>9
    <3> QED
      BY <1>5, <3>1, <3>2
  <2> QED
    BY <1>1, <2>1 DEF IInv, Ordered
<1>14. Origins'
  <2>1. \A d \in Calls : result[d] = "ok" => mem'[d] = mem[d]
    BY <1>3, <1>5
  <2> QED
    <3> SUFFICES ASSUME NEW k \in Ids PROVE Origin(k)'
      BY DEF Origins
    <3>1. Origin(k)
      BY DEF IInv, Origins
    <3> QED
      BY <1>1, <2>1, <3>1 DEF Origin, NameAt
<1>15. Targets'
  <2> SUFFICES ASSUME NEW d \in Calls, NEW m \in DOMAIN mem'[d] PROVE Target(d, m)'
    BY DEF Targets
  <2>1. CASE d # c
    <3>1. mem'[d] = mem[d] /\ loaded'[d] = loaded[d] /\ Target(d, m)
      BY <1>5, <2>1 DEF IInv, Targets
    <3> QED
      BY <1>1, <3>1 DEF Target, NameAt
  <2>2. CASE d = c /\ m \in DOMAIN mem[c]
    <3>1. Target(c, m) /\ mem[c][m] \in Ids
      BY <2>2, PlaceOf DEF IInv, Targets
    <3>2. loaded[c][mem[c][m]] # None => loaded'[c][mem[c][m]] # None
      BY <1>8, <3>1
    <3> QED
      BY <1>1, <1>6, <2>2, <3>1, <3>2 DEF Target, NameAt
  <2>3. CASE d = c /\ m = n
    <3>1. CASE Found(c) = {}
      BY <1>2, <1>6, <2>3, <3>1 DEF Target
    <3>2. CASE Found(c) # {}
      <4>1. items[i] # None /\ items[i].name = NameAt(c, n)
        BY <1>2, <1>10, <3>2
      <4>2. loaded'[c][i] # None
        BY <1>8, <4>1
      <4> QED
        BY <1>1, <1>6, <2>3, <4>1, <4>2 DEF Target, NameAt
    <3> QED
      BY <3>1, <3>2
  <2> QED
    BY <1>6, <2>1, <2>2, <2>3
<1>16. LoadedRows'
  <2> SUFFICES ASSUME NEW d \in Calls, NEW k \in Ids PROVE LoadedRow(d, k)'
    BY DEF LoadedRows
  <2>1. CASE d = c /\ k = i /\ loaded[c][i] = None
    <3>1. items[i] # None => i[1] # c
      BY <1>3, NotYetRows
    <3> QED
      BY <1>1, <1>8, <2>1, <3>1 DEF LoadedRow
  <2>2. CASE ~(d = c /\ k = i /\ loaded[c][i] = None)
    <3>1. loaded'[d][k] = loaded[d][k] /\ LoadedRow(d, k)
      BY <1>5, <1>8, <2>2 DEF IInv, LoadedRows
    <3> QED
      BY <1>1, <3>1 DEF LoadedRow
  <2> QED
    BY <2>1, <2>2
<1>17. LooksUp'
  <2> SUFFICES ASSUME NEW d \in Calls, NEW m \in DOMAIN mem'[d], NEW k \in Ids,
                      items[k] # None, items[k].name = NameAt(d, m), Earlier(k, d)
               PROVE  mem'[d][m] = k
    BY <1>1 DEF LooksUp, NameAt, Earlier
  <2>1. CASE d # c
    BY <1>5, <2>1 DEF IInv, LooksUp
  <2>2. CASE d = c /\ m \in DOMAIN mem[c]
    BY <1>6, <2>2 DEF IInv, LooksUp
  <2>3. CASE d = c /\ m = n
    <3>1. k \in Found(c)
      BY <1>10, <2>3
    <3>2. i \in Found(c)
      BY <1>2, <3>1
    <3> QED
      BY <1>1, <1>6, <2>3, <3>1, <3>2, FoundIsOne
  <2> QED
    BY <1>6, <2>1, <2>2, <2>3
<1>18. \A name : \A d \in Calls : Disturbed(d, name)' <=> Disturbed(d, name)
  BY <1>1 DEF Disturbed, Names
<1>19. Fresh'
  <2> SUFFICES ASSUME NEW d \in Calls, NEW k \in Ids, result[d] = "pending", loaded'[d][k] # None
               PROVE  loaded'[d][k] = items[k] \/ Disturbed(d, items[k].name)
    BY <1>1, <1>18 DEF Fresh
  <2>1. loaded'[d][k] = items[k] \/ loaded'[d][k] = loaded[d][k]
    BY <1>5, <1>8
  <2> QED
    BY <2>1 DEF IInv, Fresh
<1>20. Stay'
  <2>1. \A d \in Calls : result[d] = "ok" => mem'[d] = mem[d]
    BY <1>3, <1>5
  <2>2. \A d, m : NameAt(d, m)' = NameAt(d, m) /\ (Lasting(d, m)' <=> Lasting(d, m))
    BY <1>1 DEF NameAt, Lasting
  <2> QED
    BY <1>1, <1>18, <2>1, <2>2 DEF IInv, Stay
<1> QED
  BY <1>11, <1>12, <1>13, <1>14, <1>15, <1>16, <1>17, <1>19, <1>20 DEF IInv

-----------------------------------------------------------------------------
\* What is written to a row is the last payload that was looked up as this row.
LEMMA PayloadOf ==
    ASSUME IInv, NEW c \in Calls, NEW n \in DOMAIN mem[c]
    PROVE  \E l \in DOMAIN mem[c] :
            /\ mem[c][l] = mem[c][n] /\ Payload(c, mem[c][n]) = job[c].rows[l]
            /\ \A m \in DOMAIN mem[c] : mem[c][m] = mem[c][n] => m <= l
<1> DEFINE places == {m \in DOMAIN mem[c] : mem[c][m] = mem[c][n]}
<1>1. \A m \in DOMAIN mem[c] : m \in {1, 2}
  BY PlaceOf DEF IInv
<1>2. \E l \in places : \A m \in places : m <= l
  <2>1. CASE 2 \in places
    BY <1>1, <2>1
  <2>2. CASE 2 \notin places
    BY <1>1, <2>2
  <2> QED
    BY <2>1, <2>2
<1>3. PICK l \in places :
        l = (CHOOSE k \in places : \A m \in places : m <= k) /\ \A m \in places : m <= l
  BY <1>2
<1> QED
  BY <1>3 DEF Payload

\* A row that is loaded keeps its name, a new one gets that of its place; if
\* nobody has changed it since, it becomes the payload.
LEMMA StoredRow ==
    ASSUME IInv, NEW c \in Calls, result[c] # "ok", NEW n \in DOMAIN mem[c],
           NEW i, i = mem[c][n]
    PROVE  /\ Stored(c, i) \in Item /\ Stored(c, i).name = NameAt(c, n)
           /\ loaded[c][i] = None => i = <<c, n>> /\ Stored(c, i) = job[c].rows[n]
           /\ loaded[c][i] # None => items[i] # None /\ items[i].name = NameAt(c, n)
           /\ loaded[c][i] # None /\ Lasting(c, n) /\ loaded[c][i] = items[i]
                => Stored(c, i) = job[c].rows[n]
<1>1. PICK l \in DOMAIN mem[c] :
        /\ mem[c][l] = i /\ Payload(c, i) = job[c].rows[l]
        /\ \A m \in DOMAIN mem[c] : mem[c][m] = i => m <= l
  BY PayloadOf
<1>2. /\ i \in Ids /\ n \in {1, 2} /\ l \in {1, 2} /\ l \in DOMAIN job[c].rows
      /\ job[c].rows[l] \in Item /\ job[c].rows[n] \in Item /\ n <= l
  BY <1>1, PlaceOf DEF IInv
<1>3. Target(c, n) /\ Target(c, l) /\ LoadedRow(c, i)
  BY <1>2 DEF IInv, Targets, LoadedRows
<1>4. CASE loaded[c][i] = None
  <2>1. i = <<c, n>> /\ i = <<c, l>>
    BY <1>1, <1>3, <1>4 DEF Target
  <2>2. l = n
    BY <2>1
  <2> QED
    BY <1>1, <1>2, <1>4, <2>1, <2>2 DEF Stored, NameAt
<1>5. CASE loaded[c][i] # None
  <2>1. items[i] # None /\ items[i].name = loaded[c][i].name /\ i[1] # c
    BY <1>3, <1>5 DEF LoadedRow
  <2>2. i # <<c, n>> /\ i # <<c, l>>
    BY <2>1
  <2>3. items[i].name = NameAt(c, n) /\ items[i].name = NameAt(c, l)
    BY <1>1, <1>3, <2>2 DEF Target
  <2>4. items[i] \in Item /\ loaded[c][i] \in Item
    <3>1. items \in [Ids -> Item \cup {None}] /\ loaded[c] \in [Ids -> Item \cup {None}]
      BY DEF IInv, TypeOK
    <3> QED
      BY <1>2, <1>5, <2>1, <3>1
  <2>5. Stored(c, i) = [k \in {"name", "price", "node"} |->
            IF Payload(c, i)[k] # loaded[c][i][k] THEN Payload(c, i)[k] ELSE items[i][k]]
    BY <1>5 DEF Stored
  <2>6. Stored(c, i) \in Item
    <3>1. \A k \in {"name", "price", "node"} :
            Stored(c, i)[k] = Payload(c, i)[k] \/ Stored(c, i)[k] = items[i][k]
      BY <2>5
    <3> QED
      BY <1>1, <1>2, <2>4, <2>5, <3>1 DEF Item
  <2>7. Stored(c, i).name = NameAt(c, n)
    BY <1>1, <2>1, <2>3, <2>5 DEF NameAt
  <2>8. Lasting(c, n) => l = n
    BY <1>2, <2>3 DEF Lasting
  <2>9. loaded[c][i] = items[i] => Stored(c, i) = Payload(c, i)
    BY <1>1, <1>2, <2>4, <2>5 DEF Item
  <2> QED
    BY <1>1, <1>5, <2>1, <2>3, <2>6, <2>7, <2>8, <2>9
<1> QED
  BY <1>4, <1>5

\* The transaction of a call.
LEMMA WriteKeeps == ASSUME IInv, NEW c \in Calls, Write(c) PROVE IInv'
<1> DEFINE Writes(i) == \E n \in DOMAIN mem[c] : mem[c][n] = i
           Upset(d, name) == \E b \in Calls \ {d} :
               result'[b] = "ok" /\ name \in Names(b) /\ <<b, d>> \notin before
<1>1. /\ pc[c] = "write" /\ pc' = [pc EXCEPT ![c] = "done"]
      /\ result' = [result EXCEPT ![c] = "ok"]
      /\ job' = job /\ mem' = mem /\ loaded' = loaded /\ before' = before
      /\ \A i \in Ids : items'[i] = IF Writes(i) THEN Stored(c, i) ELSE items[i]
  BY DEF Write
<1>2. /\ job[c] # None /\ job[c] \in Job /\ result[c] = "pending"
      /\ Len(mem[c]) = Len(job[c].rows)
  <2>1. job[c] \in Job \cup {None} /\ Len(mem[c]) = Len(job[c].rows)
    BY <1>1 DEF IInv, TypeOK
  <2> QED
    BY <1>1, <2>1 DEF IInv, Stages, StageOf
<1>3. /\ pc'[c] = "done" /\ result'[c] = "ok"
      /\ \A d \in Calls : d # c => pc'[d] = pc[d] /\ result'[d] = result[d]
  BY <1>1 DEF IInv, TypeOK
<1>4. DOMAIN mem[c] = DOMAIN job[c].rows
  <2>1. mem[c] \in Seq(Ids) /\ job[c].rows \in Seq(Payloads)
    BY <1>2, JobShape DEF IInv, TypeOK
  <2> QED
    BY <1>2, <2>1
<1>5. \A n \in DOMAIN mem[c] : mem[c][n] \in Ids
  BY PlaceOf DEF IInv
<1>6. \A i \in Ids : Writes(i) => Stored(c, i) \in Item
  BY <1>2, StoredRow
<1>7. \A n \in DOMAIN mem[c] : LET i == mem[c][n] IN
        /\ i \in Ids /\ items'[i] = Stored(c, i) /\ items'[i] # None
        /\ items'[i].name = NameAt(c, n)
  BY <1>1, <1>2, <1>5, StoredRow, CatalogConstants
<1>8. \A i \in Ids : items[i] # None => items'[i] # None /\ items'[i].name = items[i].name
  <2> SUFFICES ASSUME NEW i \in Ids, items[i] # None, NEW n \in DOMAIN mem[c], mem[c][n] = i
               PROVE  items'[i] # None /\ items'[i].name = items[i].name
    BY <1>1
  <2>1. i[1] # c
    BY <1>2, NotYetRows
  <2>2. i # <<c, n>>
    BY <2>1
  <2>3. items[i].name = NameAt(c, n)
    BY <1>2, <2>2, StoredRow
  <2> QED
    BY <1>7, <2>3
<1>9. ASSUME NEW i \in Ids, items[i] = None, items'[i] # None
      PROVE  /\ i = <<c, i[2]>> /\ i[1] = c /\ i[2] \in DOMAIN mem[c] /\ mem[c][i[2]] = i
             /\ items'[i].name = NameAt(c, i[2])
  <2>1. PICK n \in DOMAIN mem[c] : mem[c][n] = i
    BY <1>1, <1>9
  <2>2. i = <<c, n>>
    BY <1>2, <1>9, <2>1, StoredRow
  <2> QED
    BY <1>7, <2>1, <2>2
<1> HIDE DEF Writes
<1>10. TypeOK'
  <2>1. items' \in [Ids -> Item \cup {None}]
    <3>1. items' = [i \in Ids |-> items'[i]]
      BY DEF Write
    <3>2. \A i \in Ids : items'[i] \in Item \cup {None}
      BY <1>1, <1>6 DEF IInv, TypeOK
    <3> QED
      BY <3>1, <3>2
  <2> QED
    BY <1>1, <2>1 DEF IInv, TypeOK
<1>11. Stages'
  <2> SUFFICES ASSUME NEW d \in Calls PROVE StageOf(d)'
    BY DEF Stages
  <2>1. CASE d = c
    BY <1>1, <1>2, <1>3, <2>1 DEF IInv, Stages, StageOf
  <2>2. CASE d # c
    <3>1. StageOf(d)
      BY DEF IInv, Stages
    <3> QED
      BY <1>1, <1>3, <2>2, <3>1 DEF StageOf
  <2> QED
    BY <2>1, <2>2
<1>12. Ordered'
  BY <1>1, <1>3 DEF IInv, Ordered
<1>13. Origins'
  <2> SUFFICES ASSUME NEW i \in Ids PROVE Origin(i)'
    BY DEF Origins
  <2>1. Origin(i)
    BY DEF IInv, Origins
  <2>2. CASE i \in FromSeed
    <3>1. items[i] # None /\ items[i].name = Seeded[i[2]].name
      BY <2>1, <2>2, IdShape, CatalogConstants DEF Origin
    <3> QED
      BY <1>8, <2>2, <3>1 DEF Origin
  <2>3. CASE i \notin FromSeed /\ items[i] # None
    BY <1>1, <1>3, <1>8, <2>1, <2>3 DEF Origin, NameAt
  <2>4. CASE i \notin FromSeed /\ items[i] = None
    BY <1>1, <1>3, <1>9, <2>1, <2>4 DEF Origin, NameAt
  <2> QED
    BY <2>2, <2>3, <2>4
<1>14. Targets'
  <2> SUFFICES ASSUME NEW d \in Calls, NEW n \in DOMAIN mem[d] PROVE Target(d, n)'
    BY <1>1 DEF Targets
  <2>1. Target(d, n) /\ mem[d][n] \in Ids
    BY PlaceOf DEF IInv, Targets
  <2>2. loaded[d][mem[d][n]] # None => items[mem[d][n]] # None
    BY <2>1 DEF IInv, LoadedRows, LoadedRow
  <2> QED
    BY <1>1, <1>8, <2>1, <2>2 DEF Target, NameAt
<1>15. LoadedRows'
  BY <1>1, <1>8 DEF IInv, LoadedRows, LoadedRow
<1>16. LooksUp'
  <2> SUFFICES ASSUME NEW d \in Calls, NEW n \in DOMAIN mem[d], NEW i \in Ids,
                      items'[i] # None, items'[i].name = NameAt(d, n), Earlier(i, d)
               PROVE  mem[d][n] = i
    BY <1>1 DEF LooksUp, NameAt, Earlier
  <2>1. items[i] # None
    <3> SUFFICES ASSUME items[i] = None PROVE FALSE
      OBVIOUS
    <3>1. i[1] = c
      BY <1>9
    <3>2. <<c, d>> \in before
      BY <3>1, IdShape, CatalogConstants DEF Earlier
    <3> QED
      BY <1>1, <3>2 DEF IInv, Ordered
  <2> QED
    BY <1>8, <2>1 DEF IInv, LooksUp
<1>17. \A name : \A d \in Calls : Disturbed(d, name) => Upset(d, name)
  BY <1>2, <1>3 DEF Disturbed
<1>18. \A d \in Calls \ {c}, n \in DOMAIN mem[c] : Upset(d, NameAt(c, n))
  <2>1. \A d \in Calls : <<c, d>> \notin before
    BY <1>1 DEF IInv, Ordered
  <2>2. \A n \in DOMAIN mem[c] : NameAt(c, n) \in Names(c)
    BY <1>4 DEF NameAt, Names
  <2> QED
    BY <1>3, <2>1, <2>2
<1> HIDE DEF Upset
<1>19. Fresh'
  <2> SUFFICES ASSUME NEW d \in Calls, NEW i \in Ids, result'[d] = "pending", loaded[d][i] # None
               PROVE  loaded[d][i] = items'[i] \/ Upset(d, items'[i].name)
    <3>1. \A b \in Calls : Names(b)' = Names(b)
      BY <1>1 DEF Names
    <3>2. Fresh' <=> \A d \in Calls, i \in Ids :
            result'[d] = "pending" /\ loaded'[d][i] # None =>
                \/ loaded'[d][i] = items'[i]
                \/ \E b \in Calls \ {d} : /\ result'[b] = "ok" /\ items'[i].name \in Names(b)'
                                         /\ <<b, d>> \notin before'
      BY DEF Fresh, Disturbed
    <3> QED
      BY <1>1, <3>1, <3>2 DEF Upset
  <2>1. d # c /\ result[d] = "pending"
    BY <1>3
  <2>2. CASE Writes(i)
    <3>1. PICK n \in DOMAIN mem[c] : mem[c][n] = i
      BY <2>2 DEF Writes
    <3> QED
      BY <1>7, <1>18, <2>1, <3>1
  <2>3. CASE ~Writes(i)
    BY <1>1, <1>17, <2>1, <2>3 DEF IInv, Fresh
  <2> QED
    BY <2>2, <2>3
<1>20. Stay'
  <2> SUFFICES ASSUME NEW d \in Calls, result'[d] = "ok", NEW n \in DOMAIN job[d].rows, Lasting(d, n)
               PROVE  items'[mem[d][n]] = job[d].rows[n] \/ Upset(d, NameAt(d, n))
    <3>1. \A b \in Calls : Names(b)' = Names(b)
      BY <1>1 DEF Names
    <3>2. Stay' <=> \A d \in Calls : result'[d] = "ok" =>
            \A n \in DOMAIN job'[d].rows : Lasting(d, n)' =>
                \/ items'[mem'[d][n]] = job'[d].rows[n]
                \/ \E b \in Calls \ {d} : /\ result'[b] = "ok" /\ NameAt(d, n)' \in Names(b)'
                                         /\ <<b, d>> \notin before'
      BY DEF Stay, Disturbed
    <3>3. \A d, n : NameAt(d, n)' = NameAt(d, n) /\ (Lasting(d, n)' <=> Lasting(d, n))
      BY <1>1 DEF NameAt, Lasting
    <3> QED
      BY <1>1, <3>1, <3>2, <3>3 DEF Upset
  <2>1. CASE d = c
    <3> DEFINE i == mem[c][n]
    <3>1. n \in DOMAIN mem[c] /\ i \in Ids /\ items'[i] = Stored(c, i)
      BY <1>4, <1>7, <2>1
    <3>2. \/ loaded[c][i] = None
          \/ loaded[c][i] # None /\ loaded[c][i] = items[i]
          \/ loaded[c][i] # None /\ Disturbed(c, items[i].name)
      BY <1>2, <3>1 DEF IInv, Fresh
    <3>3. loaded[c][i] # None => items[i].name = NameAt(c, n)
      BY <1>2, <3>1, StoredRow
    <3>4. loaded[c][i] = None \/ loaded[c][i] = items[i] => Stored(c, i) = job[c].rows[n]
      BY <1>2, <2>1, <3>1, StoredRow
    <3> QED
      BY <1>17, <2>1, <3>1, <3>2, <3>3, <3>4
  <2>2. CASE d # c
    <3> DEFINE i == mem[d][n]
    <3>1. result[d] = "ok" /\ Len(mem[d]) = Len(job[d].rows) /\ job[d] \in Job
      BY <1>3, <2>2 DEF IInv, Stages, StageOf, TypeOK
    <3>2. n \in DOMAIN mem[d]
      <4>1. mem[d] \in Seq(Ids) /\ job[d].rows \in Seq(Payloads)
        BY <3>1, JobShape DEF IInv, TypeOK
      <4> QED
        BY <3>1, <4>1
    <3>3. i \in Ids /\ Target(d, n)
      BY <3>2, PlaceOf DEF IInv, Targets
    <3>4. items[i] = job[d].rows[n] \/ Disturbed(d, NameAt(d, n))
      BY <3>1 DEF IInv, Stay
    <3>5. CASE ~Writes(i)
      BY <1>1, <1>17, <3>3, <3>4, <3>5
    <3>6. CASE Writes(i)
      <4>1. PICK m \in DOMAIN mem[c] : mem[c][m] = i
        BY <3>6 DEF Writes
      <4>2. items'[i].name = NameAt(c, m)
        BY <1>7, <4>1
      <4>3. items'[i].name = NameAt(d, n)
        <5>1. CASE i = <<d, n>>
          <6>1. items[i] # None
            BY <1>2, <2>2, <4>1, <5>1, StoredRow
          <6>2. Origin(i) /\ i \notin FromSeed
            BY <3>3, <5>1, IdShape, CatalogConstants DEF IInv, Origins
          <6> QED
            BY <1>8, <3>3, <5>1, <6>1, <6>2 DEF Origin
        <5>2. CASE i # <<d, n>>
          <6>1. loaded[d][i] # None /\ items[i].name = NameAt(d, n)
            BY <3>3, <5>2 DEF Target
          <6>2. items[i] # None
            BY <3>3, <6>1 DEF IInv, LoadedRows, LoadedRow
          <6> QED
            BY <1>8, <3>3, <6>1, <6>2
        <5> QED
          BY <5>1, <5>2
      <4> QED
        BY <1>18, <2>2, <4>1, <4>2, <4>3
    <3> QED
      BY <3>5, <3>6
  <2> QED
    BY <2>1, <2>2
<1> QED
  BY <1>10, <1>11, <1>12, <1>13, <1>14, <1>15, <1>16, <1>19, <1>20 DEF IInv

-----------------------------------------------------------------------------
\* Every step keeps the invariant.
LEMMA Inductive == IInv /\ [Next]_vars => IInv'
<1> SUFFICES ASSUME IInv, [Next]_vars PROVE IInv'
  OBVIOUS
<1>1. CASE UNCHANGED vars
  <2> USE <1>1 DEF vars, work, NameAt
  <2>1. TypeOK' /\ Stages' /\ Ordered'
    BY DEF IInv, TypeOK, Stages, StageOf, Ordered
  <2>2. Origins' /\ Targets'
    BY DEF IInv, Origins, Origin, Targets, Target
  <2>3. LoadedRows' /\ LooksUp'
    BY DEF IInv, LoadedRows, LoadedRow, LooksUp, Earlier
  <2>4. \A name : \A d \in Calls : Disturbed(d, name)' <=> Disturbed(d, name)
    BY DEF Disturbed, Names
  <2>5. Fresh'
    BY <2>4 DEF IInv, Fresh
  <2>6. Stay'
    <3>1. \A d, m : Lasting(d, m)' <=> Lasting(d, m)
      BY DEF Lasting
    <3> QED
      BY <2>4, <3>1 DEF IInv, Stay
  <2> QED
    BY <2>1, <2>2, <2>3, <2>5, <2>6 DEF IInv
<1>2. ASSUME NEW c \in Calls, Ambiguous(c) \/ Abort(c) PROVE IInv'
  BY <1>2, FailureKeeps DEF Ambiguous, Abort
<1> QED
  BY <1>1, <1>2, SubmitKeeps, LookUpKeeps, WriteKeeps DEF Next

\* The invariant holds throughout.
LEMMA Invariance == Spec => []IInv
BY InitIInv, Inductive, PTL DEF Spec

\* The variables keep their types, whatever is uploaded.
THEOREM CatalogTypeCorrect == Spec => []TypeOK
<1>1. IInv => TypeOK
  BY DEF IInv
<1> QED
  BY <1>1, Invariance, PTL

\* Two items have one name only if one import repeats it or two calls that
\* overlapped both added it: upsert_catalog_items, import_catalog_items.
THEOREM NoSecondName == Spec => []NamesAreUnique
<1>1. IInv => NamesAreUnique
  <2> SUFFICES ASSUME IInv PROVE NamesAreUnique
    OBVIOUS
  <2>2. ASSUME NEW i \in Rows, NEW j \in Rows, i # j, items[i].name = items[j].name,
               Earlier(i, j[1])
        PROVE  j \in FromSeed
    <3> SUFFICES ASSUME j \notin FromSeed PROVE FALSE
      OBVIOUS
    <3>1. Origin(j) /\ i \in Ids /\ items[i] # None /\ items[j] # None
      BY DEF IInv, Origins, Rows
    <3>2. j[1] \in Calls /\ j[2] \in DOMAIN mem[j[1]] /\ mem[j[1]][j[2]] = j
          /\ items[j].name = NameAt(j[1], j[2])
      BY <3>1 DEF Origin
    <3> QED
      BY <2>2, <3>1, <3>2 DEF IInv, LooksUp
  <2>3. ASSUME NEW i \in FromSeed, NEW j \in FromSeed, items[i].name = items[j].name
        PROVE  i = j
    <3>1. i \in Ids /\ j \in Ids
      BY DEF Ids
    <3>2. items[i].name = Seeded[i[2]].name /\ items[j].name = Seeded[j[2]].name
      BY <3>1, IdShape, CatalogConstants DEF IInv, Origins, Origin
    <3> QED
      <4>1. i = <<i[1], i[2]>> /\ j = <<j[1], j[2]>> /\ i[1] = j[1]
        BY <3>1, IdShape, CatalogConstants
      <4>2. i[2] = j[2]
        BY <2>3, <3>1, <3>2, IdShape, CatalogConstants
      <4> QED
        BY <4>1, <4>2
  <2>4. ASSUME NEW i \in Rows, NEW j \in Rows, i # j, items[i].name = items[j].name
        PROVE  i \notin FromSeed /\ j \notin FromSeed
    BY <2>2, <2>3, <2>4 DEF Earlier
  <2>5. ASSUME NEW i \in Rows, NEW j \in Rows, i # j, items[i].name = items[j].name
        PROVE  Overlap(i[1], j[1])
    BY <2>2, <2>4, <2>5 DEF Earlier, Overlap
  <2> QED
    BY <2>4, <2>5 DEF NamesAreUnique
<1> QED
  BY <1>1, Invariance, PTL

\* A name that two items have is not written by any call that began later:
\* its look-up, scalar_one_or_none, would have found both.
THEOREM AmbiguousNamesStay == Spec => []AmbiguityStays
<1>1. IInv => AmbiguityStays
  <2> SUFFICES ASSUME IInv, NEW c \in Written, NEW i \in Rows, NEW j \in Rows,
                      i # j, items[i].name = items[j].name, items[i].name \in Names(c),
                      <<i[1], c>> \in before, <<j[1], c>> \in before
               PROVE  FALSE
    BY DEF AmbiguityStays
  <2>1. PICK n \in DOMAIN job[c].rows : items[i].name = NameAt(c, n)
    BY DEF Names, NameAt
  <2>2. /\ c \in Calls /\ job[c] \in Job /\ Len(mem[c]) = Len(job[c].rows)
        /\ mem[c] \in Seq(Ids)
    BY DEF IInv, Stages, StageOf, TypeOK, Written
  <2>3. n \in DOMAIN mem[c]
    BY <2>2, JobShape
  <2>4. mem[c][n] = i /\ mem[c][n] = j
    BY <2>1, <2>2, <2>3 DEF IInv, LooksUp, Rows, Earlier
  <2> QED
    BY <2>4
<1> QED
  BY <1>1, Invariance, PTL

\* The last to write a name decides the item, unless another call on that name
\* that was not over when it began has written too: UPDATE sets single columns.
THEOREM LastWriteWins == Spec => []LastWriteStays
<1>1. IInv => LastWriteStays
  <2> SUFFICES ASSUME IInv, NEW c \in Written, NEW n \in DOMAIN job[c].rows,
                      \A d \in Written \ {c} : NameAt(c, n) \in Names(d) => <<d, c>> \in before,
                      Lasting(c, n)
               PROVE  \E i \in Rows : items[i] = job[c].rows[n]
    BY DEF LastWriteStays, NameAt, Lasting
  <2>1. /\ c \in Calls /\ job[c] \in Job /\ Len(mem[c]) = Len(job[c].rows)
        /\ mem[c] \in Seq(Ids) /\ result[c] = "ok"
    BY DEF IInv, Stages, StageOf, TypeOK, Written
  <2>2. n \in DOMAIN mem[c]
    BY <2>1, JobShape
  <2>3. mem[c][n] \in Ids /\ job[c].rows[n] \in Item
    BY <2>1, <2>2, PlaceOf DEF IInv
  <2>4. ~Disturbed(c, NameAt(c, n))
    BY DEF Disturbed, Written
  <2>5. items[mem[c][n]] = job[c].rows[n]
    BY <2>1, <2>4 DEF IInv, Stay
  <2> QED
    BY <2>3, <2>5, CatalogConstants DEF Rows
<1> QED
  BY <1>1, Invariance, PTL

====
