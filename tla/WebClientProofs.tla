---- MODULE WebClientProofs ----
(***************************************************************************)
(* Proofs about WebClient, for every query and page of the web client and  *)
(* for any number of operations and writes.  A write is owed to the query  *)
(* only when its operation succeeds, which invalidates the query; what is  *)
(* left to rule out is an answer on its way that was read before.          *)
(***************************************************************************)
EXTENDS WebClient, TLAPS

\* An answer on its way has every write that is owed, unless it is overtaken.
AnswerIsCurrent == fetch.phase = "answered" /\ ~overtaken => owed <= fetch.at

\* Requests and operations of the type.
RequestType(v) == [phase : {"idle", "failed", "asked", "answered"}, at : 0..v, tries : 0..1]

OperationType(v) ==
    {o \in [kind : Kinds \cup {"none"}, at : 0..v, here : BOOLEAN,
             phase : {"free", "sent", "performed"}] :
        o.phase # "free" => o.kind \in Kinds}

\* The types, with the records named.
Types ==
    /\ key \in Watched /\ page \in Visited
    /\ version \in Versions /\ owed \in 0..version
    /\ cache \in {NoData} \cup 0..version
    /\ invalid \in BOOLEAN /\ old \in BOOLEAN /\ gone \in BOOLEAN /\ overtaken \in BOOLEAN
    /\ fetch \in RequestType(version)
    /\ ops \in [Slots -> OperationType(version)]

IInv == Types /\ ValidDataAreCurrent /\ AnswerIsCurrent

-----------------------------------------------------------------------------
\* Of what its own page shows, an operation that leaves the page where it is
\* invalidates all that it changes.
LEMMA InvalidatesWhatItChanges ==
    ASSUME NEW p \in Pages, NEW kind \in Offers[p], kind # "delete"
    PROVE  Touches[kind] \cap Mounts[p] \subseteq Invalidates[kind]
<1>1. kind \in Kinds
  BY DEF Kinds
<1>2. CASE p = "list"
  BY <1>1, <1>2 DEF Touches, Invalidates, Offers, Mounts, Pages
<1>3. CASE p = "detail"
  BY <1>1, <1>3 DEF Touches, Invalidates, Offers, Mounts, Pages
<1>4. CASE p = "adding"
  BY <1>1, <1>4 DEF Touches, Invalidates, Offers, Mounts, Pages
<1>5. CASE p = "catalog"
  BY <1>1, <1>5 DEF Touches, Invalidates, Offers, Mounts, Pages
<1>6. CASE p = "templates"
  BY <1>1, <1>6 DEF Touches, Invalidates, Offers, Mounts, Pages
<1>7. CASE p = "billing"
  BY <1>1, <1>7 DEF Touches, Invalidates, Offers, Mounts, Pages
<1>8. CASE p = "settings"
  BY <1>1, <1>8 DEF Touches, Invalidates, Offers, Mounts, Pages, Keys
<1>9. CASE p = "admin"
  BY <1>1, <1>9 DEF Touches, Invalidates, Offers, Mounts, Pages, Keys
<1> QED
  BY <1>2, <1>3, <1>4, <1>5, <1>6, <1>7, <1>8, <1>9 DEF Offers

\* So a write is owed to no query that is not invalidated.
LEMMA ExpectedIsInvalidated ==
    ASSUME NEW kind \in Kinds, kind # "delete" PROVE Expected(kind) = Invalidates[kind]
BY InvalidatesWhatItChanges DEF Expected

\* The requests and operations that the steps begin and end with.
LEMMA RequestTypes ==
    ASSUME NEW v \in Nat
    PROVE  /\ {Fetching, Idle, Failed, Asked(0), Asked(1)} \subseteq RequestType(v)
           /\ Free \in OperationType(v)
BY DEF RequestType, OperationType, Fetching, Idle, Failed, Asked, Free

\* What is no answer on its way.
LEMMA NotAnswered ==
    /\ Fetching.phase = "asked" /\ Asked(0).phase = "asked"
    /\ Idle.phase = "idle" /\ Failed.phase = "failed"
BY DEF Fetching, Idle, Failed, Asked

\* What is true of the smaller version is true of the larger.
LEMMA TypesGrow ==
    ASSUME NEW v \in Nat, NEW w \in Nat, v <= w
    PROVE  /\ RequestType(v) \subseteq RequestType(w)
           /\ OperationType(v) \subseteq OperationType(w)
BY DEF RequestType, OperationType

\* Before any write nothing is owed.
LEMMA Initially == Init => IInv
<1> SUFFICES ASSUME Init PROVE IInv
  OBVIOUS
<1>1. version \in Nat
  BY DEF Init
<1>2. /\ fetch \in RequestType(version) /\ fetch.phase # "answered"
      /\ ops \in [Slots -> OperationType(version)]
  BY <1>1, RequestTypes, NotAnswered DEF Init
<1>3. /\ key \in Watched /\ page \in Visited /\ version = 0 /\ owed = 0 /\ cache = NoData
      /\ invalid = FALSE /\ old = FALSE /\ gone = FALSE /\ overtaken = FALSE
  BY DEF Init
<1>4. Types
  <2>1. version \in Versions /\ owed \in 0..version
    BY <1>3, WebClientConstants DEF Versions
  <2> QED
    BY <1>2, <1>3, <2>1, Zenon DEF Types
<1> QED
  BY <1>2, <1>3, <1>4 DEF IInv, ValidDataAreCurrent, AnswerIsCurrent

\* The steps of the query and of others.
LEMMA QueryKeeps ==
    ASSUME IInv,
           \/ \E p \in Visited : Visit(p)
           \/ Reload \/ Age \/ Collect \/ Reconnect \/ OtherWriter \/ ServeFetch \/ Answers
    PROVE  IInv'
<1>1. Types /\ ValidDataAreCurrent /\ AnswerIsCurrent
  BY DEF IInv
<1>2. version \in Nat /\ MaxWrites \in Nat /\ owed \in Nat
  BY <1>1, WebClientConstants DEF Types, Versions
<1> SUFFICES Types' /\ ValidDataAreCurrent' /\ AnswerIsCurrent'
  BY DEF IInv
<1> USE <1>1, <1>2, WebClientConstants, RequestTypes, NotAnswered
        DEF Types, ValidDataAreCurrent, AnswerIsCurrent, answers, history
<1>4. ASSUME NEW p \in Visited, Visit(p) PROVE Types' /\ ValidDataAreCurrent' /\ AnswerIsCurrent'
  <2>1. fetch' \in {Fetching, fetch}
    BY <1>4 DEF Visit
  <2>2. ops' \in [Slots -> OperationType(version)]
    BY <1>4 DEF Visit, OperationType
  <2> QED
    BY <1>4, <2>1, <2>2 DEF Visit
<1>5. CASE Reload
  BY <1>5 DEF Reload
<1>6. CASE Age
  BY <1>6 DEF Age
<1>7. CASE Collect
  BY <1>7 DEF Collect
<1>8. CASE Reconnect
  BY <1>8 DEF Reconnect
<1>9. CASE OtherWriter
  <2>1. version' = version + 1 /\ version' \in Versions
    BY <1>9 DEF OtherWriter, Versions
  <2>2. /\ RequestType(version) \subseteq RequestType(version')
        /\ OperationType(version) \subseteq OperationType(version')
    BY <2>1, TypesGrow
  <2> QED
    BY <1>9, <2>1, <2>2 DEF OtherWriter
<1>10. CASE ServeFetch
  <2>1. fetch' = [fetch EXCEPT !.phase = "answered", !.at = version]
    BY <1>10 DEF ServeFetch
  <2>2. fetch' \in RequestType(version) /\ fetch'.at = version
    <3>1. fetch \in RequestType(version) /\ version \in 0..version
      OBVIOUS
    <3> HIDE DEF Types
    <3> QED
      BY ONLY <2>1, <3>1 DEF RequestType
  <2> QED
    BY <1>10, <2>2 DEF ServeFetch
<1>11. CASE FetchOk
  <2>1. fetch.phase = "answered" /\ fetch.at \in 0..version
    BY <1>11 DEF FetchOk, RequestType
  <2>2. /\ cache' = fetch.at /\ fetch' = Idle /\ overtaken' = (overtaken /\ fetch.at < owed)
        /\ invalid' = FALSE /\ old' = FALSE
        /\ UNCHANGED <<key, page, version, gone, ops, owed>>
    BY <1>11 DEF FetchOk
  <2>3. ~overtaken' => owed <= fetch.at
    BY <2>1, <2>2
  <2>4. Types'
    BY <2>1, <2>2
  <2> QED
    BY <2>2, <2>3, <2>4
<1>12. CASE FetchFails
  <2>1. UNCHANGED <<key, page, version, gone, cache, old, ops, owed>>
    BY <1>12 DEF FetchFails
  <2>2. CASE fetch.tries > 0 /\ Mounted
    <3>1. fetch' = Asked(fetch.tries - 1) /\ UNCHANGED <<invalid, overtaken>>
      BY <1>12, <2>2 DEF FetchFails
    <3>2. fetch.tries - 1 = 0
      BY <2>2 DEF RequestType
    <3>3. fetch' = Asked(0)
      BY <3>1, <3>2
    <3> QED
      BY <2>1, <3>1, <3>3
  <2>3. CASE ~(fetch.tries > 0 /\ Mounted)
    BY <1>12, <2>1, <2>3 DEF FetchFails
  <2> QED
    BY <2>2, <2>3
<1> QED
  BY <1>4, <1>5, <1>6, <1>7, <1>8, <1>9, <1>10, <1>11, <1>12 DEF Answers

\* An operation that is pressed, performed or refused owes nothing yet.
LEMMA UnansweredKeeps ==
    ASSUME IInv, NEW s \in Slots,
           (\E kind \in Kinds : Start(s, kind)) \/ Perform(s) \/ Fail(s)
    PROVE  IInv'
<1>1. Types /\ ValidDataAreCurrent /\ AnswerIsCurrent
  BY DEF IInv
<1>2. version \in Nat /\ MaxWrites \in Nat /\ owed \in Nat
  BY <1>1, WebClientConstants DEF Types, Versions
<1> SUFFICES Types' /\ ValidDataAreCurrent' /\ AnswerIsCurrent'
  BY DEF IInv
<1> USE <1>1, <1>2, WebClientConstants, RequestTypes
        DEF Types, ValidDataAreCurrent, AnswerIsCurrent, answers, history
<1>4. ASSUME NEW kind \in Kinds, Start(s, kind)
      PROVE  Types' /\ ValidDataAreCurrent' /\ AnswerIsCurrent'
  <2>1. ops' \in [Slots -> OperationType(version)]
    BY <1>4 DEF Start, OperationType
  <2> QED
    BY <1>4, <2>1 DEF Start
<1>5. CASE Perform(s)
  <2>1. version' \in Versions /\ version' >= version /\ gone' \in BOOLEAN
    BY <1>5 DEF Perform, Versions
  <2>2. /\ RequestType(version) \subseteq RequestType(version')
        /\ OperationType(version) \subseteq OperationType(version')
    BY <2>1, TypesGrow DEF Versions
  <2>3. [ops[s] EXCEPT !.phase = "performed", !.at = version'] \in OperationType(version')
    <3>1. /\ ops[s] \in OperationType(version') /\ version' \in 0..version'
          /\ ops[s].phase = "sent"
      BY <1>5, <2>1, <2>2 DEF Perform, Versions
    <3> QED
      BY <3>1 DEF OperationType
  <2>4. ops' \in [Slots -> OperationType(version')]
    BY <1>5, <2>2, <2>3 DEF Perform
  <2> QED
    BY <1>5, <2>1, <2>2, <2>4 DEF Perform
<1>6. CASE Fail(s)
  BY <1>6 DEF Fail
<1> QED
  BY <1>4, <1>5, <1>6

\* The request that an invalidation leaves on its way.
LEMMA NotRestarted ==
    ASSUME Refetched.phase = "answered"
    PROVE  Refetched = fetch /\ (~Mounted \/ cache = NoData) /\ fetch.phase = "answered"
BY NotAnswered DEF Refetched, InFlight

\* An operation that succeeds.
LEMMA SucceedKeeps ==
    ASSUME IInv, NEW s \in Slots, Succeed(s) PROVE IInv'
<1>1. Types /\ ValidDataAreCurrent /\ AnswerIsCurrent
  BY DEF IInv
<1>2. version \in Nat /\ owed \in 0..version /\ ops[s].at \in 0..version
  BY <1>1, WebClientConstants DEF Types, Versions, OperationType
<1>3. /\ ops' = [ops EXCEPT ![s] = Free]
      /\ UNCHANGED <<key, page, version, gone, cache, old>>
      /\ ops[s].phase = "performed" /\ ops[s].kind # "delete"
  BY DEF Succeed
<1>4. ops' \in [Slots -> OperationType(version)]
  BY <1>1, <1>2, <1>3, RequestTypes DEF Types
<1>5. Later(owed, ops[s].at) \in 0..version
  BY <1>2 DEF Later
<1>6. CASE key \in Invalidates[ops[s].kind]
  <2>1. invalid' = TRUE /\ fetch' = Refetched /\ overtaken' = (overtaken \/ Overtakes(ops[s].at))
        /\ owed' \in {owed, Later(owed, ops[s].at)}
    BY <1>6 DEF Succeed
  <2>2. fetch' \in RequestType(version)
    BY <1>1, <1>2, <2>1, RequestTypes DEF Refetched, Types
  <2>3. overtaken' \in BOOLEAN
    BY <2>1
  <2>4. Types'
    BY <1>1, <1>3, <1>4, <1>5, <2>1, <2>2, <2>3 DEF Types
  <2>5. AnswerIsCurrent'
    <3>1. SUFFICES ASSUME fetch'.phase = "answered", ~overtaken' PROVE owed' <= fetch'.at
      BY DEF AnswerIsCurrent
    <3>2. fetch' = fetch /\ (~Mounted \/ cache = NoData) /\ fetch.phase = "answered"
      BY <2>1, <3>1, NotRestarted
    <3>3. owed <= fetch.at /\ ~(fetch.at < ops[s].at) /\ fetch.at \in 0..version
      BY <1>1, <2>1, <3>1, <3>2 DEF AnswerIsCurrent, Overtakes, Types, RequestType
    <3> QED
      BY <1>2, <2>1, <3>2, <3>3 DEF Later
  <2> QED
    BY <2>1, <2>4, <2>5 DEF IInv, ValidDataAreCurrent
<1>7. CASE key \notin Invalidates[ops[s].kind]
  <2>1. ops[s].kind \in Kinds
    BY <1>1, <1>3 DEF Types, OperationType
  <2>2. key \notin Expected(ops[s].kind)
    BY <1>3, <1>7, <2>1, ExpectedIsInvalidated
  <2>3. UNCHANGED <<invalid, fetch, owed, overtaken>>
    BY <1>1, <1>7, <2>2 DEF Succeed, Types
  <2> QED
    BY <1>1, <1>3, <1>4, <2>3 DEF IInv, Types, ValidDataAreCurrent, AnswerIsCurrent
<1> QED
  BY <1>6, <1>7

\* The answer to a deletion.
LEMMA DeletedKeeps ==
    ASSUME IInv, NEW s \in Slots, Deleted(s) PROVE IInv'
<1>1. Types /\ ValidDataAreCurrent /\ AnswerIsCurrent
  BY DEF IInv
<1>2. version \in Nat /\ owed \in 0..version /\ ops[s].at \in 0..version
  BY <1>1, WebClientConstants DEF Types, Versions, OperationType
<1>3. /\ page' = "list" /\ UNCHANGED <<key, version, gone>>
      /\ page' \in Visited
  BY WebClientConstants DEF Deleted
<1>4. ops' \in [Slots -> OperationType(version)]
  <2>1. \A t \in Slots : ops[t].here \in BOOLEAN
    BY <1>1 DEF Types, OperationType
  <2>2. \A t \in Slots : [ops[t] EXCEPT !.here = @ /\ page = "list"] \in OperationType(version)
    BY <1>1, <2>1 DEF Types, OperationType
  <2> QED
    BY <1>2, <2>2, RequestTypes DEF Deleted
<1>5. Later(owed, ops[s].at) \in 0..version
  BY <1>2 DEF Later
<1>6. CASE key = "estimates"
  <2>1. /\ invalid' = TRUE /\ owed' = Later(owed, ops[s].at)
        /\ overtaken' = (overtaken \/ Overtakes(ops[s].at))
        /\ UNCHANGED <<cache, old>>
        /\ fetch' = IF page # "list" /\ ~InFlight THEN Fetching ELSE Refetched
    BY <1>6 DEF Deleted
  <2>2. fetch' \in RequestType(version)
    BY <1>1, <1>2, <2>1, RequestTypes DEF Refetched, Types
  <2>3. overtaken' \in BOOLEAN
    BY <2>1
  <2>4. Types'
    BY <1>1, <1>3, <1>4, <1>5, <2>1, <2>2, <2>3 DEF Types
  <2>5. AnswerIsCurrent'
    <3> SUFFICES ASSUME fetch'.phase = "answered", ~overtaken' PROVE owed' <= fetch'.at
      BY DEF AnswerIsCurrent
    <3>1. Refetched.phase = "answered" /\ fetch' = Refetched
      BY <2>1, NotAnswered
    <3>2. fetch' = fetch /\ (~Mounted \/ cache = NoData) /\ fetch.phase = "answered"
      BY <3>1, NotRestarted
    <3>3. owed <= fetch.at /\ ~(fetch.at < ops[s].at) /\ fetch.at \in 0..version
      BY <1>1, <2>1, <3>2 DEF AnswerIsCurrent, Overtakes, Types, RequestType
    <3> QED
      BY <1>2, <2>1, <3>2, <3>3 DEF Later
  <2> QED
    BY <2>1, <2>4, <2>5 DEF IInv, ValidDataAreCurrent
<1>7. CASE key = "estimate"
  <2>1. /\ cache' = NoData /\ invalid' = FALSE /\ old' = FALSE /\ overtaken' = FALSE
        /\ fetch' = Idle /\ owed' = owed
    BY <1>7 DEF Deleted
  <2> QED
    BY <1>1, <1>2, <1>3, <1>4, <2>1, RequestTypes, NotAnswered
       DEF IInv, Types, ValidDataAreCurrent, AnswerIsCurrent
<1>8. CASE key \notin {"estimate", "estimates"}
  <2>1. UNCHANGED <<cache, invalid, old, fetch, owed, overtaken>>
    BY <1>8 DEF Deleted, answers, history
  <2> QED
    BY <1>1, <1>3, <1>4, <2>1 DEF IInv, Types, ValidDataAreCurrent, AnswerIsCurrent
<1> QED
  BY <1>6, <1>7, <1>8

-----------------------------------------------------------------------------
\* Every step keeps the invariant, ...
LEMMA Preserved == IInv /\ [Next]_vars => IInv'
<1> SUFFICES ASSUME IInv, [Next]_vars PROVE IInv'
  OBVIOUS
<1>1. CASE Next
  BY <1>1, QueryKeeps, UnansweredKeeps, SucceedKeeps, DeletedKeeps DEF Next
<1>2. CASE UNCHANGED vars
  BY <1>2 DEF vars, answers, history, IInv, Types, ValidDataAreCurrent, AnswerIsCurrent
<1> QED
  BY <1>1, <1>2

\* ... so that it always holds.
LEMMA Inductive == Spec => []IInv
BY Initially, Preserved, PTL DEF Spec

\* Type correctness, for every query, page and number of operations and writes.
THEOREM WebTypeCorrect == Spec => []TypeOK
<1>1. IInv => TypeOK
  BY DEF IInv, Types, TypeOK, RequestType, OperationType
<1> QED
  BY <1>1, Inductive, PTL

\* Whatever query is followed and whatever pages are visited, data that the
\* cache takes for valid have every write that this tab was told about.
THEOREM CacheIsCurrent == Spec => []ValidDataAreCurrent
<1>1. IInv => ValidDataAreCurrent
  BY DEF IInv
<1> QED
  BY <1>1, Inductive, PTL
====
