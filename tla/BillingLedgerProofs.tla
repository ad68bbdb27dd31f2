---- MODULE BillingLedgerProofs ----
(***************************************************************************)
(* Theorems about BillingLedger, for any set of users, keys, calls and     *)
(* older rows.                                                             *)
(***************************************************************************)
EXTENDS BillingLedger, TLAPS

-----------------------------------------------------------------------------
(* The inductive invariant.  ExactlyOnce is not inductive: a call about to  *)
(* commit must be known to hold the write lock alone, to have found its key *)
(* free under that lock, and to have no older row for its key.              *)

\* Where a call stands agrees with what it was told and with the ledger.
Progress ==
    \A r \in Requests :
        /\ pc[r] = "done" <=> answer[r] # "pending"
        /\ pc[r] = "reply" => r \in ledger
        /\ r \in ledger => pc[r] = "reply" \/ answer[r] \in {"created", "lost"}

\* The write lock belongs to the one call inside its transaction, and that
\* call has found its key free if it is past the key's insert.
Transaction ==
    \A r \in Requests :
        /\ pc[r] \in {"key", "commit"} <=> writer = r
        /\ pc[r] = "key" => Keyed(r)
        /\ pc[r] = "commit" /\ Keyed(r) => ~KeyTaken(r)

\* What a committed key record says of its row.
RecordsAreTrue ==
    \A rec \in keys :
        /\ rec.event \in ledger
        /\ Keyed(rec.event)
        /\ rec.user = call[rec.event].user
        /\ rec.key \in CandidateKeys(rec.event)
        /\ rec.event \in Requests => rec.key = StorageKey(rec.event)
        /\ rec.event \in Legacy => rec.key.form # "scoped"

\* The UNIQUE index, and one record per row.
RecordsAreUnique ==
    \A c, d \in keys : c.key = d.key \/ c.event = d.event => c = d

EveryKeyedRowHasARecord ==
    \A e \in ledger : Keyed(e) => \E rec \in keys : rec.event = e

\* Older rows: keyed, distinct, committed, and never shadowed by a call
\* that is past its lookup.
LegacyIsRespected ==
    /\ Legacy \subseteq ledger
    /\ \A d, e \in Legacy : SameKey(d, e) => d = e
    /\ \A r \in Requests :
        \/ r \in ledger
        \/ pc[r] \in {"add", "write", "key", "commit", "reply"}
        => \A e \in Legacy : ~SameKey(e, r)

\* What each answer means.
AnswersAreTrue ==
    \A r \in Requests :
        /\ answer[r] = "pending" => reply[r] = NoOne
        /\ answer[r] = "created" => reply[r] = r /\ r \in ledger
        /\ answer[r] = "replayed" => reply[r] \in ledger /\ SameKey(reply[r], r)
        /\ answer[r] = "conflict" => Keyed(r) /\ KeyTaken(r)

IInv ==
    /\ TypeOK
    /\ Progress
    /\ Transaction
    /\ RecordsAreTrue
    /\ RecordsAreUnique
    /\ EveryKeyedRowHasARecord
    /\ LegacyIsRespected
    /\ AnswersAreTrue

-----------------------------------------------------------------------------
(* The invariant holds initially.                                          *)

\* A fresh store with older rows satisfies the invariant.
LEMMA InitIInv == Init => IInv
<1> SUFFICES ASSUME Init PROVE IInv
  OBVIOUS
<1> USE BillingConstants
<1>1. PICK form \in [Legacy -> {"raw", "plain"}] :
        /\ \A d, e \in Legacy :
            /\ SameKey(d, e) => d = e
            /\ form[d] = "raw" /\ form[e] = "raw" /\ call[d].key = call[e].key => d = e
        /\ keys = {LegacyRecord(e, form) : e \in Legacy}
  BY DEF Init
<1>2. /\ call \in [Events -> Calls]
      /\ \A e \in Legacy : call[e].key \in Keys
  BY DEF Init, Events, Calls
<1>3. \A e \in Legacy : LegacyKey(e, form) \in StoredKeys
  BY <1>2 DEF LegacyKey, StoredKeys, RawKey, PlainKey, Events, Calls
<1>3a. \A e \in Legacy :
        LegacyRecord(e, form) \in [key : StoredKeys, user : Users, event : Events]
  BY <1>2, <1>3 DEF LegacyRecord, Events, Calls
<1>3b. /\ \A e \in Legacy : LegacyRecord(e, form) \in keys
       /\ \A rec \in keys : \E e \in Legacy : rec = LegacyRecord(e, form)
  BY <1>1
<1>3c. keys \in SUBSET [key : StoredKeys, user : Users, event : Events]
  BY <1>3a, <1>3b
<1>4. TypeOK
  BY <1>2, <1>3c DEF Init, TypeOK, Events, Steps, Answers
<1>5. Progress /\ Transaction /\ AnswersAreTrue
  BY DEF Init, Progress, Transaction, AnswersAreTrue
<1>6. RecordsAreTrue
  <2>1. ASSUME NEW e \in Legacy
        PROVE  /\ LegacyKey(e, form) \in CandidateKeys(e)
               /\ LegacyKey(e, form).form # "scoped"
    BY <1>2 DEF LegacyKey, CandidateKeys, RawKey, PlainKey
  <2>2. /\ ledger = Legacy
        /\ \A e \in Legacy : Keyed(e)
    BY DEF Init, Keyed
  <2> QED
    BY <1>3b, <2>1, <2>2 DEF RecordsAreTrue, LegacyRecord
<1>7. RecordsAreUnique
  <2>1. ASSUME NEW d \in Legacy, NEW e \in Legacy,
               LegacyKey(d, form) = LegacyKey(e, form)
        PROVE d = e
    BY <1>1, <1>2, <2>1 DEF LegacyKey, SameKey, Keyed, RawKey, PlainKey
  <2> QED
    BY <1>3b, <2>1 DEF RecordsAreUnique, LegacyRecord
<1>8. EveryKeyedRowHasARecord
  BY <1>3b DEF Init, EveryKeyedRowHasARecord, LegacyRecord
<1>9. LegacyIsRespected
  BY <1>1 DEF Init, LegacyIsRespected
<1> QED
  BY <1>4, <1>5, <1>6, <1>7, <1>8, <1>9 DEF IInv

-----------------------------------------------------------------------------
(* Every step preserves types.                                             *)

\* Every step keeps every variable in its type.
LEMMA TypeStep == TypeOK /\ [Next]_vars => TypeOK'
<1> SUFFICES ASSUME TypeOK, [Next]_vars PROVE TypeOK'
  OBVIOUS
<1> USE BillingConstants DEF TypeOK, Steps, Answers, Events
<1>1. CASE UNCHANGED vars
  BY <1>1 DEF vars
<1>2. CASE Crash
  BY <1>2 DEF Crash
<1>3. ASSUME NEW r \in Requests, Start(r) \/ Serve(r) PROVE TypeOK'
  <2>1. CASE Start(r)
    BY <2>1 DEF Start, Goto
  <2>2. CASE Admit(r) \/ NoReplay(r) \/ InsertKey(r)
    BY <2>2 DEF Admit, NoReplay, InsertKey, Goto
  <2>3. CASE Reject(r) \/ BusyTimeout(r) \/ KeyConflict(r) \/ Respond(r)
    BY <2>3 DEF Reject, BusyTimeout, KeyConflict, Respond, Finish, Goto
  <2>4. CASE Replay(r)
    BY <2>4 DEF Replay, Matches, Finish, Goto
  <2>5. CASE Stamp(r)
    BY <2>5 DEF Stamp, Goto
  <2>6. CASE InsertEvent(r)
    BY <2>6 DEF InsertEvent, Goto
  <2>7. CASE Commit(r)
    <3>1. Keyed(r) => Record(r) \in [key : StoredKeys, user : Users, event : Events]
      BY DEF Record, StorageKey, ScopedKey, StoredKeys, Keyed, Calls
    <3> QED
      BY <2>7, <3>1 DEF Commit, Goto
  <2> QED
    BY <1>3, <2>1, <2>2, <2>3, <2>4, <2>5, <2>6, <2>7 DEF Serve
<1> QED
  BY <1>1, <1>2, <1>3 DEF Next

-----------------------------------------------------------------------------
(* Facts about the key lookup used by several steps.                       *)

\* A record found by the lookup belongs to a committed row of the same call.
LEMMA MatchIsSameKey ==
  ASSUME IInv, NEW r \in Requests, Keyed(r), NEW rec \in Matches(r)
  PROVE  rec.event \in ledger /\ SameKey(rec.event, r)
  BY DEF IInv, RecordsAreTrue, Matches, CandidateKeys, SameKey, Keyed,
         ScopedKey, PlainKey, RawKey

\* The lookup finds an older row kept under any of the older key forms.
LEMMA LegacyIsFound ==
  ASSUME IInv, NEW r \in Requests, NEW e \in Legacy, SameKey(e, r)
  PROVE  Matches(r) # {}
<1>1. e \in ledger /\ Keyed(e)
  BY DEF IInv, LegacyIsRespected, SameKey, Keyed
<1>2. PICK rec \in keys : rec.event = e
  BY <1>1 DEF IInv, EveryKeyedRowHasARecord
<1>3. rec.user = call[r].user /\ rec.key \in CandidateKeys(r)
  BY <1>2 DEF IInv, RecordsAreTrue, SameKey, CandidateKeys
<1> QED
  BY <1>2, <1>3 DEF Matches

\* A key already stored in today's form is a committed row of the same call.
LEMMA TakenIsSameKey ==
  ASSUME IInv, NEW r \in Requests, Keyed(r), KeyTaken(r)
  PROVE  \E rec \in Matches(r) : SameKey(rec.event, r) /\ rec.event \in ledger
<1>1. PICK rec \in keys : rec.key = StorageKey(r)
  BY DEF KeyTaken
<1>2. rec.event \in Requests
  <2>1. rec.key.form = "scoped"
    BY <1>1 DEF StorageKey, ScopedKey
  <2>2. rec.event \in Requests \cup Legacy
    BY DEF IInv, TypeOK, Events
  <2> QED
    BY <2>1, <2>2 DEF IInv, RecordsAreTrue
<1>3. rec.key = StorageKey(rec.event) /\ rec.event \in ledger /\ rec.user = call[rec.event].user
  BY <1>2 DEF IInv, RecordsAreTrue
<1>4. SameKey(rec.event, r)
  BY <1>1, <1>3 DEF StorageKey, ScopedKey, SameKey
<1> QED
  BY <1>1, <1>3, <1>4 DEF Matches, CandidateKeys, StorageKey, SameKey

\* A step that leaves the committed rows alone keeps what is said of them.
LEMMA StoreUnchanged ==
  ASSUME IInv, UNCHANGED <<call, ledger, keys>>
  PROVE  RecordsAreTrue' /\ RecordsAreUnique' /\ EveryKeyedRowHasARecord'
  BY DEF IInv, RecordsAreTrue, RecordsAreUnique, EveryKeyedRowHasARecord,
         Keyed, CandidateKeys, StorageKey

-----------------------------------------------------------------------------
(* Every step preserves the invariant, one lemma for each kind of step.    *)

\* Steps before the transaction and refusals outside it.
LEMMA OutsideStep ==
  ASSUME IInv, NEW r \in Requests,
         Start(r) \/ Admit(r) \/ Reject(r) \/ Stamp(r) \/ BusyTimeout(r)
  PROVE  Progress' /\ Transaction' /\ LegacyIsRespected' /\ AnswersAreTrue'
<1> USE BillingConstants
<1> USE DEF IInv, TypeOK, Steps, Answers, Events, Start, Admit, Reject, Stamp,
            BusyTimeout, Finish, Goto
<1>1. Progress'
  BY DEF Progress, Transaction
<1>2. Transaction'
  BY DEF Transaction, Keyed, KeyTaken, StorageKey
<1>3. LegacyIsRespected'
  BY DEF LegacyIsRespected, SameKey, Keyed
<1>4. AnswersAreTrue'
  BY DEF AnswersAreTrue, Progress, SameKey, Keyed, KeyTaken, StorageKey
<1> QED
  BY <1>1, <1>2, <1>3, <1>4

\* The key lookup and the answer it may give.
LEMMA LookupStep ==
  ASSUME IInv, NEW r \in Requests, Replay(r) \/ NoReplay(r)
  PROVE  Progress' /\ Transaction' /\ LegacyIsRespected' /\ AnswersAreTrue'
<1> USE BillingConstants
<1> USE DEF IInv, TypeOK, Steps, Answers, Events
<1>1. CASE Replay(r)
  <2> USE DEF Replay, Finish, Goto
  <2>1. PICK rec \in Matches(r) :
          /\ pc' = [pc EXCEPT ![r] = "done"]
          /\ answer' = [answer EXCEPT ![r] = "replayed"]
          /\ reply' = [reply EXCEPT ![r] = rec.event]
    BY <1>1
  <2>2. rec.event \in ledger /\ SameKey(rec.event, r)
    BY <1>1, MatchIsSameKey
  <2>3. Progress'
    BY <1>1, <2>1 DEF Progress
  <2>4. Transaction'
    BY <1>1, <2>1 DEF Transaction, Keyed, KeyTaken, StorageKey
  <2>5. LegacyIsRespected'
    BY <1>1, <2>1 DEF LegacyIsRespected, Progress, SameKey, Keyed
  <2>6. AnswersAreTrue'
    BY <1>1, <2>1, <2>2 DEF AnswersAreTrue, SameKey, Keyed, KeyTaken, StorageKey
  <2> QED
    BY <2>3, <2>4, <2>5, <2>6
<1>2. CASE NoReplay(r)
  <2> USE DEF NoReplay, Goto
  <2>1. Progress'
    BY <1>2 DEF Progress
  <2>2. Transaction'
    BY <1>2 DEF Transaction, Keyed, KeyTaken, StorageKey
  <2>3. \A e \in Legacy : ~SameKey(e, r)
    BY <1>2, LegacyIsFound DEF SameKey
  <2>4. LegacyIsRespected'
    BY <1>2, <2>3 DEF LegacyIsRespected, SameKey, Keyed
  <2>5. AnswersAreTrue'
    BY <1>2 DEF AnswersAreTrue, SameKey, Keyed, KeyTaken, StorageKey
  <2> QED
    BY <2>1, <2>2, <2>4, <2>5
<1> QED
  BY <1>1, <1>2

\* The statements inside the write transaction that commit nothing.
LEMMA TransactionStep ==
  ASSUME IInv, NEW r \in Requests, InsertEvent(r) \/ InsertKey(r) \/ KeyConflict(r)
  PROVE  Progress' /\ Transaction' /\ LegacyIsRespected' /\ AnswersAreTrue'
<1> USE BillingConstants
<1> USE DEF IInv, TypeOK, Steps, Answers, Events, InsertEvent, InsertKey,
            KeyConflict, Finish, Goto
<1>1. Progress'
  BY DEF Progress
<1>2. Transaction'
  BY DEF Transaction, Keyed, KeyTaken, StorageKey
<1>3. LegacyIsRespected'
  BY DEF LegacyIsRespected, Progress, SameKey, Keyed
<1>4. AnswersAreTrue'
  BY DEF AnswersAreTrue, Progress, Transaction, SameKey, Keyed, KeyTaken, StorageKey
<1> QED
  BY <1>1, <1>2, <1>3, <1>4

\* The commit makes the row and its record durable together.
LEMMA CommitStep ==
  ASSUME IInv, NEW r \in Requests, Commit(r)
  PROVE  /\ Progress' /\ Transaction' /\ LegacyIsRespected' /\ AnswersAreTrue'
         /\ RecordsAreTrue' /\ RecordsAreUnique' /\ EveryKeyedRowHasARecord'
<1> USE BillingConstants
<1> USE DEF IInv, TypeOK, Steps, Answers, Events, Commit, Goto
<1>0. /\ writer = r /\ r \notin ledger
      /\ Keyed(r) => ~KeyTaken(r)
      /\ \A q \in Requests : q # r => pc[q] \notin {"key", "commit"}
  BY DEF Transaction, Progress
<1>1. Progress'
  BY DEF Progress
<1>2. Transaction'
  BY <1>0 DEF Transaction, Keyed, KeyTaken, StorageKey
<1>3. LegacyIsRespected'
  BY DEF LegacyIsRespected, SameKey, Keyed
<1>4. AnswersAreTrue'
  BY DEF AnswersAreTrue, SameKey, Keyed, KeyTaken, StorageKey
<1>5. Record(r).event = r /\ Record(r).user = call[r].user /\ Record(r).key = StorageKey(r)
  BY DEF Record
<1>6. keys' = keys \cup (IF Keyed(r) THEN {Record(r)} ELSE {})
  OBVIOUS
<1>7. RecordsAreTrue'
  <2>1. ASSUME NEW rec \in keys'
        PROVE  RecordsAreTrue!(rec)'
    <3>1. CASE rec \in keys
      BY <3>1 DEF RecordsAreTrue, Keyed, CandidateKeys, StorageKey
    <3>2. CASE rec \notin keys
      <4>1. rec = Record(r) /\ Keyed(r)
        BY <1>6, <3>2
      <4> QED
        BY <4>1, <1>5 DEF Keyed, CandidateKeys, StorageKey
    <3> QED
      BY <3>1, <3>2
  <2> QED
    BY <2>1 DEF RecordsAreTrue
<1>8. RecordsAreUnique'
  <2>1. \A rec \in keys : Keyed(r) => rec.key # StorageKey(r)
    BY <1>0 DEF KeyTaken
  <2>2. \A rec \in keys : rec.event # r
    BY <1>0 DEF RecordsAreTrue
  <2> QED
    BY <1>5, <1>6, <2>1, <2>2 DEF RecordsAreUnique
<1>9. EveryKeyedRowHasARecord'
  BY <1>5, <1>6 DEF EveryKeyedRowHasARecord, Keyed
<1> QED
  BY <1>1, <1>2, <1>3, <1>4, <1>7, <1>8, <1>9

\* The answer to a committed call.
LEMMA RespondStep ==
  ASSUME IInv, NEW r \in Requests, Respond(r)
  PROVE  Progress' /\ Transaction' /\ LegacyIsRespected' /\ AnswersAreTrue'
<1> USE BillingConstants
<1> USE DEF IInv, TypeOK, Steps, Answers, Events, Respond, Finish, Goto
<1>1. Progress'
  BY DEF Progress
<1>2. Transaction'
  BY DEF Transaction, Keyed, KeyTaken, StorageKey
<1>3. LegacyIsRespected'
  BY DEF LegacyIsRespected, Progress, SameKey, Keyed
<1>4. AnswersAreTrue'
  BY DEF AnswersAreTrue, Progress, SameKey, Keyed, KeyTaken, StorageKey
<1> QED
  BY <1>1, <1>2, <1>3, <1>4

\* A crash loses the open transaction and nothing that was committed.
LEMMA CrashStep ==
  ASSUME IInv, Crash
  PROVE  Progress' /\ Transaction' /\ LegacyIsRespected' /\ AnswersAreTrue'
<1> USE BillingConstants
<1> USE DEF IInv, TypeOK, Steps, Answers, Events, Crash, InFlight
<1>1. Progress'
  BY DEF Progress
<1>2. Transaction'
  BY DEF Transaction, Keyed, KeyTaken, StorageKey
<1>3. LegacyIsRespected'
  BY DEF LegacyIsRespected, SameKey, Keyed
<1>4. AnswersAreTrue'
  BY DEF AnswersAreTrue, Progress, SameKey, Keyed, KeyTaken, StorageKey
<1> QED
  BY <1>1, <1>2, <1>3, <1>4

\* Every step of the system preserves the invariant.
LEMMA NextIInv == IInv /\ [Next]_vars => IInv'
<1> SUFFICES ASSUME IInv, [Next]_vars PROVE IInv'
  OBVIOUS
<1>1. TypeOK'
  BY TypeStep DEF IInv
<1>2. CASE UNCHANGED vars
  BY <1>2 DEF vars, IInv, TypeOK, Events, Progress, Transaction, RecordsAreTrue,
      RecordsAreUnique, EveryKeyedRowHasARecord, LegacyIsRespected, AnswersAreTrue,
      Keyed, KeyTaken, StorageKey, CandidateKeys, SameKey
<1>3. CASE Crash
  <2>1. UNCHANGED <<call, ledger, keys>>
    BY <1>3 DEF Crash
  <2> QED
    BY <1>1, <1>3, <2>1, CrashStep, StoreUnchanged DEF IInv
<1>4. ASSUME NEW r \in Requests, Start(r) \/ Serve(r) PROVE IInv'
  <2>1. CASE Commit(r)
    BY <1>1, <2>1, CommitStep DEF IInv
  <2>2. CASE ~Commit(r)
    <3>1. UNCHANGED <<call, ledger, keys>>
      BY <1>4, <2>2 DEF Serve, Start, Admit, Reject, Replay, NoReplay, Stamp,
          InsertEvent, BusyTimeout, InsertKey, KeyConflict, Respond
    <3>2. Progress' /\ Transaction' /\ LegacyIsRespected' /\ AnswersAreTrue'
      BY <1>4, <2>2, OutsideStep, LookupStep, TransactionStep, RespondStep DEF Serve
    <3> QED
      BY <1>1, <3>1, <3>2, StoreUnchanged DEF IInv
  <2> QED
    BY <2>1, <2>2
<1> QED
  BY <1>2, <1>3, <1>4 DEF Next

\* The inductive invariant holds in every reachable state.
THEOREM Invariance == Spec => []IInv
<1> QED
  BY InitIInv, NextIInv, PTL DEF Spec

\* The variables keep their types for any number of users, keys and calls.
THEOREM TypeCorrect == Spec => []TypeOK
<1>1. IInv => TypeOK
  BY DEF IInv
<1> QED
  BY <1>1, Invariance, PTL

\* However calls race, crash and retry, a user's key is booked at most once,
\* counting the rows that older releases booked.
THEOREM BookedOnce == Spec => []ExactlyOnce
<1>1. IInv => ExactlyOnce
  <2> SUFFICES ASSUME IInv, NEW d \in ledger, NEW e \in ledger, SameKey(d, e)
               PROVE  d = e
    BY DEF ExactlyOnce
  <2> USE BillingConstants
  <2>1. d \in Requests \cup Legacy /\ e \in Requests \cup Legacy
    BY DEF IInv, TypeOK, Events
  <2>2. SameKey(e, d)
    BY DEF SameKey, Keyed
  <2>3. CASE d \in Legacy /\ e \in Legacy
    BY <2>3 DEF IInv, LegacyIsRespected
  <2>4. CASE d \in Requests /\ e \in Legacy
    BY <2>2, <2>4 DEF IInv, LegacyIsRespected
  <2>5. CASE d \in Legacy /\ e \in Requests
    BY <2>5 DEF IInv, LegacyIsRespected
  <2>6. CASE d \in Requests /\ e \in Requests
    <3>1. PICK c \in keys : c.event = d
      BY <2>2 DEF IInv, EveryKeyedRowHasARecord, SameKey
    <3>2. PICK f \in keys : f.event = e
      BY DEF IInv, EveryKeyedRowHasARecord, SameKey
    <3>3. c.key = StorageKey(d) /\ f.key = StorageKey(e)
      BY <2>6, <3>1, <3>2 DEF IInv, RecordsAreTrue
    <3>4. StorageKey(d) = StorageKey(e)
      BY DEF SameKey, StorageKey
    <3>5. c = f
      BY <3>3, <3>4 DEF IInv, RecordsAreUnique
    <3> QED
      BY <3>1, <3>2, <3>5
  <2> QED
    BY <2>1, <2>3, <2>4, <2>5, <2>6
<1> QED
  BY <1>1, Invariance, PTL

\* An acknowledgement survives: the row it names is committed.
THEOREM AcknowledgementHolds == Spec => []AcknowledgedIsDurable
<1>1. IInv => AcknowledgedIsDurable
  BY DEF IInv, AnswersAreTrue, AcknowledgedIsDurable
<1> QED
  BY <1>1, Invariance, PTL

\* A refused call has no row.
THEOREM RefusalIsClean == Spec => []RefusedLeavesNothing
<1>1. IInv => RefusedLeavesNothing
  BY DEF IInv, Progress, RefusedLeavesNothing
<1> QED
  BY <1>1, Invariance, PTL

\* The loser of a race can retry: its key is found.
THEOREM ConflictCanBeRetried == Spec => []ConflictIsReplayable
<1>1. IInv => ConflictIsReplayable
  BY TakenIsSameKey DEF IInv, AnswersAreTrue, ConflictIsReplayable
<1> QED
  BY <1>1, Invariance, PTL

\* Rows and key records are committed together.
THEOREM RowAndRecordTogether == Spec => []RowHasItsRecord
<1>1. IInv => RowHasItsRecord
  BY DEF IInv, RecordsAreTrue, RecordsAreUnique, EveryKeyedRowHasARecord, RowHasItsRecord
<1> QED
  BY <1>1, Invariance, PTL

-----------------------------------------------------------------------------
(* The lifecycle of calls that overlap no other.  The check reads the       *)
(* ledger, the row is stamped and committed later; for a call that overlaps *)
(* no other of its user, the rows that were there when it arrived are those *)
(* the check read, and those that are older than its own row for ever.      *)

\* The lifecycle rows of a user.
Own(u, rows) == {e \in rows : call[e].user = u /\ call[e].type \in LifecycleTypes}

IsLatest(e, own) == e \in own /\ \A f \in own : stamp[f] <= stamp[e]

\* What the check finds among the rows is type t.
Finds(own, t) ==
    \/ own = {} /\ t = NoEvent
    \/ \E e \in own : IsLatest(e, own) /\ t = call[e].type

\* Time stamps are distinct, and in the order of arrivals and commits.
Chronology ==
    /\ \A e \in Legacy : call[e].type = "estimate_charge" /\ stamp[e] = 0
    /\ \A r \in Requests :
        /\ stamp[r] <= clock
        /\ pc[r] \in {"idle", "check", "lookup", "add"} => stamp[r] = 0
        /\ pc[r] \in {"write", "key", "commit", "reply"} \/ r \in ledger => stamp[r] > 0
        /\ seen[r] \subseteq ledger
        /\ \A e \in seen[r] : stamp[r] > 0 => stamp[e] < stamp[r]
    /\ \A q, r \in Requests : stamp[q] = stamp[r] /\ stamp[q] > 0 => q = r

\* Every user with lifecycle rows has a latest one.
LatestExists ==
    \A u \in Users : Own(u, ledger) # {} => \E e \in Own(u, ledger) : IsLatest(e, Own(u, ledger))

OverlapsNone(r) == \A f \in ledger \cap Requests : ~Overlaps(r, f)

PastCheck(r) ==
    /\ call[r].type \in GatewayTypes
    /\ pc[r] \in {"lookup", "add", "write", "key", "commit", "reply"} \/ r \in ledger

\* A gateway call past its check was admitted after what it had seen.
Admitted ==
    \A r \in Requests : PastCheck(r) /\ OverlapsNone(r) =>
        \E t \in EventTypes \cup {NoEvent} :
            Finds(Own(call[r].user, seen[r]), t) /\ TransitionAllowed(call[r].type, t)

Lifecycle == Chronology /\ LatestExists /\ Admitted

\* Rows of one user have one latest, which is what LastLifecycle chooses.
LEMMA LatestIsChosen ==
  ASSUME IInv, Chronology, NEW u \in Users, NEW rows, rows \subseteq ledger, NEW t,
         Finds(Own(u, rows), t)
  PROVE  LastLifecycle(u, rows) = t
<1> DEFINE own == Own(u, rows)
<1>1. CASE own = {}
  BY <1>1 DEF Finds, LastLifecycle, Own
<1>2. CASE own # {}
  <2>1. PICK e \in own : IsLatest(e, own) /\ t = call[e].type
    BY <1>2 DEF Finds
  <2>2. \A f \in own : f \in Requests /\ stamp[f] \in Nat /\ stamp[f] > 0
    BY DEF Own, Chronology, IInv, TypeOK, Events, LifecycleTypes
  <2>3. ASSUME NEW f \in own, \A g \in own : stamp[g] <= stamp[f] PROVE f = e
    <3>1. stamp[e] <= stamp[f] /\ stamp[f] <= stamp[e]
      BY <2>1, <2>3 DEF IsLatest
    <3>2. stamp[e] = stamp[f]
      BY <2>2, <3>1
    <3> QED BY <2>2, <3>2 DEF Chronology
  <2>4. (CHOOSE x \in own : \A f \in own : stamp[f] <= stamp[x]) = e
    BY <2>1, <2>3 DEF IsLatest
  <2> QED BY <1>2, <2>1, <2>4 DEF LastLifecycle, Own
<1> QED BY <1>1, <1>2

\* What a step may not do to committed rows and to calls that have arrived.
Fixed ==
    /\ call' = call /\ ledger \subseteq ledger'
    /\ \A e \in ledger : stamp'[e] = stamp[e]
    /\ \A r \in Requests : pc[r] # "idle" => seen'[r] = seen[r]
    /\ \A r \in Requests : seen[r] \subseteq seen'[r]

\* No step touches a committed row, its stamp, or what a call has seen.
LEMMA PastIsFixed ==
  ASSUME IInv, Chronology, [Next]_vars
  PROVE  Fixed
<1> USE DEF Fixed, IInv, TypeOK, Events
<1>1. CASE UNCHANGED vars \/ Crash
  BY <1>1 DEF vars, Crash
<1>2. ASSUME NEW r \in Requests, Start(r) PROVE Fixed
  BY <1>2 DEF Start, Chronology, Progress
<1>3. ASSUME NEW r \in Requests, Stamp(r) PROVE Fixed
  BY <1>3 DEF Stamp, Progress
<1>4. ASSUME NEW r \in Requests, Serve(r), ~Stamp(r) PROVE Fixed
  BY <1>4 DEF Serve, Admit, Reject, Replay, NoReplay, InsertEvent, BusyTimeout, InsertKey,
              KeyConflict, Commit, Respond
<1> QED BY <1>1, <1>2, <1>3, <1>4 DEF Next

\* Stamps are drawn from a clock that only goes forward, before the commit.
LEMMA ChronologyKept == IInv /\ Chronology /\ [Next]_vars => Chronology'
<1> SUFFICES ASSUME IInv, Chronology, [Next]_vars PROVE Chronology'
  OBVIOUS
<1> USE DEF IInv, TypeOK, Events, Progress, Chronology
<1>1. CASE UNCHANGED vars
  BY <1>1 DEF vars
<1>2. CASE Crash
  BY <1>2 DEF Crash, InFlight
<1>3. ASSUME NEW r \in Requests, Start(r) PROVE Chronology'
  BY <1>3 DEF Start, Goto
<1>4. ASSUME NEW r \in Requests, Stamp(r) PROVE Chronology'
  <2> USE <1>4, BillingConstants DEF Stamp, Goto
  <2>1. r \notin ledger /\ \A q \in Requests : r \notin seen[q]
    OBVIOUS
  <2>2. \A e \in Legacy : e # r /\ stamp'[e] = 0
    OBVIOUS
  <2>3. /\ stamp'[r] = clock + 1 /\ clock' = clock + 1
        /\ \A q \in Requests : q # r => stamp'[q] = stamp[q] /\ pc'[q] = pc[q]
        /\ \A e \in ledger : stamp'[e] = stamp[e] /\ stamp[e] <= clock
        /\ UNCHANGED <<call, seen, ledger>> /\ pc'[r] = "write"
    BY <2>1, <2>2
  <2> HIDE <1>4 DEF Stamp, Goto
  <2> QED BY <2>1, <2>2, <2>3
<1>5. ASSUME NEW r \in Requests, Admit(r) \/ Reject(r) \/ NoReplay(r)
                                    \/ InsertEvent(r) \/ InsertKey(r) \/ Respond(r)
      PROVE  Chronology'
  BY <1>5 DEF Admit, Reject, NoReplay, InsertEvent, InsertKey, Respond, Goto, Finish
<1>6. ASSUME NEW r \in Requests, Replay(r) \/ BusyTimeout(r) \/ KeyConflict(r)
      PROVE  Chronology'
  BY <1>6 DEF Replay, BusyTimeout, KeyConflict, Goto, Finish
<1>7. ASSUME NEW r \in Requests, Commit(r) PROVE Chronology'
  BY <1>7 DEF Commit, Goto
<1> QED BY <1>1, <1>2, <1>3, <1>4, <1>5, <1>6, <1>7 DEF Next, Serve

\* A commit adds one row, which is the latest or leaves the latest as it was.
LEMMA LatestKept == IInv /\ Chronology /\ LatestExists /\ [Next]_vars => LatestExists'
<1> SUFFICES ASSUME IInv, Chronology, LatestExists, [Next]_vars, NEW u \in Users,
                    Own(u, ledger)' # {}
             PROVE  \E e \in Own(u, ledger)' : IsLatest(e, Own(u, ledger))'
  BY DEF LatestExists
<1>1. Fixed
  BY PastIsFixed
<1>2. CASE ledger' = ledger
  <2>1. Own(u, ledger)' = Own(u, ledger)
    BY <1>1, <1>2 DEF Own, Fixed
  <2>2. PICK e \in Own(u, ledger) : IsLatest(e, Own(u, ledger))
    BY <2>1 DEF LatestExists
  <2> QED BY <1>1, <2>1, <2>2 DEF IsLatest, Own, Fixed
<1>3. ASSUME NEW r \in Requests, Commit(r)
      PROVE  \E e \in Own(u, ledger)' : IsLatest(e, Own(u, ledger))'
  <2>1. ledger' = ledger \cup {r} /\ stamp' = stamp /\ call' = call
    BY <1>3 DEF Commit
  <2>2. stamp \in [Events -> Nat] /\ ledger \subseteq Events /\ r \in Events
    BY DEF IInv, TypeOK, Events
  <2>3. CASE r \notin Own(u, ledger)'
    <3>1. Own(u, ledger)' = Own(u, ledger)
      BY <2>1, <2>3 DEF Own
    <3> QED BY <2>1, <3>1 DEF IsLatest, LatestExists
  <2>4. CASE r \in Own(u, ledger)'
    <3>1. Own(u, ledger)' = Own(u, ledger) \cup {r}
      BY <2>1, <2>4 DEF Own
    <3>2. CASE Own(u, ledger) = {}
      BY <2>1, <2>2, <3>1, <3>2 DEF IsLatest
    <3>3. CASE Own(u, ledger) # {}
      <4>1. PICK e \in Own(u, ledger) : IsLatest(e, Own(u, ledger))
        BY <3>3 DEF LatestExists
      <4>2. \A f \in Own(u, ledger) : stamp[f] \in Nat /\ stamp[f] <= stamp[e]
        BY <2>2, <4>1 DEF IsLatest, Own
      <4>3. stamp[r] \in Nat /\ stamp[e] \in Nat
        BY <2>2, <4>2
      <4>4. CASE stamp[r] <= stamp[e]
        BY <2>1, <3>1, <4>1, <4>2, <4>4 DEF IsLatest
      <4>5. CASE stamp[e] <= stamp[r]
        <5>1. \A f \in Own(u, ledger) : stamp[f] <= stamp[r]
          BY <4>2, <4>3, <4>5
        <5>2. \A f \in Own(u, ledger)' : stamp'[f] <= stamp'[r]
          BY <2>1, <3>1, <4>3, <5>1
        <5> QED BY <2>4, <5>2 DEF IsLatest
      <4> QED BY <4>3, <4>4, <4>5
    <3> QED BY <3>2, <3>3
  <2> QED BY <2>3, <2>4
<1>4. ledger' = ledger \/ \E r \in Requests : Commit(r)
  BY DEF Next, Serve, vars, Crash, Start, Admit, Reject, Replay, NoReplay, Stamp,
         InsertEvent, BusyTimeout, InsertKey, KeyConflict, Respond
<1> QED BY <1>2, <1>3, <1>4

\* What a call that overlaps no other reads at its check is what it had seen.
LEMMA CheckReadsTheSeen ==
  ASSUME IInv, Lifecycle, NEW r \in Requests, r \notin ledger, OverlapsNone(r)
  PROVE  Own(call[r].user, ledger) = Own(call[r].user, seen[r])
<1>1. ASSUME NEW f \in Own(call[r].user, ledger) PROVE f \in seen[r]
  <2>1. f \in ledger \cap Requests /\ f # r /\ call[f].user = call[r].user
    BY DEF Own, Lifecycle, Chronology, IInv, TypeOK, Events, LifecycleTypes
  <2>2. r \notin seen[f]
    BY <2>1 DEF Lifecycle, Chronology
  <2> QED BY <2>1, <2>2 DEF OverlapsNone, Overlaps
<1>2. seen[r] \subseteq ledger
  BY DEF Lifecycle, Chronology
<1> QED BY <1>1, <1>2 DEF Own

\* A call is past its check because it was admitted, in this step or before.
LEMMA AdmittedKept == IInv /\ Lifecycle /\ [Next]_vars => Admitted'
<1> SUFFICES ASSUME IInv, Lifecycle, [Next]_vars, NEW r \in Requests,
                    PastCheck(r)', OverlapsNone(r)'
             PROVE  \E t \in EventTypes \cup {NoEvent} :
                       /\ Finds(Own(call[r].user, seen[r]), t)'
                       /\ TransitionAllowed(call'[r].type, t)
  BY DEF Admitted
<1>1. Fixed
  BY PastIsFixed DEF Lifecycle
<1>2. /\ \A q \in Requests : seen[q] \subseteq ledger
      /\ pc[r] = "idle" => r \notin ledger
  BY DEF Lifecycle, Chronology, IInv, Progress
<1>3. PastCheck(r) \/ Admit(r)
  BY DEF PastCheck, Next, Serve, vars, Crash, InFlight, Start, Admit, Reject, Replay, NoReplay,
         Stamp, InsertEvent, BusyTimeout, InsertKey, KeyConflict, Commit, Respond, Goto, Finish,
         IInv, TypeOK
<1>4. seen'[r] = seen[r]
  BY <1>1, <1>2, <1>3 DEF PastCheck, Admit, Fixed
<1>5. OverlapsNone(r)
  <2>1. ASSUME NEW f \in ledger \cap Requests, Overlaps(r, f) PROVE FALSE
    <3>1. pc[f] # "idle"
      BY <2>1 DEF IInv, Progress
    <3>2. seen'[f] = seen[f] /\ f \in ledger'
      BY <1>1, <3>1 DEF Fixed
    <3> QED BY <1>1, <1>4, <2>1, <3>2 DEF OverlapsNone, Overlaps, Fixed
  <2> QED BY <2>1 DEF OverlapsNone
<1>6. \E t \in EventTypes \cup {NoEvent} :
        Finds(Own(call[r].user, seen[r]), t) /\ TransitionAllowed(call[r].type, t)
  <2>1. CASE PastCheck(r)
    BY <1>5, <2>1 DEF Lifecycle, Admitted
  <2>2. CASE Admit(r)
    <3> DEFINE u == call[r].user
               own == Own(u, ledger)
    <3>1. u \in Users /\ \A e \in own : call[e].type \in EventTypes
      BY BillingConstants DEF Own, LifecycleTypes, EventTypes, GatewayTypes, DirectTypes,
                              IInv, TypeOK, Calls, Events
    <3>2. r \notin ledger
      BY <2>2 DEF Admit, IInv, Progress
    <3>3. PICK t \in EventTypes \cup {NoEvent} : Finds(own, t)
      <4>1. CASE own = {}
        BY <4>1 DEF Finds
      <4>2. CASE own # {}
        BY <3>1, <4>2 DEF Lifecycle, LatestExists, Finds
      <4> QED BY <4>1, <4>2
    <3>4. LastLifecycle(u, ledger) = t
      BY <3>1, <3>3, LatestIsChosen DEF Lifecycle
    <3> QED BY <1>5, <2>2, <3>2, <3>3, <3>4, CheckReadsTheSeen DEF Admit, CheckPasses
  <2> QED BY <1>3, <2>1, <2>2
<1>7. \A t : Finds(Own(call[r].user, seen[r]), t)' <=> Finds(Own(call[r].user, seen[r]), t)
  <2>1. \A e \in Own(call[r].user, seen[r]) : stamp'[e] = stamp[e]
    BY <1>1, <1>2 DEF Own, Fixed
  <2>2. Own(call[r].user, seen[r])' = Own(call[r].user, seen[r])
    BY <1>1, <1>4 DEF Own, Fixed
  <2> QED BY <1>1, <2>1, <2>2 DEF Finds, IsLatest, Fixed
<1> QED BY <1>1, <1>6, <1>7 DEF Fixed

\* What the policy allows is what the documented lifecycle permits.
LEMMA AllowedIsPermitted ==
  ASSUME NEW type \in GatewayTypes, NEW t \in LifecycleTypes \cup {NoEvent},
         TransitionAllowed(type, t)
  PROVE  StatusPermits(type, SubscriptionStatus(t))
BY DEF GatewayTypes, LifecycleTypes, ActiveOrPastDueTypes, NoEvent, TransitionAllowed,
       AllowedPrevious, StatusPermits, SubscriptionStatus

\* The rows older than that of a call that overlapped none are those it saw.
LEMMA SerialIsValid == IInv /\ Lifecycle => SerialCallsAreValid
<1> SUFFICES ASSUME IInv, Lifecycle, NEW e \in ledger \cap Requests, OverlapsNone(e)
             PROVE  ValidInSequence(e)
  BY DEF SerialCallsAreValid, OverlapsNone
<1> DEFINE u == call[e].user
           older == {f \in ledger : stamp[f] < stamp[e]}
<1>0. u \in Users /\ call[e].type \in EventTypes /\ stamp \in [Events -> Nat] /\ ledger \subseteq Events
  BY BillingConstants DEF IInv, TypeOK, Events, Calls, EventTypes, DirectTypes
<1>1. CASE call[e].type \in GatewayTypes
  <2>1. PICK t \in EventTypes \cup {NoEvent} :
          Finds(Own(u, seen[e]), t) /\ TransitionAllowed(call[e].type, t)
    BY <1>1 DEF Lifecycle, Admitted, PastCheck
  <2>2. Own(u, older) = Own(u, seen[e])
    <3>1. ASSUME NEW f \in Own(u, older) PROVE f \in seen[e]
      <4>1. f \in ledger \cap Requests /\ stamp[f] < stamp[e] /\ call[f].user = u
        BY <1>0 DEF Own, Lifecycle, Chronology, Events, LifecycleTypes
      <4>2. f # e /\ e \notin seen[f]
        BY <1>0, <4>1 DEF Lifecycle, Chronology, Events
      <4> QED BY <4>1, <4>2 DEF OverlapsNone, Overlaps
    <3>2. seen[e] \subseteq older
      BY DEF Lifecycle, Chronology
    <3> QED BY <3>1, <3>2 DEF Own
  <2>3. LastLifecycle(u, older) = t
    BY <1>0, <2>1, <2>2, LatestIsChosen DEF Lifecycle
  <2>4. t \in LifecycleTypes \cup {NoEvent}
    BY <2>1 DEF Finds, Own
  <2> QED BY <1>1, <2>1, <2>3, <2>4, AllowedIsPermitted DEF ValidInSequence, StatusBefore
<1>2. CASE call[e].type \notin GatewayTypes
  BY <1>2 DEF GatewayTypes, ValidInSequence, StatusPermits
<1> QED BY <1>1, <1>2

\* Calls that overlap no other never bring an event into the ledger that the
\* documented lifecycle forbids, although check and commit are apart.
THEOREM SerialLifecycleIsValid == Spec => []SerialCallsAreValid
<1>1. Init => Lifecycle
  BY BillingConstants
     DEF Init, Lifecycle, Chronology, LatestExists, Admitted, PastCheck, Own, Events,
         LifecycleTypes
<1>2. IInv /\ Lifecycle /\ [Next]_vars => Lifecycle'
  BY ChronologyKept, LatestKept, AdmittedKept DEF Lifecycle
<1> QED BY <1>1, <1>2, SerialIsValid, Invariance, PTL DEF Spec

-----------------------------------------------------------------------------
(* Refinement: the ledger implements its promise.                          *)

\* An initial store is an initial state of the promise.
LEMMA InitPromise == Init => Promise!Init
  BY InitIInv DEF Init, IInv, LegacyIsRespected, Promise!Init, Promise!SameKey,
     SameKey, Keyed, BillingConstants

\* A step is the matching step of the promise, or leaves its state alone.
LEMMA StepPromise == IInv /\ [Next]_vars => [Promise!Next]_(Promise!vars)
<1> SUFFICES ASSUME IInv, [Next]_vars PROVE [Promise!Next]_(Promise!vars)
  OBVIOUS
<1> USE DEF Promise!vars
<1>0. \A e, r : Promise!SameKey(e, r) <=> SameKey(e, r)
  BY DEF Promise!SameKey, SameKey, Keyed
<1>1. CASE UNCHANGED vars
  BY <1>1 DEF vars
<1>2. CASE Crash
  <2>1. \A r \in Requests : InFlight(r) => answer[r] = "pending"
    BY DEF IInv, Progress, InFlight, TypeOK, Answers
  <2>2. Promise!Crash
    <3> DEFINE lost == {r \in Requests : InFlight(r)}
    <3>1. lost \in SUBSET {r \in Requests : answer[r] = "pending"}
      BY <2>1
    <3>2. answer' = [r \in Requests |-> IF r \in lost THEN "lost" ELSE answer[r]]
      BY <1>2 DEF Crash
    <3>3. UNCHANGED <<call, ledger, reply>>
      BY <1>2 DEF Crash
    <3> QED
      BY <3>1, <3>2, <3>3 DEF Promise!Crash, Promise!Pending
  <2> QED
    BY <2>2 DEF Promise!Next
<1>3. ASSUME NEW r \in Requests, Start(r) \/ Serve(r)
      PROVE  [Promise!Next]_(Promise!vars)
  <2> USE BillingConstants
  <2>0. \/ pc[r] = "done"
        \/ answer[r] = "pending" /\ (pc[r] # "reply" => r \notin ledger)
    BY DEF IInv, Progress
  <2>1. CASE Start(r) \/ Admit(r) \/ NoReplay(r) \/ Stamp(r) \/ InsertEvent(r) \/ InsertKey(r)
    BY <2>1 DEF Start, Admit, NoReplay, Stamp, InsertEvent, InsertKey
  <2>a. /\ reply = [reply EXCEPT ![r] = reply[r]]
        /\ answer[r] = "pending" => reply[r] = NoOne
    BY DEF IInv, TypeOK, AnswersAreTrue
  <2>2. CASE Reject(r) \/ BusyTimeout(r)
    <3>1. /\ answer[r] = "pending" /\ r \notin ledger
          /\ reply' = reply /\ UNCHANGED <<call, ledger>>
          /\ \E why \in {"rejected", "busy"} : answer' = [answer EXCEPT ![r] = why]
      BY <2>0, <2>2, <2>a DEF Reject, BusyTimeout, Finish
    <3>2. Promise!Refuse(r)
      BY <3>1 DEF Promise!Refuse, Promise!Pending
    <3> QED
      BY <3>2 DEF Promise!Next
  <2>3. CASE KeyConflict(r)
    <3>1. /\ answer[r] = "pending" /\ r \notin ledger
          /\ reply' = reply /\ UNCHANGED <<call, ledger>>
          /\ answer' = [answer EXCEPT ![r] = "conflict"]
      BY <2>0, <2>3, <2>a DEF KeyConflict, Finish
    <3>2. Keyed(r) /\ KeyTaken(r)
      BY <2>3 DEF KeyConflict, IInv, Transaction
    <3>3. \E e \in ledger : SameKey(e, r)
      BY <3>2, TakenIsSameKey
    <3>4. Promise!Conflict(r)
      BY <1>0, <3>1, <3>3 DEF Promise!Conflict, Promise!Pending
    <3> QED
      BY <3>4 DEF Promise!Next
  <2>4. CASE Replay(r)
    <3>1. PICK rec \in Matches(r) :
            /\ answer' = [answer EXCEPT ![r] = "replayed"]
            /\ reply' = [reply EXCEPT ![r] = rec.event]
      BY <2>4 DEF Replay, Finish
    <3>2. rec.event \in ledger /\ SameKey(rec.event, r)
      BY <2>4, MatchIsSameKey DEF Replay
    <3>3. answer[r] = "pending" /\ r \notin ledger /\ UNCHANGED <<call, ledger>>
      BY <2>0, <2>4 DEF Replay
    <3>4. Promise!AnswerReplayed(r)
      BY <1>0, <3>1, <3>2, <3>3 DEF Promise!AnswerReplayed, Promise!Pending
    <3> QED
      BY <3>4 DEF Promise!Next
  <2>5. CASE Commit(r)
    <3>1. /\ answer[r] = "pending" /\ r \notin ledger
          /\ ledger' = ledger \cup {r} /\ UNCHANGED <<call, answer, reply>>
      BY <2>0, <2>5 DEF Commit
    <3>2. \A e \in ledger : ~SameKey(e, r)
      <4> SUFFICES ASSUME NEW e \in ledger, SameKey(e, r) PROVE FALSE
        OBVIOUS
      <4>1. e \in Requests
        BY <2>5 DEF Commit, IInv, LegacyIsRespected, TypeOK, Events
      <4>2. PICK rec \in keys : rec.event = e
        BY DEF IInv, EveryKeyedRowHasARecord, SameKey, Keyed
      <4>3. rec.key = StorageKey(r)
        BY <4>1, <4>2 DEF IInv, RecordsAreTrue, StorageKey, SameKey
      <4> QED
        BY <2>5, <4>3 DEF Commit, IInv, Transaction, KeyTaken, SameKey
    <3>3. Promise!Book(r)
      BY <1>0, <3>1, <3>2 DEF Promise!Book, Promise!Pending
    <3> QED
      BY <3>3 DEF Promise!Next
  <2>6. CASE Respond(r)
    <3>1. /\ answer[r] = "pending" /\ r \in ledger /\ UNCHANGED <<call, ledger>>
          /\ answer' = [answer EXCEPT ![r] = "created"]
          /\ reply' = [reply EXCEPT ![r] = r]
      BY <2>0, <2>6 DEF Respond, Finish, IInv, Progress
    <3>2. Promise!AnswerCreated(r)
      BY <3>1 DEF Promise!AnswerCreated, Promise!Pending
    <3> QED
      BY <3>2 DEF Promise!Next
  <2> QED
    BY <1>3, <2>1, <2>2, <2>3, <2>4, <2>5, <2>6 DEF Serve
<1> QED
  BY <1>1, <1>2, <1>3 DEF Next

\* BillingLedger implements IdempotentLedger: each commit is one Book step,
\* each answer one answer step, everything else stutters.
THEOREM LedgerKeepsPromise == Spec => ImplementsPromise
<1> QED
  BY InitPromise, StepPromise, Invariance, PTL DEF Spec, ImplementsPromise, Promise!Spec
====
