---- MODULE BillingLedger ----
(***************************************************************************)
(* The billing calls of one API process over its SQLite store: POST        *)
(* /billing/simulate-* through the simulation adapter into                 *)
(* service.simulate_billing_event and service.record_billing_event.        *)
(*                                                                         *)
(* The routes are sync handlers, so FastAPI runs them in a thread pool and *)
(* calls interleave between any two database statements.  pysqlite opens a *)
(* transaction at the first INSERT, not at the SELECTs before it: the      *)
(* lifecycle check and the key lookup each see the latest commit, and only *)
(* from the first flush to the commit is the call alone (it holds SQLite's *)
(* write lock; another writer waits busy_timeout and then fails).          *)
(***************************************************************************)
EXTENDS Naturals, BillingPolicy

CONSTANTS
    Users, Keys, NoKey,
    Requests,  \* calls made in this run, each at most once
    Legacy,    \* rows booked before keys were stored hashed per user
    Commands,  \* the event types the calls use
    NoOne      \* no writer, no owner, no reply

ASSUME BillingConstants ==
    /\ Commands \subseteq EventTypes
    /\ NoKey \notin Keys
    /\ NoOne \notin Users /\ NoOne \notin Requests \cup Legacy
    /\ Requests \cap Legacy = {}

VARIABLES
    call,    \* [user, type, key] of every request and legacy row
    pc,      \* the statement a request is about to execute
    stamp,   \* BillingEvent.created_at, read from the clock at flush
    clock,
    ledger,  \* committed BillingEvent rows, named by the call that wrote them
    keys,    \* committed IdempotencyRecord rows
    writer,  \* the call inside its write transaction
    answer, reply, \* the response
    seen     \* history: rows already committed when the call arrived

vars == <<call, pc, stamp, clock, ledger, keys, writer, answer, reply, seen>>

Events == Requests \cup Legacy

Calls == [user : Users, type : Commands \cup {"estimate_charge"}, key : Keys \cup {NoKey}]

Steps == {"idle", "check", "lookup", "add", "write", "key", "commit", "reply", "done"}

Answers == {"pending", "created", "replayed", "rejected", "conflict", "busy", "lost"}

-----------------------------------------------------------------------------
\* Idempotency keys as stored: hashed per user now, "billing:user:key" and
\* the bare key in older rows.  The digest is injective for this model.

ScopedKey(u, k) == [form |-> "scoped", owner |-> u, key |-> k]
PlainKey(u, k) == [form |-> "plain", owner |-> u, key |-> k]
RawKey(k) == [form |-> "raw", owner |-> NoOne, key |-> k]

StoredKeys ==
    [form : {"scoped", "plain", "raw"}, owner : Users \cup {NoOne}, key : Keys]

\* Mutated: the key is stored without its user.
UnscopedStorageKey(r) == RawKey(call[r].key)

StorageKey(r) == ScopedKey(call[r].user, call[r].key)

\* Mutated: older key forms are forgotten.
OnlyScopedKey(r) == {ScopedKey(call[r].user, call[r].key)}

CandidateKeys(r) ==
    {ScopedKey(call[r].user, call[r].key), PlainKey(call[r].user, call[r].key),
     RawKey(call[r].key)}

Keyed(r) == call[r].key # NoKey

\* Mutated: the lookup does not filter by user.
MatchesOfAnyUser(r) == {rec \in keys : rec.key \in CandidateKeys(r)}

\* The rows the lookup's WHERE selects for r.
Matches(r) ==
    {rec \in keys : rec.user = call[r].user /\ rec.key \in CandidateKeys(r)}

SameKey(e, r) ==
    /\ Keyed(r)
    /\ call[e].key = call[r].key
    /\ call[e].user = call[r].user

\* The latest lifecycle event of u among rows, by created_at.
LastLifecycle(u, rows) ==
    LET own == {e \in rows : call[e].user = u /\ call[e].type \in LifecycleTypes}
    IN  IF own = {}
        THEN NoEvent
        ELSE call[CHOOSE e \in own : \A f \in own : stamp[f] <= stamp[e]].type

-----------------------------------------------------------------------------
\* An older row carries one of the older key forms.
LegacyKey(e, form) ==
    IF form[e] = "raw" THEN RawKey(call[e].key) ELSE PlainKey(call[e].user, call[e].key)

LegacyRecord(e, form) ==
    [key |-> LegacyKey(e, form), user |-> call[e].user, event |-> e]

Init ==
    /\ call \in [Events -> Calls]
    /\ \A r \in Requests : call[r].type \in Commands
    /\ \A e \in Legacy : call[e].type = "estimate_charge" /\ call[e].key # NoKey
    /\ \E form \in [Legacy -> {"raw", "plain"}] :
        /\ \A d, e \in Legacy :
            /\ SameKey(d, e) => d = e
            /\ form[d] = "raw" /\ form[e] = "raw" /\ call[d].key = call[e].key => d = e
        /\ keys = {LegacyRecord(e, form) : e \in Legacy}
    /\ pc = [r \in Requests |-> "idle"]
    /\ stamp = [e \in Events |-> 0]
    /\ clock = 0
    /\ ledger = Legacy
    /\ writer = NoOne
    /\ answer = [r \in Requests |-> "pending"]
    /\ reply = [r \in Requests |-> NoOne]
    /\ seen = [r \in Requests |-> {}]

Goto(r, step) == pc' = [pc EXCEPT ![r] = step]

\* The handler ends with this response.
Finish(r, status, event) ==
    /\ Goto(r, "done")
    /\ answer' = [answer EXCEPT ![r] = status]
    /\ reply' = [reply EXCEPT ![r] = event]

\* The call arrives; only gateway events meet the lifecycle check.
Start(r) ==
    /\ pc[r] = "idle"
    /\ Goto(r, IF call[r].type \in GatewayTypes THEN "check" ELSE "lookup")
    /\ seen' = [seen EXCEPT ![r] = ledger]
    /\ UNCHANGED <<call, stamp, clock, ledger, keys, writer, answer, reply>>

CheckPasses(r) == TransitionAllowed(call[r].type, LastLifecycle(call[r].user, ledger))

Admit(r) ==
    /\ pc[r] = "check"
    /\ CheckPasses(r)
    /\ Goto(r, "lookup")
    /\ UNCHANGED <<call, stamp, clock, ledger, keys, writer, answer, reply, seen>>

\* ValueError from the policy, answered 400.
Reject(r) ==
    /\ pc[r] = "check"
    /\ ~CheckPasses(r)
    /\ Finish(r, "rejected", NoOne)
    /\ UNCHANGED <<call, stamp, clock, ledger, keys, writer, seen>>

\* The newest matching record names the event to answer with.
Replay(r) ==
    /\ pc[r] = "lookup"
    /\ Keyed(r)
    /\ \E rec \in Matches(r) :
        /\ \A other \in Matches(r) : stamp[other.event] <= stamp[rec.event]
        /\ Finish(r, "replayed", rec.event)
    /\ UNCHANGED <<call, stamp, clock, ledger, keys, writer, seen>>

NoReplay(r) ==
    /\ pc[r] = "lookup"
    /\ Keyed(r) => Matches(r) = {}
    /\ Goto(r, "add")
    /\ UNCHANGED <<call, stamp, clock, ledger, keys, writer, answer, reply, seen>>

\* The flush evaluates created_at's default before SQLite grants the lock.
Stamp(r) ==
    /\ pc[r] = "add"
    /\ clock' = clock + 1
    /\ stamp' = [stamp EXCEPT ![r] = clock + 1]
    /\ Goto(r, "write")
    /\ UNCHANGED <<call, ledger, keys, writer, answer, reply, seen>>

\* INSERT INTO billing_events: the transaction begins here.
InsertEvent(r) ==
    /\ pc[r] = "write"
    /\ writer = NoOne
    /\ writer' = r
    /\ Goto(r, IF Keyed(r) THEN "key" ELSE "commit")
    /\ UNCHANGED <<call, stamp, clock, ledger, keys, answer, reply, seen>>

\* Another call held the write lock for all of busy_timeout: 500.
BusyTimeout(r) ==
    /\ pc[r] = "write"
    /\ writer # NoOne
    /\ Finish(r, "busy", NoOne)
    /\ UNCHANGED <<call, stamp, clock, ledger, keys, writer, seen>>

\* Mutated: the key column lost its UNIQUE index.
KeyNeverTaken(r) == FALSE

KeyTaken(r) == \E rec \in keys : rec.key = StorageKey(r)

\* INSERT INTO idempotency_records.
InsertKey(r) ==
    /\ pc[r] = "key"
    /\ ~KeyTaken(r)
    /\ Goto(r, "commit")
    /\ UNCHANGED <<call, stamp, clock, ledger, keys, writer, answer, reply, seen>>

\* Mutated: the event row survives the failed insert of its key.
ConflictKeepsRow(r) ==
    /\ pc[r] = "key"
    /\ KeyTaken(r)
    /\ ledger' = ledger \cup {r}
    /\ writer' = NoOne
    /\ Finish(r, "conflict", NoOne)
    /\ UNCHANGED <<call, stamp, clock, keys, seen>>

\* Mutated: the insert is retried inside the open transaction.
ConflictRetriesInsert(r) ==
    /\ pc[r] = "key"
    /\ KeyTaken(r)
    /\ UNCHANGED vars

\* UNIQUE(key) fails; session_scope rolls both inserts back: 500.
KeyConflict(r) ==
    /\ pc[r] = "key"
    /\ KeyTaken(r)
    /\ writer' = NoOne
    /\ Finish(r, "conflict", NoOne)
    /\ UNCHANGED <<call, stamp, clock, ledger, keys, seen>>

Record(r) == [key |-> StorageKey(r), user |-> call[r].user, event |-> r]

\* Mutated: the event is committed before its key is.
CommitWithoutKey(r) ==
    /\ pc[r] = "commit"
    /\ ledger' = ledger \cup {r}
    /\ writer' = NoOne
    /\ Goto(r, "reply")
    /\ UNCHANGED <<call, stamp, clock, keys, answer, reply, seen>>

\* session_scope commits the event, its key and the audit row together.
Commit(r) ==
    /\ pc[r] = "commit"
    /\ ledger' = ledger \cup {r}
    /\ keys' = keys \cup (IF Keyed(r) THEN {Record(r)} ELSE {})
    /\ writer' = NoOne
    /\ Goto(r, "reply")
    /\ UNCHANGED <<call, stamp, clock, answer, reply, seen>>

Respond(r) ==
    /\ pc[r] = "reply"
    /\ Finish(r, "created", r)
    /\ UNCHANGED <<call, stamp, clock, ledger, keys, writer, seen>>

InFlight(r) == pc[r] \notin {"idle", "done"}

\* The process dies: SQLite drops the open transaction, callers get no answer.
Crash ==
    /\ \E r \in Requests : InFlight(r)
    /\ pc' = [r \in Requests |-> IF InFlight(r) THEN "done" ELSE pc[r]]
    /\ answer' = [r \in Requests |-> IF InFlight(r) THEN "lost" ELSE answer[r]]
    /\ writer' = NoOne
    /\ UNCHANGED <<call, stamp, clock, ledger, keys, reply, seen>>

\* What the thread serving r does once the call has arrived.
Serve(r) ==
    \/ Admit(r) \/ Reject(r)
    \/ Replay(r) \/ NoReplay(r)
    \/ Stamp(r) \/ InsertEvent(r) \/ BusyTimeout(r)
    \/ InsertKey(r) \/ KeyConflict(r)
    \/ Commit(r) \/ Respond(r)

Next == Crash \/ \E r \in Requests : Start(r) \/ Serve(r)

Spec == Init /\ [][Next]_vars

\* A pool thread that can take its next step is eventually scheduled.
FairSpec == Spec /\ \A r \in Requests : WF_vars(Serve(r))

-----------------------------------------------------------------------------
\* Every variable keeps its type.
TypeOK ==
    /\ call \in [Events -> Calls]
    /\ pc \in [Requests -> Steps]
    /\ stamp \in [Events -> Nat]
    /\ clock \in Nat
    /\ ledger \in SUBSET Events
    /\ keys \in SUBSET [key : StoredKeys, user : Users, event : Events]
    /\ writer \in Requests \cup {NoOne}
    /\ answer \in [Requests -> Answers]
    /\ reply \in [Requests -> Events \cup {NoOne}]
    /\ seen \in [Requests -> SUBSET Events]

\* However many calls race with one user's key, at most one row is committed
\* for it, older rows included: the lookup alone cannot ensure it, the UNIQUE
\* index must catch the call whose lookup ran before the winner committed.
ExactlyOnce == \A d, e \in ledger : SameKey(d, e) => d = e

\* A client told "created" or "replayed" holds the id of a committed row of
\* its own user under its own key, whatever fails around it.
AcknowledgedIsDurable ==
    \A r \in Requests : answer[r] \in {"created", "replayed"} =>
        /\ reply[r] \in ledger
        /\ reply[r] = r \/ SameKey(reply[r], r)

\* A call answered with an error left no row behind.
RefusedLeavesNothing ==
    \A r \in Requests : answer[r] \in {"rejected", "conflict", "busy"} => r \notin ledger

\* The 500 of a lost race is always followed by success: the same user's
\* retry finds the winner's record and is replayed.
ConflictIsReplayable ==
    \A r \in Requests : answer[r] = "conflict" => Matches(r) # {}

\* A keyed row and its idempotency record are committed together or not at
\* all, one record per row.
RowHasItsRecord ==
    /\ \A e \in ledger : Keyed(e) =>
        \E rec \in keys : rec.event = e /\ rec.user = call[e].user
    /\ \A rec \in keys : rec.event \in ledger
    /\ \A c, d \in keys : c.event = d.event => c = d

\* The calls of one user that were in progress together with a.
Overlaps(a, b) ==
    /\ a # b
    /\ call[a].user = call[b].user
    /\ a \notin seen[b] /\ b \notin seen[a]

\* API_REFERENCE "lifecycle invariants": which status admits which event.
StatusPermits(type, status) ==
    /\ type = "checkout_completed" => status \in {"not_started", "canceled"}
    /\ type \in {"usage_charge", "invoice_paid", "invoice_payment_failed",
                 "subscription_canceled"} => status \in {"active", "past_due"}

\* The status subscription_state would have shown just before row e.
StatusBefore(e) ==
    SubscriptionStatus(LastLifecycle(call[e].user, {f \in ledger : stamp[f] < stamp[e]}))

ValidInSequence(e) == StatusPermits(call[e].type, StatusBefore(e))

\* A call that overlapped no other committed call of its user enters the
\* ledger only where the documented lifecycle admits it.
SerialCallsAreValid ==
    \A e \in ledger \cap Requests :
        (\A f \in ledger \cap Requests : ~Overlaps(e, f)) => ValidInSequence(e)

\* README "billing idempotency replay via key": a call that repeats a booked
\* one, same command and same key, is replayed and never refused.
RetryIsReplayed ==
    \A r \in Requests : answer[r] = "rejected" =>
        ~ \E e \in seen[r] : SameKey(e, r) /\ call[e].type = call[r].type

\* A call in progress always ends, and no call keeps the write lock.
EveryCallEnds ==
    \A r \in Requests : InFlight(r) ~> pc[r] = "done" /\ writer # r

\* The ledger implements its abstract promise.
Promise == INSTANCE IdempotentLedger WITH NoReply <- NoOne

ImplementsPromise == Promise!Spec
====
