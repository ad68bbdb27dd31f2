---- MODULE IdempotentLedger ----
(***************************************************************************)
(* What the billing ledger promises its callers: a call that carries an    *)
(* idempotency key is booked at most once per user and key, an answer      *)
(* names an entry that is booked, and a refused call books nothing.        *)
(***************************************************************************)
CONSTANTS Requests, NoKey, NoReply

VARIABLES
    call,    \* what each entry or request is for: [user, type, key]
    ledger,  \* the booked entries
    answer,  \* what each request was told
    reply    \* the entry an answer names

vars == <<call, ledger, answer, reply>>

\* e answers the same user's call under the same key as r.
SameKey(e, r) ==
    /\ call[r].key # NoKey
    /\ call[e].key = call[r].key
    /\ call[e].user = call[r].user

Init ==
    /\ \A d, e \in ledger : SameKey(d, e) => d = e
    /\ ledger \cap Requests = {}
    /\ answer = [r \in Requests |-> "pending"]
    /\ reply = [r \in Requests |-> NoReply]

Pending(r) == answer[r] = "pending"

\* The entry becomes durable.
Book(r) ==
    /\ Pending(r)
    /\ r \notin ledger
    /\ \A e \in ledger : ~SameKey(e, r)
    /\ ledger' = ledger \cup {r}
    /\ UNCHANGED <<call, answer, reply>>

AnswerCreated(r) ==
    /\ Pending(r)
    /\ r \in ledger
    /\ answer' = [answer EXCEPT ![r] = "created"]
    /\ reply' = [reply EXCEPT ![r] = r]
    /\ UNCHANGED <<call, ledger>>

AnswerReplayed(r) ==
    /\ Pending(r)
    /\ r \notin ledger
    /\ \E e \in ledger :
        /\ SameKey(e, r)
        /\ answer' = [answer EXCEPT ![r] = "replayed"]
        /\ reply' = [reply EXCEPT ![r] = e]
    /\ UNCHANGED <<call, ledger>>

\* Policy refusal, or a store that is busy.
Refuse(r) ==
    /\ Pending(r)
    /\ r \notin ledger
    /\ \E why \in {"rejected", "busy"} : answer' = [answer EXCEPT ![r] = why]
    /\ UNCHANGED <<call, ledger, reply>>

\* A conflict may be reported only for a key that is already booked.
Conflict(r) ==
    /\ Pending(r)
    /\ r \notin ledger
    /\ \E e \in ledger : SameKey(e, r)
    /\ answer' = [answer EXCEPT ![r] = "conflict"]
    /\ UNCHANGED <<call, ledger, reply>>

\* The server stops: pending callers learn nothing, booked entries stay.
Crash ==
    /\ \E lost \in SUBSET {r \in Requests : Pending(r)} :
        answer' = [r \in Requests |-> IF r \in lost THEN "lost" ELSE answer[r]]
    /\ UNCHANGED <<call, ledger, reply>>

Next ==
    \/ \E r \in Requests :
        \/ Book(r) \/ AnswerCreated(r) \/ AnswerReplayed(r)
        \/ Refuse(r) \/ Conflict(r)
    \/ Crash

Spec == Init /\ [][Next]_vars
====
