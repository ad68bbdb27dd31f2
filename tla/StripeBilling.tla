---- MODULE StripeBilling ----
(***************************************************************************)
(* Live billing: the calls that StripeBillingAdapter executes and the      *)
(* deliveries that the webhook receives, over the users' Stripe ids, the   *)
(* ledger and what exists at Stripe.                                       *)
(*                                                                         *)
(* Calls run in threads and in CLI processes, and commit only after their  *)
(* remote calls.  The webhook handler runs in the event loop of the one    *)
(* worker, so one delivery is served at a time.  Stripe sends an event     *)
(* again until it is answered 2xx, and at times even then, in any order.   *)
(***************************************************************************)
EXTENDS Naturals, FiniteSets

CONSTANTS
    Users, Keys, NoKey, None,
    Calls,     \* one adapter call each; creates the customer of its name
    Hooks,     \* one webhook delivery each
    Existing,  \* Stripe customers from before
    Commands,  \* what calls may ask for
    MaxEvents  \* how many events Stripe sends

Actors == Calls \cup Hooks
Customers == Existing \cup Calls
Subscriptions == 1..MaxEvents \* each named by the event that first told of it

ASSUME StripeConstants ==
    /\ Commands \subseteq
        [kind : {"subscription", "usage", "other"}, user : Users, key : Keys \cup {NoKey}]
    /\ NoKey \notin Keys
    /\ \A n \in Subscriptions : <<"stripe_evt", n>> \notin Keys \cup {NoKey}
    /\ None \notin Users \cup Customers \cup Actors \cup Subscriptions
    /\ Calls \cap Hooks = {} /\ Calls \cap Existing = {}
    /\ MaxEvents \in Nat

VARIABLES
    users,     \* committed rows: each user's customer and subscription
    txn,       \* the rows as the writer's transaction has them
    writer,
    ledger,    \* the actors whose row is committed
    job, pc, mem, result,
    customers, \* at Stripe: customer -> the user with its email
    cards,     \* customers with a card to charge; those from before may have one
    intents,   \* charges
    events,
    offered,   \* customers whose checkout page was handed out
    orderly    \* history: events have been served once each, as sent

local == <<users, txn, writer, ledger>>
work == <<job, mem>>
remote == <<customers, cards, intents, events, offered>>
vars == <<local, work, remote, pc, result, orderly>>

Row == [customer : Customers \cup {None}, subscription : Subscriptions \cup {None}]

Event ==
    [n : Subscriptions, type : {"checkout", "paid", "failed", "deleted", "refunded"},
     customer : Customers, subscription : Subscriptions \cup {None}]

Unlinked == [customer |-> None, subscription |-> None]

\* Customers may be there whose link a reset database has forgotten.
Init ==
    /\ \E owner \in [Existing -> Users \cup {None}] :
        customers = [x \in Customers |-> IF x \in Existing THEN owner[x] ELSE None]
    /\ users \in [Users -> [customer : Existing \cup {None}, subscription : {None}]]
    /\ \A u \in Users : users[u].customer \in {None} \cup {x \in Existing : customers[x] = u}
    /\ txn = users
    /\ writer = None
    /\ ledger = {}
    /\ job = [a \in Actors |-> None]
    /\ pc = [a \in Actors |-> "idle"]
    /\ mem = [a \in Actors |-> [user |-> None, customer |-> None, was |-> None,
                                subscription |-> None, intent |-> None]]
    /\ result = [a \in Actors |-> "pending"]
    /\ cards = {x \in Existing : customers[x] # None}
    /\ intents = {}
    /\ events = {}
    /\ offered = cards
    /\ orderly = TRUE

Goto(a, step) == pc' = [pc EXCEPT ![a] = step]

Finish(a, outcome) ==
    /\ Goto(a, "done")
    /\ result' = [result EXCEPT ![a] = outcome]

InProgress(a) == pc[a] \notin {"idle", "done"}

\* session.rollback()
Rollback(a) ==
    /\ writer' = IF writer = a THEN None ELSE writer
    /\ txn' = IF writer = a THEN users ELSE txn
    /\ UNCHANGED <<users, ledger>>

Granted(a) == writer \in {None, a}

-----------------------------------------------------------------------------
\* Stripe.

Sent(e) == e.n = Cardinality(events) + 1 /\ e.n <= MaxEvents /\ events' = events \cup {e}

Of(x) == {e \in events : e.customer = x}

\* The subscription x has at Stripe, one at a time.
AtStripe(x) ==
    LET told == {e \in Of(x) : e.type = "deleted" \/ e.subscription # None}
    IN  IF told = {} THEN None
        ELSE (CHOOSE e \in told : \A f \in told : f.n <= e.n).subscription

Environment == UNCHANGED <<local, work, pc, result, orderly, customers, intents, offered>>

\* The customer pays on the checkout page, once or for a subscription.
Pay(x) ==
    /\ x \in offered
    /\ \E s \in {None, Cardinality(events) + 1} :
        /\ s # None => AtStripe(x) = None
        /\ \E e \in [n : Subscriptions, type : {"checkout"}, customer : {x}, subscription : {s}] :
            Sent(e)
    /\ cards' = cards \cup {x}
    /\ Environment

Invoice(x) ==
    /\ AtStripe(x) \in Subscriptions
    /\ \E e \in [n : Subscriptions, type : {"paid", "failed"}, customer : {x},
                 subscription : {AtStripe(x)}] : Sent(e)
    /\ UNCHANGED cards /\ Environment

\* customer.subscription.deleted has no field "subscription".
Cancel(x) ==
    /\ AtStripe(x) # None
    /\ \E e \in [n : Subscriptions, type : {"deleted"}, customer : {x}, subscription : {None}] :
        Sent(e)
    /\ UNCHANGED cards /\ Environment

Refund(x) ==
    /\ \E i \in intents : i.customer = x
    /\ \E e \in [n : Subscriptions, type : {"refunded"}, customer : {x}, subscription : {None}] :
        Sent(e)
    /\ UNCHANGED cards /\ Environment

-----------------------------------------------------------------------------
\* StripeBillingAdapter.execute

Begin(c) ==
    /\ pc[c] = "idle"
    /\ \E command \in Commands :
        LET row == users[command.user]
        IN  /\ job' = [job EXCEPT ![c] = command]
            /\ mem' = [mem EXCEPT ![c].user = command.user, ![c].customer = row.customer]
            /\ Goto(c, IF row.customer = None THEN "find" ELSE "remote")
    /\ UNCHANGED <<local, remote, result, orderly>>

Owned(u) == {x \in Customers : customers[x] = u}

\* stripe.Customer.list(email, limit=1)
FindCustomer(c) ==
    /\ pc[c] = "find"
    /\ IF Owned(mem[c].user) = {} THEN Goto(c, "create") /\ UNCHANGED mem
       ELSE /\ \E x \in Owned(mem[c].user) : mem' = [mem EXCEPT ![c].customer = x]
            /\ Goto(c, "link")
    /\ UNCHANGED <<local, remote, job, result, orderly>>

Created(c) == customers' = [customers EXCEPT ![c] = mem[c].user]

CreateCustomer(c) ==
    /\ pc[c] = "create"
    /\ Created(c)
    /\ mem' = [mem EXCEPT ![c].customer = c]
    /\ Goto(c, "link")
    /\ UNCHANGED <<local, job, result, orderly, cards, intents, events, offered>>

\* Mutated: the new customer is not saved.
LinkNothing(c) ==
    /\ pc[c] = "link"
    /\ Goto(c, "remote")
    /\ UNCHANGED <<local, remote, work, result, orderly>>

\* The customer is taken from another user who has it, then written to the
\* caller's row whatever is there by now.
LinkCustomer(c) ==
    /\ pc[c] = "link"
    /\ Granted(c)
    /\ writer' = c
    /\ txn' = [u \in Users |->
        IF u = mem[c].user THEN [users[u] EXCEPT !.customer = mem[c].customer]
        ELSE IF users[u].customer = mem[c].customer THEN Unlinked
        ELSE users[u]]
    /\ Goto(c, "remote")
    /\ UNCHANGED <<users, ledger, remote, work, result, orderly>>

OpenCheckout(c) ==
    /\ pc[c] = "remote"
    /\ job[c].kind = "subscription"
    /\ Goto(c, "commit")
    /\ UNCHANGED <<local, remote, work, result, orderly>>

\* "Unsupported Stripe command event type": 400, the new link is rolled back.
Unsupported(c) ==
    /\ pc[c] = "remote"
    /\ job[c].kind = "other"
    /\ Rollback(c)
    /\ Finish(c, "rejected")
    /\ UNCHANGED <<remote, work, orderly>>

\* Mutated: the idempotency key is not passed on to Stripe.
ChargedForEachCall(c, i) ==
    i = [id |-> c, key |-> job[c].key, customer |-> mem[c].customer]

\* Stripe gives the charge of a repeated key again, and refuses a key that
\* comes with other parameters.
ChargedAs(c, i) ==
    LET same == {j \in intents : j.key = job[c].key /\ j.key # NoKey}
    IN  IF same = {} THEN i = [id |-> c, key |-> job[c].key, customer |-> mem[c].customer]
        ELSE i \in same /\ i.customer = mem[c].customer

Charges(c, i) ==
    /\ pc[c] = "remote"
    /\ job[c].kind = "usage"
    /\ mem[c].customer \in cards
    /\ ChargedAs(c, i)

Intents == [id : Calls, key : Keys \cup {NoKey}, customer : Customers]

Charge(c) ==
    /\ \E i \in Intents :
        /\ Charges(c, i)
        /\ intents' = intents \cup {i}
        /\ mem' = [mem EXCEPT ![c].intent = i.id]
    /\ Goto(c, "lookup")
    /\ UNCHANGED <<local, job, result, orderly, customers, cards, events, offered>>

\* A declined card, no saved card, a reused key or a broken connection; what
\* was asked for may have been done all the same.
RemoteFails(c) ==
    /\ pc[c] \in {"find", "create", "remote"}
    /\ \/ UNCHANGED <<customers, intents>>
       \/ /\ pc[c] = "create"
          /\ Created(c)
          /\ UNCHANGED intents
       \/ \E i \in Intents :
            Charges(c, i) /\ intents' = intents \cup {i} /\ UNCHANGED customers
    /\ Rollback(c)
    /\ Finish(c, "failed")
    /\ UNCHANGED <<work, cards, events, offered, orderly>>

-----------------------------------------------------------------------------
\* billing_webhook

\* In the order sent: the first event that no delivery has been answered for.
InOrder(e) ==
    /\ {job[h] : h \in {g \in Hooks : result[g] \in {"ok", "ignored"}}} = {f \in events : f.n < e.n}

ByCustomer(e) == {u \in Users : users[u].customer = e.customer}

BySubscription(e) ==
    {u \in Users : e.subscription # None /\ users[u].subscription = e.subscription}

Addressee(e) == IF ByCustomer(e) # {} THEN ByCustomer(e) ELSE BySubscription(e)

\* Mutated: a cancellation is booked but leaves the user's subscription.
NeverCleared(e, s) == IF e.subscription # None THEN e.subscription ELSE s

\* What the event makes of a user's subscription s.
Assigned(e, s) ==
    IF e.type = "deleted" THEN None
    ELSE IF e.subscription # None THEN e.subscription ELSE s

\* Event e comes, for the first time or again, while none is being served.
Arrives(h, e) ==
    /\ pc[h] = "idle"
    /\ \A g \in Hooks : ~InProgress(g)
    /\ job' = [job EXCEPT ![h] = e]
    /\ orderly' = (orderly /\ InOrder(e))

Deliver(h) ==
    /\ \E e \in events : \E u \in Addressee(e) :
        /\ Arrives(h, e)
        /\ mem' = [mem EXCEPT
            ![h].user = u, ![h].was = users[u].subscription,
            ![h].subscription = Assigned(e, users[u].subscription)]
    /\ Goto(h, "lookup")
    /\ UNCHANGED <<local, remote, result>>

\* Nobody has the customer: answered 200.
Ignore(h) ==
    /\ \E e \in events : Addressee(e) = {} /\ Arrives(h, e)
    /\ Finish(h, "ignored")
    /\ UNCHANGED <<local, remote, mem>>

-----------------------------------------------------------------------------
\* record_billing_event, called by both.

\* Mutated: an event is known by its delivery and not by its id.
KeyOfDelivery(a) == IF a \in Calls THEN job[a].key ELSE <<"stripe_evt", a>>

KeyOf(a) == IF a \in Calls THEN job[a].key ELSE <<"stripe_evt", job[a].n>>

SameKey(a, b) ==
    /\ KeyOf(a) # NoKey
    /\ KeyOf(a) = KeyOf(b)
    /\ mem[a].user = mem[b].user

Booked(a) == {b \in ledger : SameKey(b, a)}

\* Mutated: no UNIQUE index.
KeyNeverTaken(a) == FALSE

KeyTaken(a) == Booked(a) # {}

Dirty(h) == h \in Hooks /\ mem[h].subscription # mem[h].was

\* users.stripe_subscription_id is UNIQUE.
Unique(h) ==
    \A u \in Users :
        u # mem[h].user /\ users[u].subscription = mem[h].subscription
        => mem[h].subscription = None

\* The look-up flushes the user's row first, and so holds the write lock if
\* the event changes it.
Lookup(a) ==
    /\ pc[a] = "lookup"
    /\ IF Dirty(a)
       THEN /\ Granted(a) /\ Unique(a)
            /\ writer' = a
            /\ txn' = [users EXCEPT ![mem[a].user].subscription = mem[a].subscription]
       ELSE UNCHANGED <<writer, txn>>
    /\ Goto(a, IF Booked(a) = {} THEN "book" ELSE "commit")
    /\ UNCHANGED <<users, ledger, remote, work, result, orderly>>

Book(a) ==
    /\ pc[a] = "book"
    /\ Granted(a)
    /\ ~KeyTaken(a)
    /\ writer' = a
    /\ Goto(a, "booked")
    /\ UNCHANGED <<users, txn, ledger, remote, work, result, orderly>>

Commit(a) ==
    /\ pc[a] \in {"commit", "booked"}
    /\ users' = IF writer = a THEN txn ELSE users
    /\ ledger' = IF pc[a] = "booked" THEN ledger \cup {a} ELSE ledger
    /\ writer' = IF writer = a THEN None ELSE writer
    /\ UNCHANGED txn
    /\ Goto(a, "reply")
    /\ UNCHANGED <<remote, work, result, orderly>>

\* Only now has the client its checkout page, or Stripe its 2xx.
Reply(a) ==
    /\ pc[a] = "reply"
    /\ Finish(a, "ok")
    /\ offered' = IF a \in Calls /\ job[a].kind = "subscription"
                  THEN offered \cup {mem[a].customer} ELSE offered
    /\ UNCHANGED <<local, work, customers, cards, intents, events, orderly>>

CannotWrite(a) ==
    \/ pc[a] = "link" /\ ~Granted(a)
    \/ pc[a] = "lookup" /\ Dirty(a) /\ ~(Granted(a) /\ Unique(a))
    \/ pc[a] = "book" /\ (~Granted(a) \/ KeyTaken(a))

\* busy_timeout or a UNIQUE column: 500.
Fail(a) ==
    /\ CannotWrite(a)
    /\ Rollback(a)
    /\ Finish(a, "failed")
    /\ UNCHANGED <<remote, work, orderly>>

\* The server dies.
Crash ==
    /\ \E a \in Actors : InProgress(a)
    /\ pc' = [a \in Actors |-> IF InProgress(a) THEN "done" ELSE pc[a]]
    /\ result' = [a \in Actors |-> IF InProgress(a) THEN "lost" ELSE result[a]]
    /\ writer' = None /\ txn' = users
    /\ UNCHANGED <<users, ledger, remote, work, orderly>>

Stripe == \E x \in Customers : Pay(x) \/ Invoice(x) \/ Cancel(x) \/ Refund(x)

Call(c) ==
    \/ Begin(c) \/ FindCustomer(c) \/ CreateCustomer(c) \/ LinkCustomer(c)
    \/ OpenCheckout(c) \/ Unsupported(c) \/ Charge(c) \/ RemoteFails(c)

Hook(h) == Deliver(h) \/ Ignore(h)

Record(a) == Lookup(a) \/ Book(a) \/ Commit(a) \/ Reply(a) \/ Fail(a)

Next ==
    \/ Stripe \/ Crash
    \/ \E c \in Calls : Call(c)
    \/ \E h \in Hooks : Hook(h)
    \/ \E a \in Actors : Record(a)

Spec == Init /\ [][Next]_vars

-----------------------------------------------------------------------------
\* Every variable keeps its type.
TypeOK ==
    /\ users \in [Users -> Row] /\ txn \in [Users -> Row]
    /\ writer \in Actors \cup {None}
    /\ ledger \in SUBSET Actors
    /\ \A c \in Calls : job[c] \in Commands \cup {None}
    /\ \A h \in Hooks : job[h] \in Event \cup {None}
    /\ pc \in [Actors -> {"idle", "find", "create", "link", "remote",
                          "lookup", "book", "booked", "commit", "reply", "done"}]
    /\ mem \in [Actors -> [user : Users \cup {None}, customer : Customers \cup {None},
                           was : Subscriptions \cup {None},
                           subscription : Subscriptions \cup {None},
                           intent : Calls \cup {None}]]
    /\ result \in [Actors -> {"pending", "ok", "ignored", "rejected", "failed", "lost"}]
    /\ customers \in [Customers -> Users \cup {None}]
    /\ cards \in SUBSET Customers /\ offered \in SUBSET Customers
    /\ intents \in SUBSET Intents
    /\ events \in SUBSET Event
    /\ orderly \in BOOLEAN

\* However often Stripe sends an event, and wherever a crash strikes, each user
\* has at most one row for it, and an event answered with success has its row.
EventBookedOnce ==
    /\ \A g, h \in ledger \cap Hooks : job[g] = job[h] /\ mem[g].user = mem[h].user => g = h
    /\ \A h \in Hooks : result[h] = "ok" => Booked(h) # {}

\* The charge that an answer names is the one in the row under the caller's
\* key, also when charge and row are those of an earlier call.
AnswerNamesItsCharge ==
    \A c \in Calls : result[c] = "ok" /\ job[c].kind = "usage" =>
        \E b \in ledger \cap Calls :
            /\ b = c \/ SameKey(b, c)
            /\ mem[b].intent = mem[c].intent

\* No row without a charge on its user's customer, and no charge with two
\* rows, although the look-up runs before the write lock is taken.
OneRowPerCharge ==
    /\ \A b \in ledger \cap Calls :
        \E i \in intents : i.id = mem[b].intent /\ customers[i.customer] = mem[b].user
    /\ \A b, c \in ledger \cap Calls : mem[b].intent = mem[c].intent => b = c

Ignores(h) == result[h] = "pending" /\ result'[h] = "ignored"

\* After a call has been answered for a user's only customer, no event of that
\* customer is ignored, whatever calls fail or die in between.
EventsFindTheirUser ==
    [][\A h \in Hooks, c \in Calls :
        Ignores(h) /\ result[c] = "ok" /\ job'[h].customer = mem[c].customer
        => Owned(mem[c].user) # {mem[c].customer}]_vars

Successes(e) == {h \in Hooks : result[h] = "ok" /\ job[h] = e}

\* e is the last event of the only customer of u, and has been served.
Latest(u, e) ==
    /\ Owned(u) = {e.customer} /\ users[u].customer = e.customer
    /\ \A f \in Of(e.customer) : f.n <= e.n
    /\ Successes(e) # {}

TellsSubscription(e) == e.type = "deleted" \/ e.subscription # None

\* Served in the order sent, crashes and repeated deliveries included, events
\* leave a user with the subscription the last one speaks of.
InOrderInSync ==
    \A u \in Users, e \in events :
        orderly /\ Latest(u, e) /\ TellsSubscription(e)
        => users[u].subscription = Assigned(e, None)
====
