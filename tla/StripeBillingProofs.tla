---- MODULE StripeBillingProofs ----
(***************************************************************************)
(* Proofs about StripeBilling, for any number of users, calls, deliveries, *)
(* customers, keys and events: whatever overlaps, fails, dies or is        *)
(* delivered again, an event is booked once, a charge has at most one row  *)
(* and an answer names its charge.                                         *)
(***************************************************************************)
EXTENDS StripeBilling, FiniteSetTheorems, TLAPS

\* The actors that book a row, if they get that far.
Booking(a) == a \in Hooks \/ job[a].kind = "usage"

\* What an actor is doing at each statement.
StageOf(a) ==
    /\ pc[a] # "idle" => IF a \in Calls THEN job[a] \in Commands ELSE job[a] \in Event
    /\ a \in Calls /\ pc[a] # "idle" => mem[a].user = job[a].user
    /\ pc[a] = "idle" => mem[a].customer = None /\ mem[a].intent = None
    /\ a \in Hooks => pc[a] \in {"idle", "lookup", "book", "booked", "commit", "reply", "done"}
    /\ a \in Hooks => mem[a].customer = None
    /\ a \in Hooks /\ pc[a] \in {"lookup", "book", "booked", "commit", "reply"} => mem[a].user \in Users
    /\ pc[a] \in {"lookup", "book", "booked"} => Booking(a)
    /\ result[a] # "pending" <=> pc[a] = "done"
    /\ a \in ledger => pc[a] \in {"reply", "done"} /\ Booking(a) /\ mem[a].user \in Users

Stages == \A a \in Actors : StageOf(a)

\* A stored link is one to a customer of the user.
LinkOf(rows) == \A u \in Users : rows[u].customer # None => customers[rows[u].customer] = u

\* So is the customer a call works with, and a call creates its own.
CustomerOf(c) ==
    /\ mem[c].customer # None => customers[mem[c].customer] = mem[c].user
    /\ pc[c] \in {"idle", "find", "create"} => customers[c] = None
    /\ pc[c] \in {"link", "remote", "lookup", "book", "booked", "commit", "reply"} =>
        mem[c].customer # None

Links == LinkOf(users) /\ LinkOf(txn) /\ \A c \in Calls : CustomerOf(c)

\* Charges are named by the call that made them and repeated by their key.
Intended ==
    /\ \A i \in intents : customers[i.customer] # None
    /\ \A i, j \in intents : i.id = j.id \/ (i.key = j.key /\ i.key # NoKey) => i = j

\* A call past its charge has one under its own key.
ChargeOf(c) ==
    /\ pc[c] \in {"idle", "find", "create", "link", "remote"} =>
        mem[c].intent = None /\ \A i \in intents : i.id # c
    /\ mem[c].intent # None =>
        \E i \in intents :
            /\ i.id = mem[c].intent /\ i.customer = mem[c].customer /\ i.key = job[c].key
            /\ i.key = NoKey => i.id = c
    /\ (\/ pc[c] \in {"lookup", "book", "booked", "commit", "reply"} \/ result[c] = "ok"
        \/ c \in ledger) /\ job[c].kind = "usage" => mem[c].intent # None

Charged == Intended /\ \A c \in Calls : ChargeOf(c)

\* The write lock, and what an actor about to add a row knows while it has it.
LockOf(a) ==
    /\ writer = a => pc[a] \in {"remote", "lookup", "book", "booked", "commit"}
    /\ pc[a] = "booked" => writer = a /\ Booked(a) = {}

Lock == \A a \in Actors : LockOf(a)

RowsAreUnique == \A a, b \in ledger : SameKey(a, b) => a = b

\* Who is past the look-up has its row, or found one with its key.
RecordOf(a) ==
    pc[a] # "idle" /\ Booking(a) =>
        /\ pc[a] = "commit" => Booked(a) # {}
        /\ pc[a] = "reply" \/ result[a] = "ok" => a \in ledger \/ Booked(a) # {}

Recorded == \A a \in Actors : RecordOf(a)

IInv ==
    /\ TypeOK /\ DOMAIN job = Actors
    /\ Stages /\ Links /\ Charged /\ Lock /\ RowsAreUnique /\ Recorded

-----------------------------------------------------------------------------
\* A step of one actor that adds no row.
Others(a) ==
    \A b \in Actors : b # a =>
        pc'[b] = pc[b] /\ job'[b] = job[b] /\ mem'[b] = mem[b] /\ result'[b] = result[b]

RowsStay(a) ==
    /\ Others(a) /\ ledger' = ledger
    /\ a \in ledger => job'[a] = job[a] /\ mem'[a].user = mem[a].user
    /\ \A b \in Actors : b # a => (writer' = b <=> writer = b)

\* The statements, and what an actor remembers.
Steps == {"idle", "find", "create", "link", "remote",
          "lookup", "book", "booked", "commit", "reply", "done"}

Memory ==
    [user : Users \cup {None}, customer : Customers \cup {None},
     was : Subscriptions \cup {None}, subscription : Subscriptions \cup {None},
     intent : Calls \cup {None}]

\* What is known of an actor.
LEMMA Known ==
    ASSUME IInv, NEW a \in Actors
    PROVE  /\ StageOf(a) /\ LockOf(a) /\ RecordOf(a)
           /\ a \in Calls => CustomerOf(a) /\ ChargeOf(a)
           /\ TypeOK /\ DOMAIN job = Actors
           /\ a \in Calls => a \notin Hooks
           /\ mem \in [Actors -> Memory] /\ mem[a] \in Memory /\ pc \in [Actors -> Steps]
<1>1. TypeOK
  BY DEF IInv
<1>2. mem \in [Actors -> Memory] /\ mem[a] \in Memory /\ pc \in [Actors -> Steps]
  BY <1>1 DEF TypeOK, Memory, Steps
<1> QED
  BY <1>1, <1>2, StripeConstants DEF IInv, Stages, Lock, Recorded, Links, Charged

\* The rows of the others stay found.
LEMMA RowsKept ==
    ASSUME IInv, NEW a \in Actors, RowsStay(a), StageOf(a)', LockOf(a)', RecordOf(a)'
    PROVE  Stages' /\ Lock' /\ RowsAreUnique' /\ Recorded'
<1>1. /\ Stages /\ Lock /\ RowsAreUnique /\ Recorded /\ ledger \subseteq Actors
  BY DEF IInv, TypeOK
<1>2. /\ \A b \in ledger : job'[b] = job[b] /\ mem'[b].user = mem[b].user
      /\ ledger' = ledger
  BY <1>1 DEF RowsStay, Others
<1>3. \A b, d \in Actors : job'[b] = job[b] /\ mem'[b].user = mem[b].user
        /\ job'[d] = job[d] /\ mem'[d].user = mem[d].user => (SameKey(b, d)' <=> SameKey(b, d))
  BY DEF SameKey, KeyOf
<1>4. \A b \in Actors : b # a => Booked(b)' = Booked(b)
  BY <1>1, <1>2, <1>3 DEF Booked, RowsStay, Others
<1>5. ASSUME NEW b \in Actors, b # a PROVE StageOf(b)' /\ LockOf(b)' /\ RecordOf(b)'
  <2>1. /\ pc'[b] = pc[b] /\ job'[b] = job[b] /\ mem'[b] = mem[b] /\ result'[b] = result[b]
        /\ (writer' = b <=> writer = b)
    BY <1>5 DEF RowsStay, Others
  <2>2. StageOf(b) /\ LockOf(b) /\ RecordOf(b)
    BY <1>1 DEF Stages, Lock, Recorded
  <2> QED
    BY <1>2, <1>4, <1>5, <2>1, <2>2 DEF StageOf, LockOf, RecordOf, Booking
<1>6. RowsAreUnique'
  BY <1>1, <1>2, <1>3 DEF RowsAreUnique
<1> QED
  BY <1>5, <1>6 DEF Stages, Lock, Recorded

\* What exists at Stripe and what the others know of it stays.
LEMMA RemoteKept ==
    ASSUME IInv, NEW a \in Actors, Others(a), UNCHANGED <<customers, intents>>,
           ledger' \subseteq ledger \cup {a},
           LinkOf(users)', LinkOf(txn)', a \in Calls => CustomerOf(a)' /\ ChargeOf(a)'
    PROVE  Links' /\ Charged'
<1>1. Links /\ Charged
  BY DEF IInv
<1>2. ASSUME NEW c \in Calls, c # a PROVE CustomerOf(c)' /\ ChargeOf(c)'
  <2>1. /\ pc'[c] = pc[c] /\ job'[c] = job[c] /\ mem'[c] = mem[c] /\ result'[c] = result[c]
        /\ c \in ledger' => c \in ledger
    BY <1>2 DEF Others, Actors
  <2>2. CustomerOf(c) /\ ChargeOf(c)
    BY <1>1 DEF Links, Charged
  <2> QED
    BY <2>1, <2>2 DEF CustomerOf, ChargeOf
<1>3. Intended'
  BY <1>1 DEF Charged, Intended
<1> QED
  BY <1>2, <1>3 DEF Links, Charged

\* The stored links stay while the customers do.
LEMMA LinksStay ==
    ASSUME IInv, UNCHANGED customers,
           users' = users, txn' \in {users, txn}
    PROVE  LinkOf(users)' /\ LinkOf(txn)'
BY DEF IInv, Links, LinkOf

\* A rolled back transaction is the writer's.
LEMMA RolledBack ==
    ASSUME IInv, NEW a \in Actors, Rollback(a)
    PROVE  /\ users' = users /\ txn' \in {users, txn} /\ ledger' = ledger
           /\ writer' \in Actors \cup {None} /\ writer' # a
           /\ \A b \in Actors : b # a => (writer' = b <=> writer = b)
<1>1. writer \in Actors \cup {None} /\ None \notin Actors
  BY StripeConstants DEF IInv, TypeOK
<1> QED
  BY <1>1 DEF Rollback

-----------------------------------------------------------------------------
\* The steps of a call, one after the other.

\* A call has its command and the customer its user's row names.
LEMMA BeginKeeps ==
    ASSUME IInv, NEW c \in Calls, Begin(c) PROVE IInv'
<1>1. PICK command \in Commands :
        /\ job' = [job EXCEPT ![c] = command]
        /\ mem' = [mem EXCEPT ![c].user = command.user,
                              ![c].customer = users[command.user].customer]
        /\ Goto(c, IF users[command.user].customer = None THEN "find" ELSE "remote")
  BY DEF Begin
<1>2. pc[c] = "idle" /\ UNCHANGED <<local, remote, result, orderly>>
  BY DEF Begin
<1>3. c \in Actors /\ TypeOK /\ DOMAIN job = Actors /\ StageOf(c) /\ LockOf(c)
      /\ CustomerOf(c) /\ ChargeOf(c) /\ c \notin Hooks
      /\ mem \in [Actors -> Memory] /\ mem[c] \in Memory /\ pc \in [Actors -> Steps]
  BY Known DEF Actors
<1>4. /\ command.user \in Users /\ users[command.user].customer \in Customers \cup {None}
      /\ command.key \in Keys \cup {NoKey}
  BY <1>3, StripeConstants DEF TypeOK, Row
<1>5. /\ mem'[c] = [mem[c] EXCEPT !.user = command.user,
                                  !.customer = users[command.user].customer]
      /\ job'[c] = command /\ pc'[c] \in {"find", "remote"}
      /\ pc'[c] = "remote" => users[command.user].customer # None
      /\ Others(c) /\ DOMAIN job' = Actors
  BY <1>1, <1>2, <1>3 DEF TypeOK, Others, Goto
<1>6. /\ mem'[c] \in Memory /\ mem'[c].user = command.user /\ mem'[c].intent = None
      /\ mem'[c].customer = users[command.user].customer
  BY <1>2, <1>3, <1>4, <1>5 DEF Memory, StageOf
<1>7. TypeOK'
  <2>1. mem' \in [Actors -> Memory]
    BY <1>1, <1>3, <1>6
  <2>2. pc' \in [Actors -> Steps] /\ \A d \in Calls : job'[d] \in Commands \cup {None}
        /\ \A h \in Hooks : job'[h] \in Event \cup {None}
    BY <1>1, <1>3, <1>5 DEF TypeOK, Goto, Steps, Others, Actors
  <2> QED
    BY <1>2, <1>3, <2>1, <2>2 DEF TypeOK, Memory, Steps, local, remote
<1>8. c \notin ledger /\ writer # c /\ result[c] = "pending"
  BY <1>2, <1>3 DEF StageOf, LockOf
<1>9. StageOf(c)'
  BY <1>2, <1>3, <1>5, <1>6, <1>8 DEF StageOf, local
<1>10. LockOf(c)' /\ RecordOf(c)'
  BY <1>2, <1>5, <1>8 DEF LockOf, RecordOf, local
<1>11. CustomerOf(c)'
  BY <1>2, <1>3, <1>4, <1>5, <1>6 DEF CustomerOf, IInv, Links, LinkOf, local, remote
<1>12. ChargeOf(c)'
  BY <1>2, <1>3, <1>5, <1>6, <1>8 DEF ChargeOf, local, remote
<1>13. RowsStay(c)
  BY <1>2, <1>3, <1>5, <1>8 DEF RowsStay, local
<1>14. LinkOf(users)' /\ LinkOf(txn)' /\ UNCHANGED <<customers, intents, ledger>>
  BY <1>2, LinksStay DEF local, remote
<1> QED
  BY <1>3, <1>5, <1>7, <1>9, <1>10, <1>11, <1>12, <1>13, <1>14, RowsKept, RemoteKept DEF IInv

\* A call without a link looks for its user's customer.
LEMMA FindKeeps ==
    ASSUME IInv, NEW c \in Calls, FindCustomer(c) PROVE IInv'
<1>1. c \in Actors
  BY DEF Actors
<1>2. pc[c] = "find" /\ UNCHANGED <<users, txn, writer, ledger, job, result, orderly>>
      /\ UNCHANGED <<customers, cards, intents, events, offered>>
  BY DEF FindCustomer, local, remote
<1>3. /\ c \notin ledger /\ writer # c /\ result[c] = "pending" /\ mem[c].intent = None
      /\ c \notin Hooks /\ job[c] \in Commands /\ mem[c].user = job[c].user
      /\ customers[c] = None
  BY <1>1, <1>2, Known DEF StageOf, LockOf, ChargeOf, CustomerOf
<1>4. /\ mem' \in [Actors -> Memory] /\ pc' \in [Actors -> Steps] /\ Others(c)
      /\ pc'[c] \in {"create", "link"}
      /\ mem'[c].user = mem[c].user /\ mem'[c].intent = None
      /\ pc'[c] = "create" => mem'[c].customer = mem[c].customer
      /\ pc'[c] = "link" =>
            mem'[c].customer \in Customers /\ customers[mem'[c].customer] = mem[c].user
  <2>1. CASE Owned(mem[c].user) = {}
    <3>1. pc' = [pc EXCEPT ![c] = "create"] /\ mem' = mem
      BY <2>1 DEF FindCustomer, Goto
    <3> QED
      BY <1>1, <1>2, <1>3, <3>1, Known DEF Others, Steps
  <2>2. CASE Owned(mem[c].user) # {}
    <3>1. PICK x \in Owned(mem[c].user) : mem' = [mem EXCEPT ![c].customer = x]
      BY <2>2 DEF FindCustomer
    <3>2. pc' = [pc EXCEPT ![c] = "link"] /\ x \in Customers /\ customers[x] = mem[c].user
      BY <2>2 DEF FindCustomer, Goto, Owned
    <3>3. /\ mem'[c] = [mem[c] EXCEPT !.customer = x]
          /\ \A b \in Actors : b # c => mem'[b] = mem[b] /\ pc'[b] = pc[b]
      BY <1>1, <3>1, <3>2, Known
    <3>4. /\ mem'[c] \in Memory /\ mem'[c].user = mem[c].user /\ mem'[c].customer = x
          /\ mem'[c].intent = mem[c].intent
      BY <1>1, <3>2, <3>3, Known DEF Memory
    <3> QED
      BY <1>1, <1>2, <1>3, <3>1, <3>2, <3>3, <3>4, Known DEF Others, Steps
  <2> QED
    BY <2>1, <2>2
<1>5. TypeOK'
  BY <1>1, <1>2, <1>4, Known DEF TypeOK, Memory, Steps
<1>6. StageOf(c)' /\ LockOf(c)' /\ RecordOf(c)'
  BY <1>2, <1>3, <1>4 DEF StageOf, LockOf, RecordOf
<1>7. CustomerOf(c)' /\ ChargeOf(c)'
  BY <1>1, <1>2, <1>3, <1>4, Known, StripeConstants DEF CustomerOf, ChargeOf
<1>8. RowsStay(c)
  BY <1>2, <1>3, <1>4 DEF RowsStay
<1>9. LinkOf(users)' /\ LinkOf(txn)'
  BY <1>2, LinksStay
<1> QED
  BY <1>1, <1>2, <1>4, <1>5, <1>6, <1>7, <1>8, <1>9, Known, RowsKept, RemoteKept DEF IInv

\* A created customer is nobody's yet.
LEMMA CustomerMade ==
    ASSUME IInv, NEW c \in Calls, pc[c] = "create", Created(c), Others(c),
           users' = users, txn' \in {users, txn}, UNCHANGED <<intents, ledger>>,
           CustomerOf(c)', ChargeOf(c)'
    PROVE  Links' /\ Charged' /\ customers' \in [Customers -> Users \cup {None}]
<1>1. c \in Actors /\ TypeOK /\ c \in Customers /\ None \notin Users
  BY StripeConstants DEF Actors, Customers, IInv
<1>2. customers[c] = None /\ mem[c].user \in Users
  BY <1>1, Known, StripeConstants DEF CustomerOf, StageOf
<1>3. /\ \A x \in Customers : x # c => customers'[x] = customers[x]
      /\ customers' \in [Customers -> Users \cup {None}]
      /\ customers'[c] = mem[c].user
  BY <1>1, <1>2 DEF Created, TypeOK
<1>4. LinkOf(users)' /\ LinkOf(txn)'
  <2>1. \A u \in Users : users[u].customer \in Customers \cup {None}
            /\ txn[u].customer \in Customers \cup {None}
    BY <1>1 DEF TypeOK, Row
  <2>2. LinkOf(users) /\ LinkOf(txn)
    BY DEF IInv, Links
  <2> QED
    BY <1>1, <1>2, <1>3, <2>1, <2>2 DEF LinkOf
<1>5. ASSUME NEW d \in Calls, d # c PROVE CustomerOf(d)' /\ ChargeOf(d)'
  <2>1. d \in Actors /\ d \in Customers
    BY DEF Actors, Customers
  <2>2. /\ pc'[d] = pc[d] /\ job'[d] = job[d] /\ mem'[d] = mem[d] /\ result'[d] = result[d]
    BY <1>5, <2>1 DEF Others
  <2>3. /\ CustomerOf(d) /\ ChargeOf(d) /\ mem[d].customer \in Customers \cup {None}
        /\ mem[d].customer # None => mem[d].user \in Users
    BY <2>1, Known, StripeConstants DEF StageOf, Memory
  <2> QED
    BY <1>1, <1>2, <1>3, <1>5, <2>1, <2>2, <2>3 DEF CustomerOf, ChargeOf
<1>6. Intended'
  <2>1. \A i \in intents : i.customer \in Customers
    BY <1>1 DEF TypeOK, Intents
  <2> QED
    BY <1>1, <1>2, <1>3, <2>1 DEF IInv, Charged, Intended
<1> QED
  BY <1>3, <1>4, <1>5, <1>6 DEF Links, Charged

\* A call creates its user's customer.
LEMMA CreateKeeps ==
    ASSUME IInv, NEW c \in Calls, CreateCustomer(c) PROVE IInv'
<1>1. c \in Actors /\ c \in Customers
  BY DEF Actors, Customers
<1>2. /\ pc[c] = "create" /\ Created(c) /\ mem' = [mem EXCEPT ![c].customer = c]
      /\ pc' = [pc EXCEPT ![c] = "link"]
      /\ UNCHANGED <<users, txn, writer, ledger, job, result, orderly>>
      /\ UNCHANGED <<cards, intents, events, offered>>
  BY DEF CreateCustomer, local, Goto
<1>3. /\ c \notin ledger /\ writer # c /\ result[c] = "pending" /\ mem[c].intent = None
      /\ c \notin Hooks /\ job[c] \in Commands /\ mem[c].user = job[c].user
      /\ customers'[c] = mem[c].user
  BY <1>1, <1>2, Known DEF StageOf, LockOf, ChargeOf, Created, TypeOK
<1>4. /\ mem'[c] = [mem[c] EXCEPT !.customer = c] /\ pc'[c] = "link"
      /\ Others(c) /\ pc' \in [Actors -> Steps]
  BY <1>1, <1>2, Known DEF Others, Steps
<1>5. /\ mem'[c] \in Memory /\ mem'[c].user = mem[c].user /\ mem'[c].customer = c
      /\ mem'[c].intent = None
  BY <1>1, <1>3, <1>4, Known DEF Memory
<1>6. mem' \in [Actors -> Memory]
  BY <1>1, <1>2, <1>5, Known
<1>7. StageOf(c)' /\ LockOf(c)' /\ RecordOf(c)'
  BY <1>2, <1>3, <1>4, <1>5 DEF StageOf, LockOf, RecordOf
<1>8. CustomerOf(c)' /\ ChargeOf(c)'
  BY <1>1, <1>2, <1>3, <1>4, <1>5, Known, StripeConstants DEF CustomerOf, ChargeOf
<1>9. Links' /\ Charged' /\ customers' \in [Customers -> Users \cup {None}]
  BY <1>2, <1>4, <1>8, CustomerMade
<1>10. TypeOK'
  BY <1>1, <1>2, <1>4, <1>6, <1>9, Known DEF TypeOK, Memory, Steps
<1>11. RowsStay(c)
  BY <1>2, <1>3, <1>4 DEF RowsStay
<1> QED
  BY <1>1, <1>2, <1>7, <1>9, <1>10, <1>11, Known, RowsKept DEF IInv

\* A call links its customer to its user, in a transaction of its own.
LEMMA LinkKeeps ==
    ASSUME IInv, NEW c \in Calls, LinkCustomer(c) PROVE IInv'
<1>1. c \in Actors
  BY DEF Actors
<1>2. /\ pc[c] = "link" /\ Granted(c) /\ writer' = c
      /\ txn' = [u \in Users |->
            IF u = mem[c].user THEN [users[u] EXCEPT !.customer = mem[c].customer]
            ELSE IF users[u].customer = mem[c].customer THEN Unlinked
            ELSE users[u]]
      /\ pc' = [pc EXCEPT ![c] = "remote"]
      /\ UNCHANGED <<users, ledger, job, mem, result, orderly>>
      /\ UNCHANGED <<customers, cards, intents, events, offered>>
  BY DEF LinkCustomer, remote, work, Goto
<1>3. /\ c \notin ledger /\ result[c] = "pending" /\ mem[c].intent = None
      /\ c \notin Hooks /\ job[c] \in Commands /\ mem[c].user = job[c].user
      /\ \A i \in intents : i.id # c
  BY <1>1, <1>2, Known DEF StageOf, ChargeOf
<1>4. pc'[c] = "remote" /\ Others(c) /\ pc' \in [Actors -> Steps]
  BY <1>1, <1>2, Known DEF Others, Steps
<1>5. /\ mem[c].customer \in Customers \cup {None}
      /\ mem[c].customer # None => customers[mem[c].customer] = mem[c].user
  BY <1>1, Known DEF Memory, CustomerOf
<1>6. \A u \in Users : /\ [users[u] EXCEPT !.customer = mem[c].customer] \in Row
                       /\ [users[u] EXCEPT !.customer = mem[c].customer].customer = mem[c].customer
                       /\ Unlinked \in Row /\ Unlinked.customer = None /\ users[u] \in Row
  BY <1>1, <1>5, Known DEF TypeOK, Row, Unlinked
<1>7. txn' \in [Users -> Row]
  BY <1>2, <1>6
<1>8. TypeOK'
  BY <1>1, <1>2, <1>4, <1>7, Known DEF TypeOK, Steps
<1>9. LinkOf(users)' /\ LinkOf(txn)'
  <2>1. LinkOf(users)
    BY DEF IInv, Links
  <2> QED
    BY <1>2, <1>5, <1>6, <2>1 DEF LinkOf
<1>10. StageOf(c)' /\ LockOf(c)' /\ RecordOf(c)'
  BY <1>2, <1>3, <1>4, <1>1, Known DEF StageOf, LockOf, RecordOf
<1>11. CustomerOf(c)' /\ ChargeOf(c)'
  BY <1>1, <1>2, <1>3, <1>4, <1>5, Known DEF CustomerOf, ChargeOf
<1>12. RowsStay(c)
  BY <1>1, <1>2, <1>3, <1>4, StripeConstants DEF RowsStay, Granted
<1> QED
  BY <1>1, <1>2, <1>4, <1>8, <1>9, <1>10, <1>11, <1>12, Known, RowsKept, RemoteKept DEF IInv

\* A checkout page is opened; no row will be written.
LEMMA CheckoutKeeps ==
    ASSUME IInv, NEW c \in Calls, OpenCheckout(c) PROVE IInv'
<1>1. c \in Actors
  BY DEF Actors
<1>2. /\ pc[c] = "remote" /\ job[c].kind = "subscription" /\ pc' = [pc EXCEPT ![c] = "commit"]
      /\ UNCHANGED <<users, txn, writer, ledger, job, mem, result, orderly>>
      /\ UNCHANGED <<customers, cards, intents, events, offered>>
  BY DEF OpenCheckout, local, remote, work, Goto
<1>3. /\ c \notin ledger /\ result[c] = "pending" /\ c \notin Hooks
      /\ pc'[c] = "commit" /\ Others(c) /\ pc' \in [Actors -> Steps]
  BY <1>1, <1>2, Known DEF StageOf, Others, Steps
<1>4. TypeOK'
  BY <1>1, <1>2, <1>3, Known DEF TypeOK, Steps
<1>5. StageOf(c)' /\ LockOf(c)' /\ RecordOf(c)'
  BY <1>1, <1>2, <1>3, Known DEF StageOf, LockOf, RecordOf, Booking
<1>6. CustomerOf(c)' /\ ChargeOf(c)'
  BY <1>1, <1>2, <1>3, Known DEF CustomerOf, ChargeOf
<1>7. RowsStay(c)
  BY <1>2, <1>3 DEF RowsStay
<1>8. LinkOf(users)' /\ LinkOf(txn)'
  BY <1>2, LinksStay
<1> QED
  BY <1>1, <1>2, <1>3, <1>4, <1>5, <1>6, <1>7, <1>8, Known, RowsKept, RemoteKept DEF IInv

\* An actor that ends without success before its row is added.
LEMMA EndsKeeps ==
    ASSUME IInv, NEW a \in Actors, Rollback(a), NEW outcome \in {"rejected", "failed"},
           pc[a] \in {"find", "create", "link", "remote", "lookup", "book"},
           Finish(a, outcome), UNCHANGED <<work, cards, events, offered, orderly>>,
           customers' \in [Customers -> Users \cup {None}], intents' \in SUBSET Intents,
           mem[a].customer # None => customers'[mem[a].customer] = customers[mem[a].customer],
           mem[a].intent # None => intents' = intents
    PROVE  /\ Others(a) /\ users' = users /\ txn' \in {users, txn} /\ ledger' = ledger
           /\ a \in Calls => CustomerOf(a)' /\ ChargeOf(a)'
           /\ Links' /\ Charged' => IInv'
<1>1. /\ users' = users /\ txn' \in {users, txn} /\ ledger' = ledger
      /\ writer' \in Actors \cup {None} /\ writer' # a
      /\ \A b \in Actors : b # a => (writer' = b <=> writer = b)
  BY RolledBack
<1>2. /\ UNCHANGED <<job, mem>> /\ pc' = [pc EXCEPT ![a] = "done"]
      /\ result' = [result EXCEPT ![a] = outcome] /\ result \in [Actors ->
            {"pending", "ok", "ignored", "rejected", "failed", "lost"}]
  BY Known DEF Finish, Goto, work, TypeOK
<1>3. /\ pc'[a] = "done" /\ result'[a] = outcome /\ outcome # "ok" /\ a \notin ledger
      /\ Others(a) /\ pc' \in [Actors -> Steps]
  BY <1>2, Known DEF StageOf, Others, Steps
<1>4. TypeOK'
  BY <1>1, <1>2, <1>3, Known DEF TypeOK, Steps
<1>5. StageOf(a)' /\ LockOf(a)' /\ RecordOf(a)'
  BY <1>1, <1>2, <1>3, Known DEF StageOf, LockOf, RecordOf
<1>6. ASSUME a \in Calls PROVE CustomerOf(a)' /\ ChargeOf(a)'
  <2>1. CustomerOf(a) /\ ChargeOf(a)
    BY <1>6, Known
  <2> QED
    BY <1>1, <1>2, <1>3, <2>1 DEF CustomerOf, ChargeOf
<1>7. RowsStay(a)
  BY <1>1, <1>2, <1>3 DEF RowsStay
<1> QED
  BY <1>1, <1>2, <1>3, <1>4, <1>5, <1>6, <1>7, Known, RowsKept DEF IInv

\* "Unsupported Stripe command event type".
LEMMA UnsupportedKeeps ==
    ASSUME IInv, NEW c \in Calls, Unsupported(c) PROVE IInv'
<1>1. c \in Actors /\ customers \in [Customers -> Users \cup {None}] /\ intents \in SUBSET Intents
  BY DEF Actors, IInv, TypeOK
<1>2. /\ pc[c] = "remote" /\ Rollback(c) /\ Finish(c, "rejected")
      /\ UNCHANGED <<work, orderly>> /\ UNCHANGED <<customers, cards, intents, events, offered>>
  BY DEF Unsupported, remote
<1>3. /\ Others(c) /\ users' = users /\ txn' \in {users, txn} /\ ledger' = ledger
      /\ CustomerOf(c)' /\ ChargeOf(c)' /\ (Links' /\ Charged' => IInv')
  BY <1>1, <1>2, EndsKeeps
<1> QED
  BY <1>1, <1>2, <1>3, LinksStay, RemoteKept

\* A new charge has a name and, if it has a key, one that no charge had; a
\* repeated one is there already.
LEMMA ChargeMade ==
    ASSUME IInv, NEW c \in Calls, NEW i \in Intents, Charges(c, i), Others(c),
           intents' = intents \cup {i}, UNCHANGED <<customers, ledger>>,
           users' = users, txn' \in {users, txn}, CustomerOf(c)', ChargeOf(c)'
    PROVE  Links' /\ Charged' /\ intents' \in SUBSET Intents
<1>1. /\ c \in Actors /\ None \notin Users /\ None \notin Customers
      /\ intents \in SUBSET Intents /\ cards \subseteq Customers
  BY StripeConstants DEF Actors, IInv, TypeOK
<1>2. /\ pc[c] = "remote" /\ mem[c].customer \in cards
      /\ \A j \in intents : j.id # c
      /\ mem[c].user \in Users /\ job[c].key \in Keys \cup {NoKey}
  BY <1>1, Known, StripeConstants DEF Charges, ChargeOf, StageOf
<1>3. customers[mem[c].customer] # None
  BY <1>1, <1>2, Known DEF CustomerOf
<1>4. \/ i \in intents
      \/ /\ i = [id |-> c, key |-> job[c].key, customer |-> mem[c].customer]
         /\ \A j \in intents : ~(j.key = job[c].key /\ j.key # NoKey)
  BY DEF Charges, ChargedAs
<1>5. Intended
  BY DEF IInv, Charged
<1>6. Intended'
  BY <1>2, <1>3, <1>4, <1>5 DEF Intended
<1>7. ASSUME NEW d \in Calls, d # c PROVE CustomerOf(d)' /\ ChargeOf(d)'
  <2>1. /\ pc'[d] = pc[d] /\ job'[d] = job[d] /\ mem'[d] = mem[d] /\ result'[d] = result[d]
    BY <1>7 DEF Others, Actors
  <2>2. CustomerOf(d) /\ ChargeOf(d)
    BY Known DEF Actors
  <2>3. \A j \in intents' : j \in intents \/ j.id = c
    BY <1>4
  <2> QED
    BY <1>7, <2>1, <2>2, <2>3 DEF CustomerOf, ChargeOf
<1> QED
  BY <1>1, <1>6, <1>7, LinksStay DEF Links, Charged

\* The card is charged, or was for this key.
LEMMA ChargeKeeps ==
    ASSUME IInv, NEW c \in Calls, Charge(c) PROVE IInv'
<1>1. c \in Actors /\ None \notin Calls
  BY StripeConstants DEF Actors
<1>2. PICK i \in Intents :
        /\ Charges(c, i) /\ intents' = intents \cup {i}
        /\ mem' = [mem EXCEPT ![c].intent = i.id]
  BY DEF Charge
<1>3. /\ pc[c] = "remote" /\ job[c].kind = "usage" /\ pc' = [pc EXCEPT ![c] = "lookup"]
      /\ UNCHANGED <<users, txn, writer, ledger, job, result, orderly>>
      /\ UNCHANGED <<customers, cards, events, offered>>
  BY <1>2 DEF Charge, Charges, local, Goto
<1>4. /\ c \notin ledger /\ result[c] = "pending" /\ c \notin Hooks
      /\ job[c] \in Commands /\ mem[c].user = job[c].user /\ i.id \in Calls
  BY <1>1, <1>3, Known DEF StageOf, Intents
<1>5. /\ i.customer = mem[c].customer /\ i.key = job[c].key /\ (i.key = NoKey => i.id = c)
  BY <1>2 DEF Charges, ChargedAs
<1>6. /\ mem'[c] = [mem[c] EXCEPT !.intent = i.id] /\ pc'[c] = "lookup"
      /\ Others(c) /\ pc' \in [Actors -> Steps]
  BY <1>1, <1>2, <1>3, Known DEF Others, Steps
<1>7. /\ mem'[c] \in Memory /\ mem'[c].user = mem[c].user /\ mem'[c].intent = i.id
      /\ mem'[c].customer = mem[c].customer
  BY <1>1, <1>4, <1>6, Known DEF Memory
<1>8. mem' \in [Actors -> Memory]
  BY <1>1, <1>2, <1>7, Known
<1>9. StageOf(c)' /\ LockOf(c)' /\ RecordOf(c)'
  BY <1>1, <1>3, <1>4, <1>6, <1>7, Known DEF StageOf, LockOf, RecordOf, Booking
<1>10. CustomerOf(c)'
  BY <1>1, <1>3, <1>6, <1>7, Known DEF CustomerOf
<1>11. ChargeOf(c)'
  BY <1>1, <1>2, <1>3, <1>4, <1>5, <1>6, <1>7 DEF ChargeOf
<1>12. Links' /\ Charged' /\ intents' \in SUBSET Intents
  BY <1>2, <1>3, <1>6, <1>10, <1>11, ChargeMade
<1>13. TypeOK'
  BY <1>1, <1>3, <1>6, <1>8, <1>12, Known DEF TypeOK, Memory, Steps
<1>14. RowsStay(c)
  BY <1>3, <1>4, <1>6 DEF RowsStay
<1> QED
  BY <1>1, <1>3, <1>9, <1>12, <1>13, <1>14, Known, RowsKept DEF IInv

\* A remote call fails, whether or not it has done what it was asked for.
LEMMA RemoteFailsKeeps ==
    ASSUME IInv, NEW c \in Calls, RemoteFails(c) PROVE IInv'
<1>1. c \in Actors /\ customers \in [Customers -> Users \cup {None}] /\ intents \in SUBSET Intents
      /\ None \notin Users /\ c \in Customers
  BY StripeConstants DEF Actors, Customers, IInv, TypeOK
<1>2. /\ pc[c] \in {"find", "create", "remote"} /\ Rollback(c) /\ Finish(c, "failed")
      /\ UNCHANGED <<work, orderly>> /\ UNCHANGED <<cards, events, offered>>
  BY DEF RemoteFails
<1>3. /\ mem[c].intent = None /\ mem[c].user \in Users \cup {None}
      /\ pc[c] = "create" => customers[c] = None
      /\ mem[c].customer # None => customers[mem[c].customer] = mem[c].user /\ mem[c].user \in Users
  BY <1>1, <1>2, Known, StripeConstants DEF ChargeOf, CustomerOf, StageOf, Memory
<1>4. CASE UNCHANGED <<customers, intents>>
  <2>1. /\ Others(c) /\ users' = users /\ txn' \in {users, txn} /\ ledger' = ledger
        /\ CustomerOf(c)' /\ ChargeOf(c)' /\ (Links' /\ Charged' => IInv')
    BY <1>1, <1>2, <1>4, EndsKeeps
  <2> QED
    BY <1>1, <1>4, <2>1, LinksStay, RemoteKept
<1>5. CASE pc[c] = "create" /\ Created(c) /\ UNCHANGED intents
  <2>1. /\ customers' \in [Customers -> Users \cup {None}]
        /\ \A x \in Customers : x # c => customers'[x] = customers[x]
    BY <1>1, <1>3, <1>5 DEF Created
  <2>2. mem[c].customer # None => customers'[mem[c].customer] = customers[mem[c].customer]
    BY <1>1, <1>3, <1>5, <2>1, Known DEF Memory
  <2>3. /\ Others(c) /\ users' = users /\ txn' \in {users, txn} /\ ledger' = ledger
        /\ CustomerOf(c)' /\ ChargeOf(c)' /\ (Links' /\ Charged' => IInv')
    BY <1>1, <1>2, <1>3, <1>5, <2>1, <2>2, EndsKeeps
  <2> QED
    BY <1>5, <2>3, CustomerMade
<1>6. ASSUME NEW i \in Intents, Charges(c, i), intents' = intents \cup {i}, UNCHANGED customers
      PROVE  IInv'
  <2>1. intents' \in SUBSET Intents
    BY <1>1, <1>6
  <2>2. /\ Others(c) /\ users' = users /\ txn' \in {users, txn} /\ ledger' = ledger
        /\ CustomerOf(c)' /\ ChargeOf(c)' /\ (Links' /\ Charged' => IInv')
    BY <1>1, <1>2, <1>3, <1>6, <2>1, EndsKeeps
  <2> QED
    BY <1>6, <2>2, ChargeMade
<1> QED
  BY <1>4, <1>5, <1>6 DEF RemoteFails

-----------------------------------------------------------------------------
\* The steps of a delivery.

\* An event is given to a user.
LEMMA DeliverKeeps ==
    ASSUME IInv, NEW h \in Hooks, Deliver(h) PROVE IInv'
<1>1. h \in Actors /\ h \notin Calls
  BY StripeConstants DEF Actors
<1>2. PICK e \in events : \E u \in Addressee(e) :
        /\ Arrives(h, e)
        /\ mem' = [mem EXCEPT
            ![h].user = u, ![h].was = users[u].subscription,
            ![h].subscription = Assigned(e, users[u].subscription)]
  BY DEF Deliver
<1>3. PICK u \in Addressee(e) :
        /\ Arrives(h, e)
        /\ mem' = [mem EXCEPT
            ![h].user = u, ![h].was = users[u].subscription,
            ![h].subscription = Assigned(e, users[u].subscription)]
  BY <1>2
<1>4. /\ pc[h] = "idle" /\ job' = [job EXCEPT ![h] = e] /\ orderly' \in BOOLEAN
      /\ pc' = [pc EXCEPT ![h] = "lookup"]
      /\ UNCHANGED <<users, txn, writer, ledger, result>>
      /\ UNCHANGED <<customers, cards, intents, events, offered>>
  BY <1>3, Known, <1>1 DEF Deliver, Arrives, local, remote, Goto, TypeOK
<1>5. /\ h \notin ledger /\ result[h] = "pending" /\ writer # h
      /\ mem[h].customer = None /\ mem[h].intent = None
  BY <1>1, <1>4, Known DEF StageOf, LockOf
<1>6. /\ u \in Users /\ e \in Event /\ users[u].subscription \in Subscriptions \cup {None}
      /\ e.subscription \in Subscriptions \cup {None}
  BY <1>1, Known DEF Addressee, ByCustomer, BySubscription, TypeOK, Row, Event
<1>7. Assigned(e, users[u].subscription) \in Subscriptions \cup {None}
  BY <1>6 DEF Assigned
<1>8. /\ mem'[h] = [mem[h] EXCEPT !.user = u, !.was = users[u].subscription,
                        !.subscription = Assigned(e, users[u].subscription)]
      /\ job'[h] = e /\ pc'[h] = "lookup" /\ pc' \in [Actors -> Steps] /\ DOMAIN job' = Actors
      /\ Others(h)
  BY <1>1, <1>3, <1>4, Known DEF Others, Steps
<1>9. /\ mem'[h] \in Memory /\ mem'[h].user = u /\ mem'[h].customer = None
      /\ mem'[h].intent = None
  BY <1>1, <1>5, <1>6, <1>7, <1>8, Known DEF Memory
<1>10. mem' \in [Actors -> Memory]
  BY <1>1, <1>3, <1>9, Known
<1>11. TypeOK'
  <2>1. /\ \A c \in Calls : job'[c] \in Commands \cup {None}
        /\ \A g \in Hooks : job'[g] \in Event \cup {None}
    BY <1>1, <1>6, <1>8, Known DEF TypeOK, Others, Actors
  <2> QED
    BY <1>1, <1>4, <1>8, <1>10, <2>1, Known DEF TypeOK, Memory, Steps
<1>12. StageOf(h)' /\ LockOf(h)' /\ RecordOf(h)'
  BY <1>1, <1>4, <1>5, <1>6, <1>8, <1>9 DEF StageOf, LockOf, RecordOf, Booking
<1>13. RowsStay(h)
  BY <1>4, <1>5, <1>8 DEF RowsStay
<1>14. LinkOf(users)' /\ LinkOf(txn)'
  BY <1>4, LinksStay
<1> QED
  BY <1>1, <1>4, <1>8, <1>11, <1>12, <1>13, <1>14, RowsKept, RemoteKept DEF IInv

\* An event finds nobody.
LEMMA IgnoreKeeps ==
    ASSUME IInv, NEW h \in Hooks, Ignore(h) PROVE IInv'
<1>1. h \in Actors /\ h \notin Calls
  BY StripeConstants DEF Actors
<1>2. PICK e \in events : Addressee(e) = {} /\ Arrives(h, e)
  BY DEF Ignore
<1>3. /\ pc[h] = "idle" /\ job' = [job EXCEPT ![h] = e] /\ orderly' \in BOOLEAN
      /\ pc' = [pc EXCEPT ![h] = "done"] /\ result' = [result EXCEPT ![h] = "ignored"]
      /\ UNCHANGED <<users, txn, writer, ledger, mem>>
      /\ UNCHANGED <<customers, cards, intents, events, offered>>
  BY <1>2, Known, <1>1 DEF Ignore, Arrives, local, remote, Finish, Goto, TypeOK
<1>4. h \notin ledger /\ writer # h /\ mem[h].customer = None
  BY <1>1, <1>3, Known DEF StageOf, LockOf
<1>5. /\ job'[h] = e /\ pc'[h] = "done" /\ result'[h] = "ignored" /\ DOMAIN job' = Actors
      /\ pc' \in [Actors -> Steps] /\ Others(h) /\ e \in Event
  BY <1>1, <1>3, Known DEF Others, Steps, TypeOK
<1>6. TypeOK'
  <2>1. /\ \A c \in Calls : job'[c] \in Commands \cup {None}
        /\ \A g \in Hooks : job'[g] \in Event \cup {None}
    BY <1>1, <1>5, Known DEF TypeOK, Others, Actors
  <2> QED
    BY <1>1, <1>3, <1>5, <2>1, Known DEF TypeOK, Steps
<1>7. StageOf(h)' /\ LockOf(h)' /\ RecordOf(h)'
  BY <1>1, <1>3, <1>4, <1>5 DEF StageOf, LockOf, RecordOf
<1>8. RowsStay(h)
  BY <1>3, <1>4, <1>5 DEF RowsStay
<1>9. LinkOf(users)' /\ LinkOf(txn)'
  BY <1>3, LinksStay
<1> QED
  BY <1>1, <1>3, <1>5, <1>6, <1>7, <1>8, <1>9, RowsKept, RemoteKept DEF IInv

-----------------------------------------------------------------------------
\* Booking, for both.

\* The row is looked up; an event that changes its user has locked the store.
LEMMA LookupKeeps ==
    ASSUME IInv, NEW a \in Actors, Lookup(a) PROVE IInv'
<1>1. /\ pc[a] = "lookup"
      /\ pc' = [pc EXCEPT ![a] = IF Booked(a) = {} THEN "book" ELSE "commit"]
      /\ UNCHANGED <<users, ledger, job, mem, result, orderly>>
      /\ UNCHANGED <<customers, cards, intents, events, offered>>
  BY DEF Lookup, remote, work, Goto
<1>2. /\ a \notin ledger /\ result[a] = "pending" /\ Booking(a)
      /\ a \in Hooks => mem[a].user \in Users
  BY <1>1, Known DEF StageOf
<1>3. /\ pc'[a] \in {"book", "commit"} /\ (pc'[a] = "commit" => Booked(a) # {})
      /\ pc' \in [Actors -> Steps] /\ Others(a)
  BY <1>1, Known DEF Others, Steps
<1>4. /\ writer' \in {writer, a} /\ (writer' # writer => Granted(a))
      /\ txn' \in [Users -> Row] /\ LinkOf(txn)'
  <2>1. CASE Dirty(a)
    <3>1. /\ Granted(a) /\ writer' = a /\ a \in Hooks
          /\ txn' = [users EXCEPT ![mem[a].user].subscription = mem[a].subscription]
      BY <2>1 DEF Lookup, Dirty
    <3>2. /\ users \in [Users -> Row] /\ mem[a].subscription \in Subscriptions \cup {None}
      BY Known DEF TypeOK, Memory
    <3>3. /\ \A u \in Users : txn'[u] \in Row /\ txn'[u].customer = users[u].customer
          /\ txn' \in [Users -> Row]
      BY <3>1, <3>2 DEF Row
    <3> QED
      BY <1>1, <3>1, <3>3 DEF IInv, Links, LinkOf
  <2>2. CASE ~Dirty(a)
    <3>1. UNCHANGED <<writer, txn>>
      BY <2>2 DEF Lookup
    <3> QED
      BY <1>1, <3>1, Known, LinksStay DEF TypeOK
  <2> QED
    BY <2>1, <2>2
<1>5. TypeOK'
  BY <1>1, <1>3, <1>4, Known DEF TypeOK, Steps
<1>6. Booked(a)' = Booked(a)
  BY <1>1 DEF Booked, SameKey, KeyOf
<1>7. StageOf(a)' /\ LockOf(a)' /\ RecordOf(a)'
  BY <1>1, <1>2, <1>3, <1>6, Known DEF StageOf, LockOf, RecordOf, Booking
<1>8. a \in Calls => CustomerOf(a)' /\ ChargeOf(a)'
  BY <1>1, <1>2, <1>3, Known DEF CustomerOf, ChargeOf
<1>9. RowsStay(a)
  BY <1>1, <1>2, <1>3, <1>4, StripeConstants DEF RowsStay, Granted
<1>10. LinkOf(users)'
  BY <1>1 DEF IInv, Links, LinkOf
<1> QED
  BY <1>1, <1>3, <1>4, <1>5, <1>7, <1>8, <1>9, <1>10, Known, RowsKept, RemoteKept DEF IInv

\* The row is inserted, and its key with it, in the writer's transaction.
LEMMA BookKeeps ==
    ASSUME IInv, NEW a \in Actors, Book(a) PROVE IInv'
<1>1. /\ pc[a] = "book" /\ Granted(a) /\ Booked(a) = {} /\ writer' = a
      /\ pc' = [pc EXCEPT ![a] = "booked"]
      /\ UNCHANGED <<users, txn, ledger, job, mem, result, orderly>>
      /\ UNCHANGED <<customers, cards, intents, events, offered>>
  BY DEF Book, KeyTaken, remote, work, Goto
<1>2. /\ a \notin ledger /\ result[a] = "pending" /\ Booking(a)
      /\ a \in Hooks => mem[a].user \in Users
  BY <1>1, Known DEF StageOf
<1>3. pc'[a] = "booked" /\ pc' \in [Actors -> Steps] /\ Others(a)
  BY <1>1, Known DEF Others, Steps
<1>4. TypeOK'
  BY <1>1, <1>3, Known DEF TypeOK, Steps
<1>5. Booked(a)' = Booked(a)
  BY <1>1 DEF Booked, SameKey, KeyOf
<1>6. StageOf(a)' /\ LockOf(a)' /\ RecordOf(a)'
  BY <1>1, <1>2, <1>3, <1>5, Known DEF StageOf, LockOf, RecordOf, Booking
<1>7. a \in Calls => CustomerOf(a)' /\ ChargeOf(a)'
  BY <1>1, <1>2, <1>3, Known DEF CustomerOf, ChargeOf
<1>8. RowsStay(a)
  BY <1>1, <1>2, <1>3, StripeConstants DEF RowsStay, Granted
<1>9. LinkOf(users)' /\ LinkOf(txn)'
  BY <1>1, LinksStay
<1> QED
  BY <1>1, <1>3, <1>4, <1>6, <1>7, <1>8, <1>9, Known, RowsKept, RemoteKept DEF IInv

\* The commit: the row, if one was inserted, and the user's.
LEMMA CommitKeeps ==
    ASSUME IInv, NEW a \in Actors, Commit(a) PROVE IInv'
<1>1. /\ pc[a] \in {"commit", "booked"} /\ txn' = txn
      /\ users' = (IF writer = a THEN txn ELSE users)
      /\ ledger' = (IF pc[a] = "booked" THEN ledger \cup {a} ELSE ledger)
      /\ writer' = (IF writer = a THEN None ELSE writer)
      /\ pc' = [pc EXCEPT ![a] = "reply"]
      /\ UNCHANGED <<job, mem, result, orderly>>
      /\ UNCHANGED <<customers, cards, intents, events, offered>>
  BY DEF Commit, remote, work, Goto
<1>2. /\ a \notin ledger /\ result[a] = "pending" /\ None \notin Actors
      /\ pc[a] = "booked" => Booking(a) /\ writer = a /\ Booked(a) = {} /\ mem[a].user \in Users
  BY <1>1, Known, StripeConstants DEF StageOf, LockOf, Actors
<1>3. pc'[a] = "reply" /\ pc' \in [Actors -> Steps] /\ Others(a)
  BY <1>1, Known DEF Others, Steps
<1>4. TypeOK'
  BY <1>1, <1>3, Known DEF TypeOK, Steps
<1>5. LinkOf(users)' /\ LinkOf(txn)'
  BY <1>1 DEF IInv, Links, LinkOf
<1>6. a \in Calls => CustomerOf(a)' /\ ChargeOf(a)'
  BY <1>1, <1>2, <1>3, Known DEF CustomerOf, ChargeOf, Booking
<1>7. Links' /\ Charged'
  BY <1>1, <1>3, <1>5, <1>6, RemoteKept
<1>8. \A b, d \in Actors : SameKey(b, d)' <=> SameKey(b, d)
  BY <1>1 DEF SameKey, KeyOf
<1>9. ledger \subseteq Actors /\ Stages /\ Lock /\ Recorded /\ RowsAreUnique
  BY DEF IInv, TypeOK
<1>10. \A b \in Actors : Booked(b) \subseteq Booked(b)'
  BY <1>1, <1>8, <1>9 DEF Booked
<1>11. CASE pc[a] = "booked"
  <2>1. \A b \in ledger : ~SameKey(b, a) /\ ~SameKey(a, b)
    BY <1>2, <1>11 DEF Booked, SameKey
  <2>2. RowsAreUnique'
    BY <1>1, <1>8, <1>9, <1>11, <2>1 DEF RowsAreUnique
  <2>3. ASSUME NEW b \in Actors PROVE StageOf(b)' /\ LockOf(b)' /\ RecordOf(b)'
    <3>1. StageOf(b) /\ LockOf(b) /\ RecordOf(b)
      BY <1>9 DEF Stages, Lock, Recorded
    <3>2. CASE b = a
      BY <1>1, <1>2, <1>3, <1>11, <3>1, <3>2 DEF StageOf, LockOf, RecordOf, Booking
    <3>3. CASE b # a
      <4>1. pc[b] # "booked" /\ pc'[b] = pc[b]
        BY <1>2, <1>3, <1>11, <3>1, <3>3 DEF LockOf, Others
      <4> QED
        BY <1>1, <1>2, <1>10, <1>11, <3>1, <3>3, <4>1 DEF StageOf, LockOf, RecordOf, Booking
    <3> QED
      BY <3>2, <3>3
  <2> QED
    BY <1>1, <1>4, <1>7, <2>2, <2>3, Known DEF IInv, Stages, Lock, Recorded
<1>12. CASE pc[a] = "commit"
  <2>1. StageOf(a)' /\ LockOf(a)' /\ RecordOf(a)'
    BY <1>1, <1>2, <1>3, <1>10, <1>12, Known DEF StageOf, LockOf, RecordOf, Booking
  <2>2. RowsStay(a)
    BY <1>1, <1>2, <1>3, <1>12 DEF RowsStay
  <2> QED
    BY <1>1, <1>4, <1>7, <2>1, <2>2, Known, RowsKept DEF IInv
<1> QED
  BY <1>1, <1>11, <1>12

\* The answer; a client that asked for one has its checkout page.
LEMMA ReplyKeeps ==
    ASSUME IInv, NEW a \in Actors, Reply(a) PROVE IInv'
<1>1. /\ pc[a] = "reply"
      /\ pc' = [pc EXCEPT ![a] = "done"] /\ result' = [result EXCEPT ![a] = "ok"]
      /\ UNCHANGED <<users, txn, writer, ledger, job, mem, orderly>>
      /\ UNCHANGED <<customers, cards, intents, events>>
      /\ offered' = IF a \in Calls /\ job[a].kind = "subscription"
                    THEN offered \cup {mem[a].customer} ELSE offered
  BY DEF Reply, local, work, Finish, Goto
<1>2. /\ pc'[a] = "done" /\ result'[a] = "ok" /\ pc' \in [Actors -> Steps] /\ Others(a)
      /\ writer # a
  BY <1>1, Known DEF Others, Steps, TypeOK, LockOf
<1>3. TypeOK'
  <2>1. a \in Calls => mem[a].customer \in Customers
    BY <1>1, Known DEF CustomerOf, Memory
  <2>2. offered' \in SUBSET Customers
    BY <1>1, <2>1, Known DEF TypeOK
  <2> QED
    BY <1>1, <1>2, <2>2, Known DEF TypeOK, Steps
<1>4. Booked(a)' = Booked(a)
  BY <1>1 DEF Booked, SameKey, KeyOf
<1>5. StageOf(a)' /\ LockOf(a)' /\ RecordOf(a)'
  BY <1>1, <1>2, <1>4, Known DEF StageOf, LockOf, RecordOf, Booking
<1>6. a \in Calls => CustomerOf(a)' /\ ChargeOf(a)'
  BY <1>1, <1>2, Known DEF CustomerOf, ChargeOf
<1>7. RowsStay(a)
  BY <1>1, <1>2 DEF RowsStay
<1>8. LinkOf(users)' /\ LinkOf(txn)'
  BY <1>1, LinksStay
<1> QED
  BY <1>1, <1>2, <1>3, <1>5, <1>6, <1>7, <1>8, Known, RowsKept, RemoteKept DEF IInv

\* A write is refused.
LEMMA FailKeeps ==
    ASSUME IInv, NEW a \in Actors, Fail(a) PROVE IInv'
<1>1. /\ pc[a] \in {"link", "lookup", "book"} /\ Rollback(a) /\ Finish(a, "failed")
      /\ UNCHANGED <<work, orderly>> /\ UNCHANGED <<customers, cards, intents, events, offered>>
  BY DEF Fail, CannotWrite, remote
<1>2. customers \in [Customers -> Users \cup {None}] /\ intents \in SUBSET Intents
  BY DEF IInv, TypeOK
<1>3. /\ Others(a) /\ users' = users /\ txn' \in {users, txn} /\ ledger' = ledger
      /\ (a \in Calls => CustomerOf(a)' /\ ChargeOf(a)') /\ (Links' /\ Charged' => IInv')
  BY <1>1, <1>2, EndsKeeps
<1> QED
  BY <1>1, <1>3, LinksStay, RemoteKept

\* The server dies: what was not committed is gone, and nobody is answered.
LEMMA CrashKeeps ==
    ASSUME IInv, Crash PROVE IInv'
<1>1. /\ pc' = [a \in Actors |-> IF InProgress(a) THEN "done" ELSE pc[a]]
      /\ result' = [a \in Actors |-> IF InProgress(a) THEN "lost" ELSE result[a]]
      /\ writer' = None /\ txn' = users
      /\ UNCHANGED <<users, ledger, job, mem, orderly>>
      /\ UNCHANGED <<customers, cards, intents, events, offered>>
  BY DEF Crash, remote, work
<1>2. \A a \in Actors :
        /\ pc[a] \in {"idle", "done"} => pc'[a] = pc[a] /\ result'[a] = result[a]
        /\ pc[a] \notin {"idle", "done"} => pc'[a] = "done" /\ result'[a] = "lost"
  BY <1>1 DEF InProgress
<1>3. TypeOK'
  <2>1. TypeOK
    BY DEF IInv
  <2>2. /\ pc' \in [Actors -> Steps]
        /\ result' \in [Actors -> {"pending", "ok", "ignored", "rejected", "failed", "lost"}]
    BY <1>1, <2>1 DEF TypeOK, Steps
  <2> QED
    BY <1>1, <2>1, <2>2 DEF TypeOK, Steps
<1>4. \A a \in Actors : Booked(a)' = Booked(a)
  BY <1>1 DEF Booked, SameKey, KeyOf
<1>5. ASSUME NEW a \in Actors PROVE StageOf(a)' /\ LockOf(a)' /\ RecordOf(a)'
  BY <1>1, <1>2, <1>4, Known, StripeConstants DEF StageOf, LockOf, RecordOf, Booking
<1>6. ASSUME NEW c \in Calls PROVE CustomerOf(c)' /\ ChargeOf(c)'
  <2>1. c \in Actors
    BY DEF Actors
  <2> QED
    BY <1>1, <1>2, <2>1, Known DEF CustomerOf, ChargeOf
<1>7. LinkOf(users)' /\ LinkOf(txn)'
  BY <1>1, LinksStay
<1>8. Intended' /\ RowsAreUnique' /\ DOMAIN job' = Actors
  BY <1>1 DEF IInv, Charged, Intended, RowsAreUnique, SameKey, KeyOf
<1> QED
  BY <1>3, <1>5, <1>6, <1>7, <1>8 DEF IInv, Stages, Lock, Recorded, Links, Charged

\* Stripe sends an event, and may have learnt of a card.
LEMMA StripeKeeps ==
    ASSUME IInv, Stripe PROVE IInv'
<1>1. PICK x \in Customers : Pay(x) \/ Invoice(x) \/ Cancel(x) \/ Refund(x)
  BY DEF Stripe
<1>2. /\ UNCHANGED <<users, txn, writer, ledger, job, mem, pc, result, orderly>>
      /\ UNCHANGED <<customers, intents, offered>>
  BY <1>1 DEF Pay, Invoice, Cancel, Refund, Environment, local, work
<1>3. \E e \in Event : events' = events \cup {e}
  <2>1. CASE Pay(x)
    <3>1. PICK s \in {None, Cardinality(events) + 1} :
            \E e \in [n : Subscriptions, type : {"checkout"}, customer : {x}, subscription : {s}] :
                Sent(e)
      BY <2>1 DEF Pay
    <3>2. PICK e \in [n : Subscriptions, type : {"checkout"}, customer : {x}, subscription : {s}] :
                Sent(e)
      BY <3>1
    <3>3. e.n \in Subscriptions /\ e.n = Cardinality(events) + 1 /\ events' = events \cup {e}
      BY <3>2 DEF Sent
    <3>4. s \in Subscriptions \cup {None}
      BY <3>3
    <3> QED
      BY <3>2, <3>3, <3>4 DEF Event
  <2>2. CASE Invoice(x)
    BY <2>2 DEF Invoice, Sent, Event
  <2>3. CASE Cancel(x)
    BY <2>3 DEF Cancel, Sent, Event
  <2>4. CASE Refund(x)
    BY <2>4 DEF Refund, Sent, Event
  <2> QED
    BY <1>1, <2>1, <2>2, <2>3, <2>4
<1>4. cards' \in SUBSET Customers
  BY <1>1 DEF IInv, TypeOK, Pay, Invoice, Cancel, Refund
<1>5. TypeOK'
  BY <1>2, <1>3, <1>4 DEF IInv, TypeOK
<1> QED
  <2>1. Stages' /\ Lock' /\ RowsAreUnique' /\ Recorded'
    BY <1>2 DEF IInv, Stages, StageOf, Lock, LockOf, RowsAreUnique, Recorded, RecordOf,
       Booking, Booked, SameKey, KeyOf
  <2>2. Links' /\ Charged'
    BY <1>2 DEF IInv, Links, LinkOf, CustomerOf, Charged, Intended, ChargeOf
  <2> QED
    BY <1>2, <1>5, <2>1, <2>2 DEF IInv

-----------------------------------------------------------------------------
\* Nobody has begun; a link from before is to a customer of the user.
LEMMA Initially == Init => IInv
<1> SUFFICES ASSUME Init PROVE IInv
  OBVIOUS
<1>1. /\ users \in [Users -> [customer : Existing \cup {None}, subscription : {None}]]
      /\ \A u \in Users : users[u].customer \in {None} \cup {x \in Existing : customers[x] = u}
      /\ txn = users /\ writer = None /\ ledger = {}
      /\ job = [a \in Actors |-> None] /\ pc = [a \in Actors |-> "idle"]
      /\ mem = [a \in Actors |-> [user |-> None, customer |-> None, was |-> None,
                                  subscription |-> None, intent |-> None]]
      /\ result = [a \in Actors |-> "pending"]
      /\ intents = {} /\ events = {} /\ orderly = TRUE
  BY DEF Init
<1>2. /\ customers \in [Customers -> Users \cup {None}]
      /\ \A c \in Calls : customers[c] = None
      /\ cards \in SUBSET Customers /\ offered \in SUBSET Customers
  BY StripeConstants DEF Init, Customers
<1>3. users \in [Users -> Row]
  BY <1>1 DEF Row, Customers
<1>4. mem \in [Actors -> Memory]
  BY <1>1 DEF Memory
<1>5. TypeOK
  BY <1>1, <1>2, <1>3, <1>4 DEF TypeOK, Memory, Actors
<1>6. \A a \in Actors : StageOf(a) /\ LockOf(a) /\ RecordOf(a)
  BY <1>1, StripeConstants DEF StageOf, LockOf, RecordOf, Actors
<1>7. \A c \in Calls : CustomerOf(c) /\ ChargeOf(c)
  BY <1>1, <1>2 DEF CustomerOf, ChargeOf, Actors
<1>8. LinkOf(users) /\ LinkOf(txn) /\ Intended /\ RowsAreUnique
  BY <1>1 DEF LinkOf, Intended, RowsAreUnique
<1> QED
  BY <1>1, <1>5, <1>6, <1>7, <1>8 DEF IInv, Stages, Lock, Recorded, Links, Charged

\* Every step keeps the invariant.
LEMMA Preserved == IInv /\ [Next]_vars => IInv'
<1> SUFFICES ASSUME IInv, [Next]_vars PROVE IInv'
  OBVIOUS
<1>1. ASSUME NEW c \in Calls, Call(c) PROVE IInv'
  BY <1>1, BeginKeeps, FindKeeps, CreateKeeps, LinkKeeps, CheckoutKeeps, UnsupportedKeeps,
     ChargeKeeps, RemoteFailsKeeps DEF Call
<1>2. ASSUME NEW h \in Hooks, Hook(h) PROVE IInv'
  BY <1>2, DeliverKeeps, IgnoreKeeps DEF Hook
<1>3. ASSUME NEW a \in Actors, Record(a) PROVE IInv'
  BY <1>3, LookupKeeps, BookKeeps, CommitKeeps, ReplyKeeps, FailKeeps DEF Record
<1>4. CASE UNCHANGED vars
  <2>1. /\ UNCHANGED <<users, txn, writer, ledger, job, mem, pc, result, orderly>>
        /\ UNCHANGED <<customers, cards, intents, events, offered>>
    BY <1>4 DEF vars, local, work, remote
  <2>2. TypeOK' /\ DOMAIN job' = Actors
    BY <2>1 DEF IInv, TypeOK
  <2>3. Stages' /\ Lock' /\ RowsAreUnique' /\ Recorded'
    BY <2>1 DEF IInv, Stages, StageOf, Lock, LockOf, RowsAreUnique, Recorded, RecordOf,
       Booking, Booked, SameKey, KeyOf
  <2>4. Links' /\ Charged'
    BY <2>1 DEF IInv, Links, LinkOf, CustomerOf, Charged, Intended, ChargeOf
  <2> QED
    BY <2>2, <2>3, <2>4 DEF IInv
<1> QED
  BY <1>1, <1>2, <1>3, <1>4, CrashKeeps, StripeKeeps DEF Next

\* The invariant holds throughout.
LEMMA Inductive == Spec => []IInv
BY Initially, Preserved, PTL DEF Spec

\* The variables keep their types, whatever Stripe sends.
THEOREM StripeTypeCorrect == Spec => []TypeOK
<1>1. IInv => TypeOK
  BY DEF IInv
<1> QED
  BY <1>1, Inductive, PTL

\* An event has at most one row of a user, however often it is delivered and
\* wherever the server dies, and one that was answered with success has it.
THEOREM EventsAreBookedOnce == Spec => []EventBookedOnce
<1>1. ASSUME IInv PROVE EventBookedOnce
  <2>1. TypeOK /\ RowsAreUnique /\ \A h \in Hooks : StageOf(h) /\ RecordOf(h) /\ h \notin Calls
    BY <1>1, Known, StripeConstants DEF IInv, Actors
  <2>2. \A h \in Hooks : pc[h] # "idle" => KeyOf(h) # NoKey
    BY <2>1, StripeConstants DEF KeyOf, StageOf, Event
  <2>3. ASSUME NEW g \in ledger \cap Hooks, NEW h \in ledger \cap Hooks,
               job[g] = job[h], mem[g].user = mem[h].user
        PROVE  g = h
    <3>1. SameKey(g, h)
      BY <2>1, <2>2, <2>3 DEF SameKey, KeyOf, StageOf
    <3> QED
      BY <2>1, <3>1 DEF RowsAreUnique
  <2>4. ASSUME NEW h \in Hooks, result[h] = "ok" PROVE Booked(h) # {}
    <3>1. pc[h] # "idle" /\ (h \in ledger \/ Booked(h) # {})
      BY <2>1, <2>4 DEF StageOf, RecordOf, Booking
    <3>2. SameKey(h, h)
      BY <2>2, <3>1 DEF SameKey
    <3> QED
      BY <3>1, <3>2 DEF Booked
  <2> QED
    BY <2>3, <2>4 DEF EventBookedOnce
<1> QED
  BY <1>1, Inductive, PTL

\* A row names a charge on its user's customer, and no two rows name one: a
\* call repeated under its key finds its row as well as its charge.
THEOREM ChargesHaveOneRow == Spec => []OneRowPerCharge
<1>1. ASSUME IInv PROVE OneRowPerCharge
  <2>1. TypeOK /\ RowsAreUnique /\ Intended /\ None \notin Customers
    BY <1>1, StripeConstants DEF IInv, Charged
  <2>2. ASSUME NEW b \in ledger \cap Calls
        PROVE  /\ mem[b].user \in Users /\ pc[b] # "idle"
               /\ \E i \in intents :
                    /\ i.id = mem[b].intent /\ i.key = job[b].key
                    /\ i.key = NoKey => i.id = b
                    /\ customers[i.customer] = mem[b].user
    <3>1. b \in Actors /\ b \in Calls
      BY DEF Actors
    <3>2. StageOf(b) /\ ChargeOf(b) /\ CustomerOf(b) /\ b \notin Hooks
      BY <1>1, <3>1, Known
    <3>3. /\ mem[b].user \in Users /\ pc[b] \in {"reply", "done"} /\ job[b].kind = "usage"
          /\ mem[b].intent # None
      BY <3>2 DEF StageOf, ChargeOf, Booking
    <3>4. PICK i \in intents : /\ i.id = mem[b].intent /\ i.customer = mem[b].customer
                               /\ i.key = job[b].key /\ (i.key = NoKey => i.id = b)
      BY <3>2, <3>3 DEF ChargeOf
    <3>5. i.customer \in Customers
      BY <2>1 DEF TypeOK, Intents
    <3> QED
      BY <2>1, <3>2, <3>3, <3>4, <3>5 DEF CustomerOf
  <2>3. ASSUME NEW b \in ledger \cap Calls, NEW c \in ledger \cap Calls,
               mem[b].intent = mem[c].intent
        PROVE  b = c
    <3>1. PICK i \in intents : /\ i.id = mem[b].intent /\ i.key = job[b].key
                               /\ (i.key = NoKey => i.id = b)
                               /\ customers[i.customer] = mem[b].user
      BY <2>2
    <3>2. PICK j \in intents : /\ j.id = mem[c].intent /\ j.key = job[c].key
                               /\ (j.key = NoKey => j.id = c)
                               /\ customers[j.customer] = mem[c].user
      BY <2>2
    <3>3. i = j
      BY <2>1, <2>3, <3>1, <3>2 DEF Intended
    <3>4. CASE i.key = NoKey
      BY <3>1, <3>2, <3>3, <3>4
    <3>5. CASE i.key # NoKey
      <4>1. SameKey(b, c)
        BY <3>1, <3>2, <3>3, <3>5 DEF SameKey, KeyOf
      <4> QED
        BY <2>1, <4>1 DEF RowsAreUnique
    <3> QED
      BY <3>4, <3>5
  <2> QED
    BY <2>2, <2>3 DEF OneRowPerCharge
<1> QED
  BY <1>1, Inductive, PTL

\* An answer names the charge of the row under the caller's key.
THEOREM AnswersNameTheirCharge == Spec => []AnswerNamesItsCharge
<1>1. ASSUME IInv PROVE AnswerNamesItsCharge
  <2> SUFFICES ASSUME NEW c \in Calls, result[c] = "ok", job[c].kind = "usage"
               PROVE  \E b \in ledger \cap Calls :
                        /\ b = c \/ SameKey(b, c)
                        /\ mem[b].intent = mem[c].intent
    BY DEF AnswerNamesItsCharge
  <2>1. TypeOK /\ Intended /\ ledger \subseteq Actors
    BY <1>1 DEF IInv, Charged, TypeOK
  <2>2. c \in Actors
    BY DEF Actors
  <2>3. /\ pc[c] # "idle" /\ job[c] \in Commands /\ (c \in ledger \/ Booked(c) # {})
        /\ mem[c].intent # None
    BY <1>1, <2>2, Known DEF StageOf, RecordOf, Booking, ChargeOf
  <2>4. CASE c \in ledger
    BY <2>4
  <2>5. CASE Booked(c) # {}
    <3>1. PICK b \in ledger : SameKey(b, c)
      BY <2>5 DEF Booked
    <3>2. b \in Actors /\ KeyOf(b) = job[c].key /\ job[c].key # NoKey /\ job[c].key \in Keys
      BY <2>1, <2>3, <3>1, StripeConstants DEF SameKey, KeyOf
    <3>3. b \in Calls
      <4>1. b \in Hooks => KeyOf(b) = <<"stripe_evt", job[b].n>> /\ job[b].n \in Subscriptions
        BY <1>1, <3>1, <3>2, Known, StripeConstants DEF KeyOf, StageOf, Event
      <4> QED
        BY <3>2, <4>1, StripeConstants DEF Actors
    <3>4. ChargeOf(b) /\ ChargeOf(c) /\ StageOf(b) /\ b \notin Hooks
      BY <1>1, <2>2, <3>2, <3>3, Known
    <3>5. mem[b].intent # None /\ job[b].key = job[c].key
      BY <3>1, <3>2, <3>3, <3>4 DEF ChargeOf, StageOf, Booking, KeyOf
    <3>6. mem[b].intent = mem[c].intent
      <4>1. PICK i \in intents : i.id = mem[b].intent /\ i.key = job[c].key
        BY <3>4, <3>5 DEF ChargeOf
      <4>2. PICK j \in intents : j.id = mem[c].intent /\ j.key = job[c].key
        BY <2>3, <3>4 DEF ChargeOf
      <4> QED
        BY <2>1, <3>2, <4>1, <4>2 DEF Intended
    <3> QED
      BY <3>1, <3>3, <3>6
  <2> QED
    BY <2>3, <2>4, <2>5
<1> QED
  BY <1>1, Inductive, PTL

-----------------------------------------------------------------------------
\* Once linked, a user stays linked, and the user of a call that has found or
\* made its link is linked as soon as the call's transaction is committed.
Linking(c) ==
    pc[c] \in {"remote", "lookup", "book", "booked", "commit", "reply"} \/ result[c] = "ok"

Linked(rows, u) == rows[u].customer # None

NoLinkIsLost ==
    /\ \A u \in Users : Linked(users, u) => Linked(txn, u)
    /\ \A c \in Calls : Linking(c) =>
        Linked(txn, mem[c].user) /\ (writer = c \/ Linked(users, mem[c].user))

\* Most steps leave the rows and make no call one that has its link.
LEMMA NothingLinked ==
    ASSUME IInv, NoLinkIsLost, UNCHANGED <<users, txn, writer>>,
           \A c \in Calls : Linking(c)' => Linking(c) /\ mem'[c].user = mem[c].user
    PROVE  NoLinkIsLost'
BY DEF NoLinkIsLost, Linked

\* A rollback forgets only what the writer had not committed.
LEMMA RollbackKeepsLinks ==
    ASSUME IInv, NoLinkIsLost, NEW a \in Actors, Rollback(a), mem' = mem,
           \A c \in Calls : Linking(c)' => Linking(c) /\ c # a
    PROVE  NoLinkIsLost'
<1>1. CASE writer = a
  <2>1. users' = users /\ txn' = users /\ writer' = None
    BY <1>1 DEF Rollback
  <2> QED
    BY <1>1, <2>1 DEF NoLinkIsLost, Linked
<1>2. CASE writer # a
  BY <1>2 DEF Rollback, NoLinkIsLost, Linked
<1> QED
  BY <1>1, <1>2

\* The steps of calls.
LEMMA CallsKeepLinks ==
    ASSUME IInv, NoLinkIsLost, NEW c \in Calls, Call(c) PROVE NoLinkIsLost'
<1>1. /\ c \in Actors /\ Calls \subseteq Actors
      /\ pc \in [Actors -> Steps] /\ mem \in [Actors -> Memory] /\ None \notin Customers
      /\ result \in [Actors -> {"pending", "ok", "ignored", "rejected", "failed", "lost"}]
  BY Known, StripeConstants DEF Actors, TypeOK
<1>2. \A d \in Calls : Linking(d) => mem[d].user \in Users
  BY Known, StripeConstants DEF Linking, StageOf, Actors
<1>3. CASE Begin(c)
  <2>1. PICK command \in Commands :
            /\ mem' = [mem EXCEPT ![c].user = command.user,
                                  ![c].customer = users[command.user].customer]
            /\ pc' = [pc EXCEPT ![c] = IF users[command.user].customer = None
                                       THEN "find" ELSE "remote"]
    BY <1>3 DEF Begin, Goto
  <2>2. pc[c] = "idle" /\ UNCHANGED <<users, txn, writer, result>> /\ command.user \in Users
    BY <1>3, StripeConstants DEF Begin, local
  <2>3. /\ mem'[c] = [mem[c] EXCEPT !.user = command.user,
                                    !.customer = users[command.user].customer]
        /\ pc'[c] = (IF users[command.user].customer = None THEN "find" ELSE "remote")
        /\ \A d \in Calls : d # c => mem'[d] = mem[d] /\ pc'[d] = pc[d]
    BY <1>1, <2>1
  <2>4. mem'[c].user = command.user /\ result[c] = "pending"
    BY <1>1, <2>2, <2>3, Known DEF Memory, StageOf
  <2> QED
    BY <2>2, <2>3, <2>4 DEF NoLinkIsLost, Linked, Linking
<1>4. CASE LinkCustomer(c)
  <2>1. /\ pc[c] = "link" /\ Granted(c) /\ writer' = c
        /\ txn' = [u \in Users |->
              IF u = mem[c].user THEN [users[u] EXCEPT !.customer = mem[c].customer]
              ELSE IF users[u].customer = mem[c].customer THEN Unlinked
              ELSE users[u]]
        /\ pc' = [pc EXCEPT ![c] = "remote"] /\ UNCHANGED <<users, mem, result>>
    BY <1>4 DEF LinkCustomer, work, Goto
  <2>2. /\ mem[c].customer \in Customers /\ customers[mem[c].customer] = mem[c].user
        /\ mem[c].user \in Users /\ LinkOf(users)
    BY <1>1, <2>1, Known, StripeConstants DEF CustomerOf, StageOf, IInv, Links, Memory
  <2>3. \A u \in Users : [users[u] EXCEPT !.customer = mem[c].customer].customer = mem[c].customer
    BY <1>1, Known DEF TypeOK, Row
  <2>4. \A u \in Users : Linked(users, u) \/ u = mem[c].user => Linked(txn', u)
    BY <1>1, <2>1, <2>2, <2>3 DEF Linked, LinkOf
  <2>5. \A d \in Calls : d # c => pc'[d] = pc[d] /\ writer # d
    BY <1>1, <2>1, StripeConstants DEF Granted, Actors
  <2> QED
    BY <1>2, <2>1, <2>2, <2>4, <2>5 DEF NoLinkIsLost, Linking, Linked
<1>5. CASE FindCustomer(c) \/ CreateCustomer(c)
  <2>1. /\ UNCHANGED <<users, txn, writer, result>> /\ result[c] = "pending"
        /\ pc'[c] \in {"create", "link"}
        /\ \A d \in Calls : d # c => mem'[d] = mem[d] /\ pc'[d] = pc[d]
    BY <1>1, <1>5, Known DEF FindCustomer, CreateCustomer, local, Goto, StageOf
  <2>2. \A d \in Calls : Linking(d)' => d # c
    BY <2>1 DEF Linking
  <2> QED
    BY <2>1, <2>2, NothingLinked DEF Linking
<1>6. CASE OpenCheckout(c)
  <2>1. /\ UNCHANGED <<users, txn, writer, result, mem>> /\ pc[c] = "remote"
        /\ \A d \in Calls : d # c => pc'[d] = pc[d]
    BY <1>1, <1>6 DEF OpenCheckout, local, work, Goto
  <2> QED
    BY <2>1, NothingLinked DEF Linking
<1>7. CASE Charge(c)
  <2>1. PICK i \in Intents : mem' = [mem EXCEPT ![c].intent = i.id]
    BY <1>7 DEF Charge
  <2>2. /\ UNCHANGED <<users, txn, writer, result>> /\ pc[c] = "remote"
        /\ \A d \in Calls : d # c => pc'[d] = pc[d]
    BY <1>1, <1>7 DEF Charge, Charges, local, Goto
  <2>3. \A d \in Calls : mem'[d].user = mem[d].user
    BY <1>1, <2>1 DEF Memory
  <2> QED
    BY <2>2, <2>3, NothingLinked DEF Linking
<1>8. CASE Unsupported(c) \/ RemoteFails(c)
  <2>1. PICK outcome \in {"rejected", "failed"} : Finish(c, outcome)
    BY <1>8 DEF Unsupported, RemoteFails
  <2>2. Rollback(c) /\ mem' = mem
    BY <1>8 DEF Unsupported, RemoteFails, work
  <2>3. /\ pc'[c] = "done" /\ result'[c] # "ok"
        /\ \A d \in Calls : d # c => pc'[d] = pc[d] /\ result'[d] = result[d]
    BY <1>1, <2>1 DEF Finish, Goto
  <2> QED
    BY <1>1, <2>2, <2>3, RollbackKeepsLinks DEF Linking
<1> QED
  BY <1>3, <1>4, <1>5, <1>6, <1>7, <1>8 DEF Call

\* The steps of deliveries and of booking.
LEMMA RecordKeepsLinks ==
    ASSUME IInv, NoLinkIsLost, NEW a \in Actors, Record(a) \/ (a \in Hooks /\ Hook(a))
    PROVE  NoLinkIsLost'
<1>1. /\ Calls \subseteq Actors /\ pc \in [Actors -> Steps] /\ mem \in [Actors -> Memory]
      /\ result \in [Actors -> {"pending", "ok", "ignored", "rejected", "failed", "lost"}]
      /\ None \notin Actors
  BY Known, StripeConstants DEF Actors, TypeOK
<1>2. \A d \in Calls : Linking(d) => mem[d].user \in Users
  BY Known, StripeConstants DEF Linking, StageOf, Actors
<1>3. CASE a \in Hooks /\ Hook(a)
  <2>1. a \notin Calls
    BY <1>3, StripeConstants
  <2>2. /\ UNCHANGED <<users, txn, writer>>
        /\ \A d \in Calls : pc'[d] = pc[d] /\ mem'[d] = mem[d] /\ result'[d] = result[d]
    BY <1>1, <1>3, <2>1 DEF Hook, Deliver, Ignore, local, Goto, Finish
  <2> QED
    BY <2>2, NothingLinked DEF Linking
<1>4. CASE Lookup(a)
  <2>1. /\ pc[a] = "lookup" /\ UNCHANGED <<users, mem, result>>
        /\ \A d \in Calls : d # a => pc'[d] = pc[d]
    BY <1>1, <1>4 DEF Lookup, work, Goto
  <2>2. \A d \in Calls : Linking(d)' => Linking(d)
    BY <2>1 DEF Linking
  <2>3. CASE Dirty(a)
    <3>1. /\ Granted(a) /\ writer' = a /\ a \notin Calls
          /\ txn' = [users EXCEPT ![mem[a].user].subscription = mem[a].subscription]
      BY <1>4, <2>3, StripeConstants DEF Lookup, Dirty
    <3>2. \A u \in Users : txn'[u].customer = users[u].customer
      BY <3>1, Known DEF TypeOK, Row
    <3>3. \A d \in Calls : writer # d
      BY <1>1, <3>1 DEF Granted
    <3> QED
      BY <1>2, <2>1, <2>2, <3>1, <3>2, <3>3 DEF NoLinkIsLost, Linked
  <2>4. CASE ~Dirty(a)
    BY <1>4, <2>1, <2>2, <2>4, NothingLinked DEF Lookup
  <2> QED
    BY <2>3, <2>4
<1>5. CASE Book(a)
  <2>1. /\ pc[a] = "book" /\ UNCHANGED <<users, txn, mem, result>> /\ Granted(a) /\ writer' = a
        /\ \A d \in Calls : d # a => pc'[d] = pc[d]
    BY <1>1, <1>5 DEF Book, work, Goto
  <2>2. \A d \in Calls : (Linking(d)' => Linking(d)) /\ (writer = d => writer' = d)
    BY <1>1, <2>1 DEF Linking, Granted
  <2> QED
    BY <2>1, <2>2 DEF NoLinkIsLost, Linked
<1>6. CASE Commit(a)
  <2>1. /\ pc[a] \in {"commit", "booked"} /\ UNCHANGED <<txn, mem, result>>
        /\ users' = (IF writer = a THEN txn ELSE users)
        /\ writer' = (IF writer = a THEN None ELSE writer)
        /\ \A d \in Calls : d # a => pc'[d] = pc[d]
    BY <1>1, <1>6 DEF Commit, work, Goto
  <2>2. \A d \in Calls : Linking(d)' => Linking(d)
    BY <2>1 DEF Linking
  <2> QED
    BY <2>1, <2>2 DEF NoLinkIsLost, Linked
<1>7. CASE Reply(a)
  <2>1. /\ pc[a] = "reply" /\ UNCHANGED <<users, txn, writer, mem>>
        /\ \A d \in Calls : d # a => pc'[d] = pc[d] /\ result'[d] = result[d]
    BY <1>1, <1>7 DEF Reply, local, work, Goto, Finish
  <2> QED
    BY <2>1, NothingLinked DEF Linking
<1>8. CASE Fail(a)
  <2>1. /\ Rollback(a) /\ mem' = mem /\ pc'[a] = "done" /\ result'[a] = "failed"
        /\ \A d \in Calls : d # a => pc'[d] = pc[d] /\ result'[d] = result[d]
    BY <1>1, <1>8 DEF Fail, work, Goto, Finish
  <2> QED
    BY <1>1, <2>1, RollbackKeepsLinks DEF Linking
<1> QED
  BY <1>3, <1>4, <1>5, <1>6, <1>7, <1>8 DEF Record

\* Every step.
LEMMA LinksPreserved == IInv /\ NoLinkIsLost /\ [Next]_vars => NoLinkIsLost'
<1> SUFFICES ASSUME IInv, NoLinkIsLost, [Next]_vars PROVE NoLinkIsLost'
  OBVIOUS
<1>1. CASE Crash
  <2>1. /\ pc' = [a \in Actors |-> IF InProgress(a) THEN "done" ELSE pc[a]]
        /\ result' = [a \in Actors |-> IF InProgress(a) THEN "lost" ELSE result[a]]
        /\ writer' = None /\ txn' = users /\ UNCHANGED <<users, mem>>
    BY <1>1 DEF Crash, work
  <2>2. \A c \in Calls : Linking(c)' => Linking(c) /\ writer # c
    BY <2>1, Known DEF Linking, InProgress, LockOf, Actors
  <2> QED
    BY <2>1, <2>2 DEF NoLinkIsLost, Linked
<1>2. CASE Stripe \/ UNCHANGED vars
  <2>1. UNCHANGED <<users, txn, writer, pc, result, mem>>
    BY <1>2 DEF Stripe, Pay, Invoice, Cancel, Refund, Environment, local, work, vars
  <2> QED
    BY <2>1, NothingLinked DEF Linking
<1> QED
  BY <1>1, <1>2, CallsKeepLinks, RecordKeepsLinks DEF Next, Actors

\* After a call has been answered for a user's only customer, no event of that
\* customer is ignored: every write keeps or sets the user's link.
THEOREM EventsAreNotIgnored == Spec => EventsFindTheirUser
<1> DEFINE Step == \A h \in Hooks, c \in Calls :
            Ignores(h) /\ result[c] = "ok" /\ job'[h].customer = mem[c].customer
            => Owned(mem[c].user) # {mem[c].customer}
<1>1. Init => NoLinkIsLost
  BY DEF Init, NoLinkIsLost, Linking, Linked, Actors
<1>2. ASSUME IInv, NoLinkIsLost, [Next]_vars PROVE Step
  <2> SUFFICES ASSUME NEW h \in Hooks, NEW c \in Calls, Ignores(h), result[c] = "ok",
                      job'[h].customer = mem[c].customer, Owned(mem[c].user) = {mem[c].customer}
               PROVE  FALSE
    OBVIOUS
  <2>1. /\ h \in Actors /\ c \in Actors /\ h \notin Calls /\ DOMAIN job = Actors
        /\ result \in [Actors -> {"pending", "ok", "ignored", "rejected", "failed", "lost"}]
    BY <1>2, Known, StripeConstants DEF Actors, TypeOK
  <2>2. Ignore(h)
    <3>1. result[h] = "pending" /\ result'[h] = "ignored"
      BY DEF Ignores
    <3>2. ~(Stripe \/ Crash \/ UNCHANGED vars)
      BY <2>1, <3>1 DEF Stripe, Crash, Pay, Invoice, Cancel, Refund, Environment, vars
    <3>3. \A d \in Calls : ~Call(d)
      BY <2>1, <3>1 DEF Call, Begin, FindCustomer, CreateCustomer, LinkCustomer, OpenCheckout,
         Unsupported, Charge, RemoteFails, Finish
    <3>4. \A a \in Actors : ~Record(a)
      BY <2>1, <3>1 DEF Record, Lookup, Book, Commit, Reply, Fail, Finish
    <3>5. PICK g \in Hooks : Hook(g)
      BY <1>2, <3>2, <3>3, <3>4 DEF Next
    <3> QED
      BY <2>1, <3>1, <3>5 DEF Hook, Deliver, Ignore, Finish
  <2>3. PICK e \in events : Addressee(e) = {} /\ job'[h] = e
    BY <2>1, <2>2 DEF Ignore, Arrives
  <2>4. /\ Linked(users, mem[c].user) /\ mem[c].user \in Users /\ LinkOf(users)
        /\ users[mem[c].user].customer \in Customers \cup {None}
    BY <1>2, <2>1, Known, StripeConstants
       DEF NoLinkIsLost, Linking, StageOf, LockOf, IInv, Links, TypeOK, Row
  <2>5. users[mem[c].user].customer \in Owned(mem[c].user)
    BY <2>4 DEF Linked, LinkOf, Owned
  <2>6. mem[c].user \in ByCustomer(e)
    BY <2>3, <2>4, <2>5 DEF ByCustomer
  <2> QED
    BY <2>3, <2>6 DEF Addressee
<1>3. Spec => []NoLinkIsLost
  BY <1>1, Inductive, LinksPreserved, PTL DEF Spec
<1>4. Step <=> \A h \in Hooks, c \in Calls :
            Ignores(h) /\ result[c] = "ok" /\ job'[h].customer = mem[c].customer
            => Owned(mem[c].user) # {mem[c].customer}
  OBVIOUS
<1> HIDE DEF Step
<1> QED
  BY <1>2, <1>3, <1>4, Inductive, PTL DEF Spec, EventsFindTheirUser


-----------------------------------------------------------------------------
(* Events served in the order sent.  A delivery writes what it computed     *)
(* from its user's row as it found it; nothing else writes a subscription,  *)
(* one delivery is served at a time, and an event finds the owner of its    *)
(* customer, so the last event of a customer decides.                       *)

Serving(h) == pc[h] \in {"lookup", "book", "booked", "commit", "reply"}

Tells(x) == {e \in Of(x) : TellsSubscription(e)}

\* Stripe numbers events as it sends them, and a subscription has one customer.
EventsNumbered ==
    /\ IsFiniteSet(events)
    /\ \A e \in events :
        /\ e.n <= Cardinality(events)
        /\ e.subscription # None => e.subscription <= Cardinality(events)
        /\ customers[e.customer] # None
    /\ \A e, f \in events : e.subscription = f.subscription /\ e.subscription # None
                                => e.customer = f.customer
    /\ \A x \in Customers : Tells(x) # {} => \E e \in Tells(x) : \A f \in Tells(x) : f.n <= e.n

OfferedAreOwned == \A x \in offered : customers[x] # None

\* A user's subscription is one that an event of an own customer told of.
Held(u, s) == s # None => \E f \in events : f.subscription = s /\ customers[f.customer] = u

SubscriptionsHeld == \A u \in Users : Held(u, users[u].subscription)

\* What a delivery has computed, and whether it has written it.
HookOf(h) ==
    /\ pc[h] # "idle" => job[h] \in events
    /\ mem[h].user # None =>
        /\ pc[h] # "idle"
        /\ customers[job[h].customer] = mem[h].user
        /\ Held(mem[h].user, mem[h].subscription)
    /\ result[h] = "ok" => mem[h].user # None
    /\ Serving(h) => mem[h].subscription = Assigned(job[h], mem[h].was)
    /\ Serving(h) /\ pc[h] # "reply" => mem[h].was = users[mem[h].user].subscription
    /\ pc[h] \in {"book", "booked", "commit"} /\ writer # h => mem[h].subscription = mem[h].was
    /\ pc[h] = "reply" => users[mem[h].user].subscription = mem[h].subscription

HooksInStep ==
    /\ \A h \in Hooks : HookOf(h)
    /\ \A g, h \in Hooks : Serving(g) /\ Serving(h) => g = h

\* Only a delivery's transaction has another subscription than the store.
View ==
    /\ writer = None => txn = users
    /\ \A u \in Users : txn[u].subscription =
        IF writer \in Hooks /\ mem[writer].user = u THEN mem[writer].subscription
        ELSE users[u].subscription

ServedInOrder ==
    orderly => \A g, h \in Hooks :
        Serving(h) /\ result[g] \in {"ok", "ignored"} => job[g].n < job[h].n

\* The last event of the user's only customer has been served, whether or not
\* the user's row names that customer.
LastIsServed(u, e) ==
    /\ Owned(u) = {e.customer}
    /\ \A f \in Of(e.customer) : f.n <= e.n
    /\ Successes(e) # {}
    /\ TellsSubscription(e)

LastDecides ==
    orderly => \A u \in Users, e \in events :
        LastIsServed(u, e) => users[u].subscription = Assigned(e, None)

Sync ==
    /\ EventsNumbered /\ OfferedAreOwned /\ SubscriptionsHeld
    /\ HooksInStep /\ View /\ ServedInOrder /\ LastDecides

\* Steps that leave the deliveries and their transaction alone.
HooksStay ==
    \A h \in Hooks :
        /\ pc'[h] = pc[h] /\ job'[h] = job[h] /\ mem'[h] = mem[h] /\ result'[h] = result[h]
        /\ writer' = h <=> writer = h

\* A customer keeps its owner.
Grown == \A x \in Customers : customers[x] # None => customers'[x] = customers[x]

\* What is known of a delivery.
LEMMA KnownHook ==
    ASSUME IInv, Sync, NEW h \in Hooks
    PROVE  /\ h \in Actors /\ HookOf(h) /\ StageOf(h) /\ LockOf(h) /\ mem[h] \in Memory
           /\ pc[h] # "idle" => job[h] \in Event
           /\ Serving(h) => mem[h].user \in Users
           /\ ~Serving(h) <=> pc[h] \in {"idle", "done"}
<1>1. h \in Actors /\ h \notin Calls /\ HookOf(h)
  BY StripeConstants DEF Actors, Sync, HooksInStep
<1> QED BY <1>1, Known DEF StageOf, Serving

\* Events are not taken back.
LEMMA HeldStays ==
    ASSUME IInv, Sync, Grown, events \subseteq events', NEW u, NEW s, Held(u, s)
    PROVE  Held(u, s)'
<1>1. \A f \in events : f.customer \in Customers /\ customers[f.customer] # None
  BY DEF IInv, TypeOK, Event, Sync, EventsNumbered
<1> QED BY <1>1 DEF Held, Grown

\* A step that is not about events or deliveries keeps both in step.
LEMMA QuietKeepsSync ==
    ASSUME IInv, Sync, HooksStay, Grown, UNCHANGED <<events, orderly>>,
           OfferedAreOwned', View',
           \A u \in Users : users'[u].subscription = users[u].subscription
    PROVE  Sync'
<1>1. \A f \in events : f.customer \in Customers /\ customers[f.customer] # None
                        /\ customers'[f.customer] = customers[f.customer]
  BY DEF IInv, TypeOK, Event, Sync, EventsNumbered, Grown
<1>2. EventsNumbered'
  BY <1>1 DEF Sync, EventsNumbered, Tells, Of
<1>3. SubscriptionsHeld'
  BY HeldStays DEF Sync, SubscriptionsHeld
<1>4. ASSUME NEW h \in Hooks PROVE HookOf(h)'
  <2>1. mem[h].user # None => job[h] \in events /\ Held(mem[h].user, mem[h].subscription)'
    <3>1. HookOf(h) /\ mem'[h] = mem[h]
      BY KnownHook DEF HooksStay
    <3>2. ASSUME NEW u, NEW s, Held(u, s)
          PROVE  s # None => \E f \in events' : f.subscription = s /\ customers'[f.customer] = u
      BY <3>2, HeldStays DEF Held
    <3> QED BY <3>1, <3>2 DEF HookOf, Held
  <2>2. Serving(h)' <=> Serving(h)
    BY DEF Serving, HooksStay
  <2> QED BY <1>1, <2>1, <2>2, KnownHook DEF HookOf, HooksStay
<1>5. HooksInStep' /\ ServedInOrder'
  BY <1>4 DEF Sync, HooksInStep, ServedInOrder, Serving, HooksStay
<1>6. LastDecides'
  <2> SUFFICES ASSUME orderly, NEW u \in Users, NEW e \in events, LastIsServed(u, e)'
               PROVE  users[u].subscription = Assigned(e, None)
    BY DEF LastDecides, Assigned
  <2>1. Owned(u) = {e.customer}
    <3>1. e.customer \in Owned(u)
      BY <1>1 DEF LastIsServed, Owned
    <3>2. \A x \in Owned(u) : x \in Owned(u)'
      BY StripeConstants DEF Owned, Grown
    <3> QED BY <3>1, <3>2 DEF LastIsServed
  <2>2. LastIsServed(u, e)
    BY <2>1 DEF LastIsServed, Of, Successes, HooksStay
  <2> QED BY <2>2 DEF Sync, LastDecides
<1> QED BY <1>2, <1>3, <1>5, <1>6 DEF Sync

\* A rolled back transaction leaves the store's view.
LEMMA RollbackView ==
    ASSUME IInv, View, NEW a \in Actors, Rollback(a), \A h \in Hooks : h # a => mem'[h] = mem[h]
    PROVE  View'
<1>1. CASE writer = a
  BY <1>1, StripeConstants DEF Rollback, View, Actors
<1>2. CASE writer # a
  BY <1>2 DEF Rollback, View
<1> QED BY <1>1, <1>2

-----------------------------------------------------------------------------
\* The steps of calls.

\* A call that writes nothing.
LEMMA ReadingCallKeepsSync ==
    ASSUME IInv, Sync, NEW c \in Calls, Others(c), UNCHANGED <<local, events, orderly>>, Grown,
           \A x \in offered' : x \in offered \/ customers'[x] # None
    PROVE  Sync'
<1>1. \A h \in Hooks : h \in Actors /\ h # c
  BY StripeConstants DEF Actors
<1>2. HooksStay
  BY <1>1 DEF Others, HooksStay, local
<1>3. View'
  BY <1>2 DEF Sync, View, HooksStay, local
<1>4. OfferedAreOwned'
  <2>1. offered \subseteq Customers
    BY DEF IInv, TypeOK
  <2> QED BY <2>1 DEF Sync, OfferedAreOwned, Grown
<1> QED BY <1>2, <1>3, <1>4, QuietKeepsSync DEF local

\* A call that ends without a commit.
LEMMA EndingCallKeepsSync ==
    ASSUME IInv, Sync, NEW c \in Calls, Others(c), Rollback(c), Grown,
           UNCHANGED <<events, orderly, offered>>
    PROVE  Sync'
<1>1. c \in Actors /\ \A h \in Hooks : h \in Actors /\ h # c
  BY StripeConstants DEF Actors
<1>2. HooksStay
  BY <1>1, RolledBack DEF Others, HooksStay
<1>3. View' /\ users' = users
  BY <1>1, <1>2, RollbackView DEF Sync, HooksStay, Rollback
<1>4. OfferedAreOwned'
  BY DEF Sync, OfferedAreOwned, Grown, IInv, TypeOK
<1> QED BY <1>2, <1>3, <1>4, QuietKeepsSync

\* A link changes no subscription: no other user has the customer.
LEMMA LinkKeepsSync ==
    ASSUME IInv, Sync, NEW c \in Calls, LinkCustomer(c) PROVE Sync'
<1>1. c \in Actors /\ c \notin Hooks /\ \A h \in Hooks : h \in Actors /\ h # c
  BY StripeConstants DEF Actors
<1>2. pc[c] = "link" /\ writer \in {None, c} /\ writer' = c
  BY DEF LinkCustomer, Granted
<1>3. mem[c].customer # None /\ customers[mem[c].customer] = mem[c].user
  BY <1>1, <1>2, Known DEF CustomerOf
<1>4. \A u \in Users : txn'[u].subscription = users[u].subscription
  <2>1. \A u \in Users : users[u].customer = mem[c].customer => u = mem[c].user
    BY <1>3 DEF IInv, Links, LinkOf
  <2>2. \A u \in Users : txn'[u] = IF u = mem[c].user
                                   THEN [users[u] EXCEPT !.customer = mem[c].customer] ELSE users[u]
    BY <2>1 DEF LinkCustomer
  <2>3. \A u \in Users : users[u] \in Row
    BY DEF IInv, TypeOK
  <2> QED BY <2>2, <2>3 DEF Row
<1>5. View'
  BY <1>1, <1>2, <1>4, StripeConstants DEF View, LinkCustomer
<1>6. HooksStay
  BY <1>1, <1>2, StripeConstants, Known DEF HooksStay, LinkCustomer, Goto, work, Steps
<1> QED
  BY <1>5, <1>6, QuietKeepsSync DEF LinkCustomer, remote, Grown, Sync, OfferedAreOwned

\* A call's commit publishes a link or nothing.
LEMMA CallCommitKeepsSync ==
    ASSUME IInv, Sync, NEW c \in Calls, Commit(c) PROVE Sync'
<1>1. c \in Actors /\ c \notin Hooks /\ \A h \in Hooks : h \in Actors /\ h # c
  BY StripeConstants DEF Actors
<1>2. \A u \in Users : users'[u].subscription = users[u].subscription
  BY <1>1 DEF Commit, Sync, View
<1>3. HooksStay
  BY <1>1, StripeConstants, Known DEF HooksStay, Commit, Goto, work, Steps
<1>4. View'
  <2>1. CASE writer = c
    BY <1>1, <2>1, StripeConstants DEF Commit, View
  <2>2. CASE writer # c
    BY <1>3, <2>2 DEF Commit, View, Sync, HooksStay
  <2> QED BY <2>1, <2>2
<1> QED
  BY <1>2, <1>3, <1>4, QuietKeepsSync DEF Commit, remote, Grown, Sync, OfferedAreOwned

\* A call's row takes the write lock, if the link has not.
LEMMA CallBookKeepsSync ==
    ASSUME IInv, Sync, NEW c \in Calls, Book(c) PROVE Sync'
<1>1. c \in Actors /\ c \notin Hooks /\ \A h \in Hooks : h \in Actors /\ h # c
  BY StripeConstants DEF Actors
<1>2. writer \in {None, c} /\ writer' = c
  BY DEF Book, Granted
<1>3. HooksStay
  BY <1>1, <1>2, StripeConstants, Known DEF HooksStay, Book, Goto, work, Steps
<1>4. View'
  BY <1>1, <1>2, StripeConstants DEF Book, View, Sync
<1> QED
  BY <1>3, <1>4, QuietKeepsSync DEF Book, remote, Grown, Sync, OfferedAreOwned

\* No step of a call touches a subscription.
LEMMA CallKeepsSync ==
    ASSUME IInv, Sync, NEW c \in Calls, Call(c) \/ Record(c) PROVE Sync'
<1>1. c \in Actors /\ c \notin Hooks /\ c \in Customers
  BY StripeConstants DEF Actors, Customers
<1>2. /\ mem \in [Actors -> Memory] /\ pc \in [Actors -> Steps] /\ DOMAIN job = Actors
      /\ DOMAIN result = Actors /\ CustomerOf(c) /\ StageOf(c)
  BY <1>1, Known DEF TypeOK
<1>3. CASE Begin(c) \/ FindCustomer(c) \/ OpenCheckout(c)
  <2>1. Others(c) /\ UNCHANGED <<local, remote, orderly>>
    BY <1>2, <1>3 DEF Begin, FindCustomer, OpenCheckout, Others, Goto, work
  <2> QED BY <2>1, ReadingCallKeepsSync DEF remote, Grown
<1>4. CASE CreateCustomer(c)
  <2>1. Others(c) /\ UNCHANGED <<local, events, offered, orderly>>
    BY <1>2, <1>4 DEF CreateCustomer, Others, Goto
  <2>2. Grown
    BY <1>1, <1>2, <1>4 DEF CreateCustomer, Created, CustomerOf, Grown, IInv, TypeOK
  <2> QED BY <2>1, <2>2, ReadingCallKeepsSync
<1>5. CASE Charge(c)
  <2>1. PICK i \in Intents : mem' = [mem EXCEPT ![c].intent = i.id]
    BY <1>5 DEF Charge
  <2>2. Others(c) /\ UNCHANGED <<local, events, offered, orderly, customers>>
    BY <1>2, <1>5, <2>1 DEF Charge, Others, Goto
  <2> QED BY <2>2, ReadingCallKeepsSync DEF Grown
<1>6. CASE Unsupported(c)
  <2>1. Others(c) /\ Rollback(c) /\ UNCHANGED <<remote, orderly>>
    BY <1>2, <1>6 DEF Unsupported, Others, Goto, Finish, work
  <2> QED BY <2>1, EndingCallKeepsSync DEF Grown, remote
<1>7. CASE RemoteFails(c)
  <2>1. Others(c) /\ Rollback(c) /\ UNCHANGED <<events, offered, orderly>>
    BY <1>2, <1>7 DEF RemoteFails, Others, Goto, Finish, work
  <2>2. Grown
    <3>1. customers' = customers \/ (pc[c] = "create" /\ Created(c))
      BY <1>7 DEF RemoteFails
    <3> QED BY <1>1, <1>2, <3>1 DEF Created, CustomerOf, Grown, IInv, TypeOK
  <2> QED BY <2>1, <2>2, EndingCallKeepsSync
<1>8. CASE Lookup(c)
  <2>1. Others(c) /\ UNCHANGED <<local, remote, orderly>>
    BY <1>1, <1>2, <1>8 DEF Lookup, Dirty, Others, Goto, local, work
  <2> QED BY <2>1, ReadingCallKeepsSync DEF remote, Grown
<1>9. CASE Reply(c)
  <2>1. Others(c) /\ UNCHANGED <<local, customers, events, orderly>> /\ pc[c] = "reply"
        /\ offered' \subseteq offered \cup {mem[c].customer}
    BY <1>2, <1>9 DEF Reply, Others, Goto, Finish, work
  <2>2. customers'[mem[c].customer] # None
    BY <1>1, <1>2, <2>1, StripeConstants DEF CustomerOf, StageOf
  <2> QED BY <2>1, <2>2, ReadingCallKeepsSync DEF Grown
<1>10. CASE Fail(c)
  <2>1. Others(c) /\ Rollback(c) /\ UNCHANGED <<remote, orderly>>
    BY <1>2, <1>10 DEF Fail, Others, Goto, Finish, work
  <2> QED BY <2>1, EndingCallKeepsSync DEF Grown, remote
<1> QED
  BY <1>3, <1>4, <1>5, <1>6, <1>7, <1>8, <1>9, <1>10, LinkKeepsSync, CallCommitKeepsSync,
     CallBookKeepsSync DEF Call, Record

-----------------------------------------------------------------------------
\* What happens at Stripe.

\* An event is the newest, of an owned customer, and names a subscription of
\* that customer or a new one.
LEMMA SentKeepsSync ==
    ASSUME IInv, Sync, NEW e \in Event, Sent(e), customers[e.customer] # None, Environment,
           \/ e.subscription \in {None, Cardinality(events) + 1}
           \/ \E f \in events : f.subscription = e.subscription /\ f.customer = e.customer
    PROVE  Sync'
<1>0. TypeOK
  BY DEF IInv
<1>1. /\ IsFiniteSet(events) /\ Cardinality(events) \in Nat
      /\ \A f \in events : f.n <= Cardinality(events) /\ f.n \in Nat
      /\ events' = events \cup {e} /\ e.n = Cardinality(events) + 1
      /\ e.customer \in Customers
  BY <1>0, FS_CardinalityType DEF Sync, EventsNumbered, Sent, TypeOK, Event, Subscriptions
<1>2. e \notin events
  BY <1>1
<1>3. IsFiniteSet(events') /\ Cardinality(events') = Cardinality(events) + 1
  BY <1>1, <1>2, FS_AddElement
<1>4. \A f \in events : f.subscription # None =>
        f.subscription \in Nat /\ f.subscription <= Cardinality(events)
  BY <1>0 DEF Sync, EventsNumbered, TypeOK, Event, Subscriptions
<1>5. UNCHANGED <<local, work, pc, result, orderly, customers, offered>>
  BY DEF Environment
<1>6. EventsNumbered'
  <2>1. ASSUME NEW f \in events'
        PROVE  /\ f.n <= Cardinality(events')
               /\ f.subscription # None => f.subscription <= Cardinality(events')
               /\ customers'[f.customer] # None
    <3>1. CASE f \in events
      BY <1>1, <1>3, <1>4, <1>5, <3>1 DEF Sync, EventsNumbered
    <3>2. CASE f = e
      <4>1. f.subscription # None => f.subscription <= Cardinality(events) + 1
        <5>1. \A g \in events : g.subscription # None =>
                g.subscription <= Cardinality(events) + 1
          BY <1>1, <1>4
        <5> QED BY <1>1, <3>2, <5>1
      <4> QED BY <1>1, <1>3, <1>5, <3>2, <4>1
    <3> QED BY <1>1, <3>1, <3>2
  <2>2. ASSUME NEW f \in events', NEW g \in events',
               f.subscription = g.subscription, f.subscription # None
        PROVE  f.customer = g.customer
    <3>1. \A a, b \in events : a.subscription = b.subscription /\ a.subscription # None
            => a.customer = b.customer
      BY DEF Sync, EventsNumbered
    <3>2. ASSUME NEW a \in events, a.subscription = e.subscription, e.subscription # None
          PROVE  a.customer = e.customer
      <4>1. e.subscription # Cardinality(events) + 1
        BY <1>1, <1>4, <3>2
      <4> QED BY <3>1, <3>2, <4>1
    <3> QED BY <1>1, <2>2, <3>1, <3>2
  <2>3. ASSUME NEW x \in Customers, Tells(x)' # {}
        PROVE  \E g \in Tells(x)' : \A f \in Tells(x)' : f.n <= g.n
    <3>1. Tells(x)' \subseteq Tells(x) \cup {e} /\ Tells(x) \subseteq Tells(x)'
      BY <1>1 DEF Tells, Of, TellsSubscription
    <3>2. \A f \in Tells(x) : f.n <= e.n
      BY <1>1 DEF Tells, Of
    <3>3. CASE e \in Tells(x)'
      BY <1>1, <3>1, <3>2, <3>3
    <3>4. CASE e \notin Tells(x)'
      BY <2>3, <3>1, <3>4 DEF Sync, EventsNumbered
    <3> QED BY <3>3, <3>4
  <2> QED BY <1>3, <2>1, <2>2, <2>3 DEF EventsNumbered
<1>7. Grown /\ events \subseteq events'
  BY <1>1, <1>5 DEF Grown
<1>8. SubscriptionsHeld'
  BY <1>5, <1>7, HeldStays DEF Sync, SubscriptionsHeld, local
<1>9. ASSUME NEW h \in Hooks PROVE HookOf(h)'
  <2>1. ASSUME NEW u, NEW t, Held(u, t)
        PROVE  t # None => \E f \in events' : f.subscription = t /\ customers'[f.customer] = u
    BY <1>7, <2>1, HeldStays DEF Held
  <2> QED BY <1>1, <1>5, <2>1, KnownHook DEF HookOf, Held, Serving, local, work, Assigned
<1>10. HooksInStep' /\ ServedInOrder' /\ View' /\ OfferedAreOwned'
  BY <1>5, <1>9 DEF Sync, HooksInStep, ServedInOrder, View, OfferedAreOwned, Serving, local, work
<1>11. LastDecides'
  <2> SUFFICES ASSUME orderly, NEW u \in Users, NEW f \in events', LastIsServed(u, f)'
               PROVE  users[u].subscription = Assigned(f, None)
    BY <1>5 DEF LastDecides, Assigned, local
  <2>1. PICK h \in Hooks : result[h] = "ok" /\ job[h] = f
    BY <1>5 DEF LastIsServed, Successes, work
  <2>2. f \in events
    BY <2>1, KnownHook DEF HookOf, StageOf
  <2>3. LastIsServed(u, f)
    BY <1>1, <1>5 DEF LastIsServed, Owned, Of, Successes, TellsSubscription, work
  <2> QED BY <2>2, <2>3 DEF Sync, LastDecides
<1> QED BY <1>6, <1>8, <1>10, <1>11 DEF Sync

\* An invoice or a cancellation is of the subscription an event told of last.
LEMMA ToldByAnEvent ==
    ASSUME IInv, Sync, NEW x \in Customers, AtStripe(x) # None
    PROVE  \E f \in events : f.customer = x /\ f.subscription = AtStripe(x)
<1>1. Tells(x) = {e \in Of(x) : e.type = "deleted" \/ e.subscription # None}
  BY DEF Tells, TellsSubscription
<1>2. Tells(x) # {} /\ AtStripe(x) = (CHOOSE e \in Tells(x) : \A f \in Tells(x) : f.n <= e.n).subscription
  BY <1>1 DEF AtStripe
<1>3. \E e \in Tells(x) : \A f \in Tells(x) : f.n <= e.n
  BY <1>2 DEF Sync, EventsNumbered
<1> QED BY <1>2, <1>3 DEF Tells, Of

\* Whatever happens at Stripe is an event of an owned customer.
LEMMA StripeKeepsSync ==
    ASSUME IInv, Sync, Stripe PROVE Sync'
<1>1. PICK x \in Customers : Pay(x) \/ Invoice(x) \/ Cancel(x) \/ Refund(x)
  BY DEF Stripe
<1>2. Cardinality(events) \in Nat
  BY FS_CardinalityType DEF Sync, EventsNumbered
<1>3. CASE Pay(x)
  <2>0. PICK t \in {None, Cardinality(events) + 1} :
            \E e \in [n : Subscriptions, type : {"checkout"}, customer : {x}, subscription : {t}] :
                Sent(e)
    BY <1>3 DEF Pay
  <2>1. PICK e \in [n : Subscriptions, type : {"checkout"}, customer : {x}, subscription : {t}] :
                Sent(e)
    BY <2>0
  <2>2. t = None \/ t \in Subscriptions
    BY <1>2, <2>0, <2>1, StripeConstants DEF Sent, Subscriptions
  <2>3. e \in Event /\ customers[e.customer] # None
    BY <1>3, <2>1, <2>2 DEF Pay, Event, Sync, OfferedAreOwned
  <2> QED BY <1>3, <2>1, <2>3, SentKeepsSync DEF Pay
<1>4. CASE Invoice(x)
  <2>1. PICK e \in [n : Subscriptions, type : {"paid", "failed"}, customer : {x},
                    subscription : {AtStripe(x)}] : Sent(e)
    BY <1>4 DEF Invoice
  <2>2. AtStripe(x) \in Subscriptions /\ AtStripe(x) # None
    BY <1>4, StripeConstants DEF Invoice
  <2>3. PICK f \in events : f.customer = x /\ f.subscription = AtStripe(x)
    BY <2>2, ToldByAnEvent
  <2>4. e \in Event /\ customers[e.customer] # None
    BY <2>1, <2>2, <2>3 DEF Event, Sync, EventsNumbered
  <2> QED BY <1>4, <2>1, <2>3, <2>4, SentKeepsSync DEF Invoice
<1>5. CASE Cancel(x)
  <2>1. PICK e \in [n : Subscriptions, type : {"deleted"}, customer : {x}, subscription : {None}] :
                Sent(e)
    BY <1>5 DEF Cancel
  <2>2. PICK f \in events : f.customer = x
    BY <1>5, ToldByAnEvent DEF Cancel
  <2>3. e \in Event /\ customers[e.customer] # None
    BY <2>1, <2>2 DEF Event, Sync, EventsNumbered
  <2> QED BY <1>5, <2>1, <2>3, SentKeepsSync DEF Cancel
<1>6. CASE Refund(x)
  <2>1. PICK e \in [n : Subscriptions, type : {"refunded"}, customer : {x}, subscription : {None}] :
                Sent(e)
    BY <1>6 DEF Refund
  <2>2. e \in Event /\ customers[e.customer] # None
    BY <1>6, <2>1 DEF Refund, Event, IInv, Charged, Intended
  <2> QED BY <1>6, <2>1, <2>2, SentKeepsSync DEF Refund
<1> QED BY <1>1, <1>3, <1>4, <1>5, <1>6

-----------------------------------------------------------------------------
\* The steps of a delivery.

\* A delivery's step touches its own state, the lock and the store, and no
\* other delivery is being served.
OnlyHook(h) ==
    /\ \A g \in Hooks : g # h =>
        /\ pc'[g] = pc[g] /\ job'[g] = job[g] /\ mem'[g] = mem[g] /\ result'[g] = result[g]
        /\ ~Serving(g)
    /\ UNCHANGED <<customers, events, offered>>

\* What is known of the other deliveries stays.
LEMMA OtherHooksStay ==
    ASSUME IInv, Sync, NEW h \in Hooks, OnlyHook(h), HookOf(h)'
    PROVE  EventsNumbered' /\ OfferedAreOwned' /\ HooksInStep' /\ \A g \in Hooks : Serving(g)' => g = h
<1>1. EventsNumbered' /\ OfferedAreOwned'
  BY DEF OnlyHook, Sync, EventsNumbered, OfferedAreOwned, Tells, Of
<1>2. ASSUME NEW g \in Hooks, g # h PROVE HookOf(g)' /\ ~Serving(g)'
  <2>1. HookOf(g) /\ pc[g] \in {"idle", "done"}
    BY <1>2, KnownHook DEF OnlyHook
  <2> QED BY <1>2, <2>1 DEF OnlyHook, HookOf, Serving, Held
<1> QED BY <1>1, <1>2 DEF HooksInStep

\* The answers that count stay.
LEMMA AnswersStay ==
    ASSUME IInv, Sync, NEW h \in Hooks, Serving(h), OnlyHook(h), UNCHANGED <<job, orderly>>,
           HookOf(h)', result'[h] \notin {"ok", "ignored"}
    PROVE  /\ ServedInOrder'
           /\ \A u \in Users, e \in events : LastIsServed(u, e)' <=> LastIsServed(u, e)
<1>1. result[h] = "pending"
  BY KnownHook DEF StageOf, Serving
<1>2. \A g \in Hooks, r \in {"ok", "ignored"} : result'[g] = r <=> result[g] = r
  BY <1>1 DEF OnlyHook
<1>3. ServedInOrder'
  <2>1. \A g \in Hooks : Serving(g)' => g = h
    BY OtherHooksStay
  <2> QED BY <1>2, <2>1 DEF Sync, ServedInOrder
<1>4. \A u \in Users, e \in events : LastIsServed(u, e)' <=> LastIsServed(u, e)
  BY <1>2 DEF LastIsServed, Owned, Of, Successes, OnlyHook
<1> QED BY <1>3, <1>4

\* A step of the delivery in service that changes no user's subscription.
LEMMA ServingKeepsSync ==
    ASSUME IInv, Sync, NEW h \in Hooks, Serving(h), OnlyHook(h), UNCHANGED <<job, orderly>>,
           HookOf(h)', result'[h] \notin {"ok", "ignored"}, View', users' = users
    PROVE  Sync'
<1>1. SubscriptionsHeld'
  BY DEF Sync, SubscriptionsHeld, Held, OnlyHook
<1>2. LastDecides'
  BY AnswersStay DEF Sync, LastDecides, OnlyHook
<1> QED BY <1>1, <1>2, AnswersStay, OtherHooksStay DEF Sync

\* An event is addressed to the owner of its customer.
LEMMA AddresseeOwns ==
    ASSUME IInv, Sync, NEW e \in events, NEW u \in Addressee(e)
    PROVE  u \in Users /\ customers[e.customer] = u
<1>1. e.customer \in Customers /\ e.customer # None
  BY StripeConstants DEF IInv, TypeOK, Event
<1>2. CASE u \in ByCustomer(e)
  BY <1>1, <1>2 DEF ByCustomer, IInv, Links, LinkOf
<1>3. CASE u \in BySubscription(e)
  <2>1. u \in Users /\ e.subscription # None /\ users[u].subscription = e.subscription
    BY <1>3 DEF BySubscription
  <2>2. PICK f \in events : f.subscription = e.subscription /\ customers[f.customer] = u
    BY <2>1 DEF Sync, SubscriptionsHeld, Held
  <2> QED BY <2>1, <2>2 DEF Sync, EventsNumbered
<1> QED BY <1>2, <1>3 DEF Addressee

\* A delivery takes up its event while no other is served.
LEMMA DeliverKeepsSync ==
    ASSUME IInv, Sync, NEW h \in Hooks, Deliver(h) PROVE Sync'
<1>0. PICK e \in events : \E u \in Addressee(e) :
        /\ Arrives(h, e)
        /\ mem' = [mem EXCEPT
            ![h].user = u, ![h].was = users[u].subscription,
            ![h].subscription = Assigned(e, users[u].subscription)]
  BY DEF Deliver
<1>1. PICK u \in Addressee(e) :
        /\ Arrives(h, e)
        /\ mem' = [mem EXCEPT
            ![h].user = u, ![h].was = users[u].subscription,
            ![h].subscription = Assigned(e, users[u].subscription)]
  BY <1>0
<1>2. /\ pc[h] = "idle" /\ pc' = [pc EXCEPT ![h] = "lookup"] /\ job' = [job EXCEPT ![h] = e]
      /\ UNCHANGED <<local, remote, result>> /\ (orderly' => orderly /\ InOrder(e))
      /\ \A g \in Hooks : ~InProgress(g)
  BY <1>1 DEF Deliver, Arrives, Goto
<1>3. /\ h \in Actors /\ mem \in [Actors -> Memory] /\ pc \in [Actors -> Steps]
      /\ DOMAIN job = Actors /\ result[h] = "pending" /\ writer # h
  BY <1>2, KnownHook, Known DEF StageOf, LockOf
<1>4. /\ job'[h] = e /\ pc'[h] = "lookup" /\ mem'[h].user = u
      /\ mem'[h].was = users[u].subscription
      /\ mem'[h].subscription = Assigned(e, users[u].subscription)
  <2>1. mem'[h] = [mem[h] EXCEPT !.user = u, !.was = users[u].subscription,
                                 !.subscription = Assigned(e, users[u].subscription)]
    BY <1>1, <1>3
  <2>2. mem[h] \in Memory
    BY <1>3
  <2> QED BY <1>2, <1>3, <2>1, <2>2 DEF Memory
<1>5. u \in Users /\ customers[e.customer] = u /\ u # None
  BY AddresseeOwns, StripeConstants
<1>6. OnlyHook(h)
  <2>1. \A g \in Hooks : g \in Actors /\ ~Serving(g)
    BY <1>2, KnownHook DEF InProgress, Serving
  <2> QED BY <1>1, <1>2, <1>3, <2>1 DEF OnlyHook, remote
<1>7. Held(u, Assigned(e, users[u].subscription))
  BY <1>5 DEF Held, Assigned, Sync, SubscriptionsHeld
<1>8. HookOf(h)'
  BY <1>2, <1>3, <1>4, <1>5, <1>7 DEF HookOf, Serving, Held, Assigned, local, remote
<1>9. View'
  BY <1>2, <1>3, <1>6 DEF Sync, View, OnlyHook, local
<1>10. ServedInOrder'
  <2> SUFFICES ASSUME orderly', NEW g \in Hooks, result[g] \in {"ok", "ignored"}
               PROVE  job'[g].n < e.n
    BY <1>2, <1>4, <1>6, <1>8, OtherHooksStay DEF ServedInOrder
  <2>1. g # h
    BY <1>3
  <2>2. job[g] \in {job[k] : k \in {k \in Hooks : result[k] \in {"ok", "ignored"}}}
    OBVIOUS
  <2> QED BY <1>2, <1>6, <2>1, <2>2 DEF InOrder, OnlyHook
<1>11. LastDecides'
  <2> SUFFICES ASSUME orderly, NEW v \in Users, NEW f \in events, LastIsServed(v, f)'
               PROVE  users[v].subscription = Assigned(f, None)
    BY <1>2 DEF LastDecides, Assigned, local, remote
  <2>1. LastIsServed(v, f)
    BY <1>2, <1>3, <1>6 DEF LastIsServed, Owned, Of, Successes, OnlyHook, remote
  <2> QED BY <2>1 DEF Sync, LastDecides
<1>12. SubscriptionsHeld'
  BY <1>2 DEF Sync, SubscriptionsHeld, Held, local, remote
<1> QED BY <1>6, <1>8, <1>9, <1>10, <1>11, <1>12, OtherHooksStay DEF Sync

\* A delivery that concerns nobody changes nothing.
LEMMA IgnoreKeepsSync ==
    ASSUME IInv, Sync, NEW h \in Hooks, Ignore(h) PROVE Sync'
<1>1. PICK e \in events : Arrives(h, e)
  BY DEF Ignore
<1>2. /\ pc[h] = "idle" /\ pc' = [pc EXCEPT ![h] = "done"] /\ job' = [job EXCEPT ![h] = e]
      /\ result' = [result EXCEPT ![h] = "ignored"]
      /\ UNCHANGED <<local, remote, mem>> /\ (orderly' => orderly)
      /\ \A g \in Hooks : ~InProgress(g)
  BY <1>1 DEF Ignore, Arrives, Finish, Goto
<1>3. /\ h \in Actors /\ pc \in [Actors -> Steps] /\ DOMAIN job = Actors
      /\ DOMAIN result = Actors /\ result[h] = "pending" /\ HookOf(h)
  BY <1>2, KnownHook, Known DEF StageOf, TypeOK
<1>4. OnlyHook(h)
  <2>1. \A g \in Hooks : g \in Actors /\ ~Serving(g)
    BY <1>2, KnownHook DEF InProgress, Serving
  <2> QED BY <1>2, <1>3, <2>1 DEF OnlyHook, remote
<1>5. HookOf(h)' /\ ~Serving(h)'
  <2>1. mem'[h].user = None
    BY <1>2, <1>3 DEF HookOf
  <2>2. pc'[h] = "done" /\ job'[h] \in events' /\ result'[h] = "ignored"
    BY <1>2, <1>3 DEF remote
  <2> QED BY <2>1, <2>2 DEF HookOf, Serving
<1>6. View' /\ SubscriptionsHeld'
  BY <1>2 DEF Sync, View, SubscriptionsHeld, Held, local, remote
<1>7. ServedInOrder'
  BY <1>4, <1>5, OtherHooksStay DEF ServedInOrder
<1>8. LastDecides'
  <2> SUFFICES ASSUME orderly, NEW v \in Users, NEW f \in events, LastIsServed(v, f)'
               PROVE  users[v].subscription = Assigned(f, None)
    BY <1>2 DEF LastDecides, Assigned, local, remote
  <2>1. LastIsServed(v, f)
    BY <1>2, <1>3, <1>4 DEF LastIsServed, Owned, Of, Successes, OnlyHook, remote
  <2> QED BY <2>1 DEF Sync, LastDecides
<1> QED BY <1>4, <1>5, <1>6, <1>7, <1>8, OtherHooksStay DEF Sync

\* A delivery in service: what its steps may touch.
LEMMA RecordOfHook ==
    ASSUME IInv, Sync, NEW h \in Hooks, Lookup(h) \/ Book(h) \/ Commit(h) \/ Reply(h) \/ Fail(h)
    PROVE  /\ h \in Actors /\ Serving(h) /\ HookOf(h) /\ StageOf(h) /\ mem[h].user \in Users
           /\ OnlyHook(h) /\ UNCHANGED <<job, mem, orderly>>
<1>1. /\ h \in Actors /\ h \notin Calls /\ Serving(h) /\ HookOf(h) /\ StageOf(h) /\ mem[h].user \in Users
      /\ pc \in [Actors -> Steps] /\ DOMAIN result = Actors
  <2>1. ~(pc[h] \in {"idle", "done"}) /\ h \notin Calls
    BY StripeConstants DEF Lookup, Book, Commit, Reply, Fail, CannotWrite
  <2> QED BY <2>1, KnownHook, Known DEF TypeOK
<1>2. UNCHANGED <<job, mem, orderly, customers, events, offered>>
  BY <1>1 DEF Lookup, Book, Commit, Reply, Fail, remote, work
<1>3. ASSUME NEW g \in Hooks, g # h PROVE pc'[g] = pc[g] /\ result'[g] = result[g]
  <2>1. g \in Actors
    BY DEF Actors
  <2>2. CASE Lookup(h) \/ Book(h) \/ Commit(h)
    BY <1>1, <1>3, <2>1, <2>2 DEF Lookup, Book, Commit, Goto
  <2>3. CASE Reply(h) \/ Fail(h)
    BY <1>1, <1>3, <2>1, <2>3 DEF Reply, Fail, Finish, Goto
  <2> QED BY <2>2, <2>3
<1>4. \A g \in Hooks : g # h => ~Serving(g)
  BY <1>1 DEF Sync, HooksInStep
<1> QED BY <1>1, <1>2, <1>3, <1>4 DEF OnlyHook

\* The look-up writes what the delivery computed into its own transaction.
LEMMA LookupKeepsSync ==
    ASSUME IInv, Sync, NEW h \in Hooks, Lookup(h) PROVE Sync'
<1>1. /\ h \in Actors /\ Serving(h) /\ HookOf(h) /\ StageOf(h) /\ mem[h].user \in Users
      /\ OnlyHook(h) /\ UNCHANGED <<job, mem, orderly>>
  BY RecordOfHook
<1>2. /\ pc[h] = "lookup" /\ UNCHANGED <<users, result, remote>> /\ pc \in [Actors -> Steps]
      /\ pc'[h] \in {"book", "commit"} /\ result[h] = "pending"
      /\ h # None /\ users \in [Users -> Row]
  BY <1>1, Known, StripeConstants DEF Lookup, Goto, StageOf, TypeOK, Actors
<1>3. CASE Dirty(h)
  <2>1. writer' = h /\ txn' = [users EXCEPT ![mem[h].user].subscription = mem[h].subscription]
    BY <1>3 DEF Lookup
  <2>2. HookOf(h)'
    BY <1>1, <1>2, <2>1 DEF HookOf, Serving, Held, remote, OnlyHook
  <2>3. View'
    <3>1. \A u \in Users : txn'[u].subscription =
            IF u = mem[h].user THEN mem[h].subscription ELSE users[u].subscription
      BY <1>1, <1>2, <2>1 DEF Row
    <3> QED BY <1>1, <1>2, <2>1, <3>1 DEF View
  <2> QED BY <1>1, <1>2, <2>2, <2>3, ServingKeepsSync
<1>4. CASE ~Dirty(h)
  <2>1. UNCHANGED <<writer, txn>> /\ mem[h].subscription = mem[h].was
    BY <1>4 DEF Lookup, Dirty
  <2>2. HookOf(h)'
    BY <1>1, <1>2, <2>1 DEF HookOf, Serving, Held, remote, OnlyHook
  <2>3. View'
    BY <1>1, <1>2, <2>1 DEF Sync, View
  <2> QED BY <1>1, <1>2, <2>2, <2>3, ServingKeepsSync
<1> QED BY <1>3, <1>4

\* A row takes the write lock, unless the look-up has it.
LEMMA BookKeepsSync ==
    ASSUME IInv, Sync, NEW h \in Hooks, Book(h) PROVE Sync'
<1>1. /\ h \in Actors /\ Serving(h) /\ HookOf(h) /\ StageOf(h) /\ mem[h].user \in Users
      /\ OnlyHook(h) /\ UNCHANGED <<job, mem, orderly>>
  BY RecordOfHook
<1>2. /\ pc[h] = "book" /\ UNCHANGED <<users, txn, result, remote>> /\ pc \in [Actors -> Steps]
      /\ pc'[h] = "booked" /\ result[h] = "pending" /\ h # None
      /\ writer \in {None, h} /\ writer' = h
  BY <1>1, Known, StripeConstants DEF Book, Goto, StageOf, Actors, Granted
<1>3. HookOf(h)'
  BY <1>1, <1>2 DEF HookOf, Serving, Held, remote, OnlyHook
<1>4. View'
  <2>1. CASE writer = h
    BY <1>1, <1>2, <2>1 DEF Sync, View
  <2>2. CASE writer = None
    <3>1. mem[h].subscription = users[mem[h].user].subscription
      BY <1>2, <1>1, <2>2 DEF HookOf, Serving
    <3>2. txn' = users'
      BY <1>2, <2>2 DEF Sync, View
    <3> QED BY <1>1, <1>2, <3>1, <3>2 DEF View
  <2> QED BY <1>2, <2>1, <2>2
<1> QED BY <1>1, <1>2, <1>3, <1>4, ServingKeepsSync

\* A commit publishes the subscription the event assigned.  No later event of
\* the customer has been answered, so none was to decide.
LEMMA CommitKeepsSync ==
    ASSUME IInv, Sync, NEW h \in Hooks, Commit(h) PROVE Sync'
<1> DEFINE v == mem[h].user
<1>1. /\ h \in Actors /\ Serving(h) /\ HookOf(h) /\ StageOf(h) /\ v \in Users /\ v # None
      /\ OnlyHook(h) /\ UNCHANGED <<job, mem, orderly>>
  BY RecordOfHook, StripeConstants
<1>2. /\ pc[h] \in {"commit", "booked"} /\ UNCHANGED <<txn, result, remote>>
      /\ pc \in [Actors -> Steps] /\ pc'[h] = "reply" /\ result[h] = "pending"
      /\ users' = IF writer = h THEN txn ELSE users
      /\ writer' = IF writer = h THEN None ELSE writer
      /\ None \notin Hooks
  BY <1>1, Known, StripeConstants DEF Commit, Goto, StageOf, Actors
<1>3. \A u \in Users : users'[u].subscription =
        IF u = v THEN mem[h].subscription ELSE users[u].subscription
  <2>1. CASE writer = h
    BY <1>2, <2>1 DEF Sync, View
  <2>2. CASE writer # h
    BY <1>1, <1>2, <2>2 DEF HookOf, Serving
  <2> QED BY <2>1, <2>2
<1>4. HookOf(h)'
  BY <1>1, <1>2, <1>3 DEF HookOf, Serving, Held, remote
<1>5. View'
  <2>1. CASE writer = h
    BY <1>2, <2>1 DEF View
  <2>2. CASE writer # h
    BY <1>1, <1>2, <2>2 DEF Sync, View
  <2> QED BY <2>1, <2>2
<1>6. SubscriptionsHeld'
  <2>1. Held(v, mem[h].subscription) /\ \A u \in Users : Held(u, users[u].subscription)
    BY <1>1 DEF HookOf, Sync, SubscriptionsHeld
  <2> QED BY <1>2, <1>3, <2>1 DEF SubscriptionsHeld, Held, remote
<1>7. LastDecides'
  <2> SUFFICES ASSUME orderly, NEW u \in Users, NEW e \in events, LastIsServed(u, e)'
               PROVE  users'[u].subscription = Assigned(e, None)
    BY <1>1, <1>2 DEF LastDecides, Assigned, remote
  <2>1. LastIsServed(u, e)
    BY <1>1, <1>2, <1>4, AnswersStay
  <2>2. u # v
    <3> SUFFICES ASSUME u = v PROVE FALSE
      OBVIOUS
    <3>1. job[h] \in events /\ job[h] \in Event /\ customers[job[h].customer] = u
      BY <1>1, <1>2, KnownHook DEF HookOf
    <3>2. job[h].customer = e.customer
      BY <2>1, <3>1 DEF LastIsServed, Owned, Event
    <3>3. job[h].n <= e.n
      BY <2>1, <3>1, <3>2 DEF LastIsServed, Of
    <3>4. PICK g \in Hooks : result[g] = "ok" /\ job[g] = e
      BY <2>1 DEF LastIsServed, Successes
    <3>5. e.n < job[h].n
      BY <1>1, <3>4 DEF Sync, ServedInOrder
    <3>6. e.n \in Nat /\ job[h].n \in Nat
      BY <3>1 DEF IInv, TypeOK, Event, Subscriptions
    <3> QED BY <3>3, <3>5, <3>6
  <2> QED BY <1>3, <2>1, <2>2 DEF Sync, LastDecides
<1> QED BY <1>1, <1>2, <1>4, <1>5, <1>6, <1>7, AnswersStay, OtherHooksStay DEF Sync

\* An answer makes its event the last one served.
LEMMA ReplyKeepsSync ==
    ASSUME IInv, Sync, NEW h \in Hooks, Reply(h) PROVE Sync'
<1>1. /\ h \in Actors /\ Serving(h) /\ HookOf(h) /\ StageOf(h) /\ mem[h].user \in Users
      /\ OnlyHook(h) /\ UNCHANGED <<job, mem, orderly>> /\ DOMAIN result = Actors
  BY RecordOfHook, Known DEF TypeOK
<1>2. /\ pc[h] = "reply" /\ UNCHANGED local /\ pc \in [Actors -> Steps]
      /\ pc'[h] = "done" /\ result'[h] = "ok"
  BY <1>1, Known DEF Reply, Finish, Goto
<1>3. HookOf(h)' /\ ~Serving(h)'
  BY <1>1, <1>2, StripeConstants DEF HookOf, Serving, Held, OnlyHook
<1>4. View' /\ SubscriptionsHeld'
  BY <1>1, <1>2 DEF Sync, View, SubscriptionsHeld, Held, local, OnlyHook
<1>5. ServedInOrder'
  BY <1>1, <1>3, OtherHooksStay DEF ServedInOrder
<1>6. LastDecides'
  <2> SUFFICES ASSUME orderly, NEW u \in Users, NEW e \in events, LastIsServed(u, e)'
               PROVE  users[u].subscription = Assigned(e, None)
    BY <1>1, <1>2 DEF LastDecides, Assigned, local, OnlyHook
  <2>1. /\ Owned(u) = {e.customer} /\ \A f \in Of(e.customer) : f.n <= e.n
        /\ TellsSubscription(e)
    BY <1>1 DEF LastIsServed, Owned, Of, OnlyHook
  <2>2. PICK g \in Hooks : result'[g] = "ok" /\ job[g] = e
    BY <1>1 DEF LastIsServed, Successes
  <2>3. CASE g # h
    <3>1. result[g] = "ok"
      BY <1>1, <2>2, <2>3 DEF OnlyHook
    <3>2. LastIsServed(u, e)
      BY <2>1, <2>2, <3>1 DEF LastIsServed, Successes
    <3> QED BY <3>2 DEF Sync, LastDecides
  <2>4. CASE g = h
    <3>1. /\ customers[e.customer] = mem[h].user
          /\ users[mem[h].user].subscription = mem[h].subscription
          /\ mem[h].subscription = Assigned(e, mem[h].was)
      BY <1>1, <1>2, <2>2, <2>4, StripeConstants DEF HookOf
    <3>2. u = mem[h].user
      BY <2>1, <3>1 DEF Owned
    <3> QED BY <2>1, <3>1, <3>2 DEF Assigned, TellsSubscription
  <2> QED BY <2>3, <2>4
<1> QED BY <1>1, <1>3, <1>4, <1>5, <1>6, OtherHooksStay DEF Sync

\* A delivery that cannot write leaves the store's view.
LEMMA FailKeepsSync ==
    ASSUME IInv, Sync, NEW h \in Hooks, Fail(h) PROVE Sync'
<1>1. /\ h \in Actors /\ Serving(h) /\ HookOf(h) /\ StageOf(h) /\ mem[h].user \in Users
      /\ OnlyHook(h) /\ UNCHANGED <<job, mem, orderly>> /\ DOMAIN result = Actors
  BY RecordOfHook, Known DEF TypeOK
<1>2. /\ UNCHANGED <<users, remote>> /\ Rollback(h) /\ pc \in [Actors -> Steps]
      /\ pc'[h] = "done" /\ result'[h] = "failed"
  BY <1>1, Known DEF Fail, Rollback, Finish, Goto
<1>3. HookOf(h)'
  BY <1>1, <1>2 DEF HookOf, Serving, Held, OnlyHook
<1>4. View'
  BY <1>1, <1>2, RollbackView DEF Sync
<1> QED BY <1>1, <1>2, <1>3, <1>4, ServingKeepsSync

\* The death of the server ends every delivery; none of them counts as answered.
LEMMA CrashKeepsSync ==
    ASSUME IInv, Sync, Crash PROVE Sync'
<1>1. /\ UNCHANGED <<users, ledger, remote, work, orderly>> /\ writer' = None /\ txn' = users
      /\ pc' = [a \in Actors |-> IF InProgress(a) THEN "done" ELSE pc[a]]
      /\ result' = [a \in Actors |-> IF InProgress(a) THEN "lost" ELSE result[a]]
  BY DEF Crash
<1>2. ASSUME NEW h \in Hooks
      PROVE  /\ pc'[h] \in {"idle", "done"} /\ (pc'[h] = "idle" <=> pc[h] = "idle")
             /\ result'[h] = "ok" => result[h] = "ok"
  <2>1. h \in Actors
    BY DEF Actors
  <2> QED BY <1>1, <2>1, KnownHook DEF InProgress
<1>3. EventsNumbered' /\ OfferedAreOwned' /\ SubscriptionsHeld'
  BY <1>1 DEF remote, Sync, EventsNumbered, OfferedAreOwned, SubscriptionsHeld, Held, Tells, Of
<1>4. \A h \in Hooks : HookOf(h)' /\ ~Serving(h)'
  BY <1>1, <1>2, KnownHook DEF HookOf, Serving, Held, remote, work
<1>5. HooksInStep' /\ ServedInOrder'
  BY <1>4 DEF HooksInStep, ServedInOrder
<1>6. View'
  BY <1>1, StripeConstants DEF View, Actors
<1>7. LastDecides'
  <2> SUFFICES ASSUME orderly, NEW u \in Users, NEW e \in events, LastIsServed(u, e)'
               PROVE  users[u].subscription = Assigned(e, None)
    BY <1>1 DEF LastDecides, Assigned, remote
  <2>1. LastIsServed(u, e)
    BY <1>1, <1>2 DEF LastIsServed, Owned, Of, Successes, remote, work
  <2> QED BY <2>1 DEF Sync, LastDecides
<1> QED BY <1>3, <1>5, <1>6, <1>7 DEF Sync

-----------------------------------------------------------------------------
\* At first nothing has been sent, and only owned customers have a card.
LEMMA SyncInitially == Init => Sync
<1> SUFFICES ASSUME Init PROVE Sync
  OBVIOUS
<1>1. /\ events = {} /\ txn = users /\ writer = None /\ result = [a \in Actors |-> "pending"]
      /\ offered = {x \in Existing : customers[x] # None} /\ pc = [a \in Actors |-> "idle"]
      /\ \A u \in Users : users[u].subscription = None
      /\ mem = [a \in Actors |-> [user |-> None, customer |-> None, was |-> None,
                                  subscription |-> None, intent |-> None]]
  BY DEF Init
<1>2. EventsNumbered /\ OfferedAreOwned /\ SubscriptionsHeld
  BY <1>1, FS_EmptySet DEF EventsNumbered, OfferedAreOwned, SubscriptionsHeld, Held, Tells, Of
<1>3. \A h \in Hooks : h \in Actors /\ HookOf(h) /\ ~Serving(h)
  BY <1>1 DEF Actors, HookOf, Serving
<1>4. HooksInStep /\ ServedInOrder
  BY <1>3 DEF HooksInStep, ServedInOrder
<1>5. View
  BY <1>1, StripeConstants DEF View, Actors
<1>6. LastDecides
  BY <1>1 DEF LastDecides
<1> QED BY <1>2, <1>4, <1>5, <1>6 DEF Sync

\* Every step keeps events and subscriptions in step.
LEMMA SyncKept == IInv /\ Sync /\ [Next]_vars => Sync'
<1> SUFFICES ASSUME IInv, Sync, [Next]_vars PROVE Sync'
  OBVIOUS
<1>1. CASE UNCHANGED vars
  BY <1>1 DEF vars, local, work, remote, Sync, EventsNumbered, OfferedAreOwned, SubscriptionsHeld,
     HooksInStep, View, ServedInOrder, LastDecides, HookOf, Held, Serving, Tells, Of, LastIsServed,
     Owned, Successes
<1>2. ASSUME NEW h \in Hooks, Hook(h) PROVE Sync'
  BY <1>2, DeliverKeepsSync, IgnoreKeepsSync DEF Hook
<1>3. ASSUME NEW a \in Actors, Record(a) PROVE Sync'
  <2>1. CASE a \in Calls
    BY <1>3, <2>1, CallKeepsSync
  <2>2. CASE a \in Hooks
    BY <1>3, <2>2, LookupKeepsSync, BookKeepsSync, CommitKeepsSync, ReplyKeepsSync, FailKeepsSync
       DEF Record
  <2> QED BY <2>1, <2>2 DEF Actors
<1> QED BY <1>1, <1>2, <1>3, StripeKeepsSync, CrashKeepsSync, CallKeepsSync DEF Next

\* Served once each in the order sent, whatever crashes or comes again, the
\* events leave every user with the subscription the last one speaks of.
THEOREM InOrderEventsDecide == Spec => []InOrderInSync
<1>1. Sync => InOrderInSync
  BY DEF Sync, LastDecides, LastIsServed, InOrderInSync, Latest
<1> QED BY <1>1, SyncInitially, SyncKept, Inductive, PTL DEF Spec
====
