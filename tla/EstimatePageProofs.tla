---- MODULE EstimatePageProofs ----
(***************************************************************************)
(* Theorems about EstimatePage, for any lines, groups and values and any   *)
(* number of requests at the same time.                                    *)
(***************************************************************************)
EXTENDS EstimatePage, SequenceTheorems, FiniteSetTheorems, TLAPS

-----------------------------------------------------------------------------
(* The page catches up.  A performed request is answered, which asks for    *)
(* the lines again, or the page is not told of it; an answer to that        *)
(* question that left the server before is dropped.                         *)

\* A request has a phase; only those of the pending bulk move await the others.
RequestOf(s) ==
    /\ DOMAIN requests[s] = DOMAIN Free
    /\ requests[s].phase = "answered" => s \in bulk
    /\ s \in bulk => requests[s].op = "regroup" /\ requests[s].phase # "free"

\* The server has performed a request and its answer is still to be taken.
Unanswered == \E s \in Slots : requests[s].phase \in {"performed", "answered"}

\* Nothing was performed that is neither shown, nor on its way, nor asked for.
Catching ==
    ~unseen /\ ~Unanswered =>
        /\ fetch.phase = "idle" => view = server
        /\ fetch.phase = "answered" => fetch.lines = server

PageInv ==
    /\ DOMAIN requests = Slots /\ bulk \subseteq Slots
    /\ \A s \in Slots : RequestOf(s)
    /\ Catching

\* At first the page shows the given lines and nothing is under way.
LEMMA PageInitially == Init => PageInv
<1> SUFFICES ASSUME Init PROVE PageInv
  OBVIOUS
<1>1. /\ requests = [s \in Slots |-> Free] /\ bulk = {} /\ view = server
      /\ fetch.phase = "idle"
  BY DEF Init, Idle
<1>2. Free.phase = "free"
  BY DEF Free
<1> QED BY <1>1, <1>2 DEF PageInv, RequestOf, Catching

\* A request of the user is one more that is not yet performed.
LEMMA SendKeeps ==
    ASSUME PageInv, NEW s \in Unused, NEW r, \E o : Send(s, r, o),
           DOMAIN r = DOMAIN Free, r.phase = "sent", bulk' = bulk
    PROVE  PageInv'
<1>1. /\ requests' = [requests EXCEPT ![s] = r] /\ UNCHANGED <<server, view, fetch, unseen>>
      /\ s \in Slots /\ requests[s].phase = "free"
  BY DEF Send, Judge, page, Unused
<1>2. \A t \in Slots : RequestOf(t)'
  BY <1>1 DEF PageInv, RequestOf
<1>3. Unanswered' <=> Unanswered
  BY <1>1 DEF PageInv, Unanswered
<1> QED BY <1>1, <1>2, <1>3 DEF PageInv, Catching

\* So is each request of a bulk move.
LEMMA MoveSelectedKeeps ==
    ASSUME PageInv, NEW ids, NEW g, MoveSelected(ids, g) PROVE PageInv'
<1>1. PICK to \in [ids -> Unused] :
        /\ requests' = [s \in Slots |->
                IF \E id \in ids : to[id] = s
                THEN [Free EXCEPT !.op = "regroup", !.phase = "sent", !.group = g,
                                  !.id = CHOOSE id \in ids : to[id] = s]
                ELSE requests[s]]
        /\ bulk' = {to[id] : id \in ids}
  BY DEF MoveSelected
<1>2. /\ \A id \in ids : to[id] \in Slots /\ requests[to[id]].phase = "free"
      /\ UNCHANGED <<server, view, fetch, unseen>> /\ bulk = {}
  BY <1>1 DEF MoveSelected, Judge, page, Unused
<1>3. ASSUME NEW s \in Slots
      PROVE  /\ RequestOf(s)'
             /\ requests'[s].phase \in {"performed", "answered"}
                <=> requests[s].phase \in {"performed", "answered"}
  <2>1. CASE \E id \in ids : to[id] = s
    <3>1. requests'[s] = [Free EXCEPT !.op = "regroup", !.phase = "sent", !.group = g,
                                  !.id = CHOOSE id \in ids : to[id] = s]
      BY <1>1, <2>1
    <3>2. /\ requests'[s].phase = "sent" /\ requests'[s].op = "regroup"
          /\ DOMAIN requests'[s] = DOMAIN Free
      BY <3>1 DEF Free
    <3> QED BY <1>2, <2>1, <3>2 DEF RequestOf
  <2>2. CASE ~\E id \in ids : to[id] = s
    <3>1. requests'[s] = requests[s] /\ s \notin bulk'
      BY <1>1, <2>2
    <3> QED BY <1>2, <3>1 DEF RequestOf, PageInv
  <2> QED BY <2>1, <2>2
<1>4. Unanswered' <=> Unanswered
  BY <1>3 DEF Unanswered
<1>5. DOMAIN requests' = Slots /\ bulk' \subseteq Slots
  BY <1>1, <1>2
<1> QED BY <1>2, <1>3, <1>4, <1>5 DEF PageInv, Catching

\* What the user does leaves what is shown and asked for.
LEMMA UserKeeps == ASSUME PageInv, UserActs PROVE PageInv'
<1> USE DEF forms
<1>1. ASSUME NEW s \in Unused, NEW id, Delete(s, id) PROVE PageInv'
  <2> DEFINE r == [Free EXCEPT !.op = "delete", !.phase = "sent", !.id = id]
  <2>1. (\E o : Send(s, r, o)) /\ bulk' = bulk
    BY <1>1 DEF Delete
  <2>2. DOMAIN r = DOMAIN Free /\ r.phase = "sent"
    BY DEF Free
  <2> HIDE DEF r
  <2> QED BY <2>1, <2>2, SendKeeps
<1>2. ASSUME NEW s \in Unused, NEW id, NEW other, NEW down, Move(s, id, other, down)
      PROVE  PageInv'
  <2> DEFINE to == IndexOf(other)
             r == [Free EXCEPT !.op = "move", !.phase = "sent", !.id = id, !.to = to]
  <2>1. (\E o : Send(s, r, o)) /\ bulk' = bulk
    BY <1>2 DEF Move
  <2> HIDE DEF to
  <2>2. DOMAIN r = DOMAIN Free /\ r.phase = "sent"
    BY DEF Free
  <2> HIDE DEF r
  <2> QED BY <2>1, <2>2, SendKeeps
<1>3. ASSUME NEW s \in Unused, NEW g, NEW v,
             Save(s, g, v) \/ Add(s, g, v)
      PROVE  PageInv'
  <2>1. CASE Save(s, g, v)
    <3> DEFINE r == [Free EXCEPT !.op = "edit", !.phase = "sent", !.id = editor.id,
                            !.group = OrUndefined(g), !.value = OrUndefined(v)]
    <3>1. (\E o : Send(s, r, o)) /\ bulk' = bulk
      BY <2>1 DEF Save
    <3>2. DOMAIN r = DOMAIN Free /\ r.phase = "sent"
      BY DEF Free
    <3> HIDE DEF r
    <3> QED BY <3>1, <3>2, SendKeeps
  <2>2. CASE Add(s, g, v)
    <3> DEFINE r == [Free EXCEPT !.op = "add", !.phase = "sent",
                                              !.group = g, !.value = v]
    <3>1. (\E o : Send(s, r, o)) /\ bulk' = bulk
      BY <2>2 DEF Add
    <3>2. DOMAIN r = DOMAIN Free /\ r.phase = "sent"
      BY DEF Free
    <3> HIDE DEF r
    <3> QED BY <3>1, <3>2, SendKeeps
  <2> QED BY <1>3, <2>1, <2>2
<1>4. ASSUME CloseEditor \/ \E id : OpenEditor(id) PROVE PageInv'
  BY <1>4 DEF CloseEditor, OpenEditor, page,
     history, PageInv, RequestOf, Catching, Unanswered
<1> QED BY <1>1, <1>2, <1>3, <1>4, MoveSelectedKeeps DEF UserActs

\* A performed request is unanswered; an answer to the page has every one performed.
LEMMA ServerKeeps == ASSUME PageInv, ServerActs PROVE PageInv'
<1>1. CASE ServeFetch
  BY <1>1 DEF ServeFetch, forms, history,
     PageInv, RequestOf, Catching, Unanswered
<1>2. ASSUME NEW s \in Slots, Perform(s) PROVE PageInv'
  <2>1. /\ requests[s].phase = "sent" /\ requests' = [requests EXCEPT ![s].phase = "performed"]
        /\ UNCHANGED bulk
    BY <1>2 DEF Perform, forms
  <2>2. /\ requests'[s].phase = "performed" /\ requests'[s].op = requests[s].op
        /\ DOMAIN requests'[s] = DOMAIN requests[s]
    BY <2>1 DEF PageInv, RequestOf, Free
  <2>3. \A t \in Slots : RequestOf(t)'
    BY <2>1, <2>2 DEF PageInv, RequestOf
  <2>4. Unanswered'
    BY <2>2 DEF Unanswered
  <2> QED BY <2>1, <2>3, <2>4 DEF PageInv, Catching
<1> QED BY <1>1, <1>2 DEF ServerActs

\* An answer to a performed request asks for the lines again, or is never seen.
LEMMA AnswersKeep == ASSUME PageInv, Answers PROVE PageInv'
<1> USE DEF Free
<1>1. CASE FetchOk \/ FetchFails
  <2>1. /\ UNCHANGED <<requests, bulk, server>> /\ fetch'.phase = "idle"
        /\ (Unanswered' <=> Unanswered)
    BY <1>1 DEF FetchOk, FetchFails, Idle,
       forms, Unanswered
  <2>2. CASE FetchOk
    <3>1. /\ fetch.phase = "answered" /\ view' = fetch.lines
          /\ unseen' = (unseen /\ view' # server)
      BY <2>2 DEF FetchOk
    <3>2. ~unseen' /\ ~Unanswered => view' = server
      BY <3>1 DEF PageInv, Catching
    <3> QED BY <2>1, <3>2 DEF PageInv, RequestOf, Catching
  <2>3. CASE FetchFails
    <3>1. unseen'
      BY <2>3 DEF FetchFails
    <3> QED BY <2>1, <3>1 DEF PageInv, RequestOf, Catching
  <2> QED BY <1>1, <2>2, <2>3
<1>2. CASE BulkSucceed
  <2>1. /\ requests' = [s \in Slots |-> IF s \in bulk THEN Free ELSE requests[s]]
        /\ bulk' = {} /\ fetch'.phase = "asked"
    BY <1>2 DEF BulkSucceed, Refetch, Asked
  <2>2. \A t \in Slots : RequestOf(t)'
    BY <2>1 DEF PageInv, RequestOf
  <2> QED BY <2>1, <2>2 DEF PageInv, Catching
<1>3. ASSUME NEW s \in Slots, Succeed(s) PROVE PageInv'
  <2>1. /\ requests' = [requests EXCEPT ![s] = Free]
        /\ UNCHANGED bulk /\ fetch'.phase = "asked" /\ requests[s].op # "regroup"
    BY <1>3 DEF Succeed, Refetch, Asked
  <2>2. \A t \in Slots : RequestOf(t)'
    BY <2>1 DEF PageInv, RequestOf
  <2> QED BY <2>1, <2>2 DEF PageInv, Catching
<1>4. ASSUME NEW s \in Slots, Fail(s) \/ Unheeded(s) PROVE PageInv'
  <2>1. /\ requests' = [requests EXCEPT ![s] = Free]
        /\ UNCHANGED <<bulk, server, view, fetch>> /\ requests[s].op # "regroup"
        /\ unseen' = (unseen \/ requests[s].phase = "performed")
    BY <1>4 DEF Fail, Unheeded, page, forms
  <2>2. \A t \in Slots : RequestOf(t)'
    BY <2>1 DEF PageInv, RequestOf
  <2>3. ~unseen' /\ ~Unanswered' => ~unseen /\ ~Unanswered
    BY <2>1 DEF PageInv, RequestOf, Unanswered
  <2> QED BY <2>1, <2>2, <2>3 DEF PageInv, Catching
<1>5. ASSUME NEW s \in Slots, BulkAnswer(s) PROVE PageInv'
  <2>1. /\ requests' = [requests EXCEPT ![s].phase = "answered"] /\ s \in bulk /\ UNCHANGED bulk
    BY <1>5 DEF BulkAnswer, forms
  <2>2. /\ requests'[s].phase = "answered" /\ requests'[s].op = requests[s].op
        /\ DOMAIN requests'[s] = DOMAIN requests[s]
    BY <2>1 DEF PageInv, RequestOf
  <2>3. \A t \in Slots : RequestOf(t)'
    BY <2>1, <2>2 DEF PageInv, RequestOf
  <2>4. Unanswered'
    BY <2>2 DEF Unanswered
  <2> QED BY <2>1, <2>3, <2>4 DEF PageInv, Catching
<1>6. ASSUME NEW s \in Slots, BulkFail(s) PROVE PageInv'
  <2>1. /\ requests' = [t \in Slots |->
            IF t = s \/ (t \in bulk /\ requests[t].phase = "answered") THEN Free
            ELSE IF t \in bulk THEN [requests[t] EXCEPT !.op = "loose"] ELSE requests[t]]
        /\ bulk' = {} /\ s \in bulk /\ UNCHANGED <<server, view, fetch>>
        /\ unseen' = (unseen \/ \E t \in bulk : requests[t].phase # "sent" \/ t # s)
    BY <1>6 DEF BulkFail, page
  <2>2. ASSUME NEW t \in Slots PROVE RequestOf(t)'
    <3>1. CASE t = s \/ (t \in bulk /\ requests[t].phase = "answered")
      BY <2>1, <3>1 DEF RequestOf
    <3>2. CASE ~(t = s \/ (t \in bulk /\ requests[t].phase = "answered")) /\ t \in bulk
      <4>1. requests'[t] = [requests[t] EXCEPT !.op = "loose"]
        BY <2>1, <3>2
      <4>2. requests'[t].phase = requests[t].phase /\ DOMAIN requests'[t] = DOMAIN requests[t]
        BY <4>1 DEF PageInv, RequestOf
      <4> QED BY <2>1, <3>2, <4>2 DEF PageInv, RequestOf
    <3>3. CASE t # s /\ t \notin bulk
      BY <2>1, <3>3 DEF PageInv, RequestOf
    <3> QED BY <3>1, <3>2, <3>3
  <2>3. ASSUME ~unseen', ~Unanswered' PROVE ~unseen /\ ~Unanswered
    <3>1. ~unseen /\ \A t \in bulk : t = s /\ requests[t].phase = "sent"
      BY <2>1, <2>3
    <3>2. \A t \in Slots : t # s => requests'[t] = requests[t]
      BY <2>1, <3>1
    <3> QED BY <2>1, <2>3, <3>1, <3>2 DEF Unanswered
  <2> QED BY <2>1, <2>2, <2>3 DEF PageInv, Catching
<1> QED BY <1>1, <1>2, <1>3, <1>4, <1>5, <1>6 DEF Answers

\* Every step keeps the page catching up.
LEMMA PageKept == PageInv /\ [Next]_vars => PageInv'
<1> SUFFICES ASSUME PageInv, [Next]_vars PROVE PageInv'
  OBVIOUS
<1>1. CASE OtherWriter
  BY <1>1 DEF OtherWriter, forms, PageInv, RequestOf, Catching
<1>2. CASE UNCHANGED vars
  BY <1>2 DEF vars, page, forms, history,
     PageInv, RequestOf, Catching, Unanswered
<1> QED BY <1>1, <1>2, UserKeeps, ServerKeeps, AnswersKeep DEF Next

\* However hasty the user is, and in whatever order requests are performed,
\* answered and overtaken, a page at rest shows what the server has, unless a
\* change was made of which no answer told it.
THEOREM PageCatchesUp == Spec => []ViewCatchesUp
<1>1. PageInv => ViewCatchesUp
  <2> SUFFICES ASSUME PageInv, AtRest, ~unseen PROVE view = server
    BY DEF ViewCatchesUp
  <2>1. fetch.phase = "idle" /\ ~Unanswered
    BY DEF AtRest, Idle, Unused, Unanswered
  <2> QED BY <2>1 DEF PageInv, Catching
<1> QED BY <1>1, PageInitially, PageKept, PTL DEF Spec

-----------------------------------------------------------------------------
(* Types.  No line is twice in an estimate, so that its id tells its place  *)
(* and no list is longer than the lines ever made.                          *)

NoRepeats(q) == \A i, j \in DOMAIN q : q[i].id = q[j].id => i = j

Proper(q) == q \in Seq(Line) /\ NoRepeats(q)

\* A request has what its operation is made with.
Operands(r) ==
    /\ r.op = "none" <=> r.phase = "free"
    /\ r.op = "move" => r.to \in 1..MaxLines
    /\ r.op = "add" => r.group \in Groups /\ r.value \in Values
    /\ r.op = "regroup" => r.group \in Groups /\ r.value = None

RequestType ==
    [op : {"none", "move", "edit", "add", "delete", "regroup", "loose"},
     id : Ids \cup {None}, to : 0..MaxLines, group : Groups \cup {None},
     value : Values \cup {None}, phase : {"free", "sent", "performed", "answered"}]

Kept ==
    /\ TypeOK
    /\ fetch.phase = "answered" => Proper(fetch.lines)
    /\ NoRepeats(server) /\ NoRepeats(view)
    /\ \A i \in DOMAIN server : server[i].id \in 1..made
    /\ \A s \in Slots :
        /\ Operands(requests[s])
        /\ requests[s].phase = "answered" => s \in bulk
        /\ requests[s].op = "regroup" <=> s \in bulk

-----------------------------------------------------------------------------
(* What the user is promised.  It is decided when the page is at rest and   *)
(* current, so that nothing else is under way until it is shown.            *)

\* What a request makes of the lines q, when n lines were made before.
Outcome(q, n, r) ==
    CASE r.op = "move" -> Moved(q, r.id, r.to)
      [] r.op \in {"edit", "regroup", "loose"} -> Edited(q, r.id, r.group, r.value)
      [] r.op = "delete" -> Without(q, r.id)
      [] r.op = "add" -> Append(q, [id |-> n + 1, group |-> r.group, value |-> r.value])

\* No request is under way, and the lists are as expected or will be shown so.
Delivered ==
    /\ \A s \in Slots : requests[s].phase = "free"
    /\ SameLists(server, expected)
    /\ fetch.phase = "idle" => view = server
    /\ fetch.phase = "answered" => fetch.lines = server

\* One request is under way, and it does what is expected, or has done it.
UnderWay(s) ==
    /\ \A t \in Slots : t # s => requests[t].phase = "free"
    /\ requests[s].op \in {"move", "edit", "add", "delete"}
    /\ fetch = Idle /\ bulk = {}
    /\ \/ requests[s].phase = "sent" /\ SameLists(Outcome(server, made, requests[s]), expected)
       \/ requests[s].phase = "performed" /\ SameLists(server, expected)

\* The selected lines are being moved, and those that are not are the only
\* ones whose group is not as expected.
Regrouping ==
    /\ fetch = Idle /\ bulk # {}
    /\ \A s \in Slots \ bulk : requests[s].phase = "free"
    /\ \A s, t \in bulk : requests[s].id = requests[t].id => s = t
    /\ DOMAIN expected = DOMAIN server
    /\ \A i \in DOMAIN server :
        LET waiting == {s \in bulk : requests[s].phase = "sent" /\ requests[s].id = server[i].id}
        IN  /\ expected[i].id = server[i].id /\ expected[i].value = server[i].value
            /\ waiting = {} => expected[i].group = server[i].group
            /\ \A s \in waiting : expected[i].group = requests[s].group

Promise == expected # None => Delivered \/ Regrouping \/ \E s \in Slots : UnderWay(s)

-----------------------------------------------------------------------------
(* What the server makes of the lines.                                      *)

\* An id tells its place.
LEMMA Found ==
    ASSUME NEW q, Proper(q)
    PROVE  /\ Len(q) \in Nat /\ DOMAIN q = 1..Len(q)
           /\ \A i \in DOMAIN q : q[i] \in Line /\ q[i].id \in IdsOf(q) /\ At(q, q[i].id) = i
           /\ \A id \in IdsOf(q) : At(q, id) \in DOMAIN q /\ q[At(q, id)].id = id
<1>1. Len(q) \in Nat /\ DOMAIN q = 1..Len(q) /\ \A i \in DOMAIN q : q[i] \in Line
  BY DEF Proper
<1>2. \A id \in IdsOf(q) : At(q, id) \in DOMAIN q /\ q[At(q, id)].id = id
  BY DEF IdsOf, At
<1>3. ASSUME NEW i \in DOMAIN q PROVE q[i].id \in IdsOf(q) /\ At(q, q[i].id) = i
  BY <1>2 DEF IdsOf, Proper, NoRepeats
<1> QED BY <1>1, <1>2, <1>3

\* What is before and after the place that is taken out.
LEMMA Removed ==
    ASSUME NEW S, NEW q \in Seq(S), NEW a \in 1..Len(q)
    PROVE  /\ RemoveAt(q, a) \in Seq(S) /\ Len(RemoveAt(q, a)) = Len(q) - 1
           /\ \A j \in 1..Len(q) - 1 : RemoveAt(q, a)[j] = IF j < a THEN q[j] ELSE q[j + 1]
<1> DEFINE x == SubSeq(q, 1, a - 1)  y == SubSeq(q, a + 1, Len(q))
<1>1. Len(q) \in Nat /\ \A i \in 1..Len(q) : q[i] \in S
  BY ElementOfSeq, LenProperties
<1>2. x \in Seq(S) /\ Len(x) = a - 1 /\ \A i \in 1..a - 1 : x[i] = q[i]
  <2>1. \A i \in 1..a - 1 : q[i] \in S
    BY <1>1
  <2>2. 1 \in Int /\ a - 1 \in Int
    BY <1>1
  <2>3. /\ x \in Seq(S) /\ Len(x) = IF 1 <= a - 1 THEN (a - 1) - 1 + 1 ELSE 0
        /\ \A i \in 1..(a - 1) - 1 + 1 : x[i] = q[1 + i - 1]
    BY <2>1, <2>2, SubSeqProperties
  <2> HIDE DEF x
  <2> QED BY <1>1, <2>3
<1>3. y \in Seq(S) /\ Len(y) = Len(q) - a /\ \A i \in 1..Len(q) - a : y[i] = q[a + i]
  <2>1. \A i \in a + 1..Len(q) : q[i] \in S
    BY <1>1
  <2>2. a + 1 \in Int /\ Len(q) \in Int
    BY <1>1
  <2>3. /\ y \in Seq(S) /\ Len(y) = IF a + 1 <= Len(q) THEN Len(q) - (a + 1) + 1 ELSE 0
        /\ \A i \in 1..Len(q) - (a + 1) + 1 : y[i] = q[a + 1 + i - 1]
    BY <2>1, <2>2, SubSeqProperties
  <2> HIDE DEF y
  <2>4. \A i \in 1..Len(q) - a : i \in 1..Len(q) - (a + 1) + 1 /\ a + 1 + i - 1 = a + i
    BY <1>1
  <2>5. \A i \in 1..Len(q) - a : y[i] = q[a + i]
    BY <2>3, <2>4
  <2> QED BY <1>1, <2>3, <2>5
<1> HIDE DEF x, y
<1>4. /\ x \o y \in Seq(S) /\ Len(x \o y) = Len(x) + Len(y)
      /\ \A i \in 1..Len(x) + Len(y) : (x \o y)[i] = IF i <= Len(x) THEN x[i] ELSE y[i - Len(x)]
  BY <1>2, <1>3, ConcatProperties
<1>5. ASSUME NEW j \in 1..Len(q) - 1
      PROVE  (x \o y)[j] = IF j < a THEN q[j] ELSE q[j + 1]
  <2>1. (x \o y)[j] = IF j <= a - 1 THEN x[j] ELSE y[j - (a - 1)]
    BY <1>1, <1>2, <1>3, <1>4
  <2>2. CASE j < a
    BY <1>1, <1>2, <2>1, <2>2
  <2>3. CASE ~(j < a)
    <3>1. j - (a - 1) \in 1..Len(q) - a /\ a + (j - (a - 1)) = j + 1
      BY <1>1, <2>3
    <3>2. (x \o y)[j] = y[j - (a - 1)]
      BY <1>1, <2>1, <2>3
    <3> QED BY <1>3, <2>3, <3>1, <3>2
  <2> QED BY <2>2, <2>3
<1>6. RemoveAt(q, a) = x \o y
  BY DEF RemoveAt, x, y
<1>7. Len(x) + Len(y) = Len(q) - 1
  BY <1>1, <1>2, <1>3
<1> QED BY <1>4, <1>5, <1>6, <1>7, Zenon

\* What is put in moves the rest up.
LEMMA Inserted ==
    ASSUME NEW S, NEW q \in Seq(S), NEW t \in 1..Len(q) + 1, NEW e \in S
    PROVE  /\ InsertAt(q, t, e) \in Seq(S) /\ Len(InsertAt(q, t, e)) = Len(q) + 1
           /\ \A j \in 1..Len(q) + 1 : InsertAt(q, t, e)[j] =
                IF j = t THEN e ELSE q[IF j < t THEN j ELSE j - 1]
<1> DEFINE x == SubSeq(q, 1, t - 1)  y == SubSeq(q, t, Len(q))
<1>1. Len(q) \in Nat /\ \A i \in 1..Len(q) : q[i] \in S
  BY ElementOfSeq, LenProperties
<1>2. x \in Seq(S) /\ Len(x) = t - 1 /\ \A i \in 1..t - 1 : x[i] = q[i]
  <2>1. \A i \in 1..t - 1 : q[i] \in S
    BY <1>1
  <2>2. 1 \in Int /\ t - 1 \in Int
    BY <1>1
  <2>3. /\ x \in Seq(S) /\ Len(x) = IF 1 <= t - 1 THEN (t - 1) - 1 + 1 ELSE 0
        /\ \A i \in 1..(t - 1) - 1 + 1 : x[i] = q[1 + i - 1]
    BY <2>1, <2>2, SubSeqProperties
  <2> HIDE DEF x
  <2> QED BY <1>1, <2>3
<1>3. y \in Seq(S) /\ Len(y) = Len(q) + 1 - t /\ \A i \in 1..Len(q) + 1 - t : y[i] = q[t + i - 1]
  <2>1. \A i \in t..Len(q) : q[i] \in S
    BY <1>1
  <2>2. t \in Int /\ Len(q) \in Int
    BY <1>1
  <2>3. /\ y \in Seq(S) /\ Len(y) = IF t <= Len(q) THEN Len(q) - t + 1 ELSE 0
        /\ \A i \in 1..Len(q) - t + 1 : y[i] = q[t + i - 1]
    BY <2>1, <2>2, SubSeqProperties
  <2> HIDE DEF y
  <2> QED BY <1>1, <2>3
<1> HIDE DEF x, y
<1>4. <<e>> \in Seq(S) /\ Len(<<e>>) = 1 /\ <<e>>[1] = e
  OBVIOUS
<1> DEFINE z == x \o <<e>>
<1>5. /\ z \in Seq(S) /\ Len(z) = Len(x) + 1
      /\ \A i \in 1..Len(x) + 1 : z[i] = IF i <= Len(x) THEN x[i] ELSE <<e>>[i - Len(x)]
  <2>1. /\ z \in Seq(S) /\ Len(z) = Len(x) + Len(<<e>>)
        /\ \A i \in 1..Len(x) + Len(<<e>>) :
            z[i] = IF i <= Len(x) THEN x[i] ELSE <<e>>[i - Len(x)]
    BY <1>2, <1>4, ConcatProperties
  <2> QED BY <1>4, <2>1
<1> HIDE DEF z
<1>6. /\ z \o y \in Seq(S) /\ Len(z \o y) = Len(z) + Len(y)
      /\ \A i \in 1..Len(z) + Len(y) : (z \o y)[i] = IF i <= Len(z) THEN z[i] ELSE y[i - Len(z)]
  BY <1>3, <1>5, ConcatProperties
<1>7. ASSUME NEW j \in 1..Len(q) + 1
      PROVE  (z \o y)[j] = IF j = t THEN e ELSE q[IF j < t THEN j ELSE j - 1]
  <2>1. (z \o y)[j] = IF j <= t THEN z[j] ELSE y[j - t]
    BY <1>1, <1>2, <1>3, <1>5, <1>6
  <2>2. CASE j < t
    <3>1. (z \o y)[j] = x[j] /\ j \in 1..t - 1
      BY <1>1, <1>2, <1>5, <2>1, <2>2
    <3> QED BY <1>2, <2>2, <3>1
  <2>3. CASE j = t
    <3>1. j - Len(x) = 1 /\ j \in 1..Len(x) + 1 /\ ~(j <= Len(x)) /\ j <= t
      BY <1>1, <1>2, <2>3
    <3>2. z[j] = <<e>>[1]
      <4>1. z[j] = IF j <= Len(x) THEN x[j] ELSE <<e>>[j - Len(x)]
        BY <1>5, <3>1
      <4> QED BY <3>1, <4>1
    <3>3. (z \o y)[j] = z[j]
      BY <2>1, <3>1
    <3> QED BY <1>4, <2>3, <3>2, <3>3
  <2>4. CASE j > t
    <3>1. j - t \in 1..Len(q) + 1 - t /\ t + (j - t) - 1 = j - 1
      BY <1>1, <2>4
    <3>2. (z \o y)[j] = y[j - t]
      BY <2>1, <2>4
    <3> QED BY <1>3, <2>4, <3>1, <3>2
  <2>5. j < t \/ j = t \/ j > t
    BY <1>1
  <2> QED BY <2>2, <2>3, <2>4, <2>5, Zenon
<1>8. InsertAt(q, t, e) = z \o y
  BY DEF InsertAt, x, y, z
<1> QED BY <1>1, <1>2, <1>3, <1>5, <1>6, <1>7, <1>8

\* A deletion closes the gap.
LEMMA WithoutIs ==
    ASSUME NEW q, Proper(q), NEW id \in IdsOf(q)
    PROVE  /\ Proper(Without(q, id)) /\ Len(Without(q, id)) = Len(q) - 1
           /\ \A j \in 1..Len(q) - 1 :
                Without(q, id)[j] = IF j < At(q, id) THEN q[j] ELSE q[j + 1]
<1> DEFINE a == At(q, id)  w == Without(q, id)
<1>1. q \in Seq(Line) /\ Len(q) \in Nat /\ DOMAIN q = 1..Len(q) /\ a \in 1..Len(q) /\ NoRepeats(q)
  BY Found DEF Proper
<1>2. w = RemoveAt(q, a)
  BY DEF Without
<1> HIDE DEF a, w
<1>3. w \in Seq(Line) /\ Len(w) = Len(q) - 1
  BY <1>1, <1>2, Removed
<1>4. \A j \in 1..Len(q) - 1 : w[j] = IF j < a THEN q[j] ELSE q[j + 1]
  BY <1>1, <1>2, Removed
<1>5. NoRepeats(w)
  <2> SUFFICES ASSUME NEW i \in 1..Len(q) - 1, NEW j \in 1..Len(q) - 1, w[i].id = w[j].id
               PROVE  i = j
    BY <1>3 DEF NoRepeats
  <2> DEFINE from(k) == IF k < a THEN k ELSE k + 1
  <2>1. w[i] = q[from(i)] /\ w[j] = q[from(j)]
    BY <1>4
  <2>2. from(i) \in DOMAIN q /\ from(j) \in DOMAIN q
    BY <1>1
  <2>3. from(i) = from(j)
    BY <1>1, <2>1, <2>2 DEF NoRepeats
  <2> QED BY <1>1, <2>3
<1> QED BY <1>3, <1>4, <1>5 DEF a, w, Proper

\* The place where a line was that a reorder puts at j.
CameFrom(a, t, j) ==
    IF j = t THEN a
    ELSE LET k == IF j < t THEN j ELSE j - 1 IN IF k < a THEN k ELSE k + 1

\* A reorder takes the line out and puts it in at its index, or last.
LEMMA MovedIs ==
    ASSUME NEW q, Proper(q), NEW id \in IdsOf(q), NEW to \in Nat \ {0}
    PROVE  LET t == IF to > Len(q) THEN Len(q) ELSE to
           IN  /\ Proper(Moved(q, id, to)) /\ Len(Moved(q, id, to)) = Len(q)
               /\ \A j \in 1..Len(q) :
                    /\ CameFrom(At(q, id), t, j) \in 1..Len(q)
                    /\ Moved(q, id, to)[j] = q[CameFrom(At(q, id), t, j)]
<1> DEFINE a == At(q, id)  w == Without(q, id)  m == Moved(q, id, to)
           t == IF to > Len(q) THEN Len(q) ELSE to
<1>1. /\ q \in Seq(Line) /\ Len(q) \in Nat /\ DOMAIN q = 1..Len(q)
      /\ a \in 1..Len(q) /\ NoRepeats(q) /\ q[a] \in Line
  BY Found DEF Proper
<1>2. m = InsertAt(w, t, q[a])
  BY DEF Moved
<1>3. /\ w \in Seq(Line) /\ Len(w) = Len(q) - 1
      /\ \A j \in 1..Len(q) - 1 : w[j] = IF j < a THEN q[j] ELSE q[j + 1]
  BY WithoutIs DEF Proper
<1>4. t \in 1..Len(q) /\ Len(w) + 1 = Len(q)
  BY <1>1, <1>3
<1> HIDE DEF a, w, m, t
<1>5. m \in Seq(Line) /\ Len(m) = Len(q)
  BY <1>1, <1>2, <1>3, <1>4, Inserted
<1>6. \A j \in 1..Len(q) : m[j] = IF j = t THEN q[a] ELSE w[IF j < t THEN j ELSE j - 1]
  <2>1. w \in Seq(Line) /\ t \in 1..Len(w) + 1 /\ q[a] \in Line
    BY <1>1, <1>3, <1>4
  <2>2. \A j \in 1..Len(w) + 1 : InsertAt(w, t, q[a])[j] =
                IF j = t THEN q[a] ELSE w[IF j < t THEN j ELSE j - 1]
    BY <2>1, Inserted
  <2> QED BY <1>2, <1>4, <2>2
<1>7. ASSUME NEW j \in 1..Len(q)
      PROVE  CameFrom(a, t, j) \in 1..Len(q) /\ m[j] = q[CameFrom(a, t, j)]
  BY <1>1, <1>3, <1>4, <1>6 DEF CameFrom
<1>8. NoRepeats(m)
  <2> SUFFICES ASSUME NEW i \in 1..Len(q), NEW j \in 1..Len(q), m[i].id = m[j].id
               PROVE  i = j
    BY <1>5 DEF NoRepeats
  <2>1. CameFrom(a, t, i) = CameFrom(a, t, j)
    BY <1>1, <1>7 DEF NoRepeats
  <2> QED BY <1>1, <1>4, <2>1 DEF CameFrom
<1> QED BY <1>5, <1>7, <1>8 DEF a, m, t, Proper

\* An edit leaves every line in its place.
LEMMA EditedIs ==
    ASSUME NEW q, Proper(q), NEW id, NEW g \in Groups \cup {None}, NEW v \in Values \cup {None}
    PROVE  /\ Proper(Edited(q, id, g, v)) /\ DOMAIN Edited(q, id, g, v) = DOMAIN q
           /\ \A i \in DOMAIN q : Edited(q, id, g, v)[i].id = q[i].id
<1> DEFINE e == Edited(q, id, g, v)
<1>1. Len(q) \in Nat /\ DOMAIN q = 1..Len(q) /\ \A i \in 1..Len(q) : q[i] \in Line
  BY Found
<1>2. /\ DOMAIN e = 1..Len(q)
      /\ \A i \in 1..Len(q) : e[i] = IF q[i].id # id THEN q[i]
            ELSE [id |-> id, group |-> IF g = None THEN q[i].group ELSE g,
                  value |-> IF v = None THEN q[i].value ELSE v]
  BY <1>1 DEF Edited
<1>3. \A i \in 1..Len(q) : e[i] \in Line /\ e[i].id = q[i].id
  BY <1>1, <1>2 DEF Line
<1>4. e = [i \in 1..Len(q) |-> e[i]]
  BY <1>1 DEF Edited
<1> HIDE DEF e
<1>5. e \in Seq(Line)
  BY <1>1, <1>3, <1>4
<1> QED BY <1>1, <1>2, <1>3, <1>5 DEF Proper, NoRepeats, e

\* The place where a line was that an exchange of a and b puts at k.
Exchanged(a, b, k) == IF k = a THEN b ELSE IF k = b THEN a ELSE k

\* An exchange leaves every line but the two in its place.
LEMMA SwappedIs ==
    ASSUME NEW q, Proper(q), NEW x \in IdsOf(q), NEW y \in IdsOf(q)
    PROVE  /\ Swapped(q, x, y) \in Seq(Line) /\ DOMAIN Swapped(q, x, y) = DOMAIN q
           /\ \A k \in DOMAIN q : Swapped(q, x, y)[k] =
                q[Exchanged(At(q, x), At(q, y), k)]
<1> DEFINE a == At(q, x)  b == At(q, y)  w == Swapped(q, x, y)
<1>1. /\ q \in Seq(Line) /\ Len(q) \in Nat /\ DOMAIN q = 1..Len(q)
      /\ a \in 1..Len(q) /\ b \in 1..Len(q) /\ q[a] \in Line /\ q[b] \in Line
  BY Found DEF Proper
<1>2. w = [q EXCEPT ![a] = q[b], ![b] = q[a]]
  BY DEF Swapped
<1> HIDE DEF a, b, w
<1>3. w \in Seq(Line) /\ DOMAIN w = DOMAIN q
  BY <1>1, <1>2
<1>4. \A k \in DOMAIN q : w[k] = q[Exchanged(a, b, k)]
  BY <1>1, <1>2 DEF Exchanged
<1> QED BY <1>3, <1>4 DEF a, b, w

\* Lists that are the same lines in the same order show the same.
LEMMA SameAsItself == ASSUME NEW q, Proper(q) PROVE SameLists(q, q)
<1>1. Len(q) \in Nat /\ DOMAIN q = 1..Len(q)
  BY Found
<1>2. \A i, k \in DOMAIN q : q[i] = q[k] => i = k
  BY DEF Proper, NoRepeats
<1> QED BY <1>1, <1>2 DEF SameLists

\* Neither place is between a and b if the other is one of them.
Apart(a, b, x, y) ==
    /\ x \in {a, b} => ~(a < y /\ y < b) /\ ~(b < y /\ y < a)
    /\ y \in {a, b} => ~(a < x /\ x < b) /\ ~(b < x /\ x < a)

\* The arithmetic of a move: of two places in one group, the order after taking
\* a line out at a and putting it in at b is that after exchanging a and b, if
\* what lies between belongs to other groups.
LEMMA MoveIsExchange ==
    ASSUME NEW n \in Nat, NEW a \in 1..n, NEW b \in 1..n, a # b,
           NEW i \in 1..n, NEW j \in 1..n, i < j, NEW k \in 1..n, NEW l \in 1..n,
           CameFrom(a, b, i) = Exchanged(a, b, k), CameFrom(a, b, j) = Exchanged(a, b, l),
           Apart(a, b, CameFrom(a, b, i), CameFrom(a, b, j))
    PROVE  k < l
<1> DEFINE x == CameFrom(a, b, i)  y == CameFrom(a, b, j)
<1>0. /\ x \in 1..n /\ y \in 1..n /\ Apart(a, b, x, y)
      /\ x = Exchanged(a, b, k) /\ y = Exchanged(a, b, l)
  BY DEF CameFrom
<1>1. x # y
  BY DEF CameFrom
<1>2. CASE x = a
  BY <1>0, <1>1, <1>2 DEF CameFrom, Exchanged, Apart
<1>3. CASE y = a
  BY <1>0, <1>1, <1>3 DEF CameFrom, Exchanged, Apart
<1>4. CASE x # a /\ y # a
  <2>1. x < y
    BY <1>4 DEF CameFrom
  <2> HIDE DEF x, y
  <2>2. k = IF x = b THEN a ELSE x
    BY <1>0, <1>4 DEF Exchanged
  <2>3. l = IF y = b THEN a ELSE y
    BY <1>0, <1>4 DEF Exchanged
  <2>4. CASE x = b
    BY <1>0, <1>4, <2>1, <2>2, <2>3, <2>4 DEF Apart
  <2>5. CASE y = b
    BY <1>0, <1>4, <2>1, <2>2, <2>3, <2>5 DEF Apart
  <2> QED BY <1>4, <2>1, <2>2, <2>3, <2>4, <2>5
<1> QED BY <1>2, <1>3, <1>4

\* The buttons that move a line up and down send the place that its neighbour
\* in the group has among all lines: that exchanges the two in the group's list
\* and leaves all other lists as they are.
LEMMA MoveSwaps ==
    ASSUME Proper(view), NEW id \in IdsOf(view), NEW other \in IdsOf(view), NEW down \in BOOLEAN,
           IsNeighbour(At(view, id), At(view, other), down)
    PROVE  SameLists(Moved(view, id, IndexOf(other)), Swapped(view, id, other))
<1> DEFINE a == At(view, id)  b == At(view, other)  n == Len(view)
           m == Moved(view, id, IndexOf(other))  w == Swapped(view, id, other)
<1>1. n \in Nat /\ DOMAIN view = 1..n /\ a \in 1..n /\ b \in 1..n
  BY Found
<1>2. /\ a # b /\ view[a].group = view[b].group
      /\ \A k \in 1..n : (a < k /\ k < b) \/ (b < k /\ k < a) => view[a].group # view[k].group
  BY <1>1 DEF IsNeighbour, Together
<1>3. /\ DOMAIN m = 1..n
      /\ \A j \in 1..n : CameFrom(a, b, j) \in 1..n /\ m[j] = view[CameFrom(a, b, j)]
  <2>1. b \in Nat \ {0} /\ IndexOf(other) = b /\ (IF b > n THEN n ELSE b) = b
    BY <1>1 DEF IndexOf
  <2>2. /\ Proper(m) /\ Len(m) = n
        /\ \A j \in 1..n : CameFrom(a, b, j) \in 1..n /\ m[j] = view[CameFrom(a, b, j)]
    BY <2>1, MovedIs
  <2> QED BY <2>2, Found
<1>4. DOMAIN w = 1..n /\ \A k \in 1..n : w[k] = view[Exchanged(a, b, k)]
  BY <1>1, SwappedIs
<1>5. \A x, y \in 1..n : view[x] = view[y] => x = y
  BY <1>1 DEF Proper, NoRepeats
<1> HIDE DEF a, b, n, m, w
<1>6. Range(m) = Range(w)
  <2>1. \A i \in 1..n : \E j \in 1..n : CameFrom(a, b, j) = i
    <3> TAKE i \in 1..n
    <3>1. CameFrom(b, a, i) \in 1..n /\ CameFrom(a, b, CameFrom(b, a, i)) = i
      BY <1>1 DEF CameFrom
    <3> QED BY <3>1
  <2>2. \A k \in 1..n : Exchanged(a, b, k) \in 1..n /\ Exchanged(a, b, Exchanged(a, b, k)) = k
    BY <1>1 DEF Exchanged
  <2>3. \A z : z \in Range(m) <=> \E i \in 1..n : z = view[i]
    <3>1. ASSUME NEW z, z \in Range(m) PROVE \E i \in 1..n : z = view[i]
      BY <1>3, <3>1 DEF Range
    <3>2. ASSUME NEW i \in 1..n PROVE view[i] \in Range(m)
      <4>1. PICK j \in 1..n : CameFrom(a, b, j) = i
        BY <2>1
      <4>2. j \in DOMAIN m /\ m[j] = view[i]
        BY <1>3, <4>1
      <4> QED BY <4>2 DEF Range
    <3> QED BY <3>1, <3>2
  <2>4. \A z : z \in Range(w) <=> \E i \in 1..n : z = view[i]
    BY <1>4, <2>2 DEF Range
  <2> QED BY <2>3, <2>4
<1>7. ASSUME NEW i \in 1..n, NEW j \in 1..n, NEW k \in 1..n, NEW l \in 1..n,
             i < j, m[i].group = m[j].group, m[i] = w[k], m[j] = w[l]
      PROVE  k < l
  <2> DEFINE x == CameFrom(a, b, i)  y == CameFrom(a, b, j)
  <2>1. x \in 1..n /\ y \in 1..n /\ m[i] = view[x] /\ m[j] = view[y]
    BY <1>3
  <2>2. Exchanged(a, b, k) \in 1..n /\ Exchanged(a, b, l) \in 1..n
    BY <1>1 DEF Exchanged
  <2>3. x = Exchanged(a, b, k) /\ y = Exchanged(a, b, l)
    BY <1>4, <1>5, <1>7, <2>1, <2>2
  <2>4. view[x].group = view[y].group
    BY <1>7, <2>1
  <2> HIDE DEF x, y
  <2>5. Apart(a, b, x, y)
    BY <1>2, <2>1, <2>4 DEF Apart
  <2> QED BY <1>1, <1>2, <1>7, <2>3, <2>5, MoveIsExchange DEF x, y
<1> QED BY <1>3, <1>4, <1>6, <1>7 DEF SameLists, m, w

-----------------------------------------------------------------------------
(* Types are kept.                                                          *)

\* An estimate has no more lines than were ever made.
LEMMA FewLines == ASSUME NEW q, Proper(q) PROVE Len(q) <= MaxLines
<1> DEFINE f == [i \in 1..Len(q) |-> q[i].id]
<1>1. Len(q) \in Nat /\ MaxLines \in Nat /\ DOMAIN q = 1..Len(q)
  BY Found, EstimatePageConstants
<1>2. f \in Injection(1..Len(q), 1..MaxLines)
  <2>1. \A i \in 1..Len(q) : q[i].id \in 1..MaxLines
    BY Found DEF Line, Ids
  <2>2. \A i, j \in 1..Len(q) : f[i] = f[j] => i = j
    BY <1>1 DEF Proper, NoRepeats
  <2>3. f \in [1..Len(q) -> 1..MaxLines]
    BY <2>1
  <2> HIDE DEF f
  <2> QED BY <2>2, <2>3 DEF Injection, IsInjective
<1>3. /\ IsFiniteSet(1..MaxLines) /\ Cardinality(1..MaxLines) = MaxLines
      /\ Cardinality(1..Len(q)) = Len(q)
  <2>1. \A n \in Nat : IsFiniteSet(1..n) /\ Cardinality(1..n) = IF 1 > n THEN 0 ELSE n - 1 + 1
    BY FS_Interval
  <2>2. \A n \in Nat : (IF 1 > n THEN 0 ELSE n - 1 + 1) = n
    OBVIOUS
  <2> QED BY <1>1, <2>1, <2>2
<1> HIDE DEF f
<1>4. Cardinality(1..Len(q)) <= Cardinality(1..MaxLines)
  BY <1>2, <1>3, FS_Injection
<1> QED BY <1>3, <1>4

\* What is known of the page's parts.
LEMMA Known ==
    ASSUME Kept
    PROVE  /\ Proper(server) /\ Proper(view)
           /\ IdsOf(view) \subseteq Ids /\ IdsOf(server) \subseteq Ids
           /\ made \in Nat /\ made <= MaxLines /\ MaxLines \in Nat
           /\ sent \in Nat /\ MaxRequests \in Nat
           /\ requests \in [Slots -> RequestType] /\ bulk \subseteq Slots
           /\ None \notin Values /\ None \notin Groups /\ None \notin Ids
<1>1. Proper(server) /\ Proper(view)
  BY DEF Kept, TypeOK, Proper
<1>2. \A q : Proper(q) => IdsOf(q) \subseteq Ids
  <2> SUFFICES ASSUME NEW q, Proper(q), NEW i \in DOMAIN q PROVE q[i].id \in Ids
    BY DEF IdsOf
  <2> QED BY Found DEF Line
<1>3. requests \in [Slots -> RequestType] /\ bulk \subseteq Slots
  BY DEF Kept, TypeOK, RequestType
<1>4. /\ MaxLines \in Nat /\ MaxRequests \in Nat
      /\ None \notin Values /\ None \notin Groups /\ None \notin Ids
  BY EstimatePageConstants DEF Ids
<1>5. made \in Nat /\ made <= MaxLines /\ sent \in Nat
  BY <1>4, EstimatePageConstants DEF Kept, TypeOK
<1> QED BY <1>1, <1>2, <1>3, <1>4, <1>5

\* Nothing is asked for at first.
LEMMA KeptInitially == Init => Kept
<1> SUFFICES ASSUME Init PROVE Kept
  OBVIOUS
<1>1. PICK group \in [1..Given -> Groups], v \in Values :
        server = [i \in 1..Given |-> [id |-> i, group |-> group[i], value |-> v]]
  BY DEF Init
<1>2. Given \in Nat /\ MaxLines \in Nat /\ MaxRequests \in Nat /\ Given <= MaxLines
  BY EstimatePageConstants
<1>3. /\ DOMAIN server = 1..Given
      /\ \A i \in 1..Given : server[i] \in Line /\ server[i].id = i
  BY <1>1, <1>2 DEF Line, Ids
<1>4. server = [i \in 1..Given |-> server[i]]
  BY <1>1
<1>5. server \in Seq(Line) /\ NoRepeats(server)
  BY <1>2, <1>3, <1>4 DEF NoRepeats
<1>6. /\ Free \in RequestType /\ Operands(Free) /\ Free.phase # "answered"
      /\ Free.op # "regroup"
  BY <1>2 DEF Free, RequestType, Operands
<1>7. /\ requests = [s \in Slots |-> Free] /\ fetch = Idle /\ view = server /\ bulk = {}
      /\ made = Given /\ sent = 0 /\ editor = None /\ saving = None
      /\ expected = None /\ unseen = FALSE
  BY DEF Init
<1>8. Idle.phase = "idle"
  BY DEF Idle
<1>9. TypeOK
  <2>1. requests \in [Slots -> RequestType]
    BY <1>6, <1>7
  <2>2. made \in Given..MaxLines /\ sent \in 0..MaxRequests
    BY <1>2, <1>7
  <2> QED BY <1>5, <1>7, <1>8, <2>1, <2>2 DEF TypeOK, RequestType
<1> QED BY <1>2, <1>3, <1>5, <1>6, <1>7, <1>8, <1>9 DEF Kept

\* The user sends a request, and what it should do is an estimate.
LEMMA SendKeepsTypes ==
    ASSUME Kept, NEW s \in Unused, NEW r \in RequestType, NEW o \in Seq(Line), Send(s, r, o),
           r.phase = "sent", r.op \notin {"none", "regroup"}, Operands(r),
           bulk' = bulk, editor' \in Line \cup {None}, saving' \in Slots \cup {None},
           editor' = None => saving' = None
    PROVE  Kept'
<1>1. /\ UNCHANGED <<server, made, view, fetch, unseen>>
      /\ sent < MaxRequests /\ sent' = sent + 1
      /\ requests' = [requests EXCEPT ![s] = r] /\ s \in Slots /\ requests[s].phase = "free"
      /\ expected' \in {o, None}
  BY DEF Send, Judge, page, Unused
<1>2. requests' \in [Slots -> RequestType] /\ sent' \in 0..MaxRequests
  BY <1>1, Known
<1>3. TypeOK'
  BY <1>1, <1>2 DEF Kept, TypeOK, RequestType
<1>4. s \notin bulk
  BY <1>1 DEF Kept, Operands
<1>5. ASSUME NEW t \in Slots
      PROVE  /\ Operands(requests'[t]) /\ (requests'[t].phase = "answered" => t \in bulk)
             /\ requests'[t].op = "regroup" <=> t \in bulk
  BY <1>1, <1>4, Known DEF Kept
<1> QED BY <1>1, <1>3, <1>5 DEF Kept

\* The lines regrouped, as Move Selected should leave them.
Regrouped(q, ids, g) ==
    [i \in DOMAIN q |-> IF q[i].id \in ids THEN [q[i] EXCEPT !.group = g] ELSE q[i]]

\* They are the same lines.
LEMMA RegroupedIs ==
    ASSUME NEW q, Proper(q), NEW ids, NEW g \in Groups
    PROVE  /\ Regrouped(q, ids, g) \in Seq(Line) /\ DOMAIN Regrouped(q, ids, g) = DOMAIN q
           /\ \A i \in DOMAIN q :
                /\ Regrouped(q, ids, g)[i].id = q[i].id
                /\ Regrouped(q, ids, g)[i].value = q[i].value
                /\ Regrouped(q, ids, g)[i].group = IF q[i].id \in ids THEN g ELSE q[i].group
<1> DEFINE e == Regrouped(q, ids, g)
<1>1. Len(q) \in Nat /\ DOMAIN q = 1..Len(q) /\ \A i \in 1..Len(q) : q[i] \in Line
  BY Found
<1>2. /\ DOMAIN e = 1..Len(q)
      /\ \A i \in 1..Len(q) : e[i] = IF q[i].id \in ids THEN [q[i] EXCEPT !.group = g] ELSE q[i]
  BY <1>1 DEF Regrouped
<1>3. ASSUME NEW i \in 1..Len(q)
      PROVE  /\ e[i] \in Line /\ e[i].id = q[i].id /\ e[i].value = q[i].value
             /\ e[i].group = IF q[i].id \in ids THEN g ELSE q[i].group
  <2>1. e[i] = IF q[i].id \in ids THEN [q[i] EXCEPT !.group = g] ELSE q[i]
    BY <1>2
  <2> HIDE DEF e
  <2> QED BY <1>1, <2>1 DEF Line
<1>4. e = [i \in 1..Len(q) |-> e[i]]
  BY <1>1 DEF Regrouped
<1> HIDE DEF e
<1>5. e \in Seq(Line)
  BY <1>1, <1>3, <1>4
<1> QED BY <1>1, <1>2, <1>3, <1>5 DEF e

\* A request for each of the selected lines is sent.
LEMMA MoveSelectedKeepsTypes ==
    ASSUME Kept, NEW ids \in SUBSET IdsOf(view), NEW g \in Groups, MoveSelected(ids, g)
    PROVE  Kept'
<1>1. PICK to \in [ids -> Unused] :
        /\ requests' = [s \in Slots |->
                IF \E id \in ids : to[id] = s
                THEN [Free EXCEPT !.op = "regroup", !.phase = "sent", !.group = g,
                                  !.id = CHOOSE id \in ids : to[id] = s]
                ELSE requests[s]]
        /\ bulk' = {to[id] : id \in ids}
  BY DEF MoveSelected
<1>2. /\ \A id \in ids : to[id] \in Slots /\ requests[to[id]].phase = "free"
      /\ UNCHANGED <<server, made, view, fetch, editor, saving, unseen>> /\ bulk = {}
      /\ sent' = sent + Cardinality(ids) /\ sent' <= MaxRequests
      /\ expected' \in {Regrouped(view, ids, g), None}
  BY <1>1 DEF MoveSelected, Judge, page, Unused, Regrouped
<1>3. Cardinality(ids) \in Nat
  <2>1. IsFiniteSet(Ids)
    BY Known, FS_Interval DEF Ids
  <2>2. ids \subseteq Ids
    BY Known
  <2> QED BY <2>1, <2>2, FS_Subset, FS_CardinalityType
<1>4. ASSUME NEW s \in Slots
      PROVE  /\ requests'[s] \in RequestType /\ Operands(requests'[s])
             /\ requests'[s].phase = "answered" => s \in bulk'
             /\ requests'[s].op = "regroup" <=> s \in bulk'
  <2>1. CASE \E id \in ids : to[id] = s
    <3> DEFINE chosen == CHOOSE id \in ids : to[id] = s
    <3>1. chosen \in Ids
      BY <2>1, Known
    <3> HIDE DEF chosen
    <3>2. requests'[s] = [Free EXCEPT !.op = "regroup", !.phase = "sent", !.group = g,
                                      !.id = chosen]
      BY <1>1, <2>1 DEF chosen
    <3>3. requests'[s] = [op |-> "regroup", id |-> chosen, to |-> 0, group |-> g,
                          value |-> None, phase |-> "sent"]
      BY <3>2 DEF Free
    <3>4. requests'[s] \in RequestType
      BY <3>1, <3>3, Known DEF RequestType
    <3> QED BY <1>1, <2>1, <3>3, <3>4 DEF Operands
  <2>2. CASE ~\E id \in ids : to[id] = s
    <3>1. requests'[s] = requests[s] /\ s \notin bulk'
      BY <1>1, <2>2
    <3> QED BY <1>2, <3>1, Known DEF Kept
  <2> QED BY <2>1, <2>2
<1>5. bulk' \subseteq Slots /\ requests' \in [Slots -> RequestType]
  <2>1. bulk' \subseteq Slots
    BY <1>1, <1>2
  <2>2. requests' = [s \in Slots |-> requests'[s]]
    BY <1>1
  <2> QED BY <1>4, <2>1, <2>2
<1>6. sent' \in 0..MaxRequests
  BY <1>2, <1>3, Known
<1>7. expected' = None \/ expected' \in Seq(Line)
  BY <1>2, RegroupedIs, Known
<1>8. TypeOK'
  BY <1>2, <1>5, <1>6, <1>7 DEF Kept, TypeOK, RequestType
<1> QED BY <1>2, <1>4, <1>8 DEF Kept

\* The line with what its form holds, in its place among the lines.
Refilled(g, v) == [view EXCEPT ![At(view, editor.id)] = Filled(g, v)]

\* What the form submits is a line, its request leaves out what was emptied, and
\* the server makes of it just that line if it is as when the editor opened.
LEMMA SubmittedLine ==
    ASSUME Kept, editor # None, NEW g \in Groups \cup {Blank}, NEW v \in Values \cup {Blank}
    PROVE  /\ OrUndefined(g) \in Groups \cup {None} /\ OrUndefined(v) \in Values \cup {None}
           /\ Refilled(g, v) \in Seq(Line)
           /\ editor \in {view[i] : i \in DOMAIN view} =>
                Edited(view, editor.id, OrUndefined(g), OrUndefined(v)) = Refilled(g, v)
<1> DEFINE group == OrUndefined(g)  value == OrUndefined(v)  place == At(view, editor.id)
           new == Filled(g, v)
<1>1. /\ group \in Groups \cup {None} /\ value \in Values \cup {None}
      /\ group = (IF g = Blank THEN None ELSE g) /\ value = (IF v = Blank THEN None ELSE v)
  BY DEF OrUndefined
<1>2. /\ editor \in Line /\ Proper(view) /\ view \in Seq(Line)
      /\ DOMAIN view = 1..Len(view) /\ Len(view) \in Nat /\ \A i \in DOMAIN view : view[i] \in Line
      /\ Blank \notin Values \cup Groups /\ None \notin Values \cup Groups
  BY Known, Found, EstimatePageConstants DEF Kept, TypeOK, Proper
<1>3. new = [id |-> editor.id, group |-> IF g = Blank THEN editor.group ELSE g,
             value |-> IF v = Blank THEN editor.value ELSE v]
  <2>1. editor = [id |-> editor.id, group |-> editor.group, value |-> editor.value]
    BY <1>2 DEF Line
  <2>2. new = [editor EXCEPT !.group = IF g = Blank THEN editor.group ELSE g,
                             !.value = IF v = Blank THEN editor.value ELSE v]
    BY DEF Filled
  <2> HIDE DEF new
  <2> QED BY <2>1, <2>2
<1>4. new \in Line
  BY <1>2, <1>3 DEF Line
<1> HIDE DEF group, value, new
<1>5. [view EXCEPT ![place] = new] \in Seq(Line)
  <2> DEFINE w == [view EXCEPT ![place] = new]
  <2> HIDE DEF place
  <2>1. w = [i \in 1..Len(view) |-> w[i]] /\ \A i \in 1..Len(view) : w[i] \in Line
    BY <1>2, <1>4
  <2> HIDE DEF w
  <2>2. w \in Seq(Line)
    BY <1>2, <2>1
  <2> QED BY <2>2 DEF w
<1>6. ASSUME editor \in {view[i] : i \in DOMAIN view}
      PROVE  Edited(view, editor.id, group, value) = [view EXCEPT ![place] = new]
  <2>1. PICK p \in DOMAIN view : view[p] = editor
    BY <1>6
  <2>2. place = p /\ \A i \in DOMAIN view : view[i].id = editor.id => i = p
    BY <1>2, <2>1, Found
  <2> HIDE DEF place
  <2>3. ASSUME NEW i \in DOMAIN view
        PROVE  Edited(view, editor.id, group, value)[i] = [view EXCEPT ![place] = new][i]
    <3>1. CASE i = p
      <4>1. Edited(view, editor.id, group, value)[i] =
              [id |-> editor.id, group |-> IF group = None THEN editor.group ELSE group,
               value |-> IF value = None THEN editor.value ELSE value]
        BY <2>1, <3>1 DEF Edited
      <4>2. [view EXCEPT ![place] = new][i] = new
        BY <2>2, <3>1
      <4>3. /\ (IF group = None THEN editor.group ELSE group) =
                (IF g = Blank THEN editor.group ELSE g)
            /\ (IF value = None THEN editor.value ELSE value) =
                (IF v = Blank THEN editor.value ELSE v)
        BY <1>1, <1>2
      <4> QED BY <1>3, <4>1, <4>2, <4>3
    <3>2. CASE i # p
      BY <2>2, <3>2 DEF Edited
    <3> QED BY <3>1, <3>2
  <2>4. /\ Edited(view, editor.id, group, value) =
            [i \in DOMAIN view |-> Edited(view, editor.id, group, value)[i]]
        /\ [view EXCEPT ![place] = new] =
            [i \in DOMAIN view |-> [view EXCEPT ![place] = new][i]]
    BY <1>2 DEF Edited
  <2> QED BY <2>3, <2>4
<1> QED BY <1>1, <1>5, <1>6 DEF Refilled, group, value, new

\* What the user does.
LEMMA UserKeepsTypes == ASSUME Kept, UserActs PROVE Kept'
<1>1. ASSUME NEW s \in Unused, NEW id \in IdsOf(view), Delete(s, id) PROVE Kept'
  <2> DEFINE r == [Free EXCEPT !.op = "delete", !.phase = "sent", !.id = id]
  <2>1. Send(s, r, Without(view, id)) /\ UNCHANGED <<bulk, editor, saving>>
    BY <1>1 DEF Delete, forms
  <2>2. Without(view, id) \in Seq(Line)
    BY Known, WithoutIs DEF Proper
  <2>3. r = [op |-> "delete", id |-> id, to |-> 0, group |-> None, value |-> None, phase |-> "sent"]
    <3>1. r = [Free EXCEPT !.op = "delete", !.phase = "sent", !.id = id]
      OBVIOUS
    <3> HIDE DEF r
    <3> QED BY <3>1 DEF Free
  <2> HIDE DEF r
  <2>4. r \in RequestType /\ Operands(r) /\ r.phase = "sent" /\ r.op \notin {"none", "regroup"}
    BY <2>3, Known DEF RequestType, Operands
  <2> QED BY <2>1, <2>2, <2>4, SendKeepsTypes DEF Kept, TypeOK
<1>2. ASSUME NEW s \in Unused, NEW id \in IdsOf(view), NEW other \in IdsOf(view),
             NEW down \in BOOLEAN, Move(s, id, other, down)
      PROVE  Kept'
  <2> DEFINE to == IndexOf(other)
             r == [Free EXCEPT !.op = "move", !.phase = "sent", !.id = id, !.to = to]
  <2>1. Send(s, r, Swapped(view, id, other)) /\ UNCHANGED <<bulk, editor, saving>>
    BY <1>2 DEF Move, forms
  <2>2. Swapped(view, id, other) \in Seq(Line)
    BY Known, SwappedIs
  <2>3. to \in 1..MaxLines
    <3>1. to \in 1..Len(view) /\ Len(view) \in Nat /\ Len(view) <= MaxLines
      BY Known, Found, FewLines DEF IndexOf
    <3> QED BY <3>1, Known
  <2> HIDE DEF to
  <2>4. r = [op |-> "move", id |-> id, to |-> to, group |-> None, value |-> None, phase |-> "sent"]
    <3>1. r = [Free EXCEPT !.op = "move", !.phase = "sent", !.id = id, !.to = to]
      OBVIOUS
    <3> HIDE DEF r
    <3> QED BY <3>1 DEF Free
  <2> HIDE DEF r
  <2>5. r \in RequestType /\ Operands(r) /\ r.phase = "sent" /\ r.op \notin {"none", "regroup"}
    BY <2>3, <2>4, Known DEF RequestType, Operands
  <2> QED BY <2>1, <2>2, <2>5, SendKeepsTypes DEF Kept, TypeOK
<1>3. ASSUME NEW s \in Unused, NEW g \in Groups \cup {Blank}, NEW v \in Values \cup {Blank},
             Save(s, g, v)
      PROVE  Kept'
  <2> DEFINE o == Refilled(g, v)
             group == OrUndefined(g)
             value == OrUndefined(v)
             r == [Free EXCEPT !.op = "edit", !.phase = "sent", !.id = editor.id,
                               !.group = group, !.value = value]
  <2>1. /\ Send(s, r, o) /\ UNCHANGED <<bulk, editor>> /\ saving' = s /\ s \in Slots
        /\ editor # None /\ editor \in Line
    BY <1>3 DEF Save, Refilled, Unused, Kept, TypeOK
  <2>2. o \in Seq(Line) /\ group \in Groups \cup {None} /\ value \in Values \cup {None}
    BY <2>1, SubmittedLine
  <2> HIDE DEF group, value
  <2>3. r = [op |-> "edit", id |-> editor.id, to |-> 0, group |-> group, value |-> value,
             phase |-> "sent"]
    <3>1. r = [Free EXCEPT !.op = "edit", !.phase = "sent", !.id = editor.id,
          !.group = group, !.value = value]
      OBVIOUS
    <3> HIDE DEF r
    <3> QED BY <3>1 DEF Free
  <2> HIDE DEF r, o
  <2>4. r \in RequestType /\ Operands(r) /\ r.phase = "sent" /\ r.op \notin {"none", "regroup"}
    BY <2>1, <2>2, <2>3, Known DEF RequestType, Operands, Line
  <2> QED BY <2>1, <2>2, <2>4, SendKeepsTypes
<1>4. ASSUME NEW s \in Unused, NEW g \in Groups, NEW v \in Values, Add(s, g, v) PROVE Kept'
  <2> DEFINE o == Append(view, [id |-> made + 1, group |-> g, value |-> v])
             r == [Free EXCEPT !.op = "add", !.phase = "sent", !.group = g, !.value = v]
  <2>1. Send(s, r, o) /\ UNCHANGED <<bulk, editor, saving>> /\ made < MaxLines
    BY <1>4 DEF Add, forms
  <2>2. o \in Seq(Line)
    <3>1. [id |-> made + 1, group |-> g, value |-> v] \in Line
      BY <2>1, Known DEF Line, Ids
    <3> QED BY <3>1, Known, AppendProperties DEF Proper
  <2>3. r = [op |-> "add", id |-> None, to |-> 0, group |-> g, value |-> v, phase |-> "sent"]
    <3>1. r = [Free EXCEPT !.op = "add", !.phase = "sent", !.group = g, !.value = v]
      OBVIOUS
    <3> HIDE DEF r
    <3> QED BY <3>1 DEF Free
  <2> HIDE DEF r, o
  <2>4. r \in RequestType /\ Operands(r) /\ r.phase = "sent" /\ r.op \notin {"none", "regroup"}
    BY <2>3, Known DEF RequestType, Operands
  <2> QED BY <2>1, <2>2, <2>4, SendKeepsTypes DEF Kept, TypeOK
<1>5. CASE CloseEditor
  BY <1>5 DEF CloseEditor, page, history, Kept, TypeOK
<1>6. ASSUME NEW id \in IdsOf(view), OpenEditor(id) PROVE Kept'
  <2>1. /\ editor' = view[At(view, id)] /\ saving' = None
        /\ UNCHANGED <<server, made, sent, view, fetch, requests, bulk, expected, unseen>>
    BY <1>6 DEF OpenEditor, ListIsFree, page, history, Kept, TypeOK
  <2>2. editor' \in Line
    BY <2>1, Known, Found
  <2> QED BY <2>1, <2>2 DEF Kept, TypeOK
<1> QED BY <1>1, <1>2, <1>3, <1>4, <1>5, <1>6, MoveSelectedKeepsTypes DEF UserActs

\* A line more that was never made.
LEMMA AppendedIs ==
    ASSUME NEW q, Proper(q), NEW x \in Line, \A i \in DOMAIN q : q[i].id # x.id
    PROVE  /\ Proper(Append(q, x))
           /\ \A i \in DOMAIN Append(q, x) :
                Append(q, x)[i] = x \/ \E j \in DOMAIN q : Append(q, x)[i] = q[j]
<1> DEFINE w == Append(q, x)
<1>1. q \in Seq(Line) /\ Len(q) \in Nat /\ DOMAIN q = 1..Len(q)
  BY Found DEF Proper
<1>2. /\ w \in Seq(Line) /\ Len(w) = Len(q) + 1 /\ DOMAIN w = 1..Len(q) + 1
      /\ \A i \in 1..Len(q) : w[i] = q[i]
      /\ w[Len(q) + 1] = x
  BY <1>1, AppendProperties, LenProperties
<1> HIDE DEF w
<1>3. \A i \in 1..Len(q) + 1 : i \in 1..Len(q) \/ i = Len(q) + 1
  BY <1>1
<1>4. NoRepeats(w)
  BY <1>1, <1>2, <1>3 DEF NoRepeats, Proper
<1>5. \A i \in DOMAIN w : w[i] = x \/ \E j \in DOMAIN q : w[i] = q[j]
  BY <1>1, <1>2, <1>3
<1> QED BY <1>2, <1>4, <1>5 DEF w, Proper

\* What the server performs, and that it leaves an estimate.
LEMMA ServedIs ==
    ASSUME Kept, NEW s \in Slots, Perform(s)
    PROVE  /\ server' = Outcome(server, made, requests[s])
           /\ Proper(server') /\ made' \in Given..MaxLines
           /\ \A i \in DOMAIN server' : server'[i].id \in 1..made'
<1> DEFINE r == requests[s]
<1>1. /\ r.phase = "sent" /\ server' = Served(r)
      /\ r.op = "add" => made < MaxLines /\ made' = made + 1
      /\ r.op # "add" => r.id \in IdsOf(server) /\ made' = made
  BY DEF Perform
<1>2. /\ r \in RequestType /\ Operands(r) /\ r.op # "none"
      /\ Proper(server) /\ made \in Nat /\ MaxLines \in Nat /\ made \in Given..MaxLines
      /\ \A i \in DOMAIN server : server[i].id \in 1..made
  BY <1>1, Known DEF Kept, Operands, TypeOK
<1> HIDE DEF r
<1>3. r.op \in {"move", "edit", "add", "delete", "regroup", "loose"}
  BY <1>2 DEF RequestType
<1>4. server' = Outcome(server, made, r)
  BY <1>1, <1>3 DEF Served, Outcome
<1>5. CASE r.op = "move"
  <2>1. server' = Moved(server, r.id, r.to) /\ r.to \in Nat \ {0} /\ r.id \in IdsOf(server)
    BY <1>1, <1>2, <1>5 DEF Served, Operands
  <2>2. Proper(server')
    BY <1>2, <2>1, MovedIs
  <2>3. \A i \in DOMAIN server' : \E j \in DOMAIN server : server'[i] = server[j]
    <3>1. Len(server') = Len(server) /\ \A i \in 1..Len(server) :
            \E j \in 1..Len(server) : server'[i] = server[j]
      BY <1>2, <2>1, MovedIs
    <3>2. DOMAIN server' = 1..Len(server') /\ DOMAIN server = 1..Len(server)
      BY <1>2, <2>2, Found
    <3> QED BY <3>1, <3>2
  <2> QED BY <1>1, <1>2, <1>4, <1>5, <2>2, <2>3 DEF r
<1>6. CASE r.op \in {"edit", "regroup", "loose"}
  <2>1. /\ server' = Edited(server, r.id, r.group, r.value)
        /\ r.group \in Groups \cup {None} /\ r.value \in Values \cup {None}
    BY <1>1, <1>2, <1>6 DEF Served, RequestType
  <2>2. /\ Proper(server') /\ DOMAIN server' = DOMAIN server
        /\ \A i \in DOMAIN server : server'[i].id = server[i].id
    BY <1>2, <2>1, EditedIs
  <2> QED BY <1>1, <1>2, <1>4, <1>6, <2>2 DEF r
<1>7. CASE r.op = "delete"
  <2>1. server' = Without(server, r.id) /\ r.id \in IdsOf(server)
    BY <1>1, <1>7 DEF Served
  <2>2. Proper(server')
    BY <1>2, <2>1, WithoutIs
  <2>3. \A i \in DOMAIN server' : \E j \in DOMAIN server : server'[i] = server[j]
    <3> TAKE i \in DOMAIN server'
    <3>1. /\ i \in 1..Len(server) - 1 /\ Len(server) \in Nat /\ DOMAIN server = 1..Len(server)
          /\ server'[i] = IF i < At(server, r.id) THEN server[i] ELSE server[i + 1]
      <4>1. /\ Len(server) \in Nat /\ DOMAIN server = 1..Len(server)
            /\ DOMAIN server' = 1..Len(server')
        BY <1>2, <2>2, Found
      <4>2. Len(server') = Len(server) - 1 /\ \A j \in 1..Len(server) - 1 :
                server'[j] = IF j < At(server, r.id) THEN server[j] ELSE server[j + 1]
        BY <1>2, <2>1, WithoutIs
      <4> QED BY <4>1, <4>2
    <3>2. i \in DOMAIN server /\ i + 1 \in DOMAIN server
      BY <3>1
    <3> QED BY <3>1, <3>2
  <2> QED BY <1>1, <1>2, <1>4, <1>7, <2>2, <2>3 DEF r
<1>8. CASE r.op = "add"
  <2> DEFINE x == [id |-> made + 1, group |-> r.group, value |-> r.value]
  <2>1. /\ server' = Append(server, x) /\ x \in Line /\ x.id = made + 1
        /\ made' = made + 1 /\ made' \in Given..MaxLines
    BY <1>1, <1>2, <1>8, EstimatePageConstants DEF Served, Operands, Line, Ids
  <2> HIDE DEF x
  <2>2. \A i \in DOMAIN server : server[i].id # x.id
    BY <1>2, <2>1
  <2>3. /\ Proper(server')
        /\ \A i \in DOMAIN server' : server'[i] = x \/ \E j \in DOMAIN server : server'[i] = server[j]
    BY <1>2, <2>1, <2>2, AppendedIs
  <2> QED BY <1>2, <1>4, <2>1, <2>3 DEF r
<1> QED BY <1>3, <1>5, <1>6, <1>7, <1>8

\* What the server does.
LEMMA ServerKeepsTypes == ASSUME Kept, ServerActs PROVE Kept'
<1>1. CASE ServeFetch
  <2>1. /\ fetch' = [phase |-> "answered", lines |-> server]
        /\ UNCHANGED <<server, made, sent, view, requests, bulk, editor, saving, expected, unseen>>
    BY <1>1 DEF ServeFetch, forms, history
  <2>2. fetch'.phase = "answered" /\ fetch'.lines = server
    BY <2>1
  <2> QED BY <2>1, <2>2, Known DEF Kept, TypeOK
<1>2. ASSUME NEW s \in Slots, Perform(s) PROVE Kept'
  <2>1. /\ requests[s].phase = "sent" /\ requests' = [requests EXCEPT ![s].phase = "performed"]
        /\ UNCHANGED <<sent, view, fetch, bulk, editor, saving, expected, unseen>>
    BY <1>2 DEF Perform, page, forms, history
  <2>2. /\ requests[s] \in RequestType /\ Operands(requests[s])
        /\ requests'[s] = [requests[s] EXCEPT !.phase = "performed"]
        /\ \A t \in Slots : t # s => requests'[t] = requests[t]
    BY <2>1, Known DEF Kept
  <2>3. /\ requests'[s] \in RequestType /\ Operands(requests'[s])
        /\ requests'[s].phase = "performed" /\ requests'[s].op = requests[s].op
    BY <2>1, <2>2 DEF RequestType, Operands
  <2>4. requests' \in [Slots -> RequestType]
    BY <2>1, <2>2, <2>3, Known
  <2>5. Proper(server') /\ made' \in Given..MaxLines
        /\ \A i \in DOMAIN server' : server'[i].id \in 1..made'
    BY <1>2, ServedIs
  <2>6. TypeOK'
    BY <2>1, <2>4, <2>5 DEF Kept, TypeOK, RequestType, Proper
  <2> QED BY <2>1, <2>2, <2>3, <2>5, <2>6 DEF Kept, Proper
<1> QED BY <1>1, <1>2 DEF ServerActs

\* A request of which the page knows the answer, or wants none, is done with.
LEMMA FreedKeepsTypes ==
    ASSUME Kept, NEW s \in Slots \ bulk, requests' = [requests EXCEPT ![s] = Free],
           UNCHANGED <<server, made, sent, view, bulk>>,
           fetch'.phase \in {"idle", "asked"} \/ UNCHANGED fetch,
           expected' \in {expected, None}, unseen' \in BOOLEAN,
           editor' \in {editor, None}, saving' \in {saving, None}, editor' = None => saving' = None
    PROVE  Kept'
<1>1. Free \in RequestType /\ Operands(Free) /\ Free.phase # "answered" /\ Free.op # "regroup"
  BY Known DEF Free, RequestType, Operands
<1>2. requests' \in [Slots -> RequestType]
  BY <1>1, Known
<1>3. TypeOK'
  BY <1>2 DEF Kept, TypeOK, RequestType
<1>4. ASSUME NEW t \in Slots
      PROVE  /\ Operands(requests'[t]) /\ (requests'[t].phase = "answered" => t \in bulk)
             /\ requests'[t].op = "regroup" <=> t \in bulk
  BY <1>1, Known DEF Kept
<1>5. fetch'.phase = "answered" => fetch' = fetch
  OBVIOUS
<1> QED BY <1>3, <1>4, <1>5 DEF Kept

\* The requests of the bulk move are done with, or go on unheeded.
LEMMA SettledKeepsTypes ==
    ASSUME Kept, UNCHANGED <<server, made, sent, view, editor, saving>>, bulk' = {},
           requests' \in [Slots -> RequestType],
           \A t \in Slots :
            /\ t \notin bulk => requests'[t] = requests[t]
            /\ t \in bulk => \/ requests'[t] = Free
                             \/ /\ requests[t].phase # "answered"
                                /\ requests'[t] = [requests[t] EXCEPT !.op = "loose"],
           fetch' = Asked \/ UNCHANGED fetch,
           expected' \in {expected, None}, unseen' \in BOOLEAN
    PROVE  Kept'
<1>1. TypeOK'
  BY DEF Kept, TypeOK, RequestType, Asked
<1>2. ASSUME NEW t \in Slots
      PROVE  /\ Operands(requests'[t]) /\ requests'[t].phase # "answered"
             /\ requests'[t].op # "regroup"
  <2>1. requests[t] \in RequestType /\ Operands(requests[t])
    BY Known DEF Kept
  <2>2. CASE t \notin bulk
    BY <2>1, <2>2 DEF Kept
  <2>3. CASE requests'[t] = Free
    BY <2>3 DEF Free, Operands
  <2>4. CASE t \in bulk /\ requests'[t] # Free
    <3>1. /\ requests[t].phase # "answered" /\ requests'[t] = [requests[t] EXCEPT !.op = "loose"]
          /\ requests[t].op = "regroup"
      BY <2>4 DEF Kept
    <3>2. requests'[t].op = "loose" /\ requests'[t].phase = requests[t].phase
      BY <2>1, <3>1 DEF RequestType
    <3> QED BY <2>1, <3>1, <3>2 DEF Operands
  <2> QED BY <2>2, <2>3, <2>4
<1>3. fetch'.phase = "answered" => fetch' = fetch
  BY DEF Asked
<1> QED BY <1>1, <1>2, <1>3 DEF Kept

\* What the page makes of answers.
LEMMA AnswersKeepTypes == ASSUME Kept, Answers PROVE Kept'
<1>0. /\ \A s \in Slots : requests[s].op = "regroup" <=> s \in bulk
      /\ Idle.phase = "idle" /\ Asked.phase = "asked" /\ Idle # Asked
  BY DEF Kept, Idle, Asked
<1>1. CASE FetchOk
  <2>1. /\ fetch.phase = "answered" /\ view' = fetch.lines /\ fetch' = Idle
        /\ unseen' \in BOOLEAN
        /\ UNCHANGED <<server, made, sent, requests, bulk, editor, saving, expected>>
    BY <1>1 DEF FetchOk, forms, Kept, TypeOK
  <2> QED BY <1>0, <2>1 DEF Kept, TypeOK, Proper
<1>2. CASE FetchFails
  <2>1. /\ fetch' = Idle /\ unseen' /\ expected' = None /\ unseen' \in BOOLEAN
        /\ UNCHANGED <<server, made, sent, view, requests, bulk, editor, saving>>
    BY <1>2 DEF FetchFails, forms
  <2> QED BY <1>0, <2>1 DEF Kept, TypeOK
<1>3. CASE BulkSucceed
  <2>1. /\ requests' = [s \in Slots |-> IF s \in bulk THEN Free ELSE requests[s]]
        /\ bulk' = {} /\ fetch' = Asked
        /\ UNCHANGED <<server, made, sent, view, editor, saving, expected, unseen>>
    BY <1>3 DEF BulkSucceed, Refetch, history
  <2>2. requests' \in [Slots -> RequestType]
    BY <2>1, Known DEF RequestType, Free
  <2>3. \A t \in Slots : requests'[t] = IF t \in bulk THEN Free ELSE requests[t]
    BY <2>1
  <2>4. expected' \in {expected, None} /\ unseen' \in BOOLEAN
    BY <2>1 DEF Kept, TypeOK
  <2> QED BY <2>1, <2>2, <2>3, <2>4, SettledKeepsTypes
<1>4. ASSUME NEW s \in Slots, Succeed(s) PROVE Kept'
  <2>1. /\ requests' = [requests EXCEPT ![s] = Free] /\ fetch' = Asked
        /\ requests[s].op # "regroup"
        /\ UNCHANGED <<server, made, sent, view, bulk, expected, unseen>>
        /\ (editor' = None /\ saving' = None) \/ UNCHANGED <<editor, saving>>
    BY <1>4 DEF Succeed, Refetch, history
  <2>2. s \in Slots \ bulk /\ fetch'.phase = "asked"
    BY <1>0, <2>1
  <2>3. /\ expected' \in {expected, None} /\ unseen' \in BOOLEAN
        /\ editor' \in {editor, None} /\ saving' \in {saving, None}
        /\ editor' = None => saving' = None
    BY <2>1 DEF Kept, TypeOK
  <2> QED BY <2>1, <2>2, <2>3, FreedKeepsTypes
<1>5. ASSUME NEW s \in Slots, Fail(s) \/ Unheeded(s) PROVE Kept'
  <2>1. /\ requests' = [requests EXCEPT ![s] = Free] /\ requests[s].op # "regroup"
        /\ UNCHANGED <<server, made, sent, view, fetch, bulk, editor>>
        /\ saving' \in {saving, None} /\ expected' \in {expected, None}
        /\ unseen' = (unseen \/ requests[s].phase = "performed")
    BY <1>5 DEF Fail, Unheeded, page, forms
  <2>2. s \in Slots \ bulk
    BY <1>0, <2>1
  <2>3. unseen' \in BOOLEAN /\ editor' \in {editor, None} /\ (editor' = None => saving' = None)
    BY <2>1 DEF Kept, TypeOK
  <2> QED BY <2>1, <2>2, <2>3, FreedKeepsTypes
<1>6. ASSUME NEW s \in Slots, BulkAnswer(s) PROVE Kept'
  <2>1. /\ s \in bulk /\ requests[s].phase = "performed"
        /\ requests' = [requests EXCEPT ![s].phase = "answered"]
        /\ UNCHANGED <<server, made, sent, view, fetch, bulk, editor, saving, expected, unseen>>
    BY <1>6 DEF BulkAnswer, page, forms, history
  <2>2. /\ requests[s] \in RequestType /\ Operands(requests[s])
        /\ requests'[s] = [requests[s] EXCEPT !.phase = "answered"]
        /\ \A t \in Slots : t # s => requests'[t] = requests[t]
    BY <2>1, Known DEF Kept
  <2>3. /\ requests'[s] \in RequestType /\ Operands(requests'[s])
        /\ requests'[s].op = requests[s].op
    BY <2>1, <2>2 DEF RequestType, Operands
  <2>4. requests' \in [Slots -> RequestType]
    BY <2>1, <2>2, <2>3, Known
  <2>5. TypeOK'
    BY <2>1, <2>4 DEF Kept, TypeOK, RequestType
  <2> QED BY <2>1, <2>2, <2>3, <2>5 DEF Kept
<1>7. ASSUME NEW s \in Slots, BulkFail(s) PROVE Kept'
  <2>1. /\ requests' = [t \in Slots |->
            IF t = s \/ (t \in bulk /\ requests[t].phase = "answered") THEN Free
            ELSE IF t \in bulk THEN [requests[t] EXCEPT !.op = "loose"] ELSE requests[t]]
        /\ bulk' = {} /\ s \in bulk /\ expected' = None
        /\ UNCHANGED <<server, made, sent, view, fetch, editor, saving>>
        /\ unseen' = (unseen \/ \E t \in bulk : requests[t].phase # "sent" \/ t # s)
    BY <1>7 DEF BulkFail, page
  <2>2. ASSUME NEW t \in Slots
        PROVE  /\ requests'[t] \in RequestType
               /\ t \notin bulk => requests'[t] = requests[t]
               /\ t \in bulk => \/ requests'[t] = Free
                                \/ /\ requests[t].phase # "answered"
                                   /\ requests'[t] = [requests[t] EXCEPT !.op = "loose"]
    <3>1. requests[t] \in RequestType /\ Free \in RequestType
      BY Known DEF RequestType, Free
    <3>2. [requests[t] EXCEPT !.op = "loose"] \in RequestType
      BY <3>1 DEF RequestType
    <3> QED BY <2>1, <3>1, <3>2
  <2>3. requests' \in [Slots -> RequestType]
    <3>1. requests' = [t \in Slots |-> requests'[t]]
      BY <2>1
    <3> QED BY <2>2, <3>1
  <2>4. unseen' \in BOOLEAN
    BY <2>1 DEF Kept, TypeOK
  <2> QED BY <2>1, <2>2, <2>3, <2>4, SettledKeepsTypes
<1> QED BY <1>1, <1>2, <1>3, <1>4, <1>5, <1>6, <1>7 DEF Answers

\* Every step.
LEMMA TypesKept == Kept /\ [Next]_vars => Kept'
<1> SUFFICES ASSUME Kept, [Next]_vars PROVE Kept'
  OBVIOUS
<1>1. CASE OtherWriter
  <2>1. PICK id \in IdsOf(server), v \in Values : server' = Edited(server, id, None, v)
    BY <1>1 DEF OtherWriter
  <2>2. /\ Proper(server') /\ DOMAIN server' = DOMAIN server
        /\ \A i \in DOMAIN server : server'[i].id = server[i].id
    BY <2>1, Known, EditedIs
  <2>3. /\ sent < MaxRequests /\ sent' = sent + 1 /\ expected' = None /\ unseen' = TRUE
        /\ UNCHANGED <<made, view, fetch, requests, bulk, editor, saving>>
    BY <1>1 DEF OtherWriter, page, forms
  <2>4. sent' \in 0..MaxRequests
    BY <2>3, Known
  <2>5. TypeOK'
    BY <2>2, <2>3, <2>4 DEF Kept, TypeOK, Proper
  <2> QED BY <2>2, <2>3, <2>5 DEF Kept, Proper
<1>2. CASE UNCHANGED vars
  BY <1>2 DEF vars, page, forms, history, Kept, TypeOK
<1> QED BY <1>1, <1>2, UserKeepsTypes, ServerKeepsTypes, AnswersKeepTypes DEF Next

\* Every variable keeps its type: the estimate stays a list of lines, whatever
\* is sent, and the places that requests name are places of lines.
THEOREM PageTypeCorrect == Spec => []TypeOK
<1>1. Kept => TypeOK
  BY DEF Kept
<1> QED BY <1>1, KeptInitially, TypesKept, PTL DEF Spec

-----------------------------------------------------------------------------
(* The promise is kept.                                                     *)

\* A page at rest has no bulk move.
LEMMA RestIsFree ==
    ASSUME Kept, AtRest
    PROVE  bulk = {} /\ fetch = Idle /\ \A t \in Slots : requests[t].phase = "free"
<1>1. fetch = Idle /\ \A t \in Slots : requests[t].phase = "free"
  BY DEF AtRest, Unused
<1>2. \A t \in bulk : t \in Slots /\ requests[t].op = "regroup" /\ requests[t].op = "none"
  BY <1>1, Known DEF Kept, Operands
<1> QED BY <1>1, <1>2

\* A request is sent that does what is expected, if that is judged.
LEMMA SendPromises ==
    ASSUME Kept, NEW s \in Unused, NEW r, NEW o, Send(s, r, o), bulk' = bulk,
           r.phase = "sent", r.op \in {"move", "edit", "add", "delete"},
           Current /\ (editor # None => editor \in {view[i] : i \in DOMAIN view})
            => SameLists(Outcome(server, made, r), o)
    PROVE  Promise'
<1> SUFFICES ASSUME expected' # None PROVE UnderWay(s)'
  BY DEF Promise, Unused
<1>1. /\ requests' = [requests EXCEPT ![s] = r] /\ s \in Slots
      /\ UNCHANGED <<server, made, view, fetch>>
      /\ Current /\ SameLists(Outcome(server, made, r), o) /\ expected' = o
  BY DEF Send, Judge, page, Unused
<1>2. bulk = {} /\ fetch = Idle /\ \A t \in Slots : requests[t].phase = "free"
  BY <1>1, RestIsFree DEF Current
<1>3. requests'[s] = r /\ \A t \in Slots : t # s => requests'[t].phase = "free"
  BY <1>1, <1>2, Known
<1>4. SameLists(Outcome(server', made', requests'[s]), expected')
  BY <1>1, <1>3
<1> QED BY <1>1, <1>2, <1>3, <1>4 DEF UnderWay

\* Each of the selected lines is asked to be moved.
LEMMA MoveSelectedPromises ==
    ASSUME Kept, NEW ids \in SUBSET IdsOf(view), NEW g \in Groups, MoveSelected(ids, g)
    PROVE  Promise'
<1> SUFFICES ASSUME expected' # None PROVE Regrouping'
  BY DEF Promise
<1>1. PICK to \in [ids -> Unused] :
        /\ IsInjective(to)
        /\ requests' = [s \in Slots |->
                IF \E id \in ids : to[id] = s
                THEN [Free EXCEPT !.op = "regroup", !.phase = "sent", !.group = g,
                                  !.id = CHOOSE id \in ids : to[id] = s]
                ELSE requests[s]]
        /\ bulk' = {to[id] : id \in ids}
  BY DEF MoveSelected
<1>2. /\ \A id \in ids : to[id] \in Slots /\ UNCHANGED <<server, made, view, fetch>>
      /\ ids # {} /\ Current /\ expected' = Regrouped(view, ids, g)
  BY <1>1 DEF MoveSelected, Judge, page, Unused, Regrouped
<1>3. fetch = Idle /\ view = server /\ \A t \in Slots : requests[t].phase = "free"
  BY <1>2, RestIsFree DEF Current
<1>4. \A id1, id2 \in ids : to[id1] = to[id2] => id1 = id2
  BY <1>1 DEF IsInjective
<1>5. ASSUME NEW id \in ids
      PROVE  /\ requests'[to[id]].id = id /\ requests'[to[id]].phase = "sent"
             /\ requests'[to[id]].group = g
  <2> DEFINE chosen == CHOOSE k \in ids : to[k] = to[id]
  <2>1. chosen \in ids /\ to[chosen] = to[id]
    OBVIOUS
  <2>2. requests'[to[id]] = [Free EXCEPT !.op = "regroup", !.phase = "sent", !.group = g,
                                         !.id = chosen]
    BY <1>1, <1>2
  <2> HIDE DEF chosen
  <2>3. chosen = id
    BY <1>4, <2>1
  <2> QED BY <2>2, <2>3 DEF Free
<1>6. \A s \in Slots \ bulk' : requests'[s].phase = "free"
  BY <1>1, <1>3
<1>7. bulk' # {}
  BY <1>1, <1>2
<1>8. \A s \in bulk' : \E id \in ids : s = to[id]
  BY <1>1
<1>9. \A s, t \in bulk' : requests'[s].id = requests'[t].id => s = t
  BY <1>5, <1>8
<1>10. /\ DOMAIN expected' = DOMAIN server
       /\ \A i \in DOMAIN server :
            /\ expected'[i].id = server[i].id /\ expected'[i].value = server[i].value
            /\ expected'[i].group = IF server[i].id \in ids THEN g ELSE server[i].group
  BY <1>2, <1>3, Known, RegroupedIs
<1>11. ASSUME NEW i \in DOMAIN server,
              {s \in bulk' : requests'[s].phase = "sent" /\ requests'[s].id = server[i].id} = {}
       PROVE  server[i].id \notin ids
  <2>1. SUFFICES ASSUME server[i].id \in ids PROVE FALSE
    OBVIOUS
  <2>2. to[server[i].id] \in bulk'
    BY <1>1, <2>1
  <2> QED BY <1>5, <1>11, <2>1, <2>2
<1>12. ASSUME NEW i \in DOMAIN server, NEW s \in bulk', requests'[s].id = server[i].id
       PROVE  server[i].id \in ids /\ requests'[s].group = g
  BY <1>5, <1>8, <1>12
<1> QED BY <1>2, <1>3, <1>6, <1>7, <1>9, <1>10, <1>11, <1>12 DEF Regrouping

\* What the promise speaks of is untouched.
LEMMA UntouchedPromise ==
    ASSUME Promise, UNCHANGED <<server, made, view, fetch, requests, bulk, expected>>
    PROVE  Promise'
<1>1. CASE Delivered
  BY <1>1 DEF Promise, Delivered
<1>2. CASE Regrouping
  BY <1>2 DEF Promise, Regrouping
<1>3. ASSUME NEW s \in Slots, UnderWay(s) PROVE Promise'
  BY <1>3 DEF Promise, UnderWay
<1> QED BY <1>1, <1>2, <1>3 DEF Promise

\* What the user does: each operation asks for what it promises.
LEMMA UserPromises == ASSUME Kept, Promise, UserActs PROVE Promise'
<1>1. ASSUME NEW s \in Unused, NEW id \in IdsOf(view), Delete(s, id) PROVE Promise'
  <2> DEFINE r == [Free EXCEPT !.op = "delete", !.phase = "sent", !.id = id]
  <2>1. Send(s, r, Without(view, id)) /\ bulk' = bulk
    BY <1>1 DEF Delete, forms
  <2>2. r.op = "delete" /\ r.phase = "sent" /\ r.id = id
    BY DEF Free
  <2> HIDE DEF r
  <2>3. Current => SameLists(Outcome(server, made, r), Without(view, id))
    BY <2>2, Known, WithoutIs, SameAsItself DEF Outcome, Current
  <2> QED BY <2>1, <2>2, <2>3, SendPromises
<1>2. ASSUME NEW s \in Unused, NEW id \in IdsOf(view), NEW other \in IdsOf(view),
             NEW down \in BOOLEAN, Move(s, id, other, down)
      PROVE  Promise'
  <2> DEFINE to == IndexOf(other)
             r == [Free EXCEPT !.op = "move", !.phase = "sent", !.id = id, !.to = to]
  <2>1. Send(s, r, Swapped(view, id, other)) /\ bulk' = bulk
    BY <1>2 DEF Move, forms
  <2> HIDE DEF to
  <2>2. r.op = "move" /\ r.phase = "sent" /\ r.id = id /\ r.to = to
    BY DEF Free
  <2> HIDE DEF r
  <2>3. Current => SameLists(Outcome(server, made, r), Swapped(view, id, other))
    <3>1. SameLists(Moved(view, id, to), Swapped(view, id, other))
      BY <1>2, Known, MoveSwaps DEF Move, to
    <3> QED BY <2>2, <3>1 DEF Outcome, Current
  <2> QED BY <2>1, <2>2, <2>3, SendPromises
<1>3. ASSUME NEW s \in Unused, NEW g \in Groups \cup {Blank}, NEW v \in Values \cup {Blank},
             Save(s, g, v)
      PROVE  Promise'
  <2> DEFINE o == Refilled(g, v)
             group == OrUndefined(g)
             value == OrUndefined(v)
             r == [Free EXCEPT !.op = "edit", !.phase = "sent", !.id = editor.id,
                               !.group = group, !.value = value]
  <2>1. Send(s, r, o) /\ bulk' = bulk /\ editor # None
    BY <1>3 DEF Save, Refilled
  <2>2. /\ r.op = "edit" /\ r.phase = "sent" /\ r.id = editor.id
        /\ r.group = group /\ r.value = value
    BY DEF Free
  <2> HIDE DEF r
  <2>3. ASSUME Current, editor \in {view[i] : i \in DOMAIN view}
        PROVE  SameLists(Outcome(server, made, r), o)
    <3>1. Outcome(server, made, r) = Edited(view, editor.id, group, value)
      BY <2>2, <2>3 DEF Outcome, Current
    <3>2. Edited(view, editor.id, group, value) = o
      BY <2>1, <2>3, SubmittedLine
    <3>3. Proper(Edited(view, editor.id, group, value))
      BY <2>1, Known, SubmittedLine, EditedIs
    <3> QED BY <3>1, <3>2, <3>3, SameAsItself
  <2> HIDE DEF o
  <2> QED BY <2>1, <2>2, <2>3, SendPromises
<1>4. ASSUME NEW s \in Unused, NEW g \in Groups, NEW v \in Values, Add(s, g, v) PROVE Promise'
  <2> DEFINE x == [id |-> made + 1, group |-> g, value |-> v]
             r == [Free EXCEPT !.op = "add", !.phase = "sent", !.group = g, !.value = v]
  <2>1. Send(s, r, Append(view, x)) /\ bulk' = bulk /\ made < MaxLines
    BY <1>4 DEF Add, forms
  <2>2. r.op = "add" /\ r.phase = "sent" /\ r.group = g /\ r.value = v
    BY DEF Free
  <2> HIDE DEF r
  <2>3. ASSUME Current PROVE SameLists(Outcome(server, made, r), Append(view, x))
    <3>1. Outcome(server, made, r) = Append(view, x) /\ view = server
      BY <2>2, <2>3 DEF Outcome, Current
    <3>2. x \in Line /\ \A i \in DOMAIN server : server[i].id # x.id
      BY <2>1, Known DEF Line, Ids, Kept
    <3> HIDE DEF x
    <3>3. Proper(Append(view, x))
      BY <3>1, <3>2, Known, AppendedIs
    <3> QED BY <3>1, <3>3, SameAsItself
  <2> HIDE DEF x
  <2> QED BY <2>1, <2>2, <2>3, SendPromises
<1>5. ASSUME CloseEditor \/ \E id : OpenEditor(id) PROVE Promise'
  BY <1>5, UntouchedPromise DEF CloseEditor, OpenEditor, page, history
<1> QED BY <1>1, <1>2, <1>3, <1>4, <1>5, MoveSelectedPromises DEF UserActs

\* The requests that are not free while a promise stands.
LEMMA PromisedOps ==
    ASSUME Kept
    PROVE  /\ Delivered => bulk = {} /\ \A s \in Slots : requests[s].op = "none"
           /\ Regrouping => \A s \in Slots :
                requests[s].op = IF s \in bulk THEN "regroup" ELSE "none"
           /\ \A s, t \in Slots : UnderWay(t) /\ requests[s].op # "none" => s = t
           /\ \A s \in Slots : requests[s].op = "none" <=> requests[s].phase = "free"
<1>1. ASSUME NEW s \in Slots PROVE requests[s].op = "none" <=> requests[s].phase = "free"
  BY DEF Kept, Operands
<1>2. bulk \subseteq Slots /\ \A s \in Slots : requests[s].op = "regroup" <=> s \in bulk
  BY Known DEF Kept
<1>3. Delivered => bulk = {} /\ \A s \in Slots : requests[s].op = "none"
  BY <1>1, <1>2 DEF Delivered
<1>4. Regrouping => \A s \in Slots : requests[s].op = IF s \in bulk THEN "regroup" ELSE "none"
  BY <1>1, <1>2 DEF Regrouping
<1>5. \A s, t \in Slots : UnderWay(t) /\ requests[s].op # "none" => s = t
  BY <1>1 DEF UnderWay
<1> QED BY <1>1, <1>3, <1>4, <1>5

\* A selected line that is moved is no longer among those that wait.
LEMMA RegroupPerformed ==
    ASSUME Kept, Regrouping, expected # None, NEW s \in Slots, Perform(s)
    PROVE  Regrouping'
<1> DEFINE r == requests[s]
<1>1. /\ r.phase = "sent" /\ requests' = [requests EXCEPT ![s].phase = "performed"]
      /\ UNCHANGED <<fetch, bulk, expected>>
  BY DEF Perform, page, forms, history
<1>2. /\ s \in bulk /\ r.op = "regroup" /\ r.group \in Groups /\ r.value = None /\ r.group # None
  <2>1. r.op # "none" /\ Operands(r)
    BY <1>1, PromisedOps DEF Kept
  <2>2. s \in bulk /\ r.op = "regroup"
    BY <2>1, PromisedOps
  <2> QED BY <2>1, <2>2, Known DEF Operands
<1>3. /\ requests'[s] = [r EXCEPT !.phase = "performed"] /\ r \in RequestType
      /\ \A t \in Slots : t # s => requests'[t] = requests[t]
  BY <1>1, Known
<1>4. /\ requests'[s].phase = "performed"
      /\ \A t \in Slots : requests'[t].id = requests[t].id /\ requests'[t].group = requests[t].group
  BY <1>3 DEF RequestType
<1>5. server' = Edited(server, r.id, r.group, r.value)
  BY <1>2, ServedIs DEF Outcome
<1>6. /\ DOMAIN server' = DOMAIN server
      /\ \A i \in DOMAIN server :
            server'[i] = IF server[i].id # r.id THEN server[i]
                         ELSE [id |-> r.id, group |-> r.group, value |-> server[i].value]
  BY <1>2, <1>5 DEF Edited
<1>7. bulk \subseteq Slots
  BY Known
<1> HIDE DEF r
<1>8. /\ fetch = Idle /\ bulk # {}
      /\ \A t \in Slots \ bulk : requests[t].phase = "free"
      /\ \A t, u \in bulk : requests[t].id = requests[u].id => t = u
      /\ DOMAIN expected = DOMAIN server
  BY DEF Regrouping
<1>9. ASSUME NEW i \in DOMAIN server'
      PROVE  LET waiting == {t \in bulk' : requests'[t].phase = "sent"
                                           /\ requests'[t].id = server'[i].id}
             IN  /\ expected'[i].id = server'[i].id /\ expected'[i].value = server'[i].value
                 /\ waiting = {} => expected'[i].group = server'[i].group
                 /\ \A t \in waiting : expected'[i].group = requests'[t].group
  <2> DEFINE before == {t \in bulk : requests[t].phase = "sent" /\ requests[t].id = server[i].id}
             after == {t \in bulk' : requests'[t].phase = "sent"
                                     /\ requests'[t].id = server'[i].id}
  <2>1. /\ i \in DOMAIN server
        /\ expected[i].id = server[i].id /\ expected[i].value = server[i].value
        /\ before = {} => expected[i].group = server[i].group
        /\ \A t \in before : expected[i].group = requests[t].group
    BY <1>6 DEF Regrouping
  <2>2. CASE server[i].id = r.id
    <3>1. server'[i].id = r.id /\ server'[i].group = r.group /\ server'[i].value = server[i].value
      BY <1>6, <2>1, <2>2
    <3>2. s \in before
      BY <1>1, <1>2, <2>2 DEF r
    <3>3. expected[i].group = r.group
      BY <2>1, <3>2 DEF r
    <3>4. after = {}
      BY <1>1, <1>2, <1>4, <1>7, <1>8, <3>1 DEF r
    <3> HIDE DEF before, after
    <3> QED BY <1>1, <2>1, <2>2, <3>1, <3>3, <3>4 DEF after
  <2>3. CASE server[i].id # r.id
    <3>1. server'[i] = server[i]
      BY <1>6, <2>1, <2>3
    <3>2. after = before
      BY <1>1, <1>3, <1>4, <1>7, <2>3, <3>1 DEF r
    <3> HIDE DEF before
    <3> QED BY <1>1, <1>4, <1>7, <2>1, <3>1, <3>2 DEF before
  <2> QED BY <2>2, <2>3
<1>10. \A t \in Slots \ bulk' : requests'[t].phase = "free"
  BY <1>1, <1>2, <1>3, <1>8
<1>11. \A t, u \in bulk' : requests'[t].id = requests'[u].id => t = u
  BY <1>1, <1>4, <1>7, <1>8
<1> QED BY <1>1, <1>6, <1>8, <1>9, <1>10, <1>11 DEF Regrouping

\* What the server does: it performs what was asked, and answers with its lines.
LEMMA ServerPromises == ASSUME Kept, Promise, ServerActs PROVE Promise'
<1> SUFFICES ASSUME expected' # None PROVE Promise'
  BY DEF Promise
<1>1. CASE ServeFetch
  <2>1. /\ fetch.phase = "asked" /\ fetch' = [phase |-> "answered", lines |-> server]
        /\ UNCHANGED <<server, view, requests, bulk, expected>>
    BY <1>1 DEF ServeFetch, forms, history
  <2>2. Delivered
    BY <2>1 DEF Promise, Regrouping, UnderWay, Idle
  <2>3. Delivered'
    BY <2>1, <2>2 DEF Delivered
  <2> QED BY <2>3 DEF Promise
<1>2. ASSUME NEW s \in Slots, Perform(s) PROVE Promise'
  <2>1. /\ requests[s].phase = "sent" /\ requests' = [requests EXCEPT ![s].phase = "performed"]
        /\ UNCHANGED <<view, fetch, bulk, expected>>
    BY <1>2 DEF Perform, page, forms, history
  <2>2. requests[s].op # "none" /\ ~Delivered
    BY <2>1, PromisedOps
  <2>3. ASSUME NEW t \in Slots, UnderWay(t) PROVE UnderWay(s)'
    <3>1. s = t
      BY <2>2, <2>3, PromisedOps
    <3>2. /\ requests'[s] = [requests[s] EXCEPT !.phase = "performed"]
          /\ requests[s] \in RequestType
          /\ \A u \in Slots : u # s => requests'[u] = requests[u]
      BY <2>1, Known
    <3>3. requests'[s].phase = "performed" /\ requests'[s].op = requests[s].op
      BY <3>2 DEF RequestType
    <3>4. SameLists(server', expected)
      BY <1>2, <2>1, <2>3, <3>1, ServedIs DEF UnderWay
    <3>5. SameLists(server', expected')
      BY <2>1, <3>4
    <3> QED BY <2>1, <2>3, <3>1, <3>2, <3>3, <3>5 DEF UnderWay
  <2>4. Regrouping => Regrouping'
    BY <1>2, <2>1, RegroupPerformed
  <2> QED BY <2>1, <2>2, <2>3, <2>4 DEF Promise
<1> QED BY <1>1, <1>2 DEF ServerActs

\* When every request of the bulk move is answered, every line is moved.
LEMMA RegroupedAll ==
    ASSUME Kept, Regrouping, expected # None, \A s \in bulk : requests[s].phase = "answered"
    PROVE  SameLists(server, expected)
<1>1. Proper(server) /\ expected \in Seq(Line) /\ DOMAIN expected = DOMAIN server
  BY Known DEF Kept, TypeOK, Regrouping
<1>2. ASSUME NEW i \in DOMAIN server PROVE expected[i] = server[i]
  <2>1. /\ expected[i].id = server[i].id /\ expected[i].value = server[i].value
        /\ {s \in bulk : requests[s].phase = "sent" /\ requests[s].id = server[i].id} = {}
           => expected[i].group = server[i].group
    BY DEF Regrouping
  <2>2. {s \in bulk : requests[s].phase = "sent" /\ requests[s].id = server[i].id} = {}
    OBVIOUS
  <2>3. expected[i] \in Line /\ server[i] \in Line
    BY <1>1 DEF Proper
  <2> QED BY <2>1, <2>2, <2>3 DEF Line
<1>3. Len(server) = Len(expected) /\ server \in Seq(Line)
  BY <1>1 DEF Proper
<1>4. \A i \in 1..Len(server) : server[i] = expected[i]
  BY <1>1, <1>2, <1>3
<1>5. server = expected
  BY <1>1, <1>3, <1>4, SeqEqual
<1> QED BY <1>1, <1>5, SameAsItself

\* What answers do: they ask for the lines and show them, or the promise is off.
LEMMA AnswersPromise == ASSUME Kept, Promise, Answers PROVE Promise'
<1> SUFFICES ASSUME expected' # None PROVE Promise'
  BY DEF Promise
<1>0. Asked.phase = "asked" /\ Idle.phase = "idle" /\ Free.phase = "free"
  BY DEF Asked, Idle, Free
<1>1. CASE FetchOk
  <2>1. /\ fetch.phase = "answered" /\ fetch' = Idle /\ view' = fetch.lines
        /\ UNCHANGED <<server, requests, bulk, expected>>
    BY <1>1 DEF FetchOk, forms
  <2>2. Delivered
    BY <1>0, <2>1 DEF Promise, Regrouping, UnderWay
  <2>3. Delivered'
    BY <1>0, <2>1, <2>2 DEF Delivered
  <2> QED BY <2>3 DEF Promise
<1>2. CASE BulkSucceed
  <2>1. /\ bulk # {} /\ \A s \in bulk : requests[s].phase = "answered"
        /\ requests' = [s \in Slots |-> IF s \in bulk THEN Free ELSE requests[s]]
        /\ fetch' = Asked /\ UNCHANGED <<server, view, expected>>
    BY <1>2 DEF BulkSucceed, Refetch, history
  <2>2. Regrouping /\ expected # None
    BY <2>1, PromisedOps DEF Promise, UnderWay
  <2>3. SameLists(server, expected)
    BY <2>1, <2>2, RegroupedAll
  <2>4. SameLists(server', expected')
    BY <2>1, <2>3
  <2>5. \A s \in Slots : requests'[s].phase = "free"
    BY <1>0, <2>1, <2>2 DEF Regrouping
  <2>6. Delivered'
    BY <1>0, <2>1, <2>4, <2>5 DEF Delivered
  <2> QED BY <2>6 DEF Promise
<1>3. ASSUME NEW s \in Slots, Succeed(s) PROVE Promise'
  <2>1. /\ requests[s].phase = "performed" /\ requests[s].op \in {"move", "edit", "add", "delete"}
        /\ requests' = [requests EXCEPT ![s] = Free] /\ fetch' = Asked
        /\ UNCHANGED <<server, view, expected>>
    BY <1>3 DEF Succeed, Refetch, history
  <2>2. UnderWay(s)
    BY <2>1, PromisedOps DEF Promise
  <2>3. SameLists(server', expected')
    BY <2>1, <2>2 DEF UnderWay
  <2>4. \A t \in Slots : requests'[t].phase = "free"
    BY <1>0, <2>1, <2>2, Known DEF UnderWay
  <2>5. Delivered'
    BY <1>0, <2>1, <2>3, <2>4 DEF Delivered
  <2> QED BY <2>5 DEF Promise
<1>4. ASSUME NEW s \in Slots, Unheeded(s) PROVE FALSE
  <2>1. requests[s].op = "loose" /\ expected # None
    BY <1>4 DEF Unheeded
  <2> QED BY <2>1, PromisedOps DEF Promise, UnderWay
<1>5. ASSUME NEW s \in Slots, BulkAnswer(s) PROVE Promise'
  <2>1. /\ s \in bulk /\ requests[s].phase = "performed"
        /\ requests' = [requests EXCEPT ![s].phase = "answered"]
        /\ UNCHANGED <<server, view, fetch, bulk, expected>>
    BY <1>5 DEF BulkAnswer, page, forms, history
  <2>2. Regrouping /\ expected # None
    BY <2>1, PromisedOps DEF Promise, UnderWay
  <2>3. /\ requests'[s] = [requests[s] EXCEPT !.phase = "answered"]
        /\ requests[s] \in RequestType
        /\ \A u \in Slots : u # s => requests'[u] = requests[u]
    BY <2>1, Known
  <2>4. /\ requests'[s].phase = "answered" /\ requests'[s].id = requests[s].id
        /\ requests'[s].group = requests[s].group
    BY <2>3 DEF RequestType
  <2>5. bulk \subseteq Slots
    BY Known
  <2>6. ASSUME NEW id
        PROVE  {t \in bulk : requests[t].phase = "sent" /\ requests[t].id = id}
               = {t \in bulk' : requests'[t].phase = "sent" /\ requests'[t].id = id}
    BY <2>1, <2>3, <2>4, <2>5
  <2>7. /\ \A t \in Slots \ bulk' : requests'[t].phase = "free"
        /\ \A t, u \in bulk' : requests'[t].id = requests'[u].id => t = u
        /\ \A t \in bulk' : requests'[t].group = requests[t].group
    BY <2>1, <2>2, <2>3, <2>4, <2>5 DEF Regrouping
  <2>8. Regrouping'
    BY <2>1, <2>2, <2>6, <2>7 DEF Regrouping
  <2> QED BY <2>8 DEF Promise
<1>6. ~FetchFails /\ \A s \in Slots : ~Fail(s) /\ ~BulkFail(s)
  BY DEF FetchFails, Fail, BulkFail
<1> QED BY <1>1, <1>2, <1>3, <1>4, <1>5, <1>6 DEF Answers

\* Every step.
LEMMA PromiseKept == Kept /\ Promise /\ [Next]_vars => Kept' /\ Promise'
<1> SUFFICES ASSUME Kept, Promise, [Next]_vars PROVE Promise'
  BY TypesKept
<1>1. CASE OtherWriter
  BY <1>1 DEF OtherWriter, Promise
<1>2. CASE UNCHANGED vars
  BY <1>2, UntouchedPromise DEF vars, page, history, forms
<1> QED BY <1>1, <1>2, UserPromises, ServerPromises, AnswersPromise DEF Next

\* An operation that met a page at rest and current, and was not refused, has
\* done when the page rests again just what the page submitted (a move exchanged
\* two lines of one group's list, a saved line has what its form held and keeps
\* what it had where a field was emptied, Move Selected moved every selected
\* line), and the page shows what the server has.
THEOREM SubmittedIsDone == Spec => []SubmittedTakesEffect
<1>1. Init => Promise
  BY DEF Init, Promise
<1>2. Kept /\ Promise => SubmittedTakesEffect
  <2> SUFFICES ASSUME Kept, Promise, expected # None, AtRest
               PROVE  SameLists(server, expected) /\ view = server
    BY DEF SubmittedTakesEffect
  <2>1. bulk = {} /\ fetch = Idle /\ \A t \in Slots : requests[t].phase = "free"
    BY RestIsFree
  <2>2. Delivered
    BY <2>1 DEF Promise, Regrouping, UnderWay
  <2> QED BY <2>1, <2>2 DEF Delivered, Idle
<1> QED BY <1>1, <1>2, KeptInitially, PromiseKept, PTL DEF Spec
====
