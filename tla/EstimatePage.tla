---- MODULE EstimatePage ----
(***************************************************************************)
(* The estimate page of the web client (EstimateDetailPage, with its line  *)
(* editor) against the server: a user who moves, edits, adds, deletes and  *)
(* regroups lines through a view of the estimate that is fetched anew      *)
(* after each operation.                                                   *)
(*                                                                         *)
(* The server serves each request at once (module Estimates has its        *)
(* steps), in any order, and answers arrive in any order.  A line is its   *)
(* group and one value, which stands for any of its other fields.  The     *)
(* page has its estimate; module WebClient has the loading and the life of *)
(* the cache.                                                              *)
(***************************************************************************)
EXTENDS Naturals, FiniteSets, SequencesExt, Functions

CONSTANTS
    Groups,
    Values,
    Shown,   \* value -> what the editor's form makes of it: two decimals
    Blank,   \* what a field of the form holds that the user has emptied
    None,    \* no value: a field that a request leaves out, no line, no request
    Slots,   \* requests that can be under way at the same time
    Given,   \* how many lines the estimate has at the start
    MaxLines,    \* bound: lines ever made
    MaxRequests, \* bound: requests of the page, and writes of others
    MaxChanged   \* bound: fields changed in one edit

ASSUME EstimatePageConstants ==
    /\ Given \in Nat /\ MaxLines \in Nat /\ MaxRequests \in Nat /\ MaxChanged \in Nat
    /\ Given <= MaxLines
    /\ Shown \in [Values -> Values] /\ \A v \in Values : Shown[Shown[v]] = Shown[v]
    /\ None \notin Values \cup Groups \cup (1..MaxLines)
    /\ Blank \notin Values \cup Groups

Ids == 1..MaxLines
Line == [id : Ids, group : Groups, value : Values]

VARIABLES
    server,   \* the estimate's lines in their order
    made,     \* lines ever made
    sent,     \* requests ever sent
    view,     \* the lines as the page has them
    fetch,    \* the request for them
    requests,
    bulk,     \* the lines of the pending "Move Selected", or none
    editor,   \* the line as it was when the editor opened, or None
    saving,   \* the editor's own request, or None
    expected, \* history: what the user's last operation has to make of the lines,
              \* if it met a page at rest and current and nothing went wrong
    unseen    \* history: a change that no answer told the page of

page == <<view, fetch>>
forms == <<bulk, editor, saving>>
history == <<expected, unseen>>
vars == <<server, made, sent, page, requests, forms, history>>

IdsOf(lines) == {lines[i].id : i \in DOMAIN lines}
At(lines, id) == CHOOSE i \in DOMAIN lines : lines[i].id = id

\* The page lists the lines of each group in their order: two estimates show
\* the same lists if they have the same lines, in the same order within a group.
SameLists(some, others) ==
    /\ Range(some) = Range(others)
    /\ \A i, j \in DOMAIN some, k, l \in DOMAIN others :
        /\ i < j /\ some[i].group = some[j].group
        /\ some[i] = others[k] /\ some[j] = others[l]
        => k < l

Free == [op |-> "none", id |-> None, to |-> 0, group |-> None, value |-> None, phase |-> "free"]
Idle == [phase |-> "idle", lines |-> <<>>]
Asked == [phase |-> "asked", lines |-> <<>>]

Unused == {s \in Slots : requests[s].phase = "free"}
Pending(op) == \E s \in Slots : requests[s].op = op
AtRest == Unused = Slots /\ fetch = Idle
Current == AtRest /\ view = server

TypeOK ==
    /\ server \in Seq(Line) /\ view \in Seq(Line) /\ (expected = None \/ expected \in Seq(Line))
    /\ made \in Given..MaxLines /\ sent \in 0..MaxRequests
    /\ fetch.phase \in {"idle", "asked", "answered"}
    /\ requests \in [Slots ->
            [op : {"none", "move", "edit", "add", "delete", "regroup", "loose"},
             id : Ids \cup {None}, to : 0..MaxLines, group : Groups \cup {None},
             value : Values \cup {None}, phase : {"free", "sent", "performed", "answered"}]]
    /\ bulk \subseteq Slots
    /\ editor \in Line \cup {None}
    /\ saving \in Slots \cup {None} /\ (editor = None => saving = None)
    /\ unseen \in BOOLEAN

Init ==
    /\ \E group \in [1..Given -> Groups], v \in Values :
        server = [i \in 1..Given |-> [id |-> i, group |-> group[i], value |-> v]]
    /\ made = Given /\ sent = 0
    /\ view = server
    /\ fetch = Idle
    /\ requests = [s \in Slots |-> Free]
    /\ bulk = {} /\ editor = None /\ saving = None
    /\ expected = None /\ unseen = FALSE

-----------------------------------------------------------------------------
\* What the server makes of the lines.

\* Mutated: fields that the request leaves out are cleared.
EditedWhole(lines, id, group, value) ==
    [i \in DOMAIN lines |->
        IF lines[i].id # id THEN lines[i] ELSE [id |-> id, group |-> group, value |-> value]]

\* edit_line_item: fields that the request leaves out stay.
Edited(lines, id, group, value) ==
    [i \in DOMAIN lines |->
        IF lines[i].id # id THEN lines[i]
        ELSE [id |-> id,
              group |-> IF group = None THEN lines[i].group ELSE group,
              value |-> IF value = None THEN lines[i].value ELSE value]]

Without(lines, id) == RemoveAt(lines, At(lines, id))

\* reorder_line_item: the index, counted from 1 here, is cut to the lines there are.
Moved(lines, id, to) ==
    InsertAt(Without(lines, id), IF to > Len(lines) THEN Len(lines) ELSE to,
             lines[At(lines, id)])

Served(r) ==
    CASE r.op = "move" -> Moved(server, r.id, r.to)
      [] r.op \in {"edit", "regroup", "loose"} -> Edited(server, r.id, r.group, r.value)
      [] r.op = "delete" -> Without(server, r.id)
      [] r.op = "add" -> Append(server, [id |-> made', group |-> r.group, value |-> r.value])

-----------------------------------------------------------------------------
\* The user.

\* The outcome is judged if the action meets a page at rest and current.
Judge(outcome) ==
    /\ expected' = IF Current /\ (editor # None => editor \in {view[i] : i \in DOMAIN view})
                   THEN outcome ELSE None
    /\ UNCHANGED unseen

Send(s, r, outcome) ==
    /\ sent < MaxRequests /\ sent' = sent + 1
    /\ requests' = [requests EXCEPT ![s] = r]
    /\ Judge(outcome)
    /\ UNCHANGED <<server, made, page>>

\* The list is behind the editor and the dialog.
ListIsFree == editor = None /\ ~Pending("delete")

Together(i, j) == view[i].group = view[j].group

\* The line shown next to this one, below or above it: the nearest of its group.
IsNeighbour(i, j, down) ==
    /\ IF down THEN i < j ELSE j < i
    /\ Together(i, j)
    /\ \A k \in DOMAIN view : (i < k /\ k < j) \/ (j < k /\ k < i) => ~Together(i, k)

Swapped(lines, a, b) ==
    [lines EXCEPT ![At(lines, a)] = lines[At(lines, b)], ![At(lines, b)] = lines[At(lines, a)]]

\* Mutated: the neighbour's index is taken within its group.
IndexInGroup(id) == Cardinality({i \in 1..At(view, id) : Together(i, At(view, id))})

\* lineIndexById
IndexOf(id) == At(view, id)

\* Move up, move down; the buttons stay enabled while a move is pending.
Move(s, id, other, down) ==
    /\ ListIsFree
    /\ IsNeighbour(At(view, id), At(view, other), down)
    /\ Send(s, [Free EXCEPT !.op = "move", !.phase = "sent", !.id = id, !.to = IndexOf(other)],
            Swapped(view, id, other))
    /\ UNCHANGED forms

OpenEditor(id) ==
    /\ ListIsFree
    /\ editor' = view[At(view, id)]
    /\ UNCHANGED <<server, made, sent, page, requests, bulk, saving, history>>

\* The buttons that close the editor stay enabled while it saves.
CloseEditor ==
    /\ editor # None
    /\ editor' = None /\ saving' = None
    /\ UNCHANGED <<server, made, sent, page, requests, bulk, history>>

\* parseDecimalOrUndefined, `|| undefined`: an emptied field is left out.
OrUndefined(field) == IF field = Blank THEN None ELSE field

\* The line that the form submits: an emptied field is as it was.
Filled(group, value) ==
    [editor EXCEPT !.group = IF group = Blank THEN @ ELSE group,
                   !.value = IF value = Blank THEN @ ELSE value]

\* How many fields differ from what the form showed when it opened.
Changed(group, value) == Cardinality({<<"group", group>>, <<"value", value>>}
                            \ {<<"group", editor.group>>, <<"value", Shown[editor.value]>>})

\* The form is sent as a whole, the fields that the user left alone with the rest.
Save(s, group, value) ==
    /\ editor # None
    /\ saving = None
    /\ Changed(group, value) <= MaxChanged
    /\ Send(s, [Free EXCEPT !.op = "edit", !.phase = "sent", !.id = editor.id,
                            !.group = OrUndefined(group), !.value = OrUndefined(value)],
            [view EXCEPT ![At(view, editor.id)] = Filled(group, value)])
    /\ saving' = s
    /\ UNCHANGED <<bulk, editor>>

Add(s, group, value) ==
    /\ ListIsFree
    /\ ~Pending("add")
    /\ made < MaxLines
    /\ Send(s, [Free EXCEPT !.op = "add", !.phase = "sent", !.group = group, !.value = value],
            Append(view, [id |-> made + 1, group |-> group, value |-> value]))
    /\ UNCHANGED forms

\* Confirmed in a dialog, which stays until the answer.
Delete(s, id) ==
    /\ ListIsFree
    /\ Send(s, [Free EXCEPT !.op = "delete", !.phase = "sent", !.id = id], Without(view, id))
    /\ UNCHANGED forms

\* Move Selected: one request for each line, all at once.  The selection is
\* pruned to the lines on the page, so it can be any of them.
MoveSelected(ids, group) ==
    /\ ListIsFree
    /\ ids # {} /\ bulk = {}
    /\ sent + Cardinality(ids) <= MaxRequests /\ sent' = sent + Cardinality(ids)
    /\ \E to \in [ids -> Unused] :
        /\ IsInjective(to)
        /\ requests' = [s \in Slots |->
                IF \E id \in ids : to[id] = s
                THEN [Free EXCEPT !.op = "regroup", !.phase = "sent", !.group = group,
                                  !.id = CHOOSE id \in ids : to[id] = s]
                ELSE requests[s]]
        /\ bulk' = {to[id] : id \in ids}
    /\ Judge([i \in DOMAIN view |->
                IF view[i].id \in ids THEN [view[i] EXCEPT !.group = group] ELSE view[i]])
    /\ UNCHANGED <<server, made, page, editor, saving>>

-----------------------------------------------------------------------------
\* Requests.

Perform(s) ==
    LET r == requests[s]
    IN  /\ r.phase = "sent"
        /\ IF r.op = "add"
           THEN made < MaxLines /\ made' = made + 1
           ELSE r.id \in IdsOf(server) /\ made' = made
        /\ server' = Served(r)
        /\ requests' = [requests EXCEPT ![s].phase = "performed"]
        /\ UNCHANGED <<sent, page, forms, history>>

\* Mutated: cancelRefetch: false.
RefetchUnlessRunning == fetch' = IF fetch = Idle THEN Asked ELSE fetch

\* invalidateQueries
Refetch == fetch' = Asked

\* onSuccess of a single operation.  A saved form closes the editor, whichever
\* line that is open on by now.
Succeed(s) ==
    LET r == requests[s]
    IN  /\ r.phase = "performed"
        /\ r.op \in {"move", "edit", "add", "delete"}
        /\ Refetch
        /\ requests' = [requests EXCEPT ![s] = Free]
        /\ IF r.op = "edit" THEN editor' = None /\ saving' = None
           ELSE UNCHANGED <<editor, saving>>
        /\ UNCHANGED <<server, made, sent, view, bulk, history>>

\* onError: a message.  The server refused, or its answer is lost.
Fail(s) ==
    /\ requests[s].phase \in {"sent", "performed"}
    /\ requests[s].op \in {"move", "edit", "add", "delete"}
    /\ requests' = [requests EXCEPT ![s] = Free]
    /\ saving' = IF saving = s THEN None ELSE saving
    /\ expected' = None
    /\ unseen' = (unseen \/ requests[s].phase = "performed")
    /\ UNCHANGED <<server, made, sent, page, bulk, editor>>

\* Promise.all over the requests of a bulk move.
BulkAnswer(s) ==
    /\ s \in bulk /\ requests[s].phase = "performed"
    /\ requests' = [requests EXCEPT ![s].phase = "answered"]
    /\ UNCHANGED <<server, made, sent, page, forms, history>>

BulkSucceed ==
    /\ bulk # {} /\ \A s \in bulk : requests[s].phase = "answered"
    /\ Refetch
    /\ requests' = [s \in Slots |-> IF s \in bulk THEN Free ELSE requests[s]]
    /\ bulk' = {}
    /\ UNCHANGED <<server, made, sent, view, editor, saving, history>>

\* The first failure settles it; requests still under way go on unheeded.
BulkFail(s) ==
    /\ s \in bulk /\ requests[s].phase \in {"sent", "performed"}
    /\ requests' = [t \in Slots |->
            IF t = s \/ (t \in bulk /\ requests[t].phase = "answered") THEN Free
            ELSE IF t \in bulk THEN [requests[t] EXCEPT !.op = "loose"] ELSE requests[t]]
    /\ bulk' = {}
    /\ expected' = None
    /\ unseen' = (unseen \/ \E t \in bulk : requests[t].phase # "sent" \/ t # s)
    /\ UNCHANGED <<server, made, sent, page, editor, saving>>

Unheeded(s) ==
    /\ requests[s].op = "loose"
    /\ requests' = [requests EXCEPT ![s] = Free]
    /\ unseen' = (unseen \/ requests[s].phase = "performed")
    /\ UNCHANGED <<server, made, sent, page, forms, expected>>

ServeFetch ==
    /\ fetch.phase = "asked"
    /\ fetch' = [phase |-> "answered", lines |-> server]
    /\ UNCHANGED <<server, made, sent, view, requests, forms, history>>

FetchOk ==
    /\ fetch.phase = "answered"
    /\ view' = fetch.lines
    /\ fetch' = Idle
    /\ unseen' = (unseen /\ view' # server)
    /\ UNCHANGED <<server, made, sent, requests, forms, expected>>

FetchFails ==
    /\ fetch.phase # "idle"
    /\ fetch' = Idle
    /\ expected' = None
    /\ unseen' = TRUE
    /\ UNCHANGED <<server, made, sent, view, requests, forms>>

\* Another tab or user edits a line.
OtherWriter ==
    /\ \E id \in IdsOf(server), v \in Values : server' = Edited(server, id, None, v)
    /\ sent < MaxRequests /\ sent' = sent + 1
    /\ expected' = None /\ unseen' = TRUE
    /\ UNCHANGED <<made, page, requests, forms>>

-----------------------------------------------------------------------------
UserActs ==
    \/ CloseEditor \/ \E id \in IdsOf(view) : OpenEditor(id)
    \/ \E ids \in SUBSET IdsOf(view), g \in Groups : MoveSelected(ids, g)
    \/ \E s \in Unused :
        \/ \E id \in IdsOf(view) :
            \/ Delete(s, id)
            \/ \E other \in IdsOf(view), down \in BOOLEAN : Move(s, id, other, down)
        \/ \E g \in Groups, v \in Values : Add(s, g, v)
        \/ \E g \in Groups \cup {Blank}, v \in Values \cup {Blank} : Save(s, g, v)

ServerActs == ServeFetch \/ \E s \in Slots : Perform(s)

Answers ==
    \/ FetchOk \/ FetchFails \/ BulkSucceed
    \/ \E s \in Slots : Succeed(s) \/ Fail(s) \/ BulkAnswer(s) \/ BulkFail(s) \/ Unheeded(s)

Next == UserActs \/ ServerActs \/ Answers \/ OtherWriter

Spec == Init /\ [][Next]_vars

-----------------------------------------------------------------------------
\* An operation that met a page at rest and current, and was not refused, has
\* done what the page submitted and nothing else.  A move has exchanged two
\* neighbours of one group's list and disturbed no other list; a saved line has
\* what its form held, rounded as the form shows it, and where a field had been
\* emptied, what it had before, although the page says "updated"; Move Selected
\* has moved all the selected lines.  And when the page rests again it shows
\* what the server has.
SubmittedTakesEffect ==
    expected # None /\ AtRest => SameLists(server, expected) /\ view = server

\* However hasty the user is and in whatever order requests are performed,
\* answered and overtaken by others, a page at rest shows what the server
\* has, unless something changed of which no answer told it.
ViewCatchesUp == AtRest /\ ~unseen => view = server
====
