---- MODULE WebClient ----
(***************************************************************************)
(* One browser tab of the web client: its pages, the operations they send  *)
(* to the API, and the query cache through which they show the API's data. *)
(*                                                                         *)
(* Cached queries do not affect one another, so a behaviour follows one    *)
(* query, named by key.  Its data are abstracted to a number: how many of  *)
(* the writes that change the query's answer the server had performed when *)
(* it read the answer.  The cache is TanStack Query, an external library,  *)
(* modelled as lib/queryClient.ts configures it and the pages use it.  An  *)
(* abandoned request changes nothing on either side and is left out.       *)
(***************************************************************************)
EXTENDS Naturals, FiniteSets

CONSTANTS
    Watched,   \* the queries to follow
    Visited,   \* the pages to visit
    Slots,     \* operations that can be under way at the same time
    NoData,
    MaxWrites  \* bound: writes that change the followed query

Keys ==
    {"estimates", "estimate", "proposal", "proposal-public", "profile", "templates",
     "catalog-tree", "catalog-search", "billing-subscription", "billing-provider",
     "billing-policy", "billing-ledger", "admin-summary", "admin-users",
     "admin-activity", "admin-billing-ledger"}

\* The queries a page keeps mounted.  "adding" is the detail page with its
\* catalog picker open; the search term followed is the one typed.
Mounts ==
    [dashboard |-> {"estimates", "billing-subscription"},
     list      |-> {"estimates"},
     detail    |-> {"estimate", "profile"},
     adding    |-> {"estimate", "profile", "catalog-tree", "catalog-search"},
     proposal  |-> {"proposal"},
     catalog   |-> {"catalog-tree", "catalog-search"},
     templates |-> {"templates", "estimates"},
     billing   |-> {"billing-subscription", "billing-provider", "billing-policy",
                    "billing-ledger"},
     settings  |-> {"profile"},
     admin     |-> {"admin-summary", "admin-users", "admin-activity", "admin-billing-ledger"},
     public    |-> {"proposal-public"}]

Pages == DOMAIN Mounts

ASSUME WebClientConstants ==
    /\ Watched \subseteq Keys
    /\ Visited \subseteq Pages /\ "list" \in Visited
    /\ NoData \notin 0..MaxWrites
    /\ MaxWrites \in Nat

\* The operations a page offers.  "edit" is every change of one estimate or
\* its lines, and making a copy or a version of it.
Offers ==
    [p \in Pages |->
        CASE p = "list" -> {"create"}
          [] p = "detail" -> {"edit", "delete"}
          [] p = "adding" -> {"edit", "delete"}
          [] p = "catalog" -> {"upsert"}
          [] p = "templates" -> {"apply"}
          [] p = "billing" -> {"bill"}
          [] p = "settings" -> {"profile", "restore"}
          [] p = "admin" -> {"reset", "prune"}
          [] OTHER -> {}]

Kinds == UNION {Offers[p] : p \in Pages}

\* Operations whose only button is disabled while one is pending.
OneAtATime == {"create", "delete", "upsert", "apply", "profile", "restore", "reset", "prune"}

\* The queries of whose answers the server's handler changes what pages show.
Touches ==
    [k \in Kinds |->
        LET work == {"estimates", "admin-summary", "admin-users", "admin-activity"}
        IN  CASE k = "create" -> work
              [] k \in {"edit", "apply", "delete"} -> work \cup {"estimate", "proposal", "proposal-public"}
              [] k = "profile" -> {"profile", "admin-users", "admin-activity"}
              [] k = "restore" -> work
              [] k = "upsert" -> {"catalog-tree", "catalog-search", "admin-activity"}
              [] k = "bill" -> {"billing-subscription", "billing-ledger", "admin-summary",
                                "admin-users", "admin-activity", "admin-billing-ledger"}
              [] k = "prune" -> {"admin-activity"}
              [] k = "reset" -> Keys \ {"billing-provider", "billing-policy"}]

\* For comparison: a run of billing renews the subscription only, and an edit
\* of a line renews the list only.
InvalidatesNoLedger ==
    [k \in Kinds |->
        CASE k \in {"create", "apply", "delete"} -> {"estimates"}
          [] k = "edit" -> {"estimate", "estimates"}
          [] k = "profile" -> {"profile"}
          [] k \in {"restore", "reset"} -> Keys
          [] k = "upsert" -> {"catalog-tree", "catalog-search"}
          [] k = "bill" -> {"billing-subscription"}
          [] k = "prune" -> {"admin-activity"}]

InvalidatesNoEstimate ==
    [InvalidatesNoLedger EXCEPT !["bill"] = {"billing-subscription", "billing-ledger"},
                                !["edit"] = {"estimates"}]

\* The queries invalidated when the operation's answer arrives.
Invalidates ==
    [k \in Kinds |->
        CASE k \in {"create", "apply", "delete"} -> {"estimates"}
          [] k = "edit" -> {"estimate", "estimates"}
          [] k = "profile" -> {"profile"}
          [] k \in {"restore", "reset"} -> Keys
          [] k = "upsert" -> {"catalog-tree", "catalog-search"}
          [] k = "bill" -> {"billing-subscription", "billing-ledger"}
          [] k = "prune" -> {"admin-activity"}]

VARIABLES
    key,      \* the query followed
    page,
    version,  \* writes the server has performed
    gone,     \* the estimate of the detail and proposal pages was deleted
    cache,    \* the data in the cache, as of this version
    invalid,  \* ... is marked for a new fetch
    old,      \* ... is older than staleTime
    fetch,    \* the request for the query
    ops,      \* the operations under way
    owed,     \* history: latest write acknowledged to this tab that key should show
    overtaken \* history: that answer found an earlier read on its way, and left it

answers == <<cache, invalid, old>>
history == <<owed, overtaken>>
vars == <<key, page, version, gone, answers, fetch, ops, history>>

Versions == 0..MaxWrites

Free == [kind |-> "none", phase |-> "free", at |-> 0, here |-> FALSE]

\* A request that is not served yet, with the retries left.
Asked(tries) == [phase |-> "asked", at |-> 0, tries |-> tries]
Idle == [phase |-> "idle", at |-> 0, tries |-> 0]
Failed == [phase |-> "failed", at |-> 0, tries |-> 0]

TypeOK ==
    /\ key \in Watched /\ page \in Visited
    /\ version \in Versions /\ owed \in 0..version
    /\ cache \in {NoData} \cup 0..version
    /\ invalid \in BOOLEAN /\ old \in BOOLEAN /\ gone \in BOOLEAN /\ overtaken \in BOOLEAN
    /\ fetch \in [phase : {"idle", "failed", "asked", "answered"}, at : 0..version, tries : 0..1]
    /\ ops \in [Slots -> [kind : Kinds \cup {"none"}, at : 0..version, here : BOOLEAN,
                          phase : {"free", "sent", "performed"}]]

Mounted == key \in Mounts[page]
InFlight == fetch.phase \in {"asked", "answered"}

\* retry: 1
Fetching == Asked(1)

Init ==
    /\ key \in Watched
    /\ page \in Visited
    /\ version = 0
    /\ gone = FALSE
    /\ cache = NoData /\ invalid = FALSE /\ old = FALSE
    /\ fetch = IF Mounted THEN Fetching ELSE Idle
    /\ ops = [s \in Slots |-> Free]
    /\ owed = 0
    /\ overtaken = FALSE

-----------------------------------------------------------------------------
\* The query.

Stale == cache = NoData \/ invalid \/ old

\* A page that is opened fetches what is stale, or joins the running fetch.
\* Opening the catalog picker remounts nothing of the detail page.
Visit(p) ==
    /\ p # page
    /\ page' = p
    /\ LET remounts ==
            /\ key \in Mounts[p]
            /\ ~({p, page} = {"detail", "adding"} /\ Mounted)
       IN  fetch' = IF remounts /\ Stale /\ ~InFlight THEN Fetching ELSE fetch
    /\ ops' = [s \in Slots |->
                IF {p, page} = {"detail", "adding"} THEN ops[s] ELSE [ops[s] EXCEPT !.here = FALSE]]
    /\ UNCHANGED <<key, version, gone, answers, history>>

\* The window reloads, by hand or back from a checkout page to which a
\* subscription was redirected; requests under way are no longer waited for.
Reload ==
    /\ cache' = NoData /\ invalid' = FALSE /\ old' = FALSE
    /\ fetch' = IF Mounted THEN Fetching ELSE Idle
    /\ ops' = [s \in Slots |-> Free]
    /\ overtaken' = FALSE
    /\ UNCHANGED <<key, page, version, gone, owed>>

Readable == ~(gone /\ key \in {"estimate", "proposal", "proposal-public"})

ServeFetch ==
    /\ fetch.phase = "asked"
    /\ Readable
    /\ fetch' = [fetch EXCEPT !.phase = "answered", !.at = version]
    /\ UNCHANGED <<key, page, version, gone, answers, ops, history>>

FetchOk ==
    /\ fetch.phase = "answered"
    /\ cache' = fetch.at /\ invalid' = FALSE /\ old' = FALSE
    /\ fetch' = Idle
    /\ overtaken' = (overtaken /\ fetch.at < owed)
    /\ UNCHANGED <<key, page, version, gone, ops, owed>>

\* A failed request is retried while a page waits for it.  Otherwise the data
\* stay, marked for a new fetch.
FetchFails ==
    /\ InFlight
    /\ IF fetch.tries > 0 /\ Mounted
       THEN fetch' = Asked(fetch.tries - 1) /\ UNCHANGED <<invalid, overtaken>>
       ELSE fetch' = Failed /\ invalid' = TRUE /\ overtaken' = FALSE
    /\ UNCHANGED <<key, page, version, gone, cache, old, ops, owed>>

\* staleTime passes.
Age ==
    /\ cache # NoData
    /\ old' = TRUE
    /\ UNCHANGED <<key, page, version, gone, cache, invalid, fetch, ops, history>>

\* gcTime passes with no page showing the query.
Collect ==
    /\ ~Mounted /\ ~InFlight
    /\ cache' = NoData /\ invalid' = FALSE /\ old' = FALSE
    /\ fetch' = Idle
    /\ overtaken' = FALSE
    /\ UNCHANGED <<key, page, version, gone, ops, owed>>

\* The network is back.
Reconnect ==
    /\ Mounted /\ Stale
    /\ ~InFlight
    /\ fetch' = Fetching
    /\ UNCHANGED <<key, page, version, gone, answers, ops, history>>

-----------------------------------------------------------------------------
\* The operations.

Concerns(kind) == key \in Touches[kind] \cup Invalidates[kind]

\* A button is pressed.
Start(s, kind) ==
    /\ ops[s].phase = "free"
    /\ kind \in Offers[page] /\ Concerns(kind)
    /\ kind \in OneAtATime => ~\E t \in Slots : ops[t].kind = kind /\ ops[t].here
    /\ ops' = [ops EXCEPT ![s] = [kind |-> kind, phase |-> "sent", at |-> 0,
                                    here |-> kind \in OneAtATime]]
    /\ UNCHANGED <<key, page, version, gone, answers, fetch, history>>

\* The server performs it.  A dry run, a replay or an unchanged value changes nothing.
Perform(s) ==
    /\ ops[s].phase = "sent"
    /\ gone => ops[s].kind \notin {"edit", "delete", "apply"}
    /\ \/ version' = version
       \/ key \in Touches[ops[s].kind] /\ version < MaxWrites /\ version' = version + 1
    /\ ops' = [ops EXCEPT ![s].phase = "performed", ![s].at = version']
    /\ gone' = (gone \/ ops[s].kind = "delete")
    /\ UNCHANGED <<key, page, answers, fetch, history>>

\* It is refused, or its answer is lost: a message, and nothing is invalidated.
Fail(s) ==
    /\ ops[s].phase # "free"
    /\ ops' = [ops EXCEPT ![s] = Free]
    /\ UNCHANGED <<key, page, version, gone, answers, fetch, history>>

Later(a, b) == IF a < b THEN b ELSE a

\* invalidateQueries: the page that shows the data fetches them again, and a
\* running fetch is started anew unless there are no data yet.
Refetched == IF Mounted /\ (~InFlight \/ cache # NoData) THEN Fetching ELSE fetch

\* An earlier read is on its way, which is not started anew.
Overtakes(at) ==
    (~Mounted \/ cache = NoData) /\ fetch.phase = "answered" /\ fetch.at < at

\* The queries that should show the operation: those of its own page, and
\* whatever else its answer invalidates.
Expected(kind) ==
    Invalidates[kind] \cup
        (Touches[kind] \cap UNION {Mounts[p] : p \in {q \in Pages : kind \in Offers[q]}})

\* onSuccess, also when the operation's page has been left.
Succeed(s) ==
    LET kind == ops[s].kind
        marks == key \in Invalidates[kind]
    IN  /\ ops[s].phase = "performed"
        /\ kind # "delete"
        /\ invalid' = (invalid \/ marks)
        /\ fetch' = IF marks THEN Refetched ELSE fetch
        /\ owed' = IF key \in Expected(kind) THEN Later(owed, ops[s].at) ELSE owed
        /\ overtaken' = (overtaken \/ (marks /\ Overtakes(ops[s].at)))
        /\ ops' = [ops EXCEPT ![s] = Free]
        /\ UNCHANGED <<key, page, version, gone, cache, old>>

\* The deleted estimate leaves the cache, and the list opens.
Deleted(s) ==
    /\ ops[s].phase = "performed"
    /\ ops[s].kind = "delete"
    /\ page' = "list"
    /\ ops' = [[t \in Slots |-> [ops[t] EXCEPT !.here = @ /\ page = "list"]] EXCEPT ![s] = Free]
    /\ \/ /\ key = "estimates"
          /\ invalid' = TRUE
          /\ fetch' = IF page # "list" /\ ~InFlight THEN Fetching ELSE Refetched
          /\ owed' = Later(owed, ops[s].at)
          /\ overtaken' = (overtaken \/ Overtakes(ops[s].at))
          /\ UNCHANGED <<cache, old>>
       \/ /\ key = "estimate"
          /\ cache' = NoData /\ invalid' = FALSE /\ old' = FALSE
          /\ fetch' = Idle
          /\ overtaken' = FALSE
          /\ UNCHANGED owed
       \/ /\ key \notin {"estimate", "estimates"}
          /\ UNCHANGED <<answers, fetch, history>>
    /\ UNCHANGED <<key, version, gone>>

\* Another tab, another user or a webhook writes.
OtherWriter ==
    /\ version < MaxWrites
    /\ version' = version + 1
    /\ UNCHANGED <<key, page, gone, answers, fetch, ops, history>>

-----------------------------------------------------------------------------
Answers == FetchOk \/ FetchFails

Next ==
    \/ \E p \in Visited : Visit(p)
    \/ Reload \/ Age \/ Collect \/ Reconnect \/ OtherWriter
    \/ ServeFetch \/ Answers
    \/ \E s \in Slots :
        \/ \E kind \in Kinds : Start(s, kind)
        \/ Perform(s) \/ Fail(s) \/ Succeed(s) \/ Deleted(s)

\* The server answers or the connection breaks; nobody has to press anything.
Spec == Init /\ [][Next]_vars /\ WF_vars(ServeFetch) /\ WF_vars(Answers)

-----------------------------------------------------------------------------
\* Data that the cache takes for valid contain every write acknowledged to
\* this tab that its own page shows or its answer invalidates, in whatever
\* order requests are served and answered, unless an earlier read was on its
\* way that invalidateQueries does not cancel.
ValidDataAreCurrent ==
    cache # NoData /\ ~invalid /\ ~overtaken => owed <= cache

\* Unless the user goes on without end to reload or to finish operations, each
\* of which starts the request anew, a page that shows the query comes to
\* show every such write, or that the request failed.
AcknowledgedIsShown ==
    \/ []<><<Reload \/ \E s \in Slots : Succeed(s) \/ Deleted(s)>>_vars
    \/ \A n \in 1..MaxWrites :
        owed >= n ~> \/ cache # NoData /\ cache >= n
                     \/ overtaken
                     \/ ~Mounted
                     \/ fetch.phase = "failed"
====
