----------------------------- MODULE PanelLists -----------------------------
(***************************************************************************)
(* What the lists of the panel show.  The clients, groups and inbounds     *)
(* pages read through one query cache; their own writes invalidate parts   *)
(* of it, and the websocket brings invalidations and lists for the writes  *)
(* of everybody.  On the clients page the search box, the filters, the     *)
(* sort order and the pager decide which list is asked for.                *)
(* `gap` is history only: whether a push was missed so far (1), or a read    *)
(* failed or was overtaken (2).                                             *)
(***************************************************************************)
EXTENDS QueryCache

CONSTANTS Searches,     \* what can be typed, "" included
          Sorts,        \* the sort orders offered
          FirstSort,    \* the one a fresh page starts with
          Criteria,     \* the filters the server applies
          Ranges,       \* the time ranges of the violation filter, "" included
          MaxWrites,    \* bound: writes of everybody
          MaxEvents     \* bound: inputs, visits, writes, faults and pushes together

ASSUME ListsAssumption ==
  /\ "" \in Searches /\ FirstSort \in Sorts
  /\ MaxWrites \in Nat /\ MaxEvents \in Nat

VARIABLES rev, work, own, last, gap, cache, page, table, link, queue, timer, recent, events

server == <<rev, work, own, last>>
socket == <<link, queue, timer, recent>>
vars == <<server, gap, cache, page, table, socket, events>>

Kinds == {"clients", "inbounds"}
Roots == Kinds \cup {"inbound"}
Pages == {"clients", "groups", "inbounds"}

Gap(level) == IF level > gap THEN level ELSE gap

Event == events < MaxEvents /\ events' = events + 1
NoEvent == UNCHANGED events

-----------------------------------------------------------------------------
\* The table of the clients page.

emptyFilters == [on |-> {}, ipViolation |-> "", violationTimeRange |-> ""]

QueryOf(search, sort, filters, current) ==
  [search |-> search, sort |-> sort, on |-> filters.on, page |-> current]
AllPages(query) == [query EXCEPT !.page = 1]

\* A page that is opened, after its first effects: the criteria were kept in
\* the browser's storage.  `expanded` is the row of the inbounds page.  (The first render asks for a list with default
\* criteria, which nothing shows.)
readFilterState(t) ==
  [t EXCEPT !.debounced = t.typed, !.current = 1, !.reset = FALSE,
            !.query = QueryOf(t.typed, t.sort, t.filters, 1), !.expanded = FALSE]

NewTable ==
  readFilterState([expanded |-> FALSE, typed |-> "", debounced |-> "", sort |-> FirstSort, filters |-> emptyFilters,
                   current |-> 1, reset |-> FALSE, query |-> QueryOf("", FirstSort, emptyFilters, 1)])

\* The inputs of the filter bar, the drawer, the chips and the pager.
Search(t) == {[t EXCEPT !.typed = s] : s \in Searches \ {t.typed}}
SortBy(t) == {[t EXCEPT !.sort = s, !.reset = TRUE] : s \in Sorts \ {t.sort}}
Filtered(t, f) == [t EXCEPT !.filters = f, !.reset = TRUE]
Patch(t) == {Filtered(t, [t.filters EXCEPT !.on = c]) : c \in (SUBSET Criteria) \ {t.filters.on}}
\* "All" writes ipViolation and then, from the same old filters, the range:
\* the second write brings the old ipViolation back.
PickViolation(t) ==
  {Filtered(t, IF v # "" THEN [t.filters EXCEPT !.ipViolation = v]
               ELSE [t.filters EXCEPT !.violationTimeRange = ""]) : v \in {"", "any"} \ {t.filters.ipViolation}}
PickRange(t) ==
  {Filtered(t, [t.filters EXCEPT !.violationTimeRange = v]) :
     v \in IF t.filters.ipViolation = "" THEN {} ELSE Ranges \ {t.filters.violationTimeRange}}
clearOneFilter(filters) == {[filters EXCEPT !.on = @ \ {c}] : c \in filters.on}
ViolationChip(filters) ==
  IF filters.ipViolation = "" THEN {} ELSE {[filters EXCEPT !.ipViolation = "", !.violationTimeRange = ""]}
Chips(t) == {Filtered(t, f) : f \in clearOneFilter(t.filters) \cup ViolationChip(t.filters)}
ClearAll(t) == {Filtered(t, emptyFilters)}
tablePagination == 1 .. 2
onTableChange(t) == {[t EXCEPT !.current = p] : p \in tablePagination}

Inputs(t) == Search(t) \cup SortBy(t) \cup Patch(t) \cup PickViolation(t) \cup PickRange(t)
               \cup Chips(t) \cup ClearAll(t) \cup onTableChange(t)

\* setQuery keeps the old query unless one of its fields differs.
setQuery_ForgetsSearch(old, new) == IF [new EXCEPT !.search = old.search] = old THEN old ELSE new
setQuery(old, new) == IF new = old THEN old ELSE new

\* The effects of one render: back to page 1 when a criterion changed, while
\* the query is built with the page this render still had.
Effects(t) ==
  [t EXCEPT !.current = IF t.reset THEN 1 ELSE @,
            !.reset = FALSE,
            !.query = setQuery(@, QueryOf(t.debounced, t.sort, t.filters, t.current))]

-----------------------------------------------------------------------------
\* The views and the queries they watch.

Watched(p, t) ==
  CASE p = "clients"  -> {list(t.query), options}
                           \cup (IF t.filters.ipViolation = "" THEN {} ELSE {violationAll(AllPages(t.query))})
    [] p = "groups"   -> {options, groups}
    [] p = "inbounds" -> {slim} \cup (IF t.expanded THEN {detail} ELSE {})

Entry(q) == IF q \in DOMAIN cache THEN cache[q] ELSE NoEntry
Mounted == Watched(page, table)

\* The cache after each query of Q went from e to F(q, e).
After(Q, F(_, _)) == [q \in DOMAIN cache \cup Q |-> IF q \in Q THEN F(q, Entry(q)) ELSE cache[q]]

Opening(Q, aged) ==
  LET want == {q \in Q : Wants(q, Entry(q), aged)} IN After(want, LAMBDA q, e : Asked(e, rev))

\* What is newly watched is asked for; what stays watched is left alone.
Watch(p, t) ==
  \E aged \in BOOLEAN :
    cache' = Opening(IF p = page THEN Watched(p, t) \ Mounted ELSE Watched(p, t), aged)

Invalidate(roots) ==
  LET hit == {q \in DOMAIN cache : \E root \in roots : UnderRoot(root, q)}
  IN /\ cache' = After(hit, LAMBDA q, e : Invalidated(e, q \in Mounted, rev))
     /\ gap' = Gap(IF \E q \in hit : Joins(cache[q], q \in Mounted) THEN 2 ELSE 0)

-----------------------------------------------------------------------------
\* Reads.

Arrive(q) ==
  /\ ~Idle(Entry(q))
  /\ \E r \in Entry(q).from .. rev : cache' = [cache EXCEPT ![q] = Answered(@, r)]
  /\ UNCHANGED <<server, gap, page, table, socket, events>>

Fail(q) ==
  /\ ~Idle(Entry(q)) /\ Event
  /\ cache' = [cache EXCEPT ![q] = Failed(@, q \in Mounted, rev)]
  /\ gap' = 2
  /\ UNCHANGED <<server, page, table, socket>>

\* The 30 s timer of the list, which restarts with every update of the query
\* (a poll that would repeat what is shown is left out).
Poll ==
  /\ \E q \in Mounted :
       Polled(q) /\ Idle(Entry(q)) /\ Entry(q).data # rev /\ cache' = [cache EXCEPT ![q] = Asked(@, rev)]
  /\ UNCHANGED <<server, gap, page, table, socket, events>>

Focus ==
  /\ Event /\ \E aged \in BOOLEAN : cache' = Opening(Mounted, aged)
  /\ UNCHANGED <<server, gap, page, table, socket>>

-----------------------------------------------------------------------------
\* The admin: inputs, effects, visits.

Input ==
  /\ page = "clients" /\ Event
  /\ table' \in Inputs(table) \ {table}
  /\ Watch(page, table')
  /\ UNCHANGED <<server, gap, page, socket>>

\* 300 ms after the last keystroke.
Debounce ==
  /\ page = "clients" /\ table.debounced # table.typed
  /\ table' = [table EXCEPT !.debounced = table.typed, !.reset = TRUE]
  /\ UNCHANGED <<server, gap, cache, page, socket, events>>

Render ==
  /\ page = "clients" /\ Effects(table) # table
  /\ table' = Effects(table)
  /\ Watch(page, table')
  /\ UNCHANGED <<server, gap, page, socket, events>>

\* The panel inside a row is opened and closed.
toggleExpand ==
  /\ page = "inbounds" /\ Event
  /\ table' = [table EXCEPT !.expanded = ~@]
  /\ Watch(page, table')
  /\ UNCHANGED <<server, gap, page, socket>>

Visit(p) ==
  /\ p # page /\ Event
  /\ page' = p
  /\ table' = readFilterState(table)
  /\ Watch(p, table')
  /\ UNCHANGED <<server, gap, socket>>

-----------------------------------------------------------------------------
\* Writes.  A request commits, pushes, and is answered to the panel that made
\* it; a list that is pushed was read some time before it is sent.

Request(kind, push, roots, mark) ==
  [kind |-> kind, push |-> push, roots |-> roots, mark |-> mark, at |-> rev + 1,
   built |-> 0, sent |-> FALSE, open |-> roots # {}]

\* What the panel invalidates after its own writes.
invalidateAll == Kinds
GroupsInvalidate == {"clients"}
refresh == {"inbounds"}
PanelInvalidate == {"inbound", "inbounds", "clients"}

\* The writes of the hook for clients, of the groups page alone, of the
\* inbounds page (which also attaches, detaches and groups clients), of the
\* panel inside a row, of the switch in a row, which refreshes nothing, and
\* of anybody else.
ClientWrites == {Request("clients", "invalidate", invalidateAll, TRUE)}
GroupWrites == {Request("clients", "invalidate", GroupsInvalidate, FALSE)}
InboundWrites ==
  {Request("clients", "invalidate", refresh, FALSE)}
  \cup {Request("inbounds", push, refresh, FALSE) : push \in {"list", "invalidate"}}
PanelWrites == {Request("clients", "invalidate", PanelInvalidate, FALSE)}
onSwitchEnable == {Request("inbounds", push, {}, FALSE) : push \in {"list", "invalidate"}}
ForeignWrites == {Request("clients", "invalidate", {}, FALSE)} \cup onSwitchEnable

Requests ==
  ForeignWrites
  \cup (IF page \in {"clients", "groups"} THEN ClientWrites ELSE {})
  \cup (IF page = "groups" THEN GroupWrites ELSE {})
  \cup (IF page = "inbounds" THEN InboundWrites \cup onSwitchEnable ELSE {})
  \cup (IF page = "inbounds" /\ table.expanded THEN PanelWrites ELSE {})

Commit ==
  /\ rev <= MaxWrites /\ Event
  /\ \E w \in Requests :
       /\ work' = work \cup {w}
       /\ rev' = w.at
       /\ last' = [last EXCEPT ![w.kind] = w.at]
  /\ UNCHANGED <<own, gap, cache, page, table, socket>>

Without(w, v) == (work \ {w}) \cup (IF v.sent /\ ~v.open THEN {} ELSE {v})

\* broadcastInboundsUpdate reads the inbounds...
Build(w) ==
  /\ w.push = "list" /\ w.built = 0
  /\ work' = Without(w, [w EXCEPT !.built = rev])
  /\ UNCHANGED <<rev, own, last, gap, cache, page, table, socket, events>>

\* ...and sends them; the other messages only name what changed.  A panel
\* that is not connected misses the message.
Push(w) ==
  /\ ~w.sent /\ (w.push = "list" => w.built # 0)
  /\ work' = Without(w, [w EXCEPT !.sent = TRUE])
  /\ IF link = "up"
       THEN /\ queue' = Append(queue, [type |-> IF w.push = "list" THEN "list" ELSE w.kind, data |-> w.built])
            /\ UNCHANGED gap
       ELSE gap' = Gap(1) /\ UNCHANGED queue
  /\ UNCHANGED <<rev, own, last, cache, page, table, link, timer, recent, events>>

\* The answer: markLocalInvalidate and the invalidations, wherever the admin is now.
Answer(w) ==
  /\ w.open
  /\ work' = Without(w, [w EXCEPT !.open = FALSE])
  /\ own' = [k \in Roots |-> IF k \in w.roots /\ w.at > own[k] THEN w.at ELSE own[k]]
  /\ recent' = (recent \/ w.mark)
  /\ Invalidate(w.roots)
  /\ UNCHANGED <<rev, last, page, table, link, queue, timer, events>>

-----------------------------------------------------------------------------
\* The socket and its bridge into the cache.

onInbounds(r) ==
  /\ cache' = After({slim}, LAMBDA q, e : Written(e, r))
  /\ gap' = Gap(IF r < Entry(slim).data \/ r < own["inbounds"] \/ r < last["inbounds"] THEN 2
                ELSE IF ~Idle(Entry(slim)) /\ Entry(slim).from < r THEN 1 ELSE 0)
  /\ UNCHANGED timer

\* One timer for both kinds: the last message decides.
onInvalidate_FirstWins(type) ==
  /\ timer' = IF timer = "none" THEN type ELSE timer
  /\ UNCHANGED <<cache, gap>>
onInvalidate(type) ==
  /\ timer' = type
  /\ gap' = Gap(IF timer \in Kinds \ {type} THEN 1 ELSE 0)
  /\ UNCHANGED cache

Deliver ==
  /\ queue # <<>>
  /\ queue' = Tail(queue)
  /\ IF Head(queue).type = "list" THEN onInbounds(Head(queue).data) ELSE onInvalidate(Head(queue).type)
  /\ UNCHANGED <<server, page, table, link, recent, events>>

\* 200 ms later; a recent invalidation of our own makes it do nothing.
TimerFires ==
  /\ timer # "none"
  /\ timer' = "none"
  /\ IF recent THEN gap' = Gap(1) /\ UNCHANGED cache
               ELSE Invalidate({timer})
  /\ UNCHANGED <<server, page, table, link, queue, recent, events>>

\* 1.5 s after the last invalidation of our own.
WindowEnds ==
  /\ recent /\ recent' = FALSE
  /\ UNCHANGED <<server, gap, cache, page, table, link, queue, timer, events>>

\* client_stats: the usage of the rows shown is merged into the list.  It
\* comes over the page's own socket, whatever the bridge's is doing.
applyClientStatsEvent ==
  /\ page = "clients" /\ Event
  /\ Entry(list(table.query)).data # 0
  /\ cache' = [cache EXCEPT ![list(table.query)] = Written(@, @.data)]
  /\ UNCHANGED <<server, gap, page, table, socket>>

Close ==
  /\ link = "up" /\ Event
  /\ link' = "down" /\ queue' = <<>>
  /\ gap' = Gap(IF queue # <<>> THEN 1 ELSE 0)
  /\ UNCHANGED <<server, cache, page, table, timer, recent>>

\* connect, or scheduleReconnect until openSocket succeeds; nothing that was
\* missed is asked for again.
Connect ==
  /\ link = "down" /\ link' = "up"
  /\ UNCHANGED <<server, gap, cache, page, table, queue, timer, recent, events>>

-----------------------------------------------------------------------------
Init ==
  /\ rev = 1 /\ work = {} /\ own = [k \in Roots |-> 0] /\ last = [k \in Kinds |-> 0]
  /\ gap = 0 /\ page = "clients" /\ table = NewTable
  /\ cache = [q \in Watched("clients", NewTable) |-> Answered(NoEntry, 1)]
  /\ link = "up" /\ queue = <<>> /\ timer = "none" /\ recent = FALSE /\ events = 0

Reads == \E q \in DOMAIN cache : Arrive(q) \/ Fail(q)
Moves == Input \/ toggleExpand \/ \E p \in Pages : Visit(p)
Requesting == \E w \in work : Build(w) \/ Push(w) \/ Answer(w)
Socket == Deliver \/ TimerFires \/ WindowEnds \/ applyClientStatsEvent \/ Close \/ Connect

Next == Reads \/ Poll \/ Focus \/ Moves \/ Debounce \/ Render \/ Commit \/ Requesting \/ Socket

\* The answers of the server, the timers and the renders come; nothing says
\* that the admin, the other writers or the socket do anything.
ListArrives == Arrive(list(table.query))
Fairness == WF_vars(ListArrives) /\ WF_vars(Poll) /\ WF_vars(Debounce) /\ WF_vars(Render)
Spec == Init /\ [][Next]_vars
FairSpec == Spec /\ Fairness

-----------------------------------------------------------------------------
\* What this panel wrote is what it shows: once the answer of a write came
\* and the reads it caused are done, no watched list is older than the
\* write (invalidateAll, GroupsPage's invalidate, useInbounds' refresh).
\* Left out are histories where a read failed, an older list was pushed, or
\* the answer fell into a read that cannot be restarted.
OwnWritesShown ==
  gap < 2 =>
    \A q \in Mounted : Idle(Entry(q)) => Entry(q).data >= own[Root(q)]

\* A panel that missed no message shows what others did: when nothing is on
\* its way any more, no watched list is older than the last write of its kind
\* (websocketBridge's onInvalidate and onInbounds).  The inbound options
\* and the panel inside a row are left out: no push reaches them.
PushesAreShown ==
  gap = 0 /\ queue = <<>> /\ timer = "none" /\ (\A w \in work : w.sent) =>
    \A q \in Mounted \ {options, detail} : Idle(Entry(q)) => Entry(q).data >= last[Root(q)]

\* Whatever was missed, the clients page comes to ask for what the admin
\* chose and to hold the newest rows of it (the debounce, the two effects,
\* setQuery and the list's refetchInterval).
Wanted == QueryOf(table.typed, table.sort, table.filters, table.current)
ListCatchesUp ==
  <>[](page = "clients" => table.query = Wanted /\ Entry(list(table.query)).data = rev)
=============================================================================
