-------------------------- MODULE PanelListsProofs --------------------------
(***************************************************************************)
(* Proofs about PanelLists: the lists of the panel show what this panel    *)
(* wrote, and what others wrote once the messages about it came.  Both     *)
(* rest on one notion: a query is fresh with respect to a revision when    *)
(* the read under way for it saw that revision, or what it holds is that   *)
(* new, or it will be asked for as soon as it is watched.                  *)
(***************************************************************************)
EXTENDS PanelStatus, TLAPS

-----------------------------------------------------------------------------
\* The inductive invariant.

Questions == [search : Searches, sort : Sorts, on : SUBSET Criteria, page : tablePagination]
Filters == [on : SUBSET Criteria, ipViolation : {"", "any"}, violationTimeRange : Ranges \cup {""}]
Tables == [expanded : BOOLEAN, typed : Searches, debounced : Searches, sort : Sorts, filters : Filters,
           current : tablePagination, reset : BOOLEAN, query : Questions]
Queries == {groups, slim, detail, options} \cup {list(c) : c \in Questions} \cup {violationAll(c) : c \in Questions}
Entries == [data : Nat, invalid : BOOLEAN, from : Nat, retried : BOOLEAN]
Works == [kind : Kinds, push : {"list", "invalidate"}, roots : SUBSET Roots, mark : BOOLEAN,
          at : Nat, built : Nat, sent : BOOLEAN, open : BOOLEAN]
Messages == [type : Kinds \cup {"list"}, data : Nat]

ServerOK == rev \in Nat \ {0} /\ own \in [Roots -> Nat] /\ last \in [Kinds -> Nat] /\ gap \in 0 .. 2
WorkOK == \A w \in work : w \in Works /\ w.at <= rev /\ (w.push = "list" => w.kind = "inbounds")
CacheOK == DOMAIN cache \subseteq Queries /\ \A q \in DOMAIN cache : cache[q] \in Entries /\ cache[q].from <= rev
PageOK == page \in Pages /\ table \in Tables
SocketOK ==
  /\ link \in {"up", "down"} /\ queue \in Seq(Messages)
  /\ timer \in Kinds \cup {"none"} /\ recent \in BOOLEAN

TypeOK == ServerOK /\ WorkOK /\ CacheOK /\ PageOK /\ SocketOK

\* What is written and what the admin wrote lies in the past.
Past == (\A k \in Roots : own[k] <= rev) /\ (\A k \in Kinds : last[k] <= rev)

\* A watched query has been asked for.
Held == Mounted \subseteq DOMAIN cache

Fresh(e, mounted, b) ==
  IF Idle(e) THEN (mounted => e.data >= b) /\ (e.data >= b \/ e.invalid \/ e.data = 0)
             ELSE e.from >= b

OwnFresh == gap < 2 => \A q \in DOMAIN cache : Fresh(cache[q], q \in Mounted, own[Root(q)])

OnItsWay(k) ==
  \/ \E w \in work : ~w.sent /\ w.kind = k
  \/ \E i \in DOMAIN queue : queue[i].type = k \/ (queue[i].type = "list" /\ k = "inbounds")
  \/ timer = k
LastFresh(k) == \A q \in DOMAIN cache \ {options, detail} : Root(q) = k => Fresh(cache[q], q \in Mounted, last[k])
PushesFresh == gap = 0 => \A k \in Kinds : OnItsWay(k) \/ LastFresh(k)

ListsInv == TypeOK /\ Past /\ Held /\ OwnFresh /\ PushesFresh

-----------------------------------------------------------------------------
\* Queries and entries.

\* The key of every query starts with one of the roots.
LEMMA Rooted ==
  /\ \A q \in Queries : Root(q) \in Roots
  /\ \A c : Root(list(c)) = "clients" /\ Root(violationAll(c)) = "clients"
  /\ Root(groups) = "clients" /\ Root(slim) = "inbounds" /\ Root(options) = "inbounds" /\ Root(detail) = "inbound"
<1>1. \A c : Root(list(c)) = "clients"
  BY DEF Root, list
<1>2. \A c : Root(violationAll(c)) = "clients"
  BY DEF Root, violationAll
<1>3. Root(groups) = "clients" /\ Root(slim) = "inbounds" /\ Root(options) = "inbounds" /\ Root(detail) = "inbound"
  BY DEF Root, groups, slim, options, detail
<1> QED
  BY <1>1, <1>2, <1>3 DEF Queries, Roots, Kinds

\* Every query has an entry, and one that is not idle is in the cache.
LEMMA EntryTyped == ASSUME CacheOK PROVE \A q : Entry(q) \in Entries /\ (~Idle(Entry(q)) => q \in DOMAIN cache)
BY DEF CacheOK, Entry, NoEntry, Entries, Idle

\* Asking leaves an entry,
LEMMA AskedTyped ==
  ASSUME NEW e \in Entries, NEW now \in Nat, e.from <= now
  PROVE  Asked(e, now) \in Entries /\ Asked(e, now).from <= now
<1>1. CASE Idle(e)
  <2>1. Asked(e, now) = [data |-> e.data, invalid |-> e.invalid, from |-> now, retried |-> FALSE]
    BY <1>1 DEF Entries, Asked, Reading
  <2> QED
    BY <2>1 DEF Entries
<1>2. CASE ~Idle(e)
  BY <1>2 DEF Asked
<1> QED
  BY <1>1, <1>2

\* so does a request that failed
LEMMA FailedTyped ==
  ASSUME NEW e \in Entries, NEW now \in Nat, e.from <= now, NEW watched \in BOOLEAN
  PROVE  Failed(e, watched, now) \in Entries /\ Failed(e, watched, now).from <= now
<1>1. CASE watched /\ ~e.retried
  <2>1. Failed(e, watched, now) = [data |-> e.data, invalid |-> e.invalid, from |-> now, retried |-> TRUE]
    BY <1>1 DEF Entries, Failed
  <2> QED
    BY <2>1 DEF Entries
<1>2. CASE ~(watched /\ ~e.retried)
  <2>1. Failed(e, watched, now) = [data |-> e.data, invalid |-> e.invalid, from |-> 0, retried |-> FALSE]
    BY <1>2 DEF Entries, Failed
  <2> QED
    BY <2>1 DEF Entries
<1> QED
  BY <1>1, <1>2

\* and an invalidation.
LEMMA InvalidatedTyped ==
  ASSUME NEW e \in Entries, NEW now \in Nat, e.from <= now, NEW watched \in BOOLEAN
  PROVE  Invalidated(e, watched, now) \in Entries /\ Invalidated(e, watched, now).from <= now
<1>1. CASE Joins(e, watched)
  <2>1. Invalidated(e, watched, now) = [data |-> e.data, invalid |-> TRUE, from |-> e.from, retried |-> e.retried]
    BY <1>1 DEF Entries, Invalidated
  <2> QED
    BY <2>1 DEF Entries
<1>2. CASE ~Joins(e, watched) /\ watched
  <2>1. Invalidated(e, watched, now) = [data |-> e.data, invalid |-> TRUE, from |-> now, retried |-> FALSE]
    BY <1>2 DEF Entries, Invalidated, Reading
  <2> QED
    BY <2>1 DEF Entries
<1>3. CASE ~Joins(e, watched) /\ ~watched
  <2>1. Invalidated(e, watched, now) = [data |-> e.data, invalid |-> (e.data # 0), from |-> e.from, retried |-> e.retried]
    BY <1>3 DEF Entries, Invalidated
  <2> QED
    BY <2>1 DEF Entries
<1> QED
  BY <1>1, <1>2, <1>3

\* What one entry becomes keeps it fresh: asked, answered, or invalidated
\* with nothing joined; an invalidated one is fresh for every revision.
LEMMA AskedFresh ==
  ASSUME NEW e \in Entries, NEW now \in Nat \ {0}, NEW b \in 0 .. now, NEW mounted \in BOOLEAN, NEW before \in BOOLEAN,
         Fresh(e, before, b) \/ (e.data = 0 /\ Idle(e))
  PROVE  Fresh(Asked(e, now), mounted, b)
<1>1. CASE Idle(e)
  <2>1. Asked(e, now) = [data |-> e.data, invalid |-> e.invalid, from |-> now, retried |-> FALSE]
    BY <1>1 DEF Entries, Asked, Reading
  <2> QED
    BY <2>1 DEF Fresh, Idle
<1>2. CASE ~Idle(e)
  BY <1>2 DEF Asked, Fresh
<1> QED
  BY <1>1, <1>2

\* An invalidated query is asked again, unless a request under way is joined.
LEMMA InvalidatedFresh ==
  ASSUME NEW e \in Entries, NEW now \in Nat \ {0}, NEW b \in 0 .. now, NEW mounted \in BOOLEAN,
         ~Joins(e, mounted)
  PROVE  Fresh(Invalidated(e, mounted, now), mounted, b)
<1>1. CASE mounted
  <2>1. Invalidated(e, mounted, now) = [data |-> e.data, invalid |-> TRUE, from |-> now, retried |-> FALSE]
    BY <1>1 DEF Entries, Invalidated, Reading
  <2> QED
    BY <2>1 DEF Fresh, Idle
<1>2. CASE ~mounted
  <2>1. Invalidated(e, mounted, now) = [data |-> e.data, invalid |-> (e.data # 0), from |-> e.from, retried |-> e.retried]
    BY <1>2 DEF Entries, Invalidated
  <2>2. Idle(e)
    BY <1>2 DEF Joins
  <2>3. CASE e.data = 0
    BY <1>2, <2>1, <2>2, <2>3 DEF Fresh, Idle
  <2>4. CASE e.data # 0
    <3>1. Invalidated(e, mounted, now).invalid = TRUE /\ Invalidated(e, mounted, now).from = e.from
      <4>1. (e.data # 0) = TRUE
        BY <2>4
      <4>2. Invalidated(e, mounted, now) = [data |-> e.data, invalid |-> TRUE, from |-> e.from, retried |-> e.retried]
        BY <2>1, <4>1
      <4> QED
        BY <4>2
    <3> QED
      BY <1>2, <2>2, <3>1 DEF Fresh, Idle
  <2> QED
    BY <2>3, <2>4
<1> QED
  BY <1>1, <1>2

\* The answer of a read is no older than the read.
LEMMA AnsweredFresh ==
  ASSUME NEW e \in Entries, NEW r \in Nat, NEW b \in Nat, NEW mounted \in BOOLEAN, NEW before \in BOOLEAN,
         ~Idle(e), e.from <= r, Fresh(e, before, b)
  PROVE  Fresh(Answered(e, r), mounted, b)
BY DEF Fresh, Idle, Answered, Entries

\* Data that is written over a query being watched must be as new.
LEMMA WrittenFresh ==
  ASSUME NEW e \in Entries, NEW r \in Nat, NEW b \in Nat, NEW mounted \in BOOLEAN,
         IF Idle(e) THEN r >= b ELSE e.from >= b
  PROVE  Fresh(Written(e, r), mounted, b)
<1>1. Written(e, r).data = r /\ Written(e, r).from = e.from
  BY DEF Entries, Written
<1> QED
  BY <1>1 DEF Fresh, Idle


-----------------------------------------------------------------------------
\* The cache: opening a view, invalidating.

\* A page watches queries.
LEMMA WatchedTyped == ASSUME NEW p \in Pages, NEW t \in Tables PROVE Watched(p, t) \subseteq Queries
<1>1. AllPages(t.query) \in Questions /\ t.query \in Questions
  BY DEF Tables, Questions, AllPages, tablePagination
<1> QED
  BY <1>1 DEF Pages, Watched, Queries

\* Opening asks for what it wants and leaves the rest alone; what is newly
\* watched is fresh, or asked for.
OpenedFrom(E, Q) ==
  /\ DOMAIN cache \subseteq DOMAIN E /\ Q \subseteq DOMAIN E /\ DOMAIN E \subseteq Queries
  /\ \A q \in DOMAIN E : E[q] \in Entries /\ E[q].from <= rev
  /\ \A q \in DOMAIN E : \A b \in 0 .. rev : \A before, mounted \in BOOLEAN :
       (q \in DOMAIN cache => Fresh(cache[q], before, b)) /\ (mounted => q \in Q \/ before)
         => Fresh(E[q], mounted, b)

\* Opening a page leaves the entries there were and asks for those it needs.
LEMMA OpeningKeeps ==
  ASSUME CacheOK, rev \in Nat \ {0}, NEW Q \in SUBSET Queries, NEW aged \in BOOLEAN, NEW E, E = Opening(Q, aged)
  PROVE  OpenedFrom(E, Q)
<1> DEFINE want == {q \in Q : Wants(q, Entry(q), aged)}
<1>1. E = [q \in DOMAIN cache \cup want |-> IF q \in want THEN Asked(Entry(q), rev) ELSE cache[q]]
  BY DEF Opening, After
<1>2. \A q \in Q \ DOMAIN cache : q \in want
  BY DEF Entry, NoEntry, Wants
<1>3. \A q : Entry(q) \in Entries /\ Entry(q).from <= rev
  BY DEF Entry, NoEntry, CacheOK, Entries
<1>4. DOMAIN cache \subseteq DOMAIN E /\ Q \subseteq DOMAIN E /\ DOMAIN E \subseteq Queries
  BY <1>1, <1>2 DEF CacheOK
<1>5. \A q \in DOMAIN E : E[q] \in Entries /\ E[q].from <= rev
  BY <1>1, <1>3, AskedTyped DEF CacheOK
<1>6. ASSUME NEW q \in DOMAIN E, NEW b \in 0 .. rev, NEW before \in BOOLEAN, NEW mounted \in BOOLEAN,
             q \in DOMAIN cache => Fresh(cache[q], before, b), mounted => q \in Q \/ before
      PROVE  Fresh(E[q], mounted, b)
  <2>1. CASE q \in want
    <3>1. E[q] = Asked(Entry(q), rev)
      BY <1>1, <2>1
    <3>2. Fresh(Entry(q), before, b) \/ (Entry(q).data = 0 /\ Idle(Entry(q)))
      <4>1. CASE q \in DOMAIN cache
        <5>1. Entry(q) = cache[q]
          BY <4>1 DEF Entry
        <5>2. Fresh(cache[q], before, b)
          BY <1>6, <4>1
        <5> QED
          BY <5>1, <5>2, Zenon
      <4>2. CASE q \notin DOMAIN cache
        BY <4>2 DEF Entry, NoEntry, Idle
      <4> QED
        BY <4>1, <4>2
    <3> QED
      BY <1>3, <3>1, <3>2, AskedFresh
  <2>2. CASE q \notin want
    <3>1. E[q] = cache[q] /\ q \in DOMAIN cache /\ Entry(q) = cache[q]
      BY <1>1, <2>2 DEF Entry
    <3>2. CASE q \in Q
      <4>1. ~Wants(q, cache[q], aged)
        BY <2>2, <3>1, <3>2
      <4>2. cache[q].data # 0 /\ ~cache[q].invalid
        BY <4>1 DEF Wants
      <4> QED
        BY <1>6, <3>1, <4>2 DEF Fresh
    <3>3. CASE q \notin Q
      BY <1>6, <3>1, <3>3 DEF Fresh
    <3> QED
      BY <3>2, <3>3
  <2> QED
    BY <2>1, <2>2
<1> QED
  BY <1>4, <1>5, <1>6 DEF OpenedFrom

\* The noted loss never shrinks.
LEMMA GapIs ==
  ASSUME gap \in 0 .. 2, NEW level \in 0 .. 2 PROVE Gap(level) \in 0 .. 2 /\ Gap(level) >= gap /\ Gap(level) >= level
BY DEF Gap

\* An invalidation leaves what is under other roots alone, and makes the rest
\* fresh for every revision so far, unless it joined a read.
LEMMA InvalidateKeeps ==
  ASSUME CacheOK, ServerOK, NEW roots, Invalidate(roots)
  PROVE  /\ DOMAIN cache' = DOMAIN cache
         /\ \A q \in DOMAIN cache : cache'[q] \in Entries /\ cache'[q].from <= rev
         /\ gap' \in 0 .. 2 /\ gap' >= gap
         /\ \A q \in DOMAIN cache : Root(q) \notin roots => cache'[q] = cache[q]
         /\ gap' < 2 => \A q \in DOMAIN cache : Root(q) \in roots =>
                          \A b \in 0 .. rev : Fresh(cache'[q], q \in Mounted, b)
<1> DEFINE hit == {q \in DOMAIN cache : \E root \in roots : UnderRoot(root, q)}
<1> DEFINE joined == \E q \in hit : Joins(cache[q], q \in Mounted)
<1>1. cache' = [q \in DOMAIN cache |-> IF q \in hit THEN Invalidated(cache[q], q \in Mounted, rev) ELSE cache[q]]
  <2>1. DOMAIN cache \cup hit = DOMAIN cache
    OBVIOUS
  <2>2. \A q \in DOMAIN cache : Entry(q) = cache[q]
    BY DEF Entry
  <2> QED
    BY <2>1, <2>2 DEF Invalidate, After
<1>2. gap' = Gap(IF joined THEN 2 ELSE 0)
  BY DEF Invalidate
<1>3. gap' \in 0 .. 2 /\ gap' >= gap /\ (joined => gap' >= 2)
  BY <1>2, GapIs DEF ServerOK
<1>4. \A q \in DOMAIN cache : cache'[q] \in Entries /\ cache'[q].from <= rev
  <2> SUFFICES ASSUME NEW q \in DOMAIN cache PROVE cache'[q] \in Entries /\ cache'[q].from <= rev
    OBVIOUS
  <2>1. cache[q] \in Entries /\ rev \in Nat /\ cache[q].from <= rev /\ (q \in Mounted) \in BOOLEAN
    BY DEF CacheOK, ServerOK
  <2>2. Invalidated(cache[q], q \in Mounted, rev) \in Entries /\ Invalidated(cache[q], q \in Mounted, rev).from <= rev
    BY <2>1, InvalidatedTyped
  <2> QED
    BY <1>1, <2>1, <2>2
<1>5. \A q \in DOMAIN cache : q \in hit <=> Root(q) \in roots
  BY DEF UnderRoot
<1>6. ASSUME gap' < 2, NEW q \in DOMAIN cache, Root(q) \in roots, NEW b \in 0 .. rev
      PROVE  Fresh(cache'[q], q \in Mounted, b)
  <2>1. q \in hit /\ ~Joins(cache[q], q \in Mounted)
    BY <1>3, <1>5, <1>6
  <2>2. cache'[q] = Invalidated(cache[q], q \in Mounted, rev)
    BY <1>1, <2>1
  <2> QED
    <3>1. cache[q] \in Entries /\ rev \in Nat \ {0} /\ b \in 0 .. rev /\ (q \in Mounted) \in BOOLEAN
      BY DEF CacheOK, ServerOK
    <3> QED
      BY <2>1, <2>2, <3>1, InvalidatedFresh
<1> QED
  BY <1>1, <1>3, <1>4, <1>5, <1>6


-----------------------------------------------------------------------------
\* What a step leaves fresh.

KeepsFresh ==
  \A q \in DOMAIN cache' : \A b \in 0 .. rev :
    (q \in DOMAIN cache => Fresh(cache[q], q \in Mounted, b)) => Fresh(cache'[q], q \in Mounted', b)

\* Another view of the page, or another page.
LEMMA WatchKeeps ==
  ASSUME TypeOK, Held, rev' = rev, NEW p \in Pages, NEW t \in Tables, page' = p, table' = t, Watch(p, t)
  PROVE  CacheOK' /\ Held' /\ KeepsFresh
<1>1. PICK aged \in BOOLEAN :
        cache' = Opening(IF p = page THEN Watched(p, t) \ Mounted ELSE Watched(p, t), aged)
  BY DEF Watch
<1> DEFINE Q == IF p = page THEN Watched(p, t) \ Mounted ELSE Watched(p, t)
<1>2. Q \in SUBSET Queries
  BY WatchedTyped
<1>3. Mounted' = Watched(p, t)
  BY DEF Mounted
<1>4. \A q : q \in Mounted' => q \in Q \/ q \in Mounted
  BY <1>3
<1>5. OpenedFrom(cache', Q)
  <2> HIDE DEF Q
  <2>1. CacheOK /\ rev \in Nat \ {0} /\ cache' = Opening(Q, aged)
    BY <1>1 DEF TypeOK, ServerOK, Q
  <2> QED
    BY <1>1, <1>2, <2>1, OpeningKeeps
<1> HIDE DEF Q
<1>6. CacheOK'
  BY <1>5 DEF CacheOK, OpenedFrom
<1>7. Held'
  BY <1>4, <1>5 DEF Held, OpenedFrom
<1>8. KeepsFresh
  <2> SUFFICES ASSUME NEW q \in DOMAIN cache', NEW b \in 0 .. rev,
                      q \in DOMAIN cache => Fresh(cache[q], q \in Mounted, b)
               PROVE  Fresh(cache'[q], q \in Mounted', b)
    BY DEF KeepsFresh
  <2>1. (q \in Mounted) \in BOOLEAN /\ (q \in Mounted') \in BOOLEAN /\ (q \in Mounted' => q \in Q \/ q \in Mounted)
    BY <1>4
  <2> QED
    BY <1>5, <2>1 DEF OpenedFrom
<1> QED
  BY <1>6, <1>7, <1>8


-----------------------------------------------------------------------------
\* The table of the clients page stays well formed.

\* What a table asks is a question.
LEMMA QueryTyped ==
  ASSUME NEW s \in Searches, NEW o \in Sorts, NEW f \in Filters, NEW c \in tablePagination
  PROVE  QueryOf(s, o, f, c) \in Questions
BY DEF QueryOf, Questions, Filters

\* Every table starts on a page there is.
LEMMA FirstPage == 1 \in tablePagination
BY DEF tablePagination

\* A stored filter gives a table,
LEMMA OpenedTyped == ASSUME NEW t \in Tables PROVE readFilterState(t) \in Tables
<1>1. QueryOf(t.typed, t.sort, t.filters, 1) \in Questions
  BY QueryTyped, FirstPage DEF Tables
<1>2. ASSUME NEW u \in Tables, NEW s \in Searches, NEW r \in BOOLEAN PROVE [u EXCEPT !.debounced = s, !.current = 1, !.reset = r] \in Tables
  BY FirstPage DEF Tables
<1>3. ASSUME NEW u \in Tables, NEW c \in Questions, NEW r \in BOOLEAN PROVE [u EXCEPT !.query = c, !.expanded = r] \in Tables
  BY DEF Tables
<1>4. readFilterState(t) =
        [[t EXCEPT !.debounced = t.typed, !.current = 1, !.reset = FALSE]
           EXCEPT !.query = QueryOf(t.typed, t.sort, t.filters, 1), !.expanded = FALSE]
  BY DEF readFilterState
<1>5. t.typed \in Searches
  BY DEF Tables
<1>6. [t EXCEPT !.debounced = t.typed, !.current = 1, !.reset = FALSE] \in Tables
  BY <1>2, <1>5
<1> QED
  BY <1>1, <1>3, <1>4, <1>6

\* a new page gives one,
LEMMA NewTableTyped == NewTable \in Tables
<1> DEFINE opened == [expanded |-> FALSE, typed |-> "", debounced |-> "", sort |-> FirstSort, filters |-> emptyFilters,
                      current |-> 1, reset |-> FALSE, query |-> QueryOf("", FirstSort, emptyFilters, 1)]
<1>1. emptyFilters \in Filters
  BY DEF emptyFilters, Filters
<1>2. QueryOf("", FirstSort, emptyFilters, 1) \in Questions
  BY <1>1, QueryTyped, FirstPage, ListsAssumption
<1>3. opened \in Tables
  BY <1>1, <1>2, FirstPage, ListsAssumption DEF Tables
<1>4. NewTable = readFilterState(opened)
  BY DEF NewTable
<1> QED
  BY <1>3, <1>4, OpenedTyped

\* so do filters,
LEMMA FilteredTyped == ASSUME NEW t \in Tables, NEW f \in Filters PROVE Filtered(t, f) \in Tables
BY DEF Filtered, Tables

\* what is typed
LEMMA InputsTyped == ASSUME NEW t \in Tables PROVE Inputs(t) \subseteq Tables
<1>0. t.filters \in Filters
  BY DEF Tables
<1>1. Search(t) \subseteq Tables /\ SortBy(t) \subseteq Tables /\ onTableChange(t) \subseteq Tables
  BY DEF Search, SortBy, onTableChange, Tables
<1>2. Patch(t) \subseteq Tables
  <2>1. \A c \in SUBSET Criteria : [t.filters EXCEPT !.on = c] \in Filters
    BY <1>0 DEF Filters
  <2> QED
    BY <2>1, FilteredTyped DEF Patch
<1>3. PickViolation(t) \subseteq Tables
  <2>1. \A v \in {"", "any"} :
          [t.filters EXCEPT !.ipViolation = v] \in Filters /\ [t.filters EXCEPT !.violationTimeRange = ""] \in Filters
    BY <1>0 DEF Filters
  <2> QED
    BY <2>1, FilteredTyped DEF PickViolation
<1>4. PickRange(t) \subseteq Tables
  <2>1. \A v \in Ranges : [t.filters EXCEPT !.violationTimeRange = v] \in Filters
    BY <1>0 DEF Filters
  <2> QED
    BY <2>1, FilteredTyped DEF PickRange
<1>5. Chips(t) \subseteq Tables
  <2>1. clearOneFilter(t.filters) \subseteq Filters
    <3>1. \A c \in t.filters.on : [t.filters EXCEPT !.on = t.filters.on \ {c}] \in Filters
      BY <1>0 DEF Filters
    <3> QED
      BY <3>1 DEF clearOneFilter
  <2>2. ViolationChip(t.filters) \subseteq Filters
    BY <1>0 DEF ViolationChip, Filters
  <2> QED
    BY <2>1, <2>2, FilteredTyped DEF Chips
<1>6. ClearAll(t) \subseteq Tables
  <2>1. emptyFilters \in Filters
    BY DEF emptyFilters, Filters
  <2> QED
    BY <2>1, FilteredTyped DEF ClearAll
<1> QED
  BY <1>1, <1>2, <1>3, <1>4, <1>5, <1>6 DEF Inputs

\* and the effects that follow.
LEMMA EffectsTyped == ASSUME NEW t \in Tables PROVE Effects(t) \in Tables
<1>1. QueryOf(t.debounced, t.sort, t.filters, t.current) \in Questions
  BY QueryTyped DEF Tables
<1>2. setQuery(t.query, QueryOf(t.debounced, t.sort, t.filters, t.current)) \in Questions
  BY <1>1 DEF setQuery, Tables
<1>3. (IF t.reset THEN 1 ELSE t.current) \in tablePagination
  BY DEF Tables, tablePagination
<1> QED
  BY <1>2, <1>3 DEF Effects, Tables


-----------------------------------------------------------------------------
\* What each action does to the cache.

\* A single entry goes from its old value to e.
LEMMA OneEntry ==
  ASSUME TypeOK, Held, rev' = rev, Mounted' = Mounted,
         NEW q \in DOMAIN cache, NEW e \in Entries, e.from <= rev, cache' = [cache EXCEPT ![q] = e],
         \A b \in 0 .. rev : Fresh(cache[q], q \in Mounted, b) => Fresh(e, q \in Mounted, b)
  PROVE  CacheOK' /\ Held' /\ KeepsFresh
<1>1. DOMAIN cache' = DOMAIN cache /\ cache'[q] = e /\ \A x \in DOMAIN cache : x # q => cache'[x] = cache[x]
  OBVIOUS
<1>2. CacheOK'
  BY <1>1 DEF TypeOK, CacheOK
<1>3. Held'
  BY <1>1 DEF Held
<1>4. KeepsFresh
  BY <1>1 DEF KeepsFresh
<1> QED
  BY <1>2, <1>3, <1>4

\* An answer keeps the cache and what it holds fresh,
LEMMA ArriveKeeps == ASSUME TypeOK, Held, NEW q \in DOMAIN cache, Arrive(q) PROVE CacheOK' /\ Held' /\ KeepsFresh
<1>1. cache[q] \in Entries /\ ~Idle(cache[q]) /\ Entry(q) = cache[q]
  BY DEF TypeOK, CacheOK, Arrive, Entry
<1>2. PICK r \in cache[q].from .. rev : cache' = [cache EXCEPT ![q] = Answered(cache[q], r)]
  BY <1>1 DEF Arrive
<1>3. r \in Nat /\ cache[q].from <= r
  BY <1>1, <1>2 DEF Entries, TypeOK, ServerOK
<1>4. Answered(cache[q], r) \in Entries /\ Answered(cache[q], r).from <= rev
  BY <1>3 DEF Answered, Entries, TypeOK, ServerOK
<1>5. \A b \in 0 .. rev : Fresh(cache[q], q \in Mounted, b) => Fresh(Answered(cache[q], r), q \in Mounted, b)
  <2> SUFFICES ASSUME NEW b \in 0 .. rev, Fresh(cache[q], q \in Mounted, b)
               PROVE  Fresh(Answered(cache[q], r), q \in Mounted, b)
    OBVIOUS
  <2>1. b \in Nat /\ (q \in Mounted) \in BOOLEAN
    OBVIOUS
  <2> QED
    BY <1>1, <1>3, <2>1, AnsweredFresh
<1>6. rev' = rev /\ Mounted' = Mounted
  BY DEF Arrive, Mounted, server
<1> QED
  BY <1>2, <1>4, <1>5, <1>6, OneEntry

\* one that fails notes the loss,
LEMMA FailKeeps == ASSUME TypeOK, Held, NEW q \in DOMAIN cache, Fail(q) PROVE CacheOK' /\ Held' /\ gap' = 2
<1>1. cache[q] \in Entries /\ cache[q].from <= rev /\ rev \in Nat
  BY DEF TypeOK, CacheOK, ServerOK
<1>2. cache' = [cache EXCEPT ![q] = Failed(cache[q], q \in Mounted, rev)]
  BY DEF Fail
<1>3. Failed(cache[q], q \in Mounted, rev) \in Entries /\ Failed(cache[q], q \in Mounted, rev).from <= rev
  <2>1. (q \in Mounted) \in BOOLEAN
    OBVIOUS
  <2> QED
    BY <1>1, <2>1, FailedTyped
<1>4. rev' = rev /\ Mounted' = Mounted /\ gap' = 2
  BY DEF Fail, Mounted, server
<1>5. CacheOK'
  BY <1>2, <1>3, <1>4 DEF TypeOK, CacheOK
<1>6. Held'
  BY <1>2, <1>4 DEF Held
<1> QED
  BY <1>4, <1>5, <1>6

\* polling,
LEMMA PollKeeps == ASSUME TypeOK, Held, Poll PROVE CacheOK' /\ Held' /\ KeepsFresh
<1>1. PICK q \in Mounted : cache' = [cache EXCEPT ![q] = Asked(cache[q], rev)] /\ Idle(Entry(q))
  BY DEF Poll
<1>2. q \in DOMAIN cache /\ cache[q] \in Entries /\ cache[q].from <= rev /\ rev \in Nat \ {0}
  BY <1>1 DEF TypeOK, CacheOK, ServerOK, Held
<1>3. Asked(cache[q], rev) \in Entries /\ Asked(cache[q], rev).from <= rev
  BY <1>2, AskedTyped
<1>4. \A b \in 0 .. rev : Fresh(cache[q], q \in Mounted, b) => Fresh(Asked(cache[q], rev), q \in Mounted, b)
  BY <1>2, AskedFresh
<1>5. rev' = rev /\ Mounted' = Mounted
  BY DEF Poll, Mounted, server
<1> QED
  BY <1>1, <1>2, <1>3, <1>4, <1>5, OneEntry

\* pushed statistics
LEMMA StatsKeep == ASSUME TypeOK, Held, applyClientStatsEvent PROVE CacheOK' /\ Held' /\ KeepsFresh
<1> DEFINE q == list(table.query)
<1> HIDE DEF q
<1>1. q \in Mounted
  BY DEF applyClientStatsEvent, Mounted, Watched, q
<1>2. q \in DOMAIN cache /\ cache[q] \in Entries /\ cache[q].from <= rev /\ rev \in Nat /\ Entry(q) = cache[q]
  BY <1>1 DEF TypeOK, CacheOK, ServerOK, Held, Entry
<1>3. cache' = [cache EXCEPT ![q] = Written(cache[q], cache[q].data)]
  BY DEF applyClientStatsEvent, q
<1>4. Written(cache[q], cache[q].data) \in Entries /\ Written(cache[q], cache[q].data).from <= rev
  BY <1>2 DEF Written, Entries
<1>5. \A b \in 0 .. rev : Fresh(cache[q], q \in Mounted, b) => Fresh(Written(cache[q], cache[q].data), q \in Mounted, b)
  <2> SUFFICES ASSUME NEW b \in 0 .. rev, Fresh(cache[q], q \in Mounted, b)
               PROVE  Fresh(Written(cache[q], cache[q].data), q \in Mounted, b)
    OBVIOUS
  <2>1. cache[q].data \in Nat /\ b \in Nat /\ (q \in Mounted) \in BOOLEAN
    BY <1>2 DEF Entries
  <2>2. IF Idle(cache[q]) THEN cache[q].data >= b ELSE cache[q].from >= b
    BY <1>1 DEF Fresh
  <2> QED
    BY <1>2, <2>1, <2>2, WrittenFresh
<1>6. rev' = rev /\ Mounted' = Mounted
  BY DEF applyClientStatsEvent, Mounted, server
<1> QED
  BY <1>2, <1>3, <1>4, <1>5, <1>6, OneEntry

\* and the window coming to the front keep both.
LEMMA FocusKeeps == ASSUME TypeOK, Held, Focus PROVE CacheOK' /\ Held' /\ KeepsFresh
<1>1. PICK aged \in BOOLEAN : cache' = Opening(Mounted, aged)
  BY DEF Focus
<1>2. CacheOK /\ rev \in Nat \ {0} /\ Mounted \in SUBSET Queries
  BY WatchedTyped DEF TypeOK, ServerOK, PageOK, Mounted
<1>3. OpenedFrom(cache', Mounted)
  BY <1>1, <1>2, OpeningKeeps
<1>4. rev' = rev /\ Mounted' = Mounted
  BY DEF Focus, Mounted, server
<1>5. CacheOK' /\ Held'
  BY <1>3, <1>4 DEF CacheOK, Held, OpenedFrom
<1>6. KeepsFresh
  <2> SUFFICES ASSUME NEW q \in DOMAIN cache', NEW b \in 0 .. rev,
                      q \in DOMAIN cache => Fresh(cache[q], q \in Mounted, b)
               PROVE  Fresh(cache'[q], q \in Mounted, b)
    BY <1>4 DEF KeepsFresh
  <2>1. (q \in Mounted) \in BOOLEAN
    OBVIOUS
  <2> QED
    BY <1>3, <2>1 DEF OpenedFrom
<1> QED
  BY <1>5, <1>6


\* Another view of the same page, or another page.
LEMMA MovesKeep ==
  ASSUME TypeOK, Held, Input \/ toggleExpand \/ Render \/ \E p \in Pages : Visit(p)
  PROVE  PageOK' /\ CacheOK' /\ Held' /\ KeepsFresh
<1>0. page \in Pages /\ table \in Tables
  BY DEF TypeOK, PageOK
<1>1. ASSUME Input PROVE rev' = rev /\ page' \in Pages /\ table' \in Tables /\ Watch(page', table')
  BY <1>0, <1>1, InputsTyped DEF Input, server
<1>2. ASSUME toggleExpand PROVE rev' = rev /\ page' \in Pages /\ table' \in Tables /\ Watch(page', table')
  <2>1. table' = [table EXCEPT !.expanded = ~table.expanded]
    BY <1>2 DEF toggleExpand
  <2>2. table.expanded \in BOOLEAN
    BY <1>0 DEF Tables
  <2>3. table' \in Tables
    BY <1>0, <2>1, <2>2 DEF Tables
  <2> QED
    BY <1>0, <1>2, <2>3 DEF toggleExpand, server
<1>3. ASSUME Render PROVE rev' = rev /\ page' \in Pages /\ table' \in Tables /\ Watch(page', table')
  BY <1>0, <1>3, EffectsTyped DEF Render, server
<1>4. ASSUME NEW p \in Pages, Visit(p) PROVE rev' = rev /\ page' \in Pages /\ table' \in Tables /\ Watch(page', table')
  BY <1>0, <1>4, OpenedTyped DEF Visit, server
<1>5. rev' = rev /\ page' \in Pages /\ table' \in Tables /\ Watch(page', table')
  BY <1>1, <1>2, <1>3, <1>4
<1>6. PageOK'
  BY <1>5 DEF PageOK
<1> QED
  BY <1>5, <1>6, WatchKeeps

\* A step that leaves the cache and the views alone.
LEMMA StillKeeps ==
  ASSUME TypeOK, Held, rev' \in Nat, rev' >= rev, cache' = cache, Mounted' = Mounted
  PROVE  CacheOK' /\ Held' /\ KeepsFresh
<1>1. CacheOK'
  <2>1. \A q \in DOMAIN cache : cache[q].from \in Nat /\ cache[q].from <= rev /\ rev \in Nat
    BY DEF TypeOK, CacheOK, ServerOK, Entries
  <2> QED
    BY <2>1 DEF TypeOK, CacheOK
<1>2. Held' /\ KeepsFresh
  BY DEF Held, KeepsFresh
<1> QED
  BY <1>1, <1>2

\* The typed search becomes the one asked for at the next render.
LEMMA DebounceKeeps == ASSUME TypeOK, Held, Debounce PROVE PageOK' /\ CacheOK' /\ Held' /\ KeepsFresh
<1>1. table \in Tables /\ page \in Pages /\ rev \in Nat
  BY DEF TypeOK, PageOK, ServerOK
<1>2. table' = [table EXCEPT !.debounced = table.typed, !.reset = TRUE]
  BY DEF Debounce
<1>3. table.typed \in Searches
  BY <1>1 DEF Tables
<1>4. table' \in Tables /\ table'.query = table.query /\ table'.filters = table.filters /\ table'.expanded = table.expanded
  BY <1>1, <1>2, <1>3 DEF Tables
<1>5. rev' = rev /\ page' = page /\ cache' = cache
  BY DEF Debounce, server
<1>6. Mounted' = Mounted
  BY <1>4, <1>5 DEF Mounted, Watched
<1>7. PageOK'
  BY <1>1, <1>4, <1>5 DEF PageOK
<1> QED
  BY <1>1, <1>5, <1>6, <1>7, StillKeeps

-----------------------------------------------------------------------------
\* Invalidations: the answer of a write, and the timer of the bridge.

\* An invalidation keeps what is held fresh or notes the loss.
LEMMA InvalidatesKeeping ==
  ASSUME TypeOK, Held, NEW roots, Invalidate(roots), rev' = rev, Mounted' = Mounted
  PROVE  CacheOK' /\ Held' /\ gap' \in 0 .. 2 /\ gap' >= gap /\ (gap' < 2 => KeepsFresh)
<1>1. CacheOK /\ ServerOK
  BY DEF TypeOK
<1>2. DOMAIN cache' = DOMAIN cache /\ \A q \in DOMAIN cache : cache'[q] \in Entries /\ cache'[q].from <= rev
  BY <1>1, InvalidateKeeps
<1>3. gap' \in 0 .. 2 /\ gap' >= gap
  BY <1>1, InvalidateKeeps
<1>4. \A q \in DOMAIN cache : Root(q) \notin roots => cache'[q] = cache[q]
  BY <1>1, InvalidateKeeps
<1>5. gap' < 2 => \A q \in DOMAIN cache : Root(q) \in roots => \A b \in 0 .. rev : Fresh(cache'[q], q \in Mounted, b)
  BY <1>1, InvalidateKeeps
<1>6. CacheOK' /\ Held'
  BY <1>1, <1>2 DEF CacheOK, Held
<1>7. ASSUME gap' < 2 PROVE KeepsFresh
  BY <1>2, <1>4, <1>5, <1>7 DEF KeepsFresh
<1> QED
  BY <1>3, <1>6, <1>7

\* A list that was pushed is written over slim.
LEMMA ListIs ==
  ASSUME TypeOK, Held, NEW r \in Nat, onInbounds(r), rev' = rev, Mounted' = Mounted
  PROVE  /\ CacheOK' /\ Held' /\ gap' \in 0 .. 2 /\ gap' >= gap
         /\ \A q \in DOMAIN cache' : q # slim => q \in DOMAIN cache /\ cache'[q] = cache[q]
         /\ gap' < 2 => r >= own["inbounds"] /\ r >= last["inbounds"]
         /\ gap' < 1 => Idle(Entry(slim)) \/ Entry(slim).from >= r
         /\ cache'[slim] = Written(Entry(slim), r)
<1>1. Entry(slim) \in Entries /\ Entry(slim).from <= rev
  BY EntryTyped DEF TypeOK, CacheOK, Entry, NoEntry, ServerOK
<1>2. cache' = [q \in DOMAIN cache \cup {slim} |-> IF q \in {slim} THEN Written(Entry(q), r) ELSE cache[q]]
  BY DEF onInbounds, After
<1>3. Written(Entry(slim), r) \in Entries /\ Written(Entry(slim), r).from <= rev
  BY <1>1 DEF Written, Entries
<1>4. slim \in Queries
  BY DEF Queries
<1>5. CacheOK'
  BY <1>2, <1>3, <1>4 DEF TypeOK, CacheOK
<1>6. Held'
  BY <1>2 DEF Held
<1> DEFINE older == r < Entry(slim).data \/ r < own["inbounds"] \/ r < last["inbounds"]
<1> DEFINE behind == ~Idle(Entry(slim)) /\ Entry(slim).from < r
<1> DEFINE level == IF older THEN 2 ELSE IF behind THEN 1 ELSE 0
<1>7. own["inbounds"] \in Nat /\ last["inbounds"] \in Nat /\ Entry(slim).data \in Nat /\ Entry(slim).from \in Nat
  BY <1>1 DEF TypeOK, ServerOK, Roots, Kinds, Entries
<1>8. gap \in 0 .. 2 /\ gap' = Gap(level)
  BY DEF onInbounds, TypeOK, ServerOK
<1>9. gap' \in 0 .. 2 /\ gap' >= gap /\ gap' >= level
  <2>1. level \in 0 .. 2
    OBVIOUS
  <2> HIDE DEF level
  <2> QED
    BY <1>8, <2>1, GapIs
<1>10. gap' < 2 => r >= own["inbounds"] /\ r >= last["inbounds"]
  <2>1. older => gap' >= 2
    BY <1>9
  <2> QED
    BY <1>7, <1>9, <2>1
<1>11. gap' < 1 => Idle(Entry(slim)) \/ Entry(slim).from >= r
  <2>1. older \/ behind => gap' >= 1
    BY <1>9
  <2> QED
    BY <1>7, <1>9, <2>1
<1> QED
  BY <1>2, <1>5, <1>6, <1>9, <1>10, <1>11


-----------------------------------------------------------------------------
\* The types, and what lies in the past, are kept by every step.

\* A request of the page is one write, not yet sent on.
LEMMA RequestsTyped ==
  ASSUME rev \in Nat, NEW w \in Requests
  PROVE  w \in Works /\ w.at = rev + 1 /\ ~w.sent /\ (w.push = "list" => w.kind = "inbounds")
<1>1. ASSUME NEW kind \in Kinds, NEW push \in {"list", "invalidate"}, NEW roots \in SUBSET Roots, NEW mark \in BOOLEAN,
             push = "list" => kind = "inbounds", w = Request(kind, push, roots, mark)
      PROVE  w \in Works /\ w.at = rev + 1 /\ ~w.sent /\ (w.push = "list" => w.kind = "inbounds")
  <2>1. w = [kind |-> kind, push |-> push, roots |-> roots, mark |-> mark, at |-> rev + 1,
             built |-> 0, sent |-> FALSE, open |-> roots # {}]
    BY <1>1 DEF Request
  <2>2. (roots # {}) \in BOOLEAN /\ rev + 1 \in Nat
    OBVIOUS
  <2> QED
    BY <1>1, <2>1, <2>2 DEF Works
<1>2. /\ {} \in SUBSET Roots /\ invalidateAll \in SUBSET Roots /\ GroupsInvalidate \in SUBSET Roots
      /\ refresh \in SUBSET Roots /\ PanelInvalidate \in SUBSET Roots
  BY DEF invalidateAll, GroupsInvalidate, refresh, PanelInvalidate, Roots, Kinds
<1>3. "clients" \in Kinds /\ "inbounds" \in Kinds
  BY DEF Kinds
<1>4. CASE w \in ClientWrites \cup GroupWrites \cup PanelWrites
  BY <1>1, <1>2, <1>3, <1>4 DEF ClientWrites, GroupWrites, PanelWrites
<1>5. CASE w \in InboundWrites
  BY <1>1, <1>2, <1>3, <1>5 DEF InboundWrites
<1>6. CASE w \in ForeignWrites \cup onSwitchEnable
  BY <1>1, <1>2, <1>3, <1>6 DEF ForeignWrites, onSwitchEnable
<1> QED
  BY <1>4, <1>5, <1>6 DEF Requests

\* A request in progress goes on as v.
LEMMA WithoutTyped ==
  ASSUME WorkOK, rev' = rev, NEW w \in work, NEW v \in Works, v.at = w.at, v.push = w.push, v.kind = w.kind,
         work' = Without(w, v)
  PROVE  WorkOK'
BY DEF WorkOK, Without

\* A write in the database keeps the invariant,
LEMMA CommitTyped == ASSUME TypeOK, Past, Held, Commit PROVE TypeOK' /\ Past' /\ Held' /\ gap' >= gap /\ KeepsFresh
<1>1. PICK w \in Requests : work' = work \cup {w} /\ rev' = w.at /\ last' = [last EXCEPT ![w.kind] = w.at]
  BY DEF Commit
<1>2. rev \in Nat \ {0} /\ own \in [Roots -> Nat] /\ last \in [Kinds -> Nat] /\ gap \in 0 .. 2
  BY DEF TypeOK, ServerOK
<1>3. w \in Works /\ w.at = rev + 1 /\ ~w.sent /\ (w.push = "list" => w.kind = "inbounds")
  BY <1>2, RequestsTyped
<1>4. w.kind \in Kinds /\ rev' = rev + 1 /\ UNCHANGED <<own, gap, cache, page, table, link, queue, timer, recent>>
  BY <1>1, <1>3 DEF Commit, Works, socket
<1>5. ServerOK'
  BY <1>1, <1>2, <1>3, <1>4 DEF ServerOK
<1>6. WorkOK'
  <2>1. \A x \in work : x.at \in Nat
    BY DEF TypeOK, WorkOK, Works
  <2> QED
    BY <1>1, <1>2, <1>3, <1>4, <2>1 DEF TypeOK, WorkOK
<1>7. PageOK' /\ SocketOK'
  BY <1>4 DEF TypeOK, PageOK, SocketOK
<1>8. CacheOK' /\ Held' /\ KeepsFresh
  <2>1. Mounted' = Mounted
    BY <1>4 DEF Mounted
  <2> QED
    BY <1>2, <1>4, <2>1, StillKeeps
<1>9. Past'
  BY <1>1, <1>2, <1>3, <1>4 DEF Past
<1> QED
  BY <1>2, <1>4, <1>5, <1>6, <1>7, <1>8, <1>9 DEF TypeOK

\* Building, sending and answering.
LEMMA BuildTyped ==
  ASSUME TypeOK, Past, Held, NEW w \in work, Build(w)
  PROVE  TypeOK' /\ Past' /\ Held' /\ gap' >= gap /\ KeepsFresh
<1>1. w \in Works /\ rev \in Nat /\ gap \in 0 .. 2
  BY DEF TypeOK, WorkOK, ServerOK
<1>2. UNCHANGED <<rev, own, last, gap, cache, page, table, link, queue, timer, recent>>
  BY DEF Build, socket
<1> DEFINE v == [w EXCEPT !.built = rev]
<1>3. v \in Works /\ v.at = w.at /\ v.push = w.push /\ v.kind = w.kind
  BY <1>1 DEF Works
<1>4. work' = Without(w, v)
  BY DEF Build
<1> HIDE DEF v
<1>5. WorkOK'
  BY <1>2, <1>3, <1>4, WithoutTyped DEF TypeOK
<1>6. Mounted' = Mounted
  BY <1>2 DEF Mounted
<1>7. CacheOK' /\ Held' /\ KeepsFresh
  BY <1>1, <1>2, <1>6, StillKeeps
<1> QED
  BY <1>1, <1>2, <1>5, <1>7 DEF TypeOK, ServerOK, PageOK, SocketOK, Past

\* so does its push,
LEMMA PushTyped ==
  ASSUME TypeOK, Past, Held, NEW w \in work, Push(w)
  PROVE  TypeOK' /\ Past' /\ Held' /\ gap' >= gap /\ KeepsFresh
<1>1. w \in Works /\ rev \in Nat /\ gap \in 0 .. 2 /\ queue \in Seq(Messages)
  BY DEF TypeOK, WorkOK, ServerOK, SocketOK
<1>2. UNCHANGED <<rev, own, last, cache, page, table, link, timer, recent>>
  BY DEF Push
<1> DEFINE v == [w EXCEPT !.sent = TRUE]
<1>3. v \in Works /\ v.at = w.at /\ v.push = w.push /\ v.kind = w.kind
  BY <1>1 DEF Works
<1>4. work' = Without(w, v)
  BY DEF Push
<1> HIDE DEF v
<1>5. WorkOK'
  BY <1>2, <1>3, <1>4, WithoutTyped DEF TypeOK
<1>6. Mounted' = Mounted
  BY <1>2 DEF Mounted
<1>7. CacheOK' /\ Held' /\ KeepsFresh
  BY <1>1, <1>2, <1>6, StillKeeps
<1> DEFINE m == [type |-> IF w.push = "list" THEN "list" ELSE w.kind, data |-> w.built]
<1>8. m \in Messages
  BY <1>1 DEF Messages, Works
<1>9. (queue' = Append(queue, m) /\ gap' = gap) \/ (gap' = Gap(1) /\ queue' = queue)
  BY DEF Push
<1> HIDE DEF m
<1>10. queue' \in Seq(Messages)
  BY <1>1, <1>8, <1>9
<1>11. gap' \in 0 .. 2 /\ gap' >= gap
  BY <1>1, <1>9, GapIs
<1> QED
  BY <1>1, <1>2, <1>5, <1>7, <1>10, <1>11 DEF TypeOK, ServerOK, PageOK, SocketOK, Past

\* its answer,
LEMMA AnswerTyped ==
  ASSUME TypeOK, Past, Held, NEW w \in work, Answer(w)
  PROVE  TypeOK' /\ Past' /\ Held' /\ gap' >= gap /\ (gap' < 2 => KeepsFresh)
<1>1. w \in Works /\ w.at <= rev /\ rev \in Nat /\ gap \in 0 .. 2 /\ recent \in BOOLEAN /\ own \in [Roots -> Nat]
  BY DEF TypeOK, WorkOK, ServerOK, SocketOK
<1>2. UNCHANGED <<rev, last, page, table, link, queue, timer>>
  BY DEF Answer
<1> DEFINE v == [w EXCEPT !.open = FALSE]
<1>3. v \in Works /\ v.at = w.at /\ v.push = w.push /\ v.kind = w.kind
  BY <1>1 DEF Works
<1>4. work' = Without(w, v)
  BY DEF Answer
<1> HIDE DEF v
<1>5. WorkOK'
  BY <1>2, <1>3, <1>4, WithoutTyped DEF TypeOK
<1>6. Mounted' = Mounted
  BY <1>2 DEF Mounted
<1>7. CacheOK' /\ Held' /\ gap' \in 0 .. 2 /\ gap' >= gap /\ (gap' < 2 => KeepsFresh)
  <2>1. Invalidate(w.roots)
    BY DEF Answer
  <2> QED
    BY <1>2, <1>6, <2>1, InvalidatesKeeping
<1>8. w.at \in Nat /\ w.mark \in BOOLEAN /\ own' = [k \in Roots |-> IF k \in w.roots /\ w.at > own[k] THEN w.at ELSE own[k]]
  BY <1>1 DEF Answer, Works
<1>9. own' \in [Roots -> Nat] /\ (\A k \in Roots : own'[k] <= rev)
  BY <1>1, <1>8 DEF Past
<1>10. recent' \in BOOLEAN
  BY <1>1, <1>8 DEF Answer
<1> QED
  BY <1>2, <1>5, <1>7, <1>9, <1>10 DEF TypeOK, ServerOK, PageOK, SocketOK, Past


\* The list that a step brings over the socket is the one way by which slim
\* is written without being read.
ListDelivered == Deliver /\ Head(queue).type = "list"

\* a message of the socket,
LEMMA DeliverTyped ==
  ASSUME TypeOK, Past, Held, Deliver
  PROVE  TypeOK' /\ Past' /\ Held' /\ gap' >= gap /\ (~ListDelivered => KeepsFresh)
<1>1. UNCHANGED <<rev, work, own, last, page, table, link, recent>> /\ queue' = Tail(queue)
  BY DEF Deliver, server
<1>2. queue \in Seq(Messages) /\ queue # <<>> /\ gap \in 0 .. 2 /\ rev \in Nat /\ timer \in Kinds \cup {"none"}
  BY DEF Deliver, TypeOK, ServerOK, SocketOK
<1>3. Head(queue) \in Messages /\ Tail(queue) \in Seq(Messages)
  BY <1>2
<1>4. Mounted' = Mounted
  BY <1>1 DEF Mounted
<1>5. CacheOK' /\ Held' /\ gap' \in 0 .. 2 /\ gap' >= gap /\ timer' \in Kinds \cup {"none"} /\ (~ListDelivered => KeepsFresh)
  <2>1. CASE Head(queue).type = "list"
    <3>1. Head(queue).data \in Nat /\ onInbounds(Head(queue).data) /\ timer' = timer
      BY <1>3, <2>1 DEF Messages, Deliver, onInbounds
    <3> QED
      BY <1>1, <1>2, <1>4, <2>1, <3>1, ListIs DEF ListDelivered
  <2>2. CASE Head(queue).type # "list"
    <3>1. Head(queue).type \in Kinds /\ onInvalidate(Head(queue).type)
      BY <1>3, <2>2 DEF Messages, Deliver
    <3>2. cache' = cache /\ timer' \in Kinds /\ gap' \in 0 .. 2 /\ gap' >= gap
      BY <1>2, <3>1, GapIs DEF onInvalidate
    <3> QED
      BY <1>1, <1>2, <1>4, <3>2, StillKeeps
  <2> QED
    BY <2>1, <2>2
<1> QED
  BY <1>1, <1>3, <1>5 DEF TypeOK, ServerOK, WorkOK, PageOK, SocketOK, Past

\* the timer of the bridge,
LEMMA TimerTyped ==
  ASSUME TypeOK, Past, Held, TimerFires
  PROVE  TypeOK' /\ Past' /\ Held' /\ gap' >= gap /\ (gap' < 2 => KeepsFresh)
<1>1. UNCHANGED <<rev, work, own, last, page, table, link, queue, recent>> /\ timer' = "none"
  BY DEF TimerFires, server
<1>2. gap \in 0 .. 2 /\ rev \in Nat
  BY DEF TypeOK, ServerOK
<1>3. Mounted' = Mounted
  BY <1>1 DEF Mounted
<1>4. CacheOK' /\ Held' /\ gap' \in 0 .. 2 /\ gap' >= gap /\ (gap' < 2 => KeepsFresh)
  <2>1. CASE recent
    <3>1. gap' = Gap(1) /\ cache' = cache
      BY <2>1 DEF TimerFires
    <3> QED
      BY <1>1, <1>2, <1>3, <3>1, GapIs, StillKeeps
  <2>2. CASE ~recent
    <3>1. Invalidate({timer})
      BY <2>2 DEF TimerFires
    <3> QED
      BY <1>1, <1>3, <3>1, InvalidatesKeeping
  <2> QED
    BY <2>1, <2>2
<1> QED
  BY <1>1, <1>4 DEF TypeOK, ServerOK, WorkOK, PageOK, SocketOK, Past

\* the end of its window, a lost connection and a new one,
LEMMA LinkTyped ==
  ASSUME TypeOK, Past, Held, WindowEnds \/ Close \/ Connect
  PROVE  TypeOK' /\ Past' /\ Held' /\ gap' >= gap /\ KeepsFresh
<1>1. gap \in 0 .. 2 /\ rev \in Nat /\ queue \in Seq(Messages)
  BY DEF TypeOK, ServerOK, SocketOK
<1>2. UNCHANGED <<rev, work, own, last, cache, page, table, timer>> /\ (queue' = queue \/ queue' = <<>>)
  BY DEF WindowEnds, Close, Connect, server
<1>3. gap' \in 0 .. 2 /\ gap' >= gap
  BY <1>1, GapIs DEF WindowEnds, Close, Connect
<1>4. link' \in {"up", "down"} /\ recent' \in BOOLEAN
  BY DEF WindowEnds, Close, Connect, TypeOK, SocketOK
<1>5. queue' \in Seq(Messages)
  <2>1. <<>> \in Seq(Messages)
    OBVIOUS
  <2> QED
    BY <1>1, <1>2, <2>1
<1>6. CacheOK' /\ Held' /\ KeepsFresh
  <2>1. Mounted' = Mounted
    BY <1>2 DEF Mounted
  <2> QED
    BY <1>1, <1>2, <2>1, StillKeeps
<1> QED
  BY <1>2, <1>3, <1>4, <1>5, <1>6 DEF TypeOK, ServerOK, WorkOK, PageOK, SocketOK, Past

\* The steps of the panel itself, which neither write nor talk.
PanelStep ==
  \/ \E q \in DOMAIN cache : Arrive(q)
  \/ Poll \/ Focus \/ Moves \/ Debounce \/ Render \/ applyClientStatsEvent

\* a step of the page
LEMMA PanelTyped ==
  ASSUME TypeOK, Past, Held, PanelStep
  PROVE  TypeOK' /\ Past' /\ Held' /\ gap' = gap /\ KeepsFresh /\ UNCHANGED <<server, socket>>
<1>1. UNCHANGED <<server, gap, socket>>
  BY DEF PanelStep, Arrive, Poll, Focus, Moves, Input, toggleExpand, Visit, Debounce, Render, applyClientStatsEvent
<1>2. PageOK' /\ CacheOK' /\ Held' /\ KeepsFresh
  <2>1. CASE (\E q \in DOMAIN cache : Arrive(q)) \/ Poll \/ Focus \/ applyClientStatsEvent
    <3>1. PageOK'
      BY <2>1 DEF Arrive, Poll, Focus, applyClientStatsEvent, TypeOK, PageOK
    <3>2. CacheOK' /\ Held' /\ KeepsFresh
      BY <2>1, ArriveKeeps, PollKeeps, FocusKeeps, StatsKeep
    <3> QED
      BY <3>1, <3>2
  <2>2. CASE Moves \/ Render
    BY <2>2, MovesKeep DEF Moves
  <2>3. CASE Debounce
    BY <2>3, DebounceKeeps
  <2> QED
    BY <2>1, <2>2, <2>3 DEF PanelStep
<1> QED
  BY <1>1, <1>2 DEF TypeOK, ServerOK, WorkOK, SocketOK, Past, server, socket

\* and a request that fails.
LEMMA FailsTyped ==
  ASSUME TypeOK, Past, Held, NEW q \in DOMAIN cache, Fail(q)
  PROVE  TypeOK' /\ Past' /\ Held' /\ gap' = 2
<1>1. CacheOK' /\ Held' /\ gap' = 2
  BY FailKeeps
<1>2. UNCHANGED <<server, page, table, socket>>
  BY DEF Fail
<1> QED
  BY <1>1, <1>2 DEF TypeOK, ServerOK, WorkOK, PageOK, SocketOK, Past, server, socket


-----------------------------------------------------------------------------
\* What this panel wrote stays shown.

\* A step that keeps the cache fresh keeps own writes shown.
LEMMA OwnKept ==
  ASSUME TypeOK, Past, OwnFresh, TypeOK', own' = own, gap' >= gap, gap' < 2 => KeepsFresh
  PROVE  OwnFresh'
<1> SUFFICES ASSUME gap' < 2, NEW q \in DOMAIN cache' PROVE Fresh(cache'[q], q \in Mounted', own[Root(q)])
  BY DEF OwnFresh
<1>1. gap < 2 /\ KeepsFresh
  BY DEF TypeOK, ServerOK
<1>2. q \in Queries
  BY DEF TypeOK, CacheOK
<1>3. own[Root(q)] \in 0 .. rev
  BY <1>2, Rooted DEF TypeOK, ServerOK, Past
<1>4. q \in DOMAIN cache => Fresh(cache[q], q \in Mounted, own[Root(q)])
  BY <1>1 DEF OwnFresh
<1> QED
  BY <1>1, <1>3, <1>4 DEF KeepsFresh

\* An answered write is asked for before it counts as shown.
LEMMA OwnAnswered ==
  ASSUME TypeOK, Past, Held, OwnFresh, NEW w \in work, Answer(w), TypeOK', Past', gap' >= gap
  PROVE  OwnFresh'
<1> SUFFICES ASSUME gap' < 2, NEW q \in DOMAIN cache' PROVE Fresh(cache'[q], q \in Mounted', own'[Root(q)])
  BY DEF OwnFresh
<1>1. gap \in 0 .. 2 /\ gap' \in 0 .. 2 /\ rev \in Nat /\ rev' = rev
  BY DEF TypeOK, ServerOK, Answer
<1>2. q \in Queries /\ Root(q) \in Roots
  BY Rooted DEF TypeOK, CacheOK
<1>3. Mounted' = Mounted
  BY DEF Answer, Mounted
<1>4. CacheOK /\ ServerOK /\ Invalidate(w.roots)
  BY DEF TypeOK, Answer
<1>5. DOMAIN cache' = DOMAIN cache
  BY <1>4, InvalidateKeeps
<1>6. CASE Root(q) \in w.roots
  <2>1. own'[Root(q)] \in 0 .. rev
    BY <1>1, <1>2 DEF TypeOK, ServerOK, Past
  <2>2. \A b \in 0 .. rev : Fresh(cache'[q], q \in Mounted, b)
    BY <1>4, <1>5, <1>6, InvalidateKeeps
  <2> QED
    BY <1>3, <2>1, <2>2
<1>7. CASE Root(q) \notin w.roots
  <2>1. cache'[q] = cache[q]
    BY <1>4, <1>5, <1>7, InvalidateKeeps
  <2>2. own'[Root(q)] = own[Root(q)]
    BY <1>2, <1>7 DEF Answer
  <2>3. Fresh(cache[q], q \in Mounted, own[Root(q)])
    BY <1>1, <1>5 DEF OwnFresh
  <2> QED
    BY <1>3, <2>1, <2>2, <2>3
<1> QED
  BY <1>6, <1>7

\* What the delivered list leaves in the cache.
LEMMA Delivered ==
  ASSUME TypeOK, Held, ListDelivered
  PROVE  \E r \in Nat : /\ onInbounds(r) /\ Mounted' = Mounted /\ rev' = rev
                        /\ UNCHANGED <<own, last, work, timer>> /\ gap' \in 0 .. 2 /\ gap' >= gap
                        /\ \A q \in DOMAIN cache' : q # slim => q \in DOMAIN cache /\ cache'[q] = cache[q]
                        /\ gap' < 2 => r >= own["inbounds"] /\ r >= last["inbounds"]
                        /\ gap' < 1 => Idle(Entry(slim)) \/ Entry(slim).from >= r
                        /\ cache'[slim] = Written(Entry(slim), r)
<1>1. Head(queue) \in Messages
  BY DEF ListDelivered, Deliver, TypeOK, SocketOK
<1>2. Head(queue).data \in Nat /\ onInbounds(Head(queue).data)
  BY <1>1 DEF Messages, ListDelivered, Deliver
<1>3. Mounted' = Mounted /\ rev' = rev /\ UNCHANGED <<own, last, work, timer>>
  BY <1>2 DEF ListDelivered, Deliver, Mounted, server, onInbounds
<1> QED
  BY <1>2, <1>3, ListIs

\* A delivered list keeps own writes shown.
LEMMA OwnDelivered == ASSUME TypeOK, Past, Held, OwnFresh, ListDelivered PROVE OwnFresh'
<1> SUFFICES ASSUME gap' < 2, NEW q \in DOMAIN cache' PROVE Fresh(cache'[q], q \in Mounted', own'[Root(q)])
  BY DEF OwnFresh
<1>1. PICK r \in Nat :
        /\ Mounted' = Mounted /\ own' = own /\ gap' \in 0 .. 2 /\ gap' >= gap
        /\ \A x \in DOMAIN cache' : x # slim => x \in DOMAIN cache /\ cache'[x] = cache[x]
        /\ gap' < 2 => r >= own["inbounds"]
        /\ cache'[slim] = Written(Entry(slim), r)
  BY Delivered
<1>2. gap < 2
  BY <1>1 DEF TypeOK, ServerOK
<1>3. CASE q # slim
  BY <1>1, <1>2, <1>3 DEF OwnFresh
<1>4. CASE q = slim
  <2>1. Entry(slim) \in Entries /\ own["inbounds"] \in Nat /\ Root(slim) = "inbounds" /\ (slim \in Mounted) \in BOOLEAN
    BY EntryTyped, Rooted DEF TypeOK, ServerOK, Roots, Kinds
  <2>2. ~Idle(Entry(slim)) => Entry(slim).from >= own["inbounds"]
    <3> SUFFICES ASSUME ~Idle(Entry(slim)) PROVE Entry(slim).from >= own["inbounds"]
      OBVIOUS
    <3>1. slim \in DOMAIN cache /\ Entry(slim) = cache[slim]
      BY EntryTyped DEF TypeOK, Entry
    <3>2. Fresh(Entry(slim), slim \in Mounted, own["inbounds"])
      BY <1>2, <2>1, <3>1 DEF OwnFresh
    <3> QED
      BY <3>2 DEF Fresh
  <2>3. Fresh(Written(Entry(slim), r), slim \in Mounted, own["inbounds"])
    BY <1>1, <2>1, <2>2, WrittenFresh
  <2> QED
    BY <1>1, <1>4, <2>1, <2>3
<1> QED
  BY <1>3, <1>4


-----------------------------------------------------------------------------
\* What others wrote is shown, or on its way.

\* A step that keeps the cache fresh keeps the last push of a kind shown.
LEMMA LastKept ==
  ASSUME TypeOK, Past, CacheOK', KeepsFresh, NEW k \in Kinds, last'[k] = last[k], LastFresh(k)
  PROVE  LastFresh(k)'
<1> SUFFICES ASSUME NEW q \in DOMAIN cache' \ {options, detail}, Root(q) = k
             PROVE  Fresh(cache'[q], q \in Mounted', last[k])
  BY DEF LastFresh
<1>1. last[k] \in 0 .. rev
  BY DEF TypeOK, ServerOK, Past
<1>2. q \in DOMAIN cache => Fresh(cache[q], q \in Mounted, last[k])
  BY DEF LastFresh
<1> QED
  BY <1>1, <1>2 DEF KeepsFresh

\* A message that was on its way still is, unless the step is its arrival.
LEMMA PushesKept ==
  ASSUME TypeOK, Past, PushesFresh, TypeOK', last' = last, gap' >= gap, gap' = 0 => KeepsFresh,
         gap' = 0 => \A k \in Kinds : OnItsWay(k) => OnItsWay(k)'
  PROVE  PushesFresh'
<1> SUFFICES ASSUME gap' = 0, NEW k \in Kinds PROVE OnItsWay(k)' \/ LastFresh(k)'
  BY DEF PushesFresh
<1>1. gap = 0
  BY DEF TypeOK, ServerOK
<1>2. OnItsWay(k) \/ LastFresh(k)
  BY <1>1 DEF PushesFresh
<1>3. CASE OnItsWay(k)
  BY <1>3
<1>4. CASE LastFresh(k)
  BY <1>4, LastKept DEF TypeOK
<1> QED
  BY <1>2, <1>3, <1>4

\* A request in progress goes on, as unsent as before.
LEMMA WayWithout ==
  ASSUME WorkOK, NEW w \in work, NEW v, v.kind = w.kind, v.sent = w.sent,
         work' = Without(w, v), UNCHANGED <<queue, timer>>, NEW k \in Kinds, OnItsWay(k)
  PROVE  OnItsWay(k)'
<1>1. CASE \E x \in work : ~x.sent /\ x.kind = k
  <2>1. PICK x \in work : ~x.sent /\ x.kind = k
    BY <1>1
  <2>2. CASE x = w
    <3>1. v \in work' /\ ~v.sent /\ v.kind = k
      BY <2>1, <2>2 DEF Without
    <3> QED
      BY <3>1 DEF OnItsWay
  <2>3. CASE x # w
    <3>1. x \in work'
      BY <2>3 DEF Without
    <3> QED
      BY <2>1, <3>1 DEF OnItsWay
  <2> QED
    BY <2>2, <2>3
<1>2. CASE ~\E x \in work : ~x.sent /\ x.kind = k
  BY <1>2 DEF OnItsWay
<1> QED
  BY <1>1, <1>2

\* A push leaves the earlier ones on their way.
LEMMA WayPushed ==
  ASSUME TypeOK, NEW w \in work, Push(w), gap' = 0, NEW k \in Kinds, OnItsWay(k) PROVE OnItsWay(k)'
<1> DEFINE m == [type |-> IF w.push = "list" THEN "list" ELSE w.kind, data |-> w.built]
<1>1. w \in Works /\ (w.push = "list" => w.kind = "inbounds") /\ queue \in Seq(Messages) /\ gap \in 0 .. 2
  BY DEF TypeOK, WorkOK, SocketOK, ServerOK
<1>2. queue' = Append(queue, m)
  <2>1. gap' = Gap(1) => gap' >= 1
    BY <1>1, GapIs
  <2> QED
    BY <2>1 DEF Push
<1>3. timer' = timer /\ work' = Without(w, [w EXCEPT !.sent = TRUE])
  BY DEF Push
<1>4. m.type = w.kind \/ (m.type = "list" /\ w.kind = "inbounds")
  BY <1>1
<1>5. m \in Messages
  BY <1>1 DEF Messages, Works
<1> HIDE DEF m
<1>6. /\ Len(queue) \in Nat /\ Len(queue') = Len(queue) + 1 /\ queue'[Len(queue) + 1] = m
      /\ DOMAIN queue = 1 .. Len(queue) /\ DOMAIN queue' = 1 .. (Len(queue) + 1)
      /\ \A i \in 1 .. Len(queue) : queue'[i] = queue[i]
  BY <1>1, <1>2, <1>5
<1>7. CASE k = w.kind
  <2>1. Len(queue) + 1 \in DOMAIN queue' /\ (queue'[Len(queue) + 1].type = k \/ (queue'[Len(queue) + 1].type = "list" /\ k = "inbounds"))
    BY <1>4, <1>6, <1>7
  <2> QED
    BY <2>1 DEF OnItsWay
<1>8. CASE k # w.kind
  <2>1. CASE \E x \in work : ~x.sent /\ x.kind = k
    <3>1. PICK x \in work : ~x.sent /\ x.kind = k
      BY <2>1
    <3>2. x \in work'
      BY <1>3, <1>8, <3>1 DEF Without
    <3> QED
      BY <3>1, <3>2 DEF OnItsWay
  <2>2. CASE \E i \in DOMAIN queue : queue[i].type = k \/ (queue[i].type = "list" /\ k = "inbounds")
    <3>1. PICK i \in DOMAIN queue : queue[i].type = k \/ (queue[i].type = "list" /\ k = "inbounds")
      BY <2>2
    <3>2. i \in DOMAIN queue' /\ queue'[i] = queue[i]
      BY <1>6, <3>1
    <3> QED
      BY <3>1, <3>2 DEF OnItsWay
  <2>3. CASE timer = k
    BY <1>3, <2>3 DEF OnItsWay
  <2> QED
    BY <2>1, <2>2, <2>3 DEF OnItsWay
<1> QED
  BY <1>7, <1>8


\* The message that arrives is the first; the others stay on their way.
LEMMA WayDelivered ==
  ASSUME TypeOK, Deliver, gap' = 0, NEW k \in Kinds, OnItsWay(k)
  PROVE  OnItsWay(k)' \/ (ListDelivered /\ k = "inbounds")
<1>1. queue \in Seq(Messages) /\ queue # <<>> /\ gap \in 0 .. 2 /\ timer \in Kinds \cup {"none"}
  BY DEF TypeOK, SocketOK, ServerOK, Deliver
<1>2. queue' = Tail(queue) /\ work' = work
  BY DEF Deliver, server
<1>3. /\ Len(queue) \in Nat \ {0} /\ Len(queue') = Len(queue) - 1
      /\ DOMAIN queue = 1 .. Len(queue) /\ DOMAIN queue' = 1 .. (Len(queue) - 1)
      /\ \A i \in 1 .. (Len(queue) - 1) : queue'[i] = queue[i + 1]
  BY <1>1, <1>2
<1>4. Head(queue) \in Messages /\ Head(queue) = queue[1]
  BY <1>1
<1>5. CASE \E x \in work : ~x.sent /\ x.kind = k
  BY <1>2, <1>5 DEF OnItsWay
<1>6. CASE \E i \in DOMAIN queue : queue[i].type = k \/ (queue[i].type = "list" /\ k = "inbounds")
  <2>1. PICK i \in DOMAIN queue : queue[i].type = k \/ (queue[i].type = "list" /\ k = "inbounds")
    BY <1>6
  <2>2. CASE i # 1
    <3>1. i - 1 \in DOMAIN queue' /\ queue'[i - 1] = queue[i]
      BY <1>3, <2>1, <2>2
    <3> QED
      BY <2>1, <3>1 DEF OnItsWay
  <2>3. CASE i = 1
    <3>1. Head(queue).type = k \/ (Head(queue).type = "list" /\ k = "inbounds")
      BY <1>4, <2>1, <2>3
    <3>2. CASE Head(queue).type = "list"
      BY <3>1, <3>2 DEF ListDelivered, Kinds
    <3>3. CASE Head(queue).type # "list"
      <4>1. timer' = k
        BY <3>1, <3>3 DEF Deliver, onInvalidate
      <4> QED
        BY <4>1 DEF OnItsWay
    <3> QED
      BY <3>2, <3>3
  <2> QED
    BY <2>2, <2>3
<1>7. CASE timer = k
  <2>1. CASE Head(queue).type = "list"
    BY <1>7, <2>1 DEF Deliver, onInbounds, OnItsWay
  <2>2. CASE Head(queue).type # "list"
    <3>1. timer' = Head(queue).type /\ gap' = Gap(IF timer \in Kinds \ {Head(queue).type} THEN 1 ELSE 0)
      BY <2>2 DEF Deliver, onInvalidate
    <3>2. Head(queue).type # k => gap' >= 1
      <4> SUFFICES ASSUME Head(queue).type # k PROVE gap' >= 1
        OBVIOUS
      <4>1. gap' = Gap(1)
        BY <1>7, <3>1
      <4> QED
        BY <1>1, <4>1, GapIs
    <3> QED
      BY <3>1, <3>2 DEF OnItsWay
  <2> QED
    BY <2>1, <2>2
<1> QED
  BY <1>5, <1>6, <1>7 DEF OnItsWay

\* A delivered message is shown or asked for,
LEMMA PushesDelivered ==
  ASSUME TypeOK, Past, Held, PushesFresh, Deliver, TypeOK', gap' >= gap, ~ListDelivered => KeepsFresh
  PROVE  PushesFresh'
<1>0. last' = last
  BY DEF Deliver, server
<1>1. CASE ~ListDelivered
  BY <1>0, <1>1, WayDelivered, PushesKept
<1>2. CASE ListDelivered
  <2> SUFFICES ASSUME gap' = 0, NEW k \in Kinds PROVE OnItsWay(k)' \/ LastFresh(k)'
    BY DEF PushesFresh
  <2>1. PICK r \in Nat :
          /\ Mounted' = Mounted /\ rev' = rev
          /\ \A x \in DOMAIN cache' : x # slim => x \in DOMAIN cache /\ cache'[x] = cache[x]
          /\ r >= last["inbounds"]
          /\ Idle(Entry(slim)) \/ Entry(slim).from >= r
          /\ cache'[slim] = Written(Entry(slim), r)
    BY <1>2, Delivered
  <2>2. CASE k = "inbounds"
    <3> SUFFICES ASSUME NEW q \in DOMAIN cache' \ {options, detail}, Root(q) = "inbounds"
                 PROVE  Fresh(cache'[q], q \in Mounted, last["inbounds"])
      BY <1>0, <2>1, <2>2 DEF LastFresh
    <3>1. q = slim
      <4>1. q \in Queries
        BY DEF TypeOK, CacheOK
      <4> QED
        BY <4>1, Rooted DEF Queries
    <3>2. Entry(slim) \in Entries /\ last["inbounds"] \in Nat /\ (slim \in Mounted) \in BOOLEAN
      BY EntryTyped DEF TypeOK, ServerOK, Kinds
    <3>3. IF Idle(Entry(slim)) THEN r >= last["inbounds"] ELSE Entry(slim).from >= last["inbounds"]
      BY <2>1, <3>2 DEF Entries
    <3>4. Fresh(Written(Entry(slim), r), slim \in Mounted, last["inbounds"])
      BY <3>2, <3>3, WrittenFresh
    <3> QED
      BY <2>1, <3>1, <3>4
  <2>3. CASE k # "inbounds"
    <3>1. gap = 0
      BY DEF TypeOK, ServerOK
    <3>2. CASE OnItsWay(k)
      BY <2>3, <3>2, WayDelivered
    <3>3. CASE LastFresh(k)
      <4> SUFFICES ASSUME NEW q \in DOMAIN cache' \ {options, detail}, Root(q) = k
                   PROVE  Fresh(cache'[q], q \in Mounted, last[k])
        BY <1>0, <2>1 DEF LastFresh
      <4>1. q # slim
        BY <2>3, Rooted
      <4> QED
        BY <2>1, <3>3, <4>1 DEF LastFresh
    <3> QED
      BY <3>1, <3>2, <3>3 DEF PushesFresh
  <2> QED
    BY <2>2, <2>3
<1> QED
  BY <1>1, <1>2

\* so is what the timer was set for,
LEMMA PushesTimed ==
  ASSUME TypeOK, Past, Held, PushesFresh, TimerFires, TypeOK', gap' >= gap, gap' < 2 => KeepsFresh
  PROVE  PushesFresh'
<1> SUFFICES ASSUME gap' = 0, NEW k \in Kinds PROVE OnItsWay(k)' \/ LastFresh(k)'
  BY DEF PushesFresh
<1>1. gap \in 0 .. 2 /\ gap = 0 /\ KeepsFresh
  BY DEF TypeOK, ServerOK
<1>2. UNCHANGED <<rev, last, work, queue>> /\ Mounted' = Mounted
  BY DEF TimerFires, server, Mounted
<1>3. ~recent
  <2>1. recent => gap' >= 1
    BY <1>1, GapIs DEF TimerFires
  <2> QED
    BY <2>1
<1>4. CASE k = timer
  <2>1. CacheOK /\ ServerOK /\ Invalidate({k})
    BY <1>3, <1>4 DEF TypeOK, TimerFires
  <2>2. /\ DOMAIN cache' = DOMAIN cache
        /\ \A q \in DOMAIN cache : Root(q) \in {k} => \A b \in 0 .. rev : Fresh(cache'[q], q \in Mounted, b)
    BY <2>1, InvalidateKeeps
  <2>3. last[k] \in 0 .. rev
    BY DEF TypeOK, ServerOK, Past
  <2> QED
    BY <1>2, <2>2, <2>3 DEF LastFresh
<1>5. CASE k # timer
  <2>1. CASE OnItsWay(k)
    BY <1>2, <1>5, <2>1 DEF OnItsWay
  <2>2. CASE LastFresh(k)
    BY <1>1, <1>2, <2>2, LastKept DEF TypeOK
  <2> QED
    BY <1>1, <2>1, <2>2 DEF PushesFresh
<1> QED
  BY <1>4, <1>5

\* and a write takes no push away.
LEMMA PushesCommitted ==
  ASSUME TypeOK, Past, Held, PushesFresh, Commit, TypeOK', gap' >= gap, KeepsFresh
  PROVE  PushesFresh'
<1> SUFFICES ASSUME gap' = 0, NEW k \in Kinds PROVE OnItsWay(k)' \/ LastFresh(k)'
  BY DEF PushesFresh
<1>1. gap = 0 /\ last \in [Kinds -> Nat]
  BY DEF TypeOK, ServerOK
<1>2. PICK w \in Requests : work' = work \cup {w} /\ last' = [last EXCEPT ![w.kind] = w.at]
  BY DEF Commit
<1>3. ~w.sent /\ w.kind \in Kinds
  BY RequestsTyped DEF TypeOK, ServerOK, Works
<1>4. UNCHANGED <<queue, timer>>
  BY DEF Commit, socket
<1>5. CASE k = w.kind
  BY <1>2, <1>3, <1>5 DEF OnItsWay
<1>6. CASE k # w.kind
  <2>1. CASE OnItsWay(k)
    BY <1>2, <1>4, <2>1 DEF OnItsWay
  <2>2. CASE LastFresh(k)
    <3>1. last'[k] = last[k]
      BY <1>1, <1>2, <1>3, <1>6
    <3> QED
      BY <2>2, <3>1, LastKept DEF TypeOK
  <2> QED
    BY <1>1, <2>1, <2>2 DEF PushesFresh
<1> QED
  BY <1>5, <1>6


-----------------------------------------------------------------------------
\* The invariant holds at first, and every step keeps it.

\* The invariant holds at the start
LEMMA InitInv == Init => ListsInv
<1> SUFFICES ASSUME Init PROVE ListsInv
  OBVIOUS
<1>1. NewTable \in Tables /\ "clients" \in Pages /\ Mounted = Watched("clients", NewTable)
  BY NewTableTyped DEF Init, Pages, Mounted
<1>2. Watched("clients", NewTable) \subseteq Queries
  BY <1>1, WatchedTyped
<1> DEFINE first == [data |-> 1, invalid |-> FALSE, from |-> 0, retried |-> FALSE]
<1>3. DOMAIN cache = Watched("clients", NewTable) /\ \A q \in DOMAIN cache : cache[q] = first
  BY DEF Init, Answered
<1>4. first \in Entries /\ first.from = 0 /\ first.data = 1
  BY DEF Entries
<1>5. ServerOK /\ WorkOK /\ Past
  BY DEF Init, ServerOK, WorkOK, Past
<1>6. CacheOK /\ Held
  <2>1. first.from <= rev
    BY <1>4 DEF Init
  <2> HIDE DEF first
  <2> QED
    BY <1>1, <1>2, <1>3, <1>4, <2>1 DEF CacheOK, Held
<1>7. PageOK /\ SocketOK
  <2>1. <<>> \in Seq(Messages)
    OBVIOUS
  <2> QED
    BY <1>1, <2>1 DEF Init, PageOK, SocketOK
<1>8. \A q \in DOMAIN cache : \A b \in {0} : Fresh(cache[q], q \in Mounted, b)
  BY <1>3, <1>4 DEF Fresh, Idle
<1>9. OwnFresh
  BY <1>2, <1>3, <1>8, Rooted DEF Init, OwnFresh
<1>10. PushesFresh
  BY <1>8 DEF Init, PushesFresh, LastFresh, Kinds
<1> QED
  BY <1>5, <1>6, <1>7, <1>9, <1>10 DEF ListsInv, TypeOK

\* and after every step.
LEMMA StepInv == ListsInv /\ [Next]_vars => ListsInv'
<1> SUFFICES ASSUME ListsInv, [Next]_vars PROVE ListsInv'
  OBVIOUS
<1> USE DEF ListsInv
<1>1. CASE PanelStep
  <2>1. TypeOK' /\ Past' /\ Held' /\ gap' = gap /\ KeepsFresh /\ UNCHANGED <<server, socket>>
    BY <1>1, PanelTyped
  <2>2. gap' >= gap
    BY <2>1 DEF TypeOK, ServerOK
  <2>3. OwnFresh'
    BY <2>1, <2>2, OwnKept DEF server
  <2>4. last' = last /\ \A k \in Kinds : OnItsWay(k) => OnItsWay(k)'
    BY <2>1 DEF server, socket, OnItsWay
  <2>5. PushesFresh'
    BY <2>1, <2>2, <2>4, PushesKept
  <2> QED
    BY <2>1, <2>3, <2>5
<1>2. CASE \E q \in DOMAIN cache : Fail(q)
  <2>1. TypeOK' /\ Past' /\ Held' /\ gap' = 2
    BY <1>2, FailsTyped
  <2> QED
    BY <2>1 DEF OwnFresh, PushesFresh
<1>3. CASE Commit
  <2>1. TypeOK' /\ Past' /\ Held' /\ gap' >= gap /\ KeepsFresh
    BY <1>3, CommitTyped
  <2>2. own' = own
    BY <1>3 DEF Commit
  <2> QED
    BY <1>3, <2>1, <2>2, OwnKept, PushesCommitted
<1>4. ASSUME NEW w \in work, Build(w) PROVE ListsInv'
  <2>1. TypeOK' /\ Past' /\ Held' /\ gap' >= gap /\ KeepsFresh
    BY <1>4, BuildTyped
  <2>2. own' = own /\ last' = last
    BY <1>4 DEF Build
  <2>3. \A k \in Kinds : OnItsWay(k) => OnItsWay(k)'
    <3> DEFINE v == [w EXCEPT !.built = rev]
    <3>1. v.kind = w.kind /\ v.sent = w.sent
      BY DEF TypeOK, WorkOK, Works
    <3>2. work' = Without(w, v) /\ UNCHANGED <<queue, timer>> /\ WorkOK
      BY <1>4 DEF Build, socket, TypeOK
    <3> HIDE DEF v
    <3> QED
      BY <3>1, <3>2, WayWithout
  <2> QED
    BY <2>1, <2>2, <2>3, OwnKept, PushesKept
<1>5. ASSUME NEW w \in work, Push(w) PROVE ListsInv'
  <2>1. TypeOK' /\ Past' /\ Held' /\ gap' >= gap /\ KeepsFresh
    BY <1>5, PushTyped
  <2>2. own' = own /\ last' = last
    BY <1>5 DEF Push
  <2>3. gap' = 0 => \A k \in Kinds : OnItsWay(k) => OnItsWay(k)'
    BY <1>5, WayPushed
  <2> QED
    BY <2>1, <2>2, <2>3, OwnKept, PushesKept
<1>6. ASSUME NEW w \in work, Answer(w) PROVE ListsInv'
  <2>1. TypeOK' /\ Past' /\ Held' /\ gap' >= gap /\ (gap' < 2 => KeepsFresh)
    BY <1>6, AnswerTyped
  <2>2. last' = last
    BY <1>6 DEF Answer
  <2>3. \A k \in Kinds : OnItsWay(k) => OnItsWay(k)'
    <3> DEFINE v == [w EXCEPT !.open = FALSE]
    <3>1. v.kind = w.kind /\ v.sent = w.sent
      BY DEF TypeOK, WorkOK, Works
    <3>2. work' = Without(w, v) /\ UNCHANGED <<queue, timer>> /\ WorkOK
      BY <1>6 DEF Answer, TypeOK
    <3> HIDE DEF v
    <3> QED
      BY <3>1, <3>2, WayWithout
  <2>4. OwnFresh'
    BY <1>6, <2>1, OwnAnswered
  <2>5. gap' = 0 => KeepsFresh
    BY <2>1
  <2> QED
    BY <2>1, <2>2, <2>3, <2>4, <2>5, PushesKept
<1>7. CASE Deliver
  <2>1. TypeOK' /\ Past' /\ Held' /\ gap' >= gap /\ (~ListDelivered => KeepsFresh)
    BY <1>7, DeliverTyped
  <2>2. OwnFresh'
    BY <1>7, <2>1, OwnDelivered, OwnKept DEF Deliver, server
  <2> QED
    BY <1>7, <2>1, <2>2, PushesDelivered
<1>8. CASE TimerFires
  <2>1. TypeOK' /\ Past' /\ Held' /\ gap' >= gap /\ (gap' < 2 => KeepsFresh)
    BY <1>8, TimerTyped
  <2>2. own' = own
    BY <1>8 DEF TimerFires, server
  <2> QED
    BY <1>8, <2>1, <2>2, OwnKept, PushesTimed
<1>9. CASE WindowEnds \/ Close \/ Connect
  <2>1. TypeOK' /\ Past' /\ Held' /\ gap' >= gap /\ KeepsFresh
    BY <1>9, LinkTyped
  <2>2. own' = own /\ last' = last /\ work' = work /\ timer' = timer
    BY <1>9 DEF WindowEnds, Close, Connect, server
  <2>3. gap' = 0 => queue' = queue
    <3>1. Close /\ queue # <<>> => gap' >= 1
      BY GapIs DEF Close, TypeOK, ServerOK
    <3> QED
      BY <1>9, <3>1 DEF WindowEnds, Close, Connect
  <2>4. gap' = 0 => \A k \in Kinds : OnItsWay(k) => OnItsWay(k)'
    BY <2>2, <2>3 DEF OnItsWay
  <2> QED
    BY <2>1, <2>2, <2>4, OwnKept, PushesKept
<1>10. CASE UNCHANGED vars
  <2>1. UNCHANGED <<rev, work, own, last, gap, cache, page, table, link, queue, timer, recent>>
    BY <1>10 DEF vars, server, socket
  <2>2. Mounted' = Mounted
    BY <2>1 DEF Mounted
  <2>3. TypeOK' /\ Past' /\ Held'
    BY <2>1, <2>2 DEF TypeOK, ServerOK, WorkOK, CacheOK, PageOK, SocketOK, Past, Held
  <2>4. OwnFresh' /\ PushesFresh'
    BY <2>1, <2>2 DEF OwnFresh, PushesFresh, OnItsWay, LastFresh
  <2> QED
    BY <2>3, <2>4
<1> QED
  BY <1>1, <1>2, <1>3, <1>4, <1>5, <1>6, <1>7, <1>8, <1>9, <1>10 DEF Next, Reads, Requesting, Socket, PanelStep

-----------------------------------------------------------------------------
\* The theorems.

\* Every reachable state satisfies the invariant, whatever can be typed,
\* filtered and sorted, and however many writes and faults there are.
THEOREM Inductive == Spec => []ListsInv
<1>1. Init => ListsInv
  BY InitInv
<1>2. ListsInv /\ [Next]_vars => ListsInv'
  BY StepInv
<1> QED
  BY <1>1, <1>2, PTL DEF Spec

\* The cache, the table, the requests and the messages keep their shapes,
\* and no query refers to criteria the page does not offer.
THEOREM TypeCorrect == Spec => []TypeOK
<1>1. ListsInv => TypeOK
  BY DEF ListsInv
<1> QED
  BY <1>1, Inductive, PTL

\* What the panel wrote is what its views show as soon as the reads its
\* invalidations caused are done (invalidateAll and its like, queryClient).
THEOREM OwnWritesAreShown == Spec => []OwnWritesShown
<1>1. ListsInv => OwnWritesShown
  <2> SUFFICES ASSUME ListsInv, gap < 2, NEW q \in Mounted, Idle(Entry(q)) PROVE Entry(q).data >= own[Root(q)]
    BY DEF OwnWritesShown
  <2>1. q \in DOMAIN cache /\ Entry(q) = cache[q]
    BY DEF ListsInv, Held, Entry
  <2>2. Fresh(cache[q], q \in Mounted, own[Root(q)])
    BY <2>1 DEF ListsInv, OwnFresh
  <2> QED
    BY <2>1, <2>2 DEF Fresh
<1> QED
  BY <1>1, Inductive, PTL

\* A panel that missed no message shows what others wrote once nothing is on
\* its way any more (websocketBridge's onInvalidate and onInbounds).
THEOREM PushedListsAreShown == Spec => []PushesAreShown
<1>1. ListsInv => PushesAreShown
  <2> SUFFICES ASSUME ListsInv, gap = 0, queue = <<>>, timer = "none", \A w \in work : w.sent,
                      NEW q \in Mounted \ {options, detail}, Idle(Entry(q))
               PROVE  Entry(q).data >= last[Root(q)]
    BY DEF PushesAreShown
  <2>1. q \in DOMAIN cache /\ Entry(q) = cache[q] /\ q \in Queries
    BY DEF ListsInv, Held, Entry, TypeOK, CacheOK
  <2>2. Root(q) \in Kinds
    BY <2>1, Rooted DEF Queries, Kinds
  <2>3. ~OnItsWay(Root(q))
    BY <2>2 DEF OnItsWay, Kinds
  <2>4. Fresh(cache[q], q \in Mounted, last[Root(q)])
    BY <2>1, <2>2, <2>3 DEF ListsInv, PushesFresh, LastFresh
  <2> QED
    BY <2>1, <2>4 DEF Fresh
<1> QED
  BY <1>1, Inductive, PTL


-----------------------------------------------------------------------------
(* The status of clients and inbounds: no state is involved.                *)

(* The columns of a client.                                                 *)
LEMMA ClientColumns ==
  ASSUME NEW c \in Clients
  PROVE  /\ c.enable \in BOOLEAN /\ c.online \in BOOLEAN
         /\ c.total \in Int /\ c.used \in Int /\ c.expiry \in Int
BY StatusAssumption DEF Clients

Depleted(c) == Exhausted(c) \/ Expired(c)
Near(c) == NearExpiry(c) \/ NearLimit(c)

(* The server's cards, client by client.                                    *)
LEMMA CardsHold ==
  ASSUME NEW all, NEW c \in all
  PROVE  /\ c \in buildClientsSummary(all).online <=> c.enable /\ c.online
         /\ c \in buildClientsSummary(all).depleted <=> Depleted(c)
         /\ c \in buildClientsSummary(all).deactive <=> ~Depleted(c) /\ ~c.enable
         /\ c \in buildClientsSummary(all).expiring <=> ~Depleted(c) /\ c.enable /\ Near(c)
         /\ c \in buildClientsSummary(all).active <=> ~Depleted(c) /\ c.enable /\ ~Near(c)
BY Zenon DEF buildClientsSummary, Depleted, Near

(* They hold nobody else.                                                   *)
LEMMA CardsWithin ==
  ASSUME NEW all, NEW b \in {"online", "depleted", "deactive", "expiring", "active"}
  PROVE  buildClientsSummary(all)[b] \subseteq all
BY DEF buildClientsSummary

(* The page's cards are the server's.                                       *)
LEMMA CardsTwice ==
  ASSUME NEW all
  PROVE  computeClientsSummary(all) = buildClientsSummary(all)
<1>1. {c \in all : Exhausted(c) \/ Expired(c)} = {c \in all : Depleted(c)}
  BY DEF Depleted
<1> QED
  BY DEF computeClientsSummary, buildClientsSummary

(* A row's tag names the card the client is counted on.                     *)
LEMMA TagsHold ==
  ASSUME NEW c \in Clients
  PROVE  /\ clientBucket(c) = "depleted" <=> Depleted(c)
         /\ clientBucket(c) = "deactive" <=> ~Depleted(c) /\ ~c.enable
         /\ clientBucket(c) = "expiring" <=> ~Depleted(c) /\ c.enable /\ Near(c)
         /\ clientBucket(c) = "active" <=> ~Depleted(c) /\ c.enable /\ ~Near(c)
BY ClientColumns DEF clientBucket, Depleted, Near

(* A filter finds the clients of its card.                                  *)
LEMMA FiltersHold ==
  ASSUME NEW c
  PROVE  /\ clientMatchesBucket(c, "online") <=> c.online /\ c.enable
         /\ clientMatchesBucket(c, "depleted") <=> Depleted(c)
         /\ clientMatchesBucket(c, "deactive") <=> ~c.enable
         /\ clientMatchesBucket(c, "active") <=> c.enable /\ ~Depleted(c)
         /\ clientMatchesBucket(c, "expiring") <=> c.enable /\ ~Depleted(c) /\ Near(c)
BY DEF clientMatchesBucket, Depleted, Near


(* Everything shown of one client, wherever it is, turns at the same        *)
(* boundaries: depletion, the quota, the expiry, the switch.                *)
LEMMA PlacesAgree ==
  ASSUME NEW c \in Clients
  PROVE  /\ onlineTag(c) = "depleted" <=> Depleted(c)
         /\ statusTag(c) = "depleted" <=> Depleted(c)
         /\ remainingColor(c) = "red" \/ expiryColor(c) = "red" <=> Depleted(c)
         /\ statsColor(c) = "red" \/ expiryTag(c) = "red" <=> Depleted(c)
         /\ remainingColor(c) = "red" <=> remainingLabel(c) = "nothing"
         /\ remainingLabel(c) = "unlimited" <=> ~trafficLabel(c).limited
         /\ infoRemaining(c) = "red" <=> remainingColor(c) = "red"
         /\ c.total > 0 => remainingStats(c) = remainingLabel(c)
         /\ c.used <= c.total => (panelRemaining(c) = "purple" <=> remainingLabel(c) = "unlimited")
         /\ remainingColor(c) = "orange" \/ panelRemaining(c) = "orange" => panelBar(c) \in {"warning", "error"}
         /\ infoExpiry(c) \in {"purple", "blue"} => infoExpiry(c) = expiryColor(c)
         /\ infoExpiry(c) = "" <=> expiryLabel(c) = "date"
         /\ infoStatus(c).online <=> c.enable /\ c.online
         /\ panelStatus(c) = "enabled" <=> infoStatus(c).enabled
         /\ c.expiry >= 0 => columnTraffic(c) = statsColor(c) /\ columnExpiry(c) = expiryTag(c)
         /\ onlineTag(c) = "online" => c.enable /\ c.online
         /\ "expiring" \in cardTags(c) <=> clientBucket(c) = "expiring"
         /\ bucketBadgeStatus(c) = "success" <=> clientBucket(c) = "active"
<1> USE ClientColumns, StatusAssumption
<1>1. /\ onlineTag(c) = "depleted" <=> Depleted(c)
      /\ onlineTag(c) = "online" => c.enable /\ c.online
  <2>1. Depleted(c) \in BOOLEAN /\ (clientBucket(c) = "depleted" <=> Depleted(c))
    BY TagsHold DEF Depleted, Exhausted, Expired
  <2>2. onlineTag(c) = "depleted" <=> clientBucket(c) = "depleted"
    BY DEF onlineTag
  <2>3. onlineTag(c) = "online" => c.enable /\ c.online
    BY DEF onlineTag
  <2> QED
    BY <2>1, <2>2, <2>3
<1>2. statusTag(c) = "depleted" <=> Depleted(c)
  BY DEF statusTag, isDepleted, Depleted, Exhausted, Expired
<1>3. (remainingColor(c) = "red" <=> Exhausted(c)) /\ (expiryColor(c) = "red" <=> Expired(c))
  BY DEF remainingColor, expiryColor, Exhausted, Expired
<1>4. (statsColor(c) = "red" <=> Exhausted(c)) /\ (expiryTag(c) = "red" <=> Expired(c))
  <2>1. (statsColor(c) = "red" <=> Exhausted(c))
    BY DEF statsColor, usageColor, Exhausted
  <2>2. (expiryTag(c) = "red" <=> Expired(c))
    BY DEF expiryTag, usageColor, Expired
  <2> QED
    BY <2>1, <2>2
<1>5. remainingColor(c) = "red" <=> remainingLabel(c) = "nothing"
  BY DEF remainingColor, remainingLabel
<1>6. remainingLabel(c) = "unlimited" <=> ~trafficLabel(c).limited
  <2>1. trafficLabel(c).limited <=> c.total > 0
    BY DEF trafficLabel
  <2>2. remainingLabel(c) = "unlimited" <=> c.total <= 0
    BY DEF remainingLabel
  <2> QED
    BY <2>1, <2>2
<1>7. infoRemaining(c) = "red" <=> remainingColor(c) = "red"
  BY DEF infoRemaining, remainingColor
<1>8. c.total > 0 => remainingStats(c) = remainingLabel(c)
  BY DEF remainingStats, remainingLabel
<1>9. c.used <= c.total => (panelRemaining(c) = "purple" <=> remainingLabel(c) = "unlimited")
  BY DEF panelRemaining, remainingLabel
<1>10. remainingColor(c) = "orange" \/ panelRemaining(c) = "orange" => panelBar(c) \in {"warning", "error"}
  BY DEF remainingColor, panelRemaining, panelBar, Little
<1>11. infoExpiry(c) \in {"purple", "blue"} => infoExpiry(c) = expiryColor(c)
  <2>1. c.expiry = 0 => infoExpiry(c) = "purple" /\ expiryColor(c) = "purple"
    BY DEF infoExpiry, expiryColor
  <2>2. c.expiry < 0 => infoExpiry(c) = "blue" /\ expiryColor(c) = "blue"
    BY DEF infoExpiry, expiryColor
  <2>3. c.expiry > 0 => infoExpiry(c) \notin {"purple", "blue"}
    BY DEF infoExpiry
  <2>4. CASE c.expiry = 0
    BY <2>1, <2>4
  <2>5. CASE c.expiry < 0
    BY <2>2, <2>5
  <2>6. CASE c.expiry > 0
    BY <2>3, <2>6
  <2> QED
    BY <2>4, <2>5, <2>6
<1>12. infoExpiry(c) = "" <=> expiryLabel(c) = "date"
  BY DEF infoExpiry, expiryLabel
<1>13. /\ infoStatus(c).online <=> c.enable /\ c.online
       /\ panelStatus(c) = "enabled" <=> infoStatus(c).enabled
  BY DEF infoStatus, panelStatus
<1>14. c.expiry >= 0 => columnTraffic(c) = statsColor(c) /\ columnExpiry(c) = expiryTag(c)
  BY DEF columnTraffic, columnExpiry, statsColor, expiryTag
<1>15. /\ "expiring" \in cardTags(c) <=> clientBucket(c) = "expiring"
       /\ bucketBadgeStatus(c) = "success" <=> clientBucket(c) = "active"
  BY DEF cardTags, bucketBadgeStatus
<1> QED
  BY <1>1, <1>2, <1>3, <1>4, <1>5, <1>6, <1>7, <1>8, <1>9, <1>10, <1>11, <1>12, <1>13, <1>14, <1>15 DEF Depleted

(* The counts of an inbound.                                                *)
LEMMA CountsHold ==
  ASSUME NEW clients
  PROVE  LET on == rollupClients(TRUE, clients)
             off == rollupClients(FALSE, clients)
         IN /\ on.depleted = {c \in clients : Depleted(c)}
            /\ on.online = {c \in clients : c.enable /\ c.online}
            /\ on.active = {c \in clients : c.enable}
            /\ on.expiring = {c \in clients : ~Depleted(c) /\ Near(c)}
            /\ off.active = {} /\ off.depleted = {} /\ off.online = {}
BY DEF rollupClients, Depleted, Near

(* Cards, filters, tags and counts list the same clients.                   *)
LEMMA ListsAgree ==
  LET cards == buildClientsSummary(Clients)
      rows == rollupClients(TRUE, Clients)
      In(bucket) == {c \in Clients : clientMatchesBucket(c, bucket)}
      Tagged(bucket) == {c \in Clients : clientBucket(c) = bucket}
  IN /\ \A b \in {"depleted", "deactive", "expiring", "active"} : Tagged(b) = cards[b]
     /\ \A b \in {"depleted", "expiring", "online"} : In(b) = cards[b]
     /\ In("active") = cards.active \cup cards.expiring
     /\ In("deactive") \ In("depleted") = cards.deactive
     /\ rows.depleted = cards.depleted /\ rows.online = cards.online
     /\ rows.active \cap rows.expiring = cards.expiring
<1> DEFINE cards == buildClientsSummary(Clients)
           rows == rollupClients(TRUE, Clients)
           In(bucket) == {c \in Clients : clientMatchesBucket(c, bucket)}
           Tagged(bucket) == {c \in Clients : clientBucket(c) = bucket}
<1>1. \A c \in Clients :
        /\ c \in cards.online <=> c.enable /\ c.online
        /\ c \in cards.depleted <=> Depleted(c)
        /\ c \in cards.deactive <=> ~Depleted(c) /\ ~c.enable
        /\ c \in cards.expiring <=> ~Depleted(c) /\ c.enable /\ Near(c)
        /\ c \in cards.active <=> ~Depleted(c) /\ c.enable /\ ~Near(c)
  BY CardsHold
<1>2. \A b \in {"online", "depleted", "deactive", "expiring", "active"} : cards[b] \subseteq Clients
  BY CardsWithin
<1>3. /\ cards.online \subseteq Clients /\ cards.depleted \subseteq Clients /\ cards.deactive \subseteq Clients
      /\ cards.expiring \subseteq Clients /\ cards.active \subseteq Clients
  BY <1>2
<1>4. /\ rows.depleted = {c \in Clients : Depleted(c)}
      /\ rows.online = {c \in Clients : c.enable /\ c.online}
      /\ rows.active = {c \in Clients : c.enable}
      /\ rows.expiring = {c \in Clients : ~Depleted(c) /\ Near(c)}
  BY CountsHold
<1> HIDE DEF cards, rows
<1>5. /\ Tagged("depleted") = cards.depleted /\ Tagged("deactive") = cards.deactive
      /\ Tagged("expiring") = cards.expiring /\ Tagged("active") = cards.active
  BY <1>1, <1>3, TagsHold
<1>6. /\ In("depleted") = cards.depleted /\ In("expiring") = cards.expiring
      /\ In("online") = cards.online
  BY <1>1, <1>3, FiltersHold
<1>7. In("active") = cards.active \cup cards.expiring
  BY <1>1, <1>3, FiltersHold
<1>8. In("deactive") \ In("depleted") = cards.deactive
  BY <1>1, <1>3, FiltersHold
<1>9. rows.depleted = cards.depleted /\ rows.online = cards.online
  BY <1>1, <1>3, <1>4
<1>10. rows.active \cap rows.expiring = cards.expiring
  BY <1>1, <1>3, <1>4
<1>11. \A b \in {"depleted", "deactive", "expiring", "active"} : Tagged(b) = cards[b]
  BY <1>5
<1>12. \A b \in {"depleted", "expiring", "online"} : In(b) = cards[b]
  BY <1>6
<1> QED
  BY <1>7, <1>8, <1>9, <1>10, <1>11, <1>12, Zenon DEF cards, rows


(* The statistics dialog counts what the table counts.                      *)
LEMMA StatsAgree ==
  ASSUME NEW two
  PROVE  statsCounts(rollupClients(TRUE, two)) \ {"expiring"}
           = columnCounts(rollupClients(TRUE, two)) \ {"active", "deactive"}
<1> DEFINE rows == rollupClients(TRUE, two)
<1> HIDE DEF rows
<1>1. statsCounts(rows) \ {"expiring"} = {k \in {"online", "depleted"} : rows[k] # {}}
  BY DEF statsCounts
<1>2. columnCounts(rows) \ {"active", "deactive"} = {k \in {"online", "depleted"} : rows[k] # {}}
  BY DEF columnCounts
<1> QED
  BY <1>1, <1>2 DEF rows

(* The panel's places agree on the status of every client, whatever its     *)
(* quota, usage and expiry and whatever the thresholds.                     *)
LEMMA ClientsAgree == StatusAgrees
<1> DEFINE cards == buildClientsSummary(Clients)
           rows == rollupClients(TRUE, Clients)
           In(bucket) == {c \in Clients : clientMatchesBucket(c, bucket)}
           Tagged(bucket) == {c \in Clients : clientBucket(c) = bucket}
<1>1. computeClientsSummary(Clients) = cards
  BY CardsTwice
<1>2. /\ \A b \in {"depleted", "deactive", "expiring", "active"} : Tagged(b) = cards[b]
      /\ \A b \in {"depleted", "expiring", "online"} : In(b) = cards[b]
      /\ In("active") = cards.active \cup cards.expiring
      /\ In("deactive") \ In("depleted") = cards.deactive
      /\ rows.depleted = cards.depleted /\ rows.online = cards.online
      /\ rows.active \cap rows.expiring = cards.expiring
  BY ListsAgree, Zenon
<1>3. \A b \in {"depleted", "expiring", "online"} : b \in SummaryCards(cards) <=> In(b) # {}
  <2> HIDE DEF cards, In
  <2> QED
    BY <1>2 DEF SummaryCards
<1>4. "deactive" \in SummaryCards(cards) <=> In("deactive") \ In("depleted") # {}
  <2> HIDE DEF cards, In
  <2> QED
    BY <1>2 DEF SummaryCards
<1>5. columnCounts(rollupClients(FALSE, Clients)) \subseteq {"deactive"}
  <2> DEFINE off == rollupClients(FALSE, Clients)
  <2>1. off.active = {} /\ off.depleted = {} /\ off.online = {}
    BY CountsHold
  <2> HIDE DEF off
  <2>2. columnCounts(off) \subseteq {"deactive"}
    BY <2>1 DEF columnCounts
  <2> QED
    BY <2>2 DEF off
<1>6. \A two \in SUBSET {c \in Clients : c.total = 2 /\ c.used \in 1 .. 2 /\ c.expiry = 0} :
        statsCounts(rollupClients(TRUE, two)) \ {"expiring"} = columnCounts(rollupClients(TRUE, two)) \ {"active", "deactive"}
  BY StatsAgree, Zenon
<1>7. ASSUME NEW c \in Clients
      PROVE  /\ onlineTag(c) = "depleted" <=> c \in cards.depleted
             /\ statusTag(c) = "depleted" <=> c \in cards.depleted
             /\ remainingColor(c) = "red" \/ expiryColor(c) = "red" <=> c \in cards.depleted
             /\ statsColor(c) = "red" \/ expiryTag(c) = "red" <=> c \in cards.depleted
             /\ remainingColor(c) = "red" <=> remainingLabel(c) = "nothing"
             /\ remainingLabel(c) = "unlimited" <=> ~trafficLabel(c).limited
             /\ infoRemaining(c) = "red" <=> remainingColor(c) = "red"
             /\ c.total > 0 => remainingStats(c) = remainingLabel(c)
             /\ c.used <= c.total => (panelRemaining(c) = "purple" <=> remainingLabel(c) = "unlimited")
             /\ remainingColor(c) = "orange" \/ panelRemaining(c) = "orange" => panelBar(c) \in {"warning", "error"}
             /\ infoExpiry(c) \in {"purple", "blue"} => infoExpiry(c) = expiryColor(c)
             /\ infoExpiry(c) = "" <=> expiryLabel(c) = "date"
             /\ infoStatus(c).online <=> c \in cards.online
             /\ panelStatus(c) = "enabled" <=> infoStatus(c).enabled
             /\ c.expiry >= 0 => columnTraffic(c) = statsColor(c) /\ columnExpiry(c) = expiryTag(c)
             /\ onlineTag(c) = "online" => c \in cards.online
             /\ "expiring" \in cardTags(c) <=> c \in cards.expiring
             /\ bucketBadgeStatus(c) = "success" <=> c \in cards.active
  <2>1. /\ c \in cards.online <=> c.enable /\ c.online
        /\ c \in cards.depleted <=> Depleted(c)
        /\ c \in cards.expiring <=> clientBucket(c) = "expiring"
        /\ c \in cards.active <=> clientBucket(c) = "active"
    <3>1. /\ c \in cards.online <=> c.enable /\ c.online
          /\ c \in cards.depleted <=> Depleted(c)
          /\ c \in cards.expiring <=> ~Depleted(c) /\ c.enable /\ Near(c)
          /\ c \in cards.active <=> ~Depleted(c) /\ c.enable /\ ~Near(c)
      BY CardsHold
    <3>2. Depleted(c) \in BOOLEAN /\ c.enable \in BOOLEAN /\ c.online \in BOOLEAN
      BY ClientColumns DEF Depleted, Exhausted, Expired
    <3> HIDE DEF cards
    <3> QED
      BY <3>1, <3>2, TagsHold
  <2> HIDE DEF cards
  <2>2. /\ onlineTag(c) = "depleted" <=> c \in cards.depleted
        /\ statusTag(c) = "depleted" <=> c \in cards.depleted
        /\ remainingColor(c) = "red" \/ expiryColor(c) = "red" <=> c \in cards.depleted
        /\ statsColor(c) = "red" \/ expiryTag(c) = "red" <=> c \in cards.depleted
    BY <2>1, PlacesAgree
  <2>3. infoStatus(c).online <=> c \in cards.online
    BY <2>1, PlacesAgree
  <2>4. onlineTag(c) = "online" => c \in cards.online
    BY <2>1, PlacesAgree
  <2>5. /\ "expiring" \in cardTags(c) <=> c \in cards.expiring
        /\ bucketBadgeStatus(c) = "success" <=> c \in cards.active
    BY <2>1, PlacesAgree
  <2> QED
    BY <2>2, <2>3, <2>4, <2>5, PlacesAgree, Zenon
<1> QED
  BY <1>1, <1>2, <1>3, <1>4, <1>5, <1>6, <1>7, Zenon DEF StatusAgrees


(* The two lists of tags of an inbound: the first case that fits, and every *)
(* part that fits, because at most one does.                                *)
LEMMA TagListsAgree ==
  ASSUME NEW r \in Inbounds
  PROVE  columnTags(r) = statsTags(r)
<1> DEFINE shadow == shadowsocksNetworkLabel(r) \cup Security(readStreamHints(r), {"tls"})
           tunnel == tunnelNetworkLabel(r)
           mixed == mixedNetworkLabel(r)
           stream == networkLabel(readStreamHints(r).network) \cup networkL4(readStreamHints(r).network)
                       \cup Security(readStreamHints(r), {"tls", "reality"})
           If(cond, tags) == IF cond THEN tags ELSE {}
<1>1. r.protocol \in Protocols
  BY DEF Inbounds
<1>2. columnTags(r) = CASE r.protocol \in {"wireguard", "hysteria"}       -> {"udp"}
                        [] r.protocol = "shadowsocks"                     -> shadow
                        [] r.protocol = "tunnel"                          -> tunnel
                        [] r.protocol = "mixed"                           -> mixed
                        [] r.protocol \in {"vmess", "vless", "trojan"}    -> stream
                        [] OTHER                                          -> {}
  BY Zenon DEF columnTags
<1>3. statsTags(r) = If(r.protocol \in {"wireguard", "hysteria"}, {"udp"})
                       \cup If(r.protocol = "shadowsocks", shadow) \cup If(r.protocol = "tunnel", tunnel)
                       \cup If(r.protocol = "mixed", mixed) \cup If(r.protocol \in {"vmess", "vless", "trojan"}, stream)
  BY Zenon DEF statsTags
<1> HIDE DEF shadow, tunnel, mixed, stream
<1>4. CASE r.protocol \in {"wireguard", "hysteria"}
  BY <1>2, <1>3, <1>4
<1>5. CASE r.protocol = "shadowsocks"
  BY <1>2, <1>3, <1>5
<1>6. CASE r.protocol = "tunnel"
  BY <1>2, <1>3, <1>6
<1>7. CASE r.protocol = "mixed"
  BY <1>2, <1>3, <1>7
<1>8. CASE r.protocol \in {"vmess", "vless", "trojan"}
  BY <1>2, <1>3, <1>8
<1>9. CASE r.protocol \in {"http", "tun"}
  BY <1>2, <1>3, <1>9
<1> QED
  BY <1>1, <1>4, <1>5, <1>6, <1>7, <1>8, <1>9 DEF Protocols

(* The security an inbound's dialog names is the one its row names.         *)
LEMMA SecurityAgrees ==
  ASSUME NEW r \in Inbounds, r.protocol # "hysteria"
  PROVE  infoSecurity(r) \cap {"tls", "reality"} = columnTags(r) \cap {"tls", "reality"}
<1>1. /\ r.protocol \in Protocols /\ r.security \in {"none", "tls", "reality"}
      /\ r.network \in Networks \cup {""} /\ r.allowed \in SUBSET {"tcp", "udp"}
      /\ (r.security # "none" => r.protocol \in STREAM_PROTOCOLS)
      /\ (r.security = "reality" => r.protocol \in {"vless", "trojan"})
  BY DEF Inbounds
<1>2. /\ shadowsocksNetworkLabel(r) \cap {"tls", "reality"} = {}
      /\ tunnelNetworkLabel(r) \cap {"tls", "reality"} = {}
  <2>1. commaNetworkLabel(r.allowed) \subseteq {"tcp", "udp"}
    BY <1>1 DEF commaNetworkLabel, networkLabel
  <2> QED
    BY <2>1 DEF shadowsocksNetworkLabel, tunnelNetworkLabel
<1>3. mixedNetworkLabel(r) \cap {"tls", "reality"} = {}
  BY DEF mixedNetworkLabel
<1>4. /\ readStreamHints(r).network = r.network
      /\ readStreamHints(r).isTls <=> r.security = "tls"
      /\ readStreamHints(r).isReality <=> r.security = "reality"
  BY DEF readStreamHints
<1>5. (networkLabel(r.network) \cup networkL4(r.network)) \cap {"tls", "reality"} = {}
  BY <1>1 DEF networkLabel, networkL4, Networks
<1>6. /\ Security(readStreamHints(r), {"tls", "reality"}) = {r.security} \cap {"tls", "reality"}
      /\ Security(readStreamHints(r), {"tls"}) = {r.security} \cap {"tls"}
  BY <1>1, <1>4 DEF Security
<1>7. infoSecurity(r) = IF r.protocol \in LINK_PROTOCOLS THEN {r.security} ELSE {}
  BY DEF infoSecurity, hasShareLink, buildInboundInfo
<1>8. CASE r.protocol \in {"vmess", "vless", "trojan"}
  <2>1. columnTags(r) = networkLabel(r.network) \cup networkL4(r.network)
                          \cup Security(readStreamHints(r), {"tls", "reality"})
    BY <1>4, <1>8 DEF columnTags
  <2>2. infoSecurity(r) = {r.security}
    BY <1>7, <1>8 DEF LINK_PROTOCOLS
  <2> QED
    BY <1>5, <1>6, <2>1, <2>2
<1>9. CASE r.protocol = "shadowsocks"
  <2>1. columnTags(r) = shadowsocksNetworkLabel(r) \cup Security(readStreamHints(r), {"tls"})
    BY <1>9 DEF columnTags
  <2>2. infoSecurity(r) = {r.security} /\ r.security # "reality"
    BY <1>1, <1>7, <1>9 DEF LINK_PROTOCOLS
  <2> QED
    BY <1>2, <1>6, <2>1, <2>2
<1>10. CASE r.protocol \in {"tunnel", "mixed", "wireguard", "http", "tun"}
  <2>1. infoSecurity(r) = {}
    BY <1>7, <1>10 DEF LINK_PROTOCOLS
  <2>2. columnTags(r) \in {tunnelNetworkLabel(r), mixedNetworkLabel(r), {"udp"}, {}}
    BY <1>10 DEF columnTags
  <2> QED
    BY <1>2, <1>3, <2>1, <2>2
<1> QED
  BY <1>1, <1>8, <1>9, <1>10 DEF Protocols

(* What the dialog says of transports and relayed networks is in the tags.  *)
LEMMA TransportsAgree ==
  ASSUME NEW r \in Inbounds
  PROVE  /\ r.protocol \in {"vmess", "vless", "trojan"} => infoTransport(r) \subseteq columnTags(r)
         /\ infoRelayed(r) \subseteq columnTags(r)
<1>1. /\ r.protocol \in Protocols /\ r.network \in Networks \cup {""}
      /\ r.allowed \in SUBSET {"tcp", "udp"}
      /\ ((r.network # "") <=> (r.protocol \in STREAM_PROTOCOLS \ {"hysteria"}))
  BY DEF Inbounds
<1>2. ASSUME r.protocol \in {"vmess", "vless", "trojan"}
      PROVE  infoTransport(r) \subseteq columnTags(r)
  <2>1. r.network # "" /\ infoTransport(r) = {r.network}
    BY <1>1, <1>2 DEF infoTransport, buildInboundInfo, STREAM_PROTOCOLS
  <2>2. networkLabel(r.network) = {r.network}
    BY <2>1 DEF networkLabel
  <2>3. networkLabel(r.network) \subseteq columnTags(r)
    BY <1>2 DEF columnTags, readStreamHints
  <2> QED
    BY <2>1, <2>2, <2>3
<1>3. r.allowed \subseteq commaNetworkLabel(r.allowed)
  <2>1. \A n \in r.allowed : networkLabel(n) = {n}
    BY <1>1 DEF networkLabel
  <2> QED
    BY <2>1 DEF commaNetworkLabel
<1>4. infoRelayed(r) \subseteq columnTags(r)
  <2>1. CASE r.protocol = "shadowsocks"
    <3>1. infoRelayed(r) = r.allowed
      BY <2>1 DEF infoRelayed
    <3>2. commaNetworkLabel(r.allowed) \subseteq columnTags(r)
      BY <2>1 DEF columnTags, shadowsocksNetworkLabel
    <3> QED
      BY <1>3, <3>1, <3>2
  <2>2. CASE r.protocol = "tunnel"
    <3>1. infoRelayed(r) = r.allowed /\ columnTags(r) = commaNetworkLabel(r.allowed)
      BY <2>2 DEF infoRelayed, columnTags, tunnelNetworkLabel
    <3> QED
      BY <1>3, <3>1
  <2>3. CASE r.protocol = "mixed"
    BY <2>3 DEF infoRelayed, columnTags, mixedNetworkLabel
  <2>4. CASE r.protocol \notin {"shadowsocks", "tunnel", "mixed"}
    BY <2>4 DEF infoRelayed
  <2> QED
    BY <2>1, <2>2, <2>3, <2>4
<1> QED
  BY <1>2, <1>4

(* The menu takes the same inbounds for multi-user as the counts do, and    *)
(* offers what its kind of inbound has.                                     *)
LEMMA MenuAgrees ==
  ASSUME NEW r \in Inbounds
  PROVE  /\ isInboundMultiUser(r) <=> rebuildClientCount(r)
         /\ isInboundMultiUser(r) => hasShareLink(r)
         /\ \A subEnable, isMobile \in BOOLEAN :
              LET menu == buildRowActionsMenu(r, subEnable, isMobile) IN
              /\ menu \cap ClientActions # {} => hasClients(r)
              /\ "qrcode" \in menu => {"export", "subs"} \cap menu = {}
              /\ "showInfo" \in menu /\ infoTab(r) = "client" => ~hasClients(r)
              /\ \A key \in menu \cap {"qrcode", "export", "subs", "clipboard", "clone"} : onRowAction(key) = "whole"
<1>1. /\ r.protocol \in Protocols /\ r.chacha20 \in BOOLEAN /\ r.clients \in BOOLEAN
      /\ (r.chacha20 => r.protocol = "shadowsocks")
  BY DEF Inbounds
<1>2. isInboundMultiUser(r) <=> rebuildClientCount(r)
  BY <1>1 DEF isInboundMultiUser, rebuildClientCount, isSSMultiUser, TRACKED_PROTOCOLS
<1>3. isInboundMultiUser(r) => hasShareLink(r)
  BY <1>1 DEF isInboundMultiUser, hasShareLink, LINK_PROTOCOLS
<1>4. ASSUME NEW subEnable \in BOOLEAN, NEW isMobile \in BOOLEAN
      PROVE  LET menu == buildRowActionsMenu(r, subEnable, isMobile) IN
              /\ menu \cap ClientActions # {} => hasClients(r)
              /\ "qrcode" \in menu => {"export", "subs"} \cap menu = {}
              /\ "showInfo" \in menu /\ infoTab(r) = "client" => ~hasClients(r)
              /\ \A key \in menu \cap {"qrcode", "export", "subs", "clipboard", "clone"} : onRowAction(key) = "whole"
  <2> DEFINE menu == buildRowActionsMenu(r, subEnable, isMobile)
  <2>1. \A key \in ClientActions : key \in menu => hasClients(r)
    BY DEF buildRowActionsMenu, ClientActions
  <2>2. "qrcode" \in menu => showQrCodeMenu(r)
    BY DEF buildRowActionsMenu, ClientActions
  <2>3. \A key \in {"export", "subs"} : key \in menu => isInboundMultiUser(r)
    BY DEF buildRowActionsMenu, ClientActions
  <2>4. "showInfo" \in menu => ~isInboundMultiUser(r)
    BY DEF buildRowActionsMenu, ClientActions
  <2>5. ~(showQrCodeMenu(r) /\ isInboundMultiUser(r))
    BY DEF showQrCodeMenu, isInboundMultiUser
  <2>6. hasClients(r) => isInboundMultiUser(r)
    BY <1>2 DEF hasClients
  <2>7. \A key \in menu \cap {"qrcode", "export", "subs", "clipboard", "clone"} : onRowAction(key) = "whole"
    BY DEF onRowAction
  <2> HIDE DEF menu
  <2>8. menu \cap ClientActions # {} => hasClients(r)
    BY <2>1
  <2>9. "qrcode" \in menu => {"export", "subs"} \cap menu = {}
    BY <2>2, <2>3, <2>5
  <2>10. "showInfo" \in menu /\ infoTab(r) = "client" => ~hasClients(r)
    BY <2>4, <2>6
  <2> QED
    BY <2>7, <2>8, <2>9, <2>10, Zenon DEF menu
<1> QED
  BY <1>2, <1>3, <1>4, Zenon

(* The panel's places agree on the status of every inbound.                 *)
LEMMA InboundsAgree == InboundStatusAgrees
<1> SUFFICES ASSUME NEW r \in Inbounds
             PROVE  /\ columnTags(r) = statsTags(r)
                    /\ isInboundMultiUser(r) <=> rebuildClientCount(r)
                    /\ isInboundMultiUser(r) => hasShareLink(r)
                    /\ \A subEnable, isMobile \in BOOLEAN :
                         LET menu == buildRowActionsMenu(r, subEnable, isMobile) IN
                         /\ menu \cap ClientActions # {} => hasClients(r)
                         /\ "qrcode" \in menu => {"export", "subs"} \cap menu = {}
                         /\ "showInfo" \in menu /\ infoTab(r) = "client" => ~hasClients(r)
                         /\ \A key \in menu \cap {"qrcode", "export", "subs", "clipboard", "clone"} : onRowAction(key) = "whole"
                    /\ r.protocol # "hysteria" => infoSecurity(r) \cap {"tls", "reality"} = columnTags(r) \cap {"tls", "reality"}
                    /\ r.protocol \in {"vmess", "vless", "trojan"} => infoTransport(r) \subseteq columnTags(r)
                    /\ infoRelayed(r) \subseteq columnTags(r)
  BY Zenon DEF InboundStatusAgrees
<1> QED
  BY TagListsAgree, MenuAgrees, SecurityAgrees, TransportsAgree, Zenon

(* Whatever quota, usage, expiry and switches a client has and whatever     *)
(* thresholds are set, cards, filters, tags, counts, dialogs and colours    *)
(* name the same clients depleted, expiring, disabled and online; whatever  *)
(* an inbound is, its row, its dialogs and its menu say the same of it.     *)
THEOREM StatusIsInStep == StatusAgreesAtStart /\ StatusAgrees /\ InboundStatusAgrees
BY ClientsAgree, InboundsAgree DEF StatusAgreesAtStart

=============================================================================
