--------------------------- MODULE ResponseCaches ---------------------------
(***************************************************************************)
(* The caches in front of the public read routes: a dictionary in the      *)
(* memory of each server process, a shared cache behind a REST call        *)
(* (app/services/response_cache.py) and, for the first pages of a search,  *)
(* files on disk (app/routes/inventory.py, app/routes/landing.py).         *)
(*                                                                         *)
(* What is cached is abstracted to its age: the time since the database    *)
(* snapshot it was computed from.  Time passes in ticks; an entry is its   *)
(* age and the time it has left, so that clocks need no bound.  A request  *)
(* looks in one cache after the other and stores in one after the other,   *)
(* and other requests, clears and restarts come in between.                *)
(***************************************************************************)
EXTENDS Integers, FiniteSetsExt

CONSTANTS Threads,    \* request threads
          Procs,      \* server processes (the README starts four)
          MemoryTtl,  \* route -> life of an entry in memory
          SharedTtl,  \* life of an entry of the shared cache
          HotTtl,     \* life of a file
          Watch,      \* writer and route: the clears that may be watched
          Loads,      \* bound: which routes are used together, and where
          MaxRun,     \* bound: ticks a request takes
          MaxAge      \* bound: ages saturate here

\* One key of each route; the testimonials are cached as the landing page is.
Route == {"search", "filters", "specials", "landing"}

ASSUME TimesAllowed == /\ MemoryTtl \in [Route -> Nat \ {0}]
                       /\ SharedTtl \in Nat \ {0}
                       /\ HotTtl \in Nat
                       /\ MaxAge \in Nat
                       /\ MaxRun \in 0 .. MaxAge
                       /\ Watch \subseteq {"sync", "featured", "landing"} \X Route
                       /\ Loads \subseteq [routes : SUBSET Route,
                                           procs : SUBSET Procs,
                                           atOnce : 1 .. Cardinality(Threads)]

VARIABLES memory,   \* process -> route -> entry
          shared,   \* route -> entry
          hot,      \* the search's file
          request,  \* thread -> the request it is serving
          enabled,  \* is the shared cache configured?
          load,     \* which routes get requests here, where, how many at once
          watched   \* one clear, picked to be watched (history only)

vars == <<memory, shared, hot, request, enabled, load, watched>>
-----------------------------------------------------------------------------
Age == 0 .. MaxAge
Life == 0 .. Max({SharedTtl, HotTtl + 1} \cup {MemoryTtl[r] : r \in Route})

\* left = 0: expired, or nothing there.
Entry == [age : Age, left : Life]
NoEntry == [age |-> 0, left |-> 0]

\* run: ticks since the request began; nested: a search run for the specials;
\* age: of what it is going to answer.
Request == [pc : {"shared", "hot", "compute", "keep", "store", "publish",
                  "write", "answered"},
            route : Route, proc : Procs, run : 0 .. MaxRun,
            nested : BOOLEAN, age : Age]

Idle == [pc |-> "idle"]
NoWatch == [since |-> -1]

TypeOK == /\ memory \in [Procs -> [Route -> Entry]]
          /\ shared \in [Route -> Entry]
          /\ hot \in Entry
          /\ request \in [Threads -> Request \cup {Idle}]
          /\ enabled \in BOOLEAN
          /\ load \in Loads
          /\ watched \in {NoWatch} \cup
                [route : Route, proc : Procs, since : Age, raced : BOOLEAN]

Empty == [r \in Route |-> NoEntry]

Init == /\ memory = [p \in Procs |-> Empty]
        /\ shared = Empty
        /\ hot = NoEntry
        /\ request = [t \in Threads |-> Idle]
        /\ enabled \in BOOLEAN
        /\ load \in Loads
        /\ watched = NoWatch

InFlight(t) == request[t].pc \notin {"idle", "answered"}
Goto(t, q) == request' = [request EXCEPT ![t] = q]
Unwatched == UNCHANGED <<enabled, load, watched>>
-----------------------------------------------------------------------------
\* What a request does with content it has: answer, or hand it to the
\* specials' own steps if it is the search they fell back to.
Answer(q, age) ==
    IF q.nested
    THEN [q EXCEPT !.pc = "store", !.route = "specials", !.nested = FALSE,
                   !.age = Max({age, q.run})]
    ELSE [q EXCEPT !.pc = "answered", !.age = age]

\* _cache_get, _filters_cache_get and the look in memory of the specials and
\* of the landing page: what this process holds, while it has not expired.
LookInMemory(q) ==
    LET entry == memory[q.proc][q.route] IN
    IF entry.left > 0 THEN Answer(q, entry.age) ELSE [q EXCEPT !.pc = "shared"]

\* A client's request begins.
Begin(t, p, r) ==
    /\ ~InFlight(t)
    /\ r \in load.routes /\ p \in load.procs
    /\ Cardinality({u \in Threads \ {t} : request[u] # Idle}) < load.atOnce
    /\ Goto(t, LookInMemory([pc |-> "shared", route |-> r, proc |-> p,
                             run |-> 0, nested |-> FALSE, age |-> 0]))
    /\ UNCHANGED <<memory, shared, hot>> /\ Unwatched

\* get_shared_json: a hit is kept in memory, else the next source is tried.
\* A failed call is a miss.
LookInShared(t, ok) ==
    LET q == request[t] IN
    /\ q.pc = "shared"
    /\ ok => enabled /\ shared[q.route].left > 0
    /\ Goto(t, CASE ok -> [q EXCEPT !.pc = "keep", !.age = shared[q.route].age]
                 [] ~ok /\ q.route = "search" -> [q EXCEPT !.pc = "hot"]
                 [] OTHER -> [q EXCEPT !.pc = "compute"])
    /\ UNCHANGED <<memory, shared, hot>> /\ Unwatched

\* _hot_cache_get: a file that is being written does not parse: a miss.
LookOnDisk(t, ok) ==
    LET q == request[t] IN
    /\ q.pc = "hot"
    /\ ok => hot.left > 0
    /\ Goto(t, IF ok THEN [q EXCEPT !.pc = "keep", !.age = hot.age]
               ELSE [q EXCEPT !.pc = "compute"])
    /\ UNCHANGED <<memory, shared, hot>> /\ Unwatched

\* The answer is computed from the database.  The specials read the featured
\* month before they look in any cache, so their snapshot, and that of a
\* search nested in them, is as old as the request.
Compute(t) ==
    LET q == request[t] IN
    /\ q.pc = "compute"
    /\ Goto(t, [q EXCEPT !.pc = "store",
                         !.age = IF q.nested \/ q.route = "specials"
                                 THEN q.run ELSE 0])
    /\ UNCHANGED <<memory, shared, hot>> /\ Unwatched

\* homepage_specials without a stored card: it calls search_inventory.
FallBackToSearch(t) ==
    LET q == request[t] IN
    /\ q.pc = "compute" /\ q.route = "specials"
    /\ Goto(t, LookInMemory([q EXCEPT !.route = "search", !.nested = TRUE]))
    /\ UNCHANGED <<memory, shared, hot>> /\ Unwatched

\* The life left to a new entry in memory: the specials and the landing page
\* count it from the time the request began.
LifeInMemory(q) ==
    IF q.route \in {"specials", "landing"}
    THEN Max({0, MemoryTtl[q.route] - q.run}) ELSE MemoryTtl[q.route]

Remember(q) == memory' = [memory EXCEPT ![q.proc][q.route] =
                              [age |-> q.age, left |-> LifeInMemory(q)]]

\* Mutant: what comes from another cache is published again.
KeepAndPublish(t) ==
    LET q == request[t] IN
    /\ q.pc = "keep"
    /\ Remember(q)
    /\ Goto(t, [q EXCEPT !.pc = "publish"])
    /\ UNCHANGED <<shared, hot>> /\ Unwatched

\* _cache_set of what came from another cache: memory only.
Keep(t) ==
    LET q == request[t] IN
    /\ q.pc = "keep"
    /\ Remember(q)
    /\ Goto(t, Answer(q, q.age))
    /\ UNCHANGED <<shared, hot>> /\ Unwatched

\* _cache_set of what was computed.  The landing page's built-in default, when
\* no row is stored, goes no further.
Store(t) ==
    LET q == request[t] IN
    /\ q.pc = "store"
    /\ Remember(q)
    /\ \/ Goto(t, [q EXCEPT !.pc = "publish"])
       \/ q.route = "landing" /\ Goto(t, Answer(q, q.age))
    /\ UNCHANGED <<shared, hot>> /\ Unwatched

\* Mutant: the life of a shared entry is given in another unit.
PublishInMinutes(t, ok) ==
    LET q == request[t] IN
    /\ q.pc = "publish"
    /\ ok => enabled
    /\ shared' = IF ok THEN [shared EXCEPT ![q.route] =
                                 [age |-> q.age, left |-> 60 * SharedTtl]]
                 ELSE shared
    /\ Goto(t, IF q.route = "search" THEN [q EXCEPT !.pc = "write"]
               ELSE Answer(q, q.age))
    /\ UNCHANGED <<memory, hot>> /\ Unwatched

\* set_shared_json: a failed call is ignored.
Publish(t, ok) ==
    LET q == request[t] IN
    /\ q.pc = "publish"
    /\ ok => enabled
    /\ shared' = IF ok THEN [shared EXCEPT ![q.route] =
                                 [age |-> q.age, left |-> SharedTtl]]
                 ELSE shared
    /\ Goto(t, IF q.route = "search" THEN [q EXCEPT !.pc = "write"]
               ELSE Answer(q, q.age))
    /\ UNCHANGED <<memory, hot>> /\ Unwatched

\* _hot_cache_set: a file is still good when it is exactly HotTtl old; an
\* error is ignored.
WriteFile(t, ok) ==
    LET q == request[t] IN
    /\ q.pc = "write"
    /\ hot' = IF ok THEN [age |-> q.age, left |-> HotTtl + 1] ELSE hot
    /\ Goto(t, Answer(q, q.age))
    /\ UNCHANGED <<memory, shared>> /\ Unwatched
-----------------------------------------------------------------------------
Writer == {"sync", "featured", "landing"}

\* Mutant: a sync does not clear the filters.
ClearedButFilters(w) == CASE w = "sync" -> {"search", "specials"}
                          [] w = "featured" -> {"specials"}
                          [] OTHER -> {"landing"}

\* The routes whose memory a writer clears after its commit:
\* clear_inventory_caches_after_offer_sheet_sync, set_homepage_featured and
\* admin_upsert_landing_page (invalidate_landing_page_cache).
Cleared(w) == CASE w = "sync" -> {"search", "filters", "specials"}
                [] w = "featured" -> {"specials"}
                [] OTHER -> {"landing"}

\* A writer clears the memory of its own process; the clear may be watched.
Clear(p, w) ==
    /\ memory' = [memory EXCEPT ![p] =
           [r \in Route |-> IF r \in Cleared(w) THEN NoEntry ELSE @[r]]]
    /\ \/ watched = NoWatch
          /\ \E r \in load.routes :
                /\ <<w, r>> \in Watch
                /\ watched' = [route |-> r, proc |-> p, since |-> 0,
                               raced |-> \E t \in Threads :
                                   request[t] # Idle /\ request[t].proc = p]
       \/ UNCHANGED watched
    /\ UNCHANGED <<shared, hot, request, enabled, load>>

\* A process restarts: its memory and its requests are gone, files are not.
Restart(p) ==
    /\ memory' = [memory EXCEPT ![p] = Empty]
    /\ request' = [t \in Threads |->
           IF request[t] # Idle /\ request[t].proc = p THEN Idle
           ELSE request[t]]
    /\ UNCHANGED <<shared, hot, enabled, load, watched>>

Older(age) == IF age < MaxAge THEN age + 1 ELSE age
Aged(e) == IF e.left <= 1 THEN NoEntry
           ELSE [age |-> Older(e.age), left |-> e.left - 1]

\* Time passes; a request does not outlast MaxRun.
Tick ==
    /\ \A t \in Threads : InFlight(t) => request[t].run < MaxRun
    /\ memory' = [p \in Procs |-> [r \in Route |-> Aged(memory[p][r])]]
    /\ shared' = [r \in Route |-> Aged(shared[r])]
    /\ hot' = Aged(hot)
    /\ request' = [t \in Threads |->
           IF InFlight(t) THEN [request[t] EXCEPT !.run = @ + 1, !.age = Older(@)]
           ELSE Idle]
    /\ watched' = IF watched = NoWatch THEN NoWatch
                  ELSE [watched EXCEPT !.since = Older(@)]
    /\ UNCHANGED <<enabled, load>>

Next == \/ \E t \in Threads :
              \/ \E p \in Procs, r \in Route : Begin(t, p, r)
              \/ Compute(t)
              \/ FallBackToSearch(t)
              \/ Keep(t)
              \/ Store(t)
              \/ \E ok \in BOOLEAN : \/ LookInShared(t, ok)
                                     \/ LookOnDisk(t, ok)
                                     \/ Publish(t, ok)
                                     \/ WriteFile(t, ok)
        \/ \E p \in load.procs : Restart(p) \/ \E w \in Writer : Clear(p, w)
        \/ Tick

Spec == Init /\ [][Next]_vars
-----------------------------------------------------------------------------
\* The oldest content a search, and any other route, can answer with: computed
\* and stored within one request, read from another cache at the end of its
\* life there, kept in memory within a second request, and read from memory at
\* the end of that life.
SearchBound == MaxRun + Max({SharedTtl - 1, HotTtl}) + MaxRun
               + MemoryTtl["search"] - 1

AnswerBound(r) ==
    CASE r = "search" -> SearchBound
      [] r = "specials" -> SearchBound + MaxRun + SharedTtl - 1 + MaxRun
                           + MemoryTtl["specials"] - 1
      [] OTHER -> MaxRun + SharedTtl - 1 + MaxRun + MemoryTtl[r] - 1

\* Content does not grow old from cache to cache: however requests, processes
\* and restarts pass it on, an answer is no older than one life in each cache
\* on its way (for the specials: those of the search they fell back to, too).
AnswersAreRecent ==
    \A t \in Threads : request[t].pc = "answered" =>
        request[t].age <= AnswerBound(request[t].route)

\* Without a shared cache, an update of the landing page or of the offers is
\* seen in the landing page or the filters by every later request of the
\* process that made it, unless a request was under way when it cleared.
UpdateIsSeen ==
    (watched # NoWatch /\ ~watched.raced /\ ~enabled) =>
        \A t \in Threads :
            (/\ request[t].pc = "answered"
             /\ request[t].proc = watched.proc
             /\ request[t].route = watched.route)
                => request[t].age <= watched.since
=============================================================================
