------------------------ MODULE ResponseCachesProofs ------------------------
(***************************************************************************)
(* What ResponseCaches guarantees for any number of threads and processes  *)
(* and any lives of the entries: content is no older than a life in each   *)
(* cache on its way, whichever way it takes; and without a shared cache    *)
(* what a process has cleared from its memory does not come back into it.  *)
(***************************************************************************)
EXTENDS ResponseCaches, TLAPS

\* The clears that may be watched are of the filters or the landing page, by a
\* writer that clears them.
ClearsWatched ==
    \A x \in Watch : x[2] \in {"filters", "landing"} /\ x[2] \in Cleared(x[1])

\* How much older than the request content may be that a request stores as its
\* own: the specials may have got it from the search.
Borrowed(r) == IF r = "specials" THEN SearchBound ELSE 0

\* How old content may grow in a cache outside the process before it is read.
Outside(r) == IF r = "search" THEN Max({SharedTtl - 1, HotTtl}) ELSE SharedTtl - 1

\* When entry e's life is over, its age will be no more than bound.
Lasts(e, bound) == e.left > 0 => e.age + e.left <= bound

\* An entry is only as old as it may have been when it was stored, and what it
\* has used up of its life since.
EntriesRecent ==
    /\ \A r \in Route : Lasts(shared[r], Borrowed(r) + MaxRun + SharedTtl)
    /\ Lasts(hot, MaxRun + HotTtl + 1)
    /\ \A p \in Procs, r \in Route : Lasts(memory[p][r], AnswerBound(r) + 1)

\* What a request holds is no older than where it has it from allows.
Recent(q) ==
    /\ q.nested => q.route = "search" /\ q.pc # "answered"
    /\ q.pc \in {"hot", "write"} => q.route = "search"
    /\ q.pc \in {"store", "publish", "write"} => q.age <= Borrowed(q.route) + q.run
    /\ q.pc = "keep" => q.age <= Borrowed(q.route) + MaxRun + Outside(q.route) + q.run
    /\ q.pc = "answered" => q.age <= AnswerBound(q.route)

\* The inductive invariant behind AnswersAreRecent.
IInv == /\ TypeOK
        /\ EntriesRecent
        /\ \A t \in Threads : request[t] # Idle => Recent(request[t])

\* Without a shared cache, what a request holds of the watched route comes from
\* its process's memory or from the database, and is no older than the clear.
HeardBy(q) ==
    /\ ~enabled => (q.pc = "keep" => q.route = "search")
    /\ (/\ watched # NoWatch /\ ~enabled /\ ~watched.raced
        /\ q.proc = watched.proc /\ q.route = watched.route
        /\ q.pc \in {"store", "publish", "answered"}) => q.age <= watched.since

\* The inductive invariant behind UpdateIsSeen.
HeardInv ==
    /\ IInv
    /\ watched # NoWatch => watched.route \in {"filters", "landing"}
    /\ (watched # NoWatch /\ ~enabled /\ ~watched.raced) =>
          LET entry == memory[watched.proc][watched.route]
          IN entry.left > 0 => entry.age <= watched.since
    /\ \A t \in Threads : request[t] # Idle => HeardBy(request[t])
-----------------------------------------------------------------------------
\* The greater of two numbers.
LEMMA GreaterOfTwo ==
    ASSUME NEW a \in Int, NEW b \in Int
    PROVE  Max({a, b}) = IF a >= b THEN a ELSE b
<1>1. PICK m \in {a, b} : /\ \A y \in {a, b} : m >= y
                          /\ m = IF a >= b THEN a ELSE b
  OBVIOUS
<1>2. Max({a, b}) \in {a, b} /\ \A y \in {a, b} : Max({a, b}) >= y
  BY <1>1, Zenon DEF Max
<1> QED BY <1>2

\* The times, as numbers.
LEMMA Times ==
    /\ \A r \in Route : MemoryTtl[r] \in Nat /\ MemoryTtl[r] >= 1
    /\ SharedTtl \in Nat /\ SharedTtl >= 1
    /\ HotTtl \in Nat /\ MaxRun \in Nat /\ MaxAge \in Nat /\ MaxRun <= MaxAge
  BY TimesAllowed

\* Every life is one of Life, which has a greatest.
LEMMA LivesFit ==
    \E top \in Nat : /\ Life = 0 .. top
                     /\ SharedTtl <= top /\ HotTtl + 1 <= top
                     /\ \A r \in Route : MemoryTtl[r] <= top
<1> DEFINE S == {SharedTtl, HotTtl + 1} \cup {MemoryTtl[r] : r \in Route}
<1>1. S \subseteq Nat
  BY Times
<1>2. /\ MemoryTtl["search"] \in S /\ MemoryTtl["filters"] \in S
      /\ MemoryTtl["specials"] \in S /\ MemoryTtl["landing"] \in S
      /\ SharedTtl \in S /\ HotTtl + 1 \in S
  BY DEF Route
<1>3. \A y \in S : \/ y = SharedTtl \/ y = HotTtl + 1
                   \/ y = MemoryTtl["search"] \/ y = MemoryTtl["filters"]
                   \/ y = MemoryTtl["specials"] \/ y = MemoryTtl["landing"]
  BY DEF Route
<1>4. Life = 0 .. Max(S)
  BY DEF Life
<1> HIDE DEF S
<1>5. \A a, b \in S : \E c \in S : c >= a /\ c >= b
  BY <1>1
<1>6. PICK a \in S : a >= SharedTtl /\ a >= HotTtl + 1
  BY <1>2, <1>5
<1>7. PICK b \in S : b >= MemoryTtl["search"] /\ b >= MemoryTtl["filters"]
  BY <1>2, <1>5
<1>8. PICK c \in S : c >= MemoryTtl["specials"] /\ c >= MemoryTtl["landing"]
  BY <1>2, <1>5
<1>9. PICK d \in S : d >= b /\ d >= c
  BY <1>5
<1>10. PICK m \in S : m >= a /\ m >= d
  BY <1>5
<1>11. a \in Nat /\ b \in Nat /\ c \in Nat /\ d \in Nat /\ m \in Nat
  BY <1>1
<1>12. m >= SharedTtl /\ m >= HotTtl + 1 /\ m >= b /\ m >= c
  BY <1>6, <1>9, <1>10, <1>11, Times
<1>13. /\ m >= MemoryTtl["search"] /\ m >= MemoryTtl["filters"]
       /\ m >= MemoryTtl["specials"] /\ m >= MemoryTtl["landing"]
  BY <1>7, <1>8, <1>11, <1>12, Times DEF Route
<1>14. \A y \in S : m >= y
  BY <1>3, <1>12, <1>13
<1>15. Max(S) \in S /\ \A y \in S : Max(S) >= y
  BY <1>14, Zenon DEF Max
<1>16. PICK top \in S : top = Max(S)
  BY <1>15
<1>17. Life = 0 .. top /\ \A y \in S : y <= top
  BY <1>1, <1>4, <1>15, <1>16
<1>18. \A r \in Route : MemoryTtl[r] \in S
  BY <1>2 DEF Route
<1> QED BY <1>1, <1>2, <1>16, <1>17, <1>18

\* The bounds, as numbers.
LEMMA Bounds ==
    ASSUME NEW r \in Route
    PROVE  /\ SearchBound \in Nat /\ Borrowed(r) \in Nat /\ Outside(r) \in Nat
           /\ Outside(r) >= SharedTtl - 1 /\ Outside("search") >= HotTtl
           /\ AnswerBound(r)
                 = Borrowed(r) + MaxRun + Outside(r) + MaxRun + MemoryTtl[r] - 1
           /\ AnswerBound(r) \in Nat /\ AnswerBound("search") = SearchBound
<1>1. PICK x : x = Max({SharedTtl - 1, HotTtl})
  OBVIOUS
<1>2. x \in Nat /\ x >= SharedTtl - 1 /\ x >= HotTtl
  BY <1>1, Times, GreaterOfTwo
<1>3. SearchBound = MaxRun + x + MaxRun + MemoryTtl["search"] - 1 /\ SearchBound \in Nat
  BY <1>1, <1>2, Times DEF SearchBound, Route
<1>4. Outside("search") = x /\ (r # "search" => Outside(r) = SharedTtl - 1)
  BY <1>1 DEF Outside
<1> QED BY <1>2, <1>3, <1>4, Times DEF Borrowed, AnswerBound, Route
-----------------------------------------------------------------------------
\* A request in progress is a record of Request.
LEMMA RequestAt ==
    ASSUME TypeOK, NEW t \in Threads
    PROVE  /\ request[t] \in Request \cup {Idle}
           /\ request[t].pc # "idle" => request[t] \in Request /\ request[t] # Idle
           /\ Idle.pc = "idle" /\ Idle \notin Request
           /\ \A q \in Request : q.pc # "idle"
  BY DEF TypeOK, Request, Idle

\* The parts of a request, as numbers.
LEMMA RequestParts ==
    ASSUME NEW q \in Request
    PROVE  /\ q.route \in Route /\ q.proc \in Procs /\ q.nested \in BOOLEAN
           /\ q.run \in Nat /\ q.run <= MaxRun /\ q.run \in Age
           /\ q.age \in Age /\ q.age \in Nat
  BY Times DEF Request, Age

\* The parts of an entry, as numbers; and entries as they are made.
LEMMA Entries ==
    /\ \A e \in Entry : /\ e.age \in Age /\ e.age \in Nat /\ e.age <= MaxAge
                        /\ e.left \in Life /\ e.left \in Nat
    /\ \A a \in Age, l \in Life : [age |-> a, left |-> l] \in Entry
    /\ NoEntry \in Entry /\ NoEntry.left = 0
<1>1. PICK top \in Nat : Life = 0 .. top
  BY LivesFit
<1>2. 0 \in Life /\ 0 \in Age /\ \A l \in Life : l \in Nat
  BY <1>1, Times DEF Age
<1>3. \A a \in Age, l \in Life : [age |-> a, left |-> l] \in Entry
  BY DEF Entry
<1> QED BY <1>2, <1>3, Times DEF Entry, Age, NoEntry

\* An answer that is recent enough is recent, for the specials too if they fell
\* back to the search.
LEMMA AnswerRecent ==
    ASSUME NEW q \in Request, q.nested => q.route = "search",
           NEW age \in Age, age <= AnswerBound(q.route)
    PROVE  \E n \in Request :
              /\ n = Answer(q, age) /\ Recent(n) /\ n.proc = q.proc
              /\ ~q.nested => n.pc = "answered" /\ n.route = q.route /\ n.age = age
              /\ q.nested => n.pc = "store" /\ n.route = "specials"
<1>1. CASE q.nested
  <2>1. PICK a : a = Max({age, q.run})
    OBVIOUS
  <2>2. a \in Age /\ a >= age /\ a \in {age, q.run}
    BY <2>1, GreaterOfTwo, RequestParts DEF Age
  <2>3. PICK n : n = [q EXCEPT !.pc = "store", !.route = "specials", !.nested = FALSE,
                               !.age = a]
    OBVIOUS
  <2>4. /\ n \in Request /\ n.pc = "store" /\ n.age = a /\ n.route = "specials"
        /\ n.proc = q.proc /\ n.nested = FALSE /\ n.run = q.run
        /\ n = Answer(q, age)
    BY <1>1, <2>1, <2>2, <2>3 DEF Request, Route, Answer
  <2>5. age <= SearchBound /\ SearchBound \in Nat /\ age \in Nat
    BY <1>1, Bounds, RequestParts DEF Age
  <2>6. n.age <= Borrowed(n.route) + n.run
    BY <2>2, <2>4, <2>5, RequestParts DEF Borrowed
  <2>7. Recent(n)
    BY <2>4, <2>6 DEF Recent
  <2> QED BY <1>1, <2>4, <2>7
<1>2. CASE ~q.nested
  <2>1. PICK n : n = [q EXCEPT !.pc = "answered", !.age = age]
    OBVIOUS
  <2>2. /\ n \in Request /\ n.pc = "answered" /\ n.age = age /\ n.route = q.route
        /\ n.proc = q.proc /\ n.nested = q.nested /\ n = Answer(q, age)
    BY <1>2, <2>1 DEF Request, Answer
  <2>3. Recent(n)
    BY <1>2, <2>2 DEF Recent
  <2> QED BY <1>2, <2>2, <2>3
<1> QED BY <1>1, <1>2

\* What a look in memory gives.
LEMMA MemoryRecent ==
    ASSUME IInv, NEW q \in Request, q.pc # "answered", q.nested => q.route = "search"
    PROVE  \E n \in Request :
              /\ n = LookInMemory(q) /\ Recent(n) /\ n.proc = q.proc
              /\ n.pc \in {"shared", "store", "answered"}
              /\ n.pc = "store" => n.route = "specials"
              /\ n.pc = "answered" => /\ n.route = q.route
                                      /\ memory[q.proc][q.route].left > 0
                                      /\ n.age = memory[q.proc][q.route].age
<1>1. PICK e \in Entry : e = memory[q.proc][q.route] /\ Lasts(e, AnswerBound(q.route) + 1)
  BY RequestParts DEF IInv, TypeOK, EntriesRecent
<1>2. CASE e.left > 0
  <2>1. e.age \in Age /\ e.age <= AnswerBound(q.route)
    BY <1>1, <1>2, Entries, Bounds, RequestParts DEF Lasts
  <2>2. LookInMemory(q) = Answer(q, e.age)
    BY <1>1, <1>2 DEF LookInMemory
  <2> QED BY <1>1, <1>2, <2>1, <2>2, AnswerRecent, RequestParts
<1>3. CASE ~(e.left > 0)
  <2>1. PICK n : n = [q EXCEPT !.pc = "shared"]
    OBVIOUS
  <2>2. /\ n \in Request /\ n.pc = "shared" /\ n.route = q.route
        /\ n.proc = q.proc /\ n.nested = q.nested /\ n = LookInMemory(q)
    BY <1>1, <1>3, <2>1 DEF Request, LookInMemory
  <2>3. Recent(n)
    BY <2>2 DEF Recent
  <2> QED BY <2>2, <2>3
<1> QED BY <1>2, <1>3
-----------------------------------------------------------------------------
\* Where the age of what a request then holds comes from, for the filters and
\* the landing page: it is new, or this process's memory has it, or the request
\* has had it.
Follows(t, n) ==
    /\ \/ UNCHANGED memory
       \/ /\ request[t] # Idle /\ request[t].pc \in {"keep", "store"}
          /\ Remember(request[t])
    /\ n.pc = "keep" => n.route = "search" \/ enabled
    /\ (n.route \in {"filters", "landing"} /\ n.pc \in {"store", "publish", "answered"}) =>
          \/ n.age = 0
          \/ /\ memory[n.proc][n.route].left > 0
             /\ n.age = memory[n.proc][n.route].age
          \/ /\ request[t] # Idle /\ request[t].pc \in {"keep", "store", "publish"}
             /\ n.age = request[t].age
             /\ n.route = request[t].route /\ n.proc = request[t].proc

\* What a request's step does: it takes the request to n, and what it stores is
\* as recent as the invariant has it.
StepsTo(t, n) ==
    /\ Goto(t, n) /\ Recent(n) /\ Follows(t, n)
    /\ memory' \in [Procs -> [Route -> Entry]]
    /\ shared' \in [Route -> Entry]
    /\ hot' \in Entry
    /\ EntriesRecent'
    /\ Unwatched

\* Caches that a step leaves alone.
LEMMA CachesKept ==
    ASSUME IInv, UNCHANGED <<memory, shared, hot>>
    PROVE  /\ memory' \in [Procs -> [Route -> Entry]]
           /\ shared' \in [Route -> Entry] /\ hot' \in Entry
           /\ EntriesRecent'
  BY DEF IInv, TypeOK, EntriesRecent

\* A request begins.
LEMMA BeginSteps ==
    ASSUME IInv, NEW t \in Threads, NEW p \in Procs, NEW r \in Route, Begin(t, p, r)
    PROVE  \E n \in Request : StepsTo(t, n)
<1>1. PICK q : q = [pc |-> "shared", route |-> r, proc |-> p,
                    run |-> 0, nested |-> FALSE, age |-> 0]
  OBVIOUS
<1>2. q \in Request /\ q.pc = "shared" /\ ~q.nested /\ q.proc = p
  BY <1>1, Times DEF Request, Age
<1>3. PICK n \in Request :
          /\ n = LookInMemory(q) /\ Recent(n) /\ n.proc = q.proc
          /\ n.pc \in {"shared", "store", "answered"}
          /\ n.pc = "store" => n.route = "specials"
          /\ n.pc = "answered" => /\ n.route = q.route
                                  /\ memory[q.proc][q.route].left > 0
                                  /\ n.age = memory[q.proc][q.route].age
  BY <1>2, MemoryRecent
<1>4. Goto(t, n) /\ UNCHANGED <<memory, shared, hot>> /\ Unwatched
  BY <1>1, <1>3 DEF Begin
<1>5. Follows(t, n)
  BY <1>3, <1>4 DEF Follows
<1> QED BY <1>3, <1>4, <1>5, CachesKept DEF StepsTo

\* The shared cache answers, or not.
LEMMA LookInSharedSteps ==
    ASSUME IInv, NEW t \in Threads, NEW ok \in BOOLEAN, LookInShared(t, ok)
    PROVE  \E n \in Request : StepsTo(t, n)
<1>1. PICK q \in Request : q = request[t] /\ q # Idle /\ q.pc = "shared" /\ Recent(q)
  BY RequestAt DEF IInv, LookInShared
<1>2. CASE ok
  <2>1. PICK e \in Entry : /\ e = shared[q.route] /\ e.left > 0 /\ enabled
                           /\ Lasts(e, Borrowed(q.route) + MaxRun + SharedTtl)
    BY <1>1, <1>2, RequestParts DEF LookInShared, IInv, TypeOK, EntriesRecent
  <2>2. PICK n : n = [q EXCEPT !.pc = "keep", !.age = e.age]
    OBVIOUS
  <2>3. /\ n \in Request /\ n.pc = "keep" /\ n.age = e.age /\ n.route = q.route
        /\ n.nested = q.nested /\ n.run = q.run
    BY <2>2, Entries DEF Request
  <2>4. Goto(t, n) /\ UNCHANGED <<memory, shared, hot>> /\ Unwatched
    BY <1>1, <1>2, <2>1, <2>2 DEF LookInShared
  <2>5. n.age <= Borrowed(n.route) + MaxRun + Outside(n.route) + n.run
    BY <2>1, <2>3, Entries, Bounds, Times, RequestParts DEF Lasts
  <2>6. Recent(n) /\ Follows(t, n)
    BY <1>1, <2>1, <2>3, <2>4, <2>5 DEF Recent, Follows
  <2> QED BY <2>3, <2>4, <2>6, CachesKept DEF StepsTo
<1>3. CASE ~ok
  <2>1. PICK pc \in {"hot", "compute"} : pc = "hot" <=> q.route = "search"
    OBVIOUS
  <2>2. PICK n : n = [q EXCEPT !.pc = pc]
    OBVIOUS
  <2>3. /\ n \in Request /\ n.pc = pc /\ n.route = q.route /\ n.nested = q.nested
    BY <2>2 DEF Request
  <2>4. Goto(t, n) /\ UNCHANGED <<memory, shared, hot>> /\ Unwatched
    BY <1>1, <1>3, <2>1, <2>2 DEF LookInShared
  <2>5. Recent(n) /\ Follows(t, n)
    BY <1>1, <2>1, <2>3, <2>4 DEF Recent, Follows
  <2> QED BY <2>3, <2>4, <2>5, CachesKept DEF StepsTo
<1> QED BY <1>2, <1>3

\* The file answers, or not.
LEMMA LookOnDiskSteps ==
    ASSUME IInv, NEW t \in Threads, NEW ok \in BOOLEAN, LookOnDisk(t, ok)
    PROVE  \E n \in Request : StepsTo(t, n)
<1>1. PICK q \in Request : q = request[t] /\ q # Idle /\ q.pc = "hot" /\ Recent(q)
  BY RequestAt DEF IInv, LookOnDisk
<1>2. q.route = "search"
  BY <1>1 DEF Recent
<1>3. CASE ok
  <2>1. PICK e \in Entry : e = hot /\ e.left > 0 /\ Lasts(e, MaxRun + HotTtl + 1)
    BY <1>1, <1>3 DEF LookOnDisk, IInv, TypeOK, EntriesRecent
  <2>2. PICK n : n = [q EXCEPT !.pc = "keep", !.age = e.age]
    OBVIOUS
  <2>3. /\ n \in Request /\ n.pc = "keep" /\ n.age = e.age /\ n.route = "search"
        /\ n.nested = q.nested /\ n.run = q.run
    BY <1>2, <2>2, Entries DEF Request
  <2>4. Goto(t, n) /\ UNCHANGED <<memory, shared, hot>> /\ Unwatched
    BY <1>1, <1>3, <2>1, <2>2 DEF LookOnDisk
  <2>5. n.age <= Borrowed("search") + MaxRun + Outside("search") + n.run
    BY <2>1, <2>3, Entries, Bounds, Times, RequestParts DEF Lasts
  <2>6. Recent(n) /\ Follows(t, n)
    BY <1>1, <2>3, <2>4, <2>5 DEF Recent, Follows
  <2> QED BY <2>3, <2>4, <2>6, CachesKept DEF StepsTo
<1>4. CASE ~ok
  <2>1. PICK n : n = [q EXCEPT !.pc = "compute"]
    OBVIOUS
  <2>2. /\ n \in Request /\ n.pc = "compute" /\ n.route = q.route /\ n.nested = q.nested
    BY <2>1 DEF Request
  <2>3. Goto(t, n) /\ UNCHANGED <<memory, shared, hot>> /\ Unwatched
    BY <1>1, <1>4, <2>1 DEF LookOnDisk
  <2>4. Recent(n) /\ Follows(t, n)
    BY <1>1, <2>2, <2>3 DEF Recent, Follows
  <2> QED BY <2>2, <2>3, <2>4, CachesKept DEF StepsTo
<1> QED BY <1>3, <1>4

\* The answer is computed.
LEMMA ComputeSteps ==
    ASSUME IInv, NEW t \in Threads, Compute(t)
    PROVE  \E n \in Request : StepsTo(t, n)
<1>1. PICK q \in Request : q = request[t] /\ q # Idle /\ q.pc = "compute" /\ Recent(q)
  BY RequestAt DEF IInv, Compute
<1>2. PICK a : a = IF q.nested \/ q.route = "specials" THEN q.run ELSE 0
  OBVIOUS
<1>3. a \in Age /\ a <= q.run /\ (q.route \in {"filters", "landing"} => a = 0)
  BY <1>1, <1>2, RequestParts, Times DEF Recent, Age
<1>4. PICK n : n = [q EXCEPT !.pc = "store", !.age = a]
  OBVIOUS
<1>5. /\ n \in Request /\ n.pc = "store" /\ n.age = a /\ n.route = q.route
      /\ n.nested = q.nested /\ n.run = q.run
  BY <1>3, <1>4 DEF Request
<1>6. Goto(t, n) /\ UNCHANGED <<memory, shared, hot>> /\ Unwatched
  BY <1>1, <1>2, <1>4 DEF Compute
<1>7. n.age <= Borrowed(n.route) + n.run
  BY <1>3, <1>5, Bounds, RequestParts
<1>8. Recent(n) /\ Follows(t, n)
  BY <1>1, <1>3, <1>5, <1>6, <1>7 DEF Recent, Follows
<1> QED BY <1>5, <1>6, <1>8, CachesKept DEF StepsTo

\* The specials call the search.
LEMMA FallBackSteps ==
    ASSUME IInv, NEW t \in Threads, FallBackToSearch(t)
    PROVE  \E n \in Request : StepsTo(t, n)
<1>1. PICK q \in Request : q = request[t] /\ q # Idle /\ q.pc = "compute"
  BY RequestAt DEF IInv, FallBackToSearch
<1>2. PICK m : m = [q EXCEPT !.route = "search", !.nested = TRUE]
  OBVIOUS
<1>3. m \in Request /\ m.pc = "compute" /\ m.route = "search"
  BY <1>1, <1>2 DEF Request, Route
<1>4. PICK n \in Request :
          /\ n = LookInMemory(m) /\ Recent(n)
          /\ n.pc \in {"shared", "store", "answered"}
          /\ n.pc = "store" => n.route = "specials"
          /\ n.pc = "answered" => n.route = m.route
  BY <1>3, MemoryRecent
<1>5. Goto(t, n) /\ UNCHANGED <<memory, shared, hot>> /\ Unwatched
  BY <1>1, <1>2, <1>4 DEF FallBackToSearch
<1>6. Follows(t, n)
  BY <1>3, <1>4, <1>5 DEF Follows
<1> QED BY <1>4, <1>5, <1>6, CachesKept DEF StepsTo
-----------------------------------------------------------------------------
\* What a request remembers is recent: its life begins no earlier than the
\* request ends.
LEMMA RememberRecent ==
    ASSUME IInv, NEW q \in Request, q.pc \in {"keep", "store"}, Recent(q), Remember(q)
    PROVE  /\ memory' \in [Procs -> [Route -> Entry]]
           /\ \A p \in Procs, r \in Route : Lasts(memory'[p][r], AnswerBound(r) + 1)
<1>1. PICK l : l = LifeInMemory(q)
  OBVIOUS
<1>2. l \in Nat /\ l <= MemoryTtl[q.route]
  <2>1. MemoryTtl[q.route] - q.run \in Int /\ q.run \in Nat /\ MemoryTtl[q.route] \in Nat
    BY RequestParts, Times
  <2> QED BY <1>1, <2>1, GreaterOfTwo DEF LifeInMemory
<1>3. l \in Life
  BY <1>2, LivesFit, RequestParts, Times
<1>4. PICK e : e = [age |-> q.age, left |-> l]
  OBVIOUS
<1>5. e \in Entry /\ e.age = q.age /\ e.left = l
  BY <1>3, <1>4, Entries, RequestParts
<1>6. q.age + MemoryTtl[q.route] <= AnswerBound(q.route) + 1
  <2>1. q.age <= Borrowed(q.route) + MaxRun + Outside(q.route) + q.run
    BY RequestParts, Bounds, Times DEF Recent
  <2> QED BY <2>1, RequestParts, Bounds, Times
<1>7. Lasts(e, AnswerBound(q.route) + 1)
  BY <1>2, <1>5, <1>6, RequestParts, Bounds, Times DEF Lasts
<1>8. memory' = [memory EXCEPT ![q.proc][q.route] = e]
  BY <1>1, <1>4 DEF Remember
<1>9. PICK row : row = [memory[q.proc] EXCEPT ![q.route] = e]
  OBVIOUS
<1>10. row \in [Route -> Entry] /\ \A r \in Route : Lasts(row[r], AnswerBound(r) + 1)
  BY <1>5, <1>7, <1>9, RequestParts DEF IInv, TypeOK, EntriesRecent
<1>11. memory' = [memory EXCEPT ![q.proc] = row]
  BY <1>8, <1>9
<1> QED BY <1>10, <1>11, RequestParts DEF IInv, TypeOK, EntriesRecent

\* What came from another cache is kept in memory.
LEMMA KeepSteps ==
    ASSUME IInv, NEW t \in Threads, Keep(t)
    PROVE  \E n \in Request : StepsTo(t, n)
<1>1. PICK q \in Request : q = request[t] /\ q # Idle /\ q.pc = "keep" /\ Recent(q)
  BY RequestAt DEF IInv, Keep
<1>2. Remember(q) /\ Goto(t, Answer(q, q.age)) /\ UNCHANGED <<shared, hot>> /\ Unwatched
  BY <1>1 DEF Keep
<1>3. q.age <= AnswerBound(q.route) /\ (q.nested => q.route = "search") /\ q.age \in Age
  BY <1>1, RequestParts, Bounds, Times DEF Recent
<1>4. PICK n \in Request :
          /\ n = Answer(q, q.age) /\ Recent(n) /\ n.proc = q.proc
          /\ ~q.nested => n.pc = "answered" /\ n.route = q.route /\ n.age = q.age
          /\ q.nested => n.pc = "store" /\ n.route = "specials"
  BY <1>3, AnswerRecent
<1>5. Follows(t, n)
  BY <1>1, <1>2, <1>4, RequestParts DEF Follows
<1>6. /\ memory' \in [Procs -> [Route -> Entry]]
      /\ \A p \in Procs, r \in Route : Lasts(memory'[p][r], AnswerBound(r) + 1)
  BY <1>1, <1>2, RememberRecent
<1>7. shared' \in [Route -> Entry] /\ hot' \in Entry /\ EntriesRecent'
  BY <1>2, <1>6 DEF IInv, TypeOK, EntriesRecent, Lasts
<1> QED BY <1>2, <1>4, <1>5, <1>6, <1>7 DEF StepsTo

\* What was computed is kept in memory.
LEMMA StoreSteps ==
    ASSUME IInv, NEW t \in Threads, Store(t)
    PROVE  \E n \in Request : StepsTo(t, n)
<1>1. PICK q \in Request : q = request[t] /\ q # Idle /\ q.pc = "store" /\ Recent(q)
  BY RequestAt DEF IInv, Store
<1>2. Remember(q) /\ UNCHANGED <<shared, hot>> /\ Unwatched
  BY <1>1 DEF Store
<1>3. /\ memory' \in [Procs -> [Route -> Entry]]
      /\ \A p \in Procs, r \in Route : Lasts(memory'[p][r], AnswerBound(r) + 1)
  BY <1>1, <1>2, RememberRecent
<1>4. shared' \in [Route -> Entry] /\ hot' \in Entry /\ EntriesRecent'
  BY <1>2, <1>3 DEF IInv, TypeOK, EntriesRecent, Lasts
<1>5. CASE Goto(t, [q EXCEPT !.pc = "publish"])
  <2>1. PICK n : n = [q EXCEPT !.pc = "publish"]
    OBVIOUS
  <2>2. /\ n \in Request /\ n.pc = "publish" /\ n.age = q.age /\ n.route = q.route
        /\ n.proc = q.proc /\ n.nested = q.nested /\ n.run = q.run
    BY <2>1 DEF Request
  <2>3. Recent(n) /\ Follows(t, n)
    BY <1>1, <1>2, <2>2 DEF Recent, Follows
  <2> QED BY <1>2, <1>3, <1>4, <1>5, <2>1, <2>2, <2>3 DEF StepsTo
<1>6. CASE Goto(t, Answer(q, q.age))
  <2>1. q.age <= AnswerBound(q.route) /\ (q.nested => q.route = "search") /\ q.age \in Age
    BY <1>1, RequestParts, Bounds, Times DEF Recent
  <2>2. PICK n \in Request :
            /\ n = Answer(q, q.age) /\ Recent(n) /\ n.proc = q.proc
            /\ ~q.nested => n.pc = "answered" /\ n.route = q.route /\ n.age = q.age
            /\ q.nested => n.pc = "store" /\ n.route = "specials"
    BY <2>1, AnswerRecent
  <2>3. Follows(t, n)
    BY <1>1, <1>2, <2>2, RequestParts DEF Follows
  <2> QED BY <1>2, <1>3, <1>4, <1>6, <2>2, <2>3 DEF StepsTo
<1> QED BY <1>1, <1>5, <1>6 DEF Store

\* What was computed is published.
LEMMA PublishSteps ==
    ASSUME IInv, NEW t \in Threads, NEW ok \in BOOLEAN, Publish(t, ok)
    PROVE  \E n \in Request : StepsTo(t, n)
<1>1. PICK q \in Request : q = request[t] /\ q # Idle /\ q.pc = "publish" /\ Recent(q)
  BY RequestAt DEF IInv, Publish
<1>2. UNCHANGED <<memory, hot>> /\ Unwatched
  BY DEF Publish
<1>3. /\ shared' \in [Route -> Entry]
      /\ \A r \in Route : Lasts(shared'[r], Borrowed(r) + MaxRun + SharedTtl)
  <2>1. CASE ok
    <3>1. PICK e : e = [age |-> q.age, left |-> SharedTtl]
      OBVIOUS
    <3>2. e \in Entry /\ e.age = q.age /\ e.left = SharedTtl
      BY <3>1, Entries, LivesFit, Times, RequestParts
    <3>3. Lasts(e, Borrowed(q.route) + MaxRun + SharedTtl)
      BY <1>1, <3>2, RequestParts, Bounds, Times DEF Lasts, Recent
    <3>4. shared' = [shared EXCEPT ![q.route] = e]
      BY <1>1, <2>1, <3>1 DEF Publish
    <3> QED BY <3>2, <3>3, <3>4, RequestParts DEF IInv, TypeOK, EntriesRecent
  <2>2. CASE ~ok
    BY <2>2 DEF Publish, IInv, TypeOK, EntriesRecent
  <2> QED BY <2>1, <2>2
<1>4. /\ memory' \in [Procs -> [Route -> Entry]] /\ hot' \in Entry
      /\ EntriesRecent'
  BY <1>2, <1>3 DEF IInv, TypeOK, EntriesRecent, Lasts
<1>5. CASE q.route = "search"
  <2>1. PICK n : n = [q EXCEPT !.pc = "write"]
    OBVIOUS
  <2>2. /\ n \in Request /\ n.pc = "write" /\ n.age = q.age /\ n.route = q.route
        /\ n.nested = q.nested /\ n.run = q.run
    BY <2>1 DEF Request
  <2>3. Recent(n) /\ Follows(t, n)
    BY <1>1, <1>2, <1>5, <2>2 DEF Recent, Follows
  <2>4. Goto(t, n)
    BY <1>1, <1>5, <2>1 DEF Publish
  <2> QED BY <1>2, <1>3, <1>4, <2>2, <2>3, <2>4 DEF StepsTo
<1>6. CASE q.route # "search"
  <2>1. q.age <= AnswerBound(q.route) /\ ~q.nested /\ q.age \in Age
    BY <1>1, <1>6, RequestParts, Bounds, Times DEF Recent
  <2>2. PICK n \in Request :
            /\ n = Answer(q, q.age) /\ Recent(n) /\ n.proc = q.proc
            /\ n.pc = "answered" /\ n.route = q.route /\ n.age = q.age
    BY <2>1, AnswerRecent
  <2>3. Follows(t, n)
    BY <1>1, <1>2, <2>2 DEF Follows
  <2>4. Goto(t, n)
    BY <1>1, <1>6, <2>2 DEF Publish
  <2> QED BY <1>2, <1>3, <1>4, <2>2, <2>3, <2>4 DEF StepsTo
<1> QED BY <1>5, <1>6

\* The search's file is written.
LEMMA WriteFileSteps ==
    ASSUME IInv, NEW t \in Threads, NEW ok \in BOOLEAN, WriteFile(t, ok)
    PROVE  \E n \in Request : StepsTo(t, n)
<1>1. PICK q \in Request : q = request[t] /\ q # Idle /\ q.pc = "write" /\ Recent(q)
  BY RequestAt DEF IInv, WriteFile
<1>2. q.route = "search" /\ UNCHANGED <<memory, shared>> /\ Unwatched
  BY <1>1 DEF Recent, WriteFile
<1>3. hot' \in Entry /\ Lasts(hot', MaxRun + HotTtl + 1)
  <2>1. CASE ok
    <3>1. PICK e : e = [age |-> q.age, left |-> HotTtl + 1]
      OBVIOUS
    <3>2. HotTtl + 1 \in Life
      BY LivesFit, Times
    <3>3. e \in Entry /\ e.age = q.age /\ e.left = HotTtl + 1
      BY <3>1, <3>2, Entries, RequestParts
    <3>4. Lasts(e, MaxRun + HotTtl + 1)
      BY <1>1, <1>2, <3>3, RequestParts, Times DEF Lasts, Recent, Borrowed
    <3> QED BY <1>1, <2>1, <3>1, <3>3, <3>4 DEF WriteFile
  <2>2. CASE ~ok
    BY <2>2 DEF WriteFile, IInv, TypeOK, EntriesRecent
  <2> QED BY <2>1, <2>2
<1>4. /\ memory' \in [Procs -> [Route -> Entry]] /\ shared' \in [Route -> Entry]
      /\ EntriesRecent'
  BY <1>2, <1>3 DEF IInv, TypeOK, EntriesRecent, Lasts
<1>5. q.age <= AnswerBound(q.route) /\ q.age \in Age
  BY <1>1, RequestParts, Bounds, Times DEF Recent
<1>6. PICK n \in Request :
          /\ n = Answer(q, q.age) /\ Recent(n)
          /\ ~q.nested => n.pc = "answered" /\ n.route = q.route
          /\ q.nested => n.pc = "store" /\ n.route = "specials"
  BY <1>2, <1>5, AnswerRecent
<1>7. Follows(t, n) /\ Goto(t, n)
  BY <1>1, <1>2, <1>6, RequestParts DEF Follows, WriteFile
<1> QED BY <1>2, <1>3, <1>4, <1>6, <1>7 DEF StepsTo
-----------------------------------------------------------------------------
\* The steps: of a request, a clear, a restart, or time passes.
LEMMA Steps ==
    ASSUME IInv, Next
    PROVE  \/ \E t \in Threads : \E n \in Request : StepsTo(t, n)
           \/ \E p \in Procs, w \in Writer : Clear(p, w)
           \/ \E p \in Procs : Restart(p)
           \/ Tick
<1>1. load.procs \subseteq Procs
  BY TimesAllowed DEF IInv, TypeOK
<1> QED BY <1>1, BeginSteps, LookInSharedSteps, LookOnDiskSteps, ComputeSteps, FallBackSteps,
           KeepSteps, StoreSteps, PublishSteps, WriteFileSteps DEF Next

\* What is watched.
LEMMA WatchedParts ==
    ASSUME TypeOK
    PROVE  /\ NoWatch.since = -1
           /\ watched # NoWatch =>
                 /\ watched \in [route : Route, proc : Procs, since : Age, raced : BOOLEAN]
                 /\ watched.since \in Age /\ watched.since \in Nat
  BY Times DEF TypeOK, NoWatch, Age

\* A step of a request keeps the invariant.
LEMMA StepsKeep ==
    ASSUME IInv, NEW t \in Threads, NEW n \in Request, StepsTo(t, n)
    PROVE  IInv'
<1>1. TypeOK'
  BY DEF IInv, TypeOK, StepsTo, Goto, Unwatched
<1>2. \A u \in Threads : request'[u] = IF u = t THEN n ELSE request[u]
  BY DEF IInv, TypeOK, StepsTo, Goto
<1>3. \A u \in Threads : request'[u] # Idle => Recent(request'[u])
  BY <1>2 DEF IInv, StepsTo
<1> QED BY <1>1, <1>3 DEF IInv, StepsTo, Recent

\* A clear keeps the invariant.
LEMMA ClearKeeps ==
    ASSUME IInv, NEW p \in Procs, NEW w \in Writer, Clear(p, w)
    PROVE  /\ IInv'
           /\ \A o \in Procs, r \in Route :
                 memory'[o][r] = IF o = p /\ r \in Cleared(w) THEN NoEntry
                                 ELSE memory[o][r]
           /\ watched' = watched
              \/ \E r \in Route : /\ <<w, r>> \in Watch
                                  /\ watched' # NoWatch
                                  /\ watched'.route = r /\ watched'.proc = p
                                  /\ watched'.since = 0
                                  /\ watched'.raced
                                       = (\E t \in Threads :
                                             request[t] # Idle /\ request[t].proc = p)
<1>1. PICK row : row = [r \in Route |-> IF r \in Cleared(w) THEN NoEntry
                                        ELSE memory[p][r]]
  OBVIOUS
<1>2. row \in [Route -> Entry] /\ \A r \in Route : Lasts(row[r], AnswerBound(r) + 1)
  BY <1>1, Entries DEF IInv, TypeOK, EntriesRecent, Lasts
<1>3. memory' = [memory EXCEPT ![p] = row]
  BY <1>1 DEF Clear
<1>4. /\ memory' \in [Procs -> [Route -> Entry]]
      /\ \A o \in Procs, r \in Route : Lasts(memory'[o][r], AnswerBound(r) + 1)
  BY <1>2, <1>3 DEF IInv, TypeOK, EntriesRecent
<1>5. \A o \in Procs, r \in Route :
          memory'[o][r] = IF o = p /\ r \in Cleared(w) THEN NoEntry ELSE memory[o][r]
  BY <1>1, <1>3 DEF IInv, TypeOK
<1>6. UNCHANGED <<shared, hot, request, enabled, load>>
  BY DEF Clear
<1>7. CASE watched' = watched
  <2>1. IInv'
    BY <1>4, <1>6, <1>7 DEF IInv, TypeOK, EntriesRecent, Lasts, Recent
  <2> QED BY <1>5, <1>7, <2>1
<1>8. ASSUME NEW r \in load.routes, <<w, r>> \in Watch,
             watched' = [route |-> r, proc |-> p, since |-> 0,
                         raced |-> \E t \in Threads :
                             request[t] # Idle /\ request[t].proc = p]
      PROVE  /\ IInv'
             /\ r \in Route /\ watched' # NoWatch
             /\ watched'.route = r /\ watched'.proc = p /\ watched'.since = 0
             /\ watched'.raced = (\E t \in Threads :
                                     request[t] # Idle /\ request[t].proc = p)
  <2>1. r \in Route
    BY TimesAllowed DEF IInv, TypeOK
  <2>2. PICK b \in BOOLEAN : b = (\E t \in Threads :
                                     request[t] # Idle /\ request[t].proc = p)
    OBVIOUS
  <2>3. watched' = [route |-> r, proc |-> p, since |-> 0, raced |-> b]
    BY <1>8, <2>2
  <2>4. watched' \in [route : Route, proc : Procs, since : Age, raced : BOOLEAN]
    BY <2>1, <2>3, Times DEF Age
  <2>5. IInv'
    BY <1>4, <1>6, <2>4 DEF IInv, TypeOK, EntriesRecent, Lasts, Recent
  <2>6. watched'.since = 0 /\ watched'.route = r /\ watched'.proc = p /\ watched'.raced = b
    BY <2>3
  <2> QED BY <2>1, <2>2, <2>5, <2>6 DEF NoWatch
<1> QED BY <1>5, <1>7, <1>8 DEF Clear

\* A restart keeps the invariant.
LEMMA RestartKeeps ==
    ASSUME IInv, NEW p \in Procs, Restart(p)
    PROVE  /\ IInv'
           /\ \A o \in Procs, r \in Route :
                 memory'[o][r] = IF o = p THEN NoEntry ELSE memory[o][r]
           /\ \A t \in Threads : request'[t] \in {Idle, request[t]}
           /\ UNCHANGED <<enabled, watched>>
<1>1. Empty \in [Route -> Entry] /\ \A r \in Route : Empty[r] = NoEntry
  BY Entries DEF Empty
<1>2. memory' = [memory EXCEPT ![p] = Empty]
  BY DEF Restart
<1>3. /\ memory' \in [Procs -> [Route -> Entry]]
      /\ \A o \in Procs, r \in Route :
            memory'[o][r] = IF o = p THEN NoEntry ELSE memory[o][r]
  BY <1>1, <1>2 DEF IInv, TypeOK
<1>4. \A t \in Threads : request'[t] \in {Idle, request[t]}
  BY DEF Restart
<1>5. request' \in [Threads -> Request \cup {Idle}]
  BY DEF Restart, IInv, TypeOK
<1>6. UNCHANGED <<shared, hot, enabled, load, watched>>
  BY DEF Restart
<1>7. EntriesRecent'
  BY <1>3, <1>6, Entries DEF IInv, EntriesRecent, Lasts
<1>8. \A t \in Threads : request'[t] # Idle => Recent(request'[t])
  BY <1>4 DEF IInv
<1> QED BY <1>3, <1>4, <1>5, <1>6, <1>7, <1>8 DEF IInv, TypeOK, Recent

\* An entry a tick older.
LEMMA AgedEntry ==
    ASSUME NEW e \in Entry, NEW bound \in Nat, Lasts(e, bound)
    PROVE  /\ Aged(e) \in Entry /\ Lasts(Aged(e), bound)
           /\ Aged(e).left > 0 => e.left > 0 /\ Aged(e).age = Older(e.age)
<1>1. PICK top \in Nat : Life = 0 .. top
  BY LivesFit
<1>2. CASE e.left <= 1
  BY <1>2, Entries DEF Aged, Lasts
<1>3. CASE ~(e.left <= 1)
  <2>1. PICK a : a = Older(e.age)
    OBVIOUS
  <2>2. a \in Age /\ a \in Nat /\ a <= e.age + 1
    BY <2>1, Entries, Times DEF Older, Age
  <2>3. e.left - 1 \in Life
    BY <1>1, <1>3, Entries
  <2>4. PICK n : n = [age |-> a, left |-> e.left - 1]
    OBVIOUS
  <2>5. n \in Entry /\ n.age = a /\ n.left = e.left - 1
    BY <2>2, <2>3, <2>4, Entries
  <2>6. n = Aged(e)
    BY <1>3, <2>1, <2>4 DEF Aged
  <2>7. Lasts(n, bound)
    BY <1>3, <2>2, <2>5, Entries DEF Lasts
  <2> QED BY <1>3, <2>1, <2>5, <2>6, <2>7, Entries
<1> QED BY <1>2, <1>3, Entries

\* A request a tick later.
LEMMA TickedRequest ==
    ASSUME IInv, Tick, NEW t \in Threads
    PROVE  \/ request'[t] = Idle
           \/ \E n \in Request :
                 /\ request'[t] = n /\ request[t] \in Request /\ request[t] # Idle
                 /\ n.pc = request[t].pc /\ n.pc # "answered" /\ n.route = request[t].route
                 /\ n.proc = request[t].proc /\ n.age = Older(request[t].age)
                 /\ Recent(n)
<1>1. CASE InFlight(t)
  <2>1. PICK q \in Request : q = request[t] /\ q # Idle /\ q.pc # "answered" /\ Recent(q)
    BY <1>1, RequestAt DEF IInv, InFlight
  <2>2. q.run < MaxRun
    BY <1>1, <2>1 DEF Tick
  <2>3. PICK n : n = [q EXCEPT !.run = q.run + 1, !.age = Older(q.age)]
    OBVIOUS
  <2>4. q.run + 1 \in 0 .. MaxRun /\ Older(q.age) \in Age /\ Older(q.age) <= q.age + 1
    BY <2>2, RequestParts, Times DEF Older, Age
  <2>5. /\ n \in Request /\ n.pc = q.pc /\ n.route = q.route /\ n.proc = q.proc
        /\ n.nested = q.nested /\ n.run = q.run + 1 /\ n.age = Older(q.age)
    BY <2>3, <2>4 DEF Request
  <2>6. request'[t] = n
    BY <1>1, <2>1, <2>3 DEF Tick
  <2>7. /\ n.pc \in {"store", "publish", "write"} => n.age <= Borrowed(n.route) + n.run
        /\ n.pc = "keep" =>
              n.age <= Borrowed(n.route) + MaxRun + Outside(n.route) + n.run
    BY <2>1, <2>4, <2>5, RequestParts, Bounds, Times DEF Recent
  <2>8. Recent(n)
    BY <2>1, <2>5, <2>7 DEF Recent
  <2> QED BY <2>1, <2>5, <2>6, <2>8
<1>2. CASE ~InFlight(t)
  BY <1>2 DEF Tick
<1> QED BY <1>1, <1>2

\* Time keeps the invariant.
LEMMA TickKeeps == ASSUME IInv, Tick PROVE IInv'
<1>1. \A r \in Route : /\ Borrowed(r) + MaxRun + SharedTtl \in Nat
                       /\ AnswerBound(r) + 1 \in Nat /\ MaxRun + HotTtl + 1 \in Nat
  BY Bounds, Times
<1>2. /\ \A r \in Route : /\ Aged(shared[r]) \in Entry
                          /\ Lasts(Aged(shared[r]), Borrowed(r) + MaxRun + SharedTtl)
      /\ \A o \in Procs, r \in Route : /\ Aged(memory[o][r]) \in Entry
                                       /\ Lasts(Aged(memory[o][r]), AnswerBound(r) + 1)
  BY <1>1, AgedEntry DEF IInv, TypeOK, EntriesRecent
<1>3. Aged(hot) \in Entry /\ Lasts(Aged(hot), MaxRun + HotTtl + 1)
  BY AgedEntry, Times DEF IInv, TypeOK, EntriesRecent
<1>4. /\ memory' = [p \in Procs |-> [r \in Route |-> Aged(memory[p][r])]]
      /\ shared' = [r \in Route |-> Aged(shared[r])] /\ hot' = Aged(hot)
      /\ UNCHANGED <<enabled, load>>
  BY DEF Tick
<1>5. memory' \in [Procs -> [Route -> Entry]] /\ shared' \in [Route -> Entry] /\ hot' \in Entry
  BY <1>2, <1>3, <1>4
<1>6. EntriesRecent'
  BY <1>2, <1>3, <1>4 DEF EntriesRecent, Lasts
<1>7. \A t \in Threads : request'[t] \in Request \cup {Idle}
                         /\ (request'[t] # Idle => Recent(request'[t]))
  BY TickedRequest
<1>8. request' \in [Threads -> Request \cup {Idle}]
  <2>1. request' = [t \in Threads |-> request'[t]]
    BY DEF Tick
  <2> QED BY <1>7, <2>1
<1>9. watched' \in {NoWatch} \cup [route : Route, proc : Procs, since : Age, raced : BOOLEAN]
  <2>1. CASE watched = NoWatch
    BY <2>1 DEF Tick
  <2>2. CASE watched # NoWatch
    <3>1. PICK x \in [route : Route, proc : Procs, since : Age, raced : BOOLEAN] : x = watched
      BY <2>2, WatchedParts DEF IInv
    <3>2. Older(x.since) \in Age
      BY Times DEF Older, Age
    <3>3. watched' = [x EXCEPT !.since = Older(x.since)]
      BY <2>2, <3>1 DEF Tick
    <3> QED BY <3>2, <3>3
  <2> QED BY <2>1, <2>2
<1> QED BY <1>4, <1>5, <1>6, <1>7, <1>8, <1>9 DEF IInv, TypeOK, Recent

\* Every step keeps the invariant.
LEMMA StepIInv == IInv /\ [Next]_vars => IInv'
<1>1. ASSUME IInv, UNCHANGED vars PROVE IInv'
  BY <1>1 DEF IInv, TypeOK, EntriesRecent, Lasts, vars
<1> QED BY <1>1, Steps, StepsKeep, ClearKeeps, RestartKeeps, TickKeeps

\* At first all caches are empty.
LEMMA InitIInv == Init => IInv
  BY Entries DEF Init, Empty, IInv, TypeOK, EntriesRecent, Lasts

\* The invariant holds.
THEOREM Invariance == Spec => []IInv
  BY InitIInv, StepIInv, PTL DEF Spec

\* Entries, requests and the watched clear have their types.
THEOREM TypeCorrect == Spec => []TypeOK
  BY Invariance, PTL DEF IInv

\* No answer is older than the lives of the caches on its way add up to.
THEOREM RecentAnswers == Spec => []AnswersAreRecent
<1>1. IInv => AnswersAreRecent
  BY RequestAt DEF IInv, Recent, AnswersAreRecent, Idle
<1> QED BY <1>1, Invariance, PTL
-----------------------------------------------------------------------------
\* What is watched and has not been raced, without a shared cache: from here on
\* the process is to answer with nothing older.
Settled == watched # NoWatch /\ ~enabled /\ ~watched.raced

\* The watched entry in memory is no older than the clear.
EntryHeard == LET entry == memory[watched.proc][watched.route]
              IN entry.left > 0 => entry.age <= watched.since

\* A step of a request keeps what was heard.
LEMMA StepsHear ==
    ASSUME HeardInv, NEW t \in Threads, NEW n \in Request, StepsTo(t, n)
    PROVE  HeardInv'
<1> USE DEF HeardInv
<1>1. UNCHANGED <<enabled, watched>> /\ Follows(t, n) /\ IInv'
  BY StepsKeep DEF StepsTo, Unwatched
<1>2. \A u \in Threads : request'[u] = IF u = t THEN n ELSE request[u]
  BY DEF IInv, TypeOK, StepsTo, Goto
<1>3. ASSUME Settled
      PROVE  /\ EntryHeard'
             /\ (n.proc = watched.proc /\ n.route = watched.route
                    /\ n.pc \in {"store", "publish", "answered"}) => n.age <= watched.since
  <2>1. PICK w : /\ w = watched /\ w.since \in Nat /\ w.proc \in Procs /\ w.route \in Route
                 /\ w.route \in {"filters", "landing"}
    BY <1>3, WatchedParts DEF Settled, IInv
  <2>2. memory[w.proc][w.route].left > 0 => memory[w.proc][w.route].age <= w.since
    BY <1>3, <2>1 DEF Settled
  <2>3. ASSUME request[t] # Idle, request[t].pc \in {"keep", "store", "publish"},
               request[t].proc = w.proc, request[t].route = w.route
        PROVE  request[t] \in Request /\ request[t].age <= w.since
    BY <1>3, <2>1, <2>3, RequestAt DEF Settled, HeardBy, IInv
  <2>4. memory'[w.proc][w.route].left > 0 => memory'[w.proc][w.route].age <= w.since
    <3>1. CASE UNCHANGED memory
      BY <2>2, <3>1
    <3>2. CASE /\ request[t] # Idle /\ request[t].pc \in {"keep", "store"}
               /\ Remember(request[t])
      <4>1. PICK q \in Request : q = request[t]
        BY <3>2, RequestAt DEF IInv
      <4>2. PICK e : e = [age |-> q.age, left |-> LifeInMemory(q)]
        OBVIOUS
      <4>3. e.age = q.age /\ memory' = [memory EXCEPT ![q.proc][q.route] = e]
        BY <3>2, <4>1, <4>2 DEF Remember
      <4>4. CASE q.proc = w.proc /\ q.route = w.route
        <5>1. memory'[w.proc][w.route] = e
          BY <2>1, <4>3, <4>4 DEF IInv, TypeOK
        <5> QED BY <2>3, <3>2, <4>1, <4>3, <4>4, <5>1
      <4>5. CASE ~(q.proc = w.proc /\ q.route = w.route)
        <5>1. memory'[w.proc][w.route] = memory[w.proc][w.route]
          BY <2>1, <4>3, <4>5 DEF IInv, TypeOK
        <5> QED BY <2>2, <5>1
      <4> QED BY <4>4, <4>5
    <3> QED BY <1>1, <3>1, <3>2 DEF Follows
  <2>5. (n.proc = w.proc /\ n.route = w.route
            /\ n.pc \in {"store", "publish", "answered"}) => n.age <= w.since
    BY <1>1, <2>1, <2>2, <2>3 DEF Follows
  <2> QED BY <1>1, <2>1, <2>4, <2>5 DEF EntryHeard
<1>4. HeardBy(n)'
  BY <1>1, <1>3 DEF HeardBy, Settled, Follows
<1>5. \A u \in Threads : (request[u] # Idle => HeardBy(request[u]))'
  BY <1>1, <1>2, <1>4 DEF HeardBy
<1> QED BY <1>1, <1>3, <1>5 DEF Settled, EntryHeard, HeardBy

\* A clear begins what is to be heard.
LEMMA ClearHears ==
    ASSUME ClearsWatched, HeardInv, NEW p \in Procs, NEW w \in Writer, Clear(p, w)
    PROVE  HeardInv'
<1> USE DEF HeardInv
<1>1. IInv' /\ UNCHANGED <<enabled, request>>
  BY ClearKeeps DEF Clear
<1>2. \A o \in Procs, r \in Route :
          memory'[o][r] = IF o = p /\ r \in Cleared(w) THEN NoEntry ELSE memory[o][r]
  BY ClearKeeps
<1>3. CASE watched' = watched
  <2>1. Settled' => EntryHeard'
    <3>1. ASSUME Settled PROVE EntryHeard'
      <4>1. watched.proc \in Procs /\ watched.route \in Route
        BY <3>1, WatchedParts DEF Settled, IInv
      <4> QED BY <1>2, <1>3, <3>1, <4>1, Entries DEF Settled, EntryHeard
    <3> QED BY <1>1, <1>3, <3>1 DEF Settled
  <2> QED BY <1>1, <1>3, <2>1 DEF Settled, EntryHeard, HeardBy
<1>4. ASSUME NEW r \in Route, <<w, r>> \in Watch, watched' # NoWatch,
             watched'.route = r, watched'.proc = p, watched'.since = 0,
             watched'.raced = (\E t \in Threads :
                                  request[t] # Idle /\ request[t].proc = p)
      PROVE  HeardInv'
  <2>1. r \in {"filters", "landing"} /\ r \in Cleared(w)
    BY <1>4 DEF ClearsWatched
  <2>2. EntryHeard'
    BY <1>2, <1>4, <2>1, Entries DEF EntryHeard
  <2>3. ASSUME NEW t \in Threads PROVE (request[t] # Idle => HeardBy(request[t]))'
    BY <1>1, <1>4 DEF HeardBy
  <2> QED BY <1>1, <1>4, <2>1, <2>2, <2>3 DEF EntryHeard, HeardBy
<1> QED BY <1>3, <1>4, ClearKeeps

\* A restart forgets.
LEMMA RestartHears == ASSUME HeardInv, NEW p \in Procs, Restart(p) PROVE HeardInv'
<1> USE DEF HeardInv
<1>1. /\ IInv' /\ UNCHANGED <<enabled, watched>>
      /\ \A o \in Procs, r \in Route :
            memory'[o][r] = IF o = p THEN NoEntry ELSE memory[o][r]
      /\ \A t \in Threads : request'[t] \in {Idle, request[t]}
  BY RestartKeeps
<1>2. ASSUME Settled PROVE EntryHeard'
  <2>1. watched.proc \in Procs /\ watched.route \in Route
    BY <1>2, WatchedParts DEF Settled, IInv
  <2> QED BY <1>1, <1>2, <2>1, Entries DEF Settled, EntryHeard
<1>3. \A t \in Threads : (request[t] # Idle => HeardBy(request[t]))'
  BY <1>1 DEF HeardBy
<1> QED BY <1>1, <1>2, <1>3 DEF Settled, EntryHeard, HeardBy

\* Time makes entries, requests and the clear older alike.
LEMMA TickHears == ASSUME HeardInv, Tick PROVE HeardInv'
<1> USE DEF HeardInv
<1>1. IInv' /\ UNCHANGED enabled
  BY TickKeeps DEF Tick
<1>2. \A a, b \in Age : a <= b => Older(a) <= Older(b)
  BY Times DEF Older, Age
<1>3. watched = NoWatch => watched' = NoWatch
  BY DEF Tick
<1>4. ASSUME watched # NoWatch
      PROVE  /\ watched'.route = watched.route /\ watched'.proc = watched.proc
             /\ watched'.raced = watched.raced /\ watched'.since = Older(watched.since)
  <2>1. PICK x \in [route : Route, proc : Procs, since : Age, raced : BOOLEAN] : x = watched
    BY <1>4, WatchedParts DEF IInv
  <2>2. watched' = [x EXCEPT !.since = Older(x.since)]
    BY <1>4, <2>1 DEF Tick
  <2> QED BY <2>1, <2>2
<1>5. ASSUME Settled PROVE EntryHeard'
  <2>1. PICK w : w = watched /\ w.since \in Age /\ w.proc \in Procs /\ w.route \in Route
    BY <1>5, WatchedParts DEF Settled, IInv
  <2>2. PICK e \in Entry : e = memory[w.proc][w.route] /\ Lasts(e, AnswerBound(w.route) + 1)
    BY <2>1 DEF IInv, TypeOK, EntriesRecent
  <2>3. Aged(e).left > 0 => e.left > 0 /\ Aged(e).age = Older(e.age)
    BY <2>1, <2>2, AgedEntry, Bounds
  <2>4. e.left > 0 => e.age <= w.since
    BY <1>5, <2>1, <2>2 DEF Settled
  <2>5. memory'[w.proc][w.route] = Aged(e)
    BY <2>1, <2>2 DEF Tick
  <2>6. Aged(e).left > 0 => Aged(e).age <= Older(w.since)
    BY <1>2, <2>1, <2>2, <2>3, <2>4, Entries
  <2>7. watched'.route = w.route /\ watched'.proc = w.proc /\ watched'.since = Older(w.since)
    BY <1>4, <1>5, <2>1 DEF Settled
  <2> QED BY <2>5, <2>6, <2>7 DEF EntryHeard
<1>6. ASSUME NEW t \in Threads, request'[t] # Idle PROVE HeardBy(request[t])'
  <2>1. PICK n \in Request :
            /\ request'[t] = n /\ request[t] \in Request /\ request[t] # Idle
            /\ n.pc = request[t].pc /\ n.pc # "answered" /\ n.route = request[t].route
            /\ n.proc = request[t].proc /\ n.age = Older(request[t].age)
    BY <1>6, TickedRequest
  <2>2. PICK q \in Request : q = request[t] /\ HeardBy(q)
    BY <2>1
  <2>3. ~enabled' => (n.pc = "keep" => n.route = "search")
    BY <1>1, <2>1, <2>2 DEF HeardBy
  <2>4. ASSUME watched' # NoWatch, ~enabled', ~watched'.raced,
               n.proc = watched'.proc, n.route = watched'.route,
               n.pc \in {"store", "publish", "answered"}
        PROVE  n.age <= watched'.since
    <3>1. watched # NoWatch
      BY <1>3, <2>4
    <3>2. q.age <= watched.since
      BY <1>1, <1>4, <2>1, <2>2, <2>4, <3>1 DEF HeardBy
    <3>3. q.age \in Age /\ watched.since \in Age
      BY <3>1, RequestParts, WatchedParts DEF IInv
    <3> QED BY <1>2, <1>4, <2>1, <2>2, <3>1, <3>2, <3>3
  <2> QED BY <2>1, <2>3, <2>4 DEF HeardBy
<1> QED BY <1>1, <1>3, <1>4, <1>5, <1>6 DEF Settled, EntryHeard, HeardBy

\* Every step keeps what was heard.
LEMMA StepHeard == ASSUME ClearsWatched PROVE HeardInv /\ [Next]_vars => HeardInv'
<1>1. ASSUME HeardInv, UNCHANGED vars PROVE HeardInv'
  BY <1>1, StepIInv DEF HeardInv, HeardBy, vars
<1>2. ASSUME HeardInv, Next PROVE HeardInv'
  <2>1. \/ \E t \in Threads : \E n \in Request : StepsTo(t, n)
        \/ \E p \in Procs, w \in Writer : Clear(p, w)
        \/ \E p \in Procs : Restart(p)
        \/ Tick
    BY <1>2, Steps DEF HeardInv
  <2> QED BY <1>2, <2>1, StepsHear, ClearHears, RestartHears, TickHears, ClearsWatched
<1> QED BY <1>1, <1>2

\* At first nothing is watched.
LEMMA InitHeard == Init => HeardInv
  BY InitIInv DEF Init, HeardInv

\* Without a shared cache, the clears of the filters and of the landing page
\* are seen by every later request of their process, unless one was under way.
THEOREM UpdatesAreSeen == ASSUME ClearsWatched PROVE Spec => []UpdateIsSeen
<1>1. HeardInv /\ [Next]_vars => HeardInv'
  BY ClearsWatched, StepHeard
<1>2. HeardInv => UpdateIsSeen
  BY RequestAt DEF HeardInv, HeardBy, IInv, UpdateIsSeen, Idle
<1> QED BY <1>1, <1>2, InitHeard, PTL DEF Spec
=============================================================================
