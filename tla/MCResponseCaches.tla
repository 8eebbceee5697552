-------------------------- MODULE MCResponseCaches --------------------------
(* Lives in ticks, in the order of the real ones: search 12 s, specials and
   landing page 60 s, shared cache 600 s, files 1800 s. *)
EXTENDS ResponseCaches, TLC

MCMemoryTtl == [search |-> 1, filters |-> 1, specials |-> 1, landing |-> 2]

CONSTANTS p1, p2

\* The filters are asked of two processes, the specials call the search: both
\* one request at a time.
MCLoads ==
    {[routes |-> {"search"}, procs |-> {p1}, atOnce |-> 2],
     [routes |-> {"filters"}, procs |-> {p1, p2}, atOnce |-> 1],
     [routes |-> {"landing"}, procs |-> {p1}, atOnce |-> 2],
     [routes |-> {"search", "specials"}, procs |-> {p1}, atOnce |-> 1]}

MCWatch == {<<"sync", "filters">>, <<"landing", "landing">>}

Symmetry == Permutations(Threads)
=============================================================================
