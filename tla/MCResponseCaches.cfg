SPECIFICATION Spec
CONSTANTS
    Threads = {t1, t2}
    p1 = p1
    p2 = p2
    Procs = {p1, p2}
    MemoryTtl <- MCMemoryTtl
    SharedTtl = 2
    HotTtl = 3
    Watch <- MCWatch
    Loads <- MCLoads
    MaxRun = 1
    MaxAge = 9
SYMMETRY Symmetry
INVARIANTS
    TypeOK
    AnswersAreRecent
    UpdateIsSeen
