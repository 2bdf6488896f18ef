CONSTANTS
    p1 = p1
    p2 = p2
    r1 = r1
    r2 = r2
    None = None
    Stale = Stale
    Procs = {p1, p2}
    Short = {r1}
    Long = {r2}
SPECIFICATION FairSpec
INVARIANTS TypeOK Reachable
PROPERTIES ShortNotCut EndsWhenTold ComesUp
