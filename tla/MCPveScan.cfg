CONSTANTS
    k1 = k1
    k2 = k2
    n1 = n1
    n2 = n2
    v1 = v1
    v2 = v2
    v3 = v3
    yes = yes
    no = no
    None = None
    Keys = {k1, k2}
    RealNodes = {n1, n2}
    VMIDs = {v1, v2, v3}
    Confs = {yes, no}
    Wanted = {yes}
    Views <- MCViews
    Shapes <- MCShapes
    MaxChanges = 2
    Faulty = TRUE
SPECIFICATION FairSpec
INVARIANTS TypeOK NotFoundExplained LxcFirst StatusWasTrue
PROPERTIES EverySearchEnds
