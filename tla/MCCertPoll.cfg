CONSTANTS
    c1 = c1
    c2 = c2
    d1 = d1
    d2 = d2
    Clients = {c1, c2}
    Domains = {d1, d2}
    Batches <- MCBatches
    MaxDials = 2
SPECIFICATION FairSpec
INVARIANTS TypeOK MatchedIsOnDisk OkFlushesCache
PROPERTIES OkLeadsToStep EndsOrHangs
CHECK_DEADLOCK FALSE
