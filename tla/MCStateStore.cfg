CONSTANTS
    w1 = w1
    w2 = w2
    r1 = r1
    r2 = r2
    d1 = d1
    d2 = d2
    Absent = Absent
    Missing = Missing
    Partial = Partial
    Workers <- MCWorkers
    RouteIds <- MCRouteIds
    Payloads <- MCPayloads
    SavedTables <- MCSavedTables
SPECIFICATION FairSpec
INVARIANTS TypeOK UniqueIds
PROPERTIES Implements EveryCallReturns
