CONSTANTS
    w1 = w1
    w2 = w2
    m1 = m1
    m2 = m2
    m3 = m3
    n1 = n1
    n2 = n2
    f1 = f1
    f2 = f2
    a = a
    b = b
    CaddyTag = CaddyTag
    NoTag = NoTag
    None = None
    CaddyFile = CaddyFile
    NodeFile <- MCNodeFile
    VMIDBase = 98
    Confs <- MCConfs
    Macs = {m1, m2, m3}
    Nodes = {n1}
    Workers = {w1}
    VMIDs <- OneVMIDs
    Listing <- OneListing
    Shapes <- OneShapes
    Asks <- OneAsks
    Faults <- OneFaults
SPECIFICATION Spec
INVARIANTS TypeOK ProvisionOk ProvisionHeals DeprovisionOk ReplayOk
PROPERTIES RecordedAsRouted
