CONSTANTS
    c1 = c1
    c2 = c2
    i1 = i1
    i2 = i2
    d1 = d1
    d2 = d2
    Clients <- MCClients
    Ids <- MCIds
    Payloads <- MCPayloads
    Setups <- NoTls
    Faulty = FALSE
SPECIFICATION Spec
INVARIANTS AddInitialisesNode
