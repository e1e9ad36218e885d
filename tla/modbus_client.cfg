SPECIFICATION FairSpec
CONSTANTS
    c1 = c1
    c2 = c2
    l1 = l1
    l2 = l2
    u1 = u1
    t1 = t1
    t2 = t2
    t3 = t3
    t4 = t4
    r1 = r1
    r2 = r2
    Clients = {c1, c2}
    Links = {l1, l2}
    LinkOf <- BusLinks
    UnitOf <- OneMeter
    Tasks = {t1, t2, t3, t4}
    NoTask = NoTask
    ClientOf <- BusCallers
    Requests = {r1, r2}
    LengthOf <- Lengths
    Plans <- Reads
    Numbered = {l2}
    Late = {l2}
INVARIANTS TypeOK OneTransactionPerClient ReturnsItsWords
PROPERTIES LockServesInOrder CallsEnd KeepsBatchContract
