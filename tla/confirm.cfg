SPECIFICATION FairSpec
CONSTANTS
    a1 = a1
    a2 = a2
    k1 = k1
    k2 = k2
    c1 = c1
    o1 = o1
    None = None
    Authors = {a1, a2}
    Requests = {k1, k2}
    Confirmers = {c1}
    Others = {o1}
    SlowInsert = FALSE
INVARIANTS
    TypeOK
    TimersMatchEntries
PROPERTIES
    RequestsSettleOnce
    CommandsFinish
    UnconfirmedExpire
