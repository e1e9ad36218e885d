SPECIFICATION FairSpec
CONSTANTS
    Clients = {c1, c2}
    NoClient = NoClient
    Series = {EM340, ET340}
    NoSeries = NoSeries
    Intervals = {1, 2}
    ReconnectEvery = 3
    MaxReloads = 2
    Faults = {"unexpected", "unload"}
INVARIANTS NoLeakedConnection FreshInterval
PROPERTIES
    KeepsContract
    RecoversOnceCaught
    StaleValuesExpire
    IntervalTakesEffect
    KeepsFairContract
