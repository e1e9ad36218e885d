SPECIFICATION FairSpec
CONSTANTS
    Clients = {c1, c2}
    NoClient = NoClient
    Series = {EM340}
    NoSeries = NoSeries
    Intervals = {1, 2}
    ReconnectEvery = 3
    MaxReloads = 1
    Faults = {"unexpected"}
PROPERTY Recovers
