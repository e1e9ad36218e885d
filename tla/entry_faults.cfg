SPECIFICATION Spec
CONSTANTS
    Clients = {c1, c2, c3}
    NoClient = NoClient
    Series = {EM340, ET340}
    NoSeries = NoSeries
    Intervals = {1, 2}
    ReconnectEvery = 3
    MaxReloads = 1
    Faults = {"unexpected", "requested", "forward", "cancelled", "unload", "late"}
SYMMETRY Symmetry
INVARIANTS BaseInv RegistersFollowMemory DeliveredResetsCount
PROPERTY RememberingNeverReloads
