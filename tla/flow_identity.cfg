SPECIFICATION Spec
CONSTANTS
    Entries = {e1, e2}
    NoEntry = NoEntry
    Flows = {f1, f2}
    Places = {p1, p2}
    NoPlace = NoPlace
    m1 = m1
    m2 = m2
    Meters = {m1, m2}
    NoMeter = NoMeter
    s1 = s1
    s2 = s2
    Serials = {s1, s2}
    NoSerial = NoSerial
    EM340 = EM340
    ET340 = ET340
    Series = {EM340, ET340}
    NoSeries = NoSeries
    SerialOf <- Numbered
    SeriesOf <- Known
    Faults = {}
SYMMETRY Symmetry
INVARIANTS OneEntryPerMeter RefusedOnlyIfConfigured SeriesOfMeter
