SPECIFICATION Spec
CONSTANTS
    WordBase = 4
    Registers <- Map
    Totals <- Energies
    Series <- Both
    NoSeries = "None"
    SeriesForCode <- Codes
    CodeAddress = 1
    IdentificationCode = 3
    Quantities <- Measurements
    PlanOf <- Plans
INVARIANTS TypeOK SeriesIsTheMeters
PROPERTIES DataIsTrue TotalsNeverFall
