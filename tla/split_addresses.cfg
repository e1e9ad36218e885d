SPECIFICATION FairSpec
CONSTANTS
    Inputs <- MCInputs
    MaximumLength = 3
INVARIANTS TypeOK ReadsExactlyWanted RequestsFitFrame RequestsAreFewest RequestsAreDisjoint
PROPERTY Terminates
CHECK_DEADLOCK FALSE
