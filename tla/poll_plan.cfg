SPECIFICATION DeviceSpec
CONSTANTS
    Inputs <- Plannable
    MaximumLength = 20
INVARIANTS
    DeviceTypeOK
    RegistersReadWhole
    PollsOnlyItsOwn
    DocumentedPoll
    SensorsShowThePoll
