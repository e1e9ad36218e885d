SPECIFICATION Spec
CONSTANTS
    Values <- Choices
    Windows = FALSE
    ComPorts = {}
    NoClient = NoClient
    NoInterval = NoInterval
INVARIANTS TypeOK TransportIsAsAccepted
PROPERTY FormShowsTransport
