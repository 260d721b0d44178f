\* A queue of five bytes, which two messages overrun, and an endpoint of two packets.
CONSTANTS
    Bytes <- SomeBytes
    Callback <- NoCallback
    CountRange = 10
    QueueLength = 6
    HostMessage <- SomeMessages
    EndpointRoom = 2
SPECIFICATION EchoSpec
INVARIANTS
    EchoedInOrder
PROPERTIES
    AllEchoed
    PollEnds
    Enumerated
