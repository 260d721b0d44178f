\* A queue of three bytes, filled by interrupts and by polling.
CONSTANTS
    Bytes <- SomeBytes
    Callback <- SomeCallbacks
    CountRange = 4
    QueueLength = 3
SPECIFICATION DeviceSpec
INVARIANTS
    CountedBytesStay
PROPERTIES
    ImplementsInput
    ProcessEnds
