\* A sender that finishes its system exclusive messages.
CONSTANTS
    Bytes <- SomeBytes
    Callback <- SomeCallbacks
    CountRange = 16
SPECIFICATION OrderlySpec
INVARIANTS
    TypeOK
    StatusKept
    CalledInOrder
PROPERTIES
    ImplementsStream
