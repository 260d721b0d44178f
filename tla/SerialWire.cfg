\* Both USARTs, with a queue of two bytes that is often full; an interrupt
\* routine sends program changes.
CONSTANTS
    QueueLength = 3
    Byte <- SomeBytes
    MainMessage <- MainMessages
    IsrMessage <- IsrMessages
SPECIFICATION WireSpec
INVARIANTS
    NoLostWakeup
    HeardInOrder
PROPERTIES
    ImplementsLine
    ComesToRest
    AllHeard
