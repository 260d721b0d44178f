\* The main program reads, it and two interrupts write.
CONSTANTS
    rx = rx
    tx = tx
    x = x
    y = y
    Main = Main
    Reader = Main
    QueueLength = 4
    Item <- Bytes
    Isr <- Interrupts
SPECIFICATION Spec
SYMMETRY Symmetry
INVARIANTS
    TypeOK
    MutualExclusion
    NoNestedInterrupt
    CallerSettingKept
    KnownBytesStay
PROPERTIES
    ImplementsFifo
