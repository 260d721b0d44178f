\* Every cable, every send function, and encoded data of 0 to 16 bytes.
CONSTANTS
    Bytes <- Uint8
    Callback <- Specific
    Leftover = {0}
    CountRange = 64
    Cable = {"serial", "usb", "host"}
    Operation <- Operations
    MaxUnderWay = 1
    Payload <- SomePayloads
SPECIFICATION TransferSpec
INVARIANTS
    AllCalled
    PayloadIntact
PROPERTIES
    HeardAsSent
