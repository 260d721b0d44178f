\* System common messages to a USB host.
CONSTANTS
    Bytes <- Uint8
    Callback <- Specific
    Leftover = {0}
    CountRange = 16
    Cable = {"host"}
    Operation <- CommonToHost
    MaxUnderWay = 1
SPECIFICATION TripSpec
INVARIANTS
    AllCalled
