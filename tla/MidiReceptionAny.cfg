\* Any bytes, with system exclusive messages longer than the range of input_count.
CONSTANTS
    Bytes <- SomeBytes
    Callback <- SomeCallbacks
    CountRange = 7
    MaxSysex = 11
SPECIFICATION ReceptionSpec
INVARIANTS
    NoFalseCall
    SysexPlace
PROPERTIES
    SyncLostOnlyInSysex
    StatusResynchronises
