\* A system exclusive message cut short by a note on.
CONSTANTS
    Bytes <- NoteBytes
    Callback <- OneCallback
    CountRange = 16
    MaxSysex = 3
SPECIFICATION ReceptionSpec
INVARIANTS
    NoMessageLost
