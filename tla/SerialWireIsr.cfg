\* An interrupt routine sends notes, too, with room for all that is sent.
CONSTANTS
    QueueLength = 8
    Byte <- SomeBytes
    MainMessage <- MainMessages
    IsrMessage <- NoteMessages
SPECIFICATION WithRoomSpec
INVARIANTS
    OnlySentHeard
