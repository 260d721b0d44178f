---------------------------- MODULE MCSerialWire ----------------------------
(* Messages for SerialWire: note on on two channels and program changes.   *)
EXTENDS SerialWire

SomeBytes == {1, 2, 145, 146, 193}

NoteOn       == [cnt |-> 3, bytes |-> <<146, 1, 2>>]
OtherNoteOn  == [cnt |-> 3, bytes |-> <<145, 2, 1>>]
Program      == [cnt |-> 2, bytes |-> <<193, 1, 1>>]
OtherProgram == [cnt |-> 2, bytes |-> <<193, 2, 1>>]

MainMessages == {NoteOn, Program}
IsrMessages  == {OtherProgram}
NoteMessages == {OtherNoteOn}
=============================================================================
