--------------------------- MODULE MCEchoExample ---------------------------
(* Messages for EchoExample: one the program answers on the next channel,  *)
(* around from 15 to 0, one it does not answer, and system exclusive       *)
(* messages of two and of three packets.                                   *)
EXTENDS EchoExample

SomeBytes == {1, 2, 144, 191, SYSEX_BEGIN, SYSEX_END}

SomeMessages ==
    {<<"cc", <<15, 1, 2>>>>, <<"noteon", <<0, 1, 1>>>>,
     <<"array", <<SYSEX_BEGIN, 1, 2, SYSEX_END>>>>,
     <<"array", <<SYSEX_BEGIN, 1, 2, 2, 1, 1, 2, SYSEX_END>>>>}

NoCallback == {}
=============================================================================
