--------------------------- MODULE SysexTransfer ---------------------------
(***************************************************************************)
(* Data of any bytes sent through MIDI: encoded by sysex_encode, framed    *)
(* and sent by midi_send_array, received piece by piece by the callback    *)
(* for system exclusive messages, put together by the start it is given,   *)
(* and decoded by sysex_decode.                                            *)
(***************************************************************************)
EXTENDS MidiRoundTrip, SysexTools

CONSTANT Payload  \* the data to be sent

VARIABLES
    payload,  \* the data that is being sent, or NoPayload
    buffer    \* what the listener has put together

transferVars == <<tripVars, payload, buffer>>

NoPayload == <<-1>>

Framed(bytes) == <<SYSEX_BEGIN>> \o bytes \o <<SYSEX_END>>

(* Bytes whose encoded length, and the count of whose message, fit into    *)
(* their uint16_t.                                                         *)
Sendable(p) == p \in Seq(Uint8) /\ Len(p) <= MaxDecoded /\ Len(sysex_encode(p)) + 2 < CountRange

SendPayload(p) ==
    /\ payload = NoPayload /\ due = <<>>
    /\ Operate(<<"array", Framed(sysex_encode(p))>>)
    /\ payload' = p /\ buffer' = <<>>

(* The program's callback stores the bytes where they belong. *)
Stored(start, bytes) == SubSeq(buffer, 1, IF start < Len(buffer) THEN start ELSE Len(buffer)) \o bytes

Receives ==
    /\ Called
    /\ buffer' = IF payload # NoPayload /\ calls' # <<>> /\ calls'[1][1] = "sysex"
                 THEN Stored(calls'[1][2][1], calls'[1][2][2]) ELSE buffer
    /\ UNCHANGED payload

Arrived == underway = <<>> /\ pc = "idle" /\ payload # NoPayload

Done == Arrived /\ payload' = NoPayload /\ buffer' = <<>> /\ UNCHANGED tripVars

TransferInit == TripInit /\ payload = NoPayload /\ buffer = <<>>

TransferNext ==
    \/ \E p \in Payload : SendPayload(p)
    \/ \E o \in Operation[cable] : payload = NoPayload /\ Operate(o) /\ UNCHANGED <<payload, buffer>>
    \/ Receives
    \/ (Listen \/ Arrives \/ Clock) /\ UNCHANGED <<payload, buffer>>
    \/ (CallFallthrough \/ CallCatchall \/ Return) /\ UNCHANGED <<trip, payload, buffer>>
    \/ Done

TransferSpec == TransferInit /\ [][TransferNext]_transferVars

(* What was encoded and sent is what the listener decodes, for every       *)
(* length by 7, by 8 and by 3, and with clock bytes in between             *)
(* (sysex_encode, midi_send_array, midi_input_callbacks, sysex_decode).    *)
PayloadIntact == Arrived => sysex_decode(SubSeq(buffer, 2, Len(buffer) - 1)) = payload
=============================================================================
