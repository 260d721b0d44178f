----------------------------- MODULE MidiStream -----------------------------
(***************************************************************************)
(* What the input side promises the program that registers callbacks       *)
(* (midi.h, midi_function_types.h): bytes of a MIDI stream go in one at a  *)
(* time and each complete message comes out once, whole, when its last     *)
(* byte is in.  Realtime bytes are messages of their own and disturb no    *)
(* other; a status byte stays in force for the data bytes that follow      *)
(* (running status); a system exclusive message comes out in chunks of     *)
(* three bytes, the last one shorter, each with its distance from the      *)
(* start of the message.                                                   *)
(***************************************************************************)
EXTENDS MidiBytes, Sequences

CONSTANT Bytes  \* the bytes the wire may carry

VARIABLES
    status,     \* the status byte in force, NoStatus if there is none
    data,       \* the bytes of the message or chunk that is being received
    offset,     \* how many bytes of this system exclusive message came out
    delivered   \* the message that came out and is being handled, or Nothing

stream == <<status, data, offset, delivered>>

NoStatus == 256
Nothing  == <<>>

(* A message: its place in a system exclusive message (0 for any other     *)
(* message) and its bytes.                                                 *)
Message(o, bytes) == <<o, bytes>>

Init == status = NoStatus /\ data = <<>> /\ offset = 0 /\ delivered = Nothing

Deliver(o, bytes) == delivered' = Message(o, bytes)

Realtime(b) ==
    /\ midi_is_realtime(b)
    /\ Deliver(0, <<b>>)
    /\ UNCHANGED <<status, data, offset>>

InForce(s) == status' = s /\ data' = <<>> /\ offset' = 0

(* A status byte: the message that was being received, if any, is given    *)
(* up.                                                                     *)
Status(b) ==
    /\ midi_is_statusbyte(b) /\ ~midi_is_realtime(b)
    /\ \/ /\ midi_packet_length(b) = ONE
          /\ InForce(NoStatus)
          /\ Deliver(0, <<b>>)
       \/ /\ midi_packet_length(b) \in {TWO, THREE}
          /\ InForce(b)
          /\ UNCHANGED delivered
       \/ /\ midi_packet_length(b) = UNDEFINED
          /\ b # SYSEX_BEGIN
          /\ ~(b = SYSEX_END /\ status = SYSEX_BEGIN)
          /\ InForce(NoStatus)
          /\ UNCHANGED delivered

SysexStart(b) ==
    /\ b = SYSEX_BEGIN
    /\ status' = b /\ data' = <<b>> /\ offset' = 0
    /\ UNCHANGED delivered

SysexStop(b) ==
    /\ b = SYSEX_END /\ status = SYSEX_BEGIN
    /\ InForce(NoStatus)
    /\ Deliver(offset, Append(data, b))

SysexData(b) ==
    /\ ~midi_is_statusbyte(b) /\ status = SYSEX_BEGIN
    /\ \/ /\ Len(data) = 2
          /\ Deliver(offset, Append(data, b))
          /\ data' = <<>>
          /\ offset' = offset + 3
       \/ /\ Len(data) < 2
          /\ data' = Append(data, b)
          /\ UNCHANGED <<offset, delivered>>
    /\ UNCHANGED status

Data(b) ==
    /\ ~midi_is_statusbyte(b) /\ status \notin {NoStatus, SYSEX_BEGIN}
    /\ \/ /\ Len(data) + 2 = midi_packet_length(status)
          /\ Deliver(0, <<status>> \o Append(data, b))
          /\ data' = <<>>
       \/ /\ Len(data) + 2 < midi_packet_length(status)
          /\ data' = Append(data, b)
          /\ UNCHANGED delivered
    /\ UNCHANGED <<status, offset>>

(* A data byte that belongs to no message. *)
Ignored(b) == ~midi_is_statusbyte(b) /\ status = NoStatus /\ UNCHANGED stream

Receive(b) ==
    /\ delivered = Nothing
    /\ Realtime(b) \/ Status(b) \/ SysexStart(b) \/ SysexStop(b)
         \/ SysexData(b) \/ Data(b) \/ Ignored(b)

(* The callbacks for the message have returned. *)
Settle == delivered # Nothing /\ delivered' = Nothing
            /\ UNCHANGED <<status, data, offset>>

Next == (\E b \in Bytes : Receive(b)) \/ Settle

Spec == Init /\ [][Next]_stream
=============================================================================
