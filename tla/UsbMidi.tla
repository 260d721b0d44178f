------------------------------ MODULE UsbMidi ------------------------------
(***************************************************************************)
(* implementations/lufa_midi/midi_usb.c: MIDI in the four byte event       *)
(* packets of USB, an event code and three bytes.  usb_send_func makes a   *)
(* packet of the arguments of send_func; usb_get_midi, the pre-input       *)
(* callback, gives the bytes of a packet to midi_device_input.             *)
(***************************************************************************)
EXTENDS MidiBytes, Sequences

SYSEX_START_OR_CONT == 64
SYSEX_ENDS_IN_1     == 80
SYSEX_ENDS_IN_2     == 96
SYSEX_ENDS_IN_3     == 112
SYS_COMMON_2        == 32
SYS_COMMON_3        == 48

(* LUFA: cable number and the upper half of the command. *)
MIDI_EVENT(cable, command) == cable * 16 + command \div 16

Packet(event, bytes) == [event |-> event, bytes |-> bytes]

(* A fault the round trip must notice: the end in a packet of two bytes    *)
(* marked as one of one.                                                   *)
SysexEventTooShort(cnt, bytes) ==
    CASE bytes[cnt] = SYSEX_END /\ cnt = 3 -> SYSEX_ENDS_IN_3
      [] bytes[cnt] = SYSEX_END /\ cnt < 3 -> SYSEX_ENDS_IN_1
      [] OTHER -> SYSEX_START_OR_CONT

-----------------------------------------------------------------------------
(* usb_send_func *)

SysexEvent(cnt, bytes) ==
    IF bytes[cnt] = SYSEX_END
    THEN CASE cnt = 3 -> SYSEX_ENDS_IN_3 [] cnt = 2 -> SYSEX_ENDS_IN_2 [] cnt = 1 -> SYSEX_ENDS_IN_1
    ELSE SYSEX_START_OR_CONT

(* The labels are system common bytes, the value switched on is the upper  *)
(* half of one.                                                            *)
CommonEvent(byte0) ==
    CASE HighNibble(byte0) = MIDI_SONGPOSITION -> SYS_COMMON_3
      [] HighNibble(byte0) \in {MIDI_SONGSELECT, MIDI_TC_QUARTERFRAME} -> SYS_COMMON_2
      [] OTHER -> byte0

(* The packets sent: none when the count makes no sense. *)
usb_send_func(call) ==
    IF midi_packet_length(call.bytes[1]) = UNDEFINED
    THEN IF call.cnt \in 1 .. 3
         THEN <<Packet(MIDI_EVENT(0, SysexEvent(call.cnt, call.bytes)), call.bytes)>>
         ELSE <<>>
    ELSE <<Packet(MIDI_EVENT(0, CommonEvent(call.bytes[1])), call.bytes)>>

-----------------------------------------------------------------------------
(* usb_get_midi *)

InputLength(packet) ==
    LET length == midi_packet_length(packet.bytes[1]) IN
    IF length # UNDEFINED THEN length
    ELSE CASE packet.event \in {MIDI_EVENT(0, SYSEX_START_OR_CONT), MIDI_EVENT(0, SYSEX_ENDS_IN_3)} -> 3
           [] packet.event = MIDI_EVENT(0, SYSEX_ENDS_IN_2) -> 2
           [] packet.event = MIDI_EVENT(0, SYSEX_ENDS_IN_1) -> 1
           [] OTHER -> UNDEFINED

usb_get_midi(packet) == SubSeq(packet.bytes, 1, InputLength(packet))

(* A host goes by the event code alone; it is 1 to 3 bytes for each by the *)
(* USB specification of MIDI devices.                                      *)
CodeLength(code) ==
    CASE code \in {5, 15}         -> 1
      [] code \in {2, 6, 12, 13}  -> 2
      [] code \in {3, 4, 7, 8, 9, 10, 11, 14} -> 3

HostBytes(packet) == SubSeq(packet.bytes, 1, CodeLength(packet.event))
=============================================================================
