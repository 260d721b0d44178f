----------------------------- MODULE MidiBytes -----------------------------
(***************************************************************************)
(* The MIDI bytes of midi.h and the functions of midi.c that classify      *)
(* them.  A byte is a number in 0 .. 255.                                  *)
(***************************************************************************)
EXTENDS Integers

Uint8 == 0 .. 255

SYSEX_BEGIN == 240
SYSEX_END   == 247

MIDI_NOTEOFF      == 128
MIDI_NOTEON       == 144
MIDI_AFTERTOUCH   == 160
MIDI_CC           == 176
MIDI_PROGCHANGE   == 192
MIDI_CHANPRESSURE == 208
MIDI_PITCHBEND    == 224

MIDI_TC_QUARTERFRAME == 241
MIDI_SONGPOSITION    == 242
MIDI_SONGSELECT      == 243
MIDI_TUNEREQUEST     == 246
MIDI_CLOCK           == 248

HighNibble(b) == (b \div 16) * 16  \* b & 0xF0
LowNibble(b)  == b % 16            \* b & 0x0F

midi_is_statusbyte(b) == b >= 128  \* b & MIDI_STATUSMASK is not zero
midi_is_realtime(b)   == b >= MIDI_CLOCK

(* midi_packet_length_t *)
UNDEFINED == 0
ONE       == 1
TWO       == 2
THREE     == 3

(* The realtime bytes the switch of midi_packet_length lists: all those    *)
(* from MIDI_CLOCK on except the unassigned 0xFD.                          *)
ListedRealtime == 248 .. 255 \ {253}

midi_packet_length(b) ==
    CASE HighNibble(b) \in {MIDI_CC, MIDI_NOTEON, MIDI_NOTEOFF,
                            MIDI_AFTERTOUCH, MIDI_PITCHBEND} -> THREE
      [] HighNibble(b) \in {MIDI_PROGCHANGE, MIDI_CHANPRESSURE} -> TWO
      [] b \in ListedRealtime \cup {MIDI_TUNEREQUEST} -> ONE
      [] b = MIDI_SONGPOSITION -> THREE
      [] b \in {MIDI_TC_QUARTERFRAME, MIDI_SONGSELECT} -> TWO
      [] OTHER -> UNDEFINED
=============================================================================
