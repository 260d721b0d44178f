-------------------------- MODULE MCMidiReception --------------------------
(* Bytes and callbacks for MidiReception. *)
EXTENDS MidiReception

(* A three byte and a two byte channel message, a one byte and an          *)
(* undefined system message, a realtime byte, the two ends of a system     *)
(* exclusive message, and two data bytes.                                  *)
SomeBytes == {1, 2, MIDI_NOTEON + 2, MIDI_PROGCHANGE + 1, MIDI_TUNEREQUEST,
              MIDI_CLOCK, SYSEX_BEGIN, SYSEX_END, 244}

SomeCallbacks == {"noteon", "progchange", "sysex"}

(* For the questions that concern one kind of message. *)
NoteBytes  == {1, MIDI_NOTEON + 2, SYSEX_BEGIN}
OneCallback == {"noteon"}
=============================================================================
