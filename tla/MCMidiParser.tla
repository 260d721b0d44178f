---------------------------- MODULE MCMidiParser ----------------------------
(* Bytes and callbacks for MidiParser: a three byte and a two byte channel *)
(* message, a one byte, a three byte and an undefined system message, a    *)
(* realtime byte, the two ends of a system exclusive message, and two data *)
(* bytes.                                                                  *)
EXTENDS MidiParser

SomeBytes == {1, 2, MIDI_NOTEON + 2, MIDI_PROGCHANGE + 1, MIDI_TUNEREQUEST,
              MIDI_CLOCK, SYSEX_BEGIN, SYSEX_END, 244}

SomeCallbacks == {"noteon", "sysex", "fallthrough"}
=============================================================================
