---------------------------- MODULE MCMidiDevice ----------------------------
(* Bytes for MidiDevice: a three byte and a two byte message, a realtime   *)
(* byte and a data byte.                                                   *)
EXTENDS MidiDevice

SomeBytes == {1, MIDI_NOTEON + 2, MIDI_PROGCHANGE + 1, MIDI_CLOCK}

SomeCallbacks == {"noteon"}
=============================================================================
