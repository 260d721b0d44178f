------------------------------ MODULE MidiSend ------------------------------
(***************************************************************************)
(* The send functions of midi.c: which calls of the device's send_func     *)
(* each of them makes, a sequence of calls for midi_send_array and one     *)
(* call for the others.                                                    *)
(***************************************************************************)
EXTENDS MidiBytes, Sequences

SendCall(cnt, byte0, byte1, byte2) == [cnt |-> cnt, bytes |-> <<byte0, byte1, byte2>>]

Low7(n) == n % 128  \* n & 0x7F

(* A fault the round trip must notice: no clipping. *)
BendUnclipped(amt) == (amt + 8192) % 65536

-----------------------------------------------------------------------------
(* A message on a channel: status | (chan & MIDI_CHANMASK). *)
OnChannel(status, chan) == status + LowNibble(chan)

midi_send_cc(chan, num, val)      == SendCall(3, OnChannel(MIDI_CC, chan), Low7(num), Low7(val))
midi_send_noteon(chan, num, vel)  == SendCall(3, OnChannel(MIDI_NOTEON, chan), Low7(num), Low7(vel))
midi_send_noteoff(chan, num, vel) == SendCall(3, OnChannel(MIDI_NOTEOFF, chan), Low7(num), Low7(vel))
midi_send_aftertouch(chan, note_num, amt) ==
    SendCall(3, OnChannel(MIDI_AFTERTOUCH, chan), Low7(note_num), Low7(amt))
midi_send_programchange(chan, num)   == SendCall(2, OnChannel(MIDI_PROGCHANGE, chan), Low7(num), 0)
midi_send_channelpressure(chan, amt) == SendCall(2, OnChannel(MIDI_CHANPRESSURE, chan), Low7(amt), 0)

(* An int16_t clipped to -0x2000 .. 0x1FFF, then made unsigned: uAmt. *)
Bend(amt) ==
    CASE amt > 8191  -> 16383
      [] amt < -8192 -> 0
      [] OTHER       -> amt + 8192

midi_send_pitchbend(chan, amt) ==
    SendCall(3, OnChannel(MIDI_PITCHBEND, chan), Low7(Bend(amt)), Low7(Bend(amt) \div 128))

midi_send_tcquarterframe(time) == SendCall(2, MIDI_TC_QUARTERFRAME, Low7(time), 0)
midi_send_songposition(pos)    == SendCall(3, MIDI_SONGPOSITION, Low7(pos), Low7(pos \div 128))
midi_send_songselect(song)     == SendCall(2, MIDI_SONGSELECT, Low7(song), 0)
midi_send_tunerequest          == SendCall(1, MIDI_TUNEREQUEST, 0, 0)

(* midi_send_byte; midi_send_clock, _tick, _start, _continue, _stop,       *)
(* _activesense and _reset are this function with one byte each.           *)
midi_send_byte(b) == SendCall(1, b, 0, 0)

midi_send_data(count, byte0, byte1, byte2) == SendCall(count, byte0, byte1, byte2)

(* The number of bytes sent in round k of the loop, and those bytes. *)
ToSend(array, k) ==
    LET left == Len(array) - 3 * (k - 1) IN IF left > 3 THEN 3 ELSE left

Chunk(array, k) ==
    [j \in 1 .. 3 |-> IF j <= ToSend(array, k) THEN array[3 * (k - 1) + j] ELSE 0]

midi_send_array(array) ==
    [k \in 1 .. (Len(array) + 2) \div 3 |->
        LET b == Chunk(array, k) IN midi_send_data(ToSend(array, k), b[1], b[2], b[3])]
=============================================================================
