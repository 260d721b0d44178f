--------------------------- MODULE MidiRoundTrip ---------------------------
(***************************************************************************)
(* One program calls the send functions of midi.c, another one listens     *)
(* with MidiParser at the other end: of a serial line, of a USB cable with *)
(* usb_get_midi there, or of a USB cable with a host that goes by the      *)
(* event codes.                                                            *)
(*                                                                         *)
(* An operation is the name of the callback it is for, or of the function  *)
(* when it is for none in particular, and its arguments.                   *)
(***************************************************************************)
EXTENDS MidiParser, MidiSend, UsbMidi

Seqs == INSTANCE SequencesExt

CONSTANTS
    Cable,       \* the cables there may be: "serial", "usb" and "host"
    Operation,   \* for each cable, the operations of the sending program
    Leftover,    \* what may stand in the uninitialised input_buffer
    MaxUnderWay  \* a bound: calls due at the other end

ASSUME CableAssumption        == Cable \subseteq {"serial", "usb", "host"} /\ DOMAIN Operation = Cable
ASSUME TripUnderWayAssumption == MaxUnderWay \in Nat
ASSUME TripByteAssumption     == Bytes = Uint8 /\ Specific \subseteq Callback

VARIABLES
    cable,     \* the cable in use
    underway,  \* the bytes on their way to the listener's midi_process_byte
    due        \* the calls of its callbacks that are due, in order

trip     == <<cable, underway, due>>
tripVars == <<vars, trip>>

(* The call of send_func a simple operation makes. *)
SimpleCall(o) ==
    LET name == o[1]  a == o[2] IN
    CASE name = "cc"              -> midi_send_cc(a[1], a[2], a[3])
      [] name = "noteon"          -> midi_send_noteon(a[1], a[2], a[3])
      [] name = "noteoff"         -> midi_send_noteoff(a[1], a[2], a[3])
      [] name = "aftertouch"      -> midi_send_aftertouch(a[1], a[2], a[3])
      [] name = "pitchbend"       -> midi_send_pitchbend(a[1], a[2])
      [] name = "progchange"      -> midi_send_programchange(a[1], a[2])
      [] name = "chanpressure"    -> midi_send_channelpressure(a[1], a[2])
      [] name = "tc_quarterframe" -> midi_send_tcquarterframe(a[1])
      [] name = "songposition"    -> midi_send_songposition(a[1])
      [] name = "songselect"      -> midi_send_songselect(a[1])
      [] name = "tunerequest"     -> midi_send_tunerequest
      [] name = "realtime"        -> midi_send_byte(a[1])
      [] name = "data"            -> midi_send_data(a[1], a[2], a[3], a[4])

(* The bytes of a call at the other end of each cable: those that          *)
(* serial_midi_send_usartn enqueues; what usb_get_midi makes of the packet *)
(* of usb_send_func; what a host takes out of it.                          *)
SerialBytes(call) ==
    SubSeq(call.bytes, 1, CASE call.cnt = 3 -> 3
                            [] call.cnt > 1 /\ call.cnt # 3 -> 2
                            [] call.cnt <= 1 -> 1)

UsbBytes(call) ==
    LET packets == usb_send_func(call)
        heard(p) == IF cable = "usb" THEN usb_get_midi(p) ELSE HostBytes(p)
    IN  Seqs!FlattenSeq([k \in DOMAIN packets |-> heard(packets[k])])

CableBytes(call) == IF cable = "serial" THEN SerialBytes(call) ELSE UsbBytes(call)

(* "messages": the operations as one array for midi_send_array. *)
SendCalls(o) ==
    CASE o[1] = "array"    -> midi_send_array(o[2])
      [] o[1] = "bytes"    -> [k \in DOMAIN o[2] |-> midi_send_byte(o[2][k])]
      [] o[1] = "messages" ->
            midi_send_array(Seqs!FlattenSeq([k \in DOMAIN o[2] |-> SerialBytes(SimpleCall(o[2][k]))]))
      [] OTHER             -> <<SimpleCall(o)>>

Arriving(o) == Seqs!FlattenSeq([k \in DOMAIN SendCalls(o) |-> CableBytes(SendCalls(o)[k])])

(* What a call of a callback tells the listener. *)
Meaning(f, args) ==
    CASE f = "pitchbend"    -> <<f, <<args[1], args[2] + 128 * args[3] - 8192>>>>
      [] f = "songposition" -> <<f, <<args[2] + 128 * args[3]>>>>
      [] f \in {"songselect", "tc_quarterframe"} -> <<f, <<args[2]>>>>
      [] OTHER              -> <<f, args>>

(* What it should be told. *)
Clipped(n, low, high) == IF n < low THEN low ELSE IF n > high THEN high ELSE n

SysexPieces(bytes) ==
    [k \in 1 .. (Len(bytes) + 2) \div 3 |->
        <<"sysex", <<3 * (k - 1),
                     SubSeq(bytes, 3 * k - 2, IF Len(bytes) < 3 * k THEN Len(bytes) ELSE 3 * k)>>>>]

Promised(o) ==
    CASE o[1] = "pitchbend"          -> << <<o[1], <<o[2][1], Clipped(o[2][2], -8192, 8191)>>>> >>
      [] o[1] = "tunerequest"        -> << <<o[1], <<MIDI_TUNEREQUEST>>>> >>
      [] o[1] \in {"array", "bytes"} -> SysexPieces(o[2])
      [] o[1] = "messages"           -> o[2]
      [] o[1] = "data"               -> << <<"noteon", <<LowNibble(o[2][2]), o[2][3], o[2][4]>>>> >>
      [] OTHER                       -> <<o>>

(* What each cable carries: the arguments in their ranges, system          *)
(* exclusive messages that fit the count, and what is not lost to the      *)
(* event codes of USB.  Where others send clock bytes, too, they cannot be *)
(* told from the program's own.                                            *)
Channel == 0 .. 15
Data7   == 0 .. 127
Uint14  == 0 .. 16383
Int16   == -32768 .. 32767

IsSysex(bytes) ==
    /\ bytes \in Seq(Uint8) /\ Len(bytes) \in 2 .. CountRange - 1
    /\ bytes[1] = SYSEX_BEGIN /\ bytes[Len(bytes)] = SYSEX_END
    /\ \A k \in 2 .. Len(bytes) - 1 : bytes[k] \in Data7

Carries(c, o) ==
    \/ o \in {"cc", "noteon", "noteoff", "aftertouch"} \X (Channel \X Data7 \X Data7)
    \/ o \in {"progchange", "chanpressure"} \X (Channel \X Data7)
    \/ o \in {"pitchbend"} \X (Channel \X Int16)
    \/ o \in {"data"} \X ({3} \X (MIDI_NOTEON .. MIDI_NOTEON + 15) \X Data7 \X Data7)
    \/ o = <<"tunerequest", <<>>>>
    \/ \E b \in ListedRealtime : o = <<"realtime", <<b>>>> /\ (c = "serial" => b # MIDI_CLOCK)
    \/ o = <<"array", o[2]>> /\ IsSysex(o[2])
    \/ c = "serial" /\ o = <<"bytes", o[2]>> /\ IsSysex(o[2])
    \/ c # "host" /\ \E n \in Data7 : o \in {<<"tc_quarterframe", <<n>>>>, <<"songselect", <<n>>>>}
    \/ c # "host" /\ \E n \in Uint14 : o = <<"songposition", <<n>>>>

-----------------------------------------------------------------------------
(* The listener registers a callback for every kind of message, once. *)
Listen == pc = "idle" /\ registered' = Specific /\ UNCHANGED <<parse, pc, branch, state, msg, called, calls, trip>>

Operate(o) ==
    /\ registered = Specific
    /\ Len(due) < MaxUnderWay
    /\ underway' = underway \o Arriving(o)
    /\ due' = due \o Promised(o)
    /\ UNCHANGED <<vars, cable>>

Arrives ==
    /\ underway # <<>>
    /\ ProcessByte(Head(underway))
    /\ underway' = Tail(underway)
    /\ UNCHANGED <<cable, due>>

(* A serial line may carry clock bytes of another sender in between. *)
Clock ==
    /\ cable = "serial"
    /\ ProcessByte(MIDI_CLOCK)
    /\ UNCHANGED trip

Called ==
    /\ UNCHANGED registered /\ CallSpecific
    /\ due' = IF calls' # <<>> /\ due # <<>> /\ Meaning(calls'[1][1], calls'[1][2]) = due[1]
              THEN Tail(due) ELSE due
    /\ UNCHANGED <<cable, underway>>

TripInit ==
    /\ input_buffer \in [0 .. 2 -> Leftover]
    /\ Init
    /\ cable \in Cable
    /\ underway = <<>> /\ due = <<>>

TripNext ==
    \/ Listen
    \/ \E o \in Operation[cable] : Operate(o)
    \/ Arrives \/ Clock \/ Called
    \/ (CallFallthrough \/ CallCatchall \/ Return) /\ UNCHANGED trip

TripSpec == TripInit /\ [][TripNext]_tripVars

-----------------------------------------------------------------------------
(* Properties *)

(* A callback that is called is the next one due, and its arguments tell   *)
(* what the send function was given: channel, numbers, the bend with its   *)
(* sign, the place and the bytes of a piece of a system exclusive message. *)
(* Only clock bytes come in between (midi.c, midi_process_byte, midi_usb.c). *)
HeardAsSent ==
    [][calls' \notin {calls, <<>>} =>
          LET heard == Meaning(calls'[1][1], calls'[1][2]) IN
          heard = <<"realtime", <<MIDI_CLOCK>>>> \/ (due # <<>> /\ heard = due[1])]_tripVars

(* When all bytes have been processed, no call is still due. *)
AllCalled == underway = <<>> /\ pc = "idle" => due = <<>>
=============================================================================
