-------------------------- MODULE MCMidiRoundTrip --------------------------
(* Operations for MidiRoundTrip, with values at the limits of their ranges. *)
EXTENDS MidiRoundTrip

ChannelVoice ==
    {<<"cc", <<15, 0, 127>>>>, <<"noteon", <<0, 64, 1>>>>, <<"noteon", <<2, 127, 0>>>>,
     <<"noteoff", <<15, 1, 2>>>>, <<"aftertouch", <<3, 2, 1>>>>,
     <<"progchange", <<0, 127>>>>, <<"progchange", <<9, 0>>>>, <<"chanpressure", <<15, 3>>>>}

Bends == {<<"pitchbend", <<c, amt>>>> : c \in {1}, amt \in {-32768, -8193, -8192, -1, 128, 8191, 8192}}

Common ==
    {<<"tc_quarterframe", <<127>>>>, <<"songselect", <<5>>>>, <<"tunerequest", <<>>>>}
        \cup {<<"songposition", <<p>>>> : p \in {0, 128, 16383}}

Realtime == {<<"realtime", <<b>>>> : b \in {250, 255}}

(* System exclusive messages of all lengths by 3. *)
SysexBytes(n) == <<SYSEX_BEGIN>> \o [k \in 1 .. n |-> k] \o <<SYSEX_END>>

Sysex == {<<"array", SysexBytes(n)>> : n \in 0 .. 4}
SysexByByte == {<<"bytes", SysexBytes(n)>> : n \in 1 .. 3}

(* Two messages in one array, the second one across two rounds. *)
TwoMessages == {<<"messages", <<<<"progchange", <<1, 5>>>>, <<"noteon", <<2, 1, 2>>>>>>>>}

(* midi_send_data with a whole message. *)
Direct == {<<"data", <<3, 146, 1, 2>>>>}

HostOperations   == ChannelVoice \cup Bends \cup Direct \cup Realtime \cup Sysex
UsbOperations    == HostOperations \cup Common
SerialOperations == UsbOperations \cup SysexByByte \cup TwoMessages

Operations ==
    [c \in {"serial", "usb", "host"} |->
        CASE c = "serial" -> SerialOperations
          [] c = "usb"    -> UsbOperations
          [] c = "host"   -> HostOperations]

(* What the theorems about MidiRoundTrip ask of the operations holds of    *)
(* these, but for the two messages in one array.                           *)
ASSUME CarriedAssumption ==
    \A c \in DOMAIN Operations : \A o \in Operations[c] \ TwoMessages : Carries(c, o)

CommonToHost == [c \in {"host"} |-> Common]
ByteByByteOverUsb == [c \in {"usb"} |-> SysexByByte]
=============================================================================
