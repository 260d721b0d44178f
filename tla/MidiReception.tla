--------------------------- MODULE MidiReception ---------------------------
(***************************************************************************)
(* MidiParser listening to any sequence of bytes whatever, with MidiStream *)
(* beside it telling which messages those bytes carry.  Both take each     *)
(* byte in the same step.                                                  *)
(***************************************************************************)
EXTENDS MidiParser

CONSTANT MaxSysex  \* a bound: no longer system exclusive message is sent

ASSUME MaxSysexAssumption == MaxSysex \in Nat

VARIABLES
    status, data, offset, delivered,  \* what the wire carries
    length,  \* of the system exclusive message it carries or has carried last
    recent   \* the last bytes of that message, three at most

Wire == INSTANCE MidiStream

wire    == <<status, data, offset, delivered>>
sysex   == <<length, recent>>
allVars == <<vars, wire, sysex>>

LastThree(bytes) == SubSeq(bytes, IF Len(bytes) > 3 THEN Len(bytes) - 2 ELSE 1, Len(bytes))

SysexGrows(b) ==
    IF b = SYSEX_BEGIN THEN length' = 1 /\ recent' = <<b>>
    ELSE IF status = SYSEX_BEGIN /\ (b = SYSEX_END \/ ~midi_is_statusbyte(b))
    THEN length' = length + 1 /\ recent' = LastThree(Append(recent, b))
    ELSE UNCHANGED sysex

Hear(b) ==
    /\ status = SYSEX_BEGIN => length < MaxSysex
    /\ ProcessByte(b)
    /\ Wire!Receive(b)
    /\ SysexGrows(b)

(* The callbacks are through with a message; the wire is, too.             *)
HandlerReturns ==
    /\ Return
    /\ Wire!Settle \/ (delivered = Wire!Nothing /\ UNCHANGED wire)
    /\ UNCHANGED sysex

(* A message went by without a call of midi_input_callbacks. *)
GoesBy == pc = "idle" /\ Wire!Settle /\ UNCHANGED <<vars, sysex>>

ReceptionInit == Init /\ Wire!Init /\ length = 0 /\ recent = <<>>

ReceptionNext ==
    \/ \E b \in Bytes : Hear(b)
    \/ (CallSpecific \/ CallFallthrough \/ CallCatchall \/ Program) /\ UNCHANGED <<wire, sysex>>
    \/ HandlerReturns
    \/ GoesBy

ReceptionSpec == ReceptionInit /\ [][ReceptionNext]_allVars

-----------------------------------------------------------------------------
(* Properties *)

(* The callback a message is for, by the MIDI name of its status byte. *)
Addressee(b) ==
    CASE b \in 128 .. 143 -> "noteoff"
      [] b \in 144 .. 159 -> "noteon"
      [] b \in 160 .. 175 -> "aftertouch"
      [] b \in 176 .. 191 -> "cc"
      [] b \in 192 .. 207 -> "progchange"
      [] b \in 208 .. 223 -> "chanpressure"
      [] b \in 224 .. 239 -> "pitchbend"
      [] b = 241          -> "tc_quarterframe"
      [] b = 242          -> "songposition"
      [] b = 243          -> "songselect"
      [] b = 246          -> "tunerequest"
      [] b >= 248         -> "realtime"

(* The call a delivered message asks for. *)
DueCall ==
    LET bytes == delivered[2] IN
    IF \/ status = SYSEX_BEGIN /\ ~midi_is_realtime(bytes[1])
       \/ bytes[Len(bytes)] = SYSEX_END
    THEN <<"sysex", delivered>>
    ELSE <<Addressee(bytes[1]),
           [i \in 1 .. Len(bytes) |-> IF i = 1 /\ bytes[1] < 240 THEN bytes[1] % 16 ELSE bytes[i]]>>

(* Whatever bytes arrive, also after a system exclusive message that was   *)
(* cut short or a stray SYSEX_END, a callback for a kind of message is     *)
(* called only for a message of that kind that has just been completed on  *)
(* the wire, and with that message's bytes: a garbled buffer reaches the   *)
(* generic callbacks at most (midi_process_byte, midi_input_callbacks).    *)
(* The pieces of a system exclusive message are those of the wire up to    *)
(* the range of input_count; SysexPlace is about the ones after it.        *)
NoFalseCall ==
    \A i \in 1 .. Len(calls) : calls[i][1] \in Specific =>
        \/ delivered # Wire!Nothing /\ calls[i] = DueCall
        \/ calls[i][1] = "sysex" /\ length >= CountRange

(* However long a system exclusive message is, the callback gets the bytes *)
(* that came last, and start_byte tells their place in the message, modulo *)
(* the range of input_count, although that range is no multiple of 3       *)
(* (midi_process_byte, midi_input_callbacks).                              *)
SysexPlace ==
    \A i \in 1 .. Len(calls) : calls[i][1] = "sysex" =>
        LET start == calls[i][2][1]  bytes == calls[i][2][2] IN
        /\ Len(bytes) \in 1 .. Len(recent)
        /\ bytes = SubSeq(recent, Len(recent) - Len(bytes) + 1, Len(recent))
        /\ start = (length - Len(bytes)) % CountRange

InSync ==
    StatusInForce = status /\ DataHeard = data /\ OffsetHeard = offset

(* The parser loses track of the wire in two ways only: by a status byte   *)
(* of a two or three byte message inside a system exclusive message        *)
(* (midi_process_byte does not store such a byte), and when input_count    *)
(* wraps inside one.                                                       *)
SyncLostOnlyInSysex ==
    [][InSync /\ ~InSync' =>
         /\ input_state = "SYSEX"
         /\ input_state' \in {"TWO", "THREE"} \/ input_count' < input_count]_allVars

(* And it catches up with the next status byte of a message, whatever is   *)
(* in the buffer and the count by then.                                    *)
StatusResynchronises ==
    [][\A b \in Bytes :
         Hear(b) /\ Status(b) /\ (input_state # "SYSEX" \/ b = SYSEX_BEGIN) => InSync']_allVars

(* "The functions are called when the appropriate midi message is matched  *)
(* on the associated device's input" (midi.h): no complete message goes by *)
(* without a call of midi_input_callbacks.                                 *)
NoMessageLost == delivered # Wire!Nothing => pc # "idle"
=============================================================================
