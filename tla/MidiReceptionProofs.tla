------------------------ MODULE MidiReceptionProofs ------------------------
(***************************************************************************)
(* Proofs about MidiReception, for any bytes in any order and any          *)
(* callbacks: by what the parser can lose track of the wire, that the next *)
(* status byte puts an end to it, that the chunks of system exclusive      *)
(* messages of any length are told with their places, and that no callback *)
(* is called for a message that was not on the wire.                       *)
(***************************************************************************)
EXTENDS MidiReception, MidiParserProofs

(* A status byte that data bytes can follow. *)
Long(b) == midi_is_statusbyte(b) /\ midi_packet_length(b) \in {TWO, THREE}

(* The parser takes the same status byte for the last one as the wire, as  *)
(* far as its kind goes, whatever is in the buffer.                        *)
KindInv ==
    /\ StateAfter = "IDLE" <=> status = Wire!NoStatus
    /\ StateAfter = "SYSEX" <=> status = SYSEX_BEGIN
    /\ StateAfter = "TWO" => Long(status) /\ midi_packet_length(status) = TWO
    /\ StateAfter = "THREE" => Long(status) /\ midi_packet_length(status) = THREE

(* If a status byte that data bytes can follow is in slot 0, then kind and *)
(* count fit it; what a system exclusive message leaves there is no such   *)
(* byte, so a message of two or three bytes that follows one directly is   *)
(* not taken for another.                                                  *)
SlotInv ==
    /\ StateAfter = "SYSEX" => ~Long(input_buffer[0])
    /\ Long(input_buffer[0]) => KeptInv

RInv == IInv /\ KindInv /\ SlotInv

-----------------------------------------------------------------------------
(* Bytes. *)

(* The wire classifies bytes as MidiParser does. *)
LEMMA WireBytes ==
    /\ Wire!SYSEX_BEGIN = SYSEX_BEGIN /\ Wire!SYSEX_END = SYSEX_END
    /\ Wire!UNDEFINED = UNDEFINED /\ Wire!ONE = ONE /\ Wire!TWO = TWO /\ Wire!THREE = THREE
    /\ Wire!NoStatus = Stream!NoStatus /\ Wire!Nothing = Stream!Nothing
    /\ \A b \in Bytes :
           /\ Wire!midi_is_realtime(b) <=> midi_is_realtime(b)
           /\ Wire!midi_is_statusbyte(b) <=> midi_is_statusbyte(b)
    /\ \A b : Wire!midi_packet_length(b) = midi_packet_length(b)
<1>1. ASSUME NEW b PROVE Wire!midi_packet_length(b) = midi_packet_length(b)
  BY DEF midi_packet_length, HighNibble, MIDI_CC, MIDI_NOTEON, MIDI_NOTEOFF,
         MIDI_AFTERTOUCH, MIDI_PITCHBEND, MIDI_PROGCHANGE, MIDI_CHANPRESSURE, MIDI_CLOCK,
         MIDI_TUNEREQUEST, MIDI_SONGPOSITION, MIDI_TC_QUARTERFRAME, MIDI_SONGSELECT,
         ListedRealtime, UNDEFINED, ONE, TWO, THREE,
         Wire!midi_packet_length, Wire!HighNibble, Wire!MIDI_CC, Wire!MIDI_NOTEON,
         Wire!MIDI_NOTEOFF, Wire!MIDI_AFTERTOUCH, Wire!MIDI_PITCHBEND,
         Wire!MIDI_PROGCHANGE, Wire!MIDI_CHANPRESSURE, Wire!MIDI_CLOCK,
         Wire!MIDI_TUNEREQUEST, Wire!MIDI_SONGPOSITION, Wire!MIDI_TC_QUARTERFRAME,
         Wire!MIDI_SONGSELECT, Wire!ListedRealtime, Wire!UNDEFINED, Wire!ONE,
         Wire!TWO, Wire!THREE
<1>2. ASSUME NEW b \in Bytes
      PROVE  /\ Wire!midi_is_realtime(b) <=> midi_is_realtime(b)
             /\ Wire!midi_is_statusbyte(b) <=> midi_is_statusbyte(b)
  BY DEF midi_is_realtime, midi_is_statusbyte, MIDI_CLOCK,
         Wire!midi_is_realtime, Wire!midi_is_statusbyte, Wire!MIDI_CLOCK
<1> QED
  BY <1>1, <1>2
     DEF SYSEX_BEGIN, SYSEX_END, UNDEFINED, ONE, TWO, THREE, Wire!SYSEX_BEGIN,
         Wire!SYSEX_END, Wire!UNDEFINED, Wire!ONE, Wire!TWO, Wire!THREE,
         Wire!NoStatus, Stream!NoStatus, Wire!Nothing, Stream!Nothing

(* The two ends of a system exclusive message, and bytes that are none.    *)
LEMMA SysexBytes ==
    /\ ~Long(SYSEX_BEGIN) /\ ~Long(SYSEX_END) /\ ~Long(Wire!NoStatus)
    /\ SYSEX_BEGIN # SYSEX_END /\ SYSEX_BEGIN # Wire!NoStatus
    /\ midi_packet_length(SYSEX_BEGIN) = UNDEFINED /\ midi_packet_length(SYSEX_END) = UNDEFINED
    /\ midi_is_statusbyte(SYSEX_BEGIN) /\ ~midi_is_realtime(SYSEX_BEGIN)
    /\ midi_is_statusbyte(SYSEX_END) /\ ~midi_is_realtime(SYSEX_END)
    /\ \A b \in Uint8 : midi_is_realtime(b) => midi_is_statusbyte(b)
    /\ ONE \notin {TWO, THREE} /\ UNDEFINED \notin {ONE, TWO, THREE} /\ TWO # THREE
<1>1. /\ midi_packet_length(240) = UNDEFINED /\ midi_packet_length(247) = UNDEFINED
      /\ midi_packet_length(256) = UNDEFINED
  BY DEF midi_packet_length, HighNibble, MIDI_CC, MIDI_NOTEON, MIDI_NOTEOFF, MIDI_AFTERTOUCH,
         MIDI_PITCHBEND, MIDI_PROGCHANGE, MIDI_CHANPRESSURE, MIDI_CLOCK, MIDI_TUNEREQUEST,
         MIDI_SONGPOSITION, MIDI_TC_QUARTERFRAME, MIDI_SONGSELECT, ListedRealtime,
         UNDEFINED, ONE, TWO, THREE
<1> QED
  BY <1>1 DEF Long, SYSEX_BEGIN, SYSEX_END, Wire!NoStatus, UNDEFINED, ONE, TWO, THREE, Uint8,
              midi_is_statusbyte, midi_is_realtime, MIDI_CLOCK

-----------------------------------------------------------------------------
(* What a byte does to the state of the parser and to the status byte of   *)
(* the wire.                                                               *)

LEMMA WireStatus ==
    ASSUME NEW b \in Bytes, Wire!Receive(b)
    PROVE  /\ midi_is_realtime(b) \/ ~midi_is_statusbyte(b) =>
                  status' = status
           /\ Status(b) /\ midi_packet_length(b) \in {TWO, THREE} =>
                  status' = b /\ data' = <<>> /\ offset' = 0
           /\ b = SYSEX_BEGIN => status' = b /\ data' = <<b>> /\ offset' = 0
           /\ Status(b) /\ b # SYSEX_BEGIN /\ midi_packet_length(b) \in {UNDEFINED, ONE} =>
                  status' = Wire!NoStatus /\ data' = <<>> /\ offset' = 0
           /\ midi_is_realtime(b) => UNCHANGED <<status, data, offset>>
<1>1. b \in Uint8
  BY BytesAssumption
<1> QED
  BY <1>1, WireBytes, SysexBytes
     DEF Status, Wire!Receive, Wire!Realtime, Wire!Status, Wire!SysexStart, Wire!SysexStop,
         Wire!SysexData, Wire!Data, Wire!Ignored, Wire!InForce, Wire!stream

LEMMA ParserStatus ==
    ASSUME IInv, NEW b \in Bytes, ProcessByte(b)
    PROVE  /\ midi_is_realtime(b) => UNCHANGED <<StateAfter, CountAfter, input_buffer>>
           /\ ~midi_is_statusbyte(b) => StateAfter' = StateAfter
           /\ Status(b) /\ midi_packet_length(b) \in {TWO, THREE} =>
                  /\ StateAfter' = (IF midi_packet_length(b) = TWO THEN "TWO" ELSE "THREE")
                  /\ CountAfter' = StoredCount /\ input_buffer' = StoredBuffer(b)
           /\ b = SYSEX_BEGIN =>
                  StateAfter' = "SYSEX" /\ CountAfter' = 1 /\ input_buffer'[0] = b
           /\ Status(b) /\ b # SYSEX_BEGIN /\ midi_packet_length(b) \in {UNDEFINED, ONE} =>
                  StateAfter' = "IDLE"
<1>1. /\ b \in Uint8 /\ branch = "none" /\ input_buffer \in [0 .. 2 -> Uint8]
      /\ input_state \in {"IDLE", "TWO", "THREE", "SYSEX"}
  BY BytesAssumption DEF IInv, TypeOK, InputState, ProcessByte
<1>2. StateAfter = input_state /\ CountAfter = input_count
  BY <1>1 DEF StateAfter, CountAfter
<1>3. midi_is_realtime(b) => midi_is_statusbyte(b)
  BY <1>1, SysexBytes
<1>4. CASE RealtimeByte(b)
  <2>1. branch' = "realtime" /\ state' = input_state /\ input_count' = input_count
        /\ input_buffer' = input_buffer
    BY <1>4 DEF RealtimeByte, Callbacks
  <2> QED  BY <1>2, <1>3, <1>4, <2>1, SysexBytes DEF RealtimeByte, Status, StateAfter, CountAfter
<1>5. CASE StatusOne(b)
  <2>1. branch' = "one" /\ midi_is_statusbyte(b) /\ ~midi_is_realtime(b) /\ midi_packet_length(b) = ONE
    BY <1>5 DEF StatusOne, Callbacks, Status
  <2> QED  BY <2>1, SysexBytes DEF StateAfter
<1>6. CASE StatusOfMessage(b)
  <2>1. branch' = "none" /\ input_count' = StoredCount /\ input_buffer' = StoredBuffer(b)
        /\ input_state' = (IF midi_packet_length(b) = TWO THEN "TWO" ELSE "THREE")
        /\ midi_is_statusbyte(b) /\ ~midi_is_realtime(b) /\ midi_packet_length(b) \in {TWO, THREE}
    BY <1>1, <1>6 DEF StatusOfMessage, NoCallbacks, Status
  <2> QED  BY <2>1, SysexBytes DEF StateAfter, CountAfter
<1>7. CASE SysexBegin(b)
  <2>1. branch' = "none" /\ input_state' = "SYSEX" /\ input_count' = 1 /\ input_buffer'[0] = b
        /\ b = SYSEX_BEGIN
    BY <1>1, <1>7 DEF SysexBegin, NoCallbacks
  <2> QED  BY <2>1, SysexBytes DEF StateAfter, CountAfter
<1>8. CASE SysexEnd(b)
  <2>1. branch' = "sysexend" /\ b = SYSEX_END
    BY <1>8 DEF SysexEnd, Callbacks
  <2> QED  BY <2>1, SysexBytes DEF StateAfter
<1>9. CASE StatusUndefined(b)
  <2>1. branch' = "none" /\ input_state' = "IDLE" /\ midi_is_statusbyte(b) /\ ~midi_is_realtime(b)
        /\ midi_packet_length(b) = UNDEFINED /\ b # SYSEX_BEGIN
    BY <1>1, <1>9 DEF StatusUndefined, NoCallbacks, Status
  <2> QED  BY <2>1, SysexBytes DEF StateAfter
<1>10. CASE DataIgnored(b) \/ DataByte(b)
  <2>1. branch' \in {"none", "data"} /\ input_state' = input_state /\ ~midi_is_statusbyte(b)
    BY <1>1, <1>10 DEF DataIgnored, DataByte, NoCallbacks, Callbacks, parse
  <2> QED  BY <1>2, <1>3, <2>1, SysexBytes DEF StateAfter, Status
<1> QED  BY <1>4, <1>5, <1>6, <1>7, <1>8, <1>9, <1>10 DEF ProcessByte

(* A status byte is one of these. *)
LEMMA StatusCases ==
    ASSUME NEW b \in Bytes
    PROVE  \/ ~midi_is_statusbyte(b) \/ midi_is_realtime(b) \/ b = SYSEX_BEGIN
           \/ Status(b) /\ midi_packet_length(b) \in {TWO, THREE}
           \/ Status(b) /\ b # SYSEX_BEGIN /\ midi_packet_length(b) \in {UNDEFINED, ONE}
<1>1. midi_packet_length(b) \in {UNDEFINED, ONE, TWO, THREE}
  BY PacketLengths, BytesAssumption
<1> QED  BY <1>1 DEF Status

-----------------------------------------------------------------------------
(* The next status byte. *)

LEMMA Resynchronises ==
    ASSUME IInv, NEW b \in Bytes, Hear(b), Status(b),
           \/ input_state # "SYSEX" \/ b = SYSEX_BEGIN
           \/ midi_packet_length(b) \notin {TWO, THREE}
    PROVE  InSync'
<1>1. ProcessByte(b) /\ Wire!Receive(b) /\ HeardIs' /\ TypeOK' /\ midi_is_statusbyte(b)
      /\ ~midi_is_realtime(b)
  BY Mapped DEF Hear, Next, Status
<1>2. input_buffer \in [0 .. 2 -> Uint8]
  BY DEF IInv, TypeOK
<1>3. CASE b = SYSEX_BEGIN
  <2>1. StateAfter' = "SYSEX" /\ CountAfter' = 1 /\ input_buffer'[0] = b
    BY <1>1, <1>3, ParserStatus
  <2>2. 1 % 3 = 1 /\ (1 \div 3) * 3 = 0
    OBVIOUS
  <2>3. StatusInForce' = b /\ DataHeard' = <<b>> /\ OffsetHeard' = 0
    BY <1>1, <1>3, <2>1, <2>2 DEF HeardIs, Heard
  <2> QED  BY <1>1, <1>3, <2>3, WireStatus DEF InSync
<1>4. CASE midi_packet_length(b) \in {TWO, THREE}
  <2>1. b # SYSEX_BEGIN
    BY <1>4, SysexBytes
  <2>2. StoredCount = 1 /\ StoredBuffer(b)[0] = b
    BY <1>2, <1>4, <2>1 DEF StoredCount, StoredBuffer
  <2>3. StateAfter' \in {"TWO", "THREE"} /\ CountAfter' = 1 /\ input_buffer'[0] = b
    BY <1>1, <1>4, <2>2, ParserStatus
  <2>4. StatusInForce' = b /\ DataHeard' = <<>> /\ OffsetHeard' = 0
    BY <1>1, <2>3 DEF HeardIs, Heard
  <2> QED  BY <1>1, <1>4, <2>4, WireStatus DEF InSync
<1>5. CASE b # SYSEX_BEGIN /\ midi_packet_length(b) \in {UNDEFINED, ONE}
  <2>1. StateAfter' = "IDLE"
    BY <1>1, <1>5, ParserStatus
  <2>2. StatusInForce' = Wire!NoStatus /\ DataHeard' = <<>> /\ OffsetHeard' = 0
    BY <1>1, <2>1, WireBytes DEF HeardIs, Heard
  <2> QED  BY <1>1, <1>5, <2>2, WireStatus DEF InSync
<1> QED  BY <1>1, <1>3, <1>4, <1>5, StatusCases

LEMMA ReceptionStep == [ReceptionNext]_allVars => [Next]_vars
  BY DEF ReceptionNext, Hear, HandlerReturns, GoesBy, Next, Callout, allVars

LEMMA ReceptionInvariance == ReceptionSpec => []IInv
  BY ReceptionStep, Start, Step, PTL DEF ReceptionSpec, ReceptionInit

(* Outside of system exclusive messages every status byte, and the one     *)
(* that begins such a message anywhere, puts the parser where the wire is, *)
(* whatever has been received, stored and counted before                   *)
(* (midi_process_byte).                                                    *)
THEOREM Resynchronisation == ReceptionSpec => StatusResynchronises
<1>1. IInv => \A b \in Bytes :
          Hear(b) /\ Status(b) /\ (input_state # "SYSEX" \/ b = SYSEX_BEGIN) => InSync'
  BY Resynchronises
<1> QED  BY <1>1, ReceptionInvariance, PTL DEF StatusResynchronises

-----------------------------------------------------------------------------
(* The other bytes. *)

(* Callbacks, registrations and the end of a message change nothing of     *)
(* what has been heard.                                                    *)
LEMMA QuietStep ==
    ASSUME IInv, [ReceptionNext]_allVars, \A b \in Bytes : ~Hear(b)
    PROVE  /\ UNCHANGED <<StateAfter, CountAfter, input_buffer>>
           /\ UNCHANGED <<status, data, offset>>
<1>1. CASE UNCHANGED <<input_state, input_count, input_buffer, branch, state>>
           /\ UNCHANGED <<status, data, offset>>
  BY <1>1 DEF StateAfter, CountAfter
<1>2. CASE HandlerReturns
  <2>1. branch \in {"realtime", "one", "sysexend", "data"}
    BY <1>2 DEF HandlerReturns, Return, IInv, TypeOK
  <2>2. input_state' = StateAfter /\ input_count' = CountAfter /\ branch' = "none"
        /\ input_buffer' = input_buffer
    BY <1>2, <2>1 DEF HandlerReturns, Return, StateAfter, CountAfter
  <2>3. StateAfter' = StateAfter /\ CountAfter' = CountAfter
    BY <2>2 DEF StateAfter, CountAfter
  <2>4. UNCHANGED <<status, data, offset>>
    BY <1>2 DEF HandlerReturns, Wire!Settle, wire
  <2> QED  BY <2>2, <2>3, <2>4
<1>3. CASE CallSpecific \/ CallFallthrough \/ CallCatchall
  <2>1. UNCHANGED wire
    BY <1>3 DEF ReceptionNext, Hear, ProcessByte, HandlerReturns, Return, GoesBy, Program, Register,
                CallSpecific, CallFallthrough, CallCatchall, allVars
  <2> QED  BY <1>1, <1>3, <2>1 DEF CallSpecific, CallFallthrough, CallCatchall, parse, wire
<1>4. CASE Program /\ UNCHANGED <<wire, sysex>>
  BY <1>1, <1>4 DEF Program, Register, parse, wire
<1>5. CASE GoesBy
  BY <1>1, <1>5 DEF GoesBy, Wire!Settle, vars, parse
<1>6. CASE UNCHANGED allVars
  BY <1>1, <1>6 DEF allVars, vars, parse, wire
<1> QED  BY <1>2, <1>3, <1>4, <1>5, <1>6 DEF ReceptionNext

LEMMA KindStep ==
    ASSUME RInv, NEW b \in Bytes, Hear(b)
    PROVE  KindInv'
<1>1. ProcessByte(b) /\ Wire!Receive(b) /\ IInv /\ KindInv
  BY DEF Hear, RInv
<1>2. CASE ~midi_is_statusbyte(b) \/ midi_is_realtime(b)
  <2>1. StateAfter' = StateAfter /\ (status' = status \/ StateAfter = "SYSEX")
    BY <1>1, <1>2, ParserStatus, WireStatus
  <2> QED  BY <1>1, <1>2, <2>1, WireStatus DEF KindInv
<1>3. CASE b = SYSEX_BEGIN
  BY <1>1, <1>3, ParserStatus, WireStatus, SysexBytes DEF KindInv
<1>4. CASE Status(b) /\ midi_packet_length(b) \in {TWO, THREE}
  <2>1. status' = b /\ Long(b)
        /\ StateAfter' = (IF midi_packet_length(b) = TWO THEN "TWO" ELSE "THREE")
    BY <1>1, <1>4, ParserStatus, WireStatus DEF Long, Status
  <2>2. b # SYSEX_BEGIN /\ b # Wire!NoStatus
    BY <2>1, SysexBytes
  <2> QED  BY <2>1, <2>2, <1>4, SysexBytes DEF KindInv
<1>5. CASE Status(b) /\ b # SYSEX_BEGIN /\ midi_packet_length(b) \in {UNDEFINED, ONE}
  BY <1>1, <1>5, ParserStatus, WireStatus, SysexBytes DEF KindInv
<1> QED  BY <1>2, <1>3, <1>4, <1>5, StatusCases

LEMMA SlotStep ==
    ASSUME RInv, NEW b \in Bytes, Hear(b)
    PROVE  SlotInv'
<1>1. ProcessByte(b) /\ IInv /\ SlotInv
  BY DEF Hear, RInv
<1>2. pc = "idle" /\ branch = "none" /\ input_buffer \in [0 .. 2 -> Uint8]
      /\ input_count \in 0 .. CountRange - 1 /\ input_state # "ONE"
  BY <1>1 DEF ProcessByte, IInv, TypeOK
<1>3. StateAfter = input_state /\ CountAfter = input_count
  BY <1>2, <1>1 DEF StateAfter, CountAfter, IInv, TypeOK, InputState
<1>4. CASE midi_is_realtime(b)
  BY <1>1, <1>4, ParserStatus DEF SlotInv, KeptInv
<1>5. CASE b = SYSEX_BEGIN
  <2>1. StateAfter' = "SYSEX" /\ input_buffer'[0] = b
    BY <1>1, <1>5, ParserStatus
  <2> QED  BY <1>5, <2>1, SysexBytes DEF SlotInv, KeptInv
<1>6. CASE Status(b) /\ midi_packet_length(b) \in {TWO, THREE}
  <2>1. StateAfter' = (IF midi_packet_length(b) = TWO THEN "TWO" ELSE "THREE")
        /\ CountAfter' = StoredCount /\ input_buffer' = StoredBuffer(b)
    BY <1>1, <1>6, ParserStatus
  <2>2. CASE input_state = "SYSEX"
    BY <1>1, <1>3, <2>1, <2>2 DEF SlotInv, StoredBuffer
  <2>3. CASE input_state # "SYSEX"
    BY <1>2, <1>6, <2>1, <2>3, SysexBytes DEF SlotInv, KeptInv, StoredBuffer, StoredCount, Status
  <2> QED  BY <2>2, <2>3
<1>7. CASE Status(b) /\ b # SYSEX_BEGIN /\ midi_packet_length(b) \in {UNDEFINED, ONE}
  <2>1. StateAfter' = "IDLE"
    BY <1>1, <1>7, ParserStatus
  <2> QED  BY <2>1 DEF SlotInv, KeptInv
<1>8. CASE ~midi_is_statusbyte(b)
  <2>1. DataIgnored(b) \/ DataByte(b)
    BY <1>1, <1>8, SysexBytes, BytesAssumption
       DEF ProcessByte, RealtimeByte, StatusOne, StatusOfMessage, SysexBegin, SysexEnd,
           StatusUndefined, Status
  <2>2. CASE DataIgnored(b)
    <3>1. StateAfter' = StateAfter /\ input_buffer' = input_buffer /\ StateAfter = "IDLE"
      BY <1>1, <1>3, <1>8, <2>2, ParserStatus DEF DataIgnored, parse
    <3> QED  BY <3>1 DEF SlotInv, KeptInv
  <2>3. CASE DataByte(b) /\ ~Long(input_buffer[0])
    <3>1. input_buffer' = [input_buffer EXCEPT ![input_count % 3] = b]
      BY <2>3 DEF DataByte
    <3>2. ~Long(input_buffer'[0])
      BY <1>2, <1>8, <2>3, <3>1 DEF Long
    <3> QED  BY <3>2 DEF SlotInv
  <2>4. CASE DataByte(b) /\ Long(input_buffer[0])
    <3>1. KeptInv /\ input_state # "SYSEX"
      BY <1>1, <1>3, <2>4 DEF SlotInv
    <3>2. HeardIs /\ DeliveredIs /\ HeardIs' /\ DeliveredIs'
      BY <1>1, Mapped DEF Next
    <3>3. KeptInv'
      BY <1>1, <1>2, <2>4, <3>1, <3>2, DataMaps DEF Maps
    <3>4. StateAfter' # "SYSEX"
      BY <1>1, <1>3, <1>8, <3>1, ParserStatus
    <3> QED  BY <3>3, <3>4 DEF SlotInv
  <2> QED  BY <2>1, <2>2, <2>3, <2>4
<1> QED  BY <1>4, <1>5, <1>6, <1>7, <1>8, StatusCases

LEMMA RStep == RInv /\ [ReceptionNext]_allVars => RInv'
<1> SUFFICES ASSUME RInv, [ReceptionNext]_allVars PROVE RInv'
  OBVIOUS
<1>1. IInv /\ IInv'
  BY ReceptionStep, Step DEF RInv
<1>2. CASE \E b \in Bytes : Hear(b)
  BY <1>1, <1>2, KindStep, SlotStep DEF RInv
<1>3. CASE \A b \in Bytes : ~Hear(b)
  BY <1>1, <1>3, QuietStep DEF RInv, KindInv, SlotInv, KeptInv
<1> QED  BY <1>2, <1>3

LEMMA RStart == ReceptionInit => RInv
<1> SUFFICES ASSUME ReceptionInit PROVE RInv
  OBVIOUS
<1>1. StateAfter = "IDLE" /\ status = Wire!NoStatus
  BY DEF ReceptionInit, Init, Wire!Init, StateAfter
<1>2. IInv
  BY Start DEF ReceptionInit
<1> QED  BY <1>1, <1>2, SysexBytes DEF RInv, KindInv, SlotInv, KeptInv

(* Data bytes go into the message that parser and wire agree on.           *)
LEMMA DataFollows ==
    ASSUME InSync, NEW b \in Bytes, ~midi_is_statusbyte(b), Stream!Receive(b), Wire!Receive(b)
    PROVE  InSync'
<1>1. b \in Uint8 /\ ~midi_is_realtime(b) /\ b # SYSEX_BEGIN /\ b # SYSEX_END
  BY BytesAssumption, SysexBytes
<1>2. StatusInForce = status /\ DataHeard = data /\ OffsetHeard = offset
  BY DEF InSync
<1>3. Stream!SysexData(b) \/ Stream!Data(b) \/ Stream!Ignored(b)
  BY <1>1, SameBytes DEF Stream!Receive, Stream!Realtime, Stream!Status, Stream!SysexStart,
                         Stream!SysexStop
<1>4. Wire!SysexData(b) \/ Wire!Data(b) \/ Wire!Ignored(b)
  BY <1>1, WireBytes DEF Wire!Receive, Wire!Realtime, Wire!Status, Wire!SysexStart,
                         Wire!SysexStop
<1>5. CASE status = SYSEX_BEGIN
  <2>1. Stream!SysexData(b) /\ Wire!SysexData(b)
    BY <1>2, <1>3, <1>4, <1>5, SameBytes, WireBytes, SysexBytes
       DEF Stream!Data, Stream!Ignored, Wire!Data, Wire!Ignored
  <2>2. CASE Len(data) = 2
    <3>1. status' = status /\ data' = <<>> /\ offset' = offset + 3
      BY <2>1, <2>2 DEF Wire!SysexData
    <3>2. StatusInForce' = StatusInForce /\ DataHeard' = <<>> /\ OffsetHeard' = OffsetHeard + 3
      BY <1>2, <2>1, <2>2 DEF Stream!SysexData
    <3> QED  BY <1>2, <3>1, <3>2 DEF InSync
  <2>3. CASE Len(data) # 2
    <3>1. status' = status /\ data' = Append(data, b) /\ offset' = offset
      BY <2>1, <2>3 DEF Wire!SysexData
    <3>2. StatusInForce' = StatusInForce /\ DataHeard' = Append(DataHeard, b)
          /\ OffsetHeard' = OffsetHeard
      BY <1>2, <2>1, <2>3 DEF Stream!SysexData
    <3> QED  BY <1>2, <3>1, <3>2 DEF InSync
  <2> QED  BY <2>2, <2>3
<1>6. CASE status \notin {SYSEX_BEGIN, Wire!NoStatus}
  <2>1. Stream!Data(b) /\ Wire!Data(b)
    BY <1>2, <1>3, <1>4, <1>6, SameBytes, WireBytes
       DEF Stream!SysexData, Stream!Ignored, Wire!SysexData, Wire!Ignored
  <2>2. Stream!midi_packet_length(StatusInForce) = Wire!midi_packet_length(status)
    BY <1>2, SameBytes, WireBytes
  <2> QED  BY <1>2, <2>1, <2>2 DEF InSync, Stream!Data, Wire!Data
<1>7. CASE status = Wire!NoStatus
  <2>1. Stream!Ignored(b) /\ Wire!Ignored(b)
    BY <1>2, <1>3, <1>4, <1>7, SameBytes, WireBytes, SysexBytes
       DEF Stream!SysexData, Stream!Data, Wire!SysexData, Wire!Data
  <2> QED  BY <1>2, <2>1 DEF InSync, Stream!Ignored, Stream!stream, Wire!Ignored, Wire!stream
<1> QED  BY <1>5, <1>6, <1>7

LEMMA SyncKept ==
    ASSUME RInv, InSync, NEW b \in Bytes, Hear(b), ~InSync'
    PROVE  input_state = "SYSEX" /\ (input_state' \in {"TWO", "THREE"} \/ input_count' < input_count)
<1>1. ProcessByte(b) /\ Wire!Receive(b) /\ IInv /\ KindInv /\ SlotInv
  BY DEF Hear, RInv
<1>2. CASE midi_is_realtime(b)
  <2>1. UNCHANGED <<StateAfter, CountAfter, input_buffer>> /\ UNCHANGED <<status, data, offset>>
    BY <1>1, <1>2, ParserStatus, WireStatus
  <2>2. InSync'
    BY <2>1, SameHeard DEF InSync
  <2> QED  BY <2>2
<1>3. CASE Status(b)
  <2>1. input_state = "SYSEX" /\ b # SYSEX_BEGIN /\ midi_packet_length(b) \in {TWO, THREE}
    BY <1>1, <1>3, Resynchronises
  <2>2. StatusOfMessage(b)
    BY <1>1, <1>3, <2>1, SysexBytes
       DEF ProcessByte, RealtimeByte, StatusOne, SysexBegin, SysexEnd, StatusUndefined,
           DataIgnored, DataByte, Status
  <2> QED  BY <2>1, <2>2 DEF StatusOfMessage
<1>4. CASE ~midi_is_statusbyte(b)
  <2>1. KeptInv
    <3> SUFFICES ASSUME StateAfter \in {"TWO", "THREE"} PROVE KeptInv
      BY DEF KeptInv
    <3>1. Long(input_buffer[0])
      BY <1>1 DEF KindInv, InSync, StatusInForce
    <3> QED  BY <1>1, <3>1 DEF SlotInv
  <2>2. ~Orderly(b)
    BY <1>1, <1>4, <2>1, ByteMaps, DataFollows DEF Maps
  <2>3. b # SYSEX_END /\ ~midi_is_realtime(b) /\ midi_packet_length(b) = UNDEFINED
    BY <1>4, SysexBytes, BytesAssumption, PacketLengths
  <2>4. input_state = "SYSEX" /\ ~(input_count + 1 < CountRange)
    BY <2>2, <2>3, SysexBytes DEF Orderly
  <2>5. DataByte(b)
    BY <1>1, <1>4, <2>3, <2>4, SysexBytes
       DEF ProcessByte, RealtimeByte, StatusOne, StatusOfMessage, SysexBegin, SysexEnd,
           StatusUndefined, DataIgnored, Status
  <2>6. input_count' = Plus1(input_count) /\ input_count \in 0 .. CountRange - 1
    BY <1>1, <2>5 DEF DataByte, IInv, TypeOK
  <2>7. input_count' = 0 /\ input_count > 0
    BY <2>4, <2>6, CountIs, CountRangeAssumption
  <2> QED  BY <2>4, <2>7
<1> QED  BY <1>2, <1>3, <1>4 DEF Status

(* While sender and parser agree on the message under way, they part only  *)
(* in the two ways the property names, also after disorderly bytes: what   *)
(* is in the buffer then can not be mistaken for a status byte             *)
(* (midi_process_byte).                                                    *)
THEOREM SyncLoss == ReceptionSpec => SyncLostOnlyInSysex
<1>1. RInv /\ [ReceptionNext]_allVars =>
          [InSync /\ ~InSync' =>
             /\ input_state = "SYSEX"
             /\ input_state' \in {"TWO", "THREE"} \/ input_count' < input_count]_allVars
  <2> SUFFICES ASSUME RInv, [ReceptionNext]_allVars, InSync, ~InSync'
               PROVE  /\ input_state = "SYSEX"
                      /\ input_state' \in {"TWO", "THREE"} \/ input_count' < input_count
    OBVIOUS
  <2>1. CASE \E b \in Bytes : Hear(b)
    BY <2>1, SyncKept
  <2>2. CASE \A b \in Bytes : ~Hear(b)
    <3>1. InSync'
      BY <2>2, QuietStep, SameHeard DEF RInv, InSync
    <3> QED  BY <3>1
  <2> QED  BY <2>1, <2>2
<1> QED  BY <1>1, RStart, RStep, PTL DEF ReceptionSpec, SyncLostOnlyInSysex

-----------------------------------------------------------------------------
(* The chunks of a system exclusive message, however long it is. *)

(* The bytes of the message, from the last one back. *)
Back(j) == recent[Len(recent) - j]

(* The first k slots hold the last k bytes of the message. *)
Filled(k) == k <= Len(recent) /\ \A j \in 0 .. k - 1 : input_buffer[k - 1 - j] = Back(j)

(* The count is the length of the message on the wire, modulo its range,   *)
(* and as many slots are filled as it says by 3; it is no more than that   *)
(* after the count has wrapped.                                            *)
CountingInv ==
    /\ length \in Nat
    /\ recent \in Seq(Uint8) /\ Len(recent) \in 0 .. 3
    /\ StateAfter = "SYSEX" => CountAfter = length % CountRange /\ Filled(CountAfter % 3)

(* The byte at place n, modulo the range of the count, has completed a     *)
(* chunk.                                                                  *)
Completed ==
    \E n \in 0 .. CountRange - 1 :
        /\ Filled((n % 3) + 1)
        /\ (length - ((n % 3) + 1)) % CountRange = n - (n % 3)
        /\ msg.cnt = Plus1(n)
        /\ msg.bytes = <<input_buffer[0], input_buffer[1], input_buffer[2]>>

ChunkInv == pc # "idle" /\ input_state = "SYSEX" => Completed

PlaceInv == CountingInv /\ ChunkInv /\ SysexPlace

(* A remainder is the one there is. *)
LEMMA RemainderIs ==
    ASSUME NEW R \in Nat \ {0}, NEW q \in Nat, NEW r \in 0 .. R - 1
    PROVE  (R * q + r) % R = r
<1> DEFINE l == R * q + r
<1>1. l \in Nat /\ R * q \in Nat
  OBVIOUS
<1>2. PICK p \in Nat, s \in 0 .. R - 1 : l = R * p + s /\ l % R = s
  <2>1. l = R * (l \div R) + (l % R) /\ l \div R \in Nat /\ l % R \in 0 .. R - 1
    BY <1>1
  <2> QED  BY <2>1
<1>3. CASE p > q
  <2>1. PICK d \in Nat : p = q + 1 + d
    BY <1>3
  <2>2. R * p = R * q + R + R * d /\ R * d \in Nat
    BY <2>1
  <2> QED  BY <1>1, <1>2, <2>2
<1>4. CASE q > p
  <2>1. PICK d \in Nat : q = p + 1 + d
    BY <1>4
  <2>2. R * q = R * p + R + R * d /\ R * d \in Nat /\ R * p \in Nat
    BY <2>1
  <2> QED  BY <1>1, <1>2, <2>2
<1>5. CASE p = q
  BY <1>1, <1>2, <1>5
<1> QED  BY <1>3, <1>4, <1>5

(* Counting modulo its range, from a place n of the message on. *)
LEMMA CountModulo ==
    ASSUME NEW l \in Nat, NEW n, n = l % CountRange
    PROVE  /\ n \in 0 .. CountRange - 1 /\ n <= l
           /\ Plus1(n) = (l + 1) % CountRange
           /\ \A k \in 0 .. 2 : k <= n => (l - k) % CountRange = n - k
<1>1. CountRange \in Nat \ {0} /\ CountRange > 3
  BY CountRangeAssumption
<1>2. n \in 0 .. CountRange - 1 /\ l = CountRange * (l \div CountRange) + n /\ l \div CountRange \in Nat
  BY <1>1
<1>3. PICK q \in Nat : l = CountRange * q + n
  BY <1>2
<1>4. CountRange * q \in Nat
  BY <1>1, <1>3
<1>5. Plus1(n) = (l + 1) % CountRange
  <2>1. CASE n + 1 = CountRange
    <3>1. l + 1 = CountRange * (q + 1) + 0 /\ q + 1 \in Nat /\ 0 \in 0 .. CountRange - 1
      BY <1>1, <1>3, <1>4, <2>1
    <3>2. (CountRange * (q + 1) + 0) % CountRange = 0
      BY <1>1, <3>1, RemainderIs
    <3> QED  BY <1>2, <2>1, <3>1, <3>2, CountIs
  <2>2. CASE n + 1 < CountRange
    <3>1. l + 1 = CountRange * q + (n + 1) /\ n + 1 \in 0 .. CountRange - 1
      BY <1>1, <1>2, <1>3, <1>4, <2>2
    <3>2. (CountRange * q + (n + 1)) % CountRange = n + 1
      BY <1>1, <3>1, RemainderIs
    <3> QED  BY <1>1, <1>2, <2>2, <3>1, <3>2, CountIs
  <2> QED  BY <1>1, <1>2, <2>1, <2>2
<1>6. ASSUME NEW k \in 0 .. 2, k <= n PROVE (l - k) % CountRange = n - k
  <2>1. n - k \in 0 .. CountRange - 1
    BY <1>1, <1>2, <1>6
  <2>2. PICK z \in Nat : z = CountRange * q
    BY <1>4
  <2>3. l - k = z + (n - k)
    BY <1>2, <1>3, <2>2
  <2>4. (CountRange * q + (n - k)) % CountRange = n - k
    BY <1>1, <2>1, RemainderIs
  <2> QED  BY <2>2, <2>3, <2>4
<1> QED  BY <1>2, <1>4, <1>3, <1>5, <1>6

(* Place and length of the chunk that the byte at place n completes, also  *)
(* when the count wraps with it.                                           *)
LEMMA ChunkAt ==
    ASSUME NEW n \in 0 .. CountRange - 1, msg.cnt = Plus1(n)
    PROVE  SysexStart = n - (n % 3) /\ SysexLength = (n % 3) + 1
<1>1. CountRange \in Nat /\ CountRange > 3 /\ CountRange % 3 = 1
  BY CountRangeAssumption
<1>2. n - (n % 3) = (n \div 3) * 3 /\ n % 3 \in 0 .. 2
  BY ByThree
<1>3. CASE n + 1 < CountRange
  <2>1. msg.cnt = n + 1
    BY <1>1, <1>3, CountIs
  <2> QED  BY <1>2, <1>3, <2>1, ChunkIs
<1>4. CASE n + 1 = CountRange
  <2>1. msg.cnt = 0
    BY <1>1, <1>4, CountIs
  <2>2. (msg.cnt - 1) % CountRange = n
    BY <1>1, <1>4, <2>1
  <2>3. n % 3 = 0
    BY <1>1, <1>4, ByThree
  <2>4. SysexStart = n
    BY <1>2, <2>2, <2>3 DEF SysexStart
  <2>5. (msg.cnt - n) % CountRange = 1
    BY <1>1, <1>4, <2>1
  <2> QED  BY <2>3, <2>4, <2>5 DEF SysexLength
<1> QED  BY <1>1, <1>3, <1>4

(* The last bytes, three at most. *)
LEMMA LastThreeIs ==
    ASSUME NEW a \in Seq(Uint8), NEW n \in 1 .. 4, n = Len(a)
    PROVE  LET t == LastThree(a) IN
           /\ t \in Seq(Uint8)
           /\ Len(t) = IF n = 4 THEN 3 ELSE n
           /\ \A j \in 0 .. 2 : j < Len(t) => t[Len(t) - j] = a[n - j]
<1>1. PICK m \in {1, 2} : m = (IF n = 4 THEN 2 ELSE 1) /\ LastThree(a) = SubSeq(a, m, n)
  <2>1. CASE n = 4
    <3>1. Len(a) > 3 /\ Len(a) - 2 = 2
      BY <2>1
    <3> QED  BY <2>1, <3>1 DEF LastThree
  <2>2. CASE n # 4
    <3>1. ~(Len(a) > 3)
      BY <2>2
    <3>2. LastThree(a) = SubSeq(a, 1, n)
      BY <3>1 DEF LastThree
    <3> QED  BY <2>2, <3>2
  <2> QED  BY <2>1, <2>2
<1>2. \A i \in m .. n : a[i] \in Uint8
  BY LenProperties
<1>3. m <= n
  BY <1>1
<1> DEFINE t == SubSeq(a, m, n)
<1>4. /\ t \in Seq(Uint8) /\ Len(t) = n - m + 1
      /\ \A i \in 1 .. n - m + 1 : t[i] = a[m + i - 1]
  BY <1>2, <1>3, SubSeqProperties
<1>5. ASSUME NEW c \in 1 .. 3, c = n - m + 1, NEW j \in 0 .. 2, j < c PROVE t[c - j] = a[n - j]
  <2>1. c - j \in 1 .. n - m + 1 /\ m + (c - j) - 1 = n - j
    BY <1>5
  <2> QED  BY <1>4, <2>1
<1> HIDE DEF t
<1>6. PICK c \in 1 .. 3 : c = n - m + 1 /\ c = IF n = 4 THEN 3 ELSE n
  <2>1. (n = 4 /\ m = 2) \/ (n # 4 /\ m = 1)
    BY <1>1
  <2>2. CASE n = 4 /\ m = 2
    <3>1. 3 \in 1 .. 3 /\ 3 = n - m + 1 /\ 3 = IF n = 4 THEN 3 ELSE n
      BY <2>2
    <3> QED  BY <3>1
  <2>3. CASE n # 4 /\ m = 1
    <3>1. n \in 1 .. 3 /\ n = n - m + 1 /\ n = IF n = 4 THEN 3 ELSE n
      BY <2>3
    <3> QED  BY <3>1
  <2> QED  BY <2>1, <2>2, <2>3
<1>7. Len(t) = c
  BY <1>4, <1>6
<1>8. \A j \in 0 .. 2 : j < Len(t) => t[Len(t) - j] = a[n - j]
  BY <1>5, <1>6, <1>7
<1> QED  BY <1>1, <1>4, <1>6, <1>7, <1>8 DEF t

(* One byte more. *)
LEMMA Grows ==
    ASSUME NEW s \in Seq(Uint8), Len(s) \in 0 .. 3, NEW b \in Uint8
    PROVE  LET t == LastThree(Append(s, b)) IN
           /\ t \in Seq(Uint8) /\ Len(t) \in 1 .. 3
           /\ Len(t) = IF Len(s) = 3 THEN 3 ELSE Len(s) + 1
           /\ t[Len(t)] = b
           /\ \A j \in 0 .. 1 : j < Len(s) => t[Len(t) - (j + 1)] = s[Len(s) - j]
<1> PICK n \in 0 .. 3 : n = Len(s)
  OBVIOUS
<1> DEFINE t == LastThree(Append(s, b))
<1> HIDE DEF t
<1>1. PICK a \in Seq(Uint8) : a = Append(s, b)
  BY AppendProperties
<1>2. PICK l \in 1 .. 4 : l = n + 1 /\ l = Len(a)
  BY <1>1, AppendProperties
<1>3. a[l] = b /\ \A i \in 1 .. n : a[i] = s[i]
  BY <1>1, <1>2, AppendProperties
<1>4. PICK c \in 1 .. 3 :
          /\ t \in Seq(Uint8) /\ c = Len(t) /\ c = (IF l = 4 THEN 3 ELSE l)
          /\ \A j \in 0 .. 2 : j < c => t[c - j] = a[l - j]
  <2>1. /\ LastThree(a) \in Seq(Uint8)
        /\ Len(LastThree(a)) = IF l = 4 THEN 3 ELSE l
        /\ \A j \in 0 .. 2 : j < Len(LastThree(a)) =>
               LastThree(a)[Len(LastThree(a)) - j] = a[l - j]
    BY <1>2, LastThreeIs DEF t
  <2>2. Len(LastThree(a)) \in 1 .. 3
    BY <2>1
  <2> QED  BY <1>1, <2>1, <2>2 DEF t
<1>5. t[c] = b
  <2>1. 0 < c /\ c - 0 = c /\ l - 0 = l
    OBVIOUS
  <2> QED  BY <1>3, <1>4, <2>1
<1>6. ASSUME NEW j \in 0 .. 1, j < n PROVE t[c - (j + 1)] = s[n - j]
  <2>1. j + 1 \in 0 .. 2 /\ j + 1 < c /\ l - (j + 1) = n - j /\ n - j \in 1 .. n
    BY <1>2, <1>4, <1>6
  <2> QED  BY <1>3, <1>4, <2>1
<1> QED  BY <1>1, <1>2, <1>4, <1>5, <1>6 DEF t

(* A byte goes into the message, the count and a slot. *)
LEMMA ByteCounted ==
    ASSUME CountingInv, StateAfter = "SYSEX", NEW b \in Uint8, NEW n, n = CountAfter,
           input_buffer \in [0 .. 2 -> Uint8], input_buffer' = [input_buffer EXCEPT ![n % 3] = b],
           length' = length + 1, recent' = LastThree(Append(recent, b))
    PROVE  /\ n \in 0 .. CountRange - 1 /\ n % 3 \in 0 .. 2
           /\ length' \in Nat /\ recent' \in Seq(Uint8) /\ Len(recent') \in 1 .. 3
           /\ Plus1(n) = length' % CountRange
           /\ (length' - ((n % 3) + 1)) % CountRange = n - (n % 3)
           /\ Filled((n % 3) + 1)' /\ Filled(Plus1(n) % 3)'
<1>1. length \in Nat /\ recent \in Seq(Uint8) /\ Len(recent) \in 0 .. 3
      /\ n = length % CountRange /\ Filled(n % 3)
  BY DEF CountingInv
<1>2. n \in 0 .. CountRange - 1 /\ n <= length /\ Plus1(n) = length' % CountRange
      /\ \A k \in 0 .. 2 : k <= n => (length - k) % CountRange = n - k
  BY <1>1, CountModulo
<1>3. PICK k \in 0 .. 2 : k = n % 3 /\ k <= n
  BY <1>2, ByThree
<1>4. (length' - (k + 1)) % CountRange = n - k
  <2>1. length' - (k + 1) = length - k
    BY <1>1
  <2> QED  BY <1>2, <1>3, <2>1
<1>5. /\ recent' \in Seq(Uint8) /\ Len(recent') \in 1 .. 3
      /\ Len(recent') = (IF Len(recent) = 3 THEN 3 ELSE Len(recent) + 1)
      /\ recent'[Len(recent')] = b
      /\ \A j \in 0 .. 1 : j < Len(recent) => recent'[Len(recent') - (j + 1)] = Back(j)
  BY <1>1, Grows DEF Back
<1>6. k <= Len(recent) /\ \A j \in 0 .. k - 1 : input_buffer[k - 1 - j] = Back(j)
  BY <1>1, <1>3 DEF Filled
<1>7. Filled(k + 1)'
  <2>1. k + 1 <= Len(recent')
    BY <1>5, <1>6, <1>1
  <2>2. ASSUME NEW j \in 0 .. k PROVE input_buffer'[k - j] = recent'[Len(recent') - j]
    <3>1. CASE j = 0
      <4>1. k - j = k /\ Len(recent') - j = Len(recent')
        BY <1>5, <3>1
      <4> QED  BY <1>3, <1>5, <4>1
    <3>2. CASE j > 0
      <4>1. PICK i \in 0 .. 1 : j = i + 1
        BY <2>2, <3>2
      <4>2. i \in 0 .. k - 1 /\ k - j = k - 1 - i /\ k - j \in 0 .. 2 /\ k - j # k /\ i < Len(recent)
        BY <1>1, <1>6, <2>2, <4>1
      <4>3. input_buffer'[k - j] = input_buffer[k - 1 - i]
        BY <1>3, <4>2
      <4>4. recent'[Len(recent') - j] = Back(i)
        BY <1>5, <4>1, <4>2
      <4> QED  BY <1>6, <4>2, <4>3, <4>4
    <3> QED  BY <3>1, <3>2
  <2>3. ASSUME NEW j \in 0 .. (k + 1) - 1
        PROVE input_buffer'[(k + 1) - 1 - j] = recent'[Len(recent') - j]
    <3>1. j \in 0 .. k /\ (k + 1) - 1 - j = k - j
      BY <2>3
    <3> QED  BY <2>2, <3>1
  <2> QED  BY <2>1, <2>3 DEF Filled, Back
<1>8. Filled(0)'
  BY <1>5 DEF Filled
<1>9. Filled(Plus1(n) % 3)'
  <2>1. CountRange \in Nat /\ CountRange > 3
    BY CountRangeAssumption
  <2>2. CASE n + 1 = CountRange
    <3>1. Plus1(n) % 3 = 0
      BY <1>2, <2>1, <2>2, CountIs
    <3> QED  BY <1>8, <3>1
  <2>3. CASE n + 1 # CountRange
    <3>1. Plus1(n) % 3 = IF k = 2 THEN 0 ELSE k + 1
      BY <1>2, <1>3, <2>1, <2>3, CountIs, ByThree
    <3> QED  BY <1>7, <1>8, <3>1
  <2> QED  BY <2>2, <2>3
<1> QED  BY <1>1, <1>2, <1>3, <1>4, <1>5, <1>7, <1>9

(* The chunk it completes is the one the callback is told of. *)
LEMMA ChunkTold ==
    ASSUME input_buffer \in [0 .. 2 -> Uint8], recent \in Seq(Uint8), Len(recent) \in 0 .. 3,
           Completed
    PROVE  /\ SysexLength \in 1 .. 3 /\ SysexLength <= Len(recent)
           /\ SubSeq(msg.bytes, 1, SysexLength)
                 = SubSeq(recent, Len(recent) - SysexLength + 1, Len(recent))
           /\ Len(SubSeq(msg.bytes, 1, SysexLength)) = SysexLength
           /\ SysexStart = (length - SysexLength) % CountRange
<1> PICK n \in 0 .. CountRange - 1 :
         /\ Filled((n % 3) + 1)
         /\ (length - ((n % 3) + 1)) % CountRange = n - (n % 3)
         /\ msg.cnt = Plus1(n)
         /\ msg.bytes = <<input_buffer[0], input_buffer[1], input_buffer[2]>>
  BY DEF Completed
<1>0. PICK k \in 0 .. 2 : k = n % 3
  BY CountIs
<1>1. SysexStart = n - k /\ SysexLength = k + 1
  BY <1>0, ChunkAt
<1>2. k + 1 <= Len(recent) /\ \A j \in 0 .. k : input_buffer[k - j] = recent[Len(recent) - j]
  <2>1. (k + 1) - 1 = k /\ \A j \in 0 .. k : (k + 1) - 1 - j = k - j
    OBVIOUS
  <2> QED  BY <1>0, <2>1 DEF Filled, Back
<1> DEFINE s == SubSeq(msg.bytes, 1, k + 1)
           t == SubSeq(recent, Len(recent) - (k + 1) + 1, Len(recent))
<1>3. \A i \in 1 .. k + 1 : msg.bytes[i] = input_buffer[i - 1] /\ msg.bytes[i] \in Uint8
  OBVIOUS
<1>4. s \in Seq(Uint8) /\ Len(s) = k + 1 /\ \A i \in 1 .. k + 1 : s[i] = msg.bytes[i]
  <2>1. (k + 1) - 1 + 1 = k + 1 /\ 1 <= k + 1 /\ \A i \in 1 .. k + 1 : 1 + i - 1 = i
    OBVIOUS
  <2> QED  BY <1>3, <2>1, SubSeqProperties
<1>5. t \in Seq(Uint8) /\ Len(t) = k + 1
      /\ \A i \in 1 .. k + 1 : t[i] = recent[Len(recent) - (k + 1) + 1 + i - 1]
  <2> DEFINE m == Len(recent) - (k + 1) + 1
  <2>1. m \in Int /\ Len(recent) \in Int /\ m <= Len(recent) /\ Len(recent) - m + 1 = k + 1
        /\ \A i \in m .. Len(recent) : i \in 1 .. Len(recent)
    BY <1>2
  <2>2. \A i \in m .. Len(recent) : recent[i] \in Uint8
    BY <2>1, LenProperties
  <2> HIDE DEF m
  <2> QED  BY <2>1, <2>2, SubSeqProperties DEF m
<1>6. ASSUME NEW i \in 1 .. k + 1 PROVE s[i] = t[i]
  <2>1. PICK j \in 0 .. k : j = k + 1 - i
    BY <1>6
  <2>2. k - j = i - 1
    BY <1>6, <2>1
  <2>3. Len(recent) - (k + 1) + 1 + i - 1 = Len(recent) - j
    <3>1. PICK c \in 0 .. 3 : c = Len(recent)
      OBVIOUS
    <3>2. c - (k + 1) + 1 + i - 1 = c - j
      BY <1>6, <2>1
    <3> QED  BY <3>1, <3>2
  <2>4. s[i] = input_buffer[i - 1]
    BY <1>3, <1>4, <1>6
  <2>5. t[i] = recent[Len(recent) - j]
    BY <1>5, <1>6, <2>3
  <2> QED  BY <1>2, <2>1, <2>2, <2>4, <2>5
<1> HIDE DEF s, t
<1>7. s = t
  BY <1>4, <1>5, <1>6, SeqEqual
<1>8. k + 1 \in 1 .. 3
  OBVIOUS
<1> QED  BY <1>0, <1>1, <1>2, <1>4, <1>7, <1>8 DEF s, t

(* The byte that begins the message. *)
LEMMA BeginCounted ==
    ASSUME NEW b \in Uint8, length' = 1, recent' = <<b>>, input_buffer'[0] = b,
           StateAfter' = "SYSEX", CountAfter' = 1
    PROVE  CountingInv'
<1>1. 1 % CountRange = 1 /\ 1 % 3 = 1
  BY CountRangeAssumption
<1>2. recent' \in Seq(Uint8) /\ Len(recent') = 1 /\ recent'[1] = b
  OBVIOUS
<1>3. Filled(1)'
  <2>1. ASSUME NEW j \in 0 .. 1 - 1 PROVE input_buffer'[1 - 1 - j] = recent'[Len(recent') - j]
    <3>1. j = 0
      BY <2>1
    <3>2. 1 - 1 - j = 0 /\ 1 - j = 1
      BY <3>1
    <3> QED  BY <1>2, <3>2
  <2> QED  BY <1>2, <2>1 DEF Filled, Back
<1> QED  BY <1>1, <1>2, <1>3 DEF CountingInv

(* Every byte. *)
LEMMA PlaceByte ==
    ASSUME RInv, PlaceInv, NEW b \in Bytes, Hear(b)
    PROVE  CountingInv' /\ ChunkInv'
<1>1. /\ ProcessByte(b) /\ SysexGrows(b) /\ IInv /\ KindInv /\ CountingInv /\ b \in Uint8
      /\ pc = "idle" /\ branch = "none" /\ input_buffer \in [0 .. 2 -> Uint8]
      /\ input_state \in {"IDLE", "TWO", "THREE", "SYSEX"}
  BY BytesAssumption DEF Hear, RInv, PlaceInv, ProcessByte, IInv, TypeOK, InputState
<1>2. StateAfter = input_state /\ CountAfter = input_count
      /\ (input_state = "SYSEX" <=> status = SYSEX_BEGIN)
  BY <1>1 DEF StateAfter, CountAfter, KindInv
<1>3. ASSUME UNCHANGED <<length, recent>>, StateAfter' # "SYSEX", input_state' # "SYSEX"
      PROVE  CountingInv' /\ ChunkInv'
  BY <1>1, <1>3 DEF CountingInv, ChunkInv
<1>4. ASSUME midi_is_statusbyte(b), b # SYSEX_BEGIN, b # SYSEX_END
      PROVE  UNCHANGED <<length, recent>>
  BY <1>1, <1>4 DEF SysexGrows, sysex
<1>5. CASE RealtimeByte(b)
  <2>1. midi_is_realtime(b) /\ midi_is_statusbyte(b) /\ b # SYSEX_BEGIN /\ b # SYSEX_END
    BY <1>1, <1>5, SysexBytes DEF RealtimeByte
  <2>2. UNCHANGED <<StateAfter, CountAfter, input_buffer>> /\ UNCHANGED <<length, recent>>
    BY <1>1, <1>4, <2>1, ParserStatus
  <2>3. input_state' = "ONE"
    BY <1>5 DEF RealtimeByte
  <2> QED  BY <1>1, <2>2, <2>3 DEF CountingInv, ChunkInv, Filled, Back
<1>6. CASE StatusOne(b) \/ StatusOfMessage(b) \/ StatusUndefined(b)
  <2>1. midi_is_statusbyte(b) /\ b # SYSEX_BEGIN /\ b # SYSEX_END
    BY <1>6, SysexBytes DEF StatusOne, StatusOfMessage, StatusUndefined, Status
  <2>2. /\ input_state' \in {"ONE", "TWO", "THREE", "IDLE"}
        /\ branch' = "one" \/ (branch' = "none" /\ input_state' # "ONE")
    BY <1>1, <1>6 DEF StatusOne, StatusOfMessage, StatusUndefined, Callbacks, NoCallbacks
  <2>3. StateAfter' # "SYSEX"
    BY <2>2 DEF StateAfter
  <2> QED  BY <1>3, <1>4, <2>1, <2>2, <2>3
<1>7. CASE SysexBegin(b)
  <2>1. b = SYSEX_BEGIN /\ pc' = "idle"
    BY <1>1, <1>7 DEF SysexBegin, NoCallbacks
  <2>2. StateAfter' = "SYSEX" /\ CountAfter' = 1 /\ input_buffer'[0] = b
    BY <1>1, <2>1, ParserStatus
  <2>3. length' = 1 /\ recent' = <<b>>
    BY <1>1, <2>1 DEF SysexGrows
  <2> QED  BY <1>1, <2>1, <2>2, <2>3, BeginCounted DEF ChunkInv
<1>8. CASE DataIgnored(b)
  <2>1. ~midi_is_statusbyte(b) /\ input_state = "IDLE" /\ input_state' = "IDLE" /\ pc' = "idle"
    BY <1>1, <1>8 DEF DataIgnored, NoCallbacks, parse
  <2>2. StateAfter' # "SYSEX"
    BY <1>1, <1>2, <2>1, ParserStatus
  <2>3. UNCHANGED <<length, recent>>
    BY <1>1, <1>2, <2>1, SysexBytes DEF SysexGrows, sysex
  <2> QED  BY <1>3, <2>1, <2>2, <2>3
<1>9. CASE (SysexEnd(b) \/ DataByte(b)) /\ input_state # "SYSEX"
  <2>1. input_state' = input_state /\ b # SYSEX_BEGIN
    BY <1>9, SysexBytes DEF SysexEnd, DataByte
  <2>2. StateAfter' # "SYSEX"
    <3>1. branch' \in {"sysexend", "data", "none"}
      BY <1>1, <1>9 DEF SysexEnd, DataByte, Callbacks, NoCallbacks
    <3> QED  BY <1>9, <2>1, <3>1 DEF StateAfter
  <2>3. UNCHANGED <<length, recent>>
    BY <1>1, <1>2, <1>9, <2>1 DEF SysexGrows, sysex
  <2> QED  BY <1>3, <1>9, <2>1, <2>2, <2>3
<1>10. CASE (SysexEnd(b) \/ DataByte(b)) /\ input_state = "SYSEX"
  <2> PICK n : n = input_count
    OBVIOUS
  <2>1. b # SYSEX_BEGIN /\ (b = SYSEX_END \/ ~midi_is_statusbyte(b))
    BY <1>10, SysexBytes DEF SysexEnd, DataByte
  <2>2. length' = length + 1 /\ recent' = LastThree(Append(recent, b))
    BY <1>1, <1>2, <1>10, <2>1 DEF SysexGrows
  <2>3. input_buffer' = [input_buffer EXCEPT ![n % 3] = b] /\ input_count' = Plus1(n)
        /\ input_state' = "SYSEX"
    BY <1>10 DEF SysexEnd, DataByte, StoredBuffer, StoredCount
  <2>4. /\ n \in 0 .. CountRange - 1 /\ n % 3 \in 0 .. 2
        /\ length' \in Nat /\ recent' \in Seq(Uint8) /\ Len(recent') \in 1 .. 3
        /\ Plus1(n) = length' % CountRange
        /\ (length' - ((n % 3) + 1)) % CountRange = n - (n % 3)
        /\ Filled((n % 3) + 1)' /\ Filled(Plus1(n) % 3)'
    BY <1>1, <1>2, <1>10, <2>2, <2>3, ByteCounted
  <2>5. CountingInv'
    <3>1. StateAfter' = "SYSEX" => CountAfter' = Plus1(n)
      <4>1. CASE SysexEnd(b)
        BY <4>1 DEF SysexEnd, Callbacks, StateAfter
      <4>2. CASE DataByte(b)
        BY <2>3, <4>2 DEF DataByte, CountAfter
      <4> QED  BY <1>10, <4>1, <4>2
    <3> QED  BY <2>4, <3>1 DEF CountingInv
  <2>6. ChunkInv'
    <3>1. pc' = "idle" \/ msg' = [cnt |-> Plus1(n),
                 bytes |-> <<input_buffer'[0], input_buffer'[1], input_buffer'[2]>>]
      <4>1. CASE SysexEnd(b)
        BY <2>3, <4>1 DEF SysexEnd, Callbacks
      <4>2. CASE DataByte(b)
        BY <1>1, <1>10, <2>3, <4>2 DEF DataByte, Callbacks, NoCallbacks
      <4> QED  BY <1>10, <4>1, <4>2
    <3>2. CASE msg' = [cnt |-> Plus1(n),
                 bytes |-> <<input_buffer'[0], input_buffer'[1], input_buffer'[2]>>]
      <4>1. Completed'
        BY <2>4, <3>2 DEF Completed
      <4> QED  BY <4>1 DEF ChunkInv
    <3> QED  BY <3>1, <3>2 DEF ChunkInv
  <2> QED  BY <2>5, <2>6
<1> QED  BY <1>1, <1>5, <1>6, <1>7, <1>8, <1>9, <1>10 DEF ProcessByte

(* One more call, of the callback for system exclusive messages only if it *)
(* is told the right place.                                                *)
ToldRightly(call) ==
    call[1] = "sysex" =>
        LET start == call[2][1]  bytes == call[2][2] IN
        /\ Len(bytes) \in 1 .. Len(recent)
        /\ bytes = SubSeq(recent, Len(recent) - Len(bytes) + 1, Len(recent))
        /\ start = (length - Len(bytes)) % CountRange

LEMMA CallAdded ==
    ASSUME SysexPlace, NEW S, calls \in Seq(S), NEW call \in S, ToldRightly(call),
           calls' = Append(calls, call), UNCHANGED <<length, recent>>
    PROVE  SysexPlace'
<1>1. PICK n \in Nat : n = Len(calls)
  BY LenProperties
<1>2. Len(calls') = n + 1 /\ calls'[n + 1] = call /\ \A k \in 1 .. n : calls'[k] = calls[k]
  BY <1>1, AppendProperties
<1>3. \A k \in 1 .. n : ToldRightly(calls[k])
  BY <1>1 DEF SysexPlace, ToldRightly
<1>4. \A k \in 1 .. n + 1 : ToldRightly(calls'[k])
  <2> SUFFICES ASSUME NEW k \in 1 .. n + 1 PROVE ToldRightly(calls'[k])
    OBVIOUS
  <2>1. k = n + 1 \/ k \in 1 .. n
    OBVIOUS
  <2> QED  BY <1>2, <1>3, <2>1
<1> QED  BY <1>2, <1>4 DEF SysexPlace, ToldRightly

(* The calls so far, as a sequence. *)
LEMMA CallsSequence ==
    ASSUME IInv, pc \in {"fallthrough", "catchall"}
    PROVE  calls \in Seq({calls[1]})
<1>1. calls = <<>> \/ calls = <<calls[1]>>
  BY DEF IInv, TypeOK, CallsInv
<1>2. ASSUME NEW c PROVE <<c>> \in Seq({c}) /\ <<>> \in Seq({c})
  OBVIOUS
<1> QED  BY <1>1, <1>2

LEMMA SequenceIn == ASSUME NEW S, NEW T, S \subseteq T, NEW s \in Seq(S) PROVE s \in Seq(T)
  OBVIOUS

(* A callback other than that of system exclusive messages. *)
LEMMA OtherCall ==
    ASSUME IInv, SysexPlace, pc \in {"fallthrough", "catchall"}, NEW f, NEW args, f # "sysex",
           Runs(f, args), UNCHANGED <<length, recent>>
    PROVE  SysexPlace'
<1> DEFINE call == <<f, args>>
<1>1. calls' = Append(calls, call) /\ call[1] = f
  BY DEF Runs
<1> HIDE DEF call
<1>2. calls \in Seq({calls[1], call})
  BY CallsSequence, SequenceIn
<1>3. ToldRightly(call)
  BY <1>1 DEF ToldRightly
<1> QED  BY <1>1, <1>2, <1>3, CallAdded

(* Every other step. *)
LEMMA PlaceQuiet ==
    ASSUME RInv, PlaceInv, [ReceptionNext]_allVars, \A b \in Bytes : ~Hear(b)
    PROVE  PlaceInv'
<1>1. IInv /\ CountingInv /\ ChunkInv /\ SysexPlace /\ input_buffer \in [0 .. 2 -> Uint8]
  BY DEF RInv, PlaceInv, IInv, TypeOK
<1>2. UNCHANGED <<StateAfter, CountAfter, input_buffer>>
  BY <1>1, QuietStep
<1>3. UNCHANGED <<length, recent>>
  BY DEF ReceptionNext, HandlerReturns, GoesBy, allVars, sysex
<1>4. CountingInv'
  BY <1>1, <1>2, <1>3 DEF CountingInv, Filled, Back
<1>5. ChunkInv'
  <2>1. CASE UNCHANGED <<input_state, msg>> /\ (pc' # "idle" => pc # "idle")
    BY <1>1, <1>2, <1>3, <2>1 DEF ChunkInv, Completed, Filled, Back
  <2>2. CASE pc' = "idle"
    BY <2>2 DEF ChunkInv
  <2>3. CASE CallSpecific \/ CallFallthrough \/ CallCatchall
    BY <2>1, <2>3 DEF CallSpecific, CallFallthrough, CallCatchall, parse
  <2> QED  BY <2>1, <2>2, <2>3
           DEF ReceptionNext, HandlerReturns, Return, GoesBy, Program, Register, allVars, vars, parse
<1>6. SysexPlace'
  <2>1. CASE UNCHANGED calls
    BY <1>1, <1>3, <2>1 DEF SysexPlace
  <2>2. CASE CallSpecific
    <3>1. calls = <<>>
      BY <1>1, <2>2 DEF CallSpecific, IInv, CallsInv
    <3>2. ASSUME NEW f \in Matching \cap registered, Runs(f, SpecificArgs) PROVE SysexPlace'
      <4> DEFINE call == <<f, SpecificArgs>>
      <4>1. calls' = Append(calls, call) /\ call[1] = f /\ call[2] = SpecificArgs
        BY <3>2 DEF Runs
      <4>2. ToldRightly(call)
        <5>1. CASE f # "sysex"
          BY <4>1, <5>1 DEF ToldRightly
        <5>2. CASE f = "sysex"
          <6>1. input_state = "SYSEX"
            BY <5>2 DEF Matching, Dispatch
          <6>2. Completed
            BY <1>1, <2>2, <6>1 DEF CallSpecific, ChunkInv
          <6>3. /\ SysexLength \in 1 .. 3 /\ SysexLength <= Len(recent)
                /\ SubSeq(msg.bytes, 1, SysexLength)
                      = SubSeq(recent, Len(recent) - SysexLength + 1, Len(recent))
                /\ Len(SubSeq(msg.bytes, 1, SysexLength)) = SysexLength
                /\ SysexStart = (length - SysexLength) % CountRange
                /\ Len(recent) \in 0 .. 3
            BY <1>1, <6>2, ChunkTold DEF CountingInv
          <6>4. SysexLength \in 1 .. Len(recent)
            BY <6>3
          <6>5. call[2][1] = SysexStart /\ call[2][2] = SubSeq(msg.bytes, 1, SysexLength)
            BY <6>1 DEF SpecificArgs
          <6> HIDE DEF call
          <6> QED  BY <6>3, <6>4, <6>5 DEF ToldRightly
        <5> QED  BY <5>1, <5>2
      <4> HIDE DEF call
      <4>3. calls \in Seq({call})
        BY <3>1
      <4> QED  BY <1>1, <1>3, <4>1, <4>2, <4>3, CallAdded
    <3> QED  BY <2>1, <2>2, <3>2 DEF CallSpecific
  <2>3. CASE CallFallthrough
    BY <1>1, <1>3, <2>1, <2>3, OtherCall DEF CallFallthrough
  <2>4. CASE CallCatchall
    BY <1>1, <1>3, <2>1, <2>4, OtherCall DEF CallCatchall
  <2>5. CASE Return
    <3>1. calls' = <<>> /\ Len(calls') = 0
      BY <2>5 DEF Return
    <3> QED  BY <3>1 DEF SysexPlace
  <2> QED  BY <2>1, <2>2, <2>3, <2>4, <2>5
           DEF ReceptionNext, HandlerReturns, GoesBy, Program, Register, allVars, vars
<1> QED  BY <1>4, <1>5, <1>6 DEF PlaceInv

LEMMA PlaceStep == RInv /\ PlaceInv /\ [ReceptionNext]_allVars => PlaceInv'
<1> SUFFICES ASSUME RInv, PlaceInv, [ReceptionNext]_allVars PROVE PlaceInv'
  OBVIOUS
<1>1. CASE \A b \in Bytes : ~Hear(b)
  BY <1>1, PlaceQuiet
<1>2. ASSUME NEW b \in Bytes, Hear(b) PROVE PlaceInv'
  <2>1. CountingInv' /\ ChunkInv'
    BY <1>2, PlaceByte
  <2>2. IInv' /\ pc = "idle"
    BY <1>2, ReceptionStep, Step DEF RInv, Hear, ProcessByte
  <2>3. pc' \in {"idle", "specific"}
    BY <1>2, <2>2 DEF Hear, ProcessByte, RealtimeByte, StatusOne, StatusOfMessage, SysexBegin,
                      SysexEnd, StatusUndefined, DataIgnored, DataByte, Callbacks, NoCallbacks
  <2>4. calls' = <<>>
    BY <2>2, <2>3 DEF IInv, CallsInv
  <2>5. SysexPlace'
    <3>1. Len(calls') = 0
      BY <2>4
    <3> QED  BY <3>1 DEF SysexPlace
  <2> QED  BY <2>1, <2>5 DEF PlaceInv
<1> QED  BY <1>1, <1>2

(* Before the first byte. *)
LEMMA PlaceStart == ReceptionInit => PlaceInv
<1> SUFFICES ASSUME ReceptionInit PROVE PlaceInv
  OBVIOUS
<1>1. length = 0 /\ recent = <<>> /\ calls = <<>> /\ pc = "idle" /\ StateAfter = "IDLE"
  BY DEF ReceptionInit, Init, StateAfter
<1>2. recent \in Seq(Uint8) /\ Len(recent) = 0 /\ Len(calls) = 0
  BY <1>1
<1> QED  BY <1>1, <1>2 DEF PlaceInv, CountingInv, ChunkInv, SysexPlace

(* However long a system exclusive message is, whatever comes before it    *)
(* and whichever realtime bytes come into it, its callback gets the bytes  *)
(* that came last, and their place modulo the range of input_count         *)
(* (midi_process_byte, midi_input_callbacks).                              *)
THEOREM PlaceOfChunks == ReceptionSpec => []SysexPlace
<1>1. PlaceInv => SysexPlace
  BY DEF PlaceInv
<1> QED  BY <1>1, PlaceStart, PlaceStep, RStart, RStep, PTL DEF ReceptionSpec

-----------------------------------------------------------------------------
(* Calls of callbacks for a kind of message. *)

(* The call is one that NoFalseCall allows. *)
Due(call) ==
    \/ delivered # Wire!Nothing /\ call = DueCall
    \/ call[1] = "sysex" /\ length >= CountRange

(* What is being handled: a message of one byte that the wire has          *)
(* delivered, also within a system exclusive message if it is realtime; a  *)
(* chunk of a system exclusive message; a longer message; or bytes that    *)
(* match no kind of message.                                               *)
OneDue ==
    /\ input_state = "ONE"
    /\ \E x \in Uint8 :
          /\ midi_is_realtime(x) \/ (x = MIDI_TUNEREQUEST /\ status # SYSEX_BEGIN)
          /\ msg = [cnt |-> 1, bytes |-> <<x, 0, 0>>]
          /\ delivered = <<0, <<x>>>>

ChunkDue ==
    /\ input_state = "SYSEX"
    /\ \/ length >= CountRange
       \/ /\ delivered = Delivered
          /\ \/ status = SYSEX_BEGIN /\ ~midi_is_realtime(delivered[2][1])
             \/ delivered[2][Len(delivered[2])] = SYSEX_END

MessageDue ==
    /\ input_state \notin {"ONE", "SYSEX"}
    /\ status # SYSEX_BEGIN
    /\ msg.cnt \in {2, 3} /\ msg.bytes[msg.cnt] # SYSEX_END
    /\ delivered = Delivered

NothingDue ==
    /\ input_state \notin {"ONE", "SYSEX"}
    /\ msg.cnt # 1 /\ ~Long(msg.bytes[1])

DueInv == pc # "idle" => OneDue \/ ChunkDue \/ MessageDue \/ NothingDue

(* A status byte in slot 0 that data can follow is that of the wire. *)
SlotSync == StateAfter \in {"TWO", "THREE"} /\ Long(input_buffer[0]) => InSync

(* Up to the range of the count, a system exclusive message is followed. *)
SysexSync == StateAfter = "SYSEX" /\ length < CountRange => InSync

(* A chunk of it does not begin with a realtime byte. *)
WireInv ==
    status = SYSEX_BEGIN =>
        \/ data = <<>>
        \/ \E x \in Uint8 : ~midi_is_realtime(x) /\ data = <<x>>
        \/ \E x, y \in Uint8 : ~midi_is_realtime(x) /\ data = <<x, y>>

SyncInv == SlotSync /\ SysexSync /\ WireInv

(* The tables of midi_input_callbacks agree with the names of the messages *)
(* and with their lengths.                                                 *)
LEMMA Table ==
    ASSUME NEW x \in Uint8, NEW e \in Dispatch, e[2] = Kind(x)
    PROVE  /\ e[3] = Addressee(x)
           /\ e[1] \in {2, 3} => Long(x)
<1>1. \/ x >= 240 /\ Kind(x) = x
      \/ x < 240 /\ Kind(x) = HighNibble(x)
  BY DEF Kind, HighNibble, Uint8
<1>2. HighNibble(x) <= x /\ x <= HighNibble(x) + 15 /\ HighNibble(x) \in Nat /\ x \in Nat
  BY DEF HighNibble, Uint8
<1>3. CASE x >= 240
  <2>1. Kind(x) = x
    BY <1>1, <1>3 DEF Uint8
  <2>2. \/ e = <<3, 242, "songposition">> \/ e = <<2, 243, "songselect">>
        \/ e = <<2, 241, "tc_quarterframe">> \/ e = <<1, 246, "tunerequest">>
    BY <1>3, <2>1
       DEF Dispatch, MIDI_CC, MIDI_NOTEON, MIDI_NOTEOFF, MIDI_AFTERTOUCH, MIDI_PITCHBEND,
           MIDI_PROGCHANGE, MIDI_CHANPRESSURE, MIDI_SONGPOSITION, MIDI_SONGSELECT,
           MIDI_TC_QUARTERFRAME, MIDI_TUNEREQUEST
  <2>3. e[3] = Addressee(x)
    BY <2>1, <2>2 DEF Addressee
  <2>4. e[1] \in {2, 3} => x \in {241, 242, 243}
    BY <2>1, <2>2
  <2>5. \A z \in {241, 242, 243} : Long(z)
    BY DEF Long, midi_is_statusbyte, midi_packet_length, HighNibble, MIDI_CC, MIDI_NOTEON,
           MIDI_NOTEOFF, MIDI_AFTERTOUCH, MIDI_PITCHBEND, MIDI_PROGCHANGE, MIDI_CHANPRESSURE,
           MIDI_CLOCK, MIDI_TUNEREQUEST, MIDI_SONGPOSITION, MIDI_TC_QUARTERFRAME,
           MIDI_SONGSELECT, ListedRealtime, UNDEFINED, ONE, TWO, THREE
  <2> QED  BY <2>3, <2>4, <2>5
<1>4. CASE x < 240
  <2>1. Kind(x) = HighNibble(x) /\ HighNibble(x) < 240
    BY <1>1, <1>2, <1>4
  <2>2. \/ e = <<3, 176, "cc">> \/ e = <<3, 144, "noteon">> \/ e = <<3, 128, "noteoff">>
        \/ e = <<3, 160, "aftertouch">> \/ e = <<3, 224, "pitchbend">>
        \/ e = <<2, 192, "progchange">> \/ e = <<2, 208, "chanpressure">>
    BY <1>2, <2>1
       DEF Dispatch, MIDI_CC, MIDI_NOTEON, MIDI_NOTEOFF, MIDI_AFTERTOUCH, MIDI_PITCHBEND,
           MIDI_PROGCHANGE, MIDI_CHANPRESSURE, MIDI_SONGPOSITION, MIDI_SONGSELECT,
           MIDI_TC_QUARTERFRAME, MIDI_TUNEREQUEST
  <2>3. e[2] = HighNibble(x)
    BY <2>1
  <2>4. e[3] = Addressee(x)
    BY <1>2, <1>4, <2>2, <2>3 DEF Addressee
  <2>5. HighNibble(x) \in {176, 144, 128, 160, 224, 192, 208}
    BY <2>2, <2>3
  <2>6. midi_packet_length(x) \in {TWO, THREE}
    BY <1>2, <1>4, <2>5
       DEF midi_packet_length, MIDI_CC, MIDI_NOTEON, MIDI_NOTEOFF, MIDI_AFTERTOUCH,
           MIDI_PITCHBEND, MIDI_PROGCHANGE, MIDI_CHANPRESSURE, MIDI_TUNEREQUEST,
           MIDI_SONGPOSITION, MIDI_TC_QUARTERFRAME, MIDI_SONGSELECT, ListedRealtime,
           UNDEFINED, ONE, TWO, THREE
  <2>7. midi_is_statusbyte(x)
    BY <1>2, <2>5 DEF midi_is_statusbyte
  <2> QED  BY <2>4, <2>6, <2>7 DEF Long
<1> QED  BY <1>3, <1>4 DEF Uint8

(* The channel is taken off the same status bytes. *)
LEMMA Channel ==
    ASSUME NEW x \in Uint8
    PROVE  Unchanneled(x) = IF x < 240 THEN x % 16 ELSE x
<1>1. HighNibble(x) = 240 <=> x >= 240
  BY DEF HighNibble, Uint8
<1> QED  BY <1>1 DEF Unchanneled, LowNibble, Uint8

(* A message that completes while sender and parser agree is the same for  *)
(* both.                                                                   *)
LEMMA DeliveredAlike ==
    ASSUME InSync, NEW b \in Bytes, Stream!Receive(b), Wire!Receive(b),
           ~midi_is_statusbyte(b) \/ b = SYSEX_END, Delivered' # Stream!Nothing,
           status # Wire!NoStatus
    PROVE  /\ delivered' = Delivered' /\ delivered' # Wire!Nothing
           /\ status = SYSEX_BEGIN => delivered' = <<offset, Append(data, b)>>
           /\ ~midi_is_statusbyte(b) => status' = status
<1>1. b \in Uint8 /\ ~midi_is_realtime(b) /\ b # SYSEX_BEGIN
  BY BytesAssumption, SysexBytes
<1>2. StatusInForce = status /\ DataHeard = data /\ OffsetHeard = offset
  BY DEF InSync
<1>3. delivered = Wire!Nothing /\ Delivered = Stream!Nothing
  BY DEF Wire!Receive, Stream!Receive
<1>4. Stream!SysexStop(b) \/ Stream!SysexData(b) \/ Stream!Data(b)
  BY <1>1, <1>2, <1>3, SameBytes, WireBytes, SysexBytes
     DEF Stream!Receive, Stream!Realtime, Stream!Status, Stream!SysexStart, Stream!Ignored,
         Stream!stream
<1>5. CASE b = SYSEX_END
  <2>1. Stream!SysexStop(b) /\ status = SYSEX_BEGIN
    BY <1>2, <1>4, <1>5, SameBytes, SysexBytes DEF Stream!SysexStop, Stream!SysexData, Stream!Data
  <2>2. Wire!SysexStop(b)
    BY <1>1, <1>5, <2>1, WireBytes, SysexBytes
       DEF Wire!Receive, Wire!Realtime, Wire!Status, Wire!SysexStart, Wire!SysexData, Wire!Data,
           Wire!Ignored
  <2>3. Delivered' = <<offset, Append(data, b)>> /\ delivered' = <<offset, Append(data, b)>>
    BY <1>2, <2>1, <2>2 DEF Stream!SysexStop, Stream!Deliver, Stream!Message, Wire!SysexStop,
                            Wire!Deliver, Wire!Message
  <2> QED  BY <1>5, <2>3, WireBytes, SysexBytes
<1>6. CASE ~midi_is_statusbyte(b)
  <2>1. Stream!SysexData(b) \/ Stream!Data(b)
    BY <1>4, <1>6, SameBytes, SysexBytes DEF Stream!SysexStop
  <2>2. Wire!SysexData(b) \/ Wire!Data(b)
    BY <1>1, <1>6, WireBytes, SysexBytes
       DEF Wire!Receive, Wire!Realtime, Wire!Status, Wire!SysexStart, Wire!SysexStop, Wire!Ignored
  <2>3. CASE status = SYSEX_BEGIN
    <3>1. Stream!SysexData(b) /\ Wire!SysexData(b)
      BY <1>2, <2>1, <2>2, <2>3, SameBytes, WireBytes DEF Stream!Data, Wire!Data
    <3>2. Len(data) = 2 /\ Delivered' = <<offset, Append(data, b)>>
      BY <1>2, <1>3, <3>1 DEF Stream!SysexData, Stream!Deliver, Stream!Message
    <3>3. delivered' = <<offset, Append(data, b)>> /\ status' = status
      BY <3>1, <3>2 DEF Wire!SysexData, Wire!Deliver, Wire!Message
    <3> QED  BY <3>2, <3>3, WireBytes
  <2>4. CASE status # SYSEX_BEGIN
    <3>1. Stream!Data(b) /\ Wire!Data(b)
      BY <1>2, <2>1, <2>2, <2>4, SameBytes, WireBytes DEF Stream!SysexData, Wire!SysexData
    <3>2. Stream!midi_packet_length(status) = Wire!midi_packet_length(status)
      BY SameBytes, WireBytes
    <3>3. Len(data) + 2 = Stream!midi_packet_length(status)
          /\ Delivered' = <<0, <<status>> \o Append(data, b)>>
      BY <1>2, <1>3, <3>1 DEF Stream!Data, Stream!Deliver, Stream!Message
    <3>4. delivered' = <<0, <<status>> \o Append(data, b)>> /\ status' = status
      BY <3>1, <3>2, <3>3 DEF Wire!Data, Wire!Deliver, Wire!Message
    <3> QED  BY <2>4, <3>3, <3>4, WireBytes
  <2> QED  BY <2>3, <2>4
<1> QED  BY <1>5, <1>6

(* Two calls with the same arguments. *)
LEMMA SameArgs ==
    ASSUME NEW m \in [1 .. 3 -> Uint8], NEW k \in 1 .. 3
    PROVE  LET s == SubSeq(m, 1, k) IN
           /\ Len(s) = k /\ s[1] = m[1] /\ s[k] = m[k]
           /\ [i \in 1 .. k |-> IF i = 1 THEN Unchanneled(m[1]) ELSE m[i]]
                = [i \in 1 .. Len(s) |-> IF i = 1 /\ s[1] < 240 THEN s[1] % 16 ELSE s[i]]
<1> DEFINE s == SubSeq(m, 1, k)
<1>1. Len(s) = k /\ \A i \in 1 .. k : s[i] = m[i]
  <2>1. 1 <= k /\ k - 1 + 1 = k /\ \A i \in 1 .. k : 1 + i - 1 = i
    OBVIOUS
  <2>2. \A i \in 1 .. k : m[i] \in Uint8
    OBVIOUS
  <2> QED  BY <2>1, <2>2, SubSeqProperties
<1>2. Unchanneled(m[1]) = IF m[1] < 240 THEN m[1] % 16 ELSE m[1]
  BY Channel
<1>3. 1 \in 1 .. k /\ k \in 1 .. k
  OBVIOUS
<1> HIDE DEF s
<1>4. \A i \in 1 .. k : (IF i = 1 THEN Unchanneled(m[1]) ELSE m[i])
                           = (IF i = 1 /\ s[1] < 240 THEN s[1] % 16 ELSE s[i])
  BY <1>1, <1>2, <1>3
<1>5. [i \in 1 .. k |-> IF i = 1 THEN Unchanneled(m[1]) ELSE m[i]]
        = [i \in 1 .. Len(s) |-> IF i = 1 /\ s[1] < 240 THEN s[1] % 16 ELSE s[i]]
  BY <1>1, <1>4
<1> QED  BY <1>1, <1>3, <1>5 DEF s

(* What is being handled makes no false call. *)
LEMMA DueIsRight ==
    ASSUME IInv, DueInv, pc # "idle", NEW f \in Matching
    PROVE  Due(<<f, SpecificArgs>>)
<1>1. msg.bytes \in [1 .. 3 -> Uint8] /\ msg.bytes[1] \in Uint8 /\ msg.cnt \in Nat
  BY CountRangeAssumption DEF IInv, TypeOK
<1>2. ASSUME input_state # "SYSEX"
      PROVE  \/ \E e \in Dispatch : e[1] = msg.cnt /\ e[2] = Kind(msg.bytes[1]) /\ e[3] = f
             \/ f = "realtime" /\ msg.cnt = 1 /\ midi_is_realtime(msg.bytes[1])
  BY <1>2 DEF Matching
<1>3. ASSUME NEW x \in Uint8, midi_is_realtime(x) PROVE Addressee(x) = "realtime"
  BY <1>3 DEF Addressee, midi_is_realtime, MIDI_CLOCK, Uint8
<1>4. CASE OneDue
  <2>1. PICK x \in Uint8 :
          /\ midi_is_realtime(x) \/ (x = MIDI_TUNEREQUEST /\ status # SYSEX_BEGIN)
          /\ msg = [cnt |-> 1, bytes |-> <<x, 0, 0>>]
          /\ delivered = <<0, <<x>>>>
    BY <1>4 DEF OneDue
  <2>2. msg.cnt = 1 /\ msg.bytes[1] = x /\ input_state = "ONE"
    BY <1>4, <2>1 DEF OneDue
  <2>3. f = Addressee(x)
    BY <1>2, <1>3, <2>2, Table
  <2>4. SpecificArgs = <<x>>
    <3>1. Unchanneled(x) = x
      BY <2>1, Channel DEF midi_is_realtime, MIDI_CLOCK, MIDI_TUNEREQUEST, Uint8
    <3>2. [i \in 1 .. 1 |-> IF i = 1 THEN Unchanneled(x) ELSE msg.bytes[i]] = <<x>>
      BY <3>1
    <3> QED  BY <2>2, <3>2 DEF SpecificArgs
  <2>5. DueCall = <<Addressee(x), <<x>>>>
    <3>1. x # SYSEX_END /\ ~(x < 240)
      BY <2>1 DEF midi_is_realtime, MIDI_CLOCK, MIDI_TUNEREQUEST, SYSEX_END, Uint8
    <3>2. [i \in 1 .. Len(<<x>>) |-> IF i = 1 /\ <<x>>[1] < 240 THEN <<x>>[1] % 16 ELSE <<x>>[i]] = <<x>>
      BY <3>1
    <3>3. delivered[2] = <<x>> /\ <<x>>[1] = x /\ <<x>>[Len(<<x>>)] = x
      BY <2>1
    <3> QED  BY <2>1, <3>1, <3>2, <3>3 DEF DueCall
  <2>6. delivered # Wire!Nothing
    BY <2>1 DEF Wire!Nothing
  <2> QED  BY <2>3, <2>4, <2>5, <2>6 DEF Due
<1>5. CASE ChunkDue
  <2>1. f = "sysex" /\ input_state = "SYSEX"
    BY <1>5 DEF ChunkDue, Matching
  <2>2. CASE length >= CountRange
    BY <2>1, <2>2 DEF Due
  <2>3. CASE delivered = Delivered
             /\ \/ status = SYSEX_BEGIN /\ ~midi_is_realtime(delivered[2][1])
                \/ delivered[2][Len(delivered[2])] = SYSEX_END
    <3>1. SpecificArgs = delivered /\ delivered # Wire!Nothing
      BY <2>1, <2>3 DEF SpecificArgs, Delivered, Wire!Nothing
    <3>2. DueCall = <<"sysex", delivered>>
      BY <2>3 DEF DueCall
    <3> QED  BY <2>1, <3>1, <3>2 DEF Due
  <2> QED  BY <1>5, <2>2, <2>3 DEF ChunkDue
<1>6. CASE MessageDue
  <2> DEFINE m == msg.bytes
             k == msg.cnt
             s == SubSeq(m, 1, k)
  <2>1. delivered = <<0, s>> /\ k \in 1 .. 3 /\ k # 1 /\ status # SYSEX_BEGIN /\ m[k] # SYSEX_END
        /\ input_state # "SYSEX"
    BY <1>6 DEF MessageDue, Delivered
  <2>2. f = Addressee(m[1])
    BY <1>1, <1>2, <2>1, Table
  <2>3. /\ Len(s) = k /\ s[1] = m[1] /\ s[k] = m[k]
        /\ [i \in 1 .. k |-> IF i = 1 THEN Unchanneled(m[1]) ELSE m[i]]
             = [i \in 1 .. Len(s) |-> IF i = 1 /\ s[1] < 240 THEN s[1] % 16 ELSE s[i]]
    BY <1>1, <2>1, SameArgs
  <2>4. SpecificArgs = [i \in 1 .. k |-> IF i = 1 THEN Unchanneled(m[1]) ELSE m[i]]
    BY <2>1 DEF SpecificArgs
  <2> HIDE DEF s
  <2>5. delivered[2] = s
    BY <2>1
  <2>6. DueCall = <<Addressee(s[1]),
                    [i \in 1 .. Len(s) |-> IF i = 1 /\ s[1] < 240 THEN s[1] % 16 ELSE s[i]]>>
    BY <2>1, <2>3, <2>5 DEF DueCall
  <2>7. delivered # Wire!Nothing
    BY <2>1 DEF Wire!Nothing
  <2> QED  BY <2>2, <2>3, <2>4, <2>6, <2>7 DEF Due
<1>7. CASE NothingDue
  <2>1. \A e \in Dispatch : e[1] \in {1, 2, 3}
    BY DEF Dispatch
  <2>2. input_state # "SYSEX" /\ msg.cnt # 1 /\ ~Long(msg.bytes[1])
    BY <1>7 DEF NothingDue
  <2> QED  BY <1>1, <1>2, <2>1, <2>2, Table
<1> QED  BY <1>4, <1>5, <1>6, <1>7 DEF DueInv

(* A chunk, by its first byte and its last one. *)
LEMMA ChunkEnds ==
    ASSUME WireInv, status = SYSEX_BEGIN, NEW b \in Uint8, ~midi_is_realtime(b)
    PROVE  /\ ~midi_is_realtime(Append(data, b)[1])
           /\ Append(data, b)[Len(Append(data, b))] = b
<1>1. CASE data = <<>>
  <2>1. Append(data, b) = <<b>>
    BY <1>1, AppendIs
  <2> QED  BY <2>1
<1>2. ASSUME NEW x \in Uint8, ~midi_is_realtime(x), data = <<x>>
      PROVE  /\ ~midi_is_realtime(Append(data, b)[1])
             /\ Append(data, b)[Len(Append(data, b))] = b
  <2>1. Append(data, b) = <<x, b>>
    BY <1>2, AppendIs
  <2>2. <<x, b>>[1] = x /\ <<x, b>>[Len(<<x, b>>)] = b
    OBVIOUS
  <2> QED  BY <1>2, <2>1, <2>2
<1>3. ASSUME NEW x \in Uint8, NEW y \in Uint8, ~midi_is_realtime(x), data = <<x, y>>
      PROVE  /\ ~midi_is_realtime(Append(data, b)[1])
             /\ Append(data, b)[Len(Append(data, b))] = b
  <2>1. Append(data, b) = <<x, y, b>>
    BY <1>3, AppendIs
  <2>2. <<x, y, b>>[1] = x /\ <<x, y, b>>[Len(<<x, y, b>>)] = b
    OBVIOUS
  <2> QED  BY <1>3, <2>1, <2>2
<1> QED  BY <1>1, <1>2, <1>3 DEF WireInv

LEMMA WireByte ==
    ASSUME WireInv, NEW b \in Bytes, Wire!Receive(b)
    PROVE  WireInv'
<1>1. b \in Uint8
  BY BytesAssumption
<1>2. CASE midi_is_realtime(b) \/ (~midi_is_statusbyte(b) /\ status # SYSEX_BEGIN)
  <2>1. status' = status /\ (data' = data \/ status # SYSEX_BEGIN)
    BY <1>2, WireStatus
  <2> QED  BY <2>1 DEF WireInv
<1>3. CASE Status(b) /\ b # SYSEX_BEGIN
  <2>1. status' # SYSEX_BEGIN
    BY <1>3, StatusCases, WireStatus, SysexBytes DEF Status
  <2> QED  BY <2>1 DEF WireInv
<1>4. CASE b = SYSEX_BEGIN
  <2>1. data' = <<b>> /\ ~midi_is_realtime(b)
    BY <1>4, WireStatus, SysexBytes
  <2> QED  BY <1>1, <2>1 DEF WireInv
<1>5. CASE ~midi_is_statusbyte(b) /\ status = SYSEX_BEGIN
  <2>1. ~midi_is_realtime(b) /\ b # SYSEX_BEGIN /\ b # SYSEX_END
    BY <1>1, <1>5, SysexBytes
  <2>2. Wire!SysexData(b)
    BY <1>1, <1>5, <2>1, WireBytes, SysexBytes
       DEF Wire!Receive, Wire!Realtime, Wire!Status, Wire!SysexStart, Wire!SysexStop, Wire!Data,
           Wire!Ignored
  <2>3. data' = <<>> \/ (Len(data) < 2 /\ data' = Append(data, b))
    BY <2>2 DEF Wire!SysexData
  <2>4. CASE data' = <<>>
    BY <2>4 DEF WireInv
  <2>5. CASE data = <<>> /\ data' = Append(data, b)
    <3>1. data' = <<b>>
      BY <2>5, AppendIs
    <3> QED  BY <1>1, <2>1, <3>1 DEF WireInv
  <2>6. ASSUME NEW x \in Uint8, ~midi_is_realtime(x), data = <<x>>, data' = Append(data, b)
        PROVE  WireInv'
    <3>1. data' = <<x, b>>
      BY <2>6, AppendIs
    <3> QED  BY <1>1, <2>6, <3>1 DEF WireInv
  <2>7. ASSUME NEW x \in Uint8, NEW y \in Uint8, data = <<x, y>> PROVE Len(data) = 2
    BY <2>7
  <2> QED  BY <1>5, <2>3, <2>4, <2>5, <2>6, <2>7 DEF WireInv
<1> QED  BY <1>2, <1>3, <1>4, <1>5 DEF Status

(* A byte of a system exclusive message, shorter than the range of the     *)
(* count, is one an orderly sender sends.                                  *)
LEMMA ShortIsOrderly ==
    ASSUME RInv, PlaceInv, SyncInv, NEW b \in Bytes, Hear(b), SysexEnd(b) \/ DataByte(b),
           input_state = "SYSEX", length' < CountRange
    PROVE  /\ length' = length + 1 /\ input_count = length /\ InSync
           /\ Orderly(b) /\ KeptInv
<1>1. IInv /\ KindInv /\ CountingInv /\ pc = "idle" /\ branch = "none" /\ SysexGrows(b)
  BY DEF RInv, PlaceInv, Hear, ProcessByte, IInv, TypeOK
<1>2. StateAfter = "SYSEX" /\ CountAfter = input_count /\ status = SYSEX_BEGIN
  BY <1>1 DEF StateAfter, CountAfter, KindInv
<1>3. b # SYSEX_BEGIN /\ (b = SYSEX_END \/ ~midi_is_statusbyte(b))
  BY SysexBytes DEF SysexEnd, DataByte
<1>4. length' = length + 1 /\ length \in Nat
  BY <1>1, <1>2, <1>3 DEF SysexGrows, CountingInv
<1>5. CountRange \in Nat /\ CountRange > 3
  BY CountRangeAssumption
<1>6. length < CountRange
  BY <1>4, <1>5
<1>7. length % CountRange = length
  BY <1>4, <1>5, <1>6
<1>8. input_count = length
  BY <1>1, <1>2, <1>7 DEF CountingInv
<1>9. midi_packet_length(b) \notin {TWO, THREE}
  BY <1>3, SysexBytes, PacketLengths, BytesAssumption
<1>10. Orderly(b)
  BY <1>4, <1>8, <1>9 DEF Orderly
<1>11. InSync
  BY <1>2, <1>6 DEF SyncInv, SysexSync
<1> QED  BY <1>2, <1>4, <1>8, <1>10, <1>11 DEF KeptInv

LEMMA SyncByte ==
    ASSUME RInv, PlaceInv, SyncInv, NEW b \in Bytes, Hear(b)
    PROVE  SyncInv'
<1>1. ProcessByte(b) /\ Wire!Receive(b) /\ SysexGrows(b) /\ IInv /\ KindInv /\ SlotInv
      /\ SlotSync /\ SysexSync /\ WireInv /\ pc = "idle" /\ branch = "none"
      /\ input_buffer \in [0 .. 2 -> Uint8]
  BY DEF RInv, SyncInv, Hear, ProcessByte, IInv, TypeOK
<1>2. StateAfter = input_state
  BY <1>1 DEF StateAfter
<1>3. WireInv'
  BY <1>1, WireByte
<1>4. CASE midi_is_realtime(b)
  <2>1. UNCHANGED <<StateAfter, CountAfter, input_buffer>> /\ UNCHANGED <<status, data, offset>>
    BY <1>1, <1>4, ParserStatus, WireStatus
  <2>2. InSync => InSync'
    BY <2>1, SameHeard DEF InSync
  <2>3. midi_is_statusbyte(b) /\ b # SYSEX_BEGIN /\ b # SYSEX_END
    BY <1>4, SysexBytes, BytesAssumption
  <2>4. length' = length
    BY <1>1, <2>3 DEF SysexGrows, sysex
  <2> QED  BY <1>1, <1>3, <2>1, <2>2, <2>4 DEF SyncInv, SlotSync, SysexSync
<1>5. CASE Status(b) /\ (input_state # "SYSEX" \/ b = SYSEX_BEGIN \/ midi_packet_length(b) \notin {TWO, THREE})
  <2>1. InSync'
    BY <1>1, <1>5, Resynchronises DEF RInv
  <2> QED  BY <1>3, <2>1 DEF SyncInv, SlotSync, SysexSync
<1>6. CASE Status(b) /\ input_state = "SYSEX" /\ midi_packet_length(b) \in {TWO, THREE}
  <2>1. StateAfter' # "SYSEX" /\ input_buffer' = input_buffer
    BY <1>1, <1>6, ParserStatus DEF StoredBuffer
  <2>2. ~Long(input_buffer[0])
    BY <1>1, <1>2, <1>6 DEF SlotInv
  <2> QED  BY <1>3, <2>1, <2>2 DEF SyncInv, SlotSync, SysexSync
<1>7. CASE DataIgnored(b)
  <2>1. StateAfter' = "IDLE"
    BY <1>1, <1>2, <1>7, ParserStatus DEF DataIgnored
  <2> QED  BY <1>3, <2>1 DEF SyncInv, SlotSync, SysexSync
<1>8. CASE DataByte(b) /\ input_state # "SYSEX"
  <2>1. StateAfter' # "SYSEX"
    BY <1>1, <1>2, <1>8, ParserStatus DEF DataByte
  <2>2. CASE Long(input_buffer[0])
    <3>1. input_state \in {"TWO", "THREE"}
      BY <1>1, <1>8 DEF DataByte, IInv, TypeOK, InputState
    <3>2. InSync
      BY <1>1, <1>2, <2>2, <3>1 DEF SlotSync
    <3>3. InSync'
      BY <1>8, <3>2, SyncKept
    <3> QED  BY <1>3, <2>1, <3>3 DEF SyncInv, SlotSync, SysexSync
  <2>3. CASE ~Long(input_buffer[0])
    <3>1. input_buffer' = [input_buffer EXCEPT ![input_count % 3] = b] /\ ~midi_is_statusbyte(b)
      BY <1>8 DEF DataByte
    <3>2. ~Long(input_buffer'[0])
      BY <1>1, <2>3, <3>1 DEF Long
    <3> QED  BY <1>3, <2>1, <3>2 DEF SyncInv, SlotSync, SysexSync
  <2> QED  BY <2>2, <2>3
<1>9. CASE DataByte(b) /\ input_state = "SYSEX"
  <2>1. StateAfter' = "SYSEX"
    BY <1>1, <1>2, <1>9, ParserStatus DEF DataByte
  <2>2. ASSUME length' < CountRange PROVE InSync'
    <3>1. length' = length + 1 /\ input_count = length /\ InSync /\ Orderly(b) /\ length \in Nat
      BY <1>9, <2>2, ShortIsOrderly DEF PlaceInv, CountingInv
    <3>2. input_state' = "SYSEX" /\ input_count' = Plus1(input_count)
      BY <1>9 DEF DataByte
    <3>3. Plus1(input_count) = input_count + 1
      BY <2>2, <3>1, CountRangeAssumption, CountIs
    <3>4. ~(input_count' < input_count)
      BY <3>1, <3>2, <3>3
    <3> QED  BY <3>1, <3>2, <3>4, SyncKept
  <2> QED  BY <1>3, <2>1, <2>2 DEF SyncInv, SlotSync, SysexSync
<1>10. midi_is_realtime(b) \/ Status(b) \/ DataIgnored(b) \/ DataByte(b)
  BY <1>1, SysexBytes
     DEF ProcessByte, RealtimeByte, StatusOne, StatusOfMessage, SysexBegin, SysexEnd,
         StatusUndefined, Status
<1> QED  BY <1>4, <1>5, <1>6, <1>7, <1>8, <1>9, <1>10

(* A byte that is a message of its own. *)
LEMMA OneByteDue ==
    ASSUME NEW b \in Bytes, ProcessByte(b), Wire!Receive(b), RealtimeByte(b) \/ StatusOne(b)
    PROVE  OneDue'
<1>1. b \in Uint8 /\ input_state' = "ONE" /\ msg' = [cnt |-> 1, bytes |-> <<b, 0, 0>>]
  BY BytesAssumption DEF RealtimeByte, StatusOne, Callbacks
<1>2. CASE midi_is_realtime(b)
  <2>1. midi_is_statusbyte(b) /\ b # SYSEX_BEGIN /\ b # SYSEX_END
    BY <1>1, <1>2, SysexBytes
  <2>2. Wire!Realtime(b)
    BY <1>2, <2>1, WireBytes
       DEF Wire!Receive, Wire!Status, Wire!SysexStart, Wire!SysexStop, Wire!SysexData, Wire!Data,
           Wire!Ignored
  <2>3. delivered' = <<0, <<b>>>>
    BY <2>2 DEF Wire!Realtime, Wire!Deliver, Wire!Message
  <2> QED  BY <1>1, <1>2, <2>3 DEF OneDue
<1>3. CASE StatusOne(b)
  <2>1. Status(b) /\ midi_packet_length(b) = ONE /\ b # SYSEX_BEGIN /\ b # SYSEX_END
    BY <1>3, SysexBytes DEF StatusOne
  <2>2. b = MIDI_TUNEREQUEST
    BY <1>1, <2>1
       DEF Status, midi_packet_length, midi_is_realtime, midi_is_statusbyte, HighNibble, Uint8, MIDI_CC,
           MIDI_NOTEON, MIDI_NOTEOFF, MIDI_AFTERTOUCH, MIDI_PITCHBEND, MIDI_PROGCHANGE,
           MIDI_CHANPRESSURE, MIDI_CLOCK, MIDI_TUNEREQUEST, MIDI_SONGPOSITION,
           MIDI_TC_QUARTERFRAME, MIDI_SONGSELECT, ListedRealtime, UNDEFINED, ONE, TWO, THREE
  <2>3. Wire!Status(b)
    BY <2>1, WireBytes
       DEF Status, Wire!Receive, Wire!Realtime, Wire!SysexStart, Wire!SysexStop, Wire!SysexData,
           Wire!Data, Wire!Ignored
  <2>4. delivered' = <<0, <<b>>>>
    BY <2>1, <2>3, WireBytes, SysexBytes DEF Wire!Status, Wire!Deliver, Wire!Message
  <2>5. status' # SYSEX_BEGIN
    BY <2>1, WireStatus, SysexBytes
  <2> QED  BY <1>1, <2>2, <2>4, <2>5 DEF OneDue
<1> QED  BY <1>2, <1>3 DEF RealtimeByte

(* A byte that completes a chunk. *)
LEMMA ChunkByteDue ==
    ASSUME RInv, PlaceInv, SyncInv, NEW b \in Bytes, Hear(b), SysexEnd(b) \/ DataByte(b),
           input_state = "SYSEX", pc' # "idle"
    PROVE  ChunkDue'
<1>1. input_state' = "SYSEX"
  BY DEF SysexEnd, DataByte
<1>2. CASE ~(length' < CountRange)
  <2>1. length' \in Nat /\ CountRange \in Nat
    BY PlaceByte, CountRangeAssumption DEF CountingInv
  <2> QED  BY <1>1, <1>2, <2>1 DEF ChunkDue
<1>3. CASE length' < CountRange
  <2>1. InSync /\ Orderly(b) /\ KeptInv
    BY <1>3, ShortIsOrderly
  <2>2. ProcessByte(b) /\ Wire!Receive(b) /\ IInv /\ KindInv /\ WireInv /\ branch = "none"
    BY DEF Hear, RInv, SyncInv, ProcessByte, IInv, TypeOK
  <2>3. Stream!Receive(b)
    BY <2>1, <2>2, ByteMaps DEF Maps
  <2>4. status = SYSEX_BEGIN
    BY <2>2 DEF StateAfter, KindInv
  <2>5. Delivered' # Stream!Nothing
    BY <2>2, Mapped DEF Next, DeliveredIs
  <2>6. b \in Uint8 /\ ~midi_is_realtime(b) /\ (b = SYSEX_END \/ ~midi_is_statusbyte(b))
    BY SysexBytes, BytesAssumption DEF SysexEnd, DataByte
  <2>7. /\ delivered' = Delivered' /\ delivered' = <<offset, Append(data, b)>>
        /\ ~midi_is_statusbyte(b) => status' = status
    BY <2>1, <2>2, <2>3, <2>4, <2>5, <2>6, DeliveredAlike, SysexBytes
  <2>8. delivered'[2] = Append(data, b)
    BY <2>7
  <2>9. ~midi_is_realtime(delivered'[2][1]) /\ delivered'[2][Len(delivered'[2])] = b
    BY <2>2, <2>4, <2>6, <2>8, ChunkEnds
  <2> QED  BY <1>1, <2>4, <2>6, <2>7, <2>9 DEF ChunkDue
<1> QED  BY <1>2, <1>3

(* A byte that completes a message of two or three bytes. *)
LEMMA MessageByteDue ==
    ASSUME RInv, SyncInv, NEW b \in Bytes, Hear(b), DataByte(b), input_state # "SYSEX",
           Long(input_buffer[0]), pc' # "idle"
    PROVE  MessageDue'
<1>1. ProcessByte(b) /\ Wire!Receive(b) /\ IInv /\ KindInv /\ SlotInv /\ SlotSync /\ pc = "idle"
      /\ branch = "none" /\ input_buffer \in [0 .. 2 -> Uint8]
      /\ input_state \in {"IDLE", "TWO", "THREE", "SYSEX"}
  BY DEF Hear, RInv, SyncInv, ProcessByte, IInv, TypeOK, InputState
<1>2. StateAfter = input_state /\ CountAfter = input_count /\ input_state \in {"TWO", "THREE"}
      /\ b # SYSEX_END /\ ~midi_is_statusbyte(b) /\ input_state' = input_state
  BY <1>1, SysexBytes DEF StateAfter, CountAfter, DataByte
<1>3. KeptInv /\ InSync
  BY <1>1, <1>2 DEF SlotInv, SlotSync
<1>4. HeardIs /\ DeliveredIs /\ HeardIs' /\ DeliveredIs'
  BY <1>1, Mapped DEF Next
<1>5. Stream!Receive(b)
  BY <1>1, <1>3, <1>4, DataMaps DEF Maps
<1>6. status \notin {SYSEX_BEGIN, Wire!NoStatus}
  BY <1>1, <1>2 DEF KindInv
<1>7. delivered' = Delivered' /\ status' = status
  BY <1>1, <1>2, <1>3, <1>4, <1>5, <1>6, DeliveredAlike DEF DeliveredIs
<1>8. msg'.cnt \in {2, 3} /\ msg'.bytes[msg'.cnt] = b
  <2>1. 1 % 3 = 1 /\ 2 % 3 = 2 /\ Plus1(1) = 2 /\ Plus1(2) = 3
    <3>1. CountRange \in Nat /\ CountRange > 3
      BY CountRangeAssumption
    <3> QED  BY <3>1 DEF Plus1
  <2>2. input_count \in 1 .. (IF input_state = "TWO" THEN 1 ELSE 2)
    BY <1>2, <1>3 DEF KeptInv
  <2>3. CASE input_count = 1
    <3>1. msg' = [cnt |-> 2, bytes |-> <<input_buffer'[0], input_buffer'[1], 0>>]
          /\ input_buffer' = [input_buffer EXCEPT ![1] = b]
      BY <1>1, <2>1, <2>3 DEF DataByte, Callbacks, NoCallbacks
    <3>2. msg'.cnt = 2 /\ msg'.bytes[2] = input_buffer'[1] /\ input_buffer'[1] = b
      BY <1>1, <3>1
    <3> QED  BY <3>2
  <2>4. CASE input_count = 2
    <3>1. msg' = [cnt |-> 3, bytes |-> <<input_buffer'[0], input_buffer'[1], input_buffer'[2]>>]
          /\ input_buffer' = [input_buffer EXCEPT ![2] = b]
      BY <1>1, <2>1, <2>4 DEF DataByte, Callbacks, NoCallbacks
    <3>2. msg'.cnt = 3 /\ msg'.bytes[3] = input_buffer'[2] /\ input_buffer'[2] = b
      BY <1>1, <3>1
    <3> QED  BY <3>2
  <2> QED  BY <2>2, <2>3, <2>4
<1> QED  BY <1>2, <1>6, <1>7, <1>8 DEF MessageDue

(* A byte after what is no status byte, and a stray SYSEX_END. *)
LEMMA NothingByteDue ==
    ASSUME IInv, NEW b \in Bytes, ProcessByte(b), input_state # "SYSEX", pc' # "idle",
           SysexEnd(b) \/ (DataByte(b) /\ ~Long(input_buffer[0]))
    PROVE  NothingDue'
<1>1. /\ pc = "idle" /\ input_state \in {"IDLE", "TWO", "THREE"}
      /\ input_buffer \in [0 .. 2 -> Uint8] /\ input_count \in 0 .. CountRange - 1
  BY DEF ProcessByte, IInv, TypeOK, InputState
<1>2. CountRange \in Nat /\ CountRange > 3
  BY CountRangeAssumption
<1>3. CASE SysexEnd(b)
  <2>1. 1 % 3 = 1 /\ Plus1(1) = 2 /\ StoredCount = 1
    BY <1>2 DEF Plus1, StoredCount
  <2>2. input_buffer'[0] = b
    BY <1>1, <1>3, <2>1 DEF SysexEnd, StoredBuffer
  <2>3. msg'.cnt = 2 /\ msg'.bytes[1] = b /\ b = SYSEX_END /\ input_state' = input_state
    BY <1>3, <2>1, <2>2 DEF SysexEnd, Callbacks
  <2> QED  BY <1>1, <2>3, SysexBytes DEF NothingDue
<1>4. CASE DataByte(b) /\ ~Long(input_buffer[0])
  <2>1. /\ input_buffer' = [input_buffer EXCEPT ![input_count % 3] = b] /\ ~midi_is_statusbyte(b)
        /\ msg'.cnt = Plus1(input_count) /\ msg'.bytes[1] = input_buffer'[0]
        /\ input_count % 3 # 0 /\ input_state' = input_state
    BY <1>1, <1>4 DEF DataByte, Callbacks, NoCallbacks
  <2>2. ~Long(msg'.bytes[1])
    <3>1. input_buffer'[0] = input_buffer[0] \/ input_buffer'[0] = b
      BY <1>1, <2>1
    <3> QED  BY <1>4, <2>1, <3>1 DEF Long
  <2>3. msg'.cnt # 1
    <3>1. input_count # 0
      BY <1>1, <2>1
    <3> QED  BY <1>1, <1>2, <2>1, <3>1, CountIs
  <2> QED  BY <1>1, <2>1, <2>2, <2>3 DEF NothingDue
<1> QED  BY <1>3, <1>4

LEMMA DueByte ==
    ASSUME RInv, PlaceInv, SyncInv, NEW b \in Bytes, Hear(b)
    PROVE  DueInv'
<1>1. ProcessByte(b) /\ Wire!Receive(b) /\ IInv /\ pc = "idle"
  BY DEF Hear, RInv, ProcessByte
<1>2. CASE RealtimeByte(b) \/ StatusOne(b)
  BY <1>1, <1>2, OneByteDue DEF DueInv
<1>3. CASE (SysexEnd(b) \/ DataByte(b)) /\ input_state = "SYSEX"
  BY <1>3, ChunkByteDue DEF DueInv
<1>4. CASE DataByte(b) /\ input_state # "SYSEX" /\ Long(input_buffer[0])
  BY <1>4, MessageByteDue DEF DueInv
<1>5. CASE (SysexEnd(b) \/ (DataByte(b) /\ ~Long(input_buffer[0]))) /\ input_state # "SYSEX"
  BY <1>1, <1>5, NothingByteDue DEF DueInv
<1>6. CASE StatusOfMessage(b) \/ SysexBegin(b) \/ StatusUndefined(b) \/ DataIgnored(b)
  <2>1. pc' = "idle"
    BY <1>1, <1>6 DEF StatusOfMessage, SysexBegin, StatusUndefined, DataIgnored, NoCallbacks
  <2> QED  BY <2>1 DEF DueInv
<1> QED  BY <1>1, <1>2, <1>3, <1>4, <1>5, <1>6 DEF ProcessByte

(* Every other step. *)
LEMMA CallRight ==
    ASSUME NoFalseCall, NEW S, calls \in Seq(S), NEW call \in S, call[1] \in Specific => Due(call),
           calls' = Append(calls, call), UNCHANGED <<status, delivered, length>>
    PROVE  NoFalseCall'
<1> DEFINE Right(c) == c[1] \in Specific => Due(c)
<1>1. PICK n \in Nat : n = Len(calls)
  BY LenProperties
<1>2. Len(calls') = n + 1 /\ calls'[n + 1] = call /\ \A k \in 1 .. n : calls'[k] = calls[k]
  BY <1>1, AppendProperties
<1>3. \A k \in 1 .. n : Right(calls[k])
  BY <1>1 DEF NoFalseCall, Due
<1>4. \A k \in 1 .. n + 1 : Right(calls'[k])
  <2> SUFFICES ASSUME NEW k \in 1 .. n + 1 PROVE Right(calls'[k])
    OBVIOUS
  <2>1. k = n + 1 \/ k \in 1 .. n
    OBVIOUS
  <2> QED  BY <1>2, <1>3, <2>1
<1>5. ASSUME NEW c PROVE Due(c) => \/ delivered' # Wire!Nothing /\ c = DueCall'
                                   \/ c[1] = "sysex" /\ length' >= CountRange
  BY DEF Due, DueCall
<1> HIDE DEF Right
<1>6. ASSUME NEW k \in 1 .. n + 1, calls'[k][1] \in Specific
      PROVE  \/ delivered' # Wire!Nothing /\ calls'[k] = DueCall'
             \/ calls'[k][1] = "sysex" /\ length' >= CountRange
  <2>1. Due(calls'[k])
    BY <1>4, <1>6 DEF Right
  <2> QED  BY <1>5, <2>1
<1> QED  BY <1>2, <1>6 DEF NoFalseCall

LEMMA GenericRight ==
    ASSUME IInv, NoFalseCall, pc \in {"fallthrough", "catchall"}, NEW f, NEW args, f \notin Specific,
           Runs(f, args), UNCHANGED <<status, delivered, length>>
    PROVE  NoFalseCall'
<1> DEFINE call == <<f, args>>
<1>1. calls' = Append(calls, call) /\ call[1] = f
  BY DEF Runs
<1> HIDE DEF call
<1>2. calls \in Seq({calls[1], call})
  BY CallsSequence, SequenceIn
<1> QED  BY <1>1, <1>2, CallRight

LEMMA RightQuiet ==
    ASSUME RInv, SyncInv, DueInv, NoFalseCall, [ReceptionNext]_allVars, \A b \in Bytes : ~Hear(b)
    PROVE  SyncInv' /\ DueInv' /\ NoFalseCall'
<1>1. IInv
  BY DEF RInv
<1>2. UNCHANGED <<StateAfter, CountAfter, input_buffer>> /\ UNCHANGED <<status, data, offset>>
  BY <1>1, QuietStep
<1>3. UNCHANGED <<length, recent>>
  BY DEF ReceptionNext, HandlerReturns, GoesBy, allVars, sysex
<1>4. InSync => InSync'
  BY <1>2, SameHeard DEF InSync
<1>5. SyncInv'
  BY <1>2, <1>3, <1>4 DEF SyncInv, SlotSync, SysexSync, WireInv
<1>6. CASE pc = "idle" /\ pc' = "idle" /\ UNCHANGED calls
  <2>1. Len(calls') = 0
    BY <1>1, <1>6 DEF IInv, CallsInv
  <2> QED  BY <1>5, <1>6, <2>1 DEF DueInv, NoFalseCall
<1>7. CASE HandlerReturns
  <2>1. pc' = "idle" /\ calls' = <<>> /\ Len(calls') = 0
    BY <1>7 DEF HandlerReturns, Return
  <2> QED  BY <1>5, <2>1 DEF DueInv, NoFalseCall
<1>8. CASE UNCHANGED allVars
  <2>1. UNCHANGED <<pc, input_state, msg, delivered, calls>>
    BY <1>8 DEF allVars, vars, parse, wire
  <2>2. Delivered' = Delivered
    BY <2>1 DEF Delivered, SysexStart, SysexLength
  <2> QED  BY <1>2, <1>3, <1>5, <2>1, <2>2
           DEF DueInv, OneDue, ChunkDue, MessageDue, NothingDue, NoFalseCall, DueCall
<1>9. CASE (CallSpecific \/ CallFallthrough \/ CallCatchall) /\ UNCHANGED <<wire, sysex>>
  <2>1. UNCHANGED <<input_state, msg, delivered, status, length>> /\ pc # "idle" /\ pc' # "idle"
    BY <1>9 DEF CallSpecific, CallFallthrough, CallCatchall, parse, wire, sysex
  <2>2. Delivered' = Delivered
    BY <2>1 DEF Delivered, SysexStart, SysexLength
  <2>3. DueInv'
    BY <2>1, <2>2 DEF DueInv, OneDue, ChunkDue, MessageDue, NothingDue
  <2>4. CASE UNCHANGED calls
    BY <1>5, <2>1, <2>3, <2>4 DEF NoFalseCall, DueCall
  <2>5. ASSUME CallSpecific, NEW f \in Matching \cap registered, Runs(f, SpecificArgs)
        PROVE  NoFalseCall'
    <3> DEFINE call == <<f, SpecificArgs>>
    <3>1. calls' = Append(calls, call) /\ calls = <<>>
      BY <1>1, <2>5 DEF Runs, CallSpecific, IInv, CallsInv
    <3>2. Due(call)
      BY <1>1, <2>1, <2>5, DueIsRight
    <3> HIDE DEF call
    <3>3. calls \in Seq({call})
      BY <3>1
    <3> QED  BY <2>1, <3>1, <3>2, <3>3, CallRight
  <2>6. "fallthrough" \notin Specific /\ "catchall" \notin Specific
        /\ UNCHANGED <<status, delivered, length>>
    BY <2>1 DEF Specific
  <2>7. CASE CallFallthrough /\ ~UNCHANGED calls
    BY <1>1, <1>5, <2>3, <2>4, <2>6, <2>7, GenericRight DEF CallFallthrough
  <2>8. CASE CallCatchall /\ ~UNCHANGED calls
    BY <1>1, <1>5, <2>3, <2>4, <2>6, <2>8, GenericRight DEF CallCatchall
  <2> QED  BY <1>5, <1>9, <2>3, <2>4, <2>5, <2>7, <2>8 DEF CallSpecific
<1> QED  BY <1>6, <1>7, <1>8, <1>9
         DEF ReceptionNext, GoesBy, Program, Register, vars

(* Whatever bytes arrive in whatever order, a callback for a kind of       *)
(* message is called only for the message of that kind that the wire has   *)
(* just completed, with its bytes: nothing that is left in the buffer by a *)
(* message cut short is taken for one (midi_process_byte,                  *)
(* midi_input_callbacks).                                                  *)
THEOREM NoFalseCalls == ReceptionSpec => []NoFalseCall
<1> DEFINE CallInv == SyncInv /\ DueInv /\ NoFalseCall
<1>1. ReceptionInit => CallInv
  <2> SUFFICES ASSUME ReceptionInit PROVE CallInv
    OBVIOUS
  <2>1. calls = <<>> /\ pc = "idle" /\ StateAfter = "IDLE" /\ data = <<>>
    BY DEF ReceptionInit, Init, Wire!Init, StateAfter
  <2>2. Len(calls) = 0
    BY <2>1
  <2> QED  BY <2>1, <2>2 DEF SyncInv, SlotSync, SysexSync, WireInv, DueInv, NoFalseCall
<1>2. RInv /\ PlaceInv /\ CallInv /\ [ReceptionNext]_allVars => CallInv'
  <2> SUFFICES ASSUME RInv, PlaceInv, CallInv, [ReceptionNext]_allVars PROVE CallInv'
    OBVIOUS
  <2>1. CASE \A b \in Bytes : ~Hear(b)
    BY <2>1, RightQuiet
  <2>2. ASSUME NEW b \in Bytes, Hear(b) PROVE CallInv'
    <3>1. SyncInv' /\ DueInv'
      BY <2>2, SyncByte, DueByte
    <3>2. IInv' /\ pc = "idle"
      BY <2>2, ReceptionStep, Step DEF RInv, Hear, ProcessByte
    <3>3. pc' \in {"idle", "specific"}
      BY <2>2, <3>2 DEF Hear, ProcessByte, RealtimeByte, StatusOne, StatusOfMessage, SysexBegin,
                        SysexEnd, StatusUndefined, DataIgnored, DataByte, Callbacks, NoCallbacks
    <3>4. Len(calls') = 0
      BY <3>2, <3>3 DEF IInv, CallsInv
    <3> QED  BY <3>1, <3>4 DEF NoFalseCall
  <2> QED  BY <2>1, <2>2
<1>3. ReceptionInit => PlaceInv
  BY PlaceStart
<1>4. CallInv => NoFalseCall
  OBVIOUS
<1> HIDE DEF CallInv
<1> QED  BY <1>1, <1>2, <1>3, <1>4, PlaceStep, RStart, RStep, PTL DEF ReceptionSpec
=============================================================================
