-------------------------- MODULE MidiDeviceProofs --------------------------
(***************************************************************************)
(* Proofs about MidiDevice: the bytes midi_device_process has counted stay *)
(* where they are, for any bytes; and queue and parser together implement  *)
(* the safety part of MidiInput, for every stream without system exclusive *)
(* messages (MidiReception tells what those can do), every size of queue   *)
(* and any callbacks.                                                      *)
(***************************************************************************)
EXTENDS MidiDevice, MidiParserProofs

(* The locals of midi_device_process, and the parser under way only inside *)
(* of it.                                                                  *)
LoopInv ==
    /\ queue \in Seq(Bytes) /\ Len(queue) < QueueLength
    /\ at \in {"outside", "preInput", "length", "test", "process", "processing"}
    /\ len \in Nat /\ i \in Nat
    /\ at \in {"process", "processing"} => i < len
    /\ at \in {"process", "processing"} => queue # <<>>
    /\ pc # "idle" => at = "processing"

DInv == LoopInv /\ CountedBytesStay

-----------------------------------------------------------------------------
(* The queue. *)

LEMMA EnqueuedIs ==
    ASSUME NEW q \in Seq(Bytes), q = queue, Len(q) < QueueLength, NEW b \in Bytes
    PROVE  /\ Enqueued(b) \in Seq(Bytes) /\ Len(Enqueued(b)) < QueueLength
           /\ Len(q) <= Len(Enqueued(b))
           /\ \/ Enqueued(b) = q
              \/ Enqueued(b) = Append(q, b) /\ Len(q) < QueueLength - 1
           /\ q # <<>> => Enqueued(b) # <<>> /\ Head(Enqueued(b)) = Head(q)
<1>1. QueueLength \in 2 .. 255 /\ Len(q) \in Nat
  BY DeviceQueueAssumption, LenProperties
<1>2. Append(q, b) \in Seq(Bytes) /\ Len(Append(q, b)) = Len(q) + 1 /\ Append(q, b) # <<>>
  BY AppendProperties
<1>3. q # <<>> => Head(Append(q, b)) = Head(q)
  <2> SUFFICES ASSUME q # <<>> PROVE Head(Append(q, b)) = Head(q)
    OBVIOUS
  <2>1. 1 \in 1 .. Len(q)
    BY <1>1, EmptySeq
  <2> QED  BY <1>2, <2>1, AppendProperties
<1> QED  BY <1>1, <1>2, <1>3 DEF Enqueued

(* From the first or the second byte on. *)
LEMMA RestIs ==
    ASSUME NEW q \in Seq(Bytes)
    PROVE  /\ SubSeq(q, 1, Len(q)) = q
           /\ q # <<>> => /\ SubSeq(q, 2, Len(q)) = Tail(q) /\ Tail(q) \in Seq(Bytes)
                          /\ Len(Tail(q)) = Len(q) - 1 /\ Head(q) \in Bytes
<1>1. Len(q) \in Nat
  BY LenProperties
<1>2. SubSeq(q, 1, Len(q)) = q
  BY <1>1
<1>3. q # <<>> => SubSeq(q, 2, Len(q)) = Tail(q)
  BY <1>1
<1>4. q # <<>> => Tail(q) \in Seq(Bytes) /\ Len(Tail(q)) = Len(q) - 1 /\ Head(q) \in Bytes
  BY HeadTailProperties
<1> QED  BY <1>2, <1>3, <1>4

-----------------------------------------------------------------------------
(* No step breaks the invariant. *)

(* A byte that comes in changes nothing of what was counted. *)
LEMMA ArrivalKeeps ==
    ASSUME DInv, NEW b \in Bytes, queue' = Enqueued(b), UNCHANGED <<vars, loop>>
    PROVE  DInv'
<1>1. /\ queue' \in Seq(Bytes) /\ Len(queue') < QueueLength /\ Len(queue) <= Len(queue')
      /\ queue # <<>> => queue' # <<>> /\ Head(queue') = Head(queue)
  BY EnqueuedIs DEF DInv, LoopInv
<1>2. UNCHANGED <<at, len, i, val, pc>>
  BY DEF loop, vars
<1>3. Len(queue) \in Nat /\ Len(queue') \in Nat
  BY <1>1, LenProperties DEF DInv, LoopInv
<1>4. LoopInv'
  BY <1>1, <1>2 DEF DInv, LoopInv
<1>5. CountedBytesStay'
  BY <1>1, <1>2, <1>3 DEF DInv, LoopInv, CountedBytesStay
<1> QED  BY <1>4, <1>5 DEF DInv

(* The steps of midi_device_process. *)
LEMMA LoopKeeps ==
    ASSUME DInv,
           CallProcess \/ PreInputReturns \/ GetLength \/ GetByte \/ RemoveByte \/ ProcessReturns
    PROVE  DInv'
<1>1. queue \in Seq(Bytes) /\ Len(queue) \in Nat /\ len \in Nat /\ i \in Nat /\ LoopInv /\ CountedBytesStay
  BY LenProperties DEF DInv, LoopInv
<1>2. CASE CallProcess \/ PreInputReturns \/ GetLength \/ ProcessReturns
  BY <1>1, <1>2 DEF CallProcess, PreInputReturns, GetLength, ProcessReturns, vars, DInv, LoopInv,
                    CountedBytesStay
<1>3. CASE GetByte
  <2>1. at = "test" /\ i < len /\ len - i <= Len(queue) /\ at' = "process"
    BY <1>1, <1>3 DEF GetByte, InLoop, CountedBytesStay
  <2>2. queue # <<>>
    BY <1>1, <2>1
  <2>3. val' = Head(queue) /\ UNCHANGED <<queue, len, i, pc>>
    BY <1>3, <2>2 DEF GetByte, vars
  <2> QED  BY <1>1, <2>1, <2>2, <2>3 DEF DInv, LoopInv, CountedBytesStay
<1>4. CASE RemoveByte
  <2>1. at = "processing" /\ pc = "idle" /\ at' = "test" /\ i' = i + 1 /\ UNCHANGED <<len, pc>>
    BY <1>4 DEF RemoveByte, vars
  <2>2. queue # <<>> /\ i < len /\ len - i <= Len(queue)
    BY <1>1, <2>1 DEF LoopInv, CountedBytesStay
  <2>3. queue' = Tail(queue) /\ Tail(queue) \in Seq(Bytes) /\ Len(Tail(queue)) = Len(queue) - 1
    BY <1>1, <1>4, <2>2, RestIs DEF RemoveByte, Removed
  <2>4. QueueLength \in Nat
    BY DeviceQueueAssumption
  <2> QED  BY <1>1, <2>1, <2>2, <2>3, <2>4 DEF DInv, LoopInv, CountedBytesStay
<1> QED  BY <1>2, <1>3, <1>4

LEMMA DeviceStep == DInv /\ [DeviceNext]_deviceVars => DInv'
<1> SUFFICES ASSUME DInv, [DeviceNext]_deviceVars PROVE DInv'
  OBVIOUS
<1>1. ASSUME NEW b \in Bytes, ReceiveInterrupt(b) \/ Poll(b) PROVE DInv'
  BY <1>1, ArrivalKeeps DEF ReceiveInterrupt, Poll
<1>2. CASE Process
  BY <1>2 DEF Process, DInv, LoopInv, CountedBytesStay
<1>3. CASE CallbackSteps
  <2>1. pc # "idle" /\ UNCHANGED <<queue, at, len, i, val>>
    BY <1>3 DEF CallbackSteps, Callout, CallSpecific, CallFallthrough, CallCatchall, Return, loop
  <2> QED  BY <2>1 DEF DInv, LoopInv, CountedBytesStay
<1>4. CASE Registers
  <2>1. pc' = pc /\ UNCHANGED <<queue, at, len, i, val>>
    BY <1>4 DEF Registers, Program, Register, loop
  <2> QED  BY <2>1 DEF DInv, LoopInv, CountedBytesStay
<1>5. ASSUME NEW on \in BOOLEAN, SetPreInput(on) PROVE DInv'
  BY <1>5 DEF SetPreInput, vars, loop, DInv, LoopInv, CountedBytesStay
<1>6. CASE UNCHANGED deviceVars
  BY <1>6 DEF deviceVars, vars, loop, DInv, LoopInv, CountedBytesStay
<1> QED  BY <1>1, <1>2, <1>3, <1>4, <1>5, <1>6, LoopKeeps DEF DeviceNext, MainStep, Arrival

LEMMA DeviceStart == DeviceInit => DInv
<1> SUFFICES ASSUME DeviceInit PROVE DInv
  OBVIOUS
<1>1. QueueLength \in Nat /\ QueueLength > 0
  BY DeviceQueueAssumption
<1>2. <<>> \in Seq(Bytes) /\ Len(<<>>) = 0
  OBVIOUS
<1> QED  BY <1>1, <1>2 DEF DeviceInit, Init, DInv, LoopInv, CountedBytesStay

(* While midi_device_process runs, the bytes it has counted and not yet    *)
(* removed are at the head of the queue, the one being processed first,    *)
(* whatever bytes the interrupts put in meanwhile (midi_device_process).   *)
THEOREM CountedStay == DeviceSpec => []CountedBytesStay
<1>1. DInv => CountedBytesStay
  BY DEF DInv
<1> QED  BY <1>1, DeviceStart, DeviceStep, PTL DEF DeviceSpec

-----------------------------------------------------------------------------
(* Queue and parser together. *)

NoSysex == SYSEX_BEGIN \notin Bytes /\ SYSEX_END \notin Bytes

(* Without system exclusive messages every sender is an orderly one. *)
ParserInv == IInv /\ KeptInv /\ input_state # "SYSEX" /\ state # "SYSEX"

LEMMA WithoutSysex ==
    ASSUME NoSysex, ParserInv, NEW b \in Bytes, ProcessByte(b)
    PROVE  Orderly(b) /\ input_state' # "SYSEX" /\ state' # "SYSEX"
<1>1. input_state # "SYSEX" /\ state # "SYSEX" /\ b # SYSEX_BEGIN /\ b # SYSEX_END
  BY DEF ParserInv, NoSysex
<1>2. Orderly(b)
  BY <1>1 DEF Orderly
<1>3. input_state' # "SYSEX" /\ state' # "SYSEX"
  BY <1>1 DEF ProcessByte, RealtimeByte, StatusOne, StatusOfMessage, SysexBegin, SysexEnd,
              StatusUndefined, DataIgnored, DataByte, NoCallbacks, parse
<1> QED  BY <1>2, <1>3

(* What the parser does is the same for MidiInput as it is for MidiStream. *)
LEMMA SameStream ==
    /\ \A b : Stream!Receive(b) <=> Input!Receive(b)
    /\ Stream!Settle <=> Input!Settle
    /\ (UNCHANGED Stream!stream) <=> (UNCHANGED Input!stream)
<1>1. (UNCHANGED Stream!stream) <=> (UNCHANGED Input!stream)
  BY DEF Stream!stream, Input!stream
<1>2. Stream!Settle <=> Input!Settle
  BY DEF Stream!Settle, Input!Settle, Stream!Nothing, Input!Nothing
<1>3. ASSUME NEW b PROVE Stream!midi_packet_length(b) = Input!midi_packet_length(b)
  BY DEF Stream!MIDI_CC, Input!MIDI_CC, Stream!MIDI_NOTEON, Input!MIDI_NOTEON,
         Stream!MIDI_NOTEOFF, Input!MIDI_NOTEOFF, Stream!MIDI_AFTERTOUCH,
         Input!MIDI_AFTERTOUCH, Stream!MIDI_PITCHBEND, Input!MIDI_PITCHBEND,
         Stream!MIDI_PROGCHANGE, Input!MIDI_PROGCHANGE, Stream!MIDI_CHANPRESSURE,
         Input!MIDI_CHANPRESSURE, Stream!MIDI_CLOCK, Input!MIDI_CLOCK,
         Stream!MIDI_TUNEREQUEST, Input!MIDI_TUNEREQUEST, Stream!MIDI_SONGPOSITION,
         Input!MIDI_SONGPOSITION, Stream!MIDI_TC_QUARTERFRAME,
         Input!MIDI_TC_QUARTERFRAME, Stream!MIDI_SONGSELECT, Input!MIDI_SONGSELECT,
         Stream!ListedRealtime, Input!ListedRealtime, Stream!UNDEFINED, Input!UNDEFINED,
         Stream!ONE, Input!ONE, Stream!TWO, Input!TWO,
         Stream!THREE, Input!THREE,
         Stream!midi_packet_length, Input!midi_packet_length, Stream!HighNibble,
         Input!HighNibble
<1>4. ASSUME NEW b PROVE Stream!Receive(b) <=> Input!Receive(b)
  BY <1>3, SMTT(30) DEF Stream!Receive, Input!Receive, Stream!Nothing, Input!Nothing,
         Stream!Realtime, Input!Realtime, Stream!Status, Input!Status,
         Stream!SysexStart, Input!SysexStart, Stream!SysexStop, Input!SysexStop,
         Stream!SysexData, Input!SysexData, Stream!Data, Input!Data,
         Stream!Ignored, Input!Ignored, Stream!Deliver, Input!Deliver,
         Stream!Message, Input!Message, Stream!InForce, Input!InForce,
         Stream!NoStatus, Input!NoStatus, Stream!stream, Input!stream,
         Stream!midi_is_realtime, Input!midi_is_realtime, Stream!MIDI_CLOCK, Input!MIDI_CLOCK,
         Stream!midi_is_statusbyte, Input!midi_is_statusbyte,
         Stream!SYSEX_BEGIN, Input!SYSEX_BEGIN, Stream!SYSEX_END, Input!SYSEX_END,
         Stream!UNDEFINED, Input!UNDEFINED, Stream!ONE, Input!ONE, Stream!TWO, Input!TWO,
         Stream!THREE, Input!THREE
<1> QED  BY <1>1, <1>2, <1>4

(* Sequences: what waits, when a byte comes in.                            *)
LEMMA WaitingIs ==
    ASSUME DInv
    PROVE  /\ at # "processing" => Waiting = queue
           /\ at = "processing" => Waiting = Tail(queue)
           /\ Waiting \in Seq(Bytes)
  BY RestIs DEF Waiting, DInv, LoopInv

LEMMA ArrivalMaps ==
    ASSUME DInv, DInv', NEW b \in Bytes, queue' = Enqueued(b), at' = at
    PROVE  Waiting' = Waiting \/ (Waiting' = Append(Waiting, b) /\ Len(Waiting) < QueueLength - 1)
<1>1. queue \in Seq(Bytes) /\ queue' \in Seq(Bytes) /\ Len(queue) < QueueLength
      /\ (at = "processing" => queue # <<>>)
  BY DEF DInv, LoopInv
<1>2. /\ at # "processing" => Waiting = queue /\ Waiting' = queue'
      /\ at = "processing" => Waiting = Tail(queue) /\ Waiting' = Tail(queue')
  <2>1. /\ at' # "processing" => Waiting' = queue'
        /\ at' = "processing" => Waiting' = Tail(queue')
    <3>1. at' = "processing" => queue' # <<>>
      BY DEF DInv, LoopInv
    <3> QED  BY <1>1, <3>1, RestIs DEF Waiting
  <2> QED  BY <2>1, WaitingIs
<1>3. CASE queue' = queue
  BY <1>2, <1>3
<1>4. CASE queue' = Append(queue, b) /\ Len(queue) < QueueLength - 1
  <2>1. CASE at # "processing"
    BY <1>2, <1>4, <2>1
  <2>2. CASE at = "processing"
    <3>1. queue # <<>> /\ Len(queue) \in Nat /\ Tail(queue) \in Seq(Bytes)
          /\ Len(Tail(queue)) = Len(queue) - 1
      BY <1>1, <2>2, LenProperties, RestIs
    <3>2. Tail(Append(queue, b)) = Append(Tail(queue), b)
      BY <1>1, <3>1
    <3> QED  BY <1>2, <1>4, <2>2, <3>1, <3>2, DeviceQueueAssumption, SMTT(30)
  <2> QED  BY <2>1, <2>2
<1> QED  BY <1>1, <1>3, <1>4, EnqueuedIs

(* A step of the parser, and one that leaves it alone. *)
LEMMA ParserKeeps ==
    ASSUME NoSysex, ParserInv, [OrderlyNext]_vars, input_state' # "SYSEX", state' # "SYSEX"
    PROVE  ParserInv'
  BY Step, StepMaps, OrderlyStep DEF ParserInv

LEMMA ParserRests ==
    ASSUME ParserInv, UNCHANGED vars
    PROVE  ParserInv' /\ UNCHANGED Input!stream
<1>1. IInv' /\ input_state' # "SYSEX" /\ state' # "SYSEX"
  BY Step DEF ParserInv, vars, parse
<1>2. UNCHANGED <<parse, branch, state, msg, pc>>
  BY DEF vars
<1> QED  BY <1>1, <1>2, Unheard, SameStream DEF ParserInv

(* Registrations and callbacks change no more of what was heard than that  *)
(* the message is settled when they have returned.                         *)
LEMMA CallbackMaps ==
    ASSUME NoSysex, ParserInv, Callout \/ Program
    PROVE  ParserInv' /\ (UNCHANGED Input!stream \/ Input!Settle)
<1>1. input_state' # "SYSEX" /\ state' # "SYSEX"
  <2>1. CASE Return
    BY <2>1 DEF Return, ParserInv, IInv, TypeOK
  <2> QED  BY <2>1 DEF Callout, CallSpecific, CallFallthrough, CallCatchall, Program, Register,
                       parse, ParserInv
<1>2. ParserInv'
  BY <1>1, ParserKeeps DEF OrderlyNext
<1>3. CASE Return
  <2>1. DeliveredIs /\ DeliveredIs'
    BY Mapped DEF ParserInv, Next, Callout, Program
  <2> QED  BY <1>2, <1>3, <2>1, ReturnMaps, SameStream DEF ParserInv
<1>4. CASE ~Return
  <2>1. UNCHANGED <<parse, branch, state, msg>> /\ ((pc = "idle") <=> (pc' = "idle"))
    BY <1>4 DEF Callout, CallSpecific, CallFallthrough, CallCatchall, Program, Register
  <2> QED  BY <1>2, <2>1, Unheard, SameStream DEF ParserInv
<1> QED  BY <1>3, <1>4

(* midi_process_byte, for the byte at the head of the queue. *)
LEMMA ProcessMaps ==
    ASSUME NoSysex, DInv, DInv', ParserInv, Process
    PROVE  ParserInv' /\ Input!Hear
<1>1. at = "process" /\ at' = "processing" /\ queue' = queue /\ queue # <<>> /\ val = Head(queue)
      /\ queue \in Seq(Bytes) /\ ProcessByte(val)
  BY DEF Process, DInv, LoopInv, CountedBytesStay
<1>2. Waiting = queue /\ Waiting' = Tail(queue) /\ val \in Bytes
  <2>1. Waiting' = Tail(queue')
    BY <1>1, RestIs DEF Waiting
  <2> QED  BY <1>1, <2>1, WaitingIs, RestIs
<1>3. Orderly(val) /\ input_state' # "SYSEX" /\ state' # "SYSEX"
  BY <1>1, <1>2, WithoutSysex
<1>4. ParserInv'
  BY <1>1, <1>2, <1>3, ParserKeeps DEF OrderlyNext
<1>5. Input!Receive(val)
  <2>1. Maps(val)
    BY <1>1, <1>2, <1>3, ByteMaps DEF ParserInv
  <2> QED  BY <2>1, SameStream DEF Maps
<1> QED  BY <1>1, <1>2, <1>4, <1>5 DEF Input!Hear

LEMMA InputStep ==
    ASSUME NoSysex, DInv, DInv', ParserInv, [DeviceNext]_deviceVars
    PROVE  ParserInv' /\ [Input!InputNext]_(Input!input)
<1> DEFINE Stutters == UNCHANGED Input!input
<1>1. UNCHANGED Input!stream /\ Waiting' = Waiting => Stutters
  BY DEF Input!input
<1> HIDE DEF Stutters
<1>2. ASSUME NEW b \in Bytes, ReceiveInterrupt(b) \/ Poll(b)
      PROVE  ParserInv' /\ (Input!Arrive(b) \/ Stutters)
  <2>1. ParserInv' /\ UNCHANGED Input!stream
    BY <1>2, ParserRests DEF ReceiveInterrupt, Poll
  <2>2. queue' = Enqueued(b) /\ at' = at
    BY <1>2 DEF ReceiveInterrupt, Poll, loop
  <2> QED  BY <1>1, <2>1, <2>2, ArrivalMaps DEF Input!Arrive
<1>3. CASE Process
  BY <1>3, ProcessMaps DEF Input!InputNext
<1>4. CASE CallbackSteps \/ Registers
  <2>1. ParserInv' /\ (UNCHANGED Input!stream \/ Input!Settle)
    BY <1>4, CallbackMaps DEF CallbackSteps, Registers
  <2>2. Waiting' = Waiting
    BY <1>4 DEF CallbackSteps, Registers, Waiting, loop
  <2> QED  BY <1>1, <2>1, <2>2 DEF Input!InputNext, Input!Handled, Stutters
<1>5. CASE RemoveByte
  <2>1. ParserInv' /\ UNCHANGED Input!stream
    BY <1>5, ParserRests DEF RemoveByte
  <2>2. at = "processing" /\ at' = "test" /\ queue' = Removed /\ queue # <<>> /\ queue \in Seq(Bytes)
    BY <1>5 DEF RemoveByte, DInv, LoopInv
  <2>3. Waiting = Tail(queue) /\ Waiting' = queue'
    <3>1. queue' \in Seq(Bytes) /\ at' # "processing"
      BY <2>2 DEF DInv, LoopInv
    <3> QED  BY <2>2, <3>1, WaitingIs, RestIs DEF Waiting
  <2> QED  BY <1>1, <2>1, <2>2, <2>3, RestIs DEF Removed, Stutters
<1>6. CASE CallProcess \/ PreInputReturns \/ GetLength \/ GetByte \/ ProcessReturns
  <2>1. ParserInv' /\ UNCHANGED Input!stream
    BY <1>6, ParserRests DEF CallProcess, PreInputReturns, GetLength, GetByte, ProcessReturns
  <2>2. queue' = queue /\ at # "processing" /\ at' # "processing"
    BY <1>6 DEF CallProcess, PreInputReturns, GetLength, GetByte, InLoop, ProcessReturns
  <2> QED  BY <1>1, <2>1, <2>2 DEF Waiting, Stutters
<1>7. CASE UNCHANGED deviceVars \/ \E on \in BOOLEAN : SetPreInput(on)
  <2>1. UNCHANGED vars /\ queue' = queue /\ at' = at
    BY <1>7 DEF deviceVars, loop, SetPreInput
  <2> QED  BY <1>1, <2>1, ParserRests DEF Waiting, Stutters
<1> QED  BY <1>2, <1>3, <1>4, <1>5, <1>6, <1>7
         DEF DeviceNext, MainStep, Arrival, Input!InputNext, Stutters

LEMMA InputStart == DeviceInit => ParserInv /\ Input!InputInit
<1> SUFFICES ASSUME DeviceInit PROVE ParserInv /\ Input!InputInit
  OBVIOUS
<1>1. IInv /\ KeptInv /\ Stream!Init
  BY Start, StartMaps DEF DeviceInit
<1>2. Waiting = <<>>
  BY DeviceStart, WaitingIs DEF DeviceInit
<1>3. Input!Init
  BY <1>1 DEF Stream!Init, Input!Init, Stream!NoStatus, Input!NoStatus, Stream!Nothing, Input!Nothing
<1> QED  BY <1>1, <1>2, <1>3 DEF ParserInv, Input!InputInit, DeviceInit, Init

(* Without system exclusive messages every byte that found room is parsed  *)
(* once and in order, as part of the MIDI stream those bytes make,         *)
(* whatever comes in meanwhile (midi_device_input, midi_device_process,    *)
(* midi_process_byte): the safety part of ImplementsInput.                 *)
THEOREM InputSafety ==
    ASSUME NoSysex
    PROVE  DeviceSpec => Input!InputInit /\ [][Input!InputNext]_(Input!input)
<1>1. DInv /\ ParserInv /\ [DeviceNext]_deviceVars =>
         (DInv /\ ParserInv)' /\ [Input!InputNext]_(Input!input)
  BY DeviceStep, InputStep
<1> QED  BY <1>1, DeviceStart, InputStart, PTL DEF DeviceSpec
=============================================================================
