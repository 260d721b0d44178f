------------------------- MODULE EchoExampleProofs -------------------------
(***************************************************************************)
(* Proof about EchoExample: every message of the host that came whole and  *)
(* found room is answered, in order, with the right channel, number, place *)
(* and byte, and nothing else is, for every size of the queue and of the   *)
(* endpoint, whatever messages the host sends and however often it is      *)
(* unplugged.                                                              *)
(*                                                                         *)
(* Three things are related in every state: what the host has still to     *)
(* send of its message, what waits in the queue, and the answers that are  *)
(* due.  Hears says where a byte takes the parser and which answers it     *)
(* causes, Reaches the same of a sequence of bytes.  The bytes that wait   *)
(* begin with some that cause just the answers due and not yet being       *)
(* given; after an undisturbed stream these are all that wait, and they    *)
(* leave the parser where the host goes on.                                *)
(***************************************************************************)
EXTENDS EchoExample, MidiParserProofs

-----------------------------------------------------------------------------
(* The locals of midi_device_process, the variables of the parser and the  *)
(* replies under way.                                                      *)
QueueInv ==
    /\ queue \in Seq(Uint8) /\ Len(queue) < QueueLength
    /\ at \in {"outside", "preInput", "length", "test", "process", "processing"}
    /\ len \in Nat /\ i \in Nat
    /\ at \in {"process", "processing"} => i < len
    /\ pc # "idle" => at = "processing"
    /\ CountedBytesStay

CalloutInv ==
    /\ input_buffer \in [0 .. 2 -> Uint8]
    /\ registered = {"fallthrough", "cc", "sysex"}
    /\ pc \in {"idle", "specific", "fallthrough", "catchall", "return"}
    /\ branch \in {"none", "realtime", "one", "sysexend", "data"}
    /\ pc = "idle" <=> branch = "none"
    /\ pc \in {"idle", "specific"} => calls = <<>>
    /\ replying # <<>> => at = "outside" \/ pc = "fallthrough"

EInv == QueueInv /\ CalloutInv

LEMMA QueueIs ==
    ASSUME QueueInv
    PROVE  /\ IsSeq(queue) /\ Len(queue) \in Nat
           /\ SubSeq(queue, 1, Len(queue)) = queue
           /\ queue # <<>> => /\ SubSeq(queue, 2, Len(queue)) = Tail(queue)
                              /\ Tail(queue) \in Seq(Uint8) /\ Len(Tail(queue)) = Len(queue) - 1
                              /\ Head(queue) \in Uint8
<1>1. queue \in Seq(Uint8)
  BY DEF QueueInv
<1>2. Len(queue) \in Nat /\ IsSeq(queue)
  BY <1>1, LenProperties DEF IsSeq
<1>3. SubSeq(queue, 1, Len(queue)) = queue
  BY <1>1, <1>2
<1>4. queue # <<>> => SubSeq(queue, 2, Len(queue)) = Tail(queue)
  BY <1>1, <1>2
<1>5. queue # <<>> => /\ Tail(queue) \in Seq(Uint8) /\ Len(Tail(queue)) = Len(queue) - 1
                      /\ Head(queue) \in Uint8
  BY <1>1, HeadTailProperties
<1> QED  BY <1>2, <1>3, <1>4, <1>5

(* What a byte that waits is to the loop. *)
LEMMA LoopKept ==
    ASSUME QueueInv,
           CallProcess \/ PreInputReturns \/ GetLength \/ GetByte \/ RemoveByte \/ ProcessReturns
    PROVE  QueueInv'
<1>1. /\ queue \in Seq(Uint8) /\ Len(queue) \in Nat /\ Len(queue) < QueueLength /\ QueueLength \in Nat
      /\ len \in Nat /\ i \in Nat /\ CountedBytesStay
      /\ at \in {"process", "processing"} => i < len
      /\ pc # "idle" => at = "processing"
  BY QueueIs, DeviceQueueAssumption DEF QueueInv
<1>2. CASE CallProcess \/ PreInputReturns \/ GetLength \/ ProcessReturns
  BY <1>1, <1>2 DEF CallProcess, PreInputReturns, GetLength, ProcessReturns, vars, QueueInv,
                    CountedBytesStay
<1>3. CASE GetByte
  <2>1. at = "test" /\ i < len /\ len - i <= Len(queue) /\ at' = "process"
    BY <1>1, <1>3 DEF GetByte, InLoop, CountedBytesStay
  <2>2. queue # <<>>
    BY <1>1, <2>1
  <2>3. val' = Head(queue) /\ UNCHANGED <<queue, len, i, pc>>
    BY <1>3, <2>2 DEF GetByte, vars
  <2> QED  BY <1>1, <2>1, <2>2, <2>3 DEF QueueInv, CountedBytesStay
<1>4. CASE RemoveByte
  <2>1. at = "processing" /\ pc = "idle" /\ at' = "test" /\ i' = i + 1 /\ UNCHANGED <<len, pc>>
    BY <1>4 DEF RemoveByte, vars
  <2>2. queue # <<>> /\ i < len /\ len - i <= Len(queue)
    BY <1>1, <2>1 DEF CountedBytesStay
  <2>3. queue' = Tail(queue) /\ Tail(queue) \in Seq(Uint8) /\ Len(Tail(queue)) = Len(queue) - 1
    BY <1>4, <2>2, QueueIs DEF RemoveByte, Removed
  <2> QED  BY <1>1, <2>1, <2>2, <2>3 DEF QueueInv, CountedBytesStay
<1> QED  BY <1>2, <1>3, <1>4

(* A byte, and the callbacks. *)
LEMMA ByteKept ==
    ASSUME EInv, Process, UNCHANGED replying
    PROVE  EInv'
<1>1. /\ at = "process" /\ at' = "processing" /\ pc = "idle" /\ ProcessByte(val)
      /\ UNCHANGED <<queue, len, i, val>> /\ queue # <<>> /\ val = Head(queue)
  BY DEF Process, ProcessByte, EInv, QueueInv, CountedBytesStay
<1>2. val \in Uint8
  BY <1>1, QueueIs DEF EInv
<1>3. QueueInv'
  BY <1>1 DEF EInv, QueueInv, CountedBytesStay
<1>4. input_buffer \in [0 .. 2 -> Uint8] /\ calls = <<>> /\ branch = "none" /\ replying = <<>>
  BY <1>1 DEF EInv, CalloutInv
<1>5. /\ input_buffer' \in [0 .. 2 -> Uint8] /\ UNCHANGED <<registered, calls>>
      /\ \/ UNCHANGED <<pc, branch>>
         \/ pc' = "specific" /\ branch' \in {"realtime", "one", "sysexend", "data"}
  <2>1. StoredBuffer(val) \in [0 .. 2 -> Uint8]
    BY <1>2, <1>4 DEF StoredBuffer
  <2>2. CASE RealtimeByte(val)
    BY <1>4, <2>2 DEF RealtimeByte, Callbacks
  <2>3. CASE StatusOne(val)
    BY <2>1, <2>3 DEF StatusOne, Callbacks
  <2>4. CASE StatusOfMessage(val)
    BY <2>1, <2>4 DEF StatusOfMessage, NoCallbacks
  <2>5. CASE SysexBegin(val)
    BY <1>2, <1>4, <2>5 DEF SysexBegin, NoCallbacks
  <2>6. CASE SysexEnd(val)
    BY <1>2, <2>1, <2>6 DEF SysexEnd, Callbacks
  <2>7. CASE StatusUndefined(val)
    BY <2>1, <2>7 DEF StatusUndefined, NoCallbacks
  <2>8. CASE DataIgnored(val)
    BY <1>4, <2>8 DEF DataIgnored, NoCallbacks, parse
  <2>9. CASE DataByte(val)
    BY <1>2, <1>4, <2>9 DEF DataByte, NoCallbacks, Callbacks
  <2> QED  BY <1>1, <2>2, <2>3, <2>4, <2>5, <2>6, <2>7, <2>8, <2>9 DEF ProcessByte
<1>6. CalloutInv'
  BY <1>1, <1>4, <1>5 DEF EInv, CalloutInv
<1> QED  BY <1>3, <1>6 DEF EInv

LEMMA RunsNone ==
    ASSUME NEW f, NEW args, Runs(f, args)
    PROVE  registered' = registered /\ calls' = Append(calls, <<f, args>>)
  BY CallbacksAssumption DEF Runs

LEMMA CalloutKept ==
    ASSUME EInv, Callout, UNCHANGED <<queue, preInput, loop>>,
           pc # "specific" => replying' = replying, pc # "specific" => replying = <<>>
    PROVE  EInv'
<1>1. /\ pc # "idle" /\ at = "processing" /\ branch # "none"
      /\ UNCHANGED <<queue, at, len, i, val>>
  BY DEF Callout, CallSpecific, CallFallthrough, CallCatchall, Return, EInv, QueueInv, CalloutInv, loop
<1>2. QueueInv'
  BY <1>1 DEF EInv, QueueInv, CountedBytesStay
<1>3. UNCHANGED <<input_buffer, registered>>
  BY RunsNone DEF Callout, CallSpecific, CallFallthrough, CallCatchall, Return, parse
<1>4. CASE Return
  BY <1>1, <1>2, <1>3, <1>4 DEF Return, EInv, CalloutInv
<1>5. CASE CallSpecific
  <2>1. pc = "specific" /\ pc' = "fallthrough" /\ branch' = branch
    BY <1>5 DEF CallSpecific
  <2> QED  BY <1>1, <1>2, <1>3, <2>1 DEF EInv, CalloutInv
<1>6. CASE CallFallthrough \/ CallCatchall
  <2>1. pc # "specific" /\ pc' \in {"catchall", "return"} /\ branch' = branch
    BY <1>6 DEF CallFallthrough, CallCatchall
  <2>2. replying' = <<>>
    BY <2>1
  <2> QED  BY <1>1, <1>2, <1>3, <2>1, <2>2 DEF EInv, CalloutInv
<1> QED  BY <1>4, <1>5, <1>6 DEF Callout

-----------------------------------------------------------------------------
(* The parser between two bytes, or once the call in progress returns; and *)
(* the answers its callbacks have still to give for the message it is      *)
(* handing over.                                                           *)

Place(s, c, b) == [state |-> s, count |-> c, buffer |-> b]
Now == Place(StateAfter, CountAfter, input_buffer)

Pending ==
    IF pc # "specific" THEN <<>>
    ELSE IF input_state = "SYSEX" THEN Replies("sysex", SpecificArgs)
    ELSE IF "cc" \in Matching THEN Replies("cc", SpecificArgs)
    ELSE <<>>

(* The bytes of the messages of the host, where byte b takes the parser    *)
(* from r, and the answers it causes there: a status byte, the number and  *)
(* the value after it, and the bytes of a system exclusive message.        *)
HearsStatus(r, b, s, a) ==
    /\ b \in 144 .. 159 \/ b \in 176 .. 191
    /\ r.state # "SYSEX"
    /\ s = Place("THREE", 1, [r.buffer EXCEPT ![0] = b]) /\ a = <<>>

HearsNumber(r, b, s, a) ==
    /\ b \in 0 .. 127 /\ r.state = "THREE" /\ r.count = 1
    /\ s = Place("THREE", 2, [r.buffer EXCEPT ![1] = b]) /\ a = <<>>

AnswerTo(status, num, value) ==
    IF HighNibble(status) = MIDI_CC THEN cc_callback(LowNibble(status), num, value) ELSE <<>>

HearsValue(r, b, s, a) ==
    /\ b \in 0 .. 127 /\ r.state = "THREE" /\ r.count = 2
    /\ s = Place("THREE", 1, [r.buffer EXCEPT ![2] = b])
    /\ a = AnswerTo(r.buffer[0], r.buffer[1], b)

HearsBegin(r, b, s, a) ==
    b = SYSEX_BEGIN /\ s = Place("SYSEX", 1, [r.buffer EXCEPT ![0] = b]) /\ a = <<>>

ChunkHeard(n, buffer) ==
    sysex_callback((n \div 3) * 3, SubSeq(<<buffer[0], buffer[1], buffer[2]>>, 1, (n % 3) + 1))

HearsData(r, b, s, a) ==
    /\ b \in 0 .. 127 /\ r.state = "SYSEX" /\ r.count \in Nat /\ r.count + 1 < CountRange
    /\ s = Place("SYSEX", r.count + 1, [r.buffer EXCEPT ![r.count % 3] = b])
    /\ a = IF r.count % 3 = 2 THEN ChunkHeard(r.count, s.buffer) ELSE <<>>

HearsEnd(r, b, s, a) ==
    /\ b = SYSEX_END /\ r.state = "SYSEX" /\ r.count \in Nat /\ r.count + 1 < CountRange
    /\ s = Place("IDLE", r.count + 1, [r.buffer EXCEPT ![r.count % 3] = b])
    /\ a = ChunkHeard(r.count, s.buffer)

Hears(r, b, s, a) ==
    \/ HearsStatus(r, b, s, a) \/ HearsNumber(r, b, s, a) \/ HearsValue(r, b, s, a)
    \/ HearsBegin(r, b, s, a) \/ HearsData(r, b, s, a) \/ HearsEnd(r, b, s, a)

(* Which branch of midi_process_byte each of these bytes takes.            *)
LEMMA BranchOfData ==
    ASSUME NEW b \in 0 .. 127, ProcessByte(b), input_state # "IDLE"
    PROVE  DataByte(b)
<1>1. ~midi_is_statusbyte(b) /\ ~midi_is_realtime(b) /\ b # SYSEX_BEGIN /\ b # SYSEX_END
  BY DEF midi_is_statusbyte, midi_is_realtime, MIDI_CLOCK, SYSEX_BEGIN, SYSEX_END
<1> QED
  BY <1>1 DEF ProcessByte, RealtimeByte, StatusOne, StatusOfMessage, SysexBegin, SysexEnd,
              StatusUndefined, DataIgnored, Status

LEMMA MessageLength ==
    ASSUME NEW b, b \in 144 .. 159 \/ b \in 176 .. 191
    PROVE  midi_packet_length(b) = THREE
<1>1. HighNibble(b) \in {144, 176}
  BY DEF HighNibble
<1>2. HighNibble(b) \in {MIDI_CC, MIDI_NOTEON, MIDI_NOTEOFF, MIDI_AFTERTOUCH, MIDI_PITCHBEND}
  BY <1>1 DEF MIDI_CC, MIDI_NOTEON
<1>3. /\ HighNibble(b) \notin {MIDI_PROGCHANGE, MIDI_CHANPRESSURE}
      /\ b \notin ListedRealtime \cup {MIDI_TUNEREQUEST}
      /\ b # MIDI_SONGPOSITION /\ b \notin {MIDI_TC_QUARTERFRAME, MIDI_SONGSELECT}
  BY <1>1 DEF MIDI_PROGCHANGE, MIDI_CHANPRESSURE, ListedRealtime, MIDI_TUNEREQUEST, MIDI_SONGPOSITION,
              MIDI_TC_QUARTERFRAME, MIDI_SONGSELECT
<1> QED  BY <1>2, <1>3, Zenon DEF midi_packet_length

LEMMA BranchOfStatus ==
    ASSUME NEW b, b \in 144 .. 159 \/ b \in 176 .. 191, ProcessByte(b)
    PROVE  StatusOfMessage(b) /\ midi_packet_length(b) = THREE
<1>1. midi_is_statusbyte(b) /\ ~midi_is_realtime(b) /\ b # SYSEX_BEGIN /\ b # SYSEX_END
  BY DEF midi_is_statusbyte, midi_is_realtime, MIDI_CLOCK, SYSEX_BEGIN, SYSEX_END
<1>2. midi_packet_length(b) = THREE
  BY MessageLength
<1> QED
  BY <1>1, <1>2 DEF ProcessByte, RealtimeByte, StatusOne, SysexBegin, SysexEnd,
                    StatusUndefined, DataIgnored, DataByte, Status, THREE, ONE, UNDEFINED

LEMMA SysexLength0 ==
    ASSUME NEW b, b \in {SYSEX_BEGIN, SYSEX_END}
    PROVE  /\ midi_packet_length(b) = UNDEFINED /\ midi_is_statusbyte(b) /\ ~midi_is_realtime(b)
           /\ b \in Uint8
<1>1. b = 240 \/ b = 247
  BY DEF SYSEX_BEGIN, SYSEX_END
<1>2. HighNibble(b) = 240
  BY <1>1 DEF HighNibble
<1>3. b \notin ListedRealtime \cup {246} /\ b # 242 /\ b \notin {241, 243}
  BY <1>1 DEF ListedRealtime
<1>4. midi_packet_length(b) = UNDEFINED
  BY <1>2, <1>3 DEF midi_packet_length, MIDI_TUNEREQUEST, MIDI_SONGPOSITION, MIDI_SONGSELECT,
      MIDI_TC_QUARTERFRAME, MIDI_CC, MIDI_NOTEON, MIDI_NOTEOFF, MIDI_AFTERTOUCH, MIDI_PITCHBEND,
      MIDI_PROGCHANGE, MIDI_CHANPRESSURE
<1> QED  BY <1>1, <1>4 DEF midi_is_statusbyte, midi_is_realtime, MIDI_CLOCK, Uint8

LEMMA BranchOfSysex ==
    ASSUME NEW b, ProcessByte(b)
    PROVE  /\ b = SYSEX_BEGIN => SysexBegin(b)
           /\ b = SYSEX_END => SysexEnd(b)
<1>1. SYSEX_BEGIN # SYSEX_END /\ UNDEFINED \notin {ONE, TWO, THREE}
  BY DEF SYSEX_BEGIN, SYSEX_END, UNDEFINED, ONE, TWO, THREE
<1>2. ASSUME b \in {SYSEX_BEGIN, SYSEX_END} PROVE SysexBegin(b) \/ SysexEnd(b)
  <2>1. midi_packet_length(b) = UNDEFINED /\ midi_is_statusbyte(b) /\ ~midi_is_realtime(b)
    BY <1>2, SysexLength0
  <2> QED
    BY <1>1, <1>2, <2>1 DEF ProcessByte, RealtimeByte, StatusOne, StatusOfMessage,
                            StatusUndefined, DataIgnored, DataByte
<1> QED  BY <1>1, <1>2 DEF SysexBegin, SysexEnd

(* The answers, when a message is handed to midi_input_callbacks.          *)
PendingSays ==
    /\ pc # "specific" => Pending = <<>>
    /\ pc = "specific" /\ input_state = "SYSEX" =>
           \A n \in Nat : n + 1 < CountRange /\ msg.cnt = n + 1 =>
               Pending = sysex_callback((n \div 3) * 3, SubSeq(msg.bytes, 1, (n % 3) + 1))
    /\ pc = "specific" /\ input_state # "SYSEX" /\ msg.cnt = 3 =>
           Pending = AnswerTo(msg.bytes[1], msg.bytes[2], msg.bytes[3])

LEMMA CcMatches ==
    ASSUME input_state # "SYSEX", msg.cnt = 3
    PROVE  "cc" \in Matching <=> HighNibble(msg.bytes[1]) = MIDI_CC
<1>1. \A e \in Dispatch : e[3] = "cc" => e[2] = 176
  BY DEF Dispatch, MIDI_CC
<1>2. <<3, 176, "cc">> \in Dispatch
  BY DEF Dispatch, MIDI_CC
<1>3. Kind(msg.bytes[1]) = 176 <=> HighNibble(msg.bytes[1]) = 176
  BY DEF Kind, HighNibble
<1>4. "cc" \in Matching <=> \E e \in Dispatch : e[1] = 3 /\ e[2] = Kind(msg.bytes[1]) /\ e[3] = "cc"
  BY DEF Matching
<1>5. <<3, 176, "cc">>[1] = 3 /\ <<3, 176, "cc">>[2] = 176 /\ <<3, 176, "cc">>[3] = "cc"
  OBVIOUS
<1> QED  BY <1>1, <1>2, <1>3, <1>4, <1>5 DEF MIDI_CC

LEMMA PendingIs == PendingSays
<1>1. ASSUME pc = "specific", input_state = "SYSEX", NEW n \in Nat, n + 1 < CountRange, msg.cnt = n + 1
      PROVE  Pending = sysex_callback((n \div 3) * 3, SubSeq(msg.bytes, 1, (n % 3) + 1))
  <2>1. SpecificArgs = <<(n \div 3) * 3, SubSeq(msg.bytes, 1, (n % 3) + 1)>>
    BY <1>1, ChunkIs DEF SpecificArgs
  <2> QED  BY <1>1, <2>1 DEF Pending, Replies
<1>2. ASSUME pc = "specific", input_state # "SYSEX", msg.cnt = 3
      PROVE  Pending = AnswerTo(msg.bytes[1], msg.bytes[2], msg.bytes[3])
  <2>1. CASE HighNibble(msg.bytes[1]) = MIDI_CC
    <3>1. "cc" \in Matching
      BY <1>2, <2>1, CcMatches
    <3>2. Unchanneled(msg.bytes[1]) = LowNibble(msg.bytes[1])
      BY <2>1 DEF Unchanneled, MIDI_CC
    <3>3. SpecificArgs[1] = LowNibble(msg.bytes[1]) /\ SpecificArgs[2] = msg.bytes[2]
          /\ SpecificArgs[3] = msg.bytes[3]
      BY <1>2, <3>2 DEF SpecificArgs
    <3> QED  BY <1>2, <2>1, <3>1, <3>3 DEF Pending, Replies, AnswerTo
  <2>2. CASE HighNibble(msg.bytes[1]) # MIDI_CC
    BY <1>2, <2>2, CcMatches DEF Pending, AnswerTo
  <2> QED  BY <2>1, <2>2
<1> QED  BY <1>1, <1>2 DEF PendingSays, Pending

(* What a byte does to the parser and its callbacks is what Hears says.    *)
NowSays ==
    /\ branch = "none" => Now = Place(input_state, input_count, input_buffer)
    /\ branch = "sysexend" => Now = Place("IDLE", input_count, input_buffer)
    /\ branch = "data" => Now = Place(input_state, IF input_state = "SYSEX" THEN input_count ELSE 1, input_buffer)

LEMMA BranchNow == NowSays
  BY DEF NowSays, Now, StateAfter, CountAfter

LEMMA StatusHeard ==
    ASSUME EInv, pc = "idle", NEW b, ProcessByte(b), NEW s, NEW a, HearsStatus(Now, b, s, a)
    PROVE  Now' = s /\ Pending' = a
<1>1. branch = "none" /\ Now = Place(input_state, input_count, input_buffer)
  BY BranchNow DEF NowSays, EInv, CalloutInv
<1>2. /\ b \in 144 .. 159 \/ b \in 176 .. 191
      /\ input_state # "SYSEX"
      /\ s = Place("THREE", 1, [input_buffer EXCEPT ![0] = b]) /\ a = <<>>
  BY <1>1 DEF HearsStatus, Place
<1>3. StatusOfMessage(b) /\ midi_packet_length(b) = THREE
  BY <1>2, BranchOfStatus
<1>4. /\ input_state' = "THREE" /\ input_count' = 1 /\ input_buffer' = [input_buffer EXCEPT ![0] = b]
      /\ pc' = "idle" /\ branch' = "none"
  BY <1>1, <1>2, <1>3 DEF StatusOfMessage, StoredBuffer, StoredCount, NoCallbacks, TWO, THREE
<1>5. Now' = Place(input_state', input_count', input_buffer')
  <2>1. NowSays'
    BY BranchNow, PTL
  <2> QED  BY <1>4, <2>1 DEF NowSays
<1>6. Pending' = <<>>
  <2>1. PendingSays'
    BY PendingIs, PTL
  <2> QED  BY <1>4, <2>1 DEF PendingSays
<1> QED  BY <1>2, <1>4, <1>5, <1>6

LEMMA BeginHeard ==
    ASSUME EInv, pc = "idle", NEW b, ProcessByte(b), NEW s, NEW a, HearsBegin(Now, b, s, a)
    PROVE  Now' = s /\ Pending' = a
<1>1. branch = "none" /\ Now = Place(input_state, input_count, input_buffer)
  BY BranchNow DEF NowSays, EInv, CalloutInv
<1>2. b = SYSEX_BEGIN /\ s = Place("SYSEX", 1, [input_buffer EXCEPT ![0] = b]) /\ a = <<>>
  BY <1>1 DEF HearsBegin, Place
<1>3. /\ input_state' = "SYSEX" /\ input_count' = 1 /\ input_buffer' = [input_buffer EXCEPT ![0] = b]
      /\ pc' = "idle" /\ branch' = "none"
  BY <1>1, <1>2, BranchOfSysex DEF SysexBegin, NoCallbacks
<1>4. Now' = Place(input_state', input_count', input_buffer')
  <2>1. NowSays'
    BY BranchNow, PTL
  <2> QED  BY <1>3, <2>1 DEF NowSays
<1>5. Pending' = <<>>
  <2>1. PendingSays'
    BY PendingIs, PTL
  <2> QED  BY <1>3, <2>1 DEF PendingSays
<1> QED  BY <1>2, <1>3, <1>4, <1>5

LEMMA NumberHeard ==
    ASSUME EInv, pc = "idle", NEW b, ProcessByte(b), NEW s, NEW a, HearsNumber(Now, b, s, a)
    PROVE  Now' = s /\ Pending' = a
<1>1. branch = "none" /\ Now = Place(input_state, input_count, input_buffer)
  BY BranchNow DEF NowSays, EInv, CalloutInv
<1>2. /\ b \in 0 .. 127 /\ input_state = "THREE" /\ input_count = 1
      /\ s = Place("THREE", 2, [input_buffer EXCEPT ![1] = b]) /\ a = <<>>
  BY <1>1 DEF HearsNumber, Place
<1>3. DataByte(b)
  BY <1>2, BranchOfData
<1>4. Plus1(1) = 2 /\ 1 % 3 = 1
  BY CountRangeAssumption DEF Plus1
<1>5. /\ input_state' = "THREE" /\ input_count' = 2 /\ input_buffer' = [input_buffer EXCEPT ![1] = b]
      /\ pc' = "idle" /\ branch' = "none"
  BY <1>1, <1>2, <1>3, <1>4 DEF DataByte, NoCallbacks
<1>6. Now' = Place(input_state', input_count', input_buffer')
  <2>1. NowSays'
    BY BranchNow, PTL
  <2> QED  BY <1>5, <2>1 DEF NowSays
<1>7. Pending' = <<>>
  <2>1. PendingSays'
    BY PendingIs, PTL
  <2> QED  BY <1>5, <2>1 DEF PendingSays
<1> QED  BY <1>2, <1>5, <1>6, <1>7

LEMMA ValueHeard ==
    ASSUME EInv, pc = "idle", NEW b, ProcessByte(b), NEW s, NEW a, HearsValue(Now, b, s, a)
    PROVE  Now' = s /\ Pending' = a
<1>1. branch = "none" /\ Now = Place(input_state, input_count, input_buffer)
      /\ input_buffer \in [0 .. 2 -> Uint8]
  BY BranchNow DEF NowSays, EInv, CalloutInv
<1>2. /\ b \in 0 .. 127 /\ input_state = "THREE" /\ input_count = 2
      /\ s = Place("THREE", 1, [input_buffer EXCEPT ![2] = b])
      /\ a = AnswerTo(input_buffer[0], input_buffer[1], b)
  BY <1>1 DEF HearsValue, Place
<1>3. DataByte(b)
  BY <1>2, BranchOfData
<1>4. Plus1(2) = 3 /\ 2 % 3 = 2
  BY CountRangeAssumption DEF Plus1
<1>5. /\ input_state' = "THREE" /\ input_buffer' = [input_buffer EXCEPT ![2] = b]
      /\ Callbacks("data", 3, <<input_buffer'[0], input_buffer'[1], input_buffer'[2]>>)
  BY <1>1, <1>2, <1>3, <1>4 DEF DataByte
<1>6. pc' = "specific" /\ branch' = "data" /\ msg' = [cnt |-> 3, bytes |-> <<input_buffer[0], input_buffer[1], b>>]
  <2>1. input_buffer'[0] = input_buffer[0] /\ input_buffer'[1] = input_buffer[1] /\ input_buffer'[2] = b
    BY <1>1, <1>5
  <2> QED  BY <1>5, <2>1 DEF Callbacks
<1>7. Now' = Place("THREE", 1, input_buffer')
  <2>1. Now' = Place(input_state', IF input_state' = "SYSEX" THEN input_count' ELSE 1, input_buffer')
    <3>1. NowSays'
      BY BranchNow, PTL
    <3> QED  BY <1>6, <3>1 DEF NowSays
  <2> QED  BY <1>5, <2>1
<1>8. Pending' = AnswerTo(input_buffer[0], input_buffer[1], b)
  <2>1. PendingSays'
    BY PendingIs, PTL
  <2>2. Pending' = AnswerTo(msg'.bytes[1], msg'.bytes[2], msg'.bytes[3])
    BY <1>5, <1>6, <2>1 DEF PendingSays
  <2>3. msg'.bytes[1] = input_buffer[0] /\ msg'.bytes[2] = input_buffer[1] /\ msg'.bytes[3] = b
    BY <1>6
  <2> QED  BY <2>2, <2>3
<1> QED  BY <1>2, <1>5, <1>7, <1>8

LEMMA NextCount ==
    ASSUME NEW n \in Nat, n + 1 < CountRange
    PROVE  Plus1(n) = n + 1
  BY CountRangeAssumption DEF Plus1

(* A chunk of a system exclusive message on its way to its callback.       *)
LEMMA ChunkPending ==
    ASSUME NEW n \in Nat, n + 1 < CountRange, pc' = "specific", input_state' = "SYSEX",
           msg' = [cnt |-> n + 1, bytes |-> <<input_buffer'[0], input_buffer'[1], input_buffer'[2]>>]
    PROVE  Pending' = ChunkHeard(n, input_buffer')
<1>1. PendingSays'
  BY PendingIs, PTL
<1>2. msg'.cnt = n + 1 /\ msg'.bytes = <<input_buffer'[0], input_buffer'[1], input_buffer'[2]>>
  OBVIOUS
<1>3. Pending' = sysex_callback((n \div 3) * 3, SubSeq(msg'.bytes, 1, (n % 3) + 1))
  BY <1>1, <1>2 DEF PendingSays
<1> QED  BY <1>2, <1>3, Zenon DEF ChunkHeard

LEMMA SysexDataHeard ==
    ASSUME EInv, pc = "idle", NEW b, ProcessByte(b), NEW s, NEW a, HearsData(Now, b, s, a)
    PROVE  Now' = s /\ Pending' = a
<1>1. branch = "none" /\ Now = Place(input_state, input_count, input_buffer)
  BY BranchNow DEF NowSays, EInv, CalloutInv
<1>2. /\ b \in 0 .. 127 /\ input_state = "SYSEX" /\ input_count \in Nat /\ input_count + 1 < CountRange
      /\ s = Place("SYSEX", input_count + 1, [input_buffer EXCEPT ![input_count % 3] = b])
      /\ a = IF input_count % 3 = 2 THEN ChunkHeard(input_count, s.buffer) ELSE <<>>
  BY <1>1 DEF HearsData, Place
<1>3. DataByte(b) /\ Plus1(input_count) = input_count + 1
  BY <1>2, BranchOfData, NextCount
<1>4. /\ input_state' = "SYSEX" /\ input_count' = input_count + 1
      /\ input_buffer' = [input_buffer EXCEPT ![input_count % 3] = b]
      /\ \/ /\ input_count % 3 = 2
            /\ Callbacks("data", input_count + 1, <<input_buffer'[0], input_buffer'[1], input_buffer'[2]>>)
         \/ input_count % 3 # 2 /\ NoCallbacks
  BY <1>2, <1>3 DEF DataByte
<1>5. s = Place(input_state', input_count', input_buffer') /\ s.buffer = input_buffer'
  BY <1>2, <1>4 DEF Place
<1>6. CASE input_count % 3 = 2
  <2>1. pc' = "specific" /\ branch' = "data"
        /\ msg' = [cnt |-> input_count + 1, bytes |-> <<input_buffer'[0], input_buffer'[1], input_buffer'[2]>>]
    BY <1>4, <1>6 DEF Callbacks
  <2>2. Now' = Place(input_state', IF input_state' = "SYSEX" THEN input_count' ELSE 1, input_buffer')
    <3>1. NowSays'
      BY BranchNow, PTL
    <3> QED  BY <2>1, <3>1 DEF NowSays
  <2>3. Pending' = ChunkHeard(input_count, input_buffer')
    BY <1>2, <1>4, <2>1, ChunkPending
  <2> QED  BY <1>2, <1>4, <1>5, <1>6, <2>2, <2>3
<1>7. CASE input_count % 3 # 2
  <2>1. pc' = "idle" /\ branch' = "none"
    BY <1>1, <1>4, <1>7 DEF NoCallbacks
  <2>2. Now' = Place(input_state', input_count', input_buffer')
    <3>1. NowSays'
      BY BranchNow, PTL
    <3> QED  BY <2>1, <3>1 DEF NowSays
  <2>3. PendingSays'
    BY PendingIs, PTL
  <2>4. Pending' = <<>>
    BY <2>1, <2>3 DEF PendingSays
  <2> QED  BY <1>2, <1>5, <1>7, <2>2, <2>4
<1> QED  BY <1>6, <1>7

LEMMA EndHeard ==
    ASSUME EInv, pc = "idle", NEW b, ProcessByte(b), NEW s, NEW a, HearsEnd(Now, b, s, a)
    PROVE  Now' = s /\ Pending' = a
<1>1. branch = "none" /\ Now = Place(input_state, input_count, input_buffer)
  BY BranchNow DEF NowSays, EInv, CalloutInv
<1>2. /\ b = SYSEX_END /\ input_state = "SYSEX" /\ input_count \in Nat /\ input_count + 1 < CountRange
      /\ s = Place("IDLE", input_count + 1, [input_buffer EXCEPT ![input_count % 3] = b])
      /\ a = ChunkHeard(input_count, s.buffer)
  BY <1>1 DEF HearsEnd, Place
<1>3. SysexEnd(b) /\ Plus1(input_count) = input_count + 1
  BY <1>2, BranchOfSysex, NextCount
<1>4. /\ input_state' = "SYSEX" /\ input_count' = input_count + 1
      /\ input_buffer' = [input_buffer EXCEPT ![input_count % 3] = b]
      /\ Callbacks("sysexend", input_count + 1, <<input_buffer'[0], input_buffer'[1], input_buffer'[2]>>)
  BY <1>2, <1>3 DEF SysexEnd, StoredBuffer, StoredCount
<1>5. s = Place("IDLE", input_count', input_buffer') /\ s.buffer = input_buffer'
  BY <1>2, <1>4 DEF Place
<1>6. pc' = "specific" /\ branch' = "sysexend"
      /\ msg' = [cnt |-> input_count + 1, bytes |-> <<input_buffer'[0], input_buffer'[1], input_buffer'[2]>>]
  BY <1>4 DEF Callbacks
<1>7. Now' = Place("IDLE", input_count', input_buffer')
  <2>1. NowSays'
    BY BranchNow, PTL
  <2> QED  BY <1>6, <2>1 DEF NowSays
<1>8. Pending' = ChunkHeard(input_count, input_buffer')
  BY <1>2, <1>4, <1>6, ChunkPending
<1> QED  BY <1>2, <1>5, <1>7, <1>8

LEMMA ByteHeard ==
    ASSUME EInv, pc = "idle", NEW b, ProcessByte(b), NEW s, NEW a, Hears(Now, b, s, a)
    PROVE  Now' = s /\ Pending' = a
  BY StatusHeard, NumberHeard, ValueHeard, BeginHeard, SysexDataHeard, EndHeard DEF Hears

(* The callbacks of main.c, once called, and the rest of the call.         *)
LEMMA AnswersCalled ==
    ASSUME EInv, Calls
    PROVE  replying' = Pending /\ Pending' = <<>> /\ Now' = Now
<1>1. /\ calls = <<>> /\ registered = {"fallthrough", "cc", "sysex"}
      /\ pc = "specific" /\ pc' = "fallthrough" /\ UNCHANGED <<parse, branch, state, msg>>
  BY DEF Calls, CallSpecific, EInv, CalloutInv
<1>2. Now' = Now
  BY <1>1 DEF Now, StateAfter, CountAfter, parse
<1>3. Pending' = <<>>
  <2>1. PendingSays'
    BY PendingIs, PTL
  <2> QED  BY <1>1, <2>1 DEF PendingSays
<1>4. Matching \cap registered \subseteq {"cc", "sysex"} /\ "fallthrough" \notin Matching
  BY <1>1 DEF Matching, Dispatch
<1>5. CASE Matching \cap registered = {}
  <2>1. calls' = calls
    BY <1>5 DEF Calls, CallSpecific
  <2>2. input_state # "SYSEX" /\ "cc" \notin Matching
    BY <1>1, <1>5 DEF Matching
  <2> QED  BY <1>1, <1>2, <1>3, <2>1, <2>2 DEF Calls, Pending
<1>6. CASE Matching \cap registered # {}
  <2>1. PICK f \in Matching \cap registered : Runs(f, SpecificArgs)
    BY <1>6 DEF Calls, CallSpecific
  <2>2. calls' = <<<<f, SpecificArgs>>>>
    BY <1>1, <2>1, RunsNone
  <2>3. calls' # calls /\ calls'[1][1] = f /\ calls'[1][2] = SpecificArgs
    BY <1>1, <2>2
  <2>4. replying' = Replies(f, SpecificArgs)
    BY <2>3 DEF Calls
  <2>5. input_state = "SYSEX" => f = "sysex"
    BY <2>1 DEF Matching
  <2>6. input_state # "SYSEX" => f = "cc" /\ "cc" \in Matching
    BY <1>4, <2>1 DEF Matching, Dispatch
  <2> QED  BY <1>1, <1>2, <1>3, <2>4, <2>5, <2>6 DEF Pending
<1> QED  BY <1>5, <1>6

LEMMA CallGoesOn ==
    ASSUME EInv, CallFallthrough \/ CallCatchall \/ Return
    PROVE  Now' = Now /\ Pending = <<>> /\ Pending' = <<>>
<1>1. /\ pc # "specific" /\ pc' # "specific" /\ branch \in {"none", "realtime", "one", "sysexend", "data"}
      /\ pc = "idle" <=> branch = "none"
  BY DEF CallFallthrough, CallCatchall, Return, EInv, CalloutInv
<1>2. Pending = <<>> /\ Pending' = <<>>
  <2>1. PendingSays /\ PendingSays'
    BY PendingIs, PTL
  <2> QED  BY <1>1, <2>1 DEF PendingSays
<1>3. CASE CallFallthrough \/ CallCatchall
  BY <1>2, <1>3 DEF CallFallthrough, CallCatchall, Now, StateAfter, CountAfter, parse
<1>4. CASE Return
  <2>1. branch # "none" /\ branch' = "none" /\ input_buffer' = input_buffer
        /\ input_state' = StateAfter /\ input_count' = CountAfter
    BY <1>1, <1>4 DEF Return, StateAfter, CountAfter
  <2>2. Now' = Place(input_state', input_count', input_buffer')
    <3>1. NowSays'
      BY BranchNow, PTL
    <3> QED  BY <2>1, <3>1 DEF NowSays
  <2> QED  BY <1>2, <2>1, <2>2 DEF Now
<1> QED  BY <1>3, <1>4

-----------------------------------------------------------------------------
(* Sequences joined.                                                       *)
LEMMA EmptyJoins ==
    ASSUME NEW s, IsSeq(s)
    PROVE  IsSeq(<<>>) /\ <<>> \o s = s /\ s \o <<>> = s
<1>1. IsSeq(<<>>)
  <2>1. <<>> \in Seq({})
    OBVIOUS
  <2> QED  BY <2>1 DEF IsSeq
<1>2. Len(s) \in Nat /\ Len(<<>>) = 0
  BY SeqIs
<1>3. /\ IsSeq(<<>> \o s) /\ Len(<<>> \o s) = Len(<<>>) + Len(s)
      /\ \A h \in 1 .. Len(s) : (<<>> \o s)[Len(<<>>) + h] = s[h]
  BY <1>1, ConcatIs
<1>4. /\ IsSeq(s \o <<>>) /\ Len(s \o <<>>) = Len(s) + Len(<<>>)
      /\ \A h \in 1 .. Len(s) : (s \o <<>>)[h] = s[h]
  BY <1>1, ConcatIs
<1>5. <<>> \o s = s
  <2> DEFINE t == <<>> \o s
  <2>1. IsSeq(t) /\ Len(t) = Len(s)
    BY <1>2, <1>3
  <2>2. ASSUME NEW h \in 1 .. Len(t) PROVE t[h] = s[h]
    <3>1. h \in 1 .. Len(s) /\ Len(<<>>) + h = h
      BY <1>2, <2>1
    <3> QED  BY <1>3, <3>1
  <2> HIDE DEF t
  <2>3. t = s
    BY <2>1, <2>2, SameSeq
  <2> QED  BY <2>3 DEF t
<1>6. s \o <<>> = s
  <2> DEFINE t == s \o <<>>
  <2>1. IsSeq(t) /\ Len(t) = Len(s) /\ \A h \in 1 .. Len(t) : t[h] = s[h]
    BY <1>2, <1>4
  <2> HIDE DEF t
  <2>2. t = s
    BY <2>1, SameSeq
  <2> QED  BY <2>2 DEF t
<1> QED  BY <1>1, <1>5, <1>6

(* Where the element of a joined sequence comes from. *)
LEMMA JoinedAt ==
    ASSUME NEW s, NEW t, IsSeq(s), IsSeq(t), NEW h \in 1 .. Len(s) + Len(t)
    PROVE  /\ h <= Len(s) => h \in 1 .. Len(s) /\ (s \o t)[h] = s[h]
           /\ h > Len(s) => h - Len(s) \in 1 .. Len(t) /\ (s \o t)[h] = t[h - Len(s)]
<1>1. /\ Len(s) \in Nat /\ Len(t) \in Nat
      /\ \A k \in 1 .. Len(s) : (s \o t)[k] = s[k]
      /\ \A k \in 1 .. Len(t) : (s \o t)[Len(s) + k] = t[k]
  BY SeqIs, ConcatIs
<1>2. ASSUME h <= Len(s) PROVE h \in 1 .. Len(s)
  BY <1>1, <1>2
<1>3. ASSUME h > Len(s) PROVE h - Len(s) \in 1 .. Len(t) /\ Len(s) + (h - Len(s)) = h
  BY <1>1, <1>3
<1> QED  BY <1>1, <1>2, <1>3

LEMMA JoinsAssociate ==
    ASSUME NEW s, NEW t, NEW u, IsSeq(s), IsSeq(t), IsSeq(u)
    PROVE  (s \o t) \o u = s \o (t \o u)
<1> DEFINE st == s \o t
           tu == t \o u
           l == st \o u
           r == s \o tu
<1>1. Len(s) \in Nat /\ Len(t) \in Nat /\ Len(u) \in Nat
  BY SeqIs
<1>2. IsSeq(st) /\ Len(st) = Len(s) + Len(t) /\ IsSeq(tu) /\ Len(tu) = Len(t) + Len(u)
  BY ConcatIs
<1>st. \A h \in 1 .. Len(s) + Len(t) :
         /\ h <= Len(s) => h \in 1 .. Len(s) /\ st[h] = s[h]
         /\ h > Len(s) => h - Len(s) \in 1 .. Len(t) /\ st[h] = t[h - Len(s)]
  BY JoinedAt
<1>tu. \A h \in 1 .. Len(t) + Len(u) :
         /\ h <= Len(t) => h \in 1 .. Len(t) /\ tu[h] = t[h]
         /\ h > Len(t) => h - Len(t) \in 1 .. Len(u) /\ tu[h] = u[h - Len(t)]
  BY JoinedAt
<1> HIDE DEF st, tu
<1>3. IsSeq(l) /\ Len(l) = Len(s) + Len(t) + Len(u) /\ IsSeq(r) /\ Len(r) = Len(s) + Len(t) + Len(u)
  BY <1>1, <1>2, ConcatIs
<1>l. \A h \in 1 .. Len(st) + Len(u) :
         /\ h <= Len(st) => h \in 1 .. Len(st) /\ l[h] = st[h]
         /\ h > Len(st) => h - Len(st) \in 1 .. Len(u) /\ l[h] = u[h - Len(st)]
  BY <1>2, JoinedAt
<1>r. \A h \in 1 .. Len(s) + Len(tu) :
         /\ h <= Len(s) => h \in 1 .. Len(s) /\ r[h] = s[h]
         /\ h > Len(s) => h - Len(s) \in 1 .. Len(tu) /\ r[h] = tu[h - Len(s)]
  BY <1>2, JoinedAt
<1> HIDE DEF l, r
<1>4. ASSUME NEW h \in 1 .. Len(l) PROVE l[h] = r[h]
  <2>1. h \in 1 .. Len(st) + Len(u) /\ h \in 1 .. Len(s) + Len(tu)
    BY <1>1, <1>2, <1>3
  <2>2. CASE h <= Len(s)
    <3>1. h <= Len(st) /\ h \in 1 .. Len(s) + Len(t)
      BY <1>1, <1>2, <2>2
    <3> QED  BY <1>st, <1>l, <1>r, <2>1, <2>2, <3>1
  <2>3. CASE h > Len(s) /\ h <= Len(st)
    <3>1. h \in 1 .. Len(s) + Len(t) /\ h - Len(s) \in 1 .. Len(t) + Len(u) /\ h - Len(s) <= Len(t)
      BY <1>1, <1>2, <2>3
    <3>2. l[h] = st[h] /\ st[h] = t[h - Len(s)] /\ r[h] = tu[h - Len(s)]
      BY <1>st, <1>l, <1>r, <2>1, <2>3, <3>1
    <3>3. tu[h - Len(s)] = t[h - Len(s)]
      BY <1>tu, <3>1
    <3> QED  BY <3>2, <3>3
  <2>4. CASE h > Len(st)
    <3>1. h > Len(s) /\ h - Len(s) \in 1 .. Len(t) + Len(u) /\ h - Len(s) > Len(t)
          /\ (h - Len(s)) - Len(t) = h - Len(st)
      BY <1>1, <1>2, <2>1, <2>4
    <3>2. l[h] = u[h - Len(st)] /\ r[h] = tu[h - Len(s)]
      BY <1>l, <1>r, <2>1, <2>4, <3>1
    <3>3. tu[h - Len(s)] = u[(h - Len(s)) - Len(t)]
      BY <1>tu, <3>1
    <3> QED  BY <3>1, <3>2, <3>3
  <2>5. h <= Len(s) \/ (h > Len(s) /\ h <= Len(st)) \/ h > Len(st)
    BY <1>1, <1>2
  <2> QED  BY <2>2, <2>3, <2>4, <2>5
<1>5. l = r
  BY <1>3, <1>4, SameSeq
<1> QED  BY <1>5 DEF l, r, st, tu

LEMMA OneIs ==
    ASSUME NEW x
    PROVE  IsSeq(<<x>>) /\ Len(<<x>>) = 1 /\ <<x>> # <<>>
<1>1. <<x>> \in Seq({x})
  OBVIOUS
<1> QED  BY <1>1 DEF IsSeq

-----------------------------------------------------------------------------
(* Where a sequence of bytes takes the parser from r, and the answers it   *)
(* causes, those of every byte after those of the bytes before.            *)
StepsOf(p, run, rest) ==
    /\ \A k \in 0 .. Len(p) : IsSeq(rest[k])
    /\ \A k \in 1 .. Len(p) :
          \E ans : IsSeq(ans) /\ Hears(run[k - 1], p[k], run[k], ans) /\ rest[k - 1] = ans \o rest[k]

Reaches(r, p, s, a) ==
    \E run, rest :
        /\ run[0] = r /\ run[Len(p)] = s
        /\ rest[0] = a /\ rest[Len(p)] = <<>>
        /\ StepsOf(p, run, rest)

LEMMA ReachesNone ==
    /\ \A r : Reaches(r, <<>>, r, <<>>)
    /\ \A r, s, a : Reaches(r, <<>>, s, a) => s = r /\ a = <<>>
<1>1. ASSUME NEW r PROVE Reaches(r, <<>>, r, <<>>)
  <2> DEFINE run == [k \in {0} |-> r]
             rest == [k \in {0} |-> <<>>]
  <2>1. run[0] = r /\ rest[0] = <<>> /\ Len(<<>>) = 0
    OBVIOUS
  <2>2. IsSeq(<<>>)
    BY EmptyJoins, OneIs
  <2> HIDE DEF run, rest
  <2>3. StepsOf(<<>>, run, rest)
    BY <2>1, <2>2 DEF StepsOf
  <2> QED  BY <2>1, <2>3 DEF Reaches
<1>2. ASSUME NEW r, NEW s, NEW a, Reaches(r, <<>>, s, a) PROVE s = r /\ a = <<>>
  BY <1>2 DEF Reaches
<1> QED  BY <1>1, <1>2

LEMMA ReachesSeq ==
    ASSUME NEW r, NEW p, IsSeq(p), NEW s, NEW a, Reaches(r, p, s, a)
    PROVE  IsSeq(a)
<1>1. PICK run, rest : rest[0] = a /\ StepsOf(p, run, rest)
  BY DEF Reaches
<1>2. 0 \in 0 .. Len(p)
  BY SeqIs
<1> QED  BY <1>1, <1>2 DEF StepsOf

(* The first byte, and those after it. *)
ByteAndMore(r, p, s, a) ==
    \E t, c, d : /\ IsSeq(c) /\ IsSeq(d) /\ a = c \o d
                /\ Hears(r, Head(p), t, c) /\ Reaches(t, Tail(p), s, d)

LEMMA ReachesHead ==
    ASSUME NEW r, NEW p, IsSeq(p), p # <<>>, NEW s, NEW a, Reaches(r, p, s, a)
    PROVE  ByteAndMore(r, p, s, a)
<1>1. PICK run, rest : /\ run[0] = r /\ run[Len(p)] = s
                       /\ rest[0] = a /\ rest[Len(p)] = <<>>
                       /\ StepsOf(p, run, rest)
  BY DEF Reaches
<1>2. /\ Len(p) \in Nat \ {0} /\ Head(p) = p[1] /\ Len(Tail(p)) = Len(p) - 1
      /\ \A k \in 1 .. Len(Tail(p)) : Tail(p)[k] = p[k + 1]
  BY SeqIs
<1> DEFINE run1 == [k \in 0 .. Len(p) - 1 |-> run[k + 1]]
           rest1 == [k \in 0 .. Len(p) - 1 |-> rest[k + 1]]
<1>3. PICK c : IsSeq(c) /\ Hears(run[0], p[1], run[1], c) /\ rest[0] = c \o rest[1]
  <2>1. 1 \in 1 .. Len(p) /\ 1 - 1 = 0
    BY <1>2
  <2>2. \E ans : IsSeq(ans) /\ Hears(run[1 - 1], p[1], run[1], ans) /\ rest[1 - 1] = ans \o rest[1]
    BY <1>1, <2>1 DEF StepsOf
  <2> QED  BY <2>1, <2>2
<1>4. run1[0] = run[1] /\ rest1[0] = rest[1] /\ run1[Len(Tail(p))] = s /\ rest1[Len(Tail(p))] = <<>>
  <2>1. 0 \in 0 .. Len(p) - 1 /\ 0 + 1 = 1 /\ Len(p) - 1 \in 0 .. Len(p) - 1 /\ (Len(p) - 1) + 1 = Len(p)
    BY <1>2
  <2>2. run1[0] = run[0 + 1] /\ rest1[0] = rest[0 + 1]
        /\ run1[Len(p) - 1] = run[(Len(p) - 1) + 1] /\ rest1[Len(p) - 1] = rest[(Len(p) - 1) + 1]
    BY <2>1
  <2> HIDE DEF run1, rest1
  <2> QED  BY <1>1, <1>2, <2>1, <2>2
<1>5. ASSUME NEW k \in 0 .. Len(Tail(p)) PROVE IsSeq(rest1[k])
  <2>1. k \in 0 .. Len(p) - 1 /\ k + 1 \in 0 .. Len(p)
    BY <1>2
  <2>2. rest1[k] = rest[k + 1]
    BY <2>1
  <2> QED  BY <1>1, <2>1, <2>2 DEF StepsOf
<1>6. ASSUME NEW k \in 1 .. Len(Tail(p))
      PROVE  \E ans : IsSeq(ans) /\ Hears(run1[k - 1], Tail(p)[k], run1[k], ans)
                      /\ rest1[k - 1] = ans \o rest1[k]
  <2>1. /\ k + 1 \in 1 .. Len(p) /\ k \in 0 .. Len(p) - 1 /\ k - 1 \in 0 .. Len(p) - 1
        /\ (k - 1) + 1 = k /\ (k + 1) - 1 = k
    BY <1>2
  <2>2. run1[k] = run[k + 1] /\ run1[k - 1] = run[k] /\ rest1[k] = rest[k + 1] /\ rest1[k - 1] = rest[k]
    <3>1. run1[k] = run[k + 1] /\ run1[k - 1] = run[(k - 1) + 1]
          /\ rest1[k] = rest[k + 1] /\ rest1[k - 1] = rest[(k - 1) + 1]
      BY <2>1
    <3> HIDE DEF run1, rest1
    <3> QED  BY <2>1, <3>1
  <2>3. \E ans : IsSeq(ans) /\ Hears(run[(k + 1) - 1], p[k + 1], run[k + 1], ans)
                 /\ rest[(k + 1) - 1] = ans \o rest[k + 1]
    BY <1>1, <2>1 DEF StepsOf
  <2>4. Tail(p)[k] = p[k + 1]
    BY <1>2
  <2> HIDE DEF run1, rest1
  <2> QED  BY <2>1, <2>2, <2>3, <2>4
<1> HIDE DEF run1, rest1
<1>7. StepsOf(Tail(p), run1, rest1)
  BY <1>5, <1>6 DEF StepsOf
<1>8. Reaches(run[1], Tail(p), s, rest[1])
  BY <1>4, <1>7 DEF Reaches
<1>9. IsSeq(rest[1])
  <2>1. 1 \in 0 .. Len(p)
    BY <1>2
  <2> QED  BY <1>1, <2>1 DEF StepsOf
<1> QED  BY <1>1, <1>2, <1>3, <1>8, <1>9 DEF ByteAndMore

(* Bytes after others. *)
LEMMA ReachesJoin ==
    ASSUME NEW r, NEW p, IsSeq(p), NEW s, NEW a, Reaches(r, p, s, a),
           NEW q, IsSeq(q), NEW t, NEW c, Reaches(s, q, t, c)
    PROVE  Reaches(r, p \o q, t, a \o c)
<1>1. PICK run, rest : /\ run[0] = r /\ run[Len(p)] = s
                       /\ rest[0] = a /\ rest[Len(p)] = <<>>
                       /\ StepsOf(p, run, rest)
  BY DEF Reaches
<1>2. PICK go, left : /\ go[0] = s /\ go[Len(q)] = t
                      /\ left[0] = c /\ left[Len(q)] = <<>>
                      /\ StepsOf(q, go, left)
  BY DEF Reaches
<1> DEFINE n == Len(p)
           m == Len(q)
           pq == p \o q
           run1 == [k \in 0 .. n + m |-> IF k <= n THEN run[k] ELSE go[k - n]]
           rest1 == [k \in 0 .. n + m |-> IF k <= n THEN rest[k] \o c ELSE left[k - n]]
<1>3. n \in Nat /\ m \in Nat /\ IsSeq(pq) /\ Len(pq) = n + m
      /\ (\A k \in 1 .. n : pq[k] = p[k]) /\ (\A k \in 1 .. m : pq[n + k] = q[k])
  BY ConcatIs, SeqIs
<1>4. IsSeq(c)
  BY ReachesSeq
<1>5. \A k \in 0 .. n : run1[k] = run[k] /\ rest1[k] = rest[k] \o c
  BY <1>3
<1>6. ASSUME NEW k \in 0 .. m PROVE run1[n + k] = go[k] /\ rest1[n + k] = left[k]
  <2>1. CASE k = 0
    <3>1. n + k = n /\ n \in 0 .. n
      BY <1>3, <2>1
    <3>2. <<>> \o c = c
      BY <1>4, EmptyJoins
    <3>3. run1[n] = run[n] /\ rest1[n] = rest[n] \o c
      BY <1>5, <3>1
    <3> HIDE DEF run1, rest1
    <3> QED  BY <1>1, <1>2, <2>1, <3>1, <3>2, <3>3
  <2>2. CASE k > 0
    <3>1. n + k \in 0 .. n + m /\ ~(n + k <= n) /\ (n + k) - n = k
      BY <1>3, <2>2
    <3>2. run1[n + k] = go[(n + k) - n] /\ rest1[n + k] = left[(n + k) - n]
      BY <3>1
    <3> HIDE DEF run1, rest1
    <3> QED  BY <3>1, <3>2
  <2> QED  BY <2>1, <2>2
<1> HIDE DEF n, m, pq, run1, rest1
<1>7. 0 \in 0 .. n /\ n \in 0 .. n /\ m \in 0 .. m
  BY <1>3
<1>8. run1[0] = r /\ rest1[0] = a \o c /\ run1[n + m] = t /\ rest1[n + m] = <<>>
  BY <1>1, <1>2, <1>5, <1>6, <1>7 DEF m
<1>9. (\A k \in 0 .. n : IsSeq(rest[k])) /\ (\A k \in 0 .. m : IsSeq(left[k]))
  BY <1>1, <1>2 DEF StepsOf, n, m
<1>10. \A k \in 1 .. n + m : k \in 1 .. n \/ \E j \in 1 .. m : k = n + j
  <2> TAKE k \in 1 .. n + m
  <2>1. k \in 1 .. n \/ (k - n \in 1 .. m /\ k = n + (k - n))
    BY <1>3
  <2> QED  BY <2>1
<1>11. ASSUME NEW k \in 0 .. n PROVE IsSeq(rest1[k])
  <2>1. IsSeq(rest[k])
    BY <1>9
  <2>2. IsSeq(rest[k] \o c)
    BY <1>4, <2>1, ConcatIs
  <2> QED  BY <1>5, <2>2
<1>12. ASSUME NEW k \in 0 .. n + m PROVE IsSeq(rest1[k])
  <2>1. CASE k = 0
    BY <1>7, <1>11, <2>1
  <2>2. CASE k \in 1 .. n
    <3>1. k \in 0 .. n
      BY <2>2
    <3> QED  BY <1>11, <3>1
  <2>3. CASE \E j \in 1 .. m : k = n + j
    <3>1. PICK j \in 1 .. m : k = n + j
      BY <2>3
    <3>2. j \in 0 .. m
      OBVIOUS
    <3> QED  BY <1>6, <1>9, <3>1, <3>2
  <2>4. k = 0 \/ k \in 1 .. n + m
    BY <1>3
  <2> QED  BY <1>10, <2>1, <2>2, <2>3, <2>4
<1>13. ASSUME NEW k \in 1 .. n
       PROVE  \E ans : IsSeq(ans) /\ Hears(run1[k - 1], pq[k], run1[k], ans)
                       /\ rest1[k - 1] = ans \o rest1[k]
  <2>1. k \in 0 .. n /\ k - 1 \in 0 .. n
    BY <1>3
  <2>2. PICK ans : IsSeq(ans) /\ Hears(run[k - 1], p[k], run[k], ans) /\ rest[k - 1] = ans \o rest[k]
    BY <1>1 DEF StepsOf, n
  <2>3. (ans \o rest[k]) \o c = ans \o (rest[k] \o c)
    <3>1. IsSeq(rest[k])
      BY <1>9, <2>1
    <3>2. IsSeq(ans)
      BY <2>2
    <3>3. ASSUME NEW x, IsSeq(x) PROVE (ans \o x) \o c = ans \o (x \o c)
      BY <1>4, <3>2, <3>3, JoinsAssociate, SMTT(30)
    <3>4. \A x : IsSeq(x) => (ans \o x) \o c = ans \o (x \o c)
      BY <3>3
    <3> QED  BY <3>1, <3>4, Zenon
  <2>4. run1[k] = run[k] /\ run1[k - 1] = run[k - 1] /\ pq[k] = p[k]
    BY <1>3, <1>5, <2>1
  <2>5. rest1[k - 1] = ans \o rest1[k]
    BY <1>5, <2>1, <2>2, <2>3
  <2>6. Hears(run1[k - 1], pq[k], run1[k], ans)
    BY <2>2, <2>4
  <2> QED  BY <2>2, <2>5, <2>6
<1>14. ASSUME NEW j \in 1 .. m
       PROVE  \E ans : IsSeq(ans) /\ Hears(run1[(n + j) - 1], pq[n + j], run1[n + j], ans)
                       /\ rest1[(n + j) - 1] = ans \o rest1[n + j]
  <2>1. j \in 0 .. m /\ j - 1 \in 0 .. m /\ (n + j) - 1 = n + (j - 1)
    BY <1>3
  <2>2. PICK ans : IsSeq(ans) /\ Hears(go[j - 1], q[j], go[j], ans) /\ left[j - 1] = ans \o left[j]
    BY <1>2 DEF StepsOf, m
  <2>3. run1[n + j] = go[j] /\ rest1[n + j] = left[j]
        /\ run1[n + (j - 1)] = go[j - 1] /\ rest1[n + (j - 1)] = left[j - 1] /\ pq[n + j] = q[j]
    BY <1>3, <1>6, <2>1
  <2>4. run1[(n + j) - 1] = go[j - 1] /\ rest1[(n + j) - 1] = left[j - 1]
    BY <2>1, <2>3
  <2> QED  BY <2>2, <2>3, <2>4
<1>15. ASSUME NEW k \in 1 .. n + m
       PROVE  \E ans : IsSeq(ans) /\ Hears(run1[k - 1], pq[k], run1[k], ans)
                       /\ rest1[k - 1] = ans \o rest1[k]
  BY <1>10, <1>13, <1>14
<1>16. StepsOf(pq, run1, rest1)
  BY <1>3, <1>12, <1>15 DEF StepsOf
<1>17. Reaches(r, pq, t, a \o c)
  BY <1>3, <1>8, <1>16 DEF Reaches
<1> QED  BY <1>17 DEF pq

LEMMA ReachesOne ==
    ASSUME NEW r, NEW b, NEW s, NEW a, IsSeq(a), Hears(r, b, s, a)
    PROVE  Reaches(r, <<b>>, s, a)
<1> DEFINE p == <<b>>
           run == [k \in 0 .. 1 |-> IF k = 0 THEN r ELSE s]
           rest == [k \in 0 .. 1 |-> IF k = 0 THEN a ELSE <<>>]
<1>1. Len(p) = 1 /\ p[1] = b
  OBVIOUS
<1>2. run[0] = r /\ run[1] = s /\ rest[0] = a /\ rest[1] = <<>>
  OBVIOUS
<1>3. IsSeq(<<>>) /\ a \o <<>> = a
  BY EmptyJoins
<1> HIDE DEF p, run, rest
<1>4. ASSUME NEW k \in 0 .. Len(p) PROVE IsSeq(rest[k])
  <2>1. k = 0 \/ k = 1
    BY <1>1
  <2> QED  BY <1>2, <1>3, <2>1
<1>5. ASSUME NEW k \in 1 .. Len(p)
      PROVE  \E ans : IsSeq(ans) /\ Hears(run[k - 1], p[k], run[k], ans) /\ rest[k - 1] = ans \o rest[k]
  <2>1. k = 1 /\ k - 1 = 0
    BY <1>1
  <2> QED  BY <1>1, <1>2, <1>3, <2>1
<1>6. StepsOf(p, run, rest)
  BY <1>4, <1>5 DEF StepsOf
<1>7. Reaches(r, p, s, a)
  BY <1>1, <1>2, <1>6 DEF Reaches
<1> QED  BY <1>7 DEF p

-----------------------------------------------------------------------------
(* A packet of a system exclusive message: its bytes, of which the first   *)
(* is byte n of the message, and the answers of sysex_callback to them.    *)

Buffers == [0 .. 2 -> Uint8]

Begun(r, n, b) ==
    /\ r.buffer \in Buffers
    /\ \/ n = 0 /\ b = SYSEX_BEGIN
       \/ r.state = "SYSEX" /\ r.count = n /\ b \in 0 .. 127

LEMMA ReplySeq ==
    ASSUME NEW start, NEW data, IsSeq(data)
    PROVE  IsSeq(sysex_callback(start, data))
<1> DEFINE f == sysex_callback(start, data)
<1>1. DOMAIN data = 1 .. Len(data) /\ Len(data) \in Nat
  BY SeqIs
<1>2. f = [k \in 1 .. Len(data) |-> f[k]]
  BY <1>1 DEF sysex_callback
<1> HIDE DEF f
<1>3. IsSeq(f)
  BY <1>1, <1>2, FunctionSeq
<1> QED  BY <1>3 DEF f

LEMMA OneAfter ==
    ASSUME NEW t, IsSeq(t), NEW e, NEW u, IsSeq(u), Len(u) = Len(t) + 1, u[Len(t) + 1] = e,
           \A k \in 1 .. Len(t) : u[k] = t[k]
    PROVE  t \o <<e>> = u
<1> DEFINE one == <<e>>
           v == t \o one
<1>1. IsSeq(one) /\ Len(one) = 1 /\ one[1] = e
  BY OneIs
<1>2. Len(t) \in Nat
  BY SeqIs
<1> HIDE DEF one
<1>3. /\ IsSeq(v) /\ Len(v) = Len(t) + Len(one)
      /\ \A k \in 1 .. Len(t) : v[k] = t[k]
      /\ \A k \in 1 .. Len(one) : v[Len(t) + k] = one[k]
  <2>1. IsSeq(one)
    BY <1>1
  <2>2. \A d : IsSeq(d) => /\ IsSeq(t \o d) /\ Len(t \o d) = Len(t) + Len(d)
                           /\ \A k \in 1 .. Len(t) : (t \o d)[k] = t[k]
                           /\ \A k \in 1 .. Len(d) : (t \o d)[Len(t) + k] = d[k]
    BY ConcatIs
  <2> QED  BY <2>1, <2>2
<1> HIDE DEF v
<1>4. v[Len(t) + 1] = e /\ Len(v) = Len(t) + 1
  BY <1>1, <1>3
<1>5. ASSUME NEW k \in 1 .. Len(v) PROVE v[k] = u[k]
  <2>1. k \in 1 .. Len(t) \/ k = Len(t) + 1
    BY <1>2, <1>4
  <2> QED  BY <1>3, <1>4, <2>1
<1>6. v = u
  BY <1>3, <1>4, <1>5, SameSeq
<1> QED  BY <1>6 DEF v, one

LEMMA SomeBytes ==
    ASSUME NEW x \in Uint8, NEW y \in Uint8, NEW z \in Uint8
    PROVE  /\ SubSeq(<<x, y, z>>, 1, 1) = <<x>>
           /\ SubSeq(<<x, y, z>>, 1, 2) = <<x, y>>
           /\ SubSeq(<<x, y, z>>, 1, 3) = <<x, y, z>>
           /\ IsSeq(<<x>>) /\ IsSeq(<<y>>) /\ IsSeq(<<z>>) /\ IsSeq(<<x, y>>) /\ IsSeq(<<x, y, z>>)
           /\ <<x>> \o <<y>> = <<x, y>> /\ <<x, y>> \o <<z>> = <<x, y, z>>
<1> DEFINE s == <<x, y, z>>
<1>1. s \in [1 .. 3 -> Uint8] /\ s[1] = x /\ s[2] = y /\ s[3] = z
  OBVIOUS
<1>2. SubSeq(s, 1, 1) = <<s[1]>> /\ SubSeq(s, 1, 2) = <<s[1], s[2]>> /\ SubSeq(s, 1, 3) = <<s[1], s[2], s[3]>>
  <2> HIDE DEF s
  <2> QED  BY <1>1, FirstBytes
<1>3. /\ <<x>> \in Seq(Uint8) /\ <<y>> \in Seq(Uint8) /\ <<z>> \in Seq(Uint8)
      /\ <<x, y>> \in Seq(Uint8) /\ <<x, y, z>> \in Seq(Uint8)
  OBVIOUS
<1>4. <<x>> \o <<y>> = <<x, y>> /\ <<x, y>> \o <<z>> = <<x, y, z>>
  <2>1. /\ IsSeq(<<x>>) /\ IsSeq(<<x, y>>) /\ IsSeq(<<x, y, z>>)
        /\ Len(<<x>>) = 1 /\ Len(<<x, y>>) = 2 /\ Len(<<x, y, z>>) = 3
    BY <1>3 DEF IsSeq
  <2>2. <<x>> \o <<y>> = <<x, y>>
    <3> DEFINE t == <<x>>
               u == <<x, y>>
    <3>1. u[Len(t) + 1] = y /\ \A k \in 1 .. Len(t) : u[k] = t[k]
      OBVIOUS
    <3>2. IsSeq(t) /\ IsSeq(u) /\ Len(u) = Len(t) + 1
      BY <2>1
    <3> HIDE DEF t, u
    <3>3. t \o <<y>> = u
      BY <3>1, <3>2, OneAfter
    <3> QED  BY <3>3 DEF t, u
  <2>3. <<x, y>> \o <<z>> = <<x, y, z>>
    <3> DEFINE t == <<x, y>>
               u == <<x, y, z>>
    <3>1. u[Len(t) + 1] = z /\ \A k \in 1 .. Len(t) : u[k] = t[k]
      OBVIOUS
    <3>2. IsSeq(t) /\ IsSeq(u) /\ Len(u) = Len(t) + 1
      BY <2>1
    <3> HIDE DEF t, u
    <3>3. t \o <<z>> = u
      BY <3>1, <3>2, OneAfter
    <3> QED  BY <3>3 DEF t, u
  <2> QED  BY <2>2, <2>3
<1>5. /\ SubSeq(<<x, y, z>>, 1, 1) = <<x>> /\ SubSeq(<<x, y, z>>, 1, 2) = <<x, y>>
      /\ SubSeq(<<x, y, z>>, 1, 3) = <<x, y, z>>
  BY <1>1, <1>2
<1> QED  BY <1>3, <1>4, <1>5 DEF IsSeq

(* The places of the bytes in the buffer. *)
LEMMA ThreePlaces ==
    ASSUME NEW n \in Nat, n % 3 = 0
    PROVE  /\ (n + 1) % 3 = 1 /\ (n + 2) % 3 = 2
           /\ (n \div 3) * 3 = n /\ ((n + 1) \div 3) * 3 = n /\ ((n + 2) \div 3) * 3 = n
<1>1. n = (n \div 3) * 3
  BY ByThree
<1>2. (n + 1) % 3 = 1 /\ ((n + 1) \div 3) * 3 = n
  BY <1>1, ByThree
<1>3. n + 1 \in Nat /\ (n + 1) + 1 = n + 2
  OBVIOUS
<1>4. (n + 2) % 3 = 2 /\ ((n + 2) \div 3) * 3 = n
  <2>1. ((n + 1) + 1) % 3 = IF (n + 1) % 3 = 2 THEN 0 ELSE ((n + 1) % 3) + 1
    BY <1>3, ByThree
  <2>2. (((n + 1) + 1) \div 3) * 3 = IF (n + 1) % 3 = 2 THEN ((n + 1) \div 3) * 3 + 3 ELSE ((n + 1) \div 3) * 3
    BY <1>3, ByThree
  <2> QED  BY <1>2, <1>3, <2>1, <2>2
<1> QED  BY <1>1, <1>2, <1>4

LEMMA FirstHeard ==
    ASSUME NEW n \in Nat, n % 3 = 0, n + 1 < CountRange, NEW r, NEW b, Begun(r, n, b)
    PROVE  /\ Hears(r, b, Place("SYSEX", n + 1, [r.buffer EXCEPT ![0] = b]), <<>>)
           /\ b \in Uint8 /\ [r.buffer EXCEPT ![0] = b] \in Buffers
<1> DEFINE s == Place("SYSEX", n + 1, [r.buffer EXCEPT ![0] = b])
<1>1. r.buffer \in Buffers /\ b \in Uint8
  BY DEF Begun, SYSEX_BEGIN, Uint8
<1>2. [r.buffer EXCEPT ![0] = b] \in Buffers
  BY <1>1 DEF Buffers
<1>3. HearsBegin(r, b, s, <<>>) \/ HearsData(r, b, s, <<>>)
  <2>1. CASE n = 0 /\ b = SYSEX_BEGIN
    BY <2>1 DEF HearsBegin
  <2>2. CASE r.state = "SYSEX" /\ r.count = n /\ b \in 0 .. 127
    BY <2>2 DEF HearsData
  <2> QED  BY <2>1, <2>2 DEF Begun
<1> HIDE DEF s
<1>4. Hears(r, b, s, <<>>)
  BY <1>3 DEF Hears
<1> QED  BY <1>1, <1>2, <1>4 DEF s

(* The last byte of the message, where its chunk ends. *)
LEMMA LastHeard ==
    ASSUME NEW n \in Nat, n + 1 < CountRange, NEW buffer \in Buffers
    PROVE  Hears(Place("SYSEX", n, buffer), SYSEX_END,
                 Place("IDLE", n + 1, [buffer EXCEPT ![n % 3] = SYSEX_END]),
                 ChunkHeard(n, [buffer EXCEPT ![n % 3] = SYSEX_END]))
<1>1. HearsEnd(Place("SYSEX", n, buffer), SYSEX_END,
               Place("IDLE", n + 1, [buffer EXCEPT ![n % 3] = SYSEX_END]),
               ChunkHeard(n, [buffer EXCEPT ![n % 3] = SYSEX_END]))
  BY DEF HearsEnd, Place
<1> QED  BY <1>1 DEF Hears

LEMMA MoreHeard ==
    ASSUME NEW n \in Nat, n + 1 < CountRange, NEW buffer \in Buffers, NEW b \in 0 .. 127
    PROVE  Hears(Place("SYSEX", n, buffer), b,
                 Place("SYSEX", n + 1, [buffer EXCEPT ![n % 3] = b]),
                 IF n % 3 = 2 THEN ChunkHeard(n, [buffer EXCEPT ![n % 3] = b]) ELSE <<>>)
<1>1. HearsData(Place("SYSEX", n, buffer), b,
                Place("SYSEX", n + 1, [buffer EXCEPT ![n % 3] = b]),
                IF n % 3 = 2 THEN ChunkHeard(n, [buffer EXCEPT ![n % 3] = b]) ELSE <<>>)
  BY DEF HearsData, Place
<1> QED  BY <1>1 DEF Hears

LEMMA ChunkOfOne ==
    ASSUME NEW n \in Nat, n % 3 = 0, n + 1 < CountRange, NEW r,
           r.buffer \in Buffers, r.state = "SYSEX", r.count = n
    PROVE  \E s : /\ Reaches(r, <<SYSEX_END>>, s, sysex_callback(n, <<SYSEX_END>>))
                  /\ s.buffer \in Buffers /\ s.state = "IDLE"
<1> DEFINE buf == [r.buffer EXCEPT ![0] = SYSEX_END]
           s == Place("IDLE", n + 1, buf)
<1>1. buf \in Buffers /\ buf[0] = SYSEX_END /\ SYSEX_END \in Uint8
  BY DEF Buffers, SYSEX_END, Uint8
<1>2. Hears(r, SYSEX_END, s, ChunkHeard(n, buf))
  <2>1. HearsEnd(r, SYSEX_END, s, ChunkHeard(n, buf))
    BY DEF HearsEnd, Place
  <2> QED  BY <2>1 DEF Hears
<1>3. s.buffer = buf /\ s.state = "IDLE"
  BY DEF Place
<1> HIDE DEF buf, s
<1>4. SubSeq(<<buf[0], buf[1], buf[2]>>, 1, 1) = <<SYSEX_END>>
  <2>1. buf[1] \in Uint8 /\ buf[2] \in Uint8
    BY <1>1 DEF Buffers
  <2> QED  BY <1>1, <2>1, SomeBytes
<1>5. ChunkHeard(n, buf) = sysex_callback(n, <<SYSEX_END>>)
  <2>1. (n \div 3) * 3 = n /\ (n % 3) + 1 = 1
    BY ThreePlaces
  <2> QED  BY <1>4, <2>1 DEF ChunkHeard
<1>6. IsSeq(sysex_callback(n, <<SYSEX_END>>))
  BY OneIs, ReplySeq
<1>7. Reaches(r, <<SYSEX_END>>, s, sysex_callback(n, <<SYSEX_END>>))
  BY <1>2, <1>5, <1>6, ReachesOne
<1> QED  BY <1>1, <1>3, <1>7

LEMMA ChunkOfTwo ==
    ASSUME NEW n \in Nat, n % 3 = 0, n + 2 < CountRange, NEW r, NEW b, Begun(r, n, b)
    PROVE  \E s : /\ Reaches(r, <<b, SYSEX_END>>, s, sysex_callback(n, <<b, SYSEX_END>>))
                  /\ s.buffer \in Buffers /\ s.state = "IDLE"
<1> DEFINE buf1 == [r.buffer EXCEPT ![0] = b]
           buf2 == [buf1 EXCEPT ![1] = SYSEX_END]
           s1 == Place("SYSEX", n + 1, buf1)
           s2 == Place("IDLE", n + 2, buf2)
<1>1. n + 1 \in Nat /\ n + 1 < CountRange /\ (n + 1) + 1 = n + 2 /\ (n + 1) % 3 = 1 /\ ((n + 1) \div 3) * 3 = n
  BY ThreePlaces, CountRangeAssumption
<1>2. Hears(r, b, s1, <<>>) /\ b \in Uint8 /\ buf1 \in Buffers
  BY <1>1, FirstHeard
<1>3. buf1[0] = b
  BY DEF Begun, Buffers
<1> HIDE DEF buf1
<1>end. SYSEX_END \in Uint8
  BY DEF SYSEX_END, Uint8
<1>4. buf2 \in Buffers /\ buf2[0] = b /\ buf2[1] = SYSEX_END /\ SYSEX_END \in Uint8
  BY <1>2, <1>3, <1>end DEF Buffers
<1>5. Hears(s1, SYSEX_END, s2, ChunkHeard(n + 1, buf2))
  <2>1. Hears(Place("SYSEX", n + 1, buf1), SYSEX_END,
              Place("IDLE", (n + 1) + 1, [buf1 EXCEPT ![(n + 1) % 3] = SYSEX_END]),
              ChunkHeard(n + 1, [buf1 EXCEPT ![(n + 1) % 3] = SYSEX_END]))
    BY <1>1, <1>2, LastHeard
  <2> QED  BY <1>1, <2>1
<1>6. s2.buffer = buf2 /\ s2.state = "IDLE"
  BY DEF Place
<1> HIDE DEF buf2, s1, s2
<1>7. buf2[2] \in Uint8
  BY <1>4 DEF Buffers
<1>8. SubSeq(<<buf2[0], buf2[1], buf2[2]>>, 1, 2) = <<b, SYSEX_END>>
  BY <1>2, <1>4, <1>7, SomeBytes
<1>9. /\ <<b>> \o <<SYSEX_END>> = <<b, SYSEX_END>> /\ IsSeq(<<b>>) /\ IsSeq(<<SYSEX_END>>)
      /\ IsSeq(<<b, SYSEX_END>>)
  BY <1>2, <1>4, SomeBytes
<1>10. ChunkHeard(n + 1, buf2) = sysex_callback(n, <<b, SYSEX_END>>)
  <2>1. ((n + 1) % 3) + 1 = 2
    BY <1>1
  <2> QED  BY <1>1, <1>8, <2>1 DEF ChunkHeard
<1> DEFINE a == sysex_callback(n, <<b, SYSEX_END>>)
<1>11. IsSeq(a)
  BY <1>9, ReplySeq
<1>12. Hears(s1, SYSEX_END, s2, a)
  BY <1>5, <1>10
<1> HIDE DEF a
<1>13. IsSeq(<<>>) /\ <<>> \o a = a
  BY <1>11, EmptyJoins
<1>14. Reaches(r, <<b>>, s1, <<>>) /\ Reaches(s1, <<SYSEX_END>>, s2, a)
  BY <1>2, <1>11, <1>12, <1>13, ReachesOne
<1>15. Reaches(r, <<b>> \o <<SYSEX_END>>, s2, <<>> \o a)
  BY <1>9, <1>14, ReachesJoin
<1> QED  BY <1>4, <1>6, <1>9, <1>13, <1>15 DEF a

ThreeHeard(r, n, b, c, d) ==
    \E s : /\ Reaches(r, <<b, c, d>>, s, sysex_callback(n, <<b, c, d>>))
          /\ s.buffer \in Buffers
          /\ IF d = SYSEX_END THEN s.state = "IDLE" ELSE s.state = "SYSEX" /\ s.count = n + 3

LEMMA ChunkOfThree ==
    ASSUME NEW n \in Nat, n % 3 = 0, n + 3 < CountRange, NEW r, NEW b, Begun(r, n, b),
           NEW c \in 0 .. 127, NEW d, d \in 0 .. 127 \/ d = SYSEX_END
    PROVE  ThreeHeard(r, n, b, c, d)
<1> DEFINE buf1 == [r.buffer EXCEPT ![0] = b]
           buf2 == [buf1 EXCEPT ![1] = c]
           buf3 == [buf2 EXCEPT ![2] = d]
           s1 == Place("SYSEX", n + 1, buf1)
           s2 == Place("SYSEX", n + 2, buf2)
           s3 == Place(IF d = SYSEX_END THEN "IDLE" ELSE "SYSEX", n + 3, buf3)
<1>1. /\ n + 1 \in Nat /\ n + 1 < CountRange /\ (n + 1) + 1 = n + 2 /\ (n + 1) % 3 = 1 /\ 1 # 2
      /\ n + 2 \in Nat /\ n + 2 < CountRange /\ (n + 2) + 1 = n + 3 /\ (n + 2) % 3 = 2
      /\ ((n + 2) \div 3) * 3 = n
  BY ThreePlaces, CountRangeAssumption
<1>2. Hears(r, b, s1, <<>>) /\ b \in Uint8 /\ buf1 \in Buffers
  BY <1>1, FirstHeard
<1>3. buf1[0] = b
  BY DEF Begun, Buffers
<1> HIDE DEF buf1
<1>4. c \in Uint8 /\ d \in Uint8 /\ (d = SYSEX_END => d \notin 0 .. 127)
  BY DEF Uint8, SYSEX_END
<1>5. buf2 \in Buffers /\ buf2[0] = b /\ buf2[1] = c
  BY <1>2, <1>3, <1>4 DEF Buffers
<1>6. Hears(s1, c, s2, <<>>)
  <2>1. Hears(Place("SYSEX", n + 1, buf1), c,
              Place("SYSEX", (n + 1) + 1, [buf1 EXCEPT ![(n + 1) % 3] = c]),
              IF (n + 1) % 3 = 2 THEN ChunkHeard(n + 1, [buf1 EXCEPT ![(n + 1) % 3] = c]) ELSE <<>>)
    BY <1>1, <1>2, MoreHeard
  <2> QED  BY <1>1, <2>1
<1> HIDE DEF buf2
<1>7. buf3 \in Buffers /\ buf3[0] = b /\ buf3[1] = c /\ buf3[2] = d
  BY <1>4, <1>5 DEF Buffers
<1>8. Hears(s2, d, s3, ChunkHeard(n + 2, buf3))
  <2>1. CASE d = SYSEX_END
    <3>1. Hears(Place("SYSEX", n + 2, buf2), SYSEX_END,
                Place("IDLE", (n + 2) + 1, [buf2 EXCEPT ![(n + 2) % 3] = SYSEX_END]),
                ChunkHeard(n + 2, [buf2 EXCEPT ![(n + 2) % 3] = SYSEX_END]))
      BY <1>1, <1>5, LastHeard
    <3> QED  BY <1>1, <2>1, <3>1
  <2>2. CASE d # SYSEX_END
    <3>1. d \in 0 .. 127
      BY <2>2
    <3>2. Hears(Place("SYSEX", n + 2, buf2), d,
                Place("SYSEX", (n + 2) + 1, [buf2 EXCEPT ![(n + 2) % 3] = d]),
                IF (n + 2) % 3 = 2 THEN ChunkHeard(n + 2, [buf2 EXCEPT ![(n + 2) % 3] = d]) ELSE <<>>)
      BY <1>1, <1>5, <3>1, MoreHeard
    <3>3. (IF (n + 2) % 3 = 2 THEN ChunkHeard(n + 2, [buf2 EXCEPT ![(n + 2) % 3] = d]) ELSE <<>>)
          = ChunkHeard(n + 2, buf3)
      BY <1>1
    <3>4. Place("SYSEX", (n + 2) + 1, [buf2 EXCEPT ![(n + 2) % 3] = d]) = s3
      BY <1>1, <2>2
    <3> HIDE DEF s3, buf3
    <3> QED  BY <3>2, <3>3, <3>4
  <2> QED  BY <2>1, <2>2
<1>9. /\ s3.buffer = buf3
      /\ IF d = SYSEX_END THEN s3.state = "IDLE" ELSE s3.state = "SYSEX" /\ s3.count = n + 3
  BY DEF Place
<1> HIDE DEF buf3, s1, s2, s3
<1>10. /\ SubSeq(<<b, c, d>>, 1, 3) = <<b, c, d>>
       /\ <<b>> \o <<c>> = <<b, c>> /\ <<b, c>> \o <<d>> = <<b, c, d>>
       /\ IsSeq(<<b>>) /\ IsSeq(<<c>>) /\ IsSeq(<<d>>) /\ IsSeq(<<b, c>>) /\ IsSeq(<<b, c, d>>)
  BY <1>2, <1>4, SomeBytes
<1>11. ChunkHeard(n + 2, buf3) = sysex_callback(n, <<b, c, d>>)
  <2>1. ((n + 2) % 3) + 1 = 3
    BY <1>1
  <2> QED  BY <1>1, <1>7, <1>10, <2>1 DEF ChunkHeard
<1> DEFINE a == sysex_callback(n, <<b, c, d>>)
<1>12. IsSeq(a)
  BY <1>10, ReplySeq
<1>13. Hears(s2, d, s3, a)
  BY <1>8, <1>11
<1> HIDE DEF a
<1>14. IsSeq(<<>>) /\ <<>> \o a = a /\ <<>> \o <<>> = <<>>
  BY <1>12, EmptyJoins
<1>15. Reaches(r, <<b>>, s1, <<>>) /\ Reaches(s1, <<c>>, s2, <<>>) /\ Reaches(s2, <<d>>, s3, a)
  BY <1>2, <1>6, <1>12, <1>13, <1>14, ReachesOne
<1>16. Reaches(r, <<b>> \o <<c>>, s2, <<>> \o <<>>)
  BY <1>10, <1>15, ReachesJoin
<1>17. Reaches(r, <<b, c>>, s2, <<>>)
  BY <1>10, <1>14, <1>16
<1>18. Reaches(r, <<b, c>> \o <<d>>, s3, <<>> \o a)
  BY <1>10, <1>15, <1>17, ReachesJoin
<1> QED  BY <1>7, <1>9, <1>10, <1>14, <1>18 DEF a, ThreeHeard

-----------------------------------------------------------------------------
(* The messages of the host, packet by packet.                             *)

IsMessage(m) ==
    \E name \in {"cc", "noteon"}, chan \in 0 .. 15, x \in 0 .. 127, y \in 0 .. 127 :
        m = <<name, <<chan, x, y>>>>

IsArray(m) ==
    /\ m = <<"array", m[2]>> /\ m[2] \in Seq(Uint8) /\ Len(m[2]) \in 2 .. CountRange - 1
    /\ m[2][1] = SYSEX_BEGIN /\ m[2][Len(m[2])] = SYSEX_END
    /\ \A k \in 2 .. Len(m[2]) - 1 : m[2][k] < 128

LEMMA Triples ==
    ASSUME NEW A, NEW B, NEW C, NEW t \in A \X B \X C
    PROVE  t[1] \in A /\ t[2] \in B /\ t[3] \in C /\ t = <<t[1], t[2], t[3]>>
  OBVIOUS

LEMMA Pairs ==
    ASSUME NEW A, NEW B, NEW t \in A \X B
    PROVE  t[1] \in A /\ t[2] \in B /\ t = <<t[1], t[2]>>
  OBVIOUS

LEMMA HostMessages ==
    ASSUME NEW m \in HostMessage
    PROVE  IsMessage(m) \/ IsArray(m)
<1> DEFINE A == 0 .. 15
           B == 0 .. 127
           names == {"cc", "noteon"}
<1>1. ASSUME m \in names \X (A \X B \X B) PROVE IsMessage(m)
  <2> HIDE DEF A, B, names
  <2>1. m[1] \in names /\ m[2] \in A \X B \X B /\ m = <<m[1], m[2]>>
    BY <1>1, Pairs
  <2>2. m[2][1] \in A /\ m[2][2] \in B /\ m[2][3] \in B /\ m[2] = <<m[2][1], m[2][2], m[2][3]>>
    BY <2>1, Triples
  <2>3. m = <<m[1], <<m[2][1], m[2][2], m[2][3]>>>>
    BY <2>1, <2>2, Zenon
  <2>4. \E name \in names, chan \in A, x \in B, y \in B : m = <<name, <<chan, x, y>>>>
    BY <2>1, <2>2, <2>3, Zenon
  <2> QED  BY <2>4, Zenon DEF IsMessage, A, B, names
<1>2. ASSUME ~(m \in names \X (A \X B \X B)) PROVE IsArray(m)
  BY <1>2, HostAssumption, Zenon DEF IsArray
<1> QED  BY <1>1, <1>2

LEMMA ItemIs ==
    ASSUME NEW n \in Nat, NEW packets, Len(packets) = n, DOMAIN packets = 1 .. n, NEW answer
    PROVE  /\ IsSeq(Item(packets, answer)) /\ Len(Item(packets, answer)) = n
           /\ \A k \in 1 .. n :
                 /\ Item(packets, answer)[k].packet = packets[k]
                 /\ Item(packets, answer)[k].first = (k = 1)
                 /\ Item(packets, answer)[k].last = (k = n)
                 /\ Item(packets, answer)[k].answer = answer[k]
<1> DEFINE f == Item(packets, answer)
<1>1. f = [k \in 1 .. n |-> [packet |-> packets[k], first |-> k = 1, last |-> k = n, answer |-> answer[k]]]
  BY DEF Item
<1>2. \A k \in 1 .. n : /\ f[k].packet = packets[k] /\ f[k].first = (k = 1)
                        /\ f[k].last = (k = n) /\ f[k].answer = answer[k]
  BY <1>1
<1>3. f = [k \in 1 .. n |-> f[k]]
  BY <1>1
<1> HIDE DEF f
<1>4. IsSeq(f) /\ Len(f) = n
  BY <1>3, FunctionSeq
<1> QED  BY <1>2, <1>4 DEF f

(* A message of three bytes. *)
ThreeBytes(b, x, y) ==
    (b \in 144 .. 159 \/ b \in 176 .. 191) /\ x \in 0 .. 127 /\ y \in 0 .. 127

LEMMA ThreeBytesAre ==
    ASSUME NEW b, NEW x, NEW y, ThreeBytes(b, x, y)
    PROVE  /\ b \in Uint8 /\ x \in Uint8 /\ y \in Uint8
           /\ midi_packet_length(b) = THREE /\ b # SYSEX_BEGIN
<1>1. (b \in 144 .. 159 \/ b \in 176 .. 191) /\ x \in 0 .. 127 /\ y \in 0 .. 127
  BY DEF ThreeBytes
<1> QED  BY <1>1, MessageLength DEF Uint8, SYSEX_BEGIN

LEMMA MessageHeard ==
    ASSUME NEW r, r.buffer \in Buffers, r.state # "SYSEX", NEW b, NEW x, NEW y, ThreeBytes(b, x, y)
    PROVE  \E s : /\ Reaches(r, <<b, x, y>>, s, AnswerTo(b, x, y))
                  /\ s.buffer \in Buffers /\ s.state = "THREE"
<1> DEFINE buf1 == [r.buffer EXCEPT ![0] = b]
           buf2 == [buf1 EXCEPT ![1] = x]
           buf3 == [buf2 EXCEPT ![2] = y]
           s1 == Place("THREE", 1, buf1)
           s2 == Place("THREE", 2, buf2)
           s3 == Place("THREE", 1, buf3)
           a == AnswerTo(b, x, y)
<1>1. b \in Uint8 /\ x \in Uint8 /\ y \in Uint8
  BY ThreeBytesAre
<1>2. buf1 \in Buffers /\ buf1[0] = b
  BY <1>1 DEF Buffers
<1>3. Hears(r, b, s1, <<>>)
  <2>1. HearsStatus(r, b, s1, <<>>)
    BY DEF HearsStatus, ThreeBytes
  <2> HIDE DEF s1
  <2> QED  BY <2>1 DEF Hears
<1> HIDE DEF buf1
<1>4. buf2 \in Buffers /\ buf2[0] = b /\ buf2[1] = x
  BY <1>1, <1>2 DEF Buffers
<1>5. Hears(s1, x, s2, <<>>)
  <2>1. HearsNumber(s1, x, s2, <<>>)
    BY DEF HearsNumber, Place, ThreeBytes
  <2> HIDE DEF s1, s2
  <2> QED  BY <2>1 DEF Hears
<1> HIDE DEF buf2
<1>6. buf3 \in Buffers
  BY <1>1, <1>4 DEF Buffers
<1>7. Hears(s2, y, s3, a)
  <2>1. HearsValue(s2, y, s3, a)
    BY <1>4 DEF HearsValue, Place, ThreeBytes
  <2> HIDE DEF s2, s3, a
  <2> QED  BY <2>1 DEF Hears
<1>8. s3.buffer = buf3 /\ s3.state = "THREE"
  BY DEF Place
<1> HIDE DEF buf3, s1, s2, s3
<1>9. IsSeq(a)
  <2>1. IsSeq(<<>>)
    BY OneIs, EmptyJoins
  <2> QED  BY <2>1, OneIs DEF AnswerTo, cc_callback
<1> HIDE DEF a
<1>10. IsSeq(<<>>) /\ <<>> \o a = a /\ <<>> \o <<>> = <<>>
  BY <1>9, EmptyJoins
<1>11. /\ <<b>> \o <<x>> = <<b, x>> /\ <<b, x>> \o <<y>> = <<b, x, y>>
       /\ IsSeq(<<b>>) /\ IsSeq(<<x>>) /\ IsSeq(<<y>>) /\ IsSeq(<<b, x>>) /\ IsSeq(<<b, x, y>>)
  BY <1>1, SomeBytes
<1>12. Reaches(r, <<b>>, s1, <<>>) /\ Reaches(s1, <<x>>, s2, <<>>) /\ Reaches(s2, <<y>>, s3, a)
  BY <1>3, <1>5, <1>7, <1>9, <1>10, ReachesOne
<1>13. Reaches(r, <<b>> \o <<x>>, s2, <<>> \o <<>>)
  BY <1>11, <1>12, ReachesJoin
<1>14. Reaches(r, <<b, x>>, s2, <<>>)
  BY <1>10, <1>11, <1>13
<1>15. Reaches(r, <<b, x>> \o <<y>>, s3, <<>> \o a)
  BY <1>11, <1>12, <1>14, ReachesJoin
<1> QED  BY <1>6, <1>8, <1>10, <1>11, <1>15 DEF a

Sent3(b, x, y) == usb_send_func(SendCall(3, b, x, y))

LEMMA MessageTaken ==
    ASSUME NEW b, NEW x, NEW y, ThreeBytes(b, x, y)
    PROVE  /\ Sent3(b, x, y) = <<Sent3(b, x, y)[1]>>
           /\ Sent3(b, x, y)[1].bytes[1] = b
           /\ usb_get_midi(Sent3(b, x, y)[1]) = <<b, x, y>>
<1> DEFINE event == MIDI_EVENT(0, CommonEvent(b))
           packet == Packet(event, <<b, x, y>>)
<1>1. midi_packet_length(b) = THREE
  BY ThreeBytesAre
<1>2. usb_send_func(SendCall(3, b, x, y)) = <<packet>>
  <2>1. SendCall(3, b, x, y).bytes = <<b, x, y>> /\ <<b, x, y>>[1] = b
    BY DEF SendCall
  <2> QED  BY <1>1, <2>1 DEF usb_send_func, UNDEFINED, THREE
<1>3. packet.bytes = <<b, x, y>> /\ packet.bytes[1] = b
  BY DEF Packet
<1> HIDE DEF packet
<1>4. InputLength(packet) = 3
  BY <1>1, <1>3 DEF InputLength, UNDEFINED, THREE
<1>5. usb_get_midi(packet) = <<b, x, y>>
  <2>1. b \in Uint8 /\ x \in Uint8 /\ y \in Uint8
    BY ThreeBytesAre
  <2>2. SubSeq(<<b, x, y>>, 1, 3) = <<b, x, y>>
    BY <2>1, SomeBytes
  <2>3. usb_get_midi(packet) = SubSeq(packet.bytes, 1, InputLength(packet))
    BY DEF usb_get_midi
  <2> QED  BY <1>3, <1>4, <2>2, <2>3, Zenon
<1> QED  BY <1>2, <1>3, <1>5 DEF Sent3

(* A piece of a system exclusive message. *)
LEMMA PieceTaken ==
    ASSUME NEW cnt \in 1 .. 3, NEW b0 \in Uint8, NEW b1, NEW b2,
           midi_packet_length(b0) = UNDEFINED, cnt < 3 => <<b0, b1, b2>>[cnt] = SYSEX_END
    PROVE  LET p == usb_send_func(SendCall(cnt, b0, b1, b2))[1] IN
           p.bytes[1] = b0 /\ usb_get_midi(p) = SubSeq(<<b0, b1, b2>>, 1, cnt)
<1> DEFINE code  == SysexEvent(cnt, <<b0, b1, b2>>)
           event == MIDI_EVENT(0, code)
           call  == SendCall(cnt, b0, b1, b2)
<1>1. call.bytes = <<b0, b1, b2>> /\ call.cnt = cnt
  BY DEF SendCall
<1>2. usb_send_func(call) = <<Packet(event, <<b0, b1, b2>>)>>
  BY <1>1 DEF usb_send_func, UNDEFINED
<1>3. \/ cnt = 3 /\ (code = SYSEX_ENDS_IN_3 \/ code = SYSEX_START_OR_CONT)
      \/ cnt = 2 /\ code = SYSEX_ENDS_IN_2
      \/ cnt = 1 /\ code = SYSEX_ENDS_IN_1
  <2>1. CASE <<b0, b1, b2>>[cnt] = SYSEX_END
    BY <2>1 DEF SysexEvent
  <2>2. CASE <<b0, b1, b2>>[cnt] # SYSEX_END
    BY <2>2 DEF SysexEvent
  <2> QED  BY <2>1, <2>2
<1>4. /\ MIDI_EVENT(0, SYSEX_ENDS_IN_3) = 7 /\ MIDI_EVENT(0, SYSEX_START_OR_CONT) = 4
      /\ MIDI_EVENT(0, SYSEX_ENDS_IN_2) = 6 /\ MIDI_EVENT(0, SYSEX_ENDS_IN_1) = 5
  BY DEF MIDI_EVENT, SYSEX_ENDS_IN_3, SYSEX_START_OR_CONT, SYSEX_ENDS_IN_2, SYSEX_ENDS_IN_1
<1> HIDE DEF code
<1>5. \/ cnt = 3 /\ event \in {4, 7}
      \/ cnt = 2 /\ event = 6
      \/ cnt = 1 /\ event = 5
  BY <1>3, <1>4
<1> HIDE DEF event
<1> DEFINE packet == Packet(event, <<b0, b1, b2>>)
<1>6. packet.event = event /\ packet.bytes = <<b0, b1, b2>> /\ packet.bytes[1] = b0
  BY DEF Packet
<1> HIDE DEF packet
<1>7. InputLength(packet) = cnt
  BY <1>4, <1>5, <1>6 DEF InputLength, UNDEFINED
<1>8. usb_get_midi(packet) = SubSeq(<<b0, b1, b2>>, 1, cnt)
  BY <1>6, <1>7 DEF usb_get_midi
<1>9. usb_send_func(call)[1] = packet
  BY <1>2 DEF packet
<1> QED  BY <1>6, <1>8, <1>9

(* Rounds of midi_send_array. *)
LEMMA Rounds ==
    ASSUME NEW L \in Nat, L >= 2, NEW k \in 1 .. (L + 2) \div 3, NEW n, n = 3 * (k - 1)
    PROVE  /\ n \in Nat /\ n % 3 = 0 /\ n + 1 <= L /\ (k = 1 <=> n = 0)
           /\ (k = (L + 2) \div 3 <=> n + 3 >= L)
           /\ (L + 2) \div 3 \in Nat \ {0}
<1>1. PICK q \in Nat, r \in 0 .. 2 : L + 2 = 3 * q + r /\ (L + 2) \div 3 = q
  <2>1. (L + 2) \div 3 \in Nat /\ (L + 2) % 3 \in 0 .. 2 /\ L + 2 = 3 * ((L + 2) \div 3) + ((L + 2) % 3)
    OBVIOUS
  <2> QED  BY <2>1
<1>2. k \in 1 .. q
  BY <1>1
<1>3. n \in Nat /\ n % 3 = 0
  BY <1>2
<1>4. n + 1 <= L /\ (k = 1 <=> n = 0) /\ (k = q <=> n + 3 >= L) /\ q \in Nat \ {0}
  BY <1>1, <1>2
<1> QED  BY <1>1, <1>3, <1>4

LEMMA AnswersAre ==
    ASSUME NEW a, NEW k \in 1 .. (Len(a) + 2) \div 3, k \in Nat, NEW data, IsSeq(data),
           Len(data) = ToSend(a, k), \A j \in 1 .. Len(data) : data[j] = a[3 * (k - 1) + j]
    PROVE  SysexAnswers(a)[k] = sysex_callback(3 * (k - 1), data)
<1>1. SysexAnswers(a)[k] =
          [j \in 1 .. ToSend(a, k) |-> midi_send_cc(15, a[3 * (k - 1) + j] % 128, 3 * (k - 1) + j - 1)]
  BY DEF SysexAnswers, midi_send_array
<1>2. Len(data) \in Nat /\ DOMAIN data = 1 .. Len(data)
  BY SeqIs
<1>3. sysex_callback(3 * (k - 1), data) =
          [j \in 1 .. Len(data) |-> midi_send_cc(15, data[j] % 128, (3 * (k - 1) + j - 1) % 128)]
  BY <1>2 DEF sysex_callback
<1>4. ASSUME NEW v \in Nat PROVE \A x : midi_send_cc(15, x, v % 128) = midi_send_cc(15, x, v)
  <2>1. (v % 128) % 128 = v % 128
    OBVIOUS
  <2> QED  BY <2>1 DEF midi_send_cc, Low7
<1>5. ASSUME NEW j \in 1 .. Len(data)
      PROVE  midi_send_cc(15, data[j] % 128, (3 * (k - 1) + j - 1) % 128)
                 = midi_send_cc(15, a[3 * (k - 1) + j] % 128, 3 * (k - 1) + j - 1)
  <2>1. 3 * (k - 1) + j - 1 \in Nat
    BY <1>2
  <2>2. data[j] = a[3 * (k - 1) + j]
    OBVIOUS
  <2> QED  BY <1>4, <2>1, <2>2
<1> QED  BY <1>1, <1>3, <1>5

-----------------------------------------------------------------------------
(* Where the host's message m leaves the parser after k of its packets.    *)
After(s, m, k) ==
    /\ s.buffer \in Buffers
    /\ IF k = Len(Items(m)) THEN s.state # "SYSEX"
       ELSE m[1] = "array" /\ s.state = "SYSEX" /\ s.count = 3 * k

LEMMA ItemsOfMessage ==
    ASSUME NEW m, IsMessage(m)
    PROVE  /\ IsSeq(Items(m)) /\ Len(Items(m)) = 1
           /\ Items(m)[1].first = TRUE /\ Items(m)[1].last = TRUE
           /\ \E b, x, y : /\ ThreeBytes(b, x, y)
                           /\ Items(m)[1].packet.bytes[1] = b
                           /\ usb_get_midi(Items(m)[1].packet) = <<b, x, y>>
                           /\ Items(m)[1].answer = AnswerTo(b, x, y)
<1>1. PICK name \in {"cc", "noteon"} :
          \E chan \in 0 .. 15, x \in 0 .. 127, y \in 0 .. 127 : m = <<name, <<chan, x, y>>>>
  BY Zenon DEF IsMessage
<1>2. PICK chan \in 0 .. 15 : \E x \in 0 .. 127, y \in 0 .. 127 : m = <<name, <<chan, x, y>>>>
  BY <1>1, Zenon
<1>3. PICK x \in 0 .. 127 : \E y \in 0 .. 127 : m = <<name, <<chan, x, y>>>>
  BY <1>2, Zenon
<1>4. PICK y \in 0 .. 127 : m = <<name, <<chan, x, y>>>>
  BY <1>3, Zenon
<1> DEFINE b == (IF name = "cc" THEN 176 ELSE 144) + chan
           p == Sent3(b, x, y)
           a == IF name = "cc" THEN << <<midi_send_cc((chan + 1) % 16, x, y)>> >> ELSE << <<>> >>
<1>5. b \in 144 .. 159 \/ b \in 176 .. 191
  OBVIOUS
<1>6. name = "cc" => HighNibble(b) = 176 /\ LowNibble(b) = chan
  BY DEF HighNibble, LowNibble
<1>7. name = "noteon" => HighNibble(b) = 144
  BY DEF HighNibble
<1>8. a[1] = AnswerTo(b, x, y)
  BY <1>6, <1>7 DEF AnswerTo, cc_callback, MIDI_CC
<1>9. x % 128 = x /\ y % 128 = y /\ chan % 16 = chan
  OBVIOUS
<1>10. /\ name = "cc" => midi_send_cc(chan, x, y) = SendCall(3, b, x, y)
       /\ name = "noteon" => midi_send_noteon(chan, x, y) = SendCall(3, b, x, y)
  BY <1>9 DEF midi_send_cc, midi_send_noteon, OnChannel, Low7, LowNibble, MIDI_CC, MIDI_NOTEON
<1>11. Items(m) = Item(p, a)
  <2>1. m[1] = name /\ m[2][1] = chan /\ m[2][2] = x /\ m[2][3] = y
    BY <1>4
  <2>2. CASE name = "cc"
    <3>1. Items(m) = Item(usb_send_func(midi_send_cc(chan, x, y)), << <<midi_send_cc((chan + 1) % 16, x, y)>> >>)
      BY <2>1, <2>2 DEF Items
    <3> QED  BY <1>10, <2>2, <3>1 DEF Sent3
  <2>3. CASE name = "noteon"
    <3>1. Items(m) = Item(usb_send_func(midi_send_noteon(chan, x, y)), << <<>> >>)
      BY <2>1, <2>3 DEF Items
    <3> QED  BY <1>10, <2>3, <3>1 DEF Sent3
  <2> QED  BY <2>2, <2>3
<1> HIDE DEF b, a
<1>bytes. ThreeBytes(b, x, y)
  BY <1>3, <1>4, <1>5 DEF ThreeBytes
<1>12. p = <<p[1]>> /\ p[1].bytes[1] = b /\ usb_get_midi(p[1]) = <<b, x, y>>
  BY <1>bytes, MessageTaken DEF p
<1> HIDE DEF p
<1> DEFINE one == 1
           it == Item(p, a)
<1>13. Len(p) = one /\ DOMAIN p = 1 .. one /\ one \in Nat /\ 1 \in 1 .. one
  <2>1. Len(<<p[1]>>) = 1 /\ DOMAIN <<p[1]>> = 1 .. 1
    OBVIOUS
  <2> QED  BY <1>12, <2>1
<1> HIDE DEF one
<1>14. /\ IsSeq(it) /\ Len(it) = one
       /\ \A k \in 1 .. one : /\ it[k].packet = p[k] /\ it[k].first = (k = 1)
                              /\ it[k].last = (k = one) /\ it[k].answer = a[k]
  BY <1>13, ItemIs
<1> HIDE DEF it
<1>15. it[1].packet = p[1] /\ it[1].first = TRUE /\ it[1].last = TRUE /\ it[1].answer = a[1]
       /\ IsSeq(it) /\ Len(it) = 1
  BY <1>13, <1>14 DEF one
<1>16. /\ it[1].packet.bytes[1] = b /\ usb_get_midi(it[1].packet) = <<b, x, y>>
       /\ it[1].answer = AnswerTo(b, x, y)
  BY <1>8, <1>12, <1>15
<1>17. Items(m) = it
  BY <1>11 DEF it
<1> QED  BY <1>bytes, <1>15, <1>16, <1>17

(* A packet of a system exclusive message. *)
LEMMA ItemsOfArray ==
    ASSUME NEW m, IsArray(m)
    PROVE  LET a == m[2] IN
           /\ m[1] = "array" /\ IsSeq(Items(m)) /\ Len(Items(m)) = (Len(a) + 2) \div 3
           /\ Len(Items(m)) \in Nat \ {0}
           /\ \A k \in 1 .. Len(Items(m)) :
                 /\ Items(m)[k].first = (k = 1) /\ Items(m)[k].last = (k = Len(Items(m)))
                 /\ Items(m)[k].packet = usb_send_func(midi_send_array(a)[k])[1]
                 /\ Items(m)[k].answer = SysexAnswers(a)[k]
<1> DEFINE a == m[2]
           n == (Len(a) + 2) \div 3
           packets == SysexPackets(a)
           answer == SysexAnswers(a)
<1>1. m = <<"array", a>> /\ Len(a) \in 2 .. CountRange - 1 /\ CountRange \in Nat
  BY CountRangeAssumption DEF IsArray
<1>2. m[1] = "array"
  BY <1>1
<1>3. Items(m) = Item(packets, answer)
  BY <1>2 DEF Items
<1>4. n \in Nat \ {0}
  <2>1. Len(a) \in Nat /\ Len(a) >= 2
    BY <1>1
  <2> HIDE DEF a
  <2>2. (Len(a) + 2) \div 3 \in Nat \ {0}
    BY <2>1
  <2> QED  BY <2>2
<1>5. DOMAIN midi_send_array(a) = 1 .. n
  BY DEF midi_send_array
<1>6. packets = [k \in 1 .. n |-> usb_send_func(midi_send_array(a)[k])[1]]
  BY <1>5 DEF SysexPackets
<1>7. packets = [k \in 1 .. n |-> packets[k]] /\ \A k \in 1 .. n : packets[k] = usb_send_func(midi_send_array(a)[k])[1]
  BY <1>6
<1>packets. Len(packets) = n /\ DOMAIN packets = 1 .. n
  <2> HIDE DEF packets, n
  <2> QED  BY <1>4, <1>7, FunctionSeq
<1> HIDE DEF packets, answer
<1>8. /\ IsSeq(Item(packets, answer)) /\ Len(Item(packets, answer)) = n
      /\ \A k \in 1 .. n :
            /\ Item(packets, answer)[k].packet = packets[k] /\ Item(packets, answer)[k].first = (k = 1)
            /\ Item(packets, answer)[k].last = (k = n) /\ Item(packets, answer)[k].answer = answer[k]
  <2> HIDE DEF n
  <2> QED  BY <1>4, <1>packets, ItemIs
<1> HIDE DEF n
<1> DEFINE it == Items(m)
<1>9. /\ IsSeq(it) /\ Len(it) = n
      /\ \A k \in 1 .. n : /\ it[k].packet = packets[k] /\ it[k].first = (k = 1)
                           /\ it[k].last = (k = n) /\ it[k].answer = answer[k]
  BY <1>3, <1>8
<1> HIDE DEF it
<1>10. \A k \in 1 .. Len(it) :
           /\ it[k].first = (k = 1) /\ it[k].last = (k = Len(it))
           /\ it[k].packet = usb_send_func(midi_send_array(a)[k])[1]
           /\ it[k].answer = SysexAnswers(a)[k]
  BY <1>7, <1>9 DEF answer
<1>11. Len(it) = (Len(a) + 2) \div 3 /\ Len(it) \in Nat \ {0}
  BY <1>4, <1>9 DEF n
<1> QED  BY <1>2, <1>9, <1>10, <1>11 DEF it

(* Each packet of the host is heard where the one before it left the       *)
(* parser, and the answers it causes are those of its item.                *)
Ready(r, m, k) ==
    /\ r.buffer \in Buffers
    /\ \/ k = 1 /\ (r.state # "SYSEX" \/ Items(m)[k].packet.bytes[1] = SYSEX_BEGIN)
       \/ k > 1 /\ After(r, m, k - 1)

LEMMA MessageItemHeard ==
    ASSUME NEW m, IsMessage(m), NEW k \in 1 .. Len(Items(m)), NEW r, Ready(r, m, k)
    PROVE  \E s : Reaches(r, usb_get_midi(Items(m)[k].packet), s, Items(m)[k].answer) /\ After(s, m, k)
<1>1. Len(Items(m)) = 1 /\ k = 1
  <2>1. Len(Items(m)) = 1
    BY ItemsOfMessage, Zenon
  <2> QED  BY <2>1
<1>2. PICK b, x, y : /\ ThreeBytes(b, x, y)
                     /\ Items(m)[1].packet.bytes[1] = b
                     /\ usb_get_midi(Items(m)[1].packet) = <<b, x, y>>
                     /\ Items(m)[1].answer = AnswerTo(b, x, y)
  BY ItemsOfMessage, Zenon
<1>3. r.buffer \in Buffers /\ r.state # "SYSEX"
  <2>2. b # SYSEX_BEGIN
    BY <1>2, ThreeBytesAre
  <2>3. ~(k > 1) /\ Items(m)[k].packet.bytes[1] = b
    BY <1>1, <1>2
  <2> QED  BY <2>2, <2>3, Zenon DEF Ready
<1>4. PICK s : Reaches(r, <<b, x, y>>, s, AnswerTo(b, x, y)) /\ s.buffer \in Buffers /\ s.state = "THREE"
  BY <1>2, <1>3, MessageHeard
<1>5. After(s, m, k)
  BY <1>1, <1>4 DEF After
<1> QED  BY <1>1, <1>2, <1>4, <1>5

LEMMA DataLength ==
    ASSUME NEW b \in Uint8, b < 128
    PROVE  midi_packet_length(b) = UNDEFINED
<1>1. ~midi_is_statusbyte(b)
  BY DEF midi_is_statusbyte, Uint8
<1> QED  BY <1>1, PacketLengths

(* The bytes of a packet of a system exclusive message: n of the message   *)
(* are in the packets before it.                                           *)
LEMMA PacketIs ==
    ASSUME NEW a, a \in Seq(Uint8), Len(a) \in 2 .. CountRange - 1,
           a[1] = SYSEX_BEGIN, a[Len(a)] = SYSEX_END, \A j \in 2 .. Len(a) - 1 : a[j] < 128,
           NEW k \in 1 .. (Len(a) + 2) \div 3, NEW n, n = 3 * (k - 1)
    PROVE  LET p == usb_send_func(midi_send_array(a)[k])[1] IN
           /\ p.bytes[1] = a[n + 1]
           /\ \/ /\ n + 3 <= Len(a) /\ usb_get_midi(p) = <<a[n + 1], a[n + 2], a[n + 3]>>
                 /\ SysexAnswers(a)[k] = sysex_callback(n, <<a[n + 1], a[n + 2], a[n + 3]>>)
              \/ /\ n + 2 = Len(a) /\ usb_get_midi(p) = <<a[n + 1], a[n + 2]>>
                 /\ SysexAnswers(a)[k] = sysex_callback(n, <<a[n + 1], a[n + 2]>>)
              \/ /\ n + 1 = Len(a) /\ usb_get_midi(p) = <<a[n + 1]>>
                 /\ SysexAnswers(a)[k] = sysex_callback(n, <<a[n + 1]>>)
<1> DEFINE L == Len(a)
           c == ToSend(a, k)
           b == Chunk(a, k)
           p == usb_send_func(midi_send_array(a)[k])[1]
<1>1. L \in Nat /\ L >= 2 /\ \A j \in 1 .. L : a[j] \in Uint8
  BY CountRangeAssumption, ElementOfSeq
<1>2. n \in Nat /\ n + 1 <= L /\ k \in Nat
  <2> HIDE DEF L
  <2>1. k \in 1 .. (L + 2) \div 3
    BY DEF L
  <2>2. n \in Nat /\ n + 1 <= L /\ (L + 2) \div 3 \in Nat
    BY <1>1, <2>1, Rounds
  <2> QED  BY <2>1, <2>2
<1>3. c = IF L - n > 3 THEN 3 ELSE L - n
  BY DEF ToSend
<1>4. /\ n + 3 <= L => c = 3
      /\ n + 2 = L => c = 2
      /\ n + 1 = L => c = 1
      /\ n + 3 <= L \/ n + 2 = L \/ n + 1 = L
  <2> HIDE DEF L, c
  <2> QED  BY <1>1, <1>2, <1>3
<1>5. midi_send_array(a)[k] = SendCall(c, b[1], b[2], b[3])
  BY DEF midi_send_array, midi_send_data
<1>6. \A j \in 1 .. 3 : b[j] = IF j <= c THEN a[n + j] ELSE 0
  BY DEF Chunk
<1>7. a[n + 1] \in Uint8 /\ (n + 2 <= L => a[n + 2] \in Uint8) /\ (n + 3 <= L => a[n + 3] \in Uint8)
      /\ 0 \in Uint8
  <2> HIDE DEF L
  <2>1. n + 1 \in 1 .. L /\ (n + 2 <= L => n + 2 \in 1 .. L) /\ (n + 3 <= L => n + 3 \in 1 .. L)
    BY <1>1, <1>2
  <2> QED  BY <1>1, <2>1 DEF Uint8
<1> HIDE DEF b, c
<1> DEFINE x == a[n + 1]
           y == a[n + 2]
           z == a[n + 3]
<1>8. x \in {SYSEX_BEGIN, SYSEX_END} \/ x < 128
  <2>1. n + 1 = 1 \/ n + 1 = L \/ n + 1 \in 2 .. L - 1
    <3> HIDE DEF L
    <3> QED  BY <1>1, <1>2
  <2> QED  BY <2>1
<1>9. /\ x \in Uint8 /\ (n + 2 <= L => y \in Uint8) /\ (n + 3 <= L => z \in Uint8) /\ 0 \in Uint8
      /\ 1 <= c => b[1] = x
      /\ 2 <= c => b[2] = y
      /\ 3 <= c => b[3] = z
  BY <1>6, <1>7
<1>10. p = usb_send_func(SendCall(c, b[1], b[2], b[3]))[1] /\ c = ToSend(a, k)
  BY <1>5 DEF c
<1>11. c < 3 => b[3] = 0
  BY <1>6, <1>4
<1>12. c < 2 => b[2] = 0
  BY <1>6, <1>4
<1>13. (n + 2 = L => y = SYSEX_END) /\ (n + 1 = L => x = SYSEX_END)
  OBVIOUS
<1>14. /\ \A j \in 1 .. 1 : <<x>>[j] = a[n + j]
       /\ \A j \in 1 .. 2 : <<x, y>>[j] = a[n + j]
       /\ \A j \in 1 .. 3 : <<x, y, z>>[j] = a[n + j]
  OBVIOUS
<1> HIDE DEF x, y, z, L, p
<1>15. midi_packet_length(x) = UNDEFINED
  BY <1>8, <1>9, SysexLength0, DataLength
<1>16. ASSUME NEW d, IsSeq(d), Len(d) = c, \A j \in 1 .. Len(d) : d[j] = a[n + j]
       PROVE  SysexAnswers(a)[k] = sysex_callback(n, d)
  BY <1>2, <1>10, <1>16, AnswersAre, SMTT(30)
<1>17. CASE n + 3 <= L
  <2>1. c = 3 /\ y \in Uint8 /\ z \in Uint8 /\ b[1] = x /\ b[2] = y /\ b[3] = z
    <3>1. n + 2 <= L
      BY <1>1, <1>2, <1>17
    <3> QED  BY <1>4, <1>9, <1>17, <3>1
  <2>2. SubSeq(<<x, y, z>>, 1, 3) = <<x, y, z>> /\ IsSeq(<<x, y, z>>)
    <3>1. x \in Uint8 /\ y \in Uint8 /\ z \in Uint8
      BY <1>9, <2>1
    <3> QED  BY <3>1, SomeBytes
  <2>3. p = usb_send_func(SendCall(3, x, y, z))[1]
    BY <1>10, <2>1
  <2>4. p.bytes[1] = x /\ usb_get_midi(p) = SubSeq(<<x, y, z>>, 1, 3)
    <3>1. 3 \in 1 .. 3 /\ ~(3 < 3)
      OBVIOUS
    <3> QED  BY <1>9, <1>15, <2>3, <3>1, PieceTaken
  <2>5. SysexAnswers(a)[k] = sysex_callback(n, <<x, y, z>>)
    <3> DEFINE d == <<x, y, z>>
    <3>1. Len(d) = 3
      OBVIOUS
    <3>2. IsSeq(d) /\ \A j \in 1 .. 3 : d[j] = a[n + j]
      BY <1>14, <2>2
    <3> HIDE DEF d
    <3>3. SysexAnswers(a)[k] = sysex_callback(n, d)
      BY <1>16, <2>1, <3>1, <3>2
    <3> QED  BY <3>3 DEF d
  <2>6. usb_get_midi(p) = <<x, y, z>>
    BY <2>2, <2>4
  <2> QED  BY <1>17, <2>4, <2>5, <2>6, Zenon DEF x, y, z, L, p
<1>18. CASE n + 2 = L
  <2>1. c = 2 /\ y \in Uint8 /\ b[1] = x /\ b[2] = y /\ b[3] = 0 /\ y = SYSEX_END
    <3>1. n + 2 <= L
      BY <1>1, <1>18
    <3> QED  BY <1>4, <1>9, <1>11, <1>13, <1>18, <3>1
  <2>2. SubSeq(<<x, y, 0>>, 1, 2) = <<x, y>> /\ IsSeq(<<x, y>>)
    BY <1>9, <2>1, SomeBytes
  <2>3. p = usb_send_func(SendCall(2, x, y, 0))[1]
    BY <1>10, <2>1
  <2>4. p.bytes[1] = x /\ usb_get_midi(p) = SubSeq(<<x, y, 0>>, 1, 2)
    <3>1. 2 \in 1 .. 3 /\ <<x, y, 0>>[2] = SYSEX_END
      BY <2>1
    <3> QED  BY <1>9, <1>15, <2>3, <3>1, PieceTaken
  <2>5. SysexAnswers(a)[k] = sysex_callback(n, <<x, y>>)
    <3> DEFINE d == <<x, y>>
    <3>1. Len(d) = 2
      OBVIOUS
    <3>2. IsSeq(d) /\ \A j \in 1 .. 2 : d[j] = a[n + j]
      BY <1>14, <2>2
    <3> HIDE DEF d
    <3>3. SysexAnswers(a)[k] = sysex_callback(n, d)
      BY <1>16, <2>1, <3>1, <3>2
    <3> QED  BY <3>3 DEF d
  <2>6. usb_get_midi(p) = <<x, y>>
    BY <2>2, <2>4
  <2> QED  BY <1>18, <2>4, <2>5, <2>6, Zenon DEF x, y, L, p
<1>19. CASE n + 1 = L
  <2>1. c = 1 /\ b[1] = x /\ b[2] = 0 /\ b[3] = 0 /\ x = SYSEX_END
    BY <1>4, <1>9, <1>11, <1>12, <1>13, <1>19
  <2>2. SubSeq(<<x, 0, 0>>, 1, 1) = <<x>> /\ IsSeq(<<x>>)
    BY <1>9, SomeBytes
  <2>3. p = usb_send_func(SendCall(1, x, 0, 0))[1]
    BY <1>10, <2>1
  <2>4. p.bytes[1] = x /\ usb_get_midi(p) = SubSeq(<<x, 0, 0>>, 1, 1)
    <3>1. 1 \in 1 .. 3 /\ <<x, 0, 0>>[1] = SYSEX_END
      BY <2>1
    <3> QED  BY <1>9, <1>15, <2>3, <3>1, PieceTaken
  <2>5. SysexAnswers(a)[k] = sysex_callback(n, <<x>>)
    <3> DEFINE d == <<x>>
    <3>1. Len(d) = 1
      OBVIOUS
    <3>2. IsSeq(d) /\ \A j \in 1 .. 1 : d[j] = a[n + j]
      BY <1>14, <2>2
    <3> HIDE DEF d
    <3>3. SysexAnswers(a)[k] = sysex_callback(n, d)
      BY <1>16, <2>1, <3>1, <3>2
    <3> QED  BY <3>3 DEF d
  <2>6. usb_get_midi(p) = <<x>>
    BY <2>2, <2>4
  <2> QED  BY <1>19, <2>4, <2>5, <2>6, Zenon DEF x, L, p
<1> QED  BY <1>4, <1>17, <1>18, <1>19

LEMMA BytesSeq ==
    ASSUME NEW x \in Uint8, NEW y \in Uint8, NEW z \in Uint8
    PROVE  <<x>> \in Seq(Uint8) /\ <<x, y>> \in Seq(Uint8) /\ <<x, y, z>> \in Seq(Uint8)
  OBVIOUS

LEMMA DataIs ==
    ASSUME NEW b \in Uint8, b < 128
    PROVE  b \in 0 .. 127
  BY DEF Uint8

LEMMA MessageBytes ==
    ASSUME NEW m, IsMessage(m)
    PROVE  usb_get_midi(Items(m)[1].packet) \in Seq(Uint8)
<1>1. PICK b, x, y : /\ ThreeBytes(b, x, y)
                     /\ Items(m)[1].packet.bytes[1] = b
                     /\ usb_get_midi(Items(m)[1].packet) = <<b, x, y>>
                     /\ Items(m)[1].answer = AnswerTo(b, x, y)
  BY ItemsOfMessage, Zenon
<1>2. b \in Uint8 /\ x \in Uint8 /\ y \in Uint8
  BY <1>1, ThreeBytesAre
<1>3. <<b, x, y>> \in Seq(Uint8)
  BY <1>2, BytesSeq
<1> QED  BY <1>1, <1>3

LEMMA ArrayItemHeard ==
    ASSUME NEW m, IsArray(m), NEW k \in 1 .. Len(Items(m))
    PROVE  LET item == Items(m)[k] IN
           /\ usb_get_midi(item.packet) \in Seq(Uint8)
           /\ \A r : Ready(r, m, k) =>
                 \E s : Reaches(r, usb_get_midi(item.packet), s, item.answer) /\ After(s, m, k)
<1> DEFINE a == m[2]
           L == Len(a)
           N == Len(Items(m))
           item == Items(m)[k]
           n == 3 * (k - 1)
<1>1. /\ a \in Seq(Uint8) /\ L \in 2 .. CountRange - 1
      /\ a[1] = SYSEX_BEGIN /\ a[L] = SYSEX_END
      /\ \A j \in 2 .. L - 1 : a[j] < 128
  BY DEF IsArray
<1>2. L \in Nat /\ L >= 2 /\ L < CountRange /\ \A j \in 1 .. L : a[j] \in Uint8
  BY <1>1, CountRangeAssumption, ElementOfSeq
<1>3. /\ m[1] = "array" /\ N = (L + 2) \div 3 /\ N \in Nat \ {0}
      /\ item.packet = usb_send_func(midi_send_array(a)[k])[1] /\ item.answer = SysexAnswers(a)[k]
  BY ItemsOfArray
<1> DEFINE p == usb_send_func(midi_send_array(a)[k])[1]
<1>4. /\ p.bytes[1] = a[n + 1]
      /\ \/ /\ n + 3 <= L /\ usb_get_midi(p) = <<a[n + 1], a[n + 2], a[n + 3]>>
            /\ SysexAnswers(a)[k] = sysex_callback(n, <<a[n + 1], a[n + 2], a[n + 3]>>)
         \/ /\ n + 2 = L /\ usb_get_midi(p) = <<a[n + 1], a[n + 2]>>
            /\ SysexAnswers(a)[k] = sysex_callback(n, <<a[n + 1], a[n + 2]>>)
         \/ /\ n + 1 = L /\ usb_get_midi(p) = <<a[n + 1]>>
            /\ SysexAnswers(a)[k] = sysex_callback(n, <<a[n + 1]>>)
  <2>1. k \in 1 .. (Len(a) + 2) \div 3
    BY <1>3
  <2> HIDE DEF a, n
  <2>2. n = 3 * (k - 1)
    BY DEF n
  <2> QED  BY <1>1, <2>1, <2>2, PacketIs, ZenonT(40) DEF L
<1> HIDE DEF a, L, N, item, n, p
<1>5. k \in 1 .. N /\ n = 3 * (k - 1) /\ item.packet = p
  BY <1>3 DEF N, n, p
<1>6. /\ n \in Nat /\ n % 3 = 0 /\ n + 1 <= L /\ (k = 1 <=> n = 0)
      /\ k = N <=> n + 3 >= L
  BY <1>2, <1>3, <1>5, Rounds
<1>7. k > 1 => k - 1 \in 1 .. N /\ k - 1 # N /\ n = 3 * (k - 1)
  BY <1>3, <1>5
<1> DEFINE x == a[n + 1]
           y == a[n + 2]
           z == a[n + 3]
<1>8. /\ x \in Uint8 /\ (n = 0 => x = SYSEX_BEGIN)
      /\ n # 0 /\ n + 1 < L => x < 128
      /\ n + 1 = L => x = SYSEX_END
      /\ n + 2 <= L => y \in Uint8
      /\ n + 2 < L => y < 128
      /\ n + 2 = L => y = SYSEX_END
      /\ n + 3 <= L => z \in Uint8
      /\ n + 3 < L => z < 128
      /\ n + 3 = L => z = SYSEX_END
  <2>1. /\ n + 1 \in 1 .. L /\ (n = 0 => n + 1 = 1)
        /\ n # 0 /\ n + 1 < L => n + 1 \in 2 .. L - 1
        /\ n + 2 <= L => n + 2 \in 1 .. L
        /\ n + 2 < L => n + 2 \in 2 .. L - 1
        /\ n + 3 <= L => n + 3 \in 1 .. L
        /\ n + 3 < L => n + 3 \in 2 .. L - 1
    BY <1>2, <1>6
  <2> QED  BY <1>1, <1>2, <2>1
<1>9. /\ n + 3 <= L => y < 128
      /\ n + 2 = L \/ n + 3 <= L => (n # 0 => x < 128)
  BY <1>2, <1>6, <1>8
<1> HIDE DEF x, y, z
<1>10. usb_get_midi(item.packet) \in Seq(Uint8)
  <2>1. CASE usb_get_midi(p) = <<x, y, z>> /\ n + 3 <= L
    <3>1. n + 2 <= L
      BY <1>2, <1>6, <2>1
    <3> QED  BY <1>5, <1>8, <2>1, <3>1, BytesSeq
  <2>2. CASE usb_get_midi(p) = <<x, y>> /\ n + 2 = L
    <3>1. n + 2 <= L
      BY <1>2, <1>6, <2>2
    <3> QED  BY <1>5, <1>8, <2>2, <3>1, BytesSeq
  <2>3. CASE usb_get_midi(p) = <<x>>
    BY <1>5, <1>8, <2>3, BytesSeq
  <2> QED  BY <1>4, <2>1, <2>2, <2>3, Zenon DEF x, y, z
<1>11. ASSUME NEW r, Ready(r, m, k)
       PROVE  \E s : Reaches(r, usb_get_midi(item.packet), s, item.answer) /\ After(s, m, k)
  <2>1. r.buffer \in Buffers /\ (k > 1 => After(r, m, k - 1))
    BY <1>11, <1>5 DEF Ready
  <2>2. n # 0 => r.state = "SYSEX" /\ r.count = n
    BY <1>5, <1>6, <1>7, <2>1 DEF After, N
  <2>3. x < 128 => x \in 0 .. 127
    BY <1>8 DEF Uint8
  <2>4. n + 1 # L => Begun(r, n, x)
    BY <1>4, <1>8, <1>9, <2>1, <2>2, <2>3 DEF Begun
  <2>5. n + 1 < CountRange /\ (n + 2 <= L => n + 2 < CountRange) /\ (n + 3 <= L => n + 3 < CountRange)
    BY <1>2, <1>6, CountRangeAssumption
  <2>6. CASE n + 3 <= L /\ usb_get_midi(p) = <<x, y, z>> /\ SysexAnswers(a)[k] = sysex_callback(n, <<x, y, z>>)
    <3>0. n + 3 <= L
      BY <2>6
    <3>1. n + 1 # L /\ n + 2 <= L /\ (n + 3 < L \/ n + 3 = L)
      BY <1>2, <1>6, <3>0
    <3>2. y \in 0 .. 127
      <4>1. y \in Uint8 /\ y < 128
        BY <1>8, <1>9, <3>0, <3>1
      <4> QED  BY <4>1, DataIs
    <3>3. (z \in 0 .. 127 \/ z = SYSEX_END) /\ (z = SYSEX_END <=> n + 3 = L)
      <4>1. CASE n + 3 < L
        <5>1. z \in Uint8 /\ z < 128 /\ n + 3 # L
          BY <1>2, <1>6, <1>8, <2>6, <4>1
        <5> QED  BY <5>1 DEF Uint8, SYSEX_END
      <4>2. CASE n + 3 = L
        BY <1>8, <4>2
      <4> QED  BY <3>1, <4>1, <4>2
    <3>4. Begun(r, n, x) /\ n + 3 < CountRange /\ n \in Nat /\ n % 3 = 0
      BY <1>6, <2>4, <2>5, <3>0, <3>1
    <3>5. PICK s : /\ Reaches(r, <<x, y, z>>, s, sysex_callback(n, <<x, y, z>>))
                   /\ s.buffer \in Buffers
                   /\ IF z = SYSEX_END THEN s.state = "IDLE" ELSE s.state = "SYSEX" /\ s.count = n + 3
      <4>1. ThreeHeard(r, n, x, y, z)
        BY <3>2, <3>3, <3>4, ChunkOfThree
      <4> QED  BY <4>1, Zenon DEF ThreeHeard
    <3>6. After(s, m, k)
      <4>1. CASE n + 3 = L
        <5>1. k = N
          BY <1>2, <1>6, <4>1
        <5> QED  BY <3>3, <3>5, <4>1, <5>1 DEF After, N
      <4>2. CASE n + 3 # L
        <5>1. k # N /\ n + 3 = 3 * k
          BY <1>2, <1>5, <1>6, <2>6, <4>2
        <5> QED  BY <1>3, <3>3, <3>5, <4>2, <5>1 DEF After, N
      <4> QED  BY <4>1, <4>2
    <3> QED  BY <1>3, <1>5, <2>6, <3>5, <3>6, Zenon DEF a, item
  <2>7. CASE n + 2 = L /\ usb_get_midi(p) = <<x, y>> /\ SysexAnswers(a)[k] = sysex_callback(n, <<x, y>>)
    <3>1. y = SYSEX_END /\ n + 1 # L /\ k = N /\ n + 2 < CountRange
      BY <1>2, <1>6, <1>8, <2>5, <2>7
    <3>2. PICK s : /\ Reaches(r, <<x, SYSEX_END>>, s, sysex_callback(n, <<x, SYSEX_END>>))
                   /\ s.buffer \in Buffers /\ s.state = "IDLE"
      BY <1>6, <2>4, <3>1, ChunkOfTwo
    <3>3. After(s, m, k)
      BY <3>1, <3>2 DEF After, N
    <3> QED  BY <1>3, <1>5, <2>7, <3>1, <3>2, <3>3, Zenon DEF a, item
  <2>8. CASE n + 1 = L /\ usb_get_midi(p) = <<x>> /\ SysexAnswers(a)[k] = sysex_callback(n, <<x>>)
    <3>1. x = SYSEX_END /\ n # 0 /\ k = N
      BY <1>2, <1>6, <1>8, <2>8
    <3>2. PICK s : /\ Reaches(r, <<SYSEX_END>>, s, sysex_callback(n, <<SYSEX_END>>))
                   /\ s.buffer \in Buffers /\ s.state = "IDLE"
      BY <1>6, <2>1, <2>2, <2>5, <3>1, ChunkOfOne
    <3>3. After(s, m, k)
      BY <3>1, <3>2 DEF After, N
    <3> QED  BY <1>3, <1>5, <2>8, <3>1, <3>2, <3>3, Zenon DEF a, item
  <2> QED  BY <1>4, <2>6, <2>7, <2>8, Zenon DEF x, y, z
<1> QED  BY <1>10, <1>11 DEF item

(* Of every message. *)
LEMMA ItemHeard ==
    ASSUME NEW m \in HostMessage
    PROVE  /\ IsSeq(Items(m)) /\ Len(Items(m)) \in Nat \ {0}
           /\ \A k \in 1 .. Len(Items(m)) :
                 /\ Items(m)[k].first = (k = 1) /\ Items(m)[k].last = (k = Len(Items(m)))
                 /\ usb_get_midi(Items(m)[k].packet) \in Seq(Uint8)
                 /\ \A r : Ready(r, m, k) =>
                       \E s : /\ Reaches(r, usb_get_midi(Items(m)[k].packet), s, Items(m)[k].answer)
                              /\ After(s, m, k)
<1> DEFINE its == Items(m)
<1>1. CASE IsMessage(m)
  <2>1. /\ IsSeq(its) /\ Len(its) = 1 /\ its[1].first = TRUE /\ its[1].last = TRUE
    BY <1>1, ItemsOfMessage, Zenon
  <2>2. usb_get_midi(its[1].packet) \in Seq(Uint8)
    BY <1>1, MessageBytes
  <2>3. \A k \in 1 .. Len(its) : \A r : Ready(r, m, k) =>
            \E s : Reaches(r, usb_get_midi(its[k].packet), s, its[k].answer) /\ After(s, m, k)
    BY <1>1, MessageItemHeard, Zenon
  <2> HIDE DEF its
  <2>4. 1 \in Nat \ {0} /\ \A k \in 1 .. 1 : k = 1
    OBVIOUS
  <2>5. \A k \in 1 .. Len(its) :
            /\ its[k].first = (k = 1) /\ its[k].last = (k = Len(its))
            /\ usb_get_midi(its[k].packet) \in Seq(Uint8)
    <3> TAKE k \in 1 .. Len(its)
    <3>1. k = 1
      BY <2>1, <2>4, Zenon
    <3>2. its[k].first = TRUE /\ its[k].last = TRUE /\ (k = 1) = TRUE /\ (k = Len(its)) = TRUE
      BY <2>1, <3>1
    <3> QED  BY <2>2, <3>1, <3>2
  <2> QED  BY <2>1, <2>3, <2>4, <2>5, Zenon DEF its
<1>2. CASE IsArray(m)
  <2>1. IsSeq(its) /\ Len(its) \in Nat \ {0}
        /\ \A k \in 1 .. Len(its) : its[k].first = (k = 1) /\ its[k].last = (k = Len(its))
    BY <1>2, ItemsOfArray, ZenonT(40)
  <2>2. \A k \in 1 .. Len(its) :
           /\ usb_get_midi(its[k].packet) \in Seq(Uint8)
           /\ \A r : Ready(r, m, k) =>
                 \E s : Reaches(r, usb_get_midi(its[k].packet), s, its[k].answer) /\ After(s, m, k)
    BY <1>2, ArrayItemHeard, Zenon
  <2> QED  BY <2>1, <2>2
<1> QED  BY <1>1, <1>2, HostMessages

-----------------------------------------------------------------------------
(* What the host has still to send of a message, packet by packet, and     *)
(* where the parser has to be for that.                                    *)
Unsent(m, k) == SubSeq(Items(m), k + 1, Len(Items(m)))

LeftOver(l) == l = <<>> \/ \E m \in HostMessage : \E k \in 1 .. Len(Items(m)) - 1 : l = Unsent(m, k)

Picked(l, item, l1) ==
    \E left \in IF l = <<>> THEN {Items(m) : m \in HostMessage} ELSE {l} :
        item = Head(left) /\ l1 = Tail(left)

Resumes(r, l) ==
    /\ r.buffer \in Buffers
    /\ \/ l = <<>> /\ r.state # "SYSEX"
       \/ \E m \in HostMessage : \E k \in 1 .. Len(Items(m)) - 1 : l = Unsent(m, k) /\ After(r, m, k)

LEMMA PartAfter ==
    ASSUME NEW s, IsSeq(s), NEW k \in 0 .. Len(s), NEW j, j = k + 1
    PROVE  /\ IsSeq(SubSeq(s, j, Len(s))) /\ Len(SubSeq(s, j, Len(s))) = Len(s) - k
           /\ \A h \in 1 .. Len(s) - k : SubSeq(s, j, Len(s))[h] = s[k + h]
<1> DEFINE N == Len(s)
           u == SubSeq(s, j, N)
<1>1. N \in Nat /\ k \in 0 .. N
  BY SeqIs
<1>2. /\ j \in 1 .. N + 1 /\ N \in 0 .. N /\ j <= N + 1 /\ N - j + 1 = N - k
      /\ \A h \in 1 .. N - k : j + h - 1 = k + h
  <2> HIDE DEF N
  <2> QED  BY <1>1
<1>3. IsSeq(u) /\ Len(u) = N - j + 1 /\ \A h \in 1 .. N - j + 1 : u[h] = s[j + h - 1]
  <2>1. j \in 1 .. Len(s) + 1 /\ Len(s) \in 0 .. Len(s) /\ j <= Len(s) + 1
    BY <1>2
  <2>2. j \in 1 .. Len(s) + 1 /\ Len(s) \in 0 .. Len(s)
    BY <2>1
  <2> QED  BY <2>1, <2>2, PartIs, Zenon
<1> HIDE DEF u, N
<1>4. IsSeq(u) /\ Len(u) = N - k /\ \A h \in 1 .. N - k : u[h] = s[k + h]
  BY <1>2, <1>3
<1> QED  BY <1>4 DEF u, N

LEMMA PartAll ==
    ASSUME NEW s, IsSeq(s)
    PROVE  SubSeq(s, 1, Len(s)) = s
<1> DEFINE u == SubSeq(s, 1, Len(s))
<1>1. Len(s) \in Nat /\ 0 \in 0 .. Len(s) /\ 1 = 0 + 1
  BY SeqIs
<1>2. IsSeq(u) /\ Len(u) = Len(s) - 0 /\ \A h \in 1 .. Len(s) - 0 : u[h] = s[0 + h]
  BY <1>1, PartAfter
<1> HIDE DEF u
<1>3. Len(u) = Len(s) /\ \A h \in 1 .. Len(u) : u[h] = s[h]
  BY <1>1, <1>2
<1>4. u = s
  BY <1>2, <1>3, SameSeq
<1> QED  BY <1>4 DEF u

LEMMA PartOnward ==
    ASSUME NEW s, IsSeq(s), NEW k \in 0 .. Len(s)
    PROVE  LET u == SubSeq(s, k + 1, Len(s)) IN
           /\ IsSeq(u)
           /\ k = Len(s) => u = <<>>
           /\ k # Len(s) => /\ u # <<>> /\ Head(u) = s[k + 1]
                            /\ Tail(u) = SubSeq(s, (k + 1) + 1, Len(s))
<1> DEFINE N == Len(s)
           u == SubSeq(s, k + 1, N)
           v == SubSeq(s, (k + 1) + 1, N)
<1>1. N \in Nat /\ k \in 0 .. N
  BY SeqIs
<1>2. IsSeq(u) /\ Len(u) = N - k /\ \A h \in 1 .. N - k : u[h] = s[k + h]
  BY PartAfter
<1>3. ASSUME k # N
      PROVE  IsSeq(v) /\ Len(v) = N - (k + 1) /\ \A h \in 1 .. N - (k + 1) : v[h] = s[(k + 1) + h]
  <2>1. k + 1 \in 0 .. N
    <3> HIDE DEF N
    <3> QED  BY <1>1, <1>3
  <2> QED  BY <2>1, PartAfter
<1> HIDE DEF u, v, N
<1>4. k = N => u = <<>>
  <2>1. k = N => Len(u) = 0
    BY <1>1, <1>2
  <2> QED  BY <1>2, <2>1, SeqIs
<1>5. ASSUME k # N PROVE u # <<>> /\ Head(u) = s[k + 1] /\ Tail(u) = v
  <2>1. u # <<>>
    <3>1. Len(u) # 0
      BY <1>1, <1>2, <1>5
    <3> QED  BY <1>2, <3>1, SeqIs
  <2>2. /\ Head(u) = u[1] /\ IsSeq(Tail(u)) /\ Len(Tail(u)) = Len(u) - 1
        /\ \A h \in 1 .. Len(Tail(u)) : Tail(u)[h] = u[h + 1]
    BY <1>2, <2>1, SeqIs
  <2>3. 1 \in 1 .. N - k
    BY <1>1, <1>5
  <2>4. IsSeq(v) /\ Len(v) = N - (k + 1) /\ \A h \in 1 .. N - (k + 1) : v[h] = s[(k + 1) + h]
    BY <1>3, <1>5
  <2>5. Len(Tail(u)) = Len(v)
    BY <1>1, <1>2, <2>2, <2>4
  <2>6. ASSUME NEW h \in 1 .. Len(Tail(u)) PROVE Tail(u)[h] = v[h]
    <3>1. Len(Tail(u)) = N - k - 1
      BY <1>2, <2>2
    <3>2. h \in 1 .. N - (k + 1) /\ h + 1 \in 1 .. N - k /\ k + (h + 1) = (k + 1) + h
      BY <1>1, <3>1
    <3>3. Tail(u)[h] = u[h + 1]
      BY <2>2
    <3>4. u[h + 1] = s[k + (h + 1)]
      BY <1>2, <3>2
    <3>5. v[h] = s[(k + 1) + h]
      BY <2>4, <3>2
    <3> QED  BY <3>2, <3>3, <3>4, <3>5
  <2>7. Tail(u) = v
    BY <2>2, <2>4, <2>5, <2>6, SameSeq
  <2> QED  BY <1>2, <2>1, <2>2, <2>3, <2>7
<1> QED  BY <1>2, <1>4, <1>5 DEF u, v, N

LEMMA UnsentIs ==
    ASSUME NEW m \in HostMessage, NEW k \in 0 .. Len(Items(m))
    PROVE  /\ IsSeq(Unsent(m, k))
           /\ k = Len(Items(m)) => Unsent(m, k) = <<>>
           /\ k # Len(Items(m)) => /\ Unsent(m, k) # <<>>
                                   /\ Head(Unsent(m, k)) = Items(m)[k + 1]
                                   /\ Tail(Unsent(m, k)) = Unsent(m, k + 1)
<1> DEFINE t == Items(m)
<1>1. IsSeq(t) /\ k \in 0 .. Len(t)
  BY ItemHeard
<1>2. Unsent(m, k) = SubSeq(t, k + 1, Len(t)) /\ Unsent(m, k + 1) = SubSeq(t, (k + 1) + 1, Len(t))
  BY DEF Unsent
<1> HIDE DEF t
<1>3. LET u == SubSeq(t, k + 1, Len(t)) IN
      /\ IsSeq(u)
      /\ k = Len(t) => u = <<>>
      /\ k # Len(t) => /\ u # <<>> /\ Head(u) = t[k + 1] /\ Tail(u) = SubSeq(t, (k + 1) + 1, Len(t))
  BY <1>1, PartOnward
<1> QED  BY <1>2, <1>3, Zenon DEF t

LEMMA UnsentAll ==
    ASSUME NEW m \in HostMessage
    PROVE  Unsent(m, 0) = Items(m)
<1>1. IsSeq(Items(m)) /\ 0 + 1 = 1
  BY ItemHeard
<1>2. SubSeq(Items(m), 1, Len(Items(m))) = Items(m)
  BY <1>1, PartAll, Zenon
<1>3. Unsent(m, 0) = SubSeq(Items(m), 0 + 1, Len(Items(m)))
  BY Zenon DEF Unsent
<1> QED  BY <1>1, <1>2, <1>3

(* Which packet of which message is picked next. *)
LEMMA PickedIs ==
    ASSUME NEW l, LeftOver(l), NEW item, NEW l1, Picked(l, item, l1)
    PROVE  \E m \in HostMessage : \E k \in 1 .. Len(Items(m)) :
               /\ item = Items(m)[k] /\ l1 = Unsent(m, k)
               /\ l = <<>> <=> k = 1
<1>1. CASE l = <<>>
  <2>1. PICK m \in HostMessage : item = Head(Items(m)) /\ l1 = Tail(Items(m))
    BY <1>1 DEF Picked
  <2>2. Len(Items(m)) \in Nat \ {0}
    BY <2>1, ItemHeard
  <2>3. 0 \in 0 .. Len(Items(m)) /\ 0 # Len(Items(m)) /\ 0 + 1 = 1 /\ 1 \in 1 .. Len(Items(m))
    BY <2>2
  <2>4. Head(Unsent(m, 0)) = Items(m)[0 + 1] /\ Tail(Unsent(m, 0)) = Unsent(m, 0 + 1)
    BY <2>1, <2>3, UnsentIs
  <2>5. Unsent(m, 0) = Items(m)
    BY <2>1, UnsentAll
  <2>6. item = Items(m)[1] /\ l1 = Unsent(m, 1)
    BY <2>1, <2>3, <2>4, <2>5
  <2> QED  BY <1>1, <2>1, <2>3, <2>6
<1>2. CASE l # <<>>
  <2>1. item = Head(l) /\ l1 = Tail(l)
    BY <1>2 DEF Picked
  <2>2. PICK m \in HostMessage : \E k \in 1 .. Len(Items(m)) - 1 : l = Unsent(m, k)
    BY <1>2 DEF LeftOver
  <2>3. PICK k \in 1 .. Len(Items(m)) - 1 : l = Unsent(m, k)
    BY <2>2
  <2>4. Len(Items(m)) \in Nat \ {0}
    BY <2>2, ItemHeard
  <2>5. k \in 0 .. Len(Items(m)) /\ k # Len(Items(m)) /\ k + 1 \in 1 .. Len(Items(m)) /\ k + 1 # 1
    BY <2>3, <2>4
  <2>6. Head(Unsent(m, k)) = Items(m)[k + 1] /\ Tail(Unsent(m, k)) = Unsent(m, k + 1)
    BY <2>2, <2>5, UnsentIs
  <2>7. item = Items(m)[k + 1] /\ l1 = Unsent(m, k + 1)
    BY <2>1, <2>3, <2>6
  <2> QED  BY <1>2, <2>2, <2>5, <2>7
<1> QED  BY <1>1, <1>2

LEMMA PickedLeaves ==
    ASSUME NEW l, LeftOver(l), NEW item, NEW l1, Picked(l, item, l1)
    PROVE  /\ LeftOver(l1) /\ IsSeq(l1)
           /\ item.first <=> l = <<>>
           /\ item.last <=> l1 = <<>>
           /\ usb_get_midi(item.packet) \in Seq(Uint8)
<1>1. PICK m \in HostMessage : \E k \in 1 .. Len(Items(m)) :
               /\ item = Items(m)[k] /\ l1 = Unsent(m, k)
               /\ l = <<>> <=> k = 1
  BY PickedIs
<1>2. PICK k \in 1 .. Len(Items(m)) : item = Items(m)[k] /\ l1 = Unsent(m, k) /\ (l = <<>> <=> k = 1)
  BY <1>1
<1> DEFINE N == Len(Items(m))
<1>3. N \in Nat \ {0} /\ item.first = (k = 1) /\ item.last = (k = N) /\ usb_get_midi(item.packet) \in Seq(Uint8)
  <2>1. /\ N \in Nat \ {0}
        /\ Items(m)[k].first = (k = 1) /\ Items(m)[k].last = (k = N)
        /\ usb_get_midi(Items(m)[k].packet) \in Seq(Uint8)
    BY <1>1, <1>2, ItemHeard
  <2> QED  BY <1>2, <2>1
<1>4. IsSeq(l1) /\ (k = N => l1 = <<>>) /\ (k # N => l1 # <<>>)
  <2>1. k \in 0 .. N
    BY <1>2, <1>3
  <2>2. IsSeq(Unsent(m, k)) /\ (k = N => Unsent(m, k) = <<>>) /\ (k # N => Unsent(m, k) # <<>>)
    BY <1>1, <2>1, UnsentIs
  <2> QED  BY <1>2, <2>2
<1>5. LeftOver(l1)
  <2>1. k # N => k \in 1 .. N - 1
    BY <1>2, <1>3
  <2> QED  BY <1>1, <1>2, <1>4, <2>1 DEF LeftOver
<1> QED  BY <1>2, <1>3, <1>4, <1>5

(* Taken where the host goes on, or afresh, a packet leaves the parser     *)
(* where the host goes on.                                                 *)
LEMMA PacketHeard ==
    ASSUME NEW l, LeftOver(l), NEW item, NEW l1, Picked(l, item, l1), NEW r,
           \/ Resumes(r, l)
           \/ l = <<>> /\ r.buffer \in Buffers /\ (r.state # "SYSEX" \/ item.packet.bytes[1] = SYSEX_BEGIN)
    PROVE  \E s : Reaches(r, usb_get_midi(item.packet), s, item.answer) /\ Resumes(s, l1)
<1>1. \E m \in HostMessage : \E k \in 1 .. Len(Items(m)) :
          item = Items(m)[k] /\ l1 = Unsent(m, k) /\ Ready(r, m, k)
  <2>1. CASE l = <<>>
    <3>1. PICK m \in HostMessage : \E k \in 1 .. Len(Items(m)) :
               /\ item = Items(m)[k] /\ l1 = Unsent(m, k)
               /\ l = <<>> <=> k = 1
      BY PickedIs
    <3>2. PICK k \in 1 .. Len(Items(m)) : item = Items(m)[k] /\ l1 = Unsent(m, k) /\ (l = <<>> <=> k = 1)
      BY <3>1
    <3>3. r.buffer \in Buffers /\ (r.state # "SYSEX" \/ item.packet.bytes[1] = SYSEX_BEGIN)
      <4>1. ASSUME NEW j \in HostMessage, NEW n \in 1 .. Len(Items(j)) - 1 PROVE Unsent(j, n) # <<>>
        <5>1. Len(Items(j)) \in Nat
          BY ItemHeard
        <5>2. n \in 0 .. Len(Items(j)) /\ n # Len(Items(j))
          BY <4>1, <5>1
        <5> QED  BY <5>2, UnsentIs
      <4> QED  BY <2>1, <4>1 DEF Resumes
    <3>4. Ready(r, m, k)
      BY <2>1, <3>2, <3>3 DEF Ready
    <3> QED  BY <3>1, <3>2, <3>4
  <2>2. CASE l # <<>>
    <3>1. PICK m \in HostMessage : \E k \in 1 .. Len(Items(m)) - 1 : l = Unsent(m, k) /\ After(r, m, k)
      BY <2>2 DEF Resumes
    <3>2. PICK k \in 1 .. Len(Items(m)) - 1 : l = Unsent(m, k) /\ After(r, m, k)
      BY <3>1
    <3>3. item = Head(l) /\ l1 = Tail(l)
      BY <2>2 DEF Picked
    <3>4. Len(Items(m)) \in Nat \ {0}
      BY <3>1, ItemHeard
    <3>5. k \in 0 .. Len(Items(m)) /\ k # Len(Items(m)) /\ k + 1 \in 1 .. Len(Items(m)) /\ k + 1 > 1 /\ (k + 1) - 1 = k
      BY <3>2, <3>4
    <3>6. Head(Unsent(m, k)) = Items(m)[k + 1] /\ Tail(Unsent(m, k)) = Unsent(m, k + 1)
      BY <3>1, <3>5, UnsentIs
    <3>7. Ready(r, m, k + 1)
      BY <2>2, <3>2, <3>5 DEF Ready, Resumes
    <3> QED  BY <3>1, <3>2, <3>3, <3>5, <3>6, <3>7
  <2> QED  BY <2>1, <2>2
<1>2. PICK m \in HostMessage : \E k \in 1 .. Len(Items(m)) :
          item = Items(m)[k] /\ l1 = Unsent(m, k) /\ Ready(r, m, k)
  BY <1>1
<1>3. PICK k \in 1 .. Len(Items(m)) : item = Items(m)[k] /\ l1 = Unsent(m, k) /\ Ready(r, m, k)
  BY <1>2
<1>4. PICK s : Reaches(r, usb_get_midi(Items(m)[k].packet), s, Items(m)[k].answer) /\ After(s, m, k)
  BY <1>2, <1>3, ItemHeard
<1>5. Resumes(s, Unsent(m, k))
  <2> DEFINE N == Len(Items(m))
  <2>1. N \in Nat \ {0} /\ k \in 0 .. N /\ (k # N => k \in 1 .. N - 1)
    <3>1. N \in Nat \ {0}
      BY <1>2, ItemHeard
    <3> QED  BY <1>3, <3>1
  <2>2. k = N => Unsent(m, k) = <<>>
    BY <1>2, <2>1, UnsentIs
  <2>3. s.buffer \in Buffers /\ (k = N => s.state # "SYSEX")
    BY <1>4 DEF After
  <2> QED  BY <1>2, <1>4, <2>1, <2>2, <2>3 DEF Resumes
<1> QED  BY <1>3, <1>4, <1>5

-----------------------------------------------------------------------------
(* The packets in the endpoint continue what was taken before: l is what   *)
(* was unsent after that, pl what was unsent after each packet.            *)
Following(pl) ==
    /\ IsSeq(inbox)
    /\ \A j \in 0 .. Len(inbox) : LeftOver(pl[j])
    /\ \A j \in 1 .. Len(inbox) : Picked(pl[j - 1], inbox[j], pl[j])
    /\ pl[Len(inbox)] = sending
    /\ open <=> pl[0] # <<>>

Expects(l) == \E pl : Following(pl) /\ pl[0] = l

LEMMA AppendedIs ==
    ASSUME NEW s, IsSeq(s), NEW x
    PROVE  /\ IsSeq(Append(s, x)) /\ Len(Append(s, x)) = Len(s) + 1
           /\ Append(s, x)[Len(s) + 1] = x
           /\ \A j \in 1 .. Len(s) : Append(s, x)[j] = s[j]
<1>1. PICK S : s \in Seq(S)
  BY DEF IsSeq
<1> DEFINE U == S \cup {x}
<1>2. s \in Seq(U) /\ x \in U
  <2>1. Len(s) \in Nat /\ s \in [1 .. Len(s) -> S]
    BY <1>1, LenProperties
  <2>2. s \in [1 .. Len(s) -> U]
    BY <2>1
  <2> HIDE DEF U
  <2>3. s \in Seq(U)
    BY <2>1, <2>2, IsASeq
  <2> QED  BY <2>3 DEF U
<1> HIDE DEF U
<1> DEFINE t == Append(s, x)
<1>3. /\ t \in Seq(U) /\ Len(t) = Len(s) + 1 /\ t[Len(s) + 1] = x
      /\ \A j \in 1 .. Len(s) : t[j] = s[j]
  BY <1>2, AppendProperties
<1> HIDE DEF t
<1>4. IsSeq(t)
  BY <1>3 DEF IsSeq
<1> QED  BY <1>3, <1>4 DEF t

LEMMA ExpectsIs ==
    ASSUME NEW l, Expects(l)
    PROVE  LeftOver(l) /\ (open <=> l # <<>>)
<1>1. PICK pl : Following(pl) /\ pl[0] = l
  BY DEF Expects
<1>2. 0 \in 0 .. Len(inbox)
  BY <1>1, SeqIs DEF Following
<1> QED  BY <1>1, <1>2 DEF Following

LEMMA ExpectsSame ==
    ASSUME NEW l, Expects(l), UNCHANGED <<sending, inbox, open>>
    PROVE  Expects(l)'
  BY DEF Expects, Following

LEMMA HostGone == sending = <<>> /\ inbox = <<>> /\ open = FALSE => Expects(<<>>)
<1> SUFFICES ASSUME sending = <<>>, inbox = <<>>, open = FALSE PROVE Expects(<<>>)
  OBVIOUS
<1> DEFINE pl == [j \in {0} |-> <<>>]
<1>1. pl[0] = <<>> /\ Len(<<>>) = 0 /\ IsSeq(<<>>) /\ LeftOver(<<>>)
  <2>1. IsSeq(<<>>)
    BY OneIs, EmptyJoins
  <2> QED  BY <2>1 DEF LeftOver
<1> HIDE DEF pl
<1>2. IsSeq(inbox) /\ Len(inbox) = 0 /\ pl[Len(inbox)] = sending /\ (open <=> pl[0] # <<>>)
  BY <1>1
<1>3. \A j \in 0 .. Len(inbox) : LeftOver(pl[j])
  BY <1>1, <1>2
<1>4. \A j \in 1 .. Len(inbox) : Picked(pl[j - 1], inbox[j], pl[j])
  BY <1>2
<1>5. Following(pl)
  BY <1>2, <1>3, <1>4 DEF Following
<1> QED  BY <1>1, <1>5 DEF Expects

LEMMA HostDelivers ==
    ASSUME NEW l, Expects(l), Deliver
    PROVE  Expects(l)'
<1>1. PICK pl : Following(pl) /\ pl[0] = l
  BY DEF Expects
<1>2. PICK left \in IF sending = <<>> THEN {Items(m) : m \in HostMessage} ELSE {sending} :
          inbox' = Append(inbox, Head(left)) /\ sending' = Tail(left)
  BY DEF Deliver
<1>3. PICK item, l1 : item = Head(left) /\ l1 = sending'
  OBVIOUS
<1>4. inbox' = Append(inbox, item) /\ sending' = l1 /\ open' = open /\ Picked(sending, item, l1)
  BY <1>2, <1>3 DEF Deliver, Picked, ghosts
<1> DEFINE n == Len(inbox)
<1>5. IsSeq(inbox) /\ n \in Nat
  BY <1>1, SeqIs DEF Following
<1>6. /\ IsSeq(inbox') /\ Len(inbox') = n + 1 /\ inbox'[n + 1] = item
      /\ \A j \in 1 .. n : inbox'[j] = inbox[j]
  <2>1. /\ IsSeq(Append(inbox, item)) /\ Len(Append(inbox, item)) = n + 1
        /\ Append(inbox, item)[n + 1] = item
        /\ \A j \in 1 .. n : Append(inbox, item)[j] = inbox[j]
    BY <1>5, AppendedIs
  <2> QED  BY <1>4, <2>1
<1>7. /\ pl[n] = sending /\ (open <=> pl[0] # <<>>)
      /\ \A j \in 0 .. n : LeftOver(pl[j])
      /\ \A j \in 1 .. n : Picked(pl[j - 1], inbox[j], pl[j])
  BY <1>1 DEF Following
<1> HIDE DEF n
<1>8. PICK pl1 : (\A j \in 0 .. n : pl1[j] = pl[j]) /\ pl1[n + 1] = l1
  <2> DEFINE f == [j \in 0 .. n + 1 |-> IF j <= n THEN pl[j] ELSE l1]
  <2>1. (\A j \in 0 .. n : f[j] = pl[j]) /\ f[n + 1] = l1
    BY <1>5
  <2> HIDE DEF f
  <2> QED  BY <2>1
<1>9. LeftOver(l1)
  <2>1. n \in 0 .. n
    BY <1>5
  <2>2. LeftOver(sending)
    BY <1>7, <2>1
  <2> QED  BY <1>4, <2>2, PickedLeaves
<1>10. ASSUME NEW j \in 0 .. Len(inbox') PROVE LeftOver(pl1[j])
  <2>1. j \in 0 .. n \/ j = n + 1
    BY <1>5, <1>6
  <2> QED  BY <1>7, <1>8, <1>9, <2>1
<1>11. ASSUME NEW j \in 1 .. Len(inbox') PROVE Picked(pl1[j - 1], inbox'[j], pl1[j])
  <2>1. (j \in 1 .. n /\ j \in 0 .. n /\ j - 1 \in 0 .. n) \/ (j = n + 1 /\ j - 1 = n /\ n \in 0 .. n)
    BY <1>5, <1>6
  <2>2. CASE j \in 1 .. n /\ j \in 0 .. n /\ j - 1 \in 0 .. n
    BY <1>6, <1>7, <1>8, <2>2
  <2>3. CASE j = n + 1 /\ j - 1 = n /\ n \in 0 .. n
    BY <1>4, <1>6, <1>7, <1>8, <2>3
  <2> QED  BY <2>1, <2>2, <2>3
<1>12. 0 \in 0 .. n /\ pl1[Len(inbox')] = sending'
  BY <1>4, <1>5, <1>6, <1>8
<1>13. Following(pl1)'
  BY <1>4, <1>6, <1>7, <1>8, <1>10, <1>11, <1>12 DEF Following
<1> QED  BY <1>1, <1>8, <1>12, <1>13 DEF Expects

LEMMA PacketTaken ==
    ASSUME NEW l, Expects(l), inbox # <<>>,
           inbox' = Tail(inbox), open' = ~Head(inbox).last, sending' = sending
    PROVE  \E l1 : Picked(l, Head(inbox), l1) /\ Expects(l1)'
<1>1. PICK pl : Following(pl) /\ pl[0] = l
  BY DEF Expects
<1> DEFINE n == Len(inbox)
<1>2. /\ IsSeq(inbox) /\ n \in Nat \ {0} /\ Head(inbox) = inbox[1]
      /\ IsSeq(inbox') /\ Len(inbox') = n - 1 /\ \A j \in 1 .. Len(inbox') : inbox'[j] = inbox[j + 1]
  BY <1>1, SeqIs DEF Following
<1>3. /\ pl[n] = sending
      /\ \A j \in 0 .. n : LeftOver(pl[j])
      /\ \A j \in 1 .. n : Picked(pl[j - 1], inbox[j], pl[j])
  BY <1>1 DEF Following
<1> HIDE DEF n
<1>4. PICK pl1 : \A j \in 0 .. n - 1 : pl1[j] = pl[j + 1]
  <2> DEFINE f == [j \in 0 .. n - 1 |-> pl[j + 1]]
  <2>1. \A j \in 0 .. n - 1 : f[j] = pl[j + 1]
    OBVIOUS
  <2> HIDE DEF f
  <2> QED  BY <2>1
<1>5. 0 \in 0 .. n - 1 /\ n - 1 \in 0 .. n - 1 /\ 0 + 1 = 1 /\ (n - 1) + 1 = n /\ 1 \in 1 .. n /\ 1 - 1 = 0
      /\ 0 \in 0 .. n /\ 1 \in 0 .. n
  BY <1>2
<1>6. Picked(l, Head(inbox), pl[1]) /\ LeftOver(l) /\ LeftOver(pl[1])
  <2>1. Picked(pl[1 - 1], inbox[1], pl[1])
    BY <1>3, <1>5
  <2> QED  BY <1>1, <1>2, <1>3, <1>5, <2>1
<1>7. ASSUME NEW j \in 0 .. Len(inbox') PROVE LeftOver(pl1[j])
  <2>1. j \in 0 .. n - 1 /\ j + 1 \in 0 .. n
    BY <1>2
  <2> QED  BY <1>3, <1>4, <2>1
<1>8. ASSUME NEW j \in 1 .. Len(inbox') PROVE Picked(pl1[j - 1], inbox'[j], pl1[j])
  <2>1. /\ j \in 0 .. n - 1 /\ j - 1 \in 0 .. n - 1 /\ j + 1 \in 1 .. n
        /\ (j - 1) + 1 = j /\ (j + 1) - 1 = j
    BY <1>2
  <2>2. Picked(pl[(j + 1) - 1], inbox[j + 1], pl[j + 1])
    BY <1>3, <2>1
  <2>3. pl1[j - 1] = pl[(j - 1) + 1] /\ pl1[j] = pl[j + 1] /\ inbox'[j] = inbox[j + 1]
    BY <1>2, <1>4, <2>1
  <2> QED  BY <2>1, <2>2, <2>3
<1>9. pl1[Len(inbox')] = sending' /\ pl1[0] = pl[1]
  <2>1. pl1[n - 1] = pl[(n - 1) + 1] /\ pl1[0] = pl[0 + 1]
    BY <1>4, <1>5
  <2> QED  BY <1>2, <1>3, <1>5, <2>1
<1>10. open' <=> pl1[0] # <<>>
  <2>1. Head(inbox).last <=> pl[1] = <<>>
    BY <1>6, PickedLeaves
  <2> QED  BY <1>9, <2>1
<1>11. Following(pl1)'
  BY <1>2, <1>7, <1>8, <1>9, <1>10 DEF Following
<1>12. Expects(pl[1])'
  BY <1>9, <1>11 DEF Expects
<1> QED  BY <1>6, <1>12

-----------------------------------------------------------------------------
(* Parts of sequences, and of what waits in the queue.                     *)
LEMMA TailJoins ==
    ASSUME NEW s, IsSeq(s), s # <<>>, NEW t, IsSeq(t)
    PROVE  s \o t # <<>> /\ Head(s \o t) = Head(s) /\ Tail(s \o t) = Tail(s) \o t /\ IsSeq(Tail(s))
<1> DEFINE st == s \o t
           u == Tail(s) \o t
<1>1. /\ Len(s) \in Nat \ {0} /\ Len(t) \in Nat /\ Head(s) = s[1] /\ IsSeq(Tail(s)) /\ Len(Tail(s)) = Len(s) - 1
      /\ \A j \in 1 .. Len(Tail(s)) : Tail(s)[j] = s[j + 1]
  BY SeqIs
<1>2. /\ IsSeq(st) /\ Len(st) = Len(s) + Len(t)
      /\ \A j \in 1 .. Len(s) : st[j] = s[j]
      /\ \A j \in 1 .. Len(t) : st[Len(s) + j] = t[j]
  BY ConcatIs
<1>3. /\ IsSeq(u) /\ Len(u) = Len(Tail(s)) + Len(t)
      /\ \A j \in 1 .. Len(Tail(s)) : u[j] = Tail(s)[j]
      /\ \A j \in 1 .. Len(t) : u[Len(Tail(s)) + j] = t[j]
  BY <1>1, ConcatIs
<1> HIDE DEF st, u
<1>4. st # <<>>
  <2>1. Len(st) # 0
    BY <1>1, <1>2
  <2> QED  BY <1>2, <2>1, SeqIs
<1>5. /\ Head(st) = st[1] /\ IsSeq(Tail(st)) /\ Len(Tail(st)) = Len(st) - 1
      /\ \A j \in 1 .. Len(Tail(st)) : Tail(st)[j] = st[j + 1]
  BY <1>2, <1>4, SeqIs
<1>6. Len(Tail(st)) = Len(u) /\ 1 \in 1 .. Len(s)
  BY <1>1, <1>2, <1>3, <1>5
<1>7. ASSUME NEW j \in 1 .. Len(Tail(st)) PROVE Tail(st)[j] = u[j]
  <2>1. j \in 1 .. (Len(s) - 1) + Len(t)
    BY <1>1, <1>2, <1>5
  <2>2. Tail(st)[j] = st[j + 1]
    BY <1>5
  <2>3. CASE j \in 1 .. Len(Tail(s))
    <3>1. j + 1 \in 1 .. Len(s)
      BY <1>1, <2>3
    <3> QED  BY <1>1, <1>2, <1>3, <2>2, <2>3, <3>1
  <2>4. CASE j \notin 1 .. Len(Tail(s))
    <3> DEFINE n == Len(s)
               k == Len(Tail(s))
               d == Len(t)
    <3>0. n \in Nat \ {0} /\ d \in Nat /\ k = n - 1 /\ j \in 1 .. (n - 1) + d /\ j \notin 1 .. k
      BY <1>1, <2>1, <2>4
    <3> HIDE DEF n, k, d
    <3>1. j - k \in 1 .. d /\ j = k + (j - k) /\ j + 1 = n + (j - k)
      BY <3>0
    <3>2. PICK h \in 1 .. Len(t) : j = Len(Tail(s)) + h /\ j + 1 = Len(s) + h
      BY <3>1 DEF n, k, d
    <3> QED  BY <1>2, <1>3, <2>2, <3>2
  <2> QED  BY <2>3, <2>4
<1>8. Tail(st) = u
  BY <1>3, <1>5, <1>6, <1>7, SameSeq
<1> QED  BY <1>1, <1>2, <1>4, <1>5, <1>6, <1>8 DEF st, u

LEMMA FirstPart ==
    ASSUME NEW s, IsSeq(s), NEW n \in 0 .. Len(s)
    PROVE  /\ IsSeq(SubSeq(s, 1, n)) /\ Len(SubSeq(s, 1, n)) = n
           /\ \A j \in 1 .. n : SubSeq(s, 1, n)[j] = s[j]
<1>1. 1 \in 1 .. Len(s) + 1 /\ 1 <= n + 1 /\ n - 1 + 1 = n /\ \A j \in 1 .. n : 1 + j - 1 = j
  BY SeqIs
<1> DEFINE u == SubSeq(s, 1, n)
<1>2. IsSeq(u) /\ Len(u) = n - 1 + 1 /\ \A j \in 1 .. n - 1 + 1 : u[j] = s[1 + j - 1]
  BY <1>1, PartIs
<1> HIDE DEF u
<1>3. IsSeq(u) /\ Len(u) = n /\ \A j \in 1 .. n : u[j] = s[j]
  BY <1>1, <1>2
<1> QED  BY <1>3 DEF u

LEMMA FirstPartTail ==
    ASSUME NEW s, IsSeq(s), NEW n \in 1 .. Len(s)
    PROVE  /\ SubSeq(s, 1, n) # <<>> /\ Head(SubSeq(s, 1, n)) = Head(s)
           /\ Tail(SubSeq(s, 1, n)) = SubSeq(Tail(s), 1, n - 1)
           /\ n - 1 \in 0 .. Len(Tail(s)) /\ Len(Tail(s)) = Len(s) - 1
<1> DEFINE p == SubSeq(s, 1, n)
           q == SubSeq(Tail(s), 1, n - 1)
<1>1. Len(s) \in Nat \ {0} /\ s # <<>>
  BY SeqIs
<1>2. /\ Head(s) = s[1] /\ IsSeq(Tail(s)) /\ Len(Tail(s)) = Len(s) - 1
      /\ \A j \in 1 .. Len(Tail(s)) : Tail(s)[j] = s[j + 1]
  BY <1>1, SeqIs
<1>3. n \in 0 .. Len(s) /\ n - 1 \in 0 .. Len(Tail(s))
  BY <1>1, <1>2
<1>4. IsSeq(p) /\ Len(p) = n /\ \A j \in 1 .. n : p[j] = s[j]
  BY <1>3, FirstPart
<1>5. IsSeq(q) /\ Len(q) = n - 1 /\ \A j \in 1 .. n - 1 : q[j] = Tail(s)[j]
  BY <1>2, <1>3, FirstPart
<1> HIDE DEF p, q
<1>6. p # <<>>
  <2>1. Len(p) # 0
    BY <1>1, <1>4
  <2> QED  BY <1>4, <2>1, SeqIs
<1>7. /\ Head(p) = p[1] /\ IsSeq(Tail(p)) /\ Len(Tail(p)) = Len(p) - 1
      /\ \A j \in 1 .. Len(Tail(p)) : Tail(p)[j] = p[j + 1]
  BY <1>4, <1>6, SeqIs
<1>8. Len(Tail(p)) = Len(q) /\ 1 \in 1 .. n
  BY <1>1, <1>4, <1>5, <1>7
<1>9. ASSUME NEW j \in 1 .. Len(Tail(p)) PROVE Tail(p)[j] = q[j]
  <2>1. j \in 1 .. n - 1 /\ j + 1 \in 1 .. n /\ j \in 1 .. Len(Tail(s))
    BY <1>1, <1>2, <1>4, <1>7
  <2> QED  BY <1>2, <1>4, <1>5, <1>7, <2>1
<1>10. Tail(p) = q
  BY <1>5, <1>7, <1>8, <1>9, SameSeq
<1> QED  BY <1>2, <1>3, <1>4, <1>6, <1>7, <1>8, <1>10 DEF p, q

LEMMA NoPart ==
    ASSUME NEW s, IsSeq(s)
    PROVE  SubSeq(s, 1, 0) = <<>>
<1> DEFINE u == SubSeq(s, 1, 0)
<1>1. 0 \in 0 .. Len(s)
  BY SeqIs
<1>2. IsSeq(u) /\ Len(u) = 0
  BY <1>1, FirstPart
<1> HIDE DEF u
<1>3. u = <<>>
  BY <1>2, SeqIs
<1> QED  BY <1>3 DEF u

LEMMA SameFirstPart ==
    ASSUME NEW s, IsSeq(s), NEW t, IsSeq(t), NEW n \in 0 .. Len(s), n <= Len(t),
           \A j \in 1 .. n : s[j] = t[j]
    PROVE  SubSeq(s, 1, n) = SubSeq(t, 1, n)
<1> DEFINE p == SubSeq(s, 1, n)
           q == SubSeq(t, 1, n)
<1>1. n \in 0 .. Len(t)
  BY SeqIs
<1>2. IsSeq(p) /\ Len(p) = n /\ \A j \in 1 .. n : p[j] = s[j]
  BY FirstPart
<1>3. IsSeq(q) /\ Len(q) = n /\ \A j \in 1 .. n : q[j] = t[j]
  BY <1>1, FirstPart
<1> HIDE DEF p, q
<1>4. p = q
  BY <1>2, <1>3, SameSeq
<1> QED  BY <1>4 DEF p, q

LEMMA InputTakenIs ==
    ASSUME QueueInv, NEW b, b \in Seq(Uint8)
    PROVE  /\ InputTaken(b) \in Seq(Uint8) /\ Len(InputTaken(b)) < QueueLength
           /\ Len(queue) <= Len(InputTaken(b)) /\ Len(InputTaken(b)) \in Nat
           /\ \A n \in 0 .. Len(queue) : SubSeq(InputTaken(b), 1, n) = SubSeq(queue, 1, n)
<1> DEFINE all == queue \o b
           c == IF Len(all) < QueueLength THEN Len(all) ELSE QueueLength - 1
           t == SubSeq(all, 1, c)
<1>1. IsSeq(queue) /\ Len(queue) \in Nat /\ Len(queue) < QueueLength /\ QueueLength \in Nat /\ IsSeq(b)
  BY QueueIs, DeviceQueueAssumption DEF QueueInv, IsSeq
<1>2. /\ IsSeq(all) /\ Len(all) = Len(queue) + Len(b) /\ Len(b) \in Nat
      /\ \A j \in 1 .. Len(queue) : all[j] = queue[j]
  BY <1>1, ConcatIs, SeqIs
<1>3. all \in Seq(Uint8)
  BY ConcatProperties DEF QueueInv
<1> HIDE DEF all
<1>4. c \in 0 .. Len(all) /\ c < QueueLength /\ Len(queue) <= c /\ c \in Nat
  BY <1>1, <1>2
<1>5. t = InputTaken(b)
  BY DEF InputTaken, all
<1> HIDE DEF c
<1>6. IsSeq(t) /\ Len(t) = c /\ \A j \in 1 .. c : t[j] = all[j]
  BY <1>2, <1>4, FirstPart
<1>7. t \in Seq(Uint8)
  <2>1. 1 \in 1 .. Len(all) + 1
    BY <1>4
  <2> QED  BY <1>2, <1>3, <1>4, <1>6, <2>1
<1> HIDE DEF t
<1>8. ASSUME NEW n \in 0 .. Len(queue) PROVE SubSeq(t, 1, n) = SubSeq(queue, 1, n)
  <2>1. n \in 0 .. Len(t) /\ n <= Len(queue)
    BY <1>1, <1>4, <1>6
  <2>2. ASSUME NEW j \in 1 .. n PROVE t[j] = queue[j]
    <3>1. j \in 1 .. c /\ j \in 1 .. Len(queue)
      BY <1>1, <1>4
    <3> QED  BY <1>2, <1>6, <3>1
  <2> QED  BY <1>1, <1>6, <2>1, <2>2, SameFirstPart
<1> QED  BY <1>4, <1>5, <1>6, <1>7, <1>8

(* What waits, whether or not the byte at the head is being processed. *)
WaitingSays ==
    /\ IsSeq(Waiting)
    /\ at # "processing" => Waiting = queue
    /\ at = "processing" => Waiting = Tail(queue)

LEMMA WaitingIs == QueueInv => WaitingSays
<1> SUFFICES ASSUME QueueInv PROVE WaitingSays
  OBVIOUS
<1>1. /\ IsSeq(queue) /\ SubSeq(queue, 1, Len(queue)) = queue
      /\ queue # <<>> => SubSeq(queue, 2, Len(queue)) = Tail(queue)
      /\ queue # <<>> => IsSeq(Tail(queue))
  BY QueueIs DEF IsSeq
<1>2. at = "processing" => queue # <<>>
  BY DEF QueueInv, CountedBytesStay
<1>3. CASE at = "processing"
  <2>1. Waiting = SubSeq(queue, 2, Len(queue))
    BY <1>3, Zenon DEF Waiting
  <2>2. Waiting = Tail(queue) /\ IsSeq(Tail(queue))
    BY <1>1, <1>2, <1>3, <2>1, Zenon
  <2> QED  BY <1>3, <2>2, Zenon DEF WaitingSays
<1>4. CASE at # "processing"
  <2>1. Waiting = SubSeq(queue, 1, Len(queue))
    BY <1>4, Zenon DEF Waiting
  <2>2. Waiting = queue /\ IsSeq(queue)
    BY <1>1, <2>1, Zenon
  <2> QED  BY <1>4, <2>2, Zenon DEF WaitingSays
<1> QED  BY <1>3, <1>4

-----------------------------------------------------------------------------
(* The inductive invariant: the bytes that wait begin with n that cause    *)
(* the answers due after those being given; l is what the host has still   *)
(* to send.                                                                *)
Owes(l, n, s, rest) ==
    /\ n \in 0 .. Len(Waiting) /\ Reaches(Now, SubSeq(Waiting, 1, n), s, rest)
    /\ due = replying \o (Pending \o rest) /\ IsSeq(replying) /\ IsSeq(Pending)
    /\ ~torn => n = Len(Waiting) /\ Resumes(s, l)

Owed(l) == (torn /\ due = <<>>) \/ \E n, s, rest : Owes(l, n, s, rest)

EchoInv == EInv /\ \E l : Expects(l) /\ Owed(l)

(* At rest nothing is being answered. *)
LEMMA Quiet ==
    ASSUME EInv, pc = "idle", at # "outside"
    PROVE  /\ replying = <<>> /\ Pending = <<>> /\ IsSeq(<<>>)
           /\ Now = Place(input_state, input_count, input_buffer)
<1>1. PendingSays /\ NowSays
  BY PendingIs, BranchNow
<1>2. branch = "none" /\ replying = <<>>
  BY DEF EInv, CalloutInv
<1>3. IsSeq(<<>>)
  BY OneIs, EmptyJoins
<1> QED  BY <1>1, <1>2, <1>3 DEF PendingSays, NowSays

LEMMA OwedSame ==
    ASSUME NEW l, Owed(l), Waiting' = Waiting, Now' = Now, Pending' = Pending,
           replying' = replying, due' = due, torn' = torn
    PROVE  Owed(l)'
<1>1. CASE torn /\ due = <<>>
  BY <1>1 DEF Owed
<1>2. CASE \E n, s, rest : Owes(l, n, s, rest)
  <2>1. PICK n, s, rest : Owes(l, n, s, rest)
    BY <1>2
  <2>2. Owes(l, n, s, rest)'
    BY <2>1 DEF Owes
  <2> QED  BY <2>2 DEF Owed
<1> QED  BY <1>1, <1>2 DEF Owed

LEMMA ParserSame ==
    ASSUME UNCHANGED vars
    PROVE  Now' = Now /\ Pending' = Pending
<1>1. UNCHANGED <<input_state, input_count, input_buffer, registered, pc, branch, state, msg, called, calls>>
  BY DEF vars, parse
<1>2. Now' = Now
  BY <1>1 DEF Now, StateAfter, CountAfter
<1>3. SpecificArgs' = SpecificArgs /\ Matching' = Matching
  BY <1>1 DEF SpecificArgs, SysexStart, SysexLength, Matching, Kind
<1>4. Pending' = Pending
  BY <1>1, <1>3 DEF Pending
<1> QED  BY <1>2, <1>4

LEMMA InvStarts ==
    ASSUME EchoInit
    PROVE  EchoInv
<1>1. /\ input_state = "IDLE" /\ input_count = 0 /\ registered = {"fallthrough", "cc", "sysex"}
      /\ pc = "idle" /\ branch = "none" /\ calls = <<>>
      /\ queue = <<>> /\ at = "outside" /\ len = 0 /\ i = 0
      /\ sending = <<>> /\ inbox = <<>> /\ open = FALSE
      /\ replying = Greeting /\ due = Greeting /\ torn = FALSE
  BY DEF EchoInit
<1>2. input_buffer \in Buffers
  <2>1. PICK b \in Bytes : input_buffer = [k \in 0 .. 2 |-> b]
    BY DEF EchoInit
  <2> QED  BY <2>1, BytesAssumption DEF Buffers
<1>3. EInv
  <2>1. queue \in Seq(Uint8) /\ Len(queue) = 0
    BY <1>1
  <2> QED  BY <1>1, <1>2, <2>1, DeviceQueueAssumption
             DEF EInv, QueueInv, CalloutInv, CountedBytesStay, Buffers
<1>4. Expects(<<>>)
  BY <1>1, HostGone
<1>5. Waiting = <<>> /\ IsSeq(<<>>) /\ Len(<<>>) = 0
  <2>1. WaitingSays
    BY <1>3, WaitingIs DEF EInv
  <2>2. Waiting = <<>>
    BY <1>1, <2>1 DEF WaitingSays
  <2> QED  BY <2>1, <2>2 DEF WaitingSays
<1>6. Now = Place("IDLE", 0, input_buffer) /\ Pending = <<>>
  <2>1. PendingSays /\ NowSays
    BY PendingIs, BranchNow
  <2> QED  BY <1>1, <2>1 DEF PendingSays, NowSays
<1>7. Reaches(Now, SubSeq(Waiting, 1, 0), Now, <<>>)
  <2>1. SubSeq(<<>>, 1, 0) = <<>>
    BY <1>5, NoPart
  <2>2. Reaches(Now, <<>>, Now, <<>>)
    BY ReachesNone
  <2> QED  BY <1>5, <2>1, <2>2
<1>8. IsSeq(Greeting) /\ Greeting \o <<>> = Greeting
  <2> DEFINE x == midi_send_cc(0, 1, 2)
             y == midi_send_noteon(0, 64, 127)
             z == midi_send_noteoff(0, 64, 127)
  <2>1. Greeting = <<x, y, z>>
    BY DEF Greeting
  <2> HIDE DEF x, y, z
  <2>2. <<x, y, z>> \in Seq({x, y, z})
    OBVIOUS
  <2>3. IsSeq(Greeting)
    BY <2>1, <2>2 DEF IsSeq
  <2> QED  BY <2>3, EmptyJoins
<1>9. <<>> \o <<>> = <<>>
  BY <1>5, EmptyJoins
<1>10. Resumes(Now, <<>>)
  BY <1>2, <1>6 DEF Resumes, Place
<1>11. Owes(<<>>, 0, Now, <<>>)
  <2>1. due = replying \o (Pending \o <<>>) /\ IsSeq(replying) /\ IsSeq(Pending)
    BY <1>1, <1>5, <1>6, <1>8, <1>9
  <2>2. 0 \in 0 .. Len(Waiting) /\ 0 = Len(Waiting)
    BY <1>5
  <2> QED  BY <1>7, <1>10, <2>1, <2>2 DEF Owes
<1> QED  BY <1>3, <1>4, <1>11 DEF EchoInv, Owed

(* The host and the cable. *)
LEMMA HostKeeps ==
    ASSUME EchoInv, Attach \/ Deliver
    PROVE  EchoInv'
<1>1. PICK l : Expects(l) /\ Owed(l)
  BY DEF EchoInv
<1>2. UNCHANGED <<vars, queue, preInput, at, len, i, val, replying, due, open, torn>>
  BY DEF Attach, Deliver, deviceVars, answers, ghosts, loop
<1>3. EInv'
  BY <1>2 DEF EchoInv, EInv, QueueInv, CalloutInv, CountedBytesStay, vars, parse
<1>4. Expects(l)'
  <2>1. CASE Attach
    BY <1>1, <1>2, <2>1, ExpectsSame DEF Attach
  <2>2. CASE Deliver
    BY <1>1, <2>2, HostDelivers
  <2> QED  BY <2>1, <2>2
<1>5. Waiting' = Waiting /\ Now' = Now /\ Pending' = Pending
  BY <1>2, ParserSame DEF Waiting
<1>6. Owed(l)'
  BY <1>1, <1>2, <1>5, OwedSame
<1> QED  BY <1>3, <1>4, <1>6 DEF EchoInv

LEMMA UnplugKeeps ==
    ASSUME EchoInv, Unplug
    PROVE  EchoInv'
<1>1. PICK l : Expects(l) /\ Owed(l)
  BY DEF EchoInv
<1>2. /\ UNCHANGED <<vars, queue, preInput, at, len, i, val, replying, due>>
      /\ sending' = <<>> /\ inbox' = <<>> /\ open' = FALSE
      /\ torn' <=> torn \/ open
  BY DEF Unplug, deviceVars, answers, loop
<1>3. EInv'
  BY <1>2 DEF EchoInv, EInv, QueueInv, CalloutInv, CountedBytesStay, vars, parse
<1>4. Expects(<<>>)'
  <2>1. (sending = <<>> /\ inbox = <<>> /\ open = FALSE => Expects(<<>>))'
    BY HostGone, PTL
  <2> QED  BY <1>2, <2>1
<1>5. Waiting' = Waiting /\ Now' = Now /\ Pending' = Pending
  BY <1>2, ParserSame DEF Waiting
<1>6. ~open => l = <<>>
  BY <1>1, ExpectsIs
<1>7. Owed(<<>>)'
  <2>1. CASE torn /\ due = <<>>
    BY <1>2, <2>1 DEF Owed
  <2>2. CASE \E n, s, rest : Owes(l, n, s, rest)
    <3>1. PICK n, s, rest : Owes(l, n, s, rest)
      BY <2>2
    <3>2. Owes(<<>>, n, s, rest)'
      BY <1>2, <1>5, <1>6, <3>1 DEF Owes
    <3> QED  BY <3>2 DEF Owed
  <2> QED  BY <1>1, <2>1, <2>2 DEF Owed
<1> QED  BY <1>3, <1>4, <1>7 DEF EchoInv

(* Steps of midi_device_process between two bytes. *)
LEMMA LoopKeeps ==
    ASSUME EchoInv, replying = <<>>,
           CallProcess \/ PreInputReturns \/ GetLength \/ GetByte \/ RemoveByte \/ ProcessReturns,
           UNCHANGED <<sending, inbox, answers, ghosts>>
    PROVE  EchoInv'
<1>1. PICK l : Expects(l) /\ Owed(l)
  BY DEF EchoInv
<1>2. QueueInv /\ CalloutInv /\ UNCHANGED vars /\ UNCHANGED <<replying, due, sending, inbox, open, torn>>
  BY DEF EchoInv, EInv, CallProcess, PreInputReturns, GetLength, GetByte, RemoveByte, ProcessReturns,
         answers, ghosts
<1>3. QueueInv'
  BY <1>2, LoopKept
<1>4. CalloutInv'
  BY <1>2 DEF CalloutInv, vars, parse
<1>5. Waiting' = Waiting
  <2>1. WaitingSays
    BY <1>2, WaitingIs
  <2>2. (QueueInv => WaitingSays)'
    BY WaitingIs, PTL
  <2>3. WaitingSays'
    BY <1>3, <2>2
  <2>4. CASE RemoveByte
    <3>1. at = "processing" /\ at' = "test" /\ queue' = Removed
      BY <2>4 DEF RemoveByte
    <3>2. queue # <<>> => Removed = Tail(queue)
      BY <1>2, QueueIs DEF Removed
    <3>3. queue # <<>>
      BY <1>2, <3>1 DEF QueueInv, CountedBytesStay
    <3> QED  BY <2>1, <2>3, <3>1, <3>2, <3>3 DEF WaitingSays
  <2>5. CASE ~RemoveByte
    <3>1. at # "processing" /\ at' # "processing" /\ queue' = queue
      BY <2>5 DEF CallProcess, PreInputReturns, GetLength, GetByte, ProcessReturns, InLoop
    <3> QED  BY <2>1, <2>3, <3>1 DEF WaitingSays
  <2> QED  BY <2>4, <2>5
<1>6. Now' = Now /\ Pending' = Pending
  BY <1>2, ParserSame
<1>7. Owed(l)'
  BY <1>1, <1>2, <1>5, <1>6, OwedSame
<1>8. Expects(l)'
  BY <1>1, <1>2, ExpectsSame
<1> QED  BY <1>3, <1>4, <1>7, <1>8 DEF EchoInv, EInv

LEMMA PollReturnKeeps ==
    ASSUME EchoInv, PollReturns
    PROVE  EchoInv'
<1>1. PreInputReturns /\ UNCHANGED <<sending, inbox, answers, ghosts>>
  BY DEF PollReturns
<1>2. EInv /\ pc = "idle" /\ at # "outside"
  BY <1>1 DEF EchoInv, EInv, QueueInv, PreInputReturns
<1>3. replying = <<>>
  BY <1>2, Quiet
<1> QED  BY <1>1, <1>3, LoopKeeps

(* midi_process_byte: the byte causes the answers that are first among     *)
(* those due.                                                              *)
LEMMA ByteKeeps ==
    ASSUME EchoInv, Process, UNCHANGED <<usb, answers, ghosts>>
    PROVE  EchoInv'
<1>1. PICK l : Expects(l) /\ Owed(l)
  BY DEF EchoInv
<1>2. /\ UNCHANGED <<sending, inbox, replying, due, open, torn>>
      /\ at = "process" /\ at' = "processing" /\ pc = "idle" /\ ProcessByte(val) /\ queue' = queue
      /\ EInv /\ QueueInv /\ val = Head(queue) /\ queue # <<>>
  BY DEF Process, ProcessByte, EchoInv, EInv, QueueInv, CountedBytesStay, usb, answers, ghosts
<1>3. EInv'
  BY <1>2, ByteKept
<1>4. Expects(l)'
  BY <1>1, <1>2, ExpectsSame
<1>5. Waiting = queue /\ Waiting' = Tail(queue) /\ IsSeq(queue)
  <2>1. WaitingSays
    BY <1>2, WaitingIs
  <2>2. (QueueInv => WaitingSays)'
    BY WaitingIs, PTL
  <2>3. WaitingSays' /\ IsSeq(queue)
    BY <1>2, <1>3, <2>2, QueueIs DEF EInv
  <2> QED  BY <1>2, <2>1, <2>3 DEF WaitingSays
<1>6. replying = <<>> /\ Pending = <<>> /\ IsSeq(<<>>)
  BY <1>2, Quiet
<1>7. CASE torn /\ due = <<>>
  BY <1>2, <1>3, <1>4, <1>7 DEF EchoInv, Owed
<1>8. CASE \E n, s, rest : Owes(l, n, s, rest)
  <2>1. PICK n, s, rest : Owes(l, n, s, rest)
    BY <1>8
  <2>2. /\ n \in 0 .. Len(queue) /\ Reaches(Now, SubSeq(queue, 1, n), s, rest)
        /\ due = <<>> \o (<<>> \o rest)
        /\ ~torn => n = Len(queue) /\ Resumes(s, l)
    BY <1>5, <1>6, <2>1 DEF Owes
  <2>3. Len(queue) \in Nat \ {0}
    BY <1>2, <1>5, SeqIs
  <2>4. CASE n = 0
    <3>1. SubSeq(queue, 1, n) = <<>>
      BY <1>5, <2>4, NoPart
    <3>2. rest = <<>>
      <4>1. Reaches(Now, <<>>, s, rest)
        BY <2>2, <3>1
      <4> QED  BY <4>1, ReachesNone, Zenon
    <3>3. due = <<>>
      BY <1>6, <2>2, <3>2, EmptyJoins
    <3>4. torn
      BY <2>2, <2>3, <2>4
    <3> QED  BY <1>2, <1>3, <1>4, <3>3, <3>4 DEF EchoInv, Owed
  <2>5. CASE n # 0
    <3> DEFINE p == SubSeq(queue, 1, n)
               tail == SubSeq(Tail(queue), 1, n - 1)
    <3>1. n \in 1 .. Len(queue)
      BY <2>2, <2>3, <2>5
    <3>2. /\ p # <<>> /\ Head(p) = Head(queue) /\ Tail(p) = tail
          /\ n - 1 \in 0 .. Len(Tail(queue)) /\ Len(Tail(queue)) = Len(queue) - 1
      BY <1>5, <3>1, FirstPartTail
    <3>3. IsSeq(p) /\ Reaches(Now, p, s, rest)
      BY <1>5, <2>2, FirstPart
    <3> HIDE DEF p, tail
    <3>4. PICK t, c, d : /\ IsSeq(c) /\ IsSeq(d) /\ rest = c \o d
                         /\ Hears(Now, Head(p), t, c) /\ Reaches(t, Tail(p), s, d)
      <4>1. IsSeq(p) /\ p # <<>> /\ Reaches(Now, p, s, rest)
        BY <3>2, <3>3
      <4>2. ByteAndMore(Now, p, s, rest)
        BY <4>1, ReachesHead
      <4> QED  BY <4>2, Zenon DEF ByteAndMore
    <3>5. Hears(Now, val, t, c)
      BY <1>2, <3>2, <3>4
    <3>6. Now' = t /\ Pending' = c
      BY <1>2, <3>5, ByteHeard
    <3>7. Owes(l, n - 1, s, d)'
      <4>1. n - 1 \in 0 .. Len(Waiting') /\ Reaches(Now', SubSeq(Waiting', 1, n - 1), s, d)
        BY <1>5, <3>2, <3>4, <3>6 DEF tail
      <4>2. due' = replying' \o (Pending' \o d) /\ IsSeq(replying') /\ IsSeq(Pending')
        <5>1. <<>> \o (c \o d) = c \o d
          <6>1. IsSeq(c \o d)
            BY <3>4, ConcatIs
          <6> QED  BY <6>1, EmptyJoins
        <5>2. due = <<>> \o (<<>> \o (c \o d))
          BY <2>2, <3>4
        <5> QED  BY <1>2, <1>6, <3>4, <3>6, <5>1, <5>2
      <4>3. ~torn' => n - 1 = Len(Waiting') /\ Resumes(s, l)
        BY <1>2, <1>5, <2>2, <2>3, <3>2
      <4> QED  BY <4>1, <4>2, <4>3 DEF Owes
    <3> QED  BY <1>3, <1>4, <3>7 DEF EchoInv, Owed
  <2> QED  BY <2>4, <2>5
<1> QED  BY <1>1, <1>7, <1>8 DEF Owed

(* The callbacks. *)
LEMMA CallsKeeps ==
    ASSUME EchoInv, Calls, replying = <<>>, UNCHANGED <<usb, ghosts>>
    PROVE  EchoInv'
<1>1. PICK l : Expects(l) /\ Owed(l)
  BY DEF EchoInv
<1>2. /\ UNCHANGED <<sending, inbox, due, open, torn>> /\ UNCHANGED <<queue, preInput, loop>>
      /\ EInv /\ Callout /\ pc = "specific"
  BY DEF Calls, Callout, CallSpecific, EchoInv, usb, ghosts
<1>3. EInv'
  BY <1>2, CalloutKept
<1>4. Expects(l)'
  BY <1>1, <1>2, ExpectsSame
<1>5. replying' = Pending /\ Pending' = <<>> /\ Now' = Now
  BY <1>2, AnswersCalled
<1>6. Waiting' = Waiting
  BY <1>2 DEF Waiting, loop
<1>7. CASE torn /\ due = <<>>
  BY <1>2, <1>3, <1>4, <1>7 DEF EchoInv, Owed
<1>8. CASE \E n, s, rest : Owes(l, n, s, rest)
  <2>1. PICK n, s, rest : Owes(l, n, s, rest)
    BY <1>8
  <2>2. WaitingSays
    BY <1>2, WaitingIs DEF EInv
  <2>3. /\ n \in 0 .. Len(Waiting) /\ Reaches(Now, SubSeq(Waiting, 1, n), s, rest)
        /\ due = <<>> \o (Pending \o rest) /\ IsSeq(Pending)
        /\ ~torn => n = Len(Waiting) /\ Resumes(s, l)
    BY <2>1 DEF Owes
  <2>4. IsSeq(rest)
    <3>1. IsSeq(SubSeq(Waiting, 1, n))
      BY <2>2, <2>3, FirstPart DEF WaitingSays
    <3> QED  BY <2>3, <3>1, ReachesSeq
  <2>5. IsSeq(<<>>) /\ <<>> \o rest = rest /\ <<>> \o (Pending \o rest) = Pending \o rest
    <3>1. IsSeq(Pending \o rest)
      BY <2>3, <2>4, ConcatIs
    <3> QED  BY <2>4, <3>1, EmptyJoins
  <2>6. due' = replying' \o (Pending' \o rest) /\ IsSeq(replying') /\ IsSeq(Pending')
    BY <1>2, <1>5, <2>3, <2>5
  <2>7. Owes(l, n, s, rest)'
    BY <1>2, <1>5, <1>6, <2>3, <2>6 DEF Owes
  <2> QED  BY <1>3, <1>4, <2>7 DEF EchoInv, Owed
<1> QED  BY <1>1, <1>7, <1>8 DEF Owed

LEMMA CalloutKeeps ==
    ASSUME EchoInv, CallFallthrough \/ CallCatchall \/ Return, replying = <<>>,
           UNCHANGED <<queue, preInput, loop>>, UNCHANGED <<usb, answers, ghosts>>
    PROVE  EchoInv'
<1>1. PICK l : Expects(l) /\ Owed(l)
  BY DEF EchoInv
<1>2. /\ UNCHANGED <<sending, inbox, replying, due, open, torn>>
      /\ EInv /\ Callout
  BY DEF Callout, EchoInv, usb, answers, ghosts
<1>3. EInv'
  BY <1>2, CalloutKept
<1>4. Expects(l)'
  BY <1>1, <1>2, ExpectsSame
<1>5. Now' = Now /\ Pending' = Pending /\ Waiting' = Waiting
  BY <1>2, CallGoesOn DEF Waiting, loop
<1>6. Owed(l)'
  BY <1>1, <1>2, <1>5, OwedSame
<1> QED  BY <1>3, <1>4, <1>6 DEF EchoInv

LEMMA ReplyKeeps ==
    ASSUME EchoInv, Reply
    PROVE  EchoInv'
<1>1. PICK l : Expects(l) /\ Owed(l)
  BY DEF EchoInv
<1>2. /\ UNCHANGED <<vars, queue, preInput, at, len, i, val, sending, inbox, open, torn>>
      /\ replying # <<>> /\ replying' = Tail(replying)
      /\ due' = IF due # <<>> /\ Head(due) = Head(replying) THEN Tail(due) ELSE due
  BY DEF Reply, deviceVars, ghosts, loop
<1>3. EInv'
  BY <1>2 DEF EchoInv, EInv, QueueInv, CalloutInv, CountedBytesStay, vars, parse
<1>4. Expects(l)'
  BY <1>1, <1>2, ExpectsSame
<1>5. Waiting' = Waiting /\ Now' = Now /\ Pending' = Pending
  BY <1>2, ParserSame DEF Waiting
<1>6. CASE torn /\ due = <<>>
  BY <1>2, <1>3, <1>4, <1>6 DEF EchoInv, Owed
<1>7. CASE \E n, s, rest : Owes(l, n, s, rest)
  <2>1. PICK n, s, rest : Owes(l, n, s, rest)
    BY <1>7
  <2>2. IsSeq(replying) /\ IsSeq(Pending) /\ due = replying \o (Pending \o rest)
        /\ n \in 0 .. Len(Waiting) /\ Reaches(Now, SubSeq(Waiting, 1, n), s, rest)
    BY <2>1 DEF Owes
  <2>3. IsSeq(rest)
    <3>1. WaitingSays
      BY WaitingIs DEF EchoInv, EInv
    <3>2. IsSeq(SubSeq(Waiting, 1, n))
      BY <2>2, <3>1, FirstPart DEF WaitingSays
    <3> QED  BY <2>2, <3>2, ReachesSeq
  <2> DEFINE u == Pending \o rest
  <2>4. IsSeq(u)
    BY <2>2, <2>3, ConcatIs
  <2>5. due = replying \o u
    BY <2>2
  <2> HIDE DEF u
  <2>6. due # <<>> /\ Head(due) = Head(replying) /\ Tail(due) = Tail(replying) \o u /\ IsSeq(Tail(replying))
    BY <1>2, <2>2, <2>4, <2>5, TailJoins
  <2>7. due' = replying' \o (Pending' \o rest) /\ IsSeq(replying') /\ IsSeq(Pending')
    BY <1>2, <1>5, <2>2, <2>6 DEF u
  <2>8. Owes(l, n, s, rest)'
    BY <1>2, <1>5, <2>1, <2>7 DEF Owes
  <2> QED  BY <1>3, <1>4, <2>8 DEF EchoInv, Owed
<1> QED  BY <1>1, <1>6, <1>7 DEF Owed

(* usb_get_midi: a packet taken, whole, in part or not at all. *)
LEMMA TakeKeeps ==
    ASSUME EchoInv, Take
    PROVE  EchoInv'
<1> DEFINE item == Head(inbox)
           b == usb_get_midi(item.packet)
<1>1. PICK l : Expects(l) /\ Owed(l)
  BY DEF EchoInv
<1>2. /\ UNCHANGED <<vars, preInput, at, len, i, val, sending, replying>>
      /\ at = "preInput" /\ inbox # <<>> /\ inbox' = Tail(inbox)
      /\ queue' = InputTaken(b)
      /\ torn' <=> (queue' # queue \o b \/ (torn /\ ~Afresh(item)))
      /\ open' = ~item.last
      /\ due' = IF torn' THEN due ELSE due \o item.answer
  BY DEF Take, Takes, HasPacket, loop
<1> HIDE DEF item, b
<1>3. PICK l1 : Picked(l, item, l1) /\ Expects(l1)'
  BY <1>1, <1>2, PacketTaken DEF item
<1>4. LeftOver(l) /\ (item.first <=> l = <<>>) /\ b \in Seq(Uint8)
  BY <1>1, <1>3, ExpectsIs, PickedLeaves DEF b
<1>5. EInv /\ QueueInv /\ pc = "idle"
  BY <1>2 DEF EchoInv, EInv, QueueInv
<1>6. /\ queue' \in Seq(Uint8) /\ Len(queue') < QueueLength
      /\ Len(queue) <= Len(queue') /\ Len(queue') \in Nat
      /\ \A n \in 0 .. Len(queue) : SubSeq(queue', 1, n) = SubSeq(queue, 1, n)
  BY <1>2, <1>4, <1>5, InputTakenIs
<1>7. EInv'
  BY <1>2, <1>5, <1>6 DEF EInv, QueueInv, CalloutInv, CountedBytesStay, vars, parse
<1>8. Now' = Now /\ Pending' = Pending
  BY <1>2, ParserSame
<1>9. replying = <<>> /\ Pending = <<>> /\ IsSeq(<<>>) /\ Now = Place(input_state, input_count, input_buffer)
  BY <1>2, <1>5, Quiet
<1>10. Waiting = queue /\ Waiting' = queue' /\ IsSeq(queue) /\ IsSeq(queue') /\ Len(queue) \in Nat
  <2>1. WaitingSays
    BY <1>5, WaitingIs
  <2>2. (QueueInv => WaitingSays)'
    BY WaitingIs, PTL
  <2>3. WaitingSays' /\ IsSeq(queue) /\ Len(queue) \in Nat
    BY <1>5, <1>7, <2>2, QueueIs DEF EInv
  <2>4. IsSeq(queue')
    BY <1>6 DEF IsSeq
  <2> QED  BY <1>2, <2>1, <2>3, <2>4 DEF WaitingSays
<1>11. IsSeq(b)
  BY <1>4 DEF IsSeq
<1>12. \A n, s, rest : Owes(l, n, s, rest) =>
          /\ n \in 0 .. Len(queue) /\ Reaches(Now, SubSeq(queue, 1, n), s, rest)
          /\ IsSeq(rest) /\ due = rest
          /\ ~torn => n = Len(queue) /\ Resumes(s, l)
  <2> SUFFICES ASSUME NEW n, NEW s, NEW rest, Owes(l, n, s, rest)
               PROVE  /\ n \in 0 .. Len(queue) /\ Reaches(Now, SubSeq(queue, 1, n), s, rest)
                      /\ IsSeq(rest) /\ due = rest
                      /\ ~torn => n = Len(queue) /\ Resumes(s, l)
    OBVIOUS
  <2>1. /\ n \in 0 .. Len(queue) /\ Reaches(Now, SubSeq(queue, 1, n), s, rest)
        /\ due = <<>> \o (<<>> \o rest)
        /\ ~torn => n = Len(queue) /\ Resumes(s, l)
    BY <1>9, <1>10 DEF Owes
  <2>2. IsSeq(SubSeq(queue, 1, n))
    BY <1>10, <2>1, FirstPart
  <2>3. IsSeq(rest)
    BY <2>1, <2>2, ReachesSeq
  <2>4. due = rest
    BY <2>1, <2>3, EmptyJoins
  <2> QED  BY <2>1, <2>3, <2>4
<1>13. CASE torn'
  <2>1. due' = due
    BY <1>2, <1>13
  <2>2. CASE torn /\ due = <<>>
    BY <1>3, <1>7, <1>13, <2>1, <2>2 DEF EchoInv, Owed
  <2>3. CASE \E n, s, rest : Owes(l, n, s, rest)
    <3>1. PICK n, s, rest : Owes(l, n, s, rest)
      BY <2>3
    <3>2. n \in 0 .. Len(queue) /\ Reaches(Now, SubSeq(queue, 1, n), s, rest)
      BY <1>12, <3>1
    <3>3. n \in 0 .. Len(queue') /\ SubSeq(queue', 1, n) = SubSeq(queue, 1, n)
      BY <1>6, <1>10, <3>2
    <3>4. Owes(l1, n, s, rest)'
      BY <1>2, <1>8, <1>10, <1>13, <2>1, <3>1, <3>2, <3>3 DEF Owes
    <3> QED  BY <1>3, <1>7, <3>4 DEF EchoInv, Owed
  <2> QED  BY <1>1, <2>2, <2>3 DEF Owed
<1>14. CASE ~torn'
  <2>1. queue' = queue \o b /\ (torn => Afresh(item)) /\ due' = due \o item.answer
    BY <1>2, <1>14
  <2>2. ASSUME NEW s, NEW ans, Reaches(Now, queue \o b, s, ans), due \o item.answer = ans, Resumes(s, l1)
        PROVE  EchoInv'
    <3>1. SubSeq(queue', 1, Len(queue')) = queue'
      BY <1>10, PartAll
    <3>2. Reaches(Now', SubSeq(Waiting', 1, Len(queue')), s, ans)
      BY <1>8, <1>10, <2>1, <2>2, <3>1
    <3>3. IsSeq(ans)
      BY <1>10, <2>1, <2>2, ReachesSeq
    <3>4. due' = replying' \o (Pending' \o ans) /\ IsSeq(replying') /\ IsSeq(Pending')
      <4>1. <<>> \o (<<>> \o ans) = ans
        BY <3>3, EmptyJoins
      <4> QED  BY <1>2, <1>8, <1>9, <2>1, <2>2, <4>1
    <3>5. PICK n : n = Len(queue')
      OBVIOUS
    <3>6. n \in 0 .. Len(Waiting') /\ n = Len(Waiting')
      BY <1>6, <1>10, <3>5
    <3>7. Owes(l1, n, s, ans)'
      BY <2>2, <3>2, <3>4, <3>5, <3>6 DEF Owes
    <3> QED  BY <1>3, <1>7, <3>7 DEF EchoInv, Owed
  <2>3. CASE ~torn
    <3>1. PICK n, s, rest : Owes(l, n, s, rest)
      BY <1>1, <2>3 DEF Owed
    <3>2. n = Len(queue) /\ Resumes(s, l) /\ Reaches(Now, SubSeq(queue, 1, n), s, rest) /\ due = rest
      BY <1>12, <2>3, <3>1
    <3>3. Reaches(Now, queue, s, rest)
      BY <1>10, <3>2, PartAll
    <3>4. PICK t : Reaches(s, b, t, item.answer) /\ Resumes(t, l1)
      BY <1>3, <1>4, <3>2, PacketHeard DEF b
    <3>5. Reaches(Now, queue \o b, t, rest \o item.answer)
      BY <1>10, <1>11, <3>3, <3>4, ReachesJoin
    <3> QED  BY <2>2, <3>2, <3>4, <3>5
  <2>4. CASE torn
    <3>1. queue = <<>> /\ l = <<>> /\ (input_state # "SYSEX" \/ item.packet.bytes[1] = SYSEX_BEGIN)
      BY <1>4, <2>1, <2>4 DEF Afresh
    <3>2. Now.buffer \in Buffers /\ Now.state = input_state
      BY <1>5, <1>9 DEF EInv, CalloutInv, Place, Buffers
    <3>3. PICK t : Reaches(Now, b, t, item.answer) /\ Resumes(t, l1)
      BY <1>3, <1>4, <3>1, <3>2, PacketHeard DEF b
    <3>4. due = <<>>
      <4>1. ASSUME NEW n, NEW s, NEW rest, Owes(l, n, s, rest) PROVE due = <<>>
        <5>1. n \in 0 .. Len(queue) /\ Reaches(Now, SubSeq(queue, 1, n), s, rest) /\ due = rest
          BY <1>12, <4>1
        <5>2. n = 0
          BY <1>10, <3>1, <5>1
        <5>3. SubSeq(queue, 1, n) = <<>>
          BY <1>10, <5>2, NoPart
        <5>4. Reaches(Now, <<>>, s, rest)
          BY <5>1, <5>3
        <5>5. rest = <<>>
          BY <5>4, ReachesNone, Zenon
        <5> QED  BY <5>1, <5>5
      <4> QED  BY <1>1, <4>1 DEF Owed
    <3>5. queue \o b = b /\ due \o item.answer = item.answer
      <4>1. IsSeq(item.answer)
        BY <1>11, <3>3, ReachesSeq
      <4> QED  BY <1>11, <3>1, <3>4, <4>1, EmptyJoins
    <3> QED  BY <2>2, <3>3, <3>5
  <2> QED  BY <2>3, <2>4
<1> QED  BY <1>13, <1>14

LEMMA StepKeeps ==
    ASSUME EchoInv, [EchoNext]_echoVars
    PROVE  EchoInv'
<1>1. CASE Attach \/ Deliver
  BY <1>1, HostKeeps
<1>2. CASE Unplug
  BY <1>2, UnplugKeeps
<1>3. CASE Take
  BY <1>3, TakeKeeps
<1>4. CASE PollReturns
  BY <1>4, PollReturnKeeps
<1>5. CASE Reply
  BY <1>5, ReplyKeeps
<1>6. CASE Processes
  <2>1. replying = <<>> /\ UNCHANGED <<usb, ghosts>>
    BY <1>6 DEF Processes
  <2>2. CASE Calls
    BY <2>1, <2>2, CallsKeeps
  <2>3. CASE (CallProcess \/ GetLength \/ GetByte \/ RemoveByte \/ ProcessReturns) /\ UNCHANGED answers
    BY <2>1, <2>3, LoopKeeps DEF usb
  <2>4. CASE Process /\ UNCHANGED answers
    BY <2>1, <2>4, ByteKeeps
  <2>5. CASE /\ CallFallthrough \/ CallCatchall \/ Return
             /\ UNCHANGED <<queue, preInput, loop>> /\ UNCHANGED answers
    BY <2>1, <2>5, CalloutKeeps
  <2> QED  BY <1>6, <2>2, <2>3, <2>4, <2>5 DEF Processes
<1>7. CASE UNCHANGED echoVars
  <2>1. PICK l : Expects(l) /\ Owed(l)
    BY DEF EchoInv
  <2>2. UNCHANGED <<vars, queue, preInput, at, len, i, val, sending, inbox, replying, due, open, torn>>
    BY <1>7 DEF echoVars, deviceVars, usb, answers, ghosts, loop
  <2>3. EInv'
    BY <2>2 DEF EchoInv, EInv, QueueInv, CalloutInv, CountedBytesStay, vars, parse
  <2>4. Expects(l)'
    BY <2>1, <2>2, ExpectsSame
  <2>5. Waiting' = Waiting /\ Now' = Now /\ Pending' = Pending
    BY <2>2, ParserSame DEF Waiting
  <2>6. Owed(l)'
    BY <2>1, <2>2, <2>5, OwedSame
  <2> QED  BY <2>3, <2>4, <2>6 DEF EchoInv
<1> QED  BY <1>1, <1>2, <1>3, <1>4, <1>5, <1>6, <1>7 DEF EchoNext, MainProgram

(* What is being answered is first among the answers due. *)
LEMMA InvAnswers == EchoInv => EchoedInOrder
<1> SUFFICES ASSUME EchoInv, replying # <<>>, ~torn
             PROVE  Len(replying) <= Len(due) /\ replying = SubSeq(due, 1, Len(replying))
  BY DEF EchoedInOrder
<1>1. PICK l, n, s, rest : Owes(l, n, s, rest)
  BY DEF EchoInv, Owed
<1>2. /\ n \in 0 .. Len(Waiting) /\ Reaches(Now, SubSeq(Waiting, 1, n), s, rest)
      /\ due = replying \o (Pending \o rest) /\ IsSeq(replying) /\ IsSeq(Pending)
  BY <1>1 DEF Owes
<1>3. IsSeq(rest)
  <2>1. WaitingSays
    BY WaitingIs DEF EchoInv, EInv
  <2>2. IsSeq(SubSeq(Waiting, 1, n))
    BY <1>2, <2>1, FirstPart DEF WaitingSays
  <2> QED  BY <1>2, <2>2, ReachesSeq
<1> DEFINE u == Pending \o rest
<1>4. IsSeq(u) /\ due = replying \o u
  BY <1>2, <1>3, ConcatIs
<1> HIDE DEF u
<1>5. /\ IsSeq(due) /\ Len(due) = Len(replying) + Len(u) /\ Len(replying) \in Nat /\ Len(u) \in Nat
      /\ \A j \in 1 .. Len(replying) : due[j] = replying[j]
  BY <1>2, <1>4, ConcatIs, SeqIs
<1>6. Len(replying) \in 0 .. Len(replying) /\ Len(replying) <= Len(due)
  BY <1>5
<1>7. SubSeq(replying, 1, Len(replying)) = SubSeq(due, 1, Len(replying))
  <2> DEFINE N == Len(replying)
  <2>1. N \in 0 .. Len(replying) /\ N <= Len(due) /\ \A j \in 1 .. N : replying[j] = due[j]
    BY <1>5, <1>6
  <2> HIDE DEF N
  <2>2. SubSeq(replying, 1, N) = SubSeq(due, 1, N)
    BY <1>2, <1>5, <2>1, SameFirstPart
  <2> QED  BY <2>2 DEF N
<1>8. SubSeq(replying, 1, Len(replying)) = replying
  BY <1>2, PartAll
<1> QED  BY <1>6, <1>7, <1>8

(* Each message that the host has sent whole and that found room in the    *)
(* queue is answered, in order and with the right channel, number, place   *)
(* and byte, and nothing else is, however often the host is unplugged and  *)
(* whatever else it sends; a message cut off by a full queue or by         *)
(* unplugging costs at most the answers until the queue has been emptied   *)
(* and the next message begins (usb_get_midi, midi_device_process,         *)
(* midi_process_byte, the callbacks of main.c).                            *)
THEOREM EchoAnswers == EchoSpec => []EchoedInOrder
<1>1. EchoInit => EchoInv
  BY InvStarts
<1>2. EchoInv /\ [EchoNext]_echoVars => EchoInv'
  BY StepKeeps
<1>3. EchoInv => EchoedInOrder
  BY InvAnswers
<1> QED  BY <1>1, <1>2, <1>3, PTL DEF EchoSpec

=============================================================================
