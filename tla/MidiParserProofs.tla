-------------------------- MODULE MidiParserProofs --------------------------
(***************************************************************************)
(* Proofs about MidiParser, for every set of bytes and of callbacks and    *)
(* every range of input_count: its types, the order of the callbacks, and  *)
(* that with an orderly sender it implements MidiStream.                   *)
(***************************************************************************)
EXTENDS MidiParser, SequenceTheorems, TLAPS

(* The branch that midi_process_byte will continue with, and what it has   *)
(* made of input_state.                                                    *)
BranchInv ==
    /\ branch = "data" => input_state \in {"TWO", "THREE", "SYSEX"}
    /\ branch # "realtime" => state = "IDLE"

(* What has been called so far, and whether midi_input_callbacks knows.    *)
CallsInv ==
    /\ pc \in {"idle", "specific"} => calls = <<>> /\ ~called
    /\ pc \in {"fallthrough", "catchall", "return"} /\ called =>
           \/ calls = <<calls[1]>> /\ calls[1][1] \in Specific
           \/ /\ pc = "return" /\ calls = <<calls[1], calls[2]>>
              /\ calls[1][1] \in Specific /\ calls[2][1] = "catchall"
    /\ pc = "fallthrough" /\ ~called => calls = <<>>
    /\ pc \in {"catchall", "return"} /\ ~called =>
           \/ calls = <<>>
           \/ calls = <<calls[1]>> /\ calls[1][1] = "fallthrough"
           \/ pc = "return" /\ calls = <<calls[1]>> /\ calls[1][1] = "catchall"
           \/ /\ pc = "return" /\ calls = <<calls[1], calls[2]>>
              /\ calls[1][1] = "fallthrough" /\ calls[2][1] = "catchall"

IInv == TypeOK /\ BranchInv /\ CallsInv

-----------------------------------------------------------------------------
(* The classification of bytes: a realtime byte is a message of one byte   *)
(* or undefined, and a status byte of its own.                             *)
LEMMA PacketLengths ==
    ASSUME NEW b \in Uint8
    PROVE  /\ midi_packet_length(b) \in {UNDEFINED, ONE, TWO, THREE}
           /\ midi_is_realtime(b) => midi_packet_length(b) \in {UNDEFINED, ONE}
           /\ ~midi_is_statusbyte(b) => midi_packet_length(b) = UNDEFINED
  BY DEF Uint8, midi_packet_length, midi_is_realtime, midi_is_statusbyte, HighNibble,
         MIDI_CC, MIDI_NOTEON, MIDI_NOTEOFF, MIDI_AFTERTOUCH, MIDI_PITCHBEND, MIDI_PROGCHANGE,
         MIDI_CHANPRESSURE, MIDI_CLOCK, MIDI_TUNEREQUEST, MIDI_SONGPOSITION, MIDI_TC_QUARTERFRAME,
         MIDI_SONGSELECT, ListedRealtime, UNDEFINED, ONE, TWO, THREE

(* Counting. *)
LEMMA CountIs ==
    ASSUME NEW n \in 0 .. CountRange - 1
    PROVE  /\ n % 3 \in 0 .. 2
           /\ Plus1(n) \in 0 .. CountRange - 1
           /\ Plus1(n) = IF n + 1 = CountRange THEN 0 ELSE n + 1
<1>1. CountRange \in Nat /\ CountRange > 3
  BY CountRangeAssumption
<1>2. CASE n + 1 = CountRange
  BY <1>1, <1>2 DEF Plus1
<1>3. CASE n + 1 < CountRange
  BY <1>1, <1>3 DEF Plus1
<1> QED  BY <1>1, <1>2, <1>3

-----------------------------------------------------------------------------
(* No step breaks the invariant. *)

(* A message is handed to midi_input_callbacks. *)
LEMMA CallbacksKeep ==
    ASSUME IInv, pc = "idle",
           NEW from \in {"realtime", "one", "sysexend", "data"},
           NEW cnt \in 0 .. CountRange - 1, NEW bytes \in [1 .. 3 -> Uint8],
           Callbacks(from, cnt, bytes), state' \in InputState \ {"ONE"},
           input_state' \in InputState, input_count' \in 0 .. CountRange - 1,
           input_buffer' \in [0 .. 2 -> Uint8],
           from = "data" => input_state' \in {"TWO", "THREE", "SYSEX"},
           from # "realtime" => state' = state
    PROVE  IInv'
<1> USE DEF IInv, Callbacks
<1>1. TypeOK'
  BY DEF TypeOK
<1>2. BranchInv'
  BY DEF TypeOK, BranchInv
<1>3. CallsInv'
  BY DEF CallsInv
<1> QED  BY <1>1, <1>2, <1>3

(* A byte that completes no message. *)
LEMMA NoCallbacksKeep ==
    ASSUME IInv, pc = "idle", NoCallbacks,
           input_state' \in InputState \ {"ONE"}, input_count' \in 0 .. CountRange - 1,
           input_buffer' \in [0 .. 2 -> Uint8]
    PROVE  IInv'
<1> USE DEF IInv, NoCallbacks
<1>1. TypeOK'
  BY DEF TypeOK
<1>2. BranchInv'
  BY DEF TypeOK, BranchInv
<1>3. CallsInv'
  BY DEF CallsInv
<1> QED  BY <1>1, <1>2, <1>3

LEMMA ByteStep ==
    ASSUME IInv, NEW b \in Bytes, ProcessByte(b)
    PROVE  IInv'
<1>1. pc = "idle" /\ b \in Uint8 /\ TypeOK /\ branch = "none" /\ state = "IDLE"
  BY BytesAssumption DEF ProcessByte, IInv, TypeOK, BranchInv
<1>2. input_buffer \in [0 .. 2 -> Uint8] /\ input_count \in 0 .. CountRange - 1 /\ 1 \in 0 .. CountRange - 1
      /\ 0 \in 0 .. CountRange - 1
  BY <1>1, CountRangeAssumption DEF TypeOK
<1>3. <<b, 0, 0>> \in [1 .. 3 -> Uint8]
  BY <1>1 DEF Uint8
<1>4. StoredBuffer(b) \in [0 .. 2 -> Uint8] /\ StoredCount \in 0 .. CountRange - 1
  BY <1>1, <1>2 DEF StoredBuffer, StoredCount
<1>5. ASSUME NEW buffer \in [0 .. 2 -> Uint8]
      PROVE  /\ <<buffer[0], buffer[1], buffer[2]>> \in [1 .. 3 -> Uint8]
             /\ <<buffer[0], buffer[1], 0>> \in [1 .. 3 -> Uint8]
  BY SMTT(30) DEF Uint8
<1>6. CASE RealtimeByte(b)
  <2>1. input_state' \in InputState /\ input_count' = input_count /\ input_buffer' = input_buffer
        /\ state' \in InputState \ {"ONE"} /\ Callbacks("realtime", 1, <<b, 0, 0>>)
    BY <1>1, <1>6 DEF RealtimeByte, TypeOK, InputState
  <2> QED  BY <1>1, <1>2, <1>3, <2>1, CallbacksKeep
<1>7. CASE StatusOne(b)
  <2>1. input_state' \in InputState /\ input_count' = StoredCount /\ input_buffer' = StoredBuffer(b)
        /\ state' = state /\ Callbacks("one", 1, <<b, 0, 0>>)
    BY <1>7 DEF StatusOne, InputState
  <2>2. state' \in InputState \ {"ONE"}
    BY <1>1, <2>1 DEF InputState
  <2> QED  BY <1>1, <1>2, <1>3, <1>4, <2>1, <2>2, CallbacksKeep
<1>8. CASE StatusOfMessage(b)
  <2>1. input_state' \in InputState \ {"ONE"} /\ input_count' = StoredCount
        /\ input_buffer' = StoredBuffer(b) /\ NoCallbacks
    BY <1>8 DEF StatusOfMessage, InputState
  <2> QED  BY <1>1, <1>4, <2>1, NoCallbacksKeep
<1>9. CASE SysexBegin(b)
  <2>1. input_state' \in InputState \ {"ONE"} /\ input_count' = 1
        /\ input_buffer' \in [0 .. 2 -> Uint8] /\ NoCallbacks
    BY <1>1, <1>2, <1>9 DEF SysexBegin, InputState
  <2> QED  BY <1>1, <1>2, <2>1, NoCallbacksKeep
<1>10. CASE SysexEnd(b)
  <2>1. StoredCount % 3 \in 0 .. 2 /\ Plus1(StoredCount) \in 0 .. CountRange - 1
    BY <1>4, CountIs
  <2>2. input_buffer' \in [0 .. 2 -> Uint8] /\ input_count' \in 0 .. CountRange - 1
    BY <1>1, <1>4, <1>10, <2>1 DEF SysexEnd
  <2>3. input_state' \in InputState /\ state' = state
        /\ Callbacks("sysexend", input_count', <<input_buffer'[0], input_buffer'[1], input_buffer'[2]>>)
    BY <1>1, <1>10 DEF SysexEnd, TypeOK
  <2>4. state' \in InputState \ {"ONE"}
    BY <1>1, <2>3 DEF InputState
  <2> QED  BY <1>1, <1>5, <2>2, <2>3, <2>4, CallbacksKeep
<1>11. CASE StatusUndefined(b)
  <2>1. input_state' \in InputState \ {"ONE"} /\ input_count' = 0
        /\ input_buffer' = StoredBuffer(b) /\ NoCallbacks
    BY <1>11 DEF StatusUndefined, InputState
  <2> QED  BY <1>1, <1>2, <1>4, <2>1, NoCallbacksKeep
<1>12. CASE DataIgnored(b)
  <2>1. UNCHANGED parse /\ NoCallbacks /\ input_state \in InputState \ {"ONE"}
    BY <1>1, <1>12 DEF DataIgnored, TypeOK
  <2> QED  BY <1>1, <1>2, <2>1, NoCallbacksKeep DEF parse
<1>13. CASE DataByte(b)
  <2>1. input_count % 3 \in 0 .. 2 /\ Plus1(input_count) \in 0 .. CountRange - 1
    BY <1>2, CountIs
  <2>2. input_buffer' \in [0 .. 2 -> Uint8] /\ input_count' \in 0 .. CountRange - 1
    BY <1>1, <1>2, <1>13, <2>1 DEF DataByte
  <2>3. input_state' = input_state /\ input_state \in {"TWO", "THREE", "SYSEX"} /\ state' = state
    BY <1>1, <1>13 DEF DataByte, TypeOK, InputState
  <2>4. input_state' \in InputState \ {"ONE"} /\ state' \in InputState \ {"ONE"}
    BY <1>1, <2>3 DEF InputState
  <2>5. \/ Callbacks("data", input_count', <<input_buffer'[0], input_buffer'[1], input_buffer'[2]>>)
        \/ Callbacks("data", input_count', <<input_buffer'[0], input_buffer'[1], 0>>)
        \/ NoCallbacks
    BY <1>13 DEF DataByte
  <2>6. CASE Callbacks("data", input_count', <<input_buffer'[0], input_buffer'[1], input_buffer'[2]>>)
    BY <1>1, <1>5, <2>2, <2>3, <2>4, <2>6, CallbacksKeep
  <2>7. CASE Callbacks("data", input_count', <<input_buffer'[0], input_buffer'[1], 0>>)
    BY <1>1, <1>5, <2>2, <2>3, <2>4, <2>7, CallbacksKeep
  <2>8. CASE NoCallbacks
    BY <1>1, <2>2, <2>4, <2>8, NoCallbacksKeep
  <2> QED  BY <2>5, <2>6, <2>7, <2>8
<1> QED  BY <1>6, <1>7, <1>8, <1>9, <1>10, <1>11, <1>12, <1>13 DEF ProcessByte

(* A second call. *)
LEMMA SecondCall == ASSUME NEW a, NEW b PROVE Append(<<a>>, b) = <<a, b>>
<1> DEFINE S == {a, b}
           s == Append(<<a>>, b)
           t == <<a, b>>
<1>1. <<a>> \in Seq(S) /\ Len(<<a>>) = 1 /\ b \in S
  OBVIOUS
<1>2. Len(s) = 2 /\ s[1] = a /\ s[2] = b /\ s \in Seq(S)
  BY <1>1
<1>3. Len(t) = 2 /\ t[1] = a /\ t[2] = b /\ t \in Seq(S)
  OBVIOUS
<1>4. \A i \in 1 .. Len(s) : s[i] = t[i]
  BY <1>2, <1>3
<1> QED  BY <1>2, <1>3, <1>4, SeqEqual

(* A callback that runs: one more call, and perhaps another registration. *)
LEMMA RunsIs ==
    ASSUME TypeOK, NEW f, NEW args, Runs(f, args)
    PROVE  /\ registered' \subseteq Callback
           /\ calls' = Append(calls, <<f, args>>)
  BY DEF TypeOK, Runs

LEMMA Step == IInv /\ [Next]_vars => IInv'
<1> SUFFICES ASSUME IInv, [Next]_vars PROVE IInv'
  OBVIOUS
<1>1. ASSUME NEW b \in Bytes, ProcessByte(b) PROVE IInv'
  BY <1>1, ByteStep
<1>2. CASE CallSpecific
  <2>1. Matching \subseteq Specific
    BY DEF Matching, Dispatch, Specific
  <2>2. registered' \subseteq Callback
    BY <1>2, RunsIs DEF CallSpecific, IInv, TypeOK
  <2>3. TypeOK' /\ BranchInv'
    BY <1>2, <2>2 DEF CallSpecific, IInv, TypeOK, BranchInv, parse
  <2>4. CallsInv'
    <3>1. calls = <<>> /\ called = FALSE
      BY <1>2 DEF CallSpecific, IInv, CallsInv, TypeOK
    <3>2. CASE Matching \cap registered = {} /\ UNCHANGED <<registered, called, calls>>
      BY <1>2, <3>1, <3>2 DEF CallSpecific, CallsInv
    <3>3. ASSUME NEW f \in Matching \cap registered, Runs(f, SpecificArgs), called' = TRUE
          PROVE  CallsInv'
      <4>1. calls' = << <<f, SpecificArgs>> >>
        BY <3>1, <3>3 DEF Runs
      <4>2. calls' = <<calls'[1]>> /\ calls'[1][1] = f
        BY <4>1
      <4> QED  BY <1>2, <2>1, <3>3, <4>2 DEF CallSpecific, CallsInv
    <3> QED  BY <1>2, <3>2, <3>3 DEF CallSpecific
  <2> QED  BY <2>3, <2>4 DEF IInv
<1>3. CASE CallFallthrough
  <2>1. registered' \subseteq Callback
    BY <1>3, RunsIs DEF CallFallthrough, IInv, TypeOK
  <2>2. TypeOK' /\ BranchInv'
    BY <1>3, <2>1 DEF CallFallthrough, IInv, TypeOK, BranchInv, parse
  <2>3. CallsInv'
    <3>1. CASE UNCHANGED <<registered, calls>>
      BY <1>3, <3>1 DEF CallFallthrough, IInv, CallsInv
    <3>2. CASE ~called /\ Runs("fallthrough", <<GenericCount, msg.bytes>>)
      <4>1. calls' = << <<"fallthrough", <<GenericCount, msg.bytes>>>> >>
        BY <1>3, <3>2 DEF CallFallthrough, Runs, IInv, CallsInv
      <4>2. calls' = <<calls'[1]>> /\ calls'[1][1] = "fallthrough"
        BY <4>1
      <4> QED  BY <1>3, <3>2, <4>2 DEF CallFallthrough, CallsInv
    <3> QED  BY <1>3, <3>1, <3>2 DEF CallFallthrough
  <2> QED  BY <2>2, <2>3 DEF IInv
<1>4. CASE CallCatchall
  <2>1. registered' \subseteq Callback
    BY <1>4, RunsIs DEF CallCatchall, IInv, TypeOK
  <2>2. TypeOK' /\ BranchInv'
    BY <1>4, <2>1 DEF CallCatchall, IInv, TypeOK, BranchInv, parse
  <2>3. CallsInv'
    <3>1. CASE UNCHANGED <<registered, calls>>
      BY <1>4, <3>1 DEF CallCatchall, IInv, CallsInv
    <3>2. CASE Runs("catchall", <<GenericCount, msg.bytes>>)
      <4> DEFINE last == <<"catchall", <<GenericCount, msg.bytes>>>>
      <4>1. calls' = Append(calls, last) /\ last[1] = "catchall"
        BY <3>2 DEF Runs
      <4> HIDE DEF last
      <4>2. \/ calls = <<>> /\ ~called
            \/ calls = <<calls[1]>> /\ calls[1][1] = "fallthrough" /\ ~called
            \/ calls = <<calls[1]>> /\ calls[1][1] \in Specific /\ called
        <5>1. pc = "catchall" /\ CallsInv /\ called \in BOOLEAN
          BY <1>4 DEF CallCatchall, IInv, TypeOK
        <5> QED  BY <5>1 DEF CallsInv
      <4>3. CASE calls = <<>> /\ ~called
        <5>1. calls' = <<last>>
          BY <4>1, <4>3
        <5>2. calls' = <<calls'[1]>> /\ calls'[1][1] = "catchall"
          BY <4>1, <5>1
        <5> QED  BY <1>4, <4>3, <5>2 DEF CallCatchall, CallsInv
      <4>4. ASSUME NEW first, calls = <<first>>,
                   (first[1] = "fallthrough" /\ ~called) \/ (first[1] \in Specific /\ called)
            PROVE  CallsInv'
        <5>1. calls' = <<first, last>>
          BY <4>1, <4>4, SecondCall
        <5>2. calls' = <<calls'[1], calls'[2]>> /\ calls'[1] = first /\ calls'[2][1] = "catchall"
          BY <4>1, <5>1
        <5> QED  BY <1>4, <4>4, <5>2 DEF CallCatchall, CallsInv
      <4>5. CASE calls = <<calls[1]>> /\ calls[1][1] = "fallthrough" /\ ~called
        BY <4>4, <4>5, Zenon
      <4>6. CASE calls = <<calls[1]>> /\ calls[1][1] \in Specific /\ called
        BY <4>4, <4>6, Zenon
      <4> QED  BY <4>2, <4>3, <4>5, <4>6
    <3> QED  BY <1>4, <3>1, <3>2 DEF CallCatchall
  <2> QED  BY <2>2, <2>3 DEF IInv
<1>5. CASE Return
  <2>1. branch \in {"realtime", "one", "sysexend", "data"}
    BY <1>5 DEF Return, IInv, TypeOK
  <2>2. input_state' \in InputState \ {"ONE"}
    BY <1>5, <2>1 DEF Return, IInv, TypeOK, BranchInv, InputState
  <2>3. input_count' \in 0 .. CountRange - 1
    BY <1>5, CountRangeAssumption DEF Return, IInv, TypeOK
  <2>4. NoMsg \in [cnt : 0 .. CountRange - 1, bytes : [1 .. 3 -> Uint8]]
    BY CountRangeAssumption DEF NoMsg, Uint8
  <2>5. TypeOK'
    BY <1>5, <2>2, <2>3, <2>4 DEF Return, IInv, TypeOK, InputState
  <2>6. BranchInv' /\ CallsInv'
    BY <1>5 DEF Return, BranchInv, CallsInv
  <2> QED  BY <2>5, <2>6 DEF IInv
<1>6. ASSUME NEW f \in Callback, NEW on \in BOOLEAN, Register(f, on) PROVE IInv'
  BY <1>6 DEF Register, IInv, TypeOK, BranchInv, CallsInv, parse
<1>7. CASE UNCHANGED vars
  BY <1>7 DEF vars, parse, IInv, TypeOK, BranchInv, CallsInv
<1> QED  BY <1>1, <1>2, <1>3, <1>4, <1>5, <1>6, <1>7 DEF Next, Callout, Program

LEMMA Start == Init => IInv
<1> SUFFICES ASSUME Init PROVE IInv
  OBVIOUS
<1>1. input_buffer \in [0 .. 2 -> Uint8]
  BY BytesAssumption DEF Init
<1>2. NoMsg \in [cnt : 0 .. CountRange - 1, bytes : [1 .. 3 -> Uint8]] /\ 0 \in 0 .. CountRange - 1
  BY CountRangeAssumption DEF NoMsg, Uint8
<1>3. TypeOK
  BY <1>1, <1>2 DEF Init, TypeOK, InputState
<1>4. BranchInv /\ CallsInv
  BY DEF Init, BranchInv, CallsInv
<1> QED  BY <1>3, <1>4 DEF IInv

(* The invariant holds of every behaviour, whatever bytes arrive and       *)
(* whatever the callbacks register (midi_process_byte,                     *)
(* midi_input_callbacks).                                                  *)
THEOREM Invariance == Spec => []IInv
  BY Start, Step, PTL DEF Spec

(* Every variable keeps its type: the buffer is written inside its three   *)
(* bytes only, and every local state is restored (midi_process_byte).      *)
THEOREM TypeCorrect == Spec => []TypeOK
<1>1. IInv => TypeOK
  BY DEF IInv
<1> QED  BY <1>1, Invariance, PTL

(* The callbacks of a message: a specific one or the fallthrough one,      *)
(* never both, and the catch-all last (midi_input_callbacks).              *)
THEOREM CallOrder == Spec => []CalledInOrder
<1>1. ASSUME IInv PROVE CalledInOrder
  <2> DEFINE names == [i \in 1 .. Len(calls) |-> calls[i][1]]
  <2>1. \/ calls = <<>>
        \/ /\ calls = <<calls[1]>>
           /\ calls[1][1] \in Specific \cup {"fallthrough", "catchall"}
        \/ /\ calls = <<calls[1], calls[2]>>
           /\ calls[1][1] \in Specific \cup {"fallthrough"} /\ calls[2][1] = "catchall"
    <3>1. CallsInv /\ called \in BOOLEAN
            /\ pc \in {"idle", "specific", "fallthrough", "catchall", "return"}
      BY <1>1 DEF IInv, TypeOK
    <3> QED  BY <3>1 DEF CallsInv
  <2>2. CASE calls = <<>>
    <3>1. names = <<>>
      BY <2>2
    <3> QED  BY <3>1 DEF CalledInOrder
  <2>3. ASSUME NEW one, calls = <<one>>, one[1] \in Specific \cup {"fallthrough", "catchall"}
        PROVE  CalledInOrder
    <3>1. names = <<one[1]>>
      BY <2>3
    <3> QED  BY <2>3, <3>1 DEF CalledInOrder
  <2>4. ASSUME NEW one, NEW two, calls = <<one, two>>,
               one[1] \in Specific \cup {"fallthrough"}, two[1] = "catchall"
        PROVE  CalledInOrder
    <3>1. names = <<one[1], "catchall">>
      BY <2>4
    <3> QED  BY <2>4, <3>1 DEF CalledInOrder
  <2> QED  BY <2>1, <2>2, <2>3, <2>4
<1> QED  BY <1>1, Invariance, PTL

-----------------------------------------------------------------------------
(* With an orderly sender MidiParser implements MidiStream.  A byte is     *)
(* received by the stream in the step that processes it, the message it    *)
(* completes is settled in the step that returns from                      *)
(* midi_input_callbacks; all other steps leave the stream unchanged.       *)


(* The status byte in force, also while a realtime message is handled or   *)
(* the message it belongs to.                                              *)
KeptInv ==
    StateAfter \in {"TWO", "THREE"} =>
        /\ midi_is_statusbyte(input_buffer[0])
        /\ midi_packet_length(input_buffer[0]) = (IF StateAfter = "TWO" THEN TWO ELSE THREE)
        /\ CountAfter \in 1 .. (IF StateAfter = "TWO" THEN 1 ELSE 2)

-----------------------------------------------------------------------------
(* Counts and sequences. *)

(* Division by three, of a number and of the next one. *)
LEMMA ByThree ==
    ASSUME NEW n \in Nat
    PROVE  /\ n % 3 \in 0 .. 2
           /\ n = (n \div 3) * 3 + (n % 3)
           /\ (n + 1) % 3 = IF n % 3 = 2 THEN 0 ELSE (n % 3) + 1
           /\ ((n + 1) \div 3) * 3 = IF n % 3 = 2 THEN (n \div 3) * 3 + 3 ELSE (n \div 3) * 3
           /\ (n \div 3) * 3 \in Nat
<1>1. PICK q \in Nat, r \in 0 .. 2 : n = 3 * q + r
  <2>1. n \div 3 \in Nat /\ n % 3 \in 0 .. 2 /\ n = 3 * (n \div 3) + (n % 3)
    OBVIOUS
  <2> QED  BY <2>1
<1>2. n \div 3 = q /\ n % 3 = r
  BY <1>1
<1>3. CASE r = 2
  <2>1. (n + 1) \div 3 = q + 1 /\ (n + 1) % 3 = 0
    BY <1>1, <1>3
  <2> QED  BY <1>1, <1>2, <1>3, <2>1
<1>4. CASE r # 2
  <2>1. (n + 1) \div 3 = q /\ (n + 1) % 3 = r + 1
    BY <1>1, <1>4
  <2> QED  BY <1>1, <1>2, <1>4, <2>1
<1> QED  BY <1>3, <1>4

(* The place and the length of the chunk that the n-th byte completes.     *)
LEMMA ChunkIs ==
    ASSUME NEW n \in Nat, n + 1 < CountRange, msg.cnt = n + 1
    PROVE  /\ SysexStart = (n \div 3) * 3
           /\ SysexLength = (n % 3) + 1
<1>1. CountRange \in Nat /\ CountRange > 3
  BY CountRangeAssumption
<1>2. (msg.cnt - 1) % CountRange = n
  BY <1>1
<1>3. SysexStart = (n \div 3) * 3
  BY <1>2 DEF SysexStart
<1>4. msg.cnt - SysexStart = (n % 3) + 1 /\ (n % 3) + 1 \in 1 .. 3
  BY <1>3, ByThree
<1>5. ASSUME NEW k \in 1 .. 3 PROVE (k % CountRange) % 256 = k
  <2>1. k % CountRange = k
    BY <1>1
  <2> QED  BY <2>1
<1> QED  BY <1>3, <1>4, <1>5 DEF SysexLength

(* The first bytes of the three. *)
LEMMA FirstBytes ==
    ASSUME NEW s \in [1 .. 3 -> Uint8]
    PROVE  /\ SubSeq(s, 1, 1) = <<s[1]>>
           /\ SubSeq(s, 1, 2) = <<s[1], s[2]>>
           /\ SubSeq(s, 1, 3) = <<s[1], s[2], s[3]>>
<1> DEFINE a == s[1]
           b == s[2]
           c == s[3]
<1>1. a \in Uint8 /\ b \in Uint8 /\ c \in Uint8
  OBVIOUS
<1>2. ASSUME NEW k \in 1 .. 3, NEW t \in Seq(Uint8), Len(t) = k, \A i \in 1 .. k : t[i] = s[i]
      PROVE  SubSeq(s, 1, k) = t
  <2>1. \A i \in 1 .. k : s[i] \in Uint8
    OBVIOUS
  <2>2. SubSeq(s, 1, k) \in Seq(Uint8) /\ Len(SubSeq(s, 1, k)) = k
        /\ \A i \in 1 .. k : SubSeq(s, 1, k)[i] = s[i]
    <3>1. 1 <= k /\ k - 1 + 1 = k /\ \A i \in 1 .. k : 1 + i - 1 = i
      OBVIOUS
    <3> QED  BY <2>1, <3>1, SubSeqProperties
  <2> HIDE DEF a, b, c
  <2>3. \A i \in 1 .. Len(SubSeq(s, 1, k)) : SubSeq(s, 1, k)[i] = t[i]
    BY <1>2, <2>2
  <2>4. Len(SubSeq(s, 1, k)) = Len(t)
    BY <1>2, <2>2
  <2> QED  BY <1>2, <2>2, <2>3, <2>4, SeqEqual
<1>3. a = s[1] /\ b = s[2] /\ c = s[3]
  OBVIOUS
<1> HIDE DEF a, b, c
<1>4. SubSeq(s, 1, 1) = <<a>>
  <2> DEFINE t == <<a>>
  <2>1. t \in Seq(Uint8) /\ Len(t) = 1 /\ t[1] = a
    BY <1>1
  <2> HIDE DEF t
  <2>2. \A i \in 1 .. 1 : t[i] = s[i]
    BY <1>3, <2>1
  <2>3. SubSeq(s, 1, 1) = t
    BY <1>2, <2>1, <2>2
  <2> QED  BY <2>3 DEF t
<1>5. SubSeq(s, 1, 2) = <<a, b>>
  <2> DEFINE t == <<a, b>>
  <2>1. t \in Seq(Uint8) /\ Len(t) = 2 /\ t[1] = a /\ t[2] = b
    BY <1>1
  <2> HIDE DEF t
  <2>2. \A i \in 1 .. 2 : t[i] = s[i]
    BY <1>3, <2>1
  <2>3. SubSeq(s, 1, 2) = t
    BY <1>2, <2>1, <2>2
  <2> QED  BY <2>3 DEF t
<1>6. SubSeq(s, 1, 3) = <<a, b, c>>
  <2> DEFINE t == <<a, b, c>>
  <2>1. t \in Seq(Uint8) /\ Len(t) = 3 /\ t[1] = a /\ t[2] = b /\ t[3] = c
    BY <1>1
  <2> HIDE DEF t
  <2>2. \A i \in 1 .. 3 : t[i] = s[i]
    BY <1>3, <2>1
  <2>3. SubSeq(s, 1, 3) = t
    BY <1>2, <2>1, <2>2
  <2> QED  BY <2>3 DEF t
<1> QED  BY <1>3, <1>4, <1>5, <1>6

(* The buffered bytes, as sequences. *)
LEMMA BufferedIs ==
    ASSUME input_buffer \in [0 .. 2 -> Uint8]
    PROVE  /\ Buffered(0, 0) = <<>> /\ Buffered(1, 1) = <<>>
           /\ Buffered(0, 1) = <<input_buffer[0]>> /\ Buffered(1, 2) = <<input_buffer[1]>>
           /\ Buffered(0, 2) = <<input_buffer[0], input_buffer[1]>>
<1>1. ASSUME NEW k \in 0 .. 2 PROVE Buffered(k, k) = <<>>
  BY DEF Buffered
<1>2. ASSUME NEW k \in 0 .. 1 PROVE Buffered(k, k + 1) = <<input_buffer[k]>>
  BY DEF Buffered
<1>3. Buffered(0, 2) = <<input_buffer[0], input_buffer[1]>>
  <2>1. Buffered(0, 2) \in [1 .. 2 -> Uint8] /\ Buffered(0, 2)[1] = input_buffer[0]
        /\ Buffered(0, 2)[2] = input_buffer[1]
    BY DEF Buffered
  <2>2. <<input_buffer[0], input_buffer[1]>> \in [1 .. 2 -> Uint8]
    OBVIOUS
  <2> QED  BY <2>1, <2>2
<1> QED  BY <1>1, <1>2, <1>3

(* Appending to them. *)
LEMMA AppendIs ==
    ASSUME NEW a, NEW b, NEW c
    PROVE  /\ Append(<<>>, a) = <<a>>
           /\ Append(<<a>>, b) = <<a, b>>
           /\ Append(<<a, b>>, c) = <<a, b, c>>
           /\ <<a>> \o <<b>> = <<a, b>>
           /\ <<a>> \o <<b, c>> = <<a, b, c>>
<1> DEFINE S == {a, b, c}
<1>1. <<a>> \in Seq(S) /\ <<b>> \in Seq(S) /\ <<a, b>> \in Seq(S) /\ <<b, c>> \in Seq(S) /\ <<a, b, c>> \in Seq(S)
  OBVIOUS
<1>2. Append(<<a, b>>, c) = <<a, b, c>>
  <2> DEFINE s == Append(<<a, b>>, c)
             t == <<a, b, c>>
  <2>1. Len(s) = 3 /\ s[1] = a /\ s[2] = b /\ s[3] = c /\ s \in Seq(S)
    BY <1>1
  <2>2. Len(t) = 3 /\ t[1] = a /\ t[2] = b /\ t[3] = c /\ t \in Seq(S)
    BY <1>1
  <2>3. \A i \in 1 .. Len(s) : s[i] = t[i]
    BY <2>1, <2>2
  <2> QED  BY <2>1, <2>2, <2>3, SeqEqual
<1>3. <<a>> \o <<b, c>> = <<a, b, c>>
  <2> DEFINE s == <<a>> \o <<b, c>>
             t == <<a, b, c>>
  <2>1. Len(s) = 3 /\ s[1] = a /\ s[2] = b /\ s[3] = c /\ s \in Seq(S)
    BY <1>1
  <2>2. Len(t) = 3 /\ t[1] = a /\ t[2] = b /\ t[3] = c /\ t \in Seq(S)
    BY <1>1
  <2>3. \A i \in 1 .. Len(s) : s[i] = t[i]
    BY <2>1, <2>2
  <2> QED  BY <2>1, <2>2, <2>3, SeqEqual
<1>4. <<a>> \o <<b>> = <<a, b>>
  <2> DEFINE s == <<a>> \o <<b>>
             t == <<a, b>>
  <2>1. Len(s) = 2 /\ s[1] = a /\ s[2] = b /\ s \in Seq(S)
    BY <1>1
  <2>2. Len(t) = 2 /\ t[1] = a /\ t[2] = b /\ t \in Seq(S)
    BY <1>1
  <2>3. \A i \in 1 .. Len(s) : s[i] = t[i]
    BY <2>1, <2>2
  <2> QED  BY <2>1, <2>2, <2>3, SeqEqual
<1>5. Append(<<>>, a) = <<a>>
  OBVIOUS
<1> QED  BY <1>2, <1>3, <1>4, <1>5, SecondCall
-----------------------------------------------------------------------------
(* The mapping, case by case. *)

Heard(s, d, o) == StatusInForce = s /\ DataHeard = d /\ OffsetHeard = o

HeardIs ==
    /\ StateAfter = "IDLE" => Heard(Stream!NoStatus, <<>>, 0)
    /\ StateAfter = "SYSEX" =>
           /\ CountAfter % 3 = 0 => Heard(SYSEX_BEGIN, <<>>, (CountAfter \div 3) * 3)
           /\ CountAfter % 3 = 1 =>
                  Heard(SYSEX_BEGIN, <<input_buffer[0]>>, (CountAfter \div 3) * 3)
           /\ CountAfter % 3 = 2 =>
                  Heard(SYSEX_BEGIN, <<input_buffer[0], input_buffer[1]>>, (CountAfter \div 3) * 3)
    /\ StateAfter \in {"TWO", "THREE"} =>
           /\ CountAfter = 1 => Heard(input_buffer[0], <<>>, 0)
           /\ CountAfter = 2 => Heard(input_buffer[0], <<input_buffer[1]>>, 0)

DeliveredIs ==
    /\ pc = "idle" => Delivered = Stream!Nothing
    /\ pc # "idle" => Delivered # Stream!Nothing
    /\ pc # "idle" /\ input_state # "SYSEX" =>
           /\ msg.cnt = 1 => Delivered = <<0, <<msg.bytes[1]>>>>
           /\ msg.cnt = 2 => Delivered = <<0, <<msg.bytes[1], msg.bytes[2]>>>>
           /\ msg.cnt = 3 => Delivered = <<0, <<msg.bytes[1], msg.bytes[2], msg.bytes[3]>>>>

(* The chunk that the n-th byte of a system exclusive message completes. *)
ChunkDelivered(n) ==
    pc # "idle" /\ input_state = "SYSEX" /\ msg.cnt = n + 1 =>
        /\ n % 3 = 0 => Delivered = <<(n \div 3) * 3, <<msg.bytes[1]>>>>
        /\ n % 3 = 1 => Delivered = <<(n \div 3) * 3, <<msg.bytes[1], msg.bytes[2]>>>>
        /\ n % 3 = 2 => Delivered = <<(n \div 3) * 3,
                                      <<msg.bytes[1], msg.bytes[2], msg.bytes[3]>>>>

ChunksDelivered == \A n \in 0 .. CountRange - 2 : ChunkDelivered(n)

LEMMA Mapping == TypeOK => HeardIs /\ DeliveredIs /\ ChunksDelivered
<1> SUFFICES ASSUME TypeOK PROVE HeardIs /\ DeliveredIs /\ ChunksDelivered
  OBVIOUS
<1>1. HeardIs
  <2>1. input_buffer \in [0 .. 2 -> Uint8]
    BY DEF TypeOK
  <2> QED
    BY <2>1, BufferedIs DEF HeardIs, Heard, StatusInForce, DataHeard, OffsetHeard, Stream!NoStatus
<1>2. msg.bytes \in [1 .. 3 -> Uint8]
  BY DEF TypeOK
<1>3. DeliveredIs
  BY <1>2, FirstBytes DEF DeliveredIs, Delivered, Stream!Nothing
<1>4. ASSUME NEW n \in 0 .. CountRange - 2 PROVE ChunkDelivered(n)
  <2>1. n \in Nat /\ n + 1 < CountRange
    BY CountRangeAssumption
  <2> SUFFICES ASSUME pc # "idle", input_state = "SYSEX", msg.cnt = n + 1
               PROVE  ChunkDelivered(n)
    BY DEF ChunkDelivered
  <2>2. Delivered = <<(n \div 3) * 3, SubSeq(msg.bytes, 1, (n % 3) + 1)>>
    BY <2>1, ChunkIs DEF Delivered
  <2>3. 0 + 1 = 1 /\ 1 + 1 = 2 /\ 2 + 1 = 3
    OBVIOUS
  <2>4. CASE n % 3 = 0
    BY <1>2, <2>2, <2>3, <2>4, FirstBytes DEF ChunkDelivered
  <2>5. CASE n % 3 = 1
    BY <1>2, <2>2, <2>3, <2>5, FirstBytes DEF ChunkDelivered
  <2>6. CASE n % 3 = 2
    BY <1>2, <2>2, <2>3, <2>6, FirstBytes DEF ChunkDelivered
  <2> QED  BY <2>1, <2>4, <2>5, <2>6, ByThree
<1> QED  BY <1>1, <1>3, <1>4 DEF ChunksDelivered

(* What is needed of the mapping in both states of a step. *)
LEMMA Mapped ==
    IInv /\ [Next]_vars =>
        /\ TypeOK /\ HeardIs /\ DeliveredIs
        /\ TypeOK' /\ HeardIs' /\ DeliveredIs' /\ ChunksDelivered'
<1>1. IInv => TypeOK
  BY DEF IInv
<1> QED  BY <1>1, Step, Mapping, PTL

-----------------------------------------------------------------------------
(* A byte is received by the stream. *)

(* The stream before the byte. *)
LEMMA Before ==
    ASSUME IInv, KeptInv, HeardIs, DeliveredIs, pc = "idle"
    PROVE  /\ branch = "none" /\ StateAfter = input_state /\ CountAfter = input_count
           /\ Delivered = Stream!Nothing
           /\ input_state \in {"IDLE", "TWO", "THREE", "SYSEX"}
           /\ input_state = "SYSEX" <=> StatusInForce = SYSEX_BEGIN
           /\ input_state = "IDLE" <=> StatusInForce = Stream!NoStatus
           /\ input_buffer \in [0 .. 2 -> Uint8] /\ input_count \in 0 .. CountRange - 1
<1>1. TypeOK
  BY DEF IInv
<1>2. branch = "none" /\ input_state \in {"IDLE", "TWO", "THREE", "SYSEX"}
  BY <1>1 DEF TypeOK, InputState
<1>3. StateAfter = input_state /\ CountAfter = input_count
  BY <1>2 DEF StateAfter, CountAfter
<1>4. input_buffer \in [0 .. 2 -> Uint8] /\ input_count \in 0 .. CountRange - 1
  BY <1>1 DEF TypeOK
<1>5. CASE input_state \in {"TWO", "THREE"}
  <2>1. midi_packet_length(input_buffer[0]) \in {TWO, THREE} /\ input_buffer[0] \in Uint8
    BY <1>3, <1>4, <1>5 DEF KeptInv
  <2>2. midi_packet_length(SYSEX_BEGIN) = UNDEFINED
    BY DEF midi_packet_length, HighNibble, SYSEX_BEGIN, MIDI_CC, MIDI_NOTEON, MIDI_NOTEOFF,
           MIDI_AFTERTOUCH, MIDI_PITCHBEND, MIDI_PROGCHANGE, MIDI_CHANPRESSURE, MIDI_CLOCK,
           MIDI_TUNEREQUEST, MIDI_SONGPOSITION, MIDI_TC_QUARTERFRAME, MIDI_SONGSELECT,
           ListedRealtime, UNDEFINED, ONE, TWO, THREE
  <2>3. input_buffer[0] # SYSEX_BEGIN /\ input_buffer[0] # Stream!NoStatus
    BY <2>1, <2>2 DEF UNDEFINED, TWO, THREE, Uint8, Stream!NoStatus
  <2>4. StatusInForce = input_buffer[0]
    BY <1>3, <1>5 DEF StatusInForce
  <2> QED  BY <1>2, <1>3, <1>4, <1>5, <2>3, <2>4 DEF DeliveredIs
<1>6. CASE input_state \in {"IDLE", "SYSEX"}
  BY <1>2, <1>3, <1>4, <1>6
     DEF DeliveredIs, StatusInForce, SYSEX_BEGIN, Stream!NoStatus
<1> QED  BY <1>2, <1>5, <1>6

(* MidiStream classifies bytes as MidiParser does. *)
LEMMA SameBytes ==
    /\ Stream!SYSEX_BEGIN = SYSEX_BEGIN /\ Stream!SYSEX_END = SYSEX_END
    /\ Stream!UNDEFINED = UNDEFINED /\ Stream!ONE = ONE /\ Stream!TWO = TWO
    /\ Stream!THREE = THREE
    /\ \A b \in Bytes :
           /\ Stream!midi_is_realtime(b) <=> midi_is_realtime(b)
           /\ Stream!midi_is_statusbyte(b) <=> midi_is_statusbyte(b)
    /\ \A b : Stream!midi_packet_length(b) = midi_packet_length(b)
<1>1. ASSUME NEW b PROVE Stream!midi_packet_length(b) = midi_packet_length(b)
  BY DEF midi_packet_length, HighNibble, MIDI_CC, MIDI_NOTEON, MIDI_NOTEOFF,
         MIDI_AFTERTOUCH, MIDI_PITCHBEND, MIDI_PROGCHANGE, MIDI_CHANPRESSURE, MIDI_CLOCK,
         MIDI_TUNEREQUEST, MIDI_SONGPOSITION, MIDI_TC_QUARTERFRAME, MIDI_SONGSELECT,
         ListedRealtime, UNDEFINED, ONE, TWO, THREE,
         Stream!midi_packet_length, Stream!HighNibble, Stream!MIDI_CC, Stream!MIDI_NOTEON,
         Stream!MIDI_NOTEOFF, Stream!MIDI_AFTERTOUCH, Stream!MIDI_PITCHBEND,
         Stream!MIDI_PROGCHANGE, Stream!MIDI_CHANPRESSURE, Stream!MIDI_CLOCK,
         Stream!MIDI_TUNEREQUEST, Stream!MIDI_SONGPOSITION, Stream!MIDI_TC_QUARTERFRAME,
         Stream!MIDI_SONGSELECT, Stream!ListedRealtime, Stream!UNDEFINED, Stream!ONE,
         Stream!TWO, Stream!THREE
<1>2. ASSUME NEW b \in Bytes
      PROVE  /\ Stream!midi_is_realtime(b) <=> midi_is_realtime(b)
             /\ Stream!midi_is_statusbyte(b) <=> midi_is_statusbyte(b)
  BY DEF midi_is_realtime, midi_is_statusbyte, MIDI_CLOCK,
         Stream!midi_is_realtime, Stream!midi_is_statusbyte, Stream!MIDI_CLOCK
<1> QED
  BY <1>1, <1>2
     DEF SYSEX_BEGIN, SYSEX_END, UNDEFINED, ONE, TWO, THREE, Stream!SYSEX_BEGIN,
         Stream!SYSEX_END, Stream!UNDEFINED, Stream!ONE, Stream!TWO, Stream!THREE

(* Status, data and offset depend on these three only. *)
LEMMA SameHeard ==
    ASSUME StateAfter' = StateAfter, CountAfter' = CountAfter, input_buffer' = input_buffer
    PROVE  UNCHANGED <<StatusInForce, DataHeard, OffsetHeard>>
  BY DEF StatusInForce, DataHeard, OffsetHeard, Buffered

(* The branches of midi_process_byte, one by one. *)
Maps(b) == KeptInv' /\ Stream!Receive(b)

LEMMA RealtimeMaps ==
    ASSUME IInv, KeptInv, HeardIs, DeliveredIs, DeliveredIs', pc = "idle",
           NEW b \in Bytes, RealtimeByte(b)
    PROVE  Maps(b)
<1>1. branch' = "realtime" /\ state' = input_state /\ input_state' = "ONE" /\ input_count' = input_count
      /\ input_buffer' = input_buffer /\ msg' = [cnt |-> 1, bytes |-> <<b, 0, 0>>] /\ pc' = "specific"
  BY DEF RealtimeByte, Callbacks
<1>2. StateAfter' = StateAfter /\ CountAfter' = CountAfter
  BY <1>1, Before DEF StateAfter, CountAfter
<1>3. UNCHANGED <<StatusInForce, DataHeard, OffsetHeard>>
  BY <1>1, <1>2, SameHeard
<1>4. Delivered' = <<0, <<b>>>>
  BY <1>1 DEF DeliveredIs
<1>5. Stream!Receive(b)
  BY <1>3, <1>4, Before, SameBytes DEF RealtimeByte, Stream!Receive, Stream!Realtime, Stream!Deliver,
                             Stream!Message
<1>6. KeptInv'
  BY <1>1, <1>2 DEF KeptInv
<1> QED  BY <1>5, <1>6 DEF Maps

LEMMA StatusOneMaps ==
    ASSUME IInv, KeptInv, HeardIs, DeliveredIs, HeardIs', DeliveredIs', pc = "idle",
           NEW b \in Bytes, StatusOne(b)
    PROVE  Maps(b)
<1>1. branch' = "one" /\ input_state' = "ONE" /\ msg' = [cnt |-> 1, bytes |-> <<b, 0, 0>>]
      /\ pc' = "specific"
  BY DEF StatusOne, Callbacks
<1>2. StateAfter' = "IDLE"
  BY <1>1 DEF StateAfter
<1>3. StatusInForce' = Stream!NoStatus /\ DataHeard' = <<>> /\ OffsetHeard' = 0
  BY <1>2 DEF HeardIs, Heard
<1>4. Delivered' = <<0, <<b>>>>
  BY <1>1 DEF DeliveredIs
<1>5. Stream!Receive(b)
  BY <1>3, <1>4, Before, SameBytes DEF StatusOne, Status, Stream!Receive, Stream!Status, Stream!Deliver,
                             Stream!Message, Stream!InForce
<1>6. KeptInv'
  BY <1>2 DEF KeptInv
<1> QED  BY <1>5, <1>6 DEF Maps

LEMMA StatusOfMessageMaps ==
    ASSUME IInv, KeptInv, HeardIs, DeliveredIs, HeardIs', DeliveredIs', pc = "idle",
           NEW b \in Bytes, StatusOfMessage(b), Orderly(b)
    PROVE  Maps(b)
<1>1. input_state # "SYSEX"
  BY DEF StatusOfMessage, Orderly
<1>2. branch' = "none" /\ pc' = "idle" /\ input_count' = 1 /\ input_buffer'[0] = b
      /\ input_state' = (IF midi_packet_length(b) = TWO THEN "TWO" ELSE "THREE")
  BY <1>1, Before DEF StatusOfMessage, StoredBuffer, StoredCount, NoCallbacks
<1>3. StateAfter' = input_state' /\ CountAfter' = 1
  BY <1>2 DEF StateAfter, CountAfter
<1>4. StatusInForce' = b /\ DataHeard' = <<>> /\ OffsetHeard' = 0
  BY <1>2, <1>3 DEF HeardIs, Heard
<1>5. Delivered' = Delivered
  BY <1>2, Before DEF DeliveredIs
<1>6. Stream!Receive(b)
  BY <1>4, <1>5, Before, SameBytes DEF StatusOfMessage, Status, Stream!Receive, Stream!Status, Stream!InForce
<1>7. KeptInv'
  BY <1>2, <1>3 DEF KeptInv, StatusOfMessage, Status, TWO, THREE
<1> QED  BY <1>6, <1>7 DEF Maps

LEMMA StatusUndefinedMaps ==
    ASSUME IInv, KeptInv, HeardIs, DeliveredIs, HeardIs', DeliveredIs', pc = "idle",
           NEW b \in Bytes, StatusUndefined(b)
    PROVE  Maps(b)
<1>1. branch' = "none" /\ pc' = "idle" /\ input_state' = "IDLE"
  BY Before DEF StatusUndefined, NoCallbacks
<1>2. StateAfter' = "IDLE"
  BY <1>1 DEF StateAfter
<1>3. StatusInForce' = Stream!NoStatus /\ DataHeard' = <<>> /\ OffsetHeard' = 0
  BY <1>2 DEF HeardIs, Heard
<1>4. Delivered' = Delivered
  BY <1>1, Before DEF DeliveredIs
<1>5. Stream!Receive(b)
  BY <1>3, <1>4, Before, SameBytes DEF StatusUndefined, Status, Stream!Receive, Stream!Status, Stream!InForce
<1>6. KeptInv'
  BY <1>2 DEF KeptInv
<1> QED  BY <1>5, <1>6 DEF Maps

LEMMA IgnoredMaps ==
    ASSUME IInv, KeptInv, HeardIs, DeliveredIs, DeliveredIs', pc = "idle",
           NEW b \in Bytes, DataIgnored(b)
    PROVE  Maps(b)
<1>1. branch' = "none" /\ pc' = "idle" /\ UNCHANGED parse
  BY Before DEF DataIgnored, NoCallbacks
<1>2. StateAfter' = StateAfter /\ CountAfter' = CountAfter
  BY <1>1, Before DEF StateAfter, CountAfter, parse
<1>3. UNCHANGED <<StatusInForce, DataHeard, OffsetHeard>>
  BY <1>1, <1>2, SameHeard DEF parse
<1>4. Delivered' = Delivered
  BY <1>1, Before DEF DeliveredIs
<1>5. Stream!Receive(b)
  BY <1>3, <1>4, Before, SameBytes DEF DataIgnored, Stream!Receive, Stream!Ignored, Stream!stream
<1>6. KeptInv'
  BY <1>1, <1>2 DEF KeptInv, parse
<1> QED  BY <1>5, <1>6 DEF Maps

LEMMA SysexBeginMaps ==
    ASSUME IInv, KeptInv, HeardIs, DeliveredIs, HeardIs', DeliveredIs', pc = "idle",
           NEW b \in Bytes, SysexBegin(b)
    PROVE  Maps(b)
<1>1. branch' = "none" /\ pc' = "idle" /\ input_state' = "SYSEX" /\ input_count' = 1
      /\ input_buffer'[0] = b /\ b = SYSEX_BEGIN
  BY Before DEF SysexBegin, NoCallbacks
<1>2. StateAfter' = "SYSEX" /\ CountAfter' = 1
  BY <1>1 DEF StateAfter, CountAfter
<1>3. 1 % 3 = 1 /\ (1 \div 3) * 3 = 0
  OBVIOUS
<1>4. StatusInForce' = b /\ DataHeard' = <<b>> /\ OffsetHeard' = 0
  BY <1>1, <1>2, <1>3 DEF HeardIs, Heard
<1>5. Delivered' = Delivered
  BY <1>1, Before DEF DeliveredIs
<1>6. Stream!Receive(b)
  BY <1>1, <1>4, <1>5, Before, SameBytes DEF Stream!Receive, Stream!SysexStart
<1>7. KeptInv'
  BY <1>2 DEF KeptInv
<1> QED  BY <1>6, <1>7 DEF Maps

(* The chunk that a byte of a system exclusive message completes. *)
LEMMA ChunkMaps ==
    ASSUME IInv, KeptInv, HeardIs, DeliveredIs, ChunksDelivered', pc = "idle",
           NEW b \in Uint8, NEW n \in 0 .. CountRange - 2, n = input_count,
           input_state = "SYSEX", input_state' = "SYSEX", pc' # "idle",
           input_buffer' = [input_buffer EXCEPT ![n % 3] = b],
           msg' = [cnt |-> n + 1,
                   bytes |-> <<input_buffer'[0], input_buffer'[1], input_buffer'[2]>>]
    PROVE  Delivered' = <<OffsetHeard, Append(DataHeard, b)>>
<1>1. StateAfter = "SYSEX" /\ CountAfter = n /\ input_buffer \in [0 .. 2 -> Uint8]
  BY Before
<1>2. n \in Nat
  BY CountRangeAssumption
<1> DEFINE o == (n \div 3) * 3
           b0 == input_buffer'[0]
           b1 == input_buffer'[1]
           b2 == input_buffer'[2]
<1>3. msg'.cnt = n + 1 /\ msg'.bytes[1] = b0 /\ msg'.bytes[2] = b1 /\ msg'.bytes[3] = b2
  OBVIOUS
<1>4. /\ n % 3 = 0 => Delivered' = <<o, <<b0>>>>
      /\ n % 3 = 1 => Delivered' = <<o, <<b0, b1>>>>
      /\ n % 3 = 2 => Delivered' = <<o, <<b0, b1, b2>>>>
  <2>1. ChunkDelivered(n)'
    BY DEF ChunksDelivered
  <2> QED  BY <1>3, <2>1 DEF ChunkDelivered
<1>5. /\ n % 3 = 0 => OffsetHeard = o /\ DataHeard = <<>>
      /\ n % 3 = 1 => OffsetHeard = o /\ DataHeard = <<input_buffer[0]>>
      /\ n % 3 = 2 => OffsetHeard = o /\ DataHeard = <<input_buffer[0], input_buffer[1]>>
  BY <1>1 DEF HeardIs, Heard
<1>6. /\ n % 3 = 0 => b0 = b
      /\ n % 3 = 1 => b0 = input_buffer[0] /\ b1 = b
      /\ n % 3 = 2 => b0 = input_buffer[0] /\ b1 = input_buffer[1] /\ b2 = b
  BY <1>1
<1> HIDE DEF o, b0, b1, b2
<1>7. CASE n % 3 = 0
  BY <1>4, <1>5, <1>6, <1>7, AppendIs
<1>8. CASE n % 3 = 1
  BY <1>4, <1>5, <1>6, <1>8, AppendIs, ZenonT(40)
<1>9. CASE n % 3 = 2
  <2>1. DataHeard = <<b0, b1>> /\ OffsetHeard = o /\ Delivered' = <<o, <<b0, b1, b>>>>
    BY <1>4, <1>5, <1>6, <1>9
  <2>2. Append(<<b0, b1>>, b) = <<b0, b1, b>>
    BY AppendIs
  <2> QED  BY <2>1, <2>2
<1> QED  BY <1>2, <1>7, <1>8, <1>9, ByThree

LEMMA SysexEndMaps ==
    ASSUME IInv, KeptInv, HeardIs, DeliveredIs, HeardIs', DeliveredIs', ChunksDelivered',
           pc = "idle", NEW b \in Bytes, SysexEnd(b), Orderly(b)
    PROVE  Maps(b)
<1>1. b \in Uint8 /\ b = SYSEX_END
  BY BytesAssumption DEF SysexEnd
<1>2. ~midi_is_realtime(b)
  BY <1>1 DEF SYSEX_END, midi_is_realtime, MIDI_CLOCK
<1>3. input_state = "SYSEX" /\ input_count + 1 < CountRange
  BY <1>1, <1>2 DEF Orderly
<1>4. PICK n \in 0 .. CountRange - 2 : n = input_count
  BY <1>3, Before, CountRangeAssumption
<1>5. Plus1(n) = n + 1
  BY <1>3, <1>4, CountIs, CountRangeAssumption
<1>6. /\ branch' = "sysexend" /\ pc' = "specific" /\ input_state' = "SYSEX"
      /\ input_buffer' = [input_buffer EXCEPT ![n % 3] = b]
      /\ msg' = [cnt |-> n + 1,
                 bytes |-> <<input_buffer'[0], input_buffer'[1], input_buffer'[2]>>]
  BY <1>3, <1>4, <1>5 DEF SysexEnd, Callbacks, StoredBuffer, StoredCount
<1>7. Delivered' = <<OffsetHeard, Append(DataHeard, b)>>
  BY <1>1, <1>3, <1>4, <1>6, ChunkMaps
<1>8. StateAfter' = "IDLE"
  BY <1>6 DEF StateAfter
<1>9. StatusInForce' = Stream!NoStatus /\ DataHeard' = <<>> /\ OffsetHeard' = 0
  BY <1>8 DEF HeardIs, Heard
<1>10. Stream!Receive(b)
  BY <1>1, <1>3, <1>7, <1>9, Before, SameBytes
     DEF Stream!Receive, Stream!SysexStop, Stream!InForce, Stream!Deliver, Stream!Message
<1>11. KeptInv'
  BY <1>8 DEF KeptInv
<1> QED  BY <1>10, <1>11 DEF Maps

(* A data byte of a system exclusive message. *)
LEMMA SysexDataMaps ==
    ASSUME IInv, KeptInv, HeardIs, DeliveredIs, HeardIs', DeliveredIs', ChunksDelivered',
           pc = "idle", NEW b \in Bytes, DataByte(b), Orderly(b), input_state = "SYSEX"
    PROVE  Maps(b)
<1>1. b \in Uint8 /\ ~midi_is_statusbyte(b) /\ ~midi_is_realtime(b)
  BY BytesAssumption DEF DataByte, Uint8, midi_is_statusbyte, midi_is_realtime, MIDI_CLOCK
<1>2. input_count + 1 < CountRange
  BY <1>1 DEF Orderly
<1>3. PICK n \in 0 .. CountRange - 2 : n = input_count
  BY <1>2, Before, CountRangeAssumption
<1>4. Plus1(n) = n + 1 /\ n \in Nat
  BY <1>2, <1>3, CountIs, CountRangeAssumption
<1>5. /\ n % 3 \in 0 .. 2
      /\ (n + 1) % 3 = (IF n % 3 = 2 THEN 0 ELSE (n % 3) + 1)
      /\ ((n + 1) \div 3) * 3 = (IF n % 3 = 2 THEN (n \div 3) * 3 + 3 ELSE (n \div 3) * 3)
  BY <1>4, ByThree
<1>6. /\ input_state' = "SYSEX" /\ input_count' = n + 1
      /\ input_buffer' = [input_buffer EXCEPT ![n % 3] = b]
  BY <1>3, <1>4 DEF DataByte
<1>7. StateAfter = "SYSEX" /\ CountAfter = n /\ input_buffer \in [0 .. 2 -> Uint8]
      /\ Delivered = Stream!Nothing /\ StatusInForce = SYSEX_BEGIN
  BY <1>3, Before
<1> DEFINE o == (n \div 3) * 3
           b0 == input_buffer[0]
           b1 == input_buffer[1]
<1>8. CASE n % 3 = 2
  <2>1. /\ branch' = "data" /\ pc' = "specific"
        /\ msg' = [cnt |-> n + 1,
                   bytes |-> <<input_buffer'[0], input_buffer'[1], input_buffer'[2]>>]
    BY <1>3, <1>6, <1>8 DEF DataByte, Callbacks, NoCallbacks
  <2>2. Delivered' = <<OffsetHeard, Append(DataHeard, b)>>
    BY <1>1, <1>3, <1>6, <2>1, ChunkMaps
  <2>3. StateAfter' = "SYSEX" /\ CountAfter' = n + 1
    BY <1>6, <2>1 DEF StateAfter, CountAfter
  <2>4. StatusInForce' = SYSEX_BEGIN /\ DataHeard' = <<>> /\ OffsetHeard' = o + 3
    BY <1>5, <1>8, <2>3 DEF HeardIs, Heard
  <2>5. OffsetHeard = o /\ DataHeard = <<b0, b1>>
    BY <1>7, <1>8 DEF HeardIs, Heard
  <2>6. Len(DataHeard) = 2
    BY <2>5
  <2>7. Stream!Receive(b)
    <3> HIDE DEF o, b0, b1
    <3> QED
      BY <1>1, <1>7, <2>2, <2>4, <2>5, <2>6, SameBytes
         DEF Stream!Receive, Stream!SysexData, Stream!Deliver, Stream!Message
  <2> QED  BY <2>3, <2>7 DEF Maps, KeptInv
<1>9. CASE n % 3 # 2
  <2>1. branch' = "none" /\ pc' = "idle"
    BY <1>3, <1>7, <1>9, Before DEF DataByte, NoCallbacks
  <2>2. StateAfter' = "SYSEX" /\ CountAfter' = n + 1
    BY <1>6, <2>1 DEF StateAfter, CountAfter
  <2>3. StatusInForce' = SYSEX_BEGIN /\ OffsetHeard' = o /\ OffsetHeard = o
        /\ DataHeard' = Append(DataHeard, b) /\ Len(DataHeard) < 2
    <3>1. CASE n % 3 = 0
      <4>1. (n + 1) % 3 = 1 /\ ((n + 1) \div 3) * 3 = o /\ input_buffer'[0] = b
        BY <1>5, <1>6, <1>7, <3>1
      <4>2. DataHeard = <<>> /\ OffsetHeard = o
        BY <1>7, <3>1 DEF HeardIs, Heard
      <4>3. Heard(SYSEX_BEGIN, <<b>>, o)'
        BY <2>2, <4>1 DEF HeardIs
      <4> QED  BY <4>2, <4>3, AppendIs DEF Heard
    <3>2. CASE n % 3 = 1
      <4>1. (n + 1) % 3 = 2 /\ ((n + 1) \div 3) * 3 = o /\ input_buffer'[0] = b0
            /\ input_buffer'[1] = b
        BY <1>5, <1>6, <1>7, <3>2
      <4>2. DataHeard = <<b0>> /\ OffsetHeard = o
        BY <1>7, <3>2 DEF HeardIs, Heard
      <4>3. StatusInForce' = SYSEX_BEGIN /\ DataHeard' = <<b0, b>> /\ OffsetHeard' = o
        BY <2>2, <4>1 DEF HeardIs, Heard
      <4> HIDE DEF o, b0
      <4>4. Append(<<b0>>, b) = <<b0, b>>
        BY AppendIs
      <4> QED  BY <4>2, <4>3, <4>4
    <3> QED  BY <1>5, <1>9, <3>1, <3>2
  <2>4. Delivered' = Delivered
    BY <1>7, <2>1 DEF DeliveredIs
  <2>5. Stream!Receive(b)
    <3> HIDE DEF o, b0, b1
    <3> QED
      BY <1>1, <1>7, <2>3, <2>4, SameBytes DEF Stream!Receive, Stream!SysexData
  <2> QED  BY <2>2, <2>5 DEF Maps, KeptInv
<1> QED  BY <1>8, <1>9

(* A data byte of a message of two or three bytes. *)
LEMMA DataMaps ==
    ASSUME IInv, KeptInv, HeardIs, DeliveredIs, HeardIs', DeliveredIs',
           pc = "idle", NEW b \in Bytes, DataByte(b), input_state # "SYSEX"
    PROVE  Maps(b)
<1>1. input_state \in {"TWO", "THREE"} /\ ~midi_is_statusbyte(b)
  BY Before DEF DataByte
<1>2. StateAfter = input_state /\ CountAfter = input_count /\ input_buffer \in [0 .. 2 -> Uint8]
      /\ Delivered = Stream!Nothing /\ StatusInForce \notin {Stream!NoStatus, SYSEX_BEGIN}
      /\ branch = "none"
  BY <1>1, Before
<1>3. midi_is_statusbyte(input_buffer[0])
      /\ midi_packet_length(input_buffer[0]) = (IF input_state = "TWO" THEN TWO ELSE THREE)
      /\ input_count \in 1 .. (IF input_state = "TWO" THEN 1 ELSE 2)
  BY <1>1, <1>2 DEF KeptInv
<1>4. 1 % 3 = 1 /\ 2 % 3 = 2 /\ Plus1(1) = 2 /\ Plus1(2) = 3
  <2>1. CountRange \in Nat /\ CountRange > 3
    BY CountRangeAssumption
  <2> QED  BY <2>1 DEF Plus1
<1> DEFINE s == input_buffer[0]
           b1 == input_buffer[1]
<1>5. CASE input_state = "TWO"
  <2>1. /\ input_count = 1 /\ input_buffer' = [input_buffer EXCEPT ![1] = b]
        /\ input_state' = "TWO" /\ branch' = "data" /\ pc' = "specific"
        /\ msg' = [cnt |-> 2, bytes |-> <<input_buffer'[0], input_buffer'[1], 0>>]
    BY <1>3, <1>4, <1>5 DEF DataByte, Callbacks, NoCallbacks
  <2>2. input_buffer'[0] = s /\ input_buffer'[1] = b
    BY <1>2, <2>1
  <2>3. StateAfter' = "TWO" /\ CountAfter' = 1
    BY <2>1 DEF StateAfter, CountAfter
  <2>4. StatusInForce' = s /\ DataHeard' = <<>> /\ OffsetHeard' = 0
    BY <2>2, <2>3 DEF HeardIs, Heard
  <2>5. StatusInForce = s /\ DataHeard = <<>> /\ OffsetHeard = 0
    BY <1>2, <1>5, <2>1 DEF HeardIs, Heard
  <2>6. Delivered' = <<0, <<s, b>>>>
    <3>1. msg'.cnt = 2 /\ msg'.bytes[1] = s /\ msg'.bytes[2] = b
      BY <2>1, <2>2
    <3> QED  BY <2>1, <3>1 DEF DeliveredIs
  <2>7. Stream!Receive(b)
    <3>1. midi_packet_length(s) = 2 /\ Len(<<>>) = 0
      BY <1>3, <1>5 DEF TWO
    <3> HIDE DEF s
    <3>2. <<s>> \o Append(<<>>, b) = <<s, b>>
      BY AppendIs
    <3>3. Stream!Data(b)
      BY <1>1, <1>2, <2>4, <2>5, <2>6, <3>1, <3>2, SameBytes
         DEF Stream!Data, Stream!Deliver, Stream!Message
    <3> QED  BY <1>2, <3>3 DEF Stream!Receive
  <2>8. KeptInv'
    BY <1>3, <1>5, <2>2, <2>3 DEF KeptInv
  <2> QED  BY <2>7, <2>8 DEF Maps
<1>6. CASE input_state = "THREE" /\ input_count = 1
  <2>1. /\ input_buffer' = [input_buffer EXCEPT ![1] = b] /\ input_count' = 2
        /\ input_state' = "THREE" /\ branch' = "none" /\ pc' = "idle"
    BY <1>2, <1>4, <1>6 DEF DataByte, NoCallbacks
  <2>2. input_buffer'[0] = s /\ input_buffer'[1] = b
    BY <1>2, <2>1
  <2>3. StateAfter' = "THREE" /\ CountAfter' = 2
    BY <2>1 DEF StateAfter, CountAfter
  <2>4. StatusInForce' = s /\ DataHeard' = <<b>> /\ OffsetHeard' = 0
    BY <2>2, <2>3 DEF HeardIs, Heard
  <2>5. StatusInForce = s /\ DataHeard = <<>> /\ OffsetHeard = 0
    BY <1>2, <1>6 DEF HeardIs, Heard
  <2>6. Delivered' = Delivered
    BY <1>2, <2>1 DEF DeliveredIs
  <2>7. Stream!Receive(b)
    <3>1. midi_packet_length(s) = 3 /\ Len(<<>>) = 0
      BY <1>3, <1>6 DEF THREE
    <3> HIDE DEF s
    <3>2. Append(<<>>, b) = <<b>>
      BY AppendIs
    <3>3. Stream!Data(b)
      BY <1>1, <1>2, <2>4, <2>5, <2>6, <3>1, <3>2, SameBytes DEF Stream!Data
    <3> QED  BY <1>2, <3>3 DEF Stream!Receive
  <2>8. KeptInv'
    BY <1>3, <1>6, <2>2, <2>3 DEF KeptInv
  <2> QED  BY <2>7, <2>8 DEF Maps
<1>7. CASE input_state = "THREE" /\ input_count = 2
  <2>1. /\ input_buffer' = [input_buffer EXCEPT ![2] = b]
        /\ input_state' = "THREE" /\ branch' = "data" /\ pc' = "specific"
        /\ msg' = [cnt |-> 3,
                   bytes |-> <<input_buffer'[0], input_buffer'[1], input_buffer'[2]>>]
    BY <1>4, <1>7 DEF DataByte, Callbacks, NoCallbacks
  <2>2. input_buffer'[0] = s /\ input_buffer'[1] = b1 /\ input_buffer'[2] = b
    BY <1>2, <2>1
  <2>3. StateAfter' = "THREE" /\ CountAfter' = 1
    BY <2>1 DEF StateAfter, CountAfter
  <2>4. StatusInForce' = s /\ DataHeard' = <<>> /\ OffsetHeard' = 0
    BY <2>2, <2>3 DEF HeardIs, Heard
  <2>5. StatusInForce = s /\ DataHeard = <<b1>> /\ OffsetHeard = 0
    BY <1>2, <1>7 DEF HeardIs, Heard
  <2>6. Delivered' = <<0, <<s, b1, b>>>>
    <3>1. msg'.cnt = 3 /\ msg'.bytes[1] = s /\ msg'.bytes[2] = b1 /\ msg'.bytes[3] = b
      BY <2>1, <2>2
    <3> QED  BY <2>1, <3>1 DEF DeliveredIs
  <2>7. Stream!Receive(b)
    <3>1. midi_packet_length(s) = 3 /\ Len(<<b1>>) = 1
      BY <1>3, <1>7 DEF THREE
    <3> HIDE DEF s, b1
    <3>2. Append(<<b1>>, b) = <<b1, b>> /\ <<s>> \o <<b1, b>> = <<s, b1, b>>
      BY AppendIs
    <3>3. Len(DataHeard) = 1 /\ Append(DataHeard, b) = <<b1, b>>
      BY <2>5, <3>1, <3>2
    <3>4. <<StatusInForce>> \o Append(DataHeard, b) = <<s, b1, b>>
      BY <2>5, <3>2, <3>3
    <3>5. UNCHANGED <<StatusInForce, OffsetHeard>> /\ DataHeard' = <<>>
      BY <2>4, <2>5
    <3>6. Len(DataHeard) + 2 = Stream!midi_packet_length(StatusInForce)
      BY <2>5, <3>1, <3>3, SameBytes
    <3>7. Delivered' = <<0, <<StatusInForce>> \o Append(DataHeard, b)>>
      BY <2>6, <3>4
    <3>8. Stream!Data(b)
      BY <1>1, <1>2, <3>5, <3>6, <3>7, SameBytes DEF Stream!Data, Stream!Deliver, Stream!Message
    <3> QED  BY <1>2, <3>8 DEF Stream!Receive
  <2>8. KeptInv'
    BY <1>3, <1>7, <2>2, <2>3 DEF KeptInv
  <2> QED  BY <2>7, <2>8 DEF Maps
<1> QED  BY <1>1, <1>3, <1>5, <1>6, <1>7

-----------------------------------------------------------------------------
(* The refinement. *)

LEMMA OrderlyStep == OrderlyNext => Next
  BY DEF OrderlyNext, Next

(* Callbacks and registrations: the message stays the one it is until      *)
(* Return settles it.                                                      *)
LEMMA Unheard ==
    ASSUME KeptInv, UNCHANGED <<parse, branch, state, msg>>, (pc = "idle") <=> (pc' = "idle")
    PROVE  KeptInv' /\ UNCHANGED Stream!stream
<1>1. StateAfter' = StateAfter /\ CountAfter' = CountAfter /\ input_buffer' = input_buffer
  BY DEF StateAfter, CountAfter, parse
<1>2. UNCHANGED <<StatusInForce, DataHeard, OffsetHeard>>
  BY <1>1, SameHeard
<1>3. Delivered' = Delivered
  BY DEF Delivered, SysexStart, SysexLength, parse
<1> QED  BY <1>1, <1>2, <1>3 DEF KeptInv, Stream!stream

LEMMA ReturnMaps ==
    ASSUME IInv, KeptInv, DeliveredIs, DeliveredIs', Return
    PROVE  KeptInv' /\ Stream!Settle
<1>1. branch \in {"realtime", "one", "sysexend", "data"}
  BY DEF Return, IInv, TypeOK
<1>2. input_state' = StateAfter /\ input_count' = CountAfter /\ branch' = "none"
      /\ input_buffer' = input_buffer /\ pc = "return" /\ pc' = "idle"
  BY <1>1 DEF Return, StateAfter, CountAfter
<1>3. StateAfter' = StateAfter /\ CountAfter' = CountAfter
  BY <1>2 DEF StateAfter, CountAfter
<1>4. UNCHANGED <<StatusInForce, DataHeard, OffsetHeard>>
  BY <1>2, <1>3, SameHeard
<1>5. Delivered # Stream!Nothing /\ Delivered' = Stream!Nothing
  BY <1>2 DEF DeliveredIs
<1> QED  BY <1>2, <1>3, <1>4, <1>5 DEF KeptInv, Stream!Settle

(* Every branch of midi_process_byte. *)
LEMMA ByteMaps ==
    ASSUME IInv, KeptInv, NEW b \in Bytes, Orderly(b), ProcessByte(b)
    PROVE  Maps(b)
<1>1. HeardIs /\ DeliveredIs /\ HeardIs' /\ DeliveredIs' /\ ChunksDelivered'
  BY Mapped DEF Next
<1>2. pc = "idle"
  BY DEF ProcessByte
<1>3. CASE RealtimeByte(b)
  BY <1>1, <1>2, <1>3, RealtimeMaps
<1>4. CASE StatusOne(b)
  BY <1>1, <1>2, <1>4, StatusOneMaps
<1>5. CASE StatusOfMessage(b)
  BY <1>1, <1>2, <1>5, StatusOfMessageMaps
<1>6. CASE SysexBegin(b)
  BY <1>1, <1>2, <1>6, SysexBeginMaps
<1>7. CASE SysexEnd(b)
  BY <1>1, <1>2, <1>7, SysexEndMaps
<1>8. CASE StatusUndefined(b)
  BY <1>1, <1>2, <1>8, StatusUndefinedMaps
<1>9. CASE DataIgnored(b)
  BY <1>1, <1>2, <1>9, IgnoredMaps
<1>10. CASE DataByte(b)
  BY <1>1, <1>2, <1>10, SysexDataMaps, DataMaps
<1> QED  BY <1>3, <1>4, <1>5, <1>6, <1>7, <1>8, <1>9, <1>10 DEF ProcessByte

LEMMA StepMaps ==
    IInv /\ KeptInv /\ [OrderlyNext]_vars => KeptInv' /\ [Stream!Next]_(Stream!stream)
<1> SUFFICES ASSUME IInv, KeptInv, [OrderlyNext]_vars
             PROVE  KeptInv' /\ [Stream!Next]_(Stream!stream)
  OBVIOUS
<1>1. HeardIs /\ DeliveredIs /\ HeardIs' /\ DeliveredIs' /\ ChunksDelivered'
  BY Mapped, OrderlyStep
<1>2. ASSUME NEW b \in Bytes, Orderly(b), ProcessByte(b)
      PROVE  KeptInv' /\ [Stream!Next]_(Stream!stream)
  BY <1>2, ByteMaps DEF Maps, Stream!Next
<1>3. CASE CallSpecific \/ CallFallthrough \/ CallCatchall
  BY <1>3, Unheard DEF CallSpecific, CallFallthrough, CallCatchall
<1>4. CASE Return
  BY <1>1, <1>4, ReturnMaps DEF Stream!Next
<1>5. ASSUME NEW f \in Callback, NEW on \in BOOLEAN, Register(f, on)
      PROVE  KeptInv' /\ UNCHANGED Stream!stream
  BY <1>5, Unheard DEF Register
<1>6. CASE UNCHANGED vars
  BY <1>6, Unheard DEF vars
<1> QED  BY <1>2, <1>3, <1>4, <1>5, <1>6 DEF OrderlyNext, Callout, Program

LEMMA StartMaps == Init => KeptInv /\ Stream!Init
<1> SUFFICES ASSUME Init PROVE KeptInv /\ Stream!Init
  OBVIOUS
<1>1. StateAfter = "IDLE" /\ CountAfter = 0
  BY DEF Init, StateAfter, CountAfter
<1>2. HeardIs /\ DeliveredIs
  BY Start, Mapping DEF IInv
<1>3. Delivered = Stream!Nothing
  BY <1>2 DEF Init, DeliveredIs
<1>4. StatusInForce = Stream!NoStatus /\ DataHeard = <<>> /\ OffsetHeard = 0
  BY <1>1, <1>2 DEF HeardIs, Heard
<1> QED  BY <1>1, <1>3, <1>4 DEF KeptInv, Stream!Init, Stream!Nothing

LEMMA OrderlyInvariance == OrderlySpec => [](IInv /\ KeptInv)
<1>1. IInv /\ KeptInv /\ [OrderlyNext]_vars => (IInv /\ KeptInv)'
  BY Step, StepMaps, OrderlyStep
<1> QED  BY <1>1, Start, StartMaps, PTL DEF OrderlySpec

(* With an orderly sender the buffer keeps the status byte that running    *)
(* status relies on, and the count says how much of its message is there   *)
(* (midi_process_byte).                                                    *)
THEOREM RunningStatus == OrderlySpec => []StatusKept
<1>1. ASSUME IInv, KeptInv PROVE StatusKept
  <2> SUFFICES ASSUME pc = "idle", input_state \in {"TWO", "THREE"} PROVE StatusKept
    BY DEF StatusKept
  <2>1. branch = "none"
    BY <1>1 DEF IInv, TypeOK
  <2>2. StateAfter = input_state /\ CountAfter = input_count
    BY <2>1 DEF StateAfter, CountAfter
  <2> QED  BY <1>1, <2>2 DEF KeptInv, StatusKept
<1> QED  BY <1>1, OrderlyInvariance, PTL

(* With an orderly sender every message comes out of the parser once,      *)
(* whole and in order: midi_process_byte and midi_input_callbacks          *)
(* implement the stream of messages.                                       *)
THEOREM Refinement == OrderlySpec => ImplementsStream
  BY StartMaps, StepMaps, OrderlyInvariance, PTL DEF OrderlySpec, ImplementsStream, Stream!Spec

-----------------------------------------------------------------------------
(* Sequences, of whatever elements, for the proofs about what is on its   *)
(* way to a parser.                                                        *)

IsSeq(s) == \E S : s \in Seq(S)

LEMMA SeqIs ==
    ASSUME NEW s, IsSeq(s)
    PROVE  /\ Len(s) \in Nat /\ DOMAIN s = 1 .. Len(s)
           /\ Len(s) = 0 <=> s = <<>>
           /\ s # <<>> => /\ Head(s) = s[1] /\ IsSeq(Tail(s)) /\ Len(Tail(s)) = Len(s) - 1
                          /\ \A i \in 1 .. Len(Tail(s)) : Tail(s)[i] = s[i + 1]
<1>1. PICK S : s \in Seq(S)
  BY DEF IsSeq
<1>2. Len(s) \in Nat /\ DOMAIN s = 1 .. Len(s)
  BY <1>1, LenProperties
<1>3. Len(s) = 0 <=> s = <<>>
  BY <1>1, EmptySeq
<1>4. ASSUME s # <<>>
      PROVE  /\ Head(s) = s[1] /\ Tail(s) \in Seq(S) /\ Len(Tail(s)) = Len(s) - 1
             /\ \A i \in 1 .. Len(Tail(s)) : Tail(s)[i] = s[i + 1]
  BY <1>1, <1>4, HeadTailProperties
<1> QED  BY <1>2, <1>3, <1>4 DEF IsSeq

LEMMA ConcatIs ==
    ASSUME NEW s, NEW t, IsSeq(s), IsSeq(t)
    PROVE  /\ IsSeq(s \o t) /\ Len(s \o t) = Len(s) + Len(t)
           /\ \A i \in 1 .. Len(s) : (s \o t)[i] = s[i]
           /\ \A i \in 1 .. Len(t) : (s \o t)[Len(s) + i] = t[i]
<1>1. PICK S : s \in Seq(S)
  BY DEF IsSeq
<1>2. PICK T : t \in Seq(T)
  BY DEF IsSeq
<1> DEFINE U == S \cup T
<1>3. s \in Seq(U) /\ t \in Seq(U)
  <2>1. Len(s) \in Nat /\ s \in [1 .. Len(s) -> S] /\ Len(t) \in Nat /\ t \in [1 .. Len(t) -> T]
    BY <1>1, <1>2, LenProperties
  <2>2. s \in [1 .. Len(s) -> U] /\ t \in [1 .. Len(t) -> U]
    BY <2>1
  <2> HIDE DEF U
  <2>3. \A n \in Nat : \A f \in [1 .. n -> U] : f \in Seq(U)
    BY SeqDef
  <2> QED  BY <2>1, <2>2, <2>3
<1> HIDE DEF U
<1>4. s \o t \in Seq(U) /\ Len(s \o t) = Len(s) + Len(t) /\ Len(s) \in Nat /\ Len(t) \in Nat
      /\ \A i \in 1 .. Len(s) + Len(t) : (s \o t)[i] = IF i <= Len(s) THEN s[i] ELSE t[i - Len(s)]
  BY <1>3, ConcatProperties, LenProperties
<1>5. ASSUME NEW i \in 1 .. Len(s) PROVE (s \o t)[i] = s[i]
  BY <1>4
<1>6. ASSUME NEW i \in 1 .. Len(t) PROVE (s \o t)[Len(s) + i] = t[i]
  <2>1. Len(s) + i \in 1 .. Len(s) + Len(t) /\ ~(Len(s) + i <= Len(s)) /\ (Len(s) + i) - Len(s) = i
    BY <1>4
  <2> QED  BY <1>4, <2>1
<1> QED  BY <1>4, <1>5, <1>6 DEF IsSeq

(* Two sequences of the same elements.                                     *)
LEMMA SameSeq ==
    ASSUME NEW s, NEW t, IsSeq(s), IsSeq(t), Len(s) = Len(t), \A i \in 1 .. Len(s) : s[i] = t[i]
    PROVE  s = t
<1>1. PICK S : s \in Seq(S)
  BY DEF IsSeq
<1>2. PICK T : t \in Seq(T)
  BY DEF IsSeq
<1>3. /\ Len(s) \in Nat /\ s = [i \in 1 .. Len(s) |-> s[i]]
      /\ t = [i \in 1 .. Len(t) |-> t[i]]
  <2>1. s \in [1 .. Len(s) -> S] /\ t \in [1 .. Len(t) -> T] /\ Len(s) \in Nat
    BY <1>1, <1>2, LenProperties
  <2> QED  BY <2>1
<1> QED  BY <1>3

(* Every function on 1 .. n is a sequence.                                 *)
LEMMA FunctionSeq ==
    ASSUME NEW n \in Nat, NEW f, f = [i \in 1 .. n |-> f[i]]
    PROVE  IsSeq(f) /\ Len(f) = n
<1> DEFINE S == {f[i] : i \in 1 .. n}
<1>1. f \in [1 .. n -> S]
  <2>1. \A i \in 1 .. n : f[i] \in S
    OBVIOUS
  <2> HIDE DEF S
  <2> QED  BY <2>1
<1> HIDE DEF S
<1>2. f \in Seq(S)
  BY <1>1, SeqDef
<1>3. Len(f) = n
  BY <1>1, <1>2, LenProperties
<1> QED  BY <1>2, <1>3 DEF IsSeq

(* A part of a sequence, and one element more of it.                       *)
LEMMA PartIs ==
    ASSUME NEW s, IsSeq(s), NEW m \in 1 .. Len(s) + 1, NEW n \in 0 .. Len(s), m <= n + 1
    PROVE  /\ IsSeq(SubSeq(s, m, n)) /\ Len(SubSeq(s, m, n)) = n - m + 1
           /\ \A i \in 1 .. n - m + 1 : SubSeq(s, m, n)[i] = s[m + i - 1]
<1>1. PICK S : s \in Seq(S)
  BY DEF IsSeq
<1>2. Len(s) \in Nat
  BY <1>1, LenProperties
<1> DEFINE t == [i \in 1 .. n - m + 1 |-> s[m + i - 1]]
<1>3. n - m + 1 \in Nat
  BY <1>2
<1>4. SubSeq(s, m, n) = t
  BY <1>3
<1>5. IsSeq(t) /\ Len(t) = n - m + 1
  BY <1>3, FunctionSeq
<1>6. \A i \in 1 .. n - m + 1 : t[i] = s[m + i - 1]
  OBVIOUS
<1> QED  BY <1>4, <1>5, <1>6

LEMMA PartMore ==
    ASSUME NEW s, IsSeq(s), NEW n \in 1 .. Len(s), NEW m \in 1 .. n
    PROVE  Append(SubSeq(s, m, n - 1), s[n]) = SubSeq(s, m, n)
<1>1. PICK S : s \in Seq(S)
  BY DEF IsSeq
<1>2. Len(s) \in Nat /\ \A i \in 1 .. Len(s) : s[i] \in S
  BY <1>1, LenProperties, ElementOfSeq
<1> DEFINE a == SubSeq(s, m, n - 1)
<1>3. IsSeq(a) /\ Len(a) = n - m /\ \A i \in 1 .. n - m : a[i] = s[m + i - 1]
  <2>1. m \in 1 .. Len(s) + 1 /\ n - 1 \in 0 .. Len(s) /\ m <= (n - 1) + 1 /\ (n - 1) - m + 1 = n - m
    BY <1>2
  <2> QED  BY <2>1, PartIs
<1>4. IsSeq(SubSeq(s, m, n)) /\ Len(SubSeq(s, m, n)) = n - m + 1
      /\ \A i \in 1 .. n - m + 1 : SubSeq(s, m, n)[i] = s[m + i - 1]
  <2>1. m \in 1 .. Len(s) + 1 /\ n \in 0 .. Len(s) /\ m <= n + 1
    BY <1>2
  <2> QED  BY <2>1, PartIs
<1> HIDE DEF a
<1>5. PICK T : a \in Seq(T)
  BY <1>3 DEF IsSeq
<1> DEFINE U == T \cup {s[n]}
<1>6. a \in Seq(U)
  <2>1. Len(a) \in Nat /\ a \in [1 .. Len(a) -> T]
    BY <1>5, LenProperties
  <2>2. a \in [1 .. Len(a) -> U]
    BY <2>1
  <2> HIDE DEF U
  <2> QED  BY <2>1, <2>2, SeqDef
<1>7. s[n] \in U
  OBVIOUS
<1> HIDE DEF U
<1> DEFINE b == Append(a, s[n])
<1>8. b \in Seq(U) /\ Len(b) = Len(a) + 1 /\ b[Len(a) + 1] = s[n] /\ \A i \in 1 .. Len(a) : b[i] = a[i]
  BY <1>6, <1>7, AppendProperties
<1> HIDE DEF b
<1>9. Len(b) = n - m + 1 /\ IsSeq(b)
  BY <1>2, <1>3, <1>8 DEF IsSeq
<1>10. ASSUME NEW i \in 1 .. n - m + 1 PROVE b[i] = s[m + i - 1]
  <2>1. CASE i <= n - m
    BY <1>2, <1>3, <1>8, <2>1
  <2>2. CASE i = n - m + 1
    <3>1. i = Len(a) + 1 /\ m + i - 1 = n
      BY <1>2, <1>3, <2>2
    <3> QED  BY <1>8, <3>1
  <2> QED  BY <1>2, <2>1, <2>2
<1> QED
  <2>1. b = SubSeq(s, m, n)
    BY <1>4, <1>9, <1>10, SameSeq
  <2> QED  BY <2>1 DEF a, b

(* Two parts that meet. *)
LEMMA PartsJoin ==
    ASSUME NEW s, IsSeq(s), NEW m \in 0 .. Len(s), NEW n \in m .. Len(s)
    PROVE  SubSeq(s, 1, m) \o SubSeq(s, m + 1, n) = SubSeq(s, 1, n)
<1>1. Len(s) \in Nat
  BY SeqIs
<1> DEFINE a == SubSeq(s, 1, m)
           b == SubSeq(s, m + 1, n)
           c == SubSeq(s, 1, n)
<1>2. IsSeq(a) /\ Len(a) = m /\ \A i \in 1 .. m : a[i] = s[i]
  <2>1. 1 \in 1 .. Len(s) + 1 /\ 1 <= m + 1 /\ m - 1 + 1 = m
    BY <1>1
  <2>2. IsSeq(a) /\ Len(a) = m - 1 + 1 /\ \A i \in 1 .. m - 1 + 1 : a[i] = s[1 + i - 1]
    BY <2>1, PartIs
  <2> QED  BY <2>1, <2>2
<1>3. IsSeq(b) /\ Len(b) = n - m /\ \A i \in 1 .. n - m : b[i] = s[m + i]
  <2>1. m + 1 \in 1 .. Len(s) + 1 /\ n \in 0 .. Len(s) /\ m + 1 <= n + 1 /\ n - (m + 1) + 1 = n - m
    BY <1>1
  <2>2. IsSeq(b) /\ Len(b) = n - (m + 1) + 1 /\ \A i \in 1 .. n - (m + 1) + 1 : b[i] = s[(m + 1) + i - 1]
    BY <2>1, PartIs
  <2> QED  BY <2>1, <2>2
<1>4. IsSeq(c) /\ Len(c) = n /\ \A i \in 1 .. n : c[i] = s[i]
  <2>1. 1 \in 1 .. Len(s) + 1 /\ 1 <= n + 1 /\ n - 1 + 1 = n /\ n \in 0 .. Len(s)
    BY <1>1
  <2>2. IsSeq(c) /\ Len(c) = n - 1 + 1 /\ \A i \in 1 .. n - 1 + 1 : c[i] = s[1 + i - 1]
    BY <2>1, PartIs
  <2> QED  BY <2>1, <2>2
<1> HIDE DEF a, b, c
<1>5. IsSeq(a \o b) /\ Len(a \o b) = n /\ \A i \in 1 .. m : (a \o b)[i] = a[i]
  <2>1. IsSeq(a \o b) /\ Len(a \o b) = Len(a) + Len(b) /\ \A i \in 1 .. Len(a) : (a \o b)[i] = a[i]
    <3>1. IsSeq(a) /\ IsSeq(b)
      BY <1>2, <1>3
    <3> QED  BY <3>1, ConcatIs, Zenon
  <2>2. m + (n - m) = n
    BY <1>1
  <2> QED  BY <1>2, <1>3, <2>1, <2>2
<1>6. ASSUME NEW i \in 1 .. n PROVE (a \o b)[i] = c[i]
  <2>1. CASE i <= m
    <3>1. i \in 1 .. m
      BY <1>1, <2>1
    <3> QED  BY <1>2, <1>4, <1>5, <3>1
  <2>2. CASE i > m
    <3>1. PICK l \in 1 .. n - m : i = m + l /\ i = Len(a) + l
      <4>1. i - m \in 1 .. n - m /\ i = m + (i - m) /\ i = Len(a) + (i - m)
        BY <1>1, <1>2, <2>2
      <4> QED  BY <4>1
    <3>2. \A j \in 1 .. Len(b) : (a \o b)[Len(a) + j] = b[j]
      BY <1>2, <1>3, ConcatIs
    <3>3. (a \o b)[Len(a) + l] = b[l]
      BY <1>3, <3>1, <3>2
    <3>4. b[l] = s[m + l]
      BY <1>3, <3>1
    <3>5. (a \o b)[i] = b[l]
      BY <3>1, <3>3
    <3>6. c[i] = s[m + l]
      BY <1>4, <3>1
    <3> QED  BY <3>4, <3>5, <3>6
  <2>3. i <= m \/ i > m
    BY <1>1
  <2> QED  BY <2>1, <2>2, <2>3
<1>7. a \o b = c
  BY <1>4, <1>5, <1>6, SameSeq
<1> QED  BY <1>7 DEF a, b, c
=============================================================================
