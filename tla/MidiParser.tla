----------------------------- MODULE MidiParser -----------------------------
(***************************************************************************)
(* midi_device.c, the input side: midi_process_byte takes one byte at a    *)
(* time and assembles messages in a buffer of three bytes;                 *)
(* midi_input_callbacks hands each message to the callbacks the program    *)
(* registered (midi.c).  One action of ProcessByte is one branch of        *)
(* midi_process_byte up to its call of midi_input_callbacks; each callback *)
(* is a step of its own, because a callback is the program's code and may  *)
(* register and unregister callbacks; Return is what the branch does after *)
(* midi_input_callbacks.                                                   *)
(***************************************************************************)
EXTENDS MidiBytes, Sequences

CONSTANTS
    Bytes,       \* the bytes that may arrive
    Callback,    \* the callbacks the program may register
    CountRange   \* input_count is counted modulo this; 65536 in the code

Specific == {"cc", "noteon", "noteoff", "aftertouch", "pitchbend",
             "songposition", "progchange", "chanpressure", "songselect",
             "tc_quarterframe", "realtime", "tunerequest", "sysex"}

ASSUME BytesAssumption      == Bytes \subseteq Uint8
ASSUME CallbackAssumption   == Callback \subseteq Specific \cup {"fallthrough", "catchall"}
ASSUME CountRangeAssumption == CountRange \in Nat /\ CountRange % 3 = 1 /\ CountRange > 3

VARIABLES
    input_state, input_count, input_buffer,  \* of MidiDevice
    registered,  \* the callbacks that are not NULL
    pc,          \* where in midi_input_callbacks; "idle" outside
    branch,      \* the branch of midi_process_byte that is to be continued
    state,       \* its local copy of input_state, for a realtime byte
    msg,         \* the arguments of midi_input_callbacks
    called,      \* its local "did we end up calling a callback?"
    calls        \* the callbacks called for this message, with their arguments

parse == <<input_state, input_count, input_buffer>>
vars  == <<parse, registered, pc, branch, state, msg, called, calls>>

InputState == {"IDLE", "ONE", "TWO", "THREE", "SYSEX"}

NoMsg == [cnt |-> 0, bytes |-> <<0, 0, 0>>]

(* The fault of a count that stays at its limit. *)
Plus1Saturating(n) == IF n + 1 = CountRange THEN n ELSE n + 1

Plus1(n) == (n + 1) % CountRange

-----------------------------------------------------------------------------
(* Faults the properties must notice: each is a definition below with one  *)
(* plausible mistake.                                                      *)

(* The status byte stored inside a system exclusive message as well, where *)
(* the count is not reset.                                                 *)
StoredBufferAlways(input) == [input_buffer EXCEPT ![0] = input]

(* The count not reset by a status byte. *)
StoredCountKept == input_count

(* An undefined status byte that leaves the message before it in force. *)
StatusUndefinedKeepsState(input) ==
    /\ midi_is_statusbyte(input) /\ midi_packet_length(input) = UNDEFINED
    /\ input \notin {SYSEX_BEGIN, SYSEX_END}
    /\ UNCHANGED <<parse, registered, pc, branch, state, msg, called, calls>>

(* The start of a chunk one byte late. *)
SysexStartLate == (msg.cnt \div 3) * 3

(* The state not restored after a realtime byte. *)
ReturnToNoMessage ==
    /\ pc = "return"
    /\ input_state' = IF branch \in {"one", "sysexend"} THEN "IDLE" ELSE input_state
    /\ input_count' = IF branch = "data" /\ input_state # "SYSEX" THEN 1 ELSE input_count
    /\ pc' = "idle" /\ branch' = "none" /\ state' = "IDLE" /\ msg' = NoMsg
    /\ called' = FALSE /\ calls' = <<>>
    /\ UNCHANGED <<input_buffer, registered>>

(* The count not set back to 1 after a message: no running status. *)
ReturnWithoutRunningStatus ==
    /\ pc = "return"
    /\ input_state' = CASE branch = "realtime"            -> state
                        [] branch \in {"one", "sysexend"} -> "IDLE"
                        [] branch = "data"                -> input_state
    /\ pc' = "idle" /\ branch' = "none" /\ state' = "IDLE" /\ msg' = NoMsg
    /\ called' = FALSE /\ calls' = <<>>
    /\ UNCHANGED <<input_count, input_buffer, registered>>

-----------------------------------------------------------------------------
(* midi_process_byte *)

(* The call of midi_input_callbacks. *)
Callbacks(from, cnt, bytes) ==
    /\ branch' = from
    /\ msg' = [cnt |-> cnt, bytes |-> bytes]
    /\ called' = FALSE
    /\ pc' = "specific"
    /\ UNCHANGED <<registered, calls>>

NoCallbacks == UNCHANGED <<registered, pc, branch, state, msg, called, calls>>

RealtimeByte(input) ==
    /\ midi_is_realtime(input)
    /\ state' = input_state
    /\ input_state' = "ONE"
    /\ UNCHANGED <<input_count, input_buffer>>
    /\ Callbacks("realtime", 1, <<input, 0, 0>>)

Status(input) == midi_is_statusbyte(input) /\ ~midi_is_realtime(input)

(* The buffer and the count after "store the byte", which a status byte    *)
(* inside a system exclusive message does not do.                          *)
StoredBuffer(input) ==
    IF input_state = "SYSEX" THEN input_buffer ELSE [input_buffer EXCEPT ![0] = input]
StoredCount == IF input_state = "SYSEX" THEN input_count ELSE 1

StatusOne(input) ==
    /\ Status(input) /\ midi_packet_length(input) = ONE
    /\ input_state' = "ONE"
    /\ input_buffer' = StoredBuffer(input) /\ input_count' = StoredCount
    /\ UNCHANGED state
    /\ Callbacks("one", 1, <<input, 0, 0>>)

StatusOfMessage(input) ==
    /\ Status(input) /\ midi_packet_length(input) \in {TWO, THREE}
    /\ input_state' = IF midi_packet_length(input) = TWO THEN "TWO" ELSE "THREE"
    /\ input_buffer' = StoredBuffer(input) /\ input_count' = StoredCount
    /\ NoCallbacks

SysexBegin(input) ==
    /\ input = SYSEX_BEGIN
    /\ input_state' = "SYSEX"
    /\ input_buffer' = [input_buffer EXCEPT ![0] = input]
    /\ input_count' = 1
    /\ NoCallbacks

SysexEnd(input) ==
    /\ input = SYSEX_END
    /\ input_buffer' = [StoredBuffer(input) EXCEPT ![StoredCount % 3] = input]
    /\ input_count' = Plus1(StoredCount)
    /\ UNCHANGED <<input_state, state>>
    /\ Callbacks("sysexend", input_count',
                 <<input_buffer'[0], input_buffer'[1], input_buffer'[2]>>)

StatusUndefined(input) ==
    /\ Status(input) /\ midi_packet_length(input) = UNDEFINED
    /\ input \notin {SYSEX_BEGIN, SYSEX_END}
    /\ input_state' = "IDLE"
    /\ input_buffer' = StoredBuffer(input)
    /\ input_count' = 0
    /\ NoCallbacks

DataIgnored(input) ==
    /\ ~midi_is_statusbyte(input) /\ input_state = "IDLE"
    /\ UNCHANGED parse /\ NoCallbacks

(* The third byte of the buffer, or the second of a two byte message,      *)
(* completes a message.                                                    *)
DataByte(input) ==
    LET prev == input_count IN
    /\ ~midi_is_statusbyte(input) /\ input_state # "IDLE"
    /\ input_buffer' = [input_buffer EXCEPT ![prev % 3] = input]
    /\ input_count' = Plus1(prev)
    /\ UNCHANGED <<input_state, state>>
    /\ \/ /\ prev % 3 = 2
          /\ Callbacks("data", input_count',
                       <<input_buffer'[0], input_buffer'[1], input_buffer'[2]>>)
       \/ /\ prev % 3 = 1 /\ input_state = "TWO"
          /\ Callbacks("data", input_count', <<input_buffer'[0], input_buffer'[1], 0>>)
       \/ /\ prev % 3 # 2 /\ ~(prev % 3 = 1 /\ input_state = "TWO")
          /\ NoCallbacks

ProcessByte(input) ==
    /\ pc = "idle"
    /\ \/ RealtimeByte(input) \/ StatusOne(input) \/ StatusOfMessage(input)
       \/ SysexBegin(input) \/ SysexEnd(input) \/ StatusUndefined(input)
       \/ DataIgnored(input) \/ DataByte(input)

-----------------------------------------------------------------------------
(* midi_input_callbacks *)

(* The two switches: a count, the kind of status byte, the callback.       *)
Dispatch ==
    {<<3, MIDI_CC, "cc">>, <<3, MIDI_NOTEON, "noteon">>,
     <<3, MIDI_NOTEOFF, "noteoff">>, <<3, MIDI_AFTERTOUCH, "aftertouch">>,
     <<3, MIDI_PITCHBEND, "pitchbend">>, <<3, MIDI_SONGPOSITION, "songposition">>,
     <<2, MIDI_PROGCHANGE, "progchange">>, <<2, MIDI_CHANPRESSURE, "chanpressure">>,
     <<2, MIDI_SONGSELECT, "songselect">>,
     <<2, MIDI_TC_QUARTERFRAME, "tc_quarterframe">>,
     <<1, MIDI_TUNEREQUEST, "tunerequest">>}

Kind(b) == IF HighNibble(b) = 240 THEN b ELSE HighNibble(b)

(* The callback, if any, that the message matches. *)
Matching ==
    IF input_state = "SYSEX" THEN {"sysex"}
    ELSE {d[3] : d \in {e \in Dispatch : e[1] = msg.cnt /\ e[2] = Kind(msg.bytes[1])}}
           \cup {f \in {"realtime"} : msg.cnt = 1 /\ midi_is_realtime(msg.bytes[1])}

(* sysex: how far into the message, and how many of the bytes are meant.   *)
SysexStart == (((msg.cnt - 1) % CountRange) \div 3) * 3
SysexLength == ((msg.cnt - SysexStart) % CountRange) % 256

(* The first byte without its channel, if it has one. *)
Unchanneled(b) == IF HighNibble(b) = 240 THEN b ELSE LowNibble(b)

(* The arguments of the specific callback.  The one of sysex gets an array *)
(* and its length.                                                         *)
SpecificArgs ==
    IF input_state = "SYSEX"
    THEN <<SysexStart, SubSeq(msg.bytes, 1, SysexLength)>>
    ELSE [i \in 1 .. msg.cnt |-> IF i = 1 THEN Unchanneled(msg.bytes[1]) ELSE msg.bytes[i]]

(* "just in case" *)
GenericCount == IF input_state # "SYSEX" /\ msg.cnt > 3 THEN 0 ELSE msg.cnt

(* A callback runs; it may register and unregister callbacks.              *)
Runs(f, args) ==
    /\ calls' = Append(calls, <<f, args>>)
    /\ \/ UNCHANGED registered
       \/ \E g \in Callback : registered' \in {registered \cup {g}, registered \ {g}}

(* The fault of not noting that a specific callback was called. *)
CallSpecificUnnoted ==
    /\ pc = "specific"
    /\ \/ \E f \in Matching \cap registered : Runs(f, SpecificArgs)
       \/ Matching \cap registered = {} /\ UNCHANGED <<registered, calls>>
    /\ pc' = "fallthrough"
    /\ UNCHANGED <<parse, branch, state, msg, called>>

CallSpecific ==
    /\ pc = "specific"
    /\ \/ \E f \in Matching \cap registered : Runs(f, SpecificArgs) /\ called' = TRUE
       \/ Matching \cap registered = {} /\ UNCHANGED <<registered, called, calls>>
    /\ pc' = "fallthrough"
    /\ UNCHANGED <<parse, branch, state, msg>>

CallFallthrough ==
    /\ pc = "fallthrough"
    /\ \/ ~called /\ "fallthrough" \in registered
            /\ Runs("fallthrough", <<GenericCount, msg.bytes>>)
       \/ ~(~called /\ "fallthrough" \in registered) /\ UNCHANGED <<registered, calls>>
    /\ pc' = "catchall"
    /\ UNCHANGED <<parse, branch, state, msg, called>>

CallCatchall ==
    /\ pc = "catchall"
    /\ \/ "catchall" \in registered /\ Runs("catchall", <<GenericCount, msg.bytes>>)
       \/ "catchall" \notin registered /\ UNCHANGED <<registered, calls>>
    /\ pc' = "return"
    /\ UNCHANGED <<parse, branch, state, msg, called>>

Return ==
    /\ pc = "return"
    /\ input_state' = CASE branch = "realtime"            -> state
                        [] branch \in {"one", "sysexend"} -> "IDLE"
                        [] branch = "data"                -> input_state
    /\ input_count' = IF branch = "data" /\ input_state # "SYSEX" THEN 1 ELSE input_count
    /\ pc' = "idle" /\ branch' = "none" /\ state' = "IDLE" /\ msg' = NoMsg
    /\ called' = FALSE /\ calls' = <<>>
    /\ UNCHANGED <<input_buffer, registered>>

-----------------------------------------------------------------------------
(* The program registers and unregisters callbacks outside of them, too.   *)
Register(f, on) ==
    /\ pc = "idle"
    /\ registered' = IF on THEN registered \cup {f} ELSE registered \ {f}
    /\ UNCHANGED <<parse, pc, branch, state, msg, called, calls>>

(* midi_device_init does not set input_buffer. *)
Init ==
    /\ input_state = "IDLE" /\ input_count = 0
    /\ input_buffer \in [0 .. 2 -> Bytes]
    /\ registered = {}
    /\ pc = "idle" /\ branch = "none" /\ state = "IDLE" /\ msg = NoMsg
    /\ called = FALSE /\ calls = <<>>

Callout == CallSpecific \/ CallFallthrough \/ CallCatchall \/ Return

Program == \E f \in Callback, on \in BOOLEAN : Register(f, on)

Next == (\E b \in Bytes : ProcessByte(b)) \/ Callout \/ Program

Spec == Init /\ [][Next]_vars

(* A sender that finishes its system exclusive messages, or gives them up  *)
(* by a byte other than the status of a longer message, and keeps them     *)
(* shorter than CountRange.                                                *)
Orderly(b) ==
    /\ input_state = "SYSEX" => midi_packet_length(b) \notin {TWO, THREE}
    /\ input_state = "SYSEX" /\ ~midi_is_realtime(b) => input_count + 1 < CountRange
    /\ b = SYSEX_END => input_state = "SYSEX"

OrderlyNext == (\E b \in Bytes : Orderly(b) /\ ProcessByte(b)) \/ Callout \/ Program

OrderlySpec == Init /\ [][OrderlyNext]_vars

-----------------------------------------------------------------------------
(* What the parser has heard, as MidiStream tells it.                      *)

(* State and count once the call in progress has returned. *)
StateAfter ==
    CASE branch = "realtime"            -> state
      [] branch \in {"one", "sysexend"} -> "IDLE"
      [] branch \in {"data", "none"}    -> input_state
CountAfter == IF branch = "data" /\ input_state # "SYSEX" THEN 1 ELSE input_count

Buffered(from, to) == [i \in 1 .. to - from |-> input_buffer[from + i - 1]]

StatusInForce ==
    CASE StateAfter = "IDLE"           -> 256
      [] StateAfter = "SYSEX"          -> SYSEX_BEGIN
      [] StateAfter \in {"TWO", "THREE"} -> input_buffer[0]

DataHeard ==
    CASE StateAfter = "IDLE"           -> <<>>
      [] StateAfter = "SYSEX"          -> Buffered(0, CountAfter % 3)
      [] StateAfter \in {"TWO", "THREE"} -> Buffered(1, CountAfter)

OffsetHeard == IF StateAfter = "SYSEX" THEN (CountAfter \div 3) * 3 ELSE 0

(* The message being handed to the callbacks, as their arguments tell it. *)
Delivered ==
    IF pc = "idle" THEN <<>>
    ELSE IF input_state = "SYSEX" THEN <<SysexStart, SubSeq(msg.bytes, 1, SysexLength)>>
    ELSE <<0, SubSeq(msg.bytes, 1, msg.cnt)>>

Stream == INSTANCE MidiStream WITH
              status <- StatusInForce, data <- DataHeard,
              offset <- OffsetHeard, delivered <- Delivered

-----------------------------------------------------------------------------
(* Properties *)

(* Every variable keeps its type.  In particular the buffer is only        *)
(* written inside its three bytes, and a one byte message is never left    *)
(* as the state between two bytes (midi_process_byte).                     *)
TypeOK ==
    /\ input_state \in InputState
    /\ input_count \in 0 .. CountRange - 1
    /\ input_buffer \in [0 .. 2 -> Uint8]
    /\ registered \subseteq Callback
    /\ pc \in {"idle", "specific", "fallthrough", "catchall", "return"}
    /\ branch \in {"none", "realtime", "one", "sysexend", "data"}
    /\ pc = "idle" <=> branch = "none"
    /\ state \in InputState \ {"ONE"}
    /\ pc = "idle" => input_state # "ONE"
    /\ msg \in [cnt : 0 .. CountRange - 1, bytes : [1 .. 3 -> Uint8]]
    /\ called \in BOOLEAN

(* "keeping status byte, allowing for running status" (midi_device.c):     *)
(* while a two or three byte message is expected, the buffer starts with a *)
(* status byte of such a message, and the count says how much of it is     *)
(* there.                                                                  *)
StatusKept ==
    pc = "idle" /\ input_state \in {"TWO", "THREE"} =>
        /\ midi_is_statusbyte(input_buffer[0])
        /\ midi_packet_length(input_buffer[0]) = (IF input_state = "TWO" THEN TWO ELSE THREE)
        /\ input_count \in 1 .. (IF input_state = "TWO" THEN 1 ELSE 2)

(* The bytes of an orderly sender come out as the messages they are: each  *)
(* once, when its last byte is in, with its bytes in order, across running *)
(* status, interspersed realtime bytes, abandoned messages and the chunks  *)
(* of a system exclusive message (midi_process_byte).                      *)
ImplementsStream == Stream!Spec

(* The callbacks of one message, while it is handled: a specific one or    *)
(* the fallthrough one, never both, and the catch-all last                 *)
(* (midi_input_callbacks), whatever the callbacks register.                *)
CalledInOrder ==
    LET names == [i \in 1 .. Len(calls) |-> calls[i][1]] IN
    names \in {<<>>, <<"fallthrough">>, <<"catchall">>, <<"fallthrough", "catchall">>}
             \cup {<<f>> : f \in Specific} \cup {<<f, "catchall">> : f \in Specific}
=============================================================================
