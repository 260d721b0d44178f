---------------------------- MODULE BasicExample ----------------------------
(***************************************************************************)
(* implementations/basic.c: a loop that reads eight buttons, debounces     *)
(* them and sends MIDI messages by the driver in serial/old.  A round of   *)
(* the loop is one step up to its messages, since it reads PINC once and   *)
(* nothing else touches its variables; the messages are sent after that,   *)
(* step by step, and the next round begins when the driver has taken them. *)
(* A byte of one bit for each button is the set of the buttons that are up. *)
(***************************************************************************)
EXTENDS OldSerialMidi, MidiSend

CONSTANTS
    Button,        \* the buttons that are connected
    INPUT_HISTORY, \* as in the code
    ProgramRange   \* 128: the range of program numbers

ASSUME ButtonAssumption  == Button \subseteq 0 .. 7
ASSUME HistoryAssumption == INPUT_HISTORY \in Nat \ {0}
ASSUME RangeAssumption   == ProgramRange \in Nat \ {0}

VARIABLES
    inputs,        \* the last readings
    historyIndex,  \* where the next one goes
    lastInput,     \* the buttons taken to be up
    program,       \* uint8_t: twice the range of program numbers
    sent,          \* the messages of the last round
    toSend         \* those of them that still have to be handed to the driver

loopVars  == <<inputs, historyIndex, lastInput, program, sent>>
basicVars == <<loopVars, toSend, driver>>

History == 0 .. INPUT_HISTORY - 1

-----------------------------------------------------------------------------
(* Faults the properties must notice: the first reading of the history     *)
(* left out of the comparison, and a program number that stays at 0.       *)
ConsistentAfterFirst(b) == \A j \in History \ {0} : (b \in inputs'[j]) = (b \in inputs'[1])
ProgramDownTo0(p) == IF p = 0 THEN 0 ELSE p - 1

-----------------------------------------------------------------------------
(* (program + 1) % 128 and (program - 1) % 128 in int, stored in uint8_t:  *)
(* the remainder of -1 is -1.                                              *)
ProgramUp(p)   == (p + 1) % ProgramRange
ProgramDown(p) == IF p = 0 THEN 2 * ProgramRange - 1 ELSE (p - 1) % ProgramRange

Consistent(b) == \A j \in History : (b \in inputs'[j]) = (b \in inputs'[0])

Released == {b \in Button : Consistent(b) /\ b \in inputs'[0] /\ b \notin lastInput}
Pressed  == {b \in Button : Consistent(b) /\ b \notin inputs'[0] /\ b \in lastInput}

(* The message of a button that was released or pressed, by the name of    *)
(* the send function.                                                      *)
MessageOf(b, p, released) ==
    CASE b < 2                      -> <<"programchange", b, p % ProgramRange>>
      [] b = 2 /\ b \in released    -> <<"noteoff", b, 64>>
      [] b = 2 /\ b \notin released -> <<"noteon", b, 64>>
      [] b > 2                      -> <<"cc", b, IF b \in released THEN 0 ELSE 1>>

(* The same message as a call of serial_midi_send, on MIDI_CHAN 0.  The    *)
(* name of a controller is the button less 3.                              *)
CallOf(m) ==
    CASE m[1] = "programchange" -> midi_send_programchange(0, m[3])
      [] m[1] = "noteoff"       -> midi_send_noteoff(0, m[3], 30)
      [] m[1] = "noteon"        -> midi_send_noteon(0, m[3], 127)
      [] m[1] = "cc"            -> midi_send_cc(0, m[2] - 3, m[3])

(* The program number after the first button and after the second.         *)
First  == IF 0 \in Pressed THEN ProgramUp(program) ELSE program
Second == IF 1 \in Pressed THEN ProgramDown(First) ELSE First

Told(b) ==
    IF b \in Pressed \/ (b \in Released /\ b > 1)
    THEN <<MessageOf(b, IF b = 0 THEN First ELSE Second, Released)>>
    ELSE <<>>

Round(PINC) ==
    /\ at = "outside" /\ toSend = <<>>
    /\ inputs' = [inputs EXCEPT ![historyIndex] = PINC]
    /\ historyIndex' = (historyIndex + 1) % INPUT_HISTORY
    /\ lastInput' = (lastInput \cup Released) \ Pressed
    /\ program' = Second
    /\ sent' = Told(0) \o Told(1) \o Told(2) \o Told(3) \o Told(4) \o Told(5) \o Told(6) \o Told(7)
    /\ toSend' = sent'
    /\ UNCHANGED driver

Sends == toSend # <<>> /\ CallSend(CallOf(Head(toSend))) /\ toSend' = Tail(toSend) /\ UNCHANGED loopVars

DriverStep == (SendStep \/ Load \/ ShiftOut) /\ UNCHANGED <<loopVars, toSend>>

Init ==
    /\ inputs = [j \in History |-> {}]
    /\ historyIndex = 0 /\ lastInput = {} /\ program = 0 /\ sent = <<>> /\ toSend = <<>>
    /\ DriverInit

Rounds == \E PINC \in SUBSET Button : Round(PINC)

Next == Rounds \/ Sends \/ DriverStep

(* The core executes the program, and the USART is clocked. *)
Spec ==
    /\ Init /\ [][Next]_basicVars
    /\ WF_basicVars(Rounds \/ Sends \/ (SendStep /\ UNCHANGED <<loopVars, toSend>>))
    /\ WF_basicVars(Load /\ UNCHANGED <<loopVars, toSend>>)
    /\ WF_basicVars(ShiftOut /\ UNCHANGED <<loopVars, toSend>>)

-----------------------------------------------------------------------------
(* Properties *)

(* The reading n rounds ago. *)
Ago(n) == inputs[(historyIndex + INPUT_HISTORY - 1 - n) % INPUT_HISTORY]

(* The last n readings of a button agree, and no more are known to.        *)
IsRow(b, n) ==
    /\ n = INPUT_HISTORY \/ (b \in Ago(n)) # (b \in Ago(0))
    /\ \A j \in 1 .. n - 1 : (b \in Ago(j)) = (b \in Ago(0))

Row(b) == CHOOSE n \in 1 .. INPUT_HISTORY : IsRow(b, n)

(* What a message tells: the button, and whether it went up. *)
Tells(m) == <<m[2], m[1] = "noteoff" \/ (m[1] = "cc" /\ m[3] = 0)>>

Debounce == INSTANCE Debouncer WITH
               Silent <- {0, 1}, Steady <- INPUT_HISTORY,
               up <- Ago(0), row <- [b \in Button |-> Row(b)], level <- lastInput,
               changes <- {Tells(sent[k]) : k \in DOMAIN sent}

(* A message is sent when a button has been read the same INPUT_HISTORY    *)
(* times in a row and differs from what was last taken, and only then,     *)
(* wherever in the history the next reading goes (main of basic.c).        *)
ImplementsDebouncer == Debounce!Spec

(* The receiver's program goes up by one with the first button and down by *)
(* one with the second, around from 127 to 0 and back, also when both are  *)
(* pressed in one round and although program itself becomes 255 (main of   *)
(* basic.c, midi_send_programchange).                                      *)
Follows(n, m) == m[3] = (IF m[2] = 0 THEN n + 1 ELSE n + ProgramRange - 1) % ProgramRange

ProgramFollows ==
    [][historyIndex' # historyIndex => \A k \in DOMAIN sent' : sent'[k][1] = "programchange" =>
          Follows(IF k = 1 THEN program % ProgramRange ELSE sent'[k - 1][3], sent'[k])]_basicVars

(* The bytes of a message leave by the wire one after the other, and none  *)
(* is overwritten in the data register while the one before is still being *)
(* shifted out (serial_midi_send of serial/old).                           *)
LeavesInOrder ==
    [][\/ Pending' = Pending
       \/ Pending # <<>> /\ Pending' = Tail(Pending)
       \/ toSend # <<>> /\ Pending' = Pending \o Written(CallOf(Head(toSend)))]_basicVars

(* The loop goes on: no wait for the data register lasts for ever          *)
(* (serial_midi_send of serial/old, main of basic.c).                      *)
LoopGoesOn == []<><<historyIndex' # historyIndex>>_historyIndex
=============================================================================
