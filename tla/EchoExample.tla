---------------------------- MODULE EchoExample ----------------------------
(***************************************************************************)
(* implementations/lufa_midi: main.c, a program that answers the messages  *)
(* of a USB host, on top of midi_usb.c and the whole input side of the     *)
(* library.  The host may be unplugged and plugged in at any time, and the *)
(* hardware takes packets from it into an endpoint while the program does  *)
(* something else.  Requests of the host, its configuring the device among *)
(* them, are handled inside USB_USBTask only, which the program calls at   *)
(* the end of usb_get_midi and of usb_send_func.                           *)
(***************************************************************************)
EXTENDS MidiDevice, MidiSend, UsbMidi, UsbDescriptors

CONSTANTS
    HostMessage,  \* what the host sends: name and arguments
    EndpointRoom  \* packets the OUT endpoint holds: 16 in the code

ASSUME EndpointAssumption == EndpointRoom \in Nat \ {0}

(* The callbacks of main.c register none. *)
ASSUME CallbacksAssumption == Callback = {}

(* Arguments in their ranges, and system exclusive messages that fit the   *)
(* count.                                                                  *)
ASSUME HostAssumption ==
    \A m \in HostMessage :
        \/ m \in {"cc", "noteon"} \X ((0 .. 15) \X (0 .. 127) \X (0 .. 127))
        \/ /\ m = <<"array", m[2]>> /\ m[2] \in Seq(Uint8) /\ Len(m[2]) \in 2 .. CountRange - 1
           /\ m[2][1] = SYSEX_BEGIN /\ m[2][Len(m[2])] = SYSEX_END
           /\ \A k \in 2 .. Len(m[2]) - 1 : m[2][k] < 128

VARIABLES
    connection,  \* "detached", "attached" or "configured": USB_DeviceState
    sending,     \* the packets of a message that the host has still to send
    inbox,       \* those in the OUT endpoint
    replying,    \* the calls of send_func a callback has still to make
    due,         \* the answers the host may expect
    open,        \* the last packet taken was not the last one of a message
    torn         \* what was taken since then is not a sequence of messages

usb      == <<connection, sending, inbox>>
answers  == <<replying, due>>
ghosts   == <<open, torn>>
echoVars == <<deviceVars, usb, answers, ghosts>>

-----------------------------------------------------------------------------
(* Faults the properties must notice: an answer on the same channel, a     *)
(* chunk taken for the first one, and a packet left in the endpoint.       *)
cc_callback_same(chan, num, value) == <<midi_send_cc(chan, num, value)>>
sysex_callback_first(start, data) ==
    [k \in DOMAIN data |-> midi_send_cc(15, data[k] % 128, k - 1)]

-----------------------------------------------------------------------------
(* The callbacks of main.c, as the calls of send_func they make; the       *)
(* fallthrough one does nothing.                                           *)
cc_callback(chan, num, value) == <<midi_send_cc((chan + 1) % 16, num, value)>>

sysex_callback(start, data) ==
    [k \in DOMAIN data |-> midi_send_cc(15, data[k] % 128, (start + k - 1) % 128)]

Replies(f, args) ==
    CASE f = "cc"    -> cc_callback(args[1], args[2], args[3])
      [] f = "sysex" -> sysex_callback(args[1], args[2])
      [] OTHER       -> <<>>

Greeting == <<midi_send_cc(0, 1, 2), midi_send_noteon(0, 64, 127), midi_send_noteoff(0, 64, 127)>>

(* What the host sends, packet by packet, and the answers to each packet.  *)
Item(packets, answer) ==
    [k \in DOMAIN packets |->
        [packet |-> packets[k], first |-> k = 1, last |-> k = Len(packets), answer |-> answer[k]]]

SysexPackets(bytes) ==
    LET calls3 == midi_send_array(bytes) IN [k \in DOMAIN calls3 |-> usb_send_func(calls3[k])[1]]

SysexAnswers(bytes) ==
    [k \in DOMAIN midi_send_array(bytes) |->
        [j \in 1 .. ToSend(bytes, k) |->
            midi_send_cc(15, bytes[3 * (k - 1) + j] % 128, 3 * (k - 1) + j - 1)]]

Items(m) ==
    LET a == m[2] IN
    CASE m[1] = "cc"     -> Item(usb_send_func(midi_send_cc(a[1], a[2], a[3])),
                                 << <<midi_send_cc((a[1] + 1) % 16, a[2], a[3])>> >>)
      [] m[1] = "noteon" -> Item(usb_send_func(midi_send_noteon(a[1], a[2], a[3])), << <<>> >>)
      [] m[1] = "array"  -> Item(SysexPackets(a), SysexAnswers(a))

-----------------------------------------------------------------------------
(* The host and the cable. *)
Attach ==
    /\ connection = "detached" /\ connection' = "attached"
    /\ UNCHANGED <<deviceVars, sending, inbox, answers, ghosts>>

(* What is in the endpoint is lost, and so is what the host has not sent.  *)
(* The parser is not told.                                                 *)
Unplug ==
    /\ connection # "detached" /\ connection' = "detached"
    /\ sending' = <<>> /\ inbox' = <<>>
    /\ torn' = (torn \/ open) /\ open' = FALSE
    /\ UNCHANGED <<deviceVars, answers>>

Deliver ==
    /\ connection = "configured" /\ Len(inbox) < EndpointRoom
    /\ \E left \in IF sending = <<>> THEN {Items(m) : m \in HostMessage} ELSE {sending} :
          inbox' = Append(inbox, Head(left)) /\ sending' = Tail(left)
    /\ UNCHANGED <<deviceVars, connection, answers, ghosts>>

-----------------------------------------------------------------------------
(* USB_USBTask: EVENT_USB_Device_ConfigurationChanged, when a host that    *)
(* has read the descriptors and accepts them selects the configuration.    *)
USB_USBTask ==
    \/ connection = "attached" /\ HostAccepts /\ connection' = "configured"
    \/ ~(connection = "attached" /\ HostAccepts) /\ UNCHANGED connection

(* usb_get_midi: one round of its loop.  midi_device_input refuses what    *)
(* does not fit into the queue.                                            *)
HasPacket == connection = "configured" /\ inbox # <<>>

InputTaken(bytes) ==
    LET all == queue \o bytes IN
    SubSeq(all, 1, IF Len(all) < QueueLength THEN Len(all) ELSE QueueLength - 1)

(* A packet that begins a message, with all before it processed and no     *)
(* system exclusive message open in the parser, is a new beginning.        *)
Afresh(item) ==
    /\ item.first /\ queue = <<>>
    /\ input_state # "SYSEX" \/ item.packet.bytes[1] = SYSEX_BEGIN

Takes(rest) ==
    LET item == Head(inbox)  bytes == usb_get_midi(item.packet) IN
    /\ at = "preInput" /\ HasPacket
    /\ inbox' = rest
    /\ queue' = InputTaken(bytes)
    /\ torn' = (queue' # queue \o bytes \/ (torn /\ ~Afresh(item)))
    /\ open' = ~item.last
    /\ due' = IF torn' THEN due ELSE due \o item.answer
    /\ UNCHANGED <<vars, preInput, loop, connection, sending, replying>>

TakeKept == Takes(inbox)
Take == Takes(Tail(inbox))

PollReturns ==
    /\ ~HasPacket
    /\ PreInputReturns /\ USB_USBTask
    /\ UNCHANGED <<sending, inbox, answers, ghosts>>

(* usb_send_func, for one reply.  Nobody looks at whether the packet could *)
(* be sent.                                                                *)
Reply ==
    /\ replying # <<>>
    /\ usb_send_func(Head(replying)) # <<>>
    /\ replying' = Tail(replying)
    /\ due' = IF due # <<>> /\ Head(due) = Head(replying) THEN Tail(due) ELSE due
    /\ USB_USBTask
    /\ UNCHANGED <<deviceVars, sending, inbox, ghosts>>

Calls ==
    /\ CallSpecific
    /\ replying' = IF calls' # calls THEN Replies(calls'[1][1], calls'[1][2]) ELSE <<>>
    /\ UNCHANGED <<queue, preInput, loop, due>>

(* The rest of midi_device_process, while no callback is replying. *)
Processes ==
    /\ \/ Calls
       \/ /\ \/ CallProcess \/ GetLength \/ GetByte \/ Process \/ RemoveByte \/ ProcessReturns
             \/ (CallFallthrough \/ CallCatchall \/ Return) /\ UNCHANGED <<queue, preInput, loop>>
          /\ UNCHANGED answers
    /\ replying = <<>>
    /\ UNCHANGED <<usb, ghosts>>

(* main, after midi_usb_init and its registrations; it begins by sending   *)
(* three messages.  What is in input_buffer is the same byte three times,  *)
(* for shortness.                                                          *)
EchoInit ==
    /\ input_state = "IDLE" /\ input_count = 0
    /\ input_buffer \in {[k \in 0 .. 2 |-> b] : b \in Bytes}
    /\ registered = {"fallthrough", "cc", "sysex"}
    /\ pc = "idle" /\ branch = "none" /\ state = "IDLE" /\ msg = NoMsg
    /\ called = FALSE /\ calls = <<>>
    /\ queue = <<>> /\ preInput = TRUE
    /\ at = "outside" /\ len = 0 /\ i = 0 /\ val = NoByte
    /\ connection = "detached" /\ sending = <<>> /\ inbox = <<>>
    /\ replying = Greeting /\ due = Greeting
    /\ open = FALSE /\ torn = FALSE

MainProgram == Take \/ PollReturns \/ Reply \/ Processes

EchoNext == Attach \/ Unplug \/ Deliver \/ MainProgram

(* The core executes the program; the host and its user do what they want. *)
EchoSpec == EchoInit /\ [][EchoNext]_echoVars /\ WF_echoVars(MainProgram)

-----------------------------------------------------------------------------
(* Properties *)

(* Each message the host has sent whole and that found room in the queue   *)
(* is answered, in order and with the right channel, number, place and     *)
(* byte, and nothing else is; a message cut off by a full queue or by      *)
(* unplugging costs at most the answers until the queue has been emptied   *)
(* and the next message begins outside of a system exclusive one           *)
(* (usb_get_midi, midi_device_process, main.c).                            *)
EchoedInOrder ==
    replying # <<>> /\ ~torn =>
        Len(replying) <= Len(due) /\ replying = SubSeq(due, 1, Len(replying))

(* And all of these answers are given, unless the host keeps usb_get_midi  *)
(* in its loop for ever.                                                   *)
AllEchoed ==
    []<>(due = <<>>) \/ []<><<Len(due') < Len(due)>>_due \/ <>[](at = "preInput")

(* Which it can only do by sending for ever.                               *)
PollEnds == []<>(at # "preInput") \/ []<><<Deliver>>_echoVars

(* A device that stays plugged in gets configured (Descriptors.c): the     *)
(* program comes to USB_USBTask again and again, and a host finds its way  *)
(* through the descriptors.                                                *)
Enumerated == []<>(connection # "attached")
=============================================================================
