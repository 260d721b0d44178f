----------------------------- MODULE SerialWire -----------------------------
(***************************************************************************)
(* SerialMidi with a receiver at the other end of the wire that hears the  *)
(* bytes as MidiStream does: what becomes of the messages the program and  *)
(* its interrupt routines send, with a queue that may be full.             *)
(***************************************************************************)
EXTENDS SerialMidi

VARIABLES
    status, data, offset, delivered,  \* the receiver
    whole,   \* no byte of the message being sent was refused or separated
    outbox,  \* the messages that are whole in the queue, and not heard yet
    torn     \* some other message is on its way

Receiver == INSTANCE MidiStream WITH Bytes <- Byte

receiver == <<status, data, offset, delivered>>
ghosts   == <<whole, outbox, torn>>
wireVars == <<vars, receiver, ghosts>>

BytesOf(m) == SubSeq(m.bytes, 1, m.cnt)

(* What the send functions of midi.c pass on, those for system exclusive   *)
(* messages excepted: a whole message and its length.                      *)
IsWhole(m) ==
    LET first == m.bytes[1]
    IN  \/ m.cnt = 1 /\ (Receiver!midi_is_realtime(first) \/ Receiver!midi_packet_length(first) = 1)
        \/ /\ m.cnt \in {2, 3} /\ Receiver!midi_packet_length(first) = m.cnt
           /\ \A i \in 2 .. m.cnt : ~Receiver!midi_is_statusbyte(m.bytes[i])

ASSUME WholeMessageAssumption ==
    Byte \subseteq 0 .. 255 /\ \A m \in MainMessage \cup IsrMessage : IsWhole(m)

(* No byte of any message is left anywhere. *)
Quiet == at = "outside" /\ Pending = <<>> /\ delivered = Receiver!Nothing

Halfway == at \in {"byte1", "byte2"}

MainSends(m) ==
    /\ CallSend(m)
    /\ whole' = TRUE
    /\ torn' = (torn /\ ~Quiet)
    /\ UNCHANGED <<receiver, outbox>>

Enqueues ==
    /\ EnqueueByte0 \/ EnqueueByte1 \/ EnqueueByte2
    /\ whole' = (whole /\ queue' # queue)
    /\ torn' = (torn \/ queue' = queue)
    /\ outbox' = IF at' = "enable" /\ whole' THEN Append(outbox, BytesOf(outgoing)) ELSE outbox
    /\ UNCHANGED receiver

(* A message of an interrupt routine that is no realtime message separates *)
(* the bytes of the main program's, and is whole itself if there is room.  *)
IsrSends(m) ==
    LET fits      == Len(queue') = Len(queue) + m.cnt
        separates == Halfway /\ ~Receiver!midi_is_realtime(m.bytes[1])
    IN  /\ InterruptSends(m)
        /\ whole' = (whole /\ ~separates)
        /\ torn' = (~fits \/ separates \/ (torn /\ ~Quiet))
        /\ outbox' = IF fits THEN Append(outbox, BytesOf(m)) ELSE outbox
        /\ UNCHANGED receiver

Heard == ShiftOut /\ Receiver!Receive(shift) /\ UNCHANGED ghosts

(* The receiver is done with a message. *)
Settles ==
    /\ Receiver!Settle
    /\ outbox' = IF outbox # <<>> /\ delivered[2] = Head(outbox) THEN Tail(outbox) ELSE outbox
    /\ UNCHANGED <<vars, whole, torn>>

(* What the port does by itself. *)
PortStep ==
    /\ \/ EnableTransmit /\ whole' = FALSE
       \/ TransmitInterrupt /\ UNCHANGED whole
       \/ Load /\ UNCHANGED whole
       \/ \E on \in BOOLEAN : SetInterrupts(on) /\ UNCHANGED whole
    /\ UNCHANGED <<receiver, outbox, torn>>

WireInit == Init /\ Receiver!Init /\ whole = FALSE /\ outbox = <<>> /\ torn = FALSE

WireNext ==
    \/ \E m \in MainMessage : MainSends(m)
    \/ \E m \in IsrMessage : IsrSends(m)
    \/ Enqueues \/ PortStep \/ Heard \/ Settles

WireSpec == WireInit /\ [][WireNext]_wireVars /\ Fairness /\ WF_wireVars(Settles)

(* A program that sends only what the queue has room for. *)
ToCome == CASE at = "byte0" -> outgoing.cnt
            [] at = "byte1" -> outgoing.cnt - 1
            [] at = "byte2" -> 1
            [] OTHER        -> 0

Room(m) == Len(queue) + ToCome + m.cnt < QueueLength

WithRoomNext ==
    \/ \E m \in MainMessage : Room(m) /\ MainSends(m)
    \/ \E m \in IsrMessage : Room(m) /\ IsrSends(m)
    \/ Enqueues \/ PortStep \/ Heard \/ Settles

WithRoomSpec == WireInit /\ [][WithRoomNext]_wireVars

-----------------------------------------------------------------------------
(* Properties *)

(* The receiver hears each message whose bytes all found room in the       *)
(* queue, in the order in which they were put there, whole, and nothing    *)
(* else, until a message is torn by a full queue or by an interrupt        *)
(* routine that sends, and again when the port has been quiet after that   *)
(* (serial_midi_send_usartn).                                              *)
HeardInOrder ==
    delivered # Receiver!Nothing /\ ~torn => outbox # <<>> /\ delivered[2] = Head(outbox)

(* Every message whose bytes all found room is heard, also after torn ones *)
(* and between them (serial_midi_send_usartn, ISR(USARTn_UDRE_vect)).      *)
AllHeard == []<>(outbox = <<>>) \/ []<><<Len(outbox') < Len(outbox)>>_outbox

(* Only what somebody sends is heard (serial_midi_send_usartn).            *)
OnlySentHeard ==
    delivered # Receiver!Nothing =>
        delivered[2] \in {BytesOf(m) : m \in MainMessage \cup IsrMessage}
=============================================================================
