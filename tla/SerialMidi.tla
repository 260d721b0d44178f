----------------------------- MODULE SerialMidi -----------------------------
(***************************************************************************)
(* implementations/serial/serial_midi.c, the output side: the send         *)
(* function puts the bytes of a message into a queue and turns on the      *)
(* interrupt that the USART raises while its data register is empty; the   *)
(* interrupt routine moves one byte at a time to the data register and     *)
(* turns itself off.  The routines of the two USARTs do the latter in      *)
(* different ways.                                                         *)
(*                                                                         *)
(* Each call of a queue function is one step of the main program:          *)
(* ByteQueue shows that it takes effect at one instant.  The interrupt     *)
(* routine is one step, because nothing but the USART runs beside it.      *)
(***************************************************************************)
EXTENDS Integers, Sequences

CONSTANTS
    QueueLength,  \* MIDI_OUTPUT_QUEUE_LENGTH
    Byte,         \* the bytes of the messages
    MainMessage,  \* what the main program sends: [cnt, bytes]
    IsrMessage    \* what an interrupt routine of the program sends

ASSUME OutputQueueAssumption == QueueLength \in 2 .. 255
ASSUME MessageAssumption     ==
    MainMessage \cup IsrMessage \subseteq [cnt : Nat, bytes : [1 .. 3 -> Byte]]

VARIABLES
    usart,     \* which of the two: 0 or 1
    queue,     \* queue_usart0 or queue_usart1, oldest byte first
    udrie,     \* bit UDRIE of UCSRnB: interrupt while the data register is empty
    udr,       \* the data register of the USART, Empty when UDRE is set
    shift,     \* its shift register, Empty when no byte is being sent
    ie,        \* the global interrupt flag
    at,        \* where the main program is in serial_midi_send_usartn
    outgoing   \* the arguments of that call

port    == <<queue, udrie, udr, shift>>
sending == <<at, outgoing>>
vars    == <<usart, port, ie, sending>>

Empty  == 256
NoMessage == <<>>

ASSUME EmptyAssumption == Empty \notin Byte

(* bytequeue_enqueue; nobody looks at whether it found room.               *)
Enqueued(q, b) == IF Len(q) < QueueLength - 1 THEN Append(q, b) ELSE q

-----------------------------------------------------------------------------
(* Faults the properties must notice. *)

(* Empty taken for "this was the last byte". *)
TransmitInterrupt0OneEarly ==
    \/ /\ queue # <<>>
       /\ udr' = Head(queue) /\ queue' = Tail(queue)
       /\ udrie' = (Len(queue') > 1)
    \/ queue = <<>> /\ udrie' = FALSE /\ UNCHANGED <<queue, udr>>

(* A second byte that is taken for the last: the interrupt is not turned on. *)
EnqueueByte1Last ==
    /\ at = "byte1"
    /\ queue' = Enqueued(queue, outgoing.bytes[2])
    /\ at' = IF outgoing.cnt = 3 THEN "byte2" ELSE "outside"
    /\ outgoing' = IF outgoing.cnt = 3 THEN outgoing ELSE NoMessage
    /\ UNCHANGED <<usart, udrie, udr, shift, ie>>

(* The third byte in place of the second. *)
EnqueueByte1Third ==
    /\ at = "byte1"
    /\ queue' = Enqueued(queue, outgoing.bytes[3])
    /\ at' = IF outgoing.cnt = 3 THEN "byte2" ELSE "enable"
    /\ UNCHANGED <<usart, udrie, udr, shift, ie, outgoing>>

(* A message of two bytes taken for one of one. *)
EnqueueByte0OfTwo ==
    /\ at = "byte0"
    /\ queue' = Enqueued(queue, outgoing.bytes[1])
    /\ at' = IF outgoing.cnt > 2 THEN "byte1" ELSE "enable"
    /\ UNCHANGED <<usart, udrie, udr, shift, ie, outgoing>>

(* The interrupt left on. *)
StopStaysOn == queue = <<>> /\ UNCHANGED <<queue, udr, udrie>>

-----------------------------------------------------------------------------
(* serial_midi_send_usartn *)

CallSend(m) ==
    /\ at = "outside"
    /\ at' = "byte0" /\ outgoing' = m
    /\ UNCHANGED <<usart, port, ie>>

EnqueueByte0 ==
    /\ at = "byte0"
    /\ queue' = Enqueued(queue, outgoing.bytes[1])
    /\ at' = IF outgoing.cnt > 1 THEN "byte1" ELSE "enable"
    /\ UNCHANGED <<usart, udrie, udr, shift, ie, outgoing>>

EnqueueByte1 ==
    /\ at = "byte1"
    /\ queue' = Enqueued(queue, outgoing.bytes[2])
    /\ at' = IF outgoing.cnt = 3 THEN "byte2" ELSE "enable"
    /\ UNCHANGED <<usart, udrie, udr, shift, ie, outgoing>>

EnqueueByte2 ==
    /\ at = "byte2"
    /\ queue' = Enqueued(queue, outgoing.bytes[3])
    /\ at' = "enable"
    /\ UNCHANGED <<usart, udrie, udr, shift, ie, outgoing>>

(* UCSRnB |= (1 << UDRIEn).  It may take three instructions; whatever bit  *)
(* was read, it is written as 1, and no interrupt changes another bit.     *)
EnableTransmit ==
    /\ at = "enable"
    /\ udrie' = TRUE
    /\ at' = "outside" /\ outgoing' = NoMessage
    /\ UNCHANGED <<usart, queue, udr, shift, ie>>

(* The same function called in an interrupt routine of the program, where  *)
(* nothing comes in between.                                               *)
EnqueuedMessage(m) ==
    LET one == Enqueued(queue, m.bytes[1])
        two == IF m.cnt > 1 THEN Enqueued(one, m.bytes[2]) ELSE one
    IN  IF m.cnt = 3 THEN Enqueued(two, m.bytes[3]) ELSE two

InterruptSends(m) ==
    /\ ie
    /\ queue' = EnqueuedMessage(m)
    /\ udrie' = TRUE
    /\ UNCHANGED <<usart, udr, shift, ie, sending>>

-----------------------------------------------------------------------------
(* ISR(USARTn_UDRE_vect) *)

TransmitByte ==
    /\ queue # <<>>
    /\ udr' = Head(queue)
    /\ queue' = Tail(queue)

Stop == queue = <<>> /\ udrie' = FALSE /\ UNCHANGED <<queue, udr>>

TransmitInterrupt0 ==
    \/ TransmitByte /\ udrie' = (queue' # <<>>)
    \/ Stop

TransmitInterrupt1 ==
    \/ TransmitByte /\ UNCHANGED udrie
    \/ Stop

TransmitInterrupt ==
    /\ ie /\ udrie /\ udr = Empty
    /\ \/ usart = 0 /\ TransmitInterrupt0
       \/ usart = 1 /\ TransmitInterrupt1
    /\ UNCHANGED <<usart, shift, ie, sending>>

(* The USART. *)
Load ==
    /\ udr # Empty /\ shift = Empty
    /\ shift' = udr /\ udr' = Empty
    /\ UNCHANGED <<usart, queue, udrie, ie, sending>>

ShiftOut ==
    /\ shift # Empty
    /\ shift' = Empty
    /\ UNCHANGED <<usart, queue, udrie, udr, ie, sending>>

-----------------------------------------------------------------------------
(* sei, cli: the program turns interrupts on when it has set things up,    *)
(* and may turn them off for a while.                                      *)
SetInterrupts(on) ==
    /\ at = "outside"
    /\ ie' = on
    /\ UNCHANGED <<usart, port, sending>>

(* serial_midi_init_usartn, with out: the transmitter is enabled, its      *)
(* interrupt is not.                                                       *)
Init ==
    /\ usart \in {0, 1}
    /\ queue = <<>> /\ udrie = FALSE /\ udr = Empty /\ shift = Empty
    /\ ie = FALSE
    /\ at = "outside" /\ outgoing = NoMessage

SendStep == EnqueueByte0 \/ EnqueueByte1 \/ EnqueueByte2 \/ EnableTransmit

Sends == (\E m \in MainMessage : CallSend(m)) \/ (\E m \in IsrMessage : InterruptSends(m))

Next ==
    \/ Sends \/ SendStep
    \/ TransmitInterrupt \/ Load \/ ShiftOut
    \/ \E on \in BOOLEAN : SetInterrupts(on)

(* The send function goes on, as the core executes an instruction of the   *)
(* main program between any two interrupts.  An interrupt that is raised   *)
(* again and again with the flag set is taken.  The USART works.  The main *)
(* program does not leave interrupts off.                                  *)
Fairness ==
    /\ WF_vars(SendStep) /\ SF_vars(TransmitInterrupt)
    /\ WF_vars(Load) /\ WF_vars(ShiftOut) /\ SF_vars(SetInterrupts(TRUE))

Spec == Init /\ [][Next]_vars /\ Fairness

-----------------------------------------------------------------------------
(* Properties *)

Held(r) == IF r = Empty THEN <<>> ELSE <<r>>

Pending == Held(shift) \o Held(udr) \o queue

Line == INSTANCE SerialLine WITH
            Room <- QueueLength + 1, AtOnce <- 3,
            pending <- Pending

(* Outside of the send function, bytes that wait have their interrupt on:  *)
(* the routine never turns it off for good under a byte that is being put  *)
(* into the queue (serial_midi_send_usartn, ISR(USARTn_UDRE_vect)).        *)
NoLostWakeup == at = "outside" /\ queue # <<>> => udrie

(* What is put into the queue leaves by the wire, each byte once and in    *)
(* order, none overwritten in the data register, and none left behind      *)
(* (serial_midi_send_usartn, ISR(USARTn_UDRE_vect)).                       *)
ImplementsLine == Line!Spec

(* Unless the program keeps sending, the interrupt is turned off again and *)
(* again: a USART with nothing to send does not keep the core in its       *)
(* interrupt routine (ISR(USARTn_UDRE_vect)).                              *)
ComesToRest == []<>~udrie \/ []<><<Sends>>_vars
=============================================================================
