--------------------------- MODULE OldSerialMidi ---------------------------
(***************************************************************************)
(* implementations/serial/old/serial_midi.c: a send function without a     *)
(* queue.  It waits until the USART's data register is empty, in a loop,   *)
(* and then writes the next byte, with whatever the USART does in between. *)
(***************************************************************************)
EXTENDS Integers, Sequences

VARIABLES
    udr,    \* the data register of the USART, Empty while UDRE is set
    shift,  \* its shift register, Empty when no byte is being sent
    left,   \* the bytes of the message that serial_midi_send has not written yet
    at      \* "outside" of it, in one of its loops ("wait"), or past it ("write")

driver == <<udr, shift, left, at>>

Empty == 256

Held(r) == IF r = Empty THEN <<>> ELSE <<r>>

-----------------------------------------------------------------------------
(* Faults the properties must notice: UDR written without a wait, and the  *)
(* same byte written over and over.                                        *)
WaitNot == at = "wait" /\ at' = "write" /\ UNCHANGED <<udr, shift, left>>
WriteSame == at = "write" /\ udr' = Head(left) /\ at' = "wait" /\ UNCHANGED <<shift, left>>

-----------------------------------------------------------------------------
(* The bytes of a message: always the first, the third if cnt == 3.        *)
Written(call) ==
    SubSeq(call.bytes, 1, IF call.cnt = 3 THEN 3 ELSE IF call.cnt > 1 THEN 2 ELSE 1)

CallSend(call) ==
    /\ at = "outside"
    /\ left' = Written(call) /\ at' = "wait"
    /\ UNCHANGED <<udr, shift>>

(* while ( !(UCSRA & _BV(UDRE)) ) *)
Wait == at = "wait" /\ udr = Empty /\ at' = "write" /\ UNCHANGED <<udr, shift, left>>

(* UDR = inByteN.  A byte still in the register would be lost. *)
Write ==
    /\ at = "write"
    /\ udr' = Head(left) /\ left' = Tail(left)
    /\ at' = IF left' = <<>> THEN "outside" ELSE "wait"
    /\ UNCHANGED shift

(* The USART. *)
Load == udr # Empty /\ shift = Empty /\ shift' = udr /\ udr' = Empty /\ UNCHANGED <<left, at>>
ShiftOut == shift # Empty /\ shift' = Empty /\ UNCHANGED <<udr, left, at>>

(* serial_midi_init, with out: the transmitter is enabled.                 *)
DriverInit == udr = Empty /\ shift = Empty /\ left = <<>> /\ at = "outside"

SendStep == Wait \/ Write

Pending == Held(shift) \o Held(udr) \o left
=============================================================================
