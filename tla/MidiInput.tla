------------------------------ MODULE MidiInput ------------------------------
(***************************************************************************)
(* What a device promises of the bytes it is given (midi_device.h, midi.h): *)
(* those it had room for are heard one after the other, each once, as a    *)
(* MIDI stream, and all of them sooner or later.                           *)
(***************************************************************************)
EXTENDS MidiStream

CONSTANT Room  \* bytes that may wait

VARIABLE pending  \* the bytes taken in and not heard yet, oldest first

input == <<stream, pending>>

InputInit == Init /\ pending = <<>>

Arrive(b) ==
    /\ Len(pending) < Room
    /\ pending' = Append(pending, b)
    /\ UNCHANGED stream

Hear ==
    /\ pending # <<>>
    /\ Receive(Head(pending))
    /\ pending' = Tail(pending)

Handled == Settle /\ UNCHANGED pending

InputNext == (\E b \in Bytes : Arrive(b)) \/ Hear \/ Handled

(* Weak fairness of Hear and of Handled, with what enables them written    *)
(* out: a byte that waits is heard, a message that is handled is done with. *)
Fairness ==
    /\ []<>(pending = <<>> \/ delivered # Nothing) \/ []<><<Hear>>_input
    /\ []<>(delivered = Nothing)

InputSpec == InputInit /\ [][InputNext]_input /\ Fairness
=============================================================================
