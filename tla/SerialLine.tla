----------------------------- MODULE SerialLine -----------------------------
(***************************************************************************)
(* What the output side of a serial port promises: the bytes it has taken  *)
(* leave it one after the other, each once, in the order in which they     *)
(* were taken, and all of them sooner or later.                            *)
(***************************************************************************)
EXTENDS Integers, Sequences

CONSTANTS
    Byte,
    Room,   \* bytes it can hold
    AtOnce  \* bytes it may be given at one instant

VARIABLE pending  \* the bytes taken and not sent yet, oldest first

Init == pending = <<>>

Take(bytes) ==
    /\ Len(pending) + Len(bytes) <= Room
    /\ pending' = pending \o bytes

Emit == pending # <<>> /\ pending' = Tail(pending)

Next == (\E n \in 1 .. AtOnce : \E bytes \in [1 .. n -> Byte] : Take(bytes)) \/ Emit

(* Weak fairness of Emit, with what enables it written out. *)
Fairness == []<>(pending = <<>>) \/ []<><<Emit>>_pending

Spec == Init /\ [][Next]_pending /\ Fairness
=============================================================================
