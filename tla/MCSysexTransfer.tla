-------------------------- MODULE MCSysexTransfer --------------------------
(* Data for SysexTransfer: all lengths up to two groups and a bit, with    *)
(* bytes that have and lack a top bit in changing places.                  *)
EXTENDS MCMidiRoundTrip, SysexTransfer

Pattern(k, s) == IF (k + s) % 3 = 0 THEN 255 ELSE IF (k * s) % 5 = 1 THEN 128 + k ELSE k

SomePayloads == {[k \in 1 .. n |-> Pattern(k, s)] : n \in 0 .. 16, s \in 0 .. 6}

(* What the theorem about PayloadIntact asks of the data.                  *)
ASSUME SendableAssumption == \A p \in SomePayloads : Sendable(p)
=============================================================================
