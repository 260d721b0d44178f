----------------------------- MODULE Debouncer -----------------------------
(***************************************************************************)
(* What debouncing promises: a button is taken to be up or down when it    *)
(* has been read that way a number of times in a row, and a change is told *)
(* once.                                                                   *)
(***************************************************************************)
EXTENDS Integers

CONSTANTS
    Button,
    Silent, \* those of which only going down is told
    Steady  \* how many equal readings in a row are believed

VARIABLES
    up,      \* the buttons that were up when last read
    row,     \* for each button, the last readings in a row that agree, up to Steady
    level,   \* the buttons that are taken to be up
    changes  \* what was told at the last reading: a button, and whether it went up

debouncer == <<up, row, level, changes>>

(* Every button is taken to be down at first. *)
Init == up = {} /\ row = [b \in Button |-> Steady] /\ level = {} /\ changes = {}

Read(pins) ==
    /\ up' = pins
    /\ row' = [b \in Button |->
                  IF (b \in pins) # (b \in up) THEN 1
                  ELSE IF row[b] < Steady THEN row[b] + 1 ELSE Steady]
    /\ level' = {b \in Button : IF row'[b] = Steady THEN b \in pins ELSE b \in level}
    /\ changes' = {<<b, FALSE>> : b \in level \ level'}
                     \cup {<<b, TRUE>> : b \in level' \ (level \cup Silent)}

Next == \E pins \in SUBSET Button : Read(pins)

Spec == Init /\ [][Next]_debouncer
=============================================================================
