---------------------------- MODULE MCByteQueue ----------------------------
(* Model values for ByteQueue.  The main program reads and it and two      *)
(* interrupts write, as with the input queue of a device (the receive      *)
(* interrupt calls midi_device_input, and so does usb_get_midi inside      *)
(* midi_device_process).                                                   *)
EXTENDS ByteQueue, TLC

CONSTANTS rx, tx, x, y

Interrupts == {rx, tx}
Bytes      == {x, y}

Symmetry == Permutations(Bytes)
=============================================================================
