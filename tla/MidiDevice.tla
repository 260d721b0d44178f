----------------------------- MODULE MidiDevice -----------------------------
(***************************************************************************)
(* midi_device.c, how bytes get from a driver to the parser.  A driver     *)
(* gives them to midi_device_input, from its receive interrupt             *)
(* (serial_midi.h) or from the pre-input callback (midi_usb.c); the main   *)
(* program calls midi_device_process again and again, which takes them out *)
(* of the queue and hands them to midi_process_byte (MidiParser).          *)
(*                                                                         *)
(* Each call of a queue function is one step: ByteQueue shows that it      *)
(* takes effect at one instant.  An interrupt may come in between any two  *)
(* steps of the main program, and between those of its callbacks.          *)
(***************************************************************************)
EXTENDS MidiParser

CONSTANT QueueLength  \* MIDI_INPUT_QUEUE_LENGTH

ASSUME DeviceQueueAssumption == QueueLength \in 2 .. 255

VARIABLES
    queue,              \* input_queue, oldest byte first
    preInput,           \* pre_input_process_callback is not NULL
    at,                 \* where midi_device_process is; "outside" if nowhere
    len, i, val         \* its locals

loop       == <<at, len, i, val>>
deviceVars == <<vars, queue, preInput, loop>>

NoByte == 256

-----------------------------------------------------------------------------
(* Faults the properties must notice. *)

(* A full queue that gives up its oldest byte for the new one. *)
EnqueuedOverOldest(b) ==
    Append(SubSeq(queue, IF Len(queue) < QueueLength - 1 THEN 1 ELSE 2, Len(queue)), b)

(* The length asked for anew in every round, the loop run while it is not  *)
(* 0.                                                                      *)
RemoveByteAndAskAnew ==
    /\ at = "processing" /\ pc = "idle"
    /\ queue' = SubSeq(queue, 2, Len(queue))
    /\ len' = Len(queue') /\ i' = 0 /\ val' = NoByte /\ at' = "test"
    /\ UNCHANGED <<vars, preInput>>

(* All counted bytes removed in every round. *)
RemovedAll == SubSeq(queue, len + 1, Len(queue))

-----------------------------------------------------------------------------
(* midi_device_input *)

(* bytequeue_enqueue; nobody looks at whether it found room.               *)
Enqueued(b) == IF Len(queue) < QueueLength - 1 THEN Append(queue, b) ELSE queue

ReceiveInterrupt(b) ==
    /\ queue' = Enqueued(b)
    /\ UNCHANGED <<vars, preInput, loop>>

(* midi_device_process *)

SetPreInput(on) ==
    /\ at = "outside"
    /\ preInput' = on
    /\ UNCHANGED <<vars, queue, loop>>

CallProcess ==
    /\ at = "outside"
    /\ at' = IF preInput THEN "preInput" ELSE "length"
    /\ UNCHANGED <<vars, queue, preInput, len, i, val>>

(* The callback polls its hardware: any number of bytes, then it returns.  *)
Poll(b) ==
    /\ at = "preInput"
    /\ queue' = Enqueued(b)
    /\ UNCHANGED <<vars, preInput, loop>>

PreInputReturns ==
    /\ at = "preInput" /\ at' = "length"
    /\ UNCHANGED <<vars, queue, preInput, len, i, val>>

GetLength ==
    /\ at = "length"
    /\ len' = Len(queue) /\ i' = 0 /\ at' = "test"
    /\ UNCHANGED <<vars, queue, preInput, val>>

InLoop == at = "test" /\ i < len

(* With nothing stored a slot would be read that holds any earlier byte.   *)
GetByte ==
    /\ InLoop
    /\ val' \in IF queue = <<>> THEN Bytes ELSE {Head(queue)}
    /\ at' = "process"
    /\ UNCHANGED <<vars, queue, preInput, len, i>>

Process ==
    /\ at = "process"
    /\ ProcessByte(val)
    /\ at' = "processing"
    /\ UNCHANGED <<queue, preInput, len, i, val>>

Removed == SubSeq(queue, 2, Len(queue))

RemoveByte ==
    /\ at = "processing" /\ pc = "idle"
    /\ queue' = Removed
    /\ i' = i + 1 /\ val' = NoByte /\ at' = "test"
    /\ UNCHANGED <<vars, preInput, len>>

ProcessReturns ==
    /\ at = "test" /\ ~InLoop
    /\ at' = "outside" /\ len' = 0 /\ i' = 0
    /\ UNCHANGED <<vars, queue, preInput, val>>

-----------------------------------------------------------------------------
DeviceInit ==
    /\ Init
    /\ queue = <<>> /\ preInput = FALSE
    /\ at = "outside" /\ len = 0 /\ i = 0 /\ val = NoByte

CallbackSteps == Callout /\ UNCHANGED <<queue, preInput, loop>>

Registers == at = "outside" /\ Program /\ UNCHANGED <<queue, preInput, loop>>

MainStep ==
    \/ CallProcess \/ PreInputReturns \/ GetLength \/ GetByte \/ Process
    \/ CallbackSteps \/ RemoveByte \/ ProcessReturns

Arrival == \E b \in Bytes : ReceiveInterrupt(b) \/ Poll(b)

DeviceNext == MainStep \/ Arrival \/ Registers \/ \E on \in BOOLEAN : SetPreInput(on)

(* "you must call this method frequently" (midi.h, midi_device_process):   *)
(* the main program goes on calling it, its callbacks return, and          *)
(* interrupts, however many, leave it the core from time to time.          *)
DeviceSpec == DeviceInit /\ [][DeviceNext]_deviceVars /\ WF_deviceVars(MainStep)

-----------------------------------------------------------------------------
(* Properties *)

Waiting == SubSeq(queue, IF at = "processing" THEN 2 ELSE 1, Len(queue))

Input == INSTANCE MidiInput WITH
             Room <- QueueLength - 1, pending <- Waiting,
             status <- StatusInForce, data <- DataHeard,
             offset <- OffsetHeard, delivered <- Delivered

(* While midi_device_process runs, the bytes it has counted and not yet    *)
(* removed are at the head of the queue, the one being processed first,    *)
(* whatever the interrupts put in meanwhile.                               *)
CountedBytesStay ==
    /\ at \in {"test", "process", "processing"} => len - i <= Len(queue)
    /\ at \in {"process", "processing"} => queue # <<>> /\ val = Head(queue)

(* Every byte that found room is parsed, once and in order, as part of the *)
(* MIDI stream those bytes make, also while others come in, and none waits *)
(* for ever (midi_device_input, midi_device_process).                      *)
ImplementsInput == Input!InputSpec

(* However fast bytes come in, a call of midi_device_process returns.      *)
ProcessEnds == at # "outside" ~> at = "outside"
=============================================================================
