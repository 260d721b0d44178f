----------------------------- MODULE ByteQueue -----------------------------
(***************************************************************************)
(* bytequeue/bytequeue.c on the single AVR core it is written for: the     *)
(* main program and the interrupt service routines share one ring buffer.  *)
(* An interrupt may run between any two memory accesses of the main        *)
(* program, unless the global interrupt flag is clear.  Each operation is  *)
(* a call made of several steps, one per access to shared state, guarded   *)
(* by store_and_clear_interrupt / restore_interrupt_setting                *)
(* (bytequeue/interrupt_setting.c).                                        *)
(*                                                                         *)
(* Any context may enqueue and ask for the length ("maybe multiple         *)
(* writer"); only the context Reader reads and removes, and only bytes it  *)
(* has been told of by bytequeue_length, as midi_device_process and the    *)
(* transmit interrupts of serial_midi.c do.                                *)
(***************************************************************************)
EXTENDS Integers, Sequences

CONSTANTS
    QueueLength,  \* arrayLen given to bytequeue_init: the slots of the array
    Item,         \* the bytes stored
    Isr,          \* the interrupt service routines
    Main,         \* the main program
    Reader        \* the context that reads and removes

Context == Isr \cup {Main}

(* byteQueueIndex_t is uint8_t, so an array has at most 255 slots. *)
IndexRange == 256

ASSUME QueueLengthAssumption == QueueLength \in 1 .. IndexRange - 1
ASSUME ContextAssumption     == Main \notin Isr /\ Reader \in Context

VARIABLES
    start, end, data,  \* byteQueue_t
    ie,                \* the global interrupt flag: bit I of SREG
    callerIe,          \* the flag as the main program itself last set it
    running,           \* the context that has the core
    active,            \* the interrupt routines entered and not yet left
    resume,            \* the context an active routine returns to
    pc,                \* per context: where it is inside an operation
    op, arg,           \* per context: the operation called, its argument
    setting,           \* per context: the saved interrupt setting
    slot,              \* the array index bytequeue_get has computed
    reply,             \* per context: the value to be returned
    avail              \* the bytes Reader knows to be in the queue

ring  == <<start, end, data>>
cpu   == <<ie, callerIe, running, active, resume>>
frame == <<op, arg, setting, slot>>
vars  == <<ring, cpu, pc, frame, reply, avail>>

Slot == 0 .. QueueLength - 1

-----------------------------------------------------------------------------
(* What the indices say: the number of bytes stored and, oldest first,     *)
(* the bytes themselves.                                                   *)

Stored == IF end >= start THEN end - start ELSE QueueLength - start + end

Contents == [i \in 1 .. Stored |-> data[(start + i - 1) % QueueLength]]

NextSlot(i) == (i + 1) % QueueLength

InProgress == [c \in Context |-> IF op[c] = "none" THEN <<>> ELSE <<op[c], arg[c]>>]

(* The queue the callers see.  One slot stays empty, so that start = end   *)
(* means empty.                                                            *)
Fifo == INSTANCE BoundedFifo WITH
            Client <- Context, Capacity <- QueueLength - 1,
            items <- Contents, request <- InProgress

-----------------------------------------------------------------------------
(* Steps shared by the operations.  A context at "idle" is outside the     *)
(* queue code.                                                             *)

At(c, l) == running = c /\ pc[c] = l
Goto(c, l) == pc' = [pc EXCEPT ![c] = l]
Answer(c, r) == reply' = [reply EXCEPT ![c] = r]

Call(c, o, a, l) ==
    /\ At(c, "idle")
    /\ op' = [op EXCEPT ![c] = o]
    /\ arg' = [arg EXCEPT ![c] = a]
    /\ Goto(c, l)
    /\ UNCHANGED <<ring, cpu, setting, slot, reply, avail>>

(* The first step of each operation after interrupts are off. *)
Body == [enqueue |-> "test", length |-> "compare", remove |-> "advance"]

(* The operation returns: its locals are gone. *)
Leave(c) ==
    /\ Goto(c, "idle")
    /\ op' = [op EXCEPT ![c] = "none"]
    /\ arg' = [arg EXCEPT ![c] = 0]
    /\ setting' = [setting EXCEPT ![c] = FALSE]
    /\ Answer(c, Fifo!NoReply)
    /\ UNCHANGED <<ring, callerIe, running, active, resume, avail>>

-----------------------------------------------------------------------------
(* Faults the properties must notice: each is an action below with one     *)
(* plausible mistake.                                                      *)

(* The flag saved after cli(), not before. *)
StoreSettingTooLate(c) ==
    /\ At(c, "store")
    /\ setting' = [setting EXCEPT ![c] = FALSE]
    /\ Goto(c, "cli")
    /\ UNCHANGED <<ring, cpu, op, arg, slot, reply, avail>>

(* The cli() forgotten. *)
ClearInterruptForgotten(c) ==
    /\ At(c, "cli")
    /\ Goto(c, Body[op[c]])
    /\ UNCHANGED <<ring, cpu, frame, reply, avail>>

(* sei() in place of the saved setting. *)
RestoreSettingWithSei(c) ==
    At(c, "restore") /\ ie' = TRUE /\ Leave(c) /\ UNCHANGED slot

(* No test for a full queue. *)
EnqueueTestForgotten(c) ==
    /\ At(c, "test")
    /\ Goto(c, "put")
    /\ UNCHANGED <<ring, cpu, frame, reply, avail>>

(* The byte written to the slot after the free one. *)
EnqueuePutInNextSlot(c) ==
    /\ At(c, "put")
    /\ data' = [data EXCEPT ![NextSlot(end)] = arg[c]]
    /\ Goto(c, "publish")
    /\ UNCHANGED <<start, end, cpu, frame, reply, avail>>

(* The modulus forgotten. *)
RemoveAdvanceUnwrapped(c) ==
    /\ At(c, "advance")
    /\ start' = start + arg[c]
    /\ avail' = avail - arg[c]
    /\ Answer(c, Fifo!Removed)
    /\ Goto(c, "restore")
    /\ UNCHANGED <<end, data, cpu, frame>>

-----------------------------------------------------------------------------
(* bytequeue/interrupt_setting.c *)

(* uint8_t sreg = SREG *)
StoreSetting(c) ==
    /\ At(c, "store")
    /\ setting' = [setting EXCEPT ![c] = ie]
    /\ Goto(c, "cli")
    /\ UNCHANGED <<ring, cpu, op, arg, slot, reply, avail>>

(* cli() *)
ClearInterrupt(c) ==
    /\ At(c, "cli")
    /\ ie' = FALSE
    /\ Goto(c, Body[op[c]])
    /\ UNCHANGED <<ring, callerIe, running, active, resume, frame, reply, avail>>

(* SREG = setting *)
RestoreSetting(c) ==
    /\ At(c, "restore")
    /\ ie' = setting[c]
    /\ Leave(c)
    /\ UNCHANGED slot

-----------------------------------------------------------------------------
(* bytequeue_enqueue *)

CallEnqueue(c, x) == Call(c, "enqueue", x, "store")

EnqueueTest(c) ==
    /\ At(c, "test")
    /\ \/ /\ NextSlot(end) = start
          /\ Answer(c, Fifo!Full)
          /\ Goto(c, "restore")
       \/ /\ NextSlot(end) # start
          /\ Goto(c, "put")
          /\ UNCHANGED reply
    /\ UNCHANGED <<ring, cpu, frame, avail>>

EnqueuePut(c) ==
    /\ At(c, "put")
    /\ data' = [data EXCEPT ![end] = arg[c]]
    /\ Goto(c, "publish")
    /\ UNCHANGED <<start, end, cpu, frame, reply, avail>>

EnqueuePublish(c) ==
    /\ At(c, "publish")
    /\ end' = NextSlot(end)
    /\ Answer(c, Fifo!Stored)
    /\ Goto(c, "restore")
    /\ UNCHANGED <<start, data, cpu, frame, avail>>

-----------------------------------------------------------------------------
(* bytequeue_length: a comparison, then one of two subtractions, each      *)
(* reading the indices again.                                              *)

CallLength(c) == Call(c, "length", 0, "store")

LengthCompare(c) ==
    /\ At(c, "compare")
    /\ Goto(c, IF end >= start THEN "flat" ELSE "wrapped")
    /\ UNCHANGED <<ring, cpu, frame, reply, avail>>

LengthIs(c, n) ==
    /\ Answer(c, Fifo!Length(n))
    /\ avail' = IF c = Reader THEN n ELSE avail
    /\ Goto(c, "restore")
    /\ UNCHANGED <<ring, cpu, frame>>

LengthFlat(c) ==
    At(c, "flat") /\ LengthIs(c, (end - start) % IndexRange)

LengthWrapped(c) ==
    At(c, "wrapped") /\ LengthIs(c, (QueueLength - start + end) % IndexRange)

-----------------------------------------------------------------------------
(* bytequeue_get: "we don't need to avoid interrupts if there is only one  *)
(* reader".  The address is computed in one step, the byte read in the     *)
(* next.                                                                   *)

CallGet(c, i) == i < avail /\ Call(c, "get", i, "address")

GetAddress(c) ==
    /\ At(c, "address")
    /\ slot' = (start + arg[c]) % QueueLength
    /\ Goto(c, "read")
    /\ UNCHANGED <<ring, cpu, op, arg, setting, reply, avail>>

GetRead(c) ==
    /\ At(c, "read")
    /\ Answer(c, Fifo!Byte(data[slot]))
    /\ Goto(c, "return")
    /\ UNCHANGED <<ring, cpu, frame, avail>>

GetReturn(c) == At(c, "return") /\ Leave(c) /\ slot' = 0 /\ UNCHANGED ie

-----------------------------------------------------------------------------
(* bytequeue_remove *)

CallRemove(c, n) == n <= avail /\ Call(c, "remove", n, "store")

RemoveAdvance(c) ==
    /\ At(c, "advance")
    /\ start' = (start + arg[c]) % QueueLength
    /\ avail' = avail - arg[c]
    /\ Answer(c, Fifo!Removed)
    /\ Goto(c, "restore")
    /\ UNCHANGED <<end, data, cpu, frame>>

-----------------------------------------------------------------------------
(* The core: entering and leaving an interrupt routine (the hardware       *)
(* clears I on entry, reti sets it), and sei()/cli() in the main program   *)
(* outside the queue code.                                                 *)

EnterInterrupt(i) ==
    /\ ie
    /\ i \notin active
    /\ ie' = FALSE
    /\ running' = i
    /\ active' = active \cup {i}
    /\ resume' = [resume EXCEPT ![i] = running]
    /\ UNCHANGED <<ring, callerIe, pc, frame, reply, avail>>

ReturnFromInterrupt(i) ==
    /\ At(i, "idle")
    /\ ie' = TRUE
    /\ running' = resume[i]
    /\ active' = active \ {i}
    /\ UNCHANGED <<ring, callerIe, resume, pc, frame, reply, avail>>

MainSetsInterrupt(on) ==
    /\ At(Main, "idle")
    /\ ie' = on
    /\ callerIe' = on
    /\ UNCHANGED <<ring, running, active, resume, pc, frame, reply, avail>>

-----------------------------------------------------------------------------
(* bytequeue_init sets both indices to 0 and leaves the array as it is.    *)
Init ==
    /\ start = 0 /\ end = 0
    /\ data \in [Slot -> Item]
    /\ ie = FALSE /\ callerIe = FALSE
    /\ running = Main
    /\ active = {}
    /\ resume = [i \in Isr |-> Main]
    /\ pc = [c \in Context |-> "idle"]
    /\ op = [c \in Context |-> "none"]
    /\ arg = [c \in Context |-> 0]
    /\ setting = [c \in Context |-> FALSE]
    /\ slot = 0
    /\ reply = [c \in Context |-> Fifo!NoReply]
    /\ avail = 0

Enqueue(c) ==
    \/ \E x \in Item : CallEnqueue(c, x)
    \/ EnqueueTest(c)
    \/ EnqueuePut(c)
    \/ EnqueuePublish(c)

Measure(c) ==
    \/ CallLength(c)
    \/ LengthCompare(c)
    \/ LengthFlat(c)
    \/ LengthWrapped(c)

Get(c) ==
    \/ \E i \in Slot : CallGet(c, i)
    \/ GetAddress(c)
    \/ GetRead(c)
    \/ GetReturn(c)

Remove(c) ==
    \/ \E n \in Slot : CallRemove(c, n)
    \/ RemoveAdvance(c)

Guard(c) == StoreSetting(c) \/ ClearInterrupt(c) \/ RestoreSetting(c)

Core ==
    \/ \E i \in Isr : EnterInterrupt(i) \/ ReturnFromInterrupt(i)
    \/ \E on \in BOOLEAN : MainSetsInterrupt(on)

Next ==
    \/ \E c \in Context : Enqueue(c) \/ Measure(c) \/ Guard(c)
    \/ Get(Reader)
    \/ Remove(Reader)
    \/ Core

Spec == Init /\ [][Next]_vars

-----------------------------------------------------------------------------
(* Properties *)

PcLabel == {"idle", "store", "cli", "test", "put", "publish", "compare",
            "flat", "wrapped", "address", "read", "return", "advance", "restore"}

(* Every variable keeps its type; in particular both indices stay inside   *)
(* the array, with the width of byteQueueIndex_t.                          *)
TypeOK ==
    /\ start \in Slot /\ end \in Slot
    /\ data \in [Slot -> Item]
    /\ ie \in BOOLEAN /\ callerIe \in BOOLEAN
    /\ running \in Context
    /\ active \in SUBSET Isr
    /\ resume \in [Isr -> Context]
    /\ pc \in [Context -> PcLabel]
    /\ op \in [Context -> {"none", "enqueue", "length", "get", "remove"}]
    /\ arg \in [Context -> Item \cup Slot]
    /\ setting \in [Context -> BOOLEAN]
    /\ slot \in Slot
    /\ avail \in Slot

Critical == {"test", "put", "publish", "compare", "flat", "wrapped", "advance",
             "restore"}

(* No two contexts are between the cli() and the restore of an operation   *)
(* at once: what one does to the indices there, no other can see half      *)
(* done (bytequeue_enqueue, bytequeue_length, bytequeue_remove).           *)
MutualExclusion ==
    \A c, d \in Context : pc[c] \in Critical /\ pc[d] \in Critical => c = d

(* The queue operations an interrupt routine calls never let a second      *)
(* interrupt in: restore_interrupt_setting puts back the cleared flag and  *)
(* does not set it.                                                        *)
NoNestedInterrupt == \A i, j \in active : i = j

(* A caller of the queue gets its own interrupt flag back, also one that   *)
(* had interrupts off before the call and one that was interrupted inside  *)
(* it (store_and_clear_interrupt, restore_interrupt_setting).              *)
CallerSettingKept ==
    running = Main /\ pc[Main] = "idle" => ie = callerIe

(* A length once returned to the single reader stays a lower bound of what *)
(* is in the queue, whatever is enqueued after: midi_device_process and    *)
(* the transmit interrupts may go on using it with interrupts enabled.     *)
KnownBytesStay == avail <= Stored

(* Whatever the interleaving, the calls behave as those of a bounded FIFO  *)
(* would, each at one instant: bytes come out in the order they went in,   *)
(* each once, none is overwritten before it is removed, and an enqueue is  *)
(* refused exactly when QueueLength - 1 bytes are stored.                  *)
ImplementsFifo == Fifo!Spec
=============================================================================
