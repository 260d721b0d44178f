-------------------------- MODULE ByteQueueProofs --------------------------
(***************************************************************************)
(* Proofs about ByteQueue, for every size of queue, every set of bytes and *)
(* any number of interrupt routines: its invariants, which are not         *)
(* inductive by themselves while IInv is, and that it implements           *)
(* BoundedFifo.                                                            *)
(***************************************************************************)
EXTENDS ByteQueue, SequenceTheorems, TLAPS

(* The interrupt flag.  At most one routine is active, and it has the      *)
(* core; outside of the queue code and before cli() the flag is the one    *)
(* the context owns (an interrupt routine owns a clear one), which is also *)
(* what it saved.                                                          *)
CoreInv ==
    /\ active = {running} \ {Main}
    /\ running # Main => ~ie /\ callerIe /\ resume[running] = Main
    /\ \A c \in Context \ {running} :
           pc[c] \notin Critical /\ (c # Main => pc[c] = "idle")
    /\ pc[running] \in Critical => ~ie
    /\ running = Main /\ pc[Main] \notin Critical => (ie <=> callerIe)
    /\ \A c \in Context : pc[c] \in Critical \cup {"cli"} =>
           (setting[c] <=> (c = Main /\ callerIe))

(* A context is at a label of the operation it called, with an argument of *)
(* that operation; what the reader reads or removes it knows to be there.  *)
InCall(c) ==
    \/ op[c] = "none" /\ pc[c] = "idle"
    \/ op[c] = "enqueue" /\ arg[c] \in Item
         /\ pc[c] \in {"store", "cli", "test", "put", "publish", "restore"}
    \/ op[c] = "length" /\ arg[c] = 0
         /\ pc[c] \in {"store", "cli", "compare", "flat", "wrapped", "restore"}
    \/ op[c] = "get" /\ c = Reader /\ arg[c] \in Slot /\ arg[c] < avail
         /\ pc[c] \in {"address", "read", "return"}
    \/ op[c] = "remove" /\ c = Reader /\ arg[c] \in Slot
         /\ \/ pc[c] \in {"store", "cli", "advance"} /\ arg[c] <= avail
            \/ pc[c] = "restore"

CallInv == \A c \in Context : InCall(c)

(* The indices.  What an operation has found out about them stays true up  *)
(* to the step that relies on it.                                          *)
RingInv ==
    /\ avail <= Stored
    /\ \A c \in Context :
          /\ pc[c] \in {"put", "publish"} => NextSlot(end) # start
          /\ pc[c] = "publish" => data[end] = arg[c]
          /\ pc[c] = "flat" => end >= start
          /\ pc[c] = "wrapped" => end < start
          /\ pc[c] = "read" => slot = (start + arg[c]) % QueueLength

IInv == TypeOK /\ CoreInv /\ CallInv /\ RingInv

-----------------------------------------------------------------------------
(* Arithmetic of the indices. *)

(* A sum of two indices is reduced by one subtraction at most. *)
LEMMA Reduce ==
    ASSUME NEW x \in Nat, x < 2 * QueueLength
    PROVE  x % QueueLength = IF x < QueueLength THEN x ELSE x - QueueLength
<1>1. QueueLength \in Nat /\ QueueLength > 0
  BY QueueLengthAssumption DEF IndexRange
<1>2. CASE x < QueueLength
  BY <1>1, <1>2
<1>3. CASE x >= QueueLength
  BY <1>1, <1>3
<1> QED  BY <1>1, <1>2, <1>3

(* A slot and its successor. *)
LEMMA NextSlotIs ==
    ASSUME NEW i \in Slot
    PROVE  /\ NextSlot(i) = IF i + 1 = QueueLength THEN 0 ELSE i + 1
           /\ NextSlot(i) \in Slot
<1>1. QueueLength \in Nat /\ QueueLength > 0
  BY QueueLengthAssumption DEF IndexRange
<1>2. (i + 1) % QueueLength = IF i + 1 < QueueLength THEN i + 1 ELSE i + 1 - QueueLength
  BY <1>1, Reduce DEF Slot
<1> QED  BY <1>1, <1>2 DEF NextSlot, Slot

(* The slot some slots further. *)
LEMMA SumOfSlots ==
    ASSUME NEW i \in Slot, NEW j \in Slot
    PROVE  /\ (i + j) % QueueLength = IF i + j < QueueLength THEN i + j ELSE i + j - QueueLength
           /\ (i + j) % QueueLength \in Slot
<1>1. QueueLength \in Nat /\ i + j \in Nat /\ i + j < 2 * QueueLength
  BY QueueLengthAssumption DEF Slot, IndexRange
<1>2. ASSUME NEW x \in Nat, x = i + j
      PROVE  x % QueueLength = IF x < QueueLength THEN x ELSE x - QueueLength
  BY <1>1, <1>2, Reduce
<1> QED  BY <1>1, <1>2 DEF Slot

(* The first slot. *)
LEMMA ZeroIsSlot == 0 \in Slot
  BY QueueLengthAssumption DEF Slot, IndexRange

(* The arithmetic of uint8_t leaves a queue length as it is. *)
LEMMA InByte == ASSUME NEW x \in 0 .. 255 PROVE x % 256 = x
  OBVIOUS

(* As many bytes can be stored as there are slots, less one. *)
LEMMA StoredInSlot ==
    ASSUME TypeOK
    PROVE  Stored \in Slot
  BY QueueLengthAssumption DEF TypeOK, Stored, Slot, IndexRange

-----------------------------------------------------------------------------
(* No step breaks the invariant. *)
LEMMA Step == IInv /\ [Next]_vars => IInv'
<1> SUFFICES ASSUME IInv, [Next]_vars PROVE IInv'
  OBVIOUS
<1> USE ContextAssumption, QueueLengthAssumption
        DEF IInv, Context, At, Goto, ring, cpu, frame
<1>1. ASSUME NEW c \in Context, NEW x \in Item, CallEnqueue(c, x) PROVE IInv'
  <2>1. TypeOK'
    BY <1>1 DEF TypeOK, PcLabel, CallEnqueue, Call
  <2>2. CoreInv'
    BY <1>1 DEF TypeOK, CoreInv, CallInv, InCall, Critical, CallEnqueue, Call
  <2>3. CallInv'
    <3> SUFFICES ASSUME NEW d \in Context PROVE InCall(d)'
      BY DEF CallInv
    <3>1. CASE d = c
      BY <1>1, <3>1 DEF TypeOK, CallInv, InCall, Critical, PcLabel, CallEnqueue, Call
    <3>2. CASE d # c
      BY <1>1, <3>2 DEF TypeOK, CallInv, InCall, CallEnqueue, Call
    <3> QED  BY <3>1, <3>2
  <2>4. RingInv'
    BY <1>1 DEF TypeOK, RingInv, Stored, CallEnqueue, Call
  <2> QED  BY <2>1, <2>2, <2>3, <2>4
<1>2. ASSUME NEW c \in Context, StoreSetting(c) PROVE IInv'
  <2>1. TypeOK'
    BY <1>2 DEF TypeOK, PcLabel, StoreSetting
  <2>2. CoreInv'
    BY <1>2 DEF TypeOK, CoreInv, CallInv, InCall, Critical, StoreSetting
  <2>3. CallInv'
    <3> SUFFICES ASSUME NEW d \in Context PROVE InCall(d)'
      BY DEF CallInv
    <3>1. CASE d = c
      BY <1>2, <3>1 DEF TypeOK, CallInv, InCall, Critical, PcLabel, StoreSetting
    <3>2. CASE d # c
      BY <1>2, <3>2 DEF TypeOK, CallInv, InCall, StoreSetting
    <3> QED  BY <3>1, <3>2
  <2>4. RingInv'
    BY <1>2 DEF TypeOK, RingInv, Stored, StoreSetting
  <2> QED  BY <2>1, <2>2, <2>3, <2>4
<1>3. ASSUME NEW c \in Context, ClearInterrupt(c) PROVE IInv'
  <2>a. \/ op[c] = "enqueue" /\ pc' = [pc EXCEPT ![c] = "test"]
        \/ op[c] = "length" /\ pc' = [pc EXCEPT ![c] = "compare"]
        \/ op[c] = "remove" /\ pc' = [pc EXCEPT ![c] = "advance"] /\ arg[c] <= avail
    <3>1. \/ op[c] \in {"enqueue", "length"}
          \/ op[c] = "remove" /\ arg[c] <= avail
      BY <1>3 DEF CallInv, InCall, ClearInterrupt
    <3>2. pc' = [pc EXCEPT ![c] = Body[op[c]]]
      BY <1>3 DEF ClearInterrupt
    <3>3. Body["enqueue"] = "test" /\ Body["length"] = "compare" /\ Body["remove"] = "advance"
      BY DEF Body
    <3> QED  BY <3>1, <3>2, <3>3
  <2>1. TypeOK'
    BY <1>3, <2>a DEF TypeOK, PcLabel, ClearInterrupt
  <2>2. CoreInv'
    BY <1>3 DEF TypeOK, CoreInv, CallInv, InCall, Critical, ClearInterrupt, Body
  <2>3. CallInv'
    <3> SUFFICES ASSUME NEW d \in Context PROVE InCall(d)'
      BY DEF CallInv
    <3>1. CASE d = c
      BY <1>3, <2>a, <3>1 DEF TypeOK, CallInv, InCall, Critical, PcLabel, ClearInterrupt, Body
    <3>2. CASE d # c
      BY <1>3, <2>a, <3>2 DEF TypeOK, CallInv, InCall, ClearInterrupt, Body
    <3> QED  BY <3>1, <3>2
  <2>4. RingInv'
    BY <1>3, <2>a DEF TypeOK, RingInv, Stored, ClearInterrupt
  <2> QED  BY <2>1, <2>2, <2>3, <2>4
<1>4. ASSUME NEW c \in Context, RestoreSetting(c) PROVE IInv'
  <2>1. TypeOK'
    BY <1>4, ZeroIsSlot DEF TypeOK, PcLabel, RestoreSetting, Leave, Answer
  <2>2. CoreInv'
    BY <1>4 DEF TypeOK, CoreInv, CallInv, InCall, Critical, RestoreSetting, Leave, Answer
  <2>3. CallInv'
    <3> SUFFICES ASSUME NEW d \in Context PROVE InCall(d)'
      BY DEF CallInv
    <3>1. CASE d = c
      BY <1>4, <3>1 DEF TypeOK, CallInv, InCall, Critical, PcLabel, RestoreSetting, Leave, Answer
    <3>2. CASE d # c
      BY <1>4, <3>2 DEF TypeOK, CallInv, InCall, RestoreSetting, Leave, Answer
    <3> QED  BY <3>1, <3>2
  <2>4. RingInv'
    BY <1>4 DEF TypeOK, RingInv, Stored, RestoreSetting, Leave, Answer
  <2> QED  BY <2>1, <2>2, <2>3, <2>4
<1>5. ASSUME NEW c \in Context, EnqueueTest(c) PROVE IInv'
  <2>1. TypeOK'
    BY <1>5 DEF TypeOK, PcLabel, EnqueueTest
  <2>2. CoreInv'
    BY <1>5 DEF TypeOK, CoreInv, CallInv, InCall, Critical, EnqueueTest
  <2>3. CallInv'
    <3> SUFFICES ASSUME NEW d \in Context PROVE InCall(d)'
      BY DEF CallInv
    <3>1. CASE d = c
      BY <1>5, <3>1 DEF TypeOK, CallInv, InCall, Critical, PcLabel, EnqueueTest
    <3>2. CASE d # c
      BY <1>5, <3>2 DEF TypeOK, CallInv, InCall, EnqueueTest
    <3> QED  BY <3>1, <3>2
  <2>4. RingInv'
    BY <1>5 DEF TypeOK, RingInv, Stored, EnqueueTest
  <2> QED  BY <2>1, <2>2, <2>3, <2>4
<1>6. ASSUME NEW c \in Context, EnqueuePut(c) PROVE IInv'
  <2>1. TypeOK'
    BY <1>6 DEF TypeOK, PcLabel, CallInv, InCall, EnqueuePut
  <2>2. CoreInv'
    BY <1>6 DEF TypeOK, CoreInv, CallInv, InCall, Critical, EnqueuePut
  <2>3. CallInv'
    <3> SUFFICES ASSUME NEW d \in Context PROVE InCall(d)'
      BY DEF CallInv
    <3>1. CASE d = c
      BY <1>6, <3>1 DEF TypeOK, CallInv, InCall, Critical, PcLabel, EnqueuePut
    <3>2. CASE d # c
      BY <1>6, <3>2 DEF TypeOK, CallInv, InCall, EnqueuePut
    <3> QED  BY <3>1, <3>2
  <2>4. RingInv'
    <3>1. \A d \in Context \ {c} : pc'[d] = pc[d] /\ pc[d] # "publish"
      BY <1>6 DEF TypeOK, CoreInv, Critical, EnqueuePut
    <3>2. data'[end'] = arg'[c]
      BY <1>6 DEF TypeOK, EnqueuePut
    <3>3. start' = start /\ end' = end /\ Stored' = Stored /\ pc'[c] = "publish"
      BY <1>6 DEF TypeOK, Stored, EnqueuePut
    <3> QED  BY <1>6, <3>1, <3>2, <3>3 DEF RingInv, EnqueuePut, NextSlot
  <2> QED  BY <2>1, <2>2, <2>3, <2>4
<1>7. ASSUME NEW c \in Context, EnqueuePublish(c) PROVE IInv'
  <2>a. NextSlot(end) # start /\ end' = NextSlot(end) /\ end' \in Slot
    BY <1>7, NextSlotIs DEF TypeOK, RingInv, EnqueuePublish
  <2>b. Stored' = Stored + 1
    <3>1. start' = start /\ end' = IF end + 1 = QueueLength THEN 0 ELSE end + 1
      BY <1>7, <2>a, NextSlotIs DEF TypeOK, EnqueuePublish
    <3> QED  BY <2>a, <3>1 DEF TypeOK, Slot, Stored
  <2>1. TypeOK'
    BY <1>7, <2>a DEF TypeOK, PcLabel, EnqueuePublish
  <2>2. CoreInv'
    BY <1>7 DEF TypeOK, CoreInv, CallInv, InCall, Critical, EnqueuePublish
  <2>3. CallInv'
    <3> SUFFICES ASSUME NEW d \in Context PROVE InCall(d)'
      BY DEF CallInv
    <3>1. CASE d = c
      BY <1>7, <3>1 DEF TypeOK, CallInv, InCall, Critical, PcLabel, EnqueuePublish
    <3>2. CASE d # c
      BY <1>7, <3>2 DEF TypeOK, CallInv, InCall, EnqueuePublish
    <3> QED  BY <3>1, <3>2
  <2>4. RingInv'
    <3>1. avail' <= Stored'
      BY <1>7, <2>b, StoredInSlot DEF TypeOK, RingInv, Slot, EnqueuePublish
    <3>2. pc'[c] = "restore"
      BY <1>7 DEF TypeOK, EnqueuePublish
    <3>3. ASSUME NEW d \in Context, d # c
          PROVE  pc'[d] = pc[d] /\ pc[d] \notin Critical
      BY <1>7, <3>3 DEF TypeOK, CoreInv, EnqueuePublish
    <3> QED  BY <1>7, <3>1, <3>2, <3>3 DEF RingInv, Critical, EnqueuePublish
  <2> QED  BY <2>1, <2>2, <2>3, <2>4
<1>8. ASSUME NEW c \in Context, CallLength(c) PROVE IInv'
  <2>1. TypeOK'
    BY <1>8, ZeroIsSlot DEF TypeOK, PcLabel, CallLength, Call
  <2>2. CoreInv'
    BY <1>8 DEF TypeOK, CoreInv, CallInv, InCall, Critical, CallLength, Call
  <2>3. CallInv'
    <3> SUFFICES ASSUME NEW d \in Context PROVE InCall(d)'
      BY DEF CallInv
    <3>1. CASE d = c
      BY <1>8, <3>1 DEF TypeOK, CallInv, InCall, Critical, PcLabel, CallLength, Call
    <3>2. CASE d # c
      BY <1>8, <3>2 DEF TypeOK, CallInv, InCall, CallLength, Call
    <3> QED  BY <3>1, <3>2
  <2>4. RingInv'
    BY <1>8 DEF TypeOK, RingInv, Stored, CallLength, Call
  <2> QED  BY <2>1, <2>2, <2>3, <2>4
<1>9. ASSUME NEW c \in Context, LengthCompare(c) PROVE IInv'
  <2>1. TypeOK'
    BY <1>9 DEF TypeOK, PcLabel, LengthCompare
  <2>2. CoreInv'
    BY <1>9 DEF TypeOK, CoreInv, CallInv, InCall, Critical, LengthCompare
  <2>3. CallInv'
    <3> SUFFICES ASSUME NEW d \in Context PROVE InCall(d)'
      BY DEF CallInv
    <3>1. CASE d = c
      BY <1>9, <3>1 DEF TypeOK, CallInv, InCall, Critical, PcLabel, LengthCompare
    <3>2. CASE d # c
      BY <1>9, <3>2 DEF TypeOK, CallInv, InCall, LengthCompare
    <3> QED  BY <3>1, <3>2
  <2>4. RingInv'
    BY <1>9 DEF TypeOK, RingInv, Stored, Slot, LengthCompare
  <2> QED  BY <2>1, <2>2, <2>3, <2>4
<1>10. ASSUME NEW c \in Context, LengthFlat(c) PROVE IInv'
  <2>a. (end - start) % IndexRange = Stored /\ Stored \in Slot
    <3>1. end >= start
      BY <1>10 DEF RingInv, LengthFlat
    <3>2. Stored = (end - start)
      BY <3>1 DEF TypeOK, Slot, Stored
    <3> QED  BY <3>2, StoredInSlot, InByte DEF Slot, IndexRange
  <2>b. avail' = IF c = Reader THEN Stored ELSE avail
    BY <1>10, <2>a DEF LengthFlat, LengthIs
  <2>1. TypeOK'
    BY <1>10, <2>a, <2>b DEF TypeOK, PcLabel, LengthFlat, LengthIs
  <2>2. CoreInv'
    BY <1>10 DEF TypeOK, CoreInv, CallInv, InCall, Critical, LengthFlat, LengthIs
  <2>3. CallInv'
    <3> SUFFICES ASSUME NEW d \in Context PROVE InCall(d)'
      BY DEF CallInv
    <3>1. CASE d = c
      BY <1>10, <3>1 DEF TypeOK, CallInv, InCall, LengthFlat, LengthIs
    <3>2. CASE d # c
      <4>1. pc'[d] = pc[d] /\ op'[d] = op[d] /\ arg'[d] = arg[d]
        BY <1>10, <3>2 DEF TypeOK, LengthFlat, LengthIs
      <4>2. d = Reader => avail' = avail
        BY <2>b, <3>2
      <4> QED  BY <4>1, <4>2 DEF CallInv, InCall
    <3> QED  BY <3>1, <3>2
  <2>4. RingInv'
    <3>1. avail' <= Stored'
      BY <1>10, <2>a, <2>b DEF TypeOK, RingInv, Slot, Stored, LengthFlat, LengthIs
    <3>2. ASSUME NEW d \in Context
          PROVE  pc'[d] = pc[d] \/ pc'[d] = "restore"
      BY <1>10 DEF TypeOK, LengthFlat, LengthIs
    <3> QED  BY <1>10, <3>1, <3>2 DEF RingInv, LengthFlat, LengthIs
  <2> QED  BY <2>1, <2>2, <2>3, <2>4
<1>11. ASSUME NEW c \in Context, LengthWrapped(c) PROVE IInv'
  <2>a. (QueueLength - start + end) % IndexRange = Stored /\ Stored \in Slot
    <3>1. end < start
      BY <1>11 DEF RingInv, LengthWrapped
    <3>2. Stored = (QueueLength - start + end)
      BY <3>1 DEF TypeOK, Slot, Stored
    <3> QED  BY <3>2, StoredInSlot, InByte DEF Slot, IndexRange
  <2>b. avail' = IF c = Reader THEN Stored ELSE avail
    BY <1>11, <2>a DEF LengthWrapped, LengthIs
  <2>1. TypeOK'
    BY <1>11, <2>a, <2>b DEF TypeOK, PcLabel, LengthWrapped, LengthIs
  <2>2. CoreInv'
    BY <1>11 DEF TypeOK, CoreInv, CallInv, InCall, Critical, LengthWrapped, LengthIs
  <2>3. CallInv'
    <3> SUFFICES ASSUME NEW d \in Context PROVE InCall(d)'
      BY DEF CallInv
    <3>1. CASE d = c
      BY <1>11, <3>1 DEF TypeOK, CallInv, InCall, LengthWrapped, LengthIs
    <3>2. CASE d # c
      <4>1. pc'[d] = pc[d] /\ op'[d] = op[d] /\ arg'[d] = arg[d]
        BY <1>11, <3>2 DEF TypeOK, LengthWrapped, LengthIs
      <4>2. d = Reader => avail' = avail
        BY <2>b, <3>2
      <4> QED  BY <4>1, <4>2 DEF CallInv, InCall
    <3> QED  BY <3>1, <3>2
  <2>4. RingInv'
    <3>1. avail' <= Stored'
      BY <1>11, <2>a, <2>b DEF TypeOK, RingInv, Slot, Stored, LengthWrapped, LengthIs
    <3>2. ASSUME NEW d \in Context
          PROVE  pc'[d] = pc[d] \/ pc'[d] = "restore"
      BY <1>11 DEF TypeOK, LengthWrapped, LengthIs
    <3> QED  BY <1>11, <3>1, <3>2 DEF RingInv, LengthWrapped, LengthIs
  <2> QED  BY <2>1, <2>2, <2>3, <2>4
<1>12. ASSUME NEW i \in Slot, CallGet(Reader, i) PROVE IInv'
  <2>1. TypeOK'
    BY <1>12 DEF TypeOK, PcLabel, CallGet, Call
  <2>2. CoreInv'
    BY <1>12 DEF TypeOK, CoreInv, CallInv, InCall, Critical, CallGet, Call
  <2>3. CallInv'
    <3> SUFFICES ASSUME NEW d \in Context PROVE InCall(d)'
      BY DEF CallInv
    <3>1. CASE d = Reader
      BY <1>12, <3>1 DEF TypeOK, CallInv, InCall, Critical, PcLabel, CallGet, Call
    <3>2. CASE d # Reader
      BY <1>12, <3>2 DEF TypeOK, CallInv, InCall, CallGet, Call
    <3> QED  BY <3>1, <3>2
  <2>4. RingInv'
    BY <1>12 DEF TypeOK, RingInv, Stored, CallGet, Call
  <2> QED  BY <2>1, <2>2, <2>3, <2>4
<1>13. ASSUME GetAddress(Reader) PROVE IInv'
  <2>a. slot' \in Slot
    <3>1. slot' = (start + arg[Reader]) % QueueLength /\ arg[Reader] \in Slot
      BY <1>13 DEF CallInv, InCall, GetAddress
    <3> QED  BY <3>1, SumOfSlots DEF TypeOK
  <2>1. TypeOK'
    BY <1>13, <2>a DEF TypeOK, PcLabel, GetAddress
  <2>2. CoreInv'
    BY <1>13 DEF TypeOK, CoreInv, CallInv, InCall, Critical, GetAddress
  <2>3. CallInv'
    <3> SUFFICES ASSUME NEW d \in Context PROVE InCall(d)'
      BY DEF CallInv
    <3>1. CASE d = Reader
      BY <1>13, <3>1 DEF TypeOK, CallInv, InCall, Critical, PcLabel, GetAddress
    <3>2. CASE d # Reader
      BY <1>13, <3>2 DEF TypeOK, CallInv, InCall, GetAddress
    <3> QED  BY <3>1, <3>2
  <2>4. RingInv'
    BY <1>13 DEF TypeOK, CallInv, InCall, RingInv, Stored, GetAddress
  <2> QED  BY <2>1, <2>2, <2>3, <2>4
<1>14. ASSUME GetRead(Reader) PROVE IInv'
  <2>1. TypeOK'
    BY <1>14 DEF TypeOK, PcLabel, GetRead
  <2>2. CoreInv'
    BY <1>14 DEF TypeOK, CoreInv, CallInv, InCall, Critical, GetRead
  <2>3. CallInv'
    <3> SUFFICES ASSUME NEW d \in Context PROVE InCall(d)'
      BY DEF CallInv
    <3>1. CASE d = Reader
      BY <1>14, <3>1 DEF TypeOK, CallInv, InCall, Critical, PcLabel, GetRead
    <3>2. CASE d # Reader
      BY <1>14, <3>2 DEF TypeOK, CallInv, InCall, GetRead
    <3> QED  BY <3>1, <3>2
  <2>4. RingInv'
    BY <1>14 DEF TypeOK, RingInv, Stored, GetRead
  <2> QED  BY <2>1, <2>2, <2>3, <2>4
<1>15. ASSUME GetReturn(Reader) PROVE IInv'
  <2>1. TypeOK'
    BY <1>15, ZeroIsSlot DEF TypeOK, PcLabel, GetReturn, Leave, Answer
  <2>2. CoreInv'
    BY <1>15 DEF TypeOK, CoreInv, CallInv, InCall, Critical, GetReturn, Leave, Answer
  <2>3. CallInv'
    <3> SUFFICES ASSUME NEW d \in Context PROVE InCall(d)'
      BY DEF CallInv
    <3>1. CASE d = Reader
      BY <1>15, <3>1 DEF TypeOK, CallInv, InCall, Critical, PcLabel, GetReturn, Leave, Answer
    <3>2. CASE d # Reader
      BY <1>15, <3>2 DEF TypeOK, CallInv, InCall, GetReturn, Leave, Answer
    <3> QED  BY <3>1, <3>2
  <2>4. RingInv'
    BY <1>15 DEF TypeOK, CallInv, InCall, RingInv, Stored, GetReturn, Leave, Answer
  <2> QED  BY <2>1, <2>2, <2>3, <2>4
<1>16. ASSUME NEW n \in Slot, CallRemove(Reader, n) PROVE IInv'
  <2>1. TypeOK'
    BY <1>16 DEF TypeOK, PcLabel, CallRemove, Call
  <2>2. CoreInv'
    BY <1>16 DEF TypeOK, CoreInv, CallInv, InCall, Critical, CallRemove, Call
  <2>3. CallInv'
    <3> SUFFICES ASSUME NEW d \in Context PROVE InCall(d)'
      BY DEF CallInv
    <3>1. CASE d = Reader
      BY <1>16, <3>1 DEF TypeOK, CallInv, InCall, Critical, PcLabel, CallRemove, Call
    <3>2. CASE d # Reader
      BY <1>16, <3>2 DEF TypeOK, CallInv, InCall, CallRemove, Call
    <3> QED  BY <3>1, <3>2
  <2>4. RingInv'
    BY <1>16 DEF TypeOK, RingInv, Stored, CallRemove, Call
  <2> QED  BY <2>1, <2>2, <2>3, <2>4
<1>17. ASSUME RemoveAdvance(Reader) PROVE IInv'
  <2>a. arg[Reader] \in Slot /\ arg[Reader] <= avail
    BY <1>17 DEF CallInv, InCall, RemoveAdvance
  <2>b. start' = IF start + arg[Reader] < QueueLength
                 THEN start + arg[Reader] ELSE start + arg[Reader] - QueueLength
    BY <1>17, <2>a, SumOfSlots DEF TypeOK, RemoveAdvance
  <2>c. start' \in Slot /\ avail' \in Slot
    <3>1. start' \in Slot
      BY <1>17, <2>a, SumOfSlots DEF TypeOK, RemoveAdvance
    <3>2. avail' = avail - arg[Reader]
      BY <1>17 DEF RemoveAdvance
    <3> QED  BY <2>a, <3>1, <3>2 DEF TypeOK, Slot, IndexRange
  <2>d. Stored' = Stored - arg[Reader]
    <3>1. end' = end /\ arg[Reader] <= Stored
      BY <1>17, <2>a, StoredInSlot DEF TypeOK, RingInv, Slot, RemoveAdvance
    <3> QED  BY <2>a, <2>b, <3>1 DEF TypeOK, Slot, Stored
  <2>1. TypeOK'
    BY <1>17, <2>c DEF TypeOK, PcLabel, RemoveAdvance
  <2>2. CoreInv'
    BY <1>17 DEF TypeOK, CoreInv, CallInv, InCall, Critical, RemoveAdvance
  <2>3. CallInv'
    <3> SUFFICES ASSUME NEW d \in Context PROVE InCall(d)'
      BY DEF CallInv
    <3>1. CASE d = Reader
      BY <1>17, <3>1 DEF TypeOK, CallInv, InCall, Critical, PcLabel, RemoveAdvance
    <3>2. CASE d # Reader
      BY <1>17, <3>2 DEF TypeOK, CallInv, InCall, RemoveAdvance
    <3> QED  BY <3>1, <3>2
  <2>4. RingInv'
    <3>1. avail' <= Stored'
      BY <1>17, <2>a, <2>d, StoredInSlot DEF TypeOK, RingInv, Slot, RemoveAdvance
    <3>2. pc'[Reader] = "restore"
      BY <1>17 DEF TypeOK, RemoveAdvance
    <3>3. ASSUME NEW d \in Context, d # Reader
          PROVE  pc'[d] = pc[d] /\ pc[d] \notin Critical /\ pc[d] # "read"
      BY <1>17, <3>3 DEF TypeOK, CoreInv, CallInv, InCall, RemoveAdvance
    <3> QED  BY <1>17, <3>1, <3>2, <3>3 DEF RingInv, Critical, RemoveAdvance
  <2> QED  BY <2>1, <2>2, <2>3, <2>4
<1>18. ASSUME NEW i \in Isr, EnterInterrupt(i) PROVE IInv'
  <2>1. TypeOK'
    BY <1>18 DEF TypeOK, PcLabel, EnterInterrupt
  <2>2. CoreInv'
    BY <1>18 DEF TypeOK, CoreInv, CallInv, InCall, Critical, EnterInterrupt
  <2>3. CallInv'
    BY <1>18 DEF CallInv, InCall, EnterInterrupt
  <2>4. RingInv'
    BY <1>18 DEF RingInv, Stored, EnterInterrupt
  <2> QED  BY <2>1, <2>2, <2>3, <2>4
<1>19. ASSUME NEW i \in Isr, ReturnFromInterrupt(i) PROVE IInv'
  <2>1. TypeOK'
    BY <1>19 DEF TypeOK, PcLabel, ReturnFromInterrupt
  <2>2. CoreInv'
    BY <1>19 DEF TypeOK, CoreInv, CallInv, InCall, Critical, ReturnFromInterrupt
  <2>3. CallInv'
    BY <1>19 DEF CallInv, InCall, ReturnFromInterrupt
  <2>4. RingInv'
    BY <1>19 DEF RingInv, Stored, ReturnFromInterrupt
  <2> QED  BY <2>1, <2>2, <2>3, <2>4
<1>20. ASSUME NEW on \in BOOLEAN, MainSetsInterrupt(on) PROVE IInv'
  <2>1. TypeOK'
    BY <1>20 DEF TypeOK, PcLabel, MainSetsInterrupt
  <2>2. CoreInv'
    BY <1>20 DEF TypeOK, CoreInv, CallInv, InCall, Critical, MainSetsInterrupt
  <2>3. CallInv'
    BY <1>20 DEF CallInv, InCall, MainSetsInterrupt
  <2>4. RingInv'
    BY <1>20 DEF RingInv, Stored, MainSetsInterrupt
  <2> QED  BY <2>1, <2>2, <2>3, <2>4
<1>21. CASE UNCHANGED vars
  BY <1>21 DEF TypeOK, CoreInv, CallInv, InCall, RingInv, Stored, vars
<1> QED
  BY <1>1, <1>2, <1>3, <1>4, <1>5, <1>6, <1>7, <1>8, <1>9, <1>10,
     <1>11, <1>12, <1>13, <1>14, <1>15, <1>16, <1>17, <1>18, <1>19, <1>20, <1>21
     DEF Next, Enqueue, Measure, Get, Remove, Guard, Core

(* It holds at the start. *)
LEMMA Start == Init => IInv
<1> SUFFICES ASSUME Init PROVE IInv
  OBVIOUS
<1>1. 0 \in Slot
  BY ZeroIsSlot
<1>2. Main \in Context /\ Main \notin Isr
  BY ContextAssumption DEF Context
<1>3. TypeOK
  BY <1>1, <1>2 DEF Init, TypeOK, PcLabel, Context
<1>4. CoreInv
  BY <1>2 DEF Init, CoreInv, Critical
<1>5. CallInv
  BY DEF Init, CallInv, InCall
<1>6. RingInv
  BY <1>1 DEF Init, RingInv, Stored
<1> QED  BY <1>3, <1>4, <1>5, <1>6 DEF IInv

-----------------------------------------------------------------------------
(* The inductive invariant holds of every behaviour. *)
THEOREM Invariance == Spec => []IInv
  BY Start, Step, PTL DEF Spec

(* bytequeue.c keeps its types and both indices inside the array, and each *)
(* context is at a label of the queue code that exists.                    *)
THEOREM TypeCorrect == Spec => []TypeOK
<1>1. IInv => TypeOK
  BY DEF IInv
<1> QED  BY <1>1, Invariance, PTL

(* store_and_clear_interrupt and restore_interrupt_setting exclude every   *)
(* other context from the queue, whatever number of interrupts there is.   *)
THEOREM Exclusion == Spec => []MutualExclusion
<1>1. IInv => MutualExclusion
  BY DEF IInv, CoreInv, MutualExclusion
<1> QED  BY <1>1, Invariance, PTL

(* No interrupt routine is interrupted, although each of them saves and    *)
(* restores the flag in every queue operation it calls.                    *)
THEOREM NoNesting == Spec => []NoNestedInterrupt
<1>1. IInv => NoNestedInterrupt
  BY DEF IInv, CoreInv, NoNestedInterrupt
<1> QED  BY <1>1, Invariance, PTL

(* The main program finds its interrupt flag as it had set it after every  *)
(* queue operation.                                                        *)
THEOREM SettingKept == Spec => []CallerSettingKept
<1>1. IInv => CallerSettingKept
  <2> SUFFICES ASSUME IInv, running = Main, pc[Main] = "idle" PROVE ie = callerIe
    BY DEF CallerSettingKept
  <2>1. ie <=> callerIe
    BY DEF IInv, CoreInv, Critical
  <2> QED  BY <2>1 DEF IInv, TypeOK
<1> QED  BY <1>1, Invariance, PTL

(* What the reader was told to be in the queue stays there until it        *)
(* removes it.                                                             *)
THEOREM KnownBytes == Spec => []KnownBytesStay
<1>1. IInv => KnownBytesStay
  BY DEF IInv, RingInv, KnownBytesStay
<1> QED  BY <1>1, Invariance, PTL

-----------------------------------------------------------------------------
(* ByteQueue implements BoundedFifo.  The step that moves an index, or     *)
(* reads one, is the instant at which the call takes effect; all other     *)
(* steps leave what the callers see unchanged.                             *)

(* An answer is there exactly at the last label of an operation. *)
ReplyInv ==
    /\ reply = [c \in Context |-> reply[c]]
    /\ \A c \in Context :
          reply[c] = Fifo!NoReply <=> pc[c] \notin {"restore", "return"}

-----------------------------------------------------------------------------
(* Sequences of one length with the same elements are equal. *)
LEMMA SameBytes ==
    ASSUME NEW S, NEW s \in Seq(S), NEW t \in Seq(S), NEW n \in Nat,
           Len(s) = n, Len(t) = n, \A i \in 1 .. n : s[i] = t[i]
    PROVE  s = t
  OBVIOUS

(* The slots of the bytes stored. *)

(* The i-th oldest byte is in a slot other than the free one at end. *)
LEMMA SlotOfByte ==
    ASSUME TypeOK, NEW i \in 1 .. Stored
    PROVE  /\ (start + i - 1) % QueueLength =
                IF start + i - 1 < QueueLength THEN start + i - 1 ELSE start + i - 1 - QueueLength
           /\ (start + i - 1) % QueueLength \in Slot
           /\ (start + i - 1) % QueueLength # end
<1>1. start \in Slot /\ end \in Slot /\ QueueLength \in Nat /\ i - 1 \in Slot
  BY QueueLengthAssumption, StoredInSlot DEF TypeOK, Slot, IndexRange
<1>2. (start + (i - 1)) % QueueLength =
        IF start + (i - 1) < QueueLength THEN start + (i - 1) ELSE start + (i - 1) - QueueLength
  BY <1>1, SumOfSlots
<1>3. start + (i - 1) = start + i - 1
  BY <1>1 DEF Slot
<1>4. (start + i - 1) % QueueLength =
        IF start + i - 1 < QueueLength THEN start + i - 1 ELSE start + i - 1 - QueueLength
  BY <1>2, <1>3
<1> DEFINE s == (start + i - 1) % QueueLength
<1>5. s = IF start + i - 1 < QueueLength THEN start + i - 1 ELSE start + i - 1 - QueueLength
  BY <1>4
<1> HIDE DEF s
<1>6. s \in Slot /\ s # end
  BY <1>1, <1>5 DEF Slot, Stored
<1> QED  BY <1>4, <1>6 DEF s

(* The free slot follows them. *)
LEMMA SlotAfterLast ==
    ASSUME TypeOK
    PROVE  (start + Stored) % QueueLength = end
<1>1. start \in Slot /\ end \in Slot /\ Stored \in Slot /\ QueueLength \in Nat
  BY StoredInSlot, QueueLengthAssumption DEF TypeOK, IndexRange
<1>2. (start + Stored) % QueueLength =
        IF start + Stored < QueueLength THEN start + Stored ELSE start + Stored - QueueLength
  BY <1>1, SumOfSlots
<1>3. (IF start + Stored < QueueLength THEN start + Stored ELSE start + Stored - QueueLength) = end
  BY <1>1 DEF Slot, Stored
<1> QED  BY <1>2, <1>3

(* Contents is a sequence of the bytes stored. *)
ContentsFact ==
    /\ Contents \in Seq(Item)
    /\ Len(Contents) = Stored
    /\ \A i \in 1 .. Stored : Contents[i] = data[(start + i - 1) % QueueLength]

LEMMA ContentsIs == TypeOK => ContentsFact
<1> SUFFICES ASSUME TypeOK PROVE ContentsFact
  OBVIOUS
<1>1. Stored \in Nat
  BY StoredInSlot DEF Slot
<1>2. \A i \in 1 .. Stored : data[(start + i - 1) % QueueLength] \in Item
  BY SlotOfByte DEF TypeOK
<1>3. Contents \in Seq(Item) /\ DOMAIN Contents = 1 .. Stored
  BY <1>1, <1>2 DEF Contents
<1> QED  BY <1>1, <1>3 DEF ContentsFact, Contents

(* The queue is full when the slot after the free one is the oldest byte's. *)
LEMMA FullIs ==
    ASSUME TypeOK
    PROVE  NextSlot(end) = start <=> Stored = QueueLength - 1
<1>1. start \in Slot /\ end \in Slot /\ QueueLength \in Nat /\ QueueLength > 0
  BY QueueLengthAssumption DEF TypeOK, IndexRange
<1>2. NextSlot(end) = IF end + 1 = QueueLength THEN 0 ELSE end + 1
  BY <1>1, NextSlotIs
<1> QED  BY <1>1, <1>2 DEF Slot, Stored

(* If the indices and the array stay, so do the contents. *)
LEMMA SameContents ==
    ASSUME UNCHANGED ring
    PROVE  Contents' = Contents
  BY DEF ring, Contents, Stored

(* Storing a byte in the free slot changes none of them. *)
LEMMA PutKeepsContents ==
    ASSUME TypeOK, NEW c, EnqueuePut(c)
    PROVE  Contents' = Contents
<1>1. start' = start /\ end' = end /\ Stored' = Stored
  BY DEF EnqueuePut, Stored
<1>2. \A i \in 1 .. Stored :
        data'[(start + i - 1) % QueueLength] = data[(start + i - 1) % QueueLength]
  BY SlotOfByte DEF TypeOK, EnqueuePut
<1> QED  BY <1>1, <1>2 DEF Contents

(* Moving end appends the byte in the free slot. *)
LEMMA PublishAppends ==
    ASSUME IInv, IInv', NEW c \in Context, EnqueuePublish(c)
    PROVE  /\ Stored < QueueLength - 1
           /\ Contents' = Append(Contents, arg[c])
<1>1. TypeOK /\ TypeOK' /\ NextSlot(end) # start /\ data[end] = arg[c]
  BY DEF IInv, RingInv, EnqueuePublish, At
<1>2. start' = start /\ data' = data /\ end' = NextSlot(end)
  BY DEF EnqueuePublish
<1>3. Stored \in Slot /\ QueueLength \in Nat /\ start \in Slot /\ end \in Slot
  BY <1>1, StoredInSlot, QueueLengthAssumption DEF TypeOK, IndexRange
<1>4. Stored < QueueLength - 1
  BY <1>1, <1>3, FullIs DEF Slot
<1>5. Stored' = Stored + 1
  <2>1. end' = IF end + 1 = QueueLength THEN 0 ELSE end + 1
    BY <1>2, <1>3, NextSlotIs
  <2> QED  BY <1>1, <1>2, <1>3, <2>1 DEF Stored, Slot
<1>6. Contents' = [i \in 1 .. Stored + 1 |-> data[(start + i - 1) % QueueLength]]
  BY <1>2, <1>5 DEF Contents
<1>7. data[(start + (Stored + 1) - 1) % QueueLength] = arg[c]
  <2>1. start + (Stored + 1) - 1 = start + Stored
    BY <1>3 DEF Slot
  <2> QED  BY <1>1, <2>1, SlotAfterLast
<1>8. Contents \in Seq(Item) /\ Len(Contents) = Stored
      /\ \A i \in 1 .. Stored : Contents[i] = data[(start + i - 1) % QueueLength]
  BY <1>1, ContentsIs DEF ContentsFact
<1>9. Contents' \in Seq(Item) /\ Len(Contents') = Stored + 1
  <2>1. TypeOK' => ContentsFact'
    BY ContentsIs, PTL
  <2> QED  BY <1>1, <1>5, <2>1 DEF ContentsFact
<1>10. arg[c] \in Item
  BY DEF IInv, CallInv, InCall, EnqueuePublish, At
<1>11. \A i \in 1 .. Stored + 1 : Contents'[i] = Append(Contents, arg[c])[i]
  <2> SUFFICES ASSUME NEW i \in 1 .. Stored + 1
               PROVE  Contents'[i] = Append(Contents, arg[c])[i]
    OBVIOUS
  <2>1. CASE i = Stored + 1
    BY <1>3, <1>6, <1>7, <1>8, <1>10, <2>1, SMTT(30) DEF Slot
  <2>2. CASE i \in 1 .. Stored
    BY <1>3, <1>6, <1>8, <1>10, <2>2 DEF Slot
  <2>3. i = Stored + 1 \/ i \in 1 .. Stored
    BY <1>3 DEF Slot
  <2> QED  BY <2>1, <2>2, <2>3
<1>12. Append(Contents, arg[c]) \in Seq(Item) /\ Len(Append(Contents, arg[c])) = Stored + 1
  BY <1>8, <1>10
<1> QED  BY <1>3, <1>4, <1>9, <1>11, <1>12, SameBytes DEF Slot

(* Moving start drops the oldest bytes. *)
LEMMA AdvanceDrops ==
    ASSUME IInv, IInv', RemoveAdvance(Reader)
    PROVE  /\ arg[Reader] <= Len(Contents)
           /\ Contents' = SubSeq(Contents, arg[Reader] + 1, Len(Contents))
<1> DEFINE n == arg[Reader]
<1>1. TypeOK /\ TypeOK' /\ n \in Slot /\ n <= avail /\ avail <= Stored
  <2>1. TypeOK /\ TypeOK' /\ avail <= Stored
    BY DEF IInv, RingInv
  <2>2. Reader \in Context /\ pc[Reader] = "advance"
    BY ContextAssumption DEF RemoveAdvance, At
  <2>3. n \in Slot /\ n <= avail
    BY <2>2 DEF IInv, CallInv, InCall
  <2> QED  BY <2>1, <2>3
<1>2. start' = (start + n) % QueueLength /\ end' = end /\ data' = data
  BY DEF RemoveAdvance
<1>3. Stored \in Slot /\ QueueLength \in Nat /\ start \in Slot /\ end \in Slot
  BY <1>1, StoredInSlot, QueueLengthAssumption DEF TypeOK, IndexRange
<1> HIDE DEF n
<1>4. start' = IF start + n < QueueLength THEN start + n ELSE start + n - QueueLength
  BY <1>1, <1>2, <1>3, SumOfSlots
<1>5. n <= Stored
  BY <1>1, <1>3 DEF Slot, TypeOK
<1>6. Stored' = Stored - n
  BY <1>1, <1>2, <1>3, <1>4, <1>5 DEF Stored, Slot
<1>7. Contents \in Seq(Item) /\ Len(Contents) = Stored
      /\ \A i \in 1 .. Stored : Contents[i] = data[(start + i - 1) % QueueLength]
  BY <1>1, ContentsIs DEF ContentsFact
<1>8. /\ Contents' \in Seq(Item) /\ Len(Contents') = Stored'
      /\ \A i \in 1 .. Stored' : Contents'[i] = data'[(start' + i - 1) % QueueLength]
  <2>1. TypeOK' => ContentsFact'
    BY ContentsIs, PTL
  <2> QED  BY <1>1, <2>1 DEF ContentsFact
<1>9. ASSUME NEW i \in 1 .. Stored - n
      PROVE  Contents'[i] = Contents[i + n]
  <2>1. i + n \in 1 .. Stored /\ i \in 1 .. Stored' /\ i - 1 \in Slot
    BY <1>1, <1>3, <1>5, <1>6 DEF Slot
  <2>2. (start + (i + n) - 1) % QueueLength = (start' + i - 1) % QueueLength
    <3> DEFINE s == (start + (i + n) - 1) % QueueLength
               t == (start' + i - 1) % QueueLength
    <3>1. s = IF start + (i + n) - 1 < QueueLength
              THEN start + (i + n) - 1 ELSE start + (i + n) - 1 - QueueLength
      BY <1>1, <2>1, SlotOfByte
    <3>2. t = IF start' + i - 1 < QueueLength
              THEN start' + i - 1 ELSE start' + i - 1 - QueueLength
      <4>1. start' + (i - 1) = start' + i - 1 /\ start' \in Slot
        BY <1>1 DEF TypeOK, Slot
      <4>2. (start' + (i - 1)) % QueueLength = IF start' + (i - 1) < QueueLength
              THEN start' + (i - 1) ELSE start' + (i - 1) - QueueLength
        BY <2>1, <4>1, SumOfSlots
      <4> QED  BY <4>1, <4>2
    <3> HIDE DEF s, t
    <3>3. s = t
      BY <1>1, <1>3, <1>4, <1>5, <2>1, <3>1, <3>2 DEF Slot
    <3> QED  BY <3>3 DEF s, t
  <2>3. Contents'[i] = data[(start' + i - 1) % QueueLength]
    BY <1>2, <1>8, <2>1
  <2>4. Contents[i + n] = data[(start + (i + n) - 1) % QueueLength]
    BY <1>7, <2>1
  <2> QED  BY <2>2, <2>3, <2>4
<1> DEFINE rest == SubSeq(Contents, n + 1, Len(Contents))
<1>10. /\ rest \in Seq(Item) /\ Len(rest) = Stored - n
       /\ \A i \in 1 .. Stored - n : rest[i] = Contents[i + n]
  <2>1. n + 1 \in 1 .. Len(Contents) + 1 /\ Len(Contents) \in (n + 1) - 1 .. Len(Contents)
    BY <1>1, <1>3, <1>5, <1>7 DEF Slot
  <2>2. /\ rest \in Seq(Item) /\ Len(rest) = Len(Contents) - (n + 1) + 1
        /\ \A i \in 1 .. Len(Contents) - (n + 1) + 1 : rest[i] = Contents[(n + 1) + i - 1]
    BY <1>7, <2>1, SubSeqProperties
  <2> HIDE DEF rest
  <2>3. Len(Contents) - (n + 1) + 1 = Stored - n
    BY <1>1, <1>3, <1>7 DEF Slot
  <2>4. \A i \in 1 .. Stored - n : (n + 1) + i - 1 = i + n
    BY <1>1, <1>3 DEF Slot
  <2> QED  BY <2>2, <2>3, <2>4
<1> HIDE DEF rest
<1>11. Contents' = rest
  <2>1. \A i \in 1 .. Stored - n : Contents'[i] = rest[i]
    BY <1>9, <1>10
  <2>2. Stored - n \in Nat
    BY <1>1, <1>3, <1>5 DEF Slot
  <2> QED  BY <1>6, <1>8, <1>10, <2>1, <2>2, SameBytes
<1> QED  BY <1>5, <1>7, <1>11 DEF n, rest

-----------------------------------------------------------------------------
(* Answers. *)

(* No answer is mistaken for none. *)
LEMMA AnswersAreReplies ==
    /\ Fifo!Stored # Fifo!NoReply /\ Fifo!Full # Fifo!NoReply /\ Fifo!Removed # Fifo!NoReply
    /\ \A x : Fifo!Length(x) # Fifo!NoReply /\ Fifo!Byte(x) # Fifo!NoReply
  BY DEF Fifo!Stored, Fifo!Full, Fifo!Removed, Fifo!Length, Fifo!Byte, Fifo!NoReply

(* A context that stops at the last label with an answer. *)
LEMMA AnswerKeepsReplyInv ==
    ASSUME ReplyInv, NEW c \in Context, NEW r, r # Fifo!NoReply, Answer(c, r),
           pc \in [Context -> PcLabel], NEW l \in {"restore", "return"}, Goto(c, l)
    PROVE  ReplyInv'
  BY DEF ReplyInv, Answer, Goto

(* ReplyInv is an invariant. *)
LEMMA ReplyStart == Init => ReplyInv
  BY DEF Init, ReplyInv

(* It is kept by every step; IInv says which operation a context is in. *)
LEMMA ReplyStep == IInv /\ ReplyInv /\ [Next]_vars => ReplyInv'
<1> SUFFICES ASSUME IInv, ReplyInv, [Next]_vars PROVE ReplyInv'
  OBVIOUS
<1> USE DEF At
<1>1. pc \in [Context -> PcLabel] /\ Reader \in Context /\ Main \in Context
  BY ContextAssumption DEF IInv, TypeOK, Context
<1>2. ASSUME NEW c \in Context,
             \/ (\E x \in Item : CallEnqueue(c, x)) \/ CallLength(c)
             \/ (\E i \in Slot : CallGet(c, i)) \/ (\E n \in Slot : CallRemove(c, n))
      PROVE  ReplyInv'
  BY <1>1, <1>2 DEF ReplyInv, Goto, CallEnqueue, CallLength, CallGet, CallRemove, Call
<1>3. ASSUME NEW c \in Context, StoreSetting(c) \/ EnqueuePut(c) \/ LengthCompare(c)
      PROVE  ReplyInv'
  BY <1>1, <1>3 DEF ReplyInv, Goto, StoreSetting, EnqueuePut, LengthCompare
<1>4. ASSUME NEW c \in Context, ClearInterrupt(c) PROVE ReplyInv'
  <2>1. Body[op[c]] \notin {"restore", "return"}
    <3>1. op[c] \in {"enqueue", "length", "remove"}
      BY <1>4 DEF IInv, CallInv, InCall, ClearInterrupt
    <3> QED  BY <3>1 DEF Body
  <2> QED  BY <1>1, <1>4, <2>1 DEF ReplyInv, Goto, ClearInterrupt
<1>5. ASSUME NEW c \in Context, EnqueueTest(c) \/ EnqueuePublish(c)
      PROVE  ReplyInv'
  <2>1. CASE EnqueuePublish(c) \/ (EnqueueTest(c) /\ NextSlot(end) = start)
    BY <1>1, <2>1, AnswersAreReplies, AnswerKeepsReplyInv DEF EnqueueTest, EnqueuePublish
  <2>2. CASE EnqueueTest(c) /\ NextSlot(end) # start
    BY <1>1, <2>2 DEF ReplyInv, Goto, EnqueueTest
  <2> QED  BY <1>5, <2>1, <2>2
<1>6. ASSUME NEW c \in Context, LengthFlat(c) \/ LengthWrapped(c)
      PROVE  ReplyInv'
  BY <1>1, <1>6, AnswersAreReplies, AnswerKeepsReplyInv DEF LengthFlat, LengthWrapped, LengthIs
<1>7. CASE GetAddress(Reader)
  BY <1>1, <1>7 DEF ReplyInv, Goto, GetAddress
<1>8. CASE GetRead(Reader) \/ RemoveAdvance(Reader)
  BY <1>1, <1>8, AnswersAreReplies, AnswerKeepsReplyInv DEF GetRead, RemoveAdvance
<1>9. ASSUME NEW c \in Context, RestoreSetting(c) \/ GetReturn(c)
      PROVE  ReplyInv'
  BY <1>1, <1>9 DEF ReplyInv, Goto, RestoreSetting, GetReturn, Leave, Answer
<1>10. CASE Core \/ UNCHANGED vars
  BY <1>10 DEF ReplyInv, Goto, Core, EnterInterrupt, ReturnFromInterrupt, MainSetsInterrupt, vars
<1> QED
  BY <1>1, <1>2, <1>3, <1>4, <1>5, <1>6, <1>7, <1>8, <1>9, <1>10
     DEF Next, Enqueue, Measure, Get, Remove, Guard

-----------------------------------------------------------------------------
(* Every step of the program is a step of the FIFO or leaves it alone. *)

(* The start. *)
LEMMA InitRefines == Init => Fifo!Init
<1> SUFFICES ASSUME Init PROVE Fifo!Init
  OBVIOUS
<1>1. Stored = 0
  BY DEF Init, Stored
<1>2. Contents = <<>>
  BY <1>1 DEF Contents
<1>3. InProgress = [c \in Context |-> Fifo!NoRequest]
  BY DEF Init, InProgress, Fifo!NoRequest
<1> QED  BY <1>2, <1>3 DEF Init, Fifo!Init

(* A context that calls an operation. *)
LEMMA CallRefines ==
    ASSUME IInv, NEW c \in Context, NEW o, NEW a, NEW l, Call(c, o, a, l),
           o # "none", <<o, a>> \in Fifo!Request
    PROVE  Fifo!Next
<1>1. InProgress[c] = Fifo!NoRequest
  BY DEF IInv, CallInv, InCall, Call, At, InProgress, Fifo!NoRequest
<1>2. InProgress' = [InProgress EXCEPT ![c] = <<o, a>>]
  BY DEF IInv, TypeOK, Call, InProgress
<1>3. Contents' = Contents /\ reply' = reply
  BY SameContents DEF Call
<1>4. Fifo!Call(c, <<o, a>>)
  BY <1>1, <1>2, <1>3 DEF Fifo!Call
<1> QED  BY <1>4 DEF Fifo!Next

(* A context that returns from one. *)
LEMMA LeaveRefines ==
    ASSUME IInv, ReplyInv, NEW c \in Context, Leave(c), pc[c] \in {"restore", "return"}
    PROVE  Fifo!Next
<1>1. reply[c] # Fifo!NoReply
  BY DEF ReplyInv
<1>2. InProgress' = [InProgress EXCEPT ![c] = Fifo!NoRequest]
  BY DEF IInv, TypeOK, Leave, InProgress, Fifo!NoRequest
<1>3. Contents' = Contents
  BY SameContents DEF Leave
<1>4. Fifo!Return(c)
  BY <1>1, <1>2, <1>3 DEF Fifo!Return, Leave, Answer
<1> QED  BY <1>4 DEF Fifo!Next

(* Any step. *)
LEMMA StepRefines ==
    IInv /\ IInv' /\ ReplyInv /\ [Next]_vars => [Fifo!Next]_(Fifo!fifo)
<1> SUFFICES ASSUME IInv, IInv', ReplyInv, [Next]_vars
             PROVE  Fifo!Next \/ UNCHANGED Fifo!fifo
  OBVIOUS
<1> USE DEF At, Goto, frame
<1>1. TypeOK /\ Reader \in Context /\ QueueLength \in Nat /\ QueueLength > 0
  BY ContextAssumption, QueueLengthAssumption DEF IInv, IndexRange
<1>2. ContentsFact
  BY <1>1, ContentsIs
<1> DEFINE Pending(c, o) == reply[c] = Fifo!NoReply /\ op[c] = o
<1>3. ASSUME NEW c \in Context, NEW o, o # "none", Pending(c, o)
      PROVE  Fifo!Pending(c, o) /\ InProgress[c] = <<o, arg[c]>>
  BY <1>3 DEF InProgress, Fifo!Pending, Fifo!NoRequest
<1>4. op' = op /\ arg' = arg => InProgress' = InProgress
  BY DEF InProgress
<1>5. ASSUME NEW c \in Context, NEW x \in Item, CallEnqueue(c, x) PROVE Fifo!Next
  BY <1>5, CallRefines DEF CallEnqueue, Fifo!Request
<1>6. ASSUME NEW c \in Context, CallLength(c) PROVE Fifo!Next
  BY <1>6, CallRefines DEF CallLength, Fifo!Request
<1>7. ASSUME NEW i \in Slot, CallGet(Reader, i) \/ CallRemove(Reader, i) PROVE Fifo!Next
  <2>1. i \in 0 .. QueueLength - 1
    BY DEF Slot
  <2> QED  BY <1>1, <1>7, <2>1, CallRefines DEF CallGet, CallRemove, Fifo!Request
<1>8. ASSUME NEW c \in Context, RestoreSetting(c) PROVE Fifo!Next
  BY <1>8, LeaveRefines DEF RestoreSetting
<1>9. ASSUME GetReturn(Reader) PROVE Fifo!Next
  BY <1>1, <1>9, LeaveRefines DEF GetReturn
<1>10. ASSUME NEW c \in Context, EnqueueTest(c) PROVE Fifo!Next \/ UNCHANGED Fifo!fifo
  <2>1. Contents' = Contents /\ InProgress' = InProgress
    BY <1>4, <1>10, SameContents DEF EnqueueTest
  <2>2. CASE NextSlot(end) = start
    <3>1. reply' = [reply EXCEPT ![c] = Fifo!Full]
      BY <1>10, <2>2 DEF EnqueueTest, Answer
    <3>2. Len(Contents) = QueueLength - 1
      BY <1>1, <1>2, <2>2, FullIs DEF ContentsFact
    <3>3. Pending(c, "enqueue")
      BY <1>10 DEF EnqueueTest, ReplyInv, IInv, CallInv, InCall
    <3>4. Fifo!Put(c)
      BY <1>3, <2>1, <3>1, <3>2, <3>3 DEF Fifo!Put, Fifo!Answer
    <3> QED  BY <3>4 DEF Fifo!Next
  <2>3. CASE NextSlot(end) # start
    BY <1>10, <2>1, <2>3 DEF EnqueueTest, Fifo!fifo
  <2> QED  BY <2>2, <2>3
<1>11. ASSUME NEW c \in Context, EnqueuePut(c) PROVE UNCHANGED Fifo!fifo
  BY <1>1, <1>4, <1>11, PutKeepsContents DEF EnqueuePut, Fifo!fifo
<1>12. ASSUME NEW c \in Context, EnqueuePublish(c) PROVE Fifo!Next
  <2>1. Pending(c, "enqueue")
    BY <1>12 DEF EnqueuePublish, ReplyInv, IInv, CallInv, InCall
  <2>2. Len(Contents) < QueueLength - 1 /\ Contents' = Append(Contents, arg[c])
    BY <1>2, <1>12, PublishAppends DEF ContentsFact
  <2>3. reply' = [reply EXCEPT ![c] = Fifo!Stored] /\ InProgress' = InProgress
    BY <1>4, <1>12 DEF EnqueuePublish, Answer
  <2>4. Fifo!Put(c)
    BY <1>3, <2>1, <2>2, <2>3 DEF Fifo!Put, Fifo!Answer
  <2> QED  BY <2>4 DEF Fifo!Next
<1>13. ASSUME NEW c \in Context, LengthFlat(c) \/ LengthWrapped(c) PROVE Fifo!Next
  <2>1. Pending(c, "length")
    BY <1>13 DEF LengthFlat, LengthWrapped, ReplyInv, IInv, CallInv, InCall
  <2>2. Contents' = Contents /\ InProgress' = InProgress
    BY <1>4, <1>13, SameContents DEF LengthFlat, LengthWrapped, LengthIs
  <2>3. reply' = [reply EXCEPT ![c] = Fifo!Length(Stored)]
    <3>1. CASE LengthFlat(c)
      <4>1. end >= start
        BY <3>1 DEF IInv, RingInv, LengthFlat
      <4>2. Stored = end - start
        BY <4>1 DEF Stored
      <4>3. (end - start) % IndexRange = Stored
        BY <1>1, <4>2, StoredInSlot, InByte, QueueLengthAssumption DEF Slot, IndexRange
      <4> QED  BY <3>1, <4>3 DEF LengthFlat, LengthIs, Answer
    <3>2. CASE LengthWrapped(c)
      <4>1. end < start
        BY <3>2 DEF IInv, RingInv, LengthWrapped
      <4>2. Stored = QueueLength - start + end
        BY <1>1, <4>1 DEF TypeOK, Slot, Stored
      <4>3. (QueueLength - start + end) % IndexRange = Stored
        BY <1>1, <4>2, StoredInSlot, InByte, QueueLengthAssumption DEF Slot, IndexRange
      <4> QED  BY <3>2, <4>3 DEF LengthWrapped, LengthIs, Answer
    <3> QED  BY <1>13, <3>1, <3>2
  <2>4. Fifo!Count(c)
    BY <1>2, <1>3, <2>1, <2>2, <2>3 DEF ContentsFact, Fifo!Count, Fifo!Answer
  <2> QED  BY <2>4 DEF Fifo!Next
<1>14. ASSUME GetRead(Reader) PROVE Fifo!Next
  <2>1. Pending(Reader, "get")
    BY <1>1, <1>14 DEF GetRead, ReplyInv, IInv, CallInv, InCall
  <2>2. arg[Reader] \in Slot /\ arg[Reader] < Stored
    <3>1. arg[Reader] \in Slot /\ arg[Reader] < avail /\ avail <= Stored
      BY <1>1, <1>14 DEF GetRead, IInv, CallInv, InCall, RingInv
    <3> QED  BY <1>1, <3>1, StoredInSlot DEF TypeOK, Slot
  <2>3. data[slot] = Contents[arg[Reader] + 1]
    <3>1. slot = (start + arg[Reader]) % QueueLength
      BY <1>1, <1>14 DEF GetRead, IInv, RingInv
    <3>2. arg[Reader] + 1 \in 1 .. Stored /\ start + (arg[Reader] + 1) - 1 = start + arg[Reader]
      BY <1>1, <2>2, StoredInSlot DEF TypeOK, Slot
    <3> QED  BY <1>2, <3>1, <3>2 DEF ContentsFact
  <2>4. Contents' = Contents /\ InProgress' = InProgress
    BY <1>4, <1>14, SameContents DEF GetRead
  <2>5. reply' = [reply EXCEPT ![Reader] = Fifo!Byte(Contents[arg[Reader] + 1])]
    BY <1>14, <2>3 DEF GetRead, Answer
  <2>6. Fifo!Pending(Reader, "get") /\ InProgress[Reader][2] = arg[Reader]
    BY <1>1, <1>3, <2>1
  <2>7. Fifo!Peek(Reader)
    BY <1>2, <2>2, <2>4, <2>5, <2>6 DEF ContentsFact, Fifo!Peek, Fifo!Answer
  <2> QED  BY <1>1, <2>7 DEF Fifo!Next
<1>15. ASSUME RemoveAdvance(Reader) PROVE Fifo!Next
  <2>1. Pending(Reader, "remove")
    BY <1>1, <1>15 DEF RemoveAdvance, ReplyInv, IInv, CallInv, InCall
  <2>2. /\ arg[Reader] <= Len(Contents)
        /\ Contents' = SubSeq(Contents, arg[Reader] + 1, Len(Contents))
    BY <1>15, AdvanceDrops
  <2>3. reply' = [reply EXCEPT ![Reader] = Fifo!Removed] /\ InProgress' = InProgress
    BY <1>4, <1>15 DEF RemoveAdvance, Answer
  <2>4. Fifo!Pending(Reader, "remove") /\ InProgress[Reader][2] = arg[Reader]
    BY <1>1, <1>3, <2>1
  <2>5. Fifo!Drop(Reader)
    BY <2>2, <2>3, <2>4 DEF Fifo!Drop, Fifo!Answer
  <2> QED  BY <1>1, <2>5 DEF Fifo!Next
<1>16. ASSUME NEW c \in Context,
              \/ StoreSetting(c) \/ ClearInterrupt(c) \/ LengthCompare(c) \/ GetAddress(c)
              \/ Core \/ UNCHANGED vars
       PROVE  UNCHANGED Fifo!fifo
  <2>1. UNCHANGED <<ring, op, arg, reply>>
    BY <1>16 DEF StoreSetting, ClearInterrupt, LengthCompare, GetAddress, Core,
         EnterInterrupt, ReturnFromInterrupt, MainSetsInterrupt, vars
  <2> QED  BY <1>4, <2>1, SameContents DEF Fifo!fifo
<1> QED
  BY <1>1, <1>5, <1>6, <1>7, <1>8, <1>9, <1>10, <1>11, <1>12, <1>13, <1>14, <1>15, <1>16
     DEF Next, Enqueue, Measure, Get, Remove, Guard

(* bytequeue.c is a bounded FIFO to all its callers: whatever the          *)
(* interleaving of the main program with any number of interrupt routines, *)
(* each call takes effect at one instant.                                  *)
THEOREM Refinement == Spec => ImplementsFifo
<1>1. IInv /\ ReplyInv /\ [Next]_vars => (IInv /\ ReplyInv)'
  BY Step, ReplyStep
<1>2. Init => IInv /\ ReplyInv
  BY Start, ReplyStart
<1>3. Spec => [](IInv /\ ReplyInv)
  BY <1>1, <1>2, PTL DEF Spec
<1> QED
  BY <1>3, InitRefines, StepRefines, PTL DEF Spec, ImplementsFifo, Fifo!Spec
=============================================================================
