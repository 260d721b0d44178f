-------------------------- MODULE SerialMidiProofs --------------------------
(***************************************************************************)
(* Proofs about SerialMidi and SerialWire, for both USARTs, every size of  *)
(* queue and every set of messages: no byte waits without its interrupt,   *)
(* the port implements the safety part of SerialLine, and what the         *)
(* receiver hears is what was whole in the queue.                          *)
(***************************************************************************)
EXTENDS SerialWire, SequenceTheorems, TLAPS

LineByte == Byte \cup {Empty}

Types ==
    /\ queue \in Seq(Byte) /\ Len(queue) < QueueLength
    /\ udrie \in BOOLEAN /\ ie \in BOOLEAN
    /\ udr \in LineByte /\ shift \in LineByte
    /\ at \in {"outside", "byte0", "byte1", "byte2", "enable"}
    /\ at # "outside" => outgoing \in MainMessage

IInv == Types /\ NoLostWakeup

-----------------------------------------------------------------------------
(* Putting bytes into the queue. *)

LEMMA MessageBytes ==
    ASSUME NEW m \in MainMessage \cup IsrMessage
    PROVE  m.bytes[1] \in Byte /\ m.bytes[2] \in Byte /\ m.bytes[3] \in Byte
<1>1. m.bytes \in [1 .. 3 -> Byte]
  BY MessageAssumption
<1> QED  BY <1>1

(* One byte: stored at the end or not at all. *)
LEMMA EnqueuedIs ==
    ASSUME NEW q \in Seq(Byte), Len(q) < QueueLength, NEW b \in Byte
    PROVE  /\ Enqueued(q, b) \in Seq(Byte) /\ Len(Enqueued(q, b)) < QueueLength
           /\ Enqueued(q, b) # <<>>
           /\ Enqueued(q, b) = q \/ Enqueued(q, b) = q \o <<b>>
<1>1. QueueLength \in 2 .. 255
  BY OutputQueueAssumption
<1>2. CASE Len(q) < QueueLength - 1
  <2>1. Append(q, b) = q \o <<b>> /\ Append(q, b) \in Seq(Byte) /\ Len(Append(q, b)) = Len(q) + 1
    BY AppendProperties, AppendIsConcat
  <2>2. Append(q, b) # <<>>
    BY AppendProperties
  <2>3. Enqueued(q, b) = Append(q, b) /\ Len(q) + 1 < QueueLength
    BY <1>1, <1>2, LenProperties DEF Enqueued
  <2> QED  BY <2>1, <2>2, <2>3
<1>3. CASE ~(Len(q) < QueueLength - 1)
  <2>1. Enqueued(q, b) = q /\ q # <<>>
    BY <1>1, <1>3 DEF Enqueued
  <2> QED  BY <2>1
<1> QED  BY <1>2, <1>3

(* A whole message: its bytes from the first to some last one, or fewer.   *)
LEMMA EnqueuedMessageIs ==
    ASSUME queue \in Seq(Byte), Len(queue) < QueueLength, NEW m \in IsrMessage
    PROVE  /\ EnqueuedMessage(m) \in Seq(Byte) /\ Len(EnqueuedMessage(m)) < QueueLength
           /\ \E s \in Seq(Byte) : Len(s) <= 3 /\ EnqueuedMessage(m) = queue \o s
<1> DEFINE one == Enqueued(queue, m.bytes[1])
           two == IF m.cnt > 1 THEN Enqueued(one, m.bytes[2]) ELSE one
           all == IF m.cnt = 3 THEN Enqueued(two, m.bytes[3]) ELSE two
           Extends(q, n) == /\ q \in Seq(Byte) /\ Len(q) < QueueLength
                            /\ \E s \in Seq(Byte) : Len(s) <= n /\ q = queue \o s
<1>1. m.bytes[1] \in Byte /\ m.bytes[2] \in Byte /\ m.bytes[3] \in Byte
  BY MessageBytes
<1>2. ASSUME NEW q, NEW n \in 0 .. 2, Extends(q, n), NEW b \in Byte
      PROVE  Extends(Enqueued(q, b), n + 1) /\ Extends(q, n + 1)
  <2>1. PICK s \in Seq(Byte) : Len(s) <= n /\ q = queue \o s
    BY <1>2
  <2>2. q \in Seq(Byte) /\ Len(q) < QueueLength /\ Len(s) \in Nat
    BY <1>2, LenProperties
  <2>3. Enqueued(q, b) \in Seq(Byte) /\ Len(Enqueued(q, b)) < QueueLength
    BY <2>2, EnqueuedIs
  <2>4. Extends(q, n + 1)
    BY <2>1, <2>2
  <2>5. CASE Enqueued(q, b) = q
    BY <2>4, <2>5
  <2>6. CASE Enqueued(q, b) = q \o <<b>>
    <3>1. <<b>> \in Seq(Byte) /\ Len(<<b>>) = 1
      OBVIOUS
    <3>2. s \o <<b>> \in Seq(Byte) /\ Len(s \o <<b>>) = Len(s) + 1
      BY <3>1, ConcatProperties
    <3>3. Enqueued(q, b) = queue \o (s \o <<b>>)
      BY <2>1, <2>6, <3>1, ConcatAssociative
    <3>4. Len(s \o <<b>>) <= n + 1
      BY <2>1, <2>2, <3>2
    <3> QED  BY <2>3, <2>4, <3>2, <3>3, <3>4
  <2> QED  BY <2>2, <2>4, <2>5, <2>6, EnqueuedIs
<1>3. Extends(queue, 0)
  <2>1. queue = queue \o <<>> /\ <<>> \in Seq(Byte) /\ Len(<<>>) <= 0
    BY ConcatEmptySeq
  <2> QED  BY <2>1
<1> HIDE DEF Extends
<1>4. 0 + 1 = 1 /\ 1 + 1 = 2 /\ 2 + 1 = 3
  OBVIOUS
<1>5. Extends(one, 1)
  BY <1>1, <1>2, <1>3, <1>4
<1>6. Extends(two, 2)
  BY <1>1, <1>2, <1>4, <1>5
<1>7. Extends(all, 3)
  BY <1>1, <1>2, <1>4, <1>6
<1>8. EnqueuedMessage(m) = all
  BY DEF EnqueuedMessage
<1> HIDE DEF all
<1> QED  BY <1>7, <1>8 DEF Extends

-----------------------------------------------------------------------------
(* No step breaks the invariant. *)

(* Only the call in progress is under way outside of "outside".            *)
LEMMA SendStepKeeps == ASSUME IInv, SendStep PROVE IInv'
<1> USE DEF IInv
<1>1. outgoing \in MainMessage /\ at # "outside"
  BY DEF Types, SendStep, EnqueueByte0, EnqueueByte1, EnqueueByte2, EnableTransmit
<1>2. outgoing.bytes[1] \in Byte /\ outgoing.bytes[2] \in Byte /\ outgoing.bytes[3] \in Byte
  BY <1>1, MessageBytes
<1>3. ASSUME NEW b \in Byte, queue' = Enqueued(queue, b)
      PROVE  queue' \in Seq(Byte) /\ Len(queue') < QueueLength
  BY <1>3, EnqueuedIs DEF Types
<1>4. CASE EnqueueByte0
  BY <1>1, <1>2, <1>3, <1>4 DEF EnqueueByte0, Types, NoLostWakeup
<1>5. CASE EnqueueByte1
  BY <1>1, <1>2, <1>3, <1>5 DEF EnqueueByte1, Types, NoLostWakeup
<1>6. CASE EnqueueByte2
  BY <1>1, <1>2, <1>3, <1>6 DEF EnqueueByte2, Types, NoLostWakeup
<1>7. CASE EnableTransmit
  BY <1>1, <1>7 DEF EnableTransmit, Types, NoLostWakeup
<1> QED  BY <1>4, <1>5, <1>6, <1>7 DEF SendStep

LEMMA TransmitKeeps == ASSUME IInv, TransmitInterrupt PROVE IInv'
<1> USE DEF IInv
<1>1. CASE TransmitByte
  <2>1. queue' \in Seq(Byte) /\ Len(queue') < QueueLength /\ udr' \in LineByte
    <3>1. queue \in Seq(Byte) /\ queue # <<>> /\ Len(queue) < QueueLength /\ QueueLength \in Nat
      BY <1>1, OutputQueueAssumption DEF TransmitByte, Types
    <3>2. Head(queue) \in Byte /\ Tail(queue) \in Seq(Byte) /\ Len(Tail(queue)) = Len(queue) - 1
      BY <3>1, HeadTailProperties
    <3>3. Len(queue) \in Nat
      BY <3>1, LenProperties
    <3> QED  BY <1>1, <3>1, <3>2, <3>3 DEF TransmitByte, LineByte
  <2>2. udrie' = (queue' # <<>>) \/ udrie' = TRUE
    BY <1>1 DEF TransmitInterrupt, TransmitInterrupt0, TransmitInterrupt1, TransmitByte, Stop
  <2> QED  BY <2>1, <2>2 DEF TransmitInterrupt, sending, Types, NoLostWakeup
<1>2. CASE Stop
  BY <1>2 DEF TransmitInterrupt, Stop, sending, Types, NoLostWakeup
<1> QED  BY <1>1, <1>2 DEF TransmitInterrupt, TransmitInterrupt0, TransmitInterrupt1

LEMMA Step == IInv /\ [Next]_vars => IInv'
<1> SUFFICES ASSUME IInv, [Next]_vars PROVE IInv'
  OBVIOUS
<1> USE DEF IInv
<1>1. ASSUME NEW m \in MainMessage, CallSend(m) PROVE IInv'
  BY <1>1 DEF CallSend, port, Types, NoLostWakeup
<1>2. ASSUME NEW m \in IsrMessage, InterruptSends(m) PROVE IInv'
  <2>1. queue' \in Seq(Byte) /\ Len(queue') < QueueLength
    BY <1>2, EnqueuedMessageIs DEF InterruptSends, Types
  <2> QED  BY <1>2, <2>1 DEF InterruptSends, sending, Types, NoLostWakeup
<1>3. CASE Load
  BY <1>3 DEF Load, sending, Types, NoLostWakeup, LineByte
<1>4. CASE ShiftOut
  BY <1>4 DEF ShiftOut, sending, Types, NoLostWakeup, LineByte
<1>5. ASSUME NEW on \in BOOLEAN, SetInterrupts(on) PROVE IInv'
  BY <1>5 DEF SetInterrupts, port, sending, Types, NoLostWakeup
<1>6. CASE UNCHANGED vars
  BY <1>6 DEF vars, port, sending, Types, NoLostWakeup
<1> QED  BY <1>1, <1>2, <1>3, <1>4, <1>5, <1>6, SendStepKeeps, TransmitKeeps DEF Next, Sends

LEMMA Start == Init => IInv
<1>1. <<>> \in Seq(Byte) /\ Len(<<>>) < QueueLength
  BY OutputQueueAssumption
<1> QED  BY <1>1 DEF Init, IInv, Types, NoLostWakeup, LineByte

LEMMA Invariance == Spec => []IInv
  BY Start, Step, PTL DEF Spec

(* No byte is left in the queue with its interrupt off once the send       *)
(* function has returned, wherever in it the interrupt routine comes, for  *)
(* the routines of both USARTs (serial_midi_send_usartn,                   *)
(* ISR(USARTn_UDRE_vect)).                                                 *)
THEOREM Wakeup == Spec => []NoLostWakeup
<1>1. IInv => NoLostWakeup
  BY DEF IInv
<1> QED  BY <1>1, Invariance, PTL

-----------------------------------------------------------------------------
(* The line. *)

LEMMA HeldIs ==
    ASSUME NEW r \in LineByte
    PROVE  /\ Held(r) \in Seq(Byte) /\ Len(Held(r)) <= 1 /\ Len(Held(r)) \in Nat
           /\ r # Empty => r \in Byte /\ Held(r) = <<r>>
           /\ r = Empty => Held(r) = <<>>
  BY EmptyAssumption DEF Held, LineByte

LEMMA PendingIs ==
    ASSUME Types
    PROVE  /\ Held(shift) \in Seq(Byte) /\ Held(udr) \in Seq(Byte) /\ queue \in Seq(Byte)
           /\ Held(shift) \o Held(udr) \in Seq(Byte)
           /\ Pending \in Seq(Byte)
           /\ Len(Held(shift) \o Held(udr)) <= 2 /\ Len(Held(shift) \o Held(udr)) \in Nat
           /\ Len(Pending) = Len(Held(shift) \o Held(udr)) + Len(queue)
<1>1. Held(shift) \in Seq(Byte) /\ Held(udr) \in Seq(Byte) /\ queue \in Seq(Byte)
      /\ Len(Held(shift)) <= 1 /\ Len(Held(udr)) <= 1
      /\ Len(Held(shift)) \in Nat /\ Len(Held(udr)) \in Nat
  BY HeldIs DEF Types
<1>2. Held(shift) \o Held(udr) \in Seq(Byte)
      /\ Len(Held(shift) \o Held(udr)) = Len(Held(shift)) + Len(Held(udr))
  BY <1>1, ConcatProperties
<1>3. Pending \in Seq(Byte) /\ Len(Pending) = Len(Held(shift) \o Held(udr)) + Len(queue)
  BY <1>1, <1>2, ConcatProperties DEF Pending
<1> QED  BY <1>1, <1>2, <1>3

(* The library's facts, for sequences of bytes. *)
LEMMA Associative ==
    ASSUME NEW a \in Seq(Byte), NEW b \in Seq(Byte), NEW c \in Seq(Byte)
    PROVE  (a \o b) \o c = a \o (b \o c)
  BY ConcatAssociative

LEMMA ByteSequence ==
    ASSUME NEW a \in Seq(Byte)
    PROVE  a \in [1 .. Len(a) -> Byte] /\ (a # <<>> => Len(a) > 0)
  BY EmptySeq, LenProperties

(* Bytes that find room in the queue are taken by the line. *)
LEMMA TakeMaps ==
    ASSUME Types, UNCHANGED <<udr, shift>>, NEW taken \in Seq(Byte), Len(taken) <= 3,
           queue' = queue \o taken, Len(queue') < QueueLength
    PROVE  [Line!Next]_Pending
<1> DEFINE regs == Held(shift) \o Held(udr)
<1>1. regs \in Seq(Byte) /\ queue \in Seq(Byte) /\ Len(regs) <= 2 /\ Len(regs) \in Nat
      /\ Len(taken) \in Nat /\ Len(queue) \in Nat /\ QueueLength \in Nat
      /\ Len(Pending) = Len(regs) + Len(queue) /\ Pending \in Seq(Byte)
  BY PendingIs, LenProperties, OutputQueueAssumption
<1>2. Pending = regs \o queue /\ Pending' = regs \o (queue \o taken)
  BY DEF Pending
<1> HIDE DEF regs
<1>3. Pending' = Pending \o taken
  <2>1. regs \in Seq(Byte) /\ queue \in Seq(Byte) /\ taken \in Seq(Byte)
    BY <1>1
  <2>2. (regs \o queue) \o taken = regs \o (queue \o taken)
    BY <2>1, Associative
  <2> QED  BY <1>2, <2>2
<1>4. Len(queue') = Len(queue) + Len(taken)
  BY <1>1, ConcatProperties
<1>5. Len(Pending) + Len(taken) <= QueueLength + 1
  BY <1>1, <1>4
<1>6. CASE taken = <<>>
  BY <1>1, <1>3, <1>6, ConcatEmptySeq
<1>7. CASE taken # <<>>
  <2>1. Len(taken) \in 1 .. 3
    <3> DEFINE n == Len(taken)
    <3>1. n > 0 /\ n \in Nat /\ n <= 3
      BY <1>1, <1>7, ByteSequence
    <3> HIDE DEF n
    <3>2. n \in 1 .. 3
      BY <3>1
    <3> QED  BY <3>2 DEF n
  <2>2. Line!Take(taken)
    BY <1>3, <1>5 DEF Line!Take
  <2>3. taken \in [1 .. Len(taken) -> Byte]
    BY ByteSequence
  <2>4. \E n \in 1 .. 3 : \E bytes \in [1 .. n -> Byte] : Line!Take(bytes)
    BY <2>1, <2>2, <2>3, Zenon
  <2> QED  BY <2>4 DEF Line!Next
<1> QED  BY <1>6, <1>7

(* The interrupt routine and the USART move bytes along the line; only the *)
(* one that leaves the shift register leaves the line.                     *)
LEMMA TransmitKeepsPending == ASSUME Types, TransmitInterrupt PROVE UNCHANGED Pending
<1>1. CASE TransmitByte
  <2>1. udr = Empty /\ shift' = shift /\ queue \in Seq(Byte) /\ queue # <<>>
        /\ udr' = Head(queue) /\ queue' = Tail(queue)
    BY <1>1 DEF TransmitInterrupt, TransmitByte, Types
  <2>2. udr' \in Byte /\ udr' # Empty /\ Tail(queue) \in Seq(Byte)
    BY <2>1, HeadTailProperties, EmptyAssumption
  <2>3. Held(udr) = <<>> /\ Held(udr') = <<Head(queue)>>
    BY <2>1, <2>2 DEF Held
  <2>4. <<Head(queue)>> \o Tail(queue) = queue
    <3>1. Head(queue) \in Byte /\ Head(queue) = queue[1] /\ Len(queue) \in Nat \ {0}
      BY <2>1, HeadTailProperties, EmptySeq
    <3>2. Len(Tail(queue)) = Len(queue) - 1
          /\ \A i \in 1 .. Len(Tail(queue)) : Tail(queue)[i] = queue[i + 1]
      BY <2>1, HeadTailProperties
    <3>3. <<Head(queue)>> \in Seq(Byte) /\ Len(<<Head(queue)>>) = 1
          /\ <<Head(queue)>>[1] = queue[1]
      BY <3>1
    <3> DEFINE joined == <<Head(queue)>> \o Tail(queue)
    <3>4. joined \in Seq(Byte) /\ Len(joined) = Len(queue)
          /\ \A i \in 1 .. Len(queue) :
                 joined[i] = IF i <= 1 THEN <<Head(queue)>>[i] ELSE Tail(queue)[i - 1]
      BY <2>2, <3>1, <3>2, <3>3, ConcatProperties
    <3> HIDE DEF joined
    <3>5. \A i \in 1 .. Len(queue) : joined[i] = queue[i]
      <4> TAKE i \in 1 .. Len(queue)
      <4>1. CASE i = 1
        BY <3>3, <3>4, <4>1
      <4>2. CASE i # 1
        BY <3>1, <3>2, <3>4, <4>2
      <4> QED  BY <4>1, <4>2
    <3>6. joined = queue
      BY <2>1, <3>4, <3>5, SeqEqual
    <3> QED  BY <3>6 DEF joined
  <2>5. Held(shift) \in Seq(Byte) /\ <<Head(queue)>> \in Seq(Byte)
    BY <2>1, <2>2, PendingIs
  <2>6. (Held(shift) \o <<Head(queue)>>) \o Tail(queue) = Held(shift) \o queue
    BY <2>2, <2>4, <2>5, ConcatAssociative
  <2>7. Held(shift) \o <<>> = Held(shift)
    BY <2>5, ConcatEmptySeq
  <2>8. Pending' = (Held(shift) \o <<Head(queue)>>) \o Tail(queue)
    BY <2>1, <2>3 DEF Pending
  <2>9. Pending = Held(shift) \o queue
    BY <2>3, <2>7 DEF Pending
  <2> QED  BY <2>6, <2>8, <2>9
<1>2. CASE Stop
  BY <1>2 DEF TransmitInterrupt, Stop, Pending
<1> QED  BY <1>1, <1>2 DEF TransmitInterrupt, TransmitInterrupt0, TransmitInterrupt1

LEMMA LoadKeepsPending == ASSUME Types, Load PROVE UNCHANGED Pending
<1>1. Held(shift) = <<>> /\ Held(udr') = <<>> /\ Held(shift') = Held(udr) /\ queue' = queue
  BY DEF Load, Held
<1>2. Held(udr) \in Seq(Byte)
  BY PendingIs
<1>3. <<>> \o Held(udr) = Held(udr) /\ Held(udr) \o <<>> = Held(udr)
  BY <1>2, ConcatEmptySeq
<1> QED  BY <1>1, <1>3 DEF Pending

LEMMA ShiftOutEmits ==
    ASSUME Types, ShiftOut
    PROVE  Pending # <<>> /\ Pending' = Tail(Pending) /\ Head(Pending) = shift /\ shift \in Byte
<1> DEFINE rest == Held(udr) \o queue
<1>1. shift \in Byte /\ Held(shift) = <<shift>> /\ Held(shift') = <<>>
      /\ udr' = udr /\ queue' = queue
  BY DEF ShiftOut, Held, Types, LineByte
<1>2. Held(udr) \in Seq(Byte) /\ queue \in Seq(Byte) /\ <<shift>> \in Seq(Byte)
  BY <1>1, PendingIs
<1>3. rest \in Seq(Byte)
  BY <1>2, ConcatProperties
<1>4. Pending = <<shift>> \o rest /\ Pending' = rest
  <2>1. <<>> \o Held(udr) = Held(udr)
    BY <1>2, ConcatEmptySeq
  <2> QED  BY <1>1, <1>2, <2>1, ConcatAssociative DEF Pending
<1> HIDE DEF rest
<1>5. Len(<<shift>>) = 1 /\ Pending \in Seq(Byte) /\ Len(Pending) = 1 + Len(rest)
      /\ Len(rest) \in Nat
      /\ \A i \in 1 .. 1 + Len(rest) :
             Pending[i] = IF i <= 1 THEN <<shift>>[i] ELSE rest[i - 1]
  BY <1>2, <1>3, <1>4, ConcatProperties, LenProperties
<1>6. Pending # <<>>
  BY <1>5
<1>7. Tail(Pending) \in Seq(Byte) /\ Len(Tail(Pending)) = Len(rest)
      /\ \A i \in 1 .. Len(Tail(Pending)) : Tail(Pending)[i] = Pending[i + 1]
  BY <1>5, <1>6, HeadTailProperties
<1>8. \A i \in 1 .. Len(Tail(Pending)) : Tail(Pending)[i] = rest[i]
  BY <1>5, <1>7
<1>9. Tail(Pending) = rest
  BY <1>3, <1>7, <1>8, SeqEqual
<1>10. Head(Pending) = shift
  BY <1>5, <1>6
<1> QED  BY <1>1, <1>4, <1>6, <1>9, <1>10

LEMMA StepMaps == IInv /\ [Next]_vars => [Line!Next]_Pending
<1> SUFFICES ASSUME IInv, [Next]_vars PROVE [Line!Next]_Pending
  OBVIOUS
<1>1. Types /\ Types'
  BY Step DEF IInv
<1>2. ASSUME NEW b \in Byte, queue' = Enqueued(queue, b), UNCHANGED <<udr, shift>>
      PROVE  [Line!Next]_Pending
  <2>1. CASE Enqueued(queue, b) = queue
    BY <1>2, <2>1 DEF Pending
  <2>2. CASE Enqueued(queue, b) = queue \o <<b>>
    <3>1. <<b>> \in Seq(Byte) /\ Len(<<b>>) <= 3 /\ Len(queue') < QueueLength
      BY <1>1 DEF Types
    <3> QED  BY <1>1, <1>2, <2>2, <3>1, TakeMaps
  <2> QED  BY <1>1, <2>1, <2>2, EnqueuedIs DEF Types
<1>3. CASE SendStep
  <2>1. CASE EnableTransmit
    BY <2>1 DEF EnableTransmit, Pending
  <2>2. outgoing \in MainMessage \/ EnableTransmit
    BY <1>1, <1>3 DEF Types, SendStep, EnqueueByte0, EnqueueByte1, EnqueueByte2
  <2>3. CASE outgoing \in MainMessage
    <3>1. outgoing.bytes[1] \in Byte /\ outgoing.bytes[2] \in Byte /\ outgoing.bytes[3] \in Byte
      BY <2>3, MessageBytes
    <3> QED
      BY <1>2, <1>3, <2>1, <3>1 DEF SendStep, EnqueueByte0, EnqueueByte1, EnqueueByte2
  <2> QED  BY <2>1, <2>2, <2>3
<1>4. ASSUME NEW m \in IsrMessage, InterruptSends(m) PROVE [Line!Next]_Pending
  <2>1. PICK s \in Seq(Byte) : Len(s) <= 3 /\ EnqueuedMessage(m) = queue \o s
    BY <1>1, EnqueuedMessageIs DEF Types
  <2>2. queue' = queue \o s /\ UNCHANGED <<udr, shift>> /\ Len(queue') < QueueLength
    BY <1>1, <1>4, <2>1 DEF InterruptSends, Types
  <2> QED  BY <1>1, <2>1, <2>2, TakeMaps
<1>5. CASE TransmitInterrupt
  BY <1>1, <1>5, TransmitKeepsPending
<1>6. CASE Load
  BY <1>1, <1>6, LoadKeepsPending
<1>7. CASE ShiftOut
  BY <1>1, <1>7, ShiftOutEmits DEF Line!Next, Line!Emit
<1>8. ASSUME UNCHANGED port PROVE UNCHANGED Pending
  BY <1>8 DEF port, Pending
<1>9. ASSUME NEW m \in MainMessage, CallSend(m) PROVE UNCHANGED Pending
  BY <1>8, <1>9 DEF CallSend
<1>10. ASSUME NEW on \in BOOLEAN, SetInterrupts(on) PROVE UNCHANGED Pending
  BY <1>8, <1>10 DEF SetInterrupts
<1>11. CASE UNCHANGED vars
  BY <1>8, <1>11 DEF vars
<1> QED  BY <1>3, <1>4, <1>5, <1>6, <1>7, <1>9, <1>10, <1>11 DEF Next, Sends

LEMMA StartMaps == Init => Line!Init
<1> SUFFICES ASSUME Init PROVE Line!Init
  OBVIOUS
<1>1. Pending = (<<>> \o <<>>) \o <<>>
  BY DEF Init, Pending, Held
<1>2. <<>> \in Seq(Byte) /\ <<>> \o <<>> = <<>>
  BY ConcatEmptySeq
<1> QED  BY <1>1, <1>2 DEF Line!Init

(* The bytes that found room leave by the wire, each once and in order,    *)
(* and never more than QueueLength + 1 of them wait: the safety part of    *)
(* ImplementsLine (serial_midi_send_usartn, ISR(USARTn_UDRE_vect)).        *)
THEOREM LineSafety == Spec => Line!Init /\ [][Line!Next]_Pending
  BY StartMaps, StepMaps, Invariance, PTL DEF Spec

-----------------------------------------------------------------------------
(* What the receiver will hear, for SerialWire.  The bytes that wait       *)
(* decide it: run[i] is what the receiver knows when i more of them have   *)
(* come, said the message it then has in hand.                             *)

Hearing(s, d, m) == [status |-> s, data |-> d, said |-> m]

NoStatus == Receiver!NoStatus
Nothing  == Receiver!Nothing

(* The receiver's step, for the bytes of whole messages.                   *)
After(s, d, b) ==
    IF Receiver!midi_is_realtime(b) THEN Hearing(s, d, <<0, <<b>>>>)
    ELSE IF Receiver!midi_is_statusbyte(b)
         THEN IF Receiver!midi_packet_length(b) = 1
              THEN Hearing(NoStatus, <<>>, <<0, <<b>>>>)
              ELSE Hearing(b, <<>>, Nothing)
    ELSE IF s = NoStatus THEN Hearing(s, d, Nothing)
    ELSE IF Len(d) + 2 = Receiver!midi_packet_length(s)
         THEN Hearing(s, <<>>, <<0, <<s>> \o Append(d, b)>>)
         ELSE Hearing(s, Append(d, b), Nothing)

(* With the bytes p the receiver that now is at r will hear the messages   *)
(* of out in their order, and only these if all is set.                    *)
Hears(r, p, out, all, run, place) ==
    /\ run[0] = r
    /\ \A i \in 1 .. Len(p) : run[i] = After(run[i - 1].status, run[i - 1].data, p[i])
    /\ \A j \in 1 .. Len(out) : place[j] \in 0 .. Len(p) /\ run[place[j]].said = <<0, out[j]>>
    /\ \A j, k \in 1 .. Len(out) : j < k => place[j] < place[k]
    /\ all => \A i \in 0 .. Len(p) :
                  run[i].said # Nothing => \E j \in 1 .. Len(out) : place[j] = i

(* And with the last of these bytes it will have status s and data d.      *)
Future(r, p, out, all, s, d) ==
    \E run, place :
        Hears(r, p, out, all, run, place) /\ run[Len(p)].status = s /\ run[Len(p)].data = d

LEMMA SaidIsSomething == \A m : <<0, m>> # Nothing
<1> TAKE m
<1>1. Len(<<0, m>>) = 2 /\ Len(<<>>) = 0
  OBVIOUS
<1> QED  BY <1>1 DEF Nothing, Receiver!Nothing

(* A byte more that completes no message, or all given up.                 *)
LEMMA ByteMore ==
    ASSUME NEW r, NEW p \in Seq(Byte), NEW out \in Seq(Seq(Byte)), NEW all \in BOOLEAN,
           NEW s, NEW d, NEW b \in Byte, NEW more \in BOOLEAN,
           Future(r, p, out, all, s, d), more => all /\ After(s, d, b).said = Nothing
    PROVE  Future(r, Append(p, b), out, more, After(s, d, b).status, After(s, d, b).data)
<1> DEFINE next == After(s, d, b)
           q == Append(p, b)
<1>1. PICK run, place :
          Hears(r, p, out, all, run, place) /\ run[Len(p)].status = s /\ run[Len(p)].data = d
  BY DEF Future
<1>2. /\ Len(p) \in Nat /\ Len(q) = Len(p) + 1 /\ q[Len(p) + 1] = b
      /\ \A i \in 1 .. Len(p) : q[i] = p[i]
  BY AppendProperties, LenProperties
<1> HIDE DEF next, q
<1> DEFINE run2 == [i \in 0 .. Len(p) + 1 |-> IF i <= Len(p) THEN run[i] ELSE next]
<1>3. /\ \A i \in 0 .. Len(p) : run2[i] = run[i]
      /\ run2[Len(p) + 1] = next
  BY <1>2
<1> HIDE DEF run2
<1>4. run2[0] = r
  BY <1>1, <1>2, <1>3 DEF Hears
<1>5. ASSUME NEW i \in 1 .. Len(q) PROVE run2[i] = After(run2[i - 1].status, run2[i - 1].data, q[i])
  <2>1. CASE i \in 1 .. Len(p)
    <3>1. i - 1 \in 0 .. Len(p) /\ i \in 0 .. Len(p)
      BY <1>2, <2>1
    <3>2. run[i] = After(run[i - 1].status, run[i - 1].data, p[i])
      BY <1>1, <2>1 DEF Hears
    <3> QED  BY <1>2, <1>3, <2>1, <3>1, <3>2
  <2>2. CASE i = Len(p) + 1
    <3>1. i - 1 = Len(p) /\ Len(p) \in 0 .. Len(p)
      BY <1>2, <2>2
    <3> QED  BY <1>1, <1>2, <1>3, <2>2, <3>1 DEF next
  <2> QED  BY <1>2, <2>1, <2>2
<1>6. \A j \in 1 .. Len(out) : place[j] \in 0 .. Len(q) /\ run2[place[j]].said = <<0, out[j]>>
  <2> TAKE j \in 1 .. Len(out)
  <2>1. place[j] \in 0 .. Len(p) /\ run[place[j]].said = <<0, out[j]>>
    BY <1>1 DEF Hears
  <2> QED  BY <1>2, <1>3, <2>1
<1>7. \A j, k \in 1 .. Len(out) : j < k => place[j] < place[k]
  BY <1>1 DEF Hears
<1>8. ASSUME more, NEW i \in 0 .. Len(q), run2[i].said # Nothing
      PROVE  \E j \in 1 .. Len(out) : place[j] = i
  <2>1. i # Len(p) + 1
    BY <1>3, <1>8 DEF next
  <2>2. i \in 0 .. Len(p)
    BY <1>2, <2>1
  <2> QED  BY <1>1, <1>3, <1>8, <2>2 DEF Hears
<1>9. Hears(r, q, out, more, run2, place)
  BY <1>4, <1>5, <1>6, <1>7, <1>8 DEF Hears
<1>10. run2[Len(q)] = next
  BY <1>2, <1>3
<1> QED  BY <1>9, <1>10, Zenon DEF Future, q, next

(* The byte that completes the message m.                                  *)
LEMMA MessageMore ==
    ASSUME NEW r, NEW p \in Seq(Byte), NEW out \in Seq(Seq(Byte)), NEW all \in BOOLEAN,
           NEW s, NEW d, NEW b \in Byte, NEW more \in BOOLEAN, NEW m \in Seq(Byte),
           Future(r, p, out, all, s, d), more => all, After(s, d, b).said = <<0, m>>
    PROVE  Future(r, Append(p, b), Append(out, m), more, After(s, d, b).status, After(s, d, b).data)
<1> DEFINE next == After(s, d, b)
           q == Append(p, b)
           out2 == Append(out, m)
<1>1. PICK run, place :
          Hears(r, p, out, all, run, place) /\ run[Len(p)].status = s /\ run[Len(p)].data = d
  BY DEF Future
<1>2. /\ Len(p) \in Nat /\ Len(q) = Len(p) + 1 /\ q[Len(p) + 1] = b
      /\ \A i \in 1 .. Len(p) : q[i] = p[i]
  BY AppendProperties, LenProperties
<1>3. /\ Len(out) \in Nat /\ Len(out2) = Len(out) + 1 /\ out2[Len(out) + 1] = m
      /\ \A j \in 1 .. Len(out) : out2[j] = out[j]
  BY AppendProperties, LenProperties
<1>15. 1 .. Len(out2) = (1 .. Len(out)) \cup {Len(out) + 1}
  BY <1>3
<1>4. next.said = <<0, m>>
  OBVIOUS
<1> HIDE DEF next, q, out2
<1> DEFINE run2 == [i \in 0 .. Len(p) + 1 |-> IF i <= Len(p) THEN run[i] ELSE next]
           place2 == [j \in 1 .. Len(out) + 1 |-> IF j <= Len(out) THEN place[j] ELSE Len(p) + 1]
<1>5. /\ \A i \in 0 .. Len(p) : run2[i] = run[i]
      /\ run2[Len(p) + 1] = next
  BY <1>2
<1>6. /\ \A j \in 1 .. Len(out) : place2[j] = place[j]
      /\ place2[Len(out) + 1] = Len(p) + 1
  BY <1>3
<1> HIDE DEF run2, place2
<1>7. run2[0] = r
  BY <1>1, <1>2, <1>5 DEF Hears
<1>8. ASSUME NEW i \in 1 .. Len(q) PROVE run2[i] = After(run2[i - 1].status, run2[i - 1].data, q[i])
  <2>1. CASE i \in 1 .. Len(p)
    <3>1. i - 1 \in 0 .. Len(p) /\ i \in 0 .. Len(p)
      BY <1>2, <2>1
    <3>2. run[i] = After(run[i - 1].status, run[i - 1].data, p[i])
      BY <1>1, <2>1 DEF Hears
    <3> QED  BY <1>2, <1>5, <2>1, <3>1, <3>2
  <2>2. CASE i = Len(p) + 1
    <3>1. i - 1 = Len(p) /\ Len(p) \in 0 .. Len(p)
      BY <1>2, <2>2
    <3> QED  BY <1>1, <1>2, <1>5, <2>2, <3>1 DEF next
  <2> QED  BY <1>2, <2>1, <2>2
<1>9. \A j \in 1 .. Len(out) : place[j] \in 0 .. Len(p) /\ run[place[j]].said = <<0, out[j]>>
  BY <1>1 DEF Hears
<1>10. \A j \in 1 .. Len(out2) : place2[j] \in 0 .. Len(q) /\ run2[place2[j]].said = <<0, out2[j]>>
  <2> TAKE j \in 1 .. Len(out2)
  <2>1. CASE j \in 1 .. Len(out)
    <3>1. place[j] \in 0 .. Len(p) /\ run[place[j]].said = <<0, out[j]>>
      BY <1>9, <2>1
    <3>2. place2[j] = place[j] /\ out2[j] = out[j]
      BY <1>3, <1>6, <2>1
    <3>3. run2[place[j]] = run[place[j]] /\ place[j] \in 0 .. Len(q)
      BY <1>2, <1>5, <3>1
    <3> QED  BY <3>1, <3>2, <3>3
  <2>2. CASE j = Len(out) + 1
    BY <1>2, <1>3, <1>4, <1>5, <1>6, <2>2
  <2> QED  BY <1>3, <2>1, <2>2
<1>11. \A j, k \in 1 .. Len(out2) : j < k => place2[j] < place2[k]
  <2> TAKE j, k \in 1 .. Len(out2)
  <2> HAVE j < k
  <2>1. j \in 1 .. Len(out) /\ place2[j] = place[j] /\ place[j] \in 0 .. Len(p)
    BY <1>3, <1>6, <1>9
  <2>2. CASE k \in 1 .. Len(out)
    BY <1>1, <1>6, <2>1, <2>2 DEF Hears
  <2>3. CASE k = Len(out) + 1
    BY <1>2, <1>6, <2>1, <2>3
  <2> QED  BY <1>15, <2>2, <2>3
<1>12. ASSUME more, NEW i \in 0 .. Len(q), run2[i].said # Nothing
       PROVE  \E j \in 1 .. Len(out2) : place2[j] = i
  <2>1. CASE i = Len(p) + 1
    <3>1. Len(out) + 1 \in 1 .. Len(out2)
      BY <1>3
    <3> QED  BY <1>6, <2>1, <3>1
  <2>2. CASE i \in 0 .. Len(p)
    <3>1. PICK j \in 1 .. Len(out) : place[j] = i
      BY <1>1, <1>5, <1>12, <2>2 DEF Hears
    <3>2. j \in 1 .. Len(out2) /\ place2[j] = i
      BY <1>6, <1>15, <3>1
    <3> QED  BY <3>2
  <2> QED  BY <1>2, <2>1, <2>2
<1>13. Hears(r, q, out2, more, run2, place2)
  BY <1>7, <1>8, <1>10, <1>11, <1>12 DEF Hears
<1>14. run2[Len(q)] = next
  BY <1>2, <1>5
<1> QED  BY <1>13, <1>14, Zenon DEF Future, q, next, out2

(* The first byte comes, and the receiver has no message in hand.          *)
LEMMA ByteHeard ==
    ASSUME NEW r, NEW p \in Seq(Byte), p # <<>>, NEW out \in Seq(Seq(Byte)), NEW all \in BOOLEAN,
           NEW s, NEW d, Future(r, p, out, all, s, d), r.said = Nothing
    PROVE  Future(After(r.status, r.data, Head(p)), Tail(p), out, all, s, d)
<1> DEFINE q == Tail(p)
<1>1. PICK run, place :
          Hears(r, p, out, all, run, place) /\ run[Len(p)].status = s /\ run[Len(p)].data = d
  BY DEF Future
<1>2. /\ Len(p) \in Nat \ {0} /\ Len(q) = Len(p) - 1 /\ Head(p) = p[1]
      /\ \A i \in 1 .. Len(q) : q[i] = p[i + 1]
  BY HeadTailProperties, LenProperties, EmptySeq
<1> HIDE DEF q
<1> DEFINE run2 == [i \in 0 .. Len(q) |-> run[i + 1]]
           place2 == [j \in 1 .. Len(out) |-> place[j] - 1]
<1>3. Len(out) \in Nat
  BY LenProperties
<1>4. /\ \A i \in 0 .. Len(q) : run2[i] = run[i + 1]
      /\ \A j \in 1 .. Len(out) : place2[j] = place[j] - 1
  OBVIOUS
<1> HIDE DEF run2, place2
<1>5. \A j \in 1 .. Len(out) : place[j] \in 1 .. Len(p) /\ run[place[j]].said = <<0, out[j]>>
  <2> TAKE j \in 1 .. Len(out)
  <2>1. place[j] \in 0 .. Len(p) /\ run[place[j]].said = <<0, out[j]>>
    BY <1>1 DEF Hears
  <2>2. run[0].said = Nothing
    BY <1>1 DEF Hears
  <2>3. place[j] # 0
    BY <2>1, <2>2, SaidIsSomething
  <2> QED  BY <1>2, <2>1, <2>3
<1>6. run2[0] = After(r.status, r.data, Head(p))
  <2>1. run[1] = After(run[1 - 1].status, run[1 - 1].data, p[1])
    BY <1>1, <1>2 DEF Hears
  <2>2. run[0] = r /\ 1 - 1 = 0 /\ 0 + 1 = 1
    BY <1>1 DEF Hears
  <2>3. run2[0] = run[0 + 1]
    BY <1>2, <1>4
  <2> QED  BY <1>2, <2>1, <2>2, <2>3
<1>7. ASSUME NEW i \in 1 .. Len(q) PROVE run2[i] = After(run2[i - 1].status, run2[i - 1].data, q[i])
  <2>1. run2[i] = run[i + 1] /\ run2[i - 1] = run[i] /\ q[i] = p[i + 1] /\ i + 1 \in 1 .. Len(p)
    <3>1. i \in 0 .. Len(q) /\ i - 1 \in 0 .. Len(q) /\ (i - 1) + 1 = i /\ i + 1 \in 1 .. Len(p)
      BY <1>2
    <3> QED  BY <1>2, <1>4, <3>1
  <2>2. run[i + 1] = After(run[(i + 1) - 1].status, run[(i + 1) - 1].data, p[i + 1])
    BY <1>1, <2>1 DEF Hears
  <2>3. (i + 1) - 1 = i
    BY <1>2
  <2> QED  BY <2>1, <2>2, <2>3
<1>8. \A j \in 1 .. Len(out) : place2[j] \in 0 .. Len(q) /\ run2[place2[j]].said = <<0, out[j]>>
  <2> TAKE j \in 1 .. Len(out)
  <2>1. place2[j] = place[j] - 1 /\ place[j] \in 1 .. Len(p) /\ run[place[j]].said = <<0, out[j]>>
    BY <1>4, <1>5
  <2>2. place2[j] \in 0 .. Len(q) /\ place2[j] + 1 = place[j]
    BY <1>2, <2>1
  <2>3. run2[place2[j]] = run[place2[j] + 1]
    BY <1>4, <2>2
  <2> QED  BY <2>1, <2>2, <2>3
<1>9. \A j, k \in 1 .. Len(out) : j < k => place2[j] < place2[k]
  <2> TAKE j, k \in 1 .. Len(out)
  <2> HAVE j < k
  <2>1. place[j] < place[k] /\ place[j] \in 1 .. Len(p) /\ place[k] \in 1 .. Len(p)
    BY <1>1, <1>5 DEF Hears
  <2> QED  BY <1>2, <1>4, <2>1
<1>10. ASSUME all, NEW i \in 0 .. Len(q), run2[i].said # Nothing
       PROVE  \E j \in 1 .. Len(out) : place2[j] = i
  <2>1. i + 1 \in 0 .. Len(p) /\ run[i + 1].said # Nothing
    BY <1>2, <1>4, <1>10
  <2>2. PICK j \in 1 .. Len(out) : place[j] = i + 1
    BY <1>1, <1>10, <2>1 DEF Hears
  <2>3. place2[j] = place[j] - 1 /\ i \in Int
    BY <1>2, <1>4
  <2>4. place2[j] = i
    BY <2>2, <2>3
  <2> QED  BY <2>4
<1>11. Hears(After(r.status, r.data, Head(p)), q, out, all, run2, place2)
  BY <1>6, <1>7, <1>8, <1>9, <1>10 DEF Hears
<1>12. run2[Len(q)] = run[Len(p)]
  BY <1>2, <1>4
<1> QED  BY <1>1, <1>11, <1>12, Zenon DEF Future, q

(* The receiver is done with the message it has in hand.                   *)
LEMMA MessageDone ==
    ASSUME NEW r, NEW p \in Seq(Byte), NEW out \in Seq(Seq(Byte)), NEW all \in BOOLEAN,
           NEW s, NEW d, Future(r, p, out, all, s, d), NEW m, r.said = <<0, m>>
    PROVE  Future(Hearing(r.status, r.data, Nothing), p,
                  IF out # <<>> /\ m = Head(out) THEN Tail(out) ELSE out, all, s, d)
<1> DEFINE now == Hearing(r.status, r.data, Nothing)
<1>1. PICK run, place :
          Hears(r, p, out, all, run, place) /\ run[Len(p)].status = s /\ run[Len(p)].data = d
  BY DEF Future
<1>2. Len(p) \in Nat /\ Len(out) \in Nat
  BY LenProperties
<1>3. now.status = r.status /\ now.data = r.data /\ now.said = Nothing
  BY DEF Hearing
<1> HIDE DEF now
<1> DEFINE run2 == [i \in 0 .. Len(p) |-> IF i = 0 THEN now ELSE run[i]]
<1>4. /\ run2[0] = now
      /\ \A i \in 1 .. Len(p) : run2[i] = run[i]
      /\ \A i \in 0 .. Len(p) : run2[i].status = run[i].status /\ run2[i].data = run[i].data
  <2>1. run[0] = r /\ 0 \in 0 .. Len(p)
    BY <1>1, <1>2 DEF Hears
  <2> QED  BY <1>2, <1>3, <2>1
<1> HIDE DEF run2
<1>5. ASSUME NEW i \in 1 .. Len(p) PROVE run2[i] = After(run2[i - 1].status, run2[i - 1].data, p[i])
  <2>1. i - 1 \in 0 .. Len(p)
    BY <1>2
  <2>2. run[i] = After(run[i - 1].status, run[i - 1].data, p[i])
    BY <1>1 DEF Hears
  <2> QED  BY <1>4, <2>1, <2>2
<1>6. \A j \in 1 .. Len(out) : place[j] \in 0 .. Len(p) /\ run[place[j]].said = <<0, out[j]>>
  BY <1>1 DEF Hears
<1>7. \A j, k \in 1 .. Len(out) : j < k => place[j] < place[k]
  BY <1>1 DEF Hears
<1>8. run[0] = r
  BY <1>1 DEF Hears
<1>9. ASSUME all, NEW i \in 0 .. Len(p), run2[i].said # Nothing
      PROVE  i \in 1 .. Len(p) /\ \E j \in 1 .. Len(out) : place[j] = i
  <2>1. i # 0
    BY <1>3, <1>4, <1>9
  <2>2. i \in 1 .. Len(p)
    BY <1>2, <2>1
  <2>3. run[i].said # Nothing
    BY <1>4, <1>9, <2>2
  <2> QED  BY <1>1, <1>9, <2>2, <2>3 DEF Hears
<1>10. run2[Len(p)].status = s /\ run2[Len(p)].data = d
  <2>1. Len(p) \in 0 .. Len(p)
    BY <1>2
  <2> QED  BY <1>1, <1>4, <2>1
<1>11. CASE out # <<>> /\ m = Head(out)
  <2> DEFINE rest == Tail(out)
             place2 == [j \in 1 .. Len(out) - 1 |-> place[j + 1]]
  <2>1. /\ Len(out) >= 1 /\ Len(rest) = Len(out) - 1
        /\ \A j \in 1 .. Len(rest) : rest[j] = out[j + 1]
    BY <1>2, <1>11, HeadTailProperties, EmptySeq
  <2> HIDE DEF rest
  <2>2. \A j \in 1 .. Len(rest) : place2[j] = place[j + 1]
    BY <2>1
  <2> HIDE DEF place2
  <2>3. ASSUME NEW j \in 1 .. Len(rest)
        PROVE  /\ place2[j] \in 1 .. Len(p)
               /\ run2[place2[j]].said = <<0, rest[j]>>
    <3>1. 1 \in 1 .. Len(out) /\ j + 1 \in 1 .. Len(out) /\ 1 < j + 1
      BY <1>2, <2>1
    <3>2. place[1] \in 0 .. Len(p) /\ place[j + 1] \in 0 .. Len(p) /\ place[1] < place[j + 1]
          /\ run[place[j + 1]].said = <<0, out[j + 1]>>
      BY <1>6, <1>7, <3>1
    <3>3. place[j + 1] \in 1 .. Len(p)
      BY <1>2, <3>2
    <3>4. run2[place[j + 1]] = run[place[j + 1]]
      BY <1>4, <3>3
    <3> QED  BY <2>1, <2>2, <3>2, <3>3, <3>4
  <2>4. \A j, k \in 1 .. Len(rest) : j < k => place2[j] < place2[k]
    <3> TAKE j, k \in 1 .. Len(rest)
    <3> HAVE j < k
    <3>1. j + 1 \in 1 .. Len(out) /\ k + 1 \in 1 .. Len(out) /\ j + 1 < k + 1
      BY <1>2, <2>1
    <3> QED  BY <1>7, <2>2, <3>1
  <2>5. ASSUME all, NEW i \in 0 .. Len(p), run2[i].said # Nothing
        PROVE  \E j \in 1 .. Len(rest) : place2[j] = i
    <3>1. i \in 1 .. Len(p)
      BY <1>9, <2>5
    <3>2. PICK k \in 1 .. Len(out) : place[k] = i
      BY <1>9, <2>5
    <3>3. k # 1
      <4>1. CASE r.said = <<0, out[1]>> /\ place[1] # 0
        <5>1. 0 \in 0 .. Len(p) /\ run[0].said # Nothing
          <6>1. <<0, m>> # Nothing
            BY SaidIsSomething
          <6>2. 0 \in 0 .. Len(p)
            BY <1>2
          <6>3. r.said # Nothing
            BY <6>1
          <6> QED  BY <1>8, <6>2, <6>3
        <5>2. PICK l \in 1 .. Len(out) : place[l] = 0
          BY <1>1, <2>5, <5>1 DEF Hears
        <5>3. l = 1
          <6>1. SUFFICES ASSUME 1 < l PROVE FALSE
            BY <1>2
          <6>2. 1 \in 1 .. Len(out)
            BY <1>2, <2>1
          <6>3. place[1] < place[l] /\ place[1] \in 0 .. Len(p)
            BY <1>6, <1>7, <6>1, <6>2
          <6> QED  BY <1>2, <5>2, <6>3
        <5> QED  BY <4>1, <5>2, <5>3
      <4>2. r.said = <<0, out[1]>>
        BY <1>11
      <4>3. CASE place[1] = 0
        BY <1>2, <3>1, <3>2, <4>3
      <4> QED  BY <4>1, <4>2, <4>3
    <3>4. k - 1 \in 1 .. Len(rest) /\ (k - 1) + 1 = k
      BY <1>2, <2>1, <3>3
    <3>5. place2[k - 1] = place[(k - 1) + 1]
      BY <2>2, <3>4
    <3> QED  BY <3>2, <3>4, <3>5
  <2>6. Hears(now, p, rest, all, run2, place2)
    <3>1. \A j \in 1 .. Len(rest) : place2[j] \in 0 .. Len(p) /\ run2[place2[j]].said = <<0, rest[j]>>
      BY <1>2, <2>3, SMTT(30)
    <3> QED  BY <1>4, <1>5, <2>4, <2>5, <3>1 DEF Hears
  <2>7. Future(now, p, rest, all, s, d)
    BY <1>10, <2>6, Zenon DEF Future
  <2> QED  BY <1>11, <2>7 DEF now, rest
<1>12. CASE ~(out # <<>> /\ m = Head(out))
  <2>1. ASSUME NEW j \in 1 .. Len(out)
        PROVE  place[j] \in 1 .. Len(p) /\ run2[place[j]].said = <<0, out[j]>>
    <3>1. 1 \in 1 .. Len(out) /\ out # <<>>
      BY <1>2, EmptySeq
    <3>2. place[1] # 0
      <4> SUFFICES ASSUME place[1] = 0 PROVE FALSE
        OBVIOUS
      <4>1. <<0, m>> = <<0, out[1]>>
        BY <1>6, <1>8, <3>1
      <4>2. m = out[1] /\ Head(out) = out[1]
        BY <4>1
      <4> QED  BY <1>12, <3>1, <4>2
    <3>3. place[1] \in 0 .. Len(p) /\ place[j] \in 0 .. Len(p) /\ run[place[j]].said = <<0, out[j]>>
      BY <1>6, <3>1
    <3>4. j = 1 \/ place[1] < place[j]
      <4>1. j = 1 \/ 1 < j
        BY <1>2
      <4> QED  BY <1>7, <3>1, <4>1
    <3>5. place[j] \in 1 .. Len(p)
      BY <1>2, <3>2, <3>3, <3>4
    <3>6. run2[place[j]] = run[place[j]]
      BY <1>4, <3>5
    <3> QED  BY <3>3, <3>5, <3>6
  <2>2. \A j \in 1 .. Len(out) : place[j] \in 0 .. Len(p) /\ run2[place[j]].said = <<0, out[j]>>
    BY <1>2, <2>1
  <2>3. Hears(now, p, out, all, run2, place)
    BY <1>4, <1>5, <1>7, <1>9, <2>2 DEF Hears
  <2>4. Future(now, p, out, all, s, d)
    BY <1>10, <2>3, Zenon DEF Future
  <2> QED  BY <1>12, <2>4 DEF now
<1> QED  BY <1>11, <1>12

(* A message that is to be heard first, or now, and one that is not.       *)
LEMMA FirstHeard ==
    ASSUME NEW r, NEW p \in Seq(Byte), NEW out \in Seq(Seq(Byte)), NEW s, NEW d,
           Future(r, p, out, TRUE, s, d), NEW m, r.said = <<0, m>>
    PROVE  out # <<>> /\ m = Head(out)
<1>1. PICK run, place : Hears(r, p, out, TRUE, run, place)
  BY DEF Future
<1>2. Len(p) \in Nat /\ Len(out) \in Nat /\ run[0] = r
  BY <1>1, LenProperties DEF Hears
<1>3. 0 \in 0 .. Len(p) /\ run[0].said # Nothing
  <2>1. <<0, m>> # Nothing
    BY SaidIsSomething
  <2>2. 0 \in 0 .. Len(p)
    BY <1>2
  <2>3. r.said # Nothing
    BY <2>1
  <2> QED  BY <1>2, <2>2, <2>3
<1>4. PICK j \in 1 .. Len(out) : place[j] = 0
  BY <1>1, <1>3 DEF Hears
<1>5. 1 \in 1 .. Len(out)
  BY <1>2
<1>6. place[1] \in 0 .. Len(p) /\ (1 < j => place[1] < place[j])
  BY <1>1, <1>5 DEF Hears
<1>7. j = 1
  BY <1>2, <1>4, <1>6
<1>8. <<0, m>> = <<0, out[1]>>
  BY <1>1, <1>2, <1>4, <1>7 DEF Hears
<1>9. m = out[1]
  BY <1>8
<1>10. out # <<>>
  BY <1>2, <1>5
<1> QED  BY <1>9, <1>10

LEMMA FutureTorn ==
    ASSUME NEW r, NEW p, NEW out, NEW all, NEW s, NEW d, Future(r, p, out, all, s, d)
    PROVE  Future(r, p, out, FALSE, s, d)
  BY DEF Future, Hears

-----------------------------------------------------------------------------
(* The bytes of whole messages.                                            *)

Length(b)   == Receiver!midi_packet_length(b)
Realtime(b) == Receiver!midi_is_realtime(b)
IsStatus(b) == Receiver!midi_is_statusbyte(b)
Long(b)     == Length(b) \in {2, 3}

(* A byte of a whole message.                                              *)
Sound(b) == Realtime(b) \/ ~IsStatus(b) \/ Length(b) \in {1, 2, 3}

AllSound(p) == \A i \in 1 .. Len(p) : Sound(p[i])

LEMMA LengthIs ==
    ASSUME NEW b \in 0 .. 255
    PROVE  /\ Length(b) \in {0, 1, 2, 3}
           /\ Length(b) # 0 => IsStatus(b)
           /\ Long(b) => ~Realtime(b)
           /\ Length(Receiver!SYSEX_BEGIN) = 0 /\ Length(Receiver!SYSEX_END) = 0
<1> USE DEF Length, Receiver!midi_packet_length, Receiver!HighNibble,
            Receiver!MIDI_CC, Receiver!MIDI_NOTEON, Receiver!MIDI_NOTEOFF,
            Receiver!MIDI_AFTERTOUCH, Receiver!MIDI_PITCHBEND, Receiver!MIDI_PROGCHANGE,
            Receiver!MIDI_CHANPRESSURE, Receiver!ListedRealtime, Receiver!MIDI_TUNEREQUEST,
            Receiver!MIDI_SONGPOSITION, Receiver!MIDI_TC_QUARTERFRAME,
            Receiver!MIDI_SONGSELECT, Receiver!THREE, Receiver!TWO, Receiver!ONE,
            Receiver!UNDEFINED
<1>1. Length(b) \in {0, 1, 2, 3}
  OBVIOUS
<1>2. Length(b) # 0 => IsStatus(b)
  BY DEF IsStatus, Receiver!midi_is_statusbyte
<1>3. Long(b) => ~Realtime(b)
  BY DEF Long, Realtime, Receiver!midi_is_realtime, Receiver!MIDI_CLOCK
<1>4. Length(Receiver!SYSEX_BEGIN) = 0 /\ Length(Receiver!SYSEX_END) = 0
  BY DEF Receiver!SYSEX_BEGIN, Receiver!SYSEX_END
<1> QED  BY <1>1, <1>2, <1>3, <1>4

(* Sequences of up to three bytes.                                         *)
LEMMA ShortSequences ==
    ASSUME NEW a \in Byte, NEW b \in Byte, NEW c \in Byte
    PROVE  /\ Append(<<>>, a) = <<a>>
           /\ <<a>> \o <<b>> = <<a, b>>
           /\ Append(<<a>>, b) = <<a, b>>
           /\ <<a>> \o <<b, c>> = <<a, b, c>>
<1>1. <<a>> \in Seq(Byte) /\ <<b>> \in Seq(Byte) /\ <<b, c>> \in Seq(Byte)
  OBVIOUS
<1>2. /\ <<a>> \o <<b>> = Append(<<a>>, b)
      /\ Append(<<a>>, b) = <<a, b>>
      /\ Append(<<>>, a) = <<a>>
  <2>1. <<a>> \o <<b>> = Append(<<a>>, b)
    BY <1>1, AppendIsConcat
  <2>2. Append(<<a>>, b) = <<a, b>>
    <3> DEFINE s == Append(<<a>>, b)
               t == <<a, b>>
    <3>1. Len(<<a>>) = 1 /\ <<a>>[1] = a
      OBVIOUS
    <3>2. s \in Seq(Byte) /\ Len(s) = 2 /\ s[1] = a /\ s[2] = b
      BY <1>1, <3>1, AppendProperties
    <3>3. t \in Seq(Byte) /\ Len(t) = 2 /\ t[1] = a /\ t[2] = b
      OBVIOUS
    <3> HIDE DEF s, t
    <3>4. \A i \in 1 .. Len(s) : s[i] = t[i]
      BY <3>2, <3>3
    <3>5. s = t
      BY <3>2, <3>3, <3>4, SeqEqual
    <3> QED  BY <3>5 DEF s, t
  <2>3. Append(<<>>, a) = <<a>>
    OBVIOUS
  <2> QED  BY <2>1, <2>2, <2>3
<1>3. <<a>> \o <<b, c>> = <<a, b, c>>
  <2> DEFINE s == <<a>> \o <<b, c>>
             t == <<a, b, c>>
  <2>1. Len(<<a>>) = 1 /\ <<a>>[1] = a /\ Len(<<b, c>>) = 2 /\ <<b, c>>[1] = b /\ <<b, c>>[2] = c
    OBVIOUS
  <2>2. s \in Seq(Byte) /\ Len(s) = 3 /\ s[1] = a /\ s[2] = b /\ s[3] = c
    <3>1. s \in Seq(Byte) /\ Len(s) = 1 + 2
          /\ \A i \in 1 .. 1 + 2 : s[i] = IF i <= 1 THEN <<a>>[i] ELSE <<b, c>>[i - 1]
      BY <1>1, <2>1, ConcatProperties
    <3> QED  BY <2>1, <3>1
  <2>3. t \in Seq(Byte) /\ Len(t) = 3 /\ t[1] = a /\ t[2] = b /\ t[3] = c
    OBVIOUS
  <2> HIDE DEF s, t
  <2>4. \A i \in 1 .. Len(s) : s[i] = t[i]
    BY <2>2, <2>3
  <2>5. s = t
    BY <2>2, <2>3, <2>4, SeqEqual
  <2> QED  BY <2>5 DEF s, t
<1> QED  BY <1>2, <1>3

LEMMA FirstBytes ==
    ASSUME NEW s \in [1 .. 3 -> Byte]
    PROVE  /\ SubSeq(s, 1, 1) = <<s[1]>>
           /\ SubSeq(s, 1, 2) = <<s[1], s[2]>>
           /\ SubSeq(s, 1, 3) = <<s[1], s[2], s[3]>>
<1>1. ASSUME NEW k \in 1 .. 3, NEW t \in Seq(Byte), Len(t) = k, \A i \in 1 .. k : t[i] = s[i]
      PROVE  SubSeq(s, 1, k) = t
  <2>1. \A i \in 1 .. k : s[i] \in Byte
    OBVIOUS
  <2>2. SubSeq(s, 1, k) \in Seq(Byte) /\ Len(SubSeq(s, 1, k)) = k
        /\ \A i \in 1 .. k : SubSeq(s, 1, k)[i] = s[i]
    <3>1. 1 <= k /\ k - 1 + 1 = k /\ \A i \in 1 .. k : 1 + i - 1 = i
      OBVIOUS
    <3> QED  BY <2>1, <3>1, SubSeqProperties
  <2>3. \A i \in 1 .. Len(SubSeq(s, 1, k)) : SubSeq(s, 1, k)[i] = t[i]
    BY <1>1, <2>2
  <2>4. Len(SubSeq(s, 1, k)) = Len(t)
    BY <1>1, <2>2
  <2> QED  BY <1>1, <2>2, <2>3, <2>4, SeqEqual
<1>2. s[1] \in Byte /\ s[2] \in Byte /\ s[3] \in Byte
  OBVIOUS
<1>3. SubSeq(s, 1, 1) = <<s[1]>>
  <2> DEFINE t == <<s[1]>>
  <2>1. t \in Seq(Byte) /\ Len(t) = 1 /\ t[1] = s[1]
    BY <1>2
  <2> HIDE DEF t
  <2>2. SubSeq(s, 1, 1) = t
    BY <1>1, <2>1
  <2> QED  BY <2>2 DEF t
<1>4. SubSeq(s, 1, 2) = <<s[1], s[2]>>
  <2> DEFINE t == <<s[1], s[2]>>
  <2>1. t \in Seq(Byte) /\ Len(t) = 2 /\ t[1] = s[1] /\ t[2] = s[2]
    BY <1>2
  <2> HIDE DEF t
  <2>2. \A i \in 1 .. 2 : t[i] = s[i]
    BY <2>1
  <2>3. SubSeq(s, 1, 2) = t
    BY <1>1, <2>1, <2>2
  <2> QED  BY <2>3 DEF t
<1>5. SubSeq(s, 1, 3) = <<s[1], s[2], s[3]>>
  <2> DEFINE t == <<s[1], s[2], s[3]>>
  <2>1. t \in Seq(Byte) /\ Len(t) = 3 /\ t[1] = s[1] /\ t[2] = s[2] /\ t[3] = s[3]
    BY <1>2
  <2> HIDE DEF t
  <2>2. \A i \in 1 .. 3 : t[i] = s[i]
    BY <2>1
  <2>3. SubSeq(s, 1, 3) = t
    BY <1>1, <2>1, <2>2
  <2> QED  BY <2>3 DEF t
<1> QED  BY <1>3, <1>4, <1>5

(* What the receiver does with each byte of a message.                     *)
LEMMA MessageIs ==
    ASSUME NEW m \in MainMessage \cup IsrMessage
    PROVE  /\ m.cnt \in {1, 2, 3} /\ BytesOf(m) \in Seq(Byte)
           /\ m.bytes[1] \in Byte /\ m.bytes[2] \in Byte /\ m.bytes[3] \in Byte
           /\ Sound(m.bytes[1])
           /\ m.cnt # 1 => Sound(m.bytes[2]) /\ ~Realtime(m.bytes[1])
           /\ m.cnt = 3 => Sound(m.bytes[3])
           /\ m.cnt = 1 => \A s, d :
                  /\ After(s, d, m.bytes[1]).said = <<0, BytesOf(m)>>
                  /\ Realtime(m.bytes[1]) =>
                         /\ After(s, d, m.bytes[1]).status = s
                         /\ After(s, d, m.bytes[1]).data = d
           /\ m.cnt # 1 => \A s, d : After(s, d, m.bytes[1]) = Hearing(m.bytes[1], <<>>, Nothing)
           /\ m.cnt = 2 =>
                  After(m.bytes[1], <<>>, m.bytes[2]).said = <<0, BytesOf(m)>>
           /\ m.cnt = 3 =>
                  /\ After(m.bytes[1], <<>>, m.bytes[2])
                         = Hearing(m.bytes[1], <<m.bytes[2]>>, Nothing)
                  /\ After(m.bytes[1], <<m.bytes[2]>>, m.bytes[3]).said = <<0, BytesOf(m)>>
<1> DEFINE b1 == m.bytes[1]
           b2 == m.bytes[2]
           b3 == m.bytes[3]
<1>1. b1 \in Byte /\ b2 \in Byte /\ b3 \in Byte /\ Byte \subseteq 0 .. 255 /\ IsWhole(m)
  BY MessageBytes, WholeMessageAssumption
<1>3. \/ m.cnt = 1 /\ (Realtime(b1) \/ Length(b1) = 1)
      \/ m.cnt = 2 /\ Length(b1) = 2 /\ ~IsStatus(b2)
      \/ m.cnt = 3 /\ Length(b1) = 3 /\ ~IsStatus(b2) /\ ~IsStatus(b3)
  <2>1. m.cnt = 2 => 2 \in 2 .. m.cnt
    OBVIOUS
  <2>2. m.cnt = 3 => 2 \in 2 .. m.cnt /\ 3 \in 2 .. m.cnt
    OBVIOUS
  <2> QED  BY <1>1, <2>1, <2>2 DEF IsWhole, Realtime, Length, IsStatus
<1>8. /\ SubSeq(m.bytes, 1, 1) = <<b1>>
      /\ SubSeq(m.bytes, 1, 2) = <<b1, b2>>
      /\ SubSeq(m.bytes, 1, 3) = <<b1, b2, b3>>
  <2>1. m.bytes \in [1 .. 3 -> Byte]
    BY MessageAssumption
  <2> QED  BY <2>1, FirstBytes
<1> HIDE DEF b1, b2, b3
<1>2. b1 \in 0 .. 255 /\ b2 \in 0 .. 255 /\ b3 \in 0 .. 255
  BY <1>1
<1>17. b1 # NoStatus
  BY <1>2 DEF NoStatus, Receiver!NoStatus
<1>4. (Length(b1) = 1 \/ Length(b1) = 2 \/ Length(b1) = 3) => IsStatus(b1)
  BY <1>2, LengthIs, SMTT(30)
<1>5. (Length(b1) = 2 \/ Length(b1) = 3) => ~Realtime(b1)
  BY <1>2, LengthIs DEF Long
<1>6. ~IsStatus(b2) => ~Realtime(b2)
  BY <1>2 DEF IsStatus, Realtime, Receiver!midi_is_realtime, Receiver!midi_is_statusbyte,
              Receiver!MIDI_CLOCK
<1>7. ~IsStatus(b3) => ~Realtime(b3)
  BY <1>2 DEF IsStatus, Realtime, Receiver!midi_is_realtime, Receiver!midi_is_statusbyte,
              Receiver!MIDI_CLOCK
<1>9. BytesOf(m) = (IF m.cnt = 1 THEN <<b1>> ELSE IF m.cnt = 2 THEN <<b1, b2>> ELSE <<b1, b2, b3>>)
  BY <1>3, <1>8 DEF BytesOf
<1>10. BytesOf(m) \in Seq(Byte)
  BY <1>1, <1>3, <1>9
<1>11. m.cnt = 1 => \A s, d :
           /\ After(s, d, b1).said = <<0, BytesOf(m)>>
           /\ Realtime(b1) => After(s, d, b1).status = s /\ After(s, d, b1).data = d
  BY <1>3, <1>4, <1>9 DEF After, Hearing, Realtime, IsStatus, Length
<1>12. m.cnt # 1 => \A s, d : After(s, d, b1) = Hearing(b1, <<>>, Nothing)
  BY <1>3, <1>4, <1>5 DEF After, Realtime, IsStatus, Length
<1>13. m.cnt = 2 => After(b1, <<>>, b2).said = <<0, BytesOf(m)>>
  <2>1. <<b1>> \o Append(<<>>, b2) = <<b1, b2>>
    <3>1. Append(<<>>, b2) = <<b2>>
      BY <1>1, ShortSequences, Zenon
    <3>2. <<b1>> \o <<b2>> = <<b1, b2>>
      BY <1>1, ShortSequences, Zenon
    <3> QED  BY <3>1, <3>2, Zenon
  <2>2. Len(<<>>) + 2 = 2
    OBVIOUS
  <2> QED  BY <1>17, <1>3, <1>6, <1>9, <2>1, <2>2 DEF After, Hearing, Realtime, IsStatus, Length
<1>14. m.cnt = 3 => After(b1, <<>>, b2) = Hearing(b1, <<b2>>, Nothing)
  <2>1. Len(<<>>) + 2 = 2 /\ Append(<<>>, b2) = <<b2>>
    OBVIOUS
  <2> QED  BY <1>17, <1>3, <1>6, <2>1 DEF After, Realtime, IsStatus, Length
<1>15. m.cnt = 3 => After(b1, <<b2>>, b3).said = <<0, BytesOf(m)>>
  <2>1. <<b1>> \o Append(<<b2>>, b3) = <<b1, b2, b3>>
    <3>1. Append(<<b2>>, b3) = <<b2, b3>>
      BY <1>1, ShortSequences, Zenon
    <3>2. <<b1>> \o <<b2, b3>> = <<b1, b2, b3>>
      BY <1>1, ShortSequences, Zenon
    <3> QED  BY <3>1, <3>2, Zenon
  <2>2. Len(<<b2>>) + 2 = 3
    OBVIOUS
  <2> QED  BY <1>17, <1>3, <1>7, <1>9, <2>1, <2>2 DEF After, Hearing, Realtime, IsStatus, Length
<1>16. Sound(b1) /\ (m.cnt # 1 => Sound(b2) /\ ~Realtime(b1)) /\ (m.cnt = 3 => Sound(b3))
  BY <1>3, <1>5 DEF Sound
<1> QED  BY <1>1, <1>3, <1>10, <1>11, <1>12, <1>13, <1>14, <1>15, <1>16 DEF b1, b2, b3

(* The receiver of MidiStream takes the step After.                        *)
LEMMA ReceiveIs ==
    ASSUME NEW b \in Byte, Sound(b), status = NoStatus \/ (status \in Byte /\ Long(status)),
           Receiver!Receive(b)
    PROVE  /\ Hearing(status', data', delivered') = After(status, data, b)
           /\ status' = NoStatus \/ (status' \in Byte /\ Long(status'))
           /\ delivered = Nothing
           /\ delivered' = Nothing \/ \E m : delivered' = <<0, m>>
<1> USE DEF Hearing, Nothing, NoStatus, Receiver!Nothing, Receiver!NoStatus, Receiver!Message,
            Receiver!Deliver
<1>1. b \in 0 .. 255 /\ (status \in Byte => status \in 0 .. 255)
  BY WholeMessageAssumption
<1>2. b # Receiver!SYSEX_BEGIN \/ Realtime(b) \/ ~IsStatus(b)
  BY <1>1, LengthIs, SMTT(30) DEF Sound
<1>3. /\ 240 >= 128 /\ ~(240 >= 248) /\ 240 # 256
  OBVIOUS
<1>4. b # Receiver!SYSEX_BEGIN /\ status # Receiver!SYSEX_BEGIN
  BY <1>1, <1>2, <1>3, LengthIs DEF Realtime, IsStatus, Receiver!midi_is_realtime,
     Receiver!midi_is_statusbyte, Receiver!MIDI_CLOCK, Receiver!SYSEX_BEGIN, Long
<1>5. IsStatus(b) \/ ~Realtime(b)
  BY <1>1 DEF IsStatus, Realtime, Receiver!midi_is_realtime, Receiver!midi_is_statusbyte,
              Receiver!MIDI_CLOCK
<1>6. delivered = Nothing
  BY DEF Receiver!Receive
<1>7. CASE Receiver!Realtime(b)
  BY <1>6, <1>7 DEF Receiver!Realtime, After
<1>8. CASE Receiver!Status(b)
  <2>1. Length(b) \in {1, 2, 3} /\ IsStatus(b) /\ ~Realtime(b)
    BY <1>8 DEF Receiver!Status, Sound, IsStatus, Realtime
  <2>2. CASE Length(b) = 1
    BY <1>6, <1>8, <2>1, <2>2 DEF Receiver!Status, Receiver!InForce, After, IsStatus, Realtime,
       Length, Receiver!ONE, Receiver!TWO, Receiver!THREE, Receiver!UNDEFINED
  <2>3. CASE Length(b) \in {2, 3}
    BY <1>6, <1>8, <2>1, <2>3 DEF Receiver!Status, Receiver!InForce, After, IsStatus, Realtime,
       Length, Long, Receiver!ONE, Receiver!TWO, Receiver!THREE, Receiver!UNDEFINED
  <2> QED  BY <2>1, <2>2, <2>3
<1>9. CASE Receiver!Data(b)
  <2>1. ~IsStatus(b) /\ ~Realtime(b) /\ status # NoStatus /\ status \in Byte /\ Long(status)
    BY <1>5, <1>9 DEF Receiver!Data, IsStatus
  <2>2. CASE Len(data) + 2 = Length(status)
    <3>1. /\ delivered' = <<0, <<status>> \o Append(data, b)>>
          /\ data' = <<>> /\ status' = status
      BY <1>9, <2>1, <2>2 DEF Receiver!Data, Length
    <3>2. After(status, data, b) = Hearing(status, <<>>, <<0, <<status>> \o Append(data, b)>>)
      BY <2>1, <2>2 DEF After, IsStatus, Realtime, Length
    <3> QED  BY <1>6, <2>1, <3>1, <3>2
  <2>3. CASE Len(data) + 2 # Length(status)
    BY <1>6, <1>9, <2>1, <2>3 DEF Receiver!Data, After, IsStatus, Realtime, Length
  <2> QED  BY <2>2, <2>3
<1>10. CASE Receiver!Ignored(b)
  BY <1>5, <1>6, <1>10 DEF Receiver!Ignored, Receiver!stream, After, IsStatus, Realtime
<1>11. CASE Receiver!SysexStart(b) \/ Receiver!SysexStop(b) \/ Receiver!SysexData(b)
  BY <1>4, <1>11 DEF Receiver!SysexStart, Receiver!SysexStop, Receiver!SysexData
<1> QED  BY <1>7, <1>8, <1>9, <1>10, <1>11 DEF Receiver!Receive

-----------------------------------------------------------------------------
(* The invariant of SerialWire.                                            *)

Now == Hearing(status, data, delivered)

WireTypes ==
    /\ whole \in BOOLEAN /\ torn \in BOOLEAN /\ outbox \in Seq(Seq(Byte))
    /\ status = NoStatus \/ (status \in Byte /\ Long(status))
    /\ delivered = Nothing \/ \E m : delivered = <<0, m>>
    /\ AllSound(Pending)

(* Where the send function is, and what became of its message so far.      *)
Underway ==
    /\ at = "byte0" => whole
    /\ Halfway => outgoing.cnt # 1 /\ (whole \/ torn)
    /\ at = "byte2" => outgoing.cnt = 3

(* As long as it is whole, what has gone out of it is what the receiver    *)
(* will have last.                                                         *)
Midway(s, d) ==
    /\ at = "byte1" /\ whole => s = outgoing.bytes[1] /\ d = <<>>
    /\ at = "byte2" /\ whole => s = outgoing.bytes[1] /\ d = <<outgoing.bytes[2]>>

Foreseen == \E s, d : Future(Now, Pending, outbox, ~torn, s, d) /\ Midway(s, d)

WireInv == IInv /\ WireTypes /\ Underway /\ Foreseen

(* Pending, with another queue.                                            *)
Waiting(q) == Held(shift) \o Held(udr) \o q

LEMMA WaitingIs ==
    ASSUME Types, NEW q \in Seq(Byte), NEW b \in Byte
    PROVE  /\ Waiting(q) \in Seq(Byte) /\ Append(q, b) \in Seq(Byte)
           /\ Waiting(Append(q, b)) = Append(Waiting(q), b)
<1> DEFINE regs == Held(shift) \o Held(udr)
<1>1. regs \in Seq(Byte)
  BY PendingIs
<1>2. Waiting(q) = regs \o q /\ Waiting(Append(q, b)) = regs \o Append(q, b)
  BY DEF Waiting
<1> HIDE DEF regs
<1>3. regs \o q \in Seq(Byte) /\ <<b>> \in Seq(Byte) /\ Append(q, b) \in Seq(Byte)
  BY <1>1, ConcatProperties, AppendProperties
<1>4. Append(q, b) = q \o <<b>> /\ Append(regs \o q, b) = (regs \o q) \o <<b>>
  BY <1>3, AppendIsConcat
<1>5. (regs \o q) \o <<b>> = regs \o (q \o <<b>>)
  BY <1>1, <1>3, Associative
<1> QED  BY <1>2, <1>3, <1>4, <1>5

LEMMA SoundMore ==
    ASSUME NEW p \in Seq(Byte), NEW b \in Byte, AllSound(p), Sound(b)
    PROVE  AllSound(Append(p, b))
<1> DEFINE q == Append(p, b)
<1>1. Len(p) \in Nat /\ Len(q) = Len(p) + 1 /\ q[Len(p) + 1] = b
      /\ \A i \in 1 .. Len(p) : q[i] = p[i]
  BY AppendProperties, LenProperties
<1> HIDE DEF q
<1>2. ASSUME NEW i \in 1 .. Len(q) PROVE Sound(q[i])
  <2>1. CASE i \in 1 .. Len(p)
    BY <1>1, <2>1 DEF AllSound
  <2>2. CASE i = Len(p) + 1
    BY <1>1, <2>2
  <2> QED  BY <1>1, <2>1, <2>2
<1>3. AllSound(q)
  BY <1>2 DEF AllSound
<1> QED  BY <1>3 DEF q

LEMMA SoundFirst ==
    ASSUME NEW p \in Seq(Byte), p # <<>>, AllSound(p)
    PROVE  Sound(Head(p)) /\ AllSound(Tail(p))
<1> DEFINE q == Tail(p)
<1>1. Len(p) \in Nat \ {0} /\ Len(q) = Len(p) - 1 /\ Head(p) = p[1]
      /\ \A i \in 1 .. Len(q) : q[i] = p[i + 1]
  BY HeadTailProperties, LenProperties, EmptySeq
<1> HIDE DEF q
<1>2. ASSUME NEW i \in 1 .. Len(q) PROVE Sound(q[i])
  <2>1. i + 1 \in 1 .. Len(p)
    BY <1>1
  <2> QED  BY <1>1, <2>1 DEF AllSound
<1>3. 1 \in 1 .. Len(p)
  BY <1>1
<1>4. Sound(Head(p))
  BY <1>1, <1>3 DEF AllSound
<1>5. AllSound(q)
  BY <1>2 DEF AllSound
<1> QED  BY <1>4, <1>5 DEF q

LEMMA EnqueuedOrNot ==
    ASSUME NEW q \in Seq(Byte), NEW b \in Byte
    PROVE  /\ Enqueued(q, b) = q \/ Enqueued(q, b) = Append(q, b)
           /\ Append(q, b) # q /\ Len(q) \in Nat /\ Len(Append(q, b)) = Len(q) + 1
           /\ Append(q, b) \in Seq(Byte)
<1>1. Len(q) \in Nat /\ Len(Append(q, b)) = Len(q) + 1 /\ Append(q, b) \in Seq(Byte)
  BY AppendProperties, LenProperties
<1>2. Append(q, b) # q
  BY <1>1
<1> QED  BY <1>1, <1>2 DEF Enqueued

(* With no byte left anywhere there is nothing else to come.               *)
LEMMA QuietFuture ==
    ASSUME NEW r, NEW p, p = <<>>, NEW out, NEW all, NEW s, NEW d,
           Future(r, p, out, all, s, d), r.said = Nothing
    PROVE  Future(r, p, out, TRUE, s, d)
<1>1. PICK run, place :
          Hears(r, p, out, all, run, place) /\ run[Len(p)].status = s /\ run[Len(p)].data = d
  BY DEF Future
<1>2. Len(p) = 0 /\ run[0] = r
  BY <1>1 DEF Hears
<1>3. \A i \in 0 .. Len(p) : run[i].said = Nothing
  BY <1>2
<1>4. Hears(r, p, out, TRUE, run, place)
  BY <1>1, <1>3 DEF Hears
<1> QED  BY <1>1, <1>4, Zenon DEF Future

LEMMA TornAnew ==
    ASSUME WireInv, NEW t \in BOOLEAN, ~t => ~torn \/ Quiet
    PROVE  \E s, d : Future(Now, Pending, outbox, ~t, s, d) /\ Midway(s, d)
<1>1. PICK s, d : Future(Now, Pending, outbox, ~torn, s, d) /\ Midway(s, d)
  BY DEF WireInv, Foreseen
<1>2. CASE t
  <2>1. Future(Now, Pending, outbox, FALSE, s, d)
    BY <1>1, FutureTorn
  <2> QED  BY <1>1, <1>2, <2>1
<1>3. CASE ~t /\ ~torn
  <2>1. (~t) = TRUE /\ (~torn) = TRUE
    BY <1>3
  <2> QED  BY <1>1, <2>1
<1>4. CASE ~t /\ Quiet
  <2>1. Pending = <<>> /\ Now.said = Nothing
    BY <1>4 DEF Quiet, Now, Hearing, Nothing
  <2>2. Future(Now, Pending, outbox, TRUE, s, d)
    BY <1>1, <2>1, QuietFuture
  <2>3. (~t) = TRUE
    BY <1>4
  <2> QED  BY <1>1, <2>2, <2>3
<1> QED  BY <1>2, <1>3, <1>4

-----------------------------------------------------------------------------
(* No step of SerialWire breaks it.                                        *)

LEMMA WireIsNext == [WireNext]_wireVars => [Next]_vars
<1> SUFFICES ASSUME [WireNext]_wireVars PROVE [Next]_vars
  OBVIOUS
<1>1. ASSUME NEW m \in MainMessage, MainSends(m) PROVE Next
  BY <1>1 DEF MainSends, Next, Sends
<1>2. ASSUME NEW m \in IsrMessage, IsrSends(m) PROVE Next
  BY <1>2 DEF IsrSends, Next, Sends
<1>3. CASE Enqueues
  BY <1>3 DEF Enqueues, Next, SendStep
<1>4. CASE PortStep
  BY <1>4 DEF PortStep, Next, SendStep
<1>5. CASE Heard
  BY <1>5 DEF Heard, Next
<1>6. CASE Settles
  BY <1>6 DEF Settles
<1>7. CASE UNCHANGED wireVars
  BY <1>7 DEF wireVars
<1> QED  BY <1>1, <1>2, <1>3, <1>4, <1>5, <1>6, <1>7 DEF WireNext

LEMMA PortPending ==
    ASSUME queue' = queue, udr' = udr, shift' = shift
    PROVE  Pending' = Pending
  BY DEF Pending

(* A byte of the main program's message.                                   *)
LEMMA EnqueuesKeeps == ASSUME WireInv, Enqueues PROVE WireTypes' /\ Underway' /\ Foreseen'
<1> DEFINE m == outgoing
           k == IF at = "byte0" THEN 1 ELSE IF at = "byte1" THEN 2 ELSE 3
           b == m.bytes[k]
<1>1. Types /\ IInv /\ WireTypes /\ Underway
  BY DEF WireInv, IInv
<1>2. /\ at \in {"byte0", "byte1", "byte2"} /\ m \in MainMessage
      /\ queue' = Enqueued(queue, b)
      /\ outgoing' = outgoing /\ udr' = udr /\ shift' = shift
      /\ status' = status /\ data' = data /\ delivered' = delivered
      /\ whole' = (whole /\ queue' # queue) /\ torn' = (torn \/ queue' = queue)
      /\ outbox' = IF at' = "enable" /\ whole' THEN Append(outbox, BytesOf(m)) ELSE outbox
      /\ at' = IF at = "byte0" /\ m.cnt > 1 THEN "byte1"
               ELSE IF at = "byte1" /\ m.cnt = 3 THEN "byte2" ELSE "enable"
  BY <1>1 DEF Enqueues, EnqueueByte0, EnqueueByte1, EnqueueByte2, receiver, Types
<1>3. /\ m.cnt \in {1, 2, 3} /\ BytesOf(m) \in Seq(Byte)
      /\ b \in Byte /\ Sound(b)
  BY <1>1, <1>2, MessageIs DEF Underway, Halfway
<1>4. queue \in Seq(Byte) /\ Pending \in Seq(Byte) /\ Pending = Waiting(queue)
      /\ outbox \in Seq(Seq(Byte))
  BY <1>1, PendingIs DEF Types, Waiting, Pending, WireTypes
<1>5. CASE queue' = queue
  <2>1. Pending' = Pending /\ outbox' = outbox /\ whole' = FALSE /\ torn' = TRUE
    BY <1>1, <1>2, <1>5, PortPending DEF WireTypes
  <2>2. WireTypes'
    BY <1>1, <1>2, <2>1 DEF WireTypes
  <2>3. Underway'
    BY <1>2, <1>3, <2>1 DEF Underway, Halfway
  <2>4. PICK s, d : Future(Now, Pending, outbox, FALSE, s, d)
    BY FutureTorn DEF WireInv, Foreseen
  <2>5. Now' = Now /\ (~torn') = FALSE
    BY <1>2, <2>1 DEF Now
  <2>6. Midway(s, d)'
    BY <2>1 DEF Midway
  <2>7. Foreseen'
    BY <2>1, <2>4, <2>5, <2>6 DEF Foreseen
  <2> QED  BY <2>2, <2>3, <2>7
<1>6. CASE queue' # queue
  <2>1. queue' = Append(queue, b) /\ whole' = whole /\ torn' = torn
    BY <1>1, <1>2, <1>3, <1>4, <1>6, EnqueuedOrNot DEF WireTypes
  <2>2. Pending' = Append(Pending, b)
    <3>1. Pending' = Waiting(queue')
      BY <1>2 DEF Pending, Waiting
    <3>2. Waiting(Append(queue, b)) = Append(Waiting(queue), b)
      BY <1>1, <1>3, <1>4, WaitingIs
    <3> QED  BY <1>4, <2>1, <3>1, <3>2
  <2>3. AllSound(Pending')
    BY <1>1, <1>3, <1>4, <2>2, SoundMore DEF WireTypes
  <2>4. outbox' \in Seq(Seq(Byte))
    BY <1>2, <1>3, <1>4, AppendProperties
  <2>5. WireTypes'
    BY <1>1, <1>2, <2>1, <2>3, <2>4 DEF WireTypes
  <2>6. Underway'
    BY <1>1, <1>2, <1>3, <2>1 DEF Underway, Halfway
  <2>7. Now' = Now
    BY <1>2 DEF Now
  <2>8. PICK s, d : Future(Now, Pending, outbox, ~torn, s, d) /\ Midway(s, d)
    BY DEF WireInv, Foreseen
  <2>9. torn \in BOOLEAN /\ (~torn) \in BOOLEAN /\ (~torn') = (~torn)
    BY <1>1, <2>1 DEF WireTypes
  <2>13. ASSUME NEW next, Future(Now, Append(Pending, b), outbox', ~torn, next.status, next.data),
                Midway(next.status, next.data)'
         PROVE  Foreseen'
    <3>1. Future(Now', Pending', outbox', ~torn', next.status, next.data)
      BY <2>2, <2>7, <2>9, <2>13
    <3> QED  BY <2>13, <3>1 DEF Foreseen
  <2>14. PICK next : next = After(s, d, b)
    OBVIOUS
  <2>10. CASE ~whole
    <3>1. torn /\ at' # "byte0" /\ whole' = FALSE /\ outbox' = outbox
      BY <1>1, <1>2, <2>1, <2>10 DEF Underway, Halfway, WireTypes
    <3>2. Future(Now, Append(Pending, b), outbox, ~torn, next.status, next.data)
      BY <1>3, <1>4, <2>8, <2>9, <3>1, <2>14, ByteMore
    <3>3. Midway(next.status, next.data)'
      BY <3>1 DEF Midway
    <3> QED  BY <2>5, <2>6, <2>13, <3>1, <3>2, <3>3
  <2>11. CASE whole /\ at' # "enable"
    <3>1. outbox' = outbox
      BY <1>2, <2>11
    <3>2. /\ next.said = Nothing
          /\ at' = "byte1" => next = Hearing(m.bytes[1], <<>>, Nothing)
          /\ at' = "byte2" => next = Hearing(m.bytes[1], <<m.bytes[2]>>, Nothing)
      <4>1. CASE at = "byte0"
        <5>1. m.cnt # 1 /\ b = m.bytes[1] /\ at' = "byte1"
          BY <1>2, <1>3, <2>11, <4>1
        <5>2. next = Hearing(m.bytes[1], <<>>, Nothing)
          BY <1>2, <2>14, <5>1, MessageIs
        <5> QED  BY <5>1, <5>2 DEF Hearing
      <4>2. CASE at = "byte1"
        <5>1. m.cnt = 3 /\ b = m.bytes[2] /\ at' = "byte2" /\ s = m.bytes[1] /\ d = <<>>
          BY <1>2, <1>3, <2>8, <2>11, <4>2 DEF Midway
        <5>2. next = Hearing(m.bytes[1], <<m.bytes[2]>>, Nothing)
          BY <1>2, <2>14, <5>1, MessageIs
        <5> QED  BY <5>1, <5>2 DEF Hearing
      <4>3. CASE at = "byte2"
        BY <1>2, <2>11, <4>3
      <4> QED  BY <1>2, <4>1, <4>2, <4>3
    <3>3. Future(Now, Append(Pending, b), outbox, ~torn, next.status, next.data)
      BY <1>3, <1>4, <2>8, <2>9, <3>2, <2>14, ByteMore
    <3>4. Midway(next.status, next.data)'
      BY <1>2, <3>2 DEF Midway, Hearing
    <3> QED  BY <2>5, <2>6, <2>13, <3>1, <3>3, <3>4
  <2>12. CASE whole /\ at' = "enable"
    <3>1. outbox' = Append(outbox, BytesOf(m))
      BY <1>2, <2>1, <2>12
    <3>2. next.said = <<0, BytesOf(m)>>
      <4>1. CASE at = "byte0"
        <5>1. m.cnt = 1 /\ b = m.bytes[1]
          BY <1>2, <1>3, <2>12, <4>1
        <5> QED  BY <1>2, <2>14, <5>1, MessageIs
      <4>2. CASE at = "byte1"
        <5>1. m.cnt = 2 /\ b = m.bytes[2] /\ s = m.bytes[1] /\ d = <<>>
          BY <1>1, <1>2, <1>3, <2>8, <2>12, <4>2 DEF Midway, Underway, Halfway
        <5> QED  BY <1>2, <2>14, <5>1, MessageIs
      <4>3. CASE at = "byte2"
        <5>1. m.cnt = 3 /\ b = m.bytes[3] /\ s = m.bytes[1] /\ d = <<m.bytes[2]>>
          BY <1>1, <1>2, <1>3, <2>8, <2>12, <4>3 DEF Midway, Underway
        <5> QED  BY <1>2, <2>14, <5>1, MessageIs
      <4> QED  BY <1>2, <4>1, <4>2, <4>3
    <3>3. Future(Now, Append(Pending, b), Append(outbox, BytesOf(m)), ~torn,
                 next.status, next.data)
      BY <1>3, <1>4, <2>8, <2>9, <3>2, <2>14, MessageMore
    <3>4. Midway(next.status, next.data)'
      BY <2>12 DEF Midway
    <3> QED  BY <2>5, <2>6, <2>13, <3>1, <3>3, <3>4
  <2> QED  BY <2>10, <2>11, <2>12
<1> QED  BY <1>5, <1>6

LEMMA MainSendsKeeps ==
    ASSUME WireInv, NEW m \in MainMessage, MainSends(m)
    PROVE  WireTypes' /\ Underway' /\ Foreseen'
<1>1. /\ Pending' = Pending /\ Now' = Now /\ outbox' = outbox
      /\ status' = status /\ delivered' = delivered
      /\ at' = "byte0" /\ whole' = TRUE /\ torn' = (torn /\ ~Quiet)
  BY DEF MainSends, CallSend, port, receiver, Pending, Now
<1>2. WireTypes /\ torn \in BOOLEAN
  BY DEF WireInv, WireTypes
<1>3. WireTypes'
  BY <1>1, <1>2 DEF WireTypes
<1>4. Underway'
  BY <1>1 DEF Underway, Halfway
<1>5. PICK s, d : Future(Now, Pending, outbox, ~torn', s, d)
  <2>1. torn' \in BOOLEAN /\ (~torn' => ~torn \/ Quiet)
    BY <1>1, <1>2
  <2> QED  BY <2>1, TornAnew
<1>6. Midway(s, d)'
  BY <1>1 DEF Midway
<1> QED  BY <1>1, <1>3, <1>4, <1>5, <1>6 DEF Foreseen

LEMMA HeardKeeps == ASSUME WireInv, Heard PROVE WireTypes' /\ Underway' /\ Foreseen'
<1>1. /\ ShiftOut /\ Receiver!Receive(shift)
      /\ whole' = whole /\ outbox' = outbox /\ torn' = torn
      /\ at' = at /\ outgoing' = outgoing
  BY DEF Heard, ghosts, ShiftOut, sending
<1>2. Types /\ WireTypes /\ Underway
  BY DEF WireInv, IInv
<1>3. /\ Pending # <<>> /\ Pending' = Tail(Pending) /\ Head(Pending) = shift /\ shift \in Byte
      /\ Pending \in Seq(Byte)
  BY <1>1, <1>2, ShiftOutEmits, PendingIs
<1>4. Sound(shift) /\ AllSound(Pending')
  BY <1>2, <1>3, SoundFirst DEF WireTypes
<1>5. status = NoStatus \/ (status \in Byte /\ Long(status))
  BY <1>2 DEF WireTypes
<1>6. /\ Hearing(status', data', delivered') = After(status, data, shift)
      /\ status' = NoStatus \/ (status' \in Byte /\ Long(status'))
      /\ delivered = Nothing
      /\ delivered' = Nothing \/ \E m : delivered' = <<0, m>>
  BY <1>1, <1>3, <1>4, <1>5, ReceiveIs
<1>7. WireTypes'
  BY <1>1, <1>2, <1>4, <1>6 DEF WireTypes
<1>8. Underway'
  BY <1>1, <1>2 DEF Underway, Halfway
<1>9. Now.status = status /\ Now.data = data /\ Now.said = Nothing
  BY <1>6 DEF Now, Hearing
<1>10. PICK s, d : Future(Now, Pending, outbox, ~torn, s, d) /\ Midway(s, d)
  BY DEF WireInv, Foreseen
<1>11. outbox \in Seq(Seq(Byte)) /\ (~torn) \in BOOLEAN
  BY <1>2 DEF WireTypes
<1>12. Future(After(status, data, shift), Tail(Pending), outbox, ~torn, s, d)
  <2>1. Future(After(Now.status, Now.data, Head(Pending)), Tail(Pending), outbox, ~torn, s, d)
    BY <1>3, <1>9, <1>10, <1>11, ByteHeard
  <2> QED  BY <1>3, <1>9, <2>1
<1>13. Now' = After(status, data, shift)
  BY <1>6 DEF Now
<1>14. Midway(s, d)'
  BY <1>1, <1>10 DEF Midway
<1>15. Foreseen'
  BY <1>1, <1>3, <1>12, <1>13, <1>14 DEF Foreseen
<1> QED  BY <1>7, <1>8, <1>15

LEMMA SettlesKeeps == ASSUME WireInv, Settles PROVE WireTypes' /\ Underway' /\ Foreseen'
<1>1. /\ Pending' = Pending /\ at' = at /\ outgoing' = outgoing /\ whole' = whole /\ torn' = torn
      /\ delivered # Nothing /\ delivered' = Nothing /\ status' = status /\ data' = data
      /\ outbox' = IF outbox # <<>> /\ delivered[2] = Head(outbox) THEN Tail(outbox) ELSE outbox
  BY DEF Settles, Receiver!Settle, vars, port, sending, Pending, Nothing
<1>2. WireTypes /\ Underway /\ Types
  BY DEF WireInv, IInv
<1>3. PICK m : delivered = <<0, m>>
  BY <1>1, <1>2 DEF WireTypes
<1>4. delivered[2] = m
  BY <1>3
<1>5. outbox \in Seq(Seq(Byte)) /\ (~torn) \in BOOLEAN /\ Pending \in Seq(Byte)
  BY <1>2, PendingIs DEF WireTypes
<1>6. outbox' \in Seq(Seq(Byte))
  BY <1>1, <1>5, HeadTailProperties
<1>7. WireTypes'
  BY <1>1, <1>2, <1>6 DEF WireTypes
<1>8. Underway'
  BY <1>1, <1>2 DEF Underway, Halfway
<1>9. PICK s, d : Future(Now, Pending, outbox, ~torn, s, d) /\ Midway(s, d)
  BY DEF WireInv, Foreseen
<1>10. Now.said = <<0, m>> /\ Now.status = status /\ Now.data = data
  BY <1>3 DEF Now, Hearing
<1>11. Future(Hearing(Now.status, Now.data, Nothing), Pending,
              IF outbox # <<>> /\ m = Head(outbox) THEN Tail(outbox) ELSE outbox, ~torn, s, d)
  BY <1>5, <1>9, <1>10, MessageDone
<1>12. Now' = Hearing(Now.status, Now.data, Nothing)
  BY <1>1, <1>10 DEF Now
<1>13. outbox' = IF outbox # <<>> /\ m = Head(outbox) THEN Tail(outbox) ELSE outbox
  BY <1>1, <1>4
<1>14. Midway(s, d)'
  BY <1>1, <1>9 DEF Midway
<1>15. Foreseen'
  BY <1>1, <1>11, <1>12, <1>13, <1>14 DEF Foreseen
<1> QED  BY <1>7, <1>8, <1>15

LEMMA PortStepKeeps == ASSUME WireInv, PortStep PROVE WireTypes' /\ Underway' /\ Foreseen'
<1>1. Types /\ WireTypes /\ Underway
  BY DEF WireInv, IInv
<1>2. /\ Now' = Now /\ outbox' = outbox /\ torn' = torn
      /\ status' = status /\ delivered' = delivered
  BY DEF PortStep, receiver, Now
<1>3. Pending' = Pending
  <2>1. CASE EnableTransmit
    BY <2>1, PortPending DEF EnableTransmit
  <2>2. ASSUME NEW on \in BOOLEAN, SetInterrupts(on) PROVE Pending' = Pending
    BY <2>2, PortPending DEF SetInterrupts, port
  <2> QED  BY <1>1, <2>1, <2>2, TransmitKeepsPending, LoadKeepsPending DEF PortStep
<1>4. \/ at' = "outside" /\ whole' \in BOOLEAN
      \/ at' = at /\ outgoing' = outgoing /\ whole' = whole
  BY <1>1 DEF PortStep, EnableTransmit, TransmitInterrupt, Load, SetInterrupts, sending, WireTypes
<1>5. WireTypes'
  BY <1>1, <1>2, <1>3, <1>4 DEF WireTypes
<1>6. Underway'
  BY <1>1, <1>2, <1>4 DEF Underway, Halfway
<1>7. PICK s, d : Future(Now, Pending, outbox, ~torn, s, d) /\ Midway(s, d)
  BY DEF WireInv, Foreseen
<1>8. Midway(s, d)'
  BY <1>4, <1>7 DEF Midway
<1>9. Foreseen'
  BY <1>2, <1>3, <1>7, <1>8 DEF Foreseen
<1> QED  BY <1>5, <1>6, <1>9

(* What an interrupt routine sends finds room as a whole ...               *)
LEMMA IsrMessageFits ==
    ASSUME Types, NEW m \in IsrMessage, AllSound(Pending), NEW r, NEW out \in Seq(Seq(Byte)),
           NEW all \in BOOLEAN, NEW s, NEW d, Future(r, Pending, out, all, s, d),
           Len(EnqueuedMessage(m)) = Len(queue) + m.cnt
    PROVE  /\ AllSound(Waiting(EnqueuedMessage(m)))
           /\ \E s2, d2 :
                  /\ Future(r, Waiting(EnqueuedMessage(m)), Append(out, BytesOf(m)), all, s2, d2)
                  /\ Realtime(m.bytes[1]) => s2 = s /\ d2 = d
<1> DEFINE b1 == m.bytes[1]
           b2 == m.bytes[2]
           b3 == m.bytes[3]
           q1 == Append(queue, b1)
           q2 == Append(q1, b2)
           q3 == Append(q2, b3)
           n == EnqueuedMessage(m)
<1>1. /\ m.cnt \in {1, 2, 3} /\ BytesOf(m) \in Seq(Byte)
      /\ b1 \in Byte /\ b2 \in Byte /\ b3 \in Byte
      /\ Sound(b1) /\ (m.cnt # 1 => Sound(b2) /\ ~Realtime(b1)) /\ (m.cnt = 3 => Sound(b3))
  BY MessageIs
<1>2. queue \in Seq(Byte) /\ Pending \in Seq(Byte) /\ Pending = Waiting(queue)
  BY PendingIs DEF Types, Waiting, Pending
<1>3. /\ q1 \in Seq(Byte) /\ q2 \in Seq(Byte)
      /\ Len(queue) \in Nat /\ Len(q1) = Len(queue) + 1 /\ Len(q2) = Len(queue) + 2
  BY <1>1, <1>2, EnqueuedOrNot
<1>4. n = (IF m.cnt = 1 THEN q1 ELSE IF m.cnt = 2 THEN q2 ELSE q3)
  <2> DEFINE one == Enqueued(queue, b1)
             two == Enqueued(one, b2)
             three == Enqueued(two, b3)
  <2>1. n = (IF m.cnt = 1 THEN one ELSE IF m.cnt = 2 THEN two ELSE three)
    BY <1>1 DEF EnqueuedMessage
  <2> HIDE DEF b1, b2, b3, n
  <2>9. ASSUME NEW q \in Seq(Byte), NEW b \in Byte
        PROVE  /\ Enqueued(q, b) \in Seq(Byte)
               /\ Len(Enqueued(q, b)) = Len(q) \/ Len(Enqueued(q, b)) = Len(q) + 1
               /\ Len(Enqueued(q, b)) = Len(q) + 1 => Enqueued(q, b) = Append(q, b)
               /\ Len(q) \in Nat
    <3>1. /\ Enqueued(q, b) = q \/ Enqueued(q, b) = Append(q, b)
          /\ Len(q) \in Nat /\ Len(Append(q, b)) = Len(q) + 1
          /\ Append(q, b) \in Seq(Byte)
      BY EnqueuedOrNot
    <3>2. CASE Enqueued(q, b) = q
      BY <3>1, <3>2
    <3>3. CASE Enqueued(q, b) = Append(q, b)
      BY <3>1, <3>3
    <3> QED  BY <3>1, <3>2, <3>3
  <2>2. one \in Seq(Byte) /\ (Len(one) = Len(queue) \/ Len(one) = Len(queue) + 1)
        /\ (Len(one) = Len(queue) + 1 => one = q1)
    BY <1>1, <1>2, <2>9
  <2> HIDE DEF one
  <2>3. two \in Seq(Byte) /\ (Len(two) = Len(one) \/ Len(two) = Len(one) + 1)
        /\ (Len(two) = Len(one) + 1 => two = Append(one, b2))
    BY <1>1, <2>2, <2>9
  <2> HIDE DEF two
  <2>4. (Len(three) = Len(two) \/ Len(three) = Len(two) + 1)
        /\ (Len(three) = Len(two) + 1 => three = Append(two, b3))
    BY <1>1, <2>3, <2>9
  <2> HIDE DEF three, q1
  <2>5. Len(n) = Len(queue) + m.cnt
    BY DEF n
  <2>6. CASE m.cnt = 1
    BY <2>1, <2>2, <2>5, <2>6
  <2>7. CASE m.cnt = 2
    <3>1. Len(two) = Len(queue) + 2
      BY <2>1, <2>5, <2>7
    <3>2. Len(one) = Len(queue) + 1 /\ Len(two) = Len(one) + 1
      BY <1>3, <2>2, <2>3, <3>1
    <3> QED  BY <2>1, <2>2, <2>3, <2>7, <3>2
  <2>8. CASE m.cnt = 3
    <3>1. Len(three) = Len(queue) + 3
      BY <2>1, <2>5, <2>8
    <3>2. Len(one) = Len(queue) + 1 /\ Len(two) = Len(one) + 1 /\ Len(three) = Len(two) + 1
      BY <1>3, <2>2, <2>3, <2>4, <3>1
    <3> QED  BY <2>1, <2>2, <2>3, <2>4, <2>8, <3>2
  <2> QED  BY <1>1, <2>6, <2>7, <2>8
<1> HIDE DEF n
<1>5. Waiting(q1) = Append(Pending, b1) /\ Waiting(q1) \in Seq(Byte)
  BY <1>1, <1>2, WaitingIs, AppendProperties
<1>6. Waiting(q2) = Append(Waiting(q1), b2) /\ Waiting(q2) \in Seq(Byte)
  <2>1. Waiting(q2) = Append(Waiting(q1), b2)
    BY <1>1, <1>3, WaitingIs
  <2> QED  BY <1>1, <1>5, <2>1, AppendProperties
<1>7. Waiting(q3) = Append(Waiting(q2), b3)
  BY <1>1, <1>3, WaitingIs
<1> DEFINE M1 == Hearing(b1, <<>>, Nothing)
           M2 == Hearing(b1, <<b2>>, Nothing)
<1>8. M1.status = b1 /\ M1.data = <<>> /\ M2.status = b1 /\ M2.data = <<b2>>
      /\ M1.said = Nothing /\ M2.said = Nothing
  BY DEF Hearing
<1> HIDE DEF q1, q2, q3, M1, M2
<1>9. CASE m.cnt = 1
  <2>1. AllSound(Waiting(q1))
    BY <1>1, <1>2, <1>5, SoundMore
  <2>2. /\ After(s, d, b1).said = <<0, BytesOf(m)>>
        /\ Realtime(b1) => After(s, d, b1).status = s /\ After(s, d, b1).data = d
    <3>1. \A x, y : /\ After(x, y, b1).said = <<0, BytesOf(m)>>
                    /\ Realtime(b1) => After(x, y, b1).status = x /\ After(x, y, b1).data = y
      BY <1>9, MessageIs
    <3> QED  BY <3>1
  <2>3. Future(r, Append(Pending, b1), Append(out, BytesOf(m)), all,
               After(s, d, b1).status, After(s, d, b1).data)
    BY <1>1, <1>2, <2>2, MessageMore
  <2> QED  BY <1>4, <1>5, <1>9, <2>1, <2>2, <2>3 DEF n
<1>10. CASE m.cnt # 1
  <2>1. After(s, d, b1) = M1 /\ AllSound(Waiting(q1))
    BY <1>1, <1>2, <1>5, <1>10, MessageIs, SoundMore DEF M1
  <2>2. Future(r, Waiting(q1), out, all, b1, <<>>)
    <3>1. Future(r, Append(Pending, b1), out, all, M1.status, M1.data)
      BY <1>1, <1>2, <1>8, <2>1, ByteMore
    <3> QED  BY <1>5, <1>8, <3>1
  <2>3. AllSound(Waiting(q2))
    BY <1>1, <1>5, <1>6, <1>10, <2>1, SoundMore
  <2>4. CASE m.cnt = 2
    <3>1. After(b1, <<>>, b2).said = <<0, BytesOf(m)>>
      BY <2>4, MessageIs
    <3>2. Future(r, Waiting(q2), Append(out, BytesOf(m)), all,
                 After(b1, <<>>, b2).status, After(b1, <<>>, b2).data)
      BY <1>1, <1>5, <1>6, <2>2, <3>1, MessageMore, ZenonT(40)
    <3> QED  BY <1>1, <1>4, <2>3, <2>4, <3>2 DEF n
  <2>5. CASE m.cnt = 3
    <3>1. After(b1, <<>>, b2) = M2 /\ After(b1, <<b2>>, b3).said = <<0, BytesOf(m)>>
      BY <2>5, MessageIs DEF M2
    <3>2. Future(r, Waiting(q2), out, all, b1, <<b2>>)
      <4>1. Future(r, Append(Waiting(q1), b2), out, all, M2.status, M2.data)
        <5>1. After(b1, <<>>, b2).said = Nothing
          BY <1>8, <3>1
        <5>2. Future(r, Append(Waiting(q1), b2), out, all,
                     After(b1, <<>>, b2).status, After(b1, <<>>, b2).data)
          BY <1>1, <1>5, <2>2, <5>1, ByteMore
        <5> QED  BY <3>1, <5>2
      <4> QED  BY <1>6, <1>8, <4>1
    <3>3. Future(r, Waiting(q3), Append(out, BytesOf(m)), all,
                 After(b1, <<b2>>, b3).status, After(b1, <<b2>>, b3).data)
      BY <1>1, <1>6, <1>7, <3>1, <3>2, MessageMore, ZenonT(40)
    <3>4. AllSound(Waiting(q3))
      BY <1>1, <1>6, <1>7, <2>3, <2>5, SoundMore
    <3> QED  BY <1>1, <1>4, <2>5, <3>3, <3>4 DEF n
  <2> QED  BY <1>1, <1>10, <2>4, <2>5
<1> QED  BY <1>9, <1>10

(* ... or in part.                                                         *)
LEMMA IsrMessageRefused ==
    ASSUME Types, NEW m \in IsrMessage, AllSound(Pending), NEW r, NEW out \in Seq(Seq(Byte)),
           NEW all \in BOOLEAN, ~all, NEW s, NEW d, Future(r, Pending, out, all, s, d),
           Len(EnqueuedMessage(m)) # Len(queue) + m.cnt
    PROVE  /\ AllSound(Waiting(EnqueuedMessage(m)))
           /\ \E s2, d2 :
                  /\ Future(r, Waiting(EnqueuedMessage(m)), out, all, s2, d2)
                  /\ Realtime(m.bytes[1]) => s2 = s /\ d2 = d
<1> DEFINE b1 == m.bytes[1]
           b2 == m.bytes[2]
           b3 == m.bytes[3]
           Good(q) == q \in Seq(Byte) /\ AllSound(Waiting(q))
                      /\ \E s2, d2 : Future(r, Waiting(q), out, all, s2, d2)
<1>1. /\ m.cnt \in {1, 2, 3}
      /\ b1 \in Byte /\ b2 \in Byte /\ b3 \in Byte
      /\ Sound(b1) /\ (m.cnt # 1 => Sound(b2) /\ ~Realtime(b1)) /\ (m.cnt = 3 => Sound(b3))
  BY MessageIs
<1>2. queue \in Seq(Byte) /\ Pending = Waiting(queue)
  BY DEF Types, Waiting, Pending
<1>3. Good(queue)
  BY <1>2
<1>4. ASSUME NEW q, Good(q), NEW b \in Byte, Sound(b) PROVE Good(Enqueued(q, b))
  <2>1. q \in Seq(Byte) /\ Waiting(q) \in Seq(Byte) /\ Append(q, b) \in Seq(Byte)
        /\ Waiting(Append(q, b)) = Append(Waiting(q), b)
    BY <1>4, WaitingIs
  <2>2. AllSound(Waiting(Append(q, b)))
    BY <1>4, <2>1, SoundMore
  <2>3. PICK s2, d2 : Future(r, Waiting(q), out, all, s2, d2)
    BY <1>4
  <2>4. Future(r, Waiting(Append(q, b)), out, all, After(s2, d2, b).status, After(s2, d2, b).data)
    BY <2>1, <2>3, ByteMore
  <2>5. Good(Append(q, b))
    BY <2>1, <2>2, <2>4
  <2>6. Enqueued(q, b) = q \/ Enqueued(q, b) = Append(q, b)
    BY DEF Enqueued
  <2> HIDE DEF Good
  <2> QED  BY <1>4, <2>5, <2>6
<1> HIDE DEF Good
<1>5. CASE m.cnt = 1
  <2>1. EnqueuedMessage(m) = Enqueued(queue, b1)
    BY <1>5 DEF EnqueuedMessage
  <2>2. EnqueuedMessage(m) = queue
    BY <1>1, <1>2, <1>5, <2>1, EnqueuedOrNot
  <2> QED  BY <1>2, <2>2
<1>6. CASE m.cnt # 1
  <2>1. Good(EnqueuedMessage(m))
    <3> DEFINE one == Enqueued(queue, b1)
               two == Enqueued(one, b2)
               three == Enqueued(two, b3)
    <3>1. EnqueuedMessage(m) = (IF m.cnt = 2 THEN two ELSE three)
      BY <1>1, <1>6 DEF EnqueuedMessage
    <3>2. Good(one)
      BY <1>1, <1>3, <1>4
    <3>3. Good(two)
      BY <1>1, <1>4, <1>6, <3>2
    <3>4. m.cnt = 3 => Good(three)
      BY <1>1, <1>4, <3>3
    <3> HIDE DEF two, three
    <3> QED  BY <1>1, <1>6, <3>1, <3>3, <3>4
  <2> QED  BY <1>1, <1>6, <2>1 DEF Good
<1> QED  BY <1>5, <1>6

LEMMA IsrSendsKeeps ==
    ASSUME WireInv, NEW m \in IsrMessage, IsrSends(m)
    PROVE  WireTypes' /\ Underway' /\ Foreseen'
<1> DEFINE fits == Len(EnqueuedMessage(m)) = Len(queue) + m.cnt
           separates == Halfway /\ ~Realtime(m.bytes[1])
<1>1. /\ queue' = EnqueuedMessage(m) /\ udr' = udr /\ shift' = shift
      /\ at' = at /\ outgoing' = outgoing /\ Now' = Now
      /\ status' = status /\ delivered' = delivered
      /\ whole' = (whole /\ ~separates)
      /\ torn' = (~fits \/ separates \/ (torn /\ ~Quiet))
      /\ outbox' = IF fits THEN Append(outbox, BytesOf(m)) ELSE outbox
  BY DEF IsrSends, InterruptSends, sending, receiver, Now, Realtime
<1>2. Types /\ WireTypes /\ Underway
  BY DEF WireInv, IInv
<1>3. /\ BytesOf(m) \in Seq(Byte) /\ AllSound(Pending) /\ outbox \in Seq(Seq(Byte))
      /\ torn \in BOOLEAN /\ whole \in BOOLEAN
  BY <1>2, MessageIs DEF WireTypes
<1> HIDE DEF fits
<1>4. torn' \in BOOLEAN /\ whole' \in BOOLEAN /\ (~torn' => fits /\ (~torn \/ Quiet))
  BY <1>1, <1>3 DEF Halfway
<1>5. Pending' = Waiting(EnqueuedMessage(m))
  BY <1>1 DEF Pending, Waiting
<1>6. PICK s, d : Future(Now, Pending, outbox, ~torn', s, d) /\ Midway(s, d)
  BY <1>4, TornAnew
<1>7. AllSound(Pending') /\ outbox' \in Seq(Seq(Byte))
      /\ \E s2, d2 : /\ Future(Now, Pending', outbox', ~torn', s2, d2)
                     /\ Realtime(m.bytes[1]) => s2 = s /\ d2 = d
  <2>1. CASE fits
    <3>1. outbox' = Append(outbox, BytesOf(m))
      BY <1>1, <2>1
    <3>2. Append(outbox, BytesOf(m)) \in Seq(Seq(Byte))
      BY <1>3, AppendProperties
    <3>3. (~torn') \in BOOLEAN
      BY <1>4
    <3>4. /\ AllSound(Waiting(EnqueuedMessage(m)))
          /\ \E s2, d2 :
                 /\ Future(Now, Waiting(EnqueuedMessage(m)), Append(outbox, BytesOf(m)), ~torn', s2, d2)
                 /\ Realtime(m.bytes[1]) => s2 = s /\ d2 = d
      <4>1. Len(EnqueuedMessage(m)) = Len(queue) + m.cnt
        BY <2>1 DEF fits
      <4>2. Future(Now, Pending, outbox, ~torn', s, d)
        BY <1>6
      <4>3. ASSUME NEW now, NEW all \in BOOLEAN, Future(now, Pending, outbox, all, s, d)
            PROVE  /\ AllSound(Waiting(EnqueuedMessage(m)))
                   /\ \E s2, d2 :
                          /\ Future(now, Waiting(EnqueuedMessage(m)), Append(outbox, BytesOf(m)), all, s2, d2)
                          /\ Realtime(m.bytes[1]) => s2 = s /\ d2 = d
        BY <1>2, <1>3, <4>1, <4>3, IsrMessageFits
      <4> QED  BY <3>3, <4>2, <4>3, Zenon
    <3> QED  BY <1>5, <3>1, <3>2, <3>4
  <2>2. CASE ~fits
    <3>1. outbox' = outbox /\ (~torn') = FALSE
      BY <1>1, <2>2
    <3>2. Future(Now, Pending, outbox, FALSE, s, d)
      BY <1>6, FutureTorn
    <3>3. /\ AllSound(Waiting(EnqueuedMessage(m)))
          /\ \E s2, d2 :
                 /\ Future(Now, Waiting(EnqueuedMessage(m)), outbox, FALSE, s2, d2)
                 /\ Realtime(m.bytes[1]) => s2 = s /\ d2 = d
      <4>1. Len(EnqueuedMessage(m)) # Len(queue) + m.cnt
        BY <2>2 DEF fits
      <4>2. ASSUME NEW now, NEW all \in BOOLEAN, ~all, Future(now, Pending, outbox, all, s, d)
            PROVE  /\ AllSound(Waiting(EnqueuedMessage(m)))
                   /\ \E s2, d2 :
                          /\ Future(now, Waiting(EnqueuedMessage(m)), outbox, all, s2, d2)
                          /\ Realtime(m.bytes[1]) => s2 = s /\ d2 = d
        BY <1>2, <1>3, <4>1, <4>2, IsrMessageRefused
      <4>3. FALSE \in BOOLEAN /\ ~FALSE
        OBVIOUS
      <4> QED  BY <3>2, <4>2, <4>3, Zenon
    <3> QED  BY <1>3, <1>5, <3>1, <3>3
  <2> QED  BY <2>1, <2>2
<1>8. PICK s2, d2 : /\ Future(Now, Pending', outbox', ~torn', s2, d2)
                    /\ Realtime(m.bytes[1]) => s2 = s /\ d2 = d
  BY <1>7
<1>9. Midway(s2, d2)'
  <2>1. CASE Halfway /\ whole'
    <3>1. s2 = s /\ d2 = d /\ whole
      BY <1>1, <1>8, <2>1
    <3> QED  BY <1>1, <1>6, <3>1 DEF Midway
  <2>2. CASE ~(Halfway /\ whole')
    BY <1>1, <2>2 DEF Midway, Halfway
  <2> QED  BY <2>1, <2>2
<1>10. WireTypes'
  BY <1>1, <1>2, <1>4, <1>7 DEF WireTypes
<1>11. Underway'
  <2>1. at = "byte0" => ~separates
    BY DEF Halfway
  <2>2. Halfway => ~Quiet
    BY DEF Halfway, Quiet
  <2>3. Halfway => whole' \/ torn'
    BY <1>1, <1>2, <2>2 DEF Underway
  <2> QED  BY <1>1, <1>2, <2>1, <2>3 DEF Underway, Halfway
<1>12. Foreseen'
  BY <1>1, <1>8, <1>9 DEF Foreseen
<1> QED  BY <1>10, <1>11, <1>12

LEMMA WireStep == WireInv /\ [WireNext]_wireVars => WireInv'
<1> SUFFICES ASSUME WireInv, [WireNext]_wireVars PROVE WireInv'
  OBVIOUS
<1>1. IInv'
  BY WireIsNext, Step DEF WireInv
<1>2. CASE UNCHANGED wireVars
  <2>1. /\ Pending' = Pending /\ Now' = Now /\ outbox' = outbox /\ torn' = torn /\ whole' = whole
        /\ at' = at /\ outgoing' = outgoing /\ status' = status /\ delivered' = delivered
    BY <1>2 DEF wireVars, vars, port, sending, receiver, ghosts, Pending, Now
  <2>2. WireTypes' /\ Underway'
    BY <2>1 DEF WireInv, WireTypes, Underway, Halfway
  <2>3. PICK s, d : Future(Now, Pending, outbox, ~torn, s, d) /\ Midway(s, d)
    BY DEF WireInv, Foreseen
  <2>4. Midway(s, d)'
    BY <2>1, <2>3 DEF Midway
  <2>5. Foreseen'
    BY <2>1, <2>3, <2>4 DEF Foreseen
  <2> QED  BY <1>1, <2>2, <2>5 DEF WireInv
<1> QED
  BY <1>1, <1>2, MainSendsKeeps, IsrSendsKeeps, EnqueuesKeeps, PortStepKeeps, HeardKeeps, SettlesKeeps
     DEF WireNext, WireInv

LEMMA WireStart == WireInit => WireInv
<1> SUFFICES ASSUME WireInit PROVE WireInv
  OBVIOUS
<1>1. Init /\ status = NoStatus /\ data = <<>> /\ delivered = Nothing
      /\ whole = FALSE /\ outbox = <<>> /\ torn = FALSE /\ at = "outside"
  BY DEF WireInit, Receiver!Init, Init, NoStatus, Nothing, Receiver!NoStatus, Receiver!Nothing
<1>2. IInv
  BY <1>1, Start
<1>3. Pending = <<>> /\ Len(Pending) = 0
  BY <1>1, StartMaps DEF Line!Init
<1>4. outbox \in Seq(Seq(Byte)) /\ Len(outbox) = 0
  BY <1>1
<1>5. WireTypes
  <2>1. AllSound(Pending)
    BY <1>3 DEF AllSound
  <2> QED  BY <1>1, <1>4, <2>1 DEF WireTypes
<1>6. Underway
  BY <1>1 DEF Underway, Halfway
<1> DEFINE run == [i \in 0 .. 0 |-> Now]
<1>7. Hears(Now, Pending, outbox, ~torn, run, <<>>)
  <2>1. run[0] = Now /\ Now.said = Nothing
    BY <1>1 DEF Now, Hearing
  <2> HIDE DEF run
  <2> QED  BY <1>3, <1>4, <2>1 DEF Hears
<1>8. Future(Now, Pending, outbox, ~torn, run[0].status, run[0].data)
  BY <1>3, <1>7, Zenon DEF Future
<1>9. \A s, d : Midway(s, d)
  BY <1>1 DEF Midway
<1>10. Foreseen
  BY <1>8, <1>9, Zenon DEF Foreseen
<1> QED  BY <1>2, <1>5, <1>6, <1>10 DEF WireInv

(* Everything the receiver will hear is foreseen in the bytes that wait.   *)
LEMMA WireInvariance == WireSpec => []WireInv
  BY WireStart, WireStep, PTL DEF WireSpec

(* What waits has its interrupt on, whoever sends when (NoLostWakeup, for  *)
(* SerialWire).                                                            *)
LEMMA WireWakeup == WireSpec => []NoLostWakeup
<1>1. WireInv => NoLostWakeup
  BY DEF WireInv, IInv
<1> QED  BY <1>1, WireInvariance, PTL

LEMMA Foretold == WireInv => HeardInOrder
<1> SUFFICES ASSUME WireInv, delivered # Nothing, ~torn
             PROVE  outbox # <<>> /\ delivered[2] = Head(outbox)
  BY DEF HeardInOrder, Nothing
<1>1. Types /\ WireTypes
  BY DEF WireInv, IInv
<1>2. PICK m : delivered = <<0, m>>
  BY <1>1 DEF WireTypes
<1>3. PICK s, d : Future(Now, Pending, outbox, ~torn, s, d)
  BY DEF WireInv, Foreseen
<1>4. (~torn) = TRUE /\ Now.said = <<0, m>>
  BY <1>2 DEF Now, Hearing
<1>5. Pending \in Seq(Byte) /\ outbox \in Seq(Seq(Byte))
  BY <1>1, PendingIs DEF WireTypes
<1>6. Future(Now, Pending, outbox, TRUE, s, d)
  BY <1>3, <1>4
<1>7. outbox # <<>> /\ m = Head(outbox)
  BY <1>4, <1>5, <1>6, FirstHeard
<1> QED  BY <1>2, <1>7

(* Every message whose bytes found room is heard whole and in order, and   *)
(* nothing else, until a message is torn by a full queue or by an          *)
(* interrupt routine that sends, and again when the port has been quiet    *)
(* after that: for both USARTs, every size of queue and all whole messages *)
(* (serial_midi_send_usartn, ISR(USARTn_UDRE_vect)).                       *)
THEOREM HeardWhole == WireSpec => []HeardInOrder
  BY Foretold, WireInvariance, PTL

-----------------------------------------------------------------------------
(* A program that sends only what there is room for, and whose interrupt   *)
(* routines send realtime messages only.                                   *)

RealtimeOnly == \A m \in IsrMessage : Realtime(m.bytes[1])

Sent == {BytesOf(m) : m \in MainMessage \cup IsrMessage}

RoomInv ==
    /\ WireInv /\ RealtimeOnly /\ ~torn
    /\ Len(queue) + ToCome < QueueLength
    /\ outbox \in Seq(Sent)

LEMMA ToComeIs ==
    ASSUME WireInv
    PROVE  /\ ToCome \in Nat /\ (at \in {"byte0", "byte1", "byte2"} => ToCome >= 1)
           /\ at \in {"outside", "enable"} => ToCome = 0
           /\ Len(queue) \in Nat /\ QueueLength \in Nat
<1>1. Types /\ Underway
  BY DEF WireInv, IInv
<1>2. at # "outside" => outgoing.cnt \in {1, 2, 3}
  BY <1>1, MessageIs DEF Types
<1>3. Len(queue) \in Nat /\ QueueLength \in Nat
  BY <1>1, LenProperties, OutputQueueAssumption DEF Types
<1> QED  BY <1>1, <1>2, <1>3 DEF Types, ToCome, Underway, Halfway

LEMMA RoomEnqueues == ASSUME RoomInv, Enqueues PROVE ~torn' /\ Len(queue') + ToCome' < QueueLength
<1> DEFINE m == outgoing
           k == IF at = "byte0" THEN 1 ELSE IF at = "byte1" THEN 2 ELSE 3
           b == m.bytes[k]
<1>1. WireInv /\ Types /\ Underway
  BY DEF RoomInv, WireInv, IInv
<1>2. /\ at \in {"byte0", "byte1", "byte2"} /\ m \in MainMessage
      /\ queue' = Enqueued(queue, b) /\ outgoing' = outgoing
      /\ torn' = (torn \/ queue' = queue)
      /\ at' = IF at = "byte0" /\ m.cnt > 1 THEN "byte1"
               ELSE IF at = "byte1" /\ m.cnt = 3 THEN "byte2" ELSE "enable"
  BY <1>1 DEF Enqueues, EnqueueByte0, EnqueueByte1, EnqueueByte2, Types
<1>3. m.cnt \in {1, 2, 3} /\ b \in Byte
  BY <1>2, MessageIs
<1>4. queue \in Seq(Byte)
  BY <1>1 DEF Types
<1>5. Len(queue) < QueueLength - 1
  <2>1. ToCome \in Nat /\ ToCome >= 1 /\ Len(queue) \in Nat /\ QueueLength \in Nat
    BY <1>1, <1>2, ToComeIs
  <2>2. Len(queue) + ToCome < QueueLength
    BY DEF RoomInv
  <2> QED  BY <2>1, <2>2
<1>6. queue' = Append(queue, b)
  BY <1>2, <1>5 DEF Enqueued
<1>7. queue' # queue /\ Len(queue') = Len(queue) + 1 /\ Len(queue) \in Nat
  BY <1>3, <1>4, <1>6, EnqueuedOrNot
<1>8. ToCome' + 1 = ToCome
  BY <1>1, <1>2, <1>3 DEF ToCome, Underway, Halfway
<1>9. ToCome' \in Nat /\ ToCome \in Nat /\ QueueLength \in Nat
  <2>1. ToCome' \in Nat
    BY <1>1, <1>2, <1>3 DEF ToCome, Underway, Halfway
  <2> QED  BY <1>1, <2>1, ToComeIs
<1>10. Len(queue) + ToCome < QueueLength /\ ~torn
  BY DEF RoomInv
<1>11. ~torn'
  BY <1>2, <1>7, <1>10
<1>12. Len(queue') + ToCome' = Len(queue) + ToCome
  <2>1. PICK n \in Nat : n = Len(queue)
    BY <1>7
  <2>2. PICK t \in Nat : t = ToCome
    BY <1>9
  <2>3. PICK u \in Nat : u = ToCome'
    BY <1>9
  <2>4. Len(queue') = n + 1
    BY <1>7, <2>1
  <2>5. u + 1 = t
    BY <1>8, <2>2, <2>3
  <2>6. (n + 1) + u = n + t
    BY ONLY n \in Nat, t \in Nat, u \in Nat, <2>5
  <2> QED  BY ONLY <2>1, <2>2, <2>3, <2>4, <2>6
<1>13. Len(queue') + ToCome' < QueueLength
  BY ONLY <1>10, <1>12
<1> QED  BY <1>11, <1>13

LEMMA RoomIsr ==
    ASSUME RoomInv, NEW m \in IsrMessage, Room(m), IsrSends(m)
    PROVE  /\ ~torn' /\ Len(queue') + ToCome' < QueueLength
           /\ outbox' = Append(outbox, BytesOf(m))
<1>1. WireInv /\ Types /\ Realtime(m.bytes[1])
  BY DEF RoomInv, WireInv, IInv, RealtimeOnly
<1>2. m.cnt = 1 /\ m.bytes[1] \in Byte
  BY <1>1, MessageIs
<1>3. queue' = Enqueued(queue, m.bytes[1]) /\ at' = at /\ outgoing' = outgoing
  BY <1>2 DEF IsrSends, InterruptSends, EnqueuedMessage, sending
<1>4. Len(queue) + ToCome + 1 < QueueLength
  BY <1>2 DEF Room
<1>5. ToCome \in Nat /\ Len(queue) \in Nat /\ QueueLength \in Nat /\ queue \in Seq(Byte)
  BY <1>1, ToComeIs DEF Types
<1>6. queue' = Append(queue, m.bytes[1])
  BY <1>3, <1>4, <1>5 DEF Enqueued
<1>7. Len(queue') = Len(queue) + 1
  BY <1>2, <1>5, <1>6, EnqueuedOrNot
<1>8. ToCome' = ToCome
  BY <1>3 DEF ToCome
<1>9. ~torn' /\ outbox' = Append(outbox, BytesOf(m))
  BY <1>1, <1>2, <1>7 DEF IsrSends, RoomInv, Realtime
<1> QED  BY <1>4, <1>5, <1>7, <1>8, <1>9

LEMMA RoomStep == RoomInv /\ [WithRoomNext]_wireVars => RoomInv'
<1> SUFFICES ASSUME RoomInv, [WithRoomNext]_wireVars PROVE RoomInv'
  OBVIOUS
<1>1. [WireNext]_wireVars
  BY DEF WithRoomNext, WireNext
<1>2. WireInv /\ WireInv' /\ RealtimeOnly /\ RealtimeOnly' /\ Types /\ Types'
  BY <1>1, WireStep DEF RoomInv, RealtimeOnly, WireInv, IInv
<1>3. /\ ToCome \in Nat /\ Len(queue) \in Nat /\ QueueLength \in Nat
      /\ Len(queue) + ToCome < QueueLength /\ outbox \in Seq(Sent) /\ ~torn
      /\ queue \in Seq(Byte)
  BY <1>2, ToComeIs DEF RoomInv, Types
<1>4. SUFFICES ~torn' /\ Len(queue') + ToCome' < QueueLength /\ outbox' \in Seq(Sent)
  BY <1>2 DEF RoomInv
<1>5. ASSUME NEW m \in MainMessage \cup IsrMessage PROVE Append(outbox, BytesOf(m)) \in Seq(Sent)
  <2>1. BytesOf(m) \in Sent
    BY DEF Sent
  <2> QED  BY <1>3, <2>1, AppendProperties
<1>6. ASSUME NEW m \in MainMessage, Room(m), MainSends(m)
      PROVE  ~torn' /\ Len(queue') + ToCome' < QueueLength /\ outbox' \in Seq(Sent)
  <2>1. /\ at = "outside" /\ at' = "byte0" /\ outgoing' = m /\ queue' = queue /\ outbox' = outbox
        /\ torn' = (torn /\ ~Quiet)
    BY <1>6 DEF MainSends, CallSend, port
  <2>2. ToCome = 0 /\ ToCome' = m.cnt
    BY <2>1 DEF ToCome
  <2>3. m.cnt \in {1, 2, 3}
    BY MessageIs
  <2>4. Len(queue) + ToCome + m.cnt < QueueLength
    BY <1>6 DEF Room
  <2>5. Len(queue') = Len(queue)
    BY <2>1
  <2>6. Len(queue') + ToCome' < QueueLength
    BY ONLY <1>3, <2>2, <2>3, <2>4, <2>5
  <2>7. ~torn' /\ outbox' \in Seq(Sent)
    BY <1>3, <2>1
  <2> QED  BY <2>6, <2>7
<1>7. ASSUME NEW m \in IsrMessage, Room(m), IsrSends(m)
      PROVE  ~torn' /\ Len(queue') + ToCome' < QueueLength /\ outbox' \in Seq(Sent)
  BY <1>5, <1>7, RoomIsr
<1>8. CASE Enqueues
  <2>1. CASE outbox' = outbox
    BY <1>3, <1>8, <2>1, RoomEnqueues
  <2>2. CASE outbox' = Append(outbox, BytesOf(outgoing))
    <3>1. outgoing \in MainMessage
      BY <1>2, <1>8 DEF Enqueues, EnqueueByte0, EnqueueByte1, EnqueueByte2, Types
    <3> QED  BY <1>5, <1>8, <2>2, <3>1, RoomEnqueues
  <2> QED  BY <1>8, <2>1, <2>2 DEF Enqueues
<1>9. CASE PortStep
  <2>1. outbox' = outbox /\ torn' = torn
    BY <1>9 DEF PortStep
  <2>2. Len(queue') <= Len(queue) /\ Len(queue') \in Nat
    <3>1. CASE queue' = queue
      BY <1>3, <3>1
    <3>2. CASE TransmitByte
      <4>1. Len(Tail(queue)) = Len(queue) - 1 /\ Len(Tail(queue)) \in Nat
        BY <1>3, <3>2, HeadTailProperties, LenProperties DEF TransmitByte
      <4> QED  BY <1>3, <3>2, <4>1 DEF TransmitByte
    <3> QED
      BY <1>9, <3>1, <3>2 DEF PortStep, EnableTransmit, TransmitInterrupt, TransmitInterrupt0,
         TransmitInterrupt1, Stop, Load, SetInterrupts, port
  <2>3. ToCome' = ToCome \/ ToCome' = 0
    <3>1. (at' = at /\ outgoing' = outgoing) \/ at' = "outside"
      BY <1>9 DEF PortStep, EnableTransmit, TransmitInterrupt, Load, SetInterrupts, sending
    <3> QED  BY <3>1 DEF ToCome
  <2> QED  BY <1>3, <2>1, <2>2, <2>3
<1>10. ASSUME UNCHANGED <<queue, at, outgoing, torn>>
       PROVE  ~torn' /\ Len(queue') + ToCome' < QueueLength
  <2>1. ToCome' = ToCome
    BY <1>10 DEF ToCome
  <2> QED  BY <1>3, <1>10, <2>1
<1>11. CASE Heard
  BY <1>3, <1>10, <1>11 DEF Heard, ShiftOut, sending, ghosts
<1>12. CASE Settles
  <2>1. outbox' \in Seq(Sent)
    BY <1>3, <1>12, HeadTailProperties DEF Settles
  <2> QED  BY <1>10, <1>12, <2>1 DEF Settles, vars, port, sending
<1>13. CASE UNCHANGED wireVars
  BY <1>3, <1>10, <1>13 DEF wireVars, vars, port, sending, ghosts
<1> QED  BY <1>6, <1>7, <1>8, <1>9, <1>11, <1>12, <1>13 DEF WithRoomNext

(* What run serial_wire_isr shows to fail for a channel message of an      *)
(* interrupt routine is true of realtime messages: with room in the queue  *)
(* for all that is sent, only what somebody sent is heard                  *)
(* (serial_midi_send_usartn, ISR(USARTn_UDRE_vect)).                       *)
THEOREM NothingElseHeard == RealtimeOnly /\ WithRoomSpec => []OnlySentHeard
<1>1. RealtimeOnly /\ WireInit => RoomInv
  <2> SUFFICES ASSUME RealtimeOnly, WireInit PROVE RoomInv
    OBVIOUS
  <2>1. WireInv
    BY WireStart
  <2>2. ToCome = 0 /\ queue = <<>> /\ outbox = <<>> /\ ~torn /\ Len(queue) = 0
    BY DEF WireInit, Init, ToCome
  <2>3. <<>> \in Seq(Sent) /\ QueueLength > 0
    BY OutputQueueAssumption
  <2> QED  BY <2>1, <2>2, <2>3 DEF RoomInv
<1>2. RoomInv => OnlySentHeard
  <2> SUFFICES ASSUME RoomInv, delivered # Nothing PROVE delivered[2] \in Sent
    BY DEF OnlySentHeard, Sent, Nothing
  <2>1. outbox # <<>> /\ delivered[2] = Head(outbox)
    BY Foretold DEF RoomInv, HeardInOrder, Nothing
  <2>2. outbox \in Seq(Sent)
    BY DEF RoomInv
  <2> QED  BY <2>1, <2>2, HeadTailProperties
<1> QED  BY <1>1, <1>2, RoomStep, PTL DEF WithRoomSpec
=============================================================================
