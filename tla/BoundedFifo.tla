---------------------------- MODULE BoundedFifo ----------------------------
(***************************************************************************)
(* What bytequeue promises to its callers (bytequeue/bytequeue.h): a       *)
(* first-in first-out queue of at most Capacity bytes.  A call takes       *)
(* effect at one instant between its start and its return: enqueue says    *)
(* whether the byte was stored, length how many are stored, get reads one  *)
(* without removing it, remove drops the oldest ones.                      *)
(***************************************************************************)
EXTENDS Integers, Sequences

CONSTANTS Client, Item, Capacity

VARIABLES
    items,    \* the bytes stored, oldest first
    request,  \* per client: the call in progress, NoRequest if there is none
    reply     \* per client: what that call answers, NoReply before it took effect

fifo == <<items, request, reply>>

NoRequest == <<>>
Request   == (({"enqueue"} \X Item) \cup {<<"length", 0>>}
                \cup ({"get", "remove"} \X (0 .. Capacity)))

NoReply    == <<>>
Stored     == <<"stored">>
Full       == <<"full">>
Length(n)  == <<"length", n>>
Byte(x)    == <<"byte", x>>
Removed    == <<"removed">>

Init ==
    /\ items = <<>>
    /\ request = [c \in Client |-> NoRequest]
    /\ reply = [c \in Client |-> NoReply]

Call(c, r) ==
    /\ request[c] = NoRequest
    /\ request' = [request EXCEPT ![c] = r]
    /\ UNCHANGED <<items, reply>>

Pending(c, o) == reply[c] = NoReply /\ request[c] # NoRequest /\ request[c][1] = o

Answer(c, r) == reply' = [reply EXCEPT ![c] = r] /\ UNCHANGED request

Put(c) ==
    /\ Pending(c, "enqueue")
    /\ \/ /\ Len(items) < Capacity
          /\ items' = Append(items, request[c][2])
          /\ Answer(c, Stored)
       \/ /\ Len(items) = Capacity
          /\ UNCHANGED items
          /\ Answer(c, Full)

Count(c) ==
    Pending(c, "length") /\ Answer(c, Length(Len(items))) /\ UNCHANGED items

Peek(c) ==
    /\ Pending(c, "get") /\ request[c][2] < Len(items)
    /\ Answer(c, Byte(items[request[c][2] + 1]))
    /\ UNCHANGED items

Drop(c) ==
    /\ Pending(c, "remove") /\ request[c][2] <= Len(items)
    /\ items' = SubSeq(items, request[c][2] + 1, Len(items))
    /\ Answer(c, Removed)

Return(c) ==
    /\ reply[c] # NoReply
    /\ request' = [request EXCEPT ![c] = NoRequest]
    /\ reply' = [reply EXCEPT ![c] = NoReply]
    /\ UNCHANGED items

Next ==
    \E c \in Client :
        \/ \E r \in Request : Call(c, r)
        \/ Put(c) \/ Count(c) \/ Peek(c) \/ Drop(c) \/ Return(c)

Spec == Init /\ [][Next]_fifo
=============================================================================
