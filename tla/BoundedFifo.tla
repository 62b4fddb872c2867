----------------------------- MODULE BoundedFifo -----------------------------
(***************************************************************************)
(* What a user of the audio output queues (aout_queue/src/aout_queue.h)    *)
(* relies on: a FIFO of at most Capacity items. Items leave in the order   *)
(* in which they were accepted, each exactly once, and a consumer keeps    *)
(* the item it was given until it is done with it. Tearing the queue down  *)
(* and creating it again loses the items but not their number.             *)
(***************************************************************************)
EXTENDS Naturals, Sequences

CONSTANTS Item, Blank, Capacity, Dequeuers

VARIABLES queue, taken

NoItem == <<>>

fifoVars == <<queue, taken>>

Init == queue = <<>> /\ taken = [c \in Dequeuers |-> NoItem]

Put(x) ==
  /\ Len(queue) < Capacity
  /\ queue' = Append(queue, x)
  /\ UNCHANGED taken

Get(c) ==
  /\ queue # <<>>
  /\ taken[c] = NoItem
  /\ queue' = Tail(queue)
  /\ taken' = [taken EXCEPT ![c] = <<Head(queue)>>]

Release(c) ==
  /\ taken' = [taken EXCEPT ![c] = NoItem]
  /\ UNCHANGED queue

Wipe ==
  /\ queue' = [i \in 1..Len(queue) |-> Blank]
  /\ UNCHANGED taken

Next ==
  \/ \E x \in Item : Put(x)
  \/ \E c \in Dequeuers : Get(c) \/ Release(c)
  \/ Wipe

Spec == Init /\ [][Next]_fifoVars
=============================================================================
