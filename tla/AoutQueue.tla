------------------------------ MODULE AoutQueue ------------------------------
(***************************************************************************)
(* The ring of aout_queue/src/aout_queue.c: a vector of queue_size slots,  *)
(* the indices head and tail, a mutex and the condition variable notempty. *)
(*                                                                         *)
(* Every function runs under the mutex and is one step; a dequeue that     *)
(* finds the queue empty is split at pthread_cond_wait, which gives the    *)
(* mutex up. The queue hands out slots, not copies: AOUT_BUF.data of the   *)
(* caller points into the slot until the caller's next dequeue. A return   *)
(* from pthread_cond_wait without a signal, which POSIX allows, is left    *)
(* out: it does what a stolen wakeup does with two consumers.              *)
(***************************************************************************)
EXTENDS Naturals, Sequences

CONSTANTS
  Item,        \* what producers enqueue
  TooLong,     \* the items with datalen > max_datalen
  Blank,       \* what a slot holds after create
  QueueSize,   \* cap.queue_size, the same at every create
  Dequeuers,   \* the threads that dequeue
  Orderly      \* is destroy called only when no consumer is in a dequeue or
               \* reads a buffer? The code does not ask for it, nor see to it.

ASSUME QueueAssumption ==
  /\ QueueSize \in Nat \ {0}
  /\ TooLong \subseteq Item
  /\ Blank \notin Item
  /\ Orderly \in BOOLEAN

VARIABLES
  inited,      \* g_config.inited
  slot,        \* the vector; freed slots keep their value
  head, tail,  \* static, they survive destroy and create
  doing,       \* per consumer: "idle", "blocked", "woken" or "using"
  held,        \* per consumer: the slot its buffer points into
  got,         \* per consumer: the item it was given, while it uses it
  wild         \* the code read a slot of a freed vector

queueVars == <<inited, slot, head, tail, doing, held, got, wild>>

Slots == 0..QueueSize - 1

QueueInit ==
  /\ inited = FALSE
  /\ slot = [i \in Slots |-> Blank]
  /\ head = 0
  /\ tail = 0
  /\ doing = [c \in Dequeuers |-> "idle"]
  /\ held = [c \in Dequeuers |-> 0]
  /\ got = [c \in Dequeuers |-> Blank]
  /\ wild = FALSE

NextSlot(i) == (i + 1) % QueueSize

-----------------------------------------------------------------------------
\* Mutant: create resets one of the two indices.
Create_halfreset ==
  /\ ~inited
  /\ inited' = TRUE
  /\ slot' = [i \in Slots |-> Blank]
  /\ head' = 0
  /\ UNCHANGED <<tail, doing, held, got, wild>>

\* create: the slots are new and zeroed, head and tail stay doing they were.
Create ==
  /\ ~inited
  /\ inited' = TRUE
  /\ slot' = [i \in Slots |-> Blank]
  /\ UNCHANGED <<head, tail, doing, held, got, wild>>

\* destroy frees the slots, leaves head and tail and wakes nobody.
Destroy ==
  /\ inited
  /\ Orderly => \A c \in Dequeuers : doing[c] = "idle"
  /\ inited' = FALSE
  /\ UNCHANGED <<slot, head, tail, doing, held, got, wild>>

-----------------------------------------------------------------------------
\* Mutant: the producer does not signal.
SignalNotEmpty_not == UNCHANGED doing

\* pthread_cond_signal wakes one of the blocked consumers, if there is one.
SignalNotEmpty ==
  LET blocked == {c \in Dequeuers : doing[c] = "blocked"}
  IN  \/ /\ blocked = {}
         /\ UNCHANGED doing
      \/ \E c \in blocked : doing' = [doing EXCEPT ![c] = "woken"]

\* Mutant: a full queue is not noticed.
Refused_nofull(x) == ~inited \/ x \in TooLong

\* What enqueue refuses: -1 (no queue), -2 (full) and -3 (too long).
Refused(x) == ~inited \/ NextSlot(tail) = head \/ x \in TooLong

Store(x) == slot' = [slot EXCEPT ![tail] = x] /\ tail' = NextSlot(tail)

\* enqueue stores at tail, advances it and signals; a refused item changes
\* nothing.
Enqueue(x) ==
  /\ ~Refused(x)
  /\ Store(x)
  /\ SignalNotEmpty
  /\ UNCHANGED <<inited, head, held, got, wild>>

-----------------------------------------------------------------------------
\* The end of dequeue: hand out the slot at head and advance head.
Take(c) ==
  /\ doing' = [doing EXCEPT ![c] = "using"]
  /\ held' = [held EXCEPT ![c] = head]
  /\ got' = [got EXCEPT ![c] = slot[head]]
  /\ wild' = (wild \/ ~inited)
  /\ head' = NextSlot(head)
  /\ UNCHANGED <<inited, slot, tail>>

\* dequeue on a queue that is not empty.
DequeueReady(c) ==
  /\ doing[c] = "idle"
  /\ inited
  /\ head # tail
  /\ Take(c)

\* dequeue on an empty queue blocks; -1 (no queue) changes nothing.
DequeueBlock(c) ==
  /\ doing[c] = "idle"
  /\ inited
  /\ head = tail
  /\ doing' = [doing EXCEPT ![c] = "blocked"]
  /\ UNCHANGED <<inited, slot, head, tail, held, got, wild>>

\* Back from pthread_cond_wait with the mutex: the code tests with `if`, not
\* `while`, and takes the slot at head without looking again.
DequeueResume(c) ==
  /\ doing[c] = "woken"
  /\ Take(c)

\* The caller is done with the buffer.
Done(c) ==
  /\ doing[c] = "using"
  /\ doing' = [doing EXCEPT ![c] = "idle"]
  /\ UNCHANGED <<inited, slot, head, tail, held, got, wild>>

ConsumerStep(c) ==
  \/ DequeueReady(c) \/ DequeueBlock(c) \/ DequeueResume(c) \/ Done(c)

QueueNext ==
  \/ Create
  \/ Destroy
  \/ \E x \in Item : Enqueue(x)
  \/ \E c \in Dequeuers : ConsumerStep(c)

\* A consumer that can take an item or was woken goes on.
QueueFairness ==
  \A c \in Dequeuers :
    WF_queueVars(DequeueReady(c) \/ DequeueResume(c) \/ Done(c))

QueueSpec == QueueInit /\ [][QueueNext]_queueVars /\ QueueFairness

-----------------------------------------------------------------------------
\* The number of items between head and tail, and those items in order.
Count == (tail + QueueSize - head) % QueueSize
Contents == [i \in 1..Count |-> slot[(head + i - 1) % QueueSize]]

QueueTypeOK ==
  /\ inited \in BOOLEAN
  /\ slot \in [Slots -> Item \cup {Blank}]
  /\ head \in Slots
  /\ tail \in Slots
  /\ doing \in [Dequeuers -> {"idle", "blocked", "woken", "using"}]
  /\ held \in [Dequeuers -> Slots]
  /\ got \in [Dequeuers -> Item \cup {Blank}]
  /\ wild \in BOOLEAN

\* The buffer a consumer is reading is the one it was given: the producer,
\* which writes at tail, cannot lap into a slot that is handed out, because
\* the ring keeps one slot free (aout_queue.c:79) and that slot is this one.
\* It holds for one consumer per queue, as main.c has.
HeldSlotStable ==
  \A c \in Dequeuers : doing[c] = "using" => slot[held[c]] = got[c]

\* A consumer back from pthread_cond_wait finds an item although the code does
\* not look again (aout_queue.c:105-111): head never runs past tail.
WokenFindsItem ==
  \A c \in Dequeuers : doing[c] = "woken" => head # tail

\* dequeue never reads the slots that destroy freed: head # tail outlives
\* destroy (aout_queue.c:24), and only inited tells that the items are gone.
\* A consumer that was woken before destroy and resumes after it is the
\* client's affair (Orderly).
NoWildRead == ~wild

\* The three of them: a dequeue is sound although others run between its test,
\* its wait, and the use of what it handed out.
DequeueSound == HeldSlotStable /\ WokenFindsItem /\ NoWildRead

\* An item in the queue is not left there with the consumer asleep: somebody
\* takes one, unless the queue is destroyed.
NonemptyIsServed ==
  (inited /\ head # tail) ~> (~inited \/ \E c \in Dequeuers : doing[c] = "using")

\* What aout_queue.h:72 says dequeue does, "take out of the queue": it hands
\* out something only when there is something in the queue.
DequeueTakesQueued ==
  [][\A c \in Dequeuers :
       (doing[c] # "using" /\ doing'[c] = "using") => Count > 0]_queueVars

\* The ring implements the FIFO with one slot less than the vector has.
Fifo == INSTANCE BoundedFifo WITH
          Capacity <- QueueSize - 1,
          queue <- Contents,
          taken <- [c \in Dequeuers |->
                      IF doing[c] = "using" THEN <<got[c]>> ELSE <<>>]

ImplementsFifo == Fifo!Spec
=============================================================================
