------------------------------ MODULE AoutProofs ------------------------------
(***************************************************************************)
(* Proofs about AoutQueue and AoutSpeech for every vector size and every   *)
(* set of items: with one consumer, as main.c has, indices stay in the     *)
(* vector, a woken consumer finds an item, the buffer it reads is never    *)
(* overwritten, and the ring is a FIFO; and the status of the speech is    *)
(* right across the turn of the int.                                       *)
(***************************************************************************)
EXTENDS AoutSpeech, SequenceTheorems, TLAPS

\* NextSlot goes round the vector, one step at a time.
LEMMA NextSlotWraps ==
  ASSUME NEW i \in Slots
  PROVE  NextSlot(i) = IF i = QueueSize - 1 THEN 0 ELSE i + 1
<1>1. QueueSize \in Nat /\ QueueSize > 0
  BY QueueAssumption DEF QueueAssumption
<1>2. CASE i = QueueSize - 1
  BY <1>1, <1>2 DEF NextSlot
<1>3. CASE i # QueueSize - 1
  <2>1. i + 1 \in 0..QueueSize - 1
    BY <1>1, <1>3 DEF Slots
  <2> QED
    BY <1>1, <1>3, <2>1 DEF NextSlot
<1> QED
  BY <1>2, <1>3

LEMMA NextSlotInSlots ==
  ASSUME NEW i \in Slots
  PROVE  NextSlot(i) \in Slots
BY NextSlotWraps, QueueAssumption DEF Slots, QueueAssumption

\* Two slots with the same successor are the same slot.
LEMMA NextSlotInjective ==
  ASSUME NEW i \in Slots, NEW j \in Slots, NextSlot(i) = NextSlot(j)
  PROVE  i = j
<1>1. QueueSize \in Nat /\ QueueSize > 0
  BY QueueAssumption DEF QueueAssumption
<1> QED
  BY <1>1, NextSlotWraps DEF Slots

LEMMA InitTypeOK == QueueInit => QueueTypeOK
<1>1. 0 \in Slots
  BY QueueAssumption DEF Slots, QueueAssumption
<1> QED
  BY <1>1 DEF QueueInit, QueueTypeOK

LEMMA NextTypeOK == QueueTypeOK /\ [QueueNext]_queueVars => QueueTypeOK'
<1> SUFFICES ASSUME QueueTypeOK, [QueueNext]_queueVars PROVE QueueTypeOK'
  OBVIOUS
<1> USE DEF QueueTypeOK
<1>1. CASE Create
  BY <1>1 DEF Create
<1>2. CASE Destroy
  BY <1>2 DEF Destroy
<1>3. ASSUME NEW x \in Item, Enqueue(x) PROVE QueueTypeOK'
  <2>1. tail' \in Slots
    BY <1>3, NextSlotInSlots DEF Enqueue, Store
  <2>2. doing' \in [Dequeuers -> {"idle", "blocked", "woken", "using"}]
    BY <1>3 DEF Enqueue, Store, SignalNotEmpty
  <2> QED
    BY <1>3, <2>1, <2>2 DEF Enqueue, Store
<1>4. ASSUME NEW c \in Dequeuers, ConsumerStep(c) PROVE QueueTypeOK'
  <2>1. CASE Take(c)
    <3>1. head' \in Slots
      BY <2>1, NextSlotInSlots DEF Take
    <3> QED
      BY <2>1, <3>1 DEF Take
  <2>2. CASE DequeueBlock(c)
    BY <2>2 DEF DequeueBlock
  <2>3. CASE Done(c)
    BY <2>3 DEF Done
  <2> QED
    BY <1>4, <2>1, <2>2, <2>3 DEF ConsumerStep, DequeueReady, DequeueResume
<1>5. CASE UNCHANGED queueVars
  BY <1>5 DEF queueVars
<1> QED
  BY <1>1, <1>2, <1>3, <1>4, <1>5 DEF QueueNext

\* head and tail never leave the vector, however many consumers there are.
THEOREM QueueTypeCorrect == QueueSpec => []QueueTypeOK
BY InitTypeOK, NextTypeOK, PTL DEF QueueSpec

-----------------------------------------------------------------------------
\* What the ring keeps besides, with one consumer: it sleeps only on an empty
\* ring, it was woken by an item that nobody else can take, and the slot it
\* holds is the one just behind head, the one the full test keeps free.
RingInv(c) ==
  /\ doing[c] = "blocked" => head = tail /\ inited
  /\ doing[c] = "woken" => head # tail /\ inited
  /\ doing[c] = "using" => /\ inited
                           /\ NextSlot(held[c]) = head
                           /\ slot[held[c]] = got[c]
  /\ ~wild

LEMMA EnqueueRing ==
  ASSUME NEW c \in Dequeuers, Dequeuers = {c}, QueueTypeOK, RingInv(c),
         NEW x \in Item, Enqueue(x)
  PROVE  RingInv(c)'
<1> USE DEF QueueTypeOK
<1>1. tail' # head /\ UNCHANGED <<inited, head, held, got, wild>>
  BY DEF Enqueue, Store, Refused
<1>2. CASE doing[c] = "blocked"
  <2>1. doing'[c] = "woken"
    BY <1>2 DEF Enqueue, Store, SignalNotEmpty
  <2> QED
    BY <1>1, <1>2, <2>1 DEF RingInv
<1>3. CASE doing[c] # "blocked"
  <2>1. doing' = doing
    BY <1>3 DEF Enqueue, Store, SignalNotEmpty
  <2>2. ASSUME doing[c] = "using" PROVE slot'[held[c]] = got[c]
    <3>1. tail # held[c]
      BY <2>2 DEF RingInv, Enqueue, Store, Refused
    <3> QED
      BY <2>2, <3>1 DEF RingInv, Enqueue, Store
  <2> QED
    BY <1>1, <1>3, <2>1, <2>2 DEF RingInv
<1> QED
  BY <1>2, <1>3

LEMMA TakeRing ==
  ASSUME NEW c \in Dequeuers, QueueTypeOK, RingInv(c), inited, Take(c)
  PROVE  RingInv(c)'
BY DEF QueueTypeOK, RingInv, Take, NextSlot

LEMMA NextRing ==
  ASSUME NEW c \in Dequeuers, Dequeuers = {c}, Orderly, QueueTypeOK, RingInv(c),
         [QueueNext]_queueVars
  PROVE  RingInv(c)'
<1> USE DEF QueueTypeOK
<1>1. CASE Create
  BY <1>1 DEF Create, RingInv
<1>2. CASE Destroy
  BY <1>2 DEF Destroy, RingInv
<1>3. CASE \E x \in Item : Enqueue(x)
  BY <1>3, EnqueueRing
<1>4. CASE ConsumerStep(c)
  <2>1. CASE DequeueReady(c)
    BY <2>1, TakeRing DEF DequeueReady
  <2>2. CASE DequeueBlock(c)
    BY <2>2 DEF DequeueBlock, RingInv
  <2>3. CASE DequeueResume(c)
    BY <2>3, TakeRing DEF DequeueResume, RingInv
  <2>4. CASE Done(c)
    BY <2>4 DEF Done, RingInv
  <2> QED
    BY <1>4, <2>1, <2>2, <2>3, <2>4 DEF ConsumerStep
<1>5. CASE UNCHANGED queueVars
  BY <1>5 DEF queueVars, RingInv, NextSlot
<1> QED
  BY <1>1, <1>2, <1>3, <1>4, <1>5 DEF QueueNext

LEMMA RingAlways ==
  ASSUME NEW c \in Dequeuers, Dequeuers = {c}, Orderly
  PROVE  QueueSpec => [](QueueTypeOK /\ RingInv(c))
<1>1. QueueInit => RingInv(c)
  BY DEF QueueInit, RingInv
<1>2. QueueTypeOK /\ RingInv(c) /\ [QueueNext]_queueVars => RingInv(c)'
  BY NextRing
<1> QED
  BY <1>1, <1>2, InitTypeOK, NextTypeOK, PTL DEF QueueSpec

\* With one consumer the `if` of aout_queue.c:105 is as good as a `while`, and
\* the producers never write into the buffer the consumer is reading, provided that
\* nobody destroys the queue under the consumer.
THEOREM QueueSafeWithOneConsumer ==
  ASSUME NEW c \in Dequeuers, Dequeuers = {c}, Orderly
  PROVE  QueueSpec => []DequeueSound
<1>1. QueueTypeOK /\ RingInv(c) => DequeueSound
  BY DEF RingInv, DequeueSound, WokenFindsItem, HeldSlotStable, NoWildRead
<1> QED
  BY <1>1, RingAlways, PTL

-----------------------------------------------------------------------------
\* Arithmetic of the ring, which goes round once at most.
LEMMA WrapsOnce ==
  ASSUME NEW a \in Nat, a < 2 * QueueSize
  PROVE  a % QueueSize = IF a < QueueSize THEN a ELSE a - QueueSize
<1>1. QueueSize \in Int /\ QueueSize > 0
  BY QueueAssumption DEF QueueAssumption
<1>2. CASE a < QueueSize
  BY <1>1, <1>2
<1>3. CASE ~(a < QueueSize)
  <2>1. PICK r \in Nat : r = a - QueueSize /\ r < QueueSize
    BY <1>1, <1>3
  <2>2. ((QueueSize * 1) + r) % QueueSize = r
    BY <1>1, <2>1
  <2>3. a = (QueueSize * 1) + r
    BY <1>1, <2>1
  <2> QED
    BY <1>3, <2>1, <2>2, <2>3
<1> QED
  BY <1>2, <1>3

LEMMA CountIs ==
  ASSUME NEW h \in Slots, NEW t \in Slots
  PROVE  /\ (t + QueueSize - h) % QueueSize = IF t < h THEN t + QueueSize - h ELSE t - h
         /\ (t + QueueSize - h) % QueueSize \in 0..QueueSize - 1
<1>1. QueueSize \in Nat /\ QueueSize > 0
  BY QueueAssumption DEF QueueAssumption
<1>2. h \in 0..QueueSize - 1 /\ t \in 0..QueueSize - 1
  BY DEF Slots
<1>3. PICK a \in Nat : a = t + QueueSize - h /\ a < 2 * QueueSize
  BY <1>1, <1>2
<1>4. a % QueueSize = IF a < QueueSize THEN a ELSE a - QueueSize
  BY <1>3, WrapsOnce
<1> QED
  BY <1>1, <1>2, <1>3, <1>4

\* The slot of the i-th item behind h.
At(h, i) == (h + i - 1) % QueueSize

LEMMA AtIs ==
  ASSUME NEW h \in Slots, NEW i \in 1..QueueSize
  PROVE  /\ At(h, i) = IF h + i - 1 < QueueSize THEN h + i - 1 ELSE h + i - 1 - QueueSize
         /\ At(h, i) \in Slots
<1>1. QueueSize \in Nat /\ QueueSize > 0
  BY QueueAssumption DEF QueueAssumption
<1>2. PICK a \in Nat : a = h + i - 1 /\ a < 2 * QueueSize
  BY <1>1 DEF Slots
<1>3. a % QueueSize = IF a < QueueSize THEN a ELSE a - QueueSize
  BY <1>2, WrapsOnce
<1> QED
  BY <1>1, <1>2, <1>3 DEF At, Slots

-----------------------------------------------------------------------------
\* One more item at the end, and one less at the front.
LEMMA AppendIs ==
  ASSUME NEW S, NEW n \in Nat, NEW s \in [1..n -> S], NEW x \in S,
         NEW r \in [1..n + 1 -> S], r[n + 1] = x, \A i \in 1..n : r[i] = s[i]
  PROVE  r = Append(s, x) /\ Len(s) = n
BY SMT

LEMMA TailIs ==
  ASSUME NEW S, NEW n \in Nat, n > 0, NEW s \in [1..n -> S],
         NEW r \in [1..n - 1 -> S], \A i \in 1..n - 1 : r[i] = s[i + 1]
  PROVE  r = Tail(s) /\ s # <<>> /\ Head(s) = s[1]
BY SMT

LEMMA ContentsType ==
  ASSUME QueueTypeOK
  PROVE  /\ Count \in 0..QueueSize - 1
         /\ Contents = [i \in 1..Count |-> slot[At(head, i)]]
         /\ Contents \in [1..Count -> Item \cup {Blank}]
<1>1. PICK h \in Slots : h = head
  BY DEF QueueTypeOK
<1>2. PICK t \in Slots : t = tail
  BY DEF QueueTypeOK
<1>3. Count \in 0..QueueSize - 1
  BY <1>1, <1>2, CountIs DEF Count
<1>4. \A i \in 1..Count : At(h, i) \in Slots
  <2>1. \A i \in 1..Count : i \in 1..QueueSize
    BY <1>3, QueueAssumption DEF QueueAssumption
  <2> QED
    BY <2>1, AtIs
<1>5. Contents = [i \in 1..Count |-> slot[At(head, i)]]
  BY DEF Contents, At
<1>6. \A i \in 1..Count : slot[At(head, i)] \in Item \cup {Blank}
  BY <1>1, <1>4 DEF QueueTypeOK
<1> QED
  BY <1>3, <1>5, <1>6

\* An item that is accepted comes in at the end.
LEMMA EnqueueContents ==
  ASSUME QueueTypeOK, NEW x \in Item, Enqueue(x)
  PROVE  /\ Contents' = Append(Contents, x)
         /\ Len(Contents) < QueueSize - 1
<1>1. PICK h \in Slots : h = head
  BY DEF QueueTypeOK
<1>2. PICK t \in Slots : t = tail
  BY DEF QueueTypeOK
<1>3. PICK u \in Slots : u = NextSlot(t)
  BY NextSlotInSlots
<1>4. PICK n \in 0..QueueSize - 1 : n = Count
  BY ContentsType
<1>5. QueueSize \in Nat /\ QueueSize > 0
  BY QueueAssumption DEF QueueAssumption
<1>6. u # h /\ tail' = u /\ head' = h /\ slot' = [slot EXCEPT ![t] = x]
  BY <1>1, <1>2, <1>3 DEF Enqueue, Refused, Store
<1>7. u = IF t = QueueSize - 1 THEN 0 ELSE t + 1
  BY <1>3, NextSlotWraps
<1>8. n = IF t < h THEN t + QueueSize - h ELSE t - h
  BY <1>1, <1>2, <1>4, CountIs DEF Count
<1>9. Count' = IF u < h THEN u + QueueSize - h ELSE u - h
  BY <1>6, CountIs DEF Count
<1>10. Count' = n + 1 /\ n + 1 < QueueSize
  BY <1>5, <1>6, <1>7, <1>8, <1>9 DEF Slots
<1>11. At(h, n + 1) = t
  <2>1. n + 1 \in 1..QueueSize
    BY <1>4, <1>5, <1>10
  <2>2. At(h, n + 1) = IF h + (n + 1) - 1 < QueueSize THEN h + (n + 1) - 1
                       ELSE h + (n + 1) - 1 - QueueSize
    BY <2>1, AtIs
  <2> QED
    BY <1>5, <1>8, <2>2 DEF Slots
<1>12. \A i \in 1..n : At(h, i) # t /\ At(h, i) \in Slots
  <2> SUFFICES ASSUME NEW i \in 1..n PROVE At(h, i) # t /\ At(h, i) \in Slots
    OBVIOUS
  <2>1. i \in 1..QueueSize
    BY <1>4, <1>5
  <2>2. /\ At(h, i) = IF h + i - 1 < QueueSize THEN h + i - 1 ELSE h + i - 1 - QueueSize
        /\ At(h, i) \in Slots
    BY <2>1, AtIs
  <2> QED
    BY <1>5, <1>8, <2>1, <2>2 DEF Slots
<1>13. slot \in [Slots -> Item \cup {Blank}]
  BY DEF QueueTypeOK
<1>14. PICK s \in [1..n -> Item \cup {Blank}] :
         s = Contents /\ \A i \in 1..n : s[i] = slot[At(h, i)]
  BY <1>1, <1>4, ContentsType
<1>15. PICK r : r = Contents' /\ r = [i \in 1..n + 1 |-> slot'[At(h, i)]]
  <2>1. head' = h /\ Count' = n + 1
    BY <1>6, <1>10
  <2> QED
    BY <2>1 DEF Contents, At
<1>16. r[n + 1] = x /\ \A i \in 1..n : r[i] = s[i]
  <2>1. r[n + 1] = slot'[t]
    BY <1>4, <1>11, <1>15
  <2>2. \A i \in 1..n : r[i] = slot'[At(h, i)]
    BY <1>4, <1>15
  <2> QED
    BY <1>2, <1>6, <1>12, <1>13, <1>14, <2>1, <2>2
<1>17. r \in [1..n + 1 -> Item \cup {Blank}]
  <2>1. \A i \in 1..n + 1 : r[i] \in Item \cup {Blank}
    <3>1. \A i \in 1..n + 1 : i \in 1..n \/ i = n + 1
      BY <1>4
    <3> QED
      BY <1>14, <1>16, <3>1
  <2> QED
    BY <1>15, <2>1
<1>18. r = Append(s, x) /\ Len(s) = n
  <2>1. n \in Nat /\ x \in Item \cup {Blank}
    BY <1>4
  <2> QED
    BY <1>16, <1>17, <2>1, AppendIs
<1>19. n < QueueSize - 1
  BY <1>4, <1>5, <1>10
<1> QED
  BY <1>14, <1>15, <1>18, <1>19

\* An item that is handed out is the first.
LEMMA TakeContents ==
  ASSUME QueueTypeOK, NEW c \in Dequeuers, Take(c), head # tail
  PROVE  /\ Contents' = Tail(Contents)
         /\ Contents # <<>>
         /\ slot[head] = Head(Contents)
<1>1. PICK h \in Slots : h = head
  BY DEF QueueTypeOK
<1>2. PICK t \in Slots : t = tail
  BY DEF QueueTypeOK
<1>3. PICK g \in Slots : g = NextSlot(h)
  BY NextSlotInSlots
<1>4. PICK n \in 0..QueueSize - 1 : n = Count
  BY ContentsType
<1>5. QueueSize \in Nat /\ QueueSize > 0
  BY QueueAssumption DEF QueueAssumption
<1>6. head' = g /\ tail' = t /\ slot' = slot
  BY <1>1, <1>2, <1>3 DEF Take
<1>7. g = IF h = QueueSize - 1 THEN 0 ELSE h + 1
  BY <1>3, NextSlotWraps
<1>8. n = IF t < h THEN t + QueueSize - h ELSE t - h
  BY <1>1, <1>2, <1>4, CountIs DEF Count
<1>9. Count' = IF t < g THEN t + QueueSize - g ELSE t - g
  BY <1>6, CountIs DEF Count
<1>10. Count' = n - 1 /\ n > 0
  <2>1. h # t
    BY <1>1, <1>2
  <2> QED
    BY <1>5, <1>7, <1>8, <1>9, <2>1 DEF Slots
<1>11. \A i \in 1..n - 1 : At(g, i) = At(h, i + 1)
  <2> SUFFICES ASSUME NEW i \in 1..n - 1 PROVE At(g, i) = At(h, i + 1)
    OBVIOUS
  <2>1. i \in 1..QueueSize /\ i + 1 \in 1..QueueSize
    BY <1>4, <1>5
  <2>2. At(g, i) = IF g + i - 1 < QueueSize THEN g + i - 1 ELSE g + i - 1 - QueueSize
    BY <2>1, AtIs
  <2>3. At(h, i + 1) = IF h + (i + 1) - 1 < QueueSize THEN h + (i + 1) - 1
                       ELSE h + (i + 1) - 1 - QueueSize
    BY <2>1, AtIs
  <2> QED
    BY <1>5, <1>7, <2>1, <2>2, <2>3 DEF Slots
<1>12. At(h, 1) = h
  <2>1. At(h, 1) = IF h + 1 - 1 < QueueSize THEN h + 1 - 1 ELSE h + 1 - 1 - QueueSize
    BY <1>5, AtIs
  <2> QED
    BY <1>5, <2>1 DEF Slots
<1>13. PICK s \in [1..n -> Item \cup {Blank}] :
         s = Contents /\ \A i \in 1..n : s[i] = slot[At(h, i)]
  BY <1>1, <1>4, ContentsType
<1>14. PICK r : r = Contents' /\ r = [i \in 1..n - 1 |-> slot[At(g, i)]]
  BY <1>6, <1>10 DEF Contents, At
<1>15. \A i \in 1..n - 1 : r[i] = s[i + 1]
  <2>1. \A i \in 1..n - 1 : i + 1 \in 1..n
    BY <1>4
  <2> QED
    BY <1>11, <1>13, <1>14, <2>1
<1>16. r \in [1..n - 1 -> Item \cup {Blank}]
  <2>1. \A i \in 1..n - 1 : r[i] \in Item \cup {Blank}
    <3>1. \A i \in 1..n - 1 : i + 1 \in 1..n
      BY <1>4
    <3> QED
      BY <1>13, <1>15, <3>1
  <2> QED
    BY <1>14, <2>1
<1>17. r = Tail(s) /\ s # <<>> /\ Head(s) = s[1]
  BY <1>4, <1>10, <1>15, <1>16, TailIs
<1>18. s[1] = slot[head]
  BY <1>1, <1>4, <1>10, <1>12, <1>13
<1> QED
  BY <1>13, <1>14, <1>17, <1>18

-----------------------------------------------------------------------------
\* What the consumers have in hand.
InHand == [c \in Dequeuers |-> IF doing[c] = "using" THEN <<got[c]>> ELSE <<>>]

LEMMA InHandKept ==
  ASSUME got' = got, \A c \in Dequeuers : (doing'[c] = "using") <=> (doing[c] = "using")
  PROVE  InHand' = InHand
BY DEF InHand

LEMMA FifoInitially == QueueInit => Fifo!Init
<1> SUFFICES ASSUME QueueInit PROVE Fifo!Init
  OBVIOUS
<1>1. QueueSize \in Nat /\ QueueSize > 0
  BY QueueAssumption DEF QueueAssumption
<1>2. QueueTypeOK
  BY InitTypeOK
<1>3. PICK h \in Slots : h = 0
  BY <1>1 DEF Slots
<1>4. (h + QueueSize - h) % QueueSize = 0
  BY <1>1, <1>3, CountIs
<1>5. Count = 0
  BY <1>3, <1>4 DEF QueueInit, Count
<1>6. Contents = <<>>
  BY <1>5 DEF Contents
<1>7. InHand = [c \in Dequeuers |-> <<>>]
  BY DEF QueueInit, InHand
<1> QED
  BY <1>6, <1>7 DEF Fifo!Init, Fifo!NoItem, InHand

\* A step of the queue is one of the FIFO, or nothing that shows.
LEMMA FifoStep ==
  ASSUME NEW c \in Dequeuers, Dequeuers = {c}, QueueTypeOK, RingInv(c),
         [QueueNext]_queueVars
  PROVE  [Fifo!Next]_(Fifo!fifoVars)
<1>1. CASE Create
  <2>1. PICK n \in 0..QueueSize - 1 :
          n = Count /\ Contents = [i \in 1..n |-> slot[At(head, i)]]
    BY ContentsType
  <2>2. Count' = n
    BY <1>1, <2>1 DEF Create, Count
  <2>3. PICK h \in Slots : h = head
    BY DEF QueueTypeOK
  <2>4. \A i \in 1..n : At(h, i) \in Slots
    <3>1. \A i \in 1..n : i \in 1..QueueSize
      BY <2>1, QueueAssumption DEF QueueAssumption
    <3> QED
      BY <3>1, AtIs
  <2>5. Contents' = [i \in 1..n |-> slot'[At(h, i)]]
    BY <1>1, <2>2, <2>3 DEF Create, Contents, At
  <2>6. \A i \in 1..n : slot'[At(h, i)] = Blank
    BY <1>1, <2>4 DEF Create
  <2>7. Contents' = [i \in 1..n |-> Blank]
    BY <2>5, <2>6
  <2>8. Len(Contents) = n
    BY <2>1
  <2>9. InHand' = InHand
    BY <1>1, InHandKept DEF Create
  <2> QED
    BY <2>7, <2>8, <2>9 DEF Fifo!Next, Fifo!Wipe, InHand
<1>2. CASE Destroy
  <2>1. Contents' = Contents /\ InHand' = InHand
    BY <1>2 DEF Destroy, Contents, Count, InHand
  <2> QED
    BY <2>1 DEF Fifo!fifoVars, InHand
<1>3. ASSUME NEW x \in Item, Enqueue(x) PROVE Fifo!Next
  <2>1. Contents' = Append(Contents, x) /\ Len(Contents) < QueueSize - 1
    BY <1>3, EnqueueContents
  <2>2. got' = got /\ \A d \in Dequeuers : (doing'[d] = "using") <=> (doing[d] = "using")
    BY <1>3 DEF Enqueue, Store, SignalNotEmpty, QueueTypeOK
  <2>3. InHand' = InHand
    BY <2>2, InHandKept
  <2>4. Fifo!Put(x)
    BY <2>1, <2>3 DEF Fifo!Put, InHand
  <2> QED
    BY <2>4 DEF Fifo!Next
<1>4. ASSUME doing[c] # "using", Take(c), head # tail PROVE Fifo!Next
  <2>1. Contents' = Tail(Contents) /\ Contents # <<>> /\ slot[head] = Head(Contents)
    BY <1>4, TakeContents
  <2>2. doing'[c] = "using" /\ got'[c] = slot[head]
    BY <1>4 DEF Take, QueueTypeOK
  <2>3. InHand[c] = <<>> /\ InHand'[c] = <<Head(Contents)>>
    BY <1>4, <2>1, <2>2 DEF InHand
  <2>4. InHand' = [InHand EXCEPT ![c] = <<Head(Contents)>>]
    BY <2>3 DEF InHand
  <2>5. Fifo!Get(c)
    BY <2>1, <2>3, <2>4 DEF Fifo!Get, Fifo!NoItem, InHand
  <2> QED
    BY <2>5 DEF Fifo!Next
<1>5. CASE ConsumerStep(c)
  <2>1. CASE DequeueReady(c)
    BY <1>4, <2>1 DEF DequeueReady
  <2>2. CASE DequeueBlock(c)
    <3>1. got' = got /\ \A d \in Dequeuers : (doing'[d] = "using") <=> (doing[d] = "using")
      BY <2>2 DEF DequeueBlock, QueueTypeOK
    <3>2. InHand' = InHand /\ Contents' = Contents
      BY <2>2, <3>1, InHandKept DEF DequeueBlock, Contents, Count
    <3> QED
      BY <3>2 DEF Fifo!fifoVars, InHand
  <2>3. CASE DequeueResume(c)
    BY <1>4, <2>3 DEF DequeueResume, RingInv
  <2>4. CASE Done(c)
    <3>1. doing'[c] = "idle"
      BY <2>4 DEF Done, QueueTypeOK
    <3>2. InHand' = [InHand EXCEPT ![c] = <<>>]
      BY <3>1 DEF InHand
    <3>3. Contents' = Contents
      BY <2>4 DEF Done, Contents, Count
    <3>4. Fifo!Release(c)
      BY <3>2, <3>3 DEF Fifo!Release, Fifo!NoItem, InHand
    <3> QED
      BY <3>4 DEF Fifo!Next
  <2> QED
    BY <1>5, <2>1, <2>2, <2>3, <2>4 DEF ConsumerStep
<1>6. CASE UNCHANGED queueVars
  <2>1. Contents' = Contents /\ InHand' = InHand
    BY <1>6 DEF queueVars, Contents, Count, InHand
  <2> QED
    BY <2>1 DEF Fifo!fifoVars, InHand
<1> QED
  BY <1>1, <1>2, <1>3, <1>5, <1>6 DEF QueueNext

\* With one consumer the ring is a FIFO with one place less than it has slots:
\* items leave in the order in which they came, each once.
THEOREM QueueIsFifo ==
  ASSUME NEW c \in Dequeuers, Dequeuers = {c}, Orderly
  PROVE  QueueSpec => ImplementsFifo
<1>1. QueueTypeOK /\ RingInv(c) /\ [QueueNext]_queueVars => [Fifo!Next]_(Fifo!fifoVars)
  BY FifoStep
<1> QED
  BY <1>1, FifoInitially, RingAlways, PTL DEF QueueSpec, ImplementsFifo, Fifo!Spec

-----------------------------------------------------------------------------
\* The last data of each kind is noted, cut to an int, and boot where there was none.
SpeechInv ==
  /\ clock \in Nat
  /\ data \in [Kind -> Nat \cup {Never}]
  /\ \A k \in Kind : data[k] <= clock
  /\ last = [k \in Kind |-> Int32(Since(k))]

LEMMA DivMod ==
  ASSUME NEW n \in Int, NEW d \in Int, NEW s \in Int, s > 0, d = n \div s
  PROVE  n = (s * d) + (n % s)
BY SMT

\* An int and the number it was cut from differ by whole turns.
LEMMA Int32Cuts ==
  ASSUME NEW n \in Int
  PROVE  /\ Int32(n) \in -Half..Half - 1
         /\ \E q \in Int : n = ((2 * Half) * q) + Int32(n)
<1>1. Half \in Nat /\ Half > 0
  BY SpeechAssumption DEF SpeechAssumption
<1>2. PICK s \in Int : s = 2 * Half /\ s > 0
  BY <1>1
<1>3. n % s \in 0..s - 1 /\ n \div s \in Int
  BY <1>2
<1>4. PICK r \in 0..s - 1 : r = n % s
  BY <1>3
<1>5. PICK d \in Int : d = n \div s
  BY <1>3
<1>6. n = (s * d) + r
  BY <1>2, <1>4, <1>5, DivMod
<1>7. Int32(n) = IF r < Half THEN r ELSE r - s
  BY <1>1, <1>2, <1>4 DEF Int32
<1>8. Int32(n) \in -Half..Half - 1
  BY <1>1, <1>2, <1>4, <1>7
<1>9. CASE r < Half
  <2>1. n = ((2 * Half) * d) + Int32(n)
    BY <1>2, <1>6, <1>7, <1>9
  <2> QED
    BY <1>5, <1>8, <2>1
<1>10. CASE ~(r < Half)
  <2>1. d + 1 \in Int /\ s * (d + 1) = (s * d) + s
    BY <1>2, <1>5
  <2>2. n = (s * (d + 1)) + (r - s)
    BY <1>2, <1>4, <1>5, <1>6, <2>1
  <2>3. n = ((2 * Half) * (d + 1)) + Int32(n)
    BY <1>2, <1>7, <1>10, <2>2
  <2> QED
    BY <1>8, <2>1, <2>3
<1> QED
  BY <1>8, <1>9, <1>10

LEMMA ModOf ==
  ASSUME NEW q \in Int, NEW r \in Nat, NEW s \in Int, s > 0, r < s
  PROVE  (s * q + r) % s = r
BY SMT

\* The time between two looks at the clock comes out of their ints, whether or
\* not the int turned between them.
LEMMA Int32Differ ==
  ASSUME NEW a \in Nat, NEW b \in Nat, b <= a, a - b < Half
  PROVE  /\ Int32(Int32(a) - Int32(b)) = a - b
         /\ Int32(a) >= Int32(b) => Int32(a) - Int32(b) = a - b
<1>1. PICK s \in Int : s = 2 * Half /\ s > 0
  BY SpeechAssumption DEF SpeechAssumption
<1>2. PICK x \in Int : x = Int32(a) /\ x \in -Half..Half - 1
  BY Int32Cuts
<1>3. PICK y \in Int : y = Int32(b) /\ y \in -Half..Half - 1
  BY Int32Cuts
<1>4. PICK q \in Int : a = (s * q) + x
  BY <1>1, <1>2, Int32Cuts
<1>5. PICK p \in Int : b = (s * p) + y
  BY <1>1, <1>3, Int32Cuts
<1>6. PICK j \in Int : j = p - q
  OBVIOUS
<1>7. PICK age \in Nat : age = a - b /\ age < Half
  OBVIOUS
<1>8. x - y = (s * j) + age
  <2>1. s * j = (s * p) - (s * q)
    BY <1>1, <1>6
  <2>2. s * p \in Int /\ s * q \in Int
    BY <1>1
  <2> QED
    BY <1>4, <1>5, <1>7, <2>1, <2>2
<1>9. x - y < s /\ x - y > -s
  BY <1>1, <1>2, <1>3, SpeechAssumption DEF SpeechAssumption
<1>10. j \in {-1, 0}
  <2>1. CASE j >= 1
    <3>1. s * j >= s
      BY <1>1, <2>1
    <3>2. s * j \in Int
      BY <1>1
    <3> QED
      BY <1>7, <1>8, <1>9, <3>1, <3>2
  <2>2. CASE j <= -2
    <3>1. s * j <= s * (-2)
      BY <1>1, <2>2
    <3>2. s * j \in Int /\ s * (-2) = -(2 * s)
      BY <1>1
    <3> QED
      BY <1>1, <1>7, <1>8, <1>9, <3>1, <3>2, SpeechAssumption DEF SpeechAssumption
  <2> QED
    BY <2>1, <2>2
<1>11. Int32(x - y) = age
  <2> age < s
    BY <1>1, <1>7, SpeechAssumption DEF SpeechAssumption
  <2>1. ((s * j) + age) % s = age
    BY <1>1, <1>7, ModOf
  <2>2. (x - y) % (2 * Half) = age
    BY <1>1, <1>8, <2>1
  <2> QED
    BY <1>7, <2>2 DEF Int32
<1>12. x >= y => x - y = age
  BY <1>1, <1>7, <1>8, <1>10, SpeechAssumption DEF SpeechAssumption
<1> QED
  BY <1>2, <1>3, <1>7, <1>11, <1>12

LEMMA SpeechInitially == SpeechInit => SpeechInv
<1>1. Half \in Nat /\ Half > 0
  BY SpeechAssumption DEF SpeechAssumption
<1>2. 0 % (2 * Half) = 0
  <2>1. PICK s \in Int : s = 2 * Half /\ s > 0
    BY <1>1
  <2>2. ((s * 0) + 0) % s = 0
    BY <2>1, ModOf
  <2> QED
    BY <2>1, <2>2
<1>3. Int32(0) = 0
  BY <1>1, <1>2 DEF Int32
<1> QED
  BY <1>3 DEF SpeechInit, SpeechInv, Since, Never

LEMMA SpeechKept ==
  ASSUME SpeechInv, [SpeechNext]_speechVars
  PROVE  SpeechInv'
<1>1. ASSUME NEW k \in Kind, Refresh(k) PROVE SpeechInv'
  <2>1. /\ last' = [last EXCEPT ![k] = Int32(clock)] /\ clock' = clock
        /\ data' = [data EXCEPT ![k] = clock]
    BY <1>1 DEF Refresh
  <2>2. data' \in [Kind -> Nat \cup {Never}] /\ \A j \in Kind : data'[j] <= clock
    BY <2>1 DEF SpeechInv
  <2>3. \A j \in Kind : last'[j] = Int32(IF data'[j] = Never THEN 0 ELSE data'[j])
    BY <2>1 DEF SpeechInv, Since, Never
  <2>4. last' = [j \in Kind |-> last'[j]]
    BY <2>1 DEF SpeechInv
  <2>5. last' = [j \in Kind |-> Int32(IF data'[j] = Never THEN 0 ELSE data'[j])]
    BY <2>3, <2>4
  <2> QED
    BY <2>1, <2>2, <2>5 DEF SpeechInv, Int32, Since
<1>2. CASE Tick
  BY <1>2 DEF Tick, SpeechInv, Since, Never
<1>3. CASE UNCHANGED statusVars
  BY <1>3 DEF statusVars, SpeechInv, Since
<1>4. \/ \E k \in Kind : Refresh(k)
      \/ Tick
      \/ UNCHANGED statusVars
  <2>1. "talk" \in Kind /\ "speech" \in Kind
    BY DEF Kind
  <2>2. CASE Talk \/ \E c \in Dequeuers : Speak(c)
    BY <2>1, <2>2 DEF Talk, Speak
  <2>3. CASE \/ FileCreate \/ FileDestroy
             \/ \E f \in Item : FileEnqueue(f)
             \/ \E c \in Dequeuers : FileDequeue(c)
    BY <2>3 DEF FileCreate, FileDestroy, FileEnqueue, FileDequeue
  <2> QED
    BY <2>2, <2>3 DEF SpeechNext, speechVars
<1> QED
  BY <1>1, <1>2, <1>3, <1>4

\* The status of talk and of speech is 1 with data in the last second and 0
\* without, for every width of the int, but for the first second after boot and
\* data of 2^31 milliseconds and more; if the difference of the ints is none, it
\* is one of what the build may answer.
THEOREM StatusStaysFresh == SpeechSpec => []StatusFresh
<1>1. SpeechInv => StatusFresh
  <2> SUFFICES ASSUME SpeechInv, NEW k \in Kind, Age(k) < Half,
                      data[k] = Never => clock >= Second
               PROVE  LET right == IF Recent(k) THEN 1 ELSE 0
                      IN  /\ right \in Status(k)
                          /\ Int32(clock) >= last[k] => Status(k) = {right}
    BY DEF StatusFresh
  <2>1. PICK a \in Nat : a = clock
    BY DEF SpeechInv
  <2>2. PICK b \in Nat : b = Since(k) /\ b <= a
    BY <2>1 DEF SpeechInv, Since
  <2>3. last[k] = Int32(b) /\ Age(k) = a - b /\ a - b < Half
    BY <2>1, <2>2 DEF SpeechInv, Age
  <2>4. /\ Int32(Int32(a) - Int32(b)) = a - b
        /\ Int32(a) >= Int32(b) => Int32(a) - Int32(b) = a - b
    BY <2>2, <2>3, Int32Differ
  <2>5. Deltas(Int32(clock), last[k]) = {Int32(a) - Int32(b), a - b}
    BY <2>1, <2>3, <2>4 DEF Deltas
  <2>6. Status(k) = {IF d < Second THEN 1 ELSE 0 : d \in {Int32(a) - Int32(b), a - b}}
    BY <2>5 DEF Status
  <2>7. Recent(k) <=> a - b < Second
    BY <2>1, <2>2, SpeechAssumption DEF SpeechInv, Since, Recent, SpeechAssumption
  <2> QED
    BY <2>1, <2>3, <2>4, <2>6, <2>7
<1> QED
  BY <1>1, SpeechInitially, SpeechKept, PTL DEF SpeechSpec
=============================================================================
