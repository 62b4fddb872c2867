------------------------- MODULE SharedBufferProofs -------------------------
(***************************************************************************)
(* Proofs about SharedBuffer, for every size of the ring, any number of    *)
(* consumers and of packets, and deaths at every step: a consumer that was *)
(* not thrown off reads newer and newer packets, and finds the ring empty  *)
(* only a whole number of rounds behind.                                   *)
(***************************************************************************)
EXTENDS SharedBuffer, TLAPS

Offset(s) == mem[s].offset
Ring(s) == mem[s].ring

Places == {"out", "attach", "idle", "detach", "enter", "look", "copy", "write",
           "fill", "advance", "leave"}

BufferTypeOK ==
  /\ shm \in Nat /\ shmMade \in Nat /\ shm <= shmMade /\ shmMade <= MaxMade
  /\ mem \in [Ids -> [offset : 0..Size, ring : [Cells -> Nat]]]
  /\ sem \in Nat /\ semMade \in Nat /\ sem <= semMade
  /\ val \in Int
  /\ adj \in [Procs -> Int]
  /\ pc \in [Procs -> Places]
  /\ shmId \in [Procs -> Nat]
  /\ semId \in [Procs -> Nat]
  /\ rd \in [Consumers -> Cells]
  /\ last \in [Consumers -> Nat]
  /\ count \in Nat /\ base \in Nat /\ base <= count
  /\ sound \in [Consumers -> BOOLEAN]
  /\ raced \in BOOLEAN

\* The producer is past its shmAttach.
Live == pc[Producer] \notin {"out", "attach", "detach"}

\* Who does what, and which ids there are.
Attached ==
  /\ \A p \in Procs : /\ pc[p] # "out" => shmId[p] \in 1..shmMade
                      /\ semId[p] <= semMade
                      /\ pc[p] \notin {"out", "attach"} => semId[p] # 0
  /\ pc[Producer] # "out" => shm # 0 /\ shmId[Producer] = shm
  /\ Live => sem # 0 /\ semId[Producer] = sem
  /\ shm = 0 \/ pc[Producer] = "detach" => shmMade < MaxMade
  /\ pc[Producer] \notin {"look", "copy"}
  /\ \A c \in Consumers : pc[c] \notin {"write", "fill", "advance", "detach"}

\* p holds the semaphore under the key.
Holds(p) == Inside(p) /\ semId[p] = sem

\* While no SETVAL came in between, the semaphore excludes, also for those who
\* hold one that was removed.
Exclusive ==
  ~raced =>
    /\ val \in {0, 1}
    /\ \A p \in Procs : /\ adj[p] = IF Holds(p) THEN 1 ELSE 0
                        /\ Holds(p) => val = 0
                        /\ Live /\ Inside(p) => semId[p] = sem
    /\ \A p, q \in Procs : Holds(p) /\ Holds(q) => p = q

\* Nobody gets into a segment that no producer has attached to.
Prepared ==
  /\ \A s \in 1..shmMade : s # shm => Offset(s) # Unset
  /\ pc[Producer] # "out" => Offset(shm) # Unset
  /\ ~raced =>
       /\ shm = 0 \/ Offset(shm) = Unset \/ pc[Producer] = "detach" =>
            val = 0 /\ \A p \in Procs : ~Holds(p)
       /\ \A p \in Procs : Inside(p) => Offset(shmId[p]) # Unset

\* A segment with n packets since packet b: a slot that is not the next one to
\* be written holds a packet that is newer than any a reader was at there.
Era(s, b, n) ==
  /\ Offset(s) = n % Size
  /\ \A m \in 0..n - 1 : m % Size # Offset(s) =>
       \E k \in m + 1..n : /\ Ring(s)[m % Size] = b + k
                           /\ (k - 1) % Size = m % Size

\* The consumer c is at the m-th packet since packet b.
Follows(c, b, m) ==
  /\ rd[c] = m % Size
  /\ IF m = 0 THEN last[c] <= b ELSE last[c] = b + m

\* What the consumers of the segment s have read of n packets since packet b.
History(s, b, n) ==
  /\ Era(s, b, n)
  /\ ~raced =>
       \A c \in Consumers : sound[c] /\ pc[c] # "out" /\ shmId[c] = s =>
         /\ \E m \in 0..n : Follows(c, b, m)
         /\ pc[c] = "copy" => rd[c] # Offset(s)

\* The segment under the key, before and after a producer came to it, those
\* that were removed, and those that are still to be made.
Ordered ==
  /\ \A s \in 1..shmMade :
       /\ s = shm /\ pc[Producer] = "advance" => Ring(s)[Offset(s)] = count + 1
       /\ s = shm /\ Offset(s) # Unset =>
            \A b, n \in Nat : b = base /\ b + n = count => History(s, b, n)
       /\ s = shm /\ Offset(s) = Unset /\ ~raced =>
            \A c \in Consumers :
              pc[c] # "out" /\ shmId[c] = s => rd[c] = 0 /\ last[c] = 0
       /\ s # shm => \E b, n \in Nat : History(s, b, n)
  /\ \A s \in Ids : s > shmMade => Offset(s) = Unset

BufferInv == BufferTypeOK /\ Attached /\ Exclusive /\ Prepared /\ Ordered

-----------------------------------------------------------------------------
\* Arithmetic of the ring.
LEMMA DivMod ==
  ASSUME NEW a \in Int, NEW d \in Int, NEW s \in Int, s > 0, d = a \div s
  PROVE  a = (s * d) + (a % s)
BY SMT

LEMMA DivNat ==
  ASSUME NEW a \in Nat, NEW s \in Int, s > 0
  PROVE  a \div s \in Nat
BY SMT

LEMMA ModOf ==
  ASSUME NEW q \in Nat, NEW r \in Nat, NEW s \in Int, s > 0, r < s
  PROVE  (s * q + r) % s = r
BY SMT

LEMMA SizeIsNat == Size \in Nat /\ Size >= 2
BY BufferAssumption DEF BufferAssumption

LEMMA ModRange ==
  ASSUME NEW a \in Nat
  PROVE  a % Size \in Cells
BY SizeIsNat DEF Cells

LEMMA ModSmall ==
  ASSUME NEW a \in Cells
  PROVE  a % Size = a
BY SizeIsNat DEF Cells

LEMMA ModZero == 0 \in Cells /\ 0 % Size = 0
<1>1. 0 \in Cells
  BY SizeIsNat DEF Cells
<1> QED
  BY <1>1, ModSmall

\* The slot after that of a is the slot of a + 1.
LEMMA ModNext ==
  ASSUME NEW a \in Nat
  PROVE  NextCell(a % Size) = (a + 1) % Size
<1> DEFINE r == a % Size
           d == a \div Size
<1>1. Size \in Int /\ Size > 0 /\ a \in Int
  BY SizeIsNat
<1>2. d \in Nat /\ r \in Cells
  BY <1>1, DivNat, ModRange
<1>3. a = (Size * d) + r
  BY <1>1, <1>2, DivMod
<1> HIDE DEF r, d
<1>4. CASE r + 1 < Size
  <2>1. r + 1 \in Cells /\ r + 1 \in Nat
    BY <1>1, <1>2, <1>4 DEF Cells
  <2>2. a + 1 = (Size * d) + (r + 1)
    BY <1>1, <1>2, <1>3, <2>1 DEF Cells
  <2>3. ((Size * d) + (r + 1)) % Size = r + 1
    BY <1>1, <1>2, <1>4, <2>1, ModOf
  <2>4. (r + 1) % Size = r + 1
    BY <2>1, ModSmall
  <2> QED
    BY <2>2, <2>3, <2>4 DEF NextCell, r
<1>5. CASE r + 1 = Size
  <2>1. a + 1 = (Size * (d + 1)) + 0
    BY <1>1, <1>2, <1>3, <1>5 DEF Cells
  <2>2. ((Size * (d + 1)) + 0) % Size = 0
    BY <1>1, <1>2, ModOf
  <2>3. ((Size * 1) + 0) % Size = 0
    BY <1>1, ModOf
  <2>4. (r + 1) % Size = 0
    BY <1>1, <1>5, <2>3
  <2> QED
    BY <2>1, <2>2, <2>4 DEF NextCell, r
<1>6. r + 1 < Size \/ r + 1 = Size
  BY <1>1, <1>2 DEF Cells
<1> QED
  BY <1>4, <1>5, <1>6

\* Two numbers with the same slot are whole rounds apart.
LEMMA ModSame ==
  ASSUME NEW a \in Nat, NEW b \in Nat, a % Size = b % Size, a <= b
  PROVE  (b - a) % Size = 0
<1> DEFINE r == a % Size
           d == a \div Size
           e == b \div Size
<1>1. Size \in Int /\ Size > 0 /\ a \in Int /\ b \in Int
  BY SizeIsNat
<1>2. d \in Nat /\ e \in Nat /\ r \in Cells
  BY <1>1, DivNat, ModRange
<1>3. a = (Size * d) + r /\ b = (Size * e) + r
  <2>1. a = (Size * d) + (a % Size)
    BY <1>1, <1>2, DivMod
  <2>2. b = (Size * e) + (b % Size)
    BY <1>1, <1>2, DivMod
  <2> QED
    BY <2>1, <2>2
<1> HIDE DEF r, d, e
<1>4. r \in Nat
  BY <1>1, <1>2 DEF Cells
<1>5. d <= e
  <2> SUFFICES ASSUME e + 1 <= d PROVE FALSE
    BY <1>2
  <2>1. PICK k \in Nat : d = e + 1 + k
    <3>1. d - (e + 1) \in Nat /\ d = e + 1 + (d - (e + 1))
      BY <1>2
    <3> QED
      BY <3>1
  <2>2. Size * d = Size * e + Size + Size * k
    BY <1>1, <1>2, <2>1
  <2>3. Size * k >= 0
    BY <1>1
  <2>4. Size * d \in Int /\ Size * e \in Int /\ Size * k \in Int
    BY <1>1, <1>2
  <2> QED
    BY <1>1, <1>3, <1>4, <2>2, <2>3, <2>4
<1>6. b - a = (Size * (e - d)) + 0
  BY <1>1, <1>2, <1>3, <1>4
<1>7. e - d \in Nat
  BY <1>2, <1>5
<1>8. ((Size * (e - d)) + 0) % Size = 0
  BY <1>1, <1>7, ModOf
<1> QED
  BY <1>6, <1>8

-----------------------------------------------------------------------------
LEMMA BufferInitially == BufferInit => BufferInv
<1> SUFFICES ASSUME BufferInit PROVE BufferInv
  OBVIOUS
<1>1. MaxMade \in Nat /\ MaxMade > 0 /\ Size \in Nat
  BY BufferAssumption DEF BufferAssumption
<1>2. mem \in [Ids -> [offset : 0..Size, ring : [Cells -> Nat]]]
  <2>1. Unset \in 0..Size
    BY <1>1 DEF Unset
  <2> QED
    BY <2>1 DEF BufferInit
<1>3. BufferTypeOK
  <2>1. sound \in [Consumers -> BOOLEAN] /\ raced \in BOOLEAN
    BY DEF BufferInit
  <2>2. rd \in [Consumers -> Cells] /\ last \in [Consumers -> Nat]
    BY ModZero DEF BufferInit
  <2>3. /\ pc \in [Procs -> Places]
        /\ shmId \in [Procs -> Nat]
        /\ semId \in [Procs -> Nat]
        /\ adj \in [Procs -> Int]
    BY DEF BufferInit, Places
  <2>4. /\ shm = 0 /\ shmMade = 0 /\ sem = 0 /\ semMade = 0 /\ val = 0 /\ count = 0 /\ base = 0
    BY DEF BufferInit
  <2> QED
    BY <1>1, <1>2, <2>1, <2>2, <2>3, <2>4 DEF BufferTypeOK
<1>4. \A p \in Procs : pc[p] = "out" /\ ~Inside(p) /\ adj[p] = 0 /\ semId[p] = 0
  BY DEF BufferInit, Inside
<1>5. shm = 0 /\ shmMade = 0 /\ sem = 0 /\ semMade = 0 /\ val = 0 /\ pc[Producer] = "out"
  BY <1>4 DEF BufferInit, Procs
<1>6. Attached
  BY <1>1, <1>4, <1>5 DEF Attached, Live, Procs
<1>7. Exclusive
  BY <1>4, <1>5 DEF Exclusive, Holds
<1>8. Prepared
  BY <1>4, <1>5 DEF Prepared, Holds
<1>9. Ordered
  BY <1>1, <1>4, <1>5 DEF BufferInit, Ordered, Offset
<1> QED
  BY <1>3, <1>6, <1>7, <1>8, <1>9 DEF BufferInv

-----------------------------------------------------------------------------
\* The disjuncts of a step.
LEMMA BufferSteps ==
  ASSUME BufferNext
  PROVE  \/ \E p \in Procs : \/ AttachMem(p) \/ AttachSem(p) \/ Crash(p)
                             \/ Call(p) \/ Enter(p) \/ Release(p)
         \/ \E c \in Consumers : Look(c) \/ Copy(c) \/ Detach(c)
         \/ Fill("write", 0, "fill") \/ Fill("fill", count + 1, "advance") \/ Advance
         \/ DetachSem \/ DetachMem
BY DEF BufferNext, PutStep

LEMMA WhoIsWho == Consumers \subseteq Procs /\ Producer \in Procs /\ Producer \notin Consumers
BY BufferAssumption DEF BufferAssumption, Procs

\* The segment that shmget returns.
LEMMA SegmentMade ==
  ASSUME BufferInv, NEW p \in Procs, AttachMem(p)
  PROVE  /\ shm' \in Ids /\ shmMade' \in Nat /\ shm' <= shmMade' /\ shmMade' <= MaxMade
         /\ shmMade <= shmMade' /\ shm' # 0
         /\ shm # 0 => shm' = shm /\ shmMade' = shmMade
         /\ shm = 0 => shm' = shmMade + 1 /\ shmMade' = shmMade + 1
<1>1. MaxMade \in Nat
  BY BufferAssumption DEF BufferAssumption
<1> QED
  BY <1>1 DEF AttachMem, MakeSegment, BufferInv, BufferTypeOK, Attached, Ids

LEMMA BufferTypes ==
  ASSUME BufferInv, BufferNext
  PROVE  BufferTypeOK'
<1> USE SizeIsNat, WhoIsWho
<1>1. BufferTypeOK
  BY DEF BufferInv
<1>2. ASSUME NEW p \in Procs, AttachMem(p) PROVE BufferTypeOK'
  <2>1. shm' \in Ids /\ shm' \in Nat /\ shmMade' \in Nat /\ shm' <= shmMade' /\ shmMade' <= MaxMade
    BY <1>2, SegmentMade DEF Ids
  <2>2. pc' \in [Procs -> Places] /\ shmId' \in [Procs -> Nat]
    BY <1>1, <1>2, <2>1 DEF AttachMem, Goto, BufferTypeOK, Places
  <2>3. CASE p = Producer
    <3>1. mem' \in [Ids -> [offset : 0..Size, ring : [Cells -> Nat]]]
      <4>1. mem' = [mem EXCEPT ![shm'].offset = 0] /\ 0 \in 0..Size
        BY <1>2, <2>3 DEF AttachMem
      <4>2. mem \in [Ids -> [offset : 0..Size, ring : [Cells -> Nat]]]
        BY <1>1 DEF BufferTypeOK
      <4>3. [mem[shm'] EXCEPT !.offset = 0] \in [offset : 0..Size, ring : [Cells -> Nat]]
        BY <2>1, <4>1, <4>2
      <4> QED
        BY <4>1, <4>2, <4>3
    <3>2. base' \in Nat /\ base' <= count'
      BY <1>1, <1>2, <2>3 DEF AttachMem, BufferTypeOK
    <3>3. sound' \in [Consumers -> BOOLEAN]
      <4>1. sound' = [c \in Consumers |-> sound[c] /\ ~ThrownOff(c)]
        BY <1>2, <2>3 DEF AttachMem
      <4> QED
        BY <4>1
    <3>4. UNCHANGED <<sem, semMade, val, adj, semId, rd, count, last, raced>>
      BY <1>2, <2>3 DEF AttachMem, semVars
    <3> QED
      BY <1>1, <2>1, <2>2, <3>1, <3>2, <3>3, <3>4 DEF BufferTypeOK
  <2>4. CASE p # Producer
    <3>1. p \in Consumers
      BY <2>4 DEF Procs
    <3>2. rd' \in [Consumers -> Cells] /\ last' \in [Consumers -> Nat]
      <4>1. 0 \in Cells /\ 0 \in Nat
        BY ModZero
      <4> QED
        BY <1>1, <1>2, <2>4, <4>1 DEF AttachMem, BufferTypeOK
    <3>3. sound' \in [Consumers -> BOOLEAN]
      <4>1. sound' = [sound EXCEPT ![p] = TRUE]
        BY <1>2, <2>4 DEF AttachMem
      <4>2. sound \in [Consumers -> BOOLEAN]
        BY <1>1 DEF BufferTypeOK
      <4> QED
        BY <4>1, <4>2
    <3>4. UNCHANGED <<mem, sem, semMade, val, adj, semId, count, base, raced>>
      BY <1>2, <2>4 DEF AttachMem, semVars
    <3> QED
      BY <1>1, <2>1, <2>2, <3>2, <3>3, <3>4 DEF BufferTypeOK
  <2> QED
    BY <2>3, <2>4
<1>3. ASSUME NEW p \in Procs, AttachSem(p) PROVE BufferTypeOK'
  <2>1. sem' \in Nat /\ semMade' \in Nat /\ sem' <= semMade'
    BY <1>1, <1>3 DEF AttachSem, BufferTypeOK
  <2>2. raced' \in BOOLEAN
    BY <1>1, <1>3 DEF AttachSem, BufferTypeOK
  <2>3. pc' \in [Procs -> Places] /\ semId' \in [Procs -> Nat]
    BY <1>1, <1>3, <2>1 DEF AttachSem, Goto, BufferTypeOK, Places
  <2>4. val' \in Int /\ adj' \in [Procs -> Int]
    BY <1>1, <1>3 DEF AttachSem, BufferTypeOK
  <2> QED
    BY <1>1, <1>3, <2>1, <2>2, <2>3, <2>4 DEF AttachSem, BufferTypeOK, memVars
<1>4. ASSUME NEW p \in Procs, Crash(p) PROVE BufferTypeOK'
  BY <1>1, <1>4 DEF Crash, Undo, Goto, BufferTypeOK, memVars, history, Places
<1>5. ASSUME NEW p \in Procs, Call(p) PROVE BufferTypeOK'
  BY <1>1, <1>5 DEF Call, Goto, BufferTypeOK, memVars, semVars, history, Places
<1>6. ASSUME NEW p \in Procs, Enter(p) PROVE BufferTypeOK'
  <2>1. pc' \in [Procs -> Places]
    BY <1>1, <1>6 DEF Enter, Goto, BufferTypeOK, Places
  <2>2. val' \in Int /\ adj' \in [Procs -> Int]
    BY <1>1, <1>6 DEF Enter, BufferTypeOK
  <2> QED
    BY <1>1, <1>6, <2>1, <2>2 DEF Enter, BufferTypeOK, memVars, history
<1>7. ASSUME NEW p \in Procs, Release(p) PROVE BufferTypeOK'
  <2>1. pc' \in [Procs -> Places]
    BY <1>1, <1>7 DEF Release, Goto, BufferTypeOK, Places
  <2>2. val' \in Int /\ adj' \in [Procs -> Int]
    BY <1>1, <1>7 DEF Release, BufferTypeOK
  <2> QED
    BY <1>1, <1>7, <2>1, <2>2 DEF Release, BufferTypeOK, memVars, history
<1>8. ASSUME NEW c \in Consumers, Look(c) PROVE BufferTypeOK'
  <2>1. pc' \in [Procs -> Places]
    BY <1>1, <1>8 DEF Look, Goto, BufferTypeOK, Places
  <2> QED
    BY <1>1, <1>8, <2>1 DEF Look, BufferTypeOK, memVars, semVars, history
<1>9. ASSUME NEW c \in Consumers, Copy(c) PROVE BufferTypeOK'
  <2>1. pc' \in [Procs -> Places]
    BY <1>1, <1>9 DEF Copy, Goto, BufferTypeOK, Places
  <2>2. shmId[c] \in Ids /\ rd[c] \in Cells
    BY <1>1, <1>9, BufferAssumption
    DEF BufferAssumption, Copy, BufferInv, Attached, BufferTypeOK, Ids
  <2>3. mem[shmId[c]].ring[rd[c]] \in Nat
    BY <1>1, <2>2 DEF BufferTypeOK
  <2>4. NextCell(rd[c]) \in Cells
    <3>1. rd[c] + 1 \in Nat
      BY <2>2 DEF Cells
    <3> QED
      BY <3>1, ModRange DEF NextCell
  <2>5. rd' \in [Consumers -> Cells] /\ last' \in [Consumers -> Nat]
    BY <1>1, <1>9, <2>3, <2>4 DEF Copy, BufferTypeOK
  <2> QED
    BY <1>1, <1>9, <2>1, <2>5 DEF Copy, BufferTypeOK, memVars, semVars, history
<1>10. ASSUME NEW c \in Consumers, Detach(c) PROVE BufferTypeOK'
  BY <1>1, <1>10 DEF Detach, Goto, BufferTypeOK, memVars, semVars, history, Places
<1>11. ASSUME NEW from, NEW packet \in Nat, NEW to \in Places, Fill(from, packet, to)
       PROVE  BufferTypeOK'
  <2>1. pc' \in [Procs -> Places]
    BY <1>1, <1>11 DEF Fill, Goto, BufferTypeOK
  <2>2. mem' \in [Ids -> [offset : 0..Size, ring : [Cells -> Nat]]]
    BY <1>1, <1>11 DEF Fill, BufferTypeOK
  <2> QED
    BY <1>1, <1>11, <2>1, <2>2 DEF Fill, BufferTypeOK, semVars, history
<1>12. ASSUME Advance PROVE BufferTypeOK'
  <2>1. pc' \in [Procs -> Places]
    BY <1>1, <1>12 DEF Advance, Goto, BufferTypeOK, Places
  <2>2. shmId[Producer] \in Ids
    BY <1>1, <1>12, BufferAssumption
    DEF BufferAssumption, Advance, BufferInv, Attached, BufferTypeOK, Ids
  <2>3. NextCell(mem[shmId[Producer]].offset) \in 0..Size
    <3>1. mem[shmId[Producer]].offset + 1 \in Nat
      BY <1>1, <2>2 DEF BufferTypeOK
    <3>2. NextCell(mem[shmId[Producer]].offset) \in Cells
      BY <3>1, ModRange DEF NextCell
    <3> QED
      BY <3>2 DEF Cells
  <2>4. mem' \in [Ids -> [offset : 0..Size, ring : [Cells -> Nat]]]
    BY <1>1, <1>12, <2>2, <2>3 DEF Advance, BufferTypeOK
  <2> QED
    BY <1>1, <1>12, <2>1, <2>4 DEF Advance, BufferTypeOK, semVars, history
<1>13. ASSUME DetachSem PROVE BufferTypeOK'
  BY <1>1, <1>13 DEF DetachSem, Goto, BufferTypeOK, memVars, history, Places
<1>14. ASSUME DetachMem PROVE BufferTypeOK'
  BY <1>1, <1>14 DEF DetachMem, Goto, BufferTypeOK, semVars, history, Places
<1>15. count + 1 \in Nat /\ "fill" \in Places /\ "advance" \in Places
  BY <1>1 DEF BufferTypeOK, Places
<1> QED
  BY <1>2, <1>3, <1>4, <1>5, <1>6, <1>7, <1>8, <1>9, <1>10, <1>11, <1>12, <1>13,
     <1>14, <1>15, BufferSteps

-----------------------------------------------------------------------------
LEMMA AttachedStays ==
  ASSUME BufferInv, BufferNext
  PROVE  Attached'
<1> USE WhoIsWho
<1>1. BufferTypeOK /\ Attached
  BY DEF BufferInv
<1>2. ASSUME NEW p \in Procs, AttachMem(p) PROVE Attached'
  <2>1. /\ shm' \in Nat /\ shm' # 0 /\ shm' <= shmMade'
        /\ shmMade \in Nat /\ shmMade <= shmMade' /\ shmMade' \in Nat
        /\ shm # 0 => shm' = shm /\ shmMade' = shmMade
    BY <1>1, <1>2, SegmentMade DEF Ids, BufferTypeOK
  <2>2. /\ pc[p] = "out" /\ UNCHANGED <<semId, sem, semMade>>
        /\ shmId' = [shmId EXCEPT ![p] = shm']
        /\ pc' = [pc EXCEPT ![p] = "attach"]
    BY <1>2 DEF AttachMem, Goto, semVars
  <2> QED
    BY <1>1, <2>1, <2>2 DEF BufferTypeOK, Attached, Live
<1>3. ASSUME NEW p \in Procs, AttachSem(p) PROVE Attached'
  <2>1. /\ sem' \in Nat /\ semMade' \in Nat /\ sem' # 0 /\ sem' <= semMade'
        /\ semMade <= semMade' /\ semMade \in Nat
        /\ sem # 0 => sem' = sem /\ semMade' = semMade
    BY <1>1, <1>3 DEF AttachSem, BufferTypeOK
  <2>2. /\ pc[p] = "attach" /\ UNCHANGED <<shm, shmMade, shmId>>
        /\ semId' = [semId EXCEPT ![p] = sem']
        /\ pc' = [pc EXCEPT ![p] = "idle"]
    BY <1>3 DEF AttachSem, Goto, memVars
  <2> QED
    BY <1>1, <2>1, <2>2 DEF BufferTypeOK, Attached, Live
<1>4. ASSUME NEW p \in Procs, Crash(p) PROVE Attached'
  BY <1>1, <1>4 DEF Crash, Goto, memVars, BufferTypeOK, Attached, Live
<1>5. ASSUME NEW p \in Procs, Call(p) PROVE Attached'
  BY <1>1, <1>5 DEF Call, Goto, memVars, semVars, BufferTypeOK, Attached, Live
<1>6. ASSUME NEW p \in Procs, Enter(p) PROVE Attached'
  <2>1. /\ pc[p] = "enter" /\ UNCHANGED <<shm, shmMade, shmId, sem, semMade, semId>>
        /\ \/ pc' = [pc EXCEPT ![p] = "idle"]
           \/ p = Producer /\ pc' = [pc EXCEPT ![p] = "write"]
           \/ p # Producer /\ pc' = [pc EXCEPT ![p] = "look"]
    BY <1>6 DEF Enter, Goto, memVars
  <2> QED
    BY <1>1, <2>1 DEF BufferTypeOK, Attached, Live
<1>7. ASSUME NEW p \in Procs, Release(p) PROVE Attached'
  BY <1>1, <1>7 DEF Release, Goto, memVars, BufferTypeOK, Attached, Live
<1>8. ASSUME NEW c \in Consumers, Look(c) PROVE Attached'
  <2>1. /\ pc[c] = "look" /\ UNCHANGED <<shm, shmMade, shmId, sem, semMade, semId>>
        /\ \/ pc' = [pc EXCEPT ![c] = "leave"]
           \/ pc' = [pc EXCEPT ![c] = "copy"]
    BY <1>8 DEF Look, Goto, memVars, semVars
  <2> QED
    BY <1>1, <2>1 DEF BufferTypeOK, Attached, Live
<1>9. ASSUME NEW c \in Consumers, Copy(c) PROVE Attached'
  BY <1>1, <1>9 DEF Copy, Goto, memVars, semVars, BufferTypeOK, Attached, Live
<1>10. ASSUME NEW c \in Consumers, Detach(c) PROVE Attached'
  BY <1>1, <1>10 DEF Detach, Goto, memVars, semVars, BufferTypeOK, Attached, Live
<1>11. ASSUME NEW from \in {"write", "fill"}, NEW packet, NEW to \in {"fill", "advance"},
              Fill(from, packet, to)
       PROVE  Attached'
  BY <1>1, <1>11 DEF Fill, Goto, semVars, BufferTypeOK, Attached, Live
<1>12. ASSUME Advance PROVE Attached'
  BY <1>1, <1>12 DEF Advance, Goto, semVars, BufferTypeOK, Attached, Live
<1>13. ASSUME DetachSem PROVE Attached'
  BY <1>1, <1>13 DEF DetachSem, Goto, memVars, BufferTypeOK, Attached, Live
<1>14. ASSUME DetachMem PROVE Attached'
  BY <1>1, <1>14 DEF DetachMem, Goto, semVars, BufferTypeOK, Attached, Live
<1> QED
  BY <1>2, <1>3, <1>4, <1>5, <1>6, <1>7, <1>8, <1>9, <1>10, <1>11, <1>12, <1>13,
     <1>14, BufferSteps

-----------------------------------------------------------------------------
\* Nobody enters or leaves, and the semaphore is left alone.
LEMMA ExclusiveKept ==
  ASSUME BufferInv, raced' = raced, UNCHANGED <<sem, val, adj>>,
         Live' => Live,
         \A p \in Procs : Inside(p)' => Inside(p) /\ semId'[p] = semId[p],
         \A p \in Procs : Inside(p) => Inside(p)' /\ semId'[p] = semId[p]
  PROVE  Exclusive'
BY DEF BufferInv, Exclusive, Holds

LEMMA ExclusiveStays ==
  ASSUME BufferInv, BufferNext
  PROVE  Exclusive'
<1> USE WhoIsWho
<1>1. BufferTypeOK /\ Attached /\ Exclusive
  BY DEF BufferInv
<1>2. ASSUME NEW p \in Procs, AttachMem(p) PROVE Exclusive'
  <2>1. /\ pc[p] = "out" /\ pc' = [pc EXCEPT ![p] = "attach"]
        /\ UNCHANGED <<raced, sem, val, adj, semId>>
    BY <1>2 DEF AttachMem, Goto, semVars
  <2>2. Live' => Live
    BY <1>1, <2>1 DEF BufferTypeOK, Live
  <2>3. \A q \in Procs : Inside(q)' <=> Inside(q)
    BY <1>1, <2>1 DEF BufferTypeOK, Inside
  <2> QED
    BY <2>1, <2>2, <2>3, ExclusiveKept
<1>3. ASSUME NEW p \in Procs, AttachSem(p) PROVE Exclusive'
  <2>1. /\ pc[p] = "attach" /\ pc' = [pc EXCEPT ![p] = "idle"]
        /\ semId' = [semId EXCEPT ![p] = sem']
        /\ sem # 0 => sem' = sem
        /\ sem = 0 => sem' = semMade + 1
    BY <1>3 DEF AttachSem, Goto
  <2>2. \A q \in Procs : Inside(q)' => Inside(q) /\ semId'[q] = semId[q]
    BY <1>1, <2>1 DEF BufferTypeOK, Inside
  <2>3. CASE p = Producer
    <3>1. val' = 1 /\ (\A q \in Procs : adj'[q] = 0)
          /\ (~raced' => ~raced /\ \A q \in Procs : ~Inside(q))
      BY <1>3, <2>3 DEF AttachSem, SetsValue
    <3> QED
      BY <2>2, <3>1 DEF Exclusive, Holds
  <2>4. CASE p # Producer
    <3>1. raced' = raced /\ adj' = adj /\ val' = IF sem = 0 THEN 0 ELSE val
      BY <1>3, <2>4 DEF AttachSem, SetsValue
    <3>2. Live' => Live
      BY <1>1, <2>1, <2>4 DEF BufferTypeOK, Live
    <3>3. \A q \in Procs : Inside(q) => Inside(q)' /\ semId'[q] = semId[q]
      BY <1>1, <2>1 DEF BufferTypeOK, Inside
    <3>4. CASE sem # 0
      BY <2>1, <2>2, <3>1, <3>2, <3>3, <3>4, ExclusiveKept
    <3>5. CASE sem = 0
      <4>1. ~Live
        BY <1>1, <3>5 DEF Attached
      <4>2. \A q \in Procs : ~Holds(q)
        BY <1>1, <3>5 DEF Attached, Holds, Inside
      <4>3. \A q \in Procs : ~Holds(q)'
        <5> SUFFICES ASSUME NEW q \in Procs, Holds(q)' PROVE FALSE
          OBVIOUS
        <5>1. semId[q] = semMade + 1
          BY <2>1, <2>2, <3>5 DEF Holds
        <5> QED
          BY <1>1, <5>1 DEF BufferTypeOK, Attached
      <4> QED
        BY <1>1, <3>1, <3>2, <3>5, <4>1, <4>2, <4>3 DEF Exclusive
    <3> QED
      BY <3>4, <3>5
  <2> QED
    BY <2>3, <2>4
<1>4. ASSUME NEW p \in Procs, Crash(p) PROVE Exclusive'
  <2>1. /\ pc' = [pc EXCEPT ![p] = "out"]
        /\ semId' = [semId EXCEPT ![p] = 0]
        /\ val' = (IF val + adj[p] < 0 THEN 0 ELSE val + adj[p])
        /\ adj' = [adj EXCEPT ![p] = 0]
        /\ UNCHANGED <<sem, raced>>
    BY <1>4 DEF Crash, Goto, Undo, history
  <2>2. /\ ~Inside(p)'
        /\ \A q \in Procs \ {p} : (Inside(q)' <=> Inside(q)) /\ semId'[q] = semId[q]
    BY <1>1, <2>1 DEF BufferTypeOK, Inside
  <2>3. Live' => Live
    BY <1>1, <2>1 DEF BufferTypeOK, Live
  <2> SUFFICES ASSUME ~raced PROVE Exclusive'
    BY <2>1 DEF Exclusive
  <2>4. CASE Holds(p)
    <3>1. val = 0 /\ adj[p] = 1 /\ \A q \in Procs : Holds(q) => q = p
      BY <1>1, <2>4 DEF Exclusive
    <3>2. val' = 1
      BY <2>1, <3>1
    <3>3. \A q \in Procs : ~Holds(q)'
      BY <2>1, <2>2, <3>1 DEF Holds
    <3>4. \A q \in Procs : adj'[q] = 0
      <4>1. \A q \in Procs \ {p} : adj[q] = 0
        BY <1>1, <3>1 DEF Exclusive
      <4> QED
        BY <1>1, <2>1, <4>1 DEF BufferTypeOK
    <3> QED
      BY <1>1, <2>1, <2>2, <2>3, <3>2, <3>3, <3>4 DEF Exclusive
  <2>5. CASE ~Holds(p)
    <3>1. adj[p] = 0 /\ val \in {0, 1}
      BY <1>1, <2>5 DEF Exclusive
    <3>2. val' = val
      BY <2>1, <3>1
    <3>3. \A q \in Procs : adj'[q] = adj[q]
      BY <2>1, <3>1
    <3>4. \A q \in Procs : Holds(q)' <=> Holds(q)
      BY <2>1, <2>2, <2>5 DEF Holds
    <3> QED
      BY <1>1, <2>1, <2>2, <2>3, <3>1, <3>2, <3>3, <3>4 DEF Exclusive
  <2> QED
    BY <2>4, <2>5
<1>5. ASSUME NEW p \in Procs, Call(p) PROVE Exclusive'
  <2>1. /\ pc[p] = "idle" /\ pc' = [pc EXCEPT ![p] = "enter"]
        /\ UNCHANGED <<raced, sem, val, adj, semId>>
    BY <1>5 DEF Call, Goto, semVars, history
  <2>2. Live' => Live
    BY <1>1, <2>1 DEF BufferTypeOK, Live
  <2>3. \A q \in Procs : Inside(q)' <=> Inside(q)
    BY <1>1, <2>1 DEF BufferTypeOK, Inside
  <2> QED
    BY <2>1, <2>2, <2>3, ExclusiveKept
<1>6. ASSUME NEW p \in Procs, Enter(p) PROVE Exclusive'
  <2>1. pc[p] = "enter" /\ UNCHANGED <<sem, semId, raced>>
    BY <1>6 DEF Enter, history
  <2>2. CASE semId[p] # sem
    <3>1. pc' = [pc EXCEPT ![p] = "idle"] /\ UNCHANGED <<val, adj>>
      BY <1>6, <2>2 DEF Enter, Goto
    <3>2. Live' => Live
      BY <1>1, <2>1, <3>1 DEF BufferTypeOK, Live
    <3>3. \A q \in Procs : Inside(q)' <=> Inside(q)
      BY <1>1, <2>1, <3>1 DEF BufferTypeOK, Inside
    <3> QED
      BY <2>1, <3>1, <3>2, <3>3, ExclusiveKept
  <2>3. CASE semId[p] = sem
    <3>1. /\ val > 0 /\ val' = val - 1 /\ adj' = [adj EXCEPT ![p] = @ + 1]
          /\ \/ pc' = [pc EXCEPT ![p] = "write"]
             \/ pc' = [pc EXCEPT ![p] = "look"]
      BY <1>6, <2>3 DEF Enter, Goto
    <3>2. /\ Inside(p)' /\ ~Inside(p)
          /\ \A q \in Procs \ {p} : Inside(q)' <=> Inside(q)
      BY <1>1, <2>1, <3>1 DEF BufferTypeOK, Inside
    <3>3. Live' => Live
      BY <1>1, <2>1, <3>1 DEF BufferTypeOK, Live
    <3> SUFFICES ASSUME ~raced PROVE Exclusive'
      BY <2>1 DEF Exclusive
    <3>4. val = 1 /\ val' = 0 /\ \A q \in Procs : ~Holds(q) /\ adj[q] = 0
      <4>1. val = 1
        BY <1>1, <3>1 DEF Exclusive
      <4> QED
        BY <1>1, <3>1, <4>1 DEF Exclusive
    <3>5. adj'[p] = 1 /\ \A q \in Procs \ {p} : adj'[q] = 0
      BY <1>1, <3>1, <3>4 DEF BufferTypeOK
    <3>6. Holds(p)' /\ \A q \in Procs \ {p} : ~Holds(q)'
      BY <2>1, <2>3, <3>2, <3>4 DEF Holds
    <3> QED
      BY <1>1, <2>1, <2>3, <3>2, <3>3, <3>4, <3>5, <3>6 DEF Exclusive
  <2> QED
    BY <2>2, <2>3
<1>7. ASSUME NEW p \in Procs, Release(p) PROVE Exclusive'
  <2>1. /\ pc[p] = "leave" /\ pc' = [pc EXCEPT ![p] = "idle"]
        /\ UNCHANGED <<sem, semId, raced>>
    BY <1>7 DEF Release, Goto, history
  <2>2. /\ Inside(p) /\ ~Inside(p)'
        /\ \A q \in Procs \ {p} : Inside(q)' <=> Inside(q)
    BY <1>1, <2>1 DEF BufferTypeOK, Inside
  <2>3. Live' => Live
    BY <1>1, <2>1 DEF BufferTypeOK, Live
  <2> SUFFICES ASSUME ~raced PROVE Exclusive'
    BY <2>1 DEF Exclusive
  <2>4. CASE semId[p] = sem
    <3>1. val' = val + 1 /\ adj' = [adj EXCEPT ![p] = @ - 1]
      BY <1>7, <2>4 DEF Release
    <3>2. val = 0 /\ adj[p] = 1 /\ \A q \in Procs : Holds(q) => q = p
      <4>1. Holds(p)
        BY <2>2, <2>4 DEF Holds
      <4> QED
        BY <1>1, <4>1 DEF Exclusive
    <3>3. \A q \in Procs \ {p} : adj[q] = 0
      BY <1>1, <3>2 DEF Exclusive
    <3>4. val' = 1 /\ \A q \in Procs : adj'[q] = 0
      BY <1>1, <3>1, <3>2, <3>3 DEF BufferTypeOK
    <3>5. \A q \in Procs : ~Holds(q)'
      BY <2>1, <2>2, <3>2 DEF Holds
    <3> QED
      BY <1>1, <2>1, <2>2, <2>3, <3>4, <3>5 DEF Exclusive
  <2>5. CASE semId[p] # sem
    <3>1. UNCHANGED <<val, adj>>
      BY <1>7, <2>5 DEF Release
    <3>2. \A q \in Procs : Holds(q)' <=> Holds(q)
      BY <2>1, <2>2, <2>5 DEF Holds
    <3> QED
      BY <1>1, <2>1, <2>2, <2>3, <3>1, <3>2 DEF Exclusive
  <2> QED
    BY <2>4, <2>5
<1>8. ASSUME NEW c \in Consumers, Look(c) PROVE Exclusive'
  <2>1. /\ pc[c] = "look"
        /\ \/ pc' = [pc EXCEPT ![c] = "leave"]
           \/ pc' = [pc EXCEPT ![c] = "copy"]
        /\ UNCHANGED <<raced, sem, val, adj, semId>>
    BY <1>8 DEF Look, Goto, semVars, history
  <2>2. Live' => Live
    BY <1>1, <2>1 DEF BufferTypeOK, Live
  <2>3. \A q \in Procs : Inside(q)' <=> Inside(q)
    BY <1>1, <2>1 DEF BufferTypeOK, Inside
  <2> QED
    BY <2>1, <2>2, <2>3, ExclusiveKept
<1>9. ASSUME NEW c \in Consumers, Copy(c) PROVE Exclusive'
  <2>1. /\ pc[c] = "copy" /\ pc' = [pc EXCEPT ![c] = "leave"]
        /\ UNCHANGED <<raced, sem, val, adj, semId>>
    BY <1>9 DEF Copy, Goto, semVars, history
  <2>2. Live' => Live
    BY <1>1, <2>1 DEF BufferTypeOK, Live
  <2>3. \A q \in Procs : Inside(q)' <=> Inside(q)
    BY <1>1, <2>1 DEF BufferTypeOK, Inside
  <2> QED
    BY <2>1, <2>2, <2>3, ExclusiveKept
<1>10. ASSUME NEW c \in Consumers, Detach(c) PROVE Exclusive'
  <2>1. /\ pc[c] = "idle" /\ pc' = [pc EXCEPT ![c] = "out"]
        /\ semId' = [semId EXCEPT ![c] = 0]
        /\ UNCHANGED <<raced, sem, val, adj>>
    BY <1>10 DEF Detach, Goto, semVars, history
  <2>2. Live' => Live
    BY <1>1, <2>1 DEF BufferTypeOK, Live
  <2>3. \A q \in Procs : /\ Inside(q)' <=> Inside(q)
                         /\ Inside(q) => semId'[q] = semId[q]
    BY <1>1, <2>1 DEF BufferTypeOK, Inside
  <2> QED
    BY <2>1, <2>2, <2>3, ExclusiveKept
<1>11. ASSUME NEW from \in {"write", "fill"}, NEW packet, NEW to \in {"fill", "advance"},
              Fill(from, packet, to)
       PROVE  Exclusive'
  <2>1. /\ pc[Producer] = from /\ pc' = [pc EXCEPT ![Producer] = to]
        /\ UNCHANGED <<raced, sem, val, adj, semId>>
    BY <1>11 DEF Fill, Goto, semVars, history
  <2>2. Live' => Live
    BY <1>1, <2>1 DEF BufferTypeOK, Live
  <2>3. \A q \in Procs : Inside(q)' <=> Inside(q)
    BY <1>1, <2>1 DEF BufferTypeOK, Inside
  <2> QED
    BY <2>1, <2>2, <2>3, ExclusiveKept
<1>12. ASSUME Advance PROVE Exclusive'
  <2>1. /\ pc[Producer] = "advance" /\ pc' = [pc EXCEPT ![Producer] = "leave"]
        /\ UNCHANGED <<raced, sem, val, adj, semId>>
    BY <1>12 DEF Advance, Goto, semVars, history
  <2>2. Live' => Live
    BY <1>1, <2>1 DEF BufferTypeOK, Live
  <2>3. \A q \in Procs : Inside(q)' <=> Inside(q)
    BY <1>1, <2>1 DEF BufferTypeOK, Inside
  <2> QED
    BY <2>1, <2>2, <2>3, ExclusiveKept
<1>13. ASSUME DetachSem PROVE Exclusive'
  <2>1. /\ pc[Producer] = "idle" /\ pc' = [pc EXCEPT ![Producer] = "detach"]
        /\ sem' = 0 /\ val' = 0 /\ adj' = [q \in Procs |-> 0] /\ UNCHANGED semId
    BY <1>13 DEF DetachSem, Goto
  <2>2. ~Live' /\ \A q \in Procs : ~Holds(q)'
    BY <1>1, <2>1 DEF BufferTypeOK, Attached, Live, Holds, Inside
  <2>3. \A q \in Procs : adj'[q] = 0
    BY <2>1
  <2> QED
    BY <2>1, <2>2, <2>3 DEF Exclusive
<1>14. ASSUME DetachMem PROVE Exclusive'
  <2>1. /\ pc[Producer] = "detach" /\ pc' = [pc EXCEPT ![Producer] = "out"]
        /\ semId' = [semId EXCEPT ![Producer] = 0]
        /\ UNCHANGED <<raced, sem, val, adj>>
    BY <1>14 DEF DetachMem, Goto, semVars, history
  <2>2. ~Live'
    BY <1>1, <2>1 DEF BufferTypeOK, Live
  <2>3. \A q \in Procs : /\ Inside(q)' <=> Inside(q)
                         /\ Inside(q) => semId'[q] = semId[q]
    BY <1>1, <2>1 DEF BufferTypeOK, Inside
  <2> QED
    BY <2>1, <2>2, <2>3, ExclusiveKept
<1> QED
  BY <1>2, <1>3, <1>4, <1>5, <1>6, <1>7, <1>8, <1>9, <1>10, <1>11, <1>12, <1>13,
     <1>14, BufferSteps

-----------------------------------------------------------------------------
\* The segments are left alone, and nobody enters.
LEMMA PreparedKept ==
  ASSUME BufferInv, UNCHANGED <<shm, shmMade, mem, sem, val>>, raced' = raced,
         pc'[Producer] # "out" => pc[Producer] # "out",
         pc'[Producer] = "detach" => pc[Producer] = "detach",
         \A p \in Procs : Inside(p)' => /\ Inside(p) /\ semId'[p] = semId[p]
                                        /\ shmId'[p] = shmId[p]
  PROVE  Prepared'
BY DEF BufferInv, Prepared, Holds, Offset

\* Only the offsets of the segments matter, not what is in them.
LEMMA OffsetsKept ==
  ASSUME BufferTypeOK, NEW s \in Ids, NEW i, NEW v,
         mem' = [mem EXCEPT ![s].ring[i] = v]
  PROVE  \A t \in Ids : Offset(t)' = Offset(t)
BY DEF BufferTypeOK, Offset

LEMMA PreparedStays ==
  ASSUME BufferInv, BufferNext
  PROVE  Prepared'
<1> USE WhoIsWho, SizeIsNat
<1>1. BufferTypeOK /\ Attached /\ Exclusive /\ Prepared
  BY DEF BufferInv
<1>2. MaxMade \in Nat
  BY BufferAssumption DEF BufferAssumption
<1>3. ASSUME NEW p \in Procs, AttachMem(p) PROVE Prepared'
  <2>1. /\ pc[p] = "out" /\ pc' = [pc EXCEPT ![p] = "attach"]
        /\ shmId' = [shmId EXCEPT ![p] = shm']
        /\ UNCHANGED <<raced, sem, val, semId>>
    BY <1>3 DEF AttachMem, Goto, semVars
  <2>2. \A q \in Procs : Inside(q)' => /\ Inside(q) /\ semId'[q] = semId[q]
                                       /\ shmId'[q] = shmId[q]
    BY <1>1, <2>1 DEF BufferTypeOK, Inside
  <2>3. /\ shm' \in Ids /\ shm' # 0
        /\ shm # 0 => shm' = shm /\ shmMade' = shmMade
        /\ shm = 0 => shm' = shmMade + 1 /\ shmMade' = shmMade + 1
    BY <1>3, SegmentMade
  <2>4. CASE p = Producer
    <3>1. mem' = [mem EXCEPT ![shm'].offset = 0]
      BY <1>3, <2>4 DEF AttachMem
    <3>2. /\ mem'[shm'].offset = 0
          /\ \A s \in Ids : s # shm' => mem'[s].offset = mem[s].offset
      BY <1>1, <2>3, <3>1 DEF BufferTypeOK
    <3>3. Offset(shm)' # Unset
      BY <3>2 DEF Offset, Unset
    <3>4. \A s \in 1..shmMade' : s # shm' => Offset(s)' # Unset
      <4> SUFFICES ASSUME NEW s \in 1..shmMade', s # shm' PROVE mem'[s].offset # Unset
        BY DEF Offset
      <4>1. s \in 1..shmMade /\ s # shm /\ s \in Ids
        BY <1>1, <1>2, <2>3 DEF BufferTypeOK, Ids
      <4> QED
        BY <1>1, <3>2, <4>1 DEF Prepared, Offset
    <3>5. ~raced => \A q \in Procs : Inside(q)' => Offset(shmId[q])' # Unset
      <4> SUFFICES ASSUME ~raced, NEW q \in Procs, Inside(q)'
                   PROVE  mem'[shmId'[q]].offset # Unset
        BY DEF Offset
      <4>1. mem[shmId[q]].offset # Unset /\ shmId'[q] = shmId[q] /\ pc[q] # "out"
        BY <1>1, <2>2 DEF Prepared, Offset, Inside
      <4>2. shmId[q] \in Ids
        BY <1>1, <1>2, <4>1 DEF Attached, BufferTypeOK, Ids
      <4> QED
        BY <3>2, <4>1, <4>2 DEF Unset
    <3>6. pc'[Producer] = "attach"
      BY <1>1, <2>1, <2>4 DEF BufferTypeOK
    <3> QED
      BY <2>1, <2>3, <3>3, <3>4, <3>5, <3>6 DEF Prepared
  <2>5. CASE p # Producer
    <3>1. mem' = mem
      BY <1>3, <2>5 DEF AttachMem
    <3>2. pc'[Producer] = pc[Producer]
      BY <1>1, <2>1, <2>5 DEF BufferTypeOK
    <3>3. CASE shm # 0
      <4>1. UNCHANGED <<shm, shmMade, mem, sem, val>>
        BY <2>1, <2>3, <3>1, <3>3
      <4> QED
        BY <2>1, <2>2, <3>2, <4>1, PreparedKept
    <3>4. CASE shm = 0
      <4>1. \A s \in 1..shmMade' : s # shm' => Offset(s)' # Unset
        BY <1>1, <2>3, <3>1, <3>4 DEF BufferTypeOK, Prepared, Offset
      <4>2. pc[Producer] = "out"
        BY <1>1, <3>4 DEF Attached
      <4>3. ~raced => val = 0 /\ \A q \in Procs : ~Holds(q)'
        BY <1>1, <2>1, <2>2, <3>4 DEF Prepared, Holds
      <4>4. ~raced => \A q \in Procs : Inside(q)' => Offset(shmId[q])' # Unset
        BY <1>1, <2>2, <3>1 DEF Prepared, Offset
      <4> QED
        BY <2>1, <3>2, <4>1, <4>2, <4>3, <4>4 DEF Prepared
    <3> QED
      BY <3>3, <3>4
  <2> QED
    BY <2>4, <2>5
<1>4. ASSUME NEW p \in Procs, AttachSem(p) PROVE Prepared'
  <2>1. /\ pc[p] = "attach" /\ pc' = [pc EXCEPT ![p] = "idle"]
        /\ semId' = [semId EXCEPT ![p] = sem']
        /\ UNCHANGED <<shm, shmMade, mem, shmId>>
        /\ sem # 0 => sem' = sem
        /\ sem = 0 => sem' = semMade + 1
    BY <1>4 DEF AttachSem, Goto, memVars
  <2>2. \A q \in Procs : Inside(q)' => /\ Inside(q) /\ semId'[q] = semId[q]
                                       /\ shmId'[q] = shmId[q]
    BY <1>1, <2>1 DEF BufferTypeOK, Inside
  <2>3. ~raced' => ~raced
    BY <1>4 DEF AttachSem
  <2>4. ~raced' => \A q \in Procs : Inside(q)' => Offset(shmId[q])' # Unset
    BY <1>1, <2>1, <2>2, <2>3 DEF Prepared, Offset
  <2>5. CASE p = Producer
    <3>1. pc'[Producer] = "idle" /\ shm' # 0 /\ Offset(shm)' # Unset
      BY <1>1, <2>1, <2>5 DEF BufferTypeOK, Attached, Prepared, Offset
    <3>2. \A s \in 1..shmMade' : s # shm' => Offset(s)' # Unset
      BY <1>1, <2>1 DEF Prepared, Offset
    <3> QED
      BY <2>4, <3>1, <3>2 DEF Prepared
  <2>6. CASE p # Producer
    <3>1. raced' = raced /\ val' = (IF sem = 0 THEN 0 ELSE val)
      BY <1>4, <2>6 DEF AttachSem, SetsValue
    <3>2. pc'[Producer] = pc[Producer]
      BY <1>1, <2>1, <2>6 DEF BufferTypeOK
    <3>3. CASE sem # 0
      BY <2>1, <2>2, <3>1, <3>2, <3>3, PreparedKept
    <3>4. CASE sem = 0
      <4>1. \A q \in Procs : ~Holds(q)'
        <5> SUFFICES ASSUME NEW q \in Procs, Holds(q)' PROVE FALSE
          OBVIOUS
        <5>1. semId[q] = semMade + 1
          BY <2>1, <2>2, <3>4 DEF Holds
        <5> QED
          BY <1>1, <5>1 DEF BufferTypeOK, Attached
      <4>2. \A s \in 1..shmMade' : s # shm' => Offset(s)' # Unset
        BY <1>1, <2>1 DEF Prepared, Offset
      <4>3. pc'[Producer] # "out" => Offset(shm)' # Unset
        BY <1>1, <2>1, <3>2 DEF Prepared, Offset
      <4> QED
        BY <2>4, <3>1, <3>4, <4>1, <4>2, <4>3 DEF Prepared
    <3> QED
      BY <3>3, <3>4
  <2> QED
    BY <2>5, <2>6
<1>5. ASSUME NEW p \in Procs, Crash(p) PROVE Prepared'
  <2>1. /\ pc' = [pc EXCEPT ![p] = "out"]
        /\ semId' = [semId EXCEPT ![p] = 0]
        /\ shmId' = [shmId EXCEPT ![p] = 0]
        /\ val' = (IF val + adj[p] < 0 THEN 0 ELSE val + adj[p])
        /\ UNCHANGED <<shm, shmMade, mem, sem, raced>>
    BY <1>5 DEF Crash, Goto, Undo, history, memVars
  <2>2. /\ pc'[Producer] # "out" => pc[Producer] # "out"
        /\ pc'[Producer] = "detach" => pc[Producer] = "detach"
    BY <1>1, <2>1 DEF BufferTypeOK
  <2>3. \A q \in Procs : Inside(q)' => /\ Inside(q) /\ semId'[q] = semId[q]
                                       /\ shmId'[q] = shmId[q]
    BY <1>1, <2>1 DEF BufferTypeOK, Inside
  <2>4. \A q \in Procs : Holds(q)' => Holds(q)
    BY <2>1, <2>3 DEF Holds
  <2>5. ~raced /\ ~Holds(p) => val' = val
    BY <1>1, <2>1 DEF Exclusive
  <2> QED
    BY <1>1, <2>1, <2>2, <2>3, <2>4, <2>5 DEF Prepared, Offset
<1>6. ASSUME NEW p \in Procs, Enter(p) PROVE Prepared'
  <2>1. pc[p] = "enter" /\ UNCHANGED <<shm, shmMade, mem, shmId, sem, semId, raced>>
    BY <1>6 DEF Enter, history, memVars
  <2>2. CASE semId[p] # sem
    <3>1. pc' = [pc EXCEPT ![p] = "idle"] /\ UNCHANGED val
      BY <1>6, <2>2 DEF Enter, Goto
    <3>2. /\ pc'[Producer] # "out" => pc[Producer] # "out"
          /\ pc'[Producer] = "detach" => pc[Producer] = "detach"
          /\ \A q \in Procs : Inside(q)' => Inside(q)
      BY <1>1, <2>1, <3>1 DEF BufferTypeOK, Inside
    <3> QED
      BY <2>1, <3>1, <3>2, PreparedKept
  <2>3. CASE semId[p] = sem
    <3>1. /\ val > 0
          /\ \/ pc' = [pc EXCEPT ![p] = "write"]
             \/ pc' = [pc EXCEPT ![p] = "look"]
      BY <1>6, <2>3 DEF Enter, Goto
    <3>2. /\ pc'[Producer] # "out" => pc[Producer] # "out"
          /\ pc'[Producer] = "detach" => pc[Producer] = "detach"
          /\ \A q \in Procs \ {p} : Inside(q)' => Inside(q)
      BY <1>1, <2>1, <3>1 DEF BufferTypeOK, Inside
    <3>3. shmId[p] \in 1..shmMade
      BY <1>1, <2>1 DEF Attached
    <3>4. ~raced => shm # 0 /\ Offset(shm) # Unset /\ pc[Producer] # "detach"
      BY <1>1, <3>1 DEF Prepared
    <3>5. ~raced => Offset(shmId[p]) # Unset
      BY <1>1, <3>3, <3>4 DEF Prepared
    <3>6. ~raced => \A q \in Procs : Inside(q)' => Offset(shmId[q]) # Unset
      BY <1>1, <3>2, <3>5 DEF Prepared
    <3>7. /\ \A s \in 1..shmMade : s # shm => Offset(s) # Unset
          /\ pc[Producer] # "out" => Offset(shm) # Unset
      BY <1>1 DEF Prepared
    <3> QED
      BY <2>1, <3>2, <3>4, <3>6, <3>7 DEF Prepared, Offset
  <2> QED
    BY <2>2, <2>3
<1>7. ASSUME NEW p \in Procs, Release(p) PROVE Prepared'
  <2>1. /\ pc[p] = "leave" /\ pc' = [pc EXCEPT ![p] = "idle"]
        /\ UNCHANGED <<shm, shmMade, mem, shmId, sem, semId, raced>>
    BY <1>7 DEF Release, Goto, history, memVars
  <2>2. /\ Inside(p)
        /\ pc'[Producer] # "out" => pc[Producer] # "out"
        /\ pc'[Producer] = "detach" => pc[Producer] = "detach"
        /\ \A q \in Procs : Inside(q)' => Inside(q)
    BY <1>1, <2>1 DEF BufferTypeOK, Inside
  <2>3. CASE semId[p] = sem
    <3>1. Holds(p)
      BY <2>2, <2>3 DEF Holds
    <3>2. ~raced => shm # 0 /\ Offset(shm) # Unset /\ pc[Producer] # "detach"
      BY <1>1, <3>1 DEF Prepared
    <3> QED
      BY <1>1, <2>1, <2>2, <3>2 DEF Prepared, Offset
  <2>4. CASE semId[p] # sem
    <3>1. UNCHANGED val
      BY <1>7, <2>4 DEF Release
    <3> QED
      BY <2>1, <2>2, <3>1, PreparedKept
  <2> QED
    BY <2>3, <2>4
<1>8. ASSUME NEW p \in Procs, Call(p) PROVE Prepared'
  <2>1. /\ pc[p] = "idle" /\ pc' = [pc EXCEPT ![p] = "enter"]
        /\ UNCHANGED <<shm, shmMade, mem, raced, sem, val, shmId, semId>>
    BY <1>8 DEF Call, Goto, memVars, semVars, history
  <2>2. /\ pc'[Producer] # "out" => pc[Producer] # "out"
        /\ pc'[Producer] = "detach" => pc[Producer] = "detach"
        /\ \A q \in Procs : Inside(q)' => Inside(q)
    BY <1>1, <2>1 DEF BufferTypeOK, Inside
  <2> QED
    BY <2>1, <2>2, PreparedKept
<1>9. ASSUME NEW c \in Consumers, Look(c) PROVE Prepared'
  <2>1. /\ pc[c] = "look"
        /\ \/ pc' = [pc EXCEPT ![c] = "leave"]
           \/ pc' = [pc EXCEPT ![c] = "copy"]
        /\ UNCHANGED <<shm, shmMade, mem, raced, sem, val, shmId, semId>>
    BY <1>9 DEF Look, Goto, memVars, semVars, history
  <2>2. /\ pc'[Producer] = pc[Producer]
        /\ \A q \in Procs : Inside(q)' => Inside(q)
    BY <1>1, <2>1 DEF BufferTypeOK, Inside
  <2> QED
    BY <2>1, <2>2, PreparedKept
<1>10. ASSUME NEW c \in Consumers, Copy(c) PROVE Prepared'
  <2>1. /\ pc[c] = "copy" /\ pc' = [pc EXCEPT ![c] = "leave"]
        /\ UNCHANGED <<shm, shmMade, mem, raced, sem, val, shmId, semId>>
    BY <1>10 DEF Copy, Goto, memVars, semVars, history
  <2>2. /\ pc'[Producer] = pc[Producer]
        /\ \A q \in Procs : Inside(q)' => Inside(q)
    BY <1>1, <2>1 DEF BufferTypeOK, Inside
  <2> QED
    BY <2>1, <2>2, PreparedKept
<1>11. ASSUME NEW c \in Consumers, Detach(c) PROVE Prepared'
  <2>1. /\ pc[c] = "idle" /\ pc' = [pc EXCEPT ![c] = "out"]
        /\ semId' = [semId EXCEPT ![c] = 0]
        /\ shmId' = [shmId EXCEPT ![c] = 0]
        /\ UNCHANGED <<shm, shmMade, mem, raced, sem, val>>
    BY <1>11 DEF Detach, Goto, memVars, semVars, history
  <2>2. /\ pc'[Producer] = pc[Producer]
        /\ \A q \in Procs : Inside(q)' => /\ Inside(q) /\ semId'[q] = semId[q]
                                          /\ shmId'[q] = shmId[q]
    BY <1>1, <2>1 DEF BufferTypeOK, Inside
  <2> QED
    BY <2>1, <2>2, PreparedKept
<1>12. ASSUME NEW from \in {"write", "fill"}, NEW packet, NEW to \in {"fill", "advance"},
              Fill(from, packet, to)
       PROVE  Prepared'
  <2>1. /\ pc[Producer] = from /\ pc' = [pc EXCEPT ![Producer] = to]
        /\ mem' = [mem EXCEPT ![shmId[Producer]].ring[mem[shmId[Producer]].offset] = packet]
        /\ UNCHANGED <<shm, shmMade, raced, sem, val, shmId, semId>>
    BY <1>12 DEF Fill, Goto, semVars, history
  <2>2. /\ pc[Producer] # "out" /\ pc'[Producer] # "detach"
        /\ \A q \in Procs : Inside(q)' <=> Inside(q)
    BY <1>1, <2>1 DEF BufferTypeOK, Inside
  <2>3. shmId[Producer] = shm /\ shm # 0
    BY <1>1, <2>2 DEF Attached
  <2>4. shm \in Ids /\ 1..shmMade \subseteq Ids
    BY <1>1, <1>2, <2>3 DEF BufferTypeOK, Ids
  <2>5. \A t \in Ids : Offset(t)' = Offset(t)
    BY <1>1, <2>1, <2>3, <2>4, OffsetsKept
  <2>6. \A q \in Procs : Inside(q) => shmId[q] \in 1..shmMade
    BY <1>1 DEF Attached, Inside
  <2>7. \A q \in Procs : Inside(q) => mem'[shmId[q]].offset = mem[shmId[q]].offset
    BY <2>4, <2>5, <2>6 DEF Offset
  <2>8. mem'[shm].offset = mem[shm].offset /\ mem[shm].offset # Unset
    BY <1>1, <2>2, <2>4, <2>5 DEF Prepared, Offset
  <2>9. \A s \in 1..shmMade' : s # shm' => mem'[s].offset # Unset
    BY <1>1, <2>1, <2>4, <2>5 DEF Prepared, Offset
  <2> QED
    BY <1>1, <2>1, <2>2, <2>3, <2>7, <2>8, <2>9 DEF Prepared, Offset
<1>13. ASSUME Advance PROVE Prepared'
  <2>1. /\ pc[Producer] = "advance" /\ pc' = [pc EXCEPT ![Producer] = "leave"]
        /\ mem' = [mem EXCEPT ![shmId[Producer]].offset = NextCell(@)]
        /\ UNCHANGED <<shm, shmMade, raced, sem, val, shmId, semId>>
    BY <1>13 DEF Advance, Goto, semVars, history
  <2>2. /\ pc[Producer] # "out" /\ pc'[Producer] # "detach"
        /\ \A q \in Procs : Inside(q)' <=> Inside(q)
    BY <1>1, <2>1 DEF BufferTypeOK, Inside
  <2>3. shmId[Producer] = shm /\ shm # 0
    BY <1>1, <2>2 DEF Attached
  <2>4. shm \in Ids /\ 1..shmMade \subseteq Ids
    BY <1>1, <1>2, <2>3 DEF BufferTypeOK, Ids
  <2>5. NextCell(mem[shm].offset) # Unset
    <3>1. mem[shm].offset + 1 \in Nat
      BY <1>1, <2>4 DEF BufferTypeOK
    <3>2. NextCell(mem[shm].offset) \in Cells
      BY <3>1, ModRange DEF NextCell
    <3> QED
      BY <3>2 DEF Cells, Unset
  <2>6. /\ mem'[shm].offset # Unset
        /\ \A s \in Ids : s # shm => mem'[s].offset = mem[s].offset
    BY <1>1, <2>1, <2>3, <2>4, <2>5 DEF BufferTypeOK
  <2>7. \A q \in Procs : Inside(q) => shmId[q] \in Ids
    BY <1>1, <2>4 DEF Attached, Inside
  <2>8. ~raced => \A q \in Procs : Inside(q)' => mem'[shmId[q]].offset # Unset
    BY <1>1, <2>2, <2>6, <2>7 DEF Prepared, Offset
  <2>9. \A s \in 1..shmMade : s # shm => mem'[s].offset # Unset
    BY <1>1, <2>4, <2>6 DEF Prepared, Offset
  <2> QED
    BY <2>1, <2>2, <2>3, <2>6, <2>8, <2>9 DEF Prepared, Offset
<1>14. ASSUME DetachSem PROVE Prepared'
  <2>1. /\ pc[Producer] = "idle" /\ pc' = [pc EXCEPT ![Producer] = "detach"]
        /\ sem' = 0 /\ val' = 0
        /\ UNCHANGED <<shm, shmMade, mem, raced, shmId, semId>>
    BY <1>14 DEF DetachSem, Goto, memVars, history
  <2>2. \A q \in Procs : Inside(q)' => Inside(q)
    BY <1>1, <2>1 DEF BufferTypeOK, Inside
  <2>3. \A q \in Procs : ~Holds(q)'
    BY <1>1, <2>1, <2>2 DEF Attached, Holds, Inside
  <2> QED
    BY <1>1, <2>1, <2>2, <2>3 DEF Prepared, Offset
<1>15. ASSUME DetachMem PROVE Prepared'
  <2>1. /\ pc[Producer] = "detach" /\ pc' = [pc EXCEPT ![Producer] = "out"]
        /\ shm' = 0
        /\ semId' = [semId EXCEPT ![Producer] = 0]
        /\ shmId' = [shmId EXCEPT ![Producer] = 0]
        /\ UNCHANGED <<shmMade, mem, raced, sem, val>>
    BY <1>15 DEF DetachMem, Goto, semVars, history
  <2>2. \A q \in Procs : Inside(q)' => /\ Inside(q) /\ semId'[q] = semId[q]
                                       /\ shmId'[q] = shmId[q]
    BY <1>1, <2>1 DEF BufferTypeOK, Inside
  <2>3. ~raced => val = 0 /\ \A q \in Procs : ~Holds(q)
    BY <1>1, <2>1 DEF Prepared
  <2>4. \A s \in 1..shmMade : Offset(s) # Unset
    BY <1>1, <2>1 DEF Prepared
  <2>5. pc'[Producer] = "out"
    BY <1>1, <2>1 DEF BufferTypeOK
  <2> QED
    BY <1>1, <2>1, <2>2, <2>3, <2>4, <2>5 DEF Prepared, Offset, Holds
<1> QED
  BY <1>3, <1>4, <1>5, <1>6, <1>7, <1>8, <1>9, <1>10, <1>11, <1>12, <1>13,
     <1>14, <1>15, BufferSteps

-----------------------------------------------------------------------------
\* A segment nobody writes to and whose consumers stay where they are.
LEMMA HistoryKept ==
  ASSUME NEW s, NEW b \in Nat, NEW n \in Nat, History(s, b, n),
         mem'[s] = mem[s], ~raced' => ~raced,
         \A c \in Consumers : sound'[c] /\ pc'[c] # "out" /\ shmId'[c] = s =>
           \/ /\ sound[c] /\ pc[c] # "out" /\ shmId[c] = s
              /\ rd'[c] = rd[c] /\ last'[c] = last[c]
              /\ pc'[c] = "copy" => pc[c] = "copy" \/ rd[c] # Offset(s)
           \/ /\ \E m \in 0..n : Follows(c, b, m)'
              /\ pc'[c] # "copy"
  PROVE  History(s, b, n)'
<1>1. Offset(s)' = Offset(s) /\ Ring(s)' = Ring(s)
  BY DEF Offset, Ring
<1>2. Era(s, b, n)'
  BY <1>1 DEF History, Era
<1>3. ASSUME ~raced', NEW c \in Consumers, sound'[c], pc'[c] # "out", shmId'[c] = s
      PROVE  /\ \E m \in 0..n : Follows(c, b, m)'
             /\ pc'[c] = "copy" => rd'[c] # Offset(s)'
  <2>1. CASE /\ sound[c] /\ pc[c] # "out" /\ shmId[c] = s
             /\ rd'[c] = rd[c] /\ last'[c] = last[c]
             /\ pc'[c] = "copy" => pc[c] = "copy" \/ rd[c] # Offset(s)
    <3>1. PICK m \in 0..n : Follows(c, b, m)
      BY <1>3, <2>1 DEF History
    <3>2. Follows(c, b, m)'
      BY <2>1, <3>1 DEF Follows
    <3>3. pc'[c] = "copy" => rd[c] # Offset(s)
      BY <1>3, <2>1 DEF History
    <3> QED
      BY <1>1, <2>1, <3>2, <3>3
  <2>2. CASE (\E m \in 0..n : Follows(c, b, m)') /\ pc'[c] # "copy"
    BY <2>2
  <2> QED
    BY <1>3, <2>1, <2>2
<1> QED
  BY <1>2, <1>3 DEF History

\* The segments stay, and the consumers stay where they are.
LEMMA OrderedKept ==
  ASSUME BufferInv, UNCHANGED <<shm, shmMade, mem, count, base, sound>>, ~raced' => ~raced,
         pc'[Producer] = "advance" => pc[Producer] = "advance",
         \A c \in Consumers : pc'[c] # "out" =>
           /\ pc[c] # "out" /\ shmId'[c] = shmId[c]
           /\ rd'[c] = rd[c] /\ last'[c] = last[c]
           /\ pc'[c] = "copy" => pc[c] = "copy" \/ rd[c] # Offset(shmId[c])
  PROVE  Ordered'
<1>1. Ordered
  BY DEF BufferInv
<1>2. ASSUME NEW s, NEW b \in Nat, NEW n \in Nat, History(s, b, n)
      PROVE  History(s, b, n)'
  BY <1>2, HistoryKept
<1>3. ASSUME NEW s \in 1..shmMade
      PROVE  /\ Offset(s)' = Offset(s) /\ Ring(s)' = Ring(s)
             /\ s = shm /\ Offset(s) = Unset /\ ~raced' =>
                  \A c \in Consumers :
                    pc'[c] # "out" /\ shmId'[c] = s => rd'[c] = 0 /\ last'[c] = 0
  BY <1>1 DEF Ordered, Offset, Ring
<1>4. \A s \in Ids : s > shmMade' => Offset(s)' = Unset
  BY <1>1 DEF Ordered, Offset
<1>5. ASSUME NEW s \in 1..shmMade'
      PROVE  /\ s = shm' /\ pc'[Producer] = "advance" => Ring(s)'[Offset(s)'] = count' + 1
             /\ s = shm' /\ Offset(s)' # Unset =>
                  \A b, n \in Nat : b = base' /\ b + n = count' => History(s, b, n)'
             /\ s = shm' /\ Offset(s)' = Unset /\ ~raced' =>
                  \A c \in Consumers :
                    pc'[c] # "out" /\ shmId'[c] = s => rd'[c] = 0 /\ last'[c] = 0
             /\ s # shm' => \E b, n \in Nat : History(s, b, n)'
  <2>1. s \in 1..shmMade
    BY <1>5
  <2>2. s = shm' /\ pc'[Producer] = "advance" => Ring(s)'[Offset(s)'] = count' + 1
    BY <1>1, <1>3, <2>1 DEF Ordered
  <2>3. s = shm' /\ Offset(s)' # Unset =>
          \A b, n \in Nat : b = base' /\ b + n = count' => History(s, b, n)'
    BY <1>1, <1>2, <1>3, <2>1 DEF Ordered
  <2>4. s # shm' => \E b, n \in Nat : History(s, b, n)'
    BY <1>1, <1>2, <2>1 DEF Ordered
  <2> QED
    BY <1>3, <2>1, <2>2, <2>3, <2>4
<1> QED
  BY <1>4, <1>5 DEF Ordered

-----------------------------------------------------------------------------
\* The steps that leave the segments and the reading consumers alone.
LEMMA OrderedBySemaphore ==
  ASSUME BufferInv, NEW p \in Procs,
         AttachSem(p) \/ Crash(p) \/ Call(p) \/ Enter(p) \/ Release(p)
  PROVE  Ordered'
<1> USE WhoIsWho
<1>1. BufferTypeOK
  BY DEF BufferInv
<1>2. UNCHANGED <<shm, shmMade, mem, count, base, sound, rd, last>> /\ (~raced' => ~raced)
  <2>1. CASE AttachSem(p)
    <3>1. ~raced' => ~raced
      BY <2>1 DEF AttachSem
    <3> QED
      BY <2>1, <3>1 DEF AttachSem, memVars
  <2>2. CASE Crash(p) \/ Call(p) \/ Enter(p) \/ Release(p)
    BY <2>2 DEF Crash, Call, Enter, Release, memVars, history
  <2> QED
    BY <2>1, <2>2
<1>3. \/ /\ pc[p] # "out" /\ shmId' = shmId
         /\ \E where \in {"idle", "enter", "write", "look"} :
              pc' = [pc EXCEPT ![p] = where]
      \/ pc' = [pc EXCEPT ![p] = "out"] /\ shmId' = [shmId EXCEPT ![p] = 0]
  <2>1. CASE Enter(p)
    BY <2>1 DEF Enter, Goto
  <2>2. CASE AttachSem(p) \/ Crash(p) \/ Call(p) \/ Release(p)
    BY <2>2 DEF AttachSem, Crash, Call, Release, Goto
  <2> QED
    BY <2>1, <2>2
<1>4. pc'[Producer] = "advance" => pc[Producer] = "advance"
  BY <1>1, <1>3 DEF BufferTypeOK
<1>5. \A c \in Consumers : pc'[c] # "out" => /\ pc[c] # "out" /\ shmId'[c] = shmId[c]
                                             /\ pc'[c] = "copy" => pc[c] = "copy"
  BY <1>1, <1>3 DEF BufferTypeOK
<1> QED
  BY <1>2, <1>4, <1>5, OrderedKept

LEMMA OrderedByLook ==
  ASSUME BufferInv, NEW c \in Consumers, Look(c)
  PROVE  Ordered'
<1> USE WhoIsWho
<1>1. BufferTypeOK
  BY DEF BufferInv
<1>2. UNCHANGED <<shm, shmMade, mem, count, base, sound, rd, last, raced, shmId>>
  BY DEF Look, memVars, history
<1>3. /\ pc[c] = "look"
      /\ \/ pc' = [pc EXCEPT ![c] = "leave"]
         \/ pc' = [pc EXCEPT ![c] = "copy"] /\ rd[c] # Offset(shmId[c])
  BY DEF Look, Goto, Offset
<1>4. pc'[Producer] = "advance" => pc[Producer] = "advance"
  BY <1>1, <1>3 DEF BufferTypeOK
<1>5. \A d \in Consumers : pc'[d] # "out" =>
        /\ pc[d] # "out"
        /\ pc'[d] = "copy" => pc[d] = "copy" \/ rd[d] # Offset(shmId[d])
  BY <1>1, <1>3 DEF BufferTypeOK
<1> QED
  BY <1>2, <1>4, <1>5, OrderedKept

LEMMA OrderedByDetach ==
  ASSUME BufferInv, DetachSem \/ \E c \in Consumers : Detach(c)
  PROVE  Ordered'
<1> USE WhoIsWho
<1>1. BufferTypeOK
  BY DEF BufferInv
<1>2. UNCHANGED <<shm, shmMade, mem, count, base, sound, rd, last, raced>>
  BY DEF Detach, DetachSem, memVars, history
<1>3. \/ /\ pc[Producer] = "idle" /\ pc' = [pc EXCEPT ![Producer] = "detach"]
         /\ shmId' = shmId
      \/ \E c \in Consumers : /\ pc' = [pc EXCEPT ![c] = "out"]
                              /\ shmId' = [shmId EXCEPT ![c] = 0]
  BY DEF Detach, DetachSem, Goto
<1>4. pc'[Producer] = "advance" => pc[Producer] = "advance"
  BY <1>1, <1>3 DEF BufferTypeOK
<1>5. \A c \in Consumers : pc'[c] # "out" => /\ pc[c] # "out" /\ shmId'[c] = shmId[c]
                                             /\ pc'[c] = "copy" => pc[c] = "copy"
  BY <1>1, <1>3 DEF BufferTypeOK
<1> QED
  BY <1>2, <1>4, <1>5, OrderedKept

\* The segment under the key becomes one that was removed.
LEMMA OrderedByDetachMem ==
  ASSUME BufferInv, DetachMem
  PROVE  Ordered'
<1> USE WhoIsWho
<1>1. BufferTypeOK /\ Attached /\ Prepared /\ Ordered
  BY DEF BufferInv
<1>2. /\ UNCHANGED <<shmMade, mem, count, base, sound, rd, last, raced>> /\ shm' = 0
      /\ pc[Producer] = "detach" /\ pc' = [pc EXCEPT ![Producer] = "out"]
      /\ shmId' = [shmId EXCEPT ![Producer] = 0]
  BY DEF DetachMem, history, Goto
<1>3. \A c \in Consumers : pc'[c] = pc[c] /\ shmId'[c] = shmId[c]
  BY <1>1, <1>2 DEF BufferTypeOK
<1>4. ASSUME NEW s \in 1..shmMade
      PROVE  \E b, n \in Nat : History(s, b, n)'
  <2>1. \E b, n \in Nat : History(s, b, n)
    <3>1. CASE s = shm
      <4>1. Offset(s) # Unset
        BY <1>1, <1>2, <3>1 DEF Prepared
      <4>2. base \in Nat /\ count - base \in Nat /\ base + (count - base) = count
        BY <1>1 DEF BufferTypeOK
      <4>3. \A b, n \in Nat : b = base /\ b + n = count => History(s, b, n)
        BY <1>1, <3>1, <4>1 DEF Ordered
      <4> QED
        BY <4>2, <4>3
    <3>2. CASE s # shm
      BY <1>1, <3>2 DEF Ordered
    <3> QED
      BY <3>1, <3>2
  <2>2. PICK b \in Nat, n \in Nat : History(s, b, n)
    BY <2>1
  <2>3. History(s, b, n)'
    BY <1>2, <1>3, <2>2, HistoryKept
  <2> QED
    BY <2>3
<1>5. \A s \in Ids : s > shmMade' => Offset(s)' = Unset
  BY <1>1, <1>2 DEF Ordered, Offset
<1>6. \A s \in 1..shmMade' : s # shm'
  BY <1>2
<1> QED
  BY <1>2, <1>4, <1>5, <1>6 DEF Ordered

-----------------------------------------------------------------------------
\* A segment that the producer does not touch: what it was, or new.
LEMMA OrderedByConsumer ==
  ASSUME BufferInv, NEW p \in Consumers, AttachMem(p)
  PROVE  Ordered'
<1> USE WhoIsWho
<1>1. BufferTypeOK /\ Attached /\ Ordered
  BY DEF BufferInv
<1>2. /\ pc[p] = "out" /\ pc' = [pc EXCEPT ![p] = "attach"]
      /\ shmId' = [shmId EXCEPT ![p] = shm']
      /\ rd' = [rd EXCEPT ![p] = 0] /\ last' = [last EXCEPT ![p] = 0]
      /\ sound' = [sound EXCEPT ![p] = TRUE]
      /\ UNCHANGED <<mem, base, count, raced>>
  BY DEF AttachMem, Goto
<1>3. /\ shm' \in Ids /\ shm' # 0
      /\ shm # 0 => shm' = shm /\ shmMade' = shmMade
      /\ shm = 0 => shm' = shmMade + 1 /\ shmMade' = shmMade + 1
  BY SegmentMade
<1>4. /\ pc'[p] = "attach" /\ shmId'[p] = shm' /\ rd'[p] = 0 /\ last'[p] = 0
      /\ pc'[Producer] = pc[Producer]
      /\ \A c \in Consumers \ {p} :
           /\ pc'[c] = pc[c] /\ shmId'[c] = shmId[c] /\ rd'[c] = rd[c]
           /\ last'[c] = last[c]
  BY <1>1, <1>2 DEF BufferTypeOK
<1>5. \A c \in Consumers \ {p} : sound'[c] = sound[c]
  BY <1>1, <1>2 DEF BufferTypeOK
<1>6. ASSUME NEW b \in Nat, NEW n \in Nat
      PROVE  \E m \in 0..n : Follows(p, b, m)'
  <2>1. 0 \in 0..n /\ rd'[p] = 0 % Size /\ last'[p] <= b
    BY <1>4, ModZero
  <2> QED
    BY <2>1 DEF Follows
<1>7. ASSUME NEW s, NEW b \in Nat, NEW n \in Nat, History(s, b, n)
      PROVE  History(s, b, n)'
  <2>1. \A c \in Consumers : pc'[c] # "copy" \/ pc[c] = "copy"
    BY <1>4
  <2>2. \E m \in 0..n : Follows(p, b, m)'
    BY <1>6
  <2>3. ASSUME NEW c \in Consumers, sound'[c] /\ pc'[c] # "out" /\ shmId'[c] = s
        PROVE  \/ /\ sound[c] /\ pc[c] # "out" /\ shmId[c] = s
                  /\ rd'[c] = rd[c] /\ last'[c] = last[c]
                  /\ pc'[c] = "copy" => pc[c] = "copy" \/ rd[c] # Offset(s)
               \/ /\ \E m \in 0..n : Follows(c, b, m)'
                  /\ pc'[c] # "copy"
    <3>1. CASE c = p
      BY <1>4, <2>2, <3>1
    <3>2. CASE c # p
      <4>1. c \in Consumers \ {p}
        BY <3>2
      <4> QED
        BY <1>4, <1>5, <2>3, <4>1
    <3> QED
      BY <3>1, <3>2
  <2>4. mem'[s] = mem[s] /\ (~raced' => ~raced)
    BY <1>2
  <2> QED
    BY <1>7, <2>3, <2>4, HistoryKept
<1>8. ASSUME NEW s \in 1..shmMade', s # shm'
      PROVE  \E b, n \in Nat : History(s, b, n)'
  <2>1. s \in 1..shmMade /\ s # shm
    BY <1>1, <1>3, <1>8 DEF BufferTypeOK
  <2>2. PICK b \in Nat, n \in Nat : History(s, b, n)
    BY <1>1, <2>1 DEF Ordered
  <2> QED
    BY <1>7, <2>2
<1>9. ASSUME NEW s \in 1..shmMade', s = shm', shm # 0
      PROVE  /\ pc'[Producer] = "advance" => Ring(s)'[Offset(s)'] = count' + 1
             /\ Offset(s)' # Unset =>
                  \A b, n \in Nat : b = base' /\ b + n = count' => History(s, b, n)'
             /\ Offset(s)' = Unset /\ ~raced' =>
                  \A c \in Consumers :
                    pc'[c] # "out" /\ shmId'[c] = s => rd'[c] = 0 /\ last'[c] = 0
  <2>1. s \in 1..shmMade /\ s = shm
    BY <1>3, <1>9
  <2>2. Offset(s)' = Offset(s) /\ Ring(s)' = Ring(s)
    BY <1>2 DEF Offset, Ring
  <2>3. pc'[Producer] = "advance" => Ring(s)'[Offset(s)'] = count' + 1
    BY <1>1, <1>2, <1>4, <2>1, <2>2 DEF Ordered
  <2>4. Offset(s)' # Unset =>
          \A b, n \in Nat : b = base' /\ b + n = count' => History(s, b, n)'
    BY <1>1, <1>2, <1>7, <2>1, <2>2 DEF Ordered
  <2>5. ASSUME Offset(s)' = Unset, ~raced', NEW c \in Consumers, pc'[c] # "out", shmId'[c] = s
        PROVE  rd'[c] = 0 /\ last'[c] = 0
    <3>1. CASE c = p
      BY <1>4, <3>1
    <3>2. CASE c # p
      <4>1. pc[c] # "out" /\ shmId[c] = s
        BY <1>4, <2>5, <3>2
      <4>2. rd[c] = 0 /\ last[c] = 0
        BY <1>1, <1>2, <2>1, <2>2, <2>5, <4>1 DEF Ordered
      <4> QED
        BY <1>4, <3>2, <4>2
    <3> QED
      BY <3>1, <3>2
  <2> QED
    BY <2>3, <2>4, <2>5
<1>10. ASSUME NEW s \in 1..shmMade', s = shm', shm = 0
       PROVE  /\ pc'[Producer] = "out"
              /\ Offset(s)' = Unset
              /\ \A c \in Consumers :
                   pc'[c] # "out" /\ shmId'[c] = s => rd'[c] = 0 /\ last'[c] = 0
  <2>1. s \in Ids /\ s > shmMade
    BY <1>1, <1>3, <1>10 DEF BufferTypeOK
  <2>2. Offset(s)' = Unset
    BY <1>1, <1>2, <2>1 DEF Ordered, Offset
  <2>3. ASSUME NEW c \in Consumers, pc'[c] # "out", shmId'[c] = s PROVE c = p
    <3> SUFFICES ASSUME c # p PROVE FALSE
      OBVIOUS
    <3>1. pc[c] # "out" /\ shmId[c] = s
      BY <1>4, <2>3
    <3>2. shmId[c] \in 1..shmMade
      BY <1>1, <3>1 DEF Attached
    <3> QED
      BY <1>1, <2>1, <3>1, <3>2 DEF BufferTypeOK
  <2>4. pc[Producer] = "out"
    BY <1>1, <1>10 DEF Attached
  <2> QED
    BY <1>4, <2>2, <2>3, <2>4
<1>11. \A s \in Ids : s > shmMade' => Offset(s)' = Unset
  <2>1. \A s \in Ids : s > shmMade' => s > shmMade
    BY <1>1, <1>3 DEF Ids, BufferTypeOK
  <2> QED
    BY <1>1, <1>2, <2>1 DEF Ordered, Offset
<1>12. ASSUME NEW s \in 1..shmMade'
       PROVE  /\ s = shm' /\ pc'[Producer] = "advance" => Ring(s)'[Offset(s)'] = count' + 1
              /\ s = shm' /\ Offset(s)' # Unset =>
                   \A b, n \in Nat : b = base' /\ b + n = count' => History(s, b, n)'
              /\ s = shm' /\ Offset(s)' = Unset /\ ~raced' =>
                   \A c \in Consumers :
                     pc'[c] # "out" /\ shmId'[c] = s => rd'[c] = 0 /\ last'[c] = 0
              /\ s # shm' => \E b, n \in Nat : History(s, b, n)'
  <2>1. CASE s # shm'
    BY <1>8, <2>1
  <2>2. CASE s = shm' /\ shm # 0
    BY <1>9, <2>2
  <2>3. CASE s = shm' /\ shm = 0
    <3>1. pc'[Producer] = "out" /\ Offset(s)' = Unset
      BY <1>10, <2>3
    <3> QED
      BY <1>10, <2>3, <3>1
  <2> QED
    BY <2>1, <2>2, <2>3
<1> QED
  BY <1>11, <1>12 DEF Ordered

\* A producer comes: the packets are counted from here, and whoever stays in
\* sound stands at the first slot.
LEMMA OrderedByProducer ==
  ASSUME BufferInv, AttachMem(Producer)
  PROVE  Ordered'
<1> USE WhoIsWho
<1>1. BufferTypeOK /\ Attached /\ Ordered
  BY DEF BufferInv
<1>2. /\ pc[Producer] = "out" /\ pc' = [pc EXCEPT ![Producer] = "attach"]
      /\ shmId' = [shmId EXCEPT ![Producer] = shm']
      /\ mem' = [mem EXCEPT ![shm'].offset = 0]
      /\ base' = count
      /\ UNCHANGED <<rd, last, count, raced>>
  BY DEF AttachMem, Goto
<1>3. \A c \in Consumers : sound'[c] => sound[c] /\ ~ThrownOff(c)
  BY DEF AttachMem
<1>4. /\ shm' \in Ids /\ shm' # 0
      /\ shm # 0 => shm' = shm /\ shmMade' = shmMade
      /\ shm = 0 => shm' = shmMade + 1 /\ shmMade' = shmMade + 1
  BY SegmentMade
<1>5. /\ pc'[Producer] = "attach"
      /\ \A c \in Consumers : pc'[c] = pc[c] /\ shmId'[c] = shmId[c]
  BY <1>1, <1>2 DEF BufferTypeOK
<1>6. /\ mem'[shm'].offset = 0
      /\ \A s \in Ids : s # shm' => mem'[s] = mem[s]
  BY <1>1, <1>2, <1>4 DEF BufferTypeOK
<1>7. ASSUME NEW s \in 1..shmMade', s # shm'
      PROVE  \E b, n \in Nat : History(s, b, n)'
  <2>1. s \in 1..shmMade /\ s # shm /\ s \in Ids
    BY <1>1, <1>4, <1>7, BufferAssumption DEF BufferTypeOK, Ids, BufferAssumption
  <2>2. PICK b \in Nat, n \in Nat : History(s, b, n)
    BY <1>1, <2>1 DEF Ordered
  <2>3. mem'[s] = mem[s] /\ (~raced' => ~raced)
    BY <1>2, <1>6, <1>7, <2>1
  <2>4. \A c \in Consumers : sound'[c] /\ pc'[c] # "out" /\ shmId'[c] = s =>
          /\ sound[c] /\ pc[c] # "out" /\ shmId[c] = s
          /\ rd'[c] = rd[c] /\ last'[c] = last[c]
          /\ pc'[c] = "copy" => pc[c] = "copy"
    BY <1>2, <1>3, <1>5
  <2>5. History(s, b, n)'
    BY <2>2, <2>3, <2>4, HistoryKept
  <2> QED
    BY <2>5
<1>8. ASSUME NEW s \in 1..shmMade', s = shm'
      PROVE  /\ Offset(s)' = 0
             /\ \A b, n \in Nat : b = base' /\ b + n = count' => History(s, b, n)'
  <2>1. Offset(s)' = 0
    BY <1>6, <1>8 DEF Offset
  <2>2. ASSUME ~raced', NEW c \in Consumers, sound'[c], pc'[c] # "out", shmId'[c] = s
        PROVE  rd[c] = 0 /\ last[c] <= count /\ pc[c] # "copy"
    <3>1. sound[c] /\ pc[c] # "out" /\ shmId[c] = s /\ ~raced
      BY <1>2, <1>3, <1>5, <2>2
    <3>2. rd[c] = 0 /\ pc[c] # "copy"
      BY <1>3, <1>8, <2>2, <3>1 DEF ThrownOff
    <3>3. shmId[c] \in 1..shmMade
      BY <1>1, <3>1 DEF Attached
    <3>4. s \in 1..shmMade /\ s = shm
      BY <1>1, <1>4, <1>8, <3>1, <3>3 DEF BufferTypeOK
    <3>5. CASE Offset(s) = Unset
      <4>1. last[c] = 0
        BY <1>1, <3>1, <3>4, <3>5 DEF Ordered
      <4> QED
        BY <1>1, <3>2, <4>1 DEF BufferTypeOK
    <3>6. CASE Offset(s) # Unset
      <4>1. \A b, n \in Nat : b = base /\ b + n = count => History(s, b, n)
        BY <1>1, <3>4, <3>6 DEF Ordered
      <4>2. PICK b \in Nat, n \in Nat : b + n = count /\ History(s, b, n)
        <5>1. base \in Nat /\ count - base \in Nat /\ base + (count - base) = count
          BY <1>1 DEF BufferTypeOK
        <5> QED
          BY <4>1, <5>1
      <4>3. PICK m \in 0..n : Follows(c, b, m)
        BY <3>1, <4>2 DEF History
      <4>4. last[c] <= b \/ last[c] = b + m
        BY <4>3 DEF Follows
      <4>5. last[c] \in Nat /\ count \in Nat
        BY <1>1 DEF BufferTypeOK
      <4>6. last[c] <= count
        BY <4>2, <4>4, <4>5
      <4> QED
        BY <3>2, <4>6
    <3> QED
      BY <3>5, <3>6
  <2>3. ASSUME NEW b \in Nat, NEW n \in Nat, b = base', b + n = count'
        PROVE  History(s, b, n)'
    <3>1. b = count /\ n = 0
      <4>1. b = count /\ b + n = count
        BY <1>2, <2>3
      <4> QED
        BY <4>1
    <3>2. Era(s, b, n)'
      BY <2>1, <3>1, ModZero DEF Era
    <3>3. ASSUME ~raced', NEW c \in Consumers, sound'[c], pc'[c] # "out", shmId'[c] = s
          PROVE  (\E m \in 0..n : Follows(c, b, m)') /\ pc'[c] # "copy"
      <4>1. rd[c] = 0 /\ last[c] <= count /\ pc[c] # "copy"
        BY <2>2, <3>3
      <4>2. rd'[c] = 0 % Size /\ last'[c] <= b
        BY <1>2, <3>1, <4>1, ModZero
      <4>3. Follows(c, b, 0)'
        BY <4>2 DEF Follows
      <4>4. 0 \in 0..n
        BY <3>1
      <4> QED
        BY <1>5, <4>1, <4>3, <4>4
    <3> QED
      BY <3>2, <3>3 DEF History
  <2> QED
    BY <2>1, <2>3
<1>9. \A s \in Ids : s > shmMade' => Offset(s)' = Unset
  <2>1. \A s \in Ids : s > shmMade' => s > shmMade /\ s # shm'
    BY <1>1, <1>4 DEF Ids, BufferTypeOK
  <2> QED
    BY <1>1, <1>6, <2>1 DEF Ordered, Offset
<1>10. 0 # Unset
  BY SizeIsNat DEF Unset
<1>11. ASSUME NEW s \in 1..shmMade'
       PROVE  /\ s = shm' /\ pc'[Producer] = "advance" => Ring(s)'[Offset(s)'] = count' + 1
              /\ s = shm' /\ Offset(s)' # Unset =>
                   \A b, n \in Nat : b = base' /\ b + n = count' => History(s, b, n)'
              /\ s = shm' /\ Offset(s)' = Unset /\ ~raced' =>
                   \A c \in Consumers :
                     pc'[c] # "out" /\ shmId'[c] = s => rd'[c] = 0 /\ last'[c] = 0
              /\ s # shm' => \E b, n \in Nat : History(s, b, n)'
  <2>1. CASE s # shm'
    BY <1>7, <2>1
  <2>2. CASE s = shm'
    BY <1>5, <1>8, <1>10, <2>2
  <2> QED
    BY <2>1, <2>2
<1> QED
  BY <1>9, <1>11 DEF Ordered

-----------------------------------------------------------------------------
\* The producer writes into the slot that its offset names, which no packet of
\* the era is in.
LEMMA OrderedByFill ==
  ASSUME BufferInv, NEW from \in {"write", "fill"}, NEW packet, NEW to \in {"fill", "advance"},
         Fill(from, packet, to), to = "advance" => packet = count + 1
  PROVE  Ordered'
<1> USE WhoIsWho
<1>1. BufferTypeOK /\ Attached /\ Prepared /\ Ordered
  BY DEF BufferInv
<1>2. /\ pc[Producer] = from /\ pc' = [pc EXCEPT ![Producer] = to]
      /\ mem' = [mem EXCEPT ![shmId[Producer]].ring[mem[shmId[Producer]].offset] = packet]
      /\ UNCHANGED <<shm, shmMade, shmId, rd, count, base, last, sound, raced>>
  BY DEF Fill, Goto, history
<1>3. shm # 0 /\ shmId[Producer] = shm /\ pc[Producer] # "out"
  BY <1>1, <1>2 DEF Attached
<1>4. shm \in Ids /\ shm \in 1..shmMade /\ 1..shmMade \subseteq Ids
  BY <1>1, <1>3, BufferAssumption DEF BufferTypeOK, Ids, BufferAssumption
<1>5. pc'[Producer] = to /\ \A c \in Consumers : pc'[c] = pc[c]
  BY <1>1, <1>2 DEF BufferTypeOK
<1>6. mem[shm].offset # Unset /\ mem[shm].offset \in Cells
  <2>1. mem[shm].offset # Unset /\ mem[shm].offset \in 0..Size
    BY <1>1, <1>3, <1>4 DEF BufferTypeOK, Prepared, Offset
  <2> QED
    BY <2>1, SizeIsNat DEF Cells, Unset
<1>7. /\ \A s \in Ids : s # shm => mem'[s] = mem[s]
      /\ mem'[shm].offset = mem[shm].offset
      /\ mem'[shm].ring[mem[shm].offset] = packet
      /\ \A i \in Cells : i # mem[shm].offset => mem'[shm].ring[i] = mem[shm].ring[i]
  <2>1. mem'[shm] = [mem[shm] EXCEPT !.ring = [@ EXCEPT ![mem[shm].offset] = packet]]
    BY <1>1, <1>2, <1>3, <1>4 DEF BufferTypeOK
  <2>2. \A s \in Ids : s # shm => mem'[s] = mem[s]
    BY <1>1, <1>2, <1>3, <1>4 DEF BufferTypeOK
  <2>3. mem[shm] \in [offset : 0..Size, ring : [Cells -> Nat]]
    BY <1>1, <1>4 DEF BufferTypeOK
  <2> QED
    BY <1>6, <2>1, <2>2, <2>3
<1>8. ASSUME NEW s \in 1..shmMade, s # shm
      PROVE  \E b, n \in Nat : History(s, b, n)'
  <2>1. PICK b \in Nat, n \in Nat : History(s, b, n)
    BY <1>1, <1>8 DEF Ordered
  <2>2. mem'[s] = mem[s]
    BY <1>4, <1>7, <1>8
  <2>3. History(s, b, n)'
    BY <1>2, <1>5, <2>1, <2>2, HistoryKept
  <2> QED
    BY <2>3
<1>9. ASSUME NEW s, s = shm, NEW b \in Nat, NEW n \in Nat, b = base, b + n = count
      PROVE  History(s, b, n)'
  <2>1. History(s, b, n)
    BY <1>1, <1>4, <1>6, <1>9 DEF Ordered, Offset
  <2>2. Offset(s)' = Offset(s) /\ Offset(s) = n % Size
    BY <1>7, <1>9, <2>1 DEF Offset, History, Era
  <2>3. \A i \in Cells : i # Offset(s) => Ring(s)'[i] = Ring(s)[i]
    BY <1>7, <1>9 DEF Offset, Ring
  <2>4. ASSUME NEW m \in 0..n - 1, m % Size # Offset(s)
        PROVE  \E k \in m + 1..n : /\ Ring(s)'[m % Size] = b + k
                                   /\ (k - 1) % Size = m % Size
    <3>1. m % Size \in Cells
      BY ModRange
    <3>2. PICK k \in m + 1..n : Ring(s)[m % Size] = b + k /\ (k - 1) % Size = m % Size
      BY <2>1, <2>4 DEF History, Era
    <3>3. Ring(s)'[m % Size] = Ring(s)[m % Size]
      BY <2>3, <2>4, <3>1
    <3> QED
      BY <3>2, <3>3
  <2>5. Era(s, b, n)'
    BY <2>2, <2>4 DEF Era
  <2>6. ASSUME ~raced', NEW c \in Consumers, sound'[c], pc'[c] # "out", shmId'[c] = s
        PROVE  /\ \E m \in 0..n : Follows(c, b, m)'
               /\ pc'[c] = "copy" => rd'[c] # Offset(s)'
    <3>1. /\ \E m \in 0..n : Follows(c, b, m)
          /\ pc[c] = "copy" => rd[c] # Offset(s)
      BY <1>2, <1>5, <2>1, <2>6 DEF History
    <3> QED
      BY <1>2, <1>5, <2>2, <3>1 DEF Follows
  <2> QED
    BY <2>5, <2>6 DEF History
<1>10. ASSUME NEW s \in 1..shmMade'
       PROVE  /\ s = shm' /\ pc'[Producer] = "advance" => Ring(s)'[Offset(s)'] = count' + 1
              /\ s = shm' /\ Offset(s)' # Unset =>
                   \A b, n \in Nat : b = base' /\ b + n = count' => History(s, b, n)'
              /\ s = shm' /\ Offset(s)' = Unset /\ ~raced' =>
                   \A c \in Consumers :
                     pc'[c] # "out" /\ shmId'[c] = s => rd'[c] = 0 /\ last'[c] = 0
              /\ s # shm' => \E b, n \in Nat : History(s, b, n)'
  <2>1. CASE s # shm
    BY <1>2, <1>8, <2>1
  <2>2. CASE s = shm
    <3>1. Offset(s)' = mem[shm].offset /\ Offset(s)' # Unset /\ Ring(s)'[Offset(s)'] = packet
      BY <1>6, <1>7, <2>2 DEF Offset, Ring
    <3>2. pc'[Producer] = "advance" => Ring(s)'[Offset(s)'] = count' + 1
      BY <1>2, <1>5, <3>1
    <3> QED
      BY <1>2, <1>9, <2>2, <3>1, <3>2
  <2> QED
    BY <2>1, <2>2
<1>11. \A s \in Ids : s > shmMade' => Offset(s)' = Unset
  <2>1. \A s \in Ids : s > shmMade' => s > shmMade /\ s # shm
    BY <1>1, <1>2 DEF Ids, BufferTypeOK
  <2> QED
    BY <1>1, <1>7, <2>1 DEF Ordered, Offset
<1> QED
  BY <1>10, <1>11 DEF Ordered

\* The packet is in: one more for the era, and the place it had is that of the
\* earlier packets of the same slot.
LEMMA EraGrows ==
  ASSUME NEW s, NEW b \in Nat, NEW n \in Nat, Era(s, b, n),
         Ring(s)[n % Size] = b + n + 1, Ring(s)' = Ring(s),
         Offset(s)' = NextCell(Offset(s))
  PROVE  Era(s, b, n + 1)'
<1>1. Offset(s)' = (n + 1) % Size
  BY ModNext DEF Era
<1>2. ASSUME NEW m \in 0..(n + 1) - 1, m % Size # Offset(s)'
      PROVE  \E k \in m + 1..n + 1 : /\ Ring(s)'[m % Size] = b + k
                                     /\ (k - 1) % Size = m % Size
  <2>1. CASE m % Size = n % Size
    <3>1. (n + 1) - 1 = n /\ n + 1 \in m + 1..n + 1 /\ b + n + 1 = b + (n + 1)
      OBVIOUS
    <3>2. Ring(s)'[m % Size] = b + (n + 1)
      BY <2>1, <3>1
    <3>3. ((n + 1) - 1) % Size = m % Size
      BY <2>1, <3>1
    <3> QED
      BY <3>1, <3>2, <3>3
  <2>2. CASE m % Size # n % Size
    <3>1. m \in 0..n - 1
      BY <2>2
    <3>2. m % Size # Offset(s)
      BY <2>2 DEF Era
    <3>3. PICK k \in m + 1..n : Ring(s)[m % Size] = b + k /\ (k - 1) % Size = m % Size
      BY <3>1, <3>2 DEF Era
    <3>4. k \in m + 1..n + 1
      BY <3>3
    <3> QED
      BY <3>3, <3>4
  <2> QED
    BY <2>1, <2>2
<1> QED
  BY <1>1, <1>2 DEF Era

LEMMA OrderedByAdvance ==
  ASSUME BufferInv, Advance
  PROVE  Ordered'
<1> USE WhoIsWho
<1>1. BufferTypeOK /\ Attached /\ Exclusive /\ Prepared /\ Ordered
  BY DEF BufferInv
<1>2. /\ pc[Producer] = "advance" /\ pc' = [pc EXCEPT ![Producer] = "leave"]
      /\ mem' = [mem EXCEPT ![shmId[Producer]].offset = NextCell(@)]
      /\ count' = count + 1
      /\ UNCHANGED <<shm, shmMade, shmId, rd, base, last, sound, raced>>
  BY DEF Advance, Goto, history
<1>3. shm # 0 /\ shmId[Producer] = shm /\ pc[Producer] # "out"
  BY <1>1, <1>2 DEF Attached
<1>4. shm \in Ids /\ shm \in 1..shmMade /\ 1..shmMade \subseteq Ids
  BY <1>1, <1>3, BufferAssumption DEF BufferTypeOK, Ids, BufferAssumption
<1>5. pc'[Producer] = "leave" /\ \A c \in Consumers : pc'[c] = pc[c]
  BY <1>1, <1>2 DEF BufferTypeOK
<1>6. ~raced => \A c \in Consumers : pc[c] # "copy"
  <2> SUFFICES ASSUME ~raced, NEW c \in Consumers, pc[c] = "copy" PROVE FALSE
    OBVIOUS
  <2>1. Inside(c) /\ Inside(Producer) /\ Live
    BY <1>2 DEF Inside, Live
  <2>2. Holds(c) /\ Holds(Producer)
    BY <1>1, <2>1 DEF Exclusive, Holds
  <2> QED
    BY <1>1, <2>2 DEF Exclusive
<1>7. /\ \A s \in Ids : s # shm => mem'[s] = mem[s]
      /\ mem'[shm].offset = NextCell(mem[shm].offset)
      /\ mem'[shm].ring = mem[shm].ring
  BY <1>1, <1>2, <1>3, <1>4 DEF BufferTypeOK
<1>8. Offset(shm) # Unset /\ mem'[shm].offset # Unset
  <2>1. Offset(shm) # Unset
    BY <1>1, <1>3 DEF Prepared
  <2>2. mem[shm].offset + 1 \in Nat
    BY <1>1, <1>4, SizeIsNat DEF BufferTypeOK
  <2>3. NextCell(mem[shm].offset) \in Cells
    BY <2>2, ModRange DEF NextCell
  <2>4. Unset \notin Cells
    BY SizeIsNat DEF Cells, Unset
  <2> QED
    BY <1>7, <2>1, <2>3, <2>4
<1>9. ASSUME NEW s \in 1..shmMade, s # shm
      PROVE  \E b, n \in Nat : History(s, b, n)'
  <2>1. PICK b \in Nat, n \in Nat : History(s, b, n)
    BY <1>1, <1>9 DEF Ordered
  <2>2. mem'[s] = mem[s]
    BY <1>4, <1>7, <1>9
  <2>3. History(s, b, n)'
    BY <1>2, <1>5, <2>1, <2>2, HistoryKept
  <2> QED
    BY <2>3
<1>10. ASSUME NEW s, s = shm, NEW b \in Nat, NEW n \in Nat, b = base, b + n = count
       PROVE  History(s, b, n + 1)'
  <2>1. History(s, b, n) /\ Ring(s)[Offset(s)] = count + 1
    BY <1>1, <1>2, <1>4, <1>8, <1>10 DEF Ordered
  <2>2. Offset(s)' = NextCell(Offset(s)) /\ Ring(s)' = Ring(s)
    BY <1>7, <1>10 DEF Offset, Ring
  <2>3. Era(s, b, n) /\ Ring(s)[n % Size] = b + n + 1
    BY <1>10, <2>1 DEF History, Era
  <2>4. Era(s, b, n + 1)'
    BY <2>2, <2>3, EraGrows
  <2>5. ASSUME ~raced', NEW c \in Consumers, sound'[c], pc'[c] # "out", shmId'[c] = s
        PROVE  (\E m \in 0..n + 1 : Follows(c, b, m)') /\ pc'[c] # "copy"
    <3>1. PICK m \in 0..n : Follows(c, b, m)
      BY <1>2, <1>5, <2>1, <2>5 DEF History
    <3>2. Follows(c, b, m)' /\ m \in 0..n + 1
      BY <1>2, <3>1 DEF Follows
    <3> QED
      BY <1>2, <1>5, <1>6, <2>5, <3>2
  <2> QED
    BY <2>4, <2>5 DEF History
<1>11. ASSUME NEW s, s = shm, NEW b \in Nat, NEW k \in Nat, b = base', b + k = count'
       PROVE  History(s, b, k)'
  <2>1. base \in Nat /\ count \in Nat /\ base <= count
    BY <1>1 DEF BufferTypeOK
  <2>2. b = base /\ b + k = count + 1
    BY <1>2, <1>11
  <2>3. PICK n \in Nat : k = n + 1 /\ b + n = count
    <3>1. k - 1 \in Nat /\ k = (k - 1) + 1 /\ b + (k - 1) = count
      BY <2>1, <2>2
    <3> QED
      BY <3>1
  <2> QED
    BY <1>10, <1>11, <2>2, <2>3
<1>12. ASSUME NEW s \in 1..shmMade'
       PROVE  /\ s = shm' /\ pc'[Producer] = "advance" => Ring(s)'[Offset(s)'] = count' + 1
              /\ s = shm' /\ Offset(s)' # Unset =>
                   \A b, n \in Nat : b = base' /\ b + n = count' => History(s, b, n)'
              /\ s = shm' /\ Offset(s)' = Unset /\ ~raced' =>
                   \A c \in Consumers :
                     pc'[c] # "out" /\ shmId'[c] = s => rd'[c] = 0 /\ last'[c] = 0
              /\ s # shm' => \E b, n \in Nat : History(s, b, n)'
  <2>1. CASE s # shm
    BY <1>2, <1>9, <2>1
  <2>2. CASE s = shm
    <3>1. Offset(s)' # Unset
      BY <1>8, <2>2 DEF Offset
    <3> QED
      BY <1>2, <1>5, <1>11, <2>2, <3>1
  <2> QED
    BY <2>1, <2>2
<1>13. \A s \in Ids : s > shmMade' => Offset(s)' = Unset
  <2>1. \A s \in Ids : s > shmMade' => s > shmMade /\ s # shm
    BY <1>1, <1>2 DEF Ids, BufferTypeOK
  <2> QED
    BY <1>1, <1>7, <2>1 DEF Ordered, Offset
<1> QED
  BY <1>12, <1>13 DEF Ordered

-----------------------------------------------------------------------------
\* The era of the segment that a consumer reads from, under the key or not.
LEMMA ReadersHistory ==
  ASSUME BufferInv, NEW c \in Consumers, Inside(c), sound[c], ~raced
  PROVE  \E s \in 1..shmMade, b, n \in Nat : shmId[c] = s /\ History(s, b, n)
<1> USE WhoIsWho
<1>1. BufferTypeOK /\ Attached /\ Prepared /\ Ordered
  BY DEF BufferInv
<1>2. shmId[c] \in 1..shmMade
  BY <1>1 DEF Attached, Inside
<1>3. PICK s \in 1..shmMade : shmId[c] = s
  BY <1>2
<1>4. Offset(s) # Unset
  BY <1>1, <1>3 DEF Prepared
<1>5. CASE s = shm
  <2>1. \A b, n \in Nat : b = base /\ b + n = count => History(s, b, n)
    BY <1>1, <1>4, <1>5 DEF Ordered
  <2>2. base \in Nat /\ count - base \in Nat /\ base + (count - base) = count
    BY <1>1 DEF BufferTypeOK
  <2> QED
    BY <1>3, <2>1, <2>2
<1>6. CASE s # shm
  BY <1>1, <1>3, <1>6 DEF Ordered
<1> QED
  BY <1>5, <1>6

\* The packet that it gets is newer, and it stands behind that packet.
LEMMA CopyReads ==
  ASSUME BufferTypeOK, Attached, NEW c \in Consumers, Copy(c), ~raced, sound[c],
         NEW s, shmId[c] = s, NEW b \in Nat, NEW n \in Nat, History(s, b, n)
  PROVE  /\ last'[c] > last[c]
         /\ \E k \in 0..n : Follows(c, b, k)'
<1>1. /\ pc[c] = "copy"
      /\ last'[c] = Ring(s)[rd[c]]
      /\ rd'[c] = NextCell(rd[c])
  BY DEF Copy, BufferTypeOK, Ring
<1>2. /\ Era(s, b, n)
      /\ \E m \in 0..n : Follows(c, b, m)
      /\ rd[c] # Offset(s)
  BY <1>1 DEF History
<1>3. PICK m \in 0..n : Follows(c, b, m)
  BY <1>2
<1>4. last[c] \in Nat
  BY DEF BufferTypeOK
<1>5. rd[c] = m % Size /\ Offset(s) = n % Size
  BY <1>2, <1>3 DEF Follows, Era
<1>6. m \in 0..n - 1
  BY <1>2, <1>5
<1>7. PICK k \in m + 1..n : Ring(s)[m % Size] = b + k /\ (k - 1) % Size = m % Size
  BY <1>2, <1>5, <1>6 DEF Era
<1>8. k \in Nat /\ k - 1 \in Nat /\ k \in 0..n /\ k # 0 /\ (k - 1) + 1 = k
  BY <1>6, <1>7
<1>9. last[c] <= b + m
  BY <1>3, <1>4 DEF Follows
<1>10. last'[c] = b + k /\ last'[c] > last[c]
  <2>1. last'[c] = b + k
    BY <1>1, <1>5, <1>7
  <2> QED
    BY <1>4, <1>7, <1>8, <1>9, <2>1
<1>11. rd'[c] = k % Size
  <2>1. NextCell((k - 1) % Size) = ((k - 1) + 1) % Size
    BY <1>8, ModNext
  <2> QED
    BY <1>1, <1>5, <1>7, <1>8, <2>1
<1>12. Follows(c, b, k)'
  BY <1>8, <1>10, <1>11 DEF Follows
<1> QED
  BY <1>8, <1>10, <1>12

LEMMA OrderedByCopy ==
  ASSUME BufferInv, NEW c \in Consumers, Copy(c)
  PROVE  Ordered'
<1> USE WhoIsWho
<1>1. BufferTypeOK /\ Attached /\ Prepared /\ Ordered
  BY DEF BufferInv
<1>2. /\ pc[c] = "copy" /\ pc' = [pc EXCEPT ![c] = "leave"]
      /\ UNCHANGED <<shm, shmMade, mem, shmId, base, count, sound, raced>>
      /\ \A d \in Consumers \ {c} : rd'[d] = rd[d] /\ last'[d] = last[d]
  BY <1>1 DEF Copy, Goto, memVars, history, BufferTypeOK
<1>3. /\ pc'[c] = "leave" /\ pc'[Producer] = pc[Producer]
      /\ \A d \in Consumers \ {c} : pc'[d] = pc[d]
  BY <1>1, <1>2 DEF BufferTypeOK
<1>4. ASSUME NEW s, NEW b \in Nat, NEW n \in Nat, History(s, b, n)
      PROVE  History(s, b, n)'
  <2>1. Era(s, b, n)' /\ Offset(s)' = Offset(s)
    BY <1>2, <1>4 DEF History, Era, Offset, Ring
  <2>2. ASSUME ~raced', NEW d \in Consumers, sound'[d], pc'[d] # "out", shmId'[d] = s
        PROVE  /\ \E m \in 0..n : Follows(d, b, m)'
               /\ pc'[d] = "copy" => rd'[d] # Offset(s)'
    <3>1. ~raced /\ sound[d] /\ shmId[d] = s
      BY <1>2, <2>2
    <3>2. CASE d = c
      <4>1. \E m \in 0..n : Follows(c, b, m)'
        BY <1>1, <1>4, <3>1, <3>2, CopyReads
      <4> QED
        BY <1>3, <3>2, <4>1
    <3>3. CASE d # c
      <4>1. pc'[d] = pc[d] /\ rd'[d] = rd[d] /\ last'[d] = last[d]
        BY <1>2, <1>3, <3>3
      <4>2. /\ \E m \in 0..n : Follows(d, b, m)
            /\ pc[d] = "copy" => rd[d] # Offset(s)
        BY <1>4, <2>2, <3>1, <4>1 DEF History
      <4> QED
        BY <2>1, <4>1, <4>2 DEF Follows
    <3> QED
      BY <3>2, <3>3
  <2> QED
    BY <2>1, <2>2 DEF History
<1>5. ASSUME NEW s \in 1..shmMade
      PROVE  /\ s = shm' /\ pc'[Producer] = "advance" => Ring(s)'[Offset(s)'] = count' + 1
             /\ s = shm' /\ Offset(s)' # Unset =>
                  \A b, n \in Nat : b = base' /\ b + n = count' => History(s, b, n)'
             /\ s # shm' => \E b, n \in Nat : History(s, b, n)'
  <2>1. Offset(s)' = Offset(s) /\ Ring(s)' = Ring(s)
    BY <1>2 DEF Offset, Ring
  <2>2. s = shm' /\ pc'[Producer] = "advance" => Ring(s)'[Offset(s)'] = count' + 1
    BY <1>1, <1>2, <1>3, <2>1 DEF Ordered
  <2>3. s = shm' /\ Offset(s)' # Unset =>
          \A b, n \in Nat : b = base' /\ b + n = count' => History(s, b, n)'
    BY <1>1, <1>2, <1>4, <2>1 DEF Ordered
  <2>4. s # shm' => \E b, n \in Nat : History(s, b, n)'
    BY <1>1, <1>2, <1>4 DEF Ordered
  <2> QED
    BY <2>2, <2>3, <2>4
<1>6. ASSUME NEW s \in 1..shmMade, s = shm', Offset(s)' = Unset, ~raced',
             NEW d \in Consumers, pc'[d] # "out", shmId'[d] = s
      PROVE  rd'[d] = 0 /\ last'[d] = 0
  <2>1. Offset(s) = Unset /\ ~raced /\ s = shm /\ shmId[d] = s
    BY <1>2, <1>6 DEF Offset
  <2>2. CASE d = c
    <3>1. Inside(c)
      BY <1>2 DEF Inside
    <3>2. Offset(shmId[c]) # Unset
      BY <1>1, <2>1, <3>1 DEF Prepared
    <3> QED
      BY <2>1, <2>2, <3>2
  <2>3. CASE d # c
    <3>1. pc[d] # "out" /\ rd'[d] = rd[d] /\ last'[d] = last[d]
      BY <1>2, <1>3, <1>6, <2>3
    <3> QED
      BY <1>1, <2>1, <3>1 DEF Ordered
  <2> QED
    BY <2>2, <2>3
<1>7. \A s \in Ids : s > shmMade' => Offset(s)' = Unset
  BY <1>1, <1>2 DEF Ordered, Offset
<1>8. 1..shmMade' = 1..shmMade
  BY <1>2
<1> QED
  BY <1>5, <1>6, <1>7, <1>8 DEF Ordered

-----------------------------------------------------------------------------
LEMMA OrderedStays ==
  ASSUME BufferInv, BufferNext
  PROVE  Ordered'
<1>1. ASSUME NEW p \in Procs, AttachMem(p) PROVE Ordered'
  <2>1. p \in Consumers \/ p = Producer
    BY DEF Procs
  <2> QED
    BY <1>1, <2>1, OrderedByConsumer, OrderedByProducer
<1>2. ASSUME NEW p \in Procs, AttachSem(p) \/ Crash(p) \/ Call(p) \/ Enter(p) \/ Release(p)
      PROVE  Ordered'
  BY <1>2, OrderedBySemaphore
<1>3. ASSUME NEW c \in Consumers, Look(c) PROVE Ordered'
  BY <1>3, OrderedByLook
<1>4. ASSUME NEW c \in Consumers, Copy(c) PROVE Ordered'
  BY <1>4, OrderedByCopy
<1>5. ASSUME DetachSem \/ \E c \in Consumers : Detach(c) PROVE Ordered'
  BY <1>5, OrderedByDetach
<1>6. ASSUME Fill("write", 0, "fill") PROVE Ordered'
  <2>1. PICK packet : packet = 0
    OBVIOUS
  <2>2. Fill("write", packet, "fill")
    BY <1>6, <2>1
  <2> QED
    BY <2>2, OrderedByFill
<1>7. ASSUME Fill("fill", count + 1, "advance") PROVE Ordered'
  <2>1. PICK packet : packet = count + 1
    OBVIOUS
  <2>2. Fill("fill", packet, "advance")
    BY <1>7, <2>1
  <2> QED
    BY <2>1, <2>2, OrderedByFill
<1>8. ASSUME Advance PROVE Ordered'
  BY <1>8, OrderedByAdvance
<1>9. ASSUME DetachMem PROVE Ordered'
  BY <1>9, OrderedByDetachMem
<1> QED
  BY <1>1, <1>2, <1>3, <1>4, <1>5, <1>6, <1>7, <1>8, <1>9, BufferSteps

LEMMA BufferKept ==
  ASSUME BufferInv, [BufferNext]_bufferVars
  PROVE  BufferInv'
<1>1. CASE BufferNext
  BY <1>1, BufferTypes, AttachedStays, ExclusiveStays, PreparedStays, OrderedStays
  DEF BufferInv
<1>2. CASE UNCHANGED bufferVars
  <2>1. /\ UNCHANGED <<shm, shmMade, mem, sem, semMade, val, adj>>
        /\ UNCHANGED <<pc, shmId, semId, rd, count, last, base, sound, raced>>
    BY <1>2 DEF bufferVars, memVars, semVars, history
  <2>2. BufferTypeOK'
    BY <2>1 DEF BufferInv, BufferTypeOK
  <2>3. Attached'
    BY <2>1 DEF BufferInv, Attached, Live
  <2>4. Exclusive'
    BY <2>1 DEF BufferInv, Exclusive, Live, Holds, Inside
  <2>5. Prepared'
    BY <2>1 DEF BufferInv, Prepared, Holds, Inside, Offset
  <2>6. Ordered'
    BY <2>1, OrderedKept
  <2> QED
    BY <2>2, <2>3, <2>4, <2>5, <2>6 DEF BufferInv
<1> QED
  BY <1>1, <1>2

\* The invariant holds in every state that a behaviour of the ring reaches.
THEOREM BufferInvariant == BufferSpec => []BufferInv
BY BufferInitially, BufferKept, PTL DEF BufferSpec

\* A consumer gets whole packets, each newer than the one before: the packet in
\* its slot belongs to the era of its segment and is newer than its last one.
THEOREM GetsInOrderHolds == BufferSpec => GetsInOrder
<1>1. ASSUME BufferInv, [BufferNext]_bufferVars, NEW c \in Consumers,
             pc[c] = "copy", pc'[c] = "leave", sound[c], ~raced
      PROVE  last'[c] > last[c]
  <2>1. BufferTypeOK /\ Attached
    BY <1>1 DEF BufferInv
  <2>2. pc' # pc
    BY <1>1
  <2>3. BufferNext
    BY <1>1, <2>2 DEF bufferVars
  <2>4. Copy(c)
    <3>1. ASSUME NEW p \in Procs, AttachMem(p) PROVE FALSE
      BY <1>1, <2>1, <3>1, WhoIsWho DEF AttachMem, Goto, BufferTypeOK
    <3>2. ASSUME NEW p \in Procs, AttachSem(p) PROVE FALSE
      BY <1>1, <2>1, <3>2, WhoIsWho DEF AttachSem, Goto, BufferTypeOK
    <3>3. ASSUME NEW p \in Procs, Crash(p) \/ Call(p) \/ Release(p) PROVE FALSE
      BY <1>1, <2>1, <3>3, WhoIsWho DEF Crash, Call, Release, Goto, BufferTypeOK
    <3>4. ASSUME NEW p \in Procs, Enter(p) PROVE FALSE
      <4>1. pc[p] = "enter" /\ \E where : pc' = [pc EXCEPT ![p] = where]
        BY <3>4 DEF Enter, Goto
      <4> QED
        BY <1>1, <2>1, <4>1, WhoIsWho DEF BufferTypeOK
    <3>5. ASSUME NEW d \in Consumers, Look(d) PROVE FALSE
      <4>1. pc[d] = "look" /\ \E where : pc' = [pc EXCEPT ![d] = where]
        BY <3>5 DEF Look, Goto
      <4> QED
        BY <1>1, <2>1, <4>1, WhoIsWho DEF BufferTypeOK
    <3>6. ASSUME NEW d \in Consumers, Detach(d) PROVE FALSE
      BY <1>1, <2>1, <3>6, WhoIsWho DEF Detach, Goto, BufferTypeOK
    <3>7. ASSUME \/ Fill("write", 0, "fill") \/ Fill("fill", count + 1, "advance")
                 \/ Advance \/ DetachSem \/ DetachMem
          PROVE  FALSE
      <4>1. \E where : pc' = [pc EXCEPT ![Producer] = where]
        BY <3>7 DEF Fill, Advance, DetachSem, DetachMem, Goto
      <4> QED
        BY <1>1, <2>1, <4>1, WhoIsWho DEF BufferTypeOK
    <3>8. ASSUME NEW d \in Consumers, Copy(d) PROVE d = c
      BY <1>1, <2>1, <3>8, WhoIsWho DEF Copy, Goto, BufferTypeOK
    <3> QED
      BY <2>3, <3>1, <3>2, <3>3, <3>4, <3>5, <3>6, <3>7, <3>8, BufferSteps
  <2>5. Inside(c)
    BY <1>1 DEF Inside
  <2>6. PICK s \in 1..shmMade, b \in Nat, n \in Nat : shmId[c] = s /\ History(s, b, n)
    BY <1>1, <2>5, ReadersHistory
  <2> QED
    BY <1>1, <2>1, <2>4, <2>6, CopyReads
<1>2. ASSUME BufferInv, [BufferNext]_bufferVars
      PROVE  [\A c \in Consumers :
                (pc[c] = "copy" /\ pc'[c] = "leave" /\ sound[c] /\ ~raced)
                  => last'[c] > last[c]]_bufferVars
  BY <1>1, <1>2
<1> QED
  BY <1>2, BufferInvariant, PTL DEF BufferSpec, GetsInOrder

\* A consumer that finds the ring empty is a whole number of rounds behind: it
\* stands in the slot of the next packet to come.
THEOREM EmptyMeansWholeRoundsHolds == BufferSpec => []EmptyMeansWholeRounds
<1>1. ASSUME BufferInv PROVE EmptyMeansWholeRounds
  <2> SUFFICES ASSUME NEW c \in Consumers, pc[c] = "look", shmId[c] = shm, sound[c],
                      ~raced, rd[c] = mem[shm].offset
               PROVE  (count - (IF last[c] > base THEN last[c] ELSE base)) % Size = 0
    BY DEF EmptyMeansWholeRounds
  <2>1. BufferTypeOK /\ Attached /\ Prepared /\ Ordered
    BY <1>1 DEF BufferInv
  <2>2. Inside(c) /\ c \in Procs
    BY WhoIsWho DEF Inside
  <2>3. shm \in 1..shmMade /\ Offset(shm) # Unset
    BY <2>1, <2>2 DEF Attached, Prepared, Inside
  <2>4. PICK s \in 1..shmMade : s = shm
    BY <2>3
  <2>5. PICK b \in Nat, n \in Nat : b = base /\ b + n = count /\ History(s, b, n)
    <3>1. \A b, n \in Nat : b = base /\ b + n = count => History(s, b, n)
      BY <2>1, <2>3, <2>4 DEF Ordered
    <3>2. base \in Nat /\ count - base \in Nat /\ base + (count - base) = count
      BY <2>1 DEF BufferTypeOK
    <3> QED
      BY <3>1, <3>2
  <2>6. Offset(s) = n % Size /\ \E m \in 0..n : Follows(c, b, m)
    BY <2>4, <2>5 DEF History, Era
  <2>7. PICK m \in 0..n : Follows(c, b, m)
    BY <2>6
  <2>8. m % Size = n % Size
    BY <2>4, <2>6, <2>7 DEF Offset, Follows
  <2>9. (n - m) % Size = 0
    BY <2>8, ModSame
  <2>10. last[c] \in Nat
    BY <2>1 DEF BufferTypeOK
  <2>11. count - (IF last[c] > base THEN last[c] ELSE base) = n - m
    <3>1. IF m = 0 THEN last[c] <= b ELSE last[c] = b + m
      BY <2>7 DEF Follows
    <3>2. count = b + n /\ base = b
      BY <2>5
    <3> QED
      BY <2>10, <3>1, <3>2
  <2> QED
    BY <2>9, <2>11
<1> QED
  BY <1>1, BufferInvariant, PTL
=============================================================================
