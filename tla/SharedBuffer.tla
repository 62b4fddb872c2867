---------------------------- MODULE SharedBuffer ----------------------------
(***************************************************************************)
(* The packet ring of hv_test/shared_buff.cpp: a System V shared memory    *)
(* segment with an offset and Size packets, guarded by one semaphore. One  *)
(* producer process and some consumer processes attach under fixed keys;   *)
(* any of them may die at any step, and the kernel then gives back what it *)
(* holds of the semaphore (SEM_UNDO). Segment and semaphore outlive them.  *)
(*                                                                         *)
(* A consumer keeps its own read index and the producer never looks at it, *)
(* so a slow consumer is lapped. Packets are numbered in the order of put; *)
(* 0 is a slot that holds no whole packet.                                 *)
(*                                                                         *)
(* ModeUnblock only adds a refusal that changes nothing and is left out,   *)
(* as are the refusals of a wrong type or length.                          *)
(***************************************************************************)
EXTENDS Integers, FiniteSets

CONSTANTS
  Producer,
  Consumers,
  Size,      \* SHM_SIZE
  MaxPut,    \* bound: packets put
  MaxMade    \* bound: segments and semaphores made

ASSUME BufferAssumption ==
  /\ Size \in Nat \ {0, 1}
  /\ MaxPut \in Nat
  /\ MaxMade \in Nat \ {0}
  /\ Producer \notin Consumers

Procs == Consumers \cup {Producer}
Cells == 0..Size - 1
Unset == Size        \* the offset of a segment no producer has attached to
Ids == 1..MaxMade    \* of segments and of semaphores; 0 is none

VARIABLES
  shm, shmMade,  \* the segment under the key; how many were ever made
  mem,           \* per segment: offset and ring, also after its removal
  sem, semMade,  \* the semaphore under the key; how many were ever made
  val,           \* its value
  adj,           \* its semadj per process: what the kernel undoes at exit
  pc,            \* per process: where it is
  shmId, semId,  \* per process: m_shmId, m_semId
  rd,            \* per consumer: m_rdOffset
  count,         \* packets put
  last,          \* per consumer: the last packet it got since it attached
  base,          \* count when the producer last reset the offset
  sound,         \* per consumer: no such reset moved the offset away from it
  raced          \* SETVAL was called with somebody inside

memVars == <<shm, shmMade, mem>>
semVars == <<sem, semMade, val, adj>>
history == <<base, sound, raced>>
bufferVars ==
  <<memVars, semVars, pc, shmId, semId, rd, count, last, history>>

BufferInit ==
  /\ shm = 0 /\ shmMade = 0
  /\ mem = [s \in Ids |-> [offset |-> Unset, ring |-> [i \in Cells |-> 0]]]
  /\ sem = 0 /\ semMade = 0 /\ val = 0
  /\ adj = [p \in Procs |-> 0]
  /\ pc = [p \in Procs |-> "out"]
  /\ shmId = [p \in Procs |-> 0]
  /\ semId = [p \in Procs |-> 0]
  /\ rd = [c \in Consumers |-> 0]
  /\ count = 0
  /\ last = [c \in Consumers |-> 0]
  /\ base = 0
  /\ sound = [c \in Consumers |-> TRUE]
  /\ raced = FALSE

Goto(p, where) == pc' = [pc EXCEPT ![p] = where]

NextCell(i) == (i + 1) % Size

\* Between sem_p and sem_v.
Inside(p) == pc[p] \in {"look", "copy", "write", "fill", "advance", "leave"}

-----------------------------------------------------------------------------
\* shmget makes the segment, zeroed, when there is none.
MakeSegment ==
  /\ shm' = IF shm = 0 THEN shmMade + 1 ELSE shm
  /\ shmMade' = IF shm = 0 THEN shmMade + 1 ELSE shmMade

\* A consumer that is about to read from another place than the first slot
\* is thrown off when the offset goes back there.
ThrownOff(c) ==
  shmId[c] = shm' /\ (rd[c] # 0 \/ pc[c] = "copy")

\* The first half of shmAttach: the producer resets the offset of whatever
\* segment there is, without the semaphore.
AttachMem(p) ==
  /\ pc[p] = "out"
  /\ MakeSegment
  /\ shmId' = [shmId EXCEPT ![p] = shm']
  /\ Goto(p, "attach")
  /\ IF p = Producer
       THEN /\ mem' = [mem EXCEPT ![shm'].offset = 0]
            /\ base' = count
            /\ sound' = [c \in Consumers |-> sound[c] /\ ~ThrownOff(c)]
            /\ UNCHANGED <<rd, last>>
       ELSE /\ rd' = [rd EXCEPT ![p] = 0]
            /\ last' = [last EXCEPT ![p] = 0]
            /\ sound' = [sound EXCEPT ![p] = TRUE]
            /\ UNCHANGED <<mem, base>>
  /\ UNCHANGED <<semVars, semId, count, raced>>

\* Mutant: everybody who attaches sets the value, not only the producer.
SetsValue_everybody(p) == TRUE

SetsValue(p) == p = Producer

\* The second half: semget makes the semaphore, with value 0, when there is
\* none; the producer sets it to 1, which also clears every semadj.
AttachSem(p) ==
  /\ pc[p] = "attach"
  /\ sem' = IF sem = 0 THEN semMade + 1 ELSE sem
  /\ semMade' = IF sem = 0 THEN semMade + 1 ELSE semMade
  /\ semId' = [semId EXCEPT ![p] = sem']
  /\ IF SetsValue(p)
       THEN /\ val' = 1
            /\ adj' = [q \in Procs |-> 0]
            /\ raced' = (raced \/ \E q \in Procs : Inside(q))
       ELSE /\ val' = IF sem = 0 THEN 0 ELSE val
            /\ UNCHANGED <<adj, raced>>
  /\ Goto(p, "idle")
  /\ UNCHANGED <<memVars, shmId, rd, count, last, base, sound>>

\* The destructor of a consumer.
Detach(c) ==
  /\ pc[c] = "idle"
  /\ Goto(c, "out")
  /\ shmId' = [shmId EXCEPT ![c] = 0]
  /\ semId' = [semId EXCEPT ![c] = 0]
  /\ UNCHANGED <<memVars, semVars, rd, count, last, history>>

\* The destructor of the producer removes the semaphore, then the segment.
DetachSem ==
  /\ pc[Producer] = "idle"
  /\ shmMade < MaxMade /\ semMade < MaxMade
  /\ sem' = 0
  /\ val' = 0
  /\ adj' = [q \in Procs |-> 0]
  /\ Goto(Producer, "detach")
  /\ UNCHANGED <<memVars, semMade, shmId, semId, rd, count, last, history>>

DetachMem ==
  /\ pc[Producer] = "detach"
  /\ shm' = 0
  /\ Goto(Producer, "out")
  /\ shmId' = [shmId EXCEPT ![Producer] = 0]
  /\ semId' = [semId EXCEPT ![Producer] = 0]
  /\ UNCHANGED <<shmMade, mem, semVars, rd, count, last, history>>

-----------------------------------------------------------------------------
\* put or get is called.
Call(p) ==
  /\ pc[p] = "idle"
  /\ p = Producer => count < MaxPut
  /\ Goto(p, "enter")
  /\ UNCHANGED <<memVars, semVars, shmId, semId, rd, count, last, history>>

\* sem_p: waits for the value; fails when the semaphore was removed.
Enter(p) ==
  /\ pc[p] = "enter"
  /\ \/ /\ semId[p] = sem
        /\ val > 0
        /\ val' = val - 1
        /\ adj' = [adj EXCEPT ![p] = @ + 1]
        /\ Goto(p, IF p = Producer THEN "write" ELSE "look")
     \/ /\ semId[p] # sem
        /\ Goto(p, "idle")
        /\ UNCHANGED <<val, adj>>
  /\ UNCHANGED <<memVars, sem, semMade, shmId, semId, rd, count, last, history>>

\* sem_v
Release(p) ==
  /\ pc[p] = "leave"
  /\ \/ /\ semId[p] = sem
        /\ val' = val + 1
        /\ adj' = [adj EXCEPT ![p] = @ - 1]
     \/ /\ semId[p] # sem
        /\ UNCHANGED <<val, adj>>
  /\ Goto(p, "idle")
  /\ UNCHANGED <<memVars, sem, semMade, shmId, semId, rd, count, last, history>>

\* put: clear the slot, copy the packet, advance the offset.
Fill(from, packet, to) ==
  /\ pc[Producer] = from
  /\ LET s == shmId[Producer]
     IN  mem' = [mem EXCEPT ![s].ring[mem[s].offset] = packet]
  /\ Goto(Producer, to)
  /\ UNCHANGED <<shm, shmMade, semVars, shmId, semId, rd, count, last, history>>

Advance ==
  /\ pc[Producer] = "advance"
  /\ mem' = [mem EXCEPT ![shmId[Producer]].offset = NextCell(@)]
  /\ count' = count + 1
  /\ Goto(Producer, "leave")
  /\ UNCHANGED <<shm, shmMade, semVars, shmId, semId, rd, last, history>>

PutStep ==
  \/ Fill("write", 0, "fill")
  \/ Fill("fill", count + 1, "advance")
  \/ Advance

\* Mutant: an empty get moves on too.
Look_moves(c) ==
  LET empty == rd[c] = mem[shmId[c]].offset
  IN  /\ pc[c] = "look"
      /\ Goto(c, IF empty THEN "leave" ELSE "copy")
      /\ rd' = [rd EXCEPT ![c] = IF empty THEN NextCell(@) ELSE @]
      /\ UNCHANGED <<memVars, semVars, shmId, semId, count, last, history>>

\* get: equal offsets mean there is nothing to read.
Look(c) ==
  /\ pc[c] = "look"
  /\ Goto(c, IF rd[c] = mem[shmId[c]].offset THEN "leave" ELSE "copy")
  /\ UNCHANGED <<memVars, semVars, shmId, semId, rd, count, last, history>>

Copy(c) ==
  /\ pc[c] = "copy"
  /\ last' = [last EXCEPT ![c] = mem[shmId[c]].ring[rd[c]]]
  /\ rd' = [rd EXCEPT ![c] = NextCell(@)]
  /\ Goto(c, "leave")
  /\ UNCHANGED <<memVars, semVars, shmId, semId, count, history>>

-----------------------------------------------------------------------------
\* Mutant: semop without SEM_UNDO.
Undo_not(p) == UNCHANGED <<val, adj>>

\* The kernel adds the semadj of a process that ends; never below 0.
Undo(p) ==
  /\ val' = IF val + adj[p] < 0 THEN 0 ELSE val + adj[p]
  /\ adj' = [adj EXCEPT ![p] = 0]

\* A process dies.
Crash(p) ==
  /\ pc[p] # "out"
  /\ Undo(p)
  /\ Goto(p, "out")
  /\ shmId' = [shmId EXCEPT ![p] = 0]
  /\ semId' = [semId EXCEPT ![p] = 0]
  /\ UNCHANGED <<memVars, sem, semMade, rd, count, last, history>>

BufferNext ==
  \/ \E p \in Procs : \/ AttachMem(p) \/ AttachSem(p) \/ Crash(p)
                      \/ Call(p) \/ Enter(p) \/ Release(p)
  \/ \E c \in Consumers : Look(c) \/ Copy(c) \/ Detach(c)
  \/ PutStep
  \/ DetachSem
  \/ DetachMem

\* A running process goes on, and waiters of a semaphore are served in turn.
BufferFairness ==
  /\ \A p \in Procs : WF_bufferVars(Release(p)) /\ SF_bufferVars(Enter(p))
  /\ \A c \in Consumers : WF_bufferVars(Look(c) \/ Copy(c))
  /\ WF_bufferVars(PutStep)

BufferSpec == BufferInit /\ [][BufferNext]_bufferVars /\ BufferFairness

-----------------------------------------------------------------------------
\* A consumer gets whole packets, each newer than the one before, even when
\* it was lapped and when processes died in the middle of put or get
\* (shared_buff.cpp:163-173, 198-210). Not so after the producer came back
\* to the old segment with the consumer past the first slot, which then
\* reads what the earlier producer left, nor once a SETVAL has broken the
\* mutual exclusion.
GetsInOrder ==
  [][\A c \in Consumers :
       (pc[c] = "copy" /\ pc'[c] = "leave" /\ sound[c] /\ ~raced)
         => last'[c] > last[c]]_bufferVars

\* Equal offsets (shared_buff.cpp:198) do not mean that the consumer has read
\* everything, but they do mean that it misses a whole number of rounds.
EmptyMeansWholeRounds ==
  \A c \in Consumers :
    (/\ pc[c] = "look" /\ shmId[c] = shm /\ sound[c] /\ ~raced
     /\ rd[c] = mem[shm].offset)
      => (count - (IF last[c] > base THEN last[c] ELSE base)) % Size = 0

\* put does not wait for ever, although a consumer may die with the semaphore
\* taken and a SETVAL may come at any time (shared_buff.cpp:111-145).
PutReturns == (pc[Producer] = "enter") ~> (pc[Producer] \in {"idle", "out"})
=============================================================================
