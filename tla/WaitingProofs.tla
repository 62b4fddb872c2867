---------------------------- MODULE WaitingProofs ----------------------------
(***************************************************************************)
(* Proofs about the two components whose threads wait for each other at a  *)
(* condition variable:                                                     *)
(*   SyncEvent    for every set of waiters, the consumer count, the        *)
(*                absence of lost wakeups, and when the asserts of wait()  *)
(*                hold (base/thread.cc);                                   *)
(*   TimeoutTask  for every heap, every set of clients and any number of   *)
(*                tasks and of restarts, sound lists, removals that hit    *)
(*                their task, and tasks that stay over                     *)
(*                (util_file/src/util_timeout_task.c).                     *)
(***************************************************************************)
EXTENDS SyncEvent, TimeoutTask, FiniteSetTheorems, TLAPS

-----------------------------------------------------------------------------
\* SyncEvent.

\* The inductive invariant: the three safety invariants need each other (the
\* last thread of a wave recognises itself by the count, and no thread may
\* block while the event is raised).
EventInv ==
  /\ EventTypeOK
  /\ ConsumersCounted
  /\ NoLostWakeup
  /\ WaveKeepsSignal

\* The set of counted threads is finite, and empty exactly at count zero.
LEMMA CountedFinite ==
  /\ IsFiniteSet(Counted)
  /\ Cardinality(Counted) \in Nat
  /\ Cardinality(Counted) = 0 <=> Counted = {}
<1>1. Counted \in SUBSET Waiters
  BY DEF Counted
<1>2. IsFiniteSet(Counted)
  BY <1>1, EventAssumption, FS_Subset DEF EventAssumption
<1> QED
  BY <1>2, FS_CardinalityType, FS_EmptySet

\* A thread that goes from outside into the wait adds one to the count.
LEMMA CountedEnter ==
  ASSUME EventTypeOK, NEW t \in Waiters, where[t] = "out",
         where' = [where EXCEPT ![t] = "blocked"]
  PROVE  Cardinality(Counted') = Cardinality(Counted) + 1
<1>1. Counted' = Counted \cup {t} /\ t \notin Counted
  BY DEF EventTypeOK, Counted
<1> QED
  BY <1>1, CountedFinite, FS_AddElement

\* A thread that goes from inside to outside takes one from the count.
LEMMA CountedLeave ==
  ASSUME EventTypeOK, NEW t \in Waiters, where[t] \in {"woken", "expired"},
         NEW p \in {"out", "aborted"}, where' = [where EXCEPT ![t] = p]
  PROVE  /\ t \in Counted
         /\ Counted' = Counted \ {t}
         /\ Cardinality(Counted') = Cardinality(Counted) - 1
<1>1. Counted' = Counted \ {t} /\ t \in Counted
  BY DEF EventTypeOK, Counted
<1> QED
  BY <1>1, CountedFinite, FS_RemoveElement

\* A thread that changes places inside the wait leaves the count alone.
LEMMA CountedMove ==
  ASSUME EventTypeOK, NEW t \in Waiters, where[t] = "blocked",
         NEW p \in {"woken", "expired"}, where' = [where EXCEPT ![t] = p]
  PROVE  Counted' = Counted
BY DEF EventTypeOK, Counted

LEMMA InitEventInv == EventInit => EventInv
<1> SUFFICES ASSUME EventInit PROVE EventInv
  OBVIOUS
<1>1. Counted = {}
  BY DEF EventInit, Counted
<1>2. ConsumersCounted
  BY <1>1, FS_EmptySet DEF EventInit, ConsumersCounted
<1> QED
  BY <1>2 DEF EventInit, EventInv, EventTypeOK, Places, NoLostWakeup,
              WaveKeepsSignal, EventAlive, In

LEMMA SignalInv == EventInv /\ Signal => EventInv'
<1> SUFFICES ASSUME EventInv, Signal PROVE EventInv'
  OBVIOUS
<1> USE DEF EventInv, EventTypeOK
<1>1. EventTypeOK'
  BY DEF Signal, Broadcast, Places
<1>2. Counted' = Counted
  BY DEF Signal, Broadcast, Counted
<1>3. ConsumersCounted'
  BY <1>2 DEF Signal, Broadcast, ConsumersCounted
<1>4. NoLostWakeup'
  BY DEF Signal, Broadcast, NoLostWakeup, In
<1>5. WaveKeepsSignal'
  BY DEF Signal, Broadcast, WaveKeepsSignal, EventAlive, In
<1> QED
  BY <1>1, <1>3, <1>4, <1>5

LEMMA ResetInv ==
  ASSUME EventInv, NEW t \in Resetters, Reset(t)
  PROVE  EventInv'
<1> USE DEF EventInv, EventTypeOK
<1>1. EventTypeOK'
  BY DEF Reset
<1>2. Counted' = Counted
  BY DEF Reset, Counted
<1>3. ConsumersCounted'
  BY <1>2 DEF Reset, ConsumersCounted
<1>4. NoLostWakeup'
  BY DEF Reset, NoLostWakeup
<1>5. WaveKeepsSignal'
  BY DEF Reset, WaveKeepsSignal, EventAlive, In
<1> QED
  BY <1>1, <1>3, <1>4, <1>5

\* With auto reset, a thread that finds the event raised lowers it only when
\* nobody is counted, and then nobody is on the way out either.
LEMMA WaitFastInv ==
  ASSUME EventInv, NEW t \in Waiters, WaitFast(t)
  PROVE  EventInv'
<1> USE DEF EventInv, EventTypeOK
<1>1. EventTypeOK'
  BY EventAssumption DEF WaitFast, Leave, EventAssumption
<1>2. Counted' = Counted
  BY DEF WaitFast, Counted
<1>3. ConsumersCounted'
  BY <1>2 DEF WaitFast, ConsumersCounted
<1>4. NoLostWakeup'
  BY DEF WaitFast, NoLostWakeup, In
<1>5. WaveKeepsSignal'
  <2>1. In("woken") # {} => Counted # {}
    BY DEF In, Counted
  <2>2. In("woken") # {} => signaled'
    BY <2>1, CountedFinite DEF WaitFast, Leave, ConsumersCounted
  <2> QED
    BY <2>2 DEF WaitFast, WaveKeepsSignal, EventAlive, In
<1> QED
  BY <1>1, <1>3, <1>4, <1>5

LEMMA WaitBlockInv ==
  ASSUME EventInv, NEW t \in Waiters, WaitBlock(t)
  PROVE  EventInv'
<1> USE DEF EventInv, EventTypeOK
<1>1. EventTypeOK'
  BY DEF WaitBlock, CountIn, Places
<1>2. ConsumersCounted'
  BY CountedEnter DEF WaitBlock, CountIn, ConsumersCounted
<1>3. NoLostWakeup'
  BY DEF WaitBlock, CountIn, NoLostWakeup
<1>4. WaveKeepsSignal'
  BY DEF WaitBlock, CountIn, WaveKeepsSignal, EventAlive, In
<1> QED
  BY <1>1, <1>2, <1>3, <1>4

LEMMA ExpireInv ==
  ASSUME EventInv, NEW t \in Waiters, Expire(t)
  PROVE  EventInv'
<1> USE DEF EventInv, EventTypeOK
<1>1. EventTypeOK'
  BY DEF Expire, Places
<1>2. ConsumersCounted'
  BY CountedMove DEF Expire, ConsumersCounted
<1>3. NoLostWakeup'
  BY DEF Expire, NoLostWakeup, In
<1>4. WaveKeepsSignal'
  BY DEF Expire, WaveKeepsSignal, EventAlive, In
<1> QED
  BY <1>1, <1>2, <1>3, <1>4

LEMMA WakeSpuriouslyInv ==
  ASSUME EventInv, NEW t \in Waiters, WakeSpuriously(t)
  PROVE  EventInv'
<1> USE DEF EventInv, EventTypeOK
<1>1. EventTypeOK'
  BY DEF WakeSpuriously, Places
<1>2. ConsumersCounted'
  BY CountedMove DEF WakeSpuriously, ConsumersCounted
<1>3. NoLostWakeup'
  BY DEF WakeSpuriously, NoLostWakeup, In
<1>4. WaveKeepsSignal'
  BY DEF WakeSpuriously, WaveKeepsSignal
<1> QED
  BY <1>1, <1>2, <1>3, <1>4

\* The step the count is for: a released thread lowers an auto-reset event
\* only if the count shows that no other released thread is left.
LEMMA WaitReturnInv ==
  ASSUME EventInv, NEW t \in Waiters, WaitReturn(t)
  PROVE  EventInv'
<1> USE DEF EventInv, EventTypeOK
<1> DEFINE p == IF signaled THEN "out" ELSE "aborted"
<1>0. /\ p \in {"out", "aborted"}
      /\ where' = [where EXCEPT ![t] = p]
  BY DEF WaitReturn, CountOut
<1> HIDE DEF p
<1>1. /\ t \in Counted
      /\ Counted' = Counted \ {t}
      /\ Cardinality(Counted') = Cardinality(Counted) - 1
  BY <1>0, CountedLeave DEF WaitReturn, CountOut
<1>2. consumer' = Cardinality(Counted')
  BY <1>1 DEF WaitReturn, CountOut, ConsumersCounted
<1>3. consumer > 0
  BY <1>1, CountedFinite DEF ConsumersCounted
<1>4. EventTypeOK'
  BY <1>0, <1>3, EventAssumption DEF WaitReturn, CountOut, Leave, Places, EventAssumption
<1>5. ConsumersCounted'
  BY <1>2 DEF ConsumersCounted
<1>6. NoLostWakeup'
  BY <1>0 DEF WaitReturn, CountOut, NoLostWakeup, In
<1>7. WaveKeepsSignal'
  <2> SUFFICES ASSUME ~disturbed
               PROVE  EventAlive' /\ (In("woken")' # {} => signaled')
    BY DEF WaveKeepsSignal, WaitReturn, CountOut
  <2>1. signaled
    BY DEF WaitReturn, CountOut, WaveKeepsSignal, In
  <2>2. EventAlive'
    BY <2>1 DEF WaitReturn, CountOut, EventAlive, In
  <2>3. ASSUME In("woken")' # {} PROVE signaled'
    <3>1. PICK u \in Waiters : where'[u] = "woken"
      BY <2>3 DEF In
    <3>2. u \in Counted \ {t}
      BY <3>1, <2>1 DEF WaitReturn, CountOut, Counted
    <3>3. Counted' # {}
      BY <3>2, <1>1
    <3>4. IsFiniteSet(Counted')
      BY <1>1, CountedFinite, FS_RemoveElement
    <3>5. Cardinality(Counted') # 0
      BY <3>3, <3>4, FS_EmptySet
    <3> QED
      BY <3>5, <2>1, <1>2 DEF WaitReturn, CountOut, Leave
  <2> QED
    BY <2>2, <2>3
<1> QED
  BY <1>4, <1>5, <1>6, <1>7

LEMMA WaitTimeoutInv ==
  ASSUME EventInv, NEW t \in Waiters, WaitTimeout(t)
  PROVE  EventInv'
<1> USE DEF EventInv, EventTypeOK
<1>1. /\ t \in Counted
      /\ Cardinality(Counted') = Cardinality(Counted) - 1
  BY CountedLeave DEF WaitTimeout, CountOut
<1>2. consumer > 0
  BY <1>1, CountedFinite DEF ConsumersCounted
<1>3. EventTypeOK'
  BY <1>2 DEF WaitTimeout, CountOut, Places
<1>4. ConsumersCounted'
  BY <1>1 DEF WaitTimeout, CountOut, ConsumersCounted
<1>5. NoLostWakeup'
  BY DEF WaitTimeout, CountOut, NoLostWakeup, In
<1>6. WaveKeepsSignal'
  BY DEF WaitTimeout, CountOut, WaveKeepsSignal, EventAlive, In
<1> QED
  BY <1>3, <1>4, <1>5, <1>6

LEMMA NextEventInv == EventInv /\ [EventNext]_eventVars => EventInv'
<1> SUFFICES ASSUME EventInv, [EventNext]_eventVars PROVE EventInv'
  OBVIOUS
<1>1. CASE Signal
  BY <1>1, SignalInv
<1>2. CASE \E t \in Resetters : Reset(t)
  BY <1>2, ResetInv
<1>3. CASE \E t \in Waiters : WaiterStep(t)
  BY <1>3, WaitFastInv, WaitBlockInv, ExpireInv, WakeSpuriouslyInv,
     WaitReturnInv, WaitTimeoutInv DEF WaiterStep
<1>4. CASE UNCHANGED eventVars
  BY <1>4 DEF eventVars, EventInv, EventTypeOK, ConsumersCounted, Counted,
              NoLostWakeup, WaveKeepsSignal, EventAlive, In
<1> QED
  BY <1>1, <1>2, <1>3, <1>4 DEF EventNext

\* For every set of waiters, whoever times out or resets: the count is exact,
\* no wakeup is lost, and the asserts hold unless the event was disturbed.
THEOREM EventInvariant == EventSpec => []EventInv
BY InitEventInv, NextEventInv, PTL DEF EventSpec

\* signal() may skip the broadcast on a raised event (thread.h:79).
THEOREM EventNoLostWakeup == EventSpec => []NoLostWakeup
<1>1. EventInv => NoLostWakeup
  BY DEF EventInv
<1> QED
  BY <1>1, EventInvariant, PTL

\* _consumer never drifts from the threads it counts (thread.cc:58-60, 94-96).
THEOREM EventConsumersCounted == EventSpec => []ConsumersCounted
<1>1. EventInv => ConsumersCounted
  BY DEF EventInv
<1> QED
  BY <1>1, EventInvariant, PTL

\* Threads of one wave never lower the event under each other.
THEOREM EventWaveKeepsSignal == EventSpec => []WaveKeepsSignal
<1>1. EventInv => WaveKeepsSignal
  BY DEF EventInv
<1> QED
  BY <1>1, EventInvariant, PTL

\* The last thread of a wave finds the count at zero, if nobody timed out.
LEMMA LastOfWaveLowers ==
  ASSUME EventInv, ~ManualReset, ~disturbed, In("expired") = {},
         NEW t \in Waiters, WaitReturn(t), In("woken")' = {}
  PROVE  ~signaled'
<1> USE DEF EventInv, EventTypeOK
<1>1. signaled
  BY DEF WaitReturn, CountOut, WaveKeepsSignal, In
<1>2. /\ Counted' = Counted \ {t}
      /\ Cardinality(Counted') = Cardinality(Counted) - 1
  BY <1>1, CountedLeave DEF WaitReturn, CountOut
<1>3. Counted' = {}
  BY <1>1 DEF WaitReturn, CountOut, NoLostWakeup, Counted, In
<1>4. consumer - 1 = 0
  BY <1>2, <1>3, FS_EmptySet DEF ConsumersCounted
<1> QED
  BY <1>1, <1>4 DEF WaitReturn, CountOut, Leave

\* One signal of an auto-reset event lets through one wave (thread.cc:64, 103).
THEOREM EventWaveConsumesSignal == EventSpec => WaveConsumesSignal
<1>1. ASSUME EventInv, [EventNext]_eventVars
      PROVE  [(/\ ~ManualReset
               /\ ~disturbed
               /\ In("woken") # {}
               /\ In("woken")' = {}
               /\ In("expired") = {}) => ~signaled']_eventVars
  <2> SUFFICES ASSUME EventNext, ~ManualReset, ~disturbed, In("woken") # {},
                      In("woken")' = {}, In("expired") = {}
               PROVE  ~signaled'
    BY <1>1 DEF EventInv
  <2>1. PICK u \in Waiters : where[u] = "woken" /\ where'[u] # "woken"
    BY DEF In
  <2>2. CASE Signal
    BY <1>1, <2>1, <2>2 DEF Signal, Broadcast, EventInv, EventTypeOK
  <2>3. CASE \E t \in Resetters : Reset(t)
    BY <2>1, <2>3 DEF Reset
  <2>4. ASSUME NEW t \in Waiters, WaiterStep(t) PROVE ~signaled'
    <3>1. WaitReturn(t)
      BY <1>1, <2>1, <2>4 DEF WaiterStep, WaitFast, WaitBlock, CountIn, Expire,
         WakeSpuriously, WaitTimeout, EventInv, EventTypeOK
    <3> QED
      BY <1>1, <3>1, LastOfWaveLowers
  <2> QED
    BY <2>2, <2>3, <2>4 DEF EventNext
<1> QED
  BY <1>1, EventInvariant, PTL DEF EventSpec, WaveConsumesSignal

-----------------------------------------------------------------------------
\* TimeoutTask.

\* What ListsSound and TimelyRemoveHitsItsTask need to be inductive: what a
\* client holds between the two steps of an add is its own, a task that is being
\* unlinked has a cancelled worker or none, and that only under the lock, and a
\* timer that is shut down has only strays on its lists.
Adding(c) == client[c].op = "add"

AddsOwn ==
  \A c \in Clients : Adding(c) =>
    /\ task[client[c].id].number = client[c].of
    /\ task[client[c].id].at = "none"
    /\ ~task[client[c].id].cancel
    /\ Linked(client[c].id) => BeingCut(client[c].id)

AddsApart ==
  \A c, d \in Clients :
    (Adding(c) /\ Adding(d) /\ client[c].id = client[d].id) => c = d

WorkersNumbered == \A a \in Addr : task[a].at # "none" => task[a].number # 0

CutOwn ==
  /\ \A k, l \in cut : k = l
  /\ \A k \in cut :
       /\ k.id \notin pending
       /\ task[k.id].at # "none" => task[k.id].number = k.of /\ task[k.id].cancel
  /\ cut # {} => ~Unlocked

\* The calls only the owner makes.
OwnerCalls == {"clear", "start", "cancel", "join"}

ShutDown ==
  /\ \A c \in Clients : client[c].op \in OwnerCalls => c = Owner
  /\ checker = "off" => ~running \/ client[Owner].op = "start"
  /\ client[Owner].op = "join" => ~running
  /\ client[Owner].op \in {"clear", "start"} => checker = "off"
  /\ Shut => \A a \in Addr : Linked(a) => task[a].stray \/ BeingCut(a)

TimerInv ==
  /\ TimerTypeOK
  /\ ListsSound
  /\ TimelyRemoveHitsItsTask
  /\ AddsOwn
  /\ AddsApart
  /\ WorkersNumbered
  /\ CutOwn
  /\ ShutDown

\* A client is between two calls, in a call of the owner, or adds or removes.
LEMMA ClientKinds ==
  /\ \A op \in OwnerCalls \cup {"idle"} : Inside(op) \in Insides /\ Inside(op).op = op
  /\ Idle \in Insides /\ Idle.op = "idle"
  /\ TimerTypeOK => \A c \in Clients :
       client[c].op \in {"add", "remove"} => client[c] \in Calls
  BY DEF OwnerCalls, Insides, Inside, Idle, TimerTypeOK

LEMMA FreeInfo == FreeBlock \in Info /\ FreeBlock.at = "none" /\ FreeBlock.number = 0
  BY TimerAssumption DEF TimerAssumption, Info, FreeBlock, Block, WorkerPlaces

\* The initial state, then one lemma for every action, with one step for every
\* conjunct of TimerInv.
LEMMA TimerInvInit == TimerInit => TimerInv
<1> SUFFICES ASSUME TimerInit PROVE TimerInv
  OBVIOUS
<1> USE ClientKinds, FreeInfo DEF TimerInit
<1>1. TimerTypeOK
  <2>1. tasks \in 0..MaxTasks /\ inits \in 0..MaxInits
    BY TimerAssumption DEF TimerAssumption
  <2>2. client \in [Clients -> Insides \cup Calls]
    OBVIOUS
  <2> QED
    BY <2>1, <2>2 DEF TimerTypeOK
<1>2. ListsSound /\ WorkersNumbered
  BY DEF ListsSound, WorkersNumbered
<1>3. TimelyRemoveHitsItsTask
  BY DEF TimelyRemoveHitsItsTask
<1>4. AddsOwn /\ AddsApart /\ ShutDown /\ CutOwn
  BY TimerAssumption
     DEF TimerAssumption, AddsOwn, AddsApart, ShutDown, CutOwn, Adding, Linked, OwnerCalls
<1> QED
  BY <1>1, <1>2, <1>3, <1>4 DEF TimerInv

\* init.
LEMMA TaskInitInv ==
  ASSUME TimerInv, NEW c \in Clients, TaskInit(c)
  PROVE  TimerInv'
<1> USE ClientKinds, TimerAssumption DEF TimerInv, TimerAssumption, TaskInit, Goto, OwnerCalls, flags
<1>1. client' \in [Clients -> Insides \cup Calls] /\ client'[c].op = "clear"
  BY DEF TimerTypeOK
<1>2. \A d \in Clients : d # c => client'[d] = client[d]
  BY DEF TimerTypeOK
<1>3. Unlocked /\ cut = {} /\ Shut
  BY DEF Unlocked, CutOwn, ShutDown, Shut
<1>4. TimerTypeOK'
  BY <1>1 DEF TimerTypeOK
<1>5. ListsSound'
  BY <1>3 DEF ListsSound, ShutDown, Linked, BeingCut
<1>6. TimelyRemoveHitsItsTask'
  BY DEF TimelyRemoveHitsItsTask
<1>7. AddsOwn' /\ AddsApart'
  BY <1>1, <1>2 DEF AddsOwn, AddsApart, Adding, Linked
<1>8. WorkersNumbered' /\ CutOwn'
  BY <1>3 DEF WorkersNumbered, CutOwn
<1>9. ShutDown'
  BY <1>1, <1>2 DEF ShutDown, Shut
<1> QED
  BY <1>4, <1>5, <1>6, <1>7, <1>8, <1>9

LEMMA InitRunningInv ==
  ASSUME TimerInv, NEW c \in Clients, InitRunning(c)
  PROVE  TimerInv'
<1> USE ClientKinds, TimerAssumption DEF TimerInv, TimerAssumption, InitRunning, Goto, OwnerCalls,
   lists, history
<1>1. client' \in [Clients -> Insides \cup Calls] /\ client'[c].op = "start"
  BY DEF TimerTypeOK
<1>2. \A d \in Clients : d # c => client'[d] = client[d]
  BY DEF TimerTypeOK
<1>3. Unlocked' <=> Unlocked
  BY <1>1, <1>2 DEF Unlocked
<1>4. TimerTypeOK'
  BY <1>1 DEF TimerTypeOK
<1>5. ListsSound'
  BY DEF ListsSound, BeingCut
<1>6. TimelyRemoveHitsItsTask'
  BY <1>3 DEF TimelyRemoveHitsItsTask, Linked, BeingCut
<1>7. AddsOwn' /\ AddsApart'
  BY <1>1, <1>2 DEF AddsOwn, AddsApart, Adding, Linked, BeingCut
<1>8. WorkersNumbered' /\ CutOwn'
  BY <1>3 DEF WorkersNumbered, CutOwn
<1>9. ShutDown'
  BY <1>1, <1>2 DEF ShutDown, Shut
<1> QED
  BY <1>4, <1>5, <1>6, <1>7, <1>8, <1>9

\* deinit.
LEMMA DeinitInv ==
  ASSUME TimerInv, NEW c \in Clients, Deinit(c)
  PROVE  TimerInv'
<1> USE ClientKinds, TimerAssumption DEF TimerInv, TimerAssumption, Deinit, Goto, OwnerCalls,
   flags, lists, history
<1>1. client' \in [Clients -> Insides \cup Calls] /\ client'[c].op = "cancel"
  BY DEF TimerTypeOK
<1>2. \A d \in Clients : d # c => client'[d] = client[d]
  BY DEF TimerTypeOK
<1>3. cut = {} /\ Unlocked /\ ~Unlocked'
  BY <1>1 DEF Unlocked, CutOwn
<1>4. TimerTypeOK'
  BY <1>1 DEF TimerTypeOK
<1>5. ListsSound'
  BY DEF ListsSound, BeingCut
<1>6. TimelyRemoveHitsItsTask'
  BY <1>3 DEF TimelyRemoveHitsItsTask, Linked, BeingCut
<1>7. AddsOwn' /\ AddsApart'
  BY <1>1, <1>2 DEF AddsOwn, AddsApart, Adding, Linked, BeingCut
<1>8. WorkersNumbered' /\ CutOwn'
  BY <1>3 DEF WorkersNumbered, CutOwn
<1>9. ShutDown'
  BY <1>1, <1>2 DEF ShutDown, Shut
<1> QED
  BY <1>4, <1>5, <1>6, <1>7, <1>8, <1>9

\* The two statements that end a living task, under the lock.
LEMMA CancelInv ==
  ASSUME TimerInv, ~Unlocked, cut = {}, NEW a \in living, Cancel(a),
         removing' \subseteq removing,
         UNCHANGED <<running, update, missed, pending, living, checker, client, history>>,
         broken' \in BOOLEAN
  PROVE  TimerInv'
<1> USE DEF TimerInv, Cancel, history
<1>1. a \in Addr /\ task[a].number \in 1..MaxTasks /\ task[a].at # "none"
  BY TimerAssumption
     DEF TimerAssumption, TimerTypeOK, Info, ListsSound, BeingCut, WorkersNumbered
<1>2. /\ task' \in [Addr -> Info]
      /\ task'[a] = [task[a] EXCEPT !.cancel = TRUE]
      /\ \A b \in Addr : b # a => task'[b] = task[b]
  BY <1>1 DEF TimerTypeOK, Info
<1>3. task[a] \in Info
  BY <1>1 DEF TimerTypeOK
<1>4. /\ task'[a].cancel
      /\ task'[a].number = task[a].number
      /\ task'[a].at = task[a].at
      /\ task'[a].stray = task[a].stray
  BY <1>2, <1>3 DEF Info
<1>5. TimerTypeOK'
  BY <1>1, <1>2 DEF TimerTypeOK
<1>6. BeingCut(a)' /\ ~Unlocked'
  BY DEF BeingCut, Unlocked
<1>7. ListsSound'
  BY <1>1, <1>2, <1>4, <1>6 DEF ListsSound, BeingCut, TimerTypeOK
<1>8. TimelyRemoveHitsItsTask'
  <2>1. ASSUME NEW r \in removing', ~r.late, Linked(r.id)', r.id # a
        PROVE  task'[r.id].number = r.of
    BY <1>2, <2>1 DEF TimelyRemoveHitsItsTask, Linked, BeingCut, TimerTypeOK
  <2> QED
    BY <1>6, <2>1 DEF TimelyRemoveHitsItsTask, BeingCut
<1>9. AddsOwn' /\ AddsApart'
  BY <1>1, <1>2, ClientKinds
     DEF AddsOwn, AddsApart, Adding, Linked, BeingCut, TimerTypeOK, Calls
<1>10. WorkersNumbered' /\ CutOwn'
  BY <1>1, <1>2, <1>4, <1>6 DEF WorkersNumbered, CutOwn, ListsSound
<1>11. ShutDown'
  BY <1>2, <1>4 DEF ShutDown, Shut, Linked, BeingCut
<1> QED
  BY <1>5, <1>7, <1>8, <1>9, <1>10, <1>11

LEMMA UnlinkInv ==
  ASSUME TimerInv, Unlink,
         UNCHANGED <<flags, pending, removing, checker, task, client, history>>
  PROVE  TimerInv'
<1> USE DEF TimerInv, flags, history
<1>1. CASE UNCHANGED <<living, cut>> /\ broken' = TRUE
  BY <1>1 DEF TimerTypeOK, ListsSound, TimelyRemoveHitsItsTask, AddsOwn, AddsApart, Adding,
     WorkersNumbered, CutOwn, ShutDown, Shut, Linked, BeingCut, Unlocked
<1>2. ASSUME NEW k \in cut, living' = living \ {k.id}, cut' = {}, UNCHANGED broken
      PROVE  TimerInv'
  <2>1. \A a : BeingCut(a) => a = k.id
    BY <1>2 DEF BeingCut, CutOwn
  <2>2. ~Unlocked' /\ (Shut' <=> Shut) /\ \A a : Linked(a)' => Linked(a) /\ a # k.id
    BY <1>2 DEF CutOwn, Unlocked, Shut, Linked
  <2>3. TimerTypeOK'
    BY <1>2 DEF TimerTypeOK
  <2>4. ListsSound'
    BY <1>2, <2>1 DEF ListsSound, CutOwn, TimerTypeOK
  <2>5. TimelyRemoveHitsItsTask'
    BY <2>1, <2>2 DEF TimelyRemoveHitsItsTask
  <2>6. AddsOwn' /\ AddsApart'
    BY <2>1, <2>2 DEF AddsOwn, AddsApart, Adding
  <2>7. WorkersNumbered' /\ CutOwn'
    BY <1>2 DEF WorkersNumbered, CutOwn
  <2>8. ShutDown'
    BY <2>1, <2>2 DEF ShutDown
  <2> QED
    BY <2>3, <2>4, <2>5, <2>6, <2>7, <2>8
<1> QED
  BY <1>1, <1>2 DEF Unlink

LEMMA DeinitCutInv ==
  ASSUME TimerInv, NEW c \in Clients, DeinitCancel(c) \/ DeinitUnlink(c)
  PROVE  TimerInv'
<1>1. CASE DeinitCancel(c)
  <2>1. ~Unlocked /\ broken \in BOOLEAN
    BY <1>1 DEF DeinitCancel, Unlocked, TimerInv, TimerTypeOK
  <2>2. PICK a \in living : Cancel(a)
    BY <1>1 DEF DeinitCancel
  <2> QED
    BY <1>1, <2>1, <2>2, CancelInv DEF DeinitCancel, flags, lists
<1>2. CASE DeinitUnlink(c)
  BY <1>2, UnlinkInv DEF DeinitUnlink
<1> QED
  BY <1>1, <1>2

LEMMA DeinitFreeInv ==
  ASSUME TimerInv, NEW c \in Clients, DeinitFree(c)
  PROVE  TimerInv'
<1> USE ClientKinds, TimerAssumption DEF TimerInv, TimerAssumption, DeinitFree, Notify, Goto,
   OwnerCalls, history
<1>1. client' \in [Clients -> Insides \cup Calls] /\ client'[c].op = "join"
  BY DEF TimerTypeOK
<1>2. \A d \in Clients : d # c => client'[d] = client[d]
  BY DEF TimerTypeOK
<1>3. /\ task' \in [Addr -> Info]
      /\ \A a \in pending : task'[a] = FreeBlock
      /\ \A a \in Addr : a \notin pending => task'[a] = task[a]
  BY FreeInfo DEF TimerTypeOK
<1>4. TimerTypeOK'
  BY <1>1, <1>3 DEF TimerTypeOK
<1>5. ListsSound'
  BY <1>3, FreeInfo DEF ListsSound
<1>6. TimelyRemoveHitsItsTask'
  BY DEF TimelyRemoveHitsItsTask
<1>7. AddsOwn' /\ AddsApart'
  BY <1>1, <1>2, <1>3 DEF AddsOwn, AddsApart, Adding, Linked, BeingCut, TimerTypeOK, Calls
<1>8. WorkersNumbered' /\ CutOwn'
  BY <1>3, FreeInfo DEF WorkersNumbered, CutOwn
<1>9. ShutDown'
  BY <1>1, <1>2 DEF ShutDown, Linked
<1> QED
  BY <1>4, <1>5, <1>6, <1>7, <1>8, <1>9

\* A client's call ends: nothing that the invariant says of the lists changes.
LEMMA DeinitJoinInv ==
  ASSUME TimerInv, NEW c \in Clients, DeinitJoin(c) \/ InitStart(c)
  PROVE  TimerInv'
<1> USE ClientKinds, TimerAssumption DEF TimerInv, TimerAssumption, DeinitJoin, InitStart,
   Return, Goto, OwnerCalls, flags, lists, history
<1>1. client' \in [Clients -> Insides \cup Calls] /\ client'[c].op = "idle"
  BY DEF TimerTypeOK
<1>2. \A d \in Clients : d # c => client'[d] = client[d]
  BY DEF TimerTypeOK
<1>3. Unlocked' <=> Unlocked
  BY <1>1, <1>2 DEF Unlocked, ShutDown
<1>4. TimerTypeOK'
  BY <1>1 DEF TimerTypeOK
<1>5. ListsSound'
  BY DEF ListsSound, BeingCut
<1>6. TimelyRemoveHitsItsTask'
  BY <1>3 DEF TimelyRemoveHitsItsTask, Linked, BeingCut
<1>7. AddsOwn' /\ AddsApart'
  BY <1>1, <1>2 DEF AddsOwn, AddsApart, Adding, Linked, BeingCut
<1>8. WorkersNumbered' /\ CutOwn'
  BY <1>3 DEF WorkersNumbered, CutOwn
<1>9. ShutDown'
  BY <1>1, <1>2 DEF ShutDown, Shut, Linked, BeingCut
<1> QED
  BY <1>4, <1>5, <1>6, <1>7, <1>8, <1>9

\* add and remove.
LEMMA AddBeginInv ==
  ASSUME TimerInv, NEW c \in Clients, AddBegin(c)
  PROVE  TimerInv'
<1> USE TimerAssumption DEF TimerInv, TimerAssumption, AddBegin, flags, lists
<1>1. PICK b \in Addr, onetime \in BOOLEAN :
        /\ task[b].number = 0
        /\ task' = [task EXCEPT ![b] = Block(tasks + 1, onetime)]
        /\ client' = [client EXCEPT ![c] = [op |-> "add", id |-> b, of |-> tasks + 1]]
  OBVIOUS
<1>2. tasks \in Nat /\ tasks + 1 \in 1..MaxTasks
  BY DEF TimerTypeOK
<1>3. /\ Block(tasks + 1, onetime) \in Info
      /\ task'[b].number = tasks + 1
      /\ task'[b].at = "none"
      /\ ~task'[b].cancel
  BY <1>1, <1>2 DEF Block, Info, WorkerPlaces, TimerTypeOK
<1>4. /\ \A a \in Addr : a # b => task'[a] = task[a]
      /\ task' \in [Addr -> Info]
  BY <1>1, <1>3 DEF TimerTypeOK
<1>5. /\ \A d \in Clients : d # c => client'[d] = client[d]
      /\ client'[c] = [op |-> "add", id |-> b, of |-> tasks + 1]
      /\ client' \in [Clients -> Insides \cup Calls]
  BY <1>1, <1>2 DEF TimerTypeOK, Calls
<1>6. b \notin pending /\ task[b].at = "none" /\ (b \in living => BeingCut(b))
  BY <1>1 DEF ListsSound, WorkersNumbered
<1>7. \A d \in Clients : Adding(d) => client[d].id \in Addr /\ client[d].id # b
  BY <1>1, ClientKinds DEF Adding, AddsOwn, Calls, TimerTypeOK
<1>8. Unlocked' <=> Unlocked
  BY <1>5 DEF Unlocked, Idle, Inside
<1>9. TimerTypeOK'
  BY <1>2, <1>4, <1>5 DEF TimerTypeOK
<1>10. ListsSound'
  BY <1>3, <1>4, <1>6 DEF ListsSound, BeingCut, TimerTypeOK
<1>11. TimelyRemoveHitsItsTask'
  BY <1>4, <1>6, <1>8 DEF TimelyRemoveHitsItsTask, Linked, BeingCut, TimerTypeOK
<1>12. AddsOwn' /\ AddsApart'
  BY <1>3, <1>4, <1>5, <1>6, <1>7 DEF AddsOwn, AddsApart, Adding, Linked, BeingCut
<1>13. WorkersNumbered' /\ CutOwn'
  BY <1>3, <1>4, <1>8 DEF WorkersNumbered, CutOwn, TimerTypeOK
<1>14. ShutDown'
  BY <1>4, <1>5, <1>6 DEF ShutDown, Shut, Linked, BeingCut, OwnerCalls, Idle, Inside
<1> QED
  BY <1>9, <1>10, <1>11, <1>12, <1>13, <1>14

LEMMA AddInsertInv ==
  ASSUME TimerInv, NEW c \in Clients, AddInsert(c)
  PROVE  TimerInv'
<1> USE DEF TimerInv, AddInsert, Notify, Return, Goto
<1> DEFINE b == client[c].id
<1>1. client[c] \in Calls /\ b \in Addr /\ client[c].of \in 1..MaxTasks
  BY ClientKinds DEF Calls
<1>2. client' \in [Clients -> Insides \cup Calls] /\ client'[c].op = "idle"
  BY ClientKinds DEF TimerTypeOK
<1>3. \A d \in Clients : d # c => client'[d] = client[d]
  BY DEF TimerTypeOK
<1>4. /\ task' \in [Addr -> Info]
      /\ \A a \in Addr : a # b => task'[a] = task[a]
      /\ task'[b] = IF Shut THEN [task[b] EXCEPT !.stray = TRUE] ELSE task[b]
  BY <1>1 DEF TimerTypeOK, Info
<1>5. /\ task'[b].number = client[c].of
      /\ task'[b].at = "none"
      /\ ~task'[b].cancel
      /\ Shut => task'[b].stray
  BY <1>1, <1>4 DEF AddsOwn, Adding, TimerTypeOK, Info
<1>6. task'[b].number = task[b].number
  BY <1>5 DEF AddsOwn, Adding
<1>7. cut = {} /\ Unlocked'
  BY <1>2, <1>3 DEF CutOwn, Unlocked
<1>8. TimerTypeOK'
  <2>1. pending' \subseteq Addr /\ given' \subseteq [id : Addr, of : 1..MaxTasks]
    BY <1>1 DEF TimerTypeOK
  <2>2. client' \in [Clients -> Insides \cup Calls] /\ task' \in [Addr -> Info]
    BY <1>2, <1>4
  <2> HIDE DEF b
  <2> QED
    BY <2>1, <2>2 DEF TimerTypeOK
<1>9. ListsSound'
  BY <1>1, <1>4, <1>5 DEF ListsSound, BeingCut, TimerTypeOK
<1>10. TimelyRemoveHitsItsTask'
  <2>1. ASSUME NEW r \in removing, ~r.late
        PROVE  Linked(r.id)' /\ task'[r.id].number = r.of
    BY <1>4, <1>6, <1>7, <2>1 DEF TimelyRemoveHitsItsTask, Linked, BeingCut, TimerTypeOK
  <2> QED
    BY <2>1 DEF TimelyRemoveHitsItsTask
<1>11. AddsOwn' /\ AddsApart'
  <2>1. ASSUME NEW d \in Clients, Adding(d)'
        PROVE  /\ d # c
               /\ client'[d] = client[d]
               /\ client[d].id \in Addr
               /\ client[d].id # b
    BY <1>2, <1>3, <2>1, ClientKinds DEF Adding, AddsApart, Calls
  <2> QED
    BY <1>4, <1>7, <2>1 DEF AddsOwn, AddsApart, Adding, Linked, BeingCut
<1>12. WorkersNumbered' /\ CutOwn'
  BY <1>4, <1>5, <1>7 DEF WorkersNumbered, CutOwn
<1>13. ShutDown'
  BY <1>1, <1>2, <1>3, <1>4, <1>5, <1>7
     DEF ShutDown, Shut, Linked, BeingCut, OwnerCalls
<1> QED
  BY <1>8, <1>9, <1>10, <1>11, <1>12, <1>13

LEMMA RemoveBeginInv ==
  ASSUME TimerInv, NEW c \in Clients, RemoveBegin(c)
  PROVE  TimerInv'
<1> USE DEF TimerInv, RemoveBegin, flags, lists
<1>1. PICK g \in given :
        /\ given' = given \ {g}
        /\ client' = [client EXCEPT ![c] = [op |-> "remove", id |-> g.id, of |-> g.of]]
  OBVIOUS
<1>2. client' \in [Clients -> Insides \cup Calls] /\ client'[c].op = "remove"
  BY <1>1 DEF TimerTypeOK, Calls
<1>3. \A d \in Clients : d # c => client'[d] = client[d]
  BY <1>1 DEF TimerTypeOK
<1>4. Unlocked' <=> Unlocked
  BY <1>2, <1>3 DEF Unlocked, Idle, Inside
<1>5. TimerTypeOK'
  BY <1>1, <1>2 DEF TimerTypeOK
<1>6. ListsSound'
  BY DEF ListsSound, BeingCut
<1>7. TimelyRemoveHitsItsTask'
  BY <1>4 DEF TimelyRemoveHitsItsTask, Linked, BeingCut
<1>8. AddsOwn' /\ AddsApart'
  BY <1>2, <1>3 DEF AddsOwn, AddsApart, Adding, Linked, BeingCut
<1>9. WorkersNumbered' /\ CutOwn'
  BY <1>4 DEF WorkersNumbered, CutOwn
<1>10. ShutDown'
  BY <1>2, <1>3 DEF ShutDown, Shut, Linked, BeingCut, OwnerCalls, Idle, Inside
<1> QED
  BY <1>5, <1>6, <1>7, <1>8, <1>9, <1>10

\* A new entry of the removing list is timely only if it means what is listed.
LEMMA EntryTimely ==
  ASSUME TimerInv, Unlocked, NEW a, NEW n, UNCHANGED <<pending, living, cut>>,
         removing' = removing \cup {Entry(a, n)},
         \A r \in removing' : task'[r.id].number = task[r.id].number
  PROVE  TimelyRemoveHitsItsTask'
<1>1. ASSUME NEW r \in removing', ~r.late
      PROVE  Linked(r.id) /\ task[r.id].number = r.of
  <2>1. CASE r \in removing
    BY <1>1, <2>1 DEF TimerInv, TimelyRemoveHitsItsTask, CutOwn, BeingCut
  <2>2. CASE r = Entry(a, n)
    BY <1>1, <2>2 DEF Entry
  <2> QED
    BY <2>1, <2>2
<1> QED
  BY <1>1 DEF TimelyRemoveHitsItsTask, Linked

LEMMA RemoveInsertInv ==
  ASSUME TimerInv, NEW c \in Clients, RemoveInsert(c)
  PROVE  TimerInv'
<1> USE DEF TimerInv, RemoveInsert, Notify, Return, Goto, history
<1>1. client' \in [Clients -> Insides \cup Calls] /\ client'[c].op = "idle"
  BY ClientKinds DEF TimerTypeOK
<1>2. \A d \in Clients : d # c => client'[d] = client[d]
  BY DEF TimerTypeOK
<1>3. client[c] \in Calls
  BY ClientKinds
<1>4. Entry(client[c].id, client[c].of) \in [id : Addr, of : 1..MaxTasks, late : BOOLEAN]
  BY <1>3 DEF Entry, Calls
<1>5. TimerTypeOK'
  BY <1>1, <1>4 DEF TimerTypeOK
<1>6. ListsSound'
  BY DEF ListsSound, BeingCut
<1>7. TimelyRemoveHitsItsTask'
  BY EntryTimely
<1>8. AddsOwn' /\ AddsApart'
  BY <1>1, <1>2 DEF AddsOwn, AddsApart, Adding, Linked, BeingCut
<1>9. WorkersNumbered' /\ CutOwn'
  BY <1>1, <1>2 DEF WorkersNumbered, CutOwn, Unlocked
<1>10. ShutDown'
  BY <1>1, <1>2 DEF ShutDown, Shut, Linked, BeingCut, OwnerCalls
<1> QED
  BY <1>5, <1>6, <1>7, <1>8, <1>9, <1>10

\* The checker.
LEMMA CheckTopInv ==
  ASSUME TimerInv, CheckTop \/ CheckDone
  PROVE  TimerInv'
<1> USE DEF TimerInv, CheckTop, CheckDone, AllDealt, flags, lists, history
<1>1. /\ checker \in {"top", "remove"}
      /\ checker' \in {"top", "lock", "done"}
      /\ UNCHANGED client
  OBVIOUS
<1>2. Unlocked' => Unlocked \/ removing = {}
  BY <1>1 DEF Unlocked
<1>3. TimerTypeOK'
  BY DEF TimerTypeOK
<1>4. ListsSound'
  BY DEF ListsSound, BeingCut
<1>5. TimelyRemoveHitsItsTask'
  BY <1>2 DEF TimelyRemoveHitsItsTask, Linked, BeingCut
<1>6. AddsOwn' /\ AddsApart'
  BY DEF AddsOwn, AddsApart, Adding, Linked, BeingCut
<1>7. WorkersNumbered' /\ CutOwn'
  BY <1>1 DEF WorkersNumbered, CutOwn, Unlocked
<1>8. ShutDown'
  BY <1>1 DEF ShutDown, Shut, Linked, BeingCut
<1> QED
  BY <1>3, <1>4, <1>5, <1>6, <1>7, <1>8

LEMMA CheckPromoteInv ==
  ASSUME TimerInv, CheckPromote
  PROVE  TimerInv'
<1> USE DEF TimerInv, CheckPromote, history
<1>1. /\ task' \in [Addr -> Info]
      /\ \A a \in pending : task'[a] = [task[a] EXCEPT !.at = "sleep"]
      /\ \A a \in Addr : a \notin pending => task'[a] = task[a]
  BY DEF TimerTypeOK, Info, WorkerPlaces
<1>2. \A a \in Addr : /\ task'[a].number = task[a].number
                      /\ task'[a].cancel = task[a].cancel
                      /\ task'[a].stray = task[a].stray
                      /\ a \in pending => task'[a].at = "sleep"
  BY <1>1 DEF TimerTypeOK, Info
<1>3. cut = {} /\ ~Unlocked' /\ \A a : Linked(a)' <=> Linked(a)
  BY DEF CutOwn, Unlocked, Linked
<1>4. TimerTypeOK'
  BY <1>1 DEF TimerTypeOK
<1>5. ListsSound'
  BY <1>1, <1>2, <1>3 DEF ListsSound, BeingCut, TimerTypeOK
<1>6. TimelyRemoveHitsItsTask'
  BY <1>2, <1>3 DEF TimelyRemoveHitsItsTask, BeingCut, TimerTypeOK
<1>7. AddsOwn' /\ AddsApart'
  <2>1. \A c \in Clients : Adding(c) => client[c].id \in Addr /\ ~Linked(client[c].id)
    BY <1>3, ClientKinds DEF Adding, AddsOwn, BeingCut, Calls
  <2> QED
    BY <1>1, <1>3, <2>1 DEF AddsOwn, AddsApart, Adding, Linked
<1>8. WorkersNumbered' /\ CutOwn'
  BY <1>1, <1>2, <1>3 DEF WorkersNumbered, CutOwn, ListsSound
<1>9. ShutDown'
  BY <1>2, <1>3 DEF ShutDown, Shut, BeingCut
<1> QED
  BY <1>4, <1>5, <1>6, <1>7, <1>8, <1>9

LEMMA CheckCancelInv ==
  ASSUME TimerInv, CheckCancel
  PROVE  TimerInv'
<1> USE DEF CheckCancel
<1>1. ~Unlocked /\ broken \in BOOLEAN
  BY DEF Unlocked, TimerInv, TimerTypeOK
<1>2. PICK r \in removing :
        /\ removing' = removing \ {r}
        /\ IF r.id \in living THEN Cancel(r.id) ELSE UNCHANGED <<task, cut>>
  OBVIOUS
<1>3. CASE r.id \in living
  BY <1>1, <1>2, <1>3, CancelInv DEF flags
<1>4. CASE UNCHANGED <<task, cut>>
  BY <1>1, <1>2, <1>4
     DEF flags, history, TimerInv, TimerTypeOK, ListsSound, TimelyRemoveHitsItsTask, AddsOwn,
         AddsApart, Adding, WorkersNumbered, CutOwn, ShutDown, Shut, Linked, BeingCut, Unlocked
<1> QED
  BY <1>2, <1>3, <1>4

\* A worker that is not cancelled goes on, with or without a new entry of the
\* removing list.
LEMMA WorkerGoesOn ==
  ASSUME TimerInv, NEW a \in Addr, task[a].at # "none", NEW w \in Info,
         task' = [task EXCEPT ![a] = w],
         \/ ~task[a].cancel /\ UNCHANGED <<update, missed, removing>>
         \/ WorkerPost(a),
         w.at # "none", w.cancel = task[a].cancel, w.number = task[a].number,
         w.stray = task[a].stray,
         UNCHANGED <<running, pending, living, checker, cut, client, history, broken>>
  PROVE  TimerInv'
<1> USE DEF TimerInv, history
<1>1. /\ task' \in [Addr -> Info]
      /\ task'[a] = w
      /\ \A b \in Addr : b # a => task'[b] = task[b]
  BY DEF TimerTypeOK
<1>2. task[a].number \in 1..MaxTasks
  BY TimerAssumption DEF TimerAssumption, TimerTypeOK, Info, WorkersNumbered
<1>3. TimerTypeOK'
  <2>1. removing' \subseteq [id : Addr, of : 1..MaxTasks, late : BOOLEAN]
    <3>1. Entry(a, task[a].number) \in [id : Addr, of : 1..MaxTasks, late : BOOLEAN]
      BY <1>2 DEF Entry
    <3> QED
      BY <3>1 DEF WorkerPost, TimerTypeOK
  <2>2. update' \in BOOLEAN /\ missed' \in BOOLEAN
    BY DEF WorkerPost, Notify, TimerTypeOK
  <2> QED
    BY <1>1, <2>1, <2>2 DEF TimerTypeOK
<1>4. ListsSound'
  BY <1>1 DEF ListsSound, BeingCut, TimerTypeOK
<1>5. TimelyRemoveHitsItsTask'
  <2>1. \A b \in Addr : task'[b].number = task[b].number
    BY <1>1
  <2>2. CASE UNCHANGED removing
    BY <2>1, <2>2
       DEF TimelyRemoveHitsItsTask, Linked, BeingCut, Unlocked, TimerTypeOK
  <2>3. CASE WorkerPost(a)
    BY <1>3, <2>1, <2>3, EntryTimely DEF WorkerPost, TimerTypeOK
  <2> QED
    BY <2>2, <2>3
<1>6. AddsOwn' /\ AddsApart'
  <2>1. \A c \in Clients : Adding(c) => client[c].id \in Addr /\ client[c].id # a
    BY ClientKinds DEF Adding, AddsOwn, Calls
  <2> QED
    BY <1>1, <2>1 DEF AddsOwn, AddsApart, Adding, Linked, BeingCut
<1>7. WorkersNumbered' /\ CutOwn'
  <2>1. \A k \in cut : k.id # a
    BY DEF CutOwn, WorkerPost
  <2> QED
    BY <1>1, <1>2, <2>1 DEF WorkersNumbered, CutOwn, Unlocked, TimerTypeOK
<1>8. ShutDown'
  BY <1>1 DEF ShutDown, Shut, Linked, BeingCut
<1> QED
  BY <1>3, <1>4, <1>5, <1>6, <1>7, <1>8

\* A cancelled worker frees its info, which is on no list unless it is being
\* unlinked.
LEMMA WorkerFrees ==
  ASSUME TimerInv, NEW a \in Addr, task[a].at # "none", task[a].cancel,
         task' = [task EXCEPT ![a] = FreeBlock],
         UNCHANGED <<flags, lists, checker, cut, client, history, broken>>
  PROVE  TimerInv'
<1> USE DEF TimerInv, flags, lists, history
<1>1. /\ task' \in [Addr -> Info]
      /\ task'[a].at = "none"
      /\ \A b \in Addr : b # a => task'[b] = task[b]
  BY FreeInfo DEF TimerTypeOK
<1>2. a \notin pending /\ (a \in living => BeingCut(a))
  BY DEF ListsSound
<1>3. TimerTypeOK'
  BY <1>1 DEF TimerTypeOK
<1>4. ListsSound'
  BY <1>1, <1>2 DEF ListsSound, BeingCut, TimerTypeOK
<1>5. TimelyRemoveHitsItsTask'
  BY <1>1, <1>2
     DEF TimelyRemoveHitsItsTask, Linked, BeingCut, Unlocked, TimerTypeOK
<1>6. AddsOwn' /\ AddsApart'
  <2>1. \A c \in Clients : Adding(c) => client[c].id \in Addr /\ client[c].id # a
    BY ClientKinds DEF Adding, AddsOwn, Calls
  <2> QED
    BY <1>1, <2>1 DEF AddsOwn, AddsApart, Adding, Linked, BeingCut
<1>7. WorkersNumbered' /\ CutOwn'
  BY <1>1 DEF WorkersNumbered, CutOwn, Unlocked, TimerTypeOK
<1>8. ShutDown'
  BY <1>1, <1>2 DEF ShutDown, Shut, Linked, BeingCut
<1> QED
  BY <1>3, <1>4, <1>5, <1>6, <1>7, <1>8

\* What the callback and the second look at cancel make of a worker.
LEMMA CheckedWorker ==
  ASSUME NEW w \in Info, ~w.cancel, w.at # "none"
  PROVE  /\ Checked(w) \in Info
         /\ ~Checked(w).cancel
         /\ Checked(w).at \in {"post", "sleep"}
         /\ Checked(w).number = w.number
         /\ Checked(w).stray = w.stray
         /\ Checked(w).valid = w.valid
         /\ Checked(w).over = w.over
  BY DEF Checked, Info, WorkerPlaces

LEMMA CalledWorker ==
  ASSUME NEW w \in Info, NEW more \in BOOLEAN
  PROVE  /\ Called(w, more) \in Info
         /\ Called(w, more).cancel = w.cancel
         /\ Called(w, more).at = w.at
         /\ Called(w, more).number = w.number
         /\ Called(w, more).stray = w.stray
         /\ Called(w, more).over => w.over \/ ~Called(w, more).valid
  BY DEF Called, Info

LEMMA WorkerWakeInv ==
  ASSUME TimerInv, NEW a \in Addr, WorkerWake(a)
  PROVE  TimerInv'
<1>1. task \in [Addr -> Info] /\ task[a] \in Info /\ task[a].at = "sleep"
  BY DEF TimerInv, TimerTypeOK, WorkerWake
<1>2. CASE task[a].cancel
  <2>1. task' = [task EXCEPT ![a] = FreeBlock]
    BY <1>1, <1>2 DEF WorkerWake, Checked
  <2> QED
    BY <1>1, <1>2, <2>1, WorkerFrees DEF WorkerWake
<1>3. CASE ~task[a].cancel /\ task[a].valid
  <2> DEFINE w == [task[a] EXCEPT !.at = "call"]
  <2>1. task' = [task EXCEPT ![a] = w]
    BY <1>1, <1>3 DEF WorkerWake
  <2>2. /\ w \in Info /\ w.at # "none" /\ w.cancel = task[a].cancel
        /\ w.number = task[a].number /\ w.stray = task[a].stray
    BY <1>1 DEF Info, WorkerPlaces
  <2> QED
    BY <1>1, <1>3, <2>1, <2>2, WorkerGoesOn DEF WorkerWake, flags, lists
<1>4. CASE ~task[a].cancel /\ ~task[a].valid
  <2>1. task' = [task EXCEPT ![a] = Checked(task[a])]
    BY <1>1, <1>4 DEF WorkerWake
  <2> QED
    BY <1>1, <1>4, <2>1, CheckedWorker, WorkerGoesOn DEF WorkerWake, flags, lists, Info
<1> QED
  BY <1>2, <1>3, <1>4

LEMMA WorkerCallInv ==
  ASSUME TimerInv, NEW a \in Addr, WorkerCall(a)
  PROVE  TimerInv'
<1>1. task \in [Addr -> Info] /\ task[a] \in Info /\ task[a].at = "call"
  BY DEF TimerInv, TimerTypeOK, WorkerCall
<1>2. PICK more \in BOOLEAN : task' = [task EXCEPT ![a] = Checked(Called(task[a], more))]
  BY <1>1 DEF WorkerCall
<1> DEFINE w == Called(task[a], more)
<1>3. /\ w \in Info /\ w.cancel = task[a].cancel /\ w.at = "call"
      /\ w.number = task[a].number /\ w.stray = task[a].stray
  BY <1>1, CalledWorker
<1>4. task' = [task EXCEPT ![a] = Checked(w)]
  BY <1>2
<1> HIDE DEF w
<1>5. CASE w.cancel
  <2>1. Checked(w) = FreeBlock
    BY <1>5 DEF Checked
  <2> QED
    BY <1>1, <1>3, <1>4, <1>5, <2>1, WorkerFrees DEF WorkerCall
<1>6. CASE ~w.cancel
  BY <1>1, <1>3, <1>4, <1>6, CheckedWorker, WorkerGoesOn DEF WorkerCall, flags, lists, Info
<1> QED
  BY <1>5, <1>6

LEMMA WorkerPostInv ==
  ASSUME TimerInv, NEW a \in Addr, WorkerPost(a)
  PROVE  TimerInv'
<1> DEFINE w == [task[a] EXCEPT !.at = "sleep", !.waiting = TRUE]
<1>1. task \in [Addr -> Info] /\ task[a] \in Info /\ task[a].at = "post"
  BY DEF TimerInv, TimerTypeOK, WorkerPost
<1>2. task' = [task EXCEPT ![a] = w]
  BY <1>1 DEF WorkerPost
<1>3. /\ w \in Info /\ w.at # "none" /\ w.cancel = task[a].cancel
      /\ w.number = task[a].number /\ w.stray = task[a].stray
  BY <1>1 DEF Info, WorkerPlaces
<1> QED
  BY <1>1, <1>2, <1>3, WorkerGoesOn DEF WorkerPost, history

LEMMA StutterInv == TimerInv /\ UNCHANGED timerVars => TimerInv'
  BY DEF timerVars, flags, lists, history, TimerInv, TimerTypeOK, ListsSound,
     TimelyRemoveHitsItsTask, AddsOwn, AddsApart, Adding, WorkersNumbered, CutOwn, ShutDown,
     Shut, Linked, BeingCut, Unlocked

LEMMA NextInv == TimerInv /\ TimerNext => TimerInv'
<1> SUFFICES ASSUME TimerInv, TimerNext PROVE TimerInv'
  OBVIOUS
<1>1. CASE CheckerStep
  <2>1. CASE CheckUnlink
    BY <2>1, UnlinkInv DEF CheckUnlink
  <2> QED
    BY <1>1, <2>1, CheckTopInv, CheckPromoteInv, CheckCancelInv DEF CheckerStep
<1>2. ASSUME NEW a \in Addr, WorkerStep(a) PROVE TimerInv'
  BY <1>2, WorkerWakeInv, WorkerCallInv, WorkerPostInv DEF WorkerStep
<1>3. ASSUME NEW c \in Clients, ClientCall(c) PROVE TimerInv'
  BY <1>3, TaskInitInv, DeinitInv, AddBeginInv, RemoveBeginInv DEF ClientCall
<1>4. ASSUME NEW c \in Clients, ClientStep(c) PROVE TimerInv'
  BY <1>4, InitRunningInv, AddInsertInv, RemoveInsertInv, DeinitCutInv, DeinitFreeInv,
     DeinitJoinInv DEF ClientStep
<1> QED
  BY <1>1, <1>2, <1>3, <1>4 DEF TimerNext

\* The strengthened invariant holds in every state of the timer, those between
\* the two statements that cancel and unlink a task among them.
THEOREM TimerInvariant == TimerSpec => []TimerInv
<1> QED
  BY TimerInvInit, NextInv, StutterInv, PTL DEF TimerSpec

\* Every variable of the timer keeps its type: addresses, numbers and places
\* (util_timeout_task.c:39-60), whatever the clients call in which order.
THEOREM TimerTypeCorrect == TimerSpec => []TimerTypeOK
  BY TimerInvariant, PTL DEF TimerInv

\* The lists hold no freed memory but the one task that is being unlinked, and
\* no worker runs out of their reach but a stray's (util_timeout_task.c:92-109,
\* 124-157, 218-223), for any number of tasks.
THEOREM TimerListsSound == TimerSpec => []ListsSound
  BY TimerInvariant, PTL DEF TimerInv

\* A removal posted for a listed task reaches that task and no other, although
\* ids are addresses that are used again, also while the checker or deinit is
\* between the statements that end a task (util_timeout_task.c:139-157).
THEOREM TimerTimelyRemove == TimerSpec => []TimelyRemoveHitsItsTask
  BY TimerInvariant, PTL DEF TimerInv

-----------------------------------------------------------------------------
\* OverIsFinal needs to know besides that a task that is over is not valid any
\* more: that is what a worker looks at before it calls.
OverStopped == \A a \in Addr : task[a].over => ~task[a].valid

OverInv == OverIsFinal /\ OverStopped

LEMMA FreeOver == ~FreeBlock.over /\ FreeBlock.valid /\ FreeBlock.at = "none"
  BY DEF FreeBlock, Block

LEMMA OverInit == TimerInit => OverInv
  BY FreeOver DEF TimerInit, OverInv, OverIsFinal, OverStopped

\* Cancelling a task leaves alone whether it is over.
LEMMA OverCancel ==
  ASSUME TimerTypeOK, OverInv, NEW a \in Addr, Cancel(a)
  PROVE  OverInv'
  BY DEF TimerTypeOK, Info, OverInv, OverIsFinal, OverStopped, Cancel

\* Clients and the checker make new blocks, cancel and start tasks.
LEMMA OverClient ==
  ASSUME TimerTypeOK, OverInv, NEW c \in Clients, ClientCall(c) \/ ClientStep(c)
  PROVE  OverInv'
<1>1. CASE DeinitCancel(c)
  BY <1>1, OverCancel DEF DeinitCancel, TimerTypeOK
<1> USE DEF TimerTypeOK, Info, OverInv, OverIsFinal, OverStopped
<1>2. CASE AddBegin(c)
  BY <1>2 DEF AddBegin, Block
<1>3. CASE AddInsert(c)
  BY <1>3 DEF AddInsert
<1>4. CASE DeinitFree(c)
  BY <1>4, FreeOver DEF DeinitFree
<1>5. CASE UNCHANGED task
  BY <1>5
<1> QED
  BY <1>1, <1>2, <1>3, <1>4, <1>5
     DEF ClientCall, ClientStep, TaskInit, Deinit, RemoveBegin, InitRunning, InitStart,
         RemoveInsert, DeinitUnlink, DeinitJoin

LEMMA OverChecker ==
  ASSUME TimerTypeOK, OverInv, CheckerStep
  PROVE  OverInv'
<1>1. CASE CheckCancel /\ ~UNCHANGED task
  BY <1>1, OverCancel DEF CheckCancel, TimerTypeOK
<1> USE DEF TimerTypeOK, Info, OverInv, OverIsFinal, OverStopped
<1>2. CASE CheckPromote
  BY <1>2 DEF CheckPromote
<1>3. CASE UNCHANGED task
  BY <1>3
<1> QED
  BY <1>1, <1>2, <1>3 DEF CheckerStep, CheckTop, CheckUnlink, CheckDone

\* A worker calls only while its task is valid, and the call that ends the task
\* takes that away.
LEMMA OverWorker ==
  ASSUME TimerTypeOK, OverInv, NEW a \in Addr, WorkerStep(a)
  PROVE  OverInv'
<1>1. ASSUME NEW w \in Info, w.over => ~w.valid, task' = [task EXCEPT ![a] = Checked(w)]
      PROVE  OverInv'
  BY <1>1, FreeOver DEF TimerTypeOK, Info, OverInv, OverIsFinal, OverStopped, Checked
<1>2. task[a] \in Info /\ task \in [Addr -> Info] /\ (task[a].over => ~task[a].valid)
  BY DEF TimerTypeOK, OverInv, OverStopped
<1>3. CASE WorkerWake(a)
  <2>1. CASE ~task[a].cancel /\ task[a].valid
    BY <1>2, <1>3, <2>1 DEF WorkerWake, Info, OverInv, OverIsFinal, OverStopped
  <2> QED
    BY <1>1, <1>2, <1>3, <2>1 DEF WorkerWake
<1>4. CASE WorkerCall(a)
  <2>1. PICK more \in BOOLEAN : task' = [task EXCEPT ![a] = Checked(Called(task[a], more))]
    BY <1>2, <1>4 DEF WorkerCall
  <2>2. ~task[a].over
    BY <1>4 DEF WorkerCall, OverInv, OverIsFinal
  <2>3. Called(task[a], more) \in Info
    BY <1>2, CalledWorker
  <2>4. Called(task[a], more).over => ~Called(task[a], more).valid
    BY <1>2, <2>2, CalledWorker
  <2> QED
    BY <1>1, <2>1, <2>3, <2>4
<1>5. CASE WorkerPost(a)
  BY <1>2, <1>5 DEF WorkerPost, Info, OverInv, OverIsFinal, OverStopped
<1> QED
  BY <1>3, <1>4, <1>5 DEF WorkerStep

\* A callback that returned STOP, or ran in a one-time task, never runs again
\* (util_timeout_task.c:83-91), however late its removal is dealt with.
THEOREM TimerOverIsFinal == TimerSpec => []OverIsFinal
<1>1. TimerTypeOK /\ OverInv /\ [TimerNext]_timerVars => OverInv'
  <2> SUFFICES ASSUME TimerTypeOK, OverInv, [TimerNext]_timerVars PROVE OverInv'
    OBVIOUS
  <2>1. CASE UNCHANGED timerVars
    BY <2>1 DEF timerVars, OverInv, OverIsFinal, OverStopped
  <2> QED
    BY <2>1, OverClient, OverChecker, OverWorker DEF TimerNext
<1> QED
  BY <1>1, OverInit, TimerTypeCorrect, PTL DEF TimerSpec, OverInv
=============================================================================
