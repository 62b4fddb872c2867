------------------------------ MODULE SyncEvent ------------------------------
(***************************************************************************)
(* The event of base/unix/thread.h and base/thread.cc: a mutex, a          *)
(* condition variable, the flag _signaled and the count _consumer of the   *)
(* threads inside pthread_cond_wait.                                       *)
(*                                                                         *)
(* Every method runs under _mutex, so a method is one step, except that    *)
(* pthread_cond_wait gives the mutex up: a wait that blocks is three       *)
(* steps, entering the wait, leaving the condition variable (released by a *)
(* broadcast, by the timeout, or spuriously), and taking the mutex again.  *)
(***************************************************************************)
EXTENDS Integers, FiniteSets

CONSTANTS
  Waiters,      \* the threads that call wait()
  Timed,        \* those of them that call wait(ms)
  Resetters,    \* the threads that call reset()
  ManualReset,  \* the constructor's manual_reset
  Spurious      \* may pthread_cond_wait return without a broadcast?

ASSUME EventAssumption ==
  /\ IsFiniteSet(Waiters)
  /\ Timed \subseteq Waiters
  /\ ManualReset \in BOOLEAN
  /\ Spurious \in BOOLEAN

VARIABLES
  signaled,     \* _signaled
  consumer,     \* _consumer
  where,        \* where each waiter stands, one of the Places
  disturbed     \* history: a reset() came while a released thread was on its
                \* way out of the wait, or a wakeup was spurious

eventVars == <<signaled, consumer, where, disturbed>>

\* "out": in no wait; "blocked": in the condition variable; "woken" and
\* "expired": out of it (with 0 or ETIMEDOUT) but without the mutex yet;
\* "aborted": an assert of wait() failed and the process is gone.
Places == {"out", "blocked", "woken", "expired", "aborted"}

In(place) == {t \in Waiters : where[t] = place}

\* The threads between ++_consumer and --_consumer.
Counted == {t \in Waiters : where[t] \in {"blocked", "woken", "expired"}}

EventAlive == In("aborted") = {}

EventInit ==
  /\ signaled \in BOOLEAN
  /\ consumer = 0
  /\ where = [t \in Waiters |-> "out"]
  /\ disturbed = FALSE

-----------------------------------------------------------------------------
\* Mutant: pthread_cond_signal in place of the broadcast.
Broadcast_one ==
  IF In("blocked") = {} THEN UNCHANGED where
  ELSE \E t \in In("blocked") : where' = [where EXCEPT ![t] = "woken"]

Broadcast ==
  where' = [t \in Waiters |-> IF where[t] = "blocked" THEN "woken" ELSE where[t]]

\* signal(): a rising edge broadcasts, a second signal does nothing.
Signal ==
  /\ EventAlive
  /\ signaled' = TRUE
  /\ IF signaled THEN UNCHANGED where ELSE Broadcast
  /\ UNCHANGED <<consumer, disturbed>>

\* reset(), called by a thread that is in no wait itself.
Reset(t) ==
  /\ EventAlive
  /\ t \in Waiters => where[t] = "out"
  /\ signaled' = FALSE
  /\ disturbed' = (disturbed \/ In("woken") # {})
  /\ UNCHANGED <<consumer, where>>

\* Mutants: every thread lowers an auto-reset event; none does.
Leave_each(n) == signaled' = ManualReset
Leave_none(n) == signaled' = TRUE

\* The last lines of both waits: an auto-reset event is lowered by the thread
\* that leaves no other one inside, given the count n it sees.
Leave(n) == signaled' = (ManualReset \/ n # 0)

\* wait() and wait(ms) on a raised event return (true) without blocking.
WaitFast(t) ==
  /\ EventAlive
  /\ where[t] = "out"
  /\ signaled
  /\ Leave(consumer)
  /\ UNCHANGED <<consumer, where, disturbed>>

CountIn == consumer' = consumer + 1
CountOut == consumer' = consumer - 1

\* wait() and wait(ms) on a lowered event: ++_consumer and block.
WaitBlock(t) ==
  /\ EventAlive
  /\ where[t] = "out"
  /\ ~signaled
  /\ CountIn
  /\ where' = [where EXCEPT ![t] = "blocked"]
  /\ UNCHANGED <<signaled, disturbed>>

\* The deadline of wait(ms) passes while the thread is blocked.
Expire(t) ==
  /\ EventAlive
  /\ t \in Timed
  /\ where[t] = "blocked"
  /\ where' = [where EXCEPT ![t] = "expired"]
  /\ UNCHANGED <<signaled, consumer, disturbed>>

\* pthread_cond_wait may return although nobody called signal().
WakeSpuriously(t) ==
  /\ Spurious
  /\ EventAlive
  /\ where[t] = "blocked"
  /\ where' = [where EXCEPT ![t] = "woken"]
  /\ disturbed' = TRUE
  /\ UNCHANGED <<signaled, consumer>>

\* The released thread has the mutex: --_consumer, assert(_signaled), which
\* aborts the process on a lowered event, and the common exit.
WaitReturn(t) ==
  /\ EventAlive
  /\ where[t] = "woken"
  /\ CountOut
  /\ where' = [where EXCEPT ![t] = IF signaled THEN "out" ELSE "aborted"]
  /\ IF signaled THEN Leave(consumer - 1) ELSE UNCHANGED signaled
  /\ UNCHANGED disturbed

\* ETIMEDOUT: --_consumer and return false, before the common exit.
WaitTimeout(t) ==
  /\ EventAlive
  /\ where[t] = "expired"
  /\ CountOut
  /\ where' = [where EXCEPT ![t] = "out"]
  /\ UNCHANGED <<signaled, disturbed>>

WaiterStep(t) ==
  \/ WaitFast(t) \/ WaitBlock(t) \/ Expire(t) \/ WakeSpuriously(t)
  \/ WaitReturn(t) \/ WaitTimeout(t)

EventNext ==
  \/ Signal
  \/ \E t \in Resetters : Reset(t)
  \/ \E t \in Waiters : WaiterStep(t)

EventSpec == EventInit /\ [][EventNext]_eventVars

-----------------------------------------------------------------------------
\* The type invariant; _consumer is an int that never goes below zero.
EventTypeOK ==
  /\ signaled \in BOOLEAN
  /\ consumer \in Nat
  /\ where \in [Waiters -> Places]
  /\ disturbed \in BOOLEAN

\* _consumer is the number of threads between ++_consumer and --_consumer on
\* every way out of wait (thread.cc:60, 96), so that exactly the last one of
\* them sees 0 at the common exit and lowers an auto-reset event.
ConsumersCounted == consumer = Cardinality(Counted)

\* signal() broadcasts only on a rising edge (thread.h:79). That loses no
\* wakeup: while the event is raised no thread is blocked in the condition
\* variable, so the signals that are skipped had nobody to wake.
NoLostWakeup == signaled => In("blocked") = {}

\* The asserts of thread.cc:61 and 100 hold, a released thread finds the event
\* still raised when it gets the mutex, unless somebody called reset() in
\* between or the wakeup was spurious: the threads of one wave do not lower
\* the event under each other, however many there are and whoever times out.
WaveKeepsSignal == ~disturbed => (EventAlive /\ (In("woken") # {} => signaled))

\* The asserts as the code states them (thread.cc:61, thread.cc:100).
AssertHolds == EventAlive

\* One signal() of an auto-reset event lets one wave of waiters through: when
\* the last released thread leaves, the event is down again. The exception is
\* a thread that timed out and is still counted: it leaves the event raised
\* for a later wait (thread.cc:98 returns before the common exit).
WaveConsumesSignal ==
  [][(/\ ~ManualReset
      /\ ~disturbed
      /\ In("woken") # {}
      /\ In("woken")' = {}
      /\ In("expired") = {}) => ~signaled']_eventVars
=============================================================================
