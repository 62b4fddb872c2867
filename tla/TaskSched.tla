------------------------------ MODULE TaskSched ------------------------------
(***************************************************************************)
(* The scheduler of base/thread.cc: run_in, run_every and run_daily put    *)
(* tasks on the list _tmp, and one thread wakes up every second, moves     *)
(* them to _tasks, counts every task down and calls those whose count is   *)
(* used up. The time the calls take is carried over in ms and counted down *)
(* in whole seconds in the next round.                                     *)
(*                                                                         *)
(* Time passes in units, Sec of them in a second, while the thread waits   *)
(* or is in a callback; the rest of the loop takes no time, and a wait     *)
(* ends at its deadline exactly. _mtx is held for one step at a time, never *)
(* during a callback, which may add tasks as any thread may. The event _ev *)
(* is only signalled by stop(), once, so a flag stands for it. A wakeup of *)
(* its wait without a cause is left out: it ends the program at the assert *)
(* of SyncEvent, which the run event_assert shows.                         *)
(***************************************************************************)
EXTENDS Integers, Sequences, SequencesExt

CONSTANTS
  Once, Every, Daily,  \* the tasks for run_in, run_every and run_daily
  Secs,      \* the delays and periods they are added with, in seconds
  Day,       \* the seconds of a day
  Sec,       \* the units of a second
  MaxBusy    \* bound: how many units a callback takes

Task == Once \cup Every \cup Daily

ASSUME SchedAssumption ==
  /\ Secs \subseteq Nat
  /\ Day \in Nat \ {0}
  /\ Sec \in Nat \ {0}
  /\ MaxBusy \in Nat

VARIABLES
  tmp,      \* _tmp
  list,     \* _tasks
  count,    \* Task::count, in seconds
  period,   \* Task::period, in seconds, 0 for a task that runs once
  stop,     \* _stop
  signaled, \* _ev
  pc,       \* the thread: "loop", "wait", "check", "pass", "call" or "exit"
  left,     \* how many units are left of the wait
  i,        \* the loop index, from 1
  sec,      \* the seconds carried over into this pass
  ms,       \* the time still to be carried over
  spent,    \* what the Timer t shows: the units since the pass began
  busy,     \* how many units the callback has taken
  closing,  \* how far the thread is that does the work of stop()
  want,     \* history: the delay of the next run, in seconds
  age,      \* history: the units since the task was added, or since the
            \* beginning of the pass that ran it last
  first,    \* history: the task has not run since it was added
  visits    \* history: how often it was counted down in this pass

lists   == <<tmp, list, count, period>>
stopping == <<stop, closing>>
clocks  == <<left, sec, ms, spent, busy>>
history == <<want, age, first, visits>>
schedVars == <<lists, stopping, signaled, pc, i, clocks, history>>

SchedInit ==
  /\ tmp = <<>>
  /\ list = <<>>
  /\ count = [t \in Task |-> 0]
  /\ period = [t \in Task |-> 0]
  /\ stop = FALSE
  /\ signaled = FALSE
  /\ pc = "loop"
  /\ left = 0
  /\ i = 1
  /\ sec = 0
  /\ ms = 0
  /\ spent = 0
  /\ busy = 0
  /\ closing = "no"
  /\ want = [t \in Task |-> 0]
  /\ age = [t \in Task |-> 0]
  /\ first = [t \in Task |-> TRUE]
  /\ visits = [t \in Task |-> 0]

-----------------------------------------------------------------------------
\* run_daily: from now to the next time the clock shows at.
DailyDelay(now, at) == (IF at < now THEN at + Day ELSE at) - now

Add(t, p, c) ==
  /\ t \notin ToSet(tmp) \cup ToSet(list)
  /\ tmp' = Append(tmp, t)
  /\ count' = [count EXCEPT ![t] = c]
  /\ period' = [period EXCEPT ![t] = p]
  /\ want' = [want EXCEPT ![t] = c]
  /\ age' = [age EXCEPT ![t] = 0]
  /\ first' = [first EXCEPT ![t] = TRUE]
  /\ UNCHANGED <<list, stopping, signaled, pc, i, clocks, visits>>

RunIn(t) == t \in Once /\ \E s \in Secs : Add(t, 0, s)

RunEvery(t) == t \in Every /\ \E s \in Secs : Add(t, s, s)

RunDaily(t) ==
  /\ t \in Daily
  /\ \E now, at \in 0..Day - 1 : Add(t, Day, DailyDelay(now, at))

-----------------------------------------------------------------------------
\* A unit of time goes by.
Older == age' = [t \in Task |-> IF t \in ToSet(tmp) \cup ToSet(list)
                                THEN age[t] + 1 ELSE age[t]]

\* Mutant: the loop does not look at _stop.
StopSeen_not == FALSE

StopSeen == stop

LoopTop ==
  /\ pc = "loop"
  /\ pc' = IF StopSeen THEN "exit" ELSE "wait"
  /\ left' = IF StopSeen THEN 0 ELSE Sec
  /\ spent' = 0
  /\ visits' = [t \in Task |-> 0]
  /\ UNCHANGED <<lists, stopping, signaled, i, sec, ms, busy, want, age, first>>

\* _ev.wait(1000)
WaitTick ==
  /\ pc = "wait"
  /\ ~signaled
  /\ left > 0
  /\ left' = left - 1
  /\ Older
  /\ UNCHANGED <<lists, stopping, signaled, pc, i, sec, ms, spent, busy,
                 want, first, visits>>

\* Mutant: wait() without a timeout.
WaitOver_signal == signaled

WaitOver == signaled \/ left = 0

\* It returns at the deadline or when stop() has signalled the event.
WaitEnd ==
  /\ pc = "wait"
  /\ WaitOver
  /\ signaled' = FALSE
  /\ left' = 0
  /\ pc' = "check"
  /\ UNCHANGED <<lists, stopping, i, sec, ms, spent, busy, history>>

\* The tasks added since the last pass join the others.
TakeOver == list' = list \o tmp /\ tmp' = <<>>

\* Mutant: whole seconds are dropped.
Carry_none == sec' = 0 /\ ms' = ms % Sec

\* Whole seconds are taken out of ms, to be counted down in this pass.
Carry == sec' = ms \div Sec /\ ms' = ms % Sec

\* if (_stop) return; otherwise a pass begins. (The timer restarts here: spent
\* is 0 since the top of the loop.)
PassBegin ==
  /\ pc = "check"
  /\ IF StopSeen
     THEN pc' = "exit" /\ UNCHANGED <<tmp, list, sec, ms>>
     ELSE pc' = "pass" /\ TakeOver /\ Carry
  /\ UNCHANGED <<count, period, stopping, signaled, i, left, spent, busy, history>>

\* Count the next task down, and call it when nothing is left.
Visit ==
  /\ pc = "pass"
  /\ i <= Len(list)
  /\ LET t == list[i]
     IN  /\ count' = [count EXCEPT ![t] = @ - (sec + 1)]
         /\ visits' = [visits EXCEPT ![t] = @ + 1]
         /\ IF count'[t] <= 0
            THEN pc' = "call" /\ UNCHANGED i
            ELSE i' = i + 1 /\ UNCHANGED pc
  /\ UNCHANGED <<tmp, list, period, stopping, signaled, clocks, want, age, first>>

\* task->fun() takes its time.
CallTick ==
  /\ pc = "call"
  /\ busy < MaxBusy
  /\ busy' = busy + 1
  /\ spent' = spent + 1
  /\ Older
  /\ UNCHANGED <<lists, stopping, signaled, pc, i, left, sec, ms, want, first,
                 visits>>

\* Mutant: a task's count is given back less what was carried over.
FullCount_rest(t) == period[t] - sec

FullCount(t) == period[t]

\* A periodic task gets its count back.
Again(t) ==
  /\ count' = [count EXCEPT ![t] = FullCount(t)]
  /\ i' = i + 1
  /\ want' = [want EXCEPT ![t] = period[t]]
  /\ age' = [age EXCEPT ![t] = spent]
  /\ first' = [first EXCEPT ![t] = FALSE]
  /\ UNCHANGED <<list, period>>

\* Mutant: the index moves on past the task that was moved down.
Replace_skip == list' = Front([list EXCEPT ![i] = Last(list)]) /\ i' = i + 1

\* The last task takes the place of this one, and is the next to be visited.
Replace == list' = Front([list EXCEPT ![i] = Last(list)]) /\ UNCHANGED i

\* Any other is deleted.
Delete(t) ==
  /\ Replace
  /\ count' = [count EXCEPT ![t] = 0]
  /\ period' = [period EXCEPT ![t] = 0]
  /\ want' = [want EXCEPT ![t] = 0]
  /\ age' = [age EXCEPT ![t] = 0]
  /\ first' = [first EXCEPT ![t] = TRUE]

\* The callback returns.
CallEnd ==
  /\ pc = "call"
  /\ pc' = "pass"
  /\ busy' = 0
  /\ IF period[list[i]] > 0 THEN Again(list[i]) ELSE Delete(list[i])
  /\ UNCHANGED <<tmp, stopping, signaled, left, sec, ms, spent, visits>>

PassEnd ==
  /\ pc = "pass"
  /\ i > Len(list)
  /\ ms' = ms + spent
  /\ sec' = 0
  /\ i' = 1
  /\ pc' = "loop"
  /\ UNCHANGED <<lists, stopping, signaled, left, spent, busy, history>>

-----------------------------------------------------------------------------
\* stop(): one caller gets here; for any other stop() does nothing.
Stop ==
  /\ ~stop
  /\ stop' = TRUE
  /\ closing' = "raise"
  /\ UNCHANGED <<lists, signaled, pc, i, clocks, history>>

StopRaise ==
  /\ closing = "raise"
  /\ signaled' = TRUE
  /\ closing' = "join"
  /\ UNCHANGED <<lists, stop, pc, i, clocks, history>>

StopJoin ==
  /\ closing = "join"
  /\ pc = "exit"
  /\ closing' = "clear"
  /\ UNCHANGED <<lists, stop, signaled, pc, i, clocks, history>>

StopClear ==
  /\ closing = "clear"
  /\ list' = <<>>
  /\ tmp' = <<>>
  /\ closing' = "done"
  /\ UNCHANGED <<count, period, stop, signaled, pc, i, clocks, history>>

SchedThread ==
  \/ LoopTop \/ WaitTick \/ WaitEnd \/ PassBegin \/ Visit \/ CallTick \/ CallEnd
  \/ PassEnd

StopStep == StopRaise \/ StopJoin \/ StopClear

SchedNext ==
  \/ SchedThread
  \/ Stop
  \/ StopStep
  \/ \E t \in Task : RunIn(t) \/ RunEvery(t) \/ RunDaily(t)

\* The thread goes on and callbacks return; nobody is obliged to add or stop.
SchedFairness == WF_schedVars(SchedThread) /\ WF_schedVars(StopStep)

SchedSpec == SchedInit /\ [][SchedNext]_schedVars /\ SchedFairness

-----------------------------------------------------------------------------
\* In a pass every task is counted down once, whatever was deleted in it. The
\* thread is in the list while it calls, and no task is on the lists twice or on
\* both: a one-time task is deleted once, though callbacks add tasks.
CountedOnce ==
  /\ IsInjective(list \o tmp)
  /\ pc = "call" => i <= Len(list)
  /\ \A t \in Task : visits[t] <= 1
  /\ pc = "pass" => \A k \in 1..Len(list) : visits[list[k]] = IF k < i THEN 1 ELSE 0

\* A task runs in the first pass that begins when it is due, however long the
\* callbacks took: what a pass leaves in the list was not due as it began.
OnTime == pc = "loop" => \A t \in ToSet(list) : age[t] - spent < Sec * want[t]

\* From the beginning of a pass that calls a periodic task to the beginning of the
\* next that does, more than its period less a second goes by: time carried over
\* is not counted twice. The calls themselves can be nearer, by what other
\* callbacks take in the first of the passes before it is called.
PeriodKept ==
  pc = "call" => LET t == list[i]
                 IN  ~first[t] => age[t] - spent > Sec * (want[t] - 1)

\* What thread.h:21 says, "run f() once @sec seconds later", up to the second
\* by which the thread is woken: a task is not called a second early or more.
FirstRunNotEarly ==
  pc = "call" => LET t == list[i]
                 IN  first[t] => age[t] - spent >= Sec * (want[t] - 1)

\* stop() returns, wherever it meets the thread, though callbacks may add tasks
\* all the time: the wait is ended, and every pass comes to its end.
StopReturns == (closing = "raise") ~> (closing = "done")

\* Every task is called in the end, unless the scheduler is stopped.
TaskRuns ==
  \A t \in Task :
    (t \in ToSet(tmp) \cup ToSet(list)) ~> (stop \/ (pc = "call" /\ list[i] = t))
=============================================================================
