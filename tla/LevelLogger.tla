----------------------------- MODULE LevelLogger -----------------------------
(***************************************************************************)
(* The logger of base/log.cc: application threads push lines into the      *)
(* buffer *_fs under _log_mutex, the log thread swaps the buffer out and   *)
(* writes it, and log::close() stops the thread and writes the rest. The   *)
(* event _log_event is module SyncEvent with one waiter, the log thread,   *)
(* which is also the only thread that calls reset().                       *)
(*                                                                         *)
(* close() is called by a thread of its own accord, by the handler of      *)
(* SIGINT, SIGTERM or SIGQUIT on whatever thread the signal hits, and by a *)
(* thread with a fatal log or a failure. The failure the log thread itself *)
(* can have is the assert of the event's wait, after a spurious wakeup. A  *)
(* line is its position in the order of the pushes, all lines have one     *)
(* length, and lines below FLG_min_log_level, which push ignores, do not   *)
(* appear.                                                                 *)
(***************************************************************************)
EXTENDS Integers, Sequences, SequencesExt

CONSTANTS
  App,          \* the application threads
  Closers,      \* those that call log::close()
  Signalled,    \* the threads that may be hit by SIGINT, SIGTERM or SIGQUIT
  Dying,        \* those that may log a fatal line or fail (SIGSEGV, ...)
  Logger,       \* the log thread
  NoThread,
  MaxLines,     \* bound: how many lines are pushed
  MaxBuffer,    \* _max_buffer_size, in lines
  InitCap,      \* the capacity of a new buffer, in lines
  OpenMayFail,  \* may open_log_file() fail?
  Spurious      \* may the condition variable of _log_event wake spuriously?

Threads == App \cup {Logger}

ASSUME LoggerAssumption ==
  /\ Closers \cup Dying \subseteq App
  /\ Signalled \subseteq Threads
  /\ NoThread \notin Threads
  /\ Logger \notin App
  /\ MaxLines \in Nat
  /\ MaxBuffer \in Nat \ {0}
  /\ InitCap \in Nat \ {0}
  /\ OpenMayFail \in BOOLEAN
  /\ Spurious \in BOOLEAN

VARIABLES
  signaled, consumer, where, disturbed,  \* _log_event
  spurious,  \* history: a wakeup of the log thread was spurious
  holder,    \* the thread that holds _log_mutex between two steps
  accepted,  \* how many lines were pushed
  buf,       \* *_fs
  local,     \* the log thread's own buffer fs
  lpc, sig,  \* the log thread: where it is, its variable `signaled`
  stopper,   \* the thread that set _stop, NoThread while _stop = 0
  app,       \* per application thread: "run" or inside "push"
  call,      \* per thread: how far it is in stop()
  why,       \* per thread: what made it call close()
  owed,      \* history: how many lines were pushed before _stop was set
  open,      \* what _file is: "none", "log" or "fatal"
  out,       \* the lines written to _file
  lost,      \* history: the lines no file took
  strayed,   \* history: a log line went into the fatal file
  alive      \* the process lives

event   == <<signaled, consumer, where, disturbed, spurious>>
buffers == <<accepted, buf, local>>
thread  == <<lpc, sig>>
closing == <<stopper, call, why, owed>>
files   == <<open, out, lost, strayed>>
loggerVars == <<event, holder, buffers, thread, app, closing, files, alive>>

Ev == INSTANCE SyncEvent WITH
        Waiters <- {Logger}, Timed <- {Logger}, Resetters <- {Logger},
        ManualReset <- TRUE

\* The line that replaces dropped ones.
Mark == 0

\* Without the mark, which is only ever in front.
Lines(s) == IF s # <<>> /\ Head(s) = Mark THEN Tail(s) ELSE s
EmptyBuffer == [lines |-> <<>>, cap |-> InitCap]

LoggerInit ==
  /\ signaled = FALSE
  /\ consumer = 0
  /\ where = [t \in {Logger} |-> "out"]
  /\ disturbed = FALSE
  /\ spurious = FALSE
  /\ holder = NoThread
  /\ accepted = 0
  /\ buf = EmptyBuffer
  /\ local = EmptyBuffer
  /\ lpc = "loop"
  /\ sig = FALSE
  /\ stopper = NoThread
  /\ app = [t \in App |-> "run"]
  /\ call = [t \in Threads |-> "none"]
  /\ why = [t \in Threads |-> "close"]
  /\ owed = 0
  /\ open = "none"
  /\ out = <<>>
  /\ lost = {}
  /\ strayed = FALSE
  /\ alive = TRUE

-----------------------------------------------------------------------------
\* A full buffer keeps what follows the first line end after its middle (and
\* seven bytes), behind a mark.
DropOld(s) ==
  LET all == Lines(s)
  IN  IF Len(all) < MaxBuffer THEN s
      ELSE <<Mark>> \o SubSeq(all, Len(all) \div 2 + 2, Len(all))

\* fastream::append of one line: grow by half and the line when it is short.
AppendLine(b, l) ==
  LET size == Len(Lines(b.lines))
  IN  [lines |-> Append(b.lines, l),
       cap |-> IF b.cap < size + 1 THEN (b.cap * 3) \div 2 + 1 ELSE b.cap]

\* push takes the lock ...
PushBegin(t) ==
  /\ alive
  /\ app[t] = "run"
  /\ call[t] = "none"
  /\ accepted < MaxLines
  /\ holder = NoThread
  /\ holder' = t
  /\ app' = [app EXCEPT ![t] = "push"]
  /\ UNCHANGED <<event, buffers, thread, closing, files, alive>>

\* Mutant: a buffer that is not yet half full lowers the event.
Notify_reset(b) ==
  /\ IF Len(Lines(b.lines)) > b.cap \div 2 THEN Ev!Signal ELSE Ev!Reset(NoThread)
  /\ UNCHANGED spurious

\* The log thread is told of a buffer that is more than half full.
Notify(b) ==
  /\ IF Len(Lines(b.lines)) > b.cap \div 2 THEN Ev!Signal
     ELSE UNCHANGED <<signaled, consumer, where, disturbed>>
  /\ UNCHANGED spurious

\* ... drops lines if the buffer is full, appends, and releases the lock.
PushEnd(t) ==
  /\ alive
  /\ app[t] = "push"
  /\ call[t] = "none"
  /\ accepted' = accepted + 1
  /\ buf' = AppendLine([buf EXCEPT !.lines = DropOld(@)], accepted + 1)
  /\ Notify(buf')
  /\ holder' = NoThread
  /\ app' = [app EXCEPT ![t] = "run"]
  /\ UNCHANGED <<local, thread, closing, files, alive>>

-----------------------------------------------------------------------------
\* write(): open the log file if need be, write to whatever _file is, and
\* close it when it was removed or has grown too large (rotate()).
Write(lines) ==
  \E opened \in IF OpenMayFail /\ open = "none" THEN BOOLEAN ELSE {TRUE},
     rotated \in BOOLEAN :
    /\ out' = IF opened THEN out \o lines ELSE out
    /\ lost' = IF opened THEN lost ELSE lost \cup (ToSet(lines) \ {Mark})
    /\ open' = IF ~opened \/ rotated THEN "none"
               ELSE IF open = "none" THEN "log" ELSE open
    /\ strayed' = (strayed \/ open = "fatal")

\* Mutants: the written buffer is not cleared; the thread does not look at _stop.
Cleared_not(b) == b
UnlessStop_ignored(next) == next

Cleared(b) == [b EXCEPT !.lines = <<>>]

\* The log thread goes on, or ends when _stop is set.
UnlessStop(next) == IF stopper = NoThread THEN next ELSE "exit"

\* while (!_stop): the event is locked in a later step.
LogLoop ==
  /\ alive
  /\ lpc = "loop"
  /\ lpc' = UnlessStop("enter")
  /\ UNCHANGED <<event, holder, buffers, sig, app, closing, files, alive>>

\* _log_event.wait(128): returns at once or blocks.
LogWait ==
  /\ alive
  /\ lpc = "enter"
  /\ \/ /\ Ev!WaitFast(Logger)
        /\ lpc' = "awake"
        /\ sig' = TRUE
     \/ /\ Ev!WaitBlock(Logger)
        /\ lpc' = "waiting"
        /\ UNCHANGED sig
  /\ UNCHANGED <<spurious, holder, buffers, app, closing, files, alive>>

\* Mutant: wait() without a timeout.
LogExpire_never == FALSE /\ UNCHANGED loggerVars

\* The 128 ms are over.
LogExpire ==
  /\ alive
  /\ lpc = "waiting"
  /\ Ev!Expire(Logger)
  /\ UNCHANGED <<spurious, holder, buffers, thread, app, closing, files, alive>>

\* pthread_cond_timedwait may return 0 although nobody signalled.
LogWakeSpuriously ==
  /\ alive
  /\ call[Logger] = "none"
  /\ Ev!WakeSpuriously(Logger)
  /\ spurious' = TRUE
  /\ UNCHANGED <<holder, buffers, thread, app, closing, files, alive>>

LogAwake ==
  /\ alive
  /\ lpc = "waiting"
  /\ \/ signaled /\ Ev!WaitReturn(Logger) /\ sig' = TRUE
     \/ Ev!WaitTimeout(Logger) /\ sig' = FALSE
  /\ lpc' = "awake"
  /\ UNCHANGED <<spurious, holder, buffers, app, closing, files, alive>>

\* if (_stop) break
LogCheck ==
  /\ alive
  /\ lpc = "awake"
  /\ lpc' = UnlessStop("swap")
  /\ UNCHANGED <<event, holder, buffers, sig, app, closing, files, alive>>

\* Under the lock: take the buffer if it holds anything, reset the event if it
\* was what ended the wait.
LogSwap ==
  /\ alive
  /\ lpc = "swap"
  /\ holder = NoThread
  /\ IF buf.lines # <<>>
     THEN buf' = local /\ local' = buf
     ELSE UNCHANGED <<buf, local>>
  /\ IF sig THEN Ev!Reset(Logger)
     ELSE UNCHANGED <<signaled, consumer, where, disturbed>>
  /\ lpc' = "write"
  /\ UNCHANGED <<spurious, holder, accepted, sig, app, closing, files, alive>>

\* Write what was taken, clear it and go round.
LogWrite ==
  /\ alive
  /\ lpc = "write"
  /\ IF local.lines # <<>>
     THEN /\ Write(local.lines)
          /\ local' = Cleared(local)
     ELSE UNCHANGED <<files, local>>
  /\ lpc' = "loop"
  /\ UNCHANGED <<event, holder, accepted, buf, sig, app, closing, alive>>

-----------------------------------------------------------------------------
\* stop(), first line: one caller sets _stop and goes on, any other returns.
EnterStop(t, reason) ==
  /\ why' = [why EXCEPT ![t] = reason]
  /\ IF stopper = NoThread
     THEN /\ stopper' = t
          /\ owed' = accepted
          /\ call' = [call EXCEPT ![t] = "raise"]
     ELSE /\ call' = [call EXCEPT ![t] = "closed"]
          /\ UNCHANGED <<stopper, owed>>

Close(t, reason) ==
  /\ EnterStop(t, reason)
  /\ UNCHANGED <<event, holder, buffers, thread, app, files, alive>>

\* assert(_signaled) fails on the log thread: the handler of SIGABRT is
\* on_failure(), which calls close() under the event's mutex. From here on
\* every signal() blocks, that of this close() too.
LogAssert ==
  /\ alive
  /\ lpc = "waiting"
  /\ call[Logger] = "none"
  /\ ~signaled
  /\ Ev!WaitReturn(Logger)
  /\ EnterStop(Logger, "fatal")
  /\ UNCHANGED <<spurious, holder, buffers, thread, app, files, alive>>

\* log::close() called by the program, with a fatal line, or on a failure.
CallClose(t) ==
  /\ alive
  /\ app[t] = "run"
  /\ call[t] = "none"
  /\ \/ t \in Closers /\ Close(t, "close")
     \/ t \in Dying /\ Close(t, "fatal")

\* on_signal() runs on top of whatever the thread does, a push or a close()
\* of its own included; the log thread may be hit between any two of its steps.
\* When _stop is set already its close() returns at once and the signal, raised
\* again, kills the process.
Interrupt(t) ==
  /\ alive
  /\ t \in Signalled
  /\ t = Logger => lpc # "exit"
  /\ why[t] # "signal"
  /\ IF stopper = NoThread
     THEN Close(t, "signal")
     ELSE /\ alive' = FALSE
          /\ UNCHANGED <<event, holder, buffers, thread, app, closing, files>>

CloseRaise(t) ==
  /\ alive
  /\ call[t] = "raise"
  /\ Ev!Signal
  /\ call' = [call EXCEPT ![t] = "join"]
  /\ UNCHANGED <<spurious, holder, buffers, thread, app, stopper, why, owed, files, alive>>

\* Mutant: the log thread is not joined.
Joined_not(t) == TRUE

\* pthread_join of the thread itself fails at once, and nobody looks at that.
Joined(t) == lpc = "exit" \/ t = Logger

CloseJoin(t) ==
  /\ alive
  /\ call[t] = "join"
  /\ Joined(t)
  /\ call' = [call EXCEPT ![t] = "flush"]
  /\ UNCHANGED <<event, holder, buffers, thread, app, stopper, why, owed,
                 files, alive>>

\* Under the lock: write what is left in the buffer.
CloseFlush(t) ==
  /\ alive
  /\ call[t] = "flush"
  /\ holder = NoThread
  /\ IF buf.lines # <<>>
     THEN /\ Write(buf.lines)
          /\ buf' = Cleared(buf)
     ELSE UNCHANGED <<files, buf>>
  /\ call' = [call EXCEPT ![t] = "closed"]
  /\ UNCHANGED <<event, holder, accepted, local, thread, app, stopper, why,
                 owed, alive>>

\* close() returns: the program goes on, the handler raises the signal again.
CloseReturn(t) ==
  /\ alive
  /\ call[t] = "closed"
  /\ \/ /\ why[t] = "close"
        /\ call' = [call EXCEPT ![t] = "none"]
        /\ UNCHANGED alive
     \/ /\ why[t] = "signal"
        /\ alive' = FALSE
        /\ UNCHANGED call
  /\ UNCHANGED <<event, holder, buffers, thread, app, stopper, why, owed, files>>

\* push_fatal_log() and on_failure() after close(): reopen _file as the fatal
\* file and write to it.
OpenFatal(t) ==
  /\ alive
  /\ call[t] = "closed"
  /\ why[t] = "fatal"
  /\ \E opened \in IF OpenMayFail THEN BOOLEAN ELSE {TRUE} :
       open' = IF opened THEN "fatal" ELSE "none"
  /\ call' = [call EXCEPT ![t] = "abort"]
  /\ UNCHANGED <<event, holder, buffers, thread, app, stopper, why, owed, out,
                 lost, strayed, alive>>

Abort(t) ==
  /\ alive
  /\ call[t] = "abort"
  /\ alive' = FALSE
  /\ UNCHANGED <<event, holder, buffers, thread, app, closing, files>>

\* The log thread stands still while a handler runs on it.
LogThread ==
  /\ call[Logger] = "none"
  /\ \/ LogLoop \/ LogWait \/ LogExpire \/ LogAwake \/ LogCheck \/ LogSwap \/ LogWrite
     \/ LogAssert

CloseStep(t) ==
  \/ CloseRaise(t) \/ CloseJoin(t) \/ CloseFlush(t) \/ CloseReturn(t)
  \/ OpenFatal(t) \/ Abort(t)

LoggerNext ==
  \/ LogThread
  \/ LogWakeSpuriously
  \/ \E t \in App :
       PushBegin(t) \/ PushEnd(t) \/ CallClose(t)
  \/ \E t \in Threads : Interrupt(t) \/ CloseStep(t)

\* Threads that can run do; nobody is obliged to push, to close or to signal,
\* and no wakeup has to be spurious.
LoggerFairness ==
  /\ WF_loggerVars(LogThread)
  /\ \A t \in App : WF_loggerVars(PushEnd(t))
  /\ \A t \in Threads : WF_loggerVars(CloseStep(t))

LoggerSpec == LoggerInit /\ [][LoggerNext]_loggerVars /\ LoggerFairness

-----------------------------------------------------------------------------
\* The asserts of SyncEvent::wait hold for _log_event as long as no wakeup is
\* spurious: one thread both waits and resets, so nobody lowers the event under
\* a released waiter. A spurious wakeup may fail them (LogAssert).
EventSound == ~spurious => (Ev!EventAlive /\ ~disturbed)

Unwritten == ToSet(local.lines) \cup ToSet(buf.lines)

\* None of these was pushed before _stop was set.
PushedLater(lines) == \A l \in lines : l = Mark \/ l > owed

\* log.h:19 for the caller whose stop() does the work: when it returns, no line
\* pushed before the logger was stopped is left in memory. A handler on the log
\* thread cannot wait for it: the lines that thread has in hand go with the
\* process (log.cc:150), but those in the common buffer are written.
StopperWritesAll ==
  \A t \in Threads : (t = stopper /\ call[t] \in {"closed", "abort"}) =>
    PushedLater(IF t = Logger THEN ToSet(buf.lines) ELSE Unwritten)

\* log.h:19 as it is written, for every caller of close(), the handler of a
\* signal included.
CloseWritesAll ==
  \A t \in Threads : call[t] \in {"closed", "abort"} => PushedLater(Unwritten)

\* _file is reopened as the fatal file only when the log thread is gone, or
\* else by a second caller whose close() returned too early.
LogLinesInLogFile ==
  strayed => \E t \in Dying : call[t] = "abort" /\ t # stopper

\* A handler that interrupted a push holds _log_mutex against itself, and the
\* log thread whose assert failed holds the event's mutex for good.
Stuck ==
  \/ \E t \in App : app[t] = "push" /\ call[t] # "none"
  \/ ~Ev!EventAlive

\* close() returns, unless one of these blocks it or the process dies.
CloseReturns ==
  \A t \in Threads : call[t] = "raise" ~> (call[t] = "closed" \/ ~alive \/ Stuck)

\* A line pushed before the logger is stopped is written in the end, or
\* dropped by an overflow, or refused by the file: the wait of 128 ms and the
\* flush of stop() between them leave none behind.
LinesSettle ==
  \A l \in 1..MaxLines :
    (accepted >= l /\ stopper = NoThread) ~> (l \notin Unwritten \/ ~alive \/ Stuck)

\* A handler on the log thread ends the process: its lines are lost from then on.
Doomed == IF stopper = Logger THEN local.lines ELSE <<>>

Pipe == INSTANCE LogPipe WITH
          pending <- (IF stopper = Logger THEN <<>> ELSE local.lines) \o buf.lines,
          lost <- lost \cup (ToSet(Doomed) \ {Mark})

\* The two buffers, their swap, the two writers and the three ways to stop them
\* are one pipe of lines.
ImplementsPipe == Pipe!Spec
=============================================================================
