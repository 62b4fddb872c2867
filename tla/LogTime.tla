------------------------------- MODULE LogTime -------------------------------
(***************************************************************************)
(* The time stamp of the log lines (LogTime in base/log.cc). The log       *)
(* thread updates it: it does not format the time anew each time, but adds *)
(* what went by to the broken-down time it has and writes the digits that  *)
(* changed. The clock may be set, to and fro.                              *)
(*                                                                         *)
(* Times are local times in seconds; date and hour are one number. The     *)
(* zone changes its offset at full hours, where the time is formatted anew *)
(* in any case.                                                            *)
(***************************************************************************)
EXTENDS Integers

CONSTANT Times   \* the times the clock shows

ASSUME TimesAssumption == Times \subseteq Nat

VARIABLES
  now,    \* what time(0) returns
  start,  \* _start
  tm,     \* _tm
  buf     \* _buf

timeVars == <<now, start, tm, buf>>

\* localtime_r.
Local(t) == [hour |-> t \div 3600, min |-> (t \div 60) % 60, sec |-> t % 60]

TimeInit ==
  /\ now \in Times
  /\ start = now
  /\ tm = Local(now)
  /\ buf = Local(now)

\* Time goes on, or the clock is set.
SetClock == now' \in Times /\ UNCHANGED <<start, tm, buf>>

\* Mutant: the end of the hour is not looked at.
Anew_hour(sec) == now < start \/ now - start > 60

\* When update formats the time anew: sec is the seconds counted on.
Anew(sec) ==
  \/ now < start \/ now - start > 60
  \/ tm.min = 59 /\ sec > 59

ResetTime ==
  /\ now # start
  /\ Anew(tm.sec + now - start)
  /\ start' = now
  /\ tm' = Local(now)
  /\ buf' = Local(now)
  /\ UNCHANGED now

\* Otherwise it counts on, into the next minute at most.
CountOn ==
  LET sec == tm.sec + now - start
  IN  /\ now # start
      /\ ~Anew(sec)
      /\ start' = now
      /\ tm' = IF sec < 60 THEN [tm EXCEPT !.sec = sec]
               ELSE [tm EXCEPT !.min = @ + 1, !.sec = sec - 60]
      /\ buf' = [buf EXCEPT !.sec = tm'.sec,
                            !.min = IF sec < 60 THEN @ ELSE tm'.min]
      /\ UNCHANGED now

TimeNext == SetClock \/ ResetTime \/ CountOn

TimeSpec == TimeInit /\ [][TimeNext]_timeVars

-----------------------------------------------------------------------------
\* The stamp and the broken-down time are those of the last time looked at,
\* however much went by between two updates and wherever the clock was set: the
\* carry stops at one minute, and the table of digits is not read past its end
\* (log.cc:296-301).
StampRight == tm = Local(start) /\ buf = Local(start)
=============================================================================
