----------------------------- MODULE AoutSpeech -----------------------------
(***************************************************************************)
(* The second half of aout_queue.c as main.c uses it: the queue of files   *)
(* to be read out, which is the ring of AoutQueue once more (its items are *)
(* copied out, and none is too long), and the status that says whether     *)
(* somebody talks or a file is read out, which is kept alive by talk and   *)
(* speech data and dies a second after the last one.                       *)
(*                                                                         *)
(* The status is a time in milliseconds since the device was switched on,  *)
(* cut to an int. The int has 2 * Half values here.                        *)
(***************************************************************************)
EXTENDS AoutQueue, Integers

CONSTANTS
  Second,    \* how long data counts, 1000 in the code
  Half,      \* 2^31 in the code
  MaxClock   \* bound: the time at which a run ends

ASSUME SpeechAssumption ==
  /\ {Second, Half, MaxClock} \subseteq Nat
  /\ Second < Half

Kind == {"talk", "speech"}

VARIABLES
  clock,   \* CLOCK_MONOTONIC in milliseconds
  last,    \* g_lasttime_talkdata_ms, g_lasttime_speechdata_ms
  data     \* history: the real time of the last data, Never if there was none

Never == -1

statusVars == <<clock, last, data>>
speechVars == <<queueVars, statusVars>>

SpeechInit ==
  /\ QueueInit
  /\ clock = 0
  /\ last = [k \in Kind |-> 0]
  /\ data = [k \in Kind |-> Never]

\* A number cut to an int.
Int32(n) == LET r == n % (2 * Half) IN IF r < Half THEN r ELSE r - 2 * Half

-----------------------------------------------------------------------------
FileCreate == Create /\ UNCHANGED statusVars
FileDestroy == Destroy /\ UNCHANGED statusVars
FileEnqueue(f) == Enqueue(f) /\ UNCHANGED statusVars
FileDequeue(c) ==
  /\ DequeueReady(c) \/ DequeueBlock(c) \/ DequeueResume(c)
  /\ UNCHANGED statusVars

Refresh(k) ==
  /\ last' = [last EXCEPT ![k] = Int32(clock)]
  /\ data' = [data EXCEPT ![k] = clock]
  /\ UNCHANGED clock

\* main refreshes the talk status when it has queued voice data.
Talk == Refresh("talk") /\ UNCHANGED queueVars

\* The reader of files refreshes the speech status after every dequeue, the ones
\* that fail for want of a queue included.
Speak(c) ==
  /\ \/ Done(c)
     \/ ~inited /\ doing[c] = "idle" /\ UNCHANGED queueVars
  /\ Refresh("speech")

Tick == clock < MaxClock /\ clock' = clock + 1 /\ UNCHANGED <<queueVars, last, data>>

SpeechNext ==
  \/ FileCreate \/ FileDestroy \/ Talk \/ Tick
  \/ \E f \in Item : FileEnqueue(f)
  \/ \E c \in Dequeuers : FileDequeue(c) \/ Speak(c)

SpeechSpec == SpeechInit /\ [][SpeechNext]_speechVars

-----------------------------------------------------------------------------
\* Mutant: the times are compared where they are subtracted in the code.
Deltas_compared(now, then) == {IF now < then THEN Second ELSE now - then}

\* The difference of two ints, of which the build makes what it likes when it
\* is no int.
Deltas(now, then) == {now - then, Int32(now - then)}

\* What aout_status_get may answer for k.
Status(k) == {IF d < Second THEN 1 ELSE 0 : d \in Deltas(Int32(clock), last[k])}

\* What the status is about: there was data within the last second.
Recent(k) == data[k] # Never /\ clock - data[k] < Second

\* The time since the last data, or since boot.
Since(k) == IF data[k] = Never THEN 0 ELSE data[k]
Age(k) == clock - Since(k)

\* What aout_queue/docs/project.md:80-81 says: data begins it, and a second
\* without data ends it. The code does not keep to it (aout_queue.c:200-244): when
\* the last data, or boot, is 2^31 milliseconds ago the difference is negative, and
\* the status 1 again. In the first second after boot, which is left out here, it
\* is 1 too, since the times begin with 0.
StatusNeedsData == \A k \in Kind : clock >= Second /\ Status(k) = {1} => Recent(k)

\* It does from the first second after boot on, and until 2^31 milliseconds
\* without data: the status is 1 with fresh data and 0 without, across the turn of
\* the int; with the overflow of the difference (aout_queue.c:236) the build may
\* answer either.
StatusFresh ==
  \A k \in Kind :
    Age(k) < Half /\ (data[k] = Never => clock >= Second) =>
      LET right == IF Recent(k) THEN 1 ELSE 0
      IN  /\ right \in Status(k)
          /\ Int32(clock) >= last[k] => Status(k) = {right}
=============================================================================
