-------------------------- MODULE LevelLoggerProofs --------------------------
(***************************************************************************)
(* Proofs about LevelLogger, for every set of threads, every buffer size   *)
(* and every number of lines: the event's asserts hold while no wakeup is  *)
(* spurious, the caller that stops the logger leaves no earlier line       *)
(* behind, log lines stay out of the fatal file, and the whole is a pipe   *)
(* of lines.                                                               *)
(***************************************************************************)
EXTENDS LevelLogger, SequenceTheorems, TLAPS

Buffer == [lines : Seq(Nat), cap : Nat]

LoggerTypeOK ==
  /\ signaled \in BOOLEAN
  /\ where \in [{Logger} -> {"out", "blocked", "woken", "expired", "aborted"}]
  /\ holder \in App \cup {NoThread}
  /\ accepted \in Nat /\ owed \in Nat
  /\ buf \in Buffer /\ local \in Buffer
  /\ lpc \in {"loop", "enter", "waiting", "awake", "swap", "write", "exit"}
  /\ stopper \in Threads \cup {NoThread}
  /\ app \in [App -> {"run", "push"}]
  /\ call \in [Threads -> {"none", "raise", "join", "flush", "closed", "abort"}]
  /\ why \in [Threads -> {"close", "signal", "fatal"}]
  /\ out \in Seq(Nat) /\ lost \subseteq Nat

Aborted == where[Logger] = "aborted"

\* A log thread that was not released spuriously finds the event raised, and
\* nobody disturbs it.
Waking ==
  /\ lpc # "waiting" => where[Logger] = "out"
  /\ ~spurious => /\ ~disturbed
                  /\ ~Aborted
                  /\ where[Logger] = "woken" => signaled

\* Who is in stop(), and what it knows of the log thread.
Working(t) == call[t] \in {"raise", "join", "flush"}
Stopped == stopper # NoThread /\ ~Working(stopper)

Stops ==
  /\ stopper = NoThread => \A t \in Threads : call[t] = "none"
  /\ \A t \in Threads : Working(t) => t = stopper
  /\ stopper = Logger => call[Logger] # "none" /\ why[Logger] # "close"
  /\ (stopper \in App /\ (Stopped \/ call[stopper] = "flush")) => lpc = "exit"

\* When the assert has failed the log thread is in its handler, and whoever
\* set _stop never gets through signal(); one who gets through it leaves the
\* event raised until the log thread is on its way to the end.
Asserted ==
  /\ Aborted => /\ call[Logger] # "none" /\ why[Logger] # "close"
                /\ stopper # NoThread /\ call[stopper] = "raise"
  /\ (stopper # NoThread /\ call[stopper] # "raise")
       => signaled \/ lpc \in {"write", "loop", "exit"}

\* The log thread's own buffer is empty but for the step between the swap and
\* the write, and what was pushed before _stop was set is gone after the flush.
Buffered ==
  /\ owed <= accepted
  /\ lpc # "write" => local.lines = <<>>
  /\ Stopped => PushedLater(ToSet(buf.lines))

\* The fatal file is opened by a thread that is about to abort.
Fatal ==
  /\ \A t \in Threads : why[t] = "fatal" => t \in Dying \/ (t = Logger /\ Aborted)
  /\ open = "fatal" => Aborted \/ \E t \in Dying : call[t] = "abort"
  /\ LogLinesInLogFile

LoggerInv == LoggerTypeOK /\ Waking /\ Stops /\ Asserted /\ Buffered /\ Fatal

-----------------------------------------------------------------------------
\* Sequences: the end of one from the m-th place, alone and behind another.
LEMMA SuffixProperties ==
  ASSUME NEW S, NEW s \in Seq(S), NEW m \in 1..Len(s) + 1
  PROVE  /\ SubSeq(s, m, Len(s)) \in Seq(S)
         /\ Len(SubSeq(s, m, Len(s))) = Len(s) - m + 1
         /\ \A k \in 1..Len(s) - m + 1 : SubSeq(s, m, Len(s))[k] = s[m + k - 1]
<1> DEFINE n == Len(s)
<1>1. n \in Nat /\ m \in Int /\ m >= 1 /\ m <= n + 1
  BY LenProperties
<1>2. \A k \in m..n : s[k] \in S
  BY <1>1, ElementOfSeq
<1> HIDE DEF n
<1>3. /\ SubSeq(s, m, n) \in Seq(S)
      /\ Len(SubSeq(s, m, n)) = IF m <= n THEN n - m + 1 ELSE 0
      /\ \A k \in 1..n - m + 1 : SubSeq(s, m, n)[k] = s[m + k - 1]
  BY <1>1, <1>2, SubSeqProperties
<1>4. Len(SubSeq(s, m, n)) = n - m + 1
  BY <1>1, <1>3
<1> QED
  BY <1>3, <1>4 DEF n

LEMMA ConcatSuffix ==
  ASSUME NEW S, NEW s \in Seq(S), NEW t \in Seq(S), NEW j \in 0..Len(t)
  PROVE  SubSeq(s \o t, Len(s) + j + 1, Len(s \o t)) = SubSeq(t, j + 1, Len(t))
<1> DEFINE st == s \o t
           m == Len(s) + j + 1
<1>1. /\ Len(s) \in Nat /\ Len(t) \in Nat
      /\ st \in Seq(S) /\ Len(st) = Len(s) + Len(t)
      /\ \A k \in 1..Len(s) + Len(t) : st[k] = IF k <= Len(s) THEN s[k] ELSE t[k - Len(s)]
  BY LenProperties, ConcatProperties
<1>2. m \in 1..Len(st) + 1 /\ j + 1 \in 1..Len(t) + 1 /\ Len(st) - m + 1 = Len(t) - j
      /\ Len(t) - (j + 1) + 1 = Len(t) - j
  BY <1>1
<1> HIDE DEF st, m
<1>3. /\ SubSeq(st, m, Len(st)) \in Seq(S)
      /\ Len(SubSeq(st, m, Len(st))) = Len(t) - j
      /\ \A k \in 1..Len(t) - j : SubSeq(st, m, Len(st))[k] = st[m + k - 1]
  BY <1>1, <1>2, SuffixProperties
<1>4. /\ SubSeq(t, j + 1, Len(t)) \in Seq(S)
      /\ Len(SubSeq(t, j + 1, Len(t))) = Len(t) - j
      /\ \A k \in 1..Len(t) - j : SubSeq(t, j + 1, Len(t))[k] = t[j + 1 + k - 1]
  BY <1>2, SuffixProperties
<1>5. ASSUME NEW k \in 1..Len(t) - j PROVE st[m + k - 1] = t[j + 1 + k - 1]
  <2>1. /\ m + k - 1 \in 1..Len(s) + Len(t) /\ ~(m + k - 1 <= Len(s))
        /\ (m + k - 1) - Len(s) = j + 1 + k - 1
    BY <1>1 DEF m
  <2> QED
    BY <1>1, <2>1
<1>6. SubSeq(st, m, Len(st)) = SubSeq(t, j + 1, Len(t))
  BY <1>3, <1>4, <1>5, SeqEqual
<1> QED
  BY <1>6 DEF st, m

LEMMA ConcatPrefix ==
  ASSUME NEW S, NEW s \in Seq(S), NEW t \in Seq(S)
  PROVE  SubSeq(s \o t, 1, Len(s)) = s
<1>1. CASE s = <<>>
  <2>1. Len(s) = 0 /\ SubSeq(s \o t, 1, 0) = <<>>
    BY <1>1, EmptySeq, SubSeqEmpty
  <2> QED
    BY <1>1, <2>1
<1>2. CASE s # <<>>
  <2>1. Len(s) \in Nat /\ Len(s) # 0
    BY <1>2, EmptySeq
  <2>2. 1 \in 1..Len(s) /\ Len(s) \in 1..Len(s)
    BY <2>1
  <2>3. SubSeq(s \o t, 1, Len(s)) = SubSeq(s, 1, Len(s))
    BY <2>2, SubSeqOfConcat1
  <2> QED
    BY <2>3, SubSeqFull
<1> QED
  BY <1>1, <1>2

LEMMA ToSetOf ==
  ASSUME NEW S, NEW s \in Seq(S)
  PROVE  /\ ToSet(s) \subseteq S
         /\ \A x : x \in ToSet(s) <=> \E k \in 1..Len(s) : x = s[k]
BY LenProperties, ElementOfSeq DEF ToSet

LEMMA ToSetConcat ==
  ASSUME NEW S, NEW s \in Seq(S), NEW t \in Seq(S)
  PROVE  ToSet(s \o t) \subseteq ToSet(s) \cup ToSet(t)
<1>1. /\ Len(s) \in Nat /\ Len(t) \in Nat
      /\ s \o t \in Seq(S) /\ Len(s \o t) = Len(s) + Len(t)
      /\ \A k \in 1..Len(s) + Len(t) :
           (s \o t)[k] = IF k <= Len(s) THEN s[k] ELSE t[k - Len(s)]
  BY LenProperties, ConcatProperties
<1>0. /\ \A x : x \in ToSet(s) <=> \E k \in 1..Len(s) : x = s[k]
      /\ \A x : x \in ToSet(t) <=> \E k \in 1..Len(t) : x = t[k]
      /\ \A x : x \in ToSet(s \o t) <=> \E k \in 1..Len(s \o t) : x = (s \o t)[k]
  BY <1>1, ToSetOf
<1> SUFFICES ASSUME NEW k \in 1..Len(s) + Len(t)
             PROVE  (s \o t)[k] \in ToSet(s) \cup ToSet(t)
  BY <1>0, <1>1
<1>2. CASE k <= Len(s)
  BY <1>0, <1>1, <1>2
<1>3. CASE k > Len(s)
  <2>1. k - Len(s) \in 1..Len(t) /\ ~(k <= Len(s))
    BY <1>1, <1>3
  <2> QED
    BY <1>0, <1>1, <2>1
<1> QED
  BY <1>1, <1>2, <1>3

LEMMA ToSetSuffix ==
  ASSUME NEW S, NEW s \in Seq(S), NEW m \in 1..Len(s) + 1
  PROVE  ToSet(SubSeq(s, m, Len(s))) \subseteq ToSet(s)
<1> DEFINE t == SubSeq(s, m, Len(s))
<1>1. /\ Len(s) \in Nat /\ t \in Seq(S) /\ Len(t) = Len(s) - m + 1
      /\ \A k \in 1..Len(s) - m + 1 : t[k] = s[m + k - 1]
  BY LenProperties, SuffixProperties
<1>2. \A k \in 1..Len(s) - m + 1 : m + k - 1 \in 1..Len(s)
  BY <1>1
<1> HIDE DEF t
<1>3. /\ \A x : x \in ToSet(t) <=> \E k \in 1..Len(t) : x = t[k]
      /\ \A x : x \in ToSet(s) <=> \E k \in 1..Len(s) : x = s[k]
  BY <1>1, ToSetOf
<1>4. ToSet(t) \subseteq ToSet(s)
  BY <1>1, <1>2, <1>3
<1> QED
  BY <1>4 DEF t

-----------------------------------------------------------------------------
\* The lines of a buffer are its end, from its first or second place.
LEMMA LinesProperties ==
  ASSUME NEW s \in Seq(Nat)
  PROVE  \E d \in {0, 1} : /\ d <= Len(s)
                           /\ Lines(s) = SubSeq(s, d + 1, Len(s))
<1>1. CASE s # <<>> /\ Head(s) = Mark
  <2>1. Lines(s) = SubSeq(s, 2, Len(s)) /\ Len(s) \in Nat /\ Len(s) # 0
    BY <1>1, TailIsSubSeq, EmptySeq DEF Lines
  <2> QED
    BY <2>1
<1>2. CASE ~(s # <<>> /\ Head(s) = Mark)
  <2>1. Lines(s) = SubSeq(s, 1, Len(s)) /\ Len(s) \in Nat
    BY <1>2, SubSeqFull, LenProperties DEF Lines
  <2> QED
    BY <2>1
<1> QED
  BY <1>1, <1>2

\* DropOld leaves a buffer alone or replaces its beginning by a mark.
LEMMA DropOldProperties ==
  ASSUME NEW s \in Seq(Nat)
  PROVE  \/ DropOld(s) = s
         \/ \E j \in 0..Len(s) :
              DropOld(s) = <<Mark>> \o SubSeq(s, j + 1, Len(s))
<1> DEFINE all == Lines(s)
           n == Len(all)
           h == n \div 2 + 1
<1>1. PICK d \in {0, 1} : d <= Len(s) /\ all = SubSeq(s, d + 1, Len(s))
  BY LinesProperties
<1>2. Len(s) \in Nat /\ d + 1 \in 1..Len(s) + 1 /\ d \in Nat
  BY <1>1, LenProperties
<1>3. /\ all \in Seq(Nat) /\ n = Len(s) - d /\ n \in Nat
      /\ \A k \in 1..n : all[k] = s[d + k]
  <2>1. /\ all \in Seq(Nat) /\ n = Len(s) - (d + 1) + 1
        /\ \A k \in 1..Len(s) - (d + 1) + 1 : all[k] = s[(d + 1) + k - 1]
    BY <1>1, <1>2, SuffixProperties
  <2>2. n = Len(s) - d /\ n \in Nat
    BY <1>1, <1>2, <2>1
  <2> HIDE DEF all, n
  <2>3. \A k \in 1..n : all[k] = s[d + k]
    BY <1>2, <2>1, <2>2
  <2> QED
    BY <2>1, <2>2, <2>3
<1>0. DropOld(s) = IF n < MaxBuffer THEN s
                   ELSE <<Mark>> \o SubSeq(all, n \div 2 + 2, n)
  BY DEF DropOld
<1> MaxBuffer \in Nat /\ MaxBuffer >= 1
  BY LoggerAssumption DEF LoggerAssumption
<1> HIDE DEF all, n
<1> SUFFICES ASSUME ~(n < MaxBuffer)
             PROVE  \E j \in 0..Len(s) : DropOld(s) = <<Mark>> \o SubSeq(s, j + 1, Len(s))
  BY <1>0
<1>4. n >= 1 /\ h \in 1..n /\ h + 1 \in 1..n + 1
  BY <1>3
<1>5. DropOld(s) = <<Mark>> \o SubSeq(all, h + 1, n)
  <2>1. n \div 2 + 2 = h + 1
    BY <1>3
  <2> QED
    BY <1>0, <2>1
<1> HIDE DEF h
<1>6. d + h \in 0..Len(s) /\ d + h + 1 \in 1..Len(s) + 1
  BY <1>2, <1>3, <1>4
<1>7. /\ SubSeq(all, h + 1, n) \in Seq(Nat)
      /\ Len(SubSeq(all, h + 1, n)) = n - h
      /\ \A k \in 1..n - h : SubSeq(all, h + 1, n)[k] = s[d + h + k]
  <2>1. /\ SubSeq(all, h + 1, n) \in Seq(Nat)
        /\ Len(SubSeq(all, h + 1, n)) = n - (h + 1) + 1
        /\ \A k \in 1..n - (h + 1) + 1 : SubSeq(all, h + 1, n)[k] = all[(h + 1) + k - 1]
    <3>1. all \in Seq(Nat) /\ h + 1 \in 1..Len(all) + 1 /\ n = Len(all)
      BY <1>3, <1>4 DEF n
    <3> QED
      BY <3>1, SuffixProperties
  <2>2. n - (h + 1) + 1 = n - h
    BY <1>3, <1>4
  <2>3. \A k \in 1..n - h : (h + 1) + k - 1 \in 1..n /\ d + ((h + 1) + k - 1) = d + h + k
    BY <1>2, <1>3, <1>4
  <2> QED
    BY <1>3, <2>1, <2>2, <2>3
<1>8. /\ SubSeq(s, d + h + 1, Len(s)) \in Seq(Nat)
      /\ Len(SubSeq(s, d + h + 1, Len(s))) = n - h
      /\ \A k \in 1..n - h : SubSeq(s, d + h + 1, Len(s))[k] = s[d + h + k]
  <2>1. /\ SubSeq(s, d + h + 1, Len(s)) \in Seq(Nat)
        /\ Len(SubSeq(s, d + h + 1, Len(s))) = Len(s) - (d + h + 1) + 1
        /\ \A k \in 1..Len(s) - (d + h + 1) + 1 :
             SubSeq(s, d + h + 1, Len(s))[k] = s[(d + h + 1) + k - 1]
    BY <1>6, SuffixProperties
  <2>2. Len(s) - (d + h + 1) + 1 = n - h
    BY <1>2, <1>3, <1>4
  <2>3. \A k \in 1..n - h : (d + h + 1) + k - 1 = d + h + k
    BY <1>2, <1>3, <1>4
  <2> QED
    BY <2>1, <2>2, <2>3
<1>9. SubSeq(all, h + 1, n) = SubSeq(s, d + h + 1, Len(s))
  BY <1>7, <1>8, SeqEqual
<1> QED
  BY <1>5, <1>6, <1>9

LEMMA DropOldType ==
  ASSUME NEW s \in Seq(Nat)
  PROVE  DropOld(s) \in Seq(Nat) /\ ToSet(DropOld(s)) \subseteq ToSet(s) \cup {Mark}
<1>1. CASE DropOld(s) = s
  BY <1>1
<1>2. ASSUME NEW j \in 0..Len(s), DropOld(s) = <<Mark>> \o SubSeq(s, j + 1, Len(s))
      PROVE  DropOld(s) \in Seq(Nat) /\ ToSet(DropOld(s)) \subseteq ToSet(s) \cup {Mark}
  <2>1. j + 1 \in 1..Len(s) + 1
    BY LenProperties
  <2>2. <<Mark>> \in Seq(Nat) /\ ToSet(<<Mark>>) = {Mark}
    <3>1. <<Mark>> \in Seq(Nat) /\ Len(<<Mark>>) = 1 /\ <<Mark>>[1] = Mark
      BY DEF Mark
    <3>2. PICK mk \in Seq(Nat) : mk = <<Mark>>
      BY <3>1
    <3>3. \A x : x \in ToSet(mk) <=> \E k \in 1..Len(mk) : x = mk[k]
      BY ToSetOf
    <3>4. \A x : x \in ToSet(mk) <=> x = Mark
      BY <3>1, <3>2, <3>3
    <3> QED
      BY <3>1, <3>2, <3>4
  <2> DEFINE u == SubSeq(s, j + 1, Len(s))
  <2>3. u \in Seq(Nat) /\ ToSet(u) \subseteq ToSet(s)
    BY <2>1, SuffixProperties, ToSetSuffix
  <2>4. DropOld(s) = <<Mark>> \o u
    BY <1>2
  <2> HIDE DEF u
  <2>5. <<Mark>> \o u \in Seq(Nat)
    BY <2>2, <2>3, ConcatProperties
  <2>6. ToSet(<<Mark>> \o u) \subseteq ToSet(<<Mark>>) \cup ToSet(u)
    BY <2>2, <2>3, ToSetConcat
  <2> QED
    BY <2>2, <2>3, <2>4, <2>5, <2>6
<1> QED
  BY <1>1, <1>2, DropOldProperties

LEMMA ToSetAppend ==
  ASSUME NEW S, NEW s \in Seq(S), NEW e \in S
  PROVE  /\ Append(s, e) \in Seq(S)
         /\ ToSet(Append(s, e)) \subseteq ToSet(s) \cup {e}
<1>1. /\ Len(s) \in Nat
      /\ Append(s, e) \in Seq(S) /\ Len(Append(s, e)) = Len(s) + 1
      /\ \A k \in 1..Len(s) : Append(s, e)[k] = s[k]
      /\ Append(s, e)[Len(s) + 1] = e
  BY LenProperties, AppendProperties
<1> DEFINE a == Append(s, e)
<1> HIDE DEF a
<1>2. /\ \A x : x \in ToSet(s) <=> \E k \in 1..Len(s) : x = s[k]
      /\ \A x : x \in ToSet(a) <=> \E k \in 1..Len(a) : x = a[k]
  BY <1>1, ToSetOf DEF a
<1>3. \A k \in 1..Len(s) + 1 : k \in 1..Len(s) \/ k = Len(s) + 1
  BY <1>1
<1>4. ToSet(a) \subseteq ToSet(s) \cup {e}
  BY <1>1, <1>2, <1>3 DEF a
<1> QED
  BY <1>1, <1>4 DEF a

LEMMA ToSetEmpty == ToSet(<<>>) = {}
BY DEF ToSet

LEMMA EmptyBufferType == EmptyBuffer \in Buffer /\ EmptyBuffer.lines = <<>>
BY LoggerAssumption DEF LoggerAssumption, EmptyBuffer, Buffer

\* What push leaves in the buffer.
LEMMA PushedBuffer ==
  ASSUME NEW b \in Buffer, NEW l \in Nat
  PROVE  /\ AppendLine([b EXCEPT !.lines = DropOld(@)], l) \in Buffer
         /\ AppendLine([b EXCEPT !.lines = DropOld(@)], l).lines = Append(DropOld(b.lines), l)
<1> DEFINE d == [b EXCEPT !.lines = DropOld(@)]
<1>1. b.lines \in Seq(Nat) /\ b.cap \in Nat
  BY DEF Buffer
<1>2. d.lines = DropOld(b.lines) /\ d.cap = b.cap
  BY DEF Buffer
<1>3. d.lines \in Seq(Nat)
  BY <1>1, <1>2, DropOldType
<1> HIDE DEF d
<1>4. Append(d.lines, l) \in Seq(Nat)
  BY <1>3, AppendProperties
<1>5. (b.cap * 3) \div 2 + 1 \in Nat
  <2>1. b.cap * 3 \in Nat
    BY <1>1
  <2> QED
    BY <2>1
<1>6. AppendLine(d, l).lines = Append(d.lines, l)
  BY DEF AppendLine
<1>7. AppendLine(d, l) \in Buffer
  BY <1>1, <1>2, <1>4, <1>5 DEF AppendLine, Buffer
<1> QED
  BY <1>2, <1>6, <1>7 DEF d

LEMMA ClearedBuffer ==
  ASSUME NEW b \in Buffer
  PROVE  Cleared(b) \in Buffer /\ Cleared(b).lines = <<>>
<1>1. <<>> \in Seq(Nat)
  BY EmptySeq
<1> QED
  BY <1>1 DEF Cleared, Buffer

\* What write() does to the files.
LEMMA WriteType ==
  ASSUME LoggerTypeOK, NEW lines \in Seq(Nat), Write(lines)
  PROVE  /\ out' \in Seq(Nat) /\ lost' \subseteq Nat
         /\ open' = "fatal" => open = "fatal"
         /\ strayed' => strayed \/ open = "fatal"
<1>1. PICK opened \in BOOLEAN, rotated \in BOOLEAN :
        /\ out' = IF opened THEN out \o lines ELSE out
        /\ lost' = IF opened THEN lost ELSE lost \cup (ToSet(lines) \ {Mark})
        /\ open' = IF ~opened \/ rotated THEN "none"
                   ELSE IF open = "none" THEN "log" ELSE open
        /\ strayed' = (strayed \/ open = "fatal")
  <2>1. (IF OpenMayFail /\ open = "none" THEN BOOLEAN ELSE {TRUE}) \subseteq BOOLEAN
    OBVIOUS
  <2> QED
    BY <2>1 DEF Write
<1>2. out' \in Seq(Nat)
  BY <1>1, ConcatProperties DEF LoggerTypeOK
<1>3. lost' \subseteq Nat
  <2>1. ToSet(lines) \subseteq Nat
    BY ToSetOf
  <2> QED
    BY <1>1, <2>1 DEF LoggerTypeOK
<1> QED
  BY <1>1, <1>2, <1>3

-----------------------------------------------------------------------------
\* The steps of the event, as they look to its only waiter.
EventTypeOK ==
  /\ signaled \in BOOLEAN
  /\ where \in [{Logger} -> {"out", "blocked", "woken", "expired", "aborted"}]

LEMMA AliveEvent == EventTypeOK => (Ev!EventAlive <=> ~Aborted)
BY DEF EventTypeOK, Ev!EventAlive, Ev!In, Aborted

LEMMA SignalStep ==
  ASSUME EventTypeOK, Ev!Signal
  PROVE  /\ EventTypeOK' /\ signaled' = TRUE
         /\ ~Aborted /\ ~Aborted'
         /\ ~disturbed => ~disturbed'
         /\ where[Logger] = "out" => where'[Logger] = "out"
BY AliveEvent DEF EventTypeOK, Ev!Signal, Ev!Broadcast, Aborted

LEMMA ResetStep ==
  ASSUME EventTypeOK, Ev!Reset(Logger)
  PROVE  /\ EventTypeOK' /\ where[Logger] = "out" /\ where' = where
         /\ ~disturbed => ~disturbed'
BY DEF EventTypeOK, Ev!Reset, Ev!In

LEMMA WaitStep ==
  ASSUME EventTypeOK, Ev!WaitFast(Logger) \/ Ev!WaitBlock(Logger)
  PROVE  /\ EventTypeOK' /\ (~disturbed => ~disturbed') /\ (signaled => signaled')
         /\ ~Aborted /\ ~Aborted' /\ where'[Logger] # "woken"
         /\ Ev!WaitFast(Logger) => where'[Logger] = "out"
BY AliveEvent DEF EventTypeOK, Ev!WaitFast, Ev!WaitBlock, Ev!Leave, Aborted

LEMMA ExpireStep ==
  ASSUME EventTypeOK, Ev!Expire(Logger)
  PROVE  /\ EventTypeOK' /\ (~disturbed => ~disturbed') /\ (signaled => signaled')
         /\ ~Aborted /\ where'[Logger] = "expired"
BY AliveEvent DEF EventTypeOK, Ev!Expire

LEMMA SpuriousStep ==
  ASSUME EventTypeOK, Ev!WakeSpuriously(Logger)
  PROVE  /\ EventTypeOK' /\ ~Aborted /\ where[Logger] = "blocked"
         /\ where'[Logger] = "woken" /\ signaled' = signaled
BY AliveEvent DEF EventTypeOK, Ev!WakeSpuriously

LEMMA AwakeStep ==
  ASSUME EventTypeOK,
         (signaled /\ Ev!WaitReturn(Logger)) \/ Ev!WaitTimeout(Logger)
  PROVE  /\ EventTypeOK' /\ (~disturbed => ~disturbed') /\ (signaled => signaled')
         /\ ~Aborted /\ where'[Logger] = "out"
BY AliveEvent DEF EventTypeOK, Ev!WaitReturn, Ev!WaitTimeout, Ev!Leave

LEMMA AssertStep ==
  ASSUME EventTypeOK, ~signaled, Ev!WaitReturn(Logger)
  PROVE  /\ EventTypeOK' /\ where[Logger] = "woken" /\ Aborted' /\ signaled' = signaled
BY DEF EventTypeOK, Ev!WaitReturn, Aborted

-----------------------------------------------------------------------------
LEMMA LoggerInitially == LoggerInit => LoggerInv
<1> SUFFICES ASSUME LoggerInit PROVE LoggerInv
  OBVIOUS
<1>1. LoggerTypeOK
  BY EmptyBufferType, EmptySeq DEF LoggerInit, LoggerTypeOK
<1>2. Waking /\ Stops /\ Asserted /\ Buffered /\ Fatal
  BY LoggerAssumption, EmptyBufferType
  DEF LoggerAssumption, LoggerInit, Waking, Asserted, Aborted, Stops, Working, Stopped, Buffered, Fatal,
      Threads, LogLinesInLogFile
<1> QED
  BY <1>1, <1>2 DEF LoggerInv

LEMMA PushBeginInv ==
  ASSUME LoggerInv, NEW t \in App, PushBegin(t)
  PROVE  LoggerInv'
<1>1. LoggerTypeOK'
  BY DEF LoggerInv, LoggerTypeOK, PushBegin, event, buffers, thread, closing, files
<1>2. (Waking /\ Stops /\ Asserted /\ Buffered /\ Fatal)'
  BY DEF LoggerInv, PushBegin, event, buffers, thread, closing, files, Waking, Stops,
         Working, Stopped, Buffered, PushedLater, Fatal, LogLinesInLogFile,
         Asserted, Aborted
<1> QED
  BY <1>1, <1>2 DEF LoggerInv

LEMMA PushEndInv ==
  ASSUME LoggerInv, NEW t \in App, PushEnd(t)
  PROVE  LoggerInv'
<1>1. /\ accepted' = accepted + 1 /\ accepted \in Nat /\ owed \in Nat
      /\ buf' \in Buffer /\ buf'.lines = Append(DropOld(buf.lines), accepted + 1)
  <2>1. accepted \in Nat /\ owed \in Nat /\ buf \in Buffer
    BY DEF LoggerInv, LoggerTypeOK
  <2>2. PICK b \in Buffer, l \in Nat : b = buf /\ l = accepted + 1
    BY <2>1
  <2>3. accepted' = l /\ buf' = AppendLine([b EXCEPT !.lines = DropOld(@)], l)
    BY <2>2 DEF PushEnd
  <2> QED
    BY <2>1, <2>2, <2>3, PushedBuffer
<1>2. /\ Ev!Signal \/ UNCHANGED <<signaled, consumer, where, disturbed>>
      /\ spurious' = spurious
  BY DEF PushEnd, Notify
<1>3. EventTypeOK' /\ Waking' /\ (Aborted' <=> Aborted) /\ (signaled => signaled')
  <2>1. EventTypeOK /\ Waking /\ lpc' = lpc
    BY DEF LoggerInv, LoggerTypeOK, EventTypeOK, PushEnd, thread
  <2>2. CASE Ev!Signal
    BY <1>2, <2>1, <2>2, SignalStep DEF Waking
  <2>3. CASE UNCHANGED <<signaled, consumer, where, disturbed>>
    BY <1>2, <2>1, <2>3 DEF Waking, EventTypeOK, Aborted
  <2> QED
    BY <1>2, <2>2, <2>3
<1>4. LoggerTypeOK'
  <2>1. (accepted \in Nat /\ owed \in Nat)'
    BY <1>1 DEF PushEnd, closing
  <2>2. (holder \in App \cup {NoThread} /\ app \in [App -> {"run", "push"}])'
    BY DEF LoggerInv, LoggerTypeOK, PushEnd
  <2> QED
    BY <1>1, <1>3, <2>1, <2>2
    DEF LoggerInv, LoggerTypeOK, EventTypeOK, PushEnd, thread, closing, files
<1>5. Stops' /\ Asserted' /\ Fatal'
  BY <1>3 DEF LoggerInv, PushEnd, thread, closing, files, Stops, Working, Stopped, Fatal,
              LogLinesInLogFile, Asserted
<1>6. Buffered'
  <2>1. owed' = owed /\ (Stopped' <=> Stopped) /\ local' = local /\ lpc' = lpc
    BY DEF PushEnd, closing, thread, Stopped, Working
  <2>2. owed' <= accepted'
    BY <1>1, <2>1 DEF LoggerInv, Buffered
  <2>3. ASSUME Stopped, NEW l \in ToSet(buf'.lines)
        PROVE  l = Mark \/ l > owed
    <3>1. buf.lines \in Seq(Nat) /\ accepted + 1 \in Nat
      BY <1>1 DEF LoggerInv, LoggerTypeOK, Buffer
    <3>2. l \in ToSet(DropOld(buf.lines)) \cup {accepted + 1}
      BY <1>1, <2>3, <3>1, DropOldType, ToSetAppend
    <3>3. l \in ToSet(buf.lines) \/ l = Mark \/ l = accepted + 1
      BY <3>1, <3>2, DropOldType
    <3>4. CASE l \in ToSet(buf.lines)
      BY <2>3, <3>4 DEF LoggerInv, Buffered, PushedLater
    <3>5. CASE l = accepted + 1
      BY <1>1, <3>5 DEF LoggerInv, Buffered
    <3> QED
      BY <3>3, <3>4, <3>5
  <2> QED
    BY <2>1, <2>2, <2>3 DEF LoggerInv, Buffered, PushedLater
<1> QED
  BY <1>3, <1>4, <1>5, <1>6 DEF LoggerInv

-----------------------------------------------------------------------------
\* The steps of the log thread that move no line.
LEMMA LogLoopInv ==
  ASSUME LoggerInv, LogLoop
  PROVE  LoggerInv'
<1>1. LoggerTypeOK'
  BY DEF LoggerInv, LoggerTypeOK, LogLoop, UnlessStop, event, buffers, closing, files
<1>2. (Waking /\ Stops /\ Asserted /\ Buffered /\ Fatal)'
  BY DEF LoggerInv, LogLoop, UnlessStop, event, buffers, closing, files, Waking, Stops,
         Working, Stopped, Buffered, PushedLater, Fatal, LogLinesInLogFile,
         Asserted, Aborted
<1> QED
  BY <1>1, <1>2 DEF LoggerInv

LEMMA LogCheckInv ==
  ASSUME LoggerInv, LogCheck
  PROVE  LoggerInv'
<1>1. LoggerTypeOK'
  BY DEF LoggerInv, LoggerTypeOK, LogCheck, UnlessStop, event, buffers, closing, files
<1>2. (Waking /\ Stops /\ Asserted /\ Buffered /\ Fatal)'
  BY DEF LoggerInv, LogCheck, UnlessStop, event, buffers, closing, files, Waking, Stops,
         Working, Stopped, Buffered, PushedLater, Fatal, LogLinesInLogFile,
         Asserted, Aborted
<1> QED
  BY <1>1, <1>2 DEF LoggerInv

LEMMA LogWaitInv ==
  ASSUME LoggerInv, LogWait \/ LogExpire \/ LogAwake \/ LogWakeSpuriously
  PROVE  LoggerInv'
<1>0. EventTypeOK /\ Waking
  BY DEF LoggerInv, LoggerTypeOK, EventTypeOK
<1>1. /\ lpc \in {"enter", "waiting"} /\ lpc' \in {"waiting", "awake"}
      /\ UNCHANGED <<holder, buffers, app, closing, files>>
  <2>1. CASE LogWakeSpuriously
    <3>1. where[Logger] = "blocked"
      BY <1>0, <2>1, SpuriousStep DEF LogWakeSpuriously
    <3> QED
      BY <1>0, <2>1, <3>1 DEF LogWakeSpuriously, Waking, thread
  <2>2. CASE LogWait \/ LogExpire \/ LogAwake
    BY <2>2 DEF LogWait, LogExpire, LogAwake, thread
  <2> QED
    BY <2>1, <2>2
<1>2. EventTypeOK' /\ Waking' /\ ~Aborted /\ ~Aborted' /\ (signaled => signaled')
  <2>1. CASE LogWait
    BY <1>0, <2>1, WaitStep DEF LogWait, Waking
  <2>2. CASE LogExpire
    BY <1>0, <2>2, ExpireStep DEF LogExpire, Waking, Aborted, thread
  <2>3. CASE LogAwake
    BY <1>0, <2>3, AwakeStep DEF LogAwake, Waking, Aborted
  <2>4. CASE LogWakeSpuriously
    BY <1>0, <1>1, <2>4, SpuriousStep DEF LogWakeSpuriously, Waking, Aborted, thread
  <2> QED
    BY <2>1, <2>2, <2>3, <2>4
<1>3. LoggerTypeOK'
  BY <1>1, <1>2 DEF LoggerInv, LoggerTypeOK, EventTypeOK, buffers, closing, files
<1>4. (Stops /\ Asserted /\ Buffered /\ Fatal)'
  BY <1>1, <1>2 DEF LoggerInv, buffers, closing, files, Stops, Asserted,
              Working, Stopped, Buffered, PushedLater, Fatal, LogLinesInLogFile
<1> QED
  BY <1>2, <1>3, <1>4 DEF LoggerInv

\* The swap hands the lines over and takes back an empty buffer.
LEMMA LogSwapInv ==
  ASSUME LoggerInv, call[Logger] = "none", LogSwap
  PROVE  LoggerInv'
<1>1. /\ lpc = "swap" /\ lpc' = "write" /\ local.lines = <<>>
      /\ UNCHANGED <<holder, accepted, app, closing, files>>
  BY DEF LoggerInv, Buffered, LogSwap
<1>2. EventTypeOK' /\ Waking' /\ ~Aborted /\ ~Aborted'
  <2>1. EventTypeOK /\ Waking /\ spurious' = spurious /\ ~Aborted
    BY <1>1 DEF LoggerInv, LoggerTypeOK, EventTypeOK, LogSwap, Waking, Aborted
  <2>2. CASE Ev!Reset(Logger)
    BY <1>1, <2>1, <2>2, ResetStep DEF Waking, Aborted
  <2>3. CASE UNCHANGED <<signaled, consumer, where, disturbed>>
    BY <1>1, <2>1, <2>3 DEF Waking, EventTypeOK, Aborted
  <2> QED
    BY <2>2, <2>3 DEF LogSwap
<1>3. LoggerTypeOK'
  BY <1>1, <1>2 DEF LoggerInv, LoggerTypeOK, EventTypeOK, LogSwap, closing, files
<1>4. ~Stopped
  BY <1>1, LoggerAssumption
  DEF LoggerAssumption, Threads, LoggerInv, LoggerTypeOK, Stops, Stopped, Working
<1>5. (Stops /\ Asserted /\ Fatal)'
  BY <1>1, <1>2, <1>4 DEF LoggerInv, closing, files, Stops, Asserted,
                    Working, Stopped, Fatal, LogLinesInLogFile
<1>6. Buffered'
  BY <1>1, <1>4 DEF LoggerInv, closing, Working, Stopped, Buffered
<1> QED
  BY <1>2, <1>3, <1>5, <1>6 DEF LoggerInv

\* While the log thread runs, nobody who stopped the logger has reopened the
\* file: it would have waited for the thread.
LEMMA LogWriteInv ==
  ASSUME LoggerInv, call[Logger] = "none", LogWrite
  PROVE  LoggerInv'
<1>1. /\ lpc = "write" /\ lpc' = "loop"
      /\ UNCHANGED <<event, holder, accepted, buf, app, closing>>
  BY DEF LogWrite
<1>2. /\ local' \in Buffer /\ local'.lines = <<>>
      /\ out' \in Seq(Nat) /\ lost' \subseteq Nat
      /\ open' = "fatal" => open = "fatal"
      /\ strayed' => strayed \/ open = "fatal"
  <2>1. LoggerTypeOK /\ local \in Buffer /\ local.lines \in Seq(Nat)
    BY DEF LoggerInv, LoggerTypeOK, Buffer
  <2>2. CASE local.lines # <<>>
    <3>1. PICK b \in Buffer : b = local
      BY <2>1
    <3>2. local' = Cleared(b) /\ Write(b.lines) /\ b.lines \in Seq(Nat)
      BY <2>1, <2>2, <3>1 DEF LogWrite
    <3> QED
      BY <2>1, <3>2, ClearedBuffer, WriteType
  <2>3. CASE local.lines = <<>>
    BY <2>1, <2>3 DEF LogWrite, files, LoggerTypeOK
  <2> QED
    BY <2>2, <2>3
<1>3. LoggerTypeOK'
  BY <1>1, <1>2 DEF LoggerInv, LoggerTypeOK, event, closing
<1>4. Waking' /\ Asserted' /\ ~Aborted /\ ~Aborted'
  BY <1>1 DEF LoggerInv, Waking, Asserted, Aborted, event
<1>5. ~Stopped
  BY <1>1, LoggerAssumption
  DEF LoggerAssumption, Threads, LoggerInv, LoggerTypeOK, Stops, Stopped, Working
<1>6. Stops' /\ Buffered'
  BY <1>1, <1>2, <1>5 DEF LoggerInv, closing, Stops, Working, Stopped, Buffered
<1>7. ASSUME NEW t \in Threads, call[t] = "abort"
      PROVE  t # stopper
  BY <1>5, <1>7, LoggerAssumption DEF Stopped, Working, LoggerAssumption
<1>8. Fatal'
  BY <1>1, <1>2, <1>4, <1>7, LoggerAssumption
  DEF LoggerInv, closing, Fatal, LogLinesInLogFile, LoggerAssumption, Threads
<1> QED
  BY <1>3, <1>4, <1>6, <1>8 DEF LoggerInv

-----------------------------------------------------------------------------
\* The caller of stop() sets _stop or finds it set; the log thread comes here
\* in a signal handler or when its assert has failed.
LEMMA EnterStopInv ==
  ASSUME LoggerInv, NEW t \in Threads, NEW reason \in {"close", "signal", "fatal"},
         reason = "fatal" => t \in Dying \/ (t = Logger /\ Aborted'),
         t = Logger => reason # "close",
         call[t] = "none",
         EnterStop(t, reason),
         EventTypeOK', Waking', signaled' = signaled,
         Aborted => Aborted',
         Aborted' => Aborted \/ (t = Logger /\ ~signaled /\ lpc = "waiting"),
         UNCHANGED <<holder, buffers, thread, app, files>>
  PROVE  LoggerInv'
<1>1. why' = [why EXCEPT ![t] = reason]
  BY DEF EnterStop
<1>2. \/ /\ stopper = NoThread
         /\ stopper' = t /\ owed' = accepted
         /\ call' = [call EXCEPT ![t] = "raise"]
      \/ /\ stopper # NoThread
         /\ UNCHANGED <<stopper, owed>>
         /\ call' = [call EXCEPT ![t] = "closed"]
  BY DEF EnterStop
<1>0. t # NoThread
  BY LoggerAssumption DEF LoggerAssumption
<1>3. LoggerTypeOK'
  BY <1>1, <1>2 DEF LoggerInv, LoggerTypeOK, EventTypeOK, buffers, thread, files
<1>5. CASE stopper = NoThread
  <2>1. /\ \A u \in Threads : call[u] = "none"
        /\ ~Aborted
    BY <1>5 DEF LoggerInv, Stops, Asserted
  <2>2. /\ call'[t] = "raise" /\ why'[t] = reason
        /\ \A u \in Threads : u # t => call'[u] = "none" /\ why'[u] = why[u]
    BY <1>1, <1>2, <1>5, <2>1 DEF LoggerInv, LoggerTypeOK
  <2>3. Stops'
    BY <1>0, <1>1, <1>2, <1>5, <2>2 DEF Stops, Stopped, Working
  <2>4. Buffered'
    <3>1. ~Stopped'
      BY <1>2, <1>5, <2>2 DEF Stopped, Working
    <3>2. accepted' = accepted /\ owed' = accepted /\ accepted \in Nat
      BY <1>1, <1>2, <1>5 DEF LoggerInv, LoggerTypeOK, buffers
    <3> QED
      BY <1>1, <3>1, <3>2 DEF LoggerInv, Buffered, buffers, thread
  <2>5. Fatal'
    BY <1>1, <2>1, <2>2, LoggerAssumption
    DEF LoggerInv, Fatal, LogLinesInLogFile, files, LoggerAssumption, Threads
  <2>6. Asserted'
    BY <1>0, <1>2, <1>5, <2>1, <2>2 DEF Asserted
  <2> QED
    BY <1>3, <2>3, <2>4, <2>5, <2>6 DEF LoggerInv
<1>6. CASE stopper # NoThread
  <2>1. UNCHANGED <<stopper, owed>>
    BY <1>2, <1>6
  <2>2. /\ call'[t] = "closed" /\ why'[t] = reason
        /\ \A u \in Threads : u # t => call'[u] = call[u] /\ why'[u] = why[u]
    BY <1>1, <1>2, <1>6 DEF LoggerInv, LoggerTypeOK
  <2>3. stopper \in Threads
    BY <1>6 DEF LoggerInv, LoggerTypeOK
  <2>4. (Stopped' <=> Stopped) /\ \A u \in Threads : Working(u)' <=> Working(u)
    BY <2>1, <2>2, <2>3 DEF Stopped, Working
  <2>5. Stops'
    BY <1>1, <1>6, <2>1, <2>2, <2>3, <2>4, LoggerAssumption
    DEF LoggerInv, Stops, Stopped, Working, thread, LoggerAssumption, Threads
  <2>6. Buffered'
    BY <1>1, <2>1, <2>4 DEF LoggerInv, Buffered, PushedLater, buffers, thread
  <2>7. Fatal'
    BY <1>1, <2>1, <2>2, LoggerAssumption
    DEF LoggerInv, Fatal, LogLinesInLogFile, files, LoggerAssumption, Threads
  <2>8. Asserted'
    <3>1. CASE Aborted
      <4>1. t # Logger /\ t # stopper /\ call[stopper] = "raise"
        BY <3>1 DEF LoggerInv, Asserted
      <4> QED
        BY <1>6, <2>1, <2>2, <2>3, <3>1, <4>1 DEF LoggerInv, Asserted, Threads, thread
    <3>2. CASE ~Aborted
      <4>1. t = stopper => lpc' \in {"write", "loop", "exit"} \/ signaled'
        BY <1>6, <3>2 DEF LoggerInv, Asserted, thread
      <4>2. Aborted' => /\ t = Logger /\ call[stopper] = "raise" /\ stopper # t
                        /\ reason # "close"
        BY <1>6, <3>2 DEF LoggerInv, Asserted
      <4> QED
        BY <1>6, <2>1, <2>2, <2>3, <3>2, <4>1, <4>2 DEF LoggerInv, Asserted, thread
    <3> QED
      BY <3>1, <3>2
  <2> QED
    BY <1>3, <2>5, <2>6, <2>7, <2>8 DEF LoggerInv
<1> QED
  BY <1>5, <1>6

LEMMA CloseInv ==
  ASSUME LoggerInv, NEW t \in Threads, NEW reason \in {"close", "signal", "fatal"},
         reason = "fatal" => t \in Dying,
         t = Logger => reason = "signal",
         call[t] = "none",
         Close(t, reason)
  PROVE  LoggerInv'
<1>1. EnterStop(t, reason) /\ UNCHANGED <<event, holder, buffers, thread, app, files>>
  BY DEF Close
<1>2. EventTypeOK' /\ Waking' /\ (Aborted' <=> Aborted) /\ signaled' = signaled
  BY <1>1 DEF LoggerInv, LoggerTypeOK, EventTypeOK, Waking, Aborted, event, thread
<1> QED
  BY <1>1, <1>2, EnterStopInv

LEMMA LogAssertInv ==
  ASSUME LoggerInv, LogAssert
  PROVE  LoggerInv'
<1>1. /\ EnterStop(Logger, "fatal") /\ call[Logger] = "none" /\ lpc = "waiting"
      /\ UNCHANGED <<spurious, holder, buffers, thread, app, files>>
      /\ ~signaled /\ Ev!WaitReturn(Logger)
  BY DEF LogAssert
<1>2. EventTypeOK /\ Waking
  BY DEF LoggerInv, LoggerTypeOK, EventTypeOK
<1>3. EventTypeOK' /\ where[Logger] = "woken" /\ Aborted' /\ signaled' = signaled
  BY <1>1, <1>2, AssertStep
<1>4. Waking'
  BY <1>1, <1>2, <1>3 DEF Waking, thread
<1>5. Logger \in Threads
  BY DEF Threads
<1> QED
  BY <1>1, <1>3, <1>4, <1>5, EnterStopInv

LEMMA CallCloseInv ==
  ASSUME LoggerInv, NEW t \in App, CallClose(t)
  PROVE  LoggerInv'
<1>1. t \in Threads /\ t # Logger /\ call[t] = "none"
  BY LoggerAssumption DEF LoggerAssumption, Threads, CallClose
<1>2. CASE Close(t, "close")
  BY <1>1, <1>2, CloseInv
<1>3. CASE t \in Dying /\ Close(t, "fatal")
  BY <1>1, <1>3, CloseInv
<1> QED
  BY <1>2, <1>3 DEF CallClose

LEMMA LoggerStutter ==
  ASSUME LoggerInv,
         UNCHANGED <<event, holder, buffers, thread, app, closing, files>>
  PROVE  LoggerInv'
<1>1. LoggerTypeOK'
  BY DEF LoggerInv, LoggerTypeOK, event, buffers, thread, closing, files
<1>2. (Waking /\ Stops /\ Asserted /\ Buffered /\ Fatal)'
  BY DEF LoggerInv, event, buffers, thread, closing, files, Waking, Stops,
         Working, Stopped, Buffered, PushedLater, Fatal, LogLinesInLogFile,
         Asserted, Aborted
<1> QED
  BY <1>1, <1>2 DEF LoggerInv

LEMMA InterruptInv ==
  ASSUME LoggerInv, NEW t \in Threads, Interrupt(t)
  PROVE  LoggerInv'
<1>1. CASE stopper = NoThread
  <2>1. call[t] = "none" /\ Close(t, "signal")
    BY <1>1 DEF LoggerInv, Stops, Interrupt
  <2> QED
    BY <2>1, CloseInv
<1>2. CASE stopper # NoThread
  <2>1. UNCHANGED <<event, holder, buffers, thread, app, closing, files>>
    BY <1>2 DEF Interrupt
  <2> QED
    BY <2>1, LoggerStutter
<1> QED
  BY <1>1, <1>2

\* A step of stop() that moves no line and stays inside.
LEMMA CloseRaiseInv ==
  ASSUME LoggerInv, NEW t \in Threads, CloseRaise(t)
  PROVE  LoggerInv'
<1>1. /\ UNCHANGED <<holder, buffers, thread, app, stopper, why, owed, files, alive>>
      /\ call[t] = "raise" /\ call'[t] = "join"
      /\ \A u \in Threads : u # t => call'[u] = call[u]
  BY DEF LoggerInv, LoggerTypeOK, CloseRaise
<1>2. EventTypeOK' /\ Waking' /\ ~Aborted /\ ~Aborted' /\ signaled'
  <2>1. EventTypeOK /\ Waking /\ lpc' = lpc /\ spurious' = spurious
    BY <1>1 DEF LoggerInv, LoggerTypeOK, EventTypeOK, CloseRaise, thread
  <2> QED
    BY <2>1, SignalStep DEF CloseRaise, Waking
<1>3. LoggerTypeOK'
  BY <1>1, <1>2
  DEF LoggerInv, LoggerTypeOK, EventTypeOK, CloseRaise, buffers, thread, files
<1>4. Stops' /\ t = stopper
  BY <1>1 DEF LoggerInv, LoggerTypeOK, Stops, Stopped, Working, thread
<1>5. (Asserted /\ Buffered /\ Fatal)'
  BY <1>1, <1>2, <1>4, LoggerAssumption
  DEF LoggerInv, Buffered, Stopped, Working, PushedLater, Fatal, LogLinesInLogFile, Asserted,
      buffers, thread, files, LoggerAssumption, Threads
<1> QED
  BY <1>2, <1>3, <1>4, <1>5 DEF LoggerInv

LEMMA CloseJoinInv ==
  ASSUME LoggerInv, NEW t \in Threads, CloseJoin(t)
  PROVE  LoggerInv'
<1>1. /\ UNCHANGED <<event, holder, buffers, thread, app, stopper, why, owed, files, alive>>
      /\ call[t] = "join" /\ call'[t] = "flush"
      /\ \A u \in Threads : u # t => call'[u] = call[u]
  BY DEF LoggerInv, LoggerTypeOK, CloseJoin
<1>2. t # Logger => lpc = "exit"
  BY DEF CloseJoin, Joined
<1>3. LoggerTypeOK'
  BY <1>1 DEF LoggerInv, LoggerTypeOK, CloseJoin, event, buffers, thread, files
<1>4. Stops' /\ t = stopper
  BY <1>1, <1>2, LoggerAssumption
  DEF LoggerInv, LoggerTypeOK, Stops, Stopped, Working, thread, LoggerAssumption
<1>5. (Waking /\ Asserted /\ Buffered /\ Fatal)'
  BY <1>1, <1>4, LoggerAssumption
  DEF LoggerInv, Waking, Buffered, Stopped, Working, PushedLater, Fatal,
      LogLinesInLogFile, Asserted, Aborted, event, buffers, thread, files, LoggerAssumption, Threads
<1> QED
  BY <1>3, <1>4, <1>5 DEF LoggerInv

\* The flush empties the common buffer; the fatal file is not open, or it was
\* opened by a second caller.
LEMMA CloseFlushInv ==
  ASSUME LoggerInv, NEW t \in Threads, CloseFlush(t)
  PROVE  LoggerInv'
<1>1. /\ UNCHANGED <<event, holder, accepted, local, thread, app, stopper, why, owed>>
      /\ call[t] = "flush" /\ call'[t] = "closed"
      /\ \A u \in Threads : u # t => call'[u] = call[u]
  BY DEF LoggerInv, LoggerTypeOK, CloseFlush
<1>2. /\ buf' \in Buffer /\ buf'.lines = <<>>
      /\ out' \in Seq(Nat) /\ lost' \subseteq Nat
      /\ open' = "fatal" => open = "fatal"
      /\ strayed' => strayed \/ open = "fatal"
  <2>1. LoggerTypeOK /\ buf \in Buffer /\ buf.lines \in Seq(Nat)
    BY DEF LoggerInv, LoggerTypeOK, Buffer
  <2>2. CASE buf.lines # <<>>
    <3>1. PICK b \in Buffer : b = buf
      BY <2>1
    <3>2. buf' = Cleared(b) /\ Write(b.lines) /\ b.lines \in Seq(Nat)
      BY <2>1, <2>2, <3>1 DEF CloseFlush
    <3> QED
      BY <2>1, <3>2, ClearedBuffer, WriteType
  <2>3. CASE buf.lines = <<>>
    BY <2>1, <2>3 DEF CloseFlush, files, LoggerTypeOK
  <2> QED
    BY <2>2, <2>3
<1>3. LoggerTypeOK'
  BY <1>1, <1>2 DEF LoggerInv, LoggerTypeOK, CloseFlush, event, thread
<1>4. Stops' /\ t = stopper
  BY <1>1, LoggerAssumption
  DEF LoggerInv, LoggerTypeOK, Stops, Stopped, Working, thread, LoggerAssumption
<1>5. Waking' /\ Asserted' /\ Buffered' /\ ~Aborted /\ ~Aborted'
  <2>1. ToSet(buf'.lines) = {}
    BY <1>2, ToSetEmpty
  <2>2. ~Aborted /\ ~Aborted' /\ t # NoThread
    BY <1>1, <1>4, LoggerAssumption
    DEF LoggerInv, Asserted, Aborted, event, LoggerAssumption
  <2> QED
    BY <1>1, <1>4, <2>1, <2>2
    DEF LoggerInv, Waking, Asserted, Aborted, Buffered, PushedLater, event, thread
<1>6. Fatal'
  BY <1>1, <1>2, <1>4, <1>5, LoggerAssumption
  DEF LoggerInv, Fatal, LogLinesInLogFile, LoggerAssumption, Threads
<1> QED
  BY <1>3, <1>4, <1>5, <1>6 DEF LoggerInv

LEMMA CloseReturnInv ==
  ASSUME LoggerInv, NEW t \in Threads, CloseReturn(t)
  PROVE  LoggerInv'
<1>1. /\ UNCHANGED <<event, holder, buffers, thread, app, stopper, why, owed, files>>
      /\ call[t] = "closed" /\ call'[t] \in {"none", "closed"}
      /\ call'[t] = "none" => why[t] = "close"
      /\ call' = [call EXCEPT ![t] = call'[t]]
      /\ \A u \in Threads : u # t => call'[u] = call[u]
  BY DEF LoggerInv, LoggerTypeOK, CloseReturn
<1>2. LoggerTypeOK'
  BY <1>1 DEF LoggerInv, LoggerTypeOK, event, buffers, thread, files
<1>3. Stops'
  BY <1>1 DEF LoggerInv, LoggerTypeOK, Stops, Stopped, Working, thread
<1>4. Stopped' <=> Stopped
  BY <1>1 DEF LoggerInv, LoggerTypeOK, Stopped, Working
<1>5. (Waking /\ Buffered /\ Fatal)'
  BY <1>1, <1>4, LoggerAssumption
  DEF LoggerInv, Waking, Buffered, PushedLater, Fatal,
      LogLinesInLogFile, Aborted, event, buffers, thread, files, LoggerAssumption, Threads
<1>6. Asserted'
  <2>1. stopper # NoThread => stopper \in Threads
    BY DEF LoggerInv, LoggerTypeOK
  <2>2. Aborted => stopper # t
    BY <1>1 DEF LoggerInv, Asserted
  <2> QED
    BY <1>1, <2>1, <2>2 DEF LoggerInv, Asserted, Aborted, event, thread, Threads
<1> QED
  BY <1>2, <1>3, <1>5, <1>6 DEF LoggerInv

LEMMA OpenFatalInv ==
  ASSUME LoggerInv, NEW t \in Threads, OpenFatal(t)
  PROVE  LoggerInv'
<1>1. /\ UNCHANGED <<event, holder, buffers, thread, app, stopper, why, owed, out,
                     lost, strayed>>
      /\ call[t] = "closed" /\ call'[t] = "abort" /\ why[t] = "fatal"
      /\ \A u \in Threads : u # t => call'[u] = call[u]
  BY DEF LoggerInv, LoggerTypeOK, OpenFatal
<1>2. LoggerTypeOK'
  BY <1>1 DEF LoggerInv, LoggerTypeOK, OpenFatal, event, buffers, thread
<1>3. Stops'
  BY <1>1 DEF LoggerInv, LoggerTypeOK, Stops, Stopped, Working, thread
<1>4. Stopped' <=> Stopped
  BY <1>1 DEF LoggerInv, LoggerTypeOK, Stopped, Working
<1>5. (Waking /\ Buffered /\ Fatal)'
  BY <1>1, <1>4, LoggerAssumption
  DEF LoggerInv, Waking, Buffered, PushedLater, Fatal,
      LogLinesInLogFile, Aborted, event, buffers, thread, LoggerAssumption, Threads
<1>6. Asserted'
  <2>1. stopper # NoThread => stopper \in Threads
    BY DEF LoggerInv, LoggerTypeOK
  <2>2. Aborted => stopper # t
    BY <1>1 DEF LoggerInv, Asserted
  <2> QED
    BY <1>1, <2>1, <2>2 DEF LoggerInv, Asserted, Aborted, event, thread, Threads
<1> QED
  BY <1>2, <1>3, <1>5, <1>6 DEF LoggerInv

-----------------------------------------------------------------------------
LEMMA LoggerNextInv ==
  ASSUME LoggerInv, [LoggerNext]_loggerVars
  PROVE  LoggerInv'
<1>1. CASE LogThread
  BY <1>1, LogLoopInv, LogWaitInv, LogCheckInv, LogSwapInv, LogWriteInv, LogAssertInv
  DEF LogThread
<1>5. CASE LogWakeSpuriously
  BY <1>5, LogWaitInv
<1>2. ASSUME NEW t \in App, PushBegin(t) \/ PushEnd(t) \/ CallClose(t)
      PROVE  LoggerInv'
  BY <1>2, PushBeginInv, PushEndInv, CallCloseInv
<1>3. ASSUME NEW t \in Threads, Interrupt(t) \/ CloseStep(t)
      PROVE  LoggerInv'
  <2>1. CASE Abort(t)
    BY <2>1, LoggerStutter DEF Abort
  <2> QED
    BY <1>3, <2>1, InterruptInv, CloseRaiseInv, CloseJoinInv, CloseFlushInv,
       CloseReturnInv, OpenFatalInv DEF CloseStep
<1>4. CASE UNCHANGED loggerVars
  BY <1>4, LoggerStutter DEF loggerVars
<1> QED
  BY <1>1, <1>2, <1>3, <1>4, <1>5 DEF LoggerNext

\* The inductive invariant: who is in stop() and what it knows of the log
\* thread, where lines can be, and who may have opened the fatal file.
THEOREM LoggerInvariant == LoggerSpec => []LoggerInv
<1>1. LoggerInit => LoggerInv
  BY LoggerInitially
<1>2. LoggerInv /\ [LoggerNext]_loggerVars => LoggerInv'
  BY LoggerNextInv
<1> QED
  BY <1>1, <1>2, PTL DEF LoggerSpec

\* EventSound, the asserts of SyncEvent::wait (thread.cc:61, 100) for the log
\* thread while no wakeup is spurious: only that thread lowers the event, and
\* only outside the wait.
THEOREM EventSoundHolds == LoggerSpec => []EventSound
<1>1. LoggerInv => EventSound
  BY AliveEvent DEF LoggerInv, LoggerTypeOK, EventTypeOK, Waking, EventSound
<1> QED
  BY <1>1, LoggerInvariant, PTL

\* StopperWritesAll, log.h:19 for the caller that stops the logger: the thread
\* it has joined left its own buffer empty, and the flush empties the other.
THEOREM StopperWrites == LoggerSpec => []StopperWritesAll
<1>1. LoggerInv => StopperWritesAll
  <2> SUFFICES ASSUME LoggerInv, NEW t \in Threads, t = stopper,
                      call[t] \in {"closed", "abort"}
               PROVE  PushedLater(IF t = Logger THEN ToSet(buf.lines) ELSE Unwritten)
    BY DEF StopperWritesAll
  <2>1. Stopped /\ PushedLater(ToSet(buf.lines))
    BY LoggerAssumption
    DEF LoggerInv, Buffered, Stopped, Working, LoggerAssumption
  <2>2. t # Logger => ToSet(local.lines) = {}
    BY <2>1, ToSetEmpty DEF LoggerInv, Stops, Buffered, Threads
  <2> QED
    BY <2>1, <2>2 DEF Unwritten, PushedLater
<1> QED
  BY <1>1, LoggerInvariant, PTL

\* LogLinesInLogFile: _file is not the fatal file while somebody may still
\* write log lines to it, unless a second close() returned too early.
THEOREM LogLinesStay == LoggerSpec => []LogLinesInLogFile
<1>1. LoggerInv => LogLinesInLogFile
  BY DEF LoggerInv, Fatal
<1> QED
  BY <1>1, LoggerInvariant, PTL

-----------------------------------------------------------------------------
\* The beginning of a pipe can be taken out of it.
LEMMA TakeFront ==
  ASSUME NEW h \in Seq(Nat), NEW b \in Seq(Nat), h # <<>>
  PROVE  \E k \in 1..Len(h \o b) : /\ SubSeq(h \o b, 1, k) = h
                                   /\ SubSeq(h \o b, k + 1, Len(h \o b)) = b
<1>1. Len(h) \in Nat /\ Len(b) \in Nat /\ Len(h \o b) = Len(h) + Len(b) /\ Len(h) # 0
  BY LenProperties, ConcatProperties, EmptySeq
<1>2. SubSeq(h \o b, 1, Len(h)) = h
  BY ConcatPrefix
<1>3. SubSeq(h \o b, Len(h) + 0 + 1, Len(h \o b)) = SubSeq(b, 0 + 1, Len(b))
  <2>1. 0 \in 0..Len(b)
    BY <1>1
  <2> QED
    BY <2>1, ConcatSuffix
<1>4. SubSeq(b, 1, Len(b)) = b
  BY SubSeqFull
<1>5. Len(h) \in 1..Len(h \o b)
  BY <1>1
<1>6. Len(h) + 0 + 1 = Len(h) + 1 /\ 0 + 1 = 1
  BY <1>1
<1> QED
  BY <1>2, <1>3, <1>4, <1>5, <1>6

LEMMA Associative ==
  ASSUME NEW a \in Seq(Nat), NEW b \in Seq(Nat), NEW c \in Seq(Nat)
  PROVE  (a \o b) \o c = a \o (b \o c)
BY ConcatAssociative

LEMMA Regroup ==
  ASSUME NEW h \in Seq(Nat), NEW m \in Seq(Nat), NEW u \in Seq(Nat), NEW z \in Seq(Nat)
  PROVE  h \o ((m \o u) \o z) = ((h \o m) \o u) \o z
<1>1. PICK w \in Seq(Nat) : w = m \o u
  BY ConcatProperties
<1>2. (h \o w) \o z = h \o (w \o z)
  BY Associative, ZenonT(30)
<1>3. (h \o m) \o u = h \o (m \o u)
  BY Associative, ZenonT(30)
<1> QED
  BY <1>1, <1>2, <1>3

LEMMA MarkedAppend ==
  ASSUME NEW h \in Seq(Nat), NEW u \in Seq(Nat), NEW e \in Nat
  PROVE  h \o Append(<<Mark>> \o u, e) = h \o <<Mark>> \o u \o <<e>>
<1>1. <<Mark>> \in Seq(Nat) /\ <<e>> \in Seq(Nat)
  BY DEF Mark
<1>2. h \o ((<<Mark>> \o u) \o <<e>>) = ((h \o <<Mark>>) \o u) \o <<e>>
  BY <1>1, Regroup
<1>3. Append(<<Mark>> \o u, e) = (<<Mark>> \o u) \o <<e>>
  <2>1. <<Mark>> \o u \in Seq(Nat)
    BY <1>1, ConcatProperties
  <2> QED
    BY <2>1, AppendIsConcat
<1> QED
  BY <1>2, <1>3

\* A push adds a line to the pipe, and may put a mark in the place of some.
LEMMA PutBack ==
  ASSUME NEW h \in Seq(Nat), NEW b \in Seq(Nat), NEW e \in Nat
  PROVE  \/ h \o Append(DropOld(b), e) = Append(h \o b, e)
         \/ \E i \in 0..Len(h \o b) : \E j \in i..Len(h \o b) :
              h \o Append(DropOld(b), e)
                = SubSeq(h \o b, 1, i) \o <<Mark>>
                    \o SubSeq(h \o b, j + 1, Len(h \o b)) \o <<e>>
<1> DEFINE p == h \o b
<1>1. /\ Len(h) \in Nat /\ Len(b) \in Nat
      /\ p \in Seq(Nat) /\ Len(p) = Len(h) + Len(b)
      /\ <<e>> \in Seq(Nat) /\ <<Mark>> \in Seq(Nat)
  BY LenProperties, ConcatProperties DEF Mark
<1>2. CASE DropOld(b) = b
  <2>1. Append(b, e) = b \o <<e>> /\ Append(p, e) = p \o <<e>>
    BY <1>1, AppendIsConcat
  <2>2. h \o (b \o <<e>>) = p \o <<e>>
    BY <1>1, ConcatAssociative
  <2> QED
    BY <1>2, <2>1, <2>2
<1>3. ASSUME NEW m \in 0..Len(b), DropOld(b) = <<Mark>> \o SubSeq(b, m + 1, Len(b))
      PROVE  \E i \in 0..Len(p) : \E j \in i..Len(p) :
               h \o Append(DropOld(b), e)
                 = SubSeq(p, 1, i) \o <<Mark>> \o SubSeq(p, j + 1, Len(p)) \o <<e>>
  <2> DEFINE i == Len(h)
             j == Len(h) + m
  <2>1. i \in 0..Len(p) /\ j \in i..Len(p) /\ m + 1 \in 1..Len(b) + 1
    BY <1>1
  <2>2. SubSeq(p, 1, i) = h
    BY ConcatPrefix
  <2>3. SubSeq(p, j + 1, Len(p)) = SubSeq(b, m + 1, Len(b))
    BY ConcatSuffix
  <2>4. PICK u \in Seq(Nat) : u = SubSeq(b, m + 1, Len(b))
    BY <2>1, SuffixProperties
  <2>5. DropOld(b) = <<Mark>> \o u
    BY <1>3, <2>4
  <2> HIDE DEF p
  <2>6. h \o Append(<<Mark>> \o u, e) = h \o <<Mark>> \o u \o <<e>>
    BY MarkedAppend
  <2>7. h \o Append(DropOld(b), e)
           = SubSeq(p, 1, i) \o <<Mark>> \o SubSeq(p, j + 1, Len(p)) \o <<e>>
    BY <2>2, <2>3, <2>4, <2>5, <2>6
  <2> QED
    BY <2>1, <2>7
<1> QED
  BY <1>2, <1>3, DropOldProperties

-----------------------------------------------------------------------------
\* The pipe of lines: what the log thread has in hand, then the buffer.
Hand == IF stopper = Logger THEN <<>> ELSE local.lines
Gone == lost \cup (ToSet(Doomed) \ {Mark})

LEMMA PipeStates ==
  ASSUME LoggerTypeOK
  PROVE  Hand \in Seq(Nat) /\ buf.lines \in Seq(Nat) /\ accepted \in Nat
BY EmptySeq DEF LoggerTypeOK, Buffer, Hand

\* What happens to the pipe in one step of the detailed logger.
LEMMA PipeStutter ==
  ASSUME UNCHANGED <<accepted, buf, local, stopper, out, lost>>
  PROVE  UNCHANGED Pipe!pipeVars
BY DEF Pipe!pipeVars, Doomed

LEMMA PipePush ==
  ASSUME LoggerInv, NEW t \in App, PushEnd(t)
  PROVE  Pipe!Next
<1>1. PICK h \in Seq(Nat), b \in Seq(Nat), n \in Nat : h = Hand /\ b = buf.lines /\ n = accepted
  BY PipeStates DEF LoggerInv
<1>2. /\ UNCHANGED <<local, stopper, out, lost>>
      /\ accepted' = n + 1
      /\ n + 1 \in Nat
  BY <1>1 DEF PushEnd, closing, files
<1>3. buf'.lines = Append(DropOld(b), n + 1)
  <2>1. PICK bb \in Buffer : bb = buf
    BY DEF LoggerInv, LoggerTypeOK
  <2>2. buf' = AppendLine([bb EXCEPT !.lines = DropOld(@)], n + 1)
    BY <1>1, <2>1 DEF PushEnd
  <2> QED
    BY <1>1, <1>2, <2>1, <2>2, PushedBuffer
<1>4. Hand' = h /\ Gone' = Gone
  BY <1>1, <1>2 DEF Hand, Gone, Doomed
<1>5. \/ Hand' \o buf'.lines = Append(Hand \o buf.lines, accepted + 1)
      \/ \E i \in 0..Len(Hand \o buf.lines) : \E j \in i..Len(Hand \o buf.lines) :
           Hand' \o buf'.lines
             = SubSeq(Hand \o buf.lines, 1, i) \o <<Mark>>
                 \o SubSeq(Hand \o buf.lines, j + 1, Len(Hand \o buf.lines))
                 \o <<accepted + 1>>
  <2> DEFINE p == h \o b
             q == h \o Append(DropOld(b), n + 1)
  <2>1. \/ q = Append(p, n + 1)
        \/ \E i \in 0..Len(p) : \E j \in i..Len(p) :
             q = SubSeq(p, 1, i) \o <<Mark>> \o SubSeq(p, j + 1, Len(p)) \o <<n + 1>>
    BY <1>2, PutBack
  <2>2. Hand \o buf.lines = p /\ Hand' \o buf'.lines = q /\ accepted = n
    BY <1>1, <1>3, <1>4
  <2> HIDE DEF p, q
  <2> QED
    BY <2>1, <2>2
<1> QED
  BY <1>1, <1>2, <1>4, <1>5
  DEF Hand, Gone, Pipe!Next, Pipe!Accept, Pipe!AcceptFull

\* The first lines of the pipe go to the file, or no file takes them.
LEMMA PipeWrite ==
  ASSUME NEW h \in Seq(Nat), NEW b \in Seq(Nat), h # <<>>,
         Hand \o buf.lines = h \o b, Hand' \o buf'.lines = b,
         Write(h), UNCHANGED <<accepted, Doomed>>
  PROVE  Pipe!Next
<1>0. PICK p \in Seq(Nat) : p = Hand \o buf.lines /\ p = h \o b
  BY ConcatProperties
<1>1. PICK k \in 1..Len(p) : SubSeq(p, 1, k) = h /\ SubSeq(p, k + 1, Len(p)) = b
  <2>1. \E k \in 1..Len(h \o b) : /\ SubSeq(h \o b, 1, k) = h
                                  /\ SubSeq(h \o b, k + 1, Len(h \o b)) = b
    BY TakeFront
  <2> QED
    BY <1>0, <2>1
<1>2. (Hand \o buf.lines)' = SubSeq(Hand \o buf.lines, k + 1, Len(Hand \o buf.lines))
  BY <1>0, <1>1
<1>3. h = SubSeq(Hand \o buf.lines, 1, k) /\ k \in 1..Len(Hand \o buf.lines)
  BY <1>0, <1>1
<1>4. CASE out' = out \o h /\ lost' = lost
  <2>1. Gone' = Gone
    BY <1>4 DEF Gone
  <2>2. Pipe!Deliver
    BY <1>2, <1>3, <1>4, <2>1 DEF Hand, Gone, Pipe!Deliver
  <2> QED
    BY <2>2 DEF Pipe!Next
<1>5. CASE out' = out /\ lost' = lost \cup (ToSet(h) \ {Mark})
  <2>1. Gone' = Gone \cup (ToSet(h) \ {Mark})
    BY <1>5 DEF Gone
  <2>2. ToSet(h) = Pipe!ToSet(h)
    BY DEF ToSet, Pipe!ToSet
  <2>3. Pipe!Lose
    BY <1>2, <1>3, <1>5, <2>1, <2>2 DEF Hand, Gone, Pipe!Lose
  <2> QED
    BY <2>3 DEF Pipe!Next
<1> QED
  BY <1>4, <1>5 DEF Write

\* The swap moves the lines along inside the pipe.
LEMMA PipeSwap ==
  ASSUME LoggerInv, call[Logger] = "none", LogSwap
  PROVE  UNCHANGED Pipe!pipeVars
<1>1. /\ local.lines = <<>> /\ stopper # Logger
      /\ UNCHANGED <<accepted, stopper, out, lost>>
  BY DEF LoggerInv, Stops, Buffered, LogSwap, closing, files
<1>2. PICK b \in Seq(Nat) : b = buf.lines
  BY PipeStates DEF LoggerInv
<1>3. <<>> \o b = b /\ b \o <<>> = b
  BY ConcatEmptySeq
<1>4. Hand \o buf.lines = b
  BY <1>1, <1>2, <1>3 DEF Hand
<1>5. Hand' \o buf'.lines = b
  <2>1. CASE buf.lines # <<>>
    BY <1>1, <1>2, <1>3, <2>1 DEF Hand, LogSwap
  <2>2. CASE buf.lines = <<>>
    BY <1>1, <1>2, <1>3, <2>2 DEF Hand, LogSwap
  <2> QED
    BY <2>1, <2>2
<1>6. Gone' = Gone
  BY <1>1 DEF Gone, Doomed
<1> QED
  BY <1>1, <1>4, <1>5, <1>6 DEF Hand, Gone, Pipe!pipeVars

LEMMA PipeLogWrite ==
  ASSUME LoggerInv, call[Logger] = "none", LogWrite
  PROVE  Pipe!Next \/ UNCHANGED Pipe!pipeVars
<1>1. /\ stopper # Logger /\ UNCHANGED <<accepted, buf, stopper>>
  BY DEF LoggerInv, Stops, LogWrite, closing
<1>2. CASE local.lines = <<>>
  BY <1>1, <1>2, PipeStutter DEF LogWrite, files
<1>3. CASE local.lines # <<>>
  <2>1. PICK h \in Seq(Nat), b \in Seq(Nat) : h = local.lines /\ b = buf.lines
    BY DEF LoggerInv, LoggerTypeOK, Buffer
  <2>2. Write(h) /\ local'.lines = <<>>
    <3>1. PICK bb \in Buffer : bb = local
      BY DEF LoggerInv, LoggerTypeOK
    <3> QED
      BY <1>3, <2>1, <3>1, ClearedBuffer DEF LogWrite
  <2>3. Hand = h /\ Hand' = <<>> /\ UNCHANGED Doomed
    BY <1>1, <2>1, <2>2 DEF Hand, Doomed
  <2>4. Hand \o buf.lines = h \o b /\ Hand' \o buf'.lines = b
    <3>1. <<>> \o b = b
      BY ConcatEmptySeq
    <3> QED
      BY <1>1, <2>1, <2>3, <3>1
  <2> QED
    BY <1>1, <1>3, <2>1, <2>2, <2>3, <2>4, PipeWrite
<1> QED
  BY <1>2, <1>3

\* A handler on the log thread takes the lines of that thread out of the pipe.
LEMMA PipeEnterStop ==
  ASSUME LoggerInv, NEW t \in Threads, NEW reason, EnterStop(t, reason),
         UNCHANGED <<buffers, files>>
  PROVE  Pipe!Next \/ UNCHANGED Pipe!pipeVars
<1>1. UNCHANGED <<accepted, buf, local, out, lost>>
  BY DEF buffers, files
<1>2. CASE ~(stopper = NoThread /\ t = Logger /\ local.lines # <<>>)
  <2>1. CASE stopper # NoThread
    BY <1>1, <2>1, PipeStutter DEF EnterStop
  <2>2. CASE stopper = NoThread
    <3>1. stopper # Logger /\ stopper' = t
      BY <2>2, LoggerAssumption DEF EnterStop, LoggerAssumption, Threads
    <3>2. Hand' = Hand /\ Gone' = Gone
      BY <1>1, <1>2, <2>2, <3>1 DEF Hand, Gone, Doomed
    <3> QED
      BY <1>1, <3>2 DEF Hand, Gone, Pipe!pipeVars
  <2> QED
    BY <2>1, <2>2
<1>3. CASE stopper = NoThread /\ t = Logger /\ local.lines # <<>>
  <2>1. stopper # Logger /\ stopper' = Logger
    BY <1>3, LoggerAssumption DEF EnterStop, LoggerAssumption, Threads
  <2>2. PICK h \in Seq(Nat), b \in Seq(Nat) : h = local.lines /\ b = buf.lines
    BY DEF LoggerInv, LoggerTypeOK, Buffer
  <2>3. PICK p \in Seq(Nat) : p = Hand \o buf.lines /\ p = h \o b
    BY <2>1, <2>2, ConcatProperties DEF Hand
  <2>4. PICK k \in 1..Len(p) : SubSeq(p, 1, k) = h /\ SubSeq(p, k + 1, Len(p)) = b
    <3>1. h # <<>>
      BY <1>3, <2>2
    <3>2. \E k \in 1..Len(h \o b) : /\ SubSeq(h \o b, 1, k) = h
                                    /\ SubSeq(h \o b, k + 1, Len(h \o b)) = b
      BY <3>1, TakeFront
    <3> QED
      BY <2>3, <3>2
  <2>5. Hand' \o buf'.lines = b
    <3>1. <<>> \o b = b
      BY ConcatEmptySeq
    <3> QED
      BY <1>1, <2>1, <2>2, <3>1 DEF Hand
  <2>6. Gone' = Gone \cup (Pipe!ToSet(h) \ {Mark})
    <3>1. Doomed = <<>> /\ Doomed' = h
      BY <1>1, <2>1, <2>2 DEF Doomed
    <3>2. Gone = lost
      BY <3>1, ToSetEmpty DEF Gone
    <3> QED
      BY <1>1, <3>1, <3>2 DEF Gone, ToSet, Pipe!ToSet
  <2>7. (Hand \o buf.lines)' = SubSeq(Hand \o buf.lines, k + 1, Len(Hand \o buf.lines))
    BY <2>3, <2>4, <2>5
  <2>8. h = SubSeq(Hand \o buf.lines, 1, k) /\ k \in 1..Len(Hand \o buf.lines)
    BY <2>3, <2>4
  <2>9. Pipe!Lose
    BY <1>1, <2>6, <2>7, <2>8 DEF Hand, Gone, Pipe!Lose
  <2> QED
    BY <2>9 DEF Pipe!Next
<1> QED
  BY <1>2, <1>3

LEMMA PipeClose ==
  ASSUME LoggerInv, NEW t \in Threads, NEW reason, Close(t, reason)
  PROVE  Pipe!Next \/ UNCHANGED Pipe!pipeVars
BY PipeEnterStop DEF Close

\* The flush writes what is left of the pipe.
LEMMA PipeFlush ==
  ASSUME LoggerInv, NEW t \in Threads, CloseFlush(t)
  PROVE  Pipe!Next \/ UNCHANGED Pipe!pipeVars
<1>1. /\ UNCHANGED <<accepted, local, stopper>> /\ call[t] = "flush"
  BY DEF CloseFlush
<1>2. CASE buf.lines = <<>>
  BY <1>1, <1>2, PipeStutter DEF CloseFlush, files
<1>3. CASE buf.lines # <<>>
  <2>1. PICK h \in Seq(Nat) : h = buf.lines
    BY PipeStates DEF LoggerInv
  <2>2. Write(h) /\ buf'.lines = <<>>
    <3>1. PICK bb \in Buffer : bb = buf
      BY DEF LoggerInv, LoggerTypeOK
    <3> QED
      BY <1>3, <2>1, <3>1, ClearedBuffer DEF CloseFlush
  <2>3. Hand = <<>> /\ Hand' = <<>> /\ UNCHANGED Doomed
    <3>1. t = stopper
      BY <1>1 DEF LoggerInv, Stops, Working
    <3>2. stopper # Logger => local.lines = <<>>
      BY <1>1, <3>1 DEF LoggerInv, Stops, Buffered, Threads
    <3> QED
      BY <1>1, <3>2 DEF Hand, Doomed
  <2>4. /\ Hand \o buf.lines = h \o <<>> /\ Hand' \o buf'.lines = <<>>
        /\ <<>> \in Seq(Nat)
    <3>1. <<>> \in Seq(Nat) /\ <<>> \o h = h /\ h \o <<>> = h /\ <<>> \o <<>> = <<>>
      BY EmptySeq, ConcatEmptySeq
    <3> QED
      BY <2>1, <2>2, <2>3, <3>1
  <2> QED
    BY <1>1, <1>3, <2>1, <2>2, <2>3, <2>4, PipeWrite
<1> QED
  BY <1>2, <1>3

\* Step simulation: every step of the logger is a step of the pipe or none.
LEMMA PipeStep ==
  ASSUME LoggerInv, [LoggerNext]_loggerVars
  PROVE  Pipe!Next \/ UNCHANGED Pipe!pipeVars
<1>1. CASE LogThread
  <2>1. CASE LogLoop \/ LogWait \/ LogExpire \/ LogAwake \/ LogCheck
    <3>1. UNCHANGED <<accepted, buf, local, stopper, out, lost>>
      BY <2>1
      DEF LogLoop, LogWait, LogExpire, LogAwake, LogCheck, buffers, closing, files
    <3> QED
      BY <3>1, PipeStutter
  <2>2. CASE LogAssert
    BY <2>2, PipeEnterStop DEF LogAssert, Threads
  <2> QED
    BY <1>1, <2>1, <2>2, PipeSwap, PipeLogWrite DEF LogThread
<1>5. CASE LogWakeSpuriously
  BY <1>5, PipeStutter DEF LogWakeSpuriously, buffers, closing, files
<1>2. ASSUME NEW t \in App, PushBegin(t) \/ PushEnd(t) \/ CallClose(t)
      PROVE  Pipe!Next \/ UNCHANGED Pipe!pipeVars
  <2>1. CASE PushBegin(t)
    BY <2>1, PipeStutter DEF PushBegin, buffers, closing, files
  <2>2. CASE CallClose(t)
    BY <2>2, PipeClose DEF CallClose, Threads
  <2> QED
    BY <1>2, <2>1, <2>2, PipePush
<1>3. ASSUME NEW t \in Threads, Interrupt(t) \/ CloseStep(t)
      PROVE  Pipe!Next \/ UNCHANGED Pipe!pipeVars
  <2>1. CASE Interrupt(t)
    <3>1. CASE stopper = NoThread
      BY <2>1, <3>1, PipeClose DEF Interrupt
    <3>2. CASE stopper # NoThread
      BY <2>1, <3>2, PipeStutter DEF Interrupt, buffers, closing, files
    <3> QED
      BY <3>1, <3>2
  <2>2. CASE CloseRaise(t) \/ CloseJoin(t) \/ CloseReturn(t) \/ OpenFatal(t) \/ Abort(t)
    <3>1. UNCHANGED <<accepted, buf, local, stopper, out, lost>>
      BY <2>2
      DEF CloseRaise, CloseJoin, CloseReturn, OpenFatal, Abort, buffers, closing, files
    <3> QED
      BY <3>1, PipeStutter
  <2> QED
    BY <1>3, <2>1, <2>2, PipeFlush DEF CloseStep
<1>4. CASE UNCHANGED loggerVars
  BY <1>4, PipeStutter DEF loggerVars, buffers, closing, files
<1> QED
  BY <1>1, <1>2, <1>3, <1>4, <1>5 DEF LoggerNext

\* ImplementsPipe: the two buffers, the swap, the two writers and the three ways
\* to stop them are one pipe of lines, in order, each line at most once.
THEOREM LoggerIsPipe == LoggerSpec => ImplementsPipe
<1>1. LoggerInit => Pipe!Init
  <2> SUFFICES ASSUME LoggerInit PROVE Pipe!Init
    OBVIOUS
  <2>1. local.lines = <<>> /\ buf.lines = <<>> /\ <<>> \o <<>> = <<>>
    BY EmptyBufferType, EmptySeq, ConcatEmptySeq DEF LoggerInit
  <2>2. Doomed = <<>> /\ ToSet(Doomed) = {}
    BY <2>1, ToSetEmpty DEF Doomed
  <2> QED
    BY <2>1, <2>2 DEF LoggerInit, Pipe!Init
<1>2. LoggerInv /\ [LoggerNext]_loggerVars => [Pipe!Next]_Pipe!pipeVars
  BY PipeStep
<1> QED
  BY <1>1, <1>2, LoggerInvariant, PTL DEF LoggerSpec, ImplementsPipe, Pipe!Spec
=============================================================================
