--------------------------- MODULE TaskSchedProofs ---------------------------
(***************************************************************************)
(* Proofs about TaskSched, for every set of tasks, every delay and period, *)
(* every grain of time and however long callbacks take: tasks are counted  *)
(* down once in a pass, run in the first pass that begins when they are    *)
(* due, and not before their period is over.                               *)
(***************************************************************************)
EXTENDS TaskSched, SequenceTheorems, TLAPS

Listed == ToSet(tmp) \cup ToSet(list)

SchedTypeOK ==
  /\ tmp \in Seq(Task) /\ list \in Seq(Task)
  /\ count \in [Task -> Int] /\ period \in [Task -> Nat]
  /\ stop \in BOOLEAN /\ signaled \in BOOLEAN
  /\ pc \in {"loop", "wait", "check", "pass", "call", "exit"}
  /\ closing \in {"no", "raise", "join", "clear", "done"}
  /\ left \in 0..Sec
  /\ i \in Nat \ {0}
  /\ sec \in Nat /\ ms \in Nat /\ spent \in Nat /\ busy \in Nat
  /\ want \in [Task -> Nat] /\ age \in [Task -> Nat]
  /\ first \in [Task -> BOOLEAN] /\ visits \in [Task -> Nat]

\* No task is on the lists twice.
NotTwice ==
  /\ \A k, l \in 1..Len(list) : list[k] = list[l] => k = l
  /\ \A k, l \in 1..Len(tmp) : tmp[k] = tmp[l] => k = l
  /\ \A k \in 1..Len(list), l \in 1..Len(tmp) : list[k] # tmp[l]

\* The pass goes through the list: those before i are counted down and not yet
\* due, those after it are still to come.
Passing == pc \in {"pass", "call"}
Reached(k) == k < i \/ (k = i /\ pc = "call")

InPass ==
  /\ pc \in {"loop", "wait", "check"} => i = 1
  /\ pc \in {"wait", "check"} => \A t \in Task : visits[t] = 0
  /\ \A t \in Task : visits[t] <= 1
  /\ pc = "pass" => i <= Len(list) + 1
  /\ pc = "call" => i <= Len(list) /\ count[list[i]] <= 0
  /\ Passing => \A k \in 1..Len(list) :
       visits[list[k]] = IF Reached(k) THEN 1 ELSE 0
  /\ Passing => \A k \in 1..Len(list) : k < i => count[list[k]] > 0
  /\ pc = "loop" => \A k \in 1..Len(list) : count[list[k]] > 0

\* Less than a second is carried over, besides the time of the last pass.
Carried ==
  /\ Passing => ms < Sec
  /\ pc = "loop" => ms - spent < Sec
  /\ pc \in {"wait", "check"} => spent = 0
  /\ (pc = "check" /\ ~stop) => left = 0

\* A task that waits in tmp has not been counted down.
Waiting ==
  \A t \in ToSet(tmp) :
    first[t] /\ count[t] = want[t] /\ (Passing => age[t] <= spent)

Stopping ==
  /\ signaled => stop
  /\ closing # "no" => stop
  /\ closing \in {"clear", "done"} => pc = "exit"

\* The time since a task was added or called is what it was counted down by and
\* what it has still to be counted down by, up to the second by which a task
\* may be added after the wait began.
Units(n) == Sec * n
CountedDown(t) == Units(want[t] - count[t])
Unvisited(t) == t \in ToSet(list) /\ visits[t] = 0
Pending(t) ==
  ms + CASE pc = "loop" -> 0
         [] pc = "wait" -> Sec - left
         [] pc = "check" -> Sec
         [] Passing -> spent + (IF Unvisited(t) THEN Units(sec + 1) ELSE 0)

InTime(t) ==
  /\ age[t] <= CountedDown(t) + Pending(t)
  /\ (~first[t] /\ ~(pc = "check" /\ stop)) =>
       age[t] > CountedDown(t) + Pending(t) - Sec

Timed == pc # "exit" => \A t \in Listed : InTime(t)

SchedInv ==
  SchedTypeOK /\ NotTwice /\ InPass /\ Carried /\ Waiting /\ Stopping /\ Timed

-----------------------------------------------------------------------------
\* Arithmetic: the provers do not multiply variables, so what they need of Sec
\* times a number is stated here.
LEMMA UnitsProperties ==
  /\ \A n \in Int : Units(n) \in Int
  /\ \A n \in Nat : Units(n) \in Nat
  /\ \A m, n \in Int : Units(m + n) = Units(m) + Units(n)
  /\ \A m, n \in Int : Units(m - n) = Units(m) - Units(n)
  /\ Units(0) = 0 /\ Units(1) = Sec
<1> Sec \in Nat /\ Sec > 0
  BY SchedAssumption DEF SchedAssumption
<1>1. /\ \A n \in Int : Sec * n \in Int
      /\ \A n \in Nat : Sec * n \in Nat
      /\ Sec * 0 = 0 /\ Sec * 1 = Sec
  OBVIOUS
<1>2. \A m, n \in Int : Sec * (m + n) = Sec * m + Sec * n
  OBVIOUS
<1>3. \A m, n \in Int : Sec * (m - n) = Sec * m - Sec * n
  OBVIOUS
<1> QED
  BY <1>1, <1>2, <1>3 DEF Units

LEMMA UnitsMinusOne ==
  ASSUME NEW n \in Int
  PROVE  Units(n - 1) = Units(n) - Sec
<1> Sec \in Nat
  BY SchedAssumption DEF SchedAssumption
<1> QED
  BY DEF Units

LEMMA UnitsMonotonic ==
  ASSUME NEW m \in Int, NEW n \in Int, m <= n
  PROVE  Units(m) <= Units(n)
<1>1. n - m \in Nat
  OBVIOUS
<1>2. Units(n - m) \in Nat /\ Units(n - m) = Units(n) - Units(m)
  BY <1>1, UnitsProperties
<1>3. Units(m) \in Int /\ Units(n) \in Int
  BY UnitsProperties
<1> QED
  BY <1>2, <1>3

LEMMA CountedDownInteger ==
  ASSUME SchedTypeOK, NEW t \in Task
  PROVE  CountedDown(t) \in Int
<1>1. want[t] - count[t] \in Int
  BY DEF SchedTypeOK
<1> QED
  BY <1>1, UnitsProperties DEF CountedDown

LEMMA PendingCases ==
  ASSUME NEW t
  PROVE  /\ pc = "loop" => Pending(t) = ms + 0
         /\ pc = "wait" => Pending(t) = ms + (Sec - left)
         /\ pc = "check" => Pending(t) = ms + Sec
         /\ (Passing /\ Unvisited(t)) => Pending(t) = ms + (spent + Units(sec + 1))
         /\ (Passing /\ ~Unvisited(t)) => Pending(t) = ms + (spent + 0)
BY DEF Pending, Passing

LEMMA PendingCasesNext ==
  ASSUME NEW t
  PROVE  /\ pc' = "loop" => Pending(t)' = ms' + 0
         /\ pc' = "wait" => Pending(t)' = ms' + (Sec - left')
         /\ pc' = "check" => Pending(t)' = ms' + Sec
         /\ (Passing' /\ Unvisited(t)') =>
              Pending(t)' = ms' + (spent' + Units(sec' + 1))
         /\ (Passing' /\ ~Unvisited(t)') => Pending(t)' = ms' + (spent' + 0)
BY DEF Pending, Passing

LEMMA PendingNotNegative ==
  ASSUME SchedTypeOK, pc # "exit", NEW t
  PROVE  Pending(t) \in Int /\ Pending(t) >= 0
<1> USE DEF SchedTypeOK
<1>1. Sec \in Nat
  BY SchedAssumption DEF SchedAssumption
<1>2. Units(sec + 1) \in Nat
  <2>1. sec + 1 \in Nat
    OBVIOUS
  <2> QED
    BY <2>1, UnitsProperties
<1>3. CASE pc = "loop"
  BY <1>3, PendingCases
<1>4. CASE pc = "wait"
  BY <1>1, <1>4, PendingCases
<1>5. CASE pc = "check"
  BY <1>1, <1>5, PendingCases
<1>6. CASE Passing
  <2>1. CASE Unvisited(t)
    BY <1>2, <1>6, <2>1, PendingCases
  <2>2. CASE ~Unvisited(t)
    BY <1>6, <2>2, PendingCases
  <2> QED
    BY <2>1, <2>2
<1> QED
  BY <1>3, <1>4, <1>5, <1>6 DEF Passing

\* What Carry takes out of ms and leaves in it.
LEMMA WholeSeconds ==
  ASSUME NEW m \in Nat
  PROVE  /\ m \div Sec \in Nat /\ m % Sec \in Nat /\ m % Sec < Sec
         /\ m = Units(m \div Sec) + (m % Sec)
<1> Sec \in Nat /\ Sec > 0
  BY SchedAssumption DEF SchedAssumption
<1> QED
  BY DEF Units

LEMMA ToSetProperties ==
  ASSUME NEW S, NEW s \in Seq(S)
  PROVE  /\ ToSet(s) \subseteq S
         /\ \A t : t \in ToSet(s) <=> \E k \in 1..Len(s) : t = s[k]
BY LenProperties, ElementOfSeq DEF ToSet

\* Replace: the last element takes the place of the i-th.
LEMMA ReplaceProperties ==
  ASSUME NEW S, NEW s \in Seq(S), NEW j \in 1..Len(s)
  PROVE  LET r == Front([s EXCEPT ![j] = Last(s)])
         IN  /\ r \in Seq(S)
             /\ Len(r) = Len(s) - 1
             /\ \A k \in 1..Len(s) - 1 :
                  r[k] = IF k = j THEN s[Len(s)] ELSE s[k]
<1> DEFINE e == [s EXCEPT ![j] = Last(s)]
<1>1. Len(s) \in Nat /\ Len(s) > 0 /\ s[Len(s)] \in S
  BY LenProperties, ElementOfSeq
<1>2. /\ e \in Seq(S)
      /\ Len(e) = Len(s)
      /\ \A k \in 1..Len(s) : e[k] = IF k = j THEN s[Len(s)] ELSE s[k]
  BY <1>1, ExceptSeq DEF Last
<1>3. \A k \in 1..Len(s) - 1 : e[k] \in S
  BY <1>1, <1>2, ElementOfSeq
<1> HIDE DEF e
<1>4. /\ SubSeq(e, 1, Len(s) - 1) \in Seq(S)
      /\ Len(SubSeq(e, 1, Len(s) - 1)) = Len(s) - 1
      /\ \A k \in 1..Len(s) - 1 : SubSeq(e, 1, Len(s) - 1)[k] = e[k]
  <2> DEFINE n == Len(s) - 1
  <2>1. n \in Int /\ n >= 0 /\ \A k \in 1..n : e[k] \in S
    BY <1>1, <1>3
  <2> HIDE DEF n
  <2>2. /\ SubSeq(e, 1, n) \in Seq(S)
        /\ Len(SubSeq(e, 1, n)) = IF 1 <= n THEN n - 1 + 1 ELSE 0
        /\ \A k \in 1..n - 1 + 1 : SubSeq(e, 1, n)[k] = e[1 + k - 1]
    BY <2>1, SubSeqProperties
  <2>3. Len(SubSeq(e, 1, n)) = n /\ \A k \in 1..n : SubSeq(e, 1, n)[k] = e[k]
    BY <2>1, <2>2
  <2> QED
    BY <2>2, <2>3 DEF n
<1> QED
  BY <1>1, <1>2, <1>4 DEF Front, e

\* TakeOver joins two lists without a task twice into one.
LEMMA JoinedOnce ==
  ASSUME SchedTypeOK, NotTwice
  PROVE  \A k, l \in 1..Len(list) + Len(tmp) :
           (list \o tmp)[k] = (list \o tmp)[l] => k = l
<1> DEFINE all == list \o tmp
           n == Len(list)
           m == Len(tmp)
<1>1. /\ n \in Nat /\ m \in Nat
      /\ \A k \in 1..n + m : all[k] = IF k <= n THEN list[k] ELSE tmp[k - n]
  BY LenProperties, ConcatProperties DEF SchedTypeOK
<1>2. /\ \A k, l \in 1..n : list[k] = list[l] => k = l
      /\ \A k, l \in 1..m : tmp[k] = tmp[l] => k = l
      /\ \A k \in 1..n, l \in 1..m : list[k] # tmp[l]
  BY DEF NotTwice
<1> HIDE DEF all, n, m
<1>3. \A k \in 1..n + m : \/ k \in 1..n /\ all[k] = list[k]
                          \/ k - n \in 1..m /\ all[k] = tmp[k - n]
  BY <1>1
<1> SUFFICES ASSUME NEW k \in 1..n + m, NEW l \in 1..n + m, all[k] = all[l]
             PROVE  k = l
  BY DEF all, n, m
<1>4. CASE k \in 1..n /\ all[k] = list[k] /\ l \in 1..n /\ all[l] = list[l]
  BY <1>2, <1>4
<1>5. CASE k - n \in 1..m /\ all[k] = tmp[k - n] /\ l - n \in 1..m /\ all[l] = tmp[l - n]
  <2>1. k - n = l - n
    BY <1>2, <1>5
  <2> QED
    BY <1>1, <2>1
<1> QED
  BY <1>2, <1>3, <1>4, <1>5

-----------------------------------------------------------------------------
\* The initial state, then one lemma for every action, with one step for every
\* conjunct of SchedInv.
LEMMA SchedInvInit == SchedInit => SchedInv
<1> SUFFICES ASSUME SchedInit PROVE SchedInv
  OBVIOUS
<1> USE DEF SchedInit
<1>1. tmp \in Seq(Task) /\ list \in Seq(Task) /\ Len(tmp) = 0 /\ Len(list) = 0
  BY EmptySeq
<1>2. ToSet(tmp) = {} /\ ToSet(list) = {}
  <2>1. 1..Len(tmp) = {} /\ 1..Len(list) = {}
    BY <1>1
  <2> QED
    BY <1>1, <2>1, ToSetProperties
<1>3. SchedTypeOK
  <2>1. left \in 0..Sec
    BY SchedAssumption DEF SchedAssumption
  <2>2. /\ count \in [Task -> Int] /\ period \in [Task -> Nat]
        /\ want \in [Task -> Nat] /\ age \in [Task -> Nat]
        /\ first \in [Task -> BOOLEAN] /\ visits \in [Task -> Nat]
    OBVIOUS
  <2>3. stop \in BOOLEAN /\ signaled \in BOOLEAN
    OBVIOUS
  <2>4. /\ pc \in {"loop", "wait", "check", "pass", "call", "exit"}
        /\ closing \in {"no", "raise", "join", "clear", "done"}
    OBVIOUS
  <2>5. i \in Nat \ {0} /\ sec \in Nat /\ ms \in Nat /\ spent \in Nat /\ busy \in Nat
    OBVIOUS
  <2> HIDE DEF SchedInit
  <2> QED
    BY <1>1, <2>1, <2>2, <2>3, <2>4, <2>5 DEF SchedTypeOK
<1>4. NotTwice /\ InPass
  BY <1>1 DEF NotTwice, InPass, Passing
<1>5. Carried
  BY SchedAssumption DEF SchedAssumption, Carried, Passing
<1>6. Waiting /\ Stopping /\ Timed
  BY <1>2 DEF Waiting, Stopping, Timed, Listed
<1> QED
  BY <1>3, <1>4, <1>5, <1>6 DEF SchedInv

LEMMA AddInv ==
  ASSUME SchedInv, NEW t \in Task, NEW p \in Nat, NEW c \in Nat, Add(t, p, c)
  PROVE  SchedInv'
<1> USE DEF SchedInv
<1>1. /\ t \notin ToSet(tmp) /\ t \notin ToSet(list)
      /\ tmp' = Append(tmp, t) /\ list' = list
      /\ count' = [count EXCEPT ![t] = c] /\ period' = [period EXCEPT ![t] = p]
      /\ want' = [want EXCEPT ![t] = c] /\ age' = [age EXCEPT ![t] = 0]
      /\ first' = [first EXCEPT ![t] = TRUE]
      /\ UNCHANGED <<stop, closing, signaled, pc, i, left, sec, ms, spent, busy,
                     visits>>
  BY DEF Add, stopping, clocks
<1>2. /\ tmp' \in Seq(Task) /\ Len(tmp') = Len(tmp) + 1 /\ Len(tmp) \in Nat
      /\ \A k \in 1..Len(tmp) : tmp'[k] = tmp[k] /\ tmp[k] \in Task
      /\ tmp'[Len(tmp) + 1] = t
      /\ list \in Seq(Task) /\ Len(list) \in Nat
      /\ \A k \in 1..Len(list) : list[k] \in Task
  <2>1. tmp \in Seq(Task) /\ list \in Seq(Task)
    BY DEF SchedTypeOK
  <2>2. /\ Len(tmp) \in Nat /\ \A k \in 1..Len(tmp) : tmp[k] \in Task
        /\ Len(list) \in Nat /\ \A k \in 1..Len(list) : list[k] \in Task
    BY <2>1, LenProperties, ElementOfSeq
  <2>3. /\ Append(tmp, t) \in Seq(Task) /\ Len(Append(tmp, t)) = Len(tmp) + 1
        /\ \A k \in 1..Len(tmp) : Append(tmp, t)[k] = tmp[k]
        /\ Append(tmp, t)[Len(tmp) + 1] = t
    BY <2>1, AppendProperties
  <2> QED
    BY <1>1, <2>1, <2>2, <2>3
<1>3. /\ \A k \in 1..Len(tmp) : tmp[k] # t
      /\ \A k \in 1..Len(list) : list[k] # t
  BY <1>1, ToSetProperties DEF SchedTypeOK
<1>4. ToSet(tmp') = ToSet(tmp) \cup {t} /\ ToSet(tmp) \subseteq Task
  <2>1. \A u : u \in ToSet(tmp') <=> \E k \in 1..Len(tmp) + 1 : u = tmp'[k]
    BY <1>2, ToSetProperties
  <2>2. /\ \A u : u \in ToSet(tmp) <=> \E k \in 1..Len(tmp) : u = tmp[k]
        /\ ToSet(tmp) \subseteq Task
    BY ToSetProperties DEF SchedTypeOK
  <2>3. ASSUME NEW u PROVE u \in ToSet(tmp') <=> u \in ToSet(tmp) \cup {t}
    <3>1. ASSUME NEW k \in 1..Len(tmp) + 1, u = tmp'[k]
          PROVE  u \in ToSet(tmp) \cup {t}
      BY <1>2, <2>2, <3>1
    <3>2. ASSUME NEW k \in 1..Len(tmp), u = tmp[k] PROVE u = tmp'[k]
      BY <1>2, <3>2
    <3> QED
      BY <1>2, <2>1, <2>2, <3>1, <3>2
  <2> QED
    BY <2>2, <2>3
<1>5. SchedTypeOK'
  BY <1>1, <1>2 DEF SchedTypeOK
<1>6. NotTwice'
  BY <1>1, <1>2, <1>3 DEF NotTwice
<1>7. InPass'
  <2>1. \A k \in 1..Len(list) : count'[list[k]] = count[list[k]]
    BY <1>1, <1>2, <1>3 DEF SchedTypeOK
  <2>2. Passing' = Passing /\ \A k : Reached(k)' = Reached(k)
    BY <1>1 DEF Passing, Reached
  <2>3. pc = "call" => i \in 1..Len(list)
    BY <1>2 DEF InPass, SchedTypeOK
  <2> QED
    BY <1>1, <2>1, <2>2, <2>3 DEF InPass
<1>8. Carried' /\ Stopping'
  BY <1>1 DEF Carried, Stopping, Passing
<1>9. Waiting'
  BY <1>1, <1>4 DEF Waiting, Passing, SchedTypeOK
<1>10. Timed'
  <2> SUFFICES ASSUME pc # "exit", NEW u \in ToSet(tmp) \cup ToSet(list) \cup {t}
               PROVE  InTime(u)'
    BY <1>1, <1>4 DEF Timed, Listed
  <2>1. Pending(u)' = Pending(u)
    BY <1>1 DEF Pending, Unvisited
  <2>2. CASE u # t
    BY <1>1, <2>1, <2>2 DEF Timed, Listed, InTime, CountedDown, SchedTypeOK
  <2>3. CASE u = t
    <3>1. CountedDown(u)' = 0
      BY <1>1, <2>3, UnitsProperties DEF CountedDown, SchedTypeOK
    <3>2. Pending(u) \in Int /\ Pending(u) >= 0
      BY PendingNotNegative
    <3>3. age'[u] = 0 /\ first'[u]
      BY <1>1, <2>3 DEF SchedTypeOK
    <3> QED
      BY <2>1, <3>1, <3>2, <3>3 DEF InTime
  <2> QED
    BY <2>2, <2>3
<1> QED
  BY <1>5, <1>6, <1>7, <1>8, <1>9, <1>10

\* The delays and periods that run_in, run_every and run_daily add tasks with.
LEMMA AddsInv ==
  ASSUME SchedInv, NEW t \in Task, RunIn(t) \/ RunEvery(t) \/ RunDaily(t)
  PROVE  SchedInv'
<1>1. \A s \in Secs : s \in Nat
  BY SchedAssumption DEF SchedAssumption
<1>2. \A now, at \in 0..Day - 1 : Day \in Nat /\ DailyDelay(now, at) \in Nat
  BY SchedAssumption DEF SchedAssumption, DailyDelay
<1> QED
  BY <1>1, <1>2, AddInv DEF RunIn, RunEvery, RunDaily

LEMMA LoopTopInv ==
  ASSUME SchedInv, LoopTop
  PROVE  SchedInv'
<1> USE DEF SchedInv
<1>1. /\ pc = "loop" /\ pc' = (IF stop THEN "exit" ELSE "wait")
      /\ left' = (IF stop THEN 0 ELSE Sec) /\ spent' = 0
      /\ visits' = [t \in Task |-> 0]
      /\ UNCHANGED <<tmp, list, count, period, stop, closing, signaled, i, sec,
                     ms, busy, want, age, first>>
  BY DEF LoopTop, StopSeen, lists, stopping
<1>2. Sec \in Nat /\ Sec > 0
  BY SchedAssumption DEF SchedAssumption
<1>3. SchedTypeOK'
  BY <1>1, <1>2 DEF SchedTypeOK
<1>4. NotTwice' /\ Carried' /\ Stopping' /\ Waiting'
  BY <1>1 DEF NotTwice, Carried, Stopping, Waiting, Passing
<1>5. InPass'
  BY <1>1 DEF InPass, Passing, Reached
<1>6. Timed'
  <2> SUFFICES ASSUME ~stop, NEW u \in Listed PROVE InTime(u)'
    BY <1>1 DEF Timed, Listed
  <2>1. Pending(u) = ms + 0 /\ Pending(u)' = ms' + (Sec' - left')
    BY <1>1, PendingCases, PendingCasesNext
  <2>2. Pending(u)' = Pending(u)
    BY <1>1, <1>2, <2>1 DEF SchedTypeOK
  <2> QED
    BY <1>1, <2>2 DEF Timed, InTime, CountedDown
<1> QED
  BY <1>3, <1>4, <1>5, <1>6

LEMMA WaitTickInv ==
  ASSUME SchedInv, WaitTick
  PROVE  SchedInv'
<1> USE DEF SchedInv
<1>1. /\ pc = "wait" /\ left > 0 /\ left' = left - 1 /\ Older
      /\ UNCHANGED <<tmp, list, count, period, stop, closing, signaled, pc, i,
                     sec, ms, spent, busy, want, first, visits>>
  BY DEF WaitTick, lists, stopping
<1>2. Sec \in Nat /\ Sec > 0
  BY SchedAssumption DEF SchedAssumption
<1>3. SchedTypeOK'
  BY <1>1, <1>2 DEF SchedTypeOK, Older
<1>4. NotTwice' /\ InPass' /\ Carried' /\ Stopping' /\ Waiting'
  BY <1>1 DEF NotTwice, InPass, Carried, Stopping, Waiting, Passing, Reached
<1>5. Timed'
  <2> SUFFICES ASSUME NEW u \in Listed PROVE InTime(u)'
    BY <1>1 DEF Timed, Listed
  <2>1. Pending(u)' = Pending(u) + 1
    BY <1>1, <1>2, PendingCases, PendingCasesNext DEF SchedTypeOK
  <2>2. age'[u] = age[u] + 1 /\ age[u] \in Nat /\ u \in Task
    BY <1>1, ToSetProperties DEF Older, Listed, SchedTypeOK
  <2>3. CountedDown(u)' = CountedDown(u) /\ CountedDown(u) \in Int
    BY <1>1, <2>2, CountedDownInteger DEF CountedDown
  <2>4. Pending(u) \in Int
    BY <1>1, PendingNotNegative
  <2>5. InTime(u)
    BY <1>1 DEF Timed
  <2> QED
    BY <1>1, <1>2, <2>1, <2>2, <2>3, <2>4, <2>5 DEF InTime
<1> QED
  BY <1>3, <1>4, <1>5

LEMMA WaitEndInv ==
  ASSUME SchedInv, WaitEnd
  PROVE  SchedInv'
<1> USE DEF SchedInv
<1>0. (signaled \/ left = 0) /\ signaled' = FALSE
  BY DEF WaitEnd, WaitOver
<1>1. /\ pc = "wait" /\ left' = 0 /\ pc' = "check"
      /\ UNCHANGED <<tmp, list, count, period, stop, closing, i, sec, ms, spent,
                     busy, want, age, first, visits>>
  BY DEF WaitEnd, lists, stopping, history
<1>2. Sec \in Nat /\ Sec > 0
  BY SchedAssumption DEF SchedAssumption
<1>3. SchedTypeOK'
  <2>1. signaled' \in BOOLEAN
    BY <1>0
  <2>2. left' \in 0..Sec
    BY <1>1, <1>2
  <2> QED
    BY <1>1, <2>1, <2>2 DEF SchedTypeOK
<1>4. NotTwice' /\ InPass' /\ Carried' /\ Waiting'
  BY <1>1 DEF NotTwice, InPass, Carried, Waiting, Passing, Reached
<1>5. Stopping'
  BY <1>0, <1>1 DEF Stopping
<1>6. Timed'
  <2> SUFFICES ASSUME NEW u \in Listed PROVE InTime(u)'
    BY <1>1 DEF Timed, Listed
  <2>1. Pending(u)' = Pending(u) + left
    BY <1>1, <1>2, PendingCases, PendingCasesNext DEF SchedTypeOK
  <2>2. age'[u] = age[u] /\ age[u] \in Nat /\ u \in Task
    BY <1>1, ToSetProperties DEF Listed, SchedTypeOK
  <2>3. CountedDown(u)' = CountedDown(u) /\ CountedDown(u) \in Int
    BY <1>1, <2>2, CountedDownInteger DEF CountedDown
  <2>4. Pending(u) \in Int /\ left \in Nat
    BY <1>1, <1>2, PendingNotNegative DEF SchedTypeOK
  <2>5. ~stop => left = 0
    BY <1>0 DEF Stopping
  <2>6. InTime(u)
    BY <1>1 DEF Timed
  <2> QED
    BY <1>1, <1>2, <2>1, <2>2, <2>3, <2>4, <2>5, <2>6 DEF InTime
<1> QED
  BY <1>3, <1>4, <1>5, <1>6

LEMMA PassBeginInv ==
  ASSUME SchedInv, PassBegin
  PROVE  SchedInv'
<1> USE DEF SchedInv
<1>1. /\ pc = "check" /\ spent = 0 /\ i = 1 /\ \A t \in Task : visits[t] = 0
      /\ UNCHANGED <<count, period, stop, closing, signaled, i, left, spent, busy,
                     want, age, first, visits>>
  BY DEF PassBegin, StopSeen, InPass, Carried, stopping, history
<1>2. CASE stop
  <2>1. pc' = "exit" /\ UNCHANGED <<tmp, list, sec, ms>>
    BY <1>2 DEF PassBegin, StopSeen
  <2>2. SchedTypeOK'
    BY <1>1, <2>1 DEF SchedTypeOK
  <2> QED
    BY <1>1, <1>2, <2>1, <2>2
       DEF NotTwice, InPass, Carried, Waiting, Stopping, Timed, Passing
<1>3. CASE ~stop
  <2>1. /\ pc' = "pass" /\ list' = list \o tmp /\ tmp' = <<>>
        /\ sec' = ms \div Sec /\ ms' = ms % Sec
    BY <1>3 DEF PassBegin, StopSeen, TakeOver, Carry
  <2>2. /\ tmp \in Seq(Task) /\ list \in Seq(Task) /\ ms \in Nat
        /\ Len(tmp) \in Nat /\ Len(list) \in Nat
    BY LenProperties DEF SchedTypeOK
  <2>3. /\ list' \in Seq(Task) /\ Len(list') = Len(list) + Len(tmp)
        /\ \A k \in 1..Len(list) + Len(tmp) :
             list'[k] = IF k <= Len(list) THEN list[k] ELSE tmp[k - Len(list)]
        /\ \A k \in 1..Len(list') : list'[k] \in Task
    BY <2>1, <2>2, ConcatProperties, ElementOfSeq
  <2>4. tmp' \in Seq(Task) /\ Len(tmp') = 0 /\ ToSet(tmp') = {}
    <3>1. tmp' \in Seq(Task) /\ Len(tmp') = 0
      BY <2>1, EmptySeq
    <3>2. 1..Len(tmp') = {}
      BY <3>1
    <3> QED
      BY <3>1, <3>2, ToSetProperties
  <2>5. ms' \in Nat /\ ms' < Sec /\ sec' \in Nat /\ ms = Units(sec') + ms'
    BY <2>1, <2>2, WholeSeconds
  <2>6. SchedTypeOK'
    BY <1>1, <2>1, <2>3, <2>4, <2>5 DEF SchedTypeOK
  <2>7. NotTwice'
    BY <2>1, <2>3, <2>4, JoinedOnce DEF NotTwice
  <2>8. InPass'
    BY <1>1, <2>1, <2>2, <2>3 DEF InPass, Passing, Reached
  <2>9. Carried' /\ Waiting' /\ Stopping'
    BY <1>1, <2>1, <2>4, <2>5 DEF Carried, Waiting, Stopping, Passing
  <2>10. ToSet(list') \subseteq Listed
    <3>1. ASSUME NEW k \in 1..Len(list')
          PROVE  list'[k] \in Listed
      <4>1. CASE k <= Len(list)
        BY <2>2, <2>3, <4>1, ToSetProperties DEF Listed
      <4>2. CASE k > Len(list)
        <5>1. k - Len(list) \in 1..Len(tmp)
          BY <2>2, <2>3, <4>2
        <5> QED
          BY <2>2, <2>3, <4>2, <5>1, ToSetProperties DEF Listed
      <4> QED
        BY <2>2, <2>3, <4>1, <4>2
    <3> QED
      BY <2>3, <3>1, ToSetProperties
  <2>11. Timed'
    <3> SUFFICES ASSUME NEW u \in ToSet(list') PROVE InTime(u)'
      BY <2>4 DEF Timed, Listed
    <3>1. u \in Listed /\ u \in Task
      BY <2>2, <2>10, ToSetProperties DEF Listed
    <3>2. InTime(u)
      BY <1>1, <3>1 DEF Timed
    <3>3. Pending(u) = ms + Sec /\ Pending(u)' = ms' + (0 + Units(sec' + 1))
      BY <1>1, <2>1, <3>1, PendingCases, PendingCasesNext DEF Unvisited, Passing
    <3>4. Units(sec' + 1) = Units(sec') + Sec /\ Units(sec') \in Nat /\ Sec \in Nat
      BY <2>5, UnitsProperties, SchedAssumption DEF SchedAssumption
    <3>5. Pending(u)' = Pending(u)
      BY <2>2, <2>5, <3>3, <3>4
    <3> QED
      BY <1>1, <1>3, <2>1, <3>2, <3>5 DEF InTime, CountedDown
  <2> QED
    BY <2>6, <2>7, <2>8, <2>9, <2>11
<1> QED
  BY <1>2, <1>3

LEMMA VisitInv ==
  ASSUME SchedInv, Visit
  PROVE  SchedInv'
<1> USE DEF SchedInv
<1>1. /\ pc = "pass" /\ i <= Len(list)
      /\ UNCHANGED <<tmp, list, period, stop, closing, signaled, left, sec, ms,
                     spent, busy, want, age, first>>
  BY DEF Visit, stopping, clocks
<1>2. /\ Len(list) \in Nat /\ i \in 1..Len(list)
      /\ \A k \in 1..Len(list) : list[k] \in Task
  <2>1. list \in Seq(Task) /\ i \in Nat \ {0}
    BY DEF SchedTypeOK
  <2>2. Len(list) \in Nat /\ \A k \in 1..Len(list) : list[k] \in Task
    BY <2>1, LenProperties, ElementOfSeq
  <2> QED
    BY <1>1, <2>1, <2>2
<1>3. PICK t \in Task : t = list[i]
  BY <1>2
<1>4. t \in ToSet(list) /\ \A k \in 1..Len(list) : k # i => list[k] # t
  BY <1>2, <1>3, ToSetProperties DEF NotTwice, SchedTypeOK
<1>5. visits[t] = 0 /\ count[t] \in Int /\ want[t] \in Int /\ sec + 1 \in Int
  <2>1. visits[t] = 0
    BY <1>1, <1>2, <1>3 DEF InPass, Passing, Reached
  <2>2. count[t] \in Int /\ want[t] \in Int /\ sec + 1 \in Int
    BY DEF SchedTypeOK
  <2> QED
    BY <2>1, <2>2
<1> sec \in Nat /\ ms \in Nat /\ spent \in Nat
  BY DEF SchedTypeOK
<1>6. /\ count' = [count EXCEPT ![t] = count[t] - (sec + 1)]
      /\ visits' = [visits EXCEPT ![t] = visits[t] + 1]
  BY <1>3 DEF Visit
<1>7. /\ count'[t] = count[t] - (sec + 1) /\ visits'[t] = 1
      /\ \A u \in Task \ {t} : count'[u] = count[u] /\ visits'[u] = visits[u]
      /\ count' \in [Task -> Int] /\ visits' \in [Task -> Nat]
  BY <1>5, <1>6 DEF SchedTypeOK
<1>8. \/ count'[t] <= 0 /\ pc' = "call" /\ i' = i
      \/ ~(count'[t] <= 0) /\ pc' = "pass" /\ i' = i + 1
  BY <1>1, <1>3 DEF Visit
<1>9. t \notin ToSet(tmp)
  <2>1. \A k \in 1..Len(tmp) : tmp[k] # t
    BY <1>2, <1>3 DEF NotTwice
  <2>2. tmp \in Seq(Task)
    BY DEF SchedTypeOK
  <2> QED
    BY <2>1, <2>2, ToSetProperties
<1>10. SchedTypeOK'
  <2>1. pc' \in {"pass", "call"} /\ i' \in Nat \ {0}
    BY <1>8 DEF SchedTypeOK
  <2> QED
    BY <1>1, <1>7, <2>1 DEF SchedTypeOK
<1>11. NotTwice' /\ Carried' /\ Stopping'
  BY <1>1, <1>8 DEF NotTwice, Carried, Stopping, Passing
<1>12. InPass'
  <2>1. \A u \in Task : visits'[u] <= 1
    BY <1>7 DEF InPass
  <2>2. /\ pc' = "pass" => i' <= Len(list) + 1
        /\ pc' = "call" => i' <= Len(list) /\ count'[list[i']] <= 0
    BY <1>2, <1>3, <1>8
  <2>3. ASSUME NEW k \in 1..Len(list)
        PROVE  /\ visits'[list[k]] = IF Reached(k)' THEN 1 ELSE 0
               /\ k < i' => count'[list[k]] > 0
    <3>1. CASE k = i
      <4>1. list[k] = t /\ Reached(k)' /\ (k < i' => ~(count'[t] <= 0))
        BY <1>2, <1>3, <1>8, <3>1 DEF Reached
      <4>2. count'[t] \in Int
        BY <1>7
      <4> QED
        BY <1>7, <4>1, <4>2
    <3>2. CASE k # i
      <4>1. list[k] \in Task \ {t}
        BY <1>2, <1>4, <3>2
      <4>2. Reached(k)' = Reached(k) /\ (k < i' => k < i)
        BY <1>1, <1>2, <1>8, <3>2 DEF Reached
      <4> QED
        BY <1>1, <1>7, <4>1, <4>2 DEF InPass, Passing
    <3> QED
      BY <3>1, <3>2
  <2> QED
    BY <1>1, <1>8, <2>1, <2>2, <2>3 DEF InPass
<1>13. Waiting'
  <2>1. \A u \in ToSet(tmp) : u \in Task \ {t}
    BY <1>9, ToSetProperties DEF SchedTypeOK
  <2> QED
    BY <1>1, <1>7, <2>1 DEF Waiting, Passing
<1>14. Timed'
  <2> SUFFICES ASSUME NEW u \in Listed PROVE InTime(u)'
    BY <1>1 DEF Timed, Listed
  <2>1. u \in Task /\ InTime(u)
    BY <1>1, ToSetProperties DEF Timed, Listed, SchedTypeOK
  <2>2. pc # "check" /\ pc' # "check" /\ Passing /\ Passing'
    BY <1>1, <1>8 DEF Passing
  <2>3. CASE u = t
    <3>1. Unvisited(u) /\ ~Unvisited(u)'
      BY <1>1, <1>4, <1>5, <1>7, <2>3 DEF Unvisited
    <3>2. /\ Pending(u) = ms + (spent + Units(sec + 1))
          /\ Pending(u)' = ms' + (spent' + 0)
      BY <2>2, <3>1, PendingCases, PendingCasesNext
    <3>3. /\ want[t] - count[t] \in Int
          /\ want'[t] - count'[t] = (want[t] - count[t]) + (sec + 1)
      BY <1>1, <1>5, <1>7
    <3>4. CountedDown(u)' = CountedDown(u) + Units(sec + 1)
      BY <1>5, <2>3, <3>3, UnitsProperties DEF CountedDown
    <3>5. CountedDown(u) \in Int /\ Units(sec + 1) \in Int
      BY <1>5, <2>1, CountedDownInteger, UnitsProperties
    <3>6. /\ Pending(u) \in Int /\ CountedDown(u)' \in Int /\ Pending(u)' \in Int
          /\ CountedDown(u)' + Pending(u)' = CountedDown(u) + Pending(u)
      BY <1>1, <3>2, <3>4, <3>5
    <3>7. age'[u] = age[u] /\ first'[u] = first[u] /\ stop' = stop
      BY <1>1
    <3>8. age[u] \in Int /\ Sec \in Int
      BY <2>1, SchedAssumption DEF SchedAssumption, SchedTypeOK
    <3>9. /\ age[u] <= CountedDown(u) + Pending(u)
          /\ ~first[u] => age[u] > CountedDown(u) + Pending(u) - Sec
      BY <2>1, <2>2 DEF InTime
    <3>10. /\ age'[u] <= CountedDown(u)' + Pending(u)'
           /\ ~first'[u] => age'[u] > CountedDown(u)' + Pending(u)' - Sec
      BY <3>5, <3>6, <3>7, <3>8, <3>9
    <3> QED
      BY <3>10 DEF InTime
  <2>4. CASE u # t
    <3>1. Unvisited(u)' = Unvisited(u)
      BY <1>1, <1>7, <2>1, <2>4 DEF Unvisited
    <3>2. Pending(u)' = Pending(u)
      BY <1>1, <2>2, <3>1, PendingCases, PendingCasesNext
    <3>3. CountedDown(u)' = CountedDown(u)
      BY <1>1, <1>7, <2>1, <2>4 DEF CountedDown
    <3> QED
      BY <1>1, <2>1, <2>2, <3>2, <3>3 DEF InTime
  <2> QED
    BY <2>3, <2>4
<1> QED
  BY <1>10, <1>11, <1>12, <1>13, <1>14

LEMMA CallTickInv ==
  ASSUME SchedInv, CallTick
  PROVE  SchedInv'
<1> USE DEF SchedInv
<1>1. /\ pc = "call" /\ busy' = busy + 1 /\ spent' = spent + 1 /\ Older
      /\ UNCHANGED <<tmp, list, count, period, stop, closing, signaled, pc, i,
                     left, sec, ms, want, first, visits>>
  BY DEF CallTick, lists, stopping
<1>2. SchedTypeOK'
  BY <1>1 DEF SchedTypeOK, Older
<1>3. NotTwice' /\ InPass' /\ Carried' /\ Stopping'
  BY <1>1 DEF NotTwice, InPass, Carried, Stopping, Passing, Reached
<1>4. ASSUME NEW u \in Listed
      PROVE  u \in Task /\ age'[u] = age[u] + 1 /\ age[u] \in Nat
  BY <1>1, ToSetProperties DEF Older, Listed, SchedTypeOK
<1>5. Waiting'
  BY <1>1, <1>4 DEF Waiting, Listed, Passing, SchedTypeOK
<1>6. Timed'
  <2> SUFFICES ASSUME NEW u \in Listed PROVE InTime(u)'
    BY <1>1 DEF Timed, Listed
  <2>1. Unvisited(u)' = Unvisited(u) /\ Passing /\ Passing'
    BY <1>1 DEF Unvisited, Passing
  <2>2. Units(sec + 1) \in Int
    <3>1. sec + 1 \in Int
      BY DEF SchedTypeOK
    <3> QED
      BY <3>1, UnitsProperties
  <2>3. Pending(u)' = Pending(u) + 1
    <3> ms \in Nat /\ spent \in Nat
      BY DEF SchedTypeOK
    <3>1. CASE Unvisited(u)
      <4>1. /\ Pending(u) = ms + (spent + Units(sec + 1))
            /\ Pending(u)' = ms' + (spent' + Units(sec' + 1))
        BY <2>1, <3>1, PendingCases, PendingCasesNext
      <4> QED
        BY <1>1, <2>2, <4>1
    <3>2. CASE ~Unvisited(u)
      <4>1. /\ Pending(u) = ms + (spent + 0)
            /\ Pending(u)' = ms' + (spent' + 0)
        BY <2>1, <3>2, PendingCases, PendingCasesNext
      <4> QED
        BY <1>1, <4>1
    <3> QED
      BY <3>1, <3>2
  <2>4. CountedDown(u)' = CountedDown(u) /\ CountedDown(u) \in Int
    BY <1>1, <1>4, CountedDownInteger DEF CountedDown
  <2>5. Pending(u) \in Int /\ Sec \in Int
    BY <1>1, PendingNotNegative, SchedAssumption DEF SchedAssumption
  <2>6. InTime(u)
    BY <1>1 DEF Timed
  <2> QED
    BY <1>1, <1>4, <2>3, <2>4, <2>5, <2>6 DEF InTime
<1> QED
  BY <1>2, <1>3, <1>5, <1>6

\* What the thread is at while it calls.
LEMMA Called ==
  ASSUME SchedInv, pc = "call"
  PROVE  /\ Len(list) \in Nat /\ i \in 1..Len(list)
         /\ \A k \in 1..Len(list) : list[k] \in Task
         /\ visits[list[i]] = 1
<1> USE DEF SchedInv
<1>1. list \in Seq(Task) /\ i \in Nat \ {0} /\ i <= Len(list)
  BY DEF SchedTypeOK, InPass
<1>2. Len(list) \in Nat /\ \A k \in 1..Len(list) : list[k] \in Task
  BY <1>1, LenProperties, ElementOfSeq
<1>3. i \in 1..Len(list)
  BY <1>1, <1>2
<1> QED
  BY <1>2, <1>3 DEF InPass, Passing, Reached

LEMMA AgainInv ==
  ASSUME SchedInv, CallEnd, period[list[i]] > 0
  PROVE  SchedInv'
<1> USE DEF SchedInv
<1>1. /\ pc = "call" /\ pc' = "pass" /\ busy' = 0 /\ i' = i + 1
      /\ UNCHANGED <<tmp, list, period, stop, closing, signaled, left, sec, ms,
                     spent, visits>>
  BY DEF CallEnd, Again, stopping
<1>2. /\ Len(list) \in Nat /\ i \in 1..Len(list)
      /\ \A k \in 1..Len(list) : list[k] \in Task
  BY <1>1, Called
<1>3. PICK t \in Task : t = list[i]
  BY <1>2
<1>4. /\ count' = [count EXCEPT ![t] = period[t]]
      /\ want' = [want EXCEPT ![t] = period[t]]
      /\ age' = [age EXCEPT ![t] = spent]
      /\ first' = [first EXCEPT ![t] = FALSE]
  BY <1>3 DEF CallEnd, Again, FullCount
<1> sec \in Nat /\ ms \in Nat /\ spent \in Nat /\ period[t] \in Nat
  BY DEF SchedTypeOK
<1>5. /\ count'[t] = period[t] /\ want'[t] = period[t] /\ period[t] > 0
      /\ age'[t] = spent
      /\ \A u \in Task \ {t} : /\ count'[u] = count[u] /\ want'[u] = want[u]
                               /\ age'[u] = age[u] /\ first'[u] = first[u]
  BY <1>3, <1>4 DEF SchedTypeOK
<1>6. \A k \in 1..Len(list) : k # i => list[k] # t
  BY <1>2, <1>3 DEF NotTwice
<1>7. t \notin ToSet(tmp)
  <2>1. \A k \in 1..Len(tmp) : tmp[k] # t
    BY <1>2, <1>3 DEF NotTwice
  <2>2. tmp \in Seq(Task)
    BY DEF SchedTypeOK
  <2> QED
    BY <2>1, <2>2, ToSetProperties
<1>8. SchedTypeOK'
  <2>1. /\ count' \in [Task -> Int] /\ want' \in [Task -> Nat]
        /\ age' \in [Task -> Nat]
    <3>1. /\ count \in [Task -> Int] /\ want \in [Task -> Nat]
          /\ age \in [Task -> Nat]
      BY DEF SchedTypeOK
    <3> QED
      BY <1>4, <3>1
  <2>2. first' \in [Task -> BOOLEAN]
    BY <1>4 DEF SchedTypeOK
  <2>3. i' \in Nat \ {0}
    BY <1>1 DEF SchedTypeOK
  <2> QED
    BY <1>1, <2>1, <2>2, <2>3 DEF SchedTypeOK
<1>9. NotTwice' /\ Carried' /\ Stopping'
  BY <1>1 DEF NotTwice, Carried, Stopping, Passing
<1>10. InPass'
  <2>1. i' <= Len(list) + 1
    BY <1>1, <1>2
  <2>2. ASSUME NEW k \in 1..Len(list)
        PROVE  /\ visits[list[k]] = IF Reached(k)' THEN 1 ELSE 0
               /\ k < i' => count'[list[k]] > 0
    <3>1. Reached(k)' = Reached(k)
      BY <1>1, <1>2 DEF Reached
    <3>2. visits[list[k]] = IF Reached(k)' THEN 1 ELSE 0
      BY <1>1, <3>1 DEF InPass, Passing
    <3>3. CASE k = i
      BY <1>3, <1>5, <3>2, <3>3
    <3>4. CASE k # i
      <4>1. k < i' => k < i
        BY <1>1, <1>2, <3>4
      <4>2. list[k] \in Task \ {t}
        BY <1>2, <1>6, <3>4
      <4> QED
        BY <1>1, <1>5, <3>2, <4>1, <4>2 DEF InPass, Passing
    <3> QED
      BY <3>3, <3>4
  <2> QED
    BY <1>1, <2>1, <2>2 DEF InPass
<1>11. Waiting'
  <2>1. \A u \in ToSet(tmp) : u \in Task \ {t}
    BY <1>7, ToSetProperties DEF SchedTypeOK
  <2> QED
    BY <1>1, <1>5, <2>1 DEF Waiting, Passing
<1>12. Timed'
  <2> SUFFICES ASSUME NEW u \in Listed PROVE InTime(u)'
    BY <1>1 DEF Timed, Listed
  <2>1. u \in Task /\ InTime(u)
    BY <1>1, ToSetProperties DEF Timed, Listed, SchedTypeOK
  <2>2. /\ pc # "check" /\ pc' # "check" /\ Passing /\ Passing'
        /\ Unvisited(u)' = Unvisited(u)
    BY <1>1 DEF Passing, Unvisited
  <2>3. CASE u = t
    <3>1. ~Unvisited(u)'
      BY <1>1, <1>3, <2>2, <2>3, Called DEF Unvisited
    <3>2. Pending(u)' = ms + spent
      BY <1>1, <2>2, <3>1, PendingCasesNext
    <3>3. CountedDown(u)' = 0
      <4>1. want'[t] - count'[t] = 0
        BY <1>5
      <4> QED
        BY <2>3, <4>1, UnitsProperties DEF CountedDown
    <3>4. ms < Sec /\ Sec \in Int
      BY <1>1, SchedAssumption DEF SchedAssumption, Carried, Passing
    <3>5. /\ age'[u] <= CountedDown(u)' + Pending(u)'
          /\ age'[u] > CountedDown(u)' + Pending(u)' - Sec
      BY <1>5, <2>3, <3>2, <3>3, <3>4
    <3> QED
      BY <3>5 DEF InTime
  <2>4. CASE u # t
    <3>1. Pending(u)' = Pending(u)
      BY <1>1, <2>2, PendingCases, PendingCasesNext
    <3>2. CountedDown(u)' = CountedDown(u)
      BY <1>5, <2>1, <2>4 DEF CountedDown
    <3> QED
      BY <1>1, <1>5, <2>1, <2>2, <2>4, <3>1, <3>2 DEF InTime
  <2> QED
    BY <2>3, <2>4
<1> QED
  BY <1>8, <1>9, <1>10, <1>11, <1>12

LEMMA DeleteInv ==
  ASSUME SchedInv, CallEnd, ~(period[list[i]] > 0)
  PROVE  SchedInv'
<1> USE DEF SchedInv
<1>1. /\ pc = "call" /\ pc' = "pass" /\ busy' = 0 /\ i' = i
      /\ UNCHANGED <<tmp, stop, closing, signaled, left, sec, ms, spent, visits>>
  BY DEF CallEnd, Delete, Replace, stopping
<1>2. /\ Len(list) \in Nat /\ i \in 1..Len(list)
      /\ \A k \in 1..Len(list) : list[k] \in Task
  BY <1>1, Called
<1>3. PICK t \in Task : t = list[i]
  BY <1>2
<1>4. /\ count' = [count EXCEPT ![t] = 0] /\ period' = [period EXCEPT ![t] = 0]
      /\ want' = [want EXCEPT ![t] = 0] /\ age' = [age EXCEPT ![t] = 0]
      /\ first' = [first EXCEPT ![t] = TRUE]
  BY <1>3 DEF CallEnd, Delete
<1>5. \A u \in Task \ {t} : /\ count'[u] = count[u] /\ want'[u] = want[u]
                            /\ age'[u] = age[u] /\ first'[u] = first[u]
  BY <1>4 DEF SchedTypeOK
<1>6. /\ list' \in Seq(Task) /\ Len(list') = Len(list) - 1
      /\ \A k \in 1..Len(list') :
           list'[k] = IF k = i THEN list[Len(list)] ELSE list[k]
  <2>1. list \in Seq(Task) /\ list' = Front([list EXCEPT ![i] = Last(list)])
    BY DEF SchedTypeOK, CallEnd, Delete, Replace
  <2> QED
    BY <1>2, <2>1, ReplaceProperties
<1> DEFINE From(k) == IF k = i THEN Len(list) ELSE k
<1>7. \A k \in 1..Len(list') :
        /\ From(k) \in 1..Len(list) /\ From(k) # i /\ list'[k] = list[From(k)]
        /\ list'[k] \in Task \ {t}
  BY <1>2, <1>3, <1>6 DEF NotTwice
<1>8. \A k, l \in 1..Len(list') : From(k) = From(l) => k = l
  BY <1>2, <1>6
<1> HIDE DEF From
<1>9. t \notin ToSet(tmp) /\ ToSet(tmp) \subseteq Task
  <2>1. \A k \in 1..Len(tmp) : tmp[k] # t
    BY <1>2, <1>3 DEF NotTwice
  <2>2. tmp \in Seq(Task)
    BY DEF SchedTypeOK
  <2> QED
    BY <2>1, <2>2, ToSetProperties
<1>10. SchedTypeOK'
  <2>1. /\ count' \in [Task -> Int] /\ period' \in [Task -> Nat]
        /\ want' \in [Task -> Nat] /\ age' \in [Task -> Nat]
        /\ first' \in [Task -> BOOLEAN]
    BY <1>4 DEF SchedTypeOK
  <2> QED
    BY <1>1, <1>6, <2>1 DEF SchedTypeOK
<1>11. NotTwice'
  <2>1. \A k, l \in 1..Len(list') : list'[k] = list'[l] => k = l
    BY <1>7, <1>8 DEF NotTwice
  <2>2. \A k \in 1..Len(list'), l \in 1..Len(tmp) : list'[k] # tmp[l]
    BY <1>7 DEF NotTwice
  <2> QED
    BY <1>1, <2>1, <2>2 DEF NotTwice
<1>12. Carried' /\ Stopping'
  BY <1>1 DEF Carried, Stopping, Passing
<1>13. InPass'
  <2>1. i' <= Len(list') + 1
    BY <1>1, <1>2, <1>6
  <2>2. ASSUME NEW k \in 1..Len(list')
        PROVE  /\ visits[list'[k]] = IF Reached(k)' THEN 1 ELSE 0
               /\ k < i' => count'[list'[k]] > 0
    <3>1. Reached(k)' <=> Reached(From(k))
      BY <1>1, <1>2, <1>6, <1>7 DEF Reached, From
    <3>2. k < i' => From(k) < i
      BY <1>1, <1>2, <1>6 DEF From
    <3>3. visits[list[From(k)]] = IF Reached(From(k)) THEN 1 ELSE 0
      BY <1>1, <1>7 DEF InPass, Passing
    <3>4. From(k) < i => count[list[From(k)]] > 0
      BY <1>1, <1>7 DEF InPass, Passing
    <3> QED
      BY <1>5, <1>7, <3>1, <3>2, <3>3, <3>4
  <2> QED
    BY <1>1, <2>1, <2>2 DEF InPass
<1>14. Waiting'
  <2>1. \A u \in ToSet(tmp) : u \in Task \ {t}
    BY <1>9
  <2> QED
    BY <1>1, <1>5, <2>1 DEF Waiting, Passing
<1>15. ASSUME NEW u \in ToSet(list') PROVE u \in ToSet(list) /\ u \in Task \ {t}
  <2>1. list \in Seq(Task)
    BY DEF SchedTypeOK
  <2>2. PICK k \in 1..Len(list') : u = list'[k]
    BY <1>6, ToSetProperties
  <2> QED
    BY <1>7, <2>1, <2>2, ToSetProperties
<1>16. ASSUME NEW u \in ToSet(tmp) PROVE u \notin ToSet(list) /\ u \notin ToSet(list')
  <2>1. list \in Seq(Task) /\ tmp \in Seq(Task)
    BY DEF SchedTypeOK
  <2>2. u \notin ToSet(list)
    BY <2>1, ToSetProperties DEF NotTwice
  <2> QED
    BY <1>15, <2>2
<1>17. Timed'
  <2> SUFFICES ASSUME NEW u \in ToSet(list') \cup ToSet(tmp) PROVE InTime(u)'
    BY <1>1 DEF Timed, Listed
  <2>1. u \in Task \ {t} /\ InTime(u)
    BY <1>1, <1>9, <1>15 DEF Timed, Listed
  <2>2. /\ pc # "check" /\ pc' # "check" /\ Passing /\ Passing'
        /\ Unvisited(u)' <=> Unvisited(u)
    BY <1>1, <1>15, <1>16 DEF Passing, Unvisited
  <2>3. Pending(u)' = Pending(u)
    BY <1>1, <2>2, PendingCases, PendingCasesNext
  <2>4. CountedDown(u)' = CountedDown(u)
    BY <1>5, <2>1 DEF CountedDown
  <2> QED
    BY <1>1, <1>5, <2>1, <2>2, <2>3, <2>4 DEF InTime
<1> QED
  BY <1>10, <1>11, <1>12, <1>13, <1>14, <1>17

LEMMA PassEndInv ==
  ASSUME SchedInv, PassEnd
  PROVE  SchedInv'
<1> USE DEF SchedInv
<1>1. /\ pc = "pass" /\ i > Len(list) /\ ms' = ms + spent /\ sec' = 0 /\ i' = 1
      /\ pc' = "loop"
      /\ UNCHANGED <<tmp, list, count, period, stop, closing, signaled, left,
                     spent, busy, want, age, first, visits>>
  BY DEF PassEnd, lists, stopping, history
<1>2. /\ list \in Seq(Task) /\ Len(list) \in Nat /\ i \in Nat
      /\ ms \in Nat /\ spent \in Nat
  BY LenProperties DEF SchedTypeOK
<1>3. ms' - spent' < Sec
  <2>1. ms < Sec /\ Sec \in Nat
    BY <1>1, SchedAssumption DEF Carried, Passing, SchedAssumption
  <2> QED
    BY <1>1, <1>2, <2>1
<1>4. SchedTypeOK'
  <2>1. ms' \in Nat /\ i' \in Nat \ {0} /\ sec' \in Nat
    BY <1>1, <1>2
  <2> QED
    BY <1>1, <2>1 DEF SchedTypeOK
<1>5. NotTwice' /\ Carried' /\ Stopping' /\ Waiting'
  BY <1>1, <1>3 DEF NotTwice, Carried, Stopping, Waiting, Passing
<1>6. \A k \in 1..Len(list) : k < i
  BY <1>1, <1>2
<1>7. InPass'
  <2>1. \A k \in 1..Len(list) : count[list[k]] > 0
    BY <1>1, <1>6 DEF InPass, Passing
  <2> QED
    BY <1>1, <2>1 DEF InPass, Passing
<1>8. Timed'
  <2> SUFFICES ASSUME NEW u \in Listed PROVE InTime(u)'
    BY <1>1 DEF Timed, Listed
  <2>1. ~Unvisited(u)
    <3> SUFFICES ASSUME u \in ToSet(list) PROVE visits[u] # 0
      BY DEF Unvisited
    <3>1. PICK k \in 1..Len(list) : u = list[k]
      BY <1>2, ToSetProperties
    <3> QED
      BY <1>1, <1>6, <3>1 DEF InPass, Passing, Reached
  <2>2. Pending(u) = ms + (spent + 0) /\ Pending(u)' = ms' + 0
    BY <1>1, <2>1, PendingCases, PendingCasesNext DEF Passing
  <2>3. Pending(u)' = Pending(u)
    BY <1>1, <1>2, <2>2
  <2> QED
    BY <1>1, <2>3 DEF Timed, InTime, CountedDown
<1> QED
  BY <1>4, <1>5, <1>7, <1>8

LEMMA StopInv ==
  ASSUME SchedInv, Stop
  PROVE  SchedInv'
<1> USE DEF SchedInv
<1>1. /\ stop' = TRUE /\ closing' = "raise"
      /\ UNCHANGED <<tmp, list, count, period, signaled, pc, i, left, sec, ms,
                     spent, busy, want, age, first, visits>>
  BY DEF Stop, lists, clocks, history
<1>2. SchedTypeOK'
  <2>1. stop' \in BOOLEAN
    BY <1>1
  <2> QED
    BY <1>1, <2>1 DEF SchedTypeOK
<1>3. NotTwice' /\ InPass' /\ Carried' /\ Waiting'
  BY <1>1 DEF NotTwice, InPass, Carried, Waiting, Passing, Reached
<1>4. Stopping'
  BY <1>1 DEF Stopping
<1>5. Timed'
  <2> SUFFICES ASSUME pc # "exit", NEW u \in Listed PROVE InTime(u)'
    BY <1>1 DEF Timed, Listed
  <2>1. Pending(u)' = Pending(u) /\ CountedDown(u)' = CountedDown(u)
    BY <1>1 DEF Pending, Unvisited, CountedDown
  <2>2. InTime(u)
    BY DEF Timed
  <2>3. age' = age /\ first' = first /\ pc' = pc /\ (pc = "check" => stop')
    BY <1>1
  <2>4. age'[u] <= CountedDown(u)' + Pending(u)'
    BY <2>1, <2>2, <2>3 DEF InTime
  <2>5. (~first'[u] /\ pc' # "check") =>
          age'[u] > CountedDown(u)' + Pending(u)' - Sec
    BY <2>1, <2>2, <2>3 DEF InTime
  <2> QED
    BY <2>3, <2>4, <2>5 DEF InTime
<1> QED
  BY <1>2, <1>3, <1>4, <1>5

LEMMA StopStepInv ==
  ASSUME SchedInv, StopStep
  PROVE  SchedInv'
<1> USE DEF SchedInv
<1>1. CASE StopRaise
  <2>1. /\ closing = "raise" /\ closing' = "join"
        /\ UNCHANGED <<tmp, list, count, period, stop, pc, i, left, sec, ms,
                       spent, busy, want, age, first, visits>>
    BY <1>1 DEF StopRaise, lists, clocks, history
  <2>2. signaled' = TRUE
    BY <1>1 DEF StopRaise
  <2>3. SchedTypeOK'
    <3>1. signaled' \in BOOLEAN
      BY <2>2
    <3> QED
      BY <2>1, <3>1 DEF SchedTypeOK
  <2>4. NotTwice' /\ InPass' /\ Carried' /\ Waiting' /\ Timed'
    BY <2>1 DEF NotTwice, InPass, Carried, Waiting, Passing, Reached, Timed,
                Listed, InTime, CountedDown, Pending, Unvisited
  <2>5. Stopping'
    BY <2>1 DEF Stopping
  <2> QED
    BY <2>3, <2>4, <2>5
<1>2. CASE StopJoin
  <2>1. /\ closing = "join" /\ closing' = "clear" /\ pc = "exit"
        /\ UNCHANGED <<tmp, list, count, period, stop, signaled, pc, i, left, sec,
                       ms, spent, busy, want, age, first, visits>>
    BY <1>2 DEF StopJoin, lists, clocks, history
  <2>2. SchedTypeOK'
    BY <2>1 DEF SchedTypeOK
  <2>3. NotTwice' /\ InPass' /\ Carried' /\ Waiting' /\ Timed' /\ Stopping'
    BY <2>1 DEF NotTwice, InPass, Carried, Waiting, Passing, Reached, Timed,
                Stopping
  <2> QED
    BY <2>2, <2>3
<1>3. CASE StopClear
  <2>1. /\ closing = "clear" /\ closing' = "done" /\ pc = "exit"
        /\ list' = <<>> /\ tmp' = <<>>
        /\ UNCHANGED <<count, period, stop, signaled, pc, i, left, sec, ms, spent,
                       busy, want, age, first, visits>>
    BY <1>3 DEF StopClear, clocks, history, Stopping
  <2>2. list' \in Seq(Task) /\ tmp' \in Seq(Task) /\ Len(list') = 0 /\ Len(tmp') = 0
    BY <2>1, EmptySeq
  <2>3. SchedTypeOK'
    BY <2>1, <2>2 DEF SchedTypeOK
  <2>4. NotTwice'
    BY <2>2 DEF NotTwice
  <2>5. ToSet(tmp') = {}
    <3>1. 1..Len(tmp') = {}
      BY <2>2
    <3> QED
      BY <2>2, <3>1, ToSetProperties
  <2>6. InPass' /\ Carried' /\ Waiting' /\ Timed' /\ Stopping'
    BY <2>1, <2>5 DEF InPass, Carried, Waiting, Passing, Reached, Timed, Stopping
  <2> QED
    BY <2>3, <2>4, <2>6
<1> QED
  BY <1>1, <1>2, <1>3 DEF StopStep

LEMMA SchedInvStutter ==
  ASSUME SchedInv, UNCHANGED schedVars
  PROVE  SchedInv'
BY DEF schedVars, lists, stopping, clocks, history, SchedInv, SchedTypeOK,
       NotTwice, InPass, Carried, Waiting, Stopping, Timed, Passing, Reached,
       Listed, InTime, CountedDown, Pending, Unvisited

-----------------------------------------------------------------------------
\* SchedInv holds throughout.
THEOREM SchedInvariant == SchedSpec => []SchedInv
<1>1. SchedInv /\ [SchedNext]_schedVars => SchedInv'
  <2> SUFFICES ASSUME SchedInv, [SchedNext]_schedVars PROVE SchedInv'
    OBVIOUS
  <2>1. CASE SchedThread
    BY <2>1, LoopTopInv, WaitTickInv, WaitEndInv, PassBeginInv, VisitInv,
       CallTickInv, AgainInv, DeleteInv, PassEndInv DEF SchedThread
  <2>2. CASE Stop
    BY <2>2, StopInv
  <2>3. CASE StopStep
    BY <2>3, StopStepInv
  <2>4. CASE \E t \in Task : RunIn(t) \/ RunEvery(t) \/ RunDaily(t)
    BY <2>4, AddsInv
  <2>5. CASE UNCHANGED schedVars
    BY <2>5, SchedInvStutter
  <2> QED
    BY <2>1, <2>2, <2>3, <2>4, <2>5 DEF SchedNext
<1> QED
  BY <1>1, SchedInvInit, PTL DEF SchedSpec

\* In a pass every task is counted down once, whatever was deleted in it and
\* whatever callbacks added, and no task is on the lists twice.
THEOREM CountedOnceHolds == SchedSpec => []CountedOnce
<1>1. SchedInv => CountedOnce
  <2> SUFFICES ASSUME SchedInv PROVE CountedOnce
    OBVIOUS
  <2> USE DEF SchedInv
  <2>4. IsInjective(list \o tmp)
    <3>1. DOMAIN (list \o tmp) = 1..Len(list) + Len(tmp)
      BY ConcatProperties, LenProperties DEF SchedTypeOK
    <3> QED
      BY <3>1, JoinedOnce DEF IsInjective
  <2>5. /\ pc = "call" => i <= Len(list)
        /\ \A t \in Task : visits[t] <= 1
        /\ pc = "pass" => \A k \in 1..Len(list) :
             visits[list[k]] = IF k < i THEN 1 ELSE 0
    BY DEF InPass, Passing, Reached
  <2> QED
    BY <2>4, <2>5 DEF CountedOnce
<1> QED
  BY <1>1, SchedInvariant, PTL

\* What a pass leaves in the list was not due as it began: a task runs in the
\* first pass that begins when it is due.
THEOREM OnTimeHolds == SchedSpec => []OnTime
<1>1. SchedInv => OnTime
  <2> SUFFICES ASSUME SchedInv, pc = "loop", NEW t \in ToSet(list)
               PROVE  age[t] - spent < Sec * want[t]
    BY DEF OnTime
  <2> USE DEF SchedInv
  <2>1. /\ list \in Seq(Task) /\ t \in Task /\ t \in Listed
        /\ count[t] \in Int /\ want[t] \in Int /\ age[t] \in Int
        /\ ms \in Nat /\ spent \in Nat
    BY ToSetProperties DEF SchedTypeOK, Listed
  <2>2. count[t] > 0
    <3>1. PICK k \in 1..Len(list) : t = list[k]
      BY <2>1, ToSetProperties
    <3> QED
      BY <3>1 DEF InPass
  <2>3. /\ CountedDown(t) = Units(want[t]) - Units(count[t])
        /\ Units(count[t]) >= Sec
        /\ Units(count[t]) \in Int /\ Units(want[t]) \in Int
    <3>1. 1 <= count[t] /\ 1 \in Int
      BY <2>1, <2>2
    <3>2. Units(1) = Sec
      BY UnitsProperties
    <3>3. Units(count[t]) >= Sec
      BY <2>1, <3>1, <3>2, UnitsMonotonic
    <3>4. CountedDown(t) = Units(want[t]) - Units(count[t])
      BY <2>1, UnitsProperties DEF CountedDown
    <3>5. Units(count[t]) \in Int /\ Units(want[t]) \in Int
      BY <2>1, UnitsProperties
    <3> QED
      BY <3>3, <3>4, <3>5
  <2>4. age[t] <= CountedDown(t) + ms
    <3>1. Pending(t) = ms
      BY <2>1, PendingCases
    <3> QED
      BY <2>1, <3>1 DEF Timed, InTime
  <2>5. ms - spent < Sec /\ Sec \in Int
    BY SchedAssumption DEF Carried, SchedAssumption
  <2>6. age[t] - spent < Units(want[t])
    BY <2>1, <2>3, <2>4, <2>5
  <2> QED
    BY <2>6 DEF Units
<1> QED
  BY <1>1, SchedInvariant, PTL

\* The passes that call a periodic task begin more than its period less a second
\* apart.
THEOREM PeriodKeptHolds == SchedSpec => []PeriodKept
<1>1. SchedInv => PeriodKept
  <2> SUFFICES ASSUME SchedInv, pc = "call", NEW t, t = list[i], ~first[t]
               PROVE  age[t] - spent > Sec * (want[t] - 1)
    BY DEF PeriodKept
  <2> USE DEF SchedInv
  <2>1. i \in 1..Len(list) /\ visits[t] = 1 /\ t \in Task
    BY Called
  <2>2. /\ count[t] \in Int /\ want[t] \in Int /\ age[t] \in Int
        /\ ms \in Nat /\ spent \in Nat
    BY <2>1 DEF SchedTypeOK
  <2>3. t \in Listed
    BY <2>1, ToSetProperties DEF Listed, SchedTypeOK
  <2>4. /\ CountedDown(t) = Units(want[t]) - Units(count[t])
        /\ Units(want[t] - 1) = Units(want[t]) - Sec
        /\ Units(count[t]) <= 0
        /\ Units(count[t]) \in Int /\ Units(want[t]) \in Int
    <3>1. count[t] <= 0 /\ 0 \in Int /\ 1 \in Int
      BY DEF InPass
    <3>2. Units(0) = 0 /\ Units(1) = Sec
      BY UnitsProperties
    <3>3. Units(count[t]) <= 0
      BY <2>2, <3>1, <3>2, UnitsMonotonic
    <3>4. Units(want[t] - 1) = Units(want[t]) - Sec
      BY <2>2, UnitsMinusOne
    <3>5. CountedDown(t) = Units(want[t]) - Units(count[t])
      BY <2>2, UnitsProperties DEF CountedDown
    <3>6. Units(count[t]) \in Int /\ Units(want[t]) \in Int
      BY <2>2, UnitsProperties
    <3> QED
      BY <3>3, <3>4, <3>5, <3>6
  <2>5. age[t] > CountedDown(t) + (ms + spent) - Sec
    <3>1. Pending(t) = ms + spent
      BY <2>1, <2>2, PendingCases DEF Passing, Unvisited
    <3> QED
      BY <2>3, <3>1 DEF Timed, InTime
  <2>6. Sec \in Int
    BY SchedAssumption DEF SchedAssumption
  <2>7. age[t] - spent > Units(want[t] - 1)
    BY <2>2, <2>4, <2>5, <2>6
  <2> QED
    BY <2>7 DEF Units
<1> QED
  BY <1>1, SchedInvariant, PTL
=============================================================================
