------------------------------ MODULE TextProofs ------------------------------
(***************************************************************************)
(* Proofs about functions on strings, for strings of every length:         *)
(*   Text   match and rfind of base/fastring.cc, clean and base of         *)
(*          base/path.cc, mkdir with every parent (base/unix/fs.cc), and   *)
(*          what a full buffer of LevelLogger is cut to (base/log.cc);     *)
(*   Flags  the arguments of the command line, the search outside of       *)
(*          quotes, and a value that mkconf writes and parse_config reads  *)
(*          back (base/flag.cc).                                           *)
(* The recursive functions they are made of are defined by LooksDown, and  *)
(* induction is an argument about the least element of a set.              *)
(***************************************************************************)
EXTENDS Text, Flags, FiniteSetTheorems, WellFoundedInduction, SequenceTheorems, TLAPS

-----------------------------------------------------------------------------
\* Recursion and induction over the natural numbers.

\* A set of natural numbers has a least one.
LEMMA LeastNumber ==
  ASSUME NEW T, T \subseteq Nat, T # {}
  PROVE  \E x \in T : \A y \in T : x <= y
<1>. DEFINE Less == OpToRel(<, Nat)
<1>1. IsWellFoundedOn(Less, Nat)
  BY NatLessThanWellFounded DEF Less
<1>2. PICK x \in T : \A y \in T : <<y, x>> \notin Less
  <2>. HIDE DEF Less
  <2>. QED
    BY <1>1, WFMin
<1>3. \A y \in T : ~(y < x)
  BY <1>2 DEF OpToRel
<1>. QED
  BY <1>3

\* What holds for a number whenever it holds for all below it holds for all:
\* S is the set of those it holds for.
LEMMA AllNumbers ==
  ASSUME NEW S, \A n \in Nat : (\A k \in Nat : k < n => k \in S) => n \in S
  PROVE  Nat \subseteq S
<1>. SUFFICES ASSUME Nat \ S # {} PROVE FALSE
  OBVIOUS
<1>1. PICK n \in Nat \ S : \A k \in Nat \ S : n <= k
  BY LeastNumber
<1>2. \A k \in Nat : k < n => k \in S
  BY <1>1
<1>. QED
  BY <1>1, <1>2

\* Delta makes values of T at the points of S out of such values, and looks at
\* points of a lower rank only.
LooksDown(Delta, rank, n, S, T) ==
  /\ T # {}
  /\ n \in Nat /\ rank \in [S -> 0..n]
  /\ Delta \in [[S -> T] -> [S -> T]]
  /\ \A g, h \in [S -> T] : \A x \in S :
       (\A y \in S : rank[y] < rank[x] => g[y] = h[y]) => Delta[g][x] = Delta[h][x]

\* A recursive definition that looks down defines a function.
LEMMA RecursiveFunction ==
  ASSUME NEW S, NEW T, NEW n, NEW rank, NEW Delta, LooksDown(Delta, rank, n, S, T)
  PROVE  \E f \in [S -> T] : f = Delta[f]
<1>. USE DEF LooksDown
<1>. DEFINE Upto(k) == \E g \in [S -> T] : \A x \in S : rank[x] < k => g[x] = Delta[g][x]
            Fine == {k \in Nat : Upto(k)}
<1>1. Upto(0)
  <2>1. PICK t \in T : TRUE
    OBVIOUS
  <2>. DEFINE g == [x \in S |-> t]
  <2>2. g \in [S -> T]
    OBVIOUS
  <2>3. \A x \in S : ~(rank[x] < 0)
    OBVIOUS
  <2>. QED
    BY <2>2, <2>3
<1>2. ASSUME NEW k \in Nat, Upto(k) PROVE Upto(k + 1)
  <2>1. PICK g \in [S -> T] : \A x \in S : rank[x] < k => g[x] = Delta[g][x]
    BY <1>2
  <2>2. Delta[g] \in [S -> T]
    OBVIOUS
  <2>3. ASSUME NEW x \in S, rank[x] < k + 1 PROVE Delta[g][x] = Delta[Delta[g]][x]
    <3>1. ASSUME NEW y \in S, rank[y] < rank[x] PROVE g[y] = Delta[g][y]
      <4>1. rank[y] < k
        BY <2>3, <3>1
      <4>. QED
        BY <4>1, <2>1
    <3>. QED
      BY <2>2, <3>1
  <2>. QED
    BY <2>2, <2>3
<1>3. Nat \subseteq Fine
  <2>. SUFFICES ASSUME NEW k \in Nat, \A j \in Nat : j < k => j \in Fine PROVE k \in Fine
    <3>. HIDE DEF Fine
    <3>. QED
      BY AllNumbers
  <2>1. CASE k = 0
    BY <1>1, <2>1
  <2>2. CASE k # 0
    <3>1. k - 1 \in Nat /\ k - 1 < k /\ k = (k - 1) + 1
      BY <2>2
    <3>2. Upto(k - 1)
      BY <3>1
    <3>3. Upto((k - 1) + 1)
      BY <1>2, <3>1, <3>2
    <3>. QED
      BY <3>1, <3>3
  <2>. QED
    BY <2>1, <2>2
<1>4. PICK g \in [S -> T] : \A x \in S : rank[x] < n + 1 => g[x] = Delta[g][x]
  BY <1>3
<1>5. Delta[g] \in [S -> T] /\ \A x \in S : rank[x] < n + 1
  OBVIOUS
<1>. QED
  BY <1>4, <1>5

\* What holds for the first number of an interval, and for a number whenever it
\* holds for the one below, holds for all of it.
LEMMA Along ==
  ASSUME NEW a \in Nat, NEW n \in Nat, NEW S, a \in S,
         \A k \in a + 1..n : k - 1 \in S => k \in S
  PROVE  a..n \subseteq S
<1>. DEFINE Fine == {d \in Nat : a + d <= n => a + d \in S}
<1>1. ASSUME NEW d \in Nat, \A e \in Nat : e < d => e \in Fine PROVE d \in Fine
  <2>1. CASE d = 0
    BY <2>1
  <2>2. CASE d # 0 /\ a + d <= n
    <3>1. d - 1 \in Nat /\ d - 1 < d /\ a + (d - 1) <= n /\ a + (d - 1) = (a + d) - 1
      BY <2>2
    <3>2. (a + d) - 1 \in S
      BY <1>1, <3>1
    <3>3. a + d \in a + 1..n
      BY <2>2
    <3>. QED
      BY <3>2, <3>3
  <2>. QED
    BY <2>1, <2>2
<1>2. Nat \subseteq Fine
  <2>. HIDE DEF Fine
  <2>. QED
    BY <1>1, AllNumbers
<1>3. ASSUME NEW k \in a..n PROVE k \in S
  <2>1. k - a \in Nat /\ a + (k - a) = k /\ k <= n
    OBVIOUS
  <2>2. k - a \in Fine
    <3>. HIDE DEF Fine
    <3>. QED
      BY <1>2, <2>1
  <2>. QED
    BY <2>1, <2>2
<1>. QED
  BY <1>3

\* A definition that looks at the number below defines a function.
Steps(f, a, n, base, step) ==
  f = [k \in a..n |-> IF k = a THEN base ELSE step[k][f[k - 1]]]

LEMMA StepByStep ==
  ASSUME NEW a \in Nat, NEW n \in Nat, NEW T, NEW base \in T,
         NEW step \in [a + 1..n -> [T -> T]]
  PROVE  \E f \in [a..n -> T] : Steps(f, a, n, base, step)
<1>. DEFINE S == a..n
            Delta == [g \in [S -> T] |-> [k \in S |-> IF k = a THEN base ELSE step[k][g[k - 1]]]]
            rank == [k \in S |-> k - a]
<1>1. ASSUME NEW k \in S, k # a PROVE k \in a + 1..n /\ k - 1 \in S /\ (k - 1) - a < k - a
  BY <1>1
<1>2. Delta \in [[S -> T] -> [S -> T]]
  <2>1. ASSUME NEW g \in [S -> T], NEW k \in S
        PROVE  (IF k = a THEN base ELSE step[k][g[k - 1]]) \in T
    <3>1. CASE k # a
      <4>1. step[k] \in [T -> T] /\ g[k - 1] \in T
        BY <1>1, <3>1
      <4>. QED
        BY <3>1, <4>1
    <3>. QED
      BY <3>1
  <2>. HIDE DEF S
  <2>. QED
    BY <2>1, Zenon
<1>3. LooksDown(Delta, rank, n, S, T)
  <2>1. \A g, h \in [S -> T] : \A x \in S :
          (\A y \in S : rank[y] < rank[x] => g[y] = h[y]) => Delta[g][x] = Delta[h][x]
    <3>. TAKE g, h \in [S -> T]
    <3>. TAKE x \in S
    <3>. HAVE \A y \in S : rank[y] < rank[x] => g[y] = h[y]
    <3>1. x # a => g[x - 1] = h[x - 1]
      BY <1>1
    <3>. HIDE DEF S
    <3>. QED
      BY <3>1, Zenon
  <2>2. rank \in [S -> 0..n]
    OBVIOUS
  <2>. HIDE DEF Delta, rank, S
  <2>. QED
    BY <1>2, <2>1, <2>2 DEF LooksDown
<1>4. PICK f \in [S -> T] : f = Delta[f]
  <2>. HIDE DEF Delta, rank, S
  <2>. QED
    BY <1>3, RecursiveFunction
<1>5. f = [k \in S |-> IF k = a THEN base ELSE step[k][f[k - 1]]]
  <2>. HIDE DEF S
  <2>. QED
    BY <1>4, Zenon
<1>. QED
  BY <1>5, Zenon DEF Steps

-----------------------------------------------------------------------------
\* rfind.

\* How far it steps back: to an earlier place of the character, or past sub.
LEMMA SkipBounds ==
  ASSUME NEW C, NEW sub \in Seq(C), NEW c
  PROVE  /\ Skip(sub, c) \in 1..Len(sub) + 1
         /\ \A d \in 1..Len(sub) : sub[d] = c => Skip(sub, c) <= d
<1>. DEFINE Found == {i \in 1..Len(sub) : sub[i] = c}
<1>0. Len(sub) \in Nat /\ DOMAIN sub = 1..Len(sub)
  OBVIOUS
<1>1. ToSet(sub) = {sub[i] : i \in 1..Len(sub)}
  BY <1>0 DEF ToSet
<1>2. CASE c \notin ToSet(sub)
  BY <1>0, <1>1, <1>2 DEF Skip
<1>3. CASE c \in ToSet(sub)
  <2>1. Found # {} /\ Found \subseteq Nat
    BY <1>1, <1>3
  <2>2. PICK i \in Found : \A k \in Found : i <= k
    BY <2>1, LeastNumber
  <2>3. i \in 1..Len(sub) /\ sub[i] = c /\ \A k \in 1..i - 1 : sub[k] # c
    <3>1. ASSUME NEW k \in 1..i - 1, sub[k] = c PROVE FALSE
      BY <1>0, <2>2, <3>1
    <3>. QED
      BY <2>2, <3>1
  <2>. DEFINE First(k) == k \in 1..Len(sub) /\ sub[k] = c /\ \A l \in 1..k - 1 : sub[l] # c
  <2>4. Skip(sub, c) = CHOOSE k \in 1..Len(sub) : First(k)
    BY <1>3, Zenon DEF Skip
  <2>5. First(Skip(sub, c))
    <3>1. First(i)
      BY <2>3
    <3>2. Skip(sub, c) = CHOOSE k \in 1..Len(sub) : First(k)
      BY <2>4
    <3>3. i \in 1..Len(sub)
      BY <2>3
    <3>. HIDE DEF First
    <3>. QED
      BY <3>1, <3>2, <3>3, Zenon
  <2>6. ASSUME NEW d \in 1..Len(sub), sub[d] = c PROVE Skip(sub, c) <= d
    BY <1>0, <2>5, <2>6
  <2>. QED
    BY <1>0, <2>5, <2>6
<1>. QED
  BY <1>2, <1>3

\* A character of a part of a string.
LEMMA PartOf ==
  ASSUME NEW C, NEW s \in Seq(C), NEW j \in Nat, NEW l \in Nat, j + l <= Len(s)
  PROVE  /\ Part(s, j, j + l) \in Seq(C)
         /\ Len(Part(s, j, j + l)) = l
         /\ \A d \in 1..l : Part(s, j, j + l)[d] = s[j + d]
<1>1. \A i \in j + 1..j + l : i \in 1..Len(s) /\ s[i] \in C
  OBVIOUS
<1>2. SubSeq(s, j + 1, j + l) = [i \in 1..(j + l) - (j + 1) + 1 |-> s[i + (j + 1) - 1]]
  BY <1>1, SubSeqProperties
<1>3. (j + l) - (j + 1) + 1 = l
  OBVIOUS
<1>. QED
  BY <1>1, <1>2, <1>3 DEF Part

\* Between a place where sub is not, and the one rfind steps back to, sub is not.
LEMMA SkipsNoPlace ==
  ASSUME NEW C, NEW s \in Seq(C), NEW sub \in Seq(C),
         NEW j \in 1..Len(s) - Len(sub), NEW p \in Places(s, sub), p < j
  PROVE  p <= j - Skip(sub, At(s, j - 1))
<1>. DEFINE m == Len(sub)
            d == j - p
<1>1. /\ m \in Nat /\ Len(s) \in Nat /\ p \in Nat /\ p + m <= Len(s)
      /\ d \in Nat /\ d >= 1 /\ j = p + d /\ Part(s, p, p + m) = sub
  BY DEF Places
<1>2. At(s, j - 1) = s[j]
  BY DEF At
<1>3. CASE d > m
  BY <1>1, <1>3, SkipBounds
<1>4. CASE d <= m
  <2>0. d \in 1..m
    BY <1>1, <1>4
  <2>1. Part(s, p, p + m)[d] = s[p + d]
    <3>. HIDE DEF m, d
    <3>0. m \in Nat /\ p \in Nat /\ p + m <= Len(s)
      BY <1>1
    <3>1. \A e \in 1..m : Part(s, p, p + m)[e] = s[p + e]
      BY <3>0, PartOf
    <3>. QED
      BY <2>0, <3>1
  <2>2. d \in 1..m /\ sub[d] = At(s, j - 1)
    <3>. HIDE DEF m, d
    <3>. QED
      BY <1>1, <1>2, <2>0, <2>1, Zenon
  <2>3. Skip(sub, At(s, j - 1)) <= d /\ Skip(sub, At(s, j - 1)) \in 1..m + 1
    BY <2>2, SkipBounds
  <2>. QED
    BY <1>1, <2>3
<1>. QED
  BY <1>1, <1>3, <1>4

\* The recursion of rfind, unfolded once.
LEMMA RfindUnfolds ==
  ASSUME NEW C, NEW s \in Seq(C), NEW sub \in Seq(C), Len(sub) <= Len(s),
         NEW j \in 0..Len(s) - Len(sub)
  PROVE  RfindFrom(s, sub)[j] =
           IF Part(s, j, j + Len(sub)) = sub THEN j
           ELSE IF j = 0 \/ j < Skip(sub, At(s, j - 1)) THEN npos
                ELSE RfindFrom(s, sub)[j - Skip(sub, At(s, j - 1))]
<1>. DEFINE m == Len(sub)
            n == Len(s) - m
            S == 0..n
            T == Int
            step(g, i) == IF Part(s, i, i + m) = sub THEN i
                          ELSE IF i = 0 \/ i < Skip(sub, At(s, i - 1)) THEN npos
                               ELSE g[i - Skip(sub, At(s, i - 1))]
            Delta == [g \in [S -> T] |-> [i \in S |-> step(g, i)]]
            rank == [i \in S |-> i]
            Good(f) == f = [i \in 0..Len(s) - Len(sub) |-> step(f, i)]
<1>1. n \in Nat /\ S \subseteq Nat /\ npos \in Int
  BY DEF npos
<1>2. \A i \in S : i = 0 \/ i < Skip(sub, At(s, i - 1))
                     \/ (i - Skip(sub, At(s, i - 1)) \in S /\ i - Skip(sub, At(s, i - 1)) < i)
  <2>. TAKE i \in S
  <2>1. Skip(sub, At(s, i - 1)) \in 1..m + 1
    BY SkipBounds
  <2>. QED
    BY <1>1, <2>1
<1>. HIDE DEF n, m
<1>3. Delta \in [[S -> T] -> [S -> T]]
  <2>. SUFFICES ASSUME NEW g \in [S -> T], NEW i \in S PROVE step(g, i) \in T
    BY Zenon
  <2>. QED
    BY <1>1, <1>2
<1>4. LooksDown(Delta, rank, n, S, T)
  <2>1. \A g, h \in [S -> T] : \A x \in S :
          (\A y \in S : rank[y] < rank[x] => g[y] = h[y]) => Delta[g][x] = Delta[h][x]
    <3>. TAKE g, h \in [S -> T]
    <3>. TAKE x \in S
    <3>. HAVE \A y \in S : rank[y] < rank[x] => g[y] = h[y]
    <3>1. x = 0 \/ x < Skip(sub, At(s, x - 1))
            \/ g[x - Skip(sub, At(s, x - 1))] = h[x - Skip(sub, At(s, x - 1))]
      BY <1>1, <1>2
    <3>2. step(g, x) = step(h, x)
      BY <3>1
    <3>. QED
      BY <3>2, Zenon
  <2>2. T # {} /\ rank \in [S -> 0..n]
    <3>1. 0 \in T
      OBVIOUS
    <3>. QED
      BY <3>1, Zenon
  <2>. HIDE DEF Delta, rank, S, T
  <2>. QED
    BY <1>1, <1>3, <2>1, <2>2 DEF LooksDown
<1>5. PICK f \in [S -> T] : f = Delta[f]
  <2>. HIDE DEF Delta, rank, S, T
  <2>. QED
    BY <1>4, RecursiveFunction
<1>6. Good(f)
  BY <1>5, Zenon DEF n, m
<1>7. RfindFrom(s, sub) = CHOOSE g : Good(g)
  BY Zenon DEF RfindFrom, m
<1>8. Good(RfindFrom(s, sub))
  <2>. HIDE DEF Good
  <2>. QED
    BY <1>6, <1>7, Zenon
<1>. QED
  BY <1>8, Zenon DEF m

\* What rfind returns from j on to the front.
LastPlace(s, sub, j, r) ==
  \/ r = npos /\ \A p \in Places(s, sub) : ~(p <= j)
  \/ r \in Places(s, sub) /\ r <= j /\ \A p \in Places(s, sub) : p <= j => p <= r

LEMMA RfindFromRight ==
  ASSUME NEW C, NEW s \in Seq(C), NEW sub \in Seq(C), Len(sub) <= Len(s)
  PROVE  \A j \in 0..Len(s) - Len(sub) : LastPlace(s, sub, j, RfindFrom(s, sub)[j])
<1>. DEFINE n == Len(s) - Len(sub)
            R(j) == RfindFrom(s, sub)[j]
            Fine == {j \in Nat : j <= n => LastPlace(s, sub, j, R(j))}
<1>0. n \in Nat /\ Places(s, sub) \subseteq 0..n
  BY DEF Places
<1>1. ASSUME NEW j \in Nat, \A k \in Nat : k < j => k \in Fine, j <= n
      PROVE  LastPlace(s, sub, j, R(j))
  <2>. DEFINE k == Skip(sub, At(s, j - 1))
  <2>0. j \in 0..n
    BY <1>0, <1>1
  <2>1. CASE Part(s, j, j + Len(sub)) = sub
    <3>1. R(j) = j /\ j \in Places(s, sub)
      BY <2>0, <2>1, RfindUnfolds DEF Places
    <3>. QED
      BY <3>1, <1>0 DEF LastPlace
  <2>2. CASE Part(s, j, j + Len(sub)) # sub
    <3>1. j \notin Places(s, sub)
      BY <2>2 DEF Places
    <3>2. CASE j = 0
      <4>1. R(j) = npos
        BY <2>0, <2>2, <3>2, RfindUnfolds
      <4>. QED
        BY <1>0, <3>1, <3>2, <4>1 DEF LastPlace
    <3>3. CASE j # 0
      <4>1. k \in 1..Len(sub) + 1
        BY SkipBounds
      <4>2. \A p \in Places(s, sub) : p <= j => p <= j - k
        <5>. SUFFICES ASSUME NEW p \in Places(s, sub), p <= j PROVE p <= j - k
          OBVIOUS
        <5>1. p < j /\ j \in 1..Len(s) - Len(sub)
          BY <1>0, <2>0, <3>1, <3>3
        <5>. QED
          BY <5>1, SkipsNoPlace
      <4>3. CASE j < k
        <5>1. R(j) = npos
          BY <2>0, <2>2, <4>3, RfindUnfolds
        <5>. QED
          BY <1>0, <4>1, <4>2, <4>3, <5>1 DEF LastPlace
      <4>4. CASE ~(j < k)
        <5>1. R(j) = R(j - k)
          BY <2>0, <2>2, <3>3, <4>4, RfindUnfolds
        <5>2. j - k \in Nat /\ j - k < j /\ j - k <= n
          BY <1>0, <2>0, <4>1, <4>4
        <5>3. LastPlace(s, sub, j - k, R(j - k))
          BY <1>1, <5>2
        <5>. HIDE DEF k, R
        <5>. QED
          BY <1>0, <4>2, <5>1, <5>2, <5>3 DEF LastPlace
      <4>. QED
        BY <4>3, <4>4
    <3>. QED
      BY <3>2, <3>3
  <2>. QED
    BY <2>1, <2>2
<1>2. Nat \subseteq Fine
  <2>. SUFFICES ASSUME NEW j \in Nat, \A k \in Nat : k < j => k \in Fine PROVE j \in Fine
    <3>. HIDE DEF Fine
    <3>. QED
      BY AllNumbers
  <2>. QED
    BY <1>1
<1>. QED
  BY <1>0, <1>2

\* rfind returns the last place, or npos if there is none (fastring.cc:84-103).
THEOREM RfindRight ==
  ASSUME NEW C, NEW s \in Seq(C), NEW sub \in Seq(C)
  PROVE  Rfind(s, sub) = IF Places(s, sub) = {} THEN npos ELSE Max(Places(s, sub))
<1>. DEFINE n == Len(s) - Len(sub)
<1>0. Len(s) \in Nat /\ Len(sub) \in Nat /\ Places(s, sub) \subseteq 0..n
  BY DEF Places
<1>1. CASE Len(s) < Len(sub)
  BY <1>0, <1>1 DEF Rfind
<1>2. CASE ~(Len(s) < Len(sub))
  <2>. DEFINE r == Rfind(s, sub)
  <2>1. LastPlace(s, sub, n, r)
    BY <1>0, <1>2, RfindFromRight DEF Rfind
  <2>2. CASE Places(s, sub) = {}
    BY <2>1, <2>2 DEF LastPlace
  <2>3. CASE Places(s, sub) # {}
    <3>1. r \in Places(s, sub) /\ \A p \in Places(s, sub) : p <= r
      BY <1>0, <1>2, <2>1, <2>3 DEF LastPlace
    <3>2. \A x \in Places(s, sub) : (\A p \in Places(s, sub) : p <= x) => x = r
      BY <1>0, <3>1
    <3>. HIDE DEF r
    <3>3. Max(Places(s, sub)) = r
      BY <3>1, <3>2 DEF Max
    <3>. QED
      BY <2>3, <3>3 DEF r
  <2>. QED
    BY <2>2, <2>3
<1>. QED
  BY <1>1, <1>2

-----------------------------------------------------------------------------
\* match.

\* The recursion of match, unfolded once.
MatchStep(g, s, p, i, j) ==
  IF j + 1 = Len(p) /\ At(p, j) = "*" THEN TRUE
  ELSE IF i < Len(s) /\ j < Len(p)
       THEN IF At(p, j) = "*" THEN g[<<i, j + 1>>] \/ g[<<i + 1, j>>]
            ELSE At(p, j) \in {"?", At(s, i)} /\ g[<<i + 1, j + 1>>]
       ELSE i = Len(s) /\ j = Len(p)

LEMMA MatchUnfolds ==
  ASSUME NEW C, NEW s \in Seq(C), NEW p \in Seq(C),
         NEW i \in 0..Len(s), NEW j \in 0..Len(p)
  PROVE  /\ MatchFrom(s, p)[<<i, j>>] \in BOOLEAN
         /\ MatchFrom(s, p)[<<i, j>>] = MatchStep(MatchFrom(s, p), s, p, i, j)
<1>. DEFINE n == Len(s)
            m == Len(p)
            S == (0..n) \X (0..m)
            T == BOOLEAN
            Delta == [g \in [S -> T] |-> [x \in S |-> MatchStep(g, s, p, x[1], x[2])]]
            rank == [x \in S |-> (n - x[1]) + (m - x[2])]
            Good(f) == f = [x \in (0..Len(s)) \X (0..Len(p)) |-> MatchStep(f, s, p, x[1], x[2])]
<1>1. n \in Nat /\ m \in Nat
  OBVIOUS
<1>2. ASSUME NEW x \in S
      PROVE  /\ x[1] \in 0..n /\ x[2] \in 0..m /\ x = <<x[1], x[2]>>
             /\ rank[x] = (n - x[1]) + (m - x[2]) /\ rank[x] \in 0..n + m
  <2>1. x[1] \in 0..n /\ x[2] \in 0..m /\ x = <<x[1], x[2]>>
    OBVIOUS
  <2>2. (n - x[1]) + (m - x[2]) \in 0..n + m
    <3>. HIDE DEF n, m, S
    <3>. QED
      BY <1>1, <2>1
  <2>. QED
    BY <2>1, <2>2
<1>. HIDE DEF n, m
<1>3. Delta \in [[S -> T] -> [S -> T]]
  <2>. SUFFICES ASSUME NEW g \in [S -> T], NEW x \in S
                PROVE  MatchStep(g, s, p, x[1], x[2]) \in T
    BY Zenon
  <2>1. ASSUME x[1] < n, x[2] < m
        PROVE  <<x[1], x[2] + 1>> \in S /\ <<x[1] + 1, x[2]>> \in S /\ <<x[1] + 1, x[2] + 1>> \in S
    BY <1>1, <1>2, <2>1
  <2>2. ASSUME x[1] < n, x[2] < m
        PROVE  /\ g[<<x[1], x[2] + 1>>] \in BOOLEAN
               /\ g[<<x[1] + 1, x[2]>>] \in BOOLEAN
               /\ g[<<x[1] + 1, x[2] + 1>>] \in BOOLEAN
    <3>. HIDE DEF S
    <3>. QED
      BY <2>1, <2>2
  <2>. QED
    BY <2>2, Zenon DEF MatchStep, n, m
<1>4. LooksDown(Delta, rank, n + m, S, T)
  <2>1. \A g, h \in [S -> T] : \A x \in S :
          (\A y \in S : rank[y] < rank[x] => g[y] = h[y]) => Delta[g][x] = Delta[h][x]
    <3>. TAKE g, h \in [S -> T]
    <3>. TAKE x \in S
    <3>. HAVE \A y \in S : rank[y] < rank[x] => g[y] = h[y]
    <3>1. ASSUME NEW a \in 0..n, NEW b \in 0..m, (n - a) + (m - b) < (n - x[1]) + (m - x[2])
          PROVE  g[<<a, b>>] = h[<<a, b>>]
      <4>1. <<a, b>> \in S /\ rank[<<a, b>>] = (n - a) + (m - b)
        BY <1>1
      <4>2. rank[<<a, b>>] < rank[x]
        BY <1>2, <3>1, <4>1
      <4>. HIDE DEF rank, S
      <4>. QED
        BY <4>1, <4>2
    <3>2. ASSUME x[1] < n, x[2] < m
          PROVE  /\ g[<<x[1], x[2] + 1>>] = h[<<x[1], x[2] + 1>>]
                 /\ g[<<x[1] + 1, x[2]>>] = h[<<x[1] + 1, x[2]>>]
                 /\ g[<<x[1] + 1, x[2] + 1>>] = h[<<x[1] + 1, x[2] + 1>>]
      <4>1. x[1] \in 0..n /\ x[2] \in 0..m
        BY <1>2
      <4>2. PICK a \in 0..n, b \in 0..m : a = x[1] /\ b = x[2]
        BY <4>1
      <4>3. a + 1 \in 0..n /\ b + 1 \in 0..m
        BY <1>1, <3>2, <4>2
      <4>4. /\ (n - a) + (m - (b + 1)) < (n - a) + (m - b)
            /\ (n - (a + 1)) + (m - b) < (n - a) + (m - b)
            /\ (n - (a + 1)) + (m - (b + 1)) < (n - a) + (m - b)
        BY <1>1
      <4>. QED
        BY <3>1, <4>2, <4>3, <4>4
    <3>3. MatchStep(g, s, p, x[1], x[2]) = MatchStep(h, s, p, x[1], x[2])
      BY <3>2, Zenon DEF MatchStep, n, m
    <3>. QED
      BY <3>3, Zenon
  <2>2. T # {} /\ n + m \in Nat
    <3>1. TRUE \in T
      OBVIOUS
    <3>2. n + m \in Nat
      BY <1>1
    <3>. QED
      BY <3>1, <3>2, Zenon
  <2>3. rank \in [S -> 0..n + m]
    <3>1. \A x \in S : (n - x[1]) + (m - x[2]) \in 0..n + m
      BY <1>2
    <3>. QED
      BY <3>1, Zenon
  <2>. HIDE DEF Delta, rank, S, T
  <2>. QED
    BY <1>3, <2>1, <2>2, <2>3 DEF LooksDown
<1>5. PICK f \in [S -> T] : f = Delta[f]
  <2>. HIDE DEF Delta, rank, S, T
  <2>. QED
    BY <1>4, RecursiveFunction
<1>6. Good(f)
  BY <1>5, Zenon DEF n, m
<1>7. MatchFrom(s, p) = CHOOSE g : Good(g)
  BY Zenon DEF MatchFrom, MatchStep
<1>8. Good(MatchFrom(s, p))
  <2>. HIDE DEF Good
  <2>. QED
    BY <1>6, <1>7, Zenon
<1>9. <<i, j>> \in (0..Len(s)) \X (0..Len(p)) /\ <<i, j>>[1] = i /\ <<i, j>>[2] = j
  OBVIOUS
<1>10. MatchFrom(s, p)[<<i, j>>] = MatchStep(MatchFrom(s, p), s, p, <<i, j>>[1], <<i, j>>[2])
  BY <1>8, <1>9, Zenon
<1>11. MatchStep(MatchFrom(s, p), s, p, i, j) \in BOOLEAN
  BY Zenon DEF MatchStep
<1>. QED
  BY <1>9, <1>10, <1>11, Zenon

\* A pattern from position j on cuts the text from position i on.
Piece(s, q, k, a, b) ==
  IF q[k] = "*" THEN b >= a ELSE b = a + 1 /\ q[k] \in {"?", s[b]}

Cuts(s, q, i, j, cut) ==
  /\ cut[j] = i /\ cut[Len(q)] = Len(s)
  /\ \A k \in j + 1..Len(q) : Piece(s, q, k, cut[k - 1], cut[k])

GlobsFrom(s, q, i, j) ==
  \E cut \in [j..Len(q) -> 0..Len(s)] : Cuts(s, q, i, j, cut)

\* The first character of a pattern takes its piece, the others the rest.
LEMMA GlobsStep ==
  ASSUME NEW C, NEW s \in Seq(C), NEW q \in Seq(C),
         NEW i \in 0..Len(s), NEW j \in 0..Len(q) - 1
  PROVE  GlobsFrom(s, q, i, j) <=>
           \E b \in 0..Len(s) : Piece(s, q, j + 1, i, b) /\ GlobsFrom(s, q, b, j + 1)
<1>. DEFINE n == Len(s)
            m == Len(q)
<1>0. n \in Nat /\ m \in Nat /\ j \in Nat /\ j + 1 \in Nat /\ j + 1 <= m
  OBVIOUS
<1>1. ASSUME GlobsFrom(s, q, i, j)
      PROVE  \E b \in 0..n : Piece(s, q, j + 1, i, b) /\ GlobsFrom(s, q, b, j + 1)
  <2>1. PICK cut \in [j..m -> 0..n] : Cuts(s, q, i, j, cut)
    BY <1>1 DEF GlobsFrom
  <2>. DEFINE rest == [k \in j + 1..m |-> cut[k]]
              b == cut[j + 1]
  <2>2. b \in 0..n /\ rest \in [j + 1..m -> 0..n]
    BY <1>0
  <2>3. Piece(s, q, j + 1, i, b)
    <3>1. j + 1 \in j + 1..m /\ (j + 1) - 1 = j
      BY <1>0
    <3>. QED
      BY <2>1, <3>1 DEF Cuts
  <2>4. Cuts(s, q, b, j + 1, rest)
    <3>1. rest[j + 1] = b /\ rest[m] = n
      BY <1>0, <2>1 DEF Cuts
    <3>2. ASSUME NEW k \in (j + 1) + 1..m PROVE Piece(s, q, k, rest[k - 1], rest[k])
      <4>1. k \in j + 1..m /\ k - 1 \in j + 1..m
        BY <1>0
      <4>2. Piece(s, q, k, cut[k - 1], cut[k])
        BY <2>1, <4>1 DEF Cuts
      <4>3. rest[k] = cut[k] /\ rest[k - 1] = cut[k - 1]
        BY <4>1
      <4>. QED
        BY <4>2, <4>3, Zenon
    <3>. HIDE DEF rest, b
    <3>. QED
      BY <3>1, <3>2 DEF Cuts
  <2>. HIDE DEF rest, b
  <2>. QED
    BY <2>2, <2>3, <2>4 DEF GlobsFrom
<1>2. ASSUME NEW b \in 0..n, Piece(s, q, j + 1, i, b), GlobsFrom(s, q, b, j + 1)
      PROVE  GlobsFrom(s, q, i, j)
  <2>1. PICK rest \in [j + 1..m -> 0..n] : Cuts(s, q, b, j + 1, rest)
    BY <1>2 DEF GlobsFrom
  <2>. DEFINE cut == [k \in j..m |-> IF k = j THEN i ELSE rest[k]]
  <2>2. cut \in [j..m -> 0..n]
    BY <1>0
  <2>3. cut[j] = i /\ \A k \in j + 1..m : cut[k] = rest[k]
    BY <1>0
  <2>4. cut[m] = n
    BY <1>0, <2>1, <2>3 DEF Cuts
  <2>5. ASSUME NEW k \in j + 1..m PROVE Piece(s, q, k, cut[k - 1], cut[k])
    <3>1. CASE k = j + 1
      <4>1. k - 1 = j /\ k \in j + 1..m
        BY <1>0, <3>1
      <4>2. cut[k - 1] = i /\ cut[k] = b
        BY <2>1, <2>3, <3>1, <4>1 DEF Cuts
      <4>. HIDE DEF cut
      <4>. QED
        BY <1>2, <3>1, <4>2, Zenon
    <3>2. CASE k # j + 1
      <4>1. k \in (j + 1) + 1..m /\ k - 1 \in j + 1..m
        BY <1>0, <3>2
      <4>2. Piece(s, q, k, rest[k - 1], rest[k])
        BY <2>1, <4>1 DEF Cuts
      <4>3. cut[k] = rest[k] /\ cut[k - 1] = rest[k - 1]
        BY <2>3, <4>1
      <4>. HIDE DEF cut
      <4>. QED
        BY <4>2, <4>3, Zenon
    <3>. QED
      BY <3>1, <3>2
  <2>. HIDE DEF cut
  <2>6. Cuts(s, q, i, j, cut)
    BY <2>3, <2>4, <2>5 DEF Cuts
  <2>. QED
    BY <2>2, <2>6 DEF GlobsFrom
<1>. QED
  BY <1>1, <1>2

\* The empty rest of a pattern takes the empty rest of the text.
LEMMA GlobsEnd ==
  ASSUME NEW C, NEW s \in Seq(C), NEW q \in Seq(C), NEW i \in 0..Len(s)
  PROVE  GlobsFrom(s, q, i, Len(q)) <=> i = Len(s)
<1>. DEFINE m == Len(q)
            cut == [k \in m..m |-> i]
<1>0. m \in Nat /\ m + 1..m = {} /\ m \in m..m
  OBVIOUS
<1>1. cut \in [m..m -> 0..Len(s)] /\ cut[m] = i
  BY <1>0
<1>2. ASSUME i = Len(s) PROVE Cuts(s, q, i, m, cut)
  BY <1>0, <1>1, <1>2 DEF Cuts
<1>3. ASSUME GlobsFrom(s, q, i, m) PROVE i = Len(s)
  BY <1>3 DEF GlobsFrom, Cuts
<1>. QED
  BY <1>1, <1>2, <1>3 DEF GlobsFrom

LEMMA GlobsWhole ==
  ASSUME NEW C, NEW s \in Seq(C), NEW q \in Seq(C)
  PROVE  Globs(s, q) <=> GlobsFrom(s, q, 0, 0)
<1>1. 0 + 1 = 1
  OBVIOUS
<1>2. \A cut : Cuts(s, q, 0, 0, cut) <=>
        /\ cut[0] = 0 /\ cut[Len(q)] = Len(s)
        /\ \A j \in 1..Len(q) :
             IF q[j] = "*" THEN cut[j] >= cut[j - 1]
             ELSE cut[j] = cut[j - 1] + 1 /\ q[j] \in {"?", s[cut[j]]}
  BY <1>1, Zenon DEF Cuts, Piece
<1>. QED
  BY <1>2, Zenon DEF Globs, GlobsFrom

\* A star takes nothing, or one character more.
LEMMA GlobsStar ==
  ASSUME NEW C, NEW s \in Seq(C), NEW q \in Seq(C),
         NEW i \in 0..Len(s), NEW j \in 0..Len(q) - 1, q[j + 1] = "*"
  PROVE  /\ i < Len(s) =>
              (GlobsFrom(s, q, i, j) <=> GlobsFrom(s, q, i, j + 1) \/ GlobsFrom(s, q, i + 1, j))
         /\ i = Len(s) => (GlobsFrom(s, q, i, j) <=> GlobsFrom(s, q, i, j + 1))
         /\ j + 1 = Len(q) => GlobsFrom(s, q, i, j)
<1>0. Len(s) \in Nat /\ Len(q) \in Nat
  OBVIOUS
<1>1. ASSUME NEW k \in 0..Len(s)
      PROVE  GlobsFrom(s, q, k, j) <=> \E b \in 0..Len(s) : b >= k /\ GlobsFrom(s, q, b, j + 1)
  BY GlobsStep DEF Piece
<1>2. ASSUME i < Len(s)
      PROVE  GlobsFrom(s, q, i, j) <=> GlobsFrom(s, q, i, j + 1) \/ GlobsFrom(s, q, i + 1, j)
  <2>1. i + 1 \in 0..Len(s)
    BY <1>0, <1>2
  <2>2. \A b \in 0..Len(s) : b >= i <=> b = i \/ b >= i + 1
    BY <1>0
  <2>. QED
    BY <1>1, <2>1, <2>2
<1>3. ASSUME i = Len(s)
      PROVE  GlobsFrom(s, q, i, j) <=> GlobsFrom(s, q, i, j + 1)
  <2>1. \A b \in 0..Len(s) : b >= i <=> b = i
    BY <1>0, <1>3
  <2>. QED
    BY <1>1, <2>1
<1>4. ASSUME j + 1 = Len(q) PROVE GlobsFrom(s, q, i, j)
  <2>1. Len(s) \in 0..Len(s) /\ Len(s) >= i
    BY <1>0
  <2>2. GlobsFrom(s, q, Len(s), j + 1)
    BY <1>4, <2>1, GlobsEnd
  <2>. QED
    BY <1>1, <2>1, <2>2
<1>. QED
  BY <1>0, <1>2, <1>3, <1>4

\* Any other character takes one.
LEMMA GlobsPlain ==
  ASSUME NEW C, NEW s \in Seq(C), NEW q \in Seq(C),
         NEW i \in 0..Len(s), NEW j \in 0..Len(q) - 1, q[j + 1] # "*"
  PROVE  /\ i < Len(s) =>
              (GlobsFrom(s, q, i, j) <=>
                 q[j + 1] \in {"?", s[i + 1]} /\ GlobsFrom(s, q, i + 1, j + 1))
         /\ i = Len(s) => ~GlobsFrom(s, q, i, j)
<1>0. Len(s) \in Nat /\ Len(q) \in Nat
  OBVIOUS
<1>1. GlobsFrom(s, q, i, j) <=>
        \E b \in 0..Len(s) : b = i + 1 /\ q[j + 1] \in {"?", s[b]} /\ GlobsFrom(s, q, b, j + 1)
  BY GlobsStep DEF Piece
<1>2. CASE i < Len(s)
  <2>1. i + 1 \in 0..Len(s)
    BY <1>0, <1>2
  <2>. QED
    BY <1>0, <1>1, <1>2, <2>1
<1>3. CASE i = Len(s)
  <2>1. i + 1 \notin 0..Len(s)
    BY <1>0, <1>3
  <2>. QED
    BY <1>0, <1>1, <1>3, <2>1
<1>. QED
  BY <1>0, <1>2, <1>3

\* A pattern with a character other than a star needs some text.
LEMMA GlobsNeeds ==
  ASSUME NEW C, NEW s \in Seq(C), NEW q \in Seq(C), NEW k \in 1..Len(q), q[k] # "*"
  PROVE  \A j \in 0..k - 1 : ~GlobsFrom(s, q, Len(s), j)
<1>. DEFINE n == Len(s)
            Fine == {d \in Nat : d < k => ~GlobsFrom(s, q, n, k - 1 - d)}
<1>0. n \in 0..Len(s) /\ Len(q) \in Nat
  OBVIOUS
<1>1. ASSUME NEW d \in Nat, \A e \in Nat : e < d => e \in Fine, d < k
      PROVE  ~GlobsFrom(s, q, n, k - 1 - d)
  <2>. DEFINE j == k - 1 - d
  <2>0. j \in 0..Len(q) - 1 /\ j \in 0..k - 1
    BY <1>0, <1>1
  <2>1. ASSUME q[j + 1] # "*" PROVE ~GlobsFrom(s, q, n, j)
    <3>. HIDE DEF j
    <3>. QED
      BY <1>0, <2>0, <2>1, GlobsPlain
  <2>2. ASSUME q[j + 1] = "*" PROVE ~GlobsFrom(s, q, n, j)
    <3>1. d # 0
      BY <1>0, <2>2
    <3>2. d - 1 \in Nat /\ d - 1 < d /\ d - 1 < k /\ k - 1 - (d - 1) = j + 1
      BY <1>1, <3>1
    <3>3. ~GlobsFrom(s, q, n, k - 1 - (d - 1))
      BY <1>1, <3>2
    <3>4. ~GlobsFrom(s, q, n, j + 1)
      BY <3>2, <3>3
    <3>. HIDE DEF j
    <3>. QED
      BY <1>0, <2>0, <2>2, <3>4, GlobsStar
  <2>. QED
    BY <2>1, <2>2
<1>2. Nat \subseteq Fine
  <2>. SUFFICES ASSUME NEW d \in Nat, \A e \in Nat : e < d => e \in Fine PROVE d \in Fine
    <3>. HIDE DEF Fine
    <3>. QED
      BY AllNumbers
  <2>. QED
    BY <1>1
<1>3. ASSUME NEW j \in 0..k - 1 PROVE ~GlobsFrom(s, q, Len(s), j)
  <2>1. k - 1 - j \in Nat /\ k - 1 - j < k /\ k - 1 - (k - 1 - j) = j
    OBVIOUS
  <2>. QED
    BY <1>2, <2>1
<1>. QED
  BY <1>3

\* The greatest number of a set that has a bound.
LEMMA GreatestNumber ==
  ASSUME NEW n \in Nat, NEW T, T \subseteq 0..n, T # {}
  PROVE  Max(T) \in T /\ \A y \in T : y <= Max(T)
<1>. DEFINE Gaps == {d \in Nat : n - d \in T}
            Top(x) == \A y \in T : x >= y
<1>1. Gaps # {} /\ Gaps \subseteq Nat
  <2>1. PICK x \in T : TRUE
    OBVIOUS
  <2>2. n - x \in Nat /\ n - (n - x) = x
    OBVIOUS
  <2>. QED
    BY <2>2
<1>2. PICK d \in Gaps : \A e \in Gaps : d <= e
  <2>. HIDE DEF Gaps
  <2>. QED
    BY <1>1, LeastNumber
<1>3. n - d \in T /\ Top(n - d)
  <2>1. ASSUME NEW y \in T PROVE n - d >= y
    <3>1. n - y \in Gaps
      OBVIOUS
    <3>2. d <= n - y /\ d \in Nat
      BY <1>2, <3>1
    <3>. QED
      BY <3>2
  <2>. QED
    BY <1>2, <2>1
<1>4. Max(T) = CHOOSE x \in T : Top(x)
  BY DEF Max
<1>5. Max(T) \in T /\ Top(Max(T))
  <2>. HIDE DEF Top
  <2>. QED
    BY <1>3, <1>4, Zenon
<1>. QED
  BY <1>5

\* What is behind the last character that is not a star.
PlainEnd(p) ==
  LET plain == {i \in 1..Len(p) : p[i] # "*"}
  IN  IF plain = {} THEN 0 ELSE Max(plain)

LEMMA PlainEndRight ==
  ASSUME NEW C, NEW p \in Seq(C)
  PROVE  /\ PlainEnd(p) \in 0..Len(p)
         /\ PlainEnd(p) # 0 => p[PlainEnd(p)] # "*"
         /\ \A k \in PlainEnd(p) + 1..Len(p) : p[k] = "*"
<1>. DEFINE plain == {i \in 1..Len(p) : p[i] # "*"}
<1>0. Len(p) \in Nat /\ plain \subseteq 0..Len(p)
  OBVIOUS
<1>1. CASE plain = {}
  <2>1. PlainEnd(p) = 0
    BY <1>1 DEF PlainEnd
  <2>. QED
    BY <1>0, <1>1, <2>1
<1>2. CASE plain # {}
  <2>1. Max(plain) \in plain /\ \A y \in plain : y <= Max(plain)
    <3>. HIDE DEF plain
    <3>. QED
      BY <1>0, <1>2, GreatestNumber
  <2>2. PlainEnd(p) = Max(plain)
    BY <1>2, Zenon DEF PlainEnd
  <2>3. PlainEnd(p) \in plain /\ \A y \in plain : y <= PlainEnd(p)
    BY <2>1, <2>2, Zenon
  <2>. QED
    BY <1>0, <2>3
<1>. QED
  BY <1>1, <1>2

\* As far as two patterns agree, match decides for the one what a cut decides for
\* the other, if it does so behind that and at the end of the text.
LEMMA MatchAgrees ==
  ASSUME NEW C, NEW s \in Seq(C), NEW p \in Seq(C), NEW q \in Seq(C),
         NEW e \in 0..Len(p), e <= Len(q),
         \A j \in 1..e : q[j] = p[j],
         \A i \in 0..Len(s) : MatchFrom(s, p)[<<i, e>>] <=> GlobsFrom(s, q, i, e),
         \A j \in 0..e - 1 : j + 1 = Len(p) => j + 1 = Len(q),
         \A j \in 0..e - 1 : ~(j + 1 = Len(p) /\ p[j + 1] = "*") => ~GlobsFrom(s, q, Len(s), j)
  PROVE  \A i \in 0..Len(s), j \in 0..e : MatchFrom(s, p)[<<i, j>>] <=> GlobsFrom(s, q, i, j)
<1>. DEFINE n == Len(s)
            M(i, j) == MatchFrom(s, p)[<<i, j>>]
            G(i, j) == GlobsFrom(s, q, i, j)
            Fine == {d \in Nat : \A i \in 0..n, j \in 0..e :
                                   (n - i) + (e - j) = d => (M(i, j) <=> G(i, j))}
<1>0. n \in Nat /\ Len(p) \in Nat /\ Len(q) \in Nat /\ e \in Nat /\ e <= Len(p)
  OBVIOUS
<1>1. ASSUME NEW d \in Nat, \A c \in Nat : c < d => c \in Fine,
             NEW i \in 0..n, NEW j \in 0..e, (n - i) + (e - j) = d
      PROVE  M(i, j) <=> G(i, j)
  <2>1. CASE j = e
    BY <2>1
  <2>2. CASE j # e
    <3>0. /\ i \in 0..Len(s) /\ j \in 0..Len(p) /\ j \in 0..Len(q) - 1 /\ j \in 0..e - 1
          /\ j < Len(p) /\ j + 1 \in 0..e /\ j + 1 \in 1..e
      BY <1>0, <2>2
    <3>1. M(i, j) = MatchStep(MatchFrom(s, p), s, p, i, j)
      <4>. HIDE DEF n
      <4>. QED
        BY <3>0, MatchUnfolds
    <3>2. At(p, j) = p[j + 1] /\ q[j + 1] = p[j + 1] /\ At(s, i) = s[i + 1]
      BY <3>0 DEF At
    <3>3. ASSUME i < n
          PROVE  /\ i + 1 \in 0..n
                 /\ M(i, j + 1) <=> G(i, j + 1)
                 /\ M(i + 1, j) <=> G(i + 1, j)
                 /\ M(i + 1, j + 1) <=> G(i + 1, j + 1)
      <4>1. i + 1 \in 0..n
        BY <1>0, <3>3
      <4>2. ASSUME NEW a \in 0..n, NEW b \in 0..e, (n - a) + (e - b) < d, (n - a) + (e - b) \in Nat
            PROVE  M(a, b) <=> G(a, b)
        <5>1. (n - a) + (e - b) \in Fine
          BY <1>1, <4>2
        <5>. QED
          BY <5>1
      <4>3. /\ (n - i) + (e - (j + 1)) < d /\ (n - i) + (e - (j + 1)) \in Nat
            /\ (n - (i + 1)) + (e - j) < d /\ (n - (i + 1)) + (e - j) \in Nat
            /\ (n - (i + 1)) + (e - (j + 1)) < d /\ (n - (i + 1)) + (e - (j + 1)) \in Nat
        BY <1>0, <1>1, <3>0, <4>1
      <4>. HIDE DEF M, G, n
      <4>. QED
        BY <3>0, <4>1, <4>2, <4>3
    <3>4. CASE j + 1 = Len(p) /\ p[j + 1] = "*"
      <4>1. M(i, j) = TRUE
        BY <3>1, <3>2, <3>4, Zenon DEF MatchStep
      <4>2. j + 1 = Len(q) /\ q[j + 1] = "*"
        BY <3>0, <3>2, <3>4
      <4>3. G(i, j)
        BY <3>0, <4>2, GlobsStar
      <4>. QED
        BY <4>1, <4>3
    <3>5. CASE ~(j + 1 = Len(p) /\ p[j + 1] = "*")
      <4>1. CASE i < n
        <5>1. CASE p[j + 1] = "*"
          <6>1. M(i, j) <=> M(i, j + 1) \/ M(i + 1, j)
            BY <3>0, <3>1, <3>2, <3>5, <4>1, <5>1, Zenon DEF MatchStep
          <6>2. G(i, j) <=> G(i, j + 1) \/ G(i + 1, j)
            BY <3>0, <3>2, <4>1, <5>1, GlobsStar
          <6>. HIDE DEF M, G, n
          <6>. QED
            BY <3>3, <4>1, <6>1, <6>2
        <5>2. CASE p[j + 1] # "*"
          <6>1. M(i, j) <=> p[j + 1] \in {"?", s[i + 1]} /\ M(i + 1, j + 1)
            BY <3>0, <3>1, <3>2, <4>1, <5>2, Zenon DEF MatchStep
          <6>2. G(i, j) <=> p[j + 1] \in {"?", s[i + 1]} /\ G(i + 1, j + 1)
            BY <3>0, <3>2, <4>1, <5>2, GlobsPlain
          <6>. HIDE DEF M, G, n
          <6>. QED
            BY <3>3, <4>1, <6>1, <6>2
        <5>. QED
          BY <5>1, <5>2
      <4>2. CASE ~(i < n)
        <5>1. i = n /\ j # Len(p)
          BY <1>0, <3>0, <4>2
        <5>2. M(i, j) <=> FALSE
          BY <3>0, <3>1, <3>2, <3>5, <4>2, <5>1, Zenon DEF MatchStep
        <5>3. ~G(i, j)
          BY <3>0, <3>5, <5>1
        <5>. QED
          BY <5>2, <5>3
      <4>. QED
        BY <4>1, <4>2
    <3>. QED
      BY <3>4, <3>5
  <2>. QED
    BY <2>1, <2>2
<1>2. Nat \subseteq Fine
  <2>. SUFFICES ASSUME NEW d \in Nat, \A c \in Nat : c < d => c \in Fine PROVE d \in Fine
    <3>. HIDE DEF Fine
    <3>. QED
      BY AllNumbers
  <2>. HIDE DEF M, G
  <2>. QED
    BY <1>1
<1>3. ASSUME NEW i \in 0..n, NEW j \in 0..e PROVE M(i, j) <=> G(i, j)
  <2>1. (n - i) + (e - j) \in Nat
    BY <1>0
  <2>2. (n - i) + (e - j) \in Fine
    BY <1>2, <2>1
  <2>. HIDE DEF M, G
  <2>. QED
    BY <2>2
<1>. QED
  BY <1>3

\* A pattern with one last star or none is taken for what it is.
LEMMA MatchOneStar ==
  ASSUME NEW C, NEW s \in Seq(C), NEW p \in Seq(C), Len(p) < PlainEnd(p) + 2
  PROVE  MatchFrom(s, p)[<<0, 0>>] <=> GlobsFrom(s, p, 0, 0)
<1>0. Len(s) \in Nat /\ Len(p) \in Nat /\ PlainEnd(p) \in 0..Len(p)
  BY PlainEndRight
<1>1. ASSUME NEW i \in 0..Len(s)
      PROVE  MatchFrom(s, p)[<<i, Len(p)>>] <=> GlobsFrom(s, p, i, Len(p))
  <2>1. Len(p) \in 0..Len(p) /\ Len(p) + 1 # Len(p) /\ ~(Len(p) < Len(p))
    BY <1>0
  <2>2. MatchFrom(s, p)[<<i, Len(p)>>] = MatchStep(MatchFrom(s, p), s, p, i, Len(p))
    BY <2>1, MatchUnfolds
  <2>3. MatchFrom(s, p)[<<i, Len(p)>>] <=> i = Len(s)
    BY <2>1, <2>2, Zenon DEF MatchStep
  <2>. QED
    BY <2>3, GlobsEnd
<1>2. ASSUME NEW j \in 0..Len(p) - 1, ~(j + 1 = Len(p) /\ p[j + 1] = "*")
      PROVE  ~GlobsFrom(s, p, Len(s), j)
  <2>1. CASE j + 1 = Len(p)
    <3>1. j + 1 \in 1..Len(p) /\ p[j + 1] # "*" /\ j \in 0..(j + 1) - 1
      BY <1>0, <1>2, <2>1
    <3>. QED
      BY <3>1, GlobsNeeds
  <2>2. CASE j + 1 # Len(p)
    <3>1. /\ PlainEnd(p) \in 1..Len(p) /\ PlainEnd(p) # 0
          /\ j \in 0..PlainEnd(p) - 1
      BY <1>0, <2>2
    <3>2. p[PlainEnd(p)] # "*"
      BY <3>1, PlainEndRight
    <3>. QED
      BY <3>1, <3>2, GlobsNeeds
  <2>. QED
    BY <2>1, <2>2
<1>3. 0 \in 0..Len(s) /\ 0 \in 0..Len(p) /\ Len(p) \in 0..Len(p) /\ Len(p) <= Len(p)
  BY <1>0
<1>4. \A i \in 0..Len(s), j \in 0..Len(p) : MatchFrom(s, p)[<<i, j>>] <=> GlobsFrom(s, p, i, j)
  BY <1>1, <1>2, <1>3, MatchAgrees
<1>. QED
  BY <1>3, <1>4

\* Behind the last plain character, where more than one star is left, match wants
\* one character more.
LEMMA MatchLastStars ==
  ASSUME NEW C, NEW s \in Seq(C), NEW p \in Seq(C), NEW e \in 0..Len(p) - 2,
         \A k \in e + 1..Len(p) : p[k] = "*"
  PROVE  \A i \in 0..Len(s) : MatchFrom(s, p)[<<i, e>>] <=> i < Len(s)
<1>. DEFINE n == Len(s)
            l == Len(p)
            M(i, j) == MatchFrom(s, p)[<<i, j>>]
            Fine == {d \in Nat : d <= l - 2 - e => \A i \in 0..n : M(i, l - 2 - d) <=> i < n}
<1>0. n \in Nat /\ l \in Nat /\ e \in Nat
  OBVIOUS
<1>1. ASSUME NEW d \in Nat, \A c \in Nat : c < d => c \in Fine, d <= l - 2 - e, NEW i \in 0..n
      PROVE  M(i, l - 2 - d) <=> i < n
  <2>. DEFINE j == l - 2 - d
  <2>0. /\ j \in 0..l /\ j + 1 \in 0..l /\ j + 1 # l /\ j < l /\ j # l
        /\ At(p, j) = "*"
    BY <1>0, <1>1 DEF At
  <2>1. M(i, j) = MatchStep(MatchFrom(s, p), s, p, i, j)
    <3>. HIDE DEF j
    <3>. QED
      BY <2>0, MatchUnfolds
  <2>2. ASSUME i < n PROVE M(i, j)
    <3>1. M(i, j + 1)
      <4>1. CASE d = 0
        <5>1. j + 1 + 1 = l /\ At(p, j + 1) = "*"
          BY <1>0, <1>1, <4>1 DEF At
        <5>2. M(i, j + 1) = MatchStep(MatchFrom(s, p), s, p, i, j + 1)
          <6>. HIDE DEF j
          <6>. QED
            BY <2>0, MatchUnfolds
        <5>. QED
          BY <5>1, <5>2, Zenon DEF MatchStep
      <4>2. CASE d # 0
        <5>1. d - 1 \in Nat /\ d - 1 < d /\ d - 1 <= l - 2 - e /\ l - 2 - (d - 1) = j + 1
          BY <1>0, <1>1, <4>2
        <5>2. d - 1 \in Fine
          BY <1>1, <5>1
        <5>3. M(i, l - 2 - (d - 1)) <=> i < n
          <6>. HIDE DEF M
          <6>. QED
            BY <5>1, <5>2
        <5>. HIDE DEF j, M
        <5>. QED
          BY <2>2, <5>1, <5>3
      <4>. QED
        BY <4>1, <4>2
    <3>. HIDE DEF j
    <3>. QED
      BY <2>0, <2>1, <2>2, <3>1, Zenon DEF MatchStep
  <2>3. ASSUME ~(i < n) PROVE ~M(i, j)
    <3>. HIDE DEF j
    <3>. QED
      BY <2>0, <2>1, <2>3, Zenon DEF MatchStep
  <2>. HIDE DEF M
  <2>. QED
    BY <2>2, <2>3
<1>2. Nat \subseteq Fine
  <2>. SUFFICES ASSUME NEW d \in Nat, \A c \in Nat : c < d => c \in Fine PROVE d \in Fine
    <3>. HIDE DEF Fine
    <3>. QED
      BY AllNumbers
  <2>. HIDE DEF M
  <2>. QED
    BY <1>1
<1>3. l - 2 - e \in Nat /\ l - 2 - e <= l - 2 - e /\ l - 2 - (l - 2 - e) = e
  BY <1>0
<1>4. \A i \in 0..n : M(i, l - 2 - (l - 2 - e)) <=> i < n
  <2>. HIDE DEF M
  <2>. QED
    BY <1>2, <1>3
<1>. QED
  BY <1>3, <1>4

\* A pattern that ends in more stars is taken for one that ends in ?*.
LEMMA MatchMoreStars ==
  ASSUME NEW C, "?" \in C, "*" \in C, NEW s \in Seq(C), NEW p \in Seq(C),
         NEW q \in Seq(C), NEW e \in 0..Len(p) - 2, e = PlainEnd(p),
         Len(q) = e + 2, q[e + 1] = "?", q[e + 2] = "*", \A j \in 1..e : q[j] = p[j]
  PROVE  MatchFrom(s, p)[<<0, 0>>] <=> GlobsFrom(s, q, 0, 0)
<1>0. /\ Len(s) \in Nat /\ Len(p) \in Nat /\ e \in Nat /\ e \in 0..Len(p) /\ e <= Len(q)
      /\ 0 \in 0..Len(s) /\ 0 \in 0..e
  OBVIOUS
<1>1. ASSUME NEW i \in 0..Len(s)
      PROVE  MatchFrom(s, p)[<<i, e>>] <=> GlobsFrom(s, q, i, e)
  <2>1. MatchFrom(s, p)[<<i, e>>] <=> i < Len(s)
    BY MatchLastStars, PlainEndRight
  <2>2. ASSUME NEW k \in 0..Len(s) PROVE GlobsFrom(s, q, k, e + 1)
    <3>1. e + 1 \in 0..Len(q) - 1 /\ (e + 1) + 1 = Len(q) /\ q[(e + 1) + 1] = "*"
      BY <1>0
    <3>. QED
      BY <3>1, GlobsStar
  <2>3. e \in 0..Len(q) - 1 /\ q[e + 1] # "*" /\ (i < Len(s) => i + 1 \in 0..Len(s))
    BY <1>0
  <2>4. GlobsFrom(s, q, i, e) <=> i < Len(s)
    BY <1>0, <2>2, <2>3, GlobsPlain
  <2>. QED
    BY <2>1, <2>4
<1>2. \A j \in 0..e - 1 : ~GlobsFrom(s, q, Len(s), j)
  <2>1. e + 1 \in 1..Len(q) /\ q[e + 1] # "*" /\ \A j \in 0..e - 1 : j \in 0..(e + 1) - 1
    BY <1>0
  <2>. QED
    BY <2>1, GlobsNeeds
<1>3. \A j \in 0..e - 1 : j + 1 # Len(p)
  BY <1>0
<1>4. \A i \in 0..Len(s), j \in 0..e : MatchFrom(s, p)[<<i, j>>] <=> GlobsFrom(s, q, i, j)
  BY <1>0, <1>1, <1>2, <1>3, MatchAgrees
<1>. QED
  BY <1>0, <1>4

\* match decides whether the pattern with one more character at its end cuts the text in pieces
\* (fastring.cc:211-225), whatever characters the two are made of.
THEOREM MatchRight ==
  ASSUME NEW C, NEW s \in Seq(C), NEW p \in Seq(C)
  PROVE  Match(s, p) = Globs(s, OneMore(p))
<1>. DEFINE D == C \cup {"?", "*"}
            e == PlainEnd(p)
            q == SubSeq(p, 1, e) \o <<"?", "*">>
<1>0. /\ s \in Seq(D) /\ p \in Seq(D) /\ "?" \in D /\ "*" \in D
      /\ Len(s) \in Nat /\ Len(p) \in Nat /\ 0 \in 0..Len(s) /\ 0 \in 0..Len(p)
  OBVIOUS
<1>. HIDE DEF D
<1>1. e \in 0..Len(p)
  BY PlainEndRight
<1>2. Match(s, p) \in BOOLEAN
  BY <1>0, MatchUnfolds DEF Match
<1>3. Globs(s, OneMore(p)) \in BOOLEAN
  BY Zenon DEF Globs
<1>4. OneMore(p) = IF Len(p) < e + 2 THEN p ELSE q
  BY Zenon DEF OneMore, PlainEnd
<1>5. CASE Len(p) < e + 2
  <2>1. Match(s, p) <=> GlobsFrom(s, p, 0, 0)
    BY <1>5, MatchOneStar DEF Match
  <2>2. Match(s, p) <=> Globs(s, OneMore(p))
    BY <1>4, <1>5, <2>1, GlobsWhole
  <2>. QED
    BY <1>2, <1>3, <2>2
<1>6. CASE ~(Len(p) < e + 2)
  <2>1. e \in 0..Len(p) - 2
    BY <1>0, <1>1, <1>6
  <2>2. /\ SubSeq(p, 1, e) \in Seq(D) /\ Len(SubSeq(p, 1, e)) = e
        /\ \A j \in 1..e : SubSeq(p, 1, e)[j] = p[j]
    <3>. HIDE DEF e
    <3>1. e \in Nat /\ 0 + e <= Len(p) /\ 0 + 1 = 1 /\ 0 + e = e /\ \A d \in 1..e : 0 + d = d
      BY <1>0, <2>1
    <3>. QED
      BY <1>0, <3>1, PartOf DEF Part
  <2>3. /\ q \in Seq(D) /\ Len(q) = e + 2 /\ q[e + 1] = "?" /\ q[e + 2] = "*"
        /\ \A j \in 1..e : q[j] = p[j]
    <3>1. ASSUME NEW a \in Seq(D), Len(a) = e, NEW b \in Seq(D), b = <<"?", "*">>
          PROVE  /\ a \o b \in Seq(D) /\ Len(a \o b) = e + 2
                 /\ (a \o b)[e + 1] = "?" /\ (a \o b)[e + 2] = "*"
                 /\ \A j \in 1..e : (a \o b)[j] = a[j]
      <4>. HIDE DEF e
      <4>. QED
        BY <1>0, <2>1, <3>1
    <3>2. <<"?", "*">> \in Seq(D)
      BY <1>0
    <3>. HIDE DEF e
    <3>. QED
      BY <2>2, <3>1, <3>2
  <2>4. Match(s, p) <=> GlobsFrom(s, q, 0, 0)
    <3>. HIDE DEF e, q
    <3>1. e = PlainEnd(p)
      BY DEF e
    <3>. QED
      BY <1>0, <2>1, <2>3, <3>1, MatchMoreStars DEF Match
  <2>5. Match(s, p) <=> Globs(s, OneMore(p))
    <3>. HIDE DEF e, q
    <3>. QED
      BY <1>0, <1>4, <1>6, <2>3, <2>4, GlobsWhole
  <2>. QED
    BY <1>2, <1>3, <2>5
<1>. QED
  BY <1>5, <1>6

-----------------------------------------------------------------------------
\* split.

LEMMA LeastOf ==
  ASSUME NEW T, T \subseteq Nat, T # {}
  PROVE  Min(T) \in T /\ \A y \in T : Min(T) <= y
<1>. DEFINE Low(x) == \A y \in T : x <= y
<1>1. PICK x \in T : Low(x)
  BY LeastNumber
<1>2. Min(T) = CHOOSE z \in T : Low(z)
  BY DEF Min
<1>. HIDE DEF Low
<1>3. Min(T) \in T /\ Low(Min(T))
  BY <1>1, <1>2, Zenon
<1>. QED
  BY <1>3 DEF Low

\* The recursion of split, unfolded once.
SplitStep(g, s, c, i) ==
  LET ends == {k \in i..Len(s) - 1 : At(s, k) = c}
  IN  IF ends # {} THEN <<Part(s, i, Min(ends))>> \o g[Min(ends) + 1]
      ELSE IF i < Len(s) THEN <<Part(s, i, Len(s))>> ELSE <<>>

LEMMA PieceBetween ==
  ASSUME NEW C, NEW s \in Seq(C), NEW i \in 0..Len(s), NEW e \in i..Len(s)
  PROVE  /\ Part(s, i, e) \in Seq(C) /\ Len(Part(s, i, e)) = e - i
         /\ \A d \in 1..e - i : Part(s, i, e)[d] = s[i + d]
<1>1. \A l \in Nat : i + l <= Len(s) =>
        /\ Part(s, i, i + l) \in Seq(C) /\ Len(Part(s, i, i + l)) = l
        /\ \A d \in 1..l : Part(s, i, i + l)[d] = s[i + d]
  <2>1. i \in Nat
    OBVIOUS
  <2>. QED
    BY <2>1, PartOf, Zenon
<1>2. e - i \in Nat /\ i + (e - i) = e /\ e <= Len(s)
  OBVIOUS
<1>. QED
  BY <1>1, <1>2, Zenon

LEMMA SplitUnfolds ==
  ASSUME NEW C, NEW s \in Seq(C), NEW c, NEW i \in 0..Len(s)
  PROVE  /\ SplitFrom(s, c)[i] \in Seq(Seq(C))
         /\ SplitFrom(s, c)[i] = SplitStep(SplitFrom(s, c), s, c, i)
<1>. DEFINE n == Len(s)
            S == 0..n
            T == Seq(Seq(C))
            Ends(k) == {l \in k..Len(s) - 1 : At(s, l) = c}
            Delta == [g \in [S -> T] |-> [k \in S |-> SplitStep(g, s, c, k)]]
            rank == [k \in S |-> n - k]
            Good(f) == f = [k \in 0..Len(s) |-> SplitStep(f, s, c, k)]
<1>1. n \in Nat
  OBVIOUS
<1>2. ASSUME NEW k \in S, Ends(k) # {}
      PROVE  Min(Ends(k)) \in k..n - 1 /\ Min(Ends(k)) + 1 \in S
  <2>1. Ends(k) \subseteq Nat
    BY <1>1
  <2>2. Min(Ends(k)) \in Ends(k)
    <3>. HIDE DEF Ends
    <3>. QED
      BY <1>2, <2>1, LeastOf
  <2>. QED
    BY <1>1, <2>2
<1>3. ASSUME NEW g, NEW k \in S, Ends(k) # {} => g[Min(Ends(k)) + 1] \in T
      PROVE  SplitStep(g, s, c, k) \in T
  <2>1. CASE Ends(k) # {}
    <3>1. Part(s, k, Min(Ends(k))) \in Seq(C)
      <4>1. k \in 0..Len(s) /\ Min(Ends(k)) \in k..Len(s)
        BY <1>1, <1>2, <2>1
      <4>. HIDE DEF Ends
      <4>. QED
        BY <4>1, PieceBetween
    <3>2. g[Min(Ends(k)) + 1] \in T
      BY <1>3, <2>1, Zenon
    <3>3. \A x \in Seq(C), y \in T : <<x>> \o y \in T
      OBVIOUS
    <3>4. SplitStep(g, s, c, k) = <<Part(s, k, Min(Ends(k)))>> \o g[Min(Ends(k)) + 1]
      BY <2>1, Zenon DEF SplitStep
    <3>. QED
      BY <3>1, <3>2, <3>3, <3>4, Zenon
  <2>2. CASE Ends(k) = {}
    <3>1. Part(s, k, Len(s)) \in Seq(C)
      BY <1>1, PieceBetween
    <3>2. SplitStep(g, s, c, k) = IF k < Len(s) THEN <<Part(s, k, Len(s))>> ELSE <<>>
      BY <2>2, Zenon DEF SplitStep
    <3>3. \A x \in Seq(C) : <<x>> \in T /\ <<>> \in T
      OBVIOUS
    <3>. QED
      BY <3>1, <3>2, <3>3, Zenon
  <2>. QED
    BY <2>1, <2>2
<1>4. Delta \in [[S -> T] -> [S -> T]]
  <2>. HIDE DEF Ends, T, S
  <2>. QED
    BY <1>2, <1>3, Zenon
<1>5. LooksDown(Delta, rank, n, S, T)
  <2>1. \A g, h \in [S -> T] : \A x \in S :
          (\A y \in S : rank[y] < rank[x] => g[y] = h[y]) => Delta[g][x] = Delta[h][x]
    <3>. TAKE g, h \in [S -> T]
    <3>. TAKE x \in S
    <3>. HAVE \A y \in S : rank[y] < rank[x] => g[y] = h[y]
    <3>1. Ends(x) # {} => g[Min(Ends(x)) + 1] = h[Min(Ends(x)) + 1]
      <4>. HAVE Ends(x) # {}
      <4>1. PICK e \in x..n - 1 : e = Min(Ends(x)) /\ e + 1 \in S
        BY <1>2
      <4>2. rank[e + 1] < rank[x]
        BY <1>1, <4>1
      <4>. HIDE DEF Ends, rank
      <4>. QED
        BY <4>1, <4>2
    <3>2. SplitStep(g, s, c, x) = SplitStep(h, s, c, x)
      BY <3>1, Zenon DEF SplitStep
    <3>. QED
      BY <3>2, Zenon
  <2>2. T # {}
    <3>1. <<>> \in T
      OBVIOUS
    <3>. QED
      BY <3>1, Zenon
  <2>3. rank \in [S -> 0..n]
    <3>1. \A k \in S : n - k \in 0..n
      BY <1>1
    <3>. QED
      BY <3>1, Zenon
  <2>. HIDE DEF Delta, rank, S, T, n
  <2>. QED
    BY <1>1, <1>4, <2>1, <2>2, <2>3 DEF LooksDown
<1>6. PICK f \in [S -> T] : f = Delta[f]
  <2>. HIDE DEF Delta, rank, S, T, n
  <2>. QED
    BY <1>5, RecursiveFunction
<1>7. Good(f)
  BY <1>6, Zenon
<1>8. SplitFrom(s, c) = CHOOSE g : Good(g)
  BY Zenon DEF SplitFrom, SplitStep
<1>9. Good(SplitFrom(s, c))
  <2>. HIDE DEF Good
  <2>. QED
    BY <1>7, <1>8, Zenon
<1>10. \A k \in S : SplitFrom(s, c)[k] = SplitStep(SplitFrom(s, c), s, c, k)
  BY <1>9, Zenon
<1>11. \A k \in S : SplitFrom(s, c)[k] \in T
  <2>. DEFINE F == SplitFrom(s, c)
              Fine == {d \in Nat : d <= n => F[n - d] \in T}
  <2>. HIDE DEF F, T
  <2>1. ASSUME NEW d \in Nat, \A e \in Nat : e < d => e \in Fine, d <= n PROVE F[n - d] \in T
    <3>1. n - d \in S
      BY <1>1, <2>1
    <3>2. ASSUME Ends(n - d) # {} PROVE F[Min(Ends(n - d)) + 1] \in T
      <4>1. PICK e \in n - d..n - 1 : e = Min(Ends(n - d)) /\ e + 1 \in S
        BY <1>2, <3>1, <3>2
      <4>2. n - (e + 1) \in Nat /\ n - (e + 1) < d /\ n - (e + 1) <= n /\ n - (n - (e + 1)) = e + 1
        BY <1>1, <2>1, <4>1
      <4>3. F[n - (n - (e + 1))] \in T
        BY <2>1, <4>2
      <4>. HIDE DEF Ends
      <4>. QED
        BY <4>1, <4>2, <4>3
    <3>3. F[n - d] = SplitStep(F, s, c, n - d)
      BY <1>10, <3>1 DEF F
    <3>. QED
      BY <1>3, <3>1, <3>2, <3>3
  <2>2. Nat \subseteq Fine
    <3>1. \A d \in Nat : (\A e \in Nat : e < d => e \in Fine) => d \in Fine
      BY <2>1
    <3>. HIDE DEF Fine
    <3>. QED
      BY <3>1, AllNumbers
  <2>3. ASSUME NEW k \in S PROVE F[k] \in T
    <3>1. n - k \in Nat /\ n - k <= n /\ n - (n - k) = k
      BY <1>1
    <3>. QED
      BY <2>2, <3>1
  <2>. QED
    BY <2>3 DEF F
<1>. QED
  BY <1>10, <1>11

\* One string behind the other. The provers need not look into it.
Then(a, b) == a \o b

\* The two cases of a step of split.
LEMMA SplitAt ==
  ASSUME NEW C, NEW s \in Seq(C), NEW c, NEW i \in 0..Len(s), NEW e \in i..Len(s) - 1,
         s[e + 1] = c, \A k \in i..e - 1 : s[k + 1] # c
  PROVE  SplitFrom(s, c)[i] = Then(<<Part(s, i, e)>>, SplitFrom(s, c)[e + 1])
<1>. DEFINE ends == {k \in i..Len(s) - 1 : At(s, k) = c}
<1>1. e \in ends /\ ends \subseteq Nat
  BY DEF At
<1>2. Min(ends) \in ends /\ Min(ends) <= e
  <2>. HIDE DEF ends
  <2>. QED
    BY <1>1, LeastOf
<1>3. Min(ends) = e
  <2>1. PICK m \in ends : m = Min(ends)
    BY <1>2
  <2>2. m \in i..Len(s) - 1 /\ s[m + 1] = c /\ m <= e
    BY <1>2, <2>1 DEF At
  <2>3. m \notin i..e - 1
    BY <2>2
  <2>. QED
    BY <2>1, <2>2, <2>3
<1>4. SplitFrom(s, c)[i] = SplitStep(SplitFrom(s, c), s, c, i)
  BY SplitUnfolds
<1>. QED
  BY <1>1, <1>3, <1>4, Zenon DEF SplitStep, Then

LEMMA SplitEnd ==
  ASSUME NEW C, NEW s \in Seq(C), NEW c, NEW i \in 0..Len(s),
         \A k \in i..Len(s) - 1 : s[k + 1] # c
  PROVE  SplitFrom(s, c)[i] = IF i < Len(s) THEN <<Part(s, i, Len(s))>> ELSE <<>>
<1>1. {k \in i..Len(s) - 1 : At(s, k) = c} = {}
  BY DEF At
<1>2. SplitFrom(s, c)[i] = SplitStep(SplitFrom(s, c), s, c, i)
  BY SplitUnfolds
<1>. QED
  BY <1>1, <1>2, Zenon DEF SplitStep

\* The next separator, if there is one.
LEMMA NextSeparator ==
  ASSUME NEW C, NEW s \in Seq(C), NEW c, NEW i \in 0..Len(s)
  PROVE  \/ \A k \in i..Len(s) - 1 : s[k + 1] # c
         \/ \E e \in i..Len(s) - 1 : s[e + 1] = c /\ \A k \in i..e - 1 : s[k + 1] # c
<1>. DEFINE ends == {k \in i..Len(s) - 1 : s[k + 1] = c}
<1>1. CASE ends = {}
  BY <1>1
<1>2. CASE ends # {}
  <2>1. ends \subseteq Nat
    OBVIOUS
  <2>2. PICK e \in ends : \A k \in ends : e <= k
    <3>. HIDE DEF ends
    <3>. QED
      BY <1>2, <2>1, LeastNumber
  <2>3. e \in i..Len(s) - 1 /\ s[e + 1] = c
    OBVIOUS
  <2>4. ASSUME NEW k \in i..e - 1 PROVE s[k + 1] # c
    <3>1. k \in i..Len(s) - 1 /\ ~(e <= k)
      BY <2>3
    <3>. QED
      BY <2>2, <3>1
  <2>. QED
    BY <2>3, <2>4
<1>. QED
  BY <1>1, <1>2

\* Two strings one behind the other.
IsJoint(s, a, b, C) ==
  /\ s \in Seq(C) /\ Len(s) = Len(a) + Len(b) /\ Len(a) \in Nat /\ Len(b) \in Nat
  /\ \A k \in 1..Len(a) : s[k] = a[k]
  /\ \A k \in 1..Len(b) : s[Len(a) + k] = b[k]

LEMMA Joint ==
  ASSUME NEW C, NEW a \in Seq(C), NEW b \in Seq(C)
  PROVE  IsJoint(Then(a, b), a, b, C)
  BY ConcatProperties DEF Then, IsJoint

InAnyOrder(x, y, z) == Then(x, Then(y, z)) = Then(Then(x, y), z)

LEMMA ThenAssociative ==
  ASSUME NEW C, NEW x \in Seq(C), NEW y \in Seq(C), NEW z \in Seq(C)
  PROVE  InAnyOrder(x, y, z)
<1>1. (x \o y) \o z = x \o (y \o z)
  BY ConcatAssociative
<1>. QED
  BY <1>1, Zenon DEF Then, InAnyOrder

LEMMA SameString ==
  ASSUME NEW C, NEW a \in Seq(C), NEW b \in Seq(C), Len(a) = Len(b),
         \A k \in 1..Len(a) : a[k] = b[k]
  PROVE  a = b
  BY SeqEqual

\* A part of the second of two strings, and of the first.
LEMMA JointParts ==
  ASSUME NEW C, NEW a \in Seq(C), NEW b \in Seq(C)
  PROVE  /\ \A i \in 0..Len(b) : \A e \in i..Len(b) :
              Part(Then(a, b), Len(a) + i, Len(a) + e) = Part(b, i, e)
         /\ \A i \in 0..Len(a) : \A e \in i..Len(a) : Part(Then(a, b), i, e) = Part(a, i, e)
<1>. DEFINE s == Then(a, b)
<1>0. /\ s \in Seq(C) /\ Len(s) = Len(a) + Len(b) /\ Len(a) \in Nat /\ Len(b) \in Nat
      /\ \A k \in 1..Len(a) : s[k] = a[k]
      /\ \A k \in 1..Len(b) : s[Len(a) + k] = b[k]
  <2>1. IsJoint(s, a, b, C)
    BY Joint
  <2>. QED
    BY <2>1, Zenon DEF IsJoint
<1>. HIDE DEF s
<1>1. ASSUME NEW i \in 0..Len(b), NEW e \in i..Len(b)
      PROVE  Part(s, Len(a) + i, Len(a) + e) = Part(b, i, e)
  <2>1. PICK j \in Nat, f \in Nat : /\ j \in 0..Len(s) /\ f \in j..Len(s)
                                    /\ j = Len(a) + i /\ f = Len(a) + e /\ f - j = e - i
    <3>1. /\ Len(a) + i \in Nat /\ Len(a) + e \in Nat
          /\ Len(a) + i \in 0..Len(s) /\ Len(a) + e \in (Len(a) + i)..Len(s)
          /\ (Len(a) + e) - (Len(a) + i) = e - i
      BY <1>0
    <3>. QED
      BY <3>1
  <2>2. /\ Part(s, j, f) \in Seq(C) /\ Len(Part(s, j, f)) = e - i
        /\ \A d \in 1..e - i : Part(s, j, f)[d] = s[j + d]
    <3>1. j \in 0..Len(s) /\ f \in j..Len(s) /\ f - j = e - i
      BY <2>1
    <3>2. /\ Part(s, j, f) \in Seq(C) /\ Len(Part(s, j, f)) = f - j
          /\ \A d \in 1..f - j : Part(s, j, f)[d] = s[j + d]
      <4>1. s \in Seq(C)
        BY <1>0
      <4>. QED
        BY <3>1, <4>1, PieceBetween
    <3>. QED
      BY <3>1, <3>2, Zenon
  <2>3. /\ Part(b, i, e) \in Seq(C) /\ Len(Part(b, i, e)) = e - i
        /\ \A d \in 1..e - i : Part(b, i, e)[d] = b[i + d]
    BY PieceBetween
  <2>4. ASSUME NEW d \in 1..e - i PROVE s[j + d] = b[i + d]
    <3>1. i + d \in 1..Len(b) /\ j + d = Len(a) + (i + d)
      BY <1>0, <2>1
    <3>. QED
      BY <1>0, <3>1
  <2>5. Part(s, j, f) = Part(b, i, e)
    BY <2>2, <2>3, <2>4, SameString
  <2>. QED
    BY <2>1, <2>5
<1>2. ASSUME NEW i \in 0..Len(a), NEW e \in i..Len(a)
      PROVE  Part(s, i, e) = Part(a, i, e)
  <2>1. i \in 0..Len(s) /\ e \in i..Len(s)
    BY <1>0
  <2>2. /\ Part(s, i, e) \in Seq(C) /\ Len(Part(s, i, e)) = e - i
        /\ \A d \in 1..e - i : Part(s, i, e)[d] = s[i + d]
    BY <1>0, <2>1, PieceBetween
  <2>3. /\ Part(a, i, e) \in Seq(C) /\ Len(Part(a, i, e)) = e - i
        /\ \A d \in 1..e - i : Part(a, i, e)[d] = a[i + d]
    BY PieceBetween
  <2>4. ASSUME NEW d \in 1..e - i PROVE s[i + d] = a[i + d]
    <3>1. i + d \in 1..Len(a)
      BY <1>0
    <3>. QED
      BY <1>0, <3>1
  <2>. QED
    BY <2>2, <2>3, <2>4, SameString
<1>. QED
  BY <1>1, <1>2 DEF s

\* What is in front of a position does not matter for the pieces behind it.
LEMMA SplitBehind ==
  ASSUME NEW C, NEW a \in Seq(C), NEW b \in Seq(C), NEW c,
         NEW x \in 0..Len(b)
  PROVE  SplitFrom(Then(a, b), c)[Len(a) + x] = SplitFrom(b, c)[x]
<1>. DEFINE s == Then(a, b)
            m == Len(a)
            n == Len(b)
            F(k) == SplitFrom(s, c)[m + k] = SplitFrom(b, c)[k]
            Fine == {d \in Nat : d <= n => F(n - d)}
<1>0. /\ s \in Seq(C) /\ Len(s) = m + n /\ m \in Nat /\ n \in Nat
      /\ \A k \in 1..n : s[m + k] = b[k]
  <2>1. IsJoint(s, a, b, C)
    BY Joint
  <2>. QED
    BY <2>1, Zenon DEF IsJoint
<1>1. ASSUME NEW d \in Nat, \A e \in Nat : e < d => e \in Fine, d <= n PROVE F(n - d)
  <2>0. PICK k \in 0..n : k = n - d
    <3>1. n - d \in 0..n
      BY <1>0, <1>1
    <3>. QED
      BY <3>1
  <2>1. ASSUME NEW l \in k..n - 1 PROVE s[(m + l) + 1] = b[l + 1]
    <3>1. l + 1 \in 1..n /\ (m + l) + 1 = m + (l + 1)
      BY <1>0
    <3>. QED
      BY <1>0, <3>1
  <2>. HIDE DEF s
  <2>2. CASE \A l \in k..n - 1 : b[l + 1] # c
    <3>1. SplitFrom(b, c)[k] = IF k < n THEN <<Part(b, k, n)>> ELSE <<>>
      BY <2>2, SplitEnd
    <3>2. PICK j \in 0..Len(s) : j = m + k
      BY <1>0
    <3>3. \A y \in j..Len(s) - 1 : y - m \in k..n - 1 /\ y = m + (y - m)
      BY <1>0, <3>2
    <3>4. \A y \in j..Len(s) - 1 : s[y + 1] # c
      <4>. TAKE y \in j..Len(s) - 1
      <4>1. PICK l \in k..n - 1 : y = m + l
        BY <3>3
      <4>2. s[(m + l) + 1] = b[l + 1] /\ b[l + 1] # c
        BY <2>1, <2>2, Zenon
      <4>. QED
        BY <4>1, <4>2, Zenon
    <3>5. SplitFrom(s, c)[j] = IF j < Len(s) THEN <<Part(s, j, Len(s))>> ELSE <<>>
      <4>1. s \in Seq(C)
        BY <1>0
      <4>. QED
        BY <3>4, <4>1, SplitEnd
    <3>6. j < Len(s) <=> k < n
      BY <1>0, <3>2
    <3>7. Part(s, j, Len(s)) = Part(b, k, n)
      <4>1. n \in k..n
        BY <1>0
      <4>2. Part(s, m + k, m + n) = Part(b, k, n)
        BY <4>1, JointParts DEF s
      <4>. QED
        BY <1>0, <3>2, <4>2
    <3>8. F(k)
      BY <3>1, <3>2, <3>5, <3>6, <3>7
    <3>. HIDE DEF F
    <3>. QED
      BY <2>0, <3>8
  <2>3. CASE \E e \in k..n - 1 : b[e + 1] = c /\ \A l \in k..e - 1 : b[l + 1] # c
    <3>1. PICK e \in k..n - 1 : b[e + 1] = c /\ \A l \in k..e - 1 : b[l + 1] # c
      BY <2>3
    <3>2. SplitFrom(b, c)[k] = Then(<<Part(b, k, e)>>, SplitFrom(b, c)[e + 1])
      BY <3>1, SplitAt
    <3>3. PICK j \in Nat, f \in Nat : j \in 0..Len(s) /\ f \in j..Len(s) - 1 /\ j = m + k /\ f = m + e
      <4>1. m + k \in Nat /\ m + e \in Nat /\ m + k \in 0..Len(s) /\ m + e \in (m + k)..Len(s) - 1
        BY <1>0
      <4>. QED
        BY <4>1
    <3>4. s[f + 1] = c
      BY <2>1, <3>1, <3>3
    <3>5. \A y \in j..f - 1 : s[y + 1] # c
      <4>. TAKE y \in j..f - 1
      <4>1. PICK l \in k..e - 1 : y = m + l
        <5>1. y - m \in k..e - 1 /\ y = m + (y - m)
          BY <1>0, <3>3
        <5>. QED
          BY <5>1
      <4>2. l \in k..n - 1
        OBVIOUS
      <4>. QED
        BY <2>1, <3>1, <4>1, <4>2
    <3>6. SplitFrom(s, c)[j] = Then(<<Part(s, j, f)>>, SplitFrom(s, c)[f + 1])
      <4>1. s \in Seq(C) /\ j \in 0..Len(s) /\ f \in j..Len(s) - 1
        BY <1>0, <3>3
      <4>. QED
        BY <3>4, <3>5, <4>1, SplitAt
    <3>7. Part(s, j, f) = Part(b, k, e)
      <4>1. e \in k..n
        BY <1>0
      <4>2. Part(s, m + k, m + e) = Part(b, k, e)
        BY <4>1, JointParts DEF s
      <4>. QED
        BY <3>3, <4>2
    <3>8. SplitFrom(s, c)[f + 1] = SplitFrom(b, c)[e + 1]
      <4>1. PICK dd \in Nat : dd < d /\ dd <= n /\ n - dd = e + 1
        <5>1. /\ n - (e + 1) \in Nat /\ n - (e + 1) < d /\ n - (e + 1) <= n
              /\ n - (n - (e + 1)) = e + 1
          BY <1>0, <2>0
        <5>. QED
          BY <5>1
      <4>2. F(n - dd)
        <5>. HIDE DEF F
        <5>. QED
          BY <1>1, <4>1
      <4>3. SplitFrom(s, c)[m + (e + 1)] = SplitFrom(b, c)[e + 1]
        BY <4>1, <4>2
      <4>4. m + (e + 1) = f + 1
        BY <1>0, <3>3
      <4>. QED
        BY <4>3, <4>4
    <3>9. F(k)
      BY <3>2, <3>3, <3>6, <3>7, <3>8
    <3>. HIDE DEF F
    <3>. QED
      BY <2>0, <3>9
  <2>4. \/ \A l \in k..n - 1 : b[l + 1] # c
        \/ \E e \in k..n - 1 : b[e + 1] = c /\ \A l \in k..e - 1 : b[l + 1] # c
    BY NextSeparator
  <2>. HIDE DEF F
  <2>. QED
    BY <2>2, <2>3, <2>4, Zenon
<1>2. Nat \subseteq Fine
  <2>1. \A d \in Nat : (\A e \in Nat : e < d => e \in Fine) => d \in Fine
    <3>. HIDE DEF F
    <3>. QED
      BY <1>1
  <2>. HIDE DEF Fine
  <2>. QED
    BY <2>1, AllNumbers
<1>3. ASSUME NEW k \in 0..n PROVE F(k)
  <2>1. PICK d \in Nat : d = n - k /\ d <= n /\ n - d = k
    <3>1. n - k \in Nat /\ n - k <= n /\ n - (n - k) = k
      BY <1>0
    <3>. QED
      BY <3>1
  <2>2. F(n - d)
    <3>. HIDE DEF F
    <3>. QED
      BY <1>2, <2>1
  <2>. HIDE DEF F
  <2>. QED
    BY <2>1, <2>2
<1>. QED
  BY <1>3

EndsIn(a, c) == a # <<>> /\ a[Len(a)] = c

SplitsApart(a, b, c, k) ==
  SplitFrom(Then(a, b), c)[k] = Then(SplitFrom(a, c)[k], SplitFrom(b, c)[0])

\* A string that ends in a separator is split for itself.
LEMMA SplitInFront ==
  ASSUME NEW C, NEW a \in Seq(C), NEW b \in Seq(C), NEW c, EndsIn(a, c),
         NEW x \in 0..Len(a)
  PROVE  SplitsApart(a, b, c, x)
<1>. DEFINE s == Then(a, b)
            m == Len(a)
            rest == SplitFrom(b, c)[0]
            F(k) == SplitFrom(s, c)[k] = Then(SplitFrom(a, c)[k], rest)
            Fine == {d \in Nat : d <= m => F(m - d)}
<1>0. /\ s \in Seq(C) /\ Len(s) = m + Len(b) /\ m \in Nat /\ m >= 1 /\ Len(b) \in Nat
      /\ \A k \in 1..m : s[k] = a[k]
  <2>1. /\ s \in Seq(C) /\ Len(s) = m + Len(b) /\ m \in Nat /\ Len(b) \in Nat
        /\ \A k \in 1..m : s[k] = a[k]
    <3>1. IsJoint(s, a, b, C)
      BY Joint
    <3>. QED
      BY <3>1, Zenon DEF IsJoint
  <2>2. m >= 1
    BY DEF EndsIn
  <2>. QED
    BY <2>1, <2>2
<1>. HIDE DEF s
<1>1. rest \in Seq(Seq(C))
  <2>1. 0 \in 0..Len(b)
    BY <1>0
  <2>. QED
    BY <2>1, SplitUnfolds
<1>2. F(m)
  <2>1. SplitFrom(s, c)[m] = rest
    <3>1. 0 \in 0..Len(b) /\ m + 0 = m
      BY <1>0
    <3>2. SplitFrom(s, c)[m + 0] = rest
      BY <3>1, SplitBehind DEF s
    <3>. QED
      BY <3>1, <3>2
  <2>2. SplitFrom(a, c)[m] = <<>>
    <3>1. m \in 0..Len(a) /\ m..Len(a) - 1 = {} /\ ~(m < Len(a))
      BY <1>0
    <3>. QED
      BY <3>1, SplitEnd
  <2>3. rest = Then(<<>>, rest)
    <3>. HIDE DEF rest
    <3>. QED
      BY <1>1 DEF Then
  <2>. QED
    BY <2>1, <2>2, <2>3, Zenon
<1>3. ASSUME NEW d \in Nat, \A e \in Nat : e < d => e \in Fine, d <= m, d # 0 PROVE F(m - d)
  <2>1. PICK k \in 0..m - 1 : k = m - d
    <3>1. m - d \in 0..m - 1
      BY <1>0, <1>3
    <3>. QED
      BY <3>1
  <2>2. PICK e \in k..m - 1 : a[e + 1] = c /\ \A l \in k..e - 1 : a[l + 1] # c
    <3>1. k \in 0..Len(a) /\ m - 1 \in k..Len(a) - 1 /\ (m - 1) + 1 = m
      BY <1>0
    <3>2. a[(m - 1) + 1] = c
      BY <3>1 DEF EndsIn
    <3>3. \/ \A l \in k..Len(a) - 1 : a[l + 1] # c
          \/ \E e \in k..Len(a) - 1 : a[e + 1] = c /\ \A l \in k..e - 1 : a[l + 1] # c
      <4>1. a \in Seq(C) /\ k \in 0..Len(a)
        BY <3>1
      <4>. HIDE DEF m
      <4>. QED
        BY <4>1, NextSeparator
    <3>. QED
      BY <3>1, <3>2, <3>3, Zenon
  <2>3. SplitFrom(a, c)[k] = Then(<<Part(a, k, e)>>, SplitFrom(a, c)[e + 1])
    <3>1. k \in 0..Len(a) /\ e \in k..Len(a) - 1
      BY <1>0
    <3>. QED
      BY <2>2, <3>1, SplitAt
  <2>4. SplitFrom(s, c)[k] = Then(<<Part(s, k, e)>>, SplitFrom(s, c)[e + 1])
    <3>1. k \in 0..Len(s) /\ e \in k..Len(s) - 1
      BY <1>0
    <3>2. \A l \in k..e : s[l + 1] = a[l + 1]
      BY <1>0
    <3>3. s[e + 1] = c /\ \A l \in k..e - 1 : s[l + 1] # c
      BY <1>0, <2>2, <3>2
    <3>4. s \in Seq(C)
      BY <1>0
    <3>. QED
      BY <3>1, <3>3, <3>4, SplitAt
  <2>5. Part(s, k, e) = Part(a, k, e)
    <3>1. k \in 0..Len(a) /\ e \in k..Len(a)
      BY <1>0
    <3>. QED
      BY <3>1, JointParts DEF s
  <2>6. SplitFrom(s, c)[e + 1] = Then(SplitFrom(a, c)[e + 1], rest)
    <3>1. PICK dd \in Nat : dd < d /\ dd <= m /\ m - dd = e + 1
      <4>1. m - (e + 1) \in Nat /\ m - (e + 1) < d /\ m - (e + 1) <= m /\ m - (m - (e + 1)) = e + 1
        BY <1>0, <2>1
      <4>. QED
        BY <4>1
    <3>2. F(m - dd)
      <4>. HIDE DEF F
      <4>. QED
        BY <1>3, <3>1
    <3>. QED
      BY <3>1, <3>2
  <2>7. <<Part(a, k, e)>> \in Seq(Seq(C)) /\ SplitFrom(a, c)[e + 1] \in Seq(Seq(C))
    <3>1. k \in 0..Len(a) /\ e \in k..Len(a) /\ e + 1 \in 0..Len(a)
      BY <1>0
    <3>2. Part(a, k, e) \in Seq(C)
      BY <3>1, PieceBetween
    <3>3. \A y \in Seq(C) : <<y>> \in Seq(Seq(C))
      OBVIOUS
    <3>4. SplitFrom(a, c)[e + 1] \in Seq(Seq(C))
      BY <3>1, SplitUnfolds, Zenon
    <3>. QED
      BY <3>2, <3>3, <3>4, Zenon
  <2>8. InAnyOrder(<<Part(a, k, e)>>, SplitFrom(a, c)[e + 1], rest)
    <3>. HIDE DEF rest
    <3>. QED
      BY <1>1, <2>7, ThenAssociative
  <2>9. F(k)
    <3>. HIDE DEF rest
    <3>. USE DEF InAnyOrder
    <3>. QED
      BY <1>1, <2>3, <2>4, <2>5, <2>6, <2>7, <2>8, Zenon
  <2>. HIDE DEF F
  <2>. QED
    BY <2>1, <2>9
<1>4. Nat \subseteq Fine
  <2>1. F(m - 0)
    <3>1. m - 0 = m
      BY <1>0
    <3>. HIDE DEF F
    <3>. QED
      BY <1>2, <3>1
  <2>2. \A d \in Nat : (\A e \in Nat : e < d => e \in Fine) => d \in Fine
    <3>. HIDE DEF F
    <3>. QED
      BY <1>3, <2>1
  <2>. HIDE DEF Fine
  <2>. QED
    BY <2>2, AllNumbers
<1>5. ASSUME NEW k \in 0..m PROVE F(k)
  <2>1. PICK d \in Nat : d = m - k /\ d <= m /\ m - d = k
    <3>1. m - k \in Nat /\ m - k <= m /\ m - (m - k) = k
      BY <1>0
    <3>. QED
      BY <3>1
  <2>2. F(m - d)
    <3>. HIDE DEF F
    <3>. QED
      BY <1>4, <2>1
  <2>. HIDE DEF F
  <2>. QED
    BY <2>1, <2>2
<1>. QED
  BY <1>5, Zenon DEF s, SplitsApart

IsSplitOf(a, b, c) == Split(Then(a, b), c) = Then(Split(a, c), Split(b, c))

\* Whole lines in front of other lines are the lines in front of theirs.
LEMMA SplitJoint ==
  ASSUME NEW C, NEW a \in Seq(C), NEW b \in Seq(C), NEW c, EndsIn(a, c)
  PROVE  /\ IsSplitOf(a, b, c)
         /\ Split(a, c) \in Seq(Seq(C)) /\ Split(b, c) \in Seq(Seq(C))
<1>1. 0 \in 0..Len(a) /\ 0 \in 0..Len(b)
  OBVIOUS
<1>2. SplitsApart(a, b, c, 0)
  BY <1>1, SplitInFront, Zenon
<1>3. SplitFrom(a, c)[0] \in Seq(Seq(C)) /\ SplitFrom(b, c)[0] \in Seq(Seq(C))
  BY <1>1, SplitUnfolds, Zenon
<1>. QED
  BY <1>2, <1>3, Zenon DEF Split, SplitsApart, IsSplitOf

LEMMA BehindPart ==
  ASSUME NEW C, NEW u \in Seq(C), NEW v \in Seq(C)
  PROVE  SubSeq(Then(u, v), Len(u) + 1, Len(Then(u, v))) = v
<1>1. Then(u, v) \in Seq(C) /\ Len(Then(u, v)) = Len(u) + Len(v) /\ Len(u) \in Nat /\ Len(v) \in Nat
  <2>1. IsJoint(Then(u, v), u, v, C)
    BY Joint
  <2>. QED
    BY <2>1, Zenon DEF IsJoint
<1>2. 0 \in 0..Len(v) /\ Len(v) \in 0..Len(v) /\ Len(u) + 0 = Len(u)
  BY <1>1
<1>3. Part(Then(u, v), Len(u) + 0, Len(u) + Len(v)) = Part(v, 0, Len(v))
  BY <1>2, JointParts
<1>4. Part(v, 0, Len(v)) = v
  <2>1. /\ Part(v, 0, Len(v)) \in Seq(C) /\ Len(Part(v, 0, Len(v))) = Len(v) - 0
        /\ \A d \in 1..Len(v) - 0 : Part(v, 0, Len(v))[d] = v[0 + d]
    BY <1>2, PieceBetween
  <2>2. Len(v) - 0 = Len(v) /\ \A d \in 1..Len(v) : 0 + d = d
    BY <1>1
  <2>. QED
    BY <2>1, <2>2, SameString
<1>. QED
  BY <1>1, <1>2, <1>3, <1>4 DEF Part

\* A string is what is in front of a place and what is behind it.
LEMMA CutInTwo ==
  ASSUME NEW C, NEW s \in Seq(C), NEW r \in 0..Len(s)
  PROVE  /\ s = Then(Part(s, 0, r), Part(s, r, Len(s)))
         /\ Part(s, 0, r) \in Seq(C) /\ Len(Part(s, 0, r)) = r
         /\ Part(s, r, Len(s)) \in Seq(C)
<1>. DEFINE a == Part(s, 0, r)
            b == Part(s, r, Len(s))
<1>0. Len(s) \in Nat /\ 0 \in 0..Len(s) /\ r \in 0..Len(s) /\ Len(s) \in r..Len(s)
  OBVIOUS
<1>1. /\ a \in Seq(C) /\ Len(a) = r /\ \A d \in 1..r : a[d] = s[d]
  <2>1. a \in Seq(C) /\ Len(a) = r - 0 /\ \A d \in 1..r - 0 : a[d] = s[0 + d]
    BY <1>0, PieceBetween
  <2>2. r - 0 = r /\ \A d \in 1..r : 0 + d = d
    BY <1>0
  <2>. QED
    BY <2>1, <2>2
<1>2. b \in Seq(C) /\ Len(b) = Len(s) - r /\ \A d \in 1..Len(s) - r : b[d] = s[r + d]
  BY <1>0, PieceBetween
<1>. HIDE DEF a, b
<1>3. /\ Then(a, b) \in Seq(C) /\ Len(Then(a, b)) = Len(s)
      /\ \A k \in 1..r : (Then(a, b))[k] = a[k]
      /\ \A k \in 1..Len(s) - r : (Then(a, b))[r + k] = b[k]
  <2>1. IsJoint(Then(a, b), a, b, C)
    BY <1>1, <1>2, Joint
  <2>2. r + (Len(s) - r) = Len(s)
    BY <1>0
  <2>. QED
    BY <1>1, <1>2, <2>1, <2>2, Zenon DEF IsJoint
<1>4. ASSUME NEW k \in 1..Len(s) PROVE (Then(a, b))[k] = s[k]
  <2>1. CASE k <= r
    BY <1>0, <1>1, <1>3, <2>1
  <2>2. CASE ~(k <= r)
    <3>1. PICK d \in 1..Len(s) - r : k = r + d
      <4>1. k - r \in 1..Len(s) - r /\ k = r + (k - r)
        BY <1>0, <2>2
      <4>. QED
        BY <4>1
    <3>. QED
      BY <1>2, <1>3, <3>1
  <2>. QED
    BY <2>1, <2>2
<1>5. s = Then(a, b)
  BY <1>3, <1>4, SameString
<1>. QED
  BY <1>1, <1>2, <1>5 DEF a, b

-----------------------------------------------------------------------------
\* LevelLogger::push with a full buffer.

\* The line end that the buffer is cut at is behind its middle.
LEMMA CutBehindMiddle ==
  ASSUME NEW C, NEW s \in Seq(C), Len(s) > 2 * Len(Mark), Last(s) = Newline
  PROVE  /\ LineEnds(s) # {}
         /\ Rest(s) \in Middle(s) + 1..Len(s)
         /\ s[Rest(s)] = Newline
         /\ 2 * (Len(s) - Rest(s)) < Len(s) /\ Len(Mark) + (Len(s) - Rest(s)) <= Rest(s)
<1>1. Len(Mark) = 2 /\ Len(s) \in Nat /\ Middle(s) = Len(s) \div 2 + 2
  BY DEF Mark, Middle
<1>2. /\ Len(s) \div 2 \in Nat /\ 2 * (Len(s) \div 2) <= Len(s) /\ Len(s) <= 2 * (Len(s) \div 2) + 1
      /\ Middle(s) \in Nat
  BY <1>1
<1>3. Len(s) - 1 \in LineEnds(s)
  <2>1. Len(s) - 1 \in Middle(s)..Len(s) - 1
    BY <1>1, <1>2
  <2>2. (Len(s) - 1) + 1 = Len(s) /\ s[Len(s)] = Newline
    BY <1>1 DEF Last
  <2>. QED
    BY <2>1, <2>2 DEF LineEnds, At
<1>4. LineEnds(s) \subseteq Nat /\ LineEnds(s) \subseteq Middle(s)..Len(s) - 1
  BY <1>1, <1>2 DEF LineEnds
<1>5. PICK e \in LineEnds(s) : e = Min(LineEnds(s))
  BY <1>3, <1>4, LeastOf
<1>6. Rest(s) = e + 1 /\ s[e + 1] = Newline /\ e \in Middle(s)..Len(s) - 1
  BY <1>4, <1>5 DEF Rest, LineEnds, At
<1>7. e + 1 \in Middle(s) + 1..Len(s)
  BY <1>1, <1>2, <1>6
<1>8. 2 * (Len(s) - (e + 1)) < Len(s) /\ 2 + (Len(s) - (e + 1)) <= e + 1
  BY <1>1, <1>2, <1>6
<1>. QED
  BY <1>1, <1>3, <1>6, <1>7, <1>8

LEMMA MarkIsALine ==
  ASSUME NEW C, "." \in C, Newline \in C
  PROVE  /\ Mark \in Seq(C) /\ EndsIn(Mark, Newline)
         /\ Split(Mark, Newline) = <<<<".">>>>
<1>0. /\ Mark \in Seq(C) /\ Mark # <<>> /\ Len(Mark) = 2
      /\ Mark[1] = "." /\ Mark[2] = Newline /\ "." # Newline
  BY DEF Mark, Newline
<1>1. SplitFrom(Mark, Newline)[0] = Then(<<Part(Mark, 0, 1)>>, SplitFrom(Mark, Newline)[1 + 1])
  <2>1. 0 \in 0..Len(Mark) /\ 1 \in 0..Len(Mark) - 1 /\ Mark[1 + 1] = Newline
    BY <1>0
  <2>2. \A k \in 0..1 - 1 : Mark[k + 1] # Newline
    BY <1>0
  <2>. QED
    BY <1>0, <2>1, <2>2, SplitAt
<1>2. SplitFrom(Mark, Newline)[2] = <<>>
  <2>1. 2 \in 0..Len(Mark) /\ 2..Len(Mark) - 1 = {} /\ ~(2 < Len(Mark))
    BY <1>0
  <2>. QED
    BY <1>0, <2>1, SplitEnd
<1>3. Part(Mark, 0, 1) = <<".">>
  <2>1. 0 \in 0..Len(Mark) /\ 1 \in 0..Len(Mark) /\ 1 - 0 = 1 /\ 0 + 1 = 1
    BY <1>0
  <2>2. Part(Mark, 0, 1) \in Seq(C) /\ Len(Part(Mark, 0, 1)) = 1 /\ Part(Mark, 0, 1)[1] = "."
    <3>1. /\ Part(Mark, 0, 1) \in Seq(C) /\ Len(Part(Mark, 0, 1)) = 1 - 0
          /\ \A d \in 1..1 - 0 : Part(Mark, 0, 1)[d] = Mark[0 + d]
      BY <1>0, <2>1, PieceBetween
    <3>. QED
      BY <1>0, <2>1, <3>1
  <2>3. <<".">> \in Seq(C) /\ Len(<<".">>) = 1 /\ <<".">>[1] = "."
    BY <1>0
  <2>4. \A k \in 1..1 : Part(Mark, 0, 1)[k] = <<".">>[k]
    BY <2>2, <2>3
  <2>. QED
    BY <2>2, <2>3, <2>4, SameString
<1>4. Then(<<Part(Mark, 0, 1)>>, <<>>) = <<<<".">>>>
  BY <1>3 DEF Then
<1>5. 1 + 1 = 2
  OBVIOUS
<1>6. Split(Mark, Newline) = <<<<".">>>>
  BY <1>1, <1>2, <1>4, <1>5, Zenon DEF Split
<1>7. EndsIn(Mark, Newline)
  BY <1>0, Zenon DEF EndsIn
<1>. QED
  BY <1>0, <1>6, <1>7, Zenon

\* A full buffer of whole lines is cut at a line end, less than half of it is left,
\* the lines that are left are the last ones, and the copy does not overlap.
LEMMA BufferCut ==
  ASSUME NEW C, text \in Seq(C), "." \in C, Newline \in C
  PROVE  BufferRight
<1>. SUFFICES ASSUME Len(text) > 2 * Len(Mark), Last(text) = Newline
              PROVE  /\ LineEnds(text) # {}
                     /\ 2 * (Len(text) - Rest(text)) < Len(text)
                     /\ Len(Mark) + (Len(text) - Rest(text)) <= Rest(text)
                     /\ Split(Halved(text), Newline) =
                          <<<<".">>>> \o SubSeq(Split(text, Newline),
                            Len(Split(Part(text, 0, Rest(text)), Newline)) + 1,
                            Len(Split(text, Newline)))
  BY DEF BufferRight
<1>. DEFINE r == Rest(text)
            a == Part(text, 0, r)
            b == Part(text, r, Len(text))
<1>1. /\ LineEnds(text) # {} /\ r \in Middle(text) + 1..Len(text) /\ text[r] = Newline
      /\ 2 * (Len(text) - r) < Len(text) /\ Len(Mark) + (Len(text) - r) <= r
  BY CutBehindMiddle
<1>2. r \in 1..Len(text) /\ r \in 0..Len(text) /\ Len(text) \in Nat
  <2>1. Middle(text) \in Nat
    BY DEF Middle, Mark
  <2>. QED
    BY <1>1, <2>1
<1>3. text = Then(a, b) /\ a \in Seq(C) /\ Len(a) = r /\ b \in Seq(C)
  BY <1>2, CutInTwo
<1>4. EndsIn(a, Newline)
  <2>1. (Then(a, b))[r] = a[r]
    <3>. HIDE DEF a, b, r
    <3>1. IsJoint(Then(a, b), a, b, C)
      BY <1>3, Joint
    <3>2. r \in 1..r
      BY <1>2
    <3>. QED
      BY <1>3, <3>1, <3>2, Zenon DEF IsJoint
  <2>2. a[r] = Newline
    BY <1>1, <1>3, <2>1, Zenon
  <2>3. Len(a) # 0
    BY <1>2, <1>3
  <2>. HIDE DEF a, r
  <2>. QED
    BY <1>3, <2>2, <2>3 DEF EndsIn
<1>. HIDE DEF a, b
<1>5. /\ Split(text, Newline) = Then(Split(a, Newline), Split(b, Newline))
      /\ Split(a, Newline) \in Seq(Seq(C)) /\ Split(b, Newline) \in Seq(Seq(C))
  <2>1. /\ IsSplitOf(a, b, Newline)
        /\ Split(a, Newline) \in Seq(Seq(C)) /\ Split(b, Newline) \in Seq(Seq(C))
    BY <1>3, <1>4, SplitJoint, Zenon
  <2>. QED
    BY <1>3, <2>1, Zenon DEF IsSplitOf
<1>6. SubSeq(Split(text, Newline), Len(Split(a, Newline)) + 1, Len(Split(text, Newline)))
        = Split(b, Newline)
  BY <1>5, BehindPart
<1>7. Halved(text) = Then(Mark, b)
  BY Zenon DEF Halved, b, Then
<1>8. Split(Halved(text), Newline) = Then(<<<<".">>>>, Split(b, Newline))
  <2>1. /\ Mark \in Seq(C) /\ EndsIn(Mark, Newline)
        /\ Split(Mark, Newline) = <<<<".">>>>
    BY MarkIsALine, Zenon
  <2>2. IsSplitOf(Mark, b, Newline)
    BY <1>3, <2>1, SplitJoint, Zenon
  <2>. QED
    BY <1>7, <2>1, <2>2, Zenon DEF IsSplitOf
<1>. QED
  BY <1>1, <1>6, <1>8, Zenon DEF a, Then

-----------------------------------------------------------------------------
\* The strings that are typed.

TextType == text \in Seq(Letters) /\ pattern \in Seq(Signs)

THEOREM TextTypeCorrect == TextSpec => []TextType
<1>1. TextInit => TextType
  BY DEF TextInit, TextType
<1>2. TextType /\ [TextNext]_textVars => TextType'
  <2>. SUFFICES ASSUME TextType, [TextNext]_textVars PROVE TextType'
    OBVIOUS
  <2>1. CASE UNCHANGED textVars
    BY <2>1 DEF TextType, textVars
  <2>2. ASSUME NEW c \in Letters, text' = Append(text, c), UNCHANGED pattern PROVE TextType'
    BY <2>2 DEF TextType
  <2>3. ASSUME NEW c \in Signs, pattern' = Append(pattern, c), UNCHANGED text PROVE TextType'
    BY <2>3 DEF TextType
  <2>. QED
    BY <2>1, <2>2, <2>3, Zenon DEF TextNext
<1>. QED
  BY <1>1, <1>2, PTL DEF TextSpec

\* What the pattern with one more character at its end takes, the pattern takes.
LEMMA OneMoreGlobs ==
  ASSUME NEW C, NEW s \in Seq(C), NEW p \in Seq(C), Globs(s, OneMore(p))
  PROVE  Globs(s, p)
<1>. DEFINE e == PlainEnd(p)
            m == Len(p)
            n == Len(s)
            q == SubSeq(p, 1, e) \o <<"?", "*">>
<1>0. m \in Nat /\ n \in Nat /\ e \in 0..m /\ \A k \in e + 1..m : p[k] = "*"
  BY PlainEndRight
<1>1. OneMore(p) = IF m < e + 2 THEN p ELSE q
  BY Zenon DEF OneMore, PlainEnd
<1>2. CASE m < e + 2
  BY <1>1, <1>2, Zenon
<1>3. CASE ~(m < e + 2)
  <2>. HIDE DEF e
  <2>1. /\ Len(q) = e + 2 /\ q[e + 1] = "?" /\ q[e + 2] = "*"
        /\ \A j \in 1..e : q[j] = p[j]
    BY <1>0
  <2>. HIDE DEF q, m, n
  <2>2. Globs(s, q)
    BY <1>1, <1>3, Zenon
  <2>3. PICK cut \in [0..Len(q) -> 0..n] :
          /\ cut[0] = 0 /\ cut[Len(q)] = n
          /\ \A j \in 1..Len(q) :
               IF q[j] = "*" THEN cut[j] >= cut[j - 1]
               ELSE cut[j] = cut[j - 1] + 1 /\ q[j] \in {"?", s[cut[j]]}
    BY <2>2, Zenon DEF Globs, n
  <2>. DEFINE new == [j \in 0..m |-> IF j <= e THEN cut[j] ELSE IF j = m THEN n ELSE cut[e]]
  <2>4. e + 2 <= m /\ e \in Nat
    BY <1>0, <1>3
  <2>5. \A j \in 0..e : j \in 0..m /\ j \in 0..Len(q)
    BY <1>0, <2>1
  <2>6. new \in [0..m -> 0..n] /\ \A j \in 0..e : new[j] = cut[j]
    <3>1. \A j \in 0..e : cut[j] \in 0..n
      BY <2>3, <2>5
    <3>2. ASSUME NEW j \in 0..m
          PROVE  (IF j <= e THEN cut[j] ELSE IF j = m THEN n ELSE cut[e]) \in 0..n
      <4>1. j <= e => j \in 0..e
        BY <2>4
      <4>2. e \in 0..e /\ n \in 0..n
        BY <1>0, <2>4
      <4>. QED
        BY <3>1, <4>1, <4>2
    <3>3. \A j \in 0..e : j <= e
      BY <2>4
    <3>. QED
      BY <2>5, <3>2, <3>3
  <2>7. new[m] = n /\ \A j \in e + 1..m - 1 : new[j] = cut[e]
    BY <1>0, <2>4
  <2>. HIDE DEF new
  <2>8. ASSUME NEW j \in 1..m
        PROVE  IF p[j] = "*" THEN new[j] >= new[j - 1]
               ELSE new[j] = new[j - 1] + 1 /\ p[j] \in {"?", s[new[j]]}
    <3>1. CASE j <= e
      <4>1. j \in 1..e /\ j \in 0..e /\ j - 1 \in 0..e /\ j \in 1..Len(q)
        BY <1>0, <2>1, <2>4, <3>1
      <4>2. new[j] = cut[j] /\ new[j - 1] = cut[j - 1] /\ q[j] = p[j]
        BY <2>1, <2>6, <4>1
      <4>3. IF q[j] = "*" THEN cut[j] >= cut[j - 1]
            ELSE cut[j] = cut[j - 1] + 1 /\ q[j] \in {"?", s[cut[j]]}
        BY <2>3, <4>1
      <4>. QED
        BY <4>2, <4>3
    <3>2. CASE ~(j <= e)
      <4>1. p[j] = "*"
        BY <1>0, <2>4, <3>2
      <4>2. j - 1 \in e..m - 1 /\ e \in 0..e /\ cut[e] \in 0..n
        BY <1>0, <2>3, <2>4, <2>5, <3>2
      <4>3. new[j - 1] = cut[e]
        <5>1. j - 1 = e \/ j - 1 \in e + 1..m - 1
          BY <1>0, <2>4, <4>2
        <5>. QED
          BY <2>6, <2>7, <4>2, <5>1
      <4>4. new[j] = cut[e] \/ new[j] = n
        <5>1. j = m \/ j \in e + 1..m - 1
          BY <1>0, <2>4, <3>2
        <5>. QED
          BY <2>7, <5>1
      <4>5. new[j] >= new[j - 1]
        BY <1>0, <4>2, <4>3, <4>4
      <4>. QED
        BY <4>1, <4>5
    <3>. QED
      BY <3>1, <3>2
  <2>9. new[0] = 0
    <3>1. 0 \in 0..e
      BY <2>4
    <3>. QED
      BY <2>3, <2>6, <3>1
  <2>. QED
    BY <2>6, <2>7, <2>8, <2>9, Zenon DEF Globs, m, n
<1>. QED
  BY <1>2, <1>3

\* match and rfind of base/fastring.cc answer as SearchRight says, for all strings:
\* match takes no text that a cut of it does not take, and each that leaves one
\* more character to two or more stars at the end of the pattern.
THEOREM SearchCorrect == TextSpec => []SearchRight
<1>1. ASSUME TextType PROVE SearchRight
  <2>. DEFINE C == Letters \cup Signs
  <2>1. text \in Seq(C) /\ pattern \in Seq(C)
    BY <1>1 DEF TextType
  <2>. HIDE DEF C
  <2>. QED
    <3>1. Match(text, pattern) = Globs(text, OneMore(pattern))
      BY <2>1, MatchRight
    <3>2. Globs(text, OneMore(pattern)) => Globs(text, pattern)
      BY <2>1, OneMoreGlobs
    <3>. QED
      BY <2>1, <3>1, <3>2, RfindRight, Zenon DEF SearchRight
<1>. QED
  BY <1>1, TextTypeCorrect, PTL

\* A full buffer that ends in a line end is cut behind a whole line, whatever it
\* holds, and memcpy does not copy to a place that it copies from.
THEOREM BufferCorrect == TextSpec => []BufferRight
<1>1. ASSUME TextType PROVE BufferRight
  <2>. DEFINE C == Letters \cup {".", Newline}
  <2>1. text \in Seq(C) /\ "." \in C /\ Newline \in C
    BY <1>1 DEF TextType
  <2>. HIDE DEF C
  <2>. QED
    BY <2>1, BufferCut, Zenon
<1>. QED
  BY <1>1, TextTypeCorrect, PTL

-----------------------------------------------------------------------------
\* Flags: the arguments.

FlagType == alphabet \in Alphabets /\ typed \in Seq(UNION Alphabets)

THEOREM FlagTypeCorrect == FlagsSpec => []FlagType
<1>1. FlagsInit => FlagType
  BY DEF FlagsInit, FlagType
<1>2. FlagType /\ [FlagsNext]_flagVars => FlagType'
  <2>. SUFFICES ASSUME FlagType, [FlagsNext]_flagVars PROVE FlagType'
    OBVIOUS
  <2>1. CASE UNCHANGED flagVars
    BY <2>1 DEF FlagType, flagVars
  <2>2. ASSUME NEW c \in alphabet, typed' = Append(typed, c), UNCHANGED alphabet PROVE FlagType'
    <3>1. c \in UNION Alphabets
      BY DEF FlagType
    <3>. QED
      BY <2>2, <3>1 DEF FlagType
  <2>. QED
    BY <2>1, <2>2, Zenon DEF FlagsNext
<1>. QED
  BY <1>1, <1>2, PTL DEF FlagsSpec

LEMMA SliceBetween ==
  ASSUME NEW C, NEW s \in Seq(C), NEW i \in 0..Len(s), NEW e \in i..Len(s)
  PROVE  /\ Slice(s, i, e) \in Seq(C) /\ Len(Slice(s, i, e)) = e - i
         /\ \A d \in 1..e - i : Slice(s, i, e)[d] = s[i + d]
<1>1. Slice(s, i, e) = Part(s, i, e)
  BY DEF Slice, Part
<1>. QED
  BY <1>1, PieceBetween

\* The least of places that n is one of, and no smaller number.
LEMMA LeastIs ==
  ASSUME NEW T, T \subseteq Nat, NEW n \in T, \A y \in T : n <= y
  PROVE  Least(T) = n
<1>1. Min(T) \in T /\ \A y \in T : Min(T) <= y
  BY LeastOf
<1>2. Min(T) \in Nat /\ n \in Nat /\ Min(T) <= n /\ n <= Min(T)
  BY <1>1
<1>3. Min(T) = n
  BY <1>2
<1>. QED
  BY <1>3 DEF Least

\* One character is found where it is.
LEMMA NthOne ==
  ASSUME NEW C, NEW s \in Seq(C), NEW c
  PROVE  Nth(s, <<c>>) = {i \in 0..Len(s) - 1 : s[i + 1] = c}
<1>1. ASSUME NEW i \in 0..Len(s) - 1
      PROVE  Slice(s, i, i + 1) = <<c>> <=> s[i + 1] = c
  <2>1. i \in 0..Len(s) /\ i + 1 \in i..Len(s) /\ 1 \in 1..(i + 1) - i /\ (i + 1) - i = 1
    OBVIOUS
  <2>2. /\ Slice(s, i, i + 1) \in Seq(C) /\ Len(Slice(s, i, i + 1)) = 1
        /\ Slice(s, i, i + 1)[1] = s[i + 1]
    BY <2>1, SliceBetween
  <2>. QED
    BY <2>2
<1>2. Len(<<c>>) = 1
  OBVIOUS
<1>. QED
  BY <1>1, <1>2 DEF Nth

LEMMA StripLeftIs ==
  ASSUME NEW C, NEW s \in Seq(C), NEW cs
  PROVE  \E b \in 0..Len(s) :
           /\ StripLeft(s, cs) = Slice(s, b, Len(s))
           /\ b < Len(s) => s[b + 1] \notin cs
           /\ \A i \in 0..b - 1 : s[i + 1] \in cs
<1>. DEFINE T == {i \in 0..Len(s) : i = Len(s) \/ Char(s, i) \notin cs}
            b == Min(T)
<1>1. T \subseteq Nat /\ T # {}
  <2>1. Len(s) \in T
    OBVIOUS
  <2>. QED
    BY <2>1
<1>2. b \in T /\ \A y \in T : b <= y
  <2>. HIDE DEF T
  <2>. QED
    BY <1>1, LeastOf
<1>3. \A i \in 0..b - 1 : s[i + 1] \in cs
  <2>. TAKE i \in 0..b - 1
  <2>1. i \in 0..Len(s) /\ i < b
    BY <1>2
  <2>2. i \notin T
    <3>1. b \in Nat
      BY <1>1, <1>2
    <3>. HIDE DEF T, b
    <3>. QED
      BY <1>2, <2>1, <3>1
  <2>. QED
    BY <2>1, <2>2 DEF Char
<1>4. b \in 0..Len(s) /\ (b < Len(s) => s[b + 1] \notin cs)
  BY <1>2 DEF Char
<1>5. StripLeft(s, cs) = Slice(s, b, Len(s))
  BY DEF StripLeft
<1>. HIDE DEF b
<1>. QED
  BY <1>3, <1>4, <1>5

LEMMA ArgsHold ==
  ASSUME NEW C, typed \in Seq(C)
  PROVE  ArgsRight
<1>. DEFINE s == typed
<1>. SUFFICES ASSUME NEW n \in 0..Len(s), n < Len(s), Char(s, n) = "=",
                     "=" \notin ToSet(StripLeft(Slice(s, 0, n), {"-"}))
              PROVE  ParseArg(s) = IF StripLeft(Slice(s, 0, n), {"-"}) = <<>> THEN <<"invalid">>
                                   ELSE <<"set", StripLeft(Slice(s, 0, n), {"-"}), Slice(s, n + 1, Len(s))>>
  BY DEF ArgsRight
<1>. DEFINE u == Slice(s, 0, n)
            name == StripLeft(u, {"-"})
<1>1. u \in Seq(C) /\ Len(u) = n /\ \A d \in 1..n : u[d] = s[d]
  <2>1. 0 \in 0..Len(s) /\ n \in 0..Len(s) /\ n - 0 = n /\ \A d \in 1..n : 0 + d = d
    OBVIOUS
  <2>2. u \in Seq(C) /\ Len(u) = n - 0 /\ \A d \in 1..n - 0 : u[d] = s[0 + d]
    BY <2>1, SliceBetween
  <2>. HIDE DEF u
  <2>. QED
    BY <2>1, <2>2
<1>2. PICK b \in 0..n : /\ name = Slice(u, b, n)
                        /\ b < n => u[b + 1] \notin {"-"}
                        /\ \A i \in 0..b - 1 : u[i + 1] \in {"-"}
  <2>. HIDE DEF u
  <2>. QED
    BY <1>1, StripLeftIs
<1>3. name \in Seq(C) /\ Len(name) = n - b /\ \A d \in 1..n - b : name[d] = s[b + d]
  <2>1. /\ Slice(u, b, n) \in Seq(C) /\ Len(Slice(u, b, n)) = n - b
        /\ \A d \in 1..n - b : Slice(u, b, n)[d] = u[b + d]
    <3>1. b \in 0..Len(u) /\ n \in b..Len(u)
      BY <1>1
    <3>. HIDE DEF u
    <3>. QED
      BY <1>1, <3>1, SliceBetween
  <2>2. \A d \in 1..n - b : b + d \in 1..n
    OBVIOUS
  <2>. HIDE DEF u, name
  <2>. QED
    BY <1>1, <1>2, <2>1, <2>2
<1>4. \A i \in 0..b - 1 : s[i + 1] = "-"
  <2>. HIDE DEF u, name
  <2>. QED
    BY <1>1, <1>2
<1>5. s[n + 1] = "="
  BY DEF Char
<1>6. \A i \in b..n - 1 : s[i + 1] # "="
  <2>. TAKE i \in b..n - 1
  <2>1. i + 1 - b \in 1..n - b /\ b + (i + 1 - b) = i + 1
    OBVIOUS
  <2>2. name[i + 1 - b] \in ToSet(name)
    <3>1. i + 1 - b \in DOMAIN name
      BY <1>3, <2>1
    <3>. HIDE DEF name
    <3>. QED
      BY <3>1 DEF ToSet
  <2>3. "=" \notin ToSet(name)
    OBVIOUS
  <2>. HIDE DEF name, u
  <2>. QED
    BY <1>3, <2>1, <2>2, <2>3
<1>7. s[b + 1] # "-"
  <2>. HIDE DEF u, name
  <2>. QED
    BY <1>1, <1>2, <1>5
<1>8. Least({i \in 0..Len(s) - 1 : Char(s, i) # "-"}) = b
  <2>. DEFINE T == {i \in 0..Len(s) - 1 : Char(s, i) # "-"}
  <2>1. T \subseteq Nat /\ b \in T /\ \A y \in T : b <= y
    BY <1>4, <1>7 DEF Char
  <2>2. Least(T) = b
    <3>. HIDE DEF T
    <3>. QED
      BY <2>1, LeastIs
  <2>. QED
    BY <2>2
<1>9. Least(Nth(s, <<"=">>)) = n
  <2>. DEFINE T == {i \in 0..Len(s) - 1 : s[i + 1] = "="}
  <2>1. T \subseteq Nat /\ n \in T /\ \A y \in T : n <= y
    <3>1. ASSUME NEW y \in T, y < n PROVE FALSE
      <4>1. y \in 0..b - 1 \/ y \in b..n - 1
        BY <3>1
      <4>. QED
        BY <1>4, <1>6, <3>1, <4>1
    <3>. QED
      BY <1>5, <3>1
  <2>2. Nth(s, <<"=">>) = T
    BY NthOne
  <2>. HIDE DEF T
  <2>. QED
    BY <2>1, <2>2, LeastIs
<1>10. n \in 0..b <=> name = <<>>
  <2>. HIDE DEF name, u
  <2>. QED
    BY <1>3
<1>11. Slice(s, b, n) = name
  <2>1. /\ Slice(s, b, n) \in Seq(C) /\ Len(Slice(s, b, n)) = n - b
        /\ \A d \in 1..n - b : Slice(s, b, n)[d] = s[b + d]
    <3>1. b \in 0..Len(s) /\ n \in b..Len(s)
      OBVIOUS
    <3>. QED
      BY <3>1, SliceBetween
  <2>. HIDE DEF name, u
  <2>. QED
    BY <1>3, <2>1
<1>12. b # Absence /\ n # Absence
  BY DEF Absence
<1>. HIDE DEF name
<1>13. ParseArg(s) = IF name = <<>> THEN <<"invalid">> ELSE <<"set", name, Slice(s, n + 1, Len(s))>>
  BY <1>8, <1>9, <1>10, <1>11, <1>12, Zenon DEF ParseArg
<1>. QED
  BY <1>13 DEF name, u

\* Dashes in front do not matter: an argument is cut at its first =, and refused
\* when there is no name in front of it (analyze_args of base/flag.cc).
THEOREM ArgsCorrect == FlagsSpec => []ArgsRight
<1>1. FlagType => ArgsRight
  BY ArgsHold DEF FlagType
<1>. QED
  BY <1>1, FlagTypeCorrect, PTL

-----------------------------------------------------------------------------
\* Flags: quotes.

\* The marks c in front of position k, and whether their number is odd.
MarksBefore(s, c, k) == {i \in {j \in 0..Len(s) - 1 : Char(s, j) = c} : i < k}
Odd(s, c, k) == Cardinality(MarksBefore(s, c, k)) % 2 = 1

LEMMA OddAt0 ==
  ASSUME NEW s, NEW c
  PROVE  ~Odd(s, c, 0)
<1>1. MarksBefore(s, c, 0) = {}
  BY DEF MarksBefore
<1>2. Cardinality(MarksBefore(s, c, 0)) = 0
  BY <1>1, FS_EmptySet
<1>. QED
  BY <1>2 DEF Odd

\* A mark makes an odd number of an even one, and the other way round.
LEMMA OddNext ==
  ASSUME NEW s, Len(s) \in Nat, NEW c, NEW k \in 0..Len(s) - 1
  PROVE  Odd(s, c, k + 1) <=> (Odd(s, c, k) <=> Char(s, k) # c)
<1>. DEFINE M == MarksBefore(s, c, k)
<1>1. IsFiniteSet(M)
  <2>1. IsFiniteSet(0..Len(s) - 1)
    BY FS_Interval
  <2>2. M \subseteq 0..Len(s) - 1
    BY DEF MarksBefore
  <2>. HIDE DEF M
  <2>. QED
    BY <2>1, <2>2, FS_Subset
<1>2. Cardinality(M) \in Nat
  <2>. HIDE DEF M
  <2>. QED
    BY <1>1, FS_CardinalityType
<1>3. CASE Char(s, k) # c
  <2>1. MarksBefore(s, c, k + 1) = M
    BY <1>3 DEF MarksBefore
  <2>. QED
    BY <1>3, <2>1 DEF Odd
<1>4. CASE Char(s, k) = c
  <2>1. MarksBefore(s, c, k + 1) = M \cup {k} /\ k \notin M
    BY <1>4 DEF MarksBefore
  <2>2. Cardinality(M \cup {k}) = Cardinality(M) + 1
    <3>. HIDE DEF M
    <3>. QED
      BY <1>1, <2>1, FS_AddElement
  <2>3. Cardinality(MarksBefore(s, c, k + 1)) = Cardinality(M) + 1
    BY <2>1, <2>2
  <2>4. \A y \in Nat : (y + 1) % 2 = 1 <=> y % 2 # 1
    OBVIOUS
  <2>. HIDE DEF M
  <2>5. (Cardinality(M) + 1) % 2 = 1 <=> Cardinality(M) % 2 # 1
    BY <1>2, <2>4
  <2>. QED
    BY <1>4, <2>3, <2>5 DEF Odd, M
<1>. QED
  BY <1>3, <1>4

\* Between two quotation marks.
LEMMA BetweenIs ==
  ASSUME NEW s, Len(s) \in Nat, NEW c, NEW k \in 0..Len(s) - 1
  PROVE  k \in Between(s, c) <=> Odd(s, c, k) /\ \E i \in k + 1..Len(s) - 1 : Char(s, i) = c
<1>1. k \in Between(s, c) <=>
        Odd(s, c, k) /\ \E i \in {j \in 0..Len(s) - 1 : Char(s, j) = c} : i > k
  BY Zenon DEF Between, Odd, MarksBefore
<1>. QED
  BY <1>1

\* The recursion over the marks, unfolded once.
NoMarks == [x |-> "", y |-> ""]

LEMMA MarksUnfold ==
  ASSUME NEW s, Len(s) \in Nat, NEW i \in 0..Len(s)
  PROVE  \A k \in i..Len(s) :
           MarksFrom(s, i)[k] = IF k = i THEN NoMarks ELSE MarksOpen(MarksFrom(s, i)[k - 1], Char(s, k - 1))
<1>. DEFINE T == [x : Quotes \cup {""}, y : Quotes \cup {""}]
            step == [k \in i + 1..Len(s) |-> [q \in T |-> MarksOpen(q, Char(s, k - 1))]]
            Good(f) == f = [k \in i..Len(s) |->
                              IF k = i THEN NoMarks ELSE MarksOpen(f[k - 1], Char(s, k - 1))]
<1>1. NoMarks \in T
  BY DEF NoMarks
<1>2. \A q \in T : \A c : MarksOpen(q, c) \in T
  BY DEF MarksOpen
<1>3. step \in [i + 1..Len(s) -> [T -> T]]
  <2>. HIDE DEF T
  <2>. QED
    BY <1>2
<1>4. i \in Nat
  OBVIOUS
<1>5. PICK f \in [i..Len(s) -> T] : Steps(f, i, Len(s), NoMarks, step)
  <2>. HIDE DEF T, step
  <2>. QED
    BY <1>1, <1>3, <1>4, StepByStep
<1>6. Good(f)
  <2>1. ASSUME NEW k \in i..Len(s), k # i
        PROVE  step[k][f[k - 1]] = MarksOpen(f[k - 1], Char(s, k - 1))
    <3>. HIDE DEF T, step, Good
    <3>1. k \in i + 1..Len(s) /\ k - 1 \in i..Len(s)
      BY <2>1
    <3>. USE DEF step
    <3>. QED
      BY <3>1
  <2>. HIDE DEF T, step
  <2>. QED
    BY <1>5, <2>1, Zenon DEF Steps
<1>7. MarksFrom(s, i) = CHOOSE g : Good(g)
  BY Zenon DEF MarksFrom, NoMarks
<1>8. Good(MarksFrom(s, i))
  <2>. HIDE DEF Good
  <2>. QED
    BY <1>6, <1>7, Zenon
<1>. QED
  BY <1>8, Zenon

\* With one kind of marks, they are open where the number of marks is odd.
LEMMA MarksAre ==
  ASSUME NEW s, Len(s) \in Nat, NEW c \in Quotes,
         \A k \in 0..Len(s) - 1 : Char(s, k) \in Quotes => Char(s, k) = c,
         NEW i \in 0..Len(s), ~Odd(s, c, i)
  PROVE  \A k \in i..Len(s) :
           MarksFrom(s, i)[k] = [x |-> IF Odd(s, c, k) THEN c ELSE "", y |-> ""]
<1>. DEFINE Is(k) == [x |-> IF Odd(s, c, k) THEN c ELSE "", y |-> ""]
            Fine == {k \in Nat : MarksFrom(s, i)[k] = Is(k)}
<1>1. i \in Fine
  <2>1. i \in i..Len(s) /\ i \in Nat
    OBVIOUS
  <2>2. MarksFrom(s, i)[i] = NoMarks
    BY <2>1, MarksUnfold, Zenon
  <2>3. Is(i) = NoMarks
    BY DEF NoMarks
  <2>. QED
    BY <2>1, <2>2, <2>3, Zenon
<1>2. ASSUME NEW k \in i + 1..Len(s), k - 1 \in Fine PROVE k \in Fine
  <2>1. k \in i..Len(s) /\ k # i /\ k - 1 \in 0..Len(s) - 1 /\ (k - 1) + 1 = k /\ k \in Nat
    OBVIOUS
  <2>2. MarksFrom(s, i)[k] = MarksOpen(MarksFrom(s, i)[k - 1], Char(s, k - 1))
    BY <2>1, MarksUnfold
  <2>3. MarksFrom(s, i)[k - 1] = Is(k - 1)
    BY <1>2
  <2>4. Odd(s, c, k) <=> (Odd(s, c, k - 1) <=> Char(s, k - 1) # c)
    BY <2>1, OddNext
  <2>5. Char(s, k - 1) \in Quotes => Char(s, k - 1) = c
    BY <2>1
  <2>6. c # ""
    BY DEF Quotes, Single, Double
  <2>. HIDE DEF Is
  <2>7. MarksOpen(Is(k - 1), Char(s, k - 1)) = Is(k)
    <3>1. CASE Char(s, k - 1) = c
      <4>1. MarksOpen(Is(k - 1), c) =
              IF c = Is(k - 1).x THEN NoMarks
              ELSE IF c = Is(k - 1).y THEN [x |-> Is(k - 1).x, y |-> ""]
              ELSE IF Is(k - 1).x = "" THEN [x |-> c, y |-> Is(k - 1).y] ELSE [x |-> Is(k - 1).x, y |-> c]
        BY DEF MarksOpen, NoMarks
      <4>2. CASE Odd(s, c, k - 1)
        <5>1. Is(k - 1).x = c /\ Is(k) = NoMarks
          BY <2>4, <3>1, <4>2 DEF Is, NoMarks
        <5>. QED
          BY <3>1, <4>1, <5>1
      <4>3. CASE ~Odd(s, c, k - 1)
        <5>1. Is(k - 1) = NoMarks /\ Is(k) = [x |-> c, y |-> ""]
          BY <2>4, <3>1, <4>3 DEF Is, NoMarks
        <5>2. NoMarks.x = "" /\ NoMarks.y = ""
          BY DEF NoMarks
        <5>. QED
          BY <2>6, <3>1, <4>1, <5>1, <5>2
      <4>. QED
        BY <4>2, <4>3
    <3>2. CASE Char(s, k - 1) # c
      <4>1. Char(s, k - 1) \notin Quotes
        BY <2>5, <3>2
      <4>2. Is(k) = Is(k - 1)
        BY <2>4, <3>2 DEF Is
      <4>. QED
        BY <4>1, <4>2 DEF MarksOpen
    <3>. QED
      BY <3>1, <3>2
  <2>8. MarksFrom(s, i)[k] = Is(k)
    BY <2>2, <2>3, <2>7
  <2>. QED
    BY <2>1, <2>8
<1>3. i..Len(s) \subseteq Fine
  <2>1. i \in Nat
    OBVIOUS
  <2>. HIDE DEF Fine
  <2>. QED
    BY <1>1, <1>2, <2>1, Along
<1>. QED
  BY <1>3

\* The recursion of find_not_in_qm, unfolded once.
NextPlace(s, sub, i) == Least({j \in Nth(s, sub) : j >= i})
Closing(s, sub, i) ==
  LET p == NextPlace(s, sub, i)
      q == MarksFrom(s, i)[p + 1]
  IN  {j \in p + Len(sub)..Len(s) - 1 : Char(s, j) \in Quotes \cap {q.x, q.y}}

FindStep(g, s, sub, i) ==
  IF \/ NextPlace(s, sub, i) = Absence
     \/ MarksFrom(s, i)[NextPlace(s, sub, i) + 1].x = ""
     \/ Closing(s, sub, i) = {}
  THEN NextPlace(s, sub, i) ELSE g[Min(Closing(s, sub, i)) + 1]

LEMMA NextPlaceIs ==
  ASSUME NEW s, Len(s) \in Nat, NEW sub, Len(sub) \in Nat, NEW i \in 0..Len(s)
  PROVE  \/ NextPlace(s, sub, i) = Absence /\ \A j \in Nth(s, sub) : j < i
         \/ /\ NextPlace(s, sub, i) \in Nth(s, sub)
            /\ NextPlace(s, sub, i) \in i..Len(s) - Len(sub)
            /\ \A j \in Nth(s, sub) : j >= i => NextPlace(s, sub, i) <= j
<1>. DEFINE T == {j \in Nth(s, sub) : j >= i}
<1>1. Nth(s, sub) \subseteq 0..Len(s) - Len(sub)
  BY DEF Nth
<1>2. NextPlace(s, sub, i) = Least(T)
  BY Zenon DEF NextPlace
<1>3. CASE T = {}
  <2>1. Least(T) = Absence
    <3>. HIDE DEF T
    <3>. QED
      BY <1>3 DEF Least
  <2>2. \A j \in Nth(s, sub) : j < i
    BY <1>1, <1>3
  <2>. QED
    BY <1>2, <2>1, <2>2
<1>4. CASE T # {}
  <2>1. T \subseteq Nat
    BY <1>1
  <2>2. Least(T) = Min(T) /\ Min(T) \in T /\ \A y \in T : Min(T) <= y
    <3>. HIDE DEF T
    <3>. QED
      BY <1>4, <2>1, LeastOf DEF Least
  <2>3. Min(T) \in Nth(s, sub) /\ Min(T) >= i
    BY <2>2
  <2>4. \A j \in Nth(s, sub) : j >= i => Min(T) <= j
    BY <2>2
  <2>. HIDE DEF T
  <2>5. Min(T) \in i..Len(s) - Len(sub)
    BY <1>1, <2>3
  <2>. QED
    BY <1>2, <2>2, <2>3, <2>4, <2>5
<1>. QED
  BY <1>3, <1>4

LEMMA ClosingIs ==
  ASSUME NEW s, Len(s) \in Nat, NEW sub, Len(sub) \in Nat, NEW i \in 0..Len(s),
         NextPlace(s, sub, i) # Absence, Closing(s, sub, i) # {}
  PROVE  /\ Min(Closing(s, sub, i)) \in Closing(s, sub, i)
         /\ \A e \in Closing(s, sub, i) : Min(Closing(s, sub, i)) <= e
         /\ Min(Closing(s, sub, i)) \in NextPlace(s, sub, i) + Len(sub)..Len(s) - 1
         /\ Min(Closing(s, sub, i)) + 1 \in i + 1..Len(s)
<1>1. NextPlace(s, sub, i) \in i..Len(s) - Len(sub)
  BY NextPlaceIs
<1>2. Closing(s, sub, i) \subseteq NextPlace(s, sub, i) + Len(sub)..Len(s) - 1
  BY Zenon DEF Closing
<1>3. Closing(s, sub, i) \subseteq Nat
  BY <1>1, <1>2
<1>4. /\ Min(Closing(s, sub, i)) \in Closing(s, sub, i)
      /\ \A e \in Closing(s, sub, i) : Min(Closing(s, sub, i)) <= e
  BY <1>3, LeastOf
<1>. QED
  BY <1>1, <1>2, <1>4

LEMMA FindUnfold ==
  ASSUME NEW s, Len(s) \in Nat, NEW sub, Len(sub) \in Nat
  PROVE  \A i \in 0..Len(s) : FindFrom(s, sub)[i] = FindStep(FindFrom(s, sub), s, sub, i)
<1>. DEFINE n == Len(s)
            S == 0..n
            T == Nat \cup {Absence}
            Goes(k) == /\ NextPlace(s, sub, k) # Absence
                       /\ Closing(s, sub, k) # {}
            To(k) == Min(Closing(s, sub, k)) + 1
            Delta == [g \in [S -> T] |-> [k \in S |-> FindStep(g, s, sub, k)]]
            rank == [k \in S |-> n - k]
            Good(f) == f = [k \in 0..Len(s) |-> FindStep(f, s, sub, k)]
<1>1. ASSUME NEW k \in S, Goes(k) PROVE To(k) \in S /\ n - To(k) < n - k
  <2>1. To(k) \in k + 1..n
    BY <1>1, ClosingIs
  <2>. HIDE DEF To
  <2>. QED
    BY <2>1
<1>2. ASSUME NEW k \in S PROVE NextPlace(s, sub, k) \in T
  BY NextPlaceIs
<1>3. ASSUME NEW g, NEW k \in S
      PROVE  FindStep(g, s, sub, k) =
               IF Goes(k) /\ MarksFrom(s, k)[NextPlace(s, sub, k) + 1].x # ""
               THEN g[To(k)] ELSE NextPlace(s, sub, k)
  BY Zenon DEF FindStep
<1>4. Delta \in [[S -> T] -> [S -> T]]
  <2>1. ASSUME NEW g \in [S -> T], NEW k \in S PROVE FindStep(g, s, sub, k) \in T
    <3>. HIDE DEF Goes, To, T, S
    <3>. QED
      BY <1>1, <1>2, <1>3, Zenon
  <2>. HIDE DEF S, T
  <2>. QED
    BY <2>1, Zenon
<1>5. LooksDown(Delta, rank, n, S, T)
  <2>1. \A g, h \in [S -> T] : \A x \in S :
          (\A y \in S : rank[y] < rank[x] => g[y] = h[y]) => Delta[g][x] = Delta[h][x]
    <3>. TAKE g, h \in [S -> T]
    <3>. TAKE x \in S
    <3>. HAVE \A y \in S : rank[y] < rank[x] => g[y] = h[y]
    <3>1. Goes(x) => g[To(x)] = h[To(x)]
      <4>. HAVE Goes(x)
      <4>1. To(x) \in S /\ n - To(x) < n - x
        BY <1>1
      <4>2. rank[To(x)] < rank[x]
        <5>. HIDE DEF S, To, n, Goes
        <5>. QED
          BY <4>1
      <4>. HIDE DEF S, To, rank
      <4>. QED
        BY <4>1, <4>2
    <3>. HIDE DEF Goes, To, S, T
    <3>2. FindStep(g, s, sub, x) = FindStep(h, s, sub, x)
      BY <1>3, <3>1, Zenon
    <3>. QED
      BY <3>2, Zenon
  <2>2. rank \in [S -> 0..n]
    OBVIOUS
  <2>3. T # {}
    OBVIOUS
  <2>. HIDE DEF Delta, rank, S, T
  <2>. QED
    BY <1>4, <2>1, <2>2, <2>3 DEF LooksDown
<1>6. PICK f \in [S -> T] : f = Delta[f]
  <2>. HIDE DEF Delta, rank, S, T, n
  <2>. QED
    BY <1>5, RecursiveFunction
<1>7. Good(f)
  <2>. HIDE DEF T
  <2>. QED
    BY <1>6, Zenon
<1>8. FindFrom(s, sub) = CHOOSE g : Good(g)
  BY Zenon DEF FindFrom, FindStep, NextPlace, Closing
<1>9. Good(FindFrom(s, sub))
  <2>. HIDE DEF Good
  <2>. QED
    BY <1>7, <1>8, Zenon
<1>. QED
  BY <1>9, Zenon

\* Where sub is, there is no mark.
LEMMA NthPlain ==
  ASSUME NEW C, NEW s \in Seq(C), NEW sub, Len(sub) \in Nat, NEW c,
         \A d \in 1..Len(sub) : sub[d] # c, NEW j \in Nth(s, sub)
  PROVE  j \in 0..Len(s) - Len(sub) /\ \A l \in j..j + Len(sub) - 1 : Char(s, l) # c
<1>1. j \in 0..Len(s) - Len(sub) /\ Slice(s, j, j + Len(sub)) = sub
  BY DEF Nth
<1>2. \A d \in 1..Len(sub) : sub[d] = s[j + d]
  <2>1. j \in 0..Len(s) /\ j + Len(sub) \in j..Len(s) /\ (j + Len(sub)) - j = Len(sub)
    BY <1>1
  <2>2. \A d \in 1..(j + Len(sub)) - j : Slice(s, j, j + Len(sub))[d] = s[j + d]
    BY <2>1, SliceBetween
  <2>. QED
    BY <1>1, <2>1, <2>2
<1>3. ASSUME NEW l \in j..j + Len(sub) - 1 PROVE Char(s, l) # c
  <2>1. l - j + 1 \in 1..Len(sub) /\ j + (l - j + 1) = l + 1
    BY <1>1
  <2>2. sub[l - j + 1] = s[l + 1]
    BY <1>2, <2>1
  <2>. QED
    BY <2>1, <2>2 DEF Char
<1>. QED
  BY <1>1, <1>3

LEMMA FieldsOf ==
  ASSUME NEW q, NEW a, NEW b, q = [x |-> a, y |-> b]
  PROVE  q.x = a /\ q.y = b
OBVIOUS

\* From a position outside of quotes on, the first place outside of them is found.
LEMMA FindOutside ==
  ASSUME NEW C, NEW s \in Seq(C), NEW c \in Quotes,
         \A k \in 0..Len(s) - 1 : Char(s, k) \in Quotes => Char(s, k) = c,
         NEW sub, Len(sub) \in Nat \ {0}, \A d \in 1..Len(sub) : sub[d] # c
  PROVE  \A i \in 0..Len(s) : ~Odd(s, c, i) =>
           FindFrom(s, sub)[i] = Least({j \in Nth(s, sub) : j >= i} \ Between(s, c))
<1>. DEFINE n == Len(s)
            m == Len(sub)
            F == FindFrom(s, sub)
            Out(i) == {j \in Nth(s, sub) : j >= i} \ Between(s, c)
            Fine == {d \in Nat : d <= n /\ ~Odd(s, c, n - d) => F[n - d] = Least(Out(n - d))}
<1>0. n \in Nat /\ m \in Nat /\ m >= 1
  OBVIOUS
<1>1. ASSUME NEW i \in 0..n, ~Odd(s, c, i),
             \A e \in i + 1..n : ~Odd(s, c, e) => F[e] = Least(Out(e))
      PROVE  F[i] = Least(Out(i))
  <2>. DEFINE p == NextPlace(s, sub, i)
  <2>1. F[i] = FindStep(F, s, sub, i)
    BY <1>0, FindUnfold
  <2>2. CASE p = Absence
    <3>1. \A j \in Nth(s, sub) : j < i
      <4>1. i \in Nat /\ \A j \in i..n - m : j # Absence
        BY DEF Absence
      <4>. QED
        BY <1>0, <2>2, <4>1, NextPlaceIs
    <3>2. \A j \in Nth(s, sub) : j \in Nat
      BY <1>0 DEF Nth
    <3>3. Out(i) = {}
      BY <3>1, <3>2
    <3>4. Least(Out(i)) = Absence
      <4>. HIDE DEF Out
      <4>. QED
        BY <3>3 DEF Least
    <3>5. F[i] = Absence
      <4>. HIDE DEF F
      <4>. QED
        BY <2>1, <2>2 DEF FindStep
    <3>. QED
      BY <3>4, <3>5
  <2>3. CASE p # Absence
    <3>1. p \in Nth(s, sub) /\ p \in i..n - m /\ \A j \in Nth(s, sub) : j >= i => p <= j
      BY <1>0, <2>3, NextPlaceIs
    <3>2. p \in Nat /\ p + m <= n /\ p \in 0..n - 1 /\ p + 1 \in i..n
      BY <1>0, <3>1
    <3>3. \A l \in p..p + m - 1 : Char(s, l) # c
      BY <1>0, <3>1, NthPlain
    <3>4. Odd(s, c, p + 1) <=> Odd(s, c, p)
      <4>1. Char(s, p) # c
        BY <1>0, <3>2, <3>3
      <4>. QED
        BY <1>0, <3>2, <4>1, OddNext
    <3>5. MarksFrom(s, i)[p + 1] = [x |-> IF Odd(s, c, p) THEN c ELSE "", y |-> ""]
      BY <1>0, <1>1, <3>2, <3>4, MarksAre
    <3>6. ASSUME p \notin Between(s, c) PROVE Least(Out(i)) = p
      <4>1. Out(i) \subseteq Nat /\ p \in Out(i) /\ \A j \in Out(i) : p <= j
        BY <1>0, <3>1, <3>6 DEF Nth
      <4>. HIDE DEF Out, p
      <4>. QED
        BY <4>1, LeastIs
    <3>7. CASE ~Odd(s, c, p)
      <4>1. p \notin Between(s, c)
        BY <1>0, <3>2, <3>7, BetweenIs
      <4>2. MarksFrom(s, i)[p + 1].x = "" /\ MarksFrom(s, i)[p + 1].y = ""
        <5>1. MarksFrom(s, i)[p + 1] = [x |-> "", y |-> ""]
          BY <3>5, <3>7, Zenon
        <5>. QED
          BY <5>1, FieldsOf, Zenon
      <4>3. F[i] = p
        <5>. HIDE DEF F
        <5>. QED
          BY <2>1, <4>2 DEF FindStep
      <4>. QED
        BY <3>6, <4>1, <4>3
    <3>8. CASE Odd(s, c, p)
      <4>1. MarksFrom(s, i)[p + 1].x = c /\ MarksFrom(s, i)[p + 1].y = "" /\ c # ""
        <5>1. MarksFrom(s, i)[p + 1] = [x |-> c, y |-> ""]
          BY <3>5, <3>8, Zenon
        <5>2. c # ""
          BY DEF Quotes, Single, Double
        <5>. QED
          BY <5>1, <5>2, FieldsOf, Zenon
      <4>2. Closing(s, sub, i) = {j \in p + m..n - 1 : Char(s, j) = c}
        <5>1. Quotes \cap {c, ""} = {c}
          BY DEF Quotes, Single, Double
        <5>2. Closing(s, sub, i) = {j \in p + m..n - 1 : Char(s, j) \in Quotes \cap {c, ""}}
          BY <4>1, Zenon DEF Closing
        <5>. QED
          BY <5>1, <5>2
      <4>3. CASE Closing(s, sub, i) = {}
        <5>1. \A k \in p + 1..n - 1 : Char(s, k) # c
          <6>. TAKE k \in p + 1..n - 1
          <6>1. k \in p..p + m - 1 \/ k \in p + m..n - 1
            BY <1>0, <3>2
          <6>. QED
            BY <3>3, <4>2, <4>3, <6>1
        <5>2. p \notin Between(s, c)
          BY <1>0, <3>2, <5>1, BetweenIs
        <5>3. F[i] = p
          <6>. HIDE DEF F
          <6>. QED
            BY <2>1, <4>3 DEF FindStep
        <5>. QED
          BY <3>6, <5>2, <5>3
      <4>4. CASE Closing(s, sub, i) # {}
        <5>. DEFINE e == Min(Closing(s, sub, i))
        <5>1. /\ e \in Closing(s, sub, i)
              /\ \A k \in Closing(s, sub, i) : e <= k
              /\ e \in p + m..n - 1 /\ e + 1 \in i + 1..n
          BY <1>0, <2>3, <4>4, ClosingIs
        <5>2. F[i] = F[e + 1]
          <6>. HIDE DEF F
          <6>. QED
            BY <2>1, <2>3, <4>1, <4>4 DEF FindStep
        <5>. HIDE DEF e
        <5>3. Char(s, e) = c
          BY <4>2, <5>1
        <5>4. \A k \in p..e - 1 : Char(s, k) # c
          <6>. TAKE k \in p..e - 1
          <6>1. k \in p..p + m - 1 \/ (k \in p + m..n - 1 /\ ~(e <= k))
            BY <1>0, <3>2, <5>1
          <6>. QED
            BY <3>3, <4>2, <5>1, <6>1
        <5>5. \A k \in p..e : Odd(s, c, k)
          <6>. DEFINE Odds == {k \in Nat : Odd(s, c, k)}
          <6>1. p \in Odds
            BY <3>2, <3>8
          <6>2. ASSUME NEW k \in p + 1..e, k - 1 \in Odds PROVE k \in Odds
            <7>1. /\ k - 1 \in 0..n - 1 /\ k - 1 \in p..e - 1 /\ (k - 1) + 1 = k /\ k \in Nat
              BY <1>0, <3>2, <5>1
            <7>2. Odd(s, c, k) <=> (Odd(s, c, k - 1) <=> Char(s, k - 1) # c)
              BY <1>0, <7>1, OddNext
            <7>. QED
              BY <5>4, <6>2, <7>1, <7>2
          <6>3. e \in Nat
            BY <1>0, <3>2, <5>1
          <6>4. p..e \subseteq Odds
            <7>. HIDE DEF Odds, p
            <7>. QED
              BY <3>2, <6>1, <6>2, <6>3, Along
          <6>. QED
            BY <6>4
        <5>6. ~Odd(s, c, e + 1)
          <6>1. e \in 0..n - 1 /\ e \in p..e
            BY <1>0, <3>2, <5>1
          <6>. QED
            BY <1>0, <5>3, <5>5, <6>1, OddNext
        <5>7. Out(i) = Out(e + 1)
          <6>1. ASSUME NEW j \in Nth(s, sub), j >= i, j \notin Between(s, c) PROVE j >= e + 1
            <7>1. j \in 0..n - m /\ p <= j /\ Char(s, j) # c
              <8>1. j \in 0..n - m /\ \A l \in j..j + m - 1 : Char(s, l) # c
                BY <1>0, NthPlain
              <8>2. j \in j..j + m - 1
                BY <1>0, <8>1
              <8>. QED
                BY <3>1, <6>1, <8>1, <8>2
            <7>2. CASE j <= e
              <8>1. j \in p..e /\ e \in Nat /\ j # e
                BY <1>0, <3>2, <5>1, <5>3, <7>1, <7>2
              <8>2. j \in 0..n - 1 /\ e \in j + 1..n - 1
                BY <1>0, <3>2, <5>1, <7>1, <8>1
              <8>3. j \in Between(s, c)
                BY <1>0, <5>3, <5>5, <8>1, <8>2, BetweenIs
              <8>. QED
                BY <6>1, <8>3
            <7>3. CASE ~(j <= e)
              BY <1>0, <3>2, <5>1, <7>1, <7>3
            <7>. QED
              BY <7>2, <7>3
          <6>2. ASSUME NEW j \in Nth(s, sub), j >= e + 1 PROVE j >= i
            <7>1. j \in 0..n - m
              BY DEF Nth
            <7>. QED
              BY <1>0, <5>1, <6>2, <7>1
          <6>. QED
            BY <6>1, <6>2
        <5>8. F[e + 1] = Least(Out(e + 1))
          BY <1>1, <5>1, <5>6
        <5>. HIDE DEF Out, F
        <5>. QED
          BY <5>2, <5>7, <5>8
      <4>. QED
        BY <4>3, <4>4
    <3>. QED
      BY <3>7, <3>8
  <2>. QED
    BY <2>2, <2>3
<1>. HIDE DEF Out, F
<1>2. ASSUME NEW d \in Nat, \A e \in Nat : e < d => e \in Fine PROVE d \in Fine
  <2>1. CASE d <= n /\ ~Odd(s, c, n - d)
    <3>1. n - d \in 0..n
      BY <1>0, <2>1
    <3>2. ASSUME NEW e \in (n - d) + 1..n, ~Odd(s, c, e) PROVE F[e] = Least(Out(e))
      <4>1. n - e \in Nat /\ n - e < d /\ n - e <= n /\ n - (n - e) = e
        BY <1>0, <2>1
      <4>. QED
        BY <1>2, <3>2, <4>1
    <3>3. F[n - d] = Least(Out(n - d))
      BY <1>1, <2>1, <3>1, <3>2
    <3>. QED
      BY <3>3
  <2>. QED
    BY <2>1
<1>3. Nat \subseteq Fine
  <2>. HIDE DEF Fine
  <2>. QED
    BY <1>2, AllNumbers
<1>4. ASSUME NEW i \in 0..n, ~Odd(s, c, i) PROVE F[i] = Least(Out(i))
  <2>1. n - i \in Nat /\ n - i <= n /\ n - (n - i) = i
    BY <1>0
  <2>. QED
    BY <1>3, <1>4, <2>1
<1>. QED
  BY <1>4 DEF F, Out

LEMMA QuotesHold ==
  ASSUME NEW C, typed \in Seq(C)
  PROVE  QuotesRight
<1>. SUFFICES ASSUME NEW sign \in CommentMarks \cup {<<"=">>}, NEW c \in Quotes,
                     QuotesIn(typed) \subseteq {c}
              PROVE  FindNotInQm(typed, sign) = Least(Nth(typed, sign) \ Between(typed, c))
  BY Zenon DEF QuotesRight
<1>1. ASSUME NEW k \in 0..Len(typed) - 1, Char(typed, k) \in Quotes
      PROVE  Char(typed, k) = c
  <2>1. k + 1 \in DOMAIN typed
    OBVIOUS
  <2>2. Char(typed, k) \in ToSet(typed)
    BY <2>1 DEF ToSet, Char
  <2>. QED
    BY <1>1, <2>2 DEF QuotesIn
<1>2. Len(sign) \in Nat \ {0} /\ \A d \in 1..Len(sign) : sign[d] # c
  <2>0. c # "#" /\ c # "=" /\ c # "/"
    BY DEF Quotes, Single, Double
  <2>1. CASE sign = <<"#">>
    <3>1. Len(sign) = 1 /\ \A d \in 1..1 : sign[d] = "#"
      BY <2>1
    <3>. QED
      BY <2>0, <3>1
  <2>2. CASE sign = <<"=">>
    <3>1. Len(sign) = 1 /\ \A d \in 1..1 : sign[d] = "="
      BY <2>2
    <3>. QED
      BY <2>0, <3>1
  <2>3. CASE sign = <<"/", "/">>
    <3>1. Len(sign) = 2 /\ \A d \in 1..2 : sign[d] = "/"
      BY <2>3
    <3>. QED
      BY <2>0, <3>1
  <2>. QED
    BY <2>1, <2>2, <2>3, Zenon DEF CommentMarks, Hash, Slashes
<1>3. ~Odd(typed, c, 0) /\ 0 \in 0..Len(typed)
  BY OddAt0
<1>4. FindFrom(typed, sign)[0] = Least({j \in Nth(typed, sign) : j >= 0} \ Between(typed, c))
  BY <1>1, <1>2, <1>3, FindOutside
<1>5. {j \in Nth(typed, sign) : j >= 0} = Nth(typed, sign)
  BY DEF Nth
<1>. QED
  BY <1>4, <1>5, Zenon DEF FindNotInQm

\* With one kind of quotation marks = and the signs of comments are found where
\* they are not between two of them (find_not_in_qm of base/flag.cc).
THEOREM QuotesCorrect == FlagsSpec => []QuotesRight
<1>1. FlagType => QuotesRight
  BY QuotesHold DEF FlagType
<1>. QED
  BY <1>1, FlagTypeCorrect, PTL

-----------------------------------------------------------------------------
\* base.

\* One character is found where it is.
LEMMA PlacesOfOne ==
  ASSUME NEW C, NEW s \in Seq(C), NEW c
  PROVE  Places(s, <<c>>) = {i \in 0..Len(s) - 1 : At(s, i) = c}
<1>1. ASSUME NEW i \in 0..Len(s) - 1
      PROVE  Part(s, i, i + 1) = <<c>> <=> At(s, i) = c
  <2>1. i \in 0..Len(s) /\ i + 1 \in i..Len(s) /\ 1 \in 1..(i + 1) - i /\ (i + 1) - i = 1
    OBVIOUS
  <2>2. /\ Part(s, i, i + 1) \in Seq(C) /\ Len(Part(s, i, i + 1)) = 1
        /\ Part(s, i, i + 1)[1] = s[i + 1]
    BY <2>1, PieceBetween
  <2>. QED
    BY <2>2 DEF At
<1>2. Len(<<c>>) = 1
  OBVIOUS
<1>. QED
  BY <1>1, <1>2 DEF Places

\* A part of the front of a string.
LEMMA PartOfFront ==
  ASSUME NEW C, NEW s \in Seq(C), NEW e \in 0..Len(s), NEW b \in 0..e
  PROVE  Part(Part(s, 0, e), b, e) = Part(s, b, e)
<1>1. 0 \in 0..Len(s) /\ e \in 0..Len(s) /\ e - 0 = e /\ b \in 0..Len(s) /\ e \in b..Len(s)
  OBVIOUS
<1>2. /\ Part(s, 0, e) \in Seq(C) /\ Len(Part(s, 0, e)) = e
      /\ \A d \in 1..e : Part(s, 0, e)[d] = s[0 + d]
  BY <1>1, PieceBetween
<1>3. /\ Part(s, b, e) \in Seq(C) /\ Len(Part(s, b, e)) = e - b
      /\ \A d \in 1..e - b : Part(s, b, e)[d] = s[b + d]
  BY <1>1, PieceBetween
<1>4. /\ Part(Part(s, 0, e), b, e) \in Seq(C) /\ Len(Part(Part(s, 0, e), b, e)) = e - b
      /\ \A d \in 1..e - b : Part(Part(s, 0, e), b, e)[d] = Part(s, 0, e)[b + d]
  <2>. DEFINE x == Part(s, 0, e)
  <2>1. x \in Seq(C) /\ b \in 0..Len(x) /\ e \in b..Len(x)
    BY <1>2
  <2>. HIDE DEF x
  <2>2. /\ Part(x, b, e) \in Seq(C) /\ Len(Part(x, b, e)) = e - b
        /\ \A d \in 1..e - b : Part(x, b, e)[d] = x[b + d]
    BY <2>1, PieceBetween
  <2>. QED
    BY <2>2 DEF x
<1>5. \A d \in 1..e - b : Part(Part(s, 0, e), b, e)[d] = Part(s, b, e)[d]
  <2>. TAKE d \in 1..e - b
  <2>1. b + d \in 1..e /\ 0 + (b + d) = b + d
    OBVIOUS
  <2>. QED
    BY <1>2, <1>3, <1>4, <2>1
<1>. QED
  BY <1>3, <1>4, <1>5, SameString

LEMMA BaseRight ==
  ASSUME NEW C, "/" \in C, NEW s \in Seq(C)
  PROVE  BaseIs(s)
<1>. DEFINE n == Len(s)
            Ended(q) == /\ \A k \in q..Len(s) - 1 : At(s, k) = "/"
                        /\ q = 0 \/ At(s, q - 1) # "/"
            p == CHOOSE q \in 0..Len(s) : Ended(q)
            x == Part(s, 0, p)
            c == Rfind(x, <<"/">>)
<1>0. n \in Nat
  OBVIOUS
<1>1. CASE s = <<>>
  BY <1>1 DEF BaseIs, Base
<1>2. CASE s # <<>>
  <2>1. p \in 0..n /\ Ended(p)
    <3>. DEFINE T == {q \in 0..n : \A k \in q..n - 1 : At(s, k) = "/"}
    <3>1. n \in T /\ T \subseteq Nat
      BY <1>0
    <3>2. PICK q \in T : \A y \in T : q <= y
      <4>. HIDE DEF T
      <4>. QED
        BY <3>1, LeastNumber
    <3>3. ASSUME q # 0, At(s, q - 1) = "/" PROVE FALSE
      <4>1. q - 1 \in 0..n /\ ~(q <= q - 1)
        BY <1>0, <3>2, <3>3
      <4>2. \A k \in q - 1..n - 1 : k = q - 1 \/ k \in q..n - 1
        BY <1>0, <3>2, <3>3
      <4>3. q - 1 \in T
        BY <3>2, <3>3, <4>1, <4>2
      <4>. QED
        BY <3>2, <4>1, <4>3
    <3>4. q \in 0..Len(s) /\ Ended(q)
      BY <3>2, <3>3
    <3>. HIDE DEF Ended
    <3>. QED
      BY <3>4, Zenon
  <2>2. Base(s) = IF p = 0 THEN <<"/">> ELSE Part(x, c + 1, p)
    BY <1>2, Zenon DEF Base
  <2>. HIDE DEF p
  <2>3. CASE p = 0
    <3>1. \A l \in 1..n : s[l] = "/"
      <4>. TAKE l \in 1..n
      <4>1. l - 1 \in p..Len(s) - 1 /\ (l - 1) + 1 = l
        BY <2>3
      <4>. QED
        BY <2>1, <4>1 DEF At
    <3>. QED
      BY <1>2, <2>2, <2>3, <3>1 DEF BaseIs
  <2>4. CASE p # 0
    <3>1. x \in Seq(C) /\ Len(x) = p /\ \A k \in 0..p - 1 : At(x, k) = At(s, k)
      <4>1. 0 \in 0..Len(s) /\ p \in 0..Len(s) /\ p - 0 = p
        BY <2>1
      <4>2. x \in Seq(C) /\ Len(x) = p /\ \A d \in 1..p : x[d] = s[0 + d]
        BY <4>1, PieceBetween
      <4>. HIDE DEF x
      <4>3. \A k \in 0..p - 1 : x[k + 1] = s[k + 1]
        <5>. TAKE k \in 0..p - 1
        <5>1. k + 1 \in 1..p /\ 0 + (k + 1) = k + 1
          BY <2>1
        <5>. QED
          BY <4>2, <5>1
      <4>. QED
        BY <4>2, <4>3 DEF At
    <3>2. Places(x, <<"/">>) = {i \in 0..p - 1 : At(s, i) = "/"}
      <4>1. Places(x, <<"/">>) = {i \in 0..Len(x) - 1 : At(x, i) = "/"}
        BY <3>1, PlacesOfOne
      <4>. HIDE DEF x
      <4>. QED
        BY <3>1, <4>1
    <3>3. c = IF Places(x, <<"/">>) = {} THEN npos ELSE Max(Places(x, <<"/">>))
      <4>1. <<"/">> \in Seq(C)
        OBVIOUS
      <4>. HIDE DEF x
      <4>. QED
        BY <3>1, <4>1, RfindRight
    <3>. DEFINE P == Places(x, <<"/">>)
    <3>4. P \subseteq 0..p - 1 /\ p - 1 \in Nat
      BY <2>1, <2>4, <3>2
    <3>5. /\ c \in -1..p - 1
          /\ c = -1 \/ At(s, c) = "/"
          /\ \A k \in c + 1..p - 1 : At(s, k) # "/"
      <4>1. CASE P = {}
        BY <2>1, <2>4, <3>2, <3>3, <4>1 DEF npos
      <4>2. CASE P # {}
        <5>1. c = Max(P) /\ Max(P) \in P /\ \A y \in P : y <= Max(P)
          <6>. HIDE DEF P, c
          <6>1. Max(P) \in P /\ \A y \in P : y <= Max(P)
            BY <3>4, <4>2, GreatestNumber
          <6>. QED
            BY <3>3, <4>2, <6>1 DEF P
        <5>2. c \in 0..p - 1 /\ At(s, c) = "/"
          BY <3>2, <5>1
        <5>3. \A k \in c + 1..p - 1 : k \notin P
          <6>. HIDE DEF P, c
          <6>. QED
            BY <2>1, <5>1, <5>2
        <5>4. \A k \in c + 1..p - 1 : k \in 0..p - 1
          <6>. HIDE DEF c
          <6>. QED
            BY <2>1, <5>2
        <5>. HIDE DEF c
        <5>. QED
          BY <3>2, <5>2, <5>3, <5>4
      <4>. QED
        BY <4>1, <4>2
    <3>. HIDE DEF c, x
    <3>6. c # p - 1
      BY <2>1, <2>4, <3>5
    <3>7. PICK b \in 0..p : b = c + 1 /\ p \in b + 1..n
      BY <2>1, <2>4, <3>5, <3>6
    <3>8. Base(s) = Part(s, b, p)
      <4>1. Part(Part(s, 0, p), b, p) = Part(s, b, p)
        BY <2>1, <3>7, PartOfFront
      <4>. QED
        BY <2>2, <2>4, <3>7, <4>1 DEF x
    <3>9. b = 0 \/ At(s, b - 1) = "/"
      BY <3>5, <3>7
    <3>10. \A l \in b..p - 1 : At(s, l) # "/"
      BY <3>5, <3>7
    <3>11. b \in 0..Len(s) /\ p \in b + 1..Len(s)
      BY <2>1, <3>7
    <3>. QED
      BY <2>1, <3>8, <3>9, <3>10, <3>11 DEF BaseIs
  <2>. QED
    BY <2>3, <2>4
<1>. QED
  BY <1>1, <1>2

-----------------------------------------------------------------------------
\* clean: the names of a path.

Plain(s, b, e) == \A l \in b..e - 1 : At(s, l) # "/"
Begins(s, i) == i = 0 \/ At(s, i - 1) = "/"
Ends(s, i) == i = Len(s) \/ At(s, i) = "/"

\* Where the name begins that ends at position j.
NameStart(s, j) ==
  CHOOSE b \in 0..j : /\ b = 0 \/ At(s, b - 1) = "/"
                      /\ \A l \in b..j - 1 : At(s, l) # "/"

LEMMA NameStartIs ==
  ASSUME NEW s, NEW j \in Nat
  PROVE  /\ NameStart(s, j) \in 0..j /\ Begins(s, NameStart(s, j)) /\ Plain(s, NameStart(s, j), j)
         /\ \A i \in 0..j : Begins(s, i) /\ Plain(s, i, j) => NameStart(s, j) = i
<1>. DEFINE Is(b) == b \in 0..j /\ Begins(s, b) /\ Plain(s, b, j)
            Fine == {k \in Nat : \E b \in 0..k : Begins(s, b) /\ Plain(s, b, k)}
<1>1. 0 \in Fine
  BY DEF Begins, Plain
<1>2. ASSUME NEW k \in 0 + 1..j, k - 1 \in Fine PROVE k \in Fine
  <2>1. PICK b \in 0..k - 1 : Begins(s, b) /\ Plain(s, b, k - 1)
    BY <1>2
  <2>2. CASE At(s, k - 1) = "/"
    <3>1. k \in 0..k /\ Begins(s, k) /\ Plain(s, k, k)
      BY <2>2 DEF Begins, Plain
    <3>. QED
      BY <3>1
  <2>3. CASE At(s, k - 1) # "/"
    <3>1. b \in 0..k /\ \A l \in b..k - 1 : l = k - 1 \/ l \in b..(k - 1) - 1
      OBVIOUS
    <3>2. Plain(s, b, k)
      BY <2>1, <2>3, <3>1 DEF Plain
    <3>. QED
      BY <2>1, <3>1, <3>2
  <2>. QED
    BY <2>2, <2>3
<1>3. j \in Fine
  <2>1. 0..j \subseteq Fine
    <3>. HIDE DEF Fine
    <3>. QED
      BY <1>1, <1>2, Along
  <2>. QED
    BY <2>1
<1>4. PICK b \in 0..j : Is(b)
  BY <1>3
<1>5. NameStart(s, j) = CHOOSE c \in 0..j : Begins(s, c) /\ Plain(s, c, j)
  BY Zenon DEF NameStart, Begins, Plain
<1>6. Is(NameStart(s, j))
  BY <1>4, <1>5
<1>7. ASSUME NEW i \in 0..j, Is(i) PROVE NameStart(s, j) = i
  <2>. DEFINE c == NameStart(s, j)
  <2>1. c \in 0..j /\ Begins(s, c) /\ Plain(s, c, j)
    BY <1>6
  <2>. HIDE DEF c
  <2>2. ASSUME c < i PROVE FALSE
    <3>1. i # 0 /\ i - 1 \in c..j - 1
      BY <2>1, <2>2
    <3>. QED
      BY <1>7, <2>1, <3>1 DEF Begins, Plain
  <2>3. ASSUME i < c PROVE FALSE
    <3>1. c # 0 /\ c - 1 \in i..j - 1
      BY <2>1, <2>3
    <3>. QED
      BY <1>7, <2>1, <3>1 DEF Begins, Plain
  <2>4. c = i
    BY <2>1, <2>2, <2>3
  <2>. QED
    BY <2>4 DEF c
<1>. QED
  BY <1>6, <1>7

\* The recursion over the names of a path, unfolded once.
WalkStep(w, s, j) ==
  Walk(IF NameStart(s, j) = 0 THEN <<>> ELSE w[NameStart(s, j) - 1],
       Part(s, NameStart(s, j), j), Rooted(s))

LEMMA WalkType ==
  ASSUME NEW C, NEW v \in Seq(Seq(C)), NEW x \in Seq(C), NEW rooted
  PROVE  Walk(v, x, rooted) \in Seq(Seq(C))
<1>1. Append(v, x) \in Seq(Seq(C))
  OBVIOUS
<1>2. ASSUME v # <<>> PROVE Front(v) \in Seq(Seq(C))
  BY <1>2 DEF Front
<1>. QED
  BY <1>1, <1>2, Zenon DEF Walk

LEMMA WalkUnfolds ==
  ASSUME NEW C, NEW s \in Seq(C), NEW j \in 0..Len(s)
  PROVE  /\ WalkedTo(s)[j] \in Seq(Seq(C))
         /\ WalkedTo(s)[j] = WalkStep(WalkedTo(s), s, j)
<1>. DEFINE n == Len(s)
            S == 0..n
            T == Seq(Seq(C))
            Delta == [g \in [S -> T] |-> [k \in S |-> WalkStep(g, s, k)]]
            rank == [k \in S |-> k]
            Good(f) == f = [k \in 0..Len(s) |-> WalkStep(f, s, k)]
<1>0. n \in Nat
  OBVIOUS
<1>1. ASSUME NEW k \in S
      PROVE  /\ NameStart(s, k) \in 0..k /\ NameStart(s, k) \in Nat
             /\ NameStart(s, k) # 0 => NameStart(s, k) - 1 \in S /\ NameStart(s, k) - 1 < k
  <2>1. NameStart(s, k) \in 0..k
    BY NameStartIs
  <2>. QED
    BY <2>1
<1>2. ASSUME NEW g, NEW k \in S, NameStart(s, k) # 0 => g[NameStart(s, k) - 1] \in T
      PROVE  WalkStep(g, s, k) \in T
  <2>1. Part(s, NameStart(s, k), k) \in Seq(C)
    <3>1. NameStart(s, k) \in 0..Len(s) /\ k \in NameStart(s, k)..Len(s)
      BY <1>1
    <3>. QED
      BY <3>1, PieceBetween
  <2>2. <<>> \in T
    OBVIOUS
  <2>3. (IF NameStart(s, k) = 0 THEN <<>> ELSE g[NameStart(s, k) - 1]) \in T
    BY <1>2, <2>2, Zenon
  <2>. QED
    BY <2>1, <2>3, WalkType, Zenon DEF WalkStep
<1>3. Delta \in [[S -> T] -> [S -> T]]
  <2>1. ASSUME NEW g \in [S -> T], NEW k \in S PROVE WalkStep(g, s, k) \in T
    <3>. HIDE DEF T, S
    <3>. QED
      BY <1>1, <1>2
  <2>. HIDE DEF T, S
  <2>. QED
    BY <2>1, Zenon
<1>4. LooksDown(Delta, rank, n, S, T)
  <2>1. \A g, h \in [S -> T] : \A x \in S :
          (\A y \in S : rank[y] < rank[x] => g[y] = h[y]) => Delta[g][x] = Delta[h][x]
    <3>. TAKE g, h \in [S -> T]
    <3>. TAKE x \in S
    <3>. HAVE \A y \in S : rank[y] < rank[x] => g[y] = h[y]
    <3>1. NameStart(s, x) # 0 => g[NameStart(s, x) - 1] = h[NameStart(s, x) - 1]
      <4>. HIDE DEF S
      <4>. QED
        BY <1>1
    <3>2. WalkStep(g, s, x) = WalkStep(h, s, x)
      BY <3>1, Zenon DEF WalkStep
    <3>. QED
      BY <3>2, Zenon
  <2>2. T # {}
    <3>1. <<>> \in T
      OBVIOUS
    <3>. QED
      BY <3>1, Zenon
  <2>3. rank \in [S -> 0..n]
    OBVIOUS
  <2>. HIDE DEF Delta, rank, S, T, n
  <2>. QED
    BY <1>0, <1>3, <2>1, <2>2, <2>3 DEF LooksDown
<1>5. PICK f \in [S -> T] : f = Delta[f]
  <2>. HIDE DEF Delta, rank, S, T, n
  <2>. QED
    BY <1>4, RecursiveFunction
<1>6. Good(f)
  BY <1>5, Zenon
<1>7. WalkedTo(s) = CHOOSE g : Good(g)
  BY Zenon DEF WalkedTo, WalkStep, NameStart
<1>8. Good(WalkedTo(s))
  <2>. HIDE DEF Good
  <2>. QED
    BY <1>6, <1>7, Zenon
<1>9. \A k \in S : WalkedTo(s)[k] = WalkStep(WalkedTo(s), s, k)
  BY <1>8, Zenon
<1>10. \A k \in S : WalkedTo(s)[k] \in T
  <2>. DEFINE W == WalkedTo(s)
              Fine == {k \in Nat : k <= n => W[k] \in T}
  <2>. HIDE DEF W, T
  <2>1. ASSUME NEW k \in Nat, \A e \in Nat : e < k => e \in Fine, k <= n PROVE W[k] \in T
    <3>1. k \in S
      BY <2>1
    <3>2. NameStart(s, k) # 0 => W[NameStart(s, k) - 1] \in T
      <4>. HAVE NameStart(s, k) # 0
      <4>1. NameStart(s, k) - 1 \in Nat /\ NameStart(s, k) - 1 < k /\ NameStart(s, k) - 1 <= n
        BY <1>0, <1>1, <3>1
      <4>. QED
        BY <2>1, <4>1
    <3>3. W[k] = WalkStep(W, s, k)
      BY <1>9, <3>1 DEF W
    <3>. QED
      BY <1>2, <3>1, <3>2, <3>3
  <2>2. Nat \subseteq Fine
    <3>1. \A d \in Nat : (\A e \in Nat : e < d => e \in Fine) => d \in Fine
      BY <2>1
    <3>. HIDE DEF Fine
    <3>. QED
      BY <3>1, AllNumbers
  <2>3. \A k \in S : W[k] \in T
    BY <2>2
  <2>. QED
    BY <2>3 DEF W, T
<1>. QED
  BY <1>9, <1>10

\* What a path leads through in front of position i, and at the end of the name
\* that begins there.
Before(s, i) == IF i = 0 THEN <<>> ELSE WalkedTo(s)[i - 1]

LEMMA WalkedName ==
  ASSUME NEW C, NEW s \in Seq(C), NEW i \in 0..Len(s), NEW j \in i..Len(s),
         Begins(s, i), Plain(s, i, j)
  PROVE  WalkedTo(s)[j] = Walk(Before(s, i), Part(s, i, j), Rooted(s))
<1>1. j \in 0..Len(s) /\ j \in Nat /\ i \in 0..j
  OBVIOUS
<1>2. NameStart(s, j) = i
  BY <1>1, NameStartIs
<1>3. WalkedTo(s)[j] = WalkStep(WalkedTo(s), s, j)
  BY <1>1, WalkUnfolds
<1>. QED
  BY <1>2, <1>3, Zenon DEF WalkStep, Before

\* The recursion that joins names, unfolded once.
JoinStep(g, v, k) ==
  IF k = 0 THEN <<>> ELSE IF k = 1 THEN v[1] ELSE Then(Then(g[k - 1], <<"/">>), v[k])

LEMMA ThenType ==
  ASSUME NEW C, NEW a \in Seq(C), NEW b \in Seq(C)
  PROVE  Then(a, b) \in Seq(C) /\ Len(Then(a, b)) = Len(a) + Len(b)
BY DEF Then

LEMMA JoinUnfolds ==
  ASSUME NEW C, "/" \in C, NEW v \in Seq(Seq(C))
  PROVE  \A k \in 0..Len(v) : /\ JoinedTo(v)[k] \in Seq(C)
                              /\ JoinedTo(v)[k] = JoinStep(JoinedTo(v), v, k)
<1>. DEFINE n == Len(v)
            T == Seq(C)
            Next(x, k) == IF k = 1 THEN v[1] ELSE Then(Then(x, <<"/">>), v[k])
            step == [k \in 0 + 1..n |-> [x \in T |-> Next(x, k)]]
            Good(f) == f = [k \in 0..Len(v) |-> JoinStep(f, v, k)]
<1>0. n \in Nat /\ 0 \in Nat /\ <<>> \in T /\ <<"/">> \in T
  OBVIOUS
<1>1. ASSUME NEW x \in T, NEW k \in 1..n PROVE Next(x, k) \in T
  <2>1. v[1] \in T /\ v[k] \in T
    OBVIOUS
  <2>2. Then(Then(x, <<"/">>), v[k]) \in T
    BY <1>0, <2>1, ThenType
  <2>. HIDE DEF T
  <2>. QED
    BY <2>1, <2>2, Zenon
<1>2. step \in [0 + 1..n -> [T -> T]]
  <2>1. \A k \in 0 + 1..n : k \in 1..n
    OBVIOUS
  <2>. HIDE DEF T, Next
  <2>. QED
    BY <1>1, <2>1
<1>3. PICK f \in [0..n -> T] : Steps(f, 0, n, <<>>, step)
  <2>. HIDE DEF T, step, n
  <2>. QED
    BY <1>0, <1>2, StepByStep
<1>4. ASSUME NEW k \in 0..n, k # 0
      PROVE  k \in 0 + 1..n /\ k - 1 \in 0..n
  BY <1>4
<1>5. Good(f)
  <2>1. ASSUME NEW k \in 0..n, k # 0 PROVE step[k][f[k - 1]] = Next(f[k - 1], k)
    <3>1. k \in 0 + 1..n /\ f[k - 1] \in T
      <4>. HIDE DEF T, step, Next, Good
      <4>. QED
        BY <1>4, <2>1
    <3>. HIDE DEF T, Next
    <3>. QED
      BY <3>1, Zenon
  <2>. HIDE DEF T, step
  <2>. QED
    BY <1>3, <2>1, Zenon DEF Steps, JoinStep
<1>6. JoinedTo(v) = CHOOSE g : Good(g)
  BY Zenon DEF JoinedTo, JoinStep, Then
<1>7. Good(JoinedTo(v))
  <2>. HIDE DEF Good
  <2>. QED
    BY <1>5, <1>6, Zenon
<1>. DEFINE J == JoinedTo(v)
            Fine == {k \in Nat : J[k] \in T}
<1>8. \A k \in 0..n : J[k] = JoinStep(J, v, k)
  BY <1>7, Zenon
<1>. HIDE DEF J
<1>9. 0..n \subseteq Fine
  <2>1. 0 \in Fine
    <3>1. J[0] = <<>>
      BY <1>8 DEF JoinStep
    <3>. QED
      BY <1>0, <3>1
  <2>2. ASSUME NEW k \in 0 + 1..n, k - 1 \in Fine PROVE k \in Fine
    <3>1. k \in 0..n /\ k # 0 /\ k \in 1..n /\ k \in Nat
      OBVIOUS
    <3>2. J[k] = Next(J[k - 1], k)
      BY <1>8, <3>1, Zenon DEF JoinStep
    <3>. HIDE DEF T, Next
    <3>. QED
      BY <1>1, <2>2, <3>1, <3>2
  <2>. HIDE DEF Fine
  <2>. QED
    BY <1>0, <2>1, <2>2, Along
<1>. QED
  BY <1>8, <1>9 DEF J

\* What is joined depends on the names in front.
LEMMA JoinSame ==
  ASSUME NEW C, "/" \in C, NEW v \in Seq(Seq(C)), NEW w \in Seq(Seq(C)),
         NEW m \in Nat, m <= Len(v), m <= Len(w), \A k \in 1..m : v[k] = w[k]
  PROVE  \A k \in 0..m : JoinedTo(v)[k] = JoinedTo(w)[k]
<1>. DEFINE Fine == {k \in Nat : JoinedTo(v)[k] = JoinedTo(w)[k]}
<1>1. ASSUME NEW k \in 0..m
      PROVE  /\ JoinedTo(v)[k] = JoinStep(JoinedTo(v), v, k)
             /\ JoinedTo(w)[k] = JoinStep(JoinedTo(w), w, k)
  <2>1. k \in 0..Len(v) /\ k \in 0..Len(w)
    OBVIOUS
  <2>. QED
    BY <2>1, JoinUnfolds
<1>2. 0 \in Fine
  <2>1. 0 \in 0..m
    OBVIOUS
  <2>. QED
    BY <1>1, <2>1, Zenon DEF JoinStep
<1>3. ASSUME NEW k \in 0 + 1..m, k - 1 \in Fine PROVE k \in Fine
  <2>1. k \in 0..m /\ k \in 1..m /\ k # 0 /\ k \in Nat
    OBVIOUS
  <2>2. v[k] = w[k] /\ (k = 1 => v[1] = w[1])
    BY <2>1
  <2>3. JoinedTo(v)[k - 1] = JoinedTo(w)[k - 1]
    BY <1>3
  <2>4. JoinStep(JoinedTo(v), v, k) = JoinStep(JoinedTo(w), w, k)
    BY <2>2, <2>3, Zenon DEF JoinStep
  <2>. QED
    BY <1>1, <2>1, <2>4
<1>4. 0..m \subseteq Fine
  <2>1. 0 \in Nat
    OBVIOUS
  <2>. HIDE DEF Fine
  <2>. QED
    BY <1>2, <1>3, <2>1, Along
<1>. QED
  BY <1>4

JoinsTo(v, x, w) ==
  Joined(w) = IF v = <<>> THEN x ELSE Then(Then(Joined(v), <<"/">>), x)

LEMMA JoinAppend ==
  ASSUME NEW C, "/" \in C, NEW v \in Seq(Seq(C)), NEW x \in Seq(C)
  PROVE  /\ JoinsTo(v, x, Append(v, x))
         /\ \A k \in 0..Len(v) : JoinedTo(Append(v, x))[k] = JoinedTo(v)[k]
<1>. DEFINE w == Append(v, x)
            n == Len(v)
<1>1. /\ w \in Seq(Seq(C)) /\ Len(w) = n + 1 /\ w[n + 1] = x /\ n \in Nat
      /\ \A k \in 1..n : v[k] = w[k]
  OBVIOUS
<1>. HIDE DEF w
<1>2. \A k \in 0..n : JoinedTo(v)[k] = JoinedTo(w)[k]
  <2>1. n <= Len(v) /\ n <= Len(w)
    BY <1>1
  <2>. HIDE DEF n
  <2>. QED
    BY <1>1, <2>1, JoinSame
<1>3. JoinedTo(w)[n + 1] = JoinStep(JoinedTo(w), w, n + 1)
  <2>1. n + 1 \in 0..Len(w)
    BY <1>1
  <2>. QED
    BY <1>1, <2>1, JoinUnfolds
<1>4. CASE n = 0
  <2>1. v = <<>>
    BY <1>4
  <2>2. JoinedTo(w)[n + 1] = w[1]
    BY <1>3, <1>4 DEF JoinStep
  <2>3. w[1] = x
    BY <1>1, <1>4
  <2>4. Joined(w) = x
    BY <1>1, <2>2, <2>3 DEF Joined
  <2>5. JoinsTo(v, x, w)
    BY <2>1, <2>4, Zenon DEF JoinsTo
  <2>. QED
    BY <1>2, <2>5 DEF w
<1>5. CASE n # 0
  <2>1. v # <<>>
    BY <1>5
  <2>2. n + 1 # 0 /\ n + 1 # 1 /\ (n + 1) - 1 = n /\ n \in 0..n
    BY <1>1, <1>5
  <2>3. JoinedTo(w)[n + 1] = Then(Then(JoinedTo(w)[n], <<"/">>), x)
    BY <1>1, <1>3, <2>2, Zenon DEF JoinStep
  <2>4. JoinedTo(w)[n] = Joined(v)
    BY <1>2, <2>2 DEF Joined
  <2>5. Joined(w) = Then(Then(Joined(v), <<"/">>), x)
    BY <1>1, <2>3, <2>4, Zenon DEF Joined
  <2>6. JoinsTo(v, x, w)
    BY <2>1, <2>5, Zenon DEF JoinsTo
  <2>. QED
    BY <1>2, <2>6 DEF w
<1>. QED
  BY <1>4, <1>5

\* More names are longer, unless there are empty ones.
LEMMA JoinLonger ==
  ASSUME NEW C, "/" \in C, NEW v \in Seq(Seq(C)), \A k \in 1..Len(v) : v[k] # <<>>,
         NEW a \in 0..Len(v)
  PROVE  \A k \in a..Len(v) : Len(JoinedTo(v)[a]) + (k - a) <= Len(JoinedTo(v)[k])
<1>. DEFINE n == Len(v)
            J == JoinedTo(v)
            Fine == {k \in Nat : Len(J[a]) + (k - a) <= Len(J[k])}
<1>0. n \in Nat /\ a \in Nat
  OBVIOUS
<1>1. \A k \in 0..n : J[k] \in Seq(C) /\ Len(J[k]) \in Nat
  <2>1. \A k \in 0..n : J[k] \in Seq(C)
    BY JoinUnfolds
  <2>. HIDE DEF J
  <2>. QED
    BY <2>1
<1>2. ASSUME NEW k \in a + 1..n PROVE Len(J[k - 1]) + 1 <= Len(J[k])
  <2>1. k \in 0..n /\ k \in 1..n /\ k - 1 \in 0..n /\ k # 0
    BY <1>0
  <2>2. J[k] = JoinStep(J, v, k)
    BY <2>1, JoinUnfolds
  <2>3. v[k] \in Seq(C) /\ v[k] # <<>> /\ Len(v[k]) \in Nat /\ Len(v[k]) >= 1
    <3>1. v[k] \in Seq(C) /\ v[k] # <<>>
      BY <2>1
    <3>. QED
      BY <3>1
  <2>4. CASE k = 1
    <3>1. J[k - 1] = <<>>
      <4>1. 0 \in 0..Len(v)
        BY <1>0
      <4>2. J[0] = JoinStep(J, v, 0)
        BY <4>1, JoinUnfolds
      <4>. HIDE DEF J
      <4>. QED
        BY <2>4, <4>2 DEF JoinStep
    <3>2. J[k] = v[k]
      <4>. HIDE DEF J
      <4>. QED
        BY <2>2, <2>4 DEF JoinStep
    <3>. HIDE DEF J
    <3>. QED
      BY <2>3, <3>1, <3>2
  <2>5. CASE k # 1
    <3>1. J[k] = Then(Then(J[k - 1], <<"/">>), v[k])
      BY <2>1, <2>2, <2>5, Zenon DEF JoinStep
    <3>2. J[k - 1] \in Seq(C) /\ Len(J[k - 1]) \in Nat /\ <<"/">> \in Seq(C) /\ Len(<<"/">>) = 1
      BY <1>1, <2>1
    <3>. HIDE DEF J
    <3>3. Then(J[k - 1], <<"/">>) \in Seq(C) /\ Len(Then(J[k - 1], <<"/">>)) = Len(J[k - 1]) + 1
      BY <3>2, ThenType
    <3>4. Len(J[k]) = (Len(J[k - 1]) + 1) + Len(v[k])
      BY <2>3, <3>1, <3>3, ThenType
    <3>5. \A y \in Nat, z \in Nat : z >= 1 => y + 1 <= (y + 1) + z
      OBVIOUS
    <3>6. Len(J[k - 1]) + 1 <= (Len(J[k - 1]) + 1) + Len(v[k])
      BY <2>3, <3>2, <3>5, Zenon
    <3>. QED
      BY <3>4, <3>6, Zenon
  <2>. QED
    BY <2>4, <2>5
<1>3. a \in Fine
  BY <1>0, <1>1
<1>4. ASSUME NEW k \in a + 1..n, k - 1 \in Fine PROVE k \in Fine
  <2>1. k \in Nat /\ k - 1 \in 0..n /\ k \in 0..n
    BY <1>0
  <2>2. Len(J[k - 1]) + 1 <= Len(J[k]) /\ Len(J[k]) \in Nat /\ Len(J[k - 1]) \in Nat /\ Len(J[a]) \in Nat
    BY <1>1, <1>2, <2>1
  <2>3. Len(J[a]) + ((k - 1) - a) <= Len(J[k - 1])
    BY <1>4
  <2>. DEFINE la == Len(J[a])
              lk == Len(J[k])
              lb == Len(J[k - 1])
  <2>. HIDE DEF J, la, lk, lb
  <2>4. la \in Nat /\ lk \in Nat /\ lb \in Nat /\ lb + 1 <= lk /\ la + ((k - 1) - a) <= lb
    BY <2>2, <2>3, Zenon DEF la, lk, lb
  <2>5. la + (k - a) <= lk
    BY <1>0, <2>1, <2>4
  <2>. QED
    BY <2>1, <2>5 DEF la, lk
<1>5. a..n \subseteq Fine
  <2>. HIDE DEF Fine
  <2>. QED
    BY <1>0, <1>3, <1>4, Along
<1>. QED
  BY <1>5

-----------------------------------------------------------------------------
\* clean: what it has written where it has read to position i.

NamesOf(v, C) ==
  /\ v \in Seq(Seq(C))
  /\ \A k \in 1..Len(v) : v[k] # <<>> /\ \A l \in 1..Len(v[k]) : v[k][l] # "/"

\* d is the length of the names that .. cannot take back.
Fits(s, v, d) ==
  \E a \in 0..Len(v) :
    /\ d = Len(Root(s)) + Len(JoinedTo(v)[a])
    /\ a > 0 => v[a] = Dots /\ ~Rooted(s)
    /\ \A k \in a + 1..Len(v) : v[k] # Dots

\* What is written is what the path leads through so far, and it is shorter than
\* what is read when a slash has to be written in front of the next name.
CleanAt(s, i, r, d, v) ==
  /\ i \in Len(Root(s))..Len(s)
  /\ Begins(s, i) \/ Ends(s, i)
  /\ Begins(s, i) => v = Before(s, i)
  /\ Ends(s, i) => v = WalkedTo(s)[i]
  /\ r = Then(Root(s), Joined(v))
  /\ Fits(s, v, d)
  /\ Len(r) <= i
  /\ Begins(s, i) /\ i > Len(Root(s)) => Len(r) < i

LEMMA RootIs ==
  ASSUME NEW C, "/" \in C, NEW s \in Seq(C)
  PROVE  /\ Root(s) \in Seq(C)
         /\ Rooted(s) => Root(s) = <<"/">> /\ Len(Root(s)) = 1 /\ Len(s) >= 1 /\ At(s, 0) = "/"
         /\ ~Rooted(s) => Root(s) = <<>> /\ Len(Root(s)) = 0 /\ (s # <<>> => At(s, 0) # "/")
         /\ Len(Root(s)) \in Nat
<1>1. CASE Rooted(s)
  <2>1. s # <<>> /\ s[1] = "/"
    BY <1>1 DEF Rooted
  <2>2. Len(s) >= 1 /\ At(s, 0) = "/"
    BY <2>1 DEF At
  <2>3. Root(s) = <<"/">>
    BY <1>1, Zenon DEF Root
  <2>. QED
    BY <1>1, <2>2, <2>3
<1>2. CASE ~Rooted(s)
  <2>1. Root(s) = <<>>
    BY <1>2, Zenon DEF Root
  <2>2. s # <<>> => At(s, 0) # "/"
    BY <1>2 DEF Rooted, At
  <2>. QED
    BY <1>2, <2>1, <2>2
<1>. QED
  BY <1>1, <1>2

LEMMA JoinedType ==
  ASSUME NEW C, "/" \in C, NEW v, NamesOf(v, C)
  PROVE  Joined(v) \in Seq(C) /\ Len(Joined(v)) \in Nat /\ Len(Joined(v)) >= Len(v)
         /\ (v = <<>> => Joined(v) = <<>>)
<1>1. v \in Seq(Seq(C)) /\ Len(v) \in 0..Len(v) /\ 0 \in 0..Len(v) /\ Len(v) \in Nat
  BY DEF NamesOf
<1>2. Joined(v) \in Seq(C)
  BY <1>1, JoinUnfolds DEF Joined
<1>3. JoinedTo(v)[0] = <<>>
  BY <1>1, JoinUnfolds DEF JoinStep
<1>4. Len(JoinedTo(v)[0]) + (Len(v) - 0) <= Len(JoinedTo(v)[Len(v)])
  <2>1. \A k \in 1..Len(v) : v[k] # <<>>
    BY DEF NamesOf
  <2>2. \A k \in 0..Len(v) : Len(JoinedTo(v)[0]) + (k - 0) <= Len(JoinedTo(v)[k])
    BY <1>1, <2>1, JoinLonger
  <2>. QED
    BY <1>1, <2>2
<1>5. Len(Joined(v)) >= Len(v)
  <2>1. Len(JoinedTo(v)[0]) = 0
    BY <1>3
  <2>2. Len(v) <= Len(JoinedTo(v)[Len(v)])
    <3>. DEFINE z == Len(JoinedTo(v)[Len(v)])
    <3>. HIDE DEF z
    <3>1. 0 + (Len(v) - 0) <= z
      BY <1>4, <2>1 DEF z
    <3>2. Len(v) <= z
      BY <1>1, <3>1
    <3>. QED
      BY <3>2 DEF z
  <2>3. Len(JoinedTo(v)[Len(v)]) \in Nat
    BY <1>2 DEF Joined
  <2>. QED
    BY <1>1, <2>2, <2>3 DEF Joined
<1>6. v = <<>> => Joined(v) = <<>>
  <2>. HAVE v = <<>>
  <2>1. Len(v) = 0
    OBVIOUS
  <2>. QED
    BY <1>3, <2>1 DEF Joined
<1>7. Len(Joined(v)) \in Nat
  BY <1>2
<1>. QED
  BY <1>2, <1>5, <1>6, <1>7

\* At the beginning of a name nothing was added to what is in front of it.
LEMMA WalkedHere ==
  ASSUME NEW C, NEW s \in Seq(C), NEW i \in 0..Len(s), Begins(s, i)
  PROVE  WalkedTo(s)[i] = Before(s, i)
<1>1. i \in i..Len(s) /\ Plain(s, i, i)
  BY DEF Plain
<1>2. WalkedTo(s)[i] = Walk(Before(s, i), Part(s, i, i), Rooted(s))
  BY <1>1, WalkedName
<1>3. Part(s, i, i) = <<>>
  <2>1. Len(Part(s, i, i)) = i - i /\ Part(s, i, i) \in Seq(C)
    BY <1>1, PieceBetween
  <2>. HIDE DEF Part
  <2>. QED
    BY <2>1
<1>. QED
  BY <1>2, <1>3, Zenon DEF Walk

\* Empty names and . are left out.
LEMMA CleanSkips ==
  ASSUME NEW C, "/" \in C, NEW s \in Seq(C), NEW i, NEW r \in Seq(C), NEW d, NEW v,
         CleanAt(s, i, r, d, v), i < Len(s),
         At(s, i) = "/" \/ (At(s, i) = "." /\ Ends(s, i + 1))
  PROVE  CleanAt(s, i + 1, r, d, v)
<1>0. i \in Nat /\ Len(s) \in Nat /\ Len(Root(s)) \in Nat /\ i \in 0..Len(s) /\ i + 1 \in Len(Root(s))..Len(s)
      /\ i + 1 \in 0..Len(s) /\ i + 1 # 0 /\ (i + 1) - 1 = i
  BY RootIs DEF CleanAt
<1>1. r = Then(Root(s), Joined(v)) /\ Fits(s, v, d) /\ Len(r) <= i
  BY DEF CleanAt
<1>2. Len(r) <= i + 1 /\ Len(r) < i + 1
  BY <1>0, <1>1
<1>3. CASE At(s, i) = "/"
  <2>1. Begins(s, i + 1)
    BY <1>0, <1>3 DEF Begins
  <2>2. v = WalkedTo(s)[i]
    BY <1>3 DEF CleanAt, Ends
  <2>3. v = Before(s, i + 1)
    BY <1>0, <2>2 DEF Before
  <2>4. v = WalkedTo(s)[i + 1]
    BY <1>0, <2>1, <2>3, WalkedHere
  <2>. QED
    BY <1>0, <1>1, <1>2, <2>1, <2>3, <2>4, Zenon DEF CleanAt
<1>4. CASE At(s, i) = "." /\ Ends(s, i + 1)
  <2>1. ~Begins(s, i + 1)
    BY <1>0, <1>4 DEF Begins
  <2>2. ~Ends(s, i)
    BY <1>4 DEF Ends
  <2>3. Begins(s, i) /\ v = Before(s, i)
    BY <2>2 DEF CleanAt
  <2>4. Part(s, i, i + 1) = <<".">>
    <3>1. i + 1 \in i..Len(s) /\ (i + 1) - i = 1 /\ 1 \in 1..(i + 1) - i /\ i \in 0..Len(s)
      BY <1>0
    <3>2. /\ Part(s, i, i + 1) \in Seq(C) /\ Len(Part(s, i, i + 1)) = 1
          /\ Part(s, i, i + 1)[1] = s[i + 1]
      <4>1. /\ Part(s, i, i + 1) \in Seq(C) /\ Len(Part(s, i, i + 1)) = (i + 1) - i
            /\ \A k \in 1..(i + 1) - i : Part(s, i, i + 1)[k] = s[i + k]
        BY <3>1, PieceBetween
      <4>. HIDE DEF Part
      <4>. QED
        BY <3>1, <4>1
    <3>. QED
      BY <1>4, <3>2 DEF At
  <2>5. WalkedTo(s)[i + 1] = v
    <3>1. i + 1 \in i..Len(s)
      BY <1>0
    <3>2. Plain(s, i, i + 1)
      BY <1>0, <1>4 DEF Plain
    <3>3. WalkedTo(s)[i + 1] = Walk(v, <<".">>, Rooted(s))
      BY <1>0, <2>3, <2>4, <3>1, <3>2, WalkedName
    <3>. QED
      BY <3>3, Zenon DEF Walk
  <2>. QED
    BY <1>0, <1>1, <1>2, <1>4, <2>1, <2>5, Zenon DEF CleanAt
<1>. QED
  BY <1>3, <1>4

\* At the end of a name.
LEMMA CleanEnd ==
  ASSUME NEW C, "/" \in C, NEW s \in Seq(C), NEW i, NEW r \in Seq(C), NEW d, NEW v,
         CleanAt(s, i, r, d, v), i < Len(s), At(s, i) # "/",
         NEW j \in i + 1..Len(s), Plain(s, i, j), Ends(s, j),
         NEW q \in Seq(C), NEW e, NEW w,
         w = Walk(v, Part(s, i, j), Rooted(s)), q = Then(Root(s), Joined(w)),
         Fits(s, w, e), Len(q) <= j
  PROVE  CleanAt(s, j, q, e, w)
<1>0. i \in Nat /\ Len(s) \in Nat /\ Len(Root(s)) \in Nat /\ i \in 0..Len(s) /\ j \in i..Len(s)
      /\ j \in Len(Root(s))..Len(s) /\ j # 0 /\ j - 1 \in i..j - 1
  <2>1. Len(Root(s)) \in Nat /\ i \in Len(Root(s))..Len(s) /\ Len(s) \in Nat
    BY RootIs DEF CleanAt
  <2>. QED
    BY <2>1
<1>1. Begins(s, i) /\ v = Before(s, i)
  BY DEF CleanAt, Ends
<1>2. WalkedTo(s)[j] = w
  BY <1>0, <1>1, WalkedName
<1>3. ~Begins(s, j)
  BY <1>0 DEF Begins, Plain
<1>. QED
  BY <1>0, <1>2, <1>3, Zenon DEF CleanAt

\* There is room for a slash in front of a name.
HasRoom(s, i, r, v) ==
  /\ i \in Nat /\ Len(r) \in Nat /\ Len(r) = Len(Root(s)) + Len(Joined(v)) /\ Len(r) <= i
  /\ v # <<>> => Len(r) < i /\ Len(r) > Len(Root(s))
  /\ v = <<>> => r = Root(s)

LEMMA CleanRoom ==
  ASSUME NEW C, "/" \in C, NEW s \in Seq(C), NEW i, NEW r \in Seq(C), NEW d, NEW v,
         NamesOf(v, C), CleanAt(s, i, r, d, v), i < Len(s), At(s, i) # "/"
  PROVE  HasRoom(s, i, r, v)
<1>0. i \in Nat /\ Len(r) \in Nat /\ Len(Root(s)) \in Nat /\ Root(s) \in Seq(C) /\ Len(r) <= i
      /\ r = Then(Root(s), Joined(v)) /\ Joined(v) \in Seq(C) /\ Len(Joined(v)) \in Nat
      /\ Len(Joined(v)) >= Len(v) /\ Len(v) \in Nat
  <2>1. Len(Root(s)) \in Nat /\ Root(s) \in Seq(C)
    BY RootIs
  <2>2. Joined(v) \in Seq(C) /\ Len(Joined(v)) \in Nat /\ Len(Joined(v)) >= Len(v)
    BY JoinedType
  <2>3. i \in Len(Root(s))..Len(s) /\ Len(r) <= i /\ r = Then(Root(s), Joined(v))
    BY DEF CleanAt
  <2>4. Len(r) \in Nat /\ Len(s) \in Nat /\ Len(v) \in Nat
    BY DEF NamesOf
  <2>5. i \in Nat
    BY <2>1, <2>3, <2>4
  <2>. QED
    BY <2>1, <2>2, <2>3, <2>4, <2>5, Zenon
<1>1. Len(r) = Len(Root(s)) + Len(Joined(v))
  BY <1>0, ThenType
<1>2. Begins(s, i)
  BY DEF CleanAt, Ends
<1>3. ASSUME v # <<>> PROVE Len(r) < i /\ Len(r) > Len(Root(s))
  <2>1. Len(v) >= 1
    BY <1>3 DEF NamesOf
  <2>2. Len(r) > Len(Root(s))
    BY <1>0, <1>1, <2>1
  <2>3. i > Len(Root(s))
    BY <1>0, <2>2
  <2>. QED
    BY <1>2, <2>2, <2>3 DEF CleanAt
<1>4. ASSUME v = <<>> PROVE r = Root(s)
  <2>1. Joined(v) = <<>>
    BY <1>4, JoinedType
  <2>2. Then(Root(s), <<>>) = Root(s)
    BY <1>0 DEF Then
  <2>. QED
    BY <1>0, <2>1, <2>2
<1>. QED
  BY <1>0, <1>1, <1>3, <1>4 DEF HasRoom

\* The way back leads to the last slash, or to where .. must stop.
LEMMA CleanUpIs ==
  ASSUME NEW C, NEW b \in Seq(C), NEW y \in Seq(C), y # <<>>, NEW d \in 0..Len(b),
         \A k \in 2..Len(y) : y[k] # "/", y[1] = "/" \/ d = Len(b)
  PROVE  CleanUp(Then(b, y), d) = b
<1>. DEFINE r == Then(b, y)
            n == Len(b)
            Stops(q) == /\ q = d \/ At(r, q) = "/"
                        /\ \A k \in q + 1..Len(r) - 1 : At(r, k) # "/"
<1>1. /\ r \in Seq(C) /\ Len(r) = n + Len(y) /\ n \in Nat /\ Len(y) \in Nat
      /\ \A k \in 1..n : r[k] = b[k]
      /\ \A k \in 1..Len(y) : r[n + k] = y[k]
  <2>1. IsJoint(r, b, y, C)
    BY Joint
  <2>. QED
    BY <2>1, Zenon DEF IsJoint
<1>2. Len(y) >= 1
  BY <1>1
<1>. HIDE DEF r
<1>3. At(r, n) = y[1]
  <2>1. 1 \in 1..Len(y) /\ n + 1 = n + 1
    BY <1>1, <1>2
  <2>2. r[n + 1] = y[1]
    BY <1>1, <2>1
  <2>. QED
    BY <2>2 DEF At
<1>4. \A k \in n + 1..Len(r) - 1 : At(r, k) # "/"
  <2>. TAKE k \in n + 1..Len(r) - 1
  <2>1. k + 1 - n \in 2..Len(y) /\ k + 1 - n \in 1..Len(y) /\ n + (k + 1 - n) = k + 1
    BY <1>1
  <2>2. r[n + (k + 1 - n)] = y[k + 1 - n]
    BY <1>1, <2>1
  <2>3. r[k + 1] # "/"
    BY <2>1, <2>2
  <2>. QED
    BY <2>3 DEF At
<1>5. n \in d..Len(r) - 1 /\ Stops(n)
  BY <1>1, <1>2, <1>3, <1>4
<1>6. ASSUME NEW q \in d..Len(r) - 1, Stops(q) PROVE q = n
  <2>1. q \in Nat /\ d \in Nat /\ d <= n /\ d <= q /\ q <= Len(r) - 1
    BY <1>1
  <2>2. ASSUME q > n PROVE FALSE
    <3>1. q # d /\ q \in n + 1..Len(r) - 1
      BY <1>1, <2>1, <2>2
    <3>. QED
      BY <1>4, <1>6, <3>1
  <2>3. ASSUME q < n PROVE FALSE
    <3>1. d # n /\ n \in q + 1..Len(r) - 1
      BY <1>1, <1>2, <2>1, <2>3
    <3>2. At(r, n) = "/"
      BY <1>3, <3>1
    <3>. QED
      BY <1>6, <3>1, <3>2
  <2>. QED
    BY <1>1, <2>1, <2>2, <2>3
<1>7. CleanUp(r, d) = Part(r, 0, CHOOSE q \in d..Len(r) - 1 : Stops(q))
  BY Zenon DEF CleanUp
<1>8. (CHOOSE q \in d..Len(r) - 1 : Stops(q)) = n
  <2>. HIDE DEF Stops, n
  <2>. QED
    BY <1>5, <1>6
<1>9. Part(r, 0, n) = b
  <2>1. 0 \in 0..Len(r) /\ n \in 0..Len(r) /\ n - 0 = n
    BY <1>1
  <2>2. /\ Part(r, 0, n) \in Seq(C) /\ Len(Part(r, 0, n)) = n - 0
        /\ \A k \in 1..n - 0 : Part(r, 0, n)[k] = r[0 + k]
    BY <1>1, <2>1, PieceBetween
  <2>3. \A k \in 1..n : Part(r, 0, n)[k] = b[k]
    <3>. TAKE k \in 1..n
    <3>1. k \in 1..n - 0 /\ 0 + k = k
      BY <1>1
    <3>. QED
      BY <1>1, <2>2, <3>1
  <2>. HIDE DEF Part
  <2>. QED
    BY <2>1, <2>2, <2>3, SameString
<1>. QED
  BY <1>7, <1>8, <1>9 DEF r

LEMMA FrontLast ==
  ASSUME NEW C, NEW v, NamesOf(v, C), v # <<>>
  PROVE  /\ NamesOf(Front(v), C) /\ Last(v) \in Seq(C) /\ v = Append(Front(v), Last(v))
         /\ Last(v) # <<>> /\ (\A l \in 1..Len(Last(v)) : Last(v)[l] # "/")
         /\ Len(v) \in Nat /\ Len(v) = Len(Front(v)) + 1 /\ Len(Front(v)) \in Nat
         /\ Last(v) = v[Len(v)]
         /\ \A k \in 1..Len(Front(v)) : Front(v)[k] = v[k]
<1>1. v \in Seq(Seq(C)) /\ Len(v) \in Nat /\ Len(v) >= 1
  BY DEF NamesOf
<1>2. /\ Front(v) \in Seq(Seq(C)) /\ Len(Front(v)) = Len(v) - 1
      /\ \A k \in 1..Len(v) - 1 : Front(v)[k] = v[k]
  <2>. DEFINE T == Seq(C)
              n == Len(v) - 1
  <2>1. v \in Seq(T) /\ n \in Nat /\ n <= Len(v) /\ \A k \in 1..n : v[k] \in T
    BY <1>1
  <2>. HIDE DEF T
  <2>2. Front(v) = [k \in 1..n |-> v[k]]
    BY <1>1 DEF Front
  <2>. HIDE DEF n
  <2>3. Front(v) \in Seq(T) /\ Len(Front(v)) = n /\ \A k \in 1..n : Front(v)[k] = v[k]
    BY <2>1, <2>2
  <2>. QED
    BY <2>3 DEF T, n
<1>3. Last(v) = v[Len(v)] /\ Len(v) \in 1..Len(v)
  BY <1>1 DEF Last
<1>4. Last(v) \in Seq(C) /\ Last(v) # <<>> /\ \A l \in 1..Len(Last(v)) : Last(v)[l] # "/"
  BY <1>1, <1>3 DEF NamesOf
<1>5. NamesOf(Front(v), C)
  <2>1. \A k \in 1..Len(Front(v)) : k \in 1..Len(v) /\ Front(v)[k] = v[k]
    BY <1>1, <1>2
  <2>. HIDE DEF Front
  <2>. QED
    BY <1>2, <2>1 DEF NamesOf
<1>6. v = Append(Front(v), Last(v))
  <2>. DEFINE u == Front(v)
              x == Last(v)
  <2>1. u \in Seq(Seq(C)) /\ Len(u) = Len(v) - 1 /\ \A k \in 1..Len(v) - 1 : u[k] = v[k]
    BY <1>2
  <2>2. x \in Seq(C) /\ x = v[Len(v)]
    BY <1>3, <1>4
  <2>. HIDE DEF u, x
  <2>3. Append(u, x) \in Seq(Seq(C)) /\ Len(Append(u, x)) = Len(v)
    BY <1>1, <2>1, <2>2
  <2>4. \A k \in 1..Len(v) : Append(u, x)[k] = v[k]
    BY <1>1, <2>1, <2>2
  <2>5. v = Append(u, x)
    BY <1>1, <2>3, <2>4, SeqEqual
  <2>. QED
    BY <2>5 DEF u, x
<1>. QED
  BY <1>1, <1>2, <1>3, <1>4, <1>5, <1>6

\* There is a name to be taken back if the last one is not .. itself.
LEMMA CleanLonger ==
  ASSUME NEW C, "/" \in C, NEW s \in Seq(C), NEW d, NEW v, NamesOf(v, C), Fits(s, v, d)
  PROVE  /\ d \in Nat
         /\ d <= Len(Root(s)) + Len(Joined(v))
         /\ Len(Root(s)) + Len(Joined(v)) > d <=> (v # <<>> /\ Last(v) # Dots)
         /\ v = <<>> => d = Len(Root(s))
<1>1. PICK a \in 0..Len(v) :
        /\ d = Len(Root(s)) + Len(JoinedTo(v)[a])
        /\ a > 0 => v[a] = Dots /\ ~Rooted(s)
        /\ \A k \in a + 1..Len(v) : v[k] # Dots
  BY DEF Fits
<1>2. v \in Seq(Seq(C)) /\ Len(v) \in Nat /\ Len(v) \in a..Len(v) /\ Len(v) \in 0..Len(v) /\ a \in Nat
  BY DEF NamesOf
<1>3. Len(JoinedTo(v)[a]) + (Len(v) - a) <= Len(Joined(v))
  <2>1. \A k \in 1..Len(v) : v[k] # <<>>
    BY DEF NamesOf
  <2>2. \A k \in a..Len(v) : Len(JoinedTo(v)[a]) + (k - a) <= Len(JoinedTo(v)[k])
    BY <1>2, <2>1, JoinLonger
  <2>. QED
    BY <1>2, <2>2 DEF Joined
<1>4. Len(JoinedTo(v)[a]) \in Nat /\ Len(Joined(v)) \in Nat
  <2>1. JoinedTo(v)[a] \in Seq(C) /\ JoinedTo(v)[Len(v)] \in Seq(C)
    BY <1>2, JoinUnfolds
  <2>. QED
    BY <2>1 DEF Joined
<1>5. Len(Root(s)) \in Nat
  BY RootIs
<1>. DEFINE p == Len(Root(s))
            x == Len(JoinedTo(v)[a])
            y == Len(Joined(v))
            n == Len(v)
<1>6. p \in Nat /\ x \in Nat /\ y \in Nat /\ n \in Nat /\ a \in 0..n /\ d = p + x /\ x + (n - a) <= y
  BY <1>1, <1>2, <1>3, <1>4, <1>5
<1>7. v # <<>> <=> n # 0
  BY <1>2
<1>8. Last(v) = v[n]
  BY DEF Last
<1>9. a = n => x = y
  BY DEF Joined
<1>10. CASE a = n
  <2>1. v # <<>> => v[n] = Dots
    BY <1>1, <1>6, <1>7, <1>10
  <2>2. v = <<>> => d = p
    <3>. HAVE v = <<>>
    <3>1. Joined(v) = <<>>
      BY JoinedType
    <3>2. y = 0
      BY <3>1
    <3>. HIDE DEF p, x, y, n
    <3>. QED
      BY <1>6, <1>9, <1>10, <3>2
  <2>3. d \in Nat /\ d <= p + y /\ ~(p + y > d)
    <3>. HIDE DEF p, x, y, n
    <3>. QED
      BY <1>6, <1>9, <1>10
  <2>. QED
    BY <1>8, <2>1, <2>2, <2>3
<1>11. CASE a # n
  <2>1. d \in Nat /\ d <= p + y /\ p + y > d /\ n # 0 /\ n \in a + 1..n
    <3>. HIDE DEF p, x, y, n
    <3>. QED
      BY <1>6, <1>11
  <2>2. v # <<>> /\ Last(v) # Dots
    BY <1>1, <1>7, <1>8, <2>1
  <2>. QED
    BY <2>1, <2>2
<1>. QED
  BY <1>10, <1>11

\* .. takes a name back.
LEMMA CleanPops ==
  ASSUME NEW C, "/" \in C, NEW s \in Seq(C), NEW d, NEW v, NamesOf(v, C), Fits(s, v, d),
         v # <<>>, Last(v) # Dots
  PROVE  /\ CleanUp(Then(Root(s), Joined(v)), d) = Then(Root(s), Joined(Front(v)))
         /\ Fits(s, Front(v), d) /\ NamesOf(Front(v), C)
         /\ Len(Joined(Front(v))) <= Len(Joined(v))
<1>. DEFINE u == Front(v)
            x == Last(v)
            S == <<"/">>
            b == Then(Root(s), Joined(u))
<1>1. /\ NamesOf(u, C) /\ x \in Seq(C) /\ v = Append(u, x)
      /\ x # <<>> /\ \A l \in 1..Len(x) : x[l] # "/"
      /\ Len(v) \in Nat /\ Len(v) = Len(u) + 1 /\ Len(u) \in Nat
      /\ x = v[Len(v)]
      /\ \A k \in 1..Len(u) : u[k] = v[k]
  BY FrontLast
<1>. HIDE DEF u, x
<1>2. /\ u \in Seq(Seq(C)) /\ Joined(u) \in Seq(C) /\ Root(s) \in Seq(C) /\ S \in Seq(C)
      /\ Len(Root(s)) \in Nat /\ Len(Joined(u)) \in Nat
  <2>1. u \in Seq(Seq(C))
    BY <1>1 DEF NamesOf
  <2>2. Joined(u) \in Seq(C) /\ Len(Joined(u)) \in Nat
    BY <1>1, JoinedType
  <2>3. Root(s) \in Seq(C) /\ Len(Root(s)) \in Nat
    BY RootIs
  <2>4. S \in Seq(C)
    OBVIOUS
  <2>. QED
    BY <2>1, <2>2, <2>3, <2>4
<1>3. JoinsTo(u, x, v) /\ \A k \in 0..Len(u) : JoinedTo(v)[k] = JoinedTo(u)[k]
  BY <1>1, <1>2, JoinAppend
<1>4. PICK a \in 0..Len(v) :
        /\ d = Len(Root(s)) + Len(JoinedTo(v)[a])
        /\ a > 0 => v[a] = Dots /\ ~Rooted(s)
        /\ \A k \in a + 1..Len(v) : v[k] # Dots
  BY DEF Fits
<1>5. a \in 0..Len(u)
  <2>1. v[Len(v)] # Dots
    BY <1>1 DEF x
  <2>2. a # Len(v)
    BY <1>1, <1>4, <2>1
  <2>. QED
    BY <1>1, <2>2
<1>6. Fits(s, u, d)
  <2>1. d = Len(Root(s)) + Len(JoinedTo(u)[a])
    BY <1>3, <1>4, <1>5
  <2>2. a > 0 => u[a] = Dots /\ ~Rooted(s)
    BY <1>1, <1>4, <1>5
  <2>3. \A k \in a + 1..Len(u) : u[k] # Dots
    BY <1>1, <1>4, <1>5
  <2>. QED
    BY <1>5, <2>1, <2>2, <2>3 DEF Fits
<1>7. /\ d \in Nat /\ d <= Len(Root(s)) + Len(Joined(u))
      /\ u = <<>> => d = Len(Root(s))
  BY <1>1, <1>6, CleanLonger
<1>8. b \in Seq(C) /\ Len(b) = Len(Root(s)) + Len(Joined(u)) /\ d \in 0..Len(b)
  <2>1. b \in Seq(C) /\ Len(b) = Len(Root(s)) + Len(Joined(u))
    BY <1>2, ThenType
  <2>. HIDE DEF b
  <2>. QED
    BY <1>2, <1>7, <2>1
<1>9. CASE u = <<>>
  <2>1. Joined(v) = x
    BY <1>3, <1>9, Zenon DEF JoinsTo
  <2>2. Joined(u) = <<>>
    BY <1>1, <1>9, JoinedType
  <2>3. b = Root(s)
    BY <1>2, <2>2 DEF Then
  <2>4. d = Len(b)
    BY <1>7, <1>9, <2>3
  <2>5. \A k \in 2..Len(x) : x[k] # "/"
    BY <1>1
  <2>6. CleanUp(Then(b, x), d) = b
    <3>. HIDE DEF b
    <3>. QED
      BY <1>1, <1>8, <2>4, <2>5, CleanUpIs
  <2>7. CleanUp(Then(Root(s), Joined(v)), d) = b
    BY <2>1, <2>3, <2>6
  <2>8. Len(Joined(u)) <= Len(Joined(v))
    BY <1>1, <2>1, <2>2
  <2>. QED
    BY <1>1, <1>6, <2>7, <2>8 DEF u
<1>10. CASE u # <<>>
  <2>. DEFINE y == Then(S, x)
  <2>1. Joined(v) = Then(Then(Joined(u), S), x)
    BY <1>3, <1>10, Zenon DEF JoinsTo
  <2>2. y \in Seq(C) /\ Len(y) = 1 + Len(x) /\ Len(x) \in Nat /\ y[1] = "/" /\ \A k \in 1..Len(x) : y[1 + k] = x[k]
    <3>1. IsJoint(y, S, x, C)
      BY <1>1, <1>2, Joint
    <3>2. /\ y \in Seq(C) /\ Len(y) = Len(S) + Len(x) /\ Len(x) \in Nat
          /\ \A k \in 1..Len(S) : y[k] = S[k]
          /\ \A k \in 1..Len(x) : y[Len(S) + k] = x[k]
      BY <3>1, Zenon DEF IsJoint
    <3>3. Len(S) = 1 /\ 1 \in 1..1 /\ S[1] = "/"
      OBVIOUS
    <3>. HIDE DEF S, y
    <3>. QED
      BY <3>2, <3>3
  <2>3. Then(Root(s), Joined(v)) = Then(b, y)
    <3>1. InAnyOrder(Joined(u), S, x)
      BY <1>1, <1>2, ThenAssociative
    <3>2. InAnyOrder(Root(s), Joined(u), y)
      BY <1>2, <2>2, ThenAssociative
    <3>. HIDE DEF S
    <3>. QED
      BY <2>1, <3>1, <3>2, Zenon DEF InAnyOrder
  <2>4. \A k \in 2..Len(y) : y[k] # "/"
    <3>. TAKE k \in 2..Len(y)
    <3>. HIDE DEF y
    <3>1. k - 1 \in 1..Len(x) /\ 1 + (k - 1) = k
      BY <2>2
    <3>2. y[1 + (k - 1)] = x[k - 1]
      BY <2>2, <3>1, Zenon
    <3>3. x[k - 1] # "/"
      BY <1>1, <3>1, Zenon
    <3>. QED
      BY <3>1, <3>2, <3>3
  <2>5. y # <<>>
    <3>. HIDE DEF y
    <3>. QED
      BY <2>2
  <2>6. CleanUp(Then(b, y), d) = b
    <3>. HIDE DEF b, y
    <3>. QED
      BY <1>8, <2>2, <2>4, <2>5, CleanUpIs
  <2>7. Len(Joined(u)) <= Len(Joined(v))
    <3>1. Then(Joined(u), S) \in Seq(C) /\ Len(Then(Joined(u), S)) = Len(Joined(u)) + Len(S)
      BY <1>2, ThenType
    <3>2. Len(S) = 1
      OBVIOUS
    <3>. HIDE DEF S
    <3>3. Len(Joined(v)) = Len(Then(Joined(u), S)) + Len(x)
      <4>. DEFINE z == Then(Joined(u), S)
      <4>1. z \in Seq(C)
        BY <3>1
      <4>. HIDE DEF z
      <4>2. Len(Then(z, x)) = Len(z) + Len(x)
        BY <1>1, <4>1, ThenType
      <4>. QED
        BY <2>1, <4>2, Zenon DEF z
    <3>4. \A i \in Nat, j \in Nat : i <= (i + 1) + j
      OBVIOUS
    <3>5. Len(Joined(v)) = (Len(Joined(u)) + 1) + Len(x)
      BY <3>1, <3>2, <3>3, Zenon
    <3>. QED
      BY <1>2, <2>2, <3>4, <3>5, Zenon
  <2>. QED
    BY <1>1, <1>6, <2>3, <2>6, <2>7 DEF u
<1>. QED
  BY <1>9, <1>10

\* One more name.
LEMMA NamesAppend ==
  ASSUME NEW C, NEW v, NamesOf(v, C), NEW x \in Seq(C), x # <<>>,
         \A l \in 1..Len(x) : x[l] # "/"
  PROVE  NamesOf(Append(v, x), C)
<1>. DEFINE w == Append(v, x)
            T == Seq(C)
<1>1. v \in Seq(T) /\ x \in T /\ Len(v) \in Nat
  BY DEF NamesOf
<1>2. w \in Seq(T) /\ Len(w) = Len(v) + 1 /\ w[Len(v) + 1] = x /\ \A k \in 1..Len(v) : w[k] = v[k]
  <2>. HIDE DEF T
  <2>. QED
    BY <1>1
<1>. HIDE DEF w
<1>3. ASSUME NEW k \in 1..Len(w) PROVE w[k] # <<>> /\ \A l \in 1..Len(w[k]) : w[k][l] # "/"
  <2>1. k \in 1..Len(v) \/ k = Len(v) + 1
    BY <1>1, <1>2
  <2>2. CASE k \in 1..Len(v)
    <3>1. w[k] = v[k]
      BY <1>2, <2>2
    <3>2. v[k] # <<>> /\ \A l \in 1..Len(v[k]) : v[k][l] # "/"
      BY <2>2, Zenon DEF NamesOf
    <3>. QED
      BY <3>1, <3>2, Zenon
  <2>3. CASE k = Len(v) + 1
    BY <1>2, <2>3, Zenon
  <2>. QED
    BY <2>1, <2>2, <2>3
<1>4. NamesOf(w, C)
  BY <1>2, <1>3, Zenon DEF NamesOf, T
<1>. QED
  BY <1>4 DEF w

\* A name leaves the place where .. must stop; .. that is kept moves it.
LEMMA FitsAppend ==
  ASSUME NEW C, "/" \in C, NEW s \in Seq(C), NEW d, NEW v, NamesOf(v, C), NEW x \in Seq(C)
  PROVE  /\ Fits(s, v, d) /\ x # Dots => Fits(s, Append(v, x), d)
         /\ ~Rooted(s) /\ x = Dots =>
              Fits(s, Append(v, x), Len(Root(s)) + Len(Joined(Append(v, x))))
<1>. DEFINE w == Append(v, x)
            n == Len(v)
            T == Seq(C)
<1>1. v \in Seq(T) /\ x \in T /\ n \in Nat
  BY DEF NamesOf
<1>2. Len(w) = n + 1 /\ w[n + 1] = x /\ \A k \in 1..n : w[k] = v[k]
  <2>. HIDE DEF T
  <2>. QED
    BY <1>1
<1>3. \A k \in 0..n : JoinedTo(w)[k] = JoinedTo(v)[k]
  BY <1>1, JoinAppend
<1>. HIDE DEF w, n
<1>4. ASSUME Fits(s, v, d), x # Dots PROVE Fits(s, w, d)
  <2>1. PICK a \in 0..n :
          /\ d = Len(Root(s)) + Len(JoinedTo(v)[a])
          /\ a > 0 => v[a] = Dots /\ ~Rooted(s)
          /\ \A k \in a + 1..n : v[k] # Dots
    BY <1>4 DEF Fits, n
  <2>2. a \in 0..Len(w)
    BY <1>1, <1>2
  <2>3. d = Len(Root(s)) + Len(JoinedTo(w)[a])
    BY <1>3, <2>1
  <2>4. a > 0 => w[a] = Dots /\ ~Rooted(s)
    BY <1>1, <1>2, <2>1
  <2>5. ASSUME NEW k \in a + 1..Len(w) PROVE w[k] # Dots
    <3>1. (k \in a + 1..n /\ k \in 1..n) \/ k = n + 1
      BY <1>1, <1>2
    <3>. QED
      BY <1>2, <1>4, <2>1, <3>1
  <2>. QED
    BY <2>2, <2>3, <2>4, <2>5 DEF Fits
<1>5. ASSUME ~Rooted(s), x = Dots PROVE Fits(s, w, Len(Root(s)) + Len(Joined(w)))
  <2>1. Len(w) \in 0..Len(w) /\ w[Len(w)] = Dots /\ Len(w) + 1 > Len(w)
    BY <1>1, <1>2, <1>5
  <2>2. \A k \in Len(w) + 1..Len(w) : w[k] # Dots
    BY <1>1, <1>2
  <2>. QED
    BY <1>5, <2>1, <2>2 DEF Fits, Joined
<1>. QED
  BY <1>4, <1>5 DEF w

\* What is written when a name is added.
Added(r, v, x) == Then(Then(r, IF v = <<>> THEN <<>> ELSE <<"/">>), x)

LEMMA CleanAdds ==
  ASSUME NEW C, "/" \in C, NEW s \in Seq(C), NEW i, NEW r \in Seq(C), NEW d, NEW v,
         NamesOf(v, C), CleanAt(s, i, r, d, v), i < Len(s), At(s, i) # "/", NEW x \in Seq(C)
  PROVE  /\ Added(r, v, x) \in Seq(C)
         /\ Added(r, v, x) = Then(Root(s), Joined(Append(v, x)))
         /\ Len(Added(r, v, x)) <= i + Len(x)
<1>. DEFINE q == Added(r, v, x)
            S == <<"/">>
            w == Append(v, x)
<1>1. /\ i \in Nat /\ Len(r) \in Nat /\ Len(r) <= i
      /\ v # <<>> => Len(r) < i /\ Len(r) > Len(Root(s))
      /\ v = <<>> => r = Root(s)
  <2>1. HasRoom(s, i, r, v)
    BY CleanRoom
  <2>. QED
    BY <2>1 DEF HasRoom
<1>2. JoinsTo(v, x, w)
  <2>1. v \in Seq(Seq(C))
    BY DEF NamesOf
  <2>. QED
    BY <2>1, JoinAppend
<1>3. /\ Root(s) \in Seq(C) /\ Joined(v) \in Seq(C) /\ S \in Seq(C) /\ Len(x) \in Nat
      /\ r = Then(Root(s), Joined(v)) /\ Len(S) = 1
  <2>1. Root(s) \in Seq(C)
    BY RootIs
  <2>2. Joined(v) \in Seq(C)
    BY JoinedType
  <2>. QED
    BY <2>1, <2>2 DEF CleanAt
<1>. HIDE DEF S, w
<1>4. CASE v = <<>>
  <2>1. Then(r, <<>>) = r
    BY DEF Then
  <2>2. q = Then(r, x)
    BY <1>4, <2>1, Zenon DEF Added
  <2>3. Joined(w) = x
    BY <1>2, <1>4, Zenon DEF JoinsTo
  <2>4. q = Then(Root(s), Joined(w))
    BY <1>1, <1>4, <2>2, <2>3, Zenon
  <2>5. Then(r, x) \in Seq(C) /\ Len(Then(r, x)) = Len(r) + Len(x)
    BY ThenType
  <2>. HIDE DEF q
  <2>6. Len(q) <= i + Len(x)
    BY <1>1, <1>3, <2>2, <2>5
  <2>. QED
    BY <2>2, <2>4, <2>5, <2>6 DEF q, w
<1>5. CASE v # <<>>
  <2>1. q = Then(Then(r, S), x)
    BY <1>5, Zenon DEF Added, S
  <2>2. Joined(w) = Then(Then(Joined(v), S), x)
    BY <1>2, <1>5, Zenon DEF JoinsTo, S
  <2>3. Then(Joined(v), S) \in Seq(C)
    BY <1>3, ThenType
  <2>4. q = Then(Root(s), Joined(w))
    <3>1. InAnyOrder(Root(s), Joined(v), S)
      BY <1>3, ThenAssociative
    <3>2. InAnyOrder(Root(s), Then(Joined(v), S), x)
      BY <1>3, <2>3, ThenAssociative
    <3>. QED
      BY <1>3, <2>1, <2>2, <3>1, <3>2, Zenon DEF InAnyOrder
  <2>5. Then(r, S) \in Seq(C) /\ Len(Then(r, S)) = Len(r) + Len(S)
    BY <1>3, ThenType
  <2>. DEFINE z == Then(r, S)
  <2>. HIDE DEF q, z
  <2>6. z \in Seq(C) /\ Len(z) = Len(r) + 1 /\ q = Then(z, x)
    BY <1>3, <2>1, <2>5, Zenon DEF z
  <2>7. q \in Seq(C) /\ Len(q) = Len(z) + Len(x)
    BY <2>6, ThenType
  <2>8. Len(q) <= i + Len(x)
    BY <1>1, <1>3, <1>5, <2>6, <2>7
  <2>. QED
    BY <2>4, <2>7, <2>8 DEF q, w
<1>. QED
  BY <1>4, <1>5

\* What a turn of clean finds at position i.
Skips(s, i) == At(s, i) = "/" \/ (At(s, i) = "." /\ Ends(s, i + 1))
GoesUp(s, i) == i + 1 < Len(s) /\ At(s, i) = "." /\ At(s, i + 1) = "." /\ Ends(s, i + 2)
NextEnd(s, i) == CHOOSE k \in i..Len(s) : Ends(s, k) /\ \A l \in i..k - 1 : ~Ends(s, l)
SlashFor(s, r) == IF Len(r) = (IF At(s, 0) = "/" THEN 1 ELSE 0) THEN <<>> ELSE <<"/">>

LEMMA TurnIs ==
  ASSUME NEW C, NEW s \in Seq(C), NEW st \in [i : Nat, r : Seq(C), d : Nat]
  PROVE  /\ st.i >= Len(s) => CleanTurn(s, st) = st
         /\ st.i < Len(s) /\ Skips(s, st.i) =>
              CleanTurn(s, st) = [i |-> st.i + 1, r |-> st.r, d |-> st.d]
         /\ st.i < Len(s) /\ ~Skips(s, st.i) /\ GoesUp(s, st.i) =>
              CleanTurn(s, st) = CleanDots(st, At(s, 0) = "/")
         /\ st.i < Len(s) /\ ~Skips(s, st.i) /\ ~GoesUp(s, st.i) =>
              CleanTurn(s, st) =
                [i |-> NextEnd(s, st.i),
                 r |-> Then(Then(st.r, SlashFor(s, st.r)), Part(s, st.i, NextEnd(s, st.i))),
                 d |-> st.d]
<1>. DEFINE j == NextEnd(s, st.i)
            q == Then(Then(st.r, SlashFor(s, st.r)), Part(s, st.i, j))
<1>1. CleanTurn(s, st) =
        CASE st.i >= Len(s) -> st
          [] st.i < Len(s) /\ Skips(s, st.i) -> [st EXCEPT !.i = @ + 1]
          [] GoesUp(s, st.i) -> CleanDots(st, At(s, 0) = "/")
          [] OTHER -> [i |-> j, r |-> q, d |-> st.d]
  BY Zenon DEF CleanTurn, Skips, GoesUp, NextEnd, SlashFor, Ends, Then
<1>2. [st EXCEPT !.i = @ + 1] = [i |-> st.i + 1, r |-> st.r, d |-> st.d]
  OBVIOUS
<1>3. st.i \in Nat /\ Len(s) \in Nat
  OBVIOUS
<1>4. st.i >= Len(s) <=> ~(st.i < Len(s))
  BY <1>3
<1>5. GoesUp(s, st.i) => st.i < Len(s)
  BY <1>3 DEF GoesUp
<1>. HIDE DEF j, q
<1>6. ASSUME st.i >= Len(s) PROVE CleanTurn(s, st) = st
  BY <1>1, <1>4, <1>5, <1>6
<1>7. ASSUME st.i < Len(s), Skips(s, st.i)
      PROVE CleanTurn(s, st) = [i |-> st.i + 1, r |-> st.r, d |-> st.d]
  <2>1. ~GoesUp(s, st.i)
    BY <1>3, <1>7 DEF GoesUp, Skips, Ends
  <2>. QED
    BY <1>1, <1>2, <1>4, <1>7, <2>1
<1>8. ASSUME st.i < Len(s), ~Skips(s, st.i), GoesUp(s, st.i)
      PROVE CleanTurn(s, st) = CleanDots(st, At(s, 0) = "/")
  BY <1>1, <1>4, <1>8
<1>9. ASSUME st.i < Len(s), ~Skips(s, st.i), ~GoesUp(s, st.i)
       PROVE CleanTurn(s, st) = [i |-> j, r |-> q, d |-> st.d]
  BY <1>1, <1>4, <1>9
<1>. QED
  BY <1>6, <1>7, <1>8, <1>9, Zenon DEF j, q

LEMMA NextEndIs ==
  ASSUME NEW C, NEW s \in Seq(C), NEW i \in Nat, i < Len(s), At(s, i) # "/"
  PROVE  /\ NextEnd(s, i) \in i + 1..Len(s) /\ Ends(s, NextEnd(s, i))
         /\ Plain(s, i, NextEnd(s, i))
<1>. DEFINE T == {k \in i..Len(s) : Ends(s, k)}
<1>1. Len(s) \in T /\ Len(s) \in Nat
  BY DEF Ends
<1>2. PICK k \in T : \A l \in T : k <= l
  <2>1. T \subseteq Nat /\ T # {}
    BY <1>1
  <2>. HIDE DEF T
  <2>. QED
    BY <2>1, LeastNumber
<1>3. k \in i..Len(s) /\ Ends(s, k) /\ \A l \in i..k - 1 : ~Ends(s, l)
  BY <1>1, <1>2
<1>. DEFINE j == NextEnd(s, i)
<1>4. j \in i..Len(s) /\ Ends(s, j) /\ \A l \in i..j - 1 : ~Ends(s, l)
  BY <1>3, Zenon DEF NextEnd
<1>. HIDE DEF j
<1>5. ~Ends(s, i)
  BY DEF Ends
<1>6. j \in i + 1..Len(s)
  BY <1>1, <1>4, <1>5
<1>7. Plain(s, i, j)
  BY <1>4 DEF Ends, Plain
<1>. QED
  BY <1>4, <1>6, <1>7 DEF j

\* Where clean is between two turns.
CleanStates(s, C) ==
  {st \in [i : Nat, r : Seq(C), d : Nat] :
     \E v \in Seq(Seq(C)) : NamesOf(v, C) /\ CleanAt(s, st.i, st.r, st.d, v)}

LEMMA CleanNow ==
  ASSUME NEW C, "/" \in C, NEW s \in Seq(C), NEW i, NEW r \in Seq(C), NEW d, NEW v,
         NamesOf(v, C), CleanAt(s, i, r, d, v)
  PROVE  [i |-> i, r |-> r, d |-> d] \in CleanStates(s, C)
<1>1. i \in Nat
  <2>1. Len(Root(s)) \in Nat /\ Len(s) \in Nat /\ i \in Len(Root(s))..Len(s)
    BY RootIs DEF CleanAt
  <2>. QED
    BY <2>1
<1>2. d \in Nat
  BY CleanLonger DEF CleanAt
<1>3. v \in Seq(Seq(C))
  BY DEF NamesOf
<1>. DEFINE st == [i |-> i, r |-> r, d |-> d]
<1>4. st \in [i : Nat, r : Seq(C), d : Nat] /\ st.i = i /\ st.r = r /\ st.d = d
  BY <1>1, <1>2
<1>. HIDE DEF st
<1>5. NamesOf(v, C) /\ CleanAt(s, st.i, st.r, st.d, v)
  BY <1>4, Zenon
<1>6. st \in CleanStates(s, C)
  BY <1>3, <1>4, <1>5, Zenon DEF CleanStates
<1>. QED
  BY <1>6 DEF st

\* One more element, taken back, kept or added.
RightUp(s, C, i, st) ==
  \E q \in Seq(C), e \in Nat :
    /\ CleanDots(st, At(s, 0) = "/") = [i |-> i + 2, r |-> q, d |-> e]
    /\ [i |-> i + 2, r |-> q, d |-> e] \in CleanStates(s, C)

LEMMA DotsRight ==
  ASSUME NEW C, "/" \in C, "." \in C, NEW s \in Seq(C), NEW i, NEW r \in Seq(C), NEW d, NEW v,
         NamesOf(v, C), CleanAt(s, i, r, d, v), i < Len(s), GoesUp(s, i),
         NEW st \in [i : Nat, r : Seq(C), d : Nat], st.i = i, st.r = r, st.d = d
  PROVE  RightUp(s, C, i, st)
<1>. DEFINE up == At(s, 0) = "/"
<1>1. i \in Nat /\ r \in Seq(C) /\ d \in Nat /\ Len(s) \in Nat
  OBVIOUS
<1>2. NamesOf(v, C) /\ CleanAt(s, i, r, d, v)
  OBVIOUS
<1>. HIDE DEF up
<1>3. i + 1 < Len(s) /\ At(s, i) = "." /\ At(s, i + 1) = "." /\ Ends(s, i + 2) /\ i < Len(s)
  BY DEF GoesUp
<1>4. /\ i + 2 \in i..Len(s) /\ i + 2 \in i + 1..Len(s) /\ i \in 0..Len(s) /\ (i + 2) - i = 2
      /\ 1 \in 1..2 /\ 2 \in 1..2
  BY <1>1, <1>3
<1>5. Plain(s, i, i + 2) /\ At(s, i) # "/"
  BY <1>1, <1>3 DEF Plain
<1>6. Part(s, i, i + 2) = Dots
  <2>1. /\ Part(s, i, i + 2) \in Seq(C) /\ Len(Part(s, i, i + 2)) = 2
        /\ Part(s, i, i + 2)[1] = s[i + 1] /\ Part(s, i, i + 2)[2] = s[i + 2]
    <3>1. /\ Part(s, i, i + 2) \in Seq(C) /\ Len(Part(s, i, i + 2)) = (i + 2) - i
          /\ \A k \in 1..(i + 2) - i : Part(s, i, i + 2)[k] = s[i + k]
      BY <1>4, PieceBetween
    <3>. HIDE DEF Part
    <3>. QED
      BY <1>4, <3>1
  <2>2. s[i + 1] = "." /\ s[i + 2] = "."
    <3>1. (i + 1) + 1 = i + 2
      BY <1>1
    <3>. QED
      BY <1>3, <3>1 DEF At
  <2>. HIDE DEF Part
  <2>. QED
    BY <2>1, <2>2 DEF Dots
<1>7. up <=> Rooted(s)
  <2>1. s # <<>>
    BY <1>1, <1>3
  <2>. QED
    BY <2>1 DEF Rooted, At, up
<1>8. /\ Fits(s, v, d) /\ r = Then(Root(s), Joined(v)) /\ Len(r) \in Nat /\ Len(r) <= i
      /\ Len(r) = Len(Root(s)) + Len(Joined(v))
      /\ v = <<>> => r = Root(s)
      /\ v # <<>> => Len(r) > Len(Root(s))
  <2>1. Fits(s, v, d) /\ r = Then(Root(s), Joined(v))
    BY <1>2 DEF CleanAt
  <2>2. HasRoom(s, i, r, v)
    BY <1>1, <1>2, <1>3, <1>5, CleanRoom
  <2>. QED
    BY <2>1, <2>2, Zenon DEF HasRoom
<1>9. Len(r) > d <=> (v # <<>> /\ Last(v) # Dots)
  BY <1>2, <1>8, CleanLonger
<1>10. \A k \in Nat : k <= i => k <= i + 2
  BY <1>1
\* A name or the root is in front of it: .. takes it back.
<1>11. CASE Len(r) > d
  <2>. DEFINE w == Front(v)
              q == CleanUp(r, d)
  <2>1. /\ q = Then(Root(s), Joined(w)) /\ Fits(s, w, d) /\ NamesOf(w, C)
        /\ Len(Joined(w)) <= Len(Joined(v))
    BY <1>2, <1>8, <1>9, <1>11, CleanPops
  <2>. HIDE DEF w, q
  <2>2. w = Walk(v, Part(s, i, i + 2), Rooted(s))
    <3>1. Dots \notin {<<>>, <<".">>}
      BY DEF Dots
    <3>. QED
      BY <1>6, <1>9, <1>11, <3>1, Zenon DEF Walk, w
  <2>3. q \in Seq(C) /\ Len(q) \in Nat /\ Len(q) <= i + 2
    <3>1. Root(s) \in Seq(C) /\ Len(Root(s)) \in Nat
      BY RootIs
    <3>2. Joined(w) \in Seq(C) /\ Len(Joined(w)) \in Nat
      BY <2>1, JoinedType
    <3>3. Len(Joined(v)) \in Nat
      BY <1>2, JoinedType
    <3>4. q \in Seq(C) /\ Len(q) = Len(Root(s)) + Len(Joined(w))
      BY <2>1, <3>1, <3>2, ThenType
    <3>5. Len(q) <= Len(r)
      BY <1>8, <2>1, <3>1, <3>2, <3>3, <3>4
    <3>. QED
      BY <1>1, <1>8, <3>1, <3>2, <3>4, <3>5
  <2>4. CleanAt(s, i + 2, q, d, w)
    BY <1>1, <1>2, <1>3, <1>4, <1>5, <2>1, <2>2, <2>3, CleanEnd
  <2>5. [i |-> i + 2, r |-> q, d |-> d] \in CleanStates(s, C)
    BY <2>1, <2>3, <2>4, CleanNow
  <2>6. CleanDots(st, up) = [i |-> i + 2, r |-> q, d |-> d]
    BY <1>11, Zenon DEF CleanDots, q
  <2>. QED
    BY <1>1, <2>3, <2>5, <2>6, Zenon DEF up, RightUp
\* Nothing is above the root.
<1>12. CASE ~(Len(r) > d) /\ Rooted(s)
  <2>1. v = <<>>
    <3>. SUFFICES ASSUME v # <<>> PROVE FALSE
      OBVIOUS
    <3>1. Last(v) = Dots
      BY <1>9, <1>12
    <3>2. PICK a \in 0..Len(v) :
            /\ a > 0 => v[a] = Dots /\ ~Rooted(s)
            /\ \A k \in a + 1..Len(v) : v[k] # Dots
      BY <1>8 DEF Fits
    <3>3. Len(v) \in Nat /\ Len(v) # 0 /\ Last(v) = v[Len(v)]
      BY DEF Last
    <3>4. Len(v) \in a + 1..Len(v)
      BY <1>12, <3>2, <3>3
    <3>. QED
      BY <3>1, <3>2, <3>3, <3>4
  <2>2. v = Walk(v, Part(s, i, i + 2), Rooted(s))
    <3>1. Dots \notin {<<>>, <<".">>}
      BY DEF Dots
    <3>. QED
      BY <1>6, <1>12, <2>1, <3>1, Zenon DEF Walk
  <2>3. Len(r) <= i + 2
    BY <1>8, <1>10
  <2>4. CleanAt(s, i + 2, r, d, v)
    BY <1>1, <1>2, <1>3, <1>4, <1>5, <1>8, <2>2, <2>3, CleanEnd
  <2>5. [i |-> i + 2, r |-> r, d |-> d] \in CleanStates(s, C)
    BY <1>1, <1>2, <2>4, CleanNow
  <2>6. CleanDots(st, up) = [i |-> i + 2, r |-> r, d |-> d]
    <3>1. [st EXCEPT !.i = @ + 2] = [i |-> st.i + 2, r |-> st.r, d |-> st.d]
      <4>. QED
        OBVIOUS
    <3>2. CleanDots(st, up) = [st EXCEPT !.i = @ + 2]
      BY <1>7, <1>12, Zenon DEF CleanDots
    <3>. QED
      BY <3>1, <3>2, Zenon
  <2>. QED
    BY <1>1, <2>5, <2>6, Zenon DEF up, RightUp
\* .. is kept, and cannot be taken back.
<1>13. CASE ~(Len(r) > d) /\ ~Rooted(s)
  <2>. DEFINE w == Append(v, Dots)
              q == Added(r, v, Dots)
              e == Len(q)
  <2>1. Dots \in Seq(C) /\ Len(Dots) = 2 /\ Dots # <<>> /\ \A l \in 1..Len(Dots) : Dots[l] # "/"
    BY DEF Dots
  <2>2. NamesOf(w, C)
    BY <1>2, <2>1, NamesAppend
  <2>3. q \in Seq(C) /\ q = Then(Root(s), Joined(w)) /\ Len(q) <= i + 2
    <3>1. /\ q \in Seq(C) /\ q = Then(Root(s), Joined(w)) /\ Len(q) <= i + Len(Dots)
      <4>. HIDE DEF e
      <4>1. Dots \in Seq(C) /\ NamesOf(v, C) /\ CleanAt(s, i, r, d, v) /\ i < Len(s) /\ At(s, i) # "/"
            /\ r \in Seq(C)
        BY <1>1, <1>2, <1>3, <1>5, <2>1
      <4>. QED
        BY <4>1, CleanAdds
    <3>. HIDE DEF q, w
    <3>. QED
      BY <2>1, <3>1
  <2>4. w = Walk(v, Part(s, i, i + 2), Rooted(s))
    <3>1. Dots \notin {<<>>, <<".">>}
      BY DEF Dots
    <3>. QED
      BY <1>6, <1>9, <1>13, <3>1, Zenon DEF Walk
  <2>5. Fits(s, w, e)
    <3>1. Fits(s, w, Len(Root(s)) + Len(Joined(w)))
      BY <1>2, <1>13, <2>1, FitsAppend
    <3>2. Root(s) \in Seq(C) /\ Joined(w) \in Seq(C)
      BY <2>2, RootIs, JoinedType
    <3>3. e = Len(Root(s)) + Len(Joined(w))
      <4>. HIDE DEF q, w
      <4>. QED
        BY <2>3, <3>2, ThenType
    <3>. QED
      BY <3>1, <3>3, Zenon
  <2>6. CleanDots(st, up) = [i |-> i + 2, r |-> q, d |-> e]
    <3>1. CleanDots(st, up) =
            LET z == (IF r = <<>> THEN <<>> ELSE Append(r, "/")) \o <<".", ".">>
            IN  [i |-> i + 2, r |-> z, d |-> Len(z)]
      BY <1>7, <1>13, Zenon DEF CleanDots
    <3>2. r = <<>> <=> v = <<>>
      <4>1. v = <<>> => r = <<>>
        BY <1>8, <1>13, RootIs
      <4>2. v # <<>> => r # <<>>
        BY <1>8, <1>13, RootIs
      <4>. QED
        BY <4>1, <4>2
    <3>3. q = (IF r = <<>> THEN <<>> ELSE Append(r, "/")) \o <<".", ".">>
      <4>1. Then(r, <<"/">>) = Append(r, "/")
        BY <1>1 DEF Then
      <4>2. v = <<>> => Then(r, <<>>) = <<>>
        BY <3>2 DEF Then
      <4>. QED
        BY <3>2, <4>1, <4>2, Zenon DEF Added, Then, Dots
    <3>. QED
      BY <3>1, <3>3, Zenon
  <2>. HIDE DEF q, w
  <2>7. e \in Nat
    BY <2>3
  <2>. HIDE DEF e
  <2>8. CleanAt(s, i + 2, q, e, w)
    <3>1. /\ i + 2 \in i + 1..Len(s) /\ Plain(s, i, i + 2) /\ Ends(s, i + 2) /\ At(s, i) # "/"
          /\ CleanAt(s, i, r, d, v) /\ r \in Seq(C) /\ q \in Seq(C) /\ i < Len(s)
      BY <1>1, <1>2, <1>3, <1>4, <1>5, <2>3
    <3>. QED
      BY <2>3, <2>4, <2>5, <3>1, CleanEnd
  <2>9. [i |-> i + 2, r |-> q, d |-> e] \in CleanStates(s, C)
    BY <2>2, <2>3, <2>8, CleanNow
  <2>. QED
    BY <2>3, <2>6, <2>7, <2>9, Zenon DEF up, RightUp
<1>. QED
  BY <1>11, <1>12, <1>13

LEMMA NameRight ==
  ASSUME NEW C, "/" \in C, NEW s \in Seq(C), NEW i, NEW r \in Seq(C), NEW d, NEW v,
         NamesOf(v, C), CleanAt(s, i, r, d, v), i < Len(s), ~Skips(s, i), ~GoesUp(s, i)
  PROVE  /\ NextEnd(s, i) \in i + 1..Len(s)
         /\ [i |-> NextEnd(s, i),
             r |-> Then(Then(r, SlashFor(s, r)), Part(s, i, NextEnd(s, i))),
             d |-> d] \in CleanStates(s, C)
<1>. DEFINE j == NextEnd(s, i)
            x == Part(s, i, j)
            q == Added(r, v, x)
            w == Append(v, x)
<1>1. At(s, i) # "/"
  BY DEF Skips
<1>2. HasRoom(s, i, r, v)
  BY <1>1, CleanRoom
<1>3. i \in Nat /\ Len(s) \in Nat /\ Len(r) \in Nat /\ i \in 0..Len(s)
  <2>1. i \in Nat /\ Len(r) \in Nat
    BY <1>2, Zenon DEF HasRoom
  <2>. QED
    BY <2>1
<1>4. j \in i + 1..Len(s) /\ Ends(s, j) /\ Plain(s, i, j)
  BY <1>1, <1>3, NextEndIs
<1>. HIDE DEF j
<1>5. x \in Seq(C) /\ Len(x) = j - i /\ \A l \in 1..j - i : x[l] = s[i + l]
  <2>1. j \in i..Len(s)
    BY <1>3, <1>4
  <2>. QED
    BY <1>3, <2>1, PieceBetween
<1>. HIDE DEF x
<1>6. j \in Nat /\ Len(x) \in Nat /\ Len(x) >= 1 /\ i + Len(x) = j
  BY <1>3, <1>4, <1>5
<1>7. x # <<>>
  BY <1>6
<1>8. \A l \in 1..Len(x) : x[l] # "/"
  <2>. TAKE l \in 1..Len(x)
  <2>1. l \in 1..j - i /\ i + l - 1 \in i..j - 1 /\ (i + l - 1) + 1 = i + l
    BY <1>3, <1>5, <1>6
  <2>2. At(s, i + l - 1) # "/"
    BY <1>4, <2>1 DEF Plain
  <2>3. x[l] = s[i + l]
    BY <1>5, <2>1
  <2>. QED
    BY <2>1, <2>2, <2>3 DEF At
<1>9. x # <<".">>
  <2>. SUFFICES ASSUME x = <<".">> PROVE FALSE
    OBVIOUS
  <2>1. Len(x) = 1 /\ x[1] = "."
    OBVIOUS
  <2>2. j = i + 1 /\ 1 \in 1..j - i
    BY <1>3, <1>5, <1>6, <2>1
  <2>3. At(s, i) = "."
    BY <1>5, <2>1, <2>2 DEF At
  <2>. QED
    BY <1>4, <2>2, <2>3 DEF Skips
<1>10. x # Dots
  <2>. SUFFICES ASSUME x = Dots PROVE FALSE
    OBVIOUS
  <2>1. Len(x) = 2 /\ x[1] = "." /\ x[2] = "."
    BY DEF Dots
  <2>2. j = i + 2 /\ 1 \in 1..j - i /\ 2 \in 1..j - i /\ (i + 1) + 1 = i + 2 /\ i + 1 < Len(s)
    <3>1. i + 2 = j
      BY <1>6, <2>1, Zenon
    <3>2. j <= Len(s)
      BY <1>3, <1>4
    <3>. QED
      BY <1>3, <3>1, <3>2
  <2>3. s[i + 1] = "." /\ s[i + 2] = "."
    BY <1>5, <2>1, <2>2
  <2>4. At(s, i) = "." /\ At(s, i + 1) = "."
    BY <2>2, <2>3 DEF At
  <2>. QED
    BY <1>4, <2>2, <2>4 DEF GoesUp
<1>11. w = Walk(v, x, Rooted(s))
  BY <1>7, <1>9, <1>10, Zenon DEF Walk
<1>12. NamesOf(w, C)
  BY <1>5, <1>7, <1>8, NamesAppend
<1>13. /\ q \in Seq(C) /\ q = Then(Root(s), Joined(w)) /\ Len(q) <= i + Len(x)
  BY <1>1, <1>5, CleanAdds
<1>14. Fits(s, w, d)
  <2>1. Fits(s, v, d)
    BY DEF CleanAt
  <2>. QED
    BY <1>5, <1>10, <2>1, FitsAppend
<1>15. q = Then(Then(r, SlashFor(s, r)), x)
  <2>1. Len(Root(s)) = IF At(s, 0) = "/" THEN 1 ELSE 0
    <3>1. s # <<>>
      BY <1>3
    <3>. QED
      BY <3>1, RootIs
  <2>2. Len(r) = Len(Root(s)) <=> v = <<>>
    <3>1. Len(Root(s)) \in Nat
      BY RootIs
    <3>2. v = <<>> => Len(r) = Len(Root(s))
      BY <1>2, Zenon DEF HasRoom
    <3>3. v # <<>> => Len(r) > Len(Root(s))
      BY <1>2, Zenon DEF HasRoom
    <3>. QED
      BY <1>3, <3>1, <3>2, <3>3
  <2>3. SlashFor(s, r) = IF Len(r) = Len(Root(s)) THEN <<>> ELSE <<"/">>
    BY <2>1, Zenon DEF SlashFor
  <2>4. SlashFor(s, r) = IF v = <<>> THEN <<>> ELSE <<"/">>
    BY <2>2, <2>3, Zenon
  <2>. QED
    BY <2>4, Zenon DEF Added
<1>. HIDE DEF q, w
<1>16. Len(q) <= j
  BY <1>6, <1>13
<1>17. CleanAt(s, j, q, d, w)
  BY <1>1, <1>4, <1>11, <1>13, <1>14, <1>16, CleanEnd DEF x
<1>18. [i |-> j, r |-> q, d |-> d] \in CleanStates(s, C)
  BY <1>12, <1>13, <1>17, CleanNow
<1>. QED
  BY <1>4, <1>15, <1>18, Zenon DEF j, x

\* A turn reads on, and keeps what is written right.
LEMMA TurnRight ==
  ASSUME NEW C, "/" \in C, "." \in C, NEW s \in Seq(C), NEW st \in CleanStates(s, C)
  PROVE  /\ CleanTurn(s, st) \in CleanStates(s, C)
         /\ st.i <= Len(s) /\ CleanTurn(s, st).i <= Len(s)
         /\ st.i < Len(s) => CleanTurn(s, st).i > st.i
         /\ st.i = Len(s) => CleanTurn(s, st).i = Len(s)
<1>. DEFINE T == [i : Nat, r : Seq(C), d : Nat]
            i == st.i
            r == st.r
            d == st.d
            t == CleanTurn(s, st)
<1>1. st \in T
  BY DEF CleanStates
<1>2. PICK v \in Seq(Seq(C)) : NamesOf(v, C) /\ CleanAt(s, st.i, st.r, st.d, v)
  BY DEF CleanStates
<1>3. st.i \in Nat /\ Len(s) \in Nat /\ st.i <= Len(s) /\ st.r \in Seq(C)
  <2>1. st.i \in Nat /\ Len(s) \in Nat /\ st.r \in Seq(C)
    BY <1>1
  <2>2. st.i \in Len(Root(s))..Len(s) /\ Len(Root(s)) \in Nat
    BY <1>2, RootIs DEF CleanAt
  <2>. QED
    BY <2>1, <2>2
<1>4. CASE st.i = Len(s)
  <2>1. t = st
    BY <1>1, <1>3, <1>4, TurnIs
  <2>. QED
    BY <1>3, <1>4, <2>1
<1>5. CASE st.i < Len(s) /\ Skips(s, st.i)
  <2>1. t = [i |-> st.i + 1, r |-> st.r, d |-> st.d]
    BY <1>1, <1>5, TurnIs
  <2>2. CleanAt(s, st.i + 1, st.r, st.d, v)
    BY <1>2, <1>3, <1>5, CleanSkips DEF Skips
  <2>3. [i |-> st.i + 1, r |-> st.r, d |-> st.d] \in CleanStates(s, C)
    BY <1>2, <1>3, <2>2, CleanNow
  <2>4. t.i = st.i + 1
    BY <2>1
  <2>. QED
    BY <1>3, <1>5, <2>1, <2>3, <2>4
<1>6. CASE st.i < Len(s) /\ ~Skips(s, st.i) /\ GoesUp(s, st.i)
  <2>1. t = CleanDots(st, At(s, 0) = "/")
    BY <1>1, <1>6, TurnIs
  <2>2. PICK q \in Seq(C), e \in Nat :
          /\ CleanDots(st, At(s, 0) = "/") = [i |-> st.i + 2, r |-> q, d |-> e]
          /\ [i |-> st.i + 2, r |-> q, d |-> e] \in CleanStates(s, C)
    <3>1. RightUp(s, C, st.i, st)
      <4>. HIDE DEF i, r, d, t
      <4>. QED
        BY <1>1, <1>2, <1>3, <1>6, DotsRight
    <3>. QED
      BY <3>1, Zenon DEF RightUp
  <2>3. t = [i |-> st.i + 2, r |-> q, d |-> e] /\ t \in CleanStates(s, C)
    BY <2>1, <2>2, Zenon
  <2>4. t.i = st.i + 2
    BY <2>3
  <2>5. st.i + 2 <= Len(s)
    BY <1>3, <1>6 DEF GoesUp
  <2>. QED
    BY <1>3, <1>6, <2>3, <2>4, <2>5
<1>7. CASE st.i < Len(s) /\ ~Skips(s, st.i) /\ ~GoesUp(s, st.i)
  <2>. DEFINE j == NextEnd(s, st.i)
              q == Then(Then(st.r, SlashFor(s, st.r)), Part(s, st.i, j))
  <2>1. t = [i |-> j, r |-> q, d |-> st.d]
    BY <1>1, <1>7, TurnIs
  <2>2. j \in st.i + 1..Len(s) /\ [i |-> j, r |-> q, d |-> st.d] \in CleanStates(s, C)
    BY <1>2, <1>3, <1>7, NameRight
  <2>. HIDE DEF j, q
  <2>3. t.i = j
    BY <2>1
  <2>. QED
    BY <1>3, <1>7, <2>1, <2>2, <2>3
<1>. QED
  BY <1>3, <1>4, <1>5, <1>6, <1>7

\* Where clean begins.
LEMMA CleanBegins ==
  ASSUME NEW C, "/" \in C, NEW s \in Seq(C), NEW p, p = IF Rooted(s) THEN 1 ELSE 0
  PROVE  [i |-> p, r |-> Part(s, 0, p), d |-> p] \in CleanStates(s, C)
<1>1. Root(s) \in Seq(C) /\ Len(Root(s)) = p /\ p \in 0..Len(s) /\ (p # 0 => At(s, 0) = "/" /\ p = 1)
  BY RootIs
<1>2. Part(s, 0, p) = Root(s)
  <2>1. p - 0 = p /\ p \in 0..Len(s) /\ 0 \in 0..Len(s)
    BY <1>1
  <2>2. /\ Part(s, 0, p) \in Seq(C) /\ Len(Part(s, 0, p)) = p - 0
        /\ \A l \in 1..p - 0 : Part(s, 0, p)[l] = s[0 + l]
    BY <2>1, PieceBetween
  <2>3. \A l \in 1..p : Part(s, 0, p)[l] = Root(s)[l]
    <3>. TAKE l \in 1..p
    <3>1. l = 1 /\ p = 1 /\ At(s, 0) = "/" /\ Rooted(s)
      BY <1>1
    <3>2. Part(s, 0, p)[l] = s[0 + 1] /\ At(s, 0) = s[0 + 1]
      BY <2>1, <2>2, <3>1 DEF At
    <3>3. Root(s) = <<"/">>
      BY <3>1, RootIs
    <3>. QED
      BY <3>1, <3>2, <3>3
  <2>. HIDE DEF Part
  <2>. QED
    BY <1>1, <2>1, <2>2, <2>3, SameString
<1>. DEFINE v == <<>>
<1>3. NamesOf(v, C)
  BY DEF NamesOf
<1>4. Begins(s, p)
  BY <1>1 DEF Begins
<1>5. Before(s, p) = v
  <2>1. Before(s, 0) = v
    BY DEF Before
  <2>2. 0 \in 0..Len(s) /\ Begins(s, 0)
    BY <1>1 DEF Begins
  <2>3. WalkedTo(s)[0] = v
    BY <2>1, <2>2, WalkedHere
  <2>. QED
    BY <1>1, <2>1, <2>3 DEF Before
<1>6. WalkedTo(s)[p] = v
  BY <1>1, <1>4, <1>5, WalkedHere
<1>7. Root(s) = Then(Root(s), Joined(v))
  <2>1. Joined(v) = <<>>
    BY <1>3, JoinedType
  <2>2. Then(Root(s), <<>>) = Root(s)
    BY <1>1 DEF Then
  <2>. QED
    BY <2>1, <2>2
<1>8. Fits(s, v, p)
  <2>1. JoinedTo(v)[0] = <<>>
    <3>1. 0 \in 0..Len(v) /\ v \in Seq(Seq(C))
      OBVIOUS
    <3>2. JoinedTo(v)[0] = JoinStep(JoinedTo(v), v, 0)
      BY <3>1, JoinUnfolds
    <3>. QED
      BY <3>2, Zenon DEF JoinStep
  <2>2. Len(JoinedTo(v)[0]) = 0
    BY <2>1
  <2>3. p = Len(Root(s)) + Len(JoinedTo(v)[0])
    <3>1. p = Len(Root(s)) + 0
      BY <1>1
    <3>. QED
      BY <2>2, <3>1, Zenon
  <2>4. 0 \in 0..Len(v) /\ ~(0 > 0) /\ \A k \in 0 + 1..Len(v) : v[k] # Dots
    OBVIOUS
  <2>. HIDE DEF v
  <2>. QED
    BY <2>3, <2>4, Zenon DEF Fits
<1>. HIDE DEF v
<1>9. CleanAt(s, p, Root(s), p, v)
  <2>1. p \in Len(Root(s))..Len(s) /\ Len(Root(s)) <= p /\ ~(p > Len(Root(s)))
    BY <1>1
  <2>. QED
    BY <1>4, <1>5, <1>6, <1>7, <1>8, <2>1, Zenon DEF CleanAt
<1>10. [i |-> p, r |-> Root(s), d |-> p] \in CleanStates(s, C)
  BY <1>1, <1>3, <1>9, CleanNow
<1>. QED
  BY <1>2, <1>10

\* The turns of clean, unfolded once.
LEMMA CleanUnfolds ==
  ASSUME NEW C, "/" \in C, "." \in C, NEW s \in Seq(C)
  PROVE  /\ CleanFrom(s)[0] \in CleanStates(s, C)
         /\ \A k \in 1..Len(s) : CleanFrom(s)[k] = CleanTurn(s, CleanFrom(s)[k - 1])
<1>. DEFINE n == Len(s)
            T == CleanStates(s, C)
            p == IF Rooted(s) THEN 1 ELSE 0
            base == [i |-> p, r |-> Part(s, 0, p), d |-> p]
            step == [k \in 0 + 1..n |-> [st \in T |-> CleanTurn(s, st)]]
            Good(f) == f = [k \in 0..Len(s) |-> IF k = 0 THEN base ELSE CleanTurn(s, f[k - 1])]
<1>1. n \in Nat /\ 0 \in Nat
  OBVIOUS
<1>2. base \in T
  <2>. HIDE DEF T
  <2>1. p = IF Rooted(s) THEN 1 ELSE 0
    OBVIOUS
  <2>. HIDE DEF p
  <2>. QED
    BY <2>1, CleanBegins DEF T
<1>3. step \in [0 + 1..n -> [T -> T]]
  <2>1. \A st \in T : CleanTurn(s, st) \in T
    BY TurnRight
  <2>. HIDE DEF T, n
  <2>. QED
    BY <2>1, Zenon
<1>4. PICK f \in [0..n -> T] : Steps(f, 0, n, base, step)
  <2>. HIDE DEF T, n, base, step
  <2>. QED
    BY <1>1, <1>2, <1>3, StepByStep
<1>5. Good(f)
  <2>1. f = [k \in 0..n |-> IF k = 0 THEN base ELSE step[k][f[k - 1]]]
    BY <1>4, Zenon DEF Steps
  <2>2. ASSUME NEW k \in 0..n, k # 0 PROVE step[k][f[k - 1]] = CleanTurn(s, f[k - 1])
    <3>1. k \in 0 + 1..n /\ k - 1 \in 0..n
      BY <2>2
    <3>. HIDE DEF T
    <3>2. f[k - 1] \in T
      BY <1>4, <3>1, Zenon
    <3>. QED
      BY <3>1, <3>2, Zenon
  <2>3. \A k \in 0..n : (IF k = 0 THEN base ELSE step[k][f[k - 1]])
                          = IF k = 0 THEN base ELSE CleanTurn(s, f[k - 1])
    BY <2>2, Zenon
  <2>. HIDE DEF base, step
  <2>. QED
    BY <2>1, <2>3, Zenon
<1>6. CleanFrom(s) = CHOOSE g : Good(g)
  BY Zenon DEF CleanFrom
<1>7. Good(CleanFrom(s))
  <2>. HIDE DEF Good
  <2>. QED
    BY <1>5, <1>6, Zenon
<1>. DEFINE W == CleanFrom(s)
<1>8. W = [k \in 0..n |-> IF k = 0 THEN base ELSE CleanTurn(s, W[k - 1])]
  BY <1>7, Zenon
<1>. HIDE DEF W, base, T
<1>9. W[0] = base
  <2>1. 0 \in 0..n
    BY <1>1
  <2>. QED
    BY <1>8, <2>1, Zenon
<1>10. \A k \in 1..n : W[k] = CleanTurn(s, W[k - 1])
  <2>. TAKE k \in 1..n
  <2>1. k \in 0..n /\ k # 0
    BY <1>1
  <2>. QED
    BY <1>8, <2>1, Zenon
<1>. QED
  BY <1>2, <1>9, <1>10 DEF W, T

\* clean returns what the path leads through.
LEMMA CleanRight ==
  ASSUME NEW C, "/" \in C, "." \in C, NEW s \in Seq(C)
  PROVE  /\ Clean(s) = Canonical(s)
         /\ \A k \in 0..Len(s) : Len(CleanFrom(s)[k].r) <= CleanFrom(s)[k].i
<1>. DEFINE n == Len(s)
            W == CleanFrom(s)
            Fine == {k \in Nat : W[k] \in CleanStates(s, C) /\ W[k].i >= k}
<1>0. n \in Nat
  OBVIOUS
<1>1. /\ W[0] \in CleanStates(s, C)
      /\ \A k \in 1..n : W[k] = CleanTurn(s, W[k - 1])
  BY CleanUnfolds
<1>. HIDE DEF n, W
<1>2. \A st \in CleanStates(s, C) :
        /\ CleanTurn(s, st) \in CleanStates(s, C)
        /\ st.i \in Nat /\ CleanTurn(s, st).i \in Nat
        /\ st.i <= n /\ CleanTurn(s, st).i <= n
        /\ st.i < n => CleanTurn(s, st).i > st.i
        /\ st.i = n => CleanTurn(s, st).i = n
  <2>. TAKE st \in CleanStates(s, C)
  <2>1. CleanTurn(s, st) \in CleanStates(s, C)
    BY TurnRight
  <2>2. st.i \in Nat /\ CleanTurn(s, st).i \in Nat
    BY <2>1 DEF CleanStates
  <2>. QED
    BY <2>1, <2>2, TurnRight DEF n
<1>3. 0 \in Fine
  BY <1>1, <1>2
<1>4. ASSUME NEW k \in 0 + 1..n, k - 1 \in Fine PROVE k \in Fine
  <2>1. W[k] = CleanTurn(s, W[k - 1]) /\ k \in Nat /\ k <= n
    BY <1>0, <1>1
  <2>. DEFINE st == W[k - 1]
  <2>2. st \in CleanStates(s, C) /\ st.i >= k - 1
    BY <1>4
  <2>. HIDE DEF st
  <2>3. CleanTurn(s, st) \in CleanStates(s, C) /\ CleanTurn(s, st).i >= k
    BY <1>0, <1>2, <2>1, <2>2
  <2>4. W[k] \in CleanStates(s, C) /\ W[k].i >= k
    BY <2>1, <2>3 DEF st
  <2>. QED
    BY <2>1, <2>4
<1>5. 0..n \subseteq Fine
  <2>. HIDE DEF Fine
  <2>. QED
    BY <1>0, <1>3, <1>4, Along
<1>6. \A k \in 0..n : Len(W[k].r) <= W[k].i
  <2>. TAKE k \in 0..n
  <2>1. W[k] \in CleanStates(s, C)
    BY <1>5
  <2>2. PICK v : CleanAt(s, W[k].i, W[k].r, W[k].d, v)
    BY <2>1 DEF CleanStates
  <2>. QED
    BY <2>2, Zenon DEF CleanAt
<1>7. W[n] \in CleanStates(s, C) /\ W[n].i = n
  <2>1. n \in Fine /\ n \in 0..n
    BY <1>0, <1>5
  <2>2. W[n] \in CleanStates(s, C) /\ W[n].i >= n
    BY <2>1
  <2>3. W[n].i \in Nat /\ W[n].i <= n
    BY <1>2, <2>2
  <2>. QED
    BY <1>0, <2>2, <2>3
<1>. DEFINE r == W[n].r
            path == Then(Root(s), Joined(WalkedTo(s)[n]))
<1>8. r = path /\ Len(r) <= n
  <2>1. PICK v : CleanAt(s, W[n].i, W[n].r, W[n].d, v)
    BY <1>7 DEF CleanStates
  <2>2. Ends(s, n)
    BY DEF Ends, n
  <2>. QED
    BY <1>7, <2>1, <2>2, Zenon DEF CleanAt
<1>9. s = <<>> => r = <<>>
  <2>. HAVE s = <<>>
  <2>1. n = 0
    BY DEF n
  <2>2. r \in Seq(C)
    BY <1>7 DEF CleanStates
  <2>. HIDE DEF r
  <2>. QED
    BY <1>8, <2>1, <2>2
<1>10. Clean(s) = IF s = <<>> \/ r = <<>> THEN <<".">> ELSE r
  BY Zenon DEF Clean, W, n
<1>11. Canonical(s) = IF path = <<>> THEN <<".">> ELSE path
  BY Zenon DEF Canonical, Then, n
<1>12. Clean(s) = Canonical(s)
  <2>. HIDE DEF r, path
  <2>. QED
    BY <1>8, <1>9, <1>10, <1>11
<1>. QED
  BY <1>6, <1>12 DEF W, n

\* What clean returns is the canonical path, written no further than it was read,
\* and what base returns is the last name of the path (base/path.cc:5-49, 51-63).
THEOREM PathsCorrect == TextSpec => []PathsRight
<1>1. ASSUME TextType PROVE PathsRight
  <2>. DEFINE C == Letters \cup {"/", "."}
  <2>1. text \in Seq(C) /\ "/" \in C /\ "." \in C
    BY <1>1 DEF TextType
  <2>. HIDE DEF C
  <2>. QED
    BY <2>1, CleanRight, BaseRight, Zenon DEF PathsRight
<1>. QED
  BY <1>1, TextTypeCorrect, PTL

-----------------------------------------------------------------------------
\* mkdir with p.

\* strrchr stands in front of where the last name begins.
LEMMA LastSlashIs ==
  ASSUME NEW C, NEW s \in Seq(C), NEW n \in 0..Len(s)
  PROVE  LastSlash(s, n) = NameStart(s, n) - 1
<1>. DEFINE b == NameStart(s, n)
            Is(k) == At(s, k) = "/" /\ \A l \in k + 1..n - 1 : At(s, l) # "/"
<1>0. n \in Nat /\ Len(s) \in Nat /\ 0 \in 0..Len(s) /\ n \in 0..Len(s) /\ n - 0 = n
  OBVIOUS
<1>1. b \in 0..n /\ Begins(s, b) /\ Plain(s, b, n)
  BY <1>0, NameStartIs
<1>2. "/" \in ToSet(Part(s, 0, n)) <=> \E k \in 0..n - 1 : At(s, k) = "/"
  <2>. DEFINE x == Part(s, 0, n)
  <2>1. x \in Seq(C) /\ Len(x) = n /\ \A d \in 1..n : x[d] = s[0 + d]
    BY <1>0, PieceBetween
  <2>. HIDE DEF x
  <2>2. ToSet(x) = {x[d] : d \in 1..n}
    BY <2>1 DEF ToSet
  <2>3. \A k \in 0..n - 1 : k + 1 \in 1..n /\ At(s, k) = x[k + 1]
    BY <1>0, <2>1 DEF At
  <2>4. \A d \in 1..n : d - 1 \in 0..n - 1 /\ At(s, d - 1) = x[d]
    BY <1>0, <2>1 DEF At
  <2>. QED
    BY <2>2, <2>3, <2>4 DEF x
<1>. HIDE DEF b
<1>3. CASE b = 0
  <2>1. ~\E k \in 0..n - 1 : At(s, k) = "/"
    BY <1>1, <1>3 DEF Plain
  <2>2. LastSlash(s, n) = npos
    BY <1>2, <2>1, Zenon DEF LastSlash
  <2>. QED
    BY <1>3, <2>2 DEF npos, b
<1>4. CASE b # 0
  <2>1. b - 1 \in 0..n - 1 /\ Is(b - 1)
    BY <1>0, <1>1, <1>4 DEF Begins, Plain
  <2>2. \A k \in 0..n - 1 : Is(k) => k = b - 1
    <3>. TAKE k \in 0..n - 1
    <3>. HAVE Is(k)
    <3>1. k < b
      BY <1>0, <1>1 DEF Plain
    <3>2. ~(k < b - 1)
      BY <1>0, <1>1, <2>1
    <3>. QED
      BY <1>1, <3>1, <3>2
  <2>3. LastSlash(s, n) = CHOOSE k \in 0..n - 1 : Is(k)
    BY <1>2, <2>1, Zenon DEF LastSlash
  <2>. HIDE DEF Is
  <2>4. LastSlash(s, n) = b - 1
    BY <2>1, <2>2, <2>3, Zenon
  <2>. QED
    BY <2>4 DEF b
<1>. QED
  BY <1>3, <1>4

\* The names in the first n characters are those the whole path leads through there.
LEMMA PrefixNames ==
  ASSUME NEW C, NEW s \in Seq(C), NEW n \in 1..Len(s)
  PROVE  /\ Part(s, 0, n) \in Seq(C) /\ Part(s, 0, n) # <<>>
         /\ DirNames(Part(s, 0, n)) = WalkedTo(s)[n]
<1>. DEFINE x == Part(s, 0, n)
<1>0. n \in Nat /\ Len(s) \in Nat /\ 0 \in 0..Len(s) /\ n \in 0..Len(s) /\ n - 0 = n /\ n # 0
  OBVIOUS
<1>1. x \in Seq(C) /\ Len(x) = n /\ \A d \in 1..n : x[d] = s[0 + d]
  BY <1>0, PieceBetween
<1>1a. \A j \in 0..n : \A b \in 0..j : Part(x, b, j) = Part(s, b, j)
  <2>. TAKE j \in 0..n
  <2>. TAKE b \in 0..j
  <2>1. j \in 0..Len(s) /\ b \in 0..Len(s) /\ j \in b..Len(s)
    BY <1>0
  <2>2. /\ Part(s, b, j) \in Seq(C) /\ Len(Part(s, b, j)) = j - b
        /\ \A d \in 1..j - b : Part(s, b, j)[d] = s[b + d]
    BY <2>1, PieceBetween
  <2>3. /\ Part(x, b, j) \in Seq(C) /\ Len(Part(x, b, j)) = j - b
        /\ \A d \in 1..j - b : Part(x, b, j)[d] = x[b + d]
    <3>1. b \in 0..Len(x) /\ j \in b..Len(x)
      BY <1>0, <1>1
    <3>. HIDE DEF x
    <3>. QED
      BY <1>1, <3>1, PieceBetween
  <2>4. \A d \in 1..j - b : Part(x, b, j)[d] = Part(s, b, j)[d]
    <3>. TAKE d \in 1..j - b
    <3>1. b + d \in 1..n /\ 0 + (b + d) = b + d
      BY <1>0
    <3>. HIDE DEF x
    <3>. QED
      BY <1>1, <2>2, <2>3, <3>1
  <2>. HIDE DEF x
  <2>. QED
    BY <2>2, <2>3, <2>4, SameString
<1>2. \A k \in 0..n - 1 : At(x, k) = At(s, k)
  <2>. TAKE k \in 0..n - 1
  <2>1. k + 1 \in 1..n /\ 0 + (k + 1) = k + 1
    BY <1>0
  <2>. HIDE DEF x
  <2>. QED
    BY <1>1, <2>1 DEF At
<1>3. Rooted(x) = Rooted(s)
  <2>1. s # <<>> /\ 1 \in 1..n /\ 0 + 1 = 1
    BY <1>0
  <2>2. x # <<>> /\ x[1] = s[1]
    <3>. HIDE DEF x
    <3>. QED
      BY <1>0, <1>1, <2>1
  <2>. HIDE DEF x
  <2>. QED
    BY <2>1, <2>2, Zenon DEF Rooted
<1>. HIDE DEF x
<1>4. \A j \in 0..n : NameStart(x, j) = NameStart(s, j) /\ NameStart(s, j) \in 0..j
  <2>. TAKE j \in 0..n
  <2>. DEFINE b == NameStart(s, j)
  <2>1. j \in Nat /\ b \in 0..j /\ Begins(s, b) /\ Plain(s, b, j)
    BY <1>0, NameStartIs
  <2>. HIDE DEF b
  <2>2. Begins(x, b) /\ Plain(x, b, j)
    BY <1>0, <1>2, <2>1 DEF Begins, Plain
  <2>3. NameStart(x, j) = b
    BY <2>1, <2>2, NameStartIs
  <2>. QED
    BY <2>1, <2>3 DEF b
<1>5. 0..n \subseteq {j \in Nat : j <= n => WalkedTo(x)[j] = WalkedTo(s)[j]}
  <2>. DEFINE Fine == {j \in Nat : j <= n => WalkedTo(x)[j] = WalkedTo(s)[j]}
  <2>1. ASSUME NEW j \in Nat, \A k \in Nat : k < j => k \in Fine PROVE j \in Fine
    <3>1. SUFFICES ASSUME j <= n PROVE WalkedTo(x)[j] = WalkedTo(s)[j]
      OBVIOUS
    <3>2. j \in 0..n /\ j \in 0..Len(s) /\ j \in 0..Len(x)
      BY <1>0, <1>1, <3>1
    <3>3. WalkedTo(x)[j] = WalkStep(WalkedTo(x), x, j)
      BY <1>1, <3>2, WalkUnfolds
    <3>4. WalkedTo(s)[j] = WalkStep(WalkedTo(s), s, j)
      BY <3>2, WalkUnfolds
    <3>5. NameStart(x, j) = NameStart(s, j) /\ NameStart(s, j) \in 0..j
      BY <1>4, <3>2
    <3>. DEFINE b == NameStart(s, j)
    <3>6. Part(x, b, j) = Part(s, b, j)
      BY <1>1a, <3>2, <3>5
    <3>. HIDE DEF b
    <3>7. b # 0 => WalkedTo(x)[b - 1] = WalkedTo(s)[b - 1]
      <4>. HAVE b # 0
      <4>1. b - 1 \in Nat /\ b - 1 < j /\ b - 1 <= n
        BY <1>0, <3>1, <3>5 DEF b
      <4>2. b - 1 \in Fine
        BY <2>1, <4>1
      <4>. QED
        BY <4>1, <4>2
    <3>8. WalkStep(WalkedTo(x), x, j) =
            Walk(IF b = 0 THEN <<>> ELSE WalkedTo(x)[b - 1], Part(x, b, j), Rooted(x))
      BY <3>5, Zenon DEF WalkStep, b
    <3>9. WalkStep(WalkedTo(s), s, j) =
            Walk(IF b = 0 THEN <<>> ELSE WalkedTo(s)[b - 1], Part(s, b, j), Rooted(s))
      BY Zenon DEF WalkStep, b
    <3>. QED
      BY <1>3, <3>3, <3>4, <3>6, <3>7, <3>8, <3>9, Zenon
  <2>2. Nat \subseteq Fine
    <3>. HIDE DEF Fine
    <3>. QED
      BY <2>1, AllNumbers
  <2>. HIDE DEF Fine
  <2>3. 0..n \subseteq Fine
    BY <1>0, <2>2
  <2>. QED
    BY <2>3 DEF Fine
<1>6. WalkedTo(x)[n] = WalkedTo(s)[n]
  BY <1>0, <1>5
<1>7. x # <<>>
  BY <1>0, <1>1
<1>8. DirNames(x) = WalkedTo(s)[n]
  BY <1>1, <1>6 DEF DirNames
<1>. QED
  BY <1>1, <1>7, <1>8 DEF x

\* A path leads through names without slashes.
LEMMA WalkNames ==
  ASSUME NEW C, NEW v, NamesOf(v, C), NEW x \in Seq(C), \A l \in 1..Len(x) : x[l] # "/",
         NEW rooted
  PROVE  NamesOf(Walk(v, x, rooted), C)
<1>1. x # <<>> => NamesOf(Append(v, x), C)
  BY NamesAppend
<1>2. v # <<>> => NamesOf(Front(v), C)
  BY FrontLast
<1>3. x \notin {<<>>, <<".">>} => x # <<>>
  BY Zenon
<1>4. Walk(v, x, rooted) \in {v, Append(v, x), Front(v)}
  BY Zenon DEF Walk
<1>5. CASE x \in {<<>>, <<".">>}
  BY <1>5, Zenon DEF Walk
<1>6. CASE x \notin {<<>>, <<".">>}
  BY <1>1, <1>2, <1>3, <1>6, Zenon DEF Walk
<1>. QED
  BY <1>5, <1>6, Zenon

LEMMA NamesWalked ==
  ASSUME NEW C, NEW s \in Seq(C), NEW n \in 0..Len(s)
  PROVE  NamesOf(WalkedTo(s)[n], C)
<1>. DEFINE W == WalkedTo(s)
            Fine == {j \in Nat : j <= Len(s) => NamesOf(W[j], C)}
<1>0. Len(s) \in Nat
  OBVIOUS
<1>1. NamesOf(<<>>, C)
  BY DEF NamesOf
<1>2. ASSUME NEW j \in Nat, \A k \in Nat : k < j => k \in Fine PROVE j \in Fine
  <2>1. SUFFICES ASSUME j <= Len(s) PROVE NamesOf(W[j], C)
    OBVIOUS
  <2>. DEFINE b == NameStart(s, j)
  <2>2. b \in 0..j /\ Plain(s, b, j)
    BY NameStartIs
  <2>3. j \in 0..Len(s)
    BY <1>0, <2>1
  <2>4. W[j] = WalkStep(W, s, j)
    BY <2>3, WalkUnfolds
  <2>. HIDE DEF W
  <2>5. WalkStep(W, s, j) =
          Walk(IF b = 0 THEN <<>> ELSE W[b - 1], Part(s, b, j), Rooted(s))
    BY Zenon DEF WalkStep
  <2>. HIDE DEF b
  <2>6. b # 0 => NamesOf(W[b - 1], C)
    <3>. HAVE b # 0
    <3>1. b - 1 \in Nat /\ b - 1 < j /\ b - 1 <= Len(s)
      BY <1>0, <2>1, <2>2
    <3>2. b - 1 \in Fine
      BY <1>2, <3>1
    <3>. QED
      BY <3>1, <3>2
  <2>7. NamesOf(IF b = 0 THEN <<>> ELSE W[b - 1], C)
    BY <1>1, <2>6, Zenon
  <2>8. Part(s, b, j) \in Seq(C) /\ \A l \in 1..Len(Part(s, b, j)) : Part(s, b, j)[l] # "/"
    <3>1. b \in 0..Len(s) /\ j \in b..Len(s) /\ b \in Nat
      BY <1>0, <2>1, <2>2
    <3>2. /\ Part(s, b, j) \in Seq(C) /\ Len(Part(s, b, j)) = j - b
          /\ \A d \in 1..j - b : Part(s, b, j)[d] = s[b + d]
      BY <3>1, PieceBetween
    <3>3. \A d \in 1..j - b : s[b + d] # "/"
      <4>. TAKE d \in 1..j - b
      <4>1. b + d - 1 \in b..j - 1 /\ (b + d - 1) + 1 = b + d
        BY <3>1
      <4>. QED
        BY <2>2, <4>1 DEF Plain, At
    <3>. QED
      BY <3>2, <3>3
  <2>. QED
    BY <2>4, <2>5, <2>7, <2>8, WalkNames, Zenon
<1>3. Nat \subseteq Fine
  <2>. HIDE DEF Fine
  <2>. QED
    BY <1>2, AllNumbers
<1>4. n \in Nat /\ n <= Len(s)
  OBVIOUS
<1>. HIDE DEF W
<1>5. NamesOf(W[n], C)
  BY <1>3, <1>4
<1>. QED
  BY <1>5 DEF W

\* Names joined by slashes begin and end with a name, and a name is between two slashes.
Tidy(x) ==
  /\ x # <<>> /\ x[1] # "/" /\ x[Len(x)] # "/"
  /\ \A k \in 1..Len(x) - 1 : x[k] = "/" => x[k + 1] # "/"

LEMMA TidyThen ==
  ASSUME NEW C, "/" \in C, NEW x \in Seq(C), NEW y \in Seq(C), Tidy(x),
         y # <<>>, \A l \in 1..Len(y) : y[l] # "/"
  PROVE  Tidy(Then(Then(x, <<"/">>), y))
<1>. DEFINE z == Then(x, <<"/">>)
            w == Then(z, y)
            m == Len(x)
            n == Len(y)
<1>1. <<"/">> \in Seq(C) /\ Len(<<"/">>) = 1 /\ <<"/">>[1] = "/"
  OBVIOUS
<1>2. z \in Seq(C) /\ Len(z) = m + 1 /\ m \in Nat /\ m # 0
      /\ (\A k \in 1..m : z[k] = x[k]) /\ z[m + 1] = "/"
  <2>1. IsJoint(z, x, <<"/">>, C)
    BY <1>1, Joint
  <2>. HIDE DEF z
  <2>. QED
    BY <1>1, <2>1 DEF IsJoint, Tidy
<1>. HIDE DEF z
<1>3. w \in Seq(C) /\ Len(w) = Len(z) + n /\ n \in Nat /\ n # 0
      /\ (\A k \in 1..Len(z) : w[k] = z[k]) /\ \A k \in 1..n : w[Len(z) + k] = y[k]
  <2>1. IsJoint(w, z, y, C)
    BY <1>2, Joint
  <2>. HIDE DEF w
  <2>. QED
    BY <2>1 DEF IsJoint
<1>. HIDE DEF w
<1>4. Len(w) = m + 1 + n
  BY <1>2, <1>3
<1>5. (\A k \in 1..m : w[k] = x[k]) /\ w[m + 1] = "/"
      /\ \A k \in m + 2..m + 1 + n : w[k] # "/"
  <2>1. \A k \in 1..m + 1 : w[k] = z[k]
    BY <1>2, <1>3
  <2>2. \A k \in m + 2..m + 1 + n : w[k] # "/"
    <3>. TAKE k \in m + 2..m + 1 + n
    <3>1. k - (m + 1) \in 1..n /\ (m + 1) + (k - (m + 1)) = k
      BY <1>2, <1>3
    <3>. HIDE DEF n
    <3>2. w[k] = y[k - (m + 1)] /\ y[k - (m + 1)] # "/"
      BY <1>2, <1>3, <3>1 DEF n
    <3>. QED
      BY <3>2
  <2>3. m + 1 \in 1..m + 1 /\ \A k \in 1..m : k \in 1..m + 1
    BY <1>2
  <2>. QED
    BY <1>2, <2>1, <2>2, <2>3
<1>6. x[1] # "/" /\ x[m] # "/" /\ \A k \in 1..m - 1 : x[k] = "/" => x[k + 1] # "/"
  BY DEF Tidy
<1>. HIDE DEF m, n
<1>7. w # <<>> /\ w[1] # "/" /\ w[m + 1 + n] # "/"
  <2>1. 1 \in 1..m /\ m + 1 + n \in m + 2..m + 1 + n /\ m + 1 + n # 0
    BY <1>2, <1>3
  <2>. QED
    BY <1>4, <1>5, <1>6, <2>1
<1>8. \A k \in 1..(m + 1 + n) - 1 : w[k] = "/" => w[k + 1] # "/"
  <2>. TAKE k \in 1..(m + 1 + n) - 1
  <2>1. CASE k < m
    <3>1. k \in 1..m /\ k + 1 \in 1..m /\ k \in 1..m - 1
      BY <1>2, <2>1
    <3>. QED
      BY <1>5, <1>6, <3>1
  <2>2. CASE k = m
    <3>1. k \in 1..m
      BY <1>2, <2>2
    <3>. QED
      BY <1>5, <1>6, <2>2, <3>1
  <2>3. CASE k > m
    <3>1. k + 1 \in m + 2..m + 1 + n
      BY <1>2, <1>3, <2>3
    <3>. QED
      BY <1>5, <3>1
  <2>. QED
    BY <1>2, <1>3, <2>1, <2>2, <2>3
<1>9. Tidy(w)
  BY <1>4, <1>7, <1>8 DEF Tidy
<1>. QED
  BY <1>9 DEF w, z

LEMMA JoinedTidy ==
  ASSUME NEW C, "/" \in C, NEW v, NamesOf(v, C), v # <<>>
  PROVE  Joined(v) \in Seq(C) /\ Tidy(Joined(v))
<1>. DEFINE J == JoinedTo(v)
            n == Len(v)
            Fine == {k \in Nat : J[k] \in Seq(C) /\ Tidy(J[k])}
<1>1. v \in Seq(Seq(C)) /\ n \in Nat /\ n # 0
  BY DEF NamesOf
<1>2. \A k \in 1..n : v[k] \in Seq(C) /\ v[k] # <<>> /\ \A l \in 1..Len(v[k]) : v[k][l] # "/"
  BY <1>1 DEF NamesOf
<1>3. \A k \in 0..n : J[k] \in Seq(C) /\ J[k] = JoinStep(J, v, k)
  BY <1>1, JoinUnfolds
<1>. HIDE DEF J, n
<1>4. 1 \in Fine
  <2>1. 1 \in 1..n /\ 1 \in 0..n
    BY <1>1
  <2>2. J[1] = v[1]
    BY <1>3, <2>1 DEF JoinStep
  <2>3. v[1] # <<>> /\ \A l \in 1..Len(v[1]) : v[1][l] # "/"
    BY <1>2, <2>1
  <2>4. v[1] \in Seq(C)
    BY <1>2, <2>1
  <2>5. Tidy(v[1])
    <3>. DEFINE y == v[1]
    <3>. HIDE DEF y
    <3>1. y \in Seq(C) /\ y # <<>> /\ \A l \in 1..Len(y) : y[l] # "/"
      BY <2>3, <2>4 DEF y
    <3>2. Len(y) \in Nat /\ Len(y) # 0
      BY <3>1
    <3>3. Tidy(y)
      BY <3>1, <3>2 DEF Tidy
    <3>. QED
      BY <3>3 DEF y
  <2>. QED
    BY <2>2, <2>4, <2>5
<1>5. ASSUME NEW k \in 1 + 1..n, k - 1 \in Fine PROVE k \in Fine
  <2>1. k \in 1..n /\ k \in 0..n /\ k # 0 /\ k # 1 /\ k \in Nat
    BY <1>1
  <2>2. J[k] = Then(Then(J[k - 1], <<"/">>), v[k])
    BY <1>3, <2>1 DEF JoinStep
  <2>3. J[k - 1] \in Seq(C) /\ Tidy(J[k - 1])
    BY <1>5
  <2>4. v[k] \in Seq(C) /\ v[k] # <<>> /\ \A l \in 1..Len(v[k]) : v[k][l] # "/"
    BY <1>2, <2>1
  <2>5. Tidy(Then(Then(J[k - 1], <<"/">>), v[k]))
    BY <2>3, <2>4, TidyThen
  <2>. QED
    BY <1>3, <2>1, <2>2, <2>5
<1>6. 1..n \subseteq Fine
  <2>. HIDE DEF Fine
  <2>. QED
    BY <1>1, <1>4, <1>5, Along
<1>7. n \in Fine
  BY <1>1, <1>6
<1>. QED
  BY <1>7 DEF J, n, Joined

\* Where clean has been there are no slashes side by side, nor one at the end.
Neat(s) ==
  s # <<>> /\ (Len(s) > 1 => \A j \in 1..Len(s) : Ends(s, j) => At(s, j - 1) # "/")

LEMMA CleanIsNeat ==
  ASSUME NEW C, "/" \in C, "." \in C, NEW s \in Seq(C), s = Clean(s), "." \notin ToSet(s)
  PROVE  Neat(s) /\ (Rooted(s) \/ WalkedTo(s)[Len(s)] # <<>>)
<1>. DEFINE v == WalkedTo(s)[Len(s)]
            path == Then(Root(s), Joined(v))
<1>1. NamesOf(v, C)
  BY NamesWalked
<1>2. Clean(s) = Canonical(s)
  BY CleanRight
<1>3. Canonical(s) = IF path = <<>> THEN <<".">> ELSE path
  BY Zenon DEF Canonical, Then
<1>4. s # <<".">>
  <2>1. "." \in ToSet(<<".">>)
    BY DEF ToSet
  <2>. QED
    BY <2>1
<1>. HIDE DEF v
<1>5. s = path /\ s # <<>>
  BY <1>2, <1>3, <1>4, Zenon
<1>. DEFINE R == Root(s)
            x == Joined(v)
<1>6. /\ R \in Seq(C) /\ Len(R) \in Nat
      /\ Rooted(s) => R = <<"/">> /\ Len(R) = 1
      /\ ~Rooted(s) => R = <<>> /\ Len(R) = 0
  BY RootIs
<1>7. /\ x \in Seq(C) /\ Len(x) \in Nat
      /\ v = <<>> => x = <<>> 
      /\ v # <<>> => Tidy(x)
  BY <1>1, JoinedType, JoinedTidy
<1>. HIDE DEF R, x
<1>8. s = Then(R, x)
  BY <1>5 DEF R, x
<1>9. Len(s) = Len(R) + Len(x) /\ (\A k \in 1..Len(R) : s[k] = R[k])
      /\ \A k \in 1..Len(x) : s[Len(R) + k] = x[k]
  <2>1. IsJoint(Then(R, x), R, x, C)
    BY <1>6, <1>7, Joint
  <2>. QED
    BY <1>8, <2>1, Zenon DEF IsJoint
<1>10. Rooted(s) \/ v # <<>>
  BY <1>5, <1>6, <1>7, <1>9
<1>. DEFINE m == Len(R)
            n == Len(x)
<1>10a. /\ m \in {0, 1} /\ n \in Nat /\ Len(s) = m + n /\ Len(s) \in Nat
        /\ (\A k \in 1..n : s[m + k] = x[k])
        /\ v = <<>> => n = 0
  BY <1>6, <1>7, <1>9
<1>10b. v # <<>> => n # 0 /\ x[1] # "/" /\ x[n] # "/" /\ \A k \in 1..n - 1 : x[k] = "/" => x[k + 1] # "/"
  BY <1>7 DEF Tidy
<1>. HIDE DEF m, n
<1>11. ASSUME Len(s) > 1, NEW j \in 1..Len(s), Ends(s, j), At(s, j - 1) = "/" PROVE FALSE
  <2>1. v # <<>>
    BY <1>10a, <1>11
  <2>2. n # 0 /\ x[1] # "/" /\ x[n] # "/" /\ \A k \in 1..n - 1 : x[k] = "/" => x[k + 1] # "/"
    BY <1>10b, <2>1
  <2>3. s[j] = "/"
    <3>1. (j - 1) + 1 = j
      BY <1>10a
    <3>. QED
      BY <1>11, <3>1 DEF At
  <2>4. j # Len(s) => s[j + 1] = "/"
    BY <1>11 DEF Ends, At
  <2>5. CASE j <= m
    <3>1. j = 1 /\ m = 1 /\ j # Len(s)
      BY <1>10a, <1>11, <2>5
    <3>2. 1 \in 1..n /\ m + 1 = j + 1
      BY <1>10a, <2>2, <3>1
    <3>3. s[j + 1] = x[1]
      BY <1>10a, <3>2
    <3>. QED
      BY <2>2, <2>4, <3>1, <3>3
  <2>6. CASE j > m
    <3>. DEFINE k == j - m
    <3>1. k \in 1..n /\ m + k = j
      BY <1>10a, <2>6
    <3>. HIDE DEF k
    <3>2. x[k] = "/"
      BY <1>10a, <2>3, <3>1
    <3>3. CASE k = n
      BY <2>2, <3>2, <3>3
    <3>4. CASE k # n
      <4>1. k \in 1..n - 1 /\ k + 1 \in 1..n /\ m + (k + 1) = j + 1 /\ j # Len(s)
        BY <1>10a, <3>1, <3>4
      <4>2. s[j + 1] = x[k + 1]
        BY <1>10a, <4>1
      <4>3. x[k + 1] # "/"
        BY <2>2, <3>2, <4>1
      <4>. QED
        BY <2>4, <4>1, <4>2, <4>3
    <3>. QED
      BY <3>3, <3>4
  <2>. QED
    BY <1>10a, <2>5, <2>6
<1>12. Neat(s)
  BY <1>5, <1>11 DEF Neat
<1>. QED
  BY <1>10, <1>12 DEF v

\* Where a name ends.
Stop(s, n) == n \in 1..Len(s) /\ Ends(s, n) /\ At(s, n - 1) # "/"

\* What stands at the end of a name: the name behind those in front of it.
StopsBehind(s, n, b, x, C) ==
  /\ b = NameStart(s, n) /\ b \in 0..n - 1 /\ x = Part(s, b, n)
  /\ x \in Seq(C) /\ x # <<>> /\ Plain(s, b, n)
  /\ \/ b = Len(Root(s)) /\ WalkedTo(s)[n] = <<x>>
     \/ /\ b # Len(Root(s)) /\ b >= 2 /\ Stop(s, b - 1)
        /\ WalkedTo(s)[n] = Append(WalkedTo(s)[b - 1], x)

LEMMA StopNames ==
  ASSUME NEW C, "/" \in C, NEW s \in Seq(C), "." \notin ToSet(s), Neat(s), NEW n, Stop(s, n)
  PROVE  \E b, x : StopsBehind(s, n, b, x, C)
<1>. DEFINE b == NameStart(s, n)
            x == Part(s, b, n)
            p == Len(Root(s))
<1>0. n \in 1..Len(s) /\ n \in Nat /\ n # 0 /\ Len(s) \in Nat /\ At(s, n - 1) # "/" /\ s # <<>>
  BY DEF Stop
<1>1. b \in 0..n /\ Begins(s, b) /\ Plain(s, b, n)
  BY <1>0, NameStartIs
<1>. HIDE DEF b
<1>2. b \in 0..n - 1
  BY <1>0, <1>1 DEF Begins
<1>3. x \in Seq(C) /\ Len(x) = n - b /\ \A d \in 1..n - b : x[d] = s[b + d]
  <2>1. b \in 0..Len(s) /\ n \in b..Len(s)
    BY <1>0, <1>2
  <2>. QED
    BY <2>1, PieceBetween
<1>. HIDE DEF x
<1>4. x # <<>>
  BY <1>0, <1>2, <1>3
<1>5. x # <<".">> /\ x # Dots
  <2>1. 1 \in 1..n - b /\ b + 1 \in 1..Len(s)
    BY <1>0, <1>2
  <2>2. x[1] \in ToSet(s)
    BY <1>3, <2>1 DEF ToSet
  <2>. QED
    BY <2>2 DEF Dots
<1>6. \A v, rooted : Walk(v, x, rooted) = Append(v, x)
  BY <1>4, <1>5, Zenon DEF Walk
<1>7. WalkedTo(s)[n] = Append(Before(s, b), x)
  <2>1. b \in 0..Len(s) /\ n \in b..Len(s)
    BY <1>0, <1>2
  <2>2. WalkedTo(s)[n] = Walk(Before(s, b), Part(s, b, n), Rooted(s))
    BY <1>1, <2>1, WalkedName
  <2>. QED
    BY <1>6, <2>2, Zenon DEF x
<1>8. /\ Rooted(s) => p = 1 /\ At(s, 0) = "/"
      /\ ~Rooted(s) => p = 0 /\ At(s, 0) # "/"
  BY <1>0, RootIs
<1>. HIDE DEF p
<1>9. Append(<<>>, x) = <<x>>
  OBVIOUS
<1>10. CASE b = 0
  <2>1. At(s, 0) # "/"
    <3>1. 0 \in b..n - 1
      BY <1>0, <1>10
    <3>. QED
      BY <1>1, <3>1 DEF Plain
  <2>2. b = p
    BY <1>8, <1>10, <2>1
  <2>3. Before(s, b) = <<>>
    BY <1>10 DEF Before
  <2>4. WalkedTo(s)[n] = <<x>>
    BY <1>7, <1>9, <2>3, Zenon
  <2>. QED
    BY <1>1, <1>2, <1>3, <1>4, <2>2, <2>4, Zenon DEF StopsBehind, b, x, p
<1>11. CASE b = 1
  <2>1. At(s, 0) = "/"
    BY <1>1, <1>11 DEF Begins
  <2>2. b = p
    BY <1>8, <1>11, <2>1
  <2>3. WalkedTo(s)[0] = <<>>
    <3>1. 0 \in 0..Len(s) /\ Begins(s, 0)
      BY <1>0 DEF Begins
    <3>2. WalkedTo(s)[0] = Before(s, 0)
      BY <3>1, WalkedHere
    <3>. QED
      BY <3>2 DEF Before
  <2>4. Before(s, b) = <<>>
    BY <1>11, <2>3 DEF Before
  <2>5. WalkedTo(s)[n] = <<x>>
    BY <1>7, <1>9, <2>4, Zenon
  <2>. QED
    BY <1>1, <1>2, <1>3, <1>4, <2>2, <2>5, Zenon DEF StopsBehind, b, x, p
<1>12. CASE b >= 2
  <2>1. At(s, b - 1) = "/" /\ b - 1 \in 1..Len(s) /\ Len(s) > 1 /\ b - 1 # 0
    BY <1>0, <1>1, <1>2, <1>12 DEF Begins
  <2>2. Ends(s, b - 1)
    BY <2>1 DEF Ends
  <2>3. At(s, (b - 1) - 1) # "/"
    BY <2>1, <2>2 DEF Neat
  <2>4. Stop(s, b - 1)
    BY <2>1, <2>2, <2>3 DEF Stop
  <2>5. b # p /\ b # 0
    BY <1>8, <1>12
  <2>6. Before(s, b) = WalkedTo(s)[b - 1]
    BY <2>5 DEF Before
  <2>. QED
    BY <1>1, <1>2, <1>3, <1>4, <1>7, <1>12, <2>4, <2>5, <2>6, Zenon DEF StopsBehind, b, x, p
<1>. QED
  BY <1>0, <1>2, <1>10, <1>11, <1>12

LEMMA AppendFirst ==
  ASSUME NEW D, NEW v \in Seq(D), v # <<>>, NEW x \in D
  PROVE  Append(v, x) # <<>> /\ Append(v, x)[1] = v[1]
<1>1. Len(v) \in Nat /\ Len(v) # 0 /\ 1 \in 1..Len(v)
  OBVIOUS
<1>. QED
  BY <1>1, AppendProperties

\* The first name is the same at the end of each.
FirstName(s) == Part(s, Len(Root(s)), NextEnd(s, Len(Root(s))))

LEMMA FirstIsFirst ==
  ASSUME NEW C, "/" \in C, NEW s \in Seq(C), "." \notin ToSet(s), Neat(s), NEW n, Stop(s, n)
  PROVE  WalkedTo(s)[n] # <<>> /\ WalkedTo(s)[n][1] = FirstName(s)
<1>. DEFINE N == WalkedTo(s)
            p == Len(Root(s))
            Fine == {k \in Nat : Stop(s, k) => N[k] # <<>> /\ N[k][1] = FirstName(s)}
<1>0. Len(s) \in Nat /\ p \in Nat /\ p = Len(Root(s))
  BY RootIs
<1>1. ASSUME NEW k \in Nat, \A l \in Nat : l < k => l \in Fine PROVE k \in Fine
  <2>1. SUFFICES ASSUME Stop(s, k) PROVE N[k] # <<>> /\ N[k][1] = FirstName(s)
    OBVIOUS
  <2>. HIDE DEF N
  <2>2. PICK b, x : StopsBehind(s, k, b, x, C)
    BY <2>1, StopNames, Zenon
  <2>3. /\ b \in 0..k - 1 /\ x = Part(s, b, k) /\ Plain(s, b, k) /\ x \in Seq(C)
        /\ \/ b = p /\ N[k] = <<x>>
           \/ b >= 2 /\ Stop(s, b - 1) /\ N[k] = Append(N[b - 1], x)
    BY <2>2, Zenon DEF StopsBehind, N
  <2>4. k \in 1..Len(s) /\ Ends(s, k)
    BY <2>1 DEF Stop
  <2>5. CASE b = p /\ N[k] = <<x>>
    <3>. DEFINE e == NextEnd(s, p)
    <3>1. p \in Nat /\ p < Len(s) /\ At(s, p) # "/" /\ p < k
      <4>1. p < k /\ p < Len(s) /\ p \in b..k - 1
        BY <1>0, <2>3, <2>4, <2>5
      <4>. QED
        BY <1>0, <2>3, <4>1 DEF Plain
    <3>2. e \in p + 1..Len(s) /\ Ends(s, e) /\ Plain(s, p, e)
      BY <3>1, NextEndIs
    <3>. HIDE DEF e
    <3>3. ~(k < e)
      BY <1>0, <2>4, <3>1, <3>2 DEF Ends, Plain
    <3>4. ~(e < k)
      BY <1>0, <2>3, <2>4, <2>5, <3>1, <3>2 DEF Ends, Plain
    <3>5. k = e
      BY <2>4, <3>2, <3>3, <3>4
    <3>6. x = FirstName(s)
      BY <2>3, <2>5, <3>5, Zenon DEF FirstName, e
    <3>. QED
      BY <2>5, <3>6
  <2>6. CASE b >= 2 /\ Stop(s, b - 1) /\ N[k] = Append(N[b - 1], x)
    <3>1. b - 1 \in Nat /\ b - 1 < k /\ b - 1 \in 0..Len(s)
      BY <1>0, <2>3, <2>4, <2>6
    <3>2. N[b - 1] # <<>> /\ N[b - 1][1] = FirstName(s)
      BY <1>1, <2>6, <3>1
    <3>3. N[b - 1] \in Seq(Seq(C))
      BY <3>1, WalkUnfolds DEF N
    <3>5. Append(N[b - 1], x) # <<>> /\ Append(N[b - 1], x)[1] = N[b - 1][1]
      BY <2>3, <3>2, <3>3, AppendFirst
    <3>. QED
      BY <2>6, <3>2, <3>5
  <2>. QED
    BY <2>3, <2>5, <2>6
<1>2. Nat \subseteq Fine
  <2>. HIDE DEF Fine
  <2>. QED
    BY <1>1, AllNumbers
<1>3. n \in Nat
  BY DEF Stop
<1>. HIDE DEF N
<1>4. N[n] # <<>> /\ N[n][1] = FirstName(s)
  BY <1>2, <1>3
<1>. QED
  BY <1>4 DEF N

\* The recursion of mkdir over the parents, unfolded once.
MkdirStep(g, s, dirs, n) ==
  LET cut == LastSlash(s, n)
      alone == cut = npos \/ There(Part(s, 0, cut), dirs)
      before == IF alone THEN dirs ELSE g[cut].dirs
      go == alone \/ g[cut].ok
      after == IF go THEN KernelMkdir(Part(s, 0, n), before) ELSE before
  IN  [dirs |-> after, ok |-> go /\ after # before]

\* The two things a turn can be told of the parent: dirs and whether it is there.
MkdirTold(s, n, before, go) ==
  LET after == IF go THEN KernelMkdir(Part(s, 0, n), before) ELSE before
  IN  [dirs |-> after, ok |-> go /\ after # before]

MkdirAlone(s, dirs, n) ==
  LastSlash(s, n) = npos \/ There(Part(s, 0, LastSlash(s, n)), dirs)

LEMMA MkdirStepIs ==
  ASSUME NEW g, NEW s, NEW dirs, NEW n
  PROVE  /\ MkdirAlone(s, dirs, n) => MkdirStep(g, s, dirs, n) = MkdirTold(s, n, dirs, TRUE)
         /\ ~MkdirAlone(s, dirs, n) /\ g[LastSlash(s, n)].ok \in BOOLEAN =>
              MkdirStep(g, s, dirs, n) =
                MkdirTold(s, n, g[LastSlash(s, n)].dirs, g[LastSlash(s, n)].ok)
<1>. DEFINE A == MkdirAlone(s, dirs, n)
            G == g[LastSlash(s, n)]
            b == IF A THEN dirs ELSE G.dirs
            go == A \/ G.ok
<1>1. MkdirStep(g, s, dirs, n) =
        [dirs |-> IF go THEN KernelMkdir(Part(s, 0, n), b) ELSE b,
         ok |-> go /\ (IF go THEN KernelMkdir(Part(s, 0, n), b) ELSE b) # b]
  BY Zenon DEF MkdirStep, MkdirAlone
<1>2. \A h : MkdirTold(s, n, h, TRUE) = [dirs |-> KernelMkdir(Part(s, 0, n), h),
                                         ok |-> KernelMkdir(Part(s, 0, n), h) # h]
  BY DEF MkdirTold
<1>3. \A h : MkdirTold(s, n, h, FALSE) = [dirs |-> h, ok |-> FALSE]
  BY DEF MkdirTold
<1>. HIDE DEF A, G
<1>4. ASSUME A PROVE MkdirStep(g, s, dirs, n) = MkdirTold(s, n, dirs, TRUE)
  BY <1>1, <1>2, <1>4
<1>5. ASSUME ~A, G.ok PROVE MkdirStep(g, s, dirs, n) = MkdirTold(s, n, G.dirs, TRUE)
  BY <1>1, <1>2, <1>5
<1>6. ASSUME ~A, ~G.ok PROVE MkdirStep(g, s, dirs, n) = MkdirTold(s, n, G.dirs, FALSE)
  BY <1>1, <1>3, <1>6
<1>7. ASSUME ~A, G.ok \in BOOLEAN
      PROVE  MkdirStep(g, s, dirs, n) = MkdirTold(s, n, G.dirs, G.ok)
  <2>1. G.ok = TRUE \/ G.ok = FALSE
    BY <1>7
  <2>. QED
    BY <1>5, <1>6, <1>7, <2>1
<1>. QED
  BY <1>4, <1>7, Zenon DEF A, G

LEMMA MkdirOfOwn ==
  ASSUME NEW g, NEW s, NEW dirs, NEW n, MkdirAlone(s, dirs, n)
  PROVE  MkdirStep(g, s, dirs, n) = MkdirTold(s, n, dirs, TRUE)
  BY MkdirStepIs

LEMMA MkdirBehind ==
  ASSUME NEW g, NEW s, NEW dirs, NEW n, ~MkdirAlone(s, dirs, n), NEW m, m = LastSlash(s, n),
         g[m].ok \in BOOLEAN
  PROVE  MkdirStep(g, s, dirs, n) = MkdirTold(s, n, g[m].dirs, g[m].ok)
  BY MkdirStepIs

LEMMA KernelType ==
  ASSUME NEW C, NEW x \in Seq(C), NEW dirs \in SUBSET Seq(Seq(C))
  PROVE  KernelMkdir(x, dirs) \in SUBSET Seq(Seq(C))
<1>1. DirNames(x) \in Seq(Seq(C))
  <2>1. Len(x) \in 0..Len(x)
    OBVIOUS
  <2>. QED
    BY <2>1, WalkUnfolds DEF DirNames
<1>. QED
  BY <1>1 DEF KernelMkdir

LEMMA ToldType ==
  ASSUME NEW C, NEW s \in Seq(C), NEW n \in 0..Len(s), NEW h \in SUBSET Seq(Seq(C)),
         NEW go \in BOOLEAN
  PROVE  MkdirTold(s, n, h, go) \in [dirs : SUBSET Seq(Seq(C)), ok : BOOLEAN]
<1>1. Part(s, 0, n) \in Seq(C)
  <2>1. 0 \in 0..Len(s) /\ n \in 0..Len(s)
    OBVIOUS
  <2>. QED
    BY <2>1, PieceBetween
<1>2. KernelMkdir(Part(s, 0, n), h) \in SUBSET Seq(Seq(C))
  BY <1>1, KernelType
<1>. DEFINE a == IF go THEN KernelMkdir(Part(s, 0, n), h) ELSE h
<1>3. a \in SUBSET Seq(Seq(C))
  BY <1>2
<1>4. MkdirTold(s, n, h, go) = [dirs |-> a, ok |-> go /\ a # h]
  BY Zenon DEF MkdirTold
<1>. HIDE DEF a
<1>. QED
  BY <1>3, <1>4

LEMMA MkdirUnfolds ==
  ASSUME NEW C, NEW s \in Seq(C), NEW dirs \in SUBSET Seq(Seq(C)), NEW j \in 0..Len(s)
  PROVE  /\ MkdirFrom(s, dirs)[j] \in [dirs : SUBSET Seq(Seq(C)), ok : BOOLEAN]
         /\ MkdirFrom(s, dirs)[j] = MkdirStep(MkdirFrom(s, dirs), s, dirs, j)
<1>. DEFINE n == Len(s)
            S == 0..n
            T == [dirs : SUBSET Seq(Seq(C)), ok : BOOLEAN]
            Delta == [g \in [S -> T] |-> [k \in S |-> MkdirStep(g, s, dirs, k)]]
            rank == [k \in S |-> k]
            Good(f) == f = [k \in 0..Len(s) |-> MkdirStep(f, s, dirs, k)]
<1>0. n \in Nat
  OBVIOUS
<1>1. ASSUME NEW k \in S, ~MkdirAlone(s, dirs, k)
      PROVE  LastSlash(s, k) \in S /\ LastSlash(s, k) < k /\ LastSlash(s, k) \in Nat
  <2>1. LastSlash(s, k) = NameStart(s, k) - 1
    BY LastSlashIs
  <2>2. NameStart(s, k) \in 0..k
    BY NameStartIs
  <2>3. LastSlash(s, k) # -1
    BY <1>1 DEF MkdirAlone, npos
  <2>. QED
    BY <1>0, <2>1, <2>2, <2>3
<1>2. ASSUME NEW g, NEW k \in S, MkdirAlone(s, dirs, k) \/ g[LastSlash(s, k)] \in T
      PROVE  MkdirStep(g, s, dirs, k) \in T
  <2>1. CASE MkdirAlone(s, dirs, k)
    <3>1. MkdirStep(g, s, dirs, k) = MkdirTold(s, k, dirs, TRUE)
      BY <2>1, MkdirStepIs
    <3>2. k \in 0..Len(s) /\ TRUE \in BOOLEAN
      OBVIOUS
    <3>3. MkdirTold(s, k, dirs, TRUE) \in T
      BY <3>2, ToldType, Zenon
    <3>. QED
      BY <3>1, <3>3, Zenon
  <2>2. CASE ~MkdirAlone(s, dirs, k) /\ g[LastSlash(s, k)] \in T
    <3>. DEFINE h == g[LastSlash(s, k)].dirs
                go == g[LastSlash(s, k)].ok
    <3>1. h \in SUBSET Seq(Seq(C)) /\ go \in BOOLEAN
      BY <2>2
    <3>2. MkdirStep(g, s, dirs, k) = MkdirTold(s, k, h, go)
      BY <2>2, <3>1, MkdirStepIs
    <3>. HIDE DEF h, go
    <3>3. MkdirTold(s, k, h, go) \in T
      BY <3>1, ToldType, Zenon
    <3>. QED
      BY <3>2, <3>3, Zenon
  <2>. QED
    BY <1>2, <2>1, <2>2
<1>3. Delta \in [[S -> T] -> [S -> T]]
  <2>1. ASSUME NEW g \in [S -> T], NEW k \in S PROVE MkdirStep(g, s, dirs, k) \in T
    <3>. HIDE DEF T, S
    <3>. QED
      BY <1>1, <1>2
  <2>. HIDE DEF T, S
  <2>. QED
    BY <2>1, Zenon
<1>4. LooksDown(Delta, rank, n, S, T)
  <2>1. \A g, h \in [S -> T] : \A x \in S :
          (\A y \in S : rank[y] < rank[x] => g[y] = h[y]) => Delta[g][x] = Delta[h][x]
    <3>. TAKE g, h \in [S -> T]
    <3>. TAKE x \in S
    <3>. HAVE \A y \in S : rank[y] < rank[x] => g[y] = h[y]
    <3>1. ~MkdirAlone(s, dirs, x) => g[LastSlash(s, x)] = h[LastSlash(s, x)]
      <4>. HIDE DEF S
      <4>. QED
        BY <1>1
    <3>2. MkdirStep(g, s, dirs, x) = MkdirStep(h, s, dirs, x)
      BY <3>1, Zenon DEF MkdirStep, MkdirAlone
    <3>. QED
      BY <3>2, Zenon
  <2>2. T # {}
    <3>1. [dirs |-> {}, ok |-> TRUE] \in T
      OBVIOUS
    <3>. QED
      BY <3>1, Zenon
  <2>3. rank \in [S -> 0..n]
    OBVIOUS
  <2>. HIDE DEF Delta, rank, S, T, n
  <2>. QED
    BY <1>0, <1>3, <2>1, <2>2, <2>3 DEF LooksDown
<1>5. PICK f \in [S -> T] : f = Delta[f]
  <2>. HIDE DEF Delta, rank, S, T, n
  <2>. QED
    BY <1>4, RecursiveFunction
<1>6. Good(f)
  BY <1>5, Zenon
<1>7. MkdirFrom(s, dirs) = CHOOSE g : Good(g)
  BY Zenon DEF MkdirFrom, MkdirStep
<1>8. Good(MkdirFrom(s, dirs))
  <2>. HIDE DEF Good
  <2>. QED
    BY <1>6, <1>7, Zenon
<1>9. \A k \in S : MkdirFrom(s, dirs)[k] = MkdirStep(MkdirFrom(s, dirs), s, dirs, k)
  BY <1>8, Zenon
<1>10. \A k \in S : MkdirFrom(s, dirs)[k] \in T
  <2>. DEFINE W == MkdirFrom(s, dirs)
              Fine == {k \in Nat : k <= n => W[k] \in T}
  <2>. HIDE DEF W, T
  <2>1. ASSUME NEW k \in Nat, \A e \in Nat : e < k => e \in Fine, k <= n PROVE W[k] \in T
    <3>1. k \in S
      BY <2>1
    <3>2. MkdirAlone(s, dirs, k) \/ W[LastSlash(s, k)] \in T
      BY <1>0, <1>1, <2>1, <3>1
    <3>3. W[k] = MkdirStep(W, s, dirs, k)
      BY <1>9, <3>1 DEF W
    <3>. QED
      BY <1>2, <3>1, <3>2, <3>3
  <2>2. Nat \subseteq Fine
    <3>1. \A d \in Nat : (\A e \in Nat : e < d => e \in Fine) => d \in Fine
      BY <2>1
    <3>. HIDE DEF Fine
    <3>. QED
      BY <3>1, AllNumbers
  <2>3. \A k \in S : W[k] \in T
    BY <2>2
  <2>. QED
    BY <2>3 DEF W, T
<1>. QED
  BY <1>9, <1>10

LEMMA DirsAndOk ==
  ASSUME NEW f, NEW a, NEW b, f = [dirs |-> a, ok |-> b]
  PROVE  f.dirs = a /\ f.ok = b
  OBVIOUS

\* What the kernel says and does of the path to the end of a name.
KernelMakes(v, h) ==
  IF v \notin h /\ (Len(v) = 1 \/ Front(v) \in h) THEN h \cup {v} ELSE h

LEMMA KernelAt ==
  ASSUME NEW C, NEW s \in Seq(C), NEW n \in 1..Len(s), WalkedTo(s)[n] # <<>>, NEW h
  PROVE  /\ There(Part(s, 0, n), h) <=> WalkedTo(s)[n] \in h
         /\ KernelMkdir(Part(s, 0, n), h) = KernelMakes(WalkedTo(s)[n], h)
<1>1. Part(s, 0, n) # <<>> /\ DirNames(Part(s, 0, n)) = WalkedTo(s)[n]
  BY PrefixNames
<1>2. There(Part(s, 0, n), h) <=> WalkedTo(s)[n] \in h
  BY <1>1, Zenon DEF There
<1>. QED
  BY <1>1, <1>2, Zenon DEF KernelMkdir, KernelMakes

\* Of the root, or the directory the path is relative to, nothing is made.
LEMMA MkdirAtRoot ==
  ASSUME NEW C, NEW s \in Seq(C), NEW dirs \in SUBSET Seq(Seq(C))
  PROVE  /\ Part(s, 0, 0) = <<>>
         /\ MkdirFrom(s, dirs)[0] = [dirs |-> dirs, ok |-> FALSE]
<1>1. 0 \in 0..Len(s) /\ 0 \in 0..0 /\ 0 \in Nat
  OBVIOUS
<1>2. Part(s, 0, 0) = <<>>
  <2>1. Part(s, 0, 0) \in Seq(C) /\ Len(Part(s, 0, 0)) = 0 - 0
    BY <1>1, PieceBetween
  <2>. HIDE DEF Part
  <2>. QED
    BY <2>1
<1>3. LastSlash(s, 0) = npos
  <2>1. LastSlash(s, 0) = NameStart(s, 0) - 1
    BY <1>1, LastSlashIs
  <2>2. NameStart(s, 0) \in 0..0
    BY <1>1, NameStartIs
  <2>. QED
    BY <2>1, <2>2 DEF npos
<1>4. MkdirFrom(s, dirs)[0] = MkdirTold(s, 0, dirs, TRUE)
  <2>1. MkdirFrom(s, dirs)[0] = MkdirStep(MkdirFrom(s, dirs), s, dirs, 0)
    BY <1>1, MkdirUnfolds
  <2>2. MkdirAlone(s, dirs, 0)
    BY <1>3 DEF MkdirAlone
  <2>. QED
    BY <2>1, <2>2, MkdirStepIs, Zenon
<1>5. KernelMkdir(Part(s, 0, 0), dirs) = dirs
  BY <1>2, Zenon DEF KernelMkdir
<1>6. MkdirTold(s, 0, dirs, TRUE) = [dirs |-> dirs, ok |-> FALSE]
  BY <1>5 DEF MkdirTold
<1>. QED
  BY <1>2, <1>4, <1>6, Zenon

\* What is there when mkdir with p returns for the path to the end of a name: the
\* directory and nothing below it, unless the path is rooted and the first
\* directory is missing.
Reachable(s, dirs) == ~Rooted(s) \/ <<FirstName(s)>> \in dirs

MkdirSays(s, dirs, n, after, ok) ==
  /\ Reachable(s, dirs) =>
       /\ WalkedTo(s)[n] \in after /\ dirs \subseteq after
       /\ ok <=> WalkedTo(s)[n] \notin dirs
       /\ \A x \in after : x \in dirs \/ Len(x) <= Len(WalkedTo(s)[n])
  /\ ~Reachable(s, dirs) => after = {} /\ ~ok

\* Nothing is there, or the directory of one name.
OneAtMost(dirs, x) == dirs \in {{}, {<<x>>}}

LEMMA MkdirFirst ==
  ASSUME NEW C, "/" \in C, NEW s \in Seq(C), NEW n, Stop(s, n), NEW x, StopsBehind(s, n, Len(Root(s)), x, C),
         WalkedTo(s)[n] = <<x>>, x = FirstName(s), NEW dirs \in SUBSET Seq(Seq(C)), OneAtMost(dirs, x)
  PROVE  MkdirSays(s, dirs, n, MkdirFrom(s, dirs)[n].dirs, MkdirFrom(s, dirs)[n].ok)
<1>. DEFINE F == MkdirFrom(s, dirs)
            N == WalkedTo(s)[n]
            p == Len(Root(s))
<1>1. n \in 1..Len(s) /\ n \in 0..Len(s) /\ Len(s) \in Nat
  BY DEF Stop
<1>2. N = <<x>> /\ N # <<>> /\ Len(N) = 1
  OBVIOUS
<1>2a. Len(N) \in Nat
  BY <1>2
<1>3. LastSlash(s, n) = p - 1
  BY <1>1, LastSlashIs, Zenon DEF StopsBehind
<1>4. F[n] = MkdirStep(F, s, dirs, n)
  BY <1>1, MkdirUnfolds
<1>5. KernelMkdir(Part(s, 0, n), dirs) = IF N \notin dirs THEN dirs \cup {N} ELSE dirs
  BY <1>1, <1>2, KernelAt DEF KernelMakes
<1>6. (Rooted(s) => p = 1) /\ (~Rooted(s) => p = 0)
  BY RootIs
<1>. HIDE DEF p, F, N
<1>7. CASE ~Rooted(s)
  <2>1. MkdirAlone(s, dirs, n)
    BY <1>3, <1>6, <1>7 DEF MkdirAlone, npos
  <2>2. F[n] = MkdirTold(s, n, dirs, TRUE)
    <3>1. MkdirStep(F, s, dirs, n) = MkdirTold(s, n, dirs, TRUE)
      BY <2>1, MkdirOfOwn
    <3>. QED
      BY <1>4, <3>1, Zenon
  <2>. DEFINE a == IF N \notin dirs THEN dirs \cup {N} ELSE dirs
  <2>3. F[n] = [dirs |-> a, ok |-> a # dirs]
    BY <1>5, <2>2, Zenon DEF MkdirTold
  <2>4. N \in a /\ dirs \subseteq a /\ (a # dirs <=> N \notin dirs) /\ \A y \in a : y \in dirs \/ y = N
    OBVIOUS
  <2>. HIDE DEF a
  <2>5. F[n].dirs = a /\ (F[n].ok <=> a # dirs)
    BY <2>3, DirsAndOk, Zenon
  <2>6. \A y \in a : y \in dirs \/ Len(y) <= Len(N)
    <3>. TAKE y \in a
    <3>1. y \in dirs \/ y = N
      BY <2>4
    <3>2. Len(N) <= Len(N)
      BY <1>2a
    <3>. QED
      BY <3>1, <3>2, Zenon
  <2>. QED
    BY <1>7, <2>4, <2>5, <2>6 DEF MkdirSays, Reachable, F, N
<1>8. CASE Rooted(s)
  <2>1. LastSlash(s, n) = 0
    BY <1>3, <1>6, <1>8
  <2>2. ~MkdirAlone(s, dirs, n)
    <3>1. Part(s, 0, 0) = <<>>
      BY MkdirAtRoot
    <3>2. ~There(<<>>, dirs)
      BY Zenon DEF There
    <3>. QED
      BY <2>1, <3>1, <3>2 DEF MkdirAlone, npos
  <2>3. F[0].dirs = dirs /\ F[0].ok = FALSE
    <3>1. F[0] = [dirs |-> dirs, ok |-> FALSE]
      BY MkdirAtRoot, Zenon DEF F
    <3>. QED
      BY <3>1, DirsAndOk, Zenon
  <2>4. F[n] = MkdirTold(s, n, dirs, FALSE)
    <3>1. F[LastSlash(s, n)].ok \in BOOLEAN
      BY <2>1, <2>3
    <3>2. F[n] = MkdirTold(s, n, F[LastSlash(s, n)].dirs, F[LastSlash(s, n)].ok)
      BY <1>4, <2>2, <3>1, MkdirStepIs, Zenon
    <3>. QED
      BY <2>1, <2>3, <3>2
  <2>5. F[n] = [dirs |-> dirs, ok |-> FALSE]
    BY <2>4 DEF MkdirTold
  <2>6. Reachable(s, dirs) <=> N \in dirs
    BY <1>2, <1>8, Zenon DEF Reachable
  <2>7. ~Reachable(s, dirs) => dirs = {}
    BY <1>2, <2>6 DEF OneAtMost
  <2>. QED
    BY <2>5, <2>6, <2>7 DEF MkdirSays, F, N
<1>. QED
  BY <1>7, <1>8

LEMMA MkdirNext ==
  ASSUME NEW C, "/" \in C, NEW s \in Seq(C), NEW n, Stop(s, n), NEW m, Stop(s, m), NEW x,
         x \in Seq(C), LastSlash(s, n) = m, WalkedTo(s)[m] # <<>>,
         WalkedTo(s)[n] = Append(WalkedTo(s)[m], x),
         NEW dirs \in SUBSET Seq(Seq(C)), dirs \in {{}, {<<FirstName(s)>>}},
         MkdirSays(s, dirs, m, MkdirFrom(s, dirs)[m].dirs, MkdirFrom(s, dirs)[m].ok)
  PROVE  MkdirSays(s, dirs, n, MkdirFrom(s, dirs)[n].dirs, MkdirFrom(s, dirs)[n].ok)
<1>. DEFINE F == MkdirFrom(s, dirs)
            N == WalkedTo(s)[n]
            M == WalkedTo(s)[m]
<1>1. n \in 1..Len(s) /\ n \in 0..Len(s) /\ m \in 1..Len(s) /\ m \in 0..Len(s) /\ Len(s) \in Nat
  BY DEF Stop
<1>2. N \in Seq(Seq(C)) /\ M \in Seq(Seq(C)) /\ N = Append(M, x) /\ M # <<>>
  BY <1>1, WalkUnfolds
<1>3. F[n] = MkdirStep(F, s, dirs, n)
  BY <1>1, MkdirUnfolds
<1>4. F[m] \in [dirs : SUBSET Seq(Seq(C)), ok : BOOLEAN]
  BY <1>1, MkdirUnfolds
<1>. HIDE DEF M, N
<1>5. N # <<>> /\ Front(N) = M /\ Len(N) = Len(M) + 1 /\ Len(M) \in Nat /\ Len(M) # 0
  <2>1. Len(M) \in Nat /\ Len(M) # 0
    BY <1>2
  <2>2. Len(N) = Len(M) + 1
    BY <1>2
  <2>3. Front(N) = M
    BY <1>2 DEF Front
  <2>4. N # <<>>
    BY <1>2, AppendFirst, Zenon
  <2>. QED
    BY <2>1, <2>2, <2>3, <2>4
<1>6. \A h : KernelMkdir(Part(s, 0, n), h) = IF N \notin h /\ M \in h THEN h \cup {N} ELSE h
  <2>1. Len(N) # 1
    BY <1>5
  <2>. TAKE h
  <2>2. WalkedTo(s)[n] # <<>>
    BY <1>5 DEF N
  <2>3. KernelMkdir(Part(s, 0, n), h) = KernelMakes(N, h)
    BY <1>1, <2>2, KernelAt, Zenon DEF N
  <2>. QED
    BY <1>5, <2>1, <2>3, Zenon DEF KernelMakes
<1>7. MkdirAlone(s, dirs, n) <=> M \in dirs
  <2>1. There(Part(s, 0, m), dirs) <=> M \in dirs
    BY <1>1, <1>2, KernelAt, Zenon DEF M
  <2>2. m # npos
    BY <1>1 DEF npos
  <2>. QED
    BY <2>1, <2>2 DEF MkdirAlone
<1>8. MkdirSays(s, dirs, m, F[m].dirs, F[m].ok)
  OBVIOUS
<1>. HIDE DEF F
<1>. DEFINE R == F[m].dirs
<1>9. ~Reachable(s, dirs) => dirs = {}
  BY Zenon DEF Reachable
<1>10. CASE M \in dirs
  <2>. DEFINE a == IF N \notin dirs THEN dirs \cup {N} ELSE dirs
  <2>1. F[n] = MkdirTold(s, n, dirs, TRUE)
    <3>1. MkdirStep(F, s, dirs, n) = MkdirTold(s, n, dirs, TRUE)
      BY <1>7, <1>10, MkdirOfOwn
    <3>. QED
      BY <1>3, <3>1, Zenon
  <2>2. KernelMkdir(Part(s, 0, n), dirs) = a
    BY <1>6, <1>10
  <2>3. F[n] = [dirs |-> a, ok |-> a # dirs]
    BY <2>1, <2>2, Zenon DEF MkdirTold
  <2>4. N \in a /\ dirs \subseteq a /\ (a # dirs <=> N \notin dirs) /\ \A y \in a : y \in dirs \/ y = N
    OBVIOUS
  <2>. HIDE DEF a
  <2>5. F[n].dirs = a /\ (F[n].ok <=> a # dirs)
    BY <2>3, DirsAndOk, Zenon
  <2>6. Reachable(s, dirs)
    BY <1>9, <1>10
  <2>7. \A y \in a : y \in dirs \/ Len(y) <= Len(N)
    BY <1>5, <2>4
  <2>. QED
    BY <2>4, <2>5, <2>6, <2>7 DEF MkdirSays, F, N
<1>11. CASE M \notin dirs /\ Reachable(s, dirs)
  <2>. DEFINE a == IF N \notin R THEN R \cup {N} ELSE R
  <2>1. F[m].ok = TRUE /\ M \in R /\ dirs \subseteq R /\ \A y \in R : y \in dirs \/ Len(y) <= Len(M)
    BY <1>4, <1>8, <1>11 DEF MkdirSays, M
  <2>2. F[n] = MkdirTold(s, n, R, TRUE)
    <3>1. F[n] = MkdirTold(s, n, F[m].dirs, F[m].ok)
      <4>1. F[m].ok \in BOOLEAN /\ ~MkdirAlone(s, dirs, n)
        BY <1>7, <1>11, <2>1
      <4>. QED
        <5>1. MkdirStep(F, s, dirs, n) = MkdirTold(s, n, F[m].dirs, F[m].ok)
          BY <4>1, MkdirBehind
        <5>. QED
          BY <1>3, <5>1, Zenon
    <3>. QED
      BY <2>1, <3>1
  <2>. HIDE DEF R
  <2>3. KernelMkdir(Part(s, 0, n), R) = a
    BY <1>6, <2>1
  <2>4. F[n] = [dirs |-> a, ok |-> a # R]
    BY <2>2, <2>3, Zenon DEF MkdirTold
  <2>5. N \in a /\ R \subseteq a /\ (a # R <=> N \notin R) /\ \A y \in a : y \in R \/ y = N
    OBVIOUS
  <2>. HIDE DEF a
  <2>6. F[n].dirs = a /\ (F[n].ok <=> a # R)
    BY <2>4, DirsAndOk, Zenon
  <2>7. N \in R <=> N \in dirs
    <3>1. ~(Len(N) <= Len(M))
      BY <1>5
    <3>. QED
      BY <2>1, <3>1
  <2>8. \A y \in a : y \in dirs \/ Len(y) <= Len(N)
    <3>. TAKE y \in a
    <3>1. CASE y = N
      BY <1>5, <3>1
    <3>2. CASE y \in R /\ y \notin dirs
      <4>1. Len(y) <= Len(M)
        BY <2>1, <3>2
      <4>2. y \in Seq(Seq(C))
        BY <1>4, <3>2 DEF R
      <4>3. Len(y) \in Nat
        BY <4>2
      <4>. QED
        BY <1>5, <4>1, <4>3
    <3>. QED
      BY <2>5, <3>1, <3>2
  <2>. QED
    BY <1>11, <2>1, <2>5, <2>6, <2>7, <2>8 DEF MkdirSays, F, N
<1>12. CASE M \notin dirs /\ ~Reachable(s, dirs)
  <2>1. F[m].ok = FALSE /\ R = {}
    BY <1>4, <1>8, <1>12 DEF MkdirSays
  <2>2. F[n] = MkdirTold(s, n, {}, FALSE)
    <3>1. F[n] = MkdirTold(s, n, F[m].dirs, F[m].ok)
      <4>1. F[m].ok \in BOOLEAN /\ ~MkdirAlone(s, dirs, n)
        BY <1>7, <1>12, <2>1
      <4>. QED
        <5>1. MkdirStep(F, s, dirs, n) = MkdirTold(s, n, F[m].dirs, F[m].ok)
          BY <4>1, MkdirBehind
        <5>. QED
          BY <1>3, <5>1, Zenon
    <3>. QED
      BY <2>1, <3>1
  <2>3. F[n] = [dirs |-> {}, ok |-> FALSE]
    BY <2>2 DEF MkdirTold
  <2>4. F[n].dirs = {} /\ ~F[n].ok
    BY <2>3
  <2>. QED
    BY <1>12, <2>4, Zenon DEF MkdirSays, F
<1>. QED
  BY <1>10, <1>11, <1>12

LEMMA MkdirRight ==
  ASSUME NEW C, "/" \in C, NEW s \in Seq(C), "." \notin ToSet(s), Neat(s),
         NEW dirs \in SUBSET Seq(Seq(C)), dirs \in {{}, {<<FirstName(s)>>}}, NEW n, Stop(s, n)
  PROVE  MkdirSays(s, dirs, n, MkdirFrom(s, dirs)[n].dirs, MkdirFrom(s, dirs)[n].ok)
<1>. DEFINE Says(k) == MkdirSays(s, dirs, k, MkdirFrom(s, dirs)[k].dirs, MkdirFrom(s, dirs)[k].ok)
            Fine == {k \in Nat : Stop(s, k) => Says(k)}
<1>1. ASSUME NEW k \in Nat, \A l \in Nat : l < k => l \in Fine PROVE k \in Fine
  <2>1. SUFFICES ASSUME Stop(s, k) PROVE Says(k)
    OBVIOUS
  <2>2. PICK b, x : StopsBehind(s, k, b, x, C)
    BY <2>1, StopNames, Zenon
  <2>3. /\ b \in 0..k - 1 /\ x \in Seq(C) /\ b = NameStart(s, k)
        /\ \/ b = Len(Root(s)) /\ WalkedTo(s)[k] = <<x>>
           \/ b >= 2 /\ Stop(s, b - 1) /\ WalkedTo(s)[k] = Append(WalkedTo(s)[b - 1], x)
    BY <2>2, Zenon DEF StopsBehind
  <2>4. CASE b = Len(Root(s)) /\ WalkedTo(s)[k] = <<x>>
    <3>1. x = FirstName(s)
      <4>1. WalkedTo(s)[k][1] = FirstName(s)
        BY <2>1, FirstIsFirst
      <4>. QED
        BY <2>4, <4>1
    <3>2. StopsBehind(s, k, Len(Root(s)), x, C)
      BY <2>2, <2>4
    <3>. QED
      BY <2>1, <2>4, <3>1, <3>2, MkdirFirst, Zenon DEF OneAtMost
  <2>5. CASE b >= 2 /\ Stop(s, b - 1) /\ WalkedTo(s)[k] = Append(WalkedTo(s)[b - 1], x)
    <3>. DEFINE m == b - 1
    <3>1. m \in Nat /\ m < k
      BY <2>3, <2>5
    <3>2. Stop(s, m) /\ WalkedTo(s)[k] = Append(WalkedTo(s)[m], x)
      BY <2>5
    <3>3. LastSlash(s, k) = m
      <4>1. k \in 0..Len(s)
        BY <2>1 DEF Stop
      <4>. QED
        BY <2>3, <4>1, LastSlashIs
    <3>. HIDE DEF m
    <3>4. WalkedTo(s)[m] # <<>>
      BY <3>2, FirstIsFirst
    <3>5. Says(m)
      <4>. HIDE DEF Says
      <4>. QED
        BY <1>1, <3>1, <3>2
    <3>. QED
      BY <2>1, <2>3, <3>2, <3>3, <3>4, <3>5, MkdirNext, Zenon
  <2>. QED
    BY <2>3, <2>4, <2>5
<1>2. Nat \subseteq Fine
  <2>. HIDE DEF Fine
  <2>. QED
    BY <1>1, AllNumbers
<1>3. n \in Nat
  BY DEF Stop
<1>. HIDE DEF Says
<1>4. Says(n)
  BY <1>2, <1>3
<1>. QED
  BY <1>4 DEF Says

\* What DirsRight says of one set of directories.
DirsAre(s, dirs, there) ==
  LET made == MkdirP(s, dirs)
  IN  /\ made.ok => There(s, made.dirs)
      /\ There(s, made.dirs) <=> there

\* The root directory is there.
LEMMA DirsAtRoot ==
  ASSUME NEW C, "/" \in C, NEW s \in Seq(C), s # <<>>, DirNames(s) = <<>>,
         NEW dirs \in SUBSET Seq(Seq(C))
  PROVE  DirsAre(s, dirs, TRUE)
<1>1. \A h : There(s, h)
  BY Zenon DEF There
<1>. QED
  BY <1>1, Zenon DEF DirsAre

LEMMA DirsBelow ==
  ASSUME NEW C, "/" \in C, NEW s \in Seq(C), "." \notin ToSet(s), Neat(s), DirNames(s) # <<>>,
         NEW dirs, dirs \in {{}, {<<DirNames(s)[1]>>}}
  PROVE  DirsAre(s, dirs, ~Rooted(s) \/ <<DirNames(s)[1]>> \in dirs)
<1>. DEFINE n == Len(s)
            N == WalkedTo(s)[n]
            R == MkdirFrom(s, dirs)[n].dirs
            ok == MkdirFrom(s, dirs)[n].ok
<1>0. n \in Nat /\ n # 0 /\ n \in 0..n /\ n \in 1..n /\ s # <<>>
  BY DEF Neat
<1>1. DirNames(s) = N /\ N # <<>> /\ N \in Seq(Seq(C))
  BY <1>0, WalkUnfolds DEF DirNames
<1>2. Stop(s, n)
  <2>1. Ends(s, n)
    BY DEF Ends
  <2>2. CASE n > 1
    BY <1>0, <2>1, <2>2 DEF Neat, Stop
  <2>3. CASE n = 1
    <3>1. ASSUME At(s, 0) = "/" PROVE FALSE
      <4>1. Begins(s, 1) /\ 1 \in 0..Len(s) /\ Begins(s, 0) /\ 0 \in 0..Len(s)
        BY <2>3, <3>1 DEF Begins
      <4>2. WalkedTo(s)[1] = Before(s, 1) /\ WalkedTo(s)[0] = Before(s, 0)
        BY <4>1, WalkedHere
      <4>3. Before(s, 1) = WalkedTo(s)[0] /\ Before(s, 0) = <<>>
        BY DEF Before
      <4>. QED
        BY <1>1, <2>3, <4>2, <4>3
    <3>. QED
      BY <1>0, <2>1, <2>3, <3>1 DEF Stop
  <2>4. n > 1 \/ n = 1
    <3>. HIDE DEF n, N, R, ok
    <3>. QED
      BY <1>0
  <2>. QED
    BY <2>2, <2>3, <2>4, Zenon
<1>3. N[1] = FirstName(s) /\ N[1] \in Seq(C)
  <2>1. N[1] = FirstName(s)
    BY <1>2, FirstIsFirst
  <2>2. 1 \in 1..Len(N)
    <3>. HIDE DEF N
    <3>. QED
      BY <1>1
  <2>. QED
    BY <1>1, <2>1, <2>2
<1>4. dirs \in {{}, {<<FirstName(s)>>}} /\ dirs \in SUBSET Seq(Seq(C))
  <2>1. <<FirstName(s)>> \in Seq(Seq(C))
    BY <1>3
  <2>. QED
    BY <1>1, <1>3, <2>1
<1>5. MkdirSays(s, dirs, n, R, ok)
  BY <1>2, <1>4, MkdirRight, Zenon
<1>6. There(s, R) <=> N \in R
  BY <1>0, <1>1, Zenon DEF There
<1>7. Reachable(s, dirs) <=> (~Rooted(s) \/ <<DirNames(s)[1]>> \in dirs)
  BY <1>1, <1>3, Zenon DEF Reachable
<1>8. (ok => N \in R) /\ (N \in R <=> Reachable(s, dirs))
  <2>1. CASE Reachable(s, dirs)
    BY <1>5, <2>1, Zenon DEF MkdirSays
  <2>2. CASE ~Reachable(s, dirs)
    <3>1. R = {} /\ ~ok
      BY <1>5, <2>2, Zenon DEF MkdirSays
    <3>. HIDE DEF R, ok, N
    <3>. QED
      BY <2>2, <3>1
  <2>. QED
    BY <2>1, <2>2
<1>9. MkdirP(s, dirs).dirs = R /\ MkdirP(s, dirs).ok = ok
  BY Zenon DEF MkdirP
<1>. QED
  BY <1>6, <1>7, <1>8, <1>9, Zenon DEF DirsAre

LEMMA DirsHold ==
  ASSUME NEW C, "/" \in C, "." \in C, text \in Seq(C)
  PROVE  DirsRight
<1>. DEFINE names == DirNames(text)
            top == IF names = <<>> THEN <<>> ELSE <<names[1]>>
<1>1. SUFFICES ASSUME text = Clean(text), "." \notin ToSet(text),
                      NEW dirs \in {{}, {top} \ {<<>>}}
               PROVE  DirsAre(text, dirs, names = <<>> \/ ~Rooted(text) \/ top \in dirs)
  BY Zenon DEF DirsRight, DirsAre
<1>2. Neat(text) /\ text # <<>>
  BY <1>1, CleanIsNeat DEF Neat
<1>3. CASE names = <<>>
  <2>1. dirs \in SUBSET Seq(Seq(C))
    BY <1>3
  <2>2. DirsAre(text, dirs, TRUE)
    BY <1>2, <1>3, <2>1, DirsAtRoot
  <2>. QED
    <3>1. names = <<>> \/ ~Rooted(text) \/ top \in dirs
      BY <1>3
    <3>. QED
      BY <2>2, <3>1, Zenon DEF DirsAre
<1>4. CASE names # <<>>
  <2>1. top = <<names[1]>> /\ top # <<>>
    BY <1>4
  <2>2. dirs \in {{}, {<<names[1]>>}}
    BY <2>1
  <2>3. DirsAre(text, dirs, ~Rooted(text) \/ <<names[1]>> \in dirs)
    BY <1>1, <1>2, <1>4, <2>2, DirsBelow
  <2>. QED
    BY <1>4, <2>1, <2>3, Zenon DEF DirsAre
<1>. QED
  BY <1>3, <1>4

\* What path::clean returned is there after mkdir with p, if it is not rooted or its
\* first directory is there, and mkdir says of no other path that it made it
\* (base/unix/fs.cc:37-50).
THEOREM DirsCorrect == TextSpec => []DirsRight
<1>1. ASSUME TextType PROVE DirsRight
  <2>. DEFINE C == Letters \cup {"/", "."}
  <2>1. text \in Seq(C) /\ "/" \in C /\ "." \in C
    BY <1>1 DEF TextType
  <2>. HIDE DEF C
  <2>. QED
    BY <2>1, DirsHold
<1>. QED
  BY <1>1, TextTypeCorrect, PTL

\* The four theorems on strings, for strings of every length over any characters:
\* match and mkdir in the cases that SearchRight and DirsRight name, rfind, clean,
\* base and the cut of a full buffer in all.
THEOREM TextCorrect == TextSpec => []TextRight
<1>1. SearchRight /\ PathsRight /\ BufferRight /\ DirsRight => TextRight
  BY Zenon DEF TextRight
<1>. QED
  BY <1>1, SearchCorrect, PathsCorrect, BufferCorrect, DirsCorrect, PTL

-----------------------------------------------------------------------------
\* A line of a config file.

\* Where a sign of any length is.
LEMMA NthIs ==
  ASSUME NEW C, NEW s \in Seq(C), NEW sub \in Seq(C), NEW j
  PROVE  j \in Nth(s, sub) <=>
           j \in 0..Len(s) - Len(sub) /\ \A d \in 1..Len(sub) : s[j + d] = sub[d]
<1>1. ASSUME j \in 0..Len(s) - Len(sub)
      PROVE  Slice(s, j, j + Len(sub)) = sub <=> \A d \in 1..Len(sub) : s[j + d] = sub[d]
  <2>. DEFINE x == Slice(s, j, j + Len(sub))
              m == Len(sub)
  <2>1. m \in Nat /\ j \in 0..Len(s) /\ j + m \in j..Len(s) /\ (j + m) - j = m
    BY <1>1
  <2>2. x \in Seq(C) /\ Len(x) = (j + m) - j /\ \A d \in 1..(j + m) - j : x[d] = s[j + d]
    BY <2>1, SliceBetween
  <2>. HIDE DEF x, m
  <2>3. x \in Seq(C) /\ Len(x) = m /\ \A d \in 1..m : x[d] = s[j + d]
    BY <2>1, <2>2
  <2>4. ASSUME \A d \in 1..m : s[j + d] = sub[d] PROVE x = sub
    BY <2>3, <2>4, SameString DEF m
  <2>5. ASSUME x = sub PROVE \A d \in 1..m : s[j + d] = sub[d]
    BY <2>3, <2>5
  <2>. QED
    BY <2>4, <2>5 DEF x, m
<1>. QED
  BY <1>1 DEF Nth

LEMMA SliceAll ==
  ASSUME NEW C, NEW s \in Seq(C)
  PROVE  Slice(s, 0, Len(s)) = s
<1>1. 0 \in 0..Len(s) /\ Len(s) \in 0..Len(s) /\ Len(s) - 0 = Len(s) /\ Len(s) \in Nat
  OBVIOUS
<1>. DEFINE x == Slice(s, 0, Len(s))
<1>2. x \in Seq(C) /\ Len(x) = Len(s) - 0 /\ \A d \in 1..Len(s) - 0 : x[d] = s[0 + d]
  BY <1>1, SliceBetween
<1>. HIDE DEF x
<1>3. x \in Seq(C) /\ Len(x) = Len(s) /\ \A d \in 1..Len(s) : x[d] = s[d]
  BY <1>1, <1>2
<1>4. x = s
  BY <1>3, SameString
<1>. QED
  BY <1>4 DEF x

-----------------------------------------------------------------------------
\* Stripping.

LEMMA StripRightIs ==
  ASSUME NEW C, NEW s \in Seq(C), NEW cs
  PROVE  \E m \in 0..Len(s) :
           /\ StripRight(s, cs) = Slice(s, 0, m)
           /\ m > 0 => s[m] \notin cs
           /\ \A i \in m + 1..Len(s) : s[i] \in cs
<1>. DEFINE T == {i \in 0..Len(s) : i = 0 \/ Char(s, i - 1) \notin cs}
            m == Max(T)
<1>0. Len(s) \in Nat
  OBVIOUS
<1>1. T \subseteq 0..Len(s) /\ T # {}
  <2>1. 0 \in T
    BY <1>0
  <2>. QED
    BY <2>1
<1>2. m \in T /\ \A y \in T : y <= m
  <2>. HIDE DEF T
  <2>. QED
    BY <1>0, <1>1, GreatestNumber
<1>3. StripRight(s, cs) = Slice(s, 0, m)
  BY Zenon DEF StripRight
<1>. HIDE DEF m
<1>4. m \in 0..Len(s) /\ (m > 0 => s[m] \notin cs)
  BY <1>2 DEF Char
<1>5. \A i \in m + 1..Len(s) : s[i] \in cs
  <2>. TAKE i \in m + 1..Len(s)
  <2>1. i \in 0..Len(s) /\ i > m /\ (i - 1) + 1 = i
    BY <1>4
  <2>2. i \notin T
    <3>. HIDE DEF T
    <3>. QED
      BY <1>2, <1>4, <2>1
  <2>. QED
    BY <2>1, <2>2 DEF Char
<1>. QED
  BY <1>3, <1>4, <1>5

LEMMA StripTypes ==
  ASSUME NEW C, NEW s \in Seq(C), NEW cs
  PROVE  StripLeft(s, cs) \in Seq(C) /\ StripRight(s, cs) \in Seq(C)
<1>1. PICK b \in 0..Len(s) : StripLeft(s, cs) = Slice(s, b, Len(s))
  BY StripLeftIs
<1>2. PICK m \in 0..Len(s) : StripRight(s, cs) = Slice(s, 0, m)
  BY StripRightIs
<1>3. 0 \in 0..Len(s) /\ m \in 0..Len(s) /\ Len(s) \in b..Len(s)
  OBVIOUS
<1>. QED
  BY <1>1, <1>2, <1>3, SliceBetween

LEMMA StripLeftSame ==
  ASSUME NEW C, NEW s \in Seq(C), NEW cs, s = <<>> \/ s[1] \notin cs
  PROVE  StripLeft(s, cs) = s
<1>1. PICK b \in 0..Len(s) : /\ StripLeft(s, cs) = Slice(s, b, Len(s))
                             /\ \A i \in 0..b - 1 : s[i + 1] \in cs
  BY StripLeftIs
<1>2. b = 0
  <2>1. CASE b > 0
    <3>1. 0 \in 0..b - 1 /\ s # <<>>
      BY <2>1
    <3>2. s[0 + 1] \in cs
      BY <1>1, <3>1
    <3>. QED
      BY <3>1, <3>2
  <2>. QED
    BY <2>1
<1>. QED
  BY <1>1, <1>2, SliceAll

LEMMA StripRightSame ==
  ASSUME NEW C, NEW s \in Seq(C), NEW cs, s = <<>> \/ s[Len(s)] \notin cs
  PROVE  StripRight(s, cs) = s
<1>1. PICK m \in 0..Len(s) : /\ StripRight(s, cs) = Slice(s, 0, m)
                             /\ \A i \in m + 1..Len(s) : s[i] \in cs
  BY StripRightIs
<1>2. m = Len(s)
  <2>1. CASE m < Len(s)
    <3>1. Len(s) \in m + 1..Len(s) /\ s # <<>>
      BY <2>1
    <3>. QED
      BY <1>1, <3>1
  <2>. QED
    BY <2>1
<1>. QED
  BY <1>1, <1>2, SliceAll

\* What each line that mkconf writes begins with.
Starts(s) == Len(s) >= 3 /\ s[1] = "f" /\ s[2] = Space /\ s[3] = "="

LEMMA StartsStripped ==
  ASSUME NEW C, NEW s \in Seq(C), Starts(s), NEW cs, "f" \notin cs, "=" \notin cs
  PROVE  /\ StripLeft(s, cs) = s
         /\ StripRight(s, cs) \in Seq(C) /\ Starts(StripRight(s, cs))
<1>. DEFINE n == Len(s)
<1>0. n \in Nat
  OBVIOUS
<1>0a. n >= 3
  BY Zenon DEF Starts
<1>1. s[1] = "f" /\ s[2] = Space /\ s[3] = "="
  BY Zenon DEF Starts
<1>2. StripLeft(s, cs) = s
  BY <1>1, StripLeftSame, Zenon
<1>3. PICK m \in 0..Len(s) : /\ StripRight(s, cs) = Slice(s, 0, m)
                             /\ \A i \in m + 1..Len(s) : s[i] \in cs
  BY StripRightIs
<1>4. m >= 3
  <2>1. CASE m < 3
    <3>1. 3 \in m + 1..Len(s)
      <4>1. m \in 0..n
        OBVIOUS
      <4>. HIDE DEF n
      <4>2. 3 \in m + 1..n
        BY <1>0, <1>0a, <2>1, <4>1
      <4>. QED
        BY <4>2 DEF n
    <3>2. s[3] \in cs
      BY <1>3, <3>1
    <3>. QED
      BY <1>1, <3>2
  <2>. QED
    BY <2>1
<1>. DEFINE x == Slice(s, 0, m)
<1>5. x \in Seq(C) /\ Len(x) = m - 0 /\ \A d \in 1..m - 0 : x[d] = s[0 + d]
  <2>1. 0 \in 0..Len(s) /\ m \in 0..Len(s)
    OBVIOUS
  <2>. QED
    BY <2>1, SliceBetween
<1>. HIDE DEF x
<1>6. Starts(x)
  <2>0. m \in Nat /\ m - 0 = m
    OBVIOUS
  <2>1. 1 \in 1..m - 0 /\ 2 \in 1..m - 0 /\ 3 \in 1..m - 0 /\ 0 + 1 = 1 /\ 0 + 2 = 2 /\ 0 + 3 = 3
    BY <1>4, <2>0
  <2>2. Len(x) >= 3
    BY <1>4, <1>5, <2>0
  <2>3. x[1] = s[1] /\ x[2] = s[2] /\ x[3] = s[3]
    BY <1>5, <2>1
  <2>. QED
    BY <1>1, <2>2, <2>3 DEF Starts
<1>. QED
  BY <1>2, <1>3, <1>5, <1>6 DEF x

-----------------------------------------------------------------------------
\* Two spaces for one.
Twice == <<Space, Space>>

HalfStep(g, s, i) ==
  IF i = Len(s) THEN <<>>
  ELSE IF i \in Nth(s, Twice) THEN Then(<<Space>>, g[i + 2]) ELSE Then(<<Char(s, i)>>, g[i + 1])

HalfFrom(s) ==
  CHOOSE g : g = [i \in 0..Len(s) |-> HalfStep(g, s, i)]

LEMMA HalfUnfolds ==
  ASSUME NEW C, Space \in C, NEW s \in Seq(C)
  PROVE  /\ HalfSpaces(s) = HalfFrom(s)[0]
         /\ \A i \in 0..Len(s) : /\ HalfFrom(s)[i] \in Seq(C)
                                 /\ HalfFrom(s)[i] = HalfStep(HalfFrom(s), s, i)
<1>. DEFINE n == Len(s)
            S == 0..n
            T == Seq(C)
            Delta == [g \in [S -> T] |-> [k \in S |-> HalfStep(g, s, k)]]
            rank == [k \in S |-> n - k]
            Good(f) == f = [k \in 0..Len(s) |-> HalfStep(f, s, k)]
<1>0. n \in Nat
  OBVIOUS
<1>1. ASSUME NEW k \in S, k # n PROVE k + 1 \in S /\ n - (k + 1) < n - k
  BY <1>0, <1>1
<1>2. ASSUME NEW k \in S, k \in Nth(s, Twice) PROVE k + 2 \in S /\ n - (k + 2) < n - k
  <2>1. k \in 0..n - Len(Twice) /\ Len(Twice) = 2
    BY <1>2 DEF Nth, Twice
  <2>. QED
    BY <1>0, <2>1
<1>3. ASSUME NEW g, NEW k \in S, k # n => g[k + 1] \in T, k \in Nth(s, Twice) => g[k + 2] \in T
      PROVE  HalfStep(g, s, k) \in T
  <2>1. <<>> \in T /\ <<Space>> \in T
    OBVIOUS
  <2>2. k # n => <<Char(s, k)>> \in T
    <3>. HAVE k # n
    <3>1. k + 1 \in 1..n
      BY <1>0, <1>1
    <3>2. Char(s, k) \in C
      BY <3>1 DEF Char
    <3>. QED
      BY <3>2
  <2>3. k # n => Then(<<Char(s, k)>>, g[k + 1]) \in T
    BY <1>3, <2>2, ThenType
  <2>4. k \in Nth(s, Twice) => Then(<<Space>>, g[k + 2]) \in T
    BY <1>3, <2>1, ThenType
  <2>. HIDE DEF T
  <2>. QED
    BY <2>1, <2>3, <2>4, Zenon DEF HalfStep
<1>4. Delta \in [[S -> T] -> [S -> T]]
  <2>1. ASSUME NEW g \in [S -> T], NEW k \in S PROVE HalfStep(g, s, k) \in T
    <3>. HIDE DEF T, S
    <3>. QED
      BY <1>1, <1>2, <1>3
  <2>. HIDE DEF T, S
  <2>. QED
    BY <2>1, Zenon
<1>5. LooksDown(Delta, rank, n, S, T)
  <2>1. \A g, h \in [S -> T] : \A x \in S :
          (\A y \in S : rank[y] < rank[x] => g[y] = h[y]) => Delta[g][x] = Delta[h][x]
    <3>. TAKE g, h \in [S -> T]
    <3>. TAKE x \in S
    <3>. HAVE \A y \in S : rank[y] < rank[x] => g[y] = h[y]
    <3>1. x # n => g[x + 1] = h[x + 1]
      <4>. HIDE DEF S
      <4>. QED
        BY <1>1
    <3>2. x \in Nth(s, Twice) => g[x + 2] = h[x + 2]
      <4>. HIDE DEF S
      <4>. QED
        BY <1>2
    <3>3. HalfStep(g, s, x) = HalfStep(h, s, x)
      BY <3>1, <3>2, Zenon DEF HalfStep
    <3>. QED
      BY <3>3, Zenon
  <2>2. T # {}
    <3>1. <<>> \in T
      OBVIOUS
    <3>. QED
      BY <3>1, Zenon
  <2>3. rank \in [S -> 0..n]
    OBVIOUS
  <2>. HIDE DEF Delta, rank, S, T, n
  <2>. QED
    BY <1>0, <1>4, <2>1, <2>2, <2>3 DEF LooksDown
<1>6. PICK f \in [S -> T] : f = Delta[f]
  <2>. HIDE DEF Delta, rank, S, T, n
  <2>. QED
    BY <1>5, RecursiveFunction
<1>7. Good(f)
  BY <1>6, Zenon
<1>8. HalfFrom(s) = CHOOSE g : Good(g)
  BY Zenon DEF HalfFrom
<1>9. Good(HalfFrom(s))
  <2>. HIDE DEF Good
  <2>. QED
    BY <1>7, <1>8, Zenon
<1>10. \A k \in S : HalfFrom(s)[k] = HalfStep(HalfFrom(s), s, k)
  BY <1>9, Zenon
<1>11. \A k \in S : HalfFrom(s)[k] \in T
  <2>. DEFINE W == HalfFrom(s)
              Fine == {d \in Nat : d <= n => W[n - d] \in T}
  <2>. HIDE DEF W, T
  <2>1. ASSUME NEW d \in Nat, \A e \in Nat : e < d => e \in Fine, d <= n PROVE W[n - d] \in T
    <3>. DEFINE k == n - d
    <3>1. k \in S
      BY <1>0, <2>1
    <3>2. k # n => W[k + 1] \in T
      <4>. HAVE k # n
      <4>1. d - 1 \in Nat /\ d - 1 < d /\ d - 1 <= n /\ n - (d - 1) = k + 1
        BY <1>0, <2>1
      <4>. QED
        BY <2>1, <4>1
    <3>3. k \in Nth(s, Twice) => W[k + 2] \in T
      <4>. HAVE k \in Nth(s, Twice)
      <4>0. k + 2 \in S /\ k \in S
        BY <1>2, <3>1
      <4>1. d - 2 \in Nat /\ d - 2 < d /\ d - 2 <= n /\ n - (d - 2) = k + 2
        BY <1>0, <2>1, <4>0
      <4>. QED
        BY <2>1, <4>1
    <3>4. W[k] = HalfStep(W, s, k)
      BY <1>10, <3>1 DEF W
    <3>. HIDE DEF k
    <3>5. W[k] \in T
      BY <1>3, <3>1, <3>2, <3>3, <3>4
    <3>. QED
      BY <3>5 DEF k
  <2>2. Nat \subseteq Fine
    <3>1. \A d \in Nat : (\A e \in Nat : e < d => e \in Fine) => d \in Fine
      BY <2>1
    <3>. HIDE DEF Fine
    <3>. QED
      BY <3>1, AllNumbers
  <2>3. \A k \in S : W[k] \in T
    <3>. TAKE k \in S
    <3>1. n - k \in Nat /\ n - k <= n /\ n - (n - k) = k
      BY <1>0
    <3>2. n - k \in Fine
      BY <2>2, <3>1
    <3>. QED
      BY <3>1, <3>2
  <2>. QED
    BY <2>3 DEF W, T
<1>12. HalfSpaces(s) = HalfFrom(s)[0]
  BY Zenon DEF HalfSpaces, HalfFrom, HalfStep, Then, Twice
<1>. QED
  BY <1>10, <1>11, <1>12

\* A character in front of a string.
IsHead(y, c, x) ==
  /\ Len(y) = Len(x) + 1 /\ y[1] = c
  /\ \A k \in 1..Len(x) : y[k + 1] = x[k]

LEMMA HeadIs ==
  ASSUME NEW C, NEW c \in C, NEW x \in Seq(C)
  PROVE  Then(<<c>>, x) \in Seq(C) /\ IsHead(Then(<<c>>, x), c, x)
<1>. DEFINE y == Then(<<c>>, x)
            h == <<c>>
<1>1. h \in Seq(C) /\ Len(h) = 1 /\ h[1] = c
  OBVIOUS
<1>2. y \in Seq(C) /\ Len(y) = Len(h) + Len(x) /\ Len(x) \in Nat
      /\ (\A k \in 1..Len(h) : y[k] = h[k]) /\ \A k \in 1..Len(x) : y[Len(h) + k] = x[k]
  <2>1. IsJoint(Then(h, x), h, x, C)
    <3>. HIDE DEF h
    <3>. QED
      BY <1>1, Joint
  <2>. QED
    BY <2>1, Zenon DEF IsJoint
<1>. HIDE DEF y, h
<1>3. 1 \in 1..Len(h) /\ \A k \in 1..Len(x) : Len(h) + k = k + 1
  BY <1>1, <1>2
<1>4. IsHead(y, c, x)
  <2>1. Len(y) = Len(x) + 1
    BY <1>1, <1>2
  <2>2. y[1] = c
    BY <1>1, <1>2, <1>3
  <2>3. \A k \in 1..Len(x) : y[k + 1] = x[k]
    BY <1>2, <1>3
  <2>. QED
    BY <2>1, <2>2, <2>3 DEF IsHead
<1>. QED
  BY <1>2, <1>4 DEF y, h

\* A string without two spaces side by side stays what it is.
LEMMA HalfSame ==
  ASSUME NEW C, Space \in C, NEW s \in Seq(C), Nth(s, Twice) = {}
  PROVE  HalfSpaces(s) = s
<1>. DEFINE n == Len(s)
            W == HalfFrom(s)
            Fine == {d \in Nat : d <= n => W[n - d] = Slice(s, n - d, n)}
<1>0. n \in Nat
  OBVIOUS
<1>1. /\ HalfSpaces(s) = W[0]
      /\ \A i \in 0..n : W[i] \in Seq(C) /\ W[i] = HalfStep(W, s, i)
  BY HalfUnfolds, Zenon
<1>2. ASSUME NEW i \in 0..n, i # n => W[i + 1] = Slice(s, i + 1, n)
      PROVE  W[i] = Slice(s, i, n)
  <2>. DEFINE x == Slice(s, i, n)
              z == Slice(s, i + 1, n)
              y == Then(<<Char(s, i)>>, z)
  <2>0. i \in 0..Len(s) /\ n \in i..Len(s) /\ i \in Nat
    OBVIOUS
  <2>1. x \in Seq(C) /\ Len(x) = n - i /\ \A d \in 1..n - i : x[d] = s[i + d]
    BY <2>0, SliceBetween
  <2>2. CASE i = n
    <3>1. W[i] = <<>>
      BY <1>1, <2>2, Zenon DEF HalfStep
    <3>2. Len(x) = 0
      BY <2>1, <2>2, <1>0
    <3>. HIDE DEF x
    <3>3. x = <<>>
      BY <2>1, <3>2
    <3>. QED
      BY <3>1, <3>3 DEF x
  <2>3. CASE i # n
    <3>1. W[i] = Then(<<Char(s, i)>>, W[i + 1])
      <4>1. i \notin Nth(s, Twice)
        OBVIOUS
      <4>. QED
        BY <1>1, <2>3, <4>1, Zenon DEF HalfStep
    <3>2. W[i] = y
      BY <1>2, <2>3, <3>1, Zenon
    <3>3. i + 1 \in 0..n /\ n \in i + 1..n /\ i + 1 \in 1..n
      BY <1>0, <2>0, <2>3
    <3>4. z \in Seq(C) /\ Len(z) = n - (i + 1) /\ \A d \in 1..n - (i + 1) : z[d] = s[(i + 1) + d]
      BY <3>3, SliceBetween
    <3>5. Char(s, i) \in C
      BY <3>3 DEF Char
    <3>. DEFINE h == Char(s, i)
    <3>. HIDE DEF z, h
    <3>6. Then(<<h>>, z) \in Seq(C) /\ IsHead(Then(<<h>>, z), h, z)
      BY <3>4, <3>5, HeadIs DEF h
    <3>. DEFINE u == Then(<<h>>, z)
    <3>7. u \in Seq(C) /\ Len(u) = Len(z) + 1 /\ u[1] = h /\ \A k \in 1..Len(z) : u[k + 1] = z[k]
      BY <3>6 DEF IsHead
    <3>8. h = s[i + 1]
      BY DEF h, Char
    <3>. HIDE DEF u, x, n
    <3>9. Len(u) = n - i /\ Len(x) = n - i /\ n - i >= 1
      BY <1>0, <2>0, <2>1, <3>3, <3>4, <3>7
    <3>10. ASSUME NEW k \in 1..n - i PROVE u[k] = s[i + k]
      <4>1. CASE k = 1
        BY <3>7, <3>8, <4>1
      <4>2. CASE k # 1
        <5>1. k - 1 \in 1..n - (i + 1) /\ (k - 1) + 1 = k /\ (i + 1) + (k - 1) = i + k
          BY <1>0, <2>0, <3>3, <4>2
        <5>. QED
          BY <3>4, <3>7, <5>1
      <4>. QED
        BY <4>1, <4>2
    <3>11. u = x
      BY <2>1, <3>7, <3>9, <3>10, SameString
    <3>. QED
      BY <3>2, <3>11 DEF u, x, h
  <2>. QED
    BY <2>2, <2>3
<1>. HIDE DEF W
<1>3. ASSUME NEW d \in Nat, \A e \in Nat : e < d => e \in Fine, d <= n
      PROVE  W[n - d] = Slice(s, n - d, n)
  <2>1. n - d \in 0..n
    BY <1>0, <1>3
  <2>2. (n - d) # n => W[(n - d) + 1] = Slice(s, (n - d) + 1, n)
    <3>. HAVE n - d # n
    <3>1. d - 1 \in Nat /\ d - 1 < d /\ d - 1 <= n /\ n - (d - 1) = (n - d) + 1
      BY <1>0, <1>3
    <3>. QED
      BY <1>3, <3>1
  <2>. QED
    BY <1>2, <2>1, <2>2
<1>4. Nat \subseteq Fine
  <2>1. \A d \in Nat : (\A e \in Nat : e < d => e \in Fine) => d \in Fine
    BY <1>3
  <2>. HIDE DEF Fine
  <2>. QED
    BY <2>1, AllNumbers
<1>5. W[0] = Slice(s, 0, n)
  <2>1. n \in Fine /\ n <= n /\ n - n = 0
    BY <1>0, <1>4
  <2>. QED
    BY <2>1
<1>. QED
  BY <1>1, <1>5, SliceAll

\* The characters at the beginning of such a line are different ones.
LEMMA DifferentSigns ==
  /\ "f" # Space /\ "=" # Space /\ "f" # "=" /\ "f" # Backslash /\ "=" # Backslash
  /\ Space # Backslash /\ Double # Single
  /\ "f" \notin Quotes /\ "=" \notin Quotes /\ Space \notin Quotes /\ Backslash \notin Quotes
<1>1. "f" # Space /\ "=" # Space
  BY Zenon DEF Space
<1>2. "f" # Backslash /\ "=" # Backslash
  BY Zenon DEF Backslash
<1>3. "f" # "=" /\ Double # Single
  BY Zenon DEF Double, Single
<1>4. Space # Backslash
  BY Zenon DEF Space, Backslash
<1>5. "f" \notin Quotes
  BY Zenon DEF Quotes, Double, Single
<1>6. "=" \notin Quotes
  BY Zenon DEF Quotes, Double, Single
<1>7. Space \notin Quotes
  <2>1. Space # Double /\ Space # Single
    BY Zenon DEF Space, Double, Single
  <2>. QED
    BY <2>1, Zenon DEF Quotes
<1>8. Backslash \notin Quotes
  <2>1. Backslash # Double /\ Backslash # Single
    BY Zenon DEF Backslash, Double, Single
  <2>. QED
    BY <2>1, Zenon DEF Quotes
<1>. QED
  BY <1>1, <1>2, <1>3, <1>4, <1>5, <1>6, <1>7, <1>8, Zenon

\* What is stripped is none of what such a line needs, but for the space.
LEMMA WhatIsStripped ==
  /\ "f" \notin White /\ "=" \notin White /\ "f" \notin White \cup {Backslash}
  /\ "=" \notin White \cup {Backslash} /\ "f" \notin Blanks /\ "=" \notin Blanks
  /\ Space \in White /\ Space \in Blanks
  /\ \A c \in Quotes : c \notin White /\ c \notin Blanks
<1>1. "f" \notin White /\ "f" # Backslash
  BY Zenon DEF White, Space, Tab, Return, Newline, Backslash
<1>2. "=" \notin White /\ "=" # Backslash
  BY Zenon DEF White, Space, Tab, Return, Newline, Backslash
<1>3. Space \in White /\ Space \in Blanks /\ Blanks \subseteq White
  BY Zenon DEF White, Blanks
<1>4. Double \notin White
  BY Zenon DEF White, Space, Tab, Return, Newline, Double
<1>5. Single \notin White
  BY Zenon DEF White, Space, Tab, Return, Newline, Single
<1>6. \A c \in Quotes : c \notin White
  BY <1>4, <1>5, Zenon DEF Quotes
<1>. QED
  BY <1>1, <1>2, <1>3, <1>6, Zenon

LEMMA HalfStarts ==
  ASSUME NEW C, Space \in C, NEW s \in Seq(C), Starts(s)
  PROVE  HalfSpaces(s) \in Seq(C) /\ Starts(HalfSpaces(s))
<1>. DEFINE n == Len(s)
            W == HalfFrom(s)
<1>0. n \in Nat /\ n >= 3 /\ s[1] = "f" /\ s[2] = Space /\ s[3] = "="
  BY DEF Starts
<1>1. /\ HalfSpaces(s) = W[0]
      /\ \A i \in 0..n : W[i] \in Seq(C) /\ W[i] = HalfStep(W, s, i)
  BY HalfUnfolds, Zenon
<1>2. 0 \notin Nth(s, Twice) /\ 1 \notin Nth(s, Twice) /\ 2 \notin Nth(s, Twice)
  <2>1. Len(Twice) = 2 /\ Twice[1] = Space /\ Twice[2] = Space /\ Twice \in Seq(C)
    BY DEF Twice
  <2>2. ASSUME NEW j \in Nth(s, Twice) PROVE s[j + 1] = Space /\ s[j + 2] = Space
    <3>1. \A d \in 1..2 : s[j + d] = Space
      <4>1. \A d \in 1..Len(Twice) : s[j + d] = Twice[d]
        <5>1. Twice \in Seq(C)
          BY <2>1
        <5>2. j \in Nth(s, Twice) <=>
                j \in 0..Len(s) - Len(Twice) /\ \A d \in 1..Len(Twice) : s[j + d] = Twice[d]
          BY <5>1, NthIs
        <5>. QED
          BY <5>2
      <4>2. \A d \in 1..2 : d = 1 \/ d = 2
        OBVIOUS
      <4>. QED
        BY <2>1, <4>1, <4>2
    <3>. QED
      BY <3>1
  <2>3. 0 + 1 = 1 /\ 1 + 2 = 3 /\ 2 + 1 = 3
    OBVIOUS
  <2>. QED
    BY <1>0, <2>2, <2>3, DifferentSigns
<1>. HIDE DEF n, W
<1>3. 0 \in 0..n /\ 1 \in 0..n /\ 2 \in 0..n /\ 3 \in 0..n /\ 0 # n /\ 1 # n /\ 2 # n
  BY <1>0
<1>4. W[0] = Then(<<"f">>, W[1]) /\ W[1] = Then(<<Space>>, W[2]) /\ W[2] = Then(<<"=">>, W[3])
  <2>0. 0 + 1 = 1 /\ 1 + 1 = 2 /\ 2 + 1 = 3
    OBVIOUS
  <2>1. Char(s, 0) = "f" /\ Char(s, 1) = Space /\ Char(s, 2) = "="
    BY <1>0, <2>0 DEF Char
  <2>2. W[0] = Then(<<Char(s, 0)>>, W[0 + 1])
    BY <1>1, <1>2, <1>3, Zenon DEF HalfStep, n
  <2>3. W[1] = Then(<<Char(s, 1)>>, W[1 + 1])
    BY <1>1, <1>2, <1>3, Zenon DEF HalfStep, n
  <2>4. W[2] = Then(<<Char(s, 2)>>, W[2 + 1])
    BY <1>1, <1>2, <1>3, Zenon DEF HalfStep, n
  <2>. QED
    BY <2>0, <2>1, <2>2, <2>3, <2>4
<1>5. "f" \in C /\ "=" \in C
  <2>1. 1 \in DOMAIN s /\ 3 \in DOMAIN s
    BY <1>0 DEF n
  <2>. QED
    BY <1>0, <2>1
<1>6. IsHead(W[0], "f", W[1]) /\ IsHead(W[1], Space, W[2]) /\ IsHead(W[2], "=", W[3])
  BY <1>1, <1>3, <1>4, <1>5, HeadIs
<1>. DEFINE a == W[0]
            b == W[1]
            c == W[2]
            e == W[3]
<1>7. a \in Seq(C) /\ Len(b) \in Nat /\ Len(c) \in Nat /\ Len(e) \in Nat
  BY <1>1, <1>3
<1>8. IsHead(a, "f", b) /\ IsHead(b, Space, c) /\ IsHead(c, "=", e)
  BY <1>6
<1>. HIDE DEF a, b, c, e
<1>9. Len(c) = Len(e) + 1 /\ Len(b) = Len(c) + 1 /\ Len(a) = Len(b) + 1
  BY <1>8, Zenon DEF IsHead
<1>10. a[1] = "f" /\ a[1 + 1] = Space /\ a[2 + 1] = "="
  <2>1. 1 \in 1..Len(b) /\ 1 \in 1..Len(c) /\ 2 \in 1..Len(b) /\ 1 + 1 = 2
    BY <1>7, <1>9
  <2>2. a[1] = "f" /\ b[1] = Space /\ c[1] = "="
    BY <1>8, Zenon DEF IsHead
  <2>3. a[1 + 1] = b[1] /\ a[2 + 1] = b[2] /\ b[1 + 1] = c[1]
    BY <1>8, <2>1, Zenon DEF IsHead
  <2>. QED
    BY <2>1, <2>2, <2>3
<1>11. Starts(a)
  <2>1. Len(a) >= 3
    BY <1>7, <1>9
  <2>2. 1 + 1 = 2 /\ 2 + 1 = 3
    OBVIOUS
  <2>. QED
    BY <1>10, <2>1, <2>2 DEF Starts
<1>. QED
  BY <1>1, <1>7, <1>11 DEF a

-----------------------------------------------------------------------------
\* getline.
Trimmed(l) == StripRight(StripLeft(HalfSpaces(l), White), White)
GoesOn(s, rest) ==
  IF s = <<>> \/ Last(s) # Backslash THEN s ELSE Then(StripRight(s, White \cup {Backslash}), rest)
JoinLine(g, lines, n) == IF n = Len(lines) THEN <<>> ELSE GoesOn(Trimmed(lines[n + 1]), g[n + 1])

\* An empty line behind a line: what a line is joined with that goes on.
LEMMA GetlineTwo ==
  ASSUME NEW C, Space \in C, NEW l \in Seq(C)
  PROVE  Getline(<<l, <<>>>>) = GoesOn(Trimmed(l), <<>>)
<1>. DEFINE lines == <<l, <<>>>>
            Good(f) == f = [n \in 0..Len(lines) |-> JoinLine(f, lines, n)]
            f1 == GoesOn(Trimmed(<<>>), <<>>)
            f0 == GoesOn(Trimmed(l), f1)
            w == [n \in 0..2 |-> IF n = 0 THEN f0 ELSE IF n = 1 THEN f1 ELSE <<>>]
<1>1. Len(lines) = 2 /\ lines[0 + 1] = l /\ lines[1 + 1] = <<>>
  OBVIOUS
<1>2. f1 = <<>>
  <2>1. <<>> \in Seq(C) /\ Len(<<>>) = 0
    OBVIOUS
  <2>2. Nth(<<>>, Twice) = {}
    BY DEF Nth, Twice
  <2>3. HalfSpaces(<<>>) = <<>>
    BY <2>1, <2>2, HalfSame
  <2>4. StripLeft(<<>>, White) = <<>>
    BY <2>1, StripLeftSame
  <2>5. StripRight(<<>>, White) = <<>>
    BY <2>1, StripRightSame
  <2>. QED
    BY <2>3, <2>4, <2>5, Zenon DEF GoesOn, Trimmed
<1>. HIDE DEF lines, f1, f0
<1>3. Good(w)
  <2>1. \A n \in 0..2 : w[n] = JoinLine(w, lines, n)
    <3>0. 0 \in 0..2 /\ 1 \in 0..2 /\ 2 \in 0..2 /\ 0 # 2 /\ 1 # 2 /\ 0 + 1 = 1 /\ 1 + 1 = 2
          /\ \A n \in 0..2 : n = 0 \/ n = 1 \/ n = 2
      OBVIOUS
    <3>1. w[0] = f0 /\ w[1] = f1 /\ w[2] = <<>>
      BY <3>0
    <3>. HIDE DEF w
    <3>2. w[2] = JoinLine(w, lines, 2)
      BY <1>1, <3>1, Zenon DEF JoinLine
    <3>3. w[1] = JoinLine(w, lines, 1)
      <4>1. JoinLine(w, lines, 1) = GoesOn(Trimmed(lines[1 + 1]), w[1 + 1])
        BY <1>1, <3>0, Zenon DEF JoinLine
      <4>2. w[1 + 1] = <<>>
        BY <3>0, <3>1
      <4>. QED
        BY <1>1, <3>1, <4>1, <4>2, Zenon DEF f1
    <3>4. w[0] = JoinLine(w, lines, 0)
      <4>1. JoinLine(w, lines, 0) = GoesOn(Trimmed(lines[0 + 1]), w[0 + 1])
        BY <1>1, <3>0, Zenon DEF JoinLine
      <4>2. w[0 + 1] = f1
        BY <3>0, <3>1
      <4>. QED
        BY <1>1, <3>1, <4>1, <4>2, Zenon DEF f0
    <3>. QED
      BY <3>0, <3>2, <3>3, <3>4
  <2>2. w = [n \in 0..2 |-> w[n]]
    OBVIOUS
  <2>. HIDE DEF w
  <2>. QED
    BY <1>1, <2>1, <2>2, Zenon
<1>4. Getline(lines) = (CHOOSE f : Good(f))[0]
  BY Zenon DEF Getline, JoinLine, GoesOn, Trimmed, Then
<1>. DEFINE u == CHOOSE f : Good(f)
<1>5. Good(u)
  <2>. HIDE DEF Good
  <2>. QED
    BY <1>3, Zenon
<1>6. \A n \in 0..2 : u[n] = JoinLine(u, lines, n)
  <2>. HIDE DEF u
  <2>. QED
    BY <1>1, <1>5, Zenon
<1>. HIDE DEF u
<1>7. u[0] = GoesOn(Trimmed(l), u[1]) /\ u[1] = GoesOn(Trimmed(<<>>), u[2]) /\ u[2] = <<>>
  <2>0. 0 \in 0..2 /\ 1 \in 0..2 /\ 2 \in 0..2 /\ 0 # 2 /\ 1 # 2 /\ 0 + 1 = 1 /\ 1 + 1 = 2
    OBVIOUS
  <2>1. u[2] = <<>>
    BY <1>1, <1>6, <2>0, Zenon DEF JoinLine
  <2>2. u[1] = GoesOn(Trimmed(lines[1 + 1]), u[1 + 1])
    BY <1>1, <1>6, <2>0, Zenon DEF JoinLine
  <2>3. u[0] = GoesOn(Trimmed(lines[0 + 1]), u[0 + 1])
    BY <1>1, <1>6, <2>0, Zenon DEF JoinLine
  <2>4. u[1 + 1] = u[2] /\ u[0 + 1] = u[1]
    BY <2>0
  <2>. QED
    BY <1>1, <2>1, <2>2, <2>3, <2>4, Zenon
<1>. QED
  BY <1>2, <1>4, <1>7, Zenon DEF u, lines, f1

LEMMA ThenNothing ==
  ASSUME NEW C, NEW x \in Seq(C)
  PROVE  Then(x, <<>>) = x
  BY DEF Then

\* The first line that mkconf writes is read as such a line again, and as it is if
\* there are no two spaces side by side and nothing at its end that is stripped.
LEMMA GetlineStarts ==
  ASSUME NEW C, Space \in C, NEW l \in Seq(C), Starts(l)
  PROVE  /\ Getline(<<l, <<>>>>) \in Seq(C)
         /\ Starts(Getline(<<l, <<>>>>))
         /\ Nth(l, Twice) = {} /\ l[Len(l)] \notin White /\ l[Len(l)] # Backslash
              => Getline(<<l, <<>>>>) = l
<1>. DEFINE h == HalfSpaces(l)
            t == Trimmed(l)
            u == StripRight(t, White \cup {Backslash})
            g == GoesOn(t, <<>>)
<1>1. Getline(<<l, <<>>>>) = g
  BY GetlineTwo
<1>2. h \in Seq(C) /\ Starts(h)
  BY HalfStarts
<1>3. "f" \notin White /\ "=" \notin White /\ "f" \notin White \cup {Backslash}
      /\ "=" \notin White \cup {Backslash}
  BY WhatIsStripped, Zenon
<1>4. t \in Seq(C) /\ Starts(t) /\ t = StripRight(h, White)
  <2>. HIDE DEF h
  <2>1. StripLeft(h, White) = h /\ StripRight(h, White) \in Seq(C) /\ Starts(StripRight(h, White))
    BY <1>2, <1>3, StartsStripped
  <2>2. t = StripRight(StripLeft(h, White), White)
    BY Zenon DEF h, Trimmed
  <2>. QED
    BY <2>1, <2>2, Zenon
<1>. HIDE DEF t
<1>5. u \in Seq(C) /\ Starts(u)
  BY <1>3, <1>4, StartsStripped
<1>6. g \in Seq(C) /\ Starts(g)
  <2>. HIDE DEF u
  <2>1. Then(u, <<>>) = u
    BY <1>5, ThenNothing
  <2>. QED
    BY <1>4, <1>5, <2>1, Zenon DEF GoesOn, u
<1>7. ASSUME Nth(l, Twice) = {}, l[Len(l)] \notin White, l[Len(l)] # Backslash PROVE g = l
  <2>1. h = l
    BY <1>7, HalfSame
  <2>2. StripRight(l, White) = l
    BY <1>7, StripRightSame
  <2>3. t = l
    BY <1>4, <2>1, <2>2, Zenon
  <2>4. Last(l) = l[Len(l)]
    BY Zenon DEF Last
  <2>. QED
    BY <1>7, <2>3, <2>4, Zenon DEF GoesOn
<1>. QED
  BY <1>1, <1>6, <1>7, Zenon

-----------------------------------------------------------------------------
\* What mkconf writes.
EscapedStep(s, x, k) == Then(x, IF s[k] = Single THEN <<Backslash, Single>> ELSE <<s[k]>>)

LEMMA EscapedType ==
  ASSUME NEW C, Single \in C, Backslash \in C, NEW s \in Seq(C)
  PROVE  Escaped(s) \in Seq(C)
<1>. DEFINE n == Len(s)
            T == Seq(C)
            step == [k \in 0 + 1..n |-> [x \in T |-> EscapedStep(s, x, k)]]
            Good(f) == f = [k \in 0..Len(s) |-> IF k = 0 THEN <<>> ELSE EscapedStep(s, f[k - 1], k)]
            u == CHOOSE f : Good(f)
<1>0. n \in Nat /\ 0 \in Nat /\ <<>> \in T
  OBVIOUS
<1>1. ASSUME NEW x \in T, NEW k \in 0 + 1..n PROVE EscapedStep(s, x, k) \in T
  <2>1. <<Backslash, Single>> \in Seq(C)
    OBVIOUS
  <2>2. <<s[k]>> \in Seq(C)
    <3>1. s[k] \in C
      <4>1. k \in DOMAIN s
        OBVIOUS
      <4>. QED
        BY <4>1
    <3>. QED
      BY <3>1
  <2>3. (IF s[k] = Single THEN <<Backslash, Single>> ELSE <<s[k]>>) \in Seq(C)
    BY <2>1, <2>2, Zenon
  <2>. QED
    BY <2>3, ThenType DEF EscapedStep
<1>2. step \in [0 + 1..n -> [T -> T]]
  <2>. HIDE DEF T, n
  <2>. QED
    BY <1>1, Zenon
<1>3. PICK f \in [0..n -> T] : Steps(f, 0, n, <<>>, step)
  <2>. HIDE DEF T, step, n
  <2>. QED
    BY <1>0, <1>2, StepByStep
<1>4. Good(f)
  <2>1. ASSUME NEW k \in 0..n, k # 0 PROVE step[k][f[k - 1]] = EscapedStep(s, f[k - 1], k)
    <3>1. k \in 0 + 1..n /\ k - 1 \in 0..n
      BY <1>0, <2>1
    <3>2. f[k - 1] \in T
      BY <3>1
    <3>. HIDE DEF T, n
    <3>. QED
      BY <3>1, <3>2, Zenon
  <2>. HIDE DEF T, step
  <2>. QED
    BY <1>3, <2>1, Zenon DEF Steps
<1>5. Escaped(s) = u[n]
  BY Zenon DEF Escaped, EscapedStep, Then
<1>6. Good(u)
  <2>. HIDE DEF Good
  <2>. QED
    BY <1>4, Zenon
<1>. HIDE DEF u
<1>7. \A k \in 0..n : u[k] = IF k = 0 THEN <<>> ELSE EscapedStep(s, u[k - 1], k)
  BY <1>6, Zenon
<1>8. 0..n \subseteq {k \in Nat : u[k] \in T}
  <2>. DEFINE Fine == {k \in Nat : u[k] \in T}
  <2>. HIDE DEF T, step, n
  <2>1. 0 \in Fine
    <3>1. 0 \in 0..n
      BY <1>0
    <3>. QED
      BY <1>0, <1>7, <3>1
  <2>2. ASSUME NEW k \in 0 + 1..n, k - 1 \in Fine PROVE k \in Fine
    <3>1. k \in 0..n /\ k # 0 /\ k \in Nat
      BY <1>0
    <3>2. u[k] = EscapedStep(s, u[k - 1], k)
      BY <1>7, <3>1
    <3>. QED
      BY <1>1, <2>2, <3>1, <3>2
  <2>. HIDE DEF Fine
  <2>3. 0..n \subseteq Fine
    BY <1>0, <2>1, <2>2, Along
  <2>. QED
    BY <2>3 DEF Fine
<1>9. u[n] \in T
  <2>1. n \in 0..n
    BY <1>0
  <2>. QED
    BY <1>8, <2>1
<1>. QED
  BY <1>5, <1>9, Zenon

\* A value between two marks.
Quoted(c, v) == Then(Then(<<c>>, v), <<c>>)

IsQuoted(x, c, v, C) ==
  /\ x \in Seq(C) /\ Len(x) = Len(v) + 2
  /\ x[1] = c /\ x[Len(v) + 2] = c
  /\ \A k \in 1..Len(v) : x[k + 1] = v[k]

LEMMA QuotedIs ==
  ASSUME NEW C, NEW c \in C, NEW v \in Seq(C)
  PROVE  IsQuoted(Quoted(c, v), c, v, C)
<1>. DEFINE h == <<c>>
            x == Then(h, v)
            y == Then(x, h)
<1>1. h \in Seq(C) /\ Len(h) = 1 /\ h[1] = c
  OBVIOUS
<1>2. x \in Seq(C) /\ Len(x) = Len(v) + 1 /\ x[1] = c /\ \A k \in 1..Len(v) : x[k + 1] = v[k]
  <2>1. Then(<<c>>, v) \in Seq(C) /\ IsHead(Then(<<c>>, v), c, v)
    BY HeadIs
  <2>. QED
    BY <2>1, Zenon DEF IsHead
<1>. HIDE DEF x, h
<1>3. IsJoint(y, x, h, C)
  BY <1>1, <1>2, Joint
<1>4. /\ y \in Seq(C) /\ Len(y) = Len(x) + 1 /\ Len(x) \in Nat
      /\ (\A k \in 1..Len(x) : y[k] = x[k]) /\ \A k \in 1..1 : y[Len(x) + k] = h[k]
  BY <1>1, <1>3, Zenon DEF IsJoint
<1>. HIDE DEF y
<1>5. 1 \in 1..Len(x) /\ 1 \in 1..1 /\ Len(v) \in Nat /\ Len(x) + 1 = Len(v) + 2
      /\ \A k \in 1..Len(v) : k + 1 \in 1..Len(x)
  BY <1>2
<1>6. y \in Seq(C) /\ Len(y) = Len(v) + 2
  BY <1>4, <1>5
<1>7. y[1] = c
  BY <1>2, <1>4, <1>5
<1>8. y[Len(v) + 2] = c
  BY <1>1, <1>4, <1>5
<1>9. \A k \in 1..Len(v) : y[k + 1] = v[k]
  BY <1>2, <1>4, <1>5
<1>. QED
  BY <1>6, <1>7, <1>8, <1>9, Zenon DEF y, x, h, Quoted, IsQuoted

LEMMA FormatIs ==
  ASSUME NEW v
  PROVE  FormatStr(v) =
           IF Quotes \cap ToSet(v) = {} THEN v
           ELSE IF Double \notin ToSet(v) THEN Quoted(Double, v)
           ELSE IF Single \notin ToSet(v) THEN Quoted(Single, v)
           ELSE Quoted(Single, Escaped(v))
BY Zenon DEF FormatStr, Quoted, Then

\* Each line that mkconf writes begins with the flag and the sign.
LEMMA LineStarts ==
  ASSUME NEW C, {Space, Single, Double, Backslash, "f", "="} \subseteq C, NEW v \in Seq(C)
  PROVE  /\ FormatStr(v) \in Seq(C) /\ LineOf(v) \in Seq(C) /\ Starts(LineOf(v))
         /\ Len(LineOf(v)) = Len(FormatStr(v)) + 4 /\ LineOf(v)[4] = Space
         /\ \A k \in 1..Len(FormatStr(v)) : LineOf(v)[k + 4] = FormatStr(v)[k]
<1>. DEFINE x == FormatStr(v)
            h == <<"f", Space, "=", Space>>
            l == Then(h, x)
<1>1. x \in Seq(C)
  <2>1. Quoted(Double, v) \in Seq(C) /\ Quoted(Single, v) \in Seq(C)
    BY QuotedIs DEF IsQuoted
  <2>2. Escaped(v) \in Seq(C)
    BY EscapedType
  <2>3. Quoted(Single, Escaped(v)) \in Seq(C)
    BY <2>2, QuotedIs DEF IsQuoted
  <2>. QED
    BY <2>1, <2>3, FormatIs, Zenon
<1>2. h \in Seq(C) /\ Len(h) = 4 /\ h[1] = "f" /\ h[2] = Space /\ h[3] = "=" /\ h[4] = Space
  OBVIOUS
<1>. HIDE DEF x, h
<1>3. IsJoint(l, h, x, C)
  BY <1>1, <1>2, Joint
<1>4. /\ l \in Seq(C) /\ Len(l) = 4 + Len(x) /\ Len(x) \in Nat
      /\ (\A k \in 1..4 : l[k] = h[k]) /\ \A k \in 1..Len(x) : l[4 + k] = x[k]
  BY <1>2, <1>3, Zenon DEF IsJoint
<1>. HIDE DEF l
<1>5. l[1] = "f" /\ l[2] = Space /\ l[3] = "=" /\ l[4] = Space
  <2>1. 1 \in 1..4 /\ 2 \in 1..4 /\ 3 \in 1..4 /\ 4 \in 1..4
    OBVIOUS
  <2>. QED
    BY <1>2, <1>4, <2>1, Zenon
<1>6. Starts(l) /\ Len(l) = Len(x) + 4
  <2>1. Len(l) >= 3 /\ Len(l) = Len(x) + 4
    BY <1>4
  <2>. QED
    BY <1>5, <2>1, Zenon DEF Starts
<1>7. \A k \in 1..Len(x) : l[k + 4] = x[k]
  <2>1. \A k \in 1..Len(x) : k + 4 = 4 + k
    OBVIOUS
  <2>. QED
    BY <1>4, <2>1
<1>8. LineOf(v) = l
  BY Zenon DEF LineOf, Then, l, x, h
<1>. QED
  BY <1>1, <1>4, <1>5, <1>6, <1>7, <1>8, Zenon DEF x

\* A text without line ends, and two of them: the line and an empty one.
LEMMA TwoLines ==
  ASSUME NEW C, Newline \in C, NEW l \in Seq(C), \A k \in 1..Len(l) : l[k] # Newline
  PROVE  Split(Then(l, <<Newline, Newline>>), Newline) = <<l, <<>>>>
<1>. DEFINE h == <<Newline, Newline>>
            s == Then(l, h)
            n == Len(l)
<1>0. n \in Nat
  OBVIOUS
<1>1. h \in Seq(C) /\ Len(h) = 2 /\ h[1] = Newline /\ h[2] = Newline
  OBVIOUS
<1>. HIDE DEF h
<1>2. IsJoint(s, l, h, C)
  BY <1>1, Joint
<1>. HIDE DEF s
<1>3. /\ s \in Seq(C) /\ Len(s) = n + 2
      /\ \A k \in 1..n : s[k] = l[k]
      /\ \A k \in 1..2 : s[n + k] = h[k]
  BY <1>1, <1>2, Zenon DEF IsJoint
<1>. DEFINE W == SplitFrom(s, Newline)
<1>4. s[n + 1] = Newline /\ s[n + 2] = Newline
  <2>1. 1 \in 1..2 /\ 2 \in 1..2
    OBVIOUS
  <2>. QED
    BY <1>1, <1>3, <2>1
<1>5. \A k \in 0..n - 1 : s[k + 1] # Newline
  <2>. TAKE k \in 0..n - 1
  <2>1. k + 1 \in 1..n
    BY <1>0
  <2>. QED
    BY <1>3, <2>1
<1>. HIDE DEF n
<1>6. W[0] = Then(<<Part(s, 0, n)>>, W[n + 1])
  <2>1. 0 \in 0..Len(s) /\ n \in 0..Len(s) - 1
    BY <1>0, <1>3
  <2>. QED
    BY <1>3, <1>4, <1>5, <2>1, SplitAt
<1>7. W[n + 1] = Then(<<Part(s, n + 1, n + 1)>>, W[n + 2])
  <2>1. n + 1 \in 0..Len(s) /\ n + 1 \in n + 1..Len(s) - 1 /\ (n + 1) + 1 = n + 2
        /\ \A k \in n + 1..(n + 1) - 1 : s[k + 1] # Newline
    BY <1>0, <1>3
  <2>2. W[n + 1] = Then(<<Part(s, n + 1, n + 1)>>, W[(n + 1) + 1])
    BY <1>3, <1>4, <2>1, SplitAt
  <2>. QED
    BY <2>1, <2>2
<1>8. W[n + 2] = <<>>
  <2>1. n + 2 \in 0..Len(s) /\ ~(n + 2 < Len(s)) /\ \A k \in n + 2..Len(s) - 1 : s[k + 1] # Newline
    BY <1>0, <1>3
  <2>. DEFINE i == n + 2
  <2>1a. /\ s \in Seq(C) /\ i \in 0..Len(s) /\ ~(i < Len(s))
         /\ \A k \in i..Len(s) - 1 : s[k + 1] # Newline
    BY <1>3, <2>1
  <2>. HIDE DEF W, i
  <2>2. SplitFrom(s, Newline)[i] = IF i < Len(s) THEN <<Part(s, i, Len(s))>> ELSE <<>>
    BY <2>1a, SplitEnd
  <2>. QED
    BY <2>1a, <2>2, Zenon DEF W, i
<1>9. Part(s, 0, n) = l
  <2>. DEFINE x == Part(s, 0, n)
  <2>1. x \in Seq(C) /\ Len(x) = n - 0 /\ \A d \in 1..n - 0 : x[d] = s[0 + d]
    <3>1. 0 \in 0..Len(s) /\ n \in 0..Len(s)
      BY <1>0, <1>3
    <3>. QED
      BY <1>3, <3>1, PieceBetween
  <2>. HIDE DEF x
  <2>2. x \in Seq(C) /\ Len(x) = Len(l) /\ \A d \in 1..Len(x) : x[d] = l[d]
    BY <1>0, <1>3, <2>1 DEF n
  <2>3. x = l
    BY <2>2, SameString
  <2>. QED
    BY <2>3 DEF x
<1>10. Part(s, n + 1, n + 1) = <<>>
  <2>. DEFINE x == Part(s, n + 1, n + 1)
  <2>1. x \in Seq(C) /\ Len(x) = (n + 1) - (n + 1)
    <3>1. n + 1 \in 0..Len(s) /\ n + 1 \in n + 1..Len(s)
      BY <1>0, <1>3
    <3>. QED
      BY <1>3, <3>1, PieceBetween
  <2>. HIDE DEF x
  <2>2. x = <<>>
    BY <1>0, <2>1
  <2>. QED
    BY <2>2 DEF x
<1>11. W[0] = Then(<<l>>, Then(<<<<>>>>, <<>>))
  BY <1>6, <1>7, <1>8, <1>9, <1>10, Zenon
<1>12. Then(<<l>>, Then(<<<<>>>>, <<>>)) = <<l, <<>>>>
  <2>. DEFINE S == Seq(C)
              e == <<>>
              a == <<l>>
              b == <<e>>
              y == Then(a, b)
  <2>1. a \in Seq(S) /\ b \in Seq(S) /\ Len(a) = 1 /\ Len(b) = 1 /\ a[1] = l /\ b[1] = e
    OBVIOUS
  <2>2. Then(b, <<>>) = b
    BY <2>1, ThenNothing, Zenon
  <2>. HIDE DEF S, a, b, e
  <2>3. IsJoint(y, a, b, S)
    BY <2>1, Joint
  <2>. HIDE DEF y
  <2>4. y \in Seq(S) /\ Len(y) = 1 + 1 /\ (\A k \in 1..1 : y[k] = a[k]) /\ \A k \in 1..1 : y[1 + k] = b[k]
    BY <2>1, <2>3, Zenon DEF IsJoint
  <2>5. y \in Seq(S) /\ Len(y) = 2 /\ y[1] = l /\ y[2] = e
    BY <2>1, <2>4
  <2>6. y = <<l, e>>
    BY <2>5
  <2>. QED
    BY <2>2, <2>6, Zenon DEF y, a, b, e
<1>. QED
  BY <1>11, <1>12, Zenon DEF Split, s, h

\* A value without line ends is one line, and an empty one is behind it.
LEMMA WrittenLines ==
  ASSUME NEW C, {Space, Single, Double, Backslash, "f", "="} \subseteq C, Newline \notin C,
         NEW v \in Seq(C)
  PROVE  Written(v) = <<LineOf(v), <<>>>>
<1>. DEFINE l == LineOf(v)
            D == C \cup {Newline}
<1>1. l \in Seq(C)
  BY LineStarts
<1>. HIDE DEF l
<1>2. l \in Seq(D) /\ \A k \in 1..Len(l) : l[k] # Newline
  BY <1>1
<1>3. Newline \in D
  OBVIOUS
<1>. HIDE DEF D
<1>4. Split(Then(l, <<Newline, Newline>>), Newline) = <<l, <<>>>>
  BY <1>2, <1>3, TwoLines
<1>. QED
  BY <1>4, Zenon DEF Written, Then, l

-----------------------------------------------------------------------------
\* parse_config.

\* What find_not_in_qm returns is a place of the sign, if it is one.
LEMMA FindPlace ==
  ASSUME NEW s, Len(s) \in Nat, NEW sub, Len(sub) \in Nat
  PROVE  FindNotInQm(s, sub) \in Nth(s, sub) \cup {Absence}
<1>. DEFINE n == Len(s)
            F == FindFrom(s, sub)
            T == Nth(s, sub) \cup {Absence}
            Fine == {d \in Nat : d <= n => F[n - d] \in T}
<1>1. ASSUME NEW i \in 0..n, \A e \in i + 1..n : F[e] \in T PROVE F[i] \in T
  <2>1. F[i] = FindStep(F, s, sub, i)
    BY FindUnfold
  <2>2. NextPlace(s, sub, i) \in T
    <3>1. NextPlace(s, sub, i) = Absence \/ NextPlace(s, sub, i) \in Nth(s, sub)
      BY NextPlaceIs
    <3>. QED
      BY <3>1, Zenon
  <2>3. ASSUME NextPlace(s, sub, i) # Absence, Closing(s, sub, i) # {}
        PROVE  F[Min(Closing(s, sub, i)) + 1] \in T
    <3>1. Min(Closing(s, sub, i)) + 1 \in i + 1..n
      BY <2>3, ClosingIs
    <3>. QED
      BY <1>1, <3>1
  <2>. HIDE DEF F, T
  <2>. QED
    BY <2>1, <2>2, <2>3, Zenon DEF FindStep
<1>2. ASSUME NEW d \in Nat, \A e \in Nat : e < d => e \in Fine, d <= n PROVE F[n - d] \in T
  <2>. HIDE DEF F, T
  <2>1. n - d \in 0..n
    BY <1>2
  <2>2. ASSUME NEW e \in (n - d) + 1..n PROVE F[e] \in T
    <3>1. n - e \in Nat /\ n - e < d /\ n - e <= n /\ n - (n - e) = e
      BY <1>2
    <3>. QED
      BY <1>2, <3>1
  <2>. QED
    BY <1>1, <2>1, <2>2
<1>3. Nat \subseteq Fine
  <2>1. \A d \in Nat : (\A e \in Nat : e < d => e \in Fine) => d \in Fine
    BY <1>2
  <2>. HIDE DEF Fine
  <2>. QED
    BY <2>1, AllNumbers
<1>4. F[0] \in T
  <2>1. n \in Fine /\ n <= n /\ n - n = 0
    BY <1>3
  <2>. HIDE DEF F, T
  <2>. QED
    BY <2>1
<1>. QED
  BY <1>4, Zenon DEF FindNotInQm

\* The signs that begin a comment.
SignChars == {"#", "/"}

LEMMA SignIs ==
  ASSUME NEW sign \in CommentMarks
  PROVE  /\ sign \in Seq(SignChars) /\ Len(sign) \in {1, 2}
         /\ \A d \in 1..Len(sign) : sign[d] \in SignChars
<1>1. CASE sign = <<"#">>
  <2>1. Len(sign) = 1 /\ sign \in Seq(SignChars) /\ \A d \in 1..1 : sign[d] = "#"
    BY <1>1 DEF SignChars
  <2>. QED
    BY <2>1 DEF SignChars
<1>2. CASE sign = <<"/", "/">>
  <2>1. Len(sign) = 2 /\ sign \in Seq(SignChars) /\ \A d \in 1..2 : sign[d] = "/"
    BY <1>2 DEF SignChars
  <2>. QED
    BY <2>1 DEF SignChars
<1>. QED
  BY <1>1, <1>2, Zenon DEF CommentMarks, Hash, Slashes

LEMMA SignFacts ==
  ASSUME NEW C, SignChars \subseteq C, NEW sign \in CommentMarks
  PROVE  Len(sign) \in Nat /\ Len(sign) >= 1 /\ sign \in Seq(C) /\ sign[1] \in SignChars
<1>1. sign \in Seq(SignChars) /\ Len(sign) \in {1, 2} /\ \A d \in 1..Len(sign) : sign[d] \in SignChars
  BY SignIs
<1>2. sign \in Seq(C)
  <2>1. Len(sign) \in Nat /\ sign = [d \in 1..Len(sign) |-> sign[d]]
    BY <1>1
  <2>2. \A d \in 1..Len(sign) : sign[d] \in C
    BY <1>1
  <2>3. sign \in [1..Len(sign) -> C]
    BY <2>1, <2>2, Zenon
  <2>. QED
    BY <2>1, <2>3
<1>3. Len(sign) \in Nat /\ Len(sign) >= 1
  <2>1. \A k \in {1, 2} : k \in Nat /\ k >= 1
    OBVIOUS
  <2>. QED
    BY <1>1, <2>1, Zenon
<1>4. 1 \in 1..Len(sign)
  BY <1>3
<1>. QED
  BY <1>1, <1>2, <1>3, <1>4, Zenon

LEMMA SignChar ==
  "f" \notin SignChars /\ "=" \notin SignChars /\ Space \notin SignChars
  /\ Double \notin SignChars /\ Single \notin SignChars
<1>1. Space # "#" /\ Space # "/"
  BY Zenon DEF Space
<1>2. Double # "#" /\ Double # "/" /\ Single # "#" /\ Single # "/"
  BY Zenon DEF Double, Single
<1>3. "f" # "#" /\ "f" # "/" /\ "=" # "#" /\ "=" # "/"
  OBVIOUS
<1>. QED
  BY <1>1, <1>2, <1>3, Zenon DEF SignChars

\* None of the characters a line needs is a line end.
LEMMA NoNewline ==
  Newline \notin SignChars \cup {Space, Backslash, Double, Single, "f", "="}
<1>1. Newline # Space /\ Newline # Backslash
  BY Zenon DEF Newline, Space, Backslash
<1>2. Newline # Double /\ Newline # Single
  BY Zenon DEF Newline, Double, Single
<1>3. Newline # "f" /\ Newline # "=" /\ Newline # "#" /\ Newline # "/"
  BY Zenon DEF Newline
<1>. QED
  BY <1>1, <1>2, <1>3, Zenon DEF SignChars

\* A sign of a comment is behind what such a line begins with.
LEMMA SignBehind ==
  ASSUME NEW C, SignChars \subseteq C, NEW s \in Seq(C), Starts(s), NEW sign \in CommentMarks
  PROVE  /\ ~IsPrefix(sign, s)
         /\ \A j \in Nth(s, sign) : j \in 3..Len(s)
<1>1. Len(sign) \in Nat /\ Len(sign) >= 1 /\ sign \in Seq(C) /\ sign[1] \in SignChars
  BY SignFacts
<1>2. Len(s) \in Nat /\ Len(s) >= 3 /\ s[1] = "f" /\ s[2] = Space /\ s[3] = "="
  BY DEF Starts
<1>3. s[1] \notin SignChars /\ s[2] \notin SignChars /\ s[3] \notin SignChars
  BY <1>2, SignChar
<1>4. ~IsPrefix(sign, s)
  <2>1. ASSUME IsPrefix(sign, s) PROVE FALSE
    <3>. DEFINE a == SubSeq(sign, 1, Len(sign))
                b == SubSeq(s, 1, Len(sign))
    <3>1. a = b /\ Len(sign) <= Len(s)
      BY <2>1, Zenon DEF IsPrefix
    <3>2. a[1] = sign[1]
      BY <1>1
    <3>3. b[1] = s[1]
      BY <1>1, <1>2, <3>1
    <3>. HIDE DEF a, b
    <3>. QED
      BY <1>1, <1>3, <3>1, <3>2, <3>3
  <2>. QED
    BY <2>1
<1>5. ASSUME NEW j \in Nth(s, sign) PROVE j \in 3..Len(s)
  <2>1. j \in 0..Len(s) - Len(sign) /\ \A d \in 1..Len(sign) : s[j + d] = sign[d]
    BY <1>1, NthIs
  <2>2. s[j + 1] \in SignChars
    <3>1. 1 \in 1..Len(sign)
      BY <1>1
    <3>. QED
      BY <1>1, <2>1, <3>1
  <2>3. j \notin {0, 1, 2}
    BY <1>3, <2>2
  <2>. QED
    BY <1>1, <1>2, <2>1, <2>3
<1>. QED
  BY <1>4, <1>5

\* The sign of such a line is behind its flag, wherever else there is one.
LEMMA FindSign ==
  ASSUME NEW C, "=" \in C, NEW s \in Seq(C), Starts(s)
  PROVE  FindNotInQm(s, <<"=">>) = 2
<1>. DEFINE sub == <<"=">>
            F == FindFrom(s, sub)
<1>0. Len(s) \in Nat /\ Len(s) >= 3 /\ s[1] = "f" /\ s[2] = Space /\ s[3] = "="
  BY DEF Starts
<1>1. Len(sub) = 1
  OBVIOUS
<1>2. NextPlace(s, sub, 0) = 2
  <2>. DEFINE T == {i \in 0..Len(s) - 1 : s[i + 1] = "="}
  <2>1. T \subseteq Nat /\ 2 \in T
    BY <1>0
  <2>2. 0 \notin T /\ 1 \notin T
    <3>1. 0 + 1 = 1 /\ 1 + 1 = 2
      OBVIOUS
    <3>. QED
      BY <1>0, <3>1, DifferentSigns
  <2>3. \A y \in T : 2 <= y
    <3>. HIDE DEF T
    <3>. QED
      BY <2>1, <2>2
  <2>4. Nth(s, sub) = T
    BY NthOne
  <2>. HIDE DEF sub
  <2>5. {j \in Nth(s, sub) : j >= 0} = T
    BY <2>4
  <2>. HIDE DEF T
  <2>6. Least(T) = 2
    BY <2>1, <2>3, LeastIs
  <2>. QED
    BY <2>5, <2>6, Zenon DEF NextPlace
<1>3. MarksFrom(s, 0)[3] = NoMarks
  <2>. DEFINE M == MarksFrom(s, 0)
  <2>0. 0 \in 0..Len(s) /\ 1 \in 0..Len(s) /\ 2 \in 0..Len(s) /\ 3 \in 0..Len(s)
    BY <1>0
  <2>1. \A k \in 0..Len(s) : M[k] = IF k = 0 THEN NoMarks ELSE MarksOpen(M[k - 1], Char(s, k - 1))
    BY <1>0, <2>0, MarksUnfold
  <2>. HIDE DEF M
  <2>2. Char(s, 0) = "f" /\ Char(s, 1) = Space /\ Char(s, 2) = "="
    <3>1. 0 + 1 = 1 /\ 1 + 1 = 2 /\ 2 + 1 = 3
      OBVIOUS
    <3>. QED
      BY <1>0, <3>1, Zenon DEF Char
  <2>3. \A c : c \notin Quotes => MarksOpen(NoMarks, c) = NoMarks
    BY Zenon DEF MarksOpen
  <2>4. M[0] = NoMarks /\ M[1] = MarksOpen(M[0], Char(s, 0)) /\ M[2] = MarksOpen(M[1], Char(s, 1))
        /\ M[3] = MarksOpen(M[2], Char(s, 2))
    <3>1. 1 # 0 /\ 2 # 0 /\ 3 # 0 /\ 1 - 1 = 0 /\ 2 - 1 = 1 /\ 3 - 1 = 2
      OBVIOUS
    <3>2. M[1] = MarksOpen(M[1 - 1], Char(s, 1 - 1)) /\ M[2] = MarksOpen(M[2 - 1], Char(s, 2 - 1))
          /\ M[3] = MarksOpen(M[3 - 1], Char(s, 3 - 1)) /\ M[0] = NoMarks
      BY <2>0, <2>1, <3>1, Zenon
    <3>. QED
      BY <3>1, <3>2
  <2>5. M[3] = NoMarks
    BY <2>2, <2>3, <2>4, DifferentSigns, Zenon
  <2>. QED
    BY <2>5 DEF M
<1>4. F[0] = FindStep(F, s, sub, 0)
  <2>1. 0 \in 0..Len(s) /\ Len(sub) \in Nat
    BY <1>0, <1>1
  <2>. HIDE DEF sub
  <2>. QED
    BY <1>0, <2>1, FindUnfold
<1>5. MarksFrom(s, 0)[2 + 1].x = ""
  <2>1. NoMarks.x = "" /\ 2 + 1 = 3
    BY DEF NoMarks
  <2>. QED
    BY <1>3, <2>1
<1>6. F[0] = 2
  <2>. HIDE DEF F, sub
  <2>. QED
    BY <1>2, <1>4, <1>5, Zenon DEF FindStep
<1>. QED
  BY <1>6, Zenon DEF FindNotInQm

Comments(line) == {FindNotInQm(line, sign) : sign \in CommentMarks} \ {Absence}
CutLine(line) ==
  IF Comments(line) = {} THEN line ELSE StripRight(Slice(line, 0, Min(Comments(line))), Blanks)
ValueOf(s) == StripLeft(Slice(s, 2 + 1, Len(s)), Blanks)
Bare(val) ==
  IF Len(val) > 1 /\ val[1] \in Quotes /\ val[1] = Last(val)
  THEN StripRight(StripLeft(val, {val[1]}), {val[1]}) ELSE val

LEMMA CutStarts ==
  ASSUME NEW C, SignChars \subseteq C, NEW s \in Seq(C), Starts(s)
  PROVE  CutLine(s) \in Seq(C) /\ Starts(CutLine(s))
<1>1. CASE Comments(s) = {}
  BY <1>1, Zenon DEF CutLine
<1>2. CASE Comments(s) # {}
  <2>. DEFINE m == Min(Comments(s))
              x == Slice(s, 0, m)
  <2>0. Len(s) \in Nat /\ s[1] = "f" /\ s[2] = Space /\ s[3] = "="
    BY DEF Starts
  <2>1. ASSUME NEW p \in Comments(s) PROVE p \in 3..Len(s)
    <3>1. PICK sign \in CommentMarks : p = FindNotInQm(s, sign)
      BY Zenon DEF Comments
    <3>2. p # Absence
      BY Zenon DEF Comments
    <3>3. Len(sign) \in Nat
      BY SignIs
    <3>4. p \in Nth(s, sign)
      <4>1. FindNotInQm(s, sign) \in Nth(s, sign) \cup {Absence}
        BY <2>0, <3>3, FindPlace
      <4>. QED
        BY <3>1, <3>2, <4>1, Zenon
    <3>. QED
      BY <3>4, SignBehind
  <2>2. m \in 3..Len(s)
    <3>1. Comments(s) \subseteq Nat
      BY <2>1
    <3>2. m \in Comments(s)
      BY <1>2, <3>1, LeastOf
    <3>. QED
      BY <2>1, <3>2
  <2>. HIDE DEF m
  <2>3. x \in Seq(C) /\ Len(x) = m - 0 /\ \A d \in 1..m - 0 : x[d] = s[0 + d]
    <3>1. 0 \in 0..Len(s) /\ m \in 0..Len(s)
      BY <2>0, <2>2
    <3>. QED
      BY <3>1, SliceBetween
  <2>. HIDE DEF x
  <2>4. Starts(x)
    <3>1. 1 \in 1..m - 0 /\ 2 \in 1..m - 0 /\ 3 \in 1..m - 0 /\ 0 + 1 = 1 /\ 0 + 2 = 2 /\ 0 + 3 = 3
          /\ m - 0 >= 3
      BY <2>2
    <3>2. x[1] = s[1] /\ x[2] = s[2] /\ x[3] = s[3] /\ Len(x) >= 3
      BY <2>3, <3>1
    <3>. QED
      BY <2>0, <3>2, Zenon DEF Starts
  <2>5. "f" \notin Blanks /\ "=" \notin Blanks
    BY WhatIsStripped, Zenon
  <2>6. StripRight(x, Blanks) \in Seq(C) /\ Starts(StripRight(x, Blanks))
    BY <2>3, <2>4, <2>5, StartsStripped
  <2>. QED
    BY <1>2, <2>6, Zenon DEF CutLine, x, m
<1>. QED
  BY <1>1, <1>2

\* A line that begins so sets the flag, to what is behind the sign and in front of
\* a comment, without its marks.
LEMMA ParseIs ==
  ASSUME NEW C, SignChars \cup {"="} \subseteq C, NEW s \in Seq(C), Starts(s)
  PROVE  ParseLine(s) = <<"set", <<"f">>, Bare(ValueOf(CutLine(s)))>>
<1>. DEFINE x == CutLine(s)
<1>1. x \in Seq(C) /\ Starts(x)
  BY CutStarts
<1>. HIDE DEF x
<1>2. FindNotInQm(x, <<"=">>) = 2
  BY <1>1, FindSign
<1>3. StripRight(Slice(x, 0, 2), Blanks) = <<"f">>
  <2>. DEFINE u == Slice(x, 0, 2)
              z == StripRight(u, Blanks)
  <2>0. Len(x) \in Nat /\ Len(x) >= 3 /\ x[1] = "f" /\ x[2] = Space
    BY <1>1 DEF Starts
  <2>1. u \in Seq(C) /\ Len(u) = 2 - 0 /\ \A d \in 1..2 - 0 : u[d] = x[0 + d]
    <3>1. 0 \in 0..Len(x) /\ 2 \in 0..Len(x)
      BY <2>0
    <3>. QED
      BY <1>1, <3>1, SliceBetween
  <2>. HIDE DEF u
  <2>2. Len(u) = 2 /\ u[1] = "f" /\ u[2] = Space
    <3>1. 1 \in 1..2 - 0 /\ 2 \in 1..2 - 0 /\ 0 + 1 = 1 /\ 0 + 2 = 2 /\ 2 - 0 = 2
      OBVIOUS
    <3>. QED
      BY <2>0, <2>1, <3>1
  <2>3. PICK m \in 0..Len(u) : /\ z = Slice(u, 0, m)
                               /\ m > 0 => u[m] \notin Blanks
                               /\ \A i \in m + 1..Len(u) : u[i] \in Blanks
    BY <2>1, StripRightIs
  <2>4. m = 1
    <3>1. m # 2
      <4>1. 2 > 0
        OBVIOUS
      <4>. QED
        BY <2>2, <2>3, <4>1, WhatIsStripped, Zenon
    <3>2. m # 0
      <4>1. 1 \in 0 + 1..Len(u)
        BY <2>2
      <4>. QED
        BY <2>2, <2>3, <4>1, WhatIsStripped
    <3>. QED
      BY <2>2, <3>1, <3>2
  <2>5. z \in Seq(C) /\ Len(z) = 1 - 0 /\ \A d \in 1..1 - 0 : z[d] = u[0 + d]
    <3>1. 0 \in 0..Len(u) /\ 1 \in 0..Len(u)
      BY <2>2
    <3>. QED
      <4>1. z = Slice(u, 0, 1)
        BY <2>3, <2>4, Zenon
      <4>2. 1 \in 0..Len(u)
        BY <2>2
      <4>. HIDE DEF z
      <4>. QED
        BY <2>1, <3>1, <4>1, <4>2, SliceBetween
  <2>. HIDE DEF z
  <2>6. Len(z) = 1 /\ z[1] = "f"
    <3>1. 1 \in 1..1 - 0 /\ 0 + 1 = 1 /\ 1 - 0 = 1
      OBVIOUS
    <3>. QED
      BY <2>2, <2>5, <3>1
  <2>7. z = <<"f">>
    BY <2>5, <2>6
  <2>. QED
    BY <2>7 DEF z, u
<1>4. s # <<>> /\ ~\E sign \in CommentMarks : IsPrefix(sign, s)
  <2>1. s # <<>>
    BY DEF Starts
  <2>2. \A sign \in CommentMarks : ~IsPrefix(sign, s)
    BY SignBehind
  <2>. QED
    BY <2>1, <2>2
<1>5. 2 \notin {0, Absence}
  BY DEF Absence
<1>6. ParseLine(s) =
        IF s = <<>> \/ \E sign \in CommentMarks : IsPrefix(sign, s) THEN <<>>
        ELSE IF FindNotInQm(x, <<"=">>) \in {0, Absence} THEN <<"invalid">>
        ELSE <<"set", StripRight(Slice(x, 0, FindNotInQm(x, <<"=">>)), Blanks),
               Bare(StripLeft(Slice(x, FindNotInQm(x, <<"=">>) + 1, Len(x)), Blanks))>>
  BY Zenon DEF ParseLine, Comments, CutLine, Bare, x
<1>. QED
  BY <1>2, <1>3, <1>4, <1>5, <1>6, Zenon DEF ValueOf, x

-----------------------------------------------------------------------------
\* What comes back.
LEMMA AtMostOne ==
  ASSUME NEW S, IsFiniteSet(S), Cardinality(S) <= 1, NEW a \in S, NEW b \in S
  PROVE  a = b
<1>. SUFFICES ASSUME a # b PROVE FALSE
  OBVIOUS
<1>1. IsFiniteSet({a}) /\ Cardinality({a}) = 1
  BY FS_Singleton
<1>2. Cardinality({a} \cup {b}) = 2
  <2>1. b \notin {a}
    OBVIOUS
  <2>2. Cardinality({a} \cup {b}) = Cardinality({a}) + 1
    BY <1>1, <2>1, FS_AddElement
  <2>. QED
    BY <1>1, <2>2
<1>3. {a} \cup {b} \subseteq S
  OBVIOUS
<1>4. Cardinality({a} \cup {b}) <= Cardinality(S) /\ Cardinality(S) \in Nat
  BY <1>3, FS_Subset, FS_CardinalityType
<1>. QED
  BY <1>2, <1>4

\* A string without its first character, and the front of one.
LEMMA SliceRest ==
  ASSUME NEW C, NEW s \in Seq(C), Len(s) >= 1
  PROVE  /\ Slice(s, 1, Len(s)) \in Seq(C) /\ Len(Slice(s, 1, Len(s))) = Len(s) - 1
         /\ \A k \in 1..Len(s) - 1 : Slice(s, 1, Len(s))[k] = s[1 + k]
<1>1. 1 \in 0..Len(s) /\ Len(s) \in 1..Len(s)
  OBVIOUS
<1>. QED
  BY <1>1, SliceBetween

LEMMA SliceFront ==
  ASSUME NEW C, NEW s \in Seq(C), NEW n \in 0..Len(s)
  PROVE  /\ Slice(s, 0, n) \in Seq(C) /\ Len(Slice(s, 0, n)) = n - 0
         /\ \A k \in 1..n - 0 : Slice(s, 0, n)[k] = s[0 + k]
<1>1. 0 \in 0..Len(s) /\ n \in 0..Len(s)
  OBVIOUS
<1>. QED
  BY <1>1, SliceBetween

LEMMA StripLeftOne ==
  ASSUME NEW C, NEW s \in Seq(C), NEW v \in Seq(C), v # <<>>, NEW cs,
         Len(s) = Len(v) + 1, s[1] \in cs, \A k \in 1..Len(v) : s[k + 1] = v[k], v[1] \notin cs
  PROVE  StripLeft(s, cs) = v
<1>0. Len(v) \in Nat /\ Len(v) >= 1 /\ Len(s) \in Nat /\ Len(s) >= 2
  OBVIOUS
<1>1. PICK b \in 0..Len(s) :
        /\ StripLeft(s, cs) = Slice(s, b, Len(s))
        /\ b < Len(s) => s[b + 1] \notin cs
        /\ \A i \in 0..b - 1 : s[i + 1] \in cs
  BY StripLeftIs
<1>2. b = 1
  <2>1. b # 0
    <3>1. 0 < Len(s) /\ 0 + 1 = 1
      BY <1>0
    <3>. QED
      BY <1>1, <3>1
  <2>2. ~(b >= 2)
    <3>1. b >= 2 => 1 \in 0..b - 1
      OBVIOUS
    <3>2. s[1 + 1] = v[1]
      <4>1. 1 \in 1..Len(v)
        BY <1>0
      <4>. QED
        BY <4>1
    <3>3. s[1 + 1] \notin cs
      BY <3>2
    <3>. QED
      BY <1>1, <3>1, <3>3
  <2>. QED
    BY <1>0, <2>1, <2>2
<1>. DEFINE x == Slice(s, 1, Len(s))
<1>3. StripLeft(s, cs) = x
  BY <1>1, <1>2, Zenon
<1>4. x \in Seq(C) /\ Len(x) = Len(s) - 1 /\ \A k \in 1..Len(s) - 1 : x[k] = s[1 + k]
  <2>1. Len(s) >= 1
    BY <1>0
  <2>. QED
    BY <2>1, SliceRest
<1>. HIDE DEF x
<1>5. Len(x) = Len(v) /\ \A k \in 1..Len(v) : k \in 1..Len(s) - 1 /\ 1 + k = k + 1
  BY <1>0, <1>4
<1>6. \A k \in 1..Len(x) : x[k] = v[k]
  BY <1>4, <1>5
<1>7. x = v
  BY <1>4, <1>5, <1>6, SameString
<1>. QED
  BY <1>3, <1>7

LEMMA StripRightOne ==
  ASSUME NEW C, NEW s \in Seq(C), NEW v \in Seq(C), v # <<>>, NEW c,
         Len(s) = Len(v) + 1, s[Len(v) + 1] = c, \A k \in 1..Len(v) : s[k] = v[k],
         v[Len(v)] # c
  PROVE  StripRight(s, {c}) = v
<1>. DEFINE n == Len(v)
<1>0. n \in Nat /\ n >= 1
  OBVIOUS
<1>1. PICK m \in 0..Len(s) :
        /\ StripRight(s, {c}) = Slice(s, 0, m)
        /\ m > 0 => s[m] \notin {c}
        /\ \A i \in m + 1..Len(s) : s[i] \in {c}
  BY StripRightIs
<1>1a. Len(s) = n + 1 /\ s[n + 1] = c /\ v[n] # c /\ \A k \in 1..n : s[k] = v[k]
  OBVIOUS
<1>. HIDE DEF n
<1>2. m = n
  <2>1. m # n + 1
    <3>1. n + 1 > 0
      BY <1>0
    <3>. QED
      BY <1>1, <1>1a, <3>1
  <2>2. ~(m < n)
    <3>1. m < n => n \in m + 1..Len(s)
      BY <1>0, <1>1a
    <3>2. s[n] = v[n]
      <4>1. n \in 1..n
        BY <1>0
      <4>. QED
        BY <1>1a, <4>1
    <3>. QED
      BY <1>1, <1>1a, <3>1, <3>2
  <2>. QED
    BY <1>0, <1>1a, <2>1, <2>2
<1>. DEFINE x == Slice(s, 0, n)
<1>3. StripRight(s, {c}) = x
  BY <1>1, <1>2, Zenon
<1>4. x \in Seq(C) /\ Len(x) = n - 0 /\ \A k \in 1..n - 0 : x[k] = s[0 + k]
  <2>1. n \in 0..Len(s)
    BY <1>0, <1>1a
  <2>. QED
    BY <2>1, SliceFront
<1>. HIDE DEF x
<1>5. Len(x) = n /\ \A k \in 1..n : k \in 1..n - 0 /\ 0 + k = k
  BY <1>0, <1>4
<1>6. \A k \in 1..Len(x) : x[k] = v[k]
  BY <1>1a, <1>4, <1>5
<1>7. x = v
  BY <1>4, <1>5, <1>6, SameString DEF n
<1>. QED
  BY <1>3, <1>7

\* The line of a value, or of a value between marks.
IsLine(l, x, C) ==
  /\ l \in Seq(C) /\ Starts(l) /\ Len(l) = Len(x) + 4 /\ l[4] = Space
  /\ \A k \in 1..Len(x) : l[k + 4] = x[k]

LEMMA LineTwice ==
  ASSUME NEW C, Space \in C, NEW l, NEW x \in Seq(C), IsLine(l, x, C), x # <<>>, x[1] # Space,
         Nth(x, Twice) = {}
  PROVE  Nth(l, Twice) = {}
<1>0. /\ l \in Seq(C) /\ Starts(l) /\ Len(l) = Len(x) + 4 /\ l[4] = Space
      /\ \A k \in 1..Len(x) : l[k + 4] = x[k]
  BY DEF IsLine
<1>1. Len(Twice) = 2 /\ Twice[1] = Space /\ Twice[2] = Space /\ Twice \in Seq(C)
  BY DEF Twice
<1>2. Len(x) \in Nat /\ Len(x) >= 1
  OBVIOUS
<1>3. ASSUME NEW j \in Nth(l, Twice) PROVE FALSE
  <2>1. j \in 0..Len(l) - 2 /\ \A d \in 1..2 : l[j + d] = Twice[d]
    <3>1. j \in Nth(l, Twice) <=>
            j \in 0..Len(l) - Len(Twice) /\ \A d \in 1..Len(Twice) : l[j + d] = Twice[d]
      <4>1. l \in Seq(C) /\ Twice \in Seq(C)
        BY <1>0, <1>1, Zenon
      <4>. QED
        BY <4>1, NthIs
    <3>. QED
      BY <1>1, <3>1
  <2>2. l[j + 1] = Space /\ l[j + 2] = Space
    <3>1. 1 \in 1..2 /\ 2 \in 1..2
      OBVIOUS
    <3>. QED
      BY <1>1, <2>1, <3>1
  <2>3. l[1] = "f" /\ l[3] = "="
    BY <1>0, Zenon DEF Starts
  <2>4. j # 0 /\ j # 1 /\ j # 2
    <3>1. 0 + 1 = 1 /\ 1 + 2 = 3 /\ 2 + 1 = 3
      OBVIOUS
    <3>. QED
      BY <2>2, <2>3, <3>1, DifferentSigns
  <2>5. j # 3
    <3>1. 1 \in 1..Len(x) /\ 3 + 2 = 1 + 4
      BY <1>2
    <3>2. l[3 + 2] = x[1]
      BY <1>0, <3>1
    <3>. QED
      BY <2>2, <3>2
  <2>6. j - 4 \in 0..Len(x) - 2 /\ (j - 4) + 1 \in 1..Len(x) /\ (j - 4) + 2 \in 1..Len(x)
        /\ ((j - 4) + 1) + 4 = j + 1 /\ ((j - 4) + 2) + 4 = j + 2
    BY <1>0, <1>2, <2>1, <2>4, <2>5
  <2>7. x[(j - 4) + 1] = Space /\ x[(j - 4) + 2] = Space
    BY <1>0, <2>2, <2>6
  <2>8. \A d \in 1..Len(Twice) : x[(j - 4) + d] = Twice[d]
    <3>1. \A d \in 1..2 : d = 1 \/ d = 2
      OBVIOUS
    <3>. QED
      BY <1>1, <2>7, <3>1
  <2>9. j - 4 \in Nth(x, Twice) <=>
          j - 4 \in 0..Len(x) - Len(Twice) /\ \A d \in 1..Len(Twice) : x[(j - 4) + d] = Twice[d]
    BY <1>1, NthIs
  <2>. QED
    BY <1>1, <2>6, <2>8, <2>9
<1>. QED
  BY <1>3

\* A sign of a comment in the line is one in the value.
LEMMA LineSigns ==
  ASSUME NEW C, SignChars \subseteq C, NEW l, NEW x \in Seq(C), IsLine(l, x, C),
         NEW sign \in CommentMarks, NEW j \in Nth(l, sign)
  PROVE  j - 4 \in Nth(x, sign) /\ j \in Nat
<1>0. /\ l \in Seq(C) /\ Starts(l) /\ Len(l) = Len(x) + 4 /\ l[4] = Space
      /\ \A k \in 1..Len(x) : l[k + 4] = x[k]
  BY DEF IsLine
<1>1. Len(sign) \in Nat /\ Len(sign) >= 1 /\ sign \in Seq(C) /\ sign[1] \in SignChars
  BY SignFacts
<1>2. j \in 3..Len(l)
  BY <1>0, SignBehind
<1>3. j \in 0..Len(l) - Len(sign) /\ \A d \in 1..Len(sign) : l[j + d] = sign[d]
  <2>1. j \in Nth(l, sign) <=>
          j \in 0..Len(l) - Len(sign) /\ \A d \in 1..Len(sign) : l[j + d] = sign[d]
    BY <1>0, <1>1, NthIs
  <2>. QED
    BY <2>1
<1>4. j # 3
  <2>1. 1 \in 1..Len(sign) /\ 3 + 1 = 4
    BY <1>1
  <2>2. j = 3 => l[4] = sign[1]
    BY <1>3, <2>1
  <2>. QED
    BY <1>0, <1>1, <2>2, SignChar
<1>5. j - 4 \in 0..Len(x) - Len(sign) /\ j \in Nat
  BY <1>0, <1>1, <1>2, <1>3, <1>4
<1>6. ASSUME NEW d \in 1..Len(sign) PROVE x[(j - 4) + d] = sign[d]
  <2>1. (j - 4) + d \in 1..Len(x) /\ ((j - 4) + d) + 4 = j + d
    BY <1>0, <1>1, <1>5
  <2>. QED
    BY <1>0, <1>3, <2>1
<1>7. j - 4 \in Nth(x, sign) <=>
        j - 4 \in 0..Len(x) - Len(sign) /\ \A d \in 1..Len(sign) : x[(j - 4) + d] = sign[d]
  BY <1>1, NthIs
<1>. QED
  BY <1>5, <1>6, <1>7

\* What is behind the sign of a line.
LEMMA LineRead ==
  ASSUME NEW C, Space \in C, NEW l, NEW x \in Seq(C), IsLine(l, x, C), x # <<>>, x[1] \notin Blanks,
         x[Len(x)] \notin White, x[Len(x)] # Backslash, Nth(x, Twice) = {}, Comments(l) = {}
  PROVE  ValueOf(CutLine(Getline(<<l, <<>>>>))) = x
<1>0. /\ l \in Seq(C) /\ Starts(l) /\ Len(l) = Len(x) + 4 /\ l[4] = Space
      /\ \A k \in 1..Len(x) : l[k + 4] = x[k]
  BY DEF IsLine
<1>1. Len(x) \in Nat /\ Len(x) >= 1
  OBVIOUS
<1>2. l[Len(l)] = x[Len(x)]
  <2>1. Len(x) \in 1..Len(x)
    BY <1>1
  <2>. QED
    BY <1>0, <2>1
<1>3. Nth(l, Twice) = {}
  <2>1. x[1] # Space
    BY WhatIsStripped, Zenon
  <2>. QED
    BY <2>1, LineTwice
<1>4. Getline(<<l, <<>>>>) = l
  <2>1. Nth(l, Twice) = {} /\ l[Len(l)] \notin White /\ l[Len(l)] # Backslash
    BY <1>2, <1>3, Zenon
  <2>2. Nth(l, Twice) = {} /\ l[Len(l)] \notin White /\ l[Len(l)] # Backslash
          => Getline(<<l, <<>>>>) = l
    BY <1>0, GetlineStarts
  <2>. QED
    BY <2>1, <2>2, Zenon
<1>5. CutLine(l) = l
  BY Zenon DEF CutLine
<1>. DEFINE z == Slice(l, 2 + 1, Len(l))
<1>6. z \in Seq(C) /\ Len(z) = Len(l) - (2 + 1) /\ \A d \in 1..Len(l) - (2 + 1) : z[d] = l[(2 + 1) + d]
  <2>1. l \in Seq(C) /\ 2 + 1 \in 0..Len(l) /\ Len(l) \in 2 + 1..Len(l)
    BY <1>0, <1>1
  <2>. QED
    BY <2>1, SliceBetween
<1>. HIDE DEF z
<1>7. Len(z) = Len(x) + 1 /\ z[1] = Space
  <2>1. 1 \in 1..Len(l) - (2 + 1) /\ (2 + 1) + 1 = 4 /\ Len(l) - (2 + 1) = Len(x) + 1
    BY <1>0, <1>1
  <2>. QED
    BY <1>0, <1>6, <2>1
<1>8. ASSUME NEW k \in 1..Len(x) PROVE z[k + 1] = x[k]
  <2>1. k + 1 \in 1..Len(l) - (2 + 1) /\ (2 + 1) + (k + 1) = k + 4
    BY <1>0, <1>1
  <2>. QED
    BY <1>0, <1>6, <2>1
<1>9. StripLeft(z, Blanks) = x
  <2>1. z[1] \in Blanks
    BY <1>7, WhatIsStripped
  <2>. QED
    BY <1>6, <1>7, <1>8, <2>1, StripLeftOne
<1>. QED
  BY <1>4, <1>5, <1>9, Zenon DEF ValueOf, z

\* An empty value: the space behind the sign is stripped.
LEMMA EmptyRead ==
  ASSUME NEW C, Space \in C, SignChars \subseteq C, NEW l, IsLine(l, <<>>, C)
  PROVE  ValueOf(CutLine(Getline(<<l, <<>>>>))) = <<>>
<1>0. l \in Seq(C) /\ Starts(l) /\ Len(l) = 4 /\ l[4] = Space
  BY DEF IsLine
<1>1. l[1] = "f" /\ l[2] = Space /\ l[3] = "="
  BY <1>0, Zenon DEF Starts
<1>2. Nth(l, Twice) = {}
  <2>1. Len(Twice) = 2 /\ Twice[1] = Space /\ Twice[2] = Space /\ Twice \in Seq(C)
    BY DEF Twice
  <2>2. ASSUME NEW j \in Nth(l, Twice) PROVE FALSE
    <3>1. l \in Seq(C) /\ Twice \in Seq(C)
      BY <1>0, <2>1, Zenon
    <3>2. j \in Nth(l, Twice) <=>
            j \in 0..Len(l) - Len(Twice) /\ \A d \in 1..Len(Twice) : l[j + d] = Twice[d]
      BY <3>1, NthIs
    <3>3. l[j + 1] = Space /\ l[j + 2] = Space /\ j \in 0..2
      <4>1. 1 \in 1..2 /\ 2 \in 1..2 /\ 4 - 2 = 2
        OBVIOUS
      <4>. QED
        BY <1>0, <2>1, <3>2, <4>1
    <3>4. (j = 0 \/ j = 1 \/ j = 2) /\ 0 + 1 = 1 /\ 1 + 2 = 3 /\ 2 + 1 = 3
      BY <3>3
    <3>. QED
      BY <1>1, <3>3, <3>4, DifferentSigns
  <2>. QED
    BY <2>2
<1>. DEFINE t == Trimmed(l)
<1>3. t \in Seq(C) /\ Starts(t) /\ t = StripRight(l, White)
  <2>1. HalfSpaces(l) = l
    BY <1>0, <1>2, HalfSame
  <2>2. "f" \notin White /\ "=" \notin White
    BY WhatIsStripped, Zenon
  <2>3. StripLeft(l, White) = l /\ StripRight(l, White) \in Seq(C) /\ Starts(StripRight(l, White))
    BY <1>0, <2>2, StartsStripped
  <2>. QED
    BY <2>1, <2>3, Zenon DEF Trimmed
<1>. HIDE DEF t
<1>4. Len(t) = 3
  <2>1. PICK m \in 0..Len(l) : /\ StripRight(l, White) = Slice(l, 0, m)
                               /\ m > 0 => l[m] \notin White
    BY <1>0, StripRightIs
  <2>2. m # 4
    <3>1. 4 > 0
      OBVIOUS
    <3>. QED
      BY <1>0, <2>1, <3>1, WhatIsStripped, Zenon
  <2>3. Len(Slice(l, 0, m)) = m
    <3>1. 0 \in 0..Len(l) /\ m \in 0..Len(l) /\ m - 0 = m
      BY <1>0
    <3>2. l \in Seq(C)
      BY <1>0
    <3>3. Len(Slice(l, 0, m)) = m - 0
      BY <3>1, <3>2, SliceBetween
    <3>. QED
      BY <3>1, <3>3
  <2>4. Len(t) = m
    BY <1>3, <2>1, <2>3, Zenon
  <2>5. Len(t) >= 3
    BY <1>3, Zenon DEF Starts
  <2>. QED
    BY <1>0, <2>2, <2>4, <2>5
<1>5. Getline(<<l, <<>>>>) = t
  <2>1. Getline(<<l, <<>>>>) = GoesOn(t, <<>>)
    BY <1>0, GetlineTwo DEF t
  <2>2. Last(t) = "="
    <3>1. Last(t) = t[Len(t)]
      BY Zenon DEF Last
    <3>. QED
      BY <1>3, <1>4, <3>1, Zenon DEF Starts
  <2>3. Last(t) # Backslash
    BY <2>2, DifferentSigns, Zenon
  <2>. QED
    BY <2>1, <2>3, Zenon DEF GoesOn
<1>6. Comments(t) = {}
  <2>1. ASSUME NEW sign \in CommentMarks PROVE FindNotInQm(t, sign) = Absence
    <3>1. Len(sign) \in Nat /\ Len(sign) >= 1
      BY SignFacts
    <3>2. ASSUME NEW j \in Nth(t, sign) PROVE FALSE
      <4>1. j \in 0..Len(t) - Len(sign)
        BY Zenon DEF Nth
      <4>2. j \in 3..Len(t)
        BY <1>3, SignBehind
      <4>. QED
        BY <1>4, <3>1, <4>1, <4>2
    <3>3. Len(t) \in Nat
      BY <1>4
    <3>4. FindNotInQm(t, sign) \in Nth(t, sign) \cup {Absence}
      BY <3>1, <3>3, FindPlace
    <3>. QED
      BY <3>2, <3>4, Zenon
  <2>. QED
    BY <2>1, Zenon DEF Comments
<1>7. CutLine(t) = t
  BY <1>6, Zenon DEF CutLine
<1>8. ValueOf(t) = <<>>
  <2>. DEFINE z == Slice(t, 2 + 1, Len(t))
  <2>1. z \in Seq(C) /\ Len(z) = Len(t) - (2 + 1)
    <3>1. t \in Seq(C) /\ 2 + 1 \in 0..Len(t) /\ Len(t) \in 2 + 1..Len(t)
      BY <1>3, <1>4
    <3>. QED
      BY <3>1, SliceBetween
  <2>. HIDE DEF z
  <2>2. z = <<>>
    BY <1>4, <2>1
  <2>3. StripLeft(z, Blanks) = z
    BY <2>1, <2>2, StripLeftSame
  <2>. QED
    BY <2>2, <2>3, Zenon DEF ValueOf, z
<1>. QED
  BY <1>5, <1>7, <1>8, Zenon

\* A value without signs of comments: there is none in its line.
LEMMA PlainComments ==
  ASSUME NEW C, SignChars \subseteq C, NEW l, NEW v \in Seq(C), IsLine(l, v, C),
         CommentSigns(v) = {}
  PROVE  Comments(l) = {}
<1>0. l \in Seq(C)
  BY DEF IsLine
<1>1. ASSUME NEW sign \in CommentMarks PROVE FindNotInQm(l, sign) = Absence
  <2>1. Len(sign) \in Nat /\ Len(l) \in Nat
    BY <1>0, SignFacts
  <2>2. ASSUME NEW j \in Nth(l, sign) PROVE FALSE
    <3>1. j - 4 \in Nth(v, sign)
      BY LineSigns
    <3>. QED
      BY <3>1, Zenon DEF CommentSigns
  <2>3. FindNotInQm(l, sign) \in Nth(l, sign) \cup {Absence}
    BY <2>1, FindPlace
  <2>. QED
    BY <2>2, <2>3, Zenon
<1>. QED
  BY <1>1, Zenon DEF Comments

\* Between the marks of the line the outer one is open.
LEMMA QuotedMarks ==
  ASSUME NEW C, NEW c \in Quotes, c \in C, NEW v \in Seq(C), NEW l, IsLine(l, Quoted(c, v), C),
         \A k \in 1..Len(v) : v[k] # c
  PROVE  \A k \in 5..Len(l) - 1 : MarksFrom(l, 0)[k].x = c
<1>. DEFINE M == MarksFrom(l, 0)
            x == Quoted(c, v)
            Fine == {k \in Nat : M[k].x = c}
            n == Len(v)
<1>1. /\ Len(x) = n + 2 /\ x[1] = c
      /\ \A k \in 1..n : x[k + 1] = v[k]
  <2>1. IsQuoted(Quoted(c, v), c, v, C)
    BY QuotedIs
  <2>. QED
    BY <2>1, Zenon DEF IsQuoted
<1>2. n \in Nat
  OBVIOUS
<1>3. /\ l \in Seq(C) /\ Starts(l) /\ Len(l) = Len(x) + 4 /\ l[4] = Space
      /\ \A k \in 1..Len(x) : l[k + 4] = x[k]
  BY Zenon DEF IsLine
<1>. HIDE DEF x, n
<1>4. l[1] = "f" /\ l[2] = Space /\ l[3] = "=" /\ l[4] = Space /\ l[5] = c /\ Len(l) = n + 6
  <2>1. l[1] = "f" /\ l[2] = Space /\ l[3] = "="
    BY <1>3, Zenon DEF Starts
  <2>2. Len(l) = n + 6 /\ 1 \in 1..Len(x) /\ 1 + 4 = 5
    BY <1>1, <1>2, <1>3
  <2>3. l[5] = c
    BY <1>1, <1>3, <2>2
  <2>. QED
    BY <1>3, <2>1, <2>2, <2>3, Zenon
<1>5. \A k \in 0..Len(l) : M[k] = IF k = 0 THEN NoMarks ELSE MarksOpen(M[k - 1], Char(l, k - 1))
  <2>1. 0 \in 0..Len(l) /\ Len(l) \in Nat
    BY <1>2, <1>4
  <2>. QED
    BY <2>1, MarksUnfold
<1>. HIDE DEF M
<1>6. M[5].x = c
  <2>1. \A e : e \notin Quotes => MarksOpen(NoMarks, e) = NoMarks
    BY Zenon DEF MarksOpen
  <2>2. /\ M[0] = NoMarks /\ M[1] = MarksOpen(M[0], l[1]) /\ M[2] = MarksOpen(M[1], l[2])
        /\ M[3] = MarksOpen(M[2], l[3]) /\ M[4] = MarksOpen(M[3], l[4])
        /\ M[5] = MarksOpen(M[4], l[5])
    <3>1. 0 \in 0..Len(l) /\ \A k \in 1..5 : k \in 0..Len(l) /\ k # 0
      BY <1>2, <1>4
    <3>2. M[0] = NoMarks /\ \A k \in 1..5 : M[k] = MarksOpen(M[k - 1], l[(k - 1) + 1])
      BY <1>5, <3>1, Zenon DEF Char
    <3>3. 1 \in 1..5 /\ 2 \in 1..5 /\ 3 \in 1..5 /\ 4 \in 1..5 /\ 5 \in 1..5
          /\ \A k \in 1..5 : (k - 1) + 1 = k
      OBVIOUS
    <3>4. 1 - 1 = 0 /\ 2 - 1 = 1 /\ 3 - 1 = 2 /\ 4 - 1 = 3 /\ 5 - 1 = 4
      OBVIOUS
    <3>5. \A k \in 1..5 : M[k] = MarksOpen(M[k - 1], l[k])
      BY <3>2, <3>3
    <3>. QED
      BY <3>2, <3>3, <3>4, <3>5
  <2>3. M[4] = NoMarks
    BY <1>4, <2>1, <2>2, DifferentSigns, Zenon
  <2>4. c # "" /\ NoMarks.x = "" /\ NoMarks.y = ""
    BY DEF NoMarks, Quotes, Single, Double
  <2>5. MarksOpen(NoMarks, c) = [x |-> c, y |-> NoMarks.y]
    BY <2>4 DEF MarksOpen
  <2>6. MarksOpen(NoMarks, c).x = c
    BY <2>5, FieldsOf
  <2>. QED
    BY <1>4, <2>2, <2>3, <2>6, Zenon
<1>7. ASSUME NEW k \in 5 + 1..n + 5, k - 1 \in Fine PROVE k \in Fine
  <2>1. M[k - 1].x = c
    BY <1>7
  <2>2. M[k] = MarksOpen(M[k - 1], l[k])
    <3>1. k \in 0..Len(l) /\ k # 0 /\ (k - 1) + 1 = k
      BY <1>2, <1>4
    <3>. QED
      BY <1>5, <3>1 DEF Char
  <2>3. l[k] # c
    <3>1. k - 4 \in 1..Len(x) /\ (k - 4) + 4 = k /\ k - 5 \in 1..n /\ (k - 5) + 1 = k - 4
      BY <1>1, <1>2
    <3>2. l[k] = v[k - 5]
      BY <1>1, <1>3, <3>1
    <3>. QED
      BY <3>1, <3>2 DEF n
  <2>4. c # ""
    BY DEF Quotes, Single, Double
  <2>. DEFINE q == M[k - 1]
              e == l[k]
  <2>5. MarksOpen(q, e).x = c
    <3>1. q.x = c /\ e # c
      BY <2>1, <2>3
    <3>. HIDE DEF q, e
    <3>2. \/ MarksOpen(q, e) = q
          \/ MarksOpen(q, e) = [x |-> q.x, y |-> ""]
          \/ MarksOpen(q, e) = [x |-> q.x, y |-> e]
      BY <2>4, <3>1 DEF MarksOpen
    <3>. QED
      BY <3>1, <3>2, FieldsOf
  <2>6. M[k].x = c
    BY <2>2, <2>5, Zenon
  <2>7. k \in Nat
    BY <1>2
  <2>. QED
    BY <2>6, <2>7
<1>8. 5..n + 5 \subseteq Fine
  <2>1. 5 \in Nat /\ n + 5 \in Nat /\ 5 \in Fine
    BY <1>2, <1>6
  <2>2. \A k \in 5 + 1..n + 5 : k - 1 \in Fine => k \in Fine
    BY <1>7
  <2>. DEFINE z == n + 5
  <2>. HIDE DEF Fine, z
  <2>3. z \in Nat /\ \A k \in 5 + 1..z : k - 1 \in Fine => k \in Fine
    BY <2>1, <2>2 DEF z
  <2>4. 5..z \subseteq Fine
    BY <2>1, <2>3, Along
  <2>. QED
    BY <2>4 DEF z
<1>9. Len(l) - 1 = n + 5
  BY <1>2, <1>4
<1>10. \A k \in 5..Len(l) - 1 : M[k].x = c
  BY <1>8, <1>9
<1>. QED
  BY <1>10 DEF M

\* Between the marks a sign of any characters but the mark is one of the value.
LEMMA QuotedNth ==
  ASSUME NEW C, NEW c \in C, NEW v \in Seq(C), NEW sub \in Seq(C), Len(sub) >= 1,
         \A d \in 1..Len(sub) : sub[d] # c, NEW j \in Nth(Quoted(c, v), sub)
  PROVE  j - 1 \in Nth(v, sub)
<1>. DEFINE x == Quoted(c, v)
            n == Len(v)
            m == Len(sub)
<1>1. /\ x \in Seq(C) /\ Len(x) = n + 2 /\ x[1] = c /\ x[n + 2] = c
      /\ \A k \in 1..n : x[k + 1] = v[k]
  <2>1. IsQuoted(Quoted(c, v), c, v, C)
    BY QuotedIs
  <2>. QED
    BY <2>1, Zenon DEF IsQuoted
<1>2. n \in Nat /\ m \in Nat /\ m >= 1
  OBVIOUS
<1>3. j \in Nth(x, sub)
  OBVIOUS
<1>4. j \in 0..Len(x) - m /\ \A d \in 1..m : x[j + d] = sub[d]
  <2>1. j \in Nth(x, sub) <=> j \in 0..Len(x) - Len(sub) /\ \A d \in 1..Len(sub) : x[j + d] = sub[d]
    <3>1. x \in Seq(C) /\ sub \in Seq(C)
      BY <1>1, Zenon
    <3>. HIDE DEF x
    <3>. QED
      BY <3>1, NthIs
  <2>. QED
    BY <1>3, <2>1, Zenon
<1>5. \A d \in 1..m : sub[d] # c
  OBVIOUS
<1>. HIDE DEF x, n, m
<1>6. j # 0
  <2>1. 1 \in 1..m /\ 0 + 1 = 1
    BY <1>2
  <2>. QED
    BY <1>1, <1>4, <1>5, <2>1
<1>7. j + m # n + 2
  <2>1. m \in 1..m
    BY <1>2
  <2>. QED
    BY <1>1, <1>4, <1>5, <2>1
<1>8. j - 1 \in 0..n - m /\ j \in Nat
  BY <1>1, <1>2, <1>4, <1>6, <1>7
<1>9. ASSUME NEW d \in 1..m PROVE v[(j - 1) + d] = sub[d]
  <2>1. (j - 1) + d \in 1..n /\ ((j - 1) + d) + 1 = j + d
    BY <1>2, <1>8
  <2>. QED
    BY <1>1, <1>4, <2>1
<1>10. j - 1 \in Nth(v, sub) <=> j - 1 \in 0..n - m /\ \A d \in 1..m : v[(j - 1) + d] = sub[d]
  <2>1. j - 1 \in Nth(v, sub) <=>
          j - 1 \in 0..Len(v) - Len(sub) /\ \A d \in 1..Len(sub) : v[(j - 1) + d] = sub[d]
    BY NthIs
  <2>. QED
    BY <2>1, Zenon DEF n, m
<1>. QED
  BY <1>8, <1>9, <1>10

LEMMA QuotedSigns ==
  ASSUME NEW C, SignChars \subseteq C, NEW c \in Quotes, c \in C, NEW v \in Seq(C),
         NEW sign \in CommentMarks, NEW j \in Nth(Quoted(c, v), sign)
  PROVE  j - 1 \in Nth(v, sign)
<1>1. sign \in Seq(C) /\ Len(sign) >= 1
  BY SignFacts
<1>2. \A d \in 1..Len(sign) : sign[d] # c
  <2>1. \A d \in 1..Len(sign) : sign[d] \in SignChars
    BY SignIs
  <2>2. c \notin SignChars
    BY SignChar, Zenon DEF Quotes
  <2>. QED
    BY <2>1, <2>2, Zenon
<1>3. \A d \in 1..Len(sign) : sign[d] # c /\ c \in C
  BY <1>2
<1>. HIDE DEF Quoted
<1>. QED
  BY <1>1, <1>2, QuotedNth

\* A value between marks that has one sign of a comment at most: there is none in
\* its line that is not quoted.
LEMMA QuotedComments ==
  ASSUME NEW C, SignChars \subseteq C, NEW c \in Quotes, c \in C, NEW v \in Seq(C), NEW l,
         IsLine(l, Quoted(c, v), C), \A k \in 1..Len(v) : v[k] # c,
         \A i, j \in CommentSigns(v) : i = j
  PROVE  Comments(l) = {}
<1>. DEFINE x == Quoted(c, v)
            n == Len(v)
<1>1. x \in Seq(C) /\ Len(x) = n + 2 /\ x[1] = c /\ x[n + 2] = c
  <2>1. IsQuoted(Quoted(c, v), c, v, C)
    BY QuotedIs
  <2>. QED
    BY <2>1, Zenon DEF IsQuoted
<1>2. n \in Nat
  OBVIOUS
<1>3. /\ l \in Seq(C) /\ Starts(l) /\ Len(l) = Len(x) + 4
      /\ \A k \in 1..Len(x) : l[k + 4] = x[k]
  BY Zenon DEF IsLine
<1>. HIDE DEF x, n
<1>4. Len(l) = n + 6 /\ l[n + 6] = c /\ Len(l) \in Nat
  <2>1. n + 2 \in 1..Len(x) /\ (n + 2) + 4 = n + 6
    BY <1>1, <1>2
  <2>. QED
    BY <1>1, <1>2, <1>3, <2>1
<1>5. ASSUME NEW sign \in CommentMarks PROVE FindNotInQm(l, sign) = Absence
  <2>. DEFINE F == FindFrom(l, sign)
              p == NextPlace(l, sign, 0)
              K == Closing(l, sign, 0)
              m == Len(sign)
  <2>1. m \in Nat /\ m >= 1 /\ sign \in Seq(C) /\ sign[1] \in SignChars
    BY SignFacts
  <2>. HIDE DEF F, m
  <2>2. \A i \in 0..Len(l) : F[i] = FindStep(F, l, sign, i)
    BY <1>4, <2>1, FindUnfold DEF F, m
  <2>3. 0 \in 0..Len(l) /\ Len(sign) \in Nat
    BY <1>4, <2>1 DEF m
  <2>4. \A j \in Nth(l, sign) : j - 4 \in Nth(x, sign) /\ j \in Nat
    BY <1>1, LineSigns DEF x
  <2>5. \A i, j \in Nth(l, sign) : i = j
    <3>. TAKE i, j \in Nth(l, sign)
    <3>0. (i - 4) - 1 \in Nth(v, sign) /\ (j - 4) - 1 \in Nth(v, sign)
      <4>1. i - 4 \in Nth(x, sign) /\ j - 4 \in Nth(x, sign)
        BY <2>4, Zenon
      <4>. QED
        BY <4>1, QuotedSigns DEF x
    <3>1. (i - 4) - 1 \in CommentSigns(v) /\ (j - 4) - 1 \in CommentSigns(v)
      BY <3>0, Zenon DEF CommentSigns
    <3>2. (i - 4) - 1 = (j - 4) - 1
      BY <3>1, Zenon
    <3>3. i \in Nat /\ j \in Nat
      BY <2>4
    <3>. QED
      BY <3>2, <3>3
  <2>6. CASE p = Absence
    BY <2>2, <2>3, <2>6, Zenon DEF FindStep, FindNotInQm, F
  <2>7. CASE p # Absence
    <3>. HIDE DEF p, K
    <3>1. p \in Nth(l, sign)
      <4>1. p = Absence \/ p \in Nth(l, sign)
        BY <1>4, <2>3, NextPlaceIs DEF p
      <4>. QED
        BY <2>7, <4>1
    <3>2. p \in 4..Len(l) /\ p \in 0..Len(l) - m
      <4>1. p - 4 \in Nth(x, sign) /\ p \in Nat
        BY <2>4, <3>1
      <4>2. p - 4 \in 0..Len(x) - Len(sign)
        BY <4>1, Zenon DEF Nth
      <4>3. p \in 0..Len(l) - Len(sign)
        BY <3>1, Zenon DEF Nth
      <4>. QED
        BY <1>3, <1>4, <2>1, <4>1, <4>2, <4>3 DEF m
    <3>3. ASSUME p + m >= n + 6 PROVE FALSE
      <4>1. p = n + 6 - m /\ m \in 1..m /\ p + m = n + 6
        BY <1>2, <1>4, <2>1, <3>2, <3>3
      <4>2. p \in Nth(l, sign) <=> p \in 0..Len(l) - Len(sign) /\ \A d \in 1..Len(sign) : l[p + d] = sign[d]
        <5>1. l \in Seq(C) /\ sign \in Seq(C)
          BY <1>3, <2>1, Zenon
        <5>. QED
          BY <5>1, NthIs
      <4>3. l[p + m] = sign[m]
        BY <3>1, <4>1, <4>2 DEF m
      <4>4. sign[m] \in SignChars
        <5>1. \A d \in 1..Len(sign) : sign[d] \in SignChars
          BY SignIs
        <5>. QED
          BY <4>1, <5>1 DEF m
      <4>5. c \in SignChars
        BY <1>4, <4>1, <4>3, <4>4
      <4>. QED
        BY <4>5, SignChar, Zenon DEF Quotes
    <3>4. MarksFrom(l, 0)[p + 1].x = c
      <4>1. p + 1 \in 5..Len(l) - 1
        BY <1>2, <1>4, <2>1, <3>2, <3>3
      <4>2. \A k \in 5..Len(l) - 1 : MarksFrom(l, 0)[k].x = c
        BY QuotedMarks
      <4>. QED
        BY <4>1, <4>2
    <3>5. K # {}
      <4>1. n + 5 \in p + m..Len(l) - 1
        BY <1>2, <1>4, <2>1, <3>2, <3>3
      <4>2. Char(l, n + 5) = c
        <5>1. (n + 5) + 1 = n + 6
          BY <1>2
        <5>. QED
          BY <1>4, <5>1 DEF Char
      <4>3. Char(l, n + 5) \in Quotes \cap {MarksFrom(l, 0)[p + 1].x, MarksFrom(l, 0)[p + 1].y}
        BY <3>4, <4>2
      <4>4. K = {j \in p + m..Len(l) - 1 :
                   Char(l, j) \in Quotes \cap {MarksFrom(l, 0)[p + 1].x, MarksFrom(l, 0)[p + 1].y}}
        BY Zenon DEF Closing, K, p, m
      <4>5. n + 5 \in K
        BY <4>1, <4>3, <4>4, Zenon
      <4>. QED
        BY <4>5
    <3>. DEFINE e == Min(K)
    <3>6. e \in p + m..Len(l) - 1 /\ e + 1 \in 0 + 1..Len(l)
      <4>1. NextPlace(l, sign, 0) # Absence /\ Closing(l, sign, 0) # {}
        BY <2>7, <3>5 DEF p, K
      <4>2. /\ Min(Closing(l, sign, 0)) \in NextPlace(l, sign, 0) + Len(sign)..Len(l) - 1
            /\ Min(Closing(l, sign, 0)) + 1 \in 0 + 1..Len(l)
        BY <1>4, <2>3, <4>1, ClosingIs
      <4>. QED
        BY <4>2, Zenon DEF p, K, m
    <3>7. F[0] = F[e + 1]
      <4>1. c # ""
        BY DEF Quotes, Single, Double
      <4>2. F[0] = FindStep(F, l, sign, 0)
        BY <2>2, <2>3, Zenon
      <4>. QED
        BY <2>7, <3>4, <3>5, <4>1, <4>2, Zenon DEF FindStep, p, K
    <3>. HIDE DEF e
    <3>8. NextPlace(l, sign, e + 1) = Absence
      <4>1. e + 1 \in 0..Len(l)
        BY <1>4, <3>6
      <4>2. \/ NextPlace(l, sign, e + 1) = Absence
            \/ /\ NextPlace(l, sign, e + 1) \in Nth(l, sign)
               /\ NextPlace(l, sign, e + 1) \in e + 1..Len(l) - Len(sign)
        BY <1>4, <2>3, <4>1, NextPlaceIs
      <4>3. ASSUME NextPlace(l, sign, e + 1) \in Nth(l, sign),
                   NextPlace(l, sign, e + 1) \in e + 1..Len(l) - Len(sign)
            PROVE  FALSE
        <5>1. NextPlace(l, sign, e + 1) = p
          BY <2>5, <3>1, <4>3, Zenon
        <5>2. p \in e + 1..Len(l) - Len(sign)
          BY <4>3, <5>1, Zenon
        <5>. QED
          BY <1>4, <2>1, <3>2, <3>6, <5>2
      <4>. QED
        BY <4>2, <4>3, Zenon
    <3>9. F[e + 1] = Absence
      <4>1. e + 1 \in 0..Len(l)
        BY <1>4, <3>6
      <4>. QED
        BY <2>2, <3>8, <4>1, Zenon DEF FindStep
    <3>. QED
      BY <3>7, <3>9, Zenon DEF FindNotInQm, F
  <2>. QED
    BY <2>6, <2>7
<1>. QED
  BY <1>5, Zenon DEF Comments

\* The marks are taken off again.
LEMMA QuotedBare ==
  ASSUME NEW C, NEW c \in Quotes, c \in C, NEW v \in Seq(C), v # <<>>,
         \A k \in 1..Len(v) : v[k] # c
  PROVE  Bare(Quoted(c, v)) = v
<1>. DEFINE x == Quoted(c, v)
            h == <<c>>
            y == Then(v, h)
            n == Len(v)
<1>1. /\ x \in Seq(C) /\ Len(x) = n + 2 /\ x[1] = c /\ x[n + 2] = c
      /\ \A k \in 1..n : x[k + 1] = v[k]
  <2>1. IsQuoted(Quoted(c, v), c, v, C)
    BY QuotedIs
  <2>. QED
    BY <2>1, Zenon DEF IsQuoted
<1>2. n \in Nat /\ n >= 1
  OBVIOUS
<1>3. h \in Seq(C) /\ Len(h) = 1 /\ h[1] = c
  OBVIOUS
<1>. HIDE DEF x, h
<1>4. IsJoint(y, v, h, C)
  BY <1>3, Joint
<1>. HIDE DEF y
<1>5. /\ y \in Seq(C) /\ Len(y) = n + 1
      /\ (\A k \in 1..n : y[k] = v[k]) /\ \A k \in 1..1 : y[n + k] = h[k]
  BY <1>3, <1>4, Zenon DEF IsJoint
<1>6. v[1] # c /\ v[n] # c
  BY <1>2
<1>. HIDE DEF n
<1>7. y[n + 1] = c /\ y[1] # c /\ y # <<>>
  <2>1. 1 \in 1..1 /\ 1 \in 1..n
    BY <1>2
  <2>2. y # <<>>
    BY <1>2, <1>5
  <2>. QED
    BY <1>3, <1>5, <1>6, <2>1, <2>2
<1>8. StripLeft(x, {c}) = y
  <2>1. \A k \in 1..Len(y) : x[k + 1] = y[k]
    <3>. TAKE k \in 1..Len(y)
    <3>1. k \in 1..n \/ (k = n + 1 /\ k + 1 = n + 2)
      BY <1>2, <1>5
    <3>. QED
      BY <1>1, <1>5, <1>7, <3>1
  <2>2. Len(x) = Len(y) + 1
    BY <1>1, <1>2, <1>5
  <2>3. x \in Seq(C) /\ y \in Seq(C) /\ y # <<>> /\ x[1] \in {c} /\ y[1] \notin {c}
    BY <1>1, <1>5, <1>7, Zenon
  <2>. QED
    BY <2>1, <2>2, <2>3, StripLeftOne
<1>9. StripRight(y, {c}) = v
  <2>1. y \in Seq(C) /\ Len(y) = Len(v) + 1 /\ y[Len(v) + 1] = c /\ v[Len(v)] # c
        /\ \A k \in 1..Len(v) : y[k] = v[k]
    BY <1>5, <1>6, <1>7, Zenon DEF n
  <2>. QED
    BY <2>1, StripRightOne
<1>10. Len(x) > 1 /\ x[1] \in Quotes /\ x[1] = Last(x)
  <2>1. Len(x) > 1
    BY <1>1, <1>2
  <2>2. Last(x) = c
    <3>1. Last(x) = x[Len(x)]
      BY Zenon DEF Last
    <3>. QED
      BY <1>1, <3>1, Zenon
  <2>. QED
    BY <1>1, <2>1, <2>2, Zenon
<1>11. Bare(x) = StripRight(StripLeft(x, {x[1]}), {x[1]})
  BY <1>10, Zenon DEF Bare
<1>. QED
  BY <1>1, <1>8, <1>9, <1>11, Zenon DEF x

\* A value that is written between marks is read back.
LEMMA QuotedRead ==
  ASSUME NEW C, SignChars \cup {Space, Backslash} \subseteq C, NEW c \in Quotes, c \in C,
         NEW v \in Seq(C), v # <<>>, \A k \in 1..Len(v) : v[k] # c, Nth(v, Twice) = {},
         \A i, j \in CommentSigns(v) : i = j, NEW l, IsLine(l, Quoted(c, v), C)
  PROVE  Bare(ValueOf(CutLine(Getline(<<l, <<>>>>)))) = v
<1>. DEFINE x == Quoted(c, v)
            n == Len(v)
<1>1. x \in Seq(C) /\ Len(x) = n + 2 /\ x[1] = c /\ x[n + 2] = c
  <2>1. IsQuoted(Quoted(c, v), c, v, C)
    BY QuotedIs
  <2>. QED
    BY <2>1, Zenon DEF IsQuoted
<1>2. n \in Nat
  OBVIOUS
<1>3. c # Space /\ c # Backslash /\ c \notin Blanks /\ c \notin White
  BY DifferentSigns, WhatIsStripped, Zenon
<1>4. Nth(x, Twice) = {}
  <2>1. Twice \in Seq(C) /\ Len(Twice) >= 1 /\ \A d \in 1..Len(Twice) : Twice[d] # c
    <3>1. Twice \in Seq(C) /\ Len(Twice) = 2 /\ Twice[1] = Space /\ Twice[2] = Space
      BY DEF Twice
    <3>2. \A d \in 1..2 : d = 1 \/ d = 2
      OBVIOUS
    <3>. QED
      BY <1>3, <3>1, <3>2
  <2>2. ASSUME NEW j \in Nth(Quoted(c, v), Twice) PROVE FALSE
    <3>1. j - 1 \in Nth(v, Twice)
      BY <2>1, QuotedNth
    <3>. QED
      BY <3>1
  <2>. QED
    BY <2>2
<1>5. Comments(l) = {}
  BY QuotedComments
<1>. HIDE DEF x, n
<1>6. x # <<>> /\ x[1] \notin Blanks /\ x[Len(x)] \notin White /\ x[Len(x)] # Backslash
  <2>1. x # <<>>
    BY <1>1, <1>2
  <2>. QED
    BY <1>1, <1>3, <2>1, Zenon
<1>7. IsLine(l, x, C) /\ Space \in C
  BY DEF x
<1>8. ValueOf(CutLine(Getline(<<l, <<>>>>))) = x
  BY <1>1, <1>4, <1>5, <1>6, <1>7, LineRead
<1>9. Bare(x) = v
  BY QuotedBare DEF x
<1>. QED
  BY <1>8, <1>9, Zenon

\* The characters of a value.
LEMMA ToSetIs ==
  ASSUME NEW C, NEW v \in Seq(C), NEW c, c \notin ToSet(v)
  PROVE  \A k \in 1..Len(v) : v[k] # c
<1>1. DOMAIN v = 1..Len(v)
  OBVIOUS
<1>. QED
  BY <1>1, Zenon DEF ToSet

\* A tame value is written so that it is read back.
LEMMA TameRead ==
  ASSUME NEW C, SignChars \cup {Space, Backslash, Double, Single, "f", "="} \subseteq C,
         NEW v \in Seq(C), Tame(v)
  PROVE  Bare(ValueOf(CutLine(Getline(<<LineOf(v), <<>>>>)))) = v
<1>. DEFINE l == LineOf(v)
<1>1. IsLine(l, FormatStr(v), C)
  <2>1. {Space, Single, Double, Backslash, "f", "="} \subseteq C
    OBVIOUS
  <2>2. /\ LineOf(v) \in Seq(C) /\ Starts(LineOf(v))
        /\ Len(LineOf(v)) = Len(FormatStr(v)) + 4 /\ LineOf(v)[4] = Space
        /\ \A k \in 1..Len(FormatStr(v)) : LineOf(v)[k + 4] = FormatStr(v)[k]
    BY <2>1, LineStarts
  <2>. QED
    BY <2>2, Zenon DEF IsLine
<1>. HIDE DEF l
<1>2. Nth(v, Twice) = {}
  BY Zenon DEF Tame, Twice
<1>3. Bare(<<>>) = <<>>
  <2>1. Len(<<>>) = 0
    OBVIOUS
  <2>2. ~(Len(<<>>) > 1)
    BY <2>1
  <2>. QED
    BY <2>2, Zenon DEF Bare
<1>4. SignChars \subseteq C /\ Space \in C /\ Backslash \in C /\ Double \in C /\ Single \in C
  OBVIOUS
<1>5. CASE QuotesIn(v) = {}
  <2>1. FormatStr(v) = v
    BY <1>5, FormatIs, Zenon DEF QuotesIn
  <2>2. IsLine(l, v, C)
    BY <1>1, <2>1, Zenon
  <2>3. CommentSigns(v) = {} /\ (v = <<>> \/ (v[1] \notin Blanks /\ Last(v) \notin White \cup {Backslash}))
    BY <1>5, Zenon DEF Tame
  <2>4. CASE v = <<>>
    <3>1. ValueOf(CutLine(Getline(<<l, <<>>>>))) = <<>>
      <4>1. IsLine(l, <<>>, C)
        BY <2>2, <2>4, Zenon
      <4>. QED
        BY <1>4, <4>1, EmptyRead
    <3>. QED
      BY <1>3, <2>4, <3>1, Zenon DEF l
  <2>5. CASE v # <<>>
    <3>1. v[1] \notin Blanks /\ v[Len(v)] \notin White /\ v[Len(v)] # Backslash
      BY <2>3, <2>5, Zenon DEF Last
    <3>2. Comments(l) = {}
      BY <1>4, <2>2, <2>3, PlainComments
    <3>3. ValueOf(CutLine(Getline(<<l, <<>>>>))) = v
      BY <1>2, <1>4, <2>2, <2>5, <3>1, <3>2, LineRead
    <3>4. v[1] \notin Quotes
      <4>1. v[1] \in ToSet(v)
        <5>1. 1 \in DOMAIN v
          BY <2>5
        <5>. QED
          BY <5>1, Zenon DEF ToSet
      <4>. QED
        BY <1>5, <4>1 DEF QuotesIn
    <3>5. Bare(v) = v
      BY <3>4, Zenon DEF Bare
    <3>. QED
      BY <3>3, <3>5, Zenon DEF l
  <2>. QED
    BY <2>4, <2>5
<1>6. CASE QuotesIn(v) # {}
  <2>1. Cardinality(QuotesIn(v)) <= 1 /\ Cardinality(CommentSigns(v)) <= 1
    BY <1>6, Zenon DEF Tame
  <2>2. \A i, j \in CommentSigns(v) : i = j
    <3>1. CommentSigns(v) \subseteq 0..Len(v)
      <4>1. ASSUME NEW sign \in CommentMarks, NEW j \in Nth(v, sign) PROVE j \in 0..Len(v)
        <5>1. Len(sign) \in Nat /\ Len(sign) >= 1
          BY <1>4, SignFacts
        <5>2. j \in 0..Len(v) - Len(sign)
          BY Zenon DEF Nth
        <5>. QED
          BY <5>1, <5>2
      <4>. QED
        BY <4>1, Zenon DEF CommentSigns
    <3>2. IsFiniteSet(CommentSigns(v))
      <4>1. IsFiniteSet(0..Len(v))
        <5>1. 0 \in Int /\ Len(v) \in Int
          OBVIOUS
        <5>. QED
          BY <5>1, FS_Interval
      <4>. QED
        BY <3>1, <4>1, FS_Subset
    <3>. TAKE i, j \in CommentSigns(v)
    <3>. QED
      BY <2>1, <3>2, AtMostOne
  <2>3. IsFiniteSet(QuotesIn(v))
    <3>1. IsFiniteSet({Double}) /\ IsFiniteSet({Double} \cup {Single})
      BY FS_Singleton, FS_AddElement
    <3>2. QuotesIn(v) \subseteq {Double} \cup {Single}
      BY Zenon DEF QuotesIn, Quotes
    <3>. QED
      BY <3>1, <3>2, FS_Subset
  <2>4. Double \notin ToSet(v) \/ Single \notin ToSet(v)
    <3>1. ASSUME Double \in ToSet(v), Single \in ToSet(v) PROVE FALSE
      <4>1. Double \in QuotesIn(v) /\ Single \in QuotesIn(v)
        BY <3>1, Zenon DEF QuotesIn, Quotes
      <4>2. Double = Single
        BY <2>1, <2>3, <4>1, AtMostOne
      <4>. QED
        BY <4>2, DifferentSigns, Zenon
    <3>. QED
      BY <3>1
  <2>5. PICK c \in Quotes : c \in C /\ c \notin ToSet(v) /\ FormatStr(v) = Quoted(c, v)
    <3>1. Double \in Quotes /\ Single \in Quotes
      BY Zenon DEF Quotes
    <3>2. Quotes \cap ToSet(v) # {}
      BY <1>6, Zenon DEF QuotesIn
    <3>3. CASE Double \notin ToSet(v)
      <4>1. FormatStr(v) = Quoted(Double, v)
        BY <3>2, <3>3, FormatIs, Zenon
      <4>. QED
        BY <1>4, <3>1, <3>3, <4>1, Zenon
    <3>4. CASE Double \in ToSet(v) /\ Single \notin ToSet(v)
      <4>1. FormatStr(v) = Quoted(Single, v)
        BY <3>2, <3>4, FormatIs, Zenon
      <4>. QED
        BY <1>4, <3>1, <3>4, <4>1, Zenon
    <3>. QED
      BY <2>4, <3>3, <3>4, Zenon
  <2>6. v # <<>>
    <3>1. ASSUME v = <<>> PROVE QuotesIn(v) = {}
      <4>1. ToSet(<<>>) = {}
        BY DEF ToSet
      <4>. QED
        BY <3>1, <4>1 DEF QuotesIn
    <3>. QED
      BY <1>6, <3>1
  <2>7. \A k \in 1..Len(v) : v[k] # c
    BY <2>5, ToSetIs
  <2>8. IsLine(l, Quoted(c, v), C)
    BY <1>1, <2>5, Zenon
  <2>9. SignChars \cup {Space, Backslash} \subseteq C
    OBVIOUS
  <2>. HIDE DEF l
  <2>. QED
    <3>1. c \in C
      BY <2>5
    <3>2. Bare(ValueOf(CutLine(Getline(<<l, <<>>>>)))) = v
      BY <1>2, <2>2, <2>6, <2>7, <2>8, <2>9, <3>1, QuotedRead
    <3>. QED
      BY <3>2, Zenon DEF l
<1>. QED
  BY <1>5, <1>6

LEMMA ConfigHolds ==
  ASSUME NEW C, SignChars \cup {Space, Backslash, Double, Single, "f", "="} \subseteq C,
         Newline \notin C, typed \in Seq(C)
  PROVE  ConfigReadBack
<1>. DEFINE l == LineOf(typed)
            g == Getline(<<l, <<>>>>)
            bare == Bare(ValueOf(CutLine(g)))
<1>1. Written(typed) = <<l, <<>>>> /\ l \in Seq(C) /\ Starts(l)
  <2>1. {Space, Single, Double, Backslash, "f", "="} \subseteq C
    OBVIOUS
  <2>2. Written(typed) = <<LineOf(typed), <<>>>>
    BY <2>1, WrittenLines
  <2>. QED
    BY <2>1, <2>2, LineStarts
<1>. HIDE DEF l
<1>2. g \in Seq(C) /\ Starts(g)
  <2>1. Space \in C
    OBVIOUS
  <2>. QED
    BY <1>1, <2>1, GetlineStarts
<1>. HIDE DEF g
<1>3. ParseLine(g) = <<"set", <<"f">>, bare>>
  <2>1. SignChars \cup {"="} \subseteq C
    OBVIOUS
  <2>. QED
    BY <1>2, <2>1, ParseIs
<1>4. Tame(typed) => bare = typed
  BY TameRead, Zenon DEF g, l
<1>. HIDE DEF bare
<1>5. ParseLine(g)[1] = "set" /\ ParseLine(g)[2] = <<"f">> /\ ParseLine(g)[3] = bare
  <2>. DEFINE r == ParseLine(g)
              name == <<"f">>
  <2>1. r = <<"set", name, bare>>
    BY <1>3
  <2>. HIDE DEF r, name
  <2>2. r[1] = "set" /\ r[2] = name /\ r[3] = bare
    BY <2>1
  <2>. QED
    BY <2>2 DEF r, name
<1>6. Getline(Written(typed)) = g
  BY <1>1, Zenon DEF g
<1>7. Len(Written(typed)) = 2
  <2>. DEFINE e == <<>>
  <2>1. Written(typed) = <<l, e>>
    BY <1>1
  <2>. HIDE DEF e
  <2>. QED
    BY <2>1
<1>. QED
  BY <1>4, <1>5, <1>6, <1>7, Zenon DEF ConfigReadBack

\* What mkconf writes for a string flag is read back if it is tame, and is a line for
\* that flag whatever it is, if there are no line ends in it (format_str,
\* parse_config and getline of base/flag.cc).
THEOREM ConfigCorrect == FlagsSpec => []ConfigReadBack
<1>1. FlagType => ConfigReadBack
  <2>. SUFFICES ASSUME FlagType, Newline \notin ToSet(typed) PROVE ConfigReadBack
    BY Zenon DEF ConfigReadBack
  <2>. DEFINE Needed == SignChars \cup {Space, Backslash, Double, Single, "f", "="}
              C == ((UNION Alphabets) \ {Newline}) \cup Needed
  <2>. HIDE DEF Needed
  <2>1. Needed \subseteq C
    OBVIOUS
  <2>2. typed \in Seq(C)
    <3>1. typed \in Seq(UNION Alphabets) /\ (UNION Alphabets) \ {Newline} \subseteq C
      BY DEF FlagType
    <3>. HIDE DEF C
    <3>2. Len(typed) \in Nat /\ typed \in [1..Len(typed) -> UNION Alphabets]
      BY <3>1
    <3>3. \A k \in 1..Len(typed) : typed[k] # Newline
      BY <3>1, ToSetIs
    <3>4. typed \in [1..Len(typed) -> C]
      BY <3>1, <3>2, <3>3
    <3>. QED
      BY <3>2, <3>4
  <2>3. Newline \notin C
    <3>1. Newline \notin Needed
      BY NoNewline DEF Needed
    <3>. QED
      BY <3>1
  <2>. HIDE DEF C
  <2>. QED
    BY <2>1, <2>2, <2>3, ConfigHolds DEF Needed
<1>. QED
  BY <1>1, FlagTypeCorrect, PTL

\* Lines and arguments are taken for what they are, whatever characters are typed:
\* the three theorems on flags.
THEOREM FlagsCorrect == FlagsSpec => []FlagsRight
<1>1. QuotesRight /\ ConfigReadBack /\ ArgsRight => FlagsRight
  BY Zenon DEF FlagsRight
<1>. QED
  BY <1>1, QuotesCorrect, ConfigCorrect, ArgsCorrect, PTL
=============================================================================
