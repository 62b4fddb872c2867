----------------------------- MODULE PartsProofs -----------------------------
(***************************************************************************)
(* Proofs about parts that stand for themselves, for every value of the    *)
(* constants:                                                              *)
(*   Firmware    the images lie where the packers note them, and come out  *)
(*               of the unpacker as far as it looks for them               *)
(*               (zw_encpack/main.cc, zw_encpack_hisi/main.cc,             *)
(*               zw_decpack/main.cc);                                      *)
(*   FastString  a block is freed with its last share and not before       *)
(*               (base/fastring.h, base/fastring.cc);                      *)
(*   LruMap      the map implements the cache that gives up the key not    *)
(*               used for longest (base/lru_map.h).                        *)
(***************************************************************************)
EXTENDS Firmware, FastString, LruMap,
        SequenceTheorems, FunctionTheorems, FiniteSetTheorems, TLAPS

-----------------------------------------------------------------------------
\* Firmware: the layout.

Entry == [kind : Kinds, offset : Nat, len : Nat]

FwType ==
  /\ size \in [Kinds -> Nat] /\ hisi \in BOOLEAN /\ names \in Nat
  /\ phase \in {"look", "failed", "write", "shipped", "unpack", "spin"}
  /\ asked \in 0..Len(Order)
  /\ info \in Seq(Entry) /\ Len(info) <= asked
  /\ length \in Nat
  /\ at \in Seq(Nat) /\ Len(at) <= Len(info)
  /\ done \in 0..Len(info)
  /\ cut \in BOOLEAN

\* Every offset is the end of the image before, and no kind is noted twice.
Noted ==
  /\ \A i \in 1..Len(info) :
       info[i].offset = IF i = 1 THEN Align
                        ELSE info[i - 1].offset + Padded(info[i - 1].len)
  /\ \A i \in 1..Len(info) : \E a \in 1..asked : info[i].kind = Order[a]
  /\ \A i, j \in 1..Len(info) : info[i].kind = info[j].kind => i = j

\* Where the file ends while it is written: at the noted offset of the next image.
FileEnd ==
  IF at = <<>> THEN Align ELSE info[Len(at)].offset + Padded(info[Len(at)].len)

Placed ==
  /\ phase \in {"look", "failed"} => at = <<>>
  /\ phase \in {"shipped", "unpack", "spin"} => Len(at) = Len(info)
  /\ phase \notin {"look", "failed"} => info # <<>>
  /\ phase = "write" /\ HeaderFits => length = FileEnd
  /\ HeaderFits => \A i \in 1..Len(at) : at[i] = info[i].offset
  /\ HeaderFits /\ ~cut => \A i \in 1..Len(at) : info[i].offset + info[i].len <= length
  /\ phase \in {"look", "failed", "write"} => ~cut

\* What the unpacker knows and has done.
Taken ==
  /\ phase \notin {"unpack", "spin"} => done = 0 /\ out = [k \in Kinds |-> "none"]
  /\ DOMAIN out = Kinds
  /\ phase \in {"unpack", "spin"} =>
       /\ \A i \in 1..Len(info) : filed[info[i].kind] = info[i]
       /\ \A k \in Kinds : (\A i \in 1..Len(info) : info[i].kind # k) => filed[k] = <<>>

FwInv == FwType /\ Noted /\ Placed /\ Taken /\ Unpacked

-----------------------------------------------------------------------------
\* Padding makes nothing shorter, and what fits into one unit fills it.
LEMMA PaddedRight ==
  ASSUME NEW n \in Nat
  PROVE  /\ Padded(n) \in Nat /\ Padded(n) >= n
         /\ n \in 1..Align => Padded(n) = Align
<1>1. Align \in Nat /\ Align > 0
  BY FirmwareAssumption
<1>2. n % Align \in 0..Align - 1
  BY <1>1
<1>3. Padded(n) \in Nat /\ Padded(n) >= n
  BY <1>1, <1>2 DEF Padded
<1>4. ASSUME n \in 1..Align PROVE Padded(n) = Align
  <2>1. CASE n = Align
    <3>1. n % Align = 0
      BY <1>1, <2>1
    <3>. QED
      BY <2>1, <3>1 DEF Padded
  <2>2. CASE n < Align
    <3>1. n % Align = n
      BY <1>1, <2>2
    <3>. QED
      BY <1>1, <1>4, <2>2, <3>1 DEF Padded
  <2>. QED
    BY <1>1, <1>4, <2>1, <2>2
<1>. QED
  BY <1>3, <1>4

\* Every kind is asked for once, as all kinds are asked for.
LEMMA AskedOnce ==
  ASSUME NEW a \in 1..Len(Order), NEW b \in 1..Len(Order), Order[a] = Order[b]
  PROVE  a = b
<1>. DEFINE n == Len(Order)
<1>1. n \in Nat /\ Order \in [1..n -> 1..n] /\ {Order[i] : i \in 1..n} = 1..n
  <2>1. n \in Nat /\ Order \in [1..n -> Nat]
    BY FirmwareAssumption, LenProperties
  <2>2. {Order[i] : i \in 1..n} = 1..n
    BY FirmwareAssumption DEF Kinds
  <2>. HIDE DEF n
  <2>3. \A i \in 1..n : Order[i] \in 1..n
    BY <2>2
  <2>. QED
    BY <2>1, <2>2, <2>3 DEF n
<1>2. Order \in Surjection(1..n, 1..n)
  BY <1>1 DEF Surjection
<1>3. IsFiniteSet(1..n)
  BY <1>1, FS_Interval
<1>4. Order \in Injection(1..n, 1..n)
  BY <1>2, <1>3, FS_SurjSameCardinalityImpliesInj
<1>. QED
  BY <1>1, <1>4 DEF Injection, IsInjective

-----------------------------------------------------------------------------
LEMMA FwInitInv ==
  ASSUME FwInit
  PROVE  FwInv
<1>1. FwType
  <2>1. <<>> \in Seq(Entry) /\ <<>> \in Seq(Nat) /\ Len(<<>>) = 0
    OBVIOUS
  <2>2. size \in [Kinds -> Nat] /\ names \in Nat /\ Len(Order) \in Nat
    BY FirmwareAssumption, LenProperties DEF FwInit
  <2>3. info = <<>> /\ at = <<>> /\ asked = 0 /\ length = 0 /\ done = 0
    BY DEF FwInit
  <2>4. info \in Seq(Entry) /\ at \in Seq(Nat) /\ Len(info) = 0 /\ Len(at) = 0
    BY <2>1, <2>3
  <2>5. asked \in 0..Len(Order) /\ done \in 0..Len(info)
    BY <2>2, <2>3, <2>4
  <2>6. hisi \in BOOLEAN /\ cut \in BOOLEAN /\ phase = "look"
    BY DEF FwInit
  <2>. QED
    BY <2>2, <2>3, <2>4, <2>5, <2>6 DEF FwType
<1>2. Noted /\ Placed /\ Taken /\ Unpacked
  BY DEF FwInit, Noted, Placed, Taken, Unpacked
<1>. QED
  BY <1>1, <1>2 DEF FwInv

\* One more image is noted, behind the ones before.
LEMMA LookInv ==
  ASSUME FwInv, Look
  PROVE  FwInv'
<1>. DEFINE k == Order[asked + 1]
            e == [kind |-> k, offset |-> NextOffset, len |-> size[k]]
<1>1. /\ phase = "look" /\ asked < Len(Order) /\ asked' = asked + 1
      /\ UNCHANGED <<size, names, hisi, phase, length, at, filed, done, out, cut>>
      /\ at = <<>> /\ done = 0 /\ out = [j \in Kinds |-> "none"]
  BY DEF Look, inputVars, unpackVars, FwInv, Placed, Taken
<1>2. /\ asked + 1 \in 1..Len(Order) /\ asked \in Nat /\ Len(Order) \in Nat
      /\ k \in Kinds /\ size[k] \in Nat
  <2>1. asked \in 0..Len(Order) /\ size \in [Kinds -> Nat]
    BY DEF FwInv, FwType
  <2>2. Len(Order) \in Nat
    BY FirmwareAssumption, LenProperties
  <2>3. asked + 1 \in 1..Len(Order) /\ asked \in Nat
    BY <1>1, <2>1, <2>2
  <2>4. k \in Kinds
    BY <2>3 DEF Kinds
  <2>. HIDE DEF k
  <2>. QED
    BY <2>1, <2>2, <2>3, <2>4
<1>3. info \in Seq(Entry) /\ Len(info) \in Nat /\ DOMAIN info = 1..Len(info)
  BY LenProperties DEF FwInv, FwType
<1>4. NextOffset \in Nat
  <2>1. CASE info = <<>>
    BY <2>1, FirmwareAssumption DEF NextOffset
  <2>2. CASE info # <<>>
    <3>1. info[Len(info)] \in Entry
      BY <1>3, <2>2, EmptySeq, ElementOfSeq
    <3>. QED
      <4>1. info[Len(info)].offset \in Nat /\ info[Len(info)].len \in Nat
        BY <3>1 DEF Entry
      <4>2. Padded(info[Len(info)].len) \in Nat
        BY <4>1, PaddedRight
      <4>. QED
        BY <2>2, <4>1, <4>2 DEF NextOffset
  <2>. QED
    BY <2>1, <2>2
<1>5. e \in Entry
  BY <1>2, <1>4 DEF Entry
<1>6. Placed' /\ Taken' /\ Unpacked'
  <2>1. Len(at) = 0
    BY <1>1
  <2>. QED
    BY <1>1, <2>1 DEF Placed, Taken, Unpacked, FwInv
<1>7. CASE info' = info
  <2>1. FwType'
    BY <1>1, <1>2, <1>7 DEF FwInv, FwType
  <2>2. Noted'
    BY <1>1, <1>2, <1>7 DEF FwInv, Noted
  <2>. QED
    BY <1>6, <2>1, <2>2 DEF FwInv
<1>8. CASE info' = Append(info, e)
  <2>. DEFINE n == Len(info)
  <2>. HIDE DEF k, e
  <2>1. /\ info' \in Seq(Entry) /\ Len(info') = n + 1
        /\ info'[n + 1] = e /\ \A i \in 1..n : info'[i] = info[i]
    BY <1>3, <1>5, <1>8, AppendProperties
  <2>2. FwType'
    BY <1>1, <1>2, <1>3, <2>1 DEF FwInv, FwType
  <2>3. e.offset = IF n = 0 THEN Align ELSE info[n].offset + Padded(info[n].len)
    BY <1>3, EmptySeq DEF e, NextOffset
  <2>4. e.kind = Order[asked + 1]
    BY DEF e, k
  <2>5. \A i \in 1..n : info[i].kind # e.kind
    <3>. SUFFICES ASSUME NEW i \in 1..n, info[i].kind = e.kind PROVE FALSE
      OBVIOUS
    <3>1. PICK a \in 1..asked : info[i].kind = Order[a]
      BY DEF FwInv, Noted
    <3>2. a = asked + 1
      BY <1>2, <2>4, <3>1, AskedOnce
    <3>. QED
      BY <1>2, <3>2
  <2>6. \A i \in 1..n + 1 : info'[i].offset = IF i = 1 THEN Align
                              ELSE info'[i - 1].offset + Padded(info'[i - 1].len)
    <3>. SUFFICES ASSUME NEW i \in 1..n + 1
                  PROVE  info'[i].offset = IF i = 1 THEN Align
                              ELSE info'[i - 1].offset + Padded(info'[i - 1].len)
      OBVIOUS
    <3>1. CASE i = n + 1
      <4>1. CASE n = 0
        BY <2>1, <2>3, <3>1, <4>1
      <4>2. CASE n # 0
        <5>1. i # 1 /\ i - 1 = n /\ n \in 1..n
          BY <1>3, <3>1, <4>2
        <5>. QED
          BY <2>1, <2>3, <3>1, <4>2, <5>1
      <4>. QED
        BY <4>1, <4>2
    <3>2. CASE i \in 1..n
      <4>1. i # 1 => i - 1 \in 1..n
        BY <1>3, <3>2
      <4>. QED
        BY <2>1, <3>2, <4>1 DEF FwInv, Noted
    <3>. QED
      BY <1>3, <3>1, <3>2
  <2>7. \A i \in 1..n + 1 : \E a \in 1..asked' : info'[i].kind = Order[a]
    <3>1. \A i \in 1..n : \E a \in 1..asked' : info'[i].kind = Order[a]
      <4>. SUFFICES ASSUME NEW i \in 1..n
                    PROVE  \E a \in 1..asked' : info'[i].kind = Order[a]
        OBVIOUS
      <4>1. PICK a \in 1..asked : info[i].kind = Order[a]
        BY DEF FwInv, Noted
      <4>2. a \in 1..asked' /\ info'[i] = info[i]
        BY <1>1, <1>2, <2>1
      <4>. QED
        BY <4>1, <4>2
    <3>2. asked + 1 \in 1..asked' /\ info'[n + 1].kind = Order[asked + 1]
      BY <1>1, <1>2, <2>1, <2>4
    <3>3. \A i \in 1..n + 1 : i \in 1..n \/ i = n + 1
      BY <1>3
    <3>. QED
      BY <3>1, <3>2, <3>3
  <2>8. \A i, j \in 1..n + 1 : info'[i].kind = info'[j].kind => i = j
    BY <1>3, <2>1, <2>5 DEF FwInv, Noted
  <2>9. Noted'
    BY <2>1, <2>6, <2>7, <2>8 DEF Noted
  <2>. QED
    BY <1>6, <2>2, <2>9 DEF FwInv
<1>. QED
  BY <1>7, <1>8 DEF Look

\* If the header fits, it fills one unit, whatever it says.
LEMMA WriteHeaderInv ==
  ASSUME FwInv, WriteHeader
  PROVE  FwInv'
<1>1. /\ phase = "look" /\ phase' \in {"failed", "write"}
      /\ length' \in {length, Padded(HeaderLen)}
      /\ phase' = "write" => length' = Padded(HeaderLen) /\ info # <<>>
      /\ UNCHANGED <<size, names, hisi, asked, info, at, filed, done, out, cut>>
  BY DEF WriteHeader, inputVars, packVars, unpackVars
<1>2. at = <<>> /\ done = 0 /\ out = [j \in Kinds |-> "none"] /\ ~cut
  BY <1>1 DEF FwInv, Placed, Taken
<1>3. HeaderLen \in Nat /\ HeaderLen > 0
  BY LenProperties DEF FwInv, FwType, HeaderLen, HeaderText
<1>4. FwType'
  BY <1>1, <1>3, PaddedRight DEF FwInv, FwType
<1>5. Noted'
  BY <1>1 DEF FwInv, Noted
<1>6. HeaderFits' = HeaderFits
  BY <1>1 DEF HeaderFits, HeaderLen, HeaderText
<1>7. HeaderFits => Padded(HeaderLen) = Align
  BY <1>3, PaddedRight, FirmwareAssumption DEF HeaderFits
<1>8. Placed'
  <2>1. Len(at) = 0
    BY <1>2
  <2>. QED
    BY <1>1, <1>2, <1>6, <1>7, <2>1 DEF Placed, FileEnd
<1>9. Taken' /\ Unpacked'
  BY <1>1, <1>2 DEF Taken, Unpacked
<1>. QED
  BY <1>4, <1>5, <1>8, <1>9 DEF FwInv

\* The next image begins at its noted offset, and ends within the file.
LEMMA WriteImageInv ==
  ASSUME FwInv, WriteImage
  PROVE  FwInv'
<1>. DEFINE n == Len(at)
            e == info[n + 1]
<1>1. /\ phase = "write" /\ n < Len(info)
      /\ at' = Append(at, length) /\ length' = length + Padded(e.len)
      /\ UNCHANGED <<size, names, hisi, phase, asked, info, filed, done, out, cut>>
  BY DEF WriteImage, inputVars, unpackVars
<1>2. /\ info \in Seq(Entry) /\ Len(info) \in Nat /\ n \in Nat
      /\ at \in Seq(Nat) /\ length \in Nat
  BY LenProperties DEF FwInv, FwType
<1>3. n + 1 \in 1..Len(info) /\ e \in Entry
  BY <1>1, <1>2, ElementOfSeq
<1>4. e.offset \in Nat /\ e.len \in Nat /\ Padded(e.len) \in Nat /\ Padded(e.len) >= e.len
  <2>1. e.offset \in Nat /\ e.len \in Nat
    BY <1>3 DEF Entry
  <2>. QED
    BY <2>1, PaddedRight
<1>. HIDE DEF n
<1>5. /\ at' \in Seq(Nat) /\ Len(at') = n + 1 /\ at'[n + 1] = length
      /\ \A i \in 1..n : at'[i] = at[i]
  BY <1>1, <1>2, AppendProperties DEF n
<1>6. HeaderFits' = HeaderFits
  BY <1>1 DEF HeaderFits, HeaderLen, HeaderText
<1>7. ASSUME HeaderFits PROVE length = e.offset
  <2>1. length = FileEnd
    BY <1>1, <1>7 DEF FwInv, Placed
  <2>2. \A i \in 1..Len(info) :
           i = n + 1 => e.offset = IF i = 1 THEN Align
                                   ELSE info[i - 1].offset + Padded(info[i - 1].len)
    BY DEF FwInv, Noted
  <2>3. n = 0 <=> at = <<>>
    BY <1>2, EmptySeq DEF n
  <2>4. n + 1 - 1 = n /\ (n + 1 = 1 <=> n = 0)
    BY <1>2
  <2>5. length = IF n = 0 THEN Align ELSE info[n].offset + Padded(info[n].len)
    BY <2>1, <2>3 DEF FileEnd, n
  <2>. QED
    BY <1>2, <1>3, <2>2, <2>4, <2>5
<1>8. FwType'
  BY <1>1, <1>2, <1>3, <1>4, <1>5 DEF FwInv, FwType
<1>9. Noted' /\ Taken' /\ Unpacked'
  BY <1>1, <1>6 DEF FwInv, Noted, Taken, Unpacked
<1>10. Placed'
  <2>1. HeaderFits => length' = FileEnd'
    <3>1. at' # <<>>
      BY <1>2, <1>5
    <3>2. FileEnd' = e.offset + Padded(e.len)
      BY <1>1, <1>5, <3>1 DEF FileEnd
    <3>. QED
      BY <1>1, <1>7, <3>2
  <2>2. HeaderFits => \A i \in 1..n + 1 : at'[i] = info[i].offset
    <3>1. HeaderFits => \A i \in 1..n : at'[i] = info[i].offset
      BY <1>5 DEF FwInv, Placed, n
    <3>2. HeaderFits => at'[n + 1] = info[n + 1].offset
      BY <1>5, <1>7
    <3>3. \A i \in 1..n + 1 : i \in 1..n \/ i = n + 1
      BY <1>2
    <3>. QED
      BY <3>1, <3>2, <3>3
  <2>3. HeaderFits /\ ~cut => \A i \in 1..n + 1 : info[i].offset + info[i].len <= length'
    <3>. SUFFICES ASSUME HeaderFits, ~cut, NEW i \in 1..n + 1
                  PROVE  info[i].offset + info[i].len <= length'
      OBVIOUS
    <3>1. CASE i = n + 1
      BY <1>1, <1>2, <1>4, <1>7, <3>1
    <3>2. CASE i \in 1..n
      <4>1. info[i].offset + info[i].len <= length
        BY <3>2 DEF FwInv, Placed, n
      <4>2. info[i] \in Entry
        BY <1>2, <1>3, <3>2, ElementOfSeq
      <4>3. info[i].offset \in Nat /\ info[i].len \in Nat
        BY <4>2 DEF Entry
      <4>. QED
        BY <1>1, <1>2, <1>4, <4>1, <4>3
    <3>. QED
      BY <1>2, <3>1, <3>2
  <2>4. ~cut /\ info # <<>>
    BY <1>1 DEF FwInv, Placed
  <2>. QED
    BY <1>1, <1>5, <1>6, <2>1, <2>2, <2>3, <2>4 DEF Placed
<1>. QED
  BY <1>8, <1>9, <1>10 DEF FwInv

LEMMA ShipInv ==
  ASSUME FwInv, Ship
  PROVE  FwInv'
<1>1. /\ phase = "write" /\ phase' = "shipped" /\ Len(at) = Len(info)
      /\ length' \in {length, at[Len(at)] + 8}
      /\ cut' = (length' < length)
      /\ UNCHANGED <<size, names, hisi, asked, info, at, filed, done, out>>
  BY DEF Ship, inputVars, packVars
<1>2. at \in Seq(Nat) /\ Len(at) \in Nat /\ length \in Nat
  BY LenProperties DEF FwInv, FwType
<1>3. at # <<>> => at[Len(at)] \in Nat
  BY <1>2, EmptySeq, ElementOfSeq
<1>4. info # <<>> /\ at # <<>>
  <2>1. info # <<>>
    BY <1>1 DEF FwInv, Placed
  <2>. QED
    BY <1>1, <2>1, EmptySeq, LenProperties DEF FwInv, FwType
<1>5. FwType'
  BY <1>1, <1>2, <1>3, <1>4 DEF FwInv, FwType
<1>6. HeaderFits' = HeaderFits
  BY <1>1 DEF HeaderFits, HeaderLen, HeaderText
<1>7. Noted' /\ Taken' /\ Unpacked'
  BY <1>1 DEF FwInv, Noted, Taken, Unpacked
<1>8. ASSUME ~cut' PROVE length' >= length
  <2>1. length' \in Nat
    BY <1>1, <1>2, <1>3, <1>4
  <2>2. ~(length' < length)
    BY <1>1, <1>8
  <2>. QED
    BY <1>2, <2>1, <2>2
<1>9. Placed'
  <2>1. ASSUME HeaderFits, ~cut', NEW i \in 1..Len(at)
        PROVE  info[i].offset + info[i].len <= length'
    <3>1. info[i].offset + info[i].len <= length
      BY <1>1, <2>1 DEF FwInv, Placed
    <3>2. info[i] \in Entry
      BY <1>1, <2>1, ElementOfSeq DEF FwInv, FwType
    <3>3. info[i].offset \in Nat /\ info[i].len \in Nat
      BY <3>2 DEF Entry
    <3>. QED
      <4>1. length' \in Nat /\ length' >= length
        BY <1>5, <1>8, <2>1 DEF FwType
      <4>. QED
        BY <1>2, <3>1, <3>3, <4>1
  <2>. QED
    BY <1>1, <1>4, <1>6, <2>1 DEF FwInv, Placed
<1>. QED
  BY <1>5, <1>7, <1>9 DEF FwInv

\* Every entry of the header is filed under its own kind.
LEMMA ReadHeaderInv ==
  ASSUME FwInv, ReadHeader
  PROVE  FwInv'
<1>1. /\ phase = "shipped" /\ phase' = "unpack"
      /\ filed' = [k \in Kinds |->
                    IF \E i \in 1..Len(info) : info[i].kind = k
                    THEN info[CHOOSE i \in 1..Len(info) : info[i].kind = k] ELSE <<>>]
      /\ UNCHANGED <<size, names, hisi, asked, info, at, length, done, out, cut>>
  BY DEF ReadHeader, inputVars, packVars
<1>2. /\ done = 0 /\ out = [k \in Kinds |-> "none"]
      /\ info \in Seq(Entry) /\ Len(info) \in Nat
  BY <1>1, LenProperties DEF FwInv, FwType, Taken
<1>3. \A i \in 1..Len(info) : info[i].kind \in Kinds
  <2>. SUFFICES ASSUME NEW i \in 1..Len(info) PROVE info[i].kind \in Kinds
    OBVIOUS
  <2>1. info[i] \in Entry
    BY <1>2, ElementOfSeq
  <2>. QED
    BY <2>1 DEF Entry
<1>4. Kinds \subseteq Nat \ {0}
  BY FirmwareAssumption, LenProperties
<1>5. \A i \in 1..Len(info) : filed'[info[i].kind] = info[i]
  <2>. SUFFICES ASSUME NEW i \in 1..Len(info) PROVE filed'[info[i].kind] = info[i]
    OBVIOUS
  <2>. DEFINE c == CHOOSE j \in 1..Len(info) : info[j].kind = info[i].kind
  <2>1. c \in 1..Len(info) /\ info[c].kind = info[i].kind
    OBVIOUS
  <2>2. c = i
    BY <2>1 DEF FwInv, Noted
  <2>. QED
    BY <1>1, <1>3, <2>2
<1>6. \A k \in Kinds : (\A i \in 1..Len(info) : info[i].kind # k) => filed'[k] = <<>>
  BY <1>1
<1>7. FwType' /\ Noted' /\ Placed'
  <2>1. HeaderFits' = HeaderFits
    BY <1>1 DEF HeaderFits, HeaderLen, HeaderText
  <2>2. FwType'
    BY <1>1 DEF FwInv, FwType
  <2>3. Noted'
    BY <1>1 DEF FwInv, Noted
  <2>4. Placed'
    BY <1>1, <2>1 DEF FwInv, Placed
  <2>. QED
    BY <2>2, <2>3, <2>4
<1>8. Taken'
  <2>1. \A i \in 1..Len(info) : filed'[info'[i].kind] = info'[i]
    BY <1>1, <1>5
  <2>2. \A k \in Kinds : (\A i \in 1..Len(info) : info'[i].kind # k) => filed'[k] = <<>>
    BY <1>1, <1>6
  <2>. QED
    BY <1>1, <1>2, <2>1, <2>2 DEF Taken
<1>9. Unpacked'
  <2>1. \A i \in 1..Len(info) : out[info[i].kind] = "none" /\ ~(info[i].kind <= done)
    <3>1. \A i \in 1..Len(info) : out[info[i].kind] = "none"
      BY <1>2, <1>3
    <3>2. \A i \in 1..Len(info) : info[i].kind \in Nat \ {0}
      BY <1>3, <1>4
    <3>. QED
      BY <1>2, <3>1, <3>2
  <2>. QED
    BY <1>1, <2>1 DEF Unpacked
<1>. QED
  BY <1>7, <1>8, <1>9 DEF FwInv

\* A slot that is filled holds an image that is where the header says and comes
\* out whole.
LEMMA ExtractInv ==
  ASSUME FwInv, Extract
  PROVE  FwInv'
<1>. DEFINE k == done + 1
<1>1. /\ phase = "unpack" /\ phase' \in {"unpack", "spin"}
      /\ k <= Len(info) /\ done' = k
      /\ out' \in {out, [out EXCEPT ![k] = "whole"], [out EXCEPT ![k] = "garbage"]}
      /\ UNCHANGED <<size, names, hisi, asked, info, at, length, filed, cut>>
  BY LenProperties DEF Extract, inputVars, packVars, FwInv, FwType
<1>2. /\ info \in Seq(Entry) /\ Len(info) \in Nat /\ done \in Nat /\ length \in Nat
      /\ Len(info) <= Len(Order) /\ Len(Order) \in Nat
  BY LenProperties, FirmwareAssumption DEF FwInv, FwType
<1>3. k \in Kinds /\ Kinds \subseteq Nat \ {0} /\ DOMAIN out = Kinds
  BY <1>1, <1>2, FirmwareAssumption DEF FwInv, Taken
<1>4. HeaderFits' = HeaderFits
  BY <1>1 DEF HeaderFits, HeaderLen, HeaderText
<1>5. FwType'
  BY <1>1, <1>2 DEF FwInv, FwType
<1>6. Noted' /\ Placed' /\ Taken'
  BY <1>1, <1>4 DEF FwInv, Noted, Placed, Taken
<1>7. \A i \in 1..Len(info) : info[i].kind \in Kinds /\ info[i] # <<>>
  <2>. SUFFICES ASSUME NEW i \in 1..Len(info) PROVE info[i].kind \in Kinds /\ info[i] # <<>>
    OBVIOUS
  <2>1. info[i] \in Entry
    BY <1>2, ElementOfSeq
  <2>. QED
    BY <2>1 DEF Entry
<1>8. ASSUME HeaderFits, ~cut, NEW i \in 1..Len(info), info[i].kind = k
      PROVE  out'[k] = "whole" /\ phase' = phase
  <2>1. filed[k] = info[i] /\ filed[k] # <<>>
    BY <1>1, <1>7, <1>8 DEF FwInv, Taken
  <2>2. at[i] = info[i].offset /\ info[i].offset + info[i].len <= length
    BY <1>1, <1>8 DEF FwInv, Placed
  <2>3. Stored(filed[k])
    BY <2>1, <2>2 DEF Stored
  <2>4. out' = [out EXCEPT ![k] = "whole"] /\ phase' = phase
    BY <2>1, <2>2, <2>3 DEF Extract
  <2>. QED
    BY <1>3, <2>4
<1>9. ASSUME HeaderFits, ~cut, NEW i \in 1..Len(info)
      PROVE  out'[info[i].kind] = IF info[i].kind <= done' THEN "whole" ELSE "none"
  <2>1. CASE info[i].kind = k
    BY <1>1, <1>2, <1>8, <1>9, <2>1
  <2>2. CASE info[i].kind # k
    <3>1. out'[info[i].kind] = out[info[i].kind]
      <4>1. info[i].kind \in DOMAIN out
        BY <1>3, <1>7
      <4>. QED
        BY <1>1, <2>2, <4>1
    <3>2. out[info[i].kind] = IF info[i].kind <= done THEN "whole" ELSE "none"
      BY <1>1, <1>9 DEF FwInv, Unpacked
    <3>3. info[i].kind <= done' <=> info[i].kind <= done
      BY <1>1, <1>2, <1>3, <1>7, <2>2
    <3>. QED
      BY <3>1, <3>2, <3>3
  <2>. QED
    BY <2>1, <2>2
<1>10. ASSUME HeaderFits, ~cut, \A j \in 1..Len(info) : filed[j] # <<>>
       PROVE  phase' # "spin"
  <2>1. filed[k] # <<>>
    BY <1>1, <1>2, <1>10
  <2>2. PICK i \in 1..Len(info) : info[i].kind = k
    BY <1>1, <1>3, <2>1 DEF FwInv, Taken
  <2>. QED
    BY <1>1, <1>8, <1>10, <2>2
<1>11. Unpacked'
  BY <1>1, <1>4, <1>9, <1>10 DEF Unpacked
<1>. QED
  BY <1>5, <1>6, <1>11 DEF FwInv

LEMMA FwStepInv ==
  ASSUME FwInv, [FwNext]_fwVars
  PROVE  FwInv'
<1>1. CASE UNCHANGED fwVars
  <2>1. HeaderFits' = HeaderFits
    BY <1>1 DEF fwVars, HeaderFits, HeaderLen, HeaderText
  <2>2. FwType' /\ Noted'
    BY <1>1 DEF fwVars, FwInv, FwType, Noted
  <2>3. Placed' /\ Taken' /\ Unpacked'
    BY <1>1, <2>1 DEF fwVars, FwInv, Placed, FileEnd, Taken, Unpacked
  <2>. QED
    BY <2>2, <2>3 DEF FwInv
<1>. QED
  BY <1>1, LookInv, WriteHeaderInv, WriteImageInv, ShipInv, ReadHeaderInv, ExtractInv
  DEF FwNext

-----------------------------------------------------------------------------
\* The layout the packer computes before it writes anything is the layout of the
\* file (zw_encpack/main.cc:83-91 against 226-231 and 272-276).
THEOREM FirmwareInvariant == FwSpec => []FwInv
<1>1. FwInit => FwInv
  BY FwInitInv
<1>2. FwInv /\ [FwNext]_fwVars => FwInv'
  BY FwStepInv
<1>. QED
  BY <1>1, <1>2, PTL DEF FwSpec

\* While the header keeps within one unit, every image begins at its noted offset
\* (zw_encpack/main.cc:83-91).
THEOREM OffsetsAreRight == FwSpec => []OffsetsRight
<1>1. FwInv => OffsetsRight
  BY DEF FwInv, Placed, OffsetsRight
<1>. QED
  BY <1>1, FirmwareInvariant, PTL

\* The unpacker takes out whole what it looks for, and comes to its end unless a
\* kind is missing below (zw_decpack/main.cc:134 and 147).
THEOREM ImagesComeOut == FwSpec => []Unpacked
<1>1. FwInv => Unpacked
  BY DEF FwInv
<1>. QED
  BY <1>1, FirmwareInvariant, PTL

-----------------------------------------------------------------------------
\* FastString: the counted blocks.

StrType ==
  /\ of \in [Handle -> Block \cup {None}]
  /\ owner \in [Handle -> Thread]
  /\ refn \in [Block -> Int]
  /\ live \subseteq Block
  /\ grow \in [Thread -> Handle \cup {None}]
  /\ gave \in [Thread -> BOOLEAN]
  /\ misread \in BOOLEAN /\ raced \in BOOLEAN

\* A thread makes a string of its own grow, one that has a block.
Growing ==
  /\ \A t \in Thread : grow[t] # None => owner[grow[t]] = t /\ of[grow[t]] # None
  /\ \A t \in Thread : gave[t] => grow[t] # None

\* What the look at the count has seen stays true until the share is given back.
StillShared ==
  ~raced => \A t \in Thread : grow[t] # None /\ ~gave[t] => refn[of[grow[t]]] > 1

StrInv == StrType /\ Growing /\ StillShared /\ SharesSound

\* Handle h counts as a share of its block.
Counts(h) == ~(grow[owner[h]] = h /\ gave[owner[h]])

-----------------------------------------------------------------------------
LEMMA SharersFinite ==
  ASSUME NEW b
  PROVE  /\ IsFiniteSet(Sharers(b)) /\ Cardinality(Sharers(b)) \in Nat
         /\ Sharers(b) = {h \in Handle : of[h] = b /\ Counts(h)}
<1>1. Sharers(b) = {h \in Handle : of[h] = b /\ Counts(h)}
  BY DEF Sharers, Counts
<1>2. IsFiniteSet(Sharers(b))
  BY <1>1, StringAssumption, FS_Subset
<1>. QED
  BY <1>1, <1>2, FS_CardinalityType

LEMMA SharersFiniteNext ==
  ASSUME NEW b
  PROVE  /\ IsFiniteSet(Sharers(b)') /\ Cardinality(Sharers(b)') \in Nat
         /\ Sharers(b)' = {h \in Handle : of'[h] = b /\ Counts(h)'}
<1>1. Sharers(b)' = {h \in Handle : of'[h] = b /\ Counts(h)'}
  BY DEF Sharers, Counts
<1>2. IsFiniteSet(Sharers(b)')
  BY <1>1, StringAssumption, FS_Subset
<1>. QED
  BY <1>1, <1>2, FS_CardinalityType

\* A handle of a thread that makes nothing grow counts, and no thread makes it grow.
LEMMA OwnCounts ==
  ASSUME StrInv, NEW h \in Handle, Own(h)
  PROVE  Counts(h) /\ h # None /\ \A u \in Thread : grow[u] # h
<1>1. h # None
  BY StringAssumption
<1>2. owner[h] \in Thread
  BY DEF StrInv, StrType
<1>. QED
  BY <1>1, <1>2 DEF StrInv, Growing, Own, Counts

\* A handle with a block has a share: the count is that of the sharers.
LEMMA ShareCounted ==
  ASSUME StrInv, ~raced, NEW h \in Handle, of[h] # None, Counts(h)
  PROVE  /\ of[h] \in Block /\ of[h] \in live /\ h \in Sharers(of[h])
         /\ refn[of[h]] = Cardinality(Sharers(of[h])) /\ refn[of[h]] \in Nat
         /\ \A g \in Sharers(of[h]) : g # h => refn[of[h]] > 1
<1>1. of[h] \in Block /\ of[h] \in live /\ refn[of[h]] = Cardinality(Sharers(of[h]))
  BY DEF StrInv, StrType, SharesSound
<1>2. h \in Sharers(of[h])
  BY SharersFinite
<1>3. ASSUME NEW g \in Sharers(of[h]), g # h
      PROVE  refn[of[h]] > 1
  <2>1. Cardinality(Sharers(of[h]) \ {h}) = Cardinality(Sharers(of[h])) - 1
    BY <1>2, SharersFinite, FS_RemoveElement
  <2>2. /\ IsFiniteSet(Sharers(of[h]) \ {h})
        /\ g \in Sharers(of[h]) \ {h}
    BY <1>3, SharersFinite, FS_RemoveElement
  <2>3. Cardinality(Sharers(of[h]) \ {h}) # 0
    BY <2>2, FS_EmptySet
  <2>4. Cardinality(Sharers(of[h]) \ {h}) \in Nat
    BY <2>2, FS_CardinalityType
  <2>. QED
    BY <1>1, <2>1, <2>3, <2>4, SharersFinite
<1>. QED
  BY <1>1, <1>2, <1>3, SharersFinite

-----------------------------------------------------------------------------
\* What giving a share back keeps, for whatever the handle gets instead: it is
\* enough that the counts are those of the sharers afterwards.
LEMMA GiveBackKeeps ==
  ASSUME StrInv, NEW h \in Handle, Own(h), NEW b \in Block \cup {None}, NEW keeps \in BOOLEAN,
         GiveBack(h, b, keeps),
         UNCHANGED <<owner, grow, gave, misread>>,
         of' \in [Handle -> Block \cup {None}],
         \A u \in Thread : grow[u] # None => of'[grow[u]] = of[grow[u]],
         ~raced' => /\ \A k \in Handle : of'[k] # None => \E j \in Handle : of'[k] = of[j]
                    /\ \A c \in live : refn'[c] = Cardinality(Sharers(c)')
                    /\ keeps /\ b # None /\ b = of[h] => refn[b] > 1
  PROVE  StrInv'
<1>. DEFINE a == of[h]
            rest == IF a = None THEN refn ELSE [refn EXCEPT ![a] = @ - 1]
<1>1. /\ refn' = IF keeps THEN Counted(rest, b) ELSE rest
      /\ live' = IF a # None /\ rest[a] = 0 THEN live \ {a} ELSE live
      /\ raced' = (raced \/ (a # None /\ Race(owner[h], a)))
  BY DEF GiveBack
<1>2. a \in Block \cup {None} /\ None \notin Block
  BY StringAssumption DEF StrInv, StrType
<1>3. rest \in [Block -> Int]
  BY <1>2 DEF StrInv, StrType
<1>4. refn' \in [Block -> Int]
  BY <1>1, <1>2, <1>3 DEF Counted
<1>5. StrType'
  BY <1>1, <1>4 DEF StrInv, StrType
<1>6. Growing'
  BY DEF StrInv, Growing
<1>7. ASSUME ~raced'
      PROVE  SharesSound' /\ StillShared'
  <2>1. ~raced /\ (a # None => ~Race(owner[h], a))
    BY <1>1, <1>7
  <2>2. Counts(h) /\ \A u \in Thread : grow[u] # h
    BY OwnCounts
  <2>3. \A u \in Thread : grow[u] # None /\ a # None => of[grow[u]] # a
    <3>. SUFFICES ASSUME NEW u \in Thread, grow[u] # None, a # None PROVE of[grow[u]] # a
      OBVIOUS
    <3>1. u # owner[h]
      BY DEF Own
    <3>. QED
      BY <2>1, <3>1 DEF Race
  <2>4. a # None => a \in live /\ refn[a] \in Nat /\ refn[a] > 0 /\ rest[a] = refn[a] - 1
    BY <1>2, <2>1, <2>2, ShareCounted DEF StrInv, StrType, SharesSound
  <2>5. \A c \in Block : c # a => rest[c] = refn[c]
    BY <1>2 DEF StrInv, StrType
  <2>6. \A c \in Block : refn'[c] = rest[c] \/ (refn'[c] = rest[c] + 1 /\ keeps /\ c = b /\ b # None)
    BY <1>1, <1>2, <1>3 DEF Counted
  <2>7. \A c \in live : refn'[c] = Cardinality(Sharers(c)')
    BY <1>7
  <2>8. \A c \in live' : refn'[c] > 0
    <3>. SUFFICES ASSUME NEW c \in live' PROVE refn'[c] > 0
      OBVIOUS
    <3>1. c \in live /\ c \in Block /\ (c = a => rest[c] # 0)
      BY <1>1, <1>2 DEF StrInv, StrType
    <3>2. refn[c] \in Int /\ refn[c] > 0
      BY <2>1, <3>1 DEF StrInv, StrType, SharesSound
    <3>3. rest[c] \in Int /\ rest[c] > 0
      <4>1. CASE c = a
        BY <1>2, <2>4, <3>1, <3>2, <4>1
      <4>2. CASE c # a
        BY <2>5, <3>1, <3>2, <4>2
      <4>. QED
        BY <4>1, <4>2
    <3>. QED
      BY <2>6, <3>1, <3>3
  <2>9. \A k \in Handle : of'[k] # None => of'[k] \in live'
    <3>. SUFFICES ASSUME NEW k \in Handle, of'[k] # None PROVE of'[k] \in live'
      OBVIOUS
    <3>1. of'[k] \in live
      BY <1>7, <2>1 DEF StrInv, SharesSound
    <3>. SUFFICES ASSUME of'[k] = a, a # None, rest[a] = 0 PROVE FALSE
      BY <1>1, <3>1
    <3>2. refn'[a] = 0
      <4>1. refn[a] = 1
        BY <2>4
      <4>2. ~(keeps /\ a = b /\ b # None)
        BY <1>7, <4>1
      <4>. QED
        BY <1>2, <2>6, <4>2
    <3>. PICK d \in live : d = a
      BY <2>4
    <3>3. Sharers(d)' = {}
      BY <2>7, <3>2, SharersFiniteNext, FS_EmptySet
    <3>4. ~Counts(k)'
      BY <3>3, SharersFiniteNext
    <3>5. grow[owner[k]] = k /\ owner[k] \in Thread /\ k # None
      BY <3>4, StringAssumption DEF Counts, StrInv, StrType
    <3>. QED
      BY <2>3, <3>5
  <2>10. SharesSound'
    <3>1. ~misread'
      BY <2>1 DEF StrInv, SharesSound
    <3>2. live' \subseteq live
      BY <1>1
    <3>. QED
      BY <2>7, <2>8, <2>9, <3>1, <3>2 DEF SharesSound
  <2>11. StillShared'
    <3>. SUFFICES ASSUME NEW u \in Thread, grow[u] # None, ~gave[u] PROVE refn'[of[grow[u]]] > 1
      BY DEF StillShared
    <3>1. grow[u] \in Handle /\ of[grow[u]] # None
      BY DEF StrInv, StrType, Growing
    <3>2. of[grow[u]] \in Block /\ of[grow[u]] # a /\ refn[of[grow[u]]] > 1
      BY <2>1, <2>3, <3>1 DEF StrInv, StrType, StillShared
    <3>3. rest[of[grow[u]]] = refn[of[grow[u]]] /\ refn[of[grow[u]]] \in Int
      BY <2>5, <3>2 DEF StrInv, StrType
    <3>. QED
      BY <2>6, <3>2, <3>3
  <2>. QED
    BY <2>10, <2>11
<1>8. raced' => SharesSound' /\ StillShared'
  BY DEF SharesSound, StillShared
<1>. QED
  BY <1>5, <1>6, <1>7, <1>8 DEF StrInv

\* The copy counts one more, and the block that was shared before one less.
LEMMA AssignInv ==
  ASSUME StrInv, NEW h \in Handle, NEW g \in Handle, Assign(h, g)
  PROVE  StrInv'
<1>1. /\ Own(h) /\ Own(g) /\ owner[g] = owner[h] /\ h # g
      /\ GiveBack(h, of[g], TRUE)
      /\ of' = [of EXCEPT ![h] = of[g]]
      /\ UNCHANGED <<owner, grow, gave, misread>>
  BY DEF Assign, Own
<1>2. /\ of \in [Handle -> Block \cup {None}] /\ refn \in [Block -> Int] /\ live \subseteq Block
      /\ None \notin Block
  BY StringAssumption DEF StrInv, StrType
<1>3. of' \in [Handle -> Block \cup {None}]
  BY <1>1, <1>2
<1>4. /\ of'[h] = of[g]
      /\ \A k \in Handle : k # h => of'[k] = of[k]
  BY <1>1, <1>2
<1>5. /\ Counts(h) /\ Counts(g)
      /\ \A u \in Thread : grow[u] # h
      /\ \A k \in Handle : Counts(k)' = Counts(k)
  BY <1>1, OwnCounts DEF Counts
<1>6. \A u \in Thread : grow[u] # None => of'[grow[u]] = of[grow[u]]
  BY <1>4, <1>5 DEF StrInv, StrType
<1>7. ASSUME ~raced'
      PROVE  /\ \A c \in live : refn'[c] = Cardinality(Sharers(c)')
             /\ of[g] # None /\ of[g] = of[h] => refn[of[g]] > 1
  <2>1. ~raced
    BY <1>1, <1>7 DEF GiveBack
  <2>2. ASSUME NEW c \in live
        PROVE  refn'[c] = Cardinality(Sharers(c)')
    <3>. DEFINE less == Sharers(c) \ {h}
    <3>1. refn[c] = Cardinality(Sharers(c)) /\ c \in Block /\ c # None /\ refn[c] \in Int
      BY <1>2, <2>1, <2>2 DEF StrInv, SharesSound
    <3>2. /\ of[h] = c => h \in Sharers(c)
          /\ of[h] # c => h \notin Sharers(c)
      BY <1>5, SharersFinite
    <3>3. /\ IsFiniteSet(less) /\ h \notin less
          /\ Cardinality(less) = IF of[h] = c THEN refn[c] - 1 ELSE refn[c]
      BY <3>1, <3>2, SharersFinite, FS_RemoveElement
    <3>4. Sharers(c)' = IF of[g] = c THEN less \cup {h} ELSE less
      BY <1>4, <1>5, SharersFinite, SharersFiniteNext
    <3>. HIDE DEF less
    <3>5. Cardinality(Sharers(c)') = IF of[g] = c THEN Cardinality(less) + 1 ELSE Cardinality(less)
      BY <3>3, <3>4, FS_AddElement
    <3>6. refn'[c] = IF of[g] = c THEN (IF of[h] = c THEN refn[c] - 1 ELSE refn[c]) + 1
                     ELSE IF of[h] = c THEN refn[c] - 1 ELSE refn[c]
      BY <1>1, <1>2, <3>1 DEF GiveBack, Counted
    <3>. QED
      BY <3>3, <3>5, <3>6
  <2>3. ASSUME of[g] # None, of[g] = of[h]
        PROVE  refn[of[g]] > 1
    <3>1. g \in Sharers(of[h])
      BY <1>5, <2>3, SharersFinite
    <3>. QED
      BY <1>1, <1>5, <2>1, <2>3, <3>1, ShareCounted
  <2>. QED
    BY <2>2, <2>3
<1>8. \A k \in Handle : of'[k] # None => \E j \in Handle : of'[k] = of[j]
  BY <1>4
<1>9. of[g] \in Block \cup {None} /\ TRUE \in BOOLEAN
  BY <1>2
<1>. QED
  BY <1>1, <1>3, <1>6, <1>7, <1>8, <1>9, GiveBackKeeps

\* A move passes the share on; one to the string itself gives it back.
LEMMA MoveInv ==
  ASSUME StrInv, NEW h \in Handle, NEW g \in Handle, Move(h, g)
  PROVE  StrInv'
<1>1. /\ Own(h) /\ Own(g) /\ owner[g] = owner[h]
      /\ GiveBack(h, of[g], FALSE)
      /\ of' = [of EXCEPT ![h] = of[g], ![g] = None]
      /\ UNCHANGED <<owner, grow, gave, misread>>
  BY DEF Move, Own
<1>2. /\ of \in [Handle -> Block \cup {None}] /\ refn \in [Block -> Int] /\ live \subseteq Block
      /\ None \notin Block
  BY StringAssumption DEF StrInv, StrType
<1>3. of' \in [Handle -> Block \cup {None}]
  BY <1>1, <1>2
<1>4. /\ of'[g] = None /\ (h # g => of'[h] = of[g])
      /\ \A k \in Handle : k # h /\ k # g => of'[k] = of[k]
  BY <1>1, <1>2
<1>5. /\ Counts(h) /\ Counts(g)
      /\ \A u \in Thread : grow[u] # h /\ grow[u] # g
      /\ \A k \in Handle : Counts(k)' = Counts(k)
  BY <1>1, OwnCounts DEF Counts
<1>6. \A u \in Thread : grow[u] # None => of'[grow[u]] = of[grow[u]]
  BY <1>4, <1>5 DEF StrInv, StrType
<1>7. ASSUME ~raced', NEW c \in live
      PROVE  refn'[c] = Cardinality(Sharers(c)')
  <2>1. ~raced
    BY <1>1, <1>7 DEF GiveBack
  <2>. DEFINE less == Sharers(c) \ {h}
              none == less \ {g}
  <2>2. refn[c] = Cardinality(Sharers(c)) /\ c \in Block /\ c # None /\ refn[c] \in Int
    BY <1>2, <1>7, <2>1 DEF StrInv, SharesSound
  <2>3. /\ of[h] = c <=> h \in Sharers(c)
        /\ of[g] = c <=> g \in Sharers(c)
    BY <1>5, SharersFinite
  <2>4. /\ IsFiniteSet(less) /\ h \notin less
        /\ Cardinality(less) = IF of[h] = c THEN refn[c] - 1 ELSE refn[c]
        /\ g \in less <=> of[g] = c /\ g # h
    BY <2>2, <2>3, SharersFinite, FS_RemoveElement
  <2>5. refn'[c] = IF of[h] = c THEN refn[c] - 1 ELSE refn[c]
    BY <1>1, <1>2, <2>2 DEF GiveBack
  <2>6. Sharers(c)' = IF of[g] = c /\ g # h THEN none \cup {h} ELSE less
    <3>1. CASE of[g] = c /\ g # h
      BY <1>4, <1>5, <2>2, <3>1, SharersFinite, SharersFiniteNext
    <3>2. CASE g = h
      BY <1>4, <1>5, <2>2, <3>2, SharersFinite, SharersFiniteNext
    <3>3. CASE of[g] # c /\ g # h
      BY <1>4, <1>5, <2>2, <3>3, SharersFinite, SharersFiniteNext
    <3>. QED
      BY <3>1, <3>2, <3>3
  <2>. HIDE DEF less
  <2>7. CASE of[g] = c /\ g # h
    <3>1. IsFiniteSet(none) /\ h \notin none /\ Cardinality(none) = Cardinality(less) - 1
      BY <2>4, <2>7, FS_RemoveElement
    <3>2. Cardinality(none \cup {h}) = Cardinality(none) + 1
      BY <3>1, FS_AddElement
    <3>3. Cardinality(less) \in Int
      BY <2>4, FS_CardinalityType
    <3>. QED
      BY <2>4, <2>5, <2>6, <2>7, <3>1, <3>2, <3>3
  <2>8. CASE ~(of[g] = c /\ g # h)
    BY <2>4, <2>5, <2>6, <2>8
  <2>. QED
    BY <2>7, <2>8
<1>8. \A k \in Handle : of'[k] # None => \E j \in Handle : of'[k] = of[j]
  BY <1>4
<1>9. of[g] \in Block \cup {None} /\ FALSE \in BOOLEAN
  BY <1>2
<1>. QED
  BY <1>1, <1>3, <1>6, <1>7, <1>8, <1>9, GiveBackKeeps

LEMMA DestructInv ==
  ASSUME StrInv, NEW h \in Handle, Destruct(h)
  PROVE  StrInv'
<1>1. /\ Own(h) /\ of[h] # None
      /\ GiveBack(h, None, FALSE)
      /\ of' = [of EXCEPT ![h] = None]
      /\ UNCHANGED <<owner, grow, gave, misread>>
  BY DEF Destruct
<1>2. /\ of \in [Handle -> Block \cup {None}] /\ refn \in [Block -> Int] /\ live \subseteq Block
      /\ None \notin Block
  BY StringAssumption DEF StrInv, StrType
<1>3. /\ of' \in [Handle -> Block \cup {None}] /\ of'[h] = None
      /\ \A k \in Handle : k # h => of'[k] = of[k]
  BY <1>1, <1>2
<1>4. /\ Counts(h)
      /\ \A u \in Thread : grow[u] # h
      /\ \A k \in Handle : Counts(k)' = Counts(k)
  BY <1>1, OwnCounts DEF Counts
<1>5. \A u \in Thread : grow[u] # None => of'[grow[u]] = of[grow[u]]
  BY <1>3, <1>4 DEF StrInv, StrType
<1>6. ASSUME ~raced', NEW c \in live
      PROVE  refn'[c] = Cardinality(Sharers(c)')
  <2>1. ~raced
    BY <1>1, <1>6 DEF GiveBack
  <2>2. refn[c] = Cardinality(Sharers(c)) /\ c \in Block /\ c # None /\ refn[c] \in Int
    BY <1>2, <1>6, <2>1 DEF StrInv, SharesSound
  <2>3. of[h] = c <=> h \in Sharers(c)
    BY <1>4, SharersFinite
  <2>4. Cardinality(Sharers(c) \ {h}) = IF of[h] = c THEN refn[c] - 1 ELSE refn[c]
    BY <2>2, <2>3, SharersFinite, FS_RemoveElement
  <2>5. refn'[c] = IF of[h] = c THEN refn[c] - 1 ELSE refn[c]
    BY <1>1, <1>2, <2>2 DEF GiveBack
  <2>6. Sharers(c)' = Sharers(c) \ {h}
    BY <1>3, <1>4, <2>2, SharersFinite, SharersFiniteNext
  <2>. QED
    BY <2>4, <2>5, <2>6
<1>7. \A k \in Handle : of'[k] # None => \E j \in Handle : of'[k] = of[j]
  BY <1>3
<1>8. None \in Block \cup {None} /\ FALSE \in BOOLEAN
  OBVIOUS
<1>. QED
  BY <1>1, <1>3, <1>5, <1>6, <1>7, <1>8, GiveBackKeeps

-----------------------------------------------------------------------------
\* A new block for a handle that has no share: its own count is 1, and no other
\* count changes, as nothing points to a block that is not allocated.
LEMMA FreshKeeps ==
  ASSUME StrInv, NEW h \in Handle, Fresh(h),
         of[h] # None => ~Counts(h),
         \A u \in Thread : grow'[u] # None => grow'[u] # h /\ grow'[u] = grow[u] /\ gave'[u] = gave[u],
         \A k \in Handle : k # h => Counts(k)' = Counts(k),
         Counts(h)',
         ~raced' => ~misread',
         UNCHANGED <<owner, raced>>
  PROVE  /\ of' \in [Handle -> Block \cup {None}] /\ refn' \in [Block -> Int] /\ live' \subseteq Block
         /\ \A k \in Handle : k # h => of'[k] = of[k]
         /\ SharesSound' /\ StillShared'
<1>1. PICK b \in Block \ live :
        /\ of' = [of EXCEPT ![h] = b]
        /\ refn' = [refn EXCEPT ![b] = 1]
        /\ live' = live \cup {b}
  BY DEF Fresh
<1>2. /\ of \in [Handle -> Block \cup {None}] /\ refn \in [Block -> Int] /\ live \subseteq Block
      /\ None \notin Block
  BY StringAssumption DEF StrInv, StrType
<1>3. /\ of' \in [Handle -> Block \cup {None}] /\ refn' \in [Block -> Int] /\ live' \subseteq Block
      /\ of'[h] = b /\ refn'[b] = 1
      /\ \A k \in Handle : k # h => of'[k] = of[k]
      /\ \A c \in Block : c # b => refn'[c] = refn[c]
  BY <1>1, <1>2
<1>4. ASSUME ~raced
      PROVE  SharesSound' /\ StillShared'
  <2>1. /\ \A c \in live : refn[c] = Cardinality(Sharers(c)) /\ refn[c] > 0
        /\ \A k \in Handle : of[k] # None => of[k] \in live
    BY <1>4 DEF StrInv, SharesSound
  <2>2. Sharers(b)' = {h}
    BY <1>1, <1>2, <1>3, <2>1, SharersFiniteNext
  <2>3. refn'[b] = Cardinality(Sharers(b)')
    BY <1>3, <2>2, FS_Singleton
  <2>4. ASSUME NEW c \in live
        PROVE  refn'[c] = Cardinality(Sharers(c)') /\ refn'[c] > 0
    <3>1. c # b /\ c \in Block /\ c # None
      BY <1>1, <1>2
    <3>2. Sharers(c)' = Sharers(c)
      BY <1>3, <3>1, SharersFinite, SharersFiniteNext
    <3>. QED
      BY <1>3, <2>1, <3>1, <3>2
  <2>5. SharesSound'
    BY <1>1, <1>3, <1>4, <2>1, <2>3, <2>4 DEF SharesSound
  <2>6. StillShared'
    <3>. SUFFICES ASSUME NEW u \in Thread, grow'[u] # None, ~gave'[u] PROVE refn'[of'[grow'[u]]] > 1
      BY DEF StillShared
    <3>1. /\ grow'[u] = grow[u] /\ grow[u] \in Handle /\ grow[u] # h
          /\ of[grow[u]] # None /\ refn[of[grow[u]]] > 1
      BY <1>4 DEF StrInv, StrType, Growing, StillShared
    <3>2. of[grow[u]] \in live /\ of[grow[u]] # b
      BY <1>1, <2>1, <3>1
    <3>. QED
      BY <1>2, <1>3, <3>1, <3>2
  <2>. QED
    BY <2>5, <2>6
<1>5. raced => SharesSound' /\ StillShared'
  BY DEF SharesSound, StillShared
<1>. QED
  BY <1>3, <1>4, <1>5

LEMMA ConstructInv ==
  ASSUME StrInv, NEW h \in Handle, Construct(h)
  PROVE  StrInv'
<1>1. /\ Own(h) /\ of[h] = None /\ Fresh(h)
      /\ UNCHANGED <<owner, grow, gave, misread, raced>>
  BY DEF Construct
<1>2. /\ Counts(h) /\ \A u \in Thread : grow[u] # h
      /\ \A k \in Handle : Counts(k)' = Counts(k)
  BY <1>1, OwnCounts DEF Counts
<1>3. ~raced' => ~misread'
  BY <1>1 DEF StrInv, SharesSound
<1>4. /\ of' \in [Handle -> Block \cup {None}] /\ refn' \in [Block -> Int] /\ live' \subseteq Block
      /\ \A k \in Handle : k # h => of'[k] = of[k]
      /\ SharesSound' /\ StillShared'
  BY <1>1, <1>2, <1>3, FreshKeeps
<1>5. StrType'
  BY <1>1, <1>4 DEF StrInv, StrType
<1>6. Growing'
  BY <1>1, <1>2, <1>4 DEF StrInv, StrType, Growing
<1>. QED
  BY <1>4, <1>5, <1>6 DEF StrInv

\* The old block is still there to be copied, since its count was not the last.
LEMMA GrowCopyInv ==
  ASSUME StrInv, NEW t \in Thread, GrowCopy(t)
  PROVE  StrInv'
<1>1. PICK h \in Handle : h = grow[t]
  BY DEF GrowCopy, StrInv, StrType
<1>2. /\ h # None /\ gave[t] /\ Fresh(h)
      /\ misread' = (misread \/ of[h] \notin live)
      /\ grow' = [grow EXCEPT ![t] = None]
      /\ gave' = [gave EXCEPT ![t] = FALSE]
      /\ UNCHANGED <<owner, raced>>
  BY <1>1 DEF GrowCopy
<1>3. /\ owner[h] = t /\ of[h] # None /\ owner \in [Handle -> Thread]
      /\ grow \in [Thread -> Handle \cup {None}] /\ gave \in [Thread -> BOOLEAN]
  BY <1>1, <1>2 DEF StrInv, StrType, Growing
<1>4. /\ grow'[t] = None /\ ~gave'[t]
      /\ \A u \in Thread : u # t => grow'[u] = grow[u] /\ gave'[u] = gave[u]
  BY <1>2, <1>3
<1>5. \A u \in Thread : u # t => grow[u] # h
  BY <1>2, <1>3 DEF StrInv, Growing
<1>6. ~Counts(h) /\ Counts(h)'
  BY <1>1, <1>2, <1>3, <1>4 DEF Counts
<1>7. \A k \in Handle : k # h => Counts(k)' = Counts(k)
  <2>. SUFFICES ASSUME NEW k \in Handle, k # h PROVE Counts(k)' = Counts(k)
    OBVIOUS
  <2>1. CASE owner[k] = t
    BY <1>1, <1>2, <1>4, <2>1, StringAssumption DEF Counts
  <2>2. CASE owner[k] # t
    BY <1>2, <1>3, <1>4, <2>2 DEF Counts
  <2>. QED
    BY <2>1, <2>2
<1>8. ~raced' => ~misread'
  BY <1>2, <1>3 DEF StrInv, SharesSound
<1>9. \A u \in Thread : grow'[u] # None => grow'[u] # h /\ grow'[u] = grow[u] /\ gave'[u] = gave[u]
  BY <1>4, <1>5
<1>10. /\ of' \in [Handle -> Block \cup {None}] /\ refn' \in [Block -> Int] /\ live' \subseteq Block
       /\ \A k \in Handle : k # h => of'[k] = of[k]
       /\ SharesSound' /\ StillShared'
  BY <1>2, <1>6, <1>7, <1>8, <1>9, FreshKeeps
<1>11. StrType'
  <2>1. misread' \in BOOLEAN
    BY <1>2
  <2>. QED
    BY <1>2, <1>3, <1>10, <2>1 DEF StrInv, StrType
<1>12. Growing'
  BY <1>2, <1>3, <1>4, <1>9, <1>10 DEF StrInv, StrType, Growing
<1>. QED
  BY <1>10, <1>11, <1>12 DEF StrInv

\* The share given back was not the last one, unless another was given back since
\* the look at the count.
LEMMA GrowGiveInv ==
  ASSUME StrInv, NEW t \in Thread, GrowGive(t)
  PROVE  StrInv'
<1>1. PICK h \in Handle : h = grow[t]
  BY DEF GrowGive, StrInv, StrType
<1>2. PICK b \in Block : b = of[h]
  BY <1>1, StringAssumption DEF GrowGive, StrInv, StrType, Growing
<1>3. /\ h # None /\ ~gave[t]
      /\ refn' = [refn EXCEPT ![b] = @ - 1]
      /\ gave' = [gave EXCEPT ![t] = TRUE]
      /\ raced' = (raced \/ Race(t, b))
      /\ UNCHANGED <<of, owner, live, grow, misread>>
  BY <1>1, <1>2 DEF GrowGive
<1>4. /\ owner[h] = t /\ owner \in [Handle -> Thread] /\ refn \in [Block -> Int]
      /\ gave \in [Thread -> BOOLEAN] /\ live \subseteq Block
  BY <1>1, <1>3 DEF StrInv, StrType, Growing
<1>5. StrType'
  BY <1>2, <1>3, <1>4 DEF StrInv, StrType
<1>6. /\ gave'[t] /\ \A u \in Thread : u # t => gave'[u] = gave[u]
      /\ refn'[b] = refn[b] - 1 /\ \A c \in Block : c # b => refn'[c] = refn[c]
  BY <1>3, <1>4
<1>7. Growing'
  BY <1>1, <1>3, <1>6 DEF StrInv, Growing
<1>8. Counts(h) /\ ~Counts(h)' /\ \A k \in Handle : k # h => Counts(k)' = Counts(k)
  <2>1. Counts(h) /\ ~Counts(h)'
    BY <1>1, <1>3, <1>4, <1>6 DEF Counts
  <2>2. ASSUME NEW k \in Handle, k # h PROVE Counts(k)' = Counts(k)
    BY <1>1, <1>3, <1>4, <1>6, <2>2 DEF Counts
  <2>. QED
    BY <2>1, <2>2
<1>9. ASSUME ~raced'
      PROVE  SharesSound' /\ StillShared'
  <2>1. ~raced /\ \A u \in Thread \ {t} : grow[u] # None => of[grow[u]] # b
    BY <1>3, <1>9 DEF Race
  <2>2. refn[b] > 1 /\ refn[b] \in Int
    BY <1>1, <1>2, <1>3, <1>4, <2>1 DEF StrInv, StillShared
  <2>3. ASSUME NEW c \in live
        PROVE  refn'[c] = Cardinality(Sharers(c)') /\ refn'[c] > 0
    <3>1. refn[c] = Cardinality(Sharers(c)) /\ refn[c] > 0 /\ c \in Block
      BY <1>4, <2>1 DEF StrInv, SharesSound
    <3>2. CASE c = b
      <4>1. Sharers(c)' = Sharers(c) \ {h}
        BY <1>3, <1>8, SharersFinite, SharersFiniteNext
      <4>2. h \in Sharers(c)
        BY <1>2, <1>8, <3>2, SharersFinite
      <4>3. Cardinality(Sharers(c)') = Cardinality(Sharers(c)) - 1
        BY <4>1, <4>2, SharersFinite, FS_RemoveElement
      <4>. QED
        BY <1>6, <2>2, <3>1, <3>2, <4>3
    <3>3. CASE c # b
      <4>1. Sharers(c)' = Sharers(c)
        BY <1>2, <1>3, <1>8, <3>3, SharersFinite, SharersFiniteNext
      <4>. QED
        BY <1>6, <3>1, <3>3, <4>1
    <3>. QED
      BY <3>2, <3>3
  <2>4. SharesSound'
    BY <1>3, <2>1, <2>3 DEF StrInv, SharesSound
  <2>5. StillShared'
    <3>. SUFFICES ASSUME NEW u \in Thread, grow[u] # None, ~gave'[u] PROVE refn'[of[grow[u]]] > 1
      BY <1>3 DEF StillShared
    <3>1. u # t /\ ~gave[u]
      BY <1>6
    <3>2. of[grow[u]] # b /\ refn[of[grow[u]]] > 1 /\ of[grow[u]] \in Block
      BY <2>1, <3>1 DEF StrInv, StrType, Growing, StillShared
    <3>. QED
      BY <1>6, <3>2
  <2>. QED
    BY <2>4, <2>5
<1>10. raced' => SharesSound' /\ StillShared'
  BY DEF SharesSound, StillShared
<1>. QED
  BY <1>5, <1>7, <1>9, <1>10 DEF StrInv

\* A look at the count changes none, and neither does a handle that changes hands.
LEMMA LookOrHandInv ==
  ASSUME StrInv, NEW h \in Handle,
         GrowLook(h) \/ \E t \in Thread : HandOver(h, t)
  PROVE  StrInv'
<1>1. /\ Own(h) /\ Counts(h) /\ h # None /\ \A u \in Thread : grow[u] # h
  <2>1. Own(h)
    BY DEF GrowLook, HandOver
  <2>. QED
    BY <2>1, OwnCounts
<1>2. UNCHANGED <<of, refn, live, gave, misread, raced>>
  BY DEF GrowLook, HandOver
<1>3. /\ owner \in [Handle -> Thread] /\ grow \in [Thread -> Handle \cup {None}]
      /\ gave \in [Thread -> BOOLEAN] /\ owner[h] \in Thread /\ ~gave[owner[h]]
  BY <1>1 DEF StrInv, StrType, Growing, Own
<1>4. /\ StrType' /\ Growing'
      /\ \A k \in Handle : Counts(k)' = Counts(k)
      /\ \A u \in Thread : grow'[u] # None =>
           grow'[u] = grow[u] \/ (grow'[u] = h /\ of[h] # None /\ refn[of[h]] # 1)
  <2>1. CASE GrowLook(h)
    <3>1. /\ of[h] # None /\ refn[of[h]] # 1 /\ owner' = owner
          /\ grow' = [grow EXCEPT ![owner[h]] = h]
      BY <2>1 DEF GrowLook
    <3>2. /\ grow'[owner[h]] = h
          /\ \A u \in Thread : u # owner[h] => grow'[u] = grow[u]
      BY <1>3, <3>1
    <3>3. StrType'
      BY <1>2, <1>3, <3>1 DEF StrInv, StrType
    <3>4. Growing'
      BY <1>2, <1>3, <3>1, <3>2 DEF StrInv, Growing
    <3>5. ASSUME NEW k \in Handle PROVE Counts(k)' = Counts(k)
      BY <1>2, <1>3, <3>1, <3>2 DEF Counts
    <3>. QED
      BY <3>1, <3>2, <3>3, <3>4, <3>5
  <2>2. ASSUME NEW t \in Thread, HandOver(h, t)
        PROVE  StrType' /\ Growing' /\ grow' = grow /\ \A k \in Handle : Counts(k)' = Counts(k)
    <3>1. t # owner[h] /\ owner' = [owner EXCEPT ![h] = t] /\ grow' = grow
      BY <2>2 DEF HandOver
    <3>2. /\ owner'[h] = t /\ \A k \in Handle : k # h => owner'[k] = owner[k]
      BY <1>3, <3>1
    <3>3. StrType'
      BY <1>2, <1>3, <3>1 DEF StrInv, StrType
    <3>4. Growing'
      BY <1>1, <1>2, <1>3, <3>1, <3>2 DEF StrInv, Growing
    <3>5. ASSUME NEW k \in Handle PROVE Counts(k)' = Counts(k)
      BY <1>1, <1>2, <3>1, <3>2 DEF Counts
    <3>. QED
      BY <3>1, <3>3, <3>4, <3>5
  <2>. QED
    BY <2>1, <2>2
<1>5. SharesSound'
  <2>1. \A b \in Block : Sharers(b)' = Sharers(b)
    BY <1>2, <1>4, SharersFinite, SharersFiniteNext
  <2>2. live \subseteq Block
    BY DEF StrInv, StrType
  <2>. QED
    BY <1>2, <2>1, <2>2 DEF StrInv, SharesSound
<1>6. StillShared'
  <2>. SUFFICES ASSUME ~raced, NEW u \in Thread, grow'[u] # None, ~gave[u]
                PROVE  refn[of[grow'[u]]] > 1
    BY <1>2 DEF StillShared
  <2>1. CASE grow'[u] = grow[u]
    BY <2>1 DEF StrInv, StillShared
  <2>2. CASE grow'[u] = h /\ of[h] # None /\ refn[of[h]] # 1
    <3>1. of[h] \in live /\ refn[of[h]] > 0 /\ refn[of[h]] \in Int
      BY <2>2 DEF StrInv, StrType, SharesSound
    <3>. QED
      BY <2>2, <3>1
  <2>. QED
    BY <1>4, <2>1, <2>2
<1>. QED
  BY <1>4, <1>5, <1>6 DEF StrInv

-----------------------------------------------------------------------------
\* The invariant of the counted blocks.
THEOREM StringInvariant == StrSpec => []StrInv
<1>1. StrInit => StrInv
  <2>. SUFFICES ASSUME StrInit PROVE StrInv
    OBVIOUS
  <2>1. StrType
    <3>1. gave \in [Thread -> BOOLEAN] /\ misread \in BOOLEAN /\ raced \in BOOLEAN
      BY Zenon DEF StrInit
    <3>2. /\ of \in [Handle -> Block \cup {None}] /\ owner \in [Handle -> Thread]
          /\ refn \in [Block -> Int] /\ live \subseteq Block
          /\ grow \in [Thread -> Handle \cup {None}]
      BY DEF StrInit
    <3>. QED
      BY <3>1, <3>2 DEF StrType
  <2>2. Growing /\ StillShared
    BY DEF StrInit, Growing, StillShared
  <2>3. SharesSound
    BY DEF StrInit, SharesSound
  <2>. QED
    BY <2>1, <2>2, <2>3 DEF StrInv
<1>2. StrInv /\ [StrNext]_strVars => StrInv'
  <2>. SUFFICES ASSUME StrInv, [StrNext]_strVars PROVE StrInv'
    OBVIOUS
  <2>1. CASE UNCHANGED strVars
    <3>1. UNCHANGED <<of, owner, refn, live, grow, gave, misread, raced>>
      BY <2>1 DEF strVars
    <3>2. StrType' /\ Growing' /\ StillShared'
      BY <3>1 DEF StrInv, StrType, Growing, StillShared
    <3>3. \A b \in live : Sharers(b)' = Sharers(b)
      BY <3>1 DEF Sharers
    <3>4. SharesSound'
      BY <3>1, <3>3 DEF StrInv, SharesSound
    <3>. QED
      BY <3>2, <3>4 DEF StrInv
  <2>2. CASE StrNext
    BY <2>2, ConstructInv, DestructInv, LookOrHandInv, AssignInv, MoveInv, GrowGiveInv, GrowCopyInv
       DEF StrNext
  <2>. QED
    BY <2>1, <2>2
<1>. QED
  BY <1>1, <1>2, PTL DEF StrSpec

\* A block is freed with its last share and not before, for any number of threads,
\* strings and blocks, unless a share is given back while another thread makes the
\* same block grow (fastring.cc:248-256).
THEOREM SharesStaySound == StrSpec => []SharesSound
<1>1. StrInv => SharesSound
  BY DEF StrInv
<1>. QED
  BY <1>1, StringInvariant, PTL

-----------------------------------------------------------------------------
\* LruMap: the list and the cache.

Listed(list) == {list[i] : i \in 1..Len(list)}
Distinct(list) == \A i, j \in 1..Len(list) : list[i] = list[j] => i = j

LruType ==
  /\ kv \in [Map -> UNION {[S -> Value] : S \in SUBSET Key}]
  /\ kl \in [Map -> Seq(Key)]
  /\ ki \in [Map -> SUBSET Key]
  /\ capacity \in [Map -> Nat \ {0}]

\* The entries, the list and the index have the same keys, each once in the list,
\* and no more than fit.
InStep ==
  \A m \in Map :
    /\ Distinct(kl[m])
    /\ Listed(kl[m]) = DOMAIN kv[m] /\ ki[m] = DOMAIN kv[m]
    /\ IsFiniteSet(DOMAIN kv[m]) /\ Cardinality(DOMAIN kv[m]) <= capacity[m]

LruInv == LruType /\ InStep

-----------------------------------------------------------------------------
\* The pairs of a list, place by place.
LEMMA BehindPairs ==
  ASSUME NEW list
  PROVE  /\ \A p \in Behind(list) : \E i, j \in 1..Len(list) : i < j /\ p = <<list[j], list[i]>>
         /\ \A i, j \in 1..Len(list) : i < j => <<list[j], list[i]>> \in Behind(list)
<1>. DEFINE Q == {q \in (1..Len(list)) \X (1..Len(list)) : q[1] < q[2]}
<1>1. Behind(list) = {<<list[q[2]], list[q[1]]>> : q \in Q}
  BY DEF Behind
<1>2. ASSUME NEW i \in 1..Len(list), NEW j \in 1..Len(list), i < j
      PROVE  <<list[j], list[i]>> \in Behind(list)
  <2>1. <<i, j>> \in Q /\ <<i, j>>[1] = i /\ <<i, j>>[2] = j
    BY <1>2
  <2>. QED
    BY <1>1, <2>1, Zenon
<1>3. ASSUME NEW p \in Behind(list)
      PROVE  \E i, j \in 1..Len(list) : i < j /\ p = <<list[j], list[i]>>
  <2>1. PICK q \in Q : p = <<list[q[2]], list[q[1]]>>
    BY <1>1, Zenon
  <2>2. q[1] \in 1..Len(list) /\ q[2] \in 1..Len(list) /\ q[1] < q[2]
    BY <2>1
  <2>. QED
    BY <2>1, <2>2
<1>. QED
  BY <1>2, <1>3

\* A list without the element in place c.
LEMMA RemoveAtIs ==
  ASSUME NEW S, NEW s \in Seq(S), NEW c \in 1..Len(s)
  PROVE  /\ RemoveAt(s, c) \in Seq(S) /\ Len(RemoveAt(s, c)) = Len(s) - 1
         /\ \A i \in 1..Len(s) - 1 : RemoveAt(s, c)[i] = IF i < c THEN s[i] ELSE s[i + 1]
<1>. DEFINE a == SubSeq(s, 1, c - 1)
            b == SubSeq(s, c + 1, Len(s))
<1>1. Len(s) \in Nat /\ c \in Int /\ \A i \in 1..Len(s) : s[i] \in S
  BY LenProperties, ElementOfSeq
<1>2. /\ a \in Seq(S) /\ Len(a) = c - 1
      /\ \A i \in 1..c - 1 : a[i] = s[i]
  <2>1. \A i \in 1..c - 1 : s[i] \in S
    BY <1>1
  <2>. QED
    BY <1>1, <2>1, SubSeqProperties
<1>3. /\ b \in Seq(S) /\ Len(b) = Len(s) - c
      /\ \A i \in 1..Len(s) - c : b[i] = s[c + i]
  <2>1. \A i \in c + 1..Len(s) : s[i] \in S
    BY <1>1
  <2>. QED
    BY <1>1, <2>1, SubSeqProperties
<1>4. RemoveAt(s, c) = a \o b
  BY DEF RemoveAt
<1>. HIDE DEF a, b
<1>5. /\ a \o b \in Seq(S) /\ Len(a \o b) = Len(a) + Len(b)
      /\ \A i \in 1..Len(a) + Len(b) : (a \o b)[i] = IF i <= Len(a) THEN a[i] ELSE b[i - Len(a)]
  BY <1>2, <1>3, ConcatProperties
<1>6. ASSUME NEW i \in 1..Len(s) - 1
      PROVE  (a \o b)[i] = IF i < c THEN s[i] ELSE s[i + 1]
  <2>1. i \in 1..Len(a) + Len(b)
    BY <1>1, <1>2, <1>3
  <2>2. CASE i < c
    <3>1. i <= Len(a) /\ i \in 1..c - 1
      BY <1>1, <1>2, <2>2
    <3>. QED
      BY <1>2, <1>5, <2>1, <2>2, <3>1
  <2>3. CASE ~(i < c)
    <3>1. /\ ~(i <= Len(a)) /\ i - Len(a) \in 1..Len(s) - c
          /\ c + (i - Len(a)) = i + 1
      BY <1>1, <1>2, <2>3
    <3>. QED
      BY <1>3, <1>5, <2>1, <2>3, <3>1
  <2>. QED
    BY <2>2, <2>3
<1>. QED
  BY <1>1, <1>2, <1>3, <1>4, <1>5, <1>6

\* The other elements stay behind each other as they were.
LEMMA RemoveAtBehind ==
  ASSUME NEW S, NEW s \in Seq(S), Distinct(s), NEW c \in 1..Len(s)
  PROVE  /\ RemoveAt(s, c) \in Seq(S) /\ Distinct(RemoveAt(s, c))
         /\ Listed(RemoveAt(s, c)) = Listed(s) \ {s[c]}
         /\ Behind(RemoveAt(s, c)) = {p \in Behind(s) : p[1] # s[c] /\ p[2] # s[c]}
<1>. PICK t : t = RemoveAt(s, c)
  OBVIOUS
<1>. DEFINE From(i) == IF i < c THEN i ELSE i + 1
<1>1. Len(s) \in Nat /\ c \in Int
  BY LenProperties
<1>2. /\ t \in Seq(S) /\ Len(t) = Len(s) - 1
      /\ \A i \in 1..Len(t) : t[i] = s[From(i)]
  BY RemoveAtIs
<1>3. \A i \in 1..Len(t) : From(i) \in 1..Len(s) /\ From(i) # c
  BY <1>1, <1>2
<1>4. \A i, j \in 1..Len(t) : i < j <=> From(i) < From(j)
  BY <1>1, <1>2
<1>5. \A k \in 1..Len(s) : k # c => \E i \in 1..Len(t) : From(i) = k
  <2>. SUFFICES ASSUME NEW k \in 1..Len(s), k # c PROVE \E i \in 1..Len(t) : From(i) = k
    OBVIOUS
  <2>1. CASE k < c
    BY <1>1, <1>2, <2>1
  <2>2. CASE k > c
    <3>1. k - 1 \in 1..Len(t) /\ From(k - 1) = k
      BY <1>1, <1>2, <2>2
    <3>. QED
      BY <3>1
  <2>. QED
    BY <1>1, <2>1, <2>2
<1>6. \A i, j \in 1..Len(t) : From(i) = From(j) => i = j
  BY <1>1, <1>2
<1>. HIDE DEF From
<1>7. Distinct(t)
  BY <1>2, <1>3, <1>6 DEF Distinct
<1>8. Listed(t) = Listed(s) \ {s[c]}
  <2>1. \A x \in Listed(t) : x \in Listed(s) /\ x # s[c]
    BY <1>2, <1>3 DEF Listed, Distinct
  <2>2. ASSUME NEW x \in Listed(s), x # s[c]
        PROVE  x \in Listed(t)
    <3>1. PICK k \in 1..Len(s) : x = s[k] /\ k # c
      BY <2>2 DEF Listed
    <3>. QED
      BY <1>2, <1>5, <3>1 DEF Listed
  <2>. QED
    BY <2>1, <2>2
<1>9. \A p \in Behind(t) : p \in Behind(s) /\ p[1] # s[c] /\ p[2] # s[c]
  <2>. SUFFICES ASSUME NEW p \in Behind(t) PROVE p \in Behind(s) /\ p[1] # s[c] /\ p[2] # s[c]
    OBVIOUS
  <2>1. PICK i, j \in 1..Len(t) : i < j /\ p = <<t[j], t[i]>>
    BY BehindPairs
  <2>2. /\ From(i) \in 1..Len(s) /\ From(j) \in 1..Len(s) /\ From(i) < From(j)
        /\ From(i) # c /\ From(j) # c
        /\ p = <<s[From(j)], s[From(i)]>>
    BY <1>2, <1>3, <1>4, <2>1
  <2>3. p \in Behind(s)
    BY <2>2, BehindPairs
  <2>4. s[From(i)] # s[c] /\ s[From(j)] # s[c]
    BY <2>2 DEF Distinct
  <2>. QED
    BY <2>2, <2>3, <2>4
<1>10. \A p \in Behind(s) : p[1] # s[c] /\ p[2] # s[c] => p \in Behind(t)
  <2>. SUFFICES ASSUME NEW p \in Behind(s), p[1] # s[c], p[2] # s[c] PROVE p \in Behind(t)
    OBVIOUS
  <2>1. PICK k, l \in 1..Len(s) : k < l /\ p = <<s[l], s[k]>>
    BY BehindPairs
  <2>2. k # c /\ l # c
    BY <2>1
  <2>3. PICK i \in 1..Len(t) : From(i) = k
    BY <1>5, <2>2
  <2>4. PICK j \in 1..Len(t) : From(j) = l
    BY <1>5, <2>2
  <2>5. i < j /\ p = <<t[j], t[i]>>
    BY <1>2, <1>4, <2>1, <2>3, <2>4
  <2>. QED
    BY <2>5, BehindPairs
<1>. QED
  BY <1>2, <1>7, <1>8, <1>9, <1>10

\* A key in front is behind nobody, and all others are behind it.
LEMMA InFrontBehind ==
  ASSUME NEW S, NEW s \in Seq(S), Distinct(s), NEW k \in S, k \notin Listed(s)
  PROVE  /\ <<k>> \o s \in Seq(S) /\ Distinct(<<k>> \o s)
         /\ Listed(<<k>> \o s) = Listed(s) \cup {k}
         /\ Behind(<<k>> \o s) = Behind(s) \cup (Listed(s) \X {k})
<1>. PICK t : t = <<k>> \o s
  OBVIOUS
<1>1. Len(s) \in Nat
  BY LenProperties
<1>2. /\ t \in Seq(S) /\ Len(t) = Len(s) + 1 /\ t[1] = k
      /\ \A i \in 1..Len(s) : t[i + 1] = s[i]
  <2>1. <<k>> \in Seq(S) /\ Len(<<k>>) = 1 /\ <<k>>[1] = k
    OBVIOUS
  <2>2. /\ <<k>> \o s \in Seq(S) /\ Len(<<k>> \o s) = 1 + Len(s)
        /\ \A i \in 1..1 + Len(s) : (<<k>> \o s)[i] = IF i <= 1 THEN <<k>>[i] ELSE s[i - 1]
    BY <2>1, ConcatProperties
  <2>. QED
    BY <1>1, <2>1, <2>2
<1>3. \A i \in 1..Len(t) : i = 1 \/ (i - 1 \in 1..Len(s) /\ t[i] = s[i - 1])
  <2>. SUFFICES ASSUME NEW i \in 1..Len(t), i # 1
                PROVE  i - 1 \in 1..Len(s) /\ t[i] = s[i - 1]
    OBVIOUS
  <2>1. i - 1 \in 1..Len(s) /\ (i - 1) + 1 = i
    BY <1>1, <1>2
  <2>. QED
    BY <1>2, <2>1
<1>4. \A i \in 1..Len(s) : i + 1 \in 1..Len(t)
  BY <1>1, <1>2
<1>5. \A i \in 1..Len(s) : s[i] # k
  BY DEF Listed
<1>6. Distinct(t)
  BY <1>1, <1>2, <1>3, <1>5 DEF Distinct
<1>7. Listed(t) = Listed(s) \cup {k}
  <2>1. \A x \in Listed(t) : x \in Listed(s) \cup {k}
    BY <1>2, <1>3 DEF Listed
  <2>2. k \in Listed(t)
    BY <1>1, <1>2 DEF Listed
  <2>3. \A x \in Listed(s) : x \in Listed(t)
    BY <1>2, <1>4 DEF Listed
  <2>. QED
    BY <2>1, <2>2, <2>3
<1>8. \A p \in Behind(t) : p \in Behind(s) \cup (Listed(s) \X {k})
  <2>. SUFFICES ASSUME NEW p \in Behind(t) PROVE p \in Behind(s) \cup (Listed(s) \X {k})
    OBVIOUS
  <2>1. PICK i, j \in 1..Len(t) : i < j /\ p = <<t[j], t[i]>>
    BY BehindPairs
  <2>2. j - 1 \in 1..Len(s) /\ t[j] = s[j - 1]
    BY <1>3, <2>1
  <2>3. CASE i = 1
    <3>1. p = <<s[j - 1], k>> /\ s[j - 1] \in Listed(s)
      BY <1>2, <2>1, <2>2, <2>3 DEF Listed
    <3>. QED
      BY <3>1
  <2>4. CASE i # 1
    <3>1. i - 1 \in 1..Len(s) /\ t[i] = s[i - 1] /\ i - 1 < j - 1
      BY <1>3, <2>1, <2>4
    <3>. QED
      BY <2>1, <2>2, <3>1, BehindPairs
  <2>. QED
    BY <2>3, <2>4
<1>9. \A p \in Behind(s) : p \in Behind(t)
  <2>. SUFFICES ASSUME NEW p \in Behind(s) PROVE p \in Behind(t)
    OBVIOUS
  <2>1. PICK i, j \in 1..Len(s) : i < j /\ p = <<s[j], s[i]>>
    BY BehindPairs
  <2>2. i + 1 \in 1..Len(t) /\ j + 1 \in 1..Len(t) /\ i + 1 < j + 1 /\ p = <<t[j + 1], t[i + 1]>>
    BY <1>2, <1>4, <2>1
  <2>. QED
    BY <2>2, BehindPairs
<1>10. \A x \in Listed(s) : <<x, k>> \in Behind(t)
  <2>. SUFFICES ASSUME NEW x \in Listed(s) PROVE <<x, k>> \in Behind(t)
    OBVIOUS
  <2>1. PICK i \in 1..Len(s) : x = s[i]
    BY DEF Listed
  <2>2. 1 \in 1..Len(t) /\ i + 1 \in 1..Len(t) /\ 1 < i + 1 /\ <<x, k>> = <<t[i + 1], t[1]>>
    BY <1>1, <1>2, <1>4, <2>1
  <2>. QED
    BY <2>2, BehindPairs
<1>11. Behind(t) = Behind(s) \cup (Listed(s) \X {k})
  BY <1>8, <1>9, <1>10
<1>. QED
  BY <1>2, <1>6, <1>7, <1>11

\* The key that is unlinked is the one asked for.
LEMMA UnlinkedBehind ==
  ASSUME NEW S, NEW s \in Seq(S), Distinct(s), NEW k \in Listed(s)
  PROVE  /\ Unlinked(s, k) \in Seq(S) /\ Distinct(Unlinked(s, k))
         /\ Listed(Unlinked(s, k)) = Listed(s) \ {k}
         /\ Behind(Unlinked(s, k)) = {p \in Behind(s) : p[1] # k /\ p[2] # k}
<1>. DEFINE c == CHOOSE i \in 1..Len(s) : s[i] = k
<1>1. c \in 1..Len(s) /\ s[c] = k
  BY DEF Listed
<1>2. Unlinked(s, k) = RemoveAt(s, c)
  BY DEF Unlinked
<1>. HIDE DEF c
<1>. QED
  BY <1>1, <1>2, RemoveAtBehind

\* The key in the last place goes.
LEMMA FrontBehind ==
  ASSUME NEW S, NEW s \in Seq(S), Distinct(s), s # <<>>
  PROVE  /\ Front(s) \in Seq(S) /\ Distinct(Front(s)) /\ Last(s) \in Listed(s)
         /\ Listed(Front(s)) = Listed(s) \ {Last(s)}
         /\ Behind(Front(s)) = {p \in Behind(s) : p[1] # Last(s) /\ p[2] # Last(s)}
         /\ \A k \in Listed(s) \ {Last(s)} : <<Last(s), k>> \in Behind(s)
<1>1. Len(s) \in Nat \ {0} /\ \A i \in 1..Len(s) : s[i] \in S
  BY EmptySeq, ElementOfSeq
<1>2. Front(s) = RemoveAt(s, Len(s))
  <2>1. SubSeq(s, Len(s) + 1, Len(s)) = <<>>
    BY <1>1, SubSeqEmpty
  <2>2. SubSeq(s, 1, Len(s) - 1) \in Seq(S)
    <3>1. \A i \in 1..Len(s) - 1 : s[i] \in S
      BY <1>1
    <3>. QED
      BY <1>1, <3>1, SubSeqProperties
  <2>. QED
    BY <2>1, <2>2, ConcatEmptySeq DEF Front, RemoveAt
<1>3. Len(s) \in 1..Len(s) /\ Last(s) = s[Len(s)]
  BY <1>1 DEF Last
<1>4. \A k \in Listed(s) \ {Last(s)} : <<Last(s), k>> \in Behind(s)
  <2>. SUFFICES ASSUME NEW k \in Listed(s), k # Last(s) PROVE <<Last(s), k>> \in Behind(s)
    OBVIOUS
  <2>1. PICK i \in 1..Len(s) : k = s[i]
    BY DEF Listed
  <2>2. i < Len(s)
    BY <1>1, <1>3, <2>1
  <2>. QED
    BY <1>3, <2>1, <2>2, BehindPairs
<1>5. Last(s) \in Listed(s)
  BY <1>3 DEF Listed
<1>. QED
  BY <1>2, <1>3, <1>4, <1>5, RemoveAtBehind

\* A key that was used is the one in front, and the others keep their order.
LEMMA ToFrontBehind ==
  ASSUME NEW S, NEW s \in Seq(S), Distinct(s), NEW k \in Listed(s)
  PROVE  /\ ToFront(s, k) \in Seq(S) /\ Distinct(ToFront(s, k))
         /\ Listed(ToFront(s, k)) = Listed(s)
         /\ Behind(ToFront(s, k)) =
              {p \in Behind(s) : p[1] # k /\ p[2] # k} \cup ((Listed(s) \ {k}) \X {k})
<1>. DEFINE rest == Unlinked(s, k)
            c == CHOOSE i \in 1..Len(s) : s[i] = k
<1>1. /\ rest \in Seq(S) /\ Distinct(rest) /\ Listed(rest) = Listed(s) \ {k}
      /\ Behind(rest) = {p \in Behind(s) : p[1] # k /\ p[2] # k}
  BY UnlinkedBehind
<1>2. Len(s) \in Nat /\ k \in S /\ k \notin Listed(rest)
  <2>1. PICK i \in 1..Len(s) : k = s[i]
    BY DEF Listed
  <2>. QED
    BY <1>1, <2>1, LenProperties, ElementOfSeq
<1>3. c \in 1..Len(s) /\ s[c] = k
  BY DEF Listed
<1>4. ToFront(s, k) = <<k>> \o rest
  <2>1. CASE s[1] # k
    BY <2>1 DEF ToFront
  <2>2. CASE s[1] = k
    <3>1. c = 1
      BY <1>2, <1>3, <2>2 DEF Distinct
    <3>2. rest = RemoveAt(s, 1)
      BY <3>1 DEF Unlinked
    <3>3. /\ Len(rest) = Len(s) - 1
          /\ \A i \in 1..Len(s) - 1 : rest[i] = s[i + 1]
      <4>1. 1 \in 1..Len(s)
        BY <1>3, <3>1
      <4>2. /\ Len(RemoveAt(s, 1)) = Len(s) - 1
            /\ \A i \in 1..Len(s) - 1 : RemoveAt(s, 1)[i] = IF i < 1 THEN s[i] ELSE s[i + 1]
        BY <4>1, RemoveAtIs
      <4>. QED
        BY <1>2, <3>2, <4>2
    <3>. HIDE DEF rest
    <3>4. <<k>> \in Seq(S) /\ Len(<<k>>) = 1 /\ <<k>>[1] = k
      BY <1>2
    <3>5. /\ <<k>> \o rest \in Seq(S) /\ Len(<<k>> \o rest) = 1 + Len(rest)
          /\ \A i \in 1..1 + Len(rest) : (<<k>> \o rest)[i] = IF i <= 1 THEN <<k>>[i] ELSE rest[i - 1]
      BY <1>1, <3>4, ConcatProperties
    <3>6. Len(<<k>> \o rest) = Len(s) /\ 1 + Len(rest) = Len(s)
      BY <1>2, <3>3, <3>5
    <3>7. ASSUME NEW i \in 1..Len(s)
          PROVE  (<<k>> \o rest)[i] = s[i]
      <4>1. CASE i = 1
        BY <2>2, <3>4, <3>5, <3>6, <4>1
      <4>2. CASE i # 1
        <5>1. i - 1 \in 1..Len(s) - 1 /\ (i - 1) + 1 = i /\ ~(i <= 1)
          BY <1>2, <4>2
        <5>. QED
          BY <3>3, <3>5, <3>6, <5>1
      <4>. QED
        BY <4>1, <4>2
    <3>8. <<k>> \o rest = s
      BY <3>5, <3>6, <3>7, SeqEqual
    <3>. QED
      BY <2>2, <3>8 DEF ToFront
  <2>. QED
    BY <2>1, <2>2
<1>. HIDE DEF rest, c
<1>5. /\ <<k>> \o rest \in Seq(S) /\ Distinct(<<k>> \o rest)
      /\ Listed(<<k>> \o rest) = Listed(rest) \cup {k}
      /\ Behind(<<k>> \o rest) = Behind(rest) \cup (Listed(rest) \X {k})
  BY <1>1, <1>2, InFrontBehind
<1>6. Listed(<<k>> \o rest) = Listed(s)
  BY <1>1, <1>5
<1>. QED
  BY <1>1, <1>4, <1>5, <1>6

\* Only keys of the list are behind each other.
LEMMA BehindListed ==
  ASSUME NEW list
  PROVE  \A p \in Behind(list) : p[1] \in Listed(list) /\ p[2] \in Listed(list)
                                 /\ p = <<p[1], p[2]>>
BY BehindPairs DEF Listed

-----------------------------------------------------------------------------
Older == [m \in Map |-> Behind(kl[m])]

\* What a map is after a step that gives it other entries, list and index.
LEMMA OneMapChanges ==
  ASSUME LruInv, NEW m \in Map, NEW f, NEW l, NEW x,
         kv' = [kv EXCEPT ![m] = f], kl' = [kl EXCEPT ![m] = l], ki' = [ki EXCEPT ![m] = x],
         UNCHANGED capacity,
         f \in UNION {[S -> Value] : S \in SUBSET Key}, l \in Seq(Key), Distinct(l),
         Listed(l) = DOMAIN f, x = DOMAIN f,
         IsFiniteSet(DOMAIN f), Cardinality(DOMAIN f) <= capacity[m]
  PROVE  LruInv' /\ Older' = [Older EXCEPT ![m] = Behind(l)]
<1>1. /\ kv \in [Map -> UNION {[S -> Value] : S \in SUBSET Key}]
      /\ kl \in [Map -> Seq(Key)] /\ ki \in [Map -> SUBSET Key]
      /\ capacity \in [Map -> Nat \ {0}]
  BY DEF LruInv, LruType
<1>2. x \in SUBSET Key
  OBVIOUS
<1>3. LruType'
  BY <1>1, <1>2 DEF LruType
<1>4. /\ kv'[m] = f /\ kl'[m] = l /\ ki'[m] = x
      /\ \A n \in Map : n # m => kv'[n] = kv[n] /\ kl'[n] = kl[n] /\ ki'[n] = ki[n]
  BY <1>1
<1>5. InStep'
  <2>. SUFFICES ASSUME NEW n \in Map
                PROVE  /\ Distinct(kl'[n])
                       /\ Listed(kl'[n]) = DOMAIN kv'[n] /\ ki'[n] = DOMAIN kv'[n]
                       /\ IsFiniteSet(DOMAIN kv'[n]) /\ Cardinality(DOMAIN kv'[n]) <= capacity'[n]
    BY DEF InStep, Distinct, Listed
  <2>1. CASE n = m
    BY <1>4, <2>1
  <2>2. CASE n # m
    BY <1>4, <2>2 DEF LruInv, InStep
  <2>. QED
    BY <2>1, <2>2
<1>6. Older' = [Older EXCEPT ![m] = Behind(l)]
  <2>1. Older' = [n \in Map |-> Behind(kl'[n])]
    BY DEF Older, Behind
  <2>2. \A n \in Map : Behind(kl'[n]) = IF n = m THEN Behind(l) ELSE Behind(kl[n])
    BY <1>4
  <2>3. Older' = [n \in Map |-> IF n = m THEN Behind(l) ELSE Behind(kl[n])]
    BY <2>1, <2>2
  <2>. QED
    BY <2>3 DEF Older
<1>. QED
  BY <1>3, <1>5, <1>6 DEF LruInv

\* The entries without one key.
LEMMA WithoutKey ==
  ASSUME LruInv, NEW m \in Map, NEW k \in DOMAIN kv[m], NEW f,
         f = [j \in DOMAIN kv[m] \ {k} |-> kv[m][j]]
  PROVE  /\ f \in UNION {[S -> Value] : S \in SUBSET Key} /\ DOMAIN f = DOMAIN kv[m] \ {k}
         /\ IsFiniteSet(DOMAIN f) /\ Cardinality(DOMAIN f) = Cardinality(DOMAIN kv[m]) - 1
<1>1. PICK S \in SUBSET Key : kv[m] \in [S -> Value]
  BY DEF LruInv, LruType
<1>2. f \in [S \ {k} -> Value] /\ DOMAIN f = DOMAIN kv[m] \ {k}
  BY <1>1
<1>3. S \ {k} \in SUBSET Key
  OBVIOUS
<1>4. IsFiniteSet(DOMAIN kv[m])
  BY DEF LruInv, InStep
<1>5. f \in UNION {[T -> Value] : T \in SUBSET Key}
  BY <1>2, <1>3
<1>. QED
  BY <1>2, <1>4, <1>5, FS_RemoveElement

LEMMA FindStep ==
  ASSUME LruInv, NEW m \in Map, NEW k \in Key, Find(m, k)
  PROVE  LruInv' /\ Cache!Touch(m, k)
<1>1. /\ k \in DOMAIN kv[m] /\ kl' = [kl EXCEPT ![m] = ToFront(kl[m], k)]
      /\ found' = <<m, k>> /\ UNCHANGED <<kv, ki, capacity>>
  BY DEF Find
<1>2. PICK s \in Seq(Key) : s = kl[m] /\ Distinct(s) /\ Listed(s) = DOMAIN kv[m]
  BY DEF LruInv, LruType, InStep
<1>3. PICK l : l = ToFront(s, k)
  OBVIOUS
<1>4. PICK f, x : f = kv[m] /\ x = ki[m]
  OBVIOUS
<1>5. /\ l \in Seq(Key) /\ Distinct(l) /\ Listed(l) = Listed(s)
      /\ Behind(l) = {p \in Behind(s) : p[1] # k /\ p[2] # k} \cup ((Listed(s) \ {k}) \X {k})
  BY <1>1, <1>2, <1>3, ToFrontBehind
<1>6. /\ kv' = [kv EXCEPT ![m] = f] /\ kl' = [kl EXCEPT ![m] = l] /\ ki' = [ki EXCEPT ![m] = x]
  BY <1>1, <1>2, <1>3, <1>4 DEF LruInv, LruType
<1>7. /\ f \in UNION {[S -> Value] : S \in SUBSET Key} /\ Listed(l) = DOMAIN f /\ x = DOMAIN f
      /\ IsFiniteSet(DOMAIN f) /\ Cardinality(DOMAIN f) <= capacity[m]
  BY <1>2, <1>4, <1>5 DEF LruInv, LruType, InStep
<1>8. LruInv' /\ Older' = [Older EXCEPT ![m] = Behind(l)]
  <2>1. l \in Seq(Key) /\ Distinct(l) /\ UNCHANGED capacity
    BY <1>1, <1>5
  <2>. QED
    BY <1>6, <1>7, <2>1, OneMapChanges
<1>9. Older[m] = Behind(s)
  BY <1>2 DEF Older
<1>10. Older' = [Older EXCEPT ![m] = Cache!Newest(Older[m], Cache!Keys(m), k)]
  BY <1>2, <1>5, <1>8, <1>9 DEF Cache!Newest, Cache!Keys
<1>11. Cache!Touch(m, k)
  BY <1>1, <1>10 DEF Cache!Touch, Cache!Keys, Older
<1>. QED
  BY <1>8, <1>11

LEMMA EraseStep ==
  ASSUME LruInv, NEW m \in Map, NEW k \in Key, Erase(m, k)
  PROVE  LruInv' /\ Cache!Drop(m, k)
<1>1. /\ k \in DOMAIN kv[m]
      /\ kl' = [kl EXCEPT ![m] = Unlinked(kl[m], k)]
      /\ ki' = [ki EXCEPT ![m] = ki[m] \ {k}]
      /\ kv' = [kv EXCEPT ![m] = [j \in DOMAIN kv[m] \ {k} |-> kv[m][j]]]
      /\ found' = <<>> /\ UNCHANGED capacity
  BY DEF Erase, Nothing
<1>2. PICK s \in Seq(Key) : s = kl[m] /\ Distinct(s) /\ Listed(s) = DOMAIN kv[m]
  BY DEF LruInv, LruType, InStep
<1>3. PICK l, f, x :
        /\ l = Unlinked(s, k) /\ x = ki[m] \ {k}
        /\ f = [j \in DOMAIN kv[m] \ {k} |-> kv[m][j]]
  OBVIOUS
<1>4. /\ l \in Seq(Key) /\ Distinct(l) /\ Listed(l) = Listed(s) \ {k}
      /\ Behind(l) = {p \in Behind(s) : p[1] # k /\ p[2] # k}
  BY <1>1, <1>2, <1>3, UnlinkedBehind
<1>5. /\ kv' = [kv EXCEPT ![m] = f] /\ kl' = [kl EXCEPT ![m] = l] /\ ki' = [ki EXCEPT ![m] = x]
  BY <1>1, <1>2, <1>3
<1>6. /\ f \in UNION {[S -> Value] : S \in SUBSET Key} /\ DOMAIN f = DOMAIN kv[m] \ {k}
      /\ IsFiniteSet(DOMAIN f) /\ Cardinality(DOMAIN f) = Cardinality(DOMAIN kv[m]) - 1
  BY <1>1, <1>3, WithoutKey
<1>7. /\ ki[m] = DOMAIN kv[m] /\ Cardinality(DOMAIN kv[m]) <= capacity[m]
      /\ capacity[m] \in Nat /\ Cardinality(DOMAIN kv[m]) \in Nat
  BY FS_CardinalityType DEF LruInv, LruType, InStep
<1>8. /\ Listed(l) = DOMAIN f /\ x = DOMAIN f
  BY <1>2, <1>3, <1>4, <1>6, <1>7
<1>9. Cardinality(DOMAIN f) <= capacity[m]
  BY <1>6, <1>7
<1>10. LruInv' /\ Older' = [Older EXCEPT ![m] = Behind(l)]
  <2>1. l \in Seq(Key) /\ Distinct(l) /\ UNCHANGED capacity
    BY <1>1, <1>4
  <2>2. f \in UNION {[S -> Value] : S \in SUBSET Key} /\ IsFiniteSet(DOMAIN f)
    BY <1>6
  <2>. QED
    BY <1>5, <1>8, <1>9, <2>1, <2>2, OneMapChanges
<1>11. Older[m] = Behind(s)
  BY <1>2 DEF Older
<1>12. Older' = [Older EXCEPT ![m] = Cache!Gone(Older[m], k)]
  BY <1>4, <1>10, <1>11 DEF Cache!Gone
<1>13. Cache!Drop(m, k)
  BY <1>1, <1>12 DEF Cache!Drop, Cache!Keys, Older
<1>. QED
  BY <1>10, <1>13

LEMMA ClearStep ==
  ASSUME LruInv, NEW m \in Map, Clear(m)
  PROVE  LruInv' /\ Cache!Wipe(m)
<1>1. PICK f : f = [k \in {} |-> 0]
  OBVIOUS
<1>2. /\ kv' = [kv EXCEPT ![m] = f] /\ kl' = [kl EXCEPT ![m] = <<>>]
      /\ ki' = [ki EXCEPT ![m] = {}] /\ found' = <<>> /\ UNCHANGED capacity
  BY <1>1 DEF Clear, Nothing
<1>3. /\ f \in [{} -> Value] /\ DOMAIN f = {}
  BY <1>1
<1>4. f \in UNION {[S -> Value] : S \in SUBSET Key}
  <2>1. {} \in SUBSET Key
    OBVIOUS
  <2>. QED
    BY <1>3, <2>1
<1>5. /\ <<>> \in Seq(Key) /\ Distinct(<<>>) /\ Listed(<<>>) = {}
  BY DEF Distinct, Listed
<1>6. Behind(<<>>) = {}
  BY <1>5, BehindListed
<1>7. IsFiniteSet(DOMAIN f) /\ Cardinality(DOMAIN f) <= capacity[m]
  BY <1>3, FS_EmptySet DEF LruInv, LruType
<1>8. LruInv' /\ Older' = [Older EXCEPT ![m] = {}]
  BY <1>2, <1>3, <1>4, <1>5, <1>6, <1>7, OneMapChanges
<1>9. Cache!Wipe(m)
  BY <1>1, <1>2, <1>8 DEF Cache!Wipe, Older
<1>. QED
  BY <1>8, <1>9

LEMMA SwapStep ==
  ASSUME LruInv, NEW m \in Map, NEW n \in Map, Swap(m, n)
  PROVE  LruInv' /\ Cache!Exchange(m, n)
<1>1. /\ kv' = [kv EXCEPT ![m] = kv[n], ![n] = kv[m]]
      /\ kl' = [kl EXCEPT ![m] = kl[n], ![n] = kl[m]]
      /\ ki' = [ki EXCEPT ![m] = ki[n], ![n] = ki[m]]
      /\ capacity' = [capacity EXCEPT ![m] = capacity[n], ![n] = capacity[m]]
      /\ found' = <<>>
  BY DEF Swap, Nothing
<1>2. /\ kv \in [Map -> UNION {[S -> Value] : S \in SUBSET Key}]
      /\ kl \in [Map -> Seq(Key)] /\ ki \in [Map -> SUBSET Key]
      /\ capacity \in [Map -> Nat \ {0}]
  BY DEF LruInv, LruType
<1>3. LruType'
  BY <1>1, <1>2 DEF LruType
<1>. DEFINE Other(i) == IF i = m THEN n ELSE IF i = n THEN m ELSE i
<1>4. \A i \in Map : /\ kv'[i] = kv[Other(i)] /\ kl'[i] = kl[Other(i)]
                     /\ ki'[i] = ki[Other(i)] /\ capacity'[i] = capacity[Other(i)]
                     /\ Other(i) \in Map
  BY <1>1, <1>2
<1>5. InStep'
  <2>. SUFFICES ASSUME NEW i \in Map
                PROVE  /\ Distinct(kl'[i])
                       /\ Listed(kl'[i]) = DOMAIN kv'[i] /\ ki'[i] = DOMAIN kv'[i]
                       /\ IsFiniteSet(DOMAIN kv'[i]) /\ Cardinality(DOMAIN kv'[i]) <= capacity'[i]
    BY DEF InStep, Distinct, Listed
  <2>. HIDE DEF Other
  <2>. QED
    BY <1>4 DEF LruInv, InStep
<1>6. Older' = [Older EXCEPT ![m] = Older[n], ![n] = Older[m]]
  <2>1. Older' = [i \in Map |-> Behind(kl'[i])]
    BY DEF Older, Behind
  <2>2. \A i \in Map : Older'[i] = Older[Other(i)]
    BY <1>4, <2>1 DEF Older
  <2>. QED
    BY <2>1, <2>2 DEF Older
<1>7. Cache!Exchange(m, n)
  BY <1>1, <1>6 DEF Cache!Exchange, Older
<1>. QED
  BY <1>3, <1>5, <1>7 DEF LruInv

\* The cache counts as the map does.
LEMMA SameCount == \A S : Cache!Cardinality(S) = Cardinality(S)
BY DEF Cache!Cardinality, Cardinality

\* A new key finds room, or the key at the back of the list goes, which is the one
\* all others were used after.
LEMMA InsertStep ==
  ASSUME LruInv, NEW m \in Map, NEW k \in Key, NEW v \in Value, Insert(m, k, v)
  PROVE  LruInv' /\ Cache!Put(m, k, v)
<1>1. PICK s \in Seq(Key) : s = kl[m] /\ Distinct(s) /\ Listed(s) = DOMAIN kv[m]
  BY DEF LruInv, LruType, InStep
<1>2. PICK keys \in SUBSET Key : keys = DOMAIN kv[m] /\ kv[m] \in [keys -> Value]
  BY DEF LruInv, LruType
<1>3. PICK map, list, index :
        /\ map = [j \in DOMAIN kv[m] \cup {k} |-> IF j = k THEN v ELSE kv[m][j]]
        /\ list = <<k>> \o kl[m]
        /\ index = ki[m] \cup {k}
  OBVIOUS
<1>4. /\ k \notin keys /\ found' = <<>> /\ UNCHANGED capacity
      /\ IF Cardinality(DOMAIN map) > capacity[m]
         THEN Evicted(m, map, list, index)
         ELSE /\ kv' = [kv EXCEPT ![m] = map]
              /\ kl' = [kl EXCEPT ![m] = list]
              /\ ki' = [ki EXCEPT ![m] = index]
  BY <1>2, <1>3 DEF Insert, Nothing
<1>5. /\ list \in Seq(Key) /\ Distinct(list) /\ Listed(list) = keys \cup {k}
      /\ Behind(list) = Behind(s) \cup (keys \X {k})
  BY <1>1, <1>2, <1>3, <1>4, InFrontBehind
<1>6. map \in [keys \cup {k} -> Value] /\ DOMAIN map = keys \cup {k} /\ index = keys \cup {k}
  <2>1. ki[m] = keys
    BY <1>2 DEF LruInv, InStep
  <2>. QED
    BY <1>2, <1>3, <2>1
<1>7. /\ IsFiniteSet(keys) /\ IsFiniteSet(keys \cup {k})
      /\ Cardinality(keys) \in Nat /\ Cardinality(keys) <= capacity[m]
      /\ Cardinality(keys \cup {k}) = Cardinality(keys) + 1
      /\ capacity[m] \in Nat /\ capacity[m] > 0
  <2>1. IsFiniteSet(keys) /\ Cardinality(keys) <= capacity[m] /\ capacity[m] \in Nat \ {0}
    BY <1>2 DEF LruInv, LruType, InStep
  <2>. QED
    BY <1>4, <2>1, FS_AddElement, FS_CardinalityType
<1>8. /\ \A p \in Behind(s) : p[1] \in keys /\ p[2] \in keys /\ p = <<p[1], p[2]>>
      /\ Older[m] = Behind(s)
  BY <1>1, <1>2, BehindListed DEF Older
<1>9. CASE Cardinality(DOMAIN map) <= capacity[m]
  <2>1. /\ kv' = [kv EXCEPT ![m] = map] /\ kl' = [kl EXCEPT ![m] = list]
        /\ ki' = [ki EXCEPT ![m] = index]
    BY <1>4, <1>6, <1>7, <1>9
  <2>2. /\ map \in UNION {[S -> Value] : S \in SUBSET Key} /\ list \in Seq(Key) /\ Distinct(list)
        /\ Listed(list) = DOMAIN map /\ index = DOMAIN map
        /\ IsFiniteSet(DOMAIN map) /\ UNCHANGED capacity
    <3>1. keys \cup {k} \in SUBSET Key
      OBVIOUS
    <3>. QED
      BY <1>4, <1>5, <1>6, <1>7, <3>1
  <2>3. LruInv' /\ Older' = [Older EXCEPT ![m] = Behind(list)]
    BY <1>9, <2>1, <2>2, OneMapChanges
  <2>4. Cardinality(keys) < capacity[m]
    BY <1>6, <1>7, <1>9
  <2>5. Behind(list) = Cache!Newest({p \in Behind(s) : p[1] \in keys /\ p[2] \in keys}, keys, k)
    BY <1>4, <1>5, <1>8 DEF Cache!Newest
  <2>6. keys \ {} = keys /\ {} \in SUBSET keys
    OBVIOUS
  <2>7. map = [j \in keys \cup {k} |-> IF j = k THEN v ELSE kv[m][j]]
    BY <1>2, <1>3
  <2>8. /\ Older' = [Older EXCEPT ![m] =
                       Cache!Newest({p \in Older[m] : p[1] \in keys /\ p[2] \in keys}, keys, k)]
        /\ kv' = [kv EXCEPT ![m] = [j \in keys \cup {k} |-> IF j = k THEN v ELSE kv[m][j]]]
    BY <1>8, <2>1, <2>3, <2>5, <2>7
  <2>9. Cache!Put(m, k, v)
    <3>1. k \in Key \ Cache!Keys(m) /\ Cache!Keys(m) = keys
      BY <1>2, <1>4 DEF Cache!Keys
    <3>2. Cache!Cardinality(Cache!Keys(m)) < capacity[m] /\ {} \in SUBSET Cache!Keys(m)
      BY <2>4, <3>1, SameCount
    <3>3. /\ kv' = [kv EXCEPT ![m] = [j \in (Cache!Keys(m) \ {}) \cup {k} |->
                                        IF j = k THEN v ELSE kv[m][j]]]
          /\ Older' = [Older EXCEPT ![m] =
                         Cache!Newest({p \in Older[m] : p[1] \in Cache!Keys(m) \ {}
                                                       /\ p[2] \in Cache!Keys(m) \ {}},
                                      Cache!Keys(m) \ {}, k)]
      BY <2>6, <2>8, <3>1
    <3>. QED
      BY <1>4, <3>1, <3>2, <3>3 DEF Cache!Put, Older
  <2>. QED
    BY <2>3, <2>9
<1>10. CASE Cardinality(DOMAIN map) > capacity[m]
  <2>1. PICK last : last = Last(list)
    OBVIOUS
  <2>2. PICK f, l, x : /\ f = [j \in DOMAIN map \ {last} |-> map[j]]
                       /\ l = Front(list) /\ x = index \ {last}
    OBVIOUS
  <2>3. /\ kv' = [kv EXCEPT ![m] = f] /\ kl' = [kl EXCEPT ![m] = l] /\ ki' = [ki EXCEPT ![m] = x]
    BY <1>4, <1>10, <2>1, <2>2 DEF Evicted
  <2>4. list # <<>>
    BY <1>5 DEF Listed
  <2>5. /\ l \in Seq(Key) /\ Distinct(l) /\ last \in keys \cup {k}
        /\ Listed(l) = (keys \cup {k}) \ {last}
        /\ Behind(l) = {p \in Behind(list) : p[1] # last /\ p[2] # last}
        /\ \A j \in (keys \cup {k}) \ {last} : <<last, j>> \in Behind(list)
    BY <1>5, <2>1, <2>2, <2>4, FrontBehind
  <2>6. Cardinality(keys) = capacity[m] /\ keys # {}
    BY <1>6, <1>7, <1>10, FS_EmptySet
  <2>7. last \in keys /\ last # k
    <3>. SUFFICES ASSUME last = k PROVE FALSE
      BY <1>4, <2>5
    <3>1. PICK j \in keys : j # k
      BY <1>4, <2>6
    <3>2. <<k, j>> \in Behind(s) \cup (keys \X {k})
      BY <1>5, <2>5, <3>1
    <3>3. <<k, j>> \notin Behind(s)
      BY <1>4, <1>8
    <3>. QED
      BY <3>1, <3>2, <3>3
  <2>8. PICK kept : kept = keys \ {last}
    OBVIOUS
  <2>9. /\ DOMAIN f = kept \cup {k} /\ kept \cup {k} = (keys \cup {k}) \ {last}
        /\ f \in [kept \cup {k} -> Value]
    BY <1>6, <2>2, <2>7, <2>8
  <2>10. f = [j \in kept \cup {k} |-> IF j = k THEN v ELSE kv[m][j]]
    <3>1. \A j \in kept \cup {k} : f[j] = IF j = k THEN v ELSE kv[m][j]
      BY <1>2, <1>3, <1>6, <2>2, <2>7, <2>8
    <3>. QED
      BY <2>9, <3>1
  <2>11. f \in UNION {[S -> Value] : S \in SUBSET Key}
    <3>1. kept \cup {k} \in SUBSET Key
      BY <2>8
    <3>. QED
      BY <2>9, <3>1
  <2>12. IsFiniteSet(DOMAIN f) /\ Cardinality(DOMAIN f) <= capacity[m]
    <3>1. /\ IsFiniteSet((keys \cup {k}) \ {last})
          /\ Cardinality((keys \cup {k}) \ {last}) = Cardinality(keys \cup {k}) - 1
      BY <1>7, <2>5, FS_RemoveElement
    <3>2. DOMAIN f = (keys \cup {k}) \ {last}
      BY <2>9
    <3>3. Cardinality((keys \cup {k}) \ {last}) <= capacity[m]
      BY <1>7, <3>1
    <3>. QED
      BY <3>1, <3>2, <3>3
  <2>13. /\ Listed(l) = DOMAIN f /\ x = DOMAIN f
         /\ l \in Seq(Key) /\ Distinct(l) /\ UNCHANGED capacity
    BY <1>4, <1>6, <2>2, <2>5, <2>9
  <2>14. LruInv' /\ Older' = [Older EXCEPT ![m] = Behind(l)]
    BY <2>3, <2>11, <2>12, <2>13, OneMapChanges
  <2>15. Behind(l) = Cache!Newest({p \in Behind(s) : p[1] \in kept /\ p[2] \in kept}, kept, k)
    <3>1. Behind(l) = {p \in Behind(s) : p[1] # last /\ p[2] # last} \cup (kept \X {k})
      BY <1>5, <2>5, <2>7, <2>8
    <3>2. \A p \in Behind(s) : (p[1] # last /\ p[2] # last) <=> (p[1] \in kept /\ p[2] \in kept)
      BY <1>8, <2>8
    <3>3. \A p \in Behind(s) : p[1] # k /\ p[2] # k
      BY <1>4, <1>8
    <3>4. kept \ {k} = kept
      BY <1>4, <2>8
    <3>. QED
      BY <3>1, <3>2, <3>3, <3>4 DEF Cache!Newest
  <2>16. \A j \in keys \ {last} : <<last, j>> \in Older[m]
    <3>. SUFFICES ASSUME NEW j \in keys \ {last} PROVE <<last, j>> \in Behind(s)
      BY <1>8
    <3>1. <<last, j>> \in Behind(s) \cup (keys \X {k})
      BY <1>5, <2>5
    <3>. QED
      BY <1>4, <3>1
  <2>17. /\ Older' = [Older EXCEPT ![m] =
                        Cache!Newest({p \in Older[m] : p[1] \in kept /\ p[2] \in kept}, kept, k)]
         /\ kv' = [kv EXCEPT ![m] = [j \in kept \cup {k} |-> IF j = k THEN v ELSE kv[m][j]]]
    BY <1>8, <2>3, <2>10, <2>14, <2>15
  <2>18. Cache!Put(m, k, v)
    <3>1. k \in Key \ Cache!Keys(m) /\ Cache!Keys(m) = keys
      BY <1>2, <1>4 DEF Cache!Keys
    <3>2. /\ {last} \in SUBSET Cache!Keys(m) /\ Cache!Keys(m) \ {last} = kept
          /\ ~(Cache!Cardinality(Cache!Keys(m)) < capacity[m])
      BY <1>7, <2>6, <2>7, <2>8, <3>1, SameCount
    <3>3. \E r \in Cache!Keys(m) :
            {last} = {r} /\ \A j \in Cache!Keys(m) \ {r} : <<r, j>> \in Older[m]
      BY <2>7, <2>16, <3>1
    <3>4. /\ kv' = [kv EXCEPT ![m] = [j \in (Cache!Keys(m) \ {last}) \cup {k} |->
                                        IF j = k THEN v ELSE kv[m][j]]]
          /\ Older' = [Older EXCEPT ![m] =
                         Cache!Newest({p \in Older[m] : p[1] \in Cache!Keys(m) \ {last}
                                                       /\ p[2] \in Cache!Keys(m) \ {last}},
                                      Cache!Keys(m) \ {last}, k)]
      BY <2>17, <3>2
    <3>. QED
      BY <1>4, <3>1, <3>2, <3>3, <3>4 DEF Cache!Put, Older
  <2>. QED
    BY <2>14, <2>18
<1>11. Cardinality(DOMAIN map) <= capacity[m] \/ Cardinality(DOMAIN map) > capacity[m]
  BY <1>6, <1>7
<1>. QED
  BY <1>9, <1>10, <1>11

-----------------------------------------------------------------------------
LEMMA LruInitially == LruInit => LruInv /\ Cache!Init
<1>. SUFFICES ASSUME LruInit PROVE LruInv /\ Cache!Init
  OBVIOUS
<1>1. PICK f : f = [k \in {} |-> 0]
  OBVIOUS
<1>2. kv = [m \in Map |-> f] /\ kl = [m \in Map |-> <<>>] /\ ki = [m \in Map |-> {}] /\ found = <<>>
  BY <1>1 DEF LruInit, Nothing
<1>3. f \in UNION {[S -> Value] : S \in SUBSET Key} /\ DOMAIN f = {}
  <2>1. f \in [{} -> Value] /\ {} \in SUBSET Key /\ DOMAIN f = {}
    BY <1>1
  <2>. QED
    BY <2>1
<1>4. capacity \in [Map -> Nat \ {0}]
  <2>1. PICK given \in [Map -> Asked] :
          capacity = [m \in Map |-> IF given[m] > 0 THEN given[m] ELSE DefaultCapacity]
    BY DEF LruInit
  <2>2. \A m \in Map : given[m] \in Nat
    BY LruAssumption
  <2>3. DefaultCapacity \in Nat \ {0}
    BY LruAssumption
  <2>. QED
    BY <2>1, <2>2, <2>3
<1>5. Behind(<<>>) = {} /\ Distinct(<<>>) /\ Listed(<<>>) = {}
  <2>1. Distinct(<<>>) /\ Listed(<<>>) = {}
    BY DEF Distinct, Listed
  <2>. QED
    BY <2>1, BehindListed
<1>6. LruType
  <2>1. kv \in [Map -> UNION {[S -> Value] : S \in SUBSET Key}]
    BY <1>2, <1>3
  <2>2. kl \in [Map -> Seq(Key)] /\ ki \in [Map -> SUBSET Key]
    BY <1>2
  <2>. QED
    BY <1>4, <2>1, <2>2 DEF LruType
<1>7. InStep
  BY <1>2, <1>3, <1>4, <1>5, FS_EmptySet DEF InStep
<1>8. Older = [m \in Map |-> {}]
  BY <1>2, <1>5 DEF Older
<1>9. Cache!Init
  BY <1>1, <1>2, <1>4, <1>8 DEF Cache!Init, Older
<1>. QED
  BY <1>6, <1>7, <1>9 DEF LruInv

LEMMA LruStep ==
  ASSUME LruInv, [LruNext]_lruVars
  PROVE  LruInv' /\ [Cache!Next]_Cache!cacheVars
<1>1. CASE UNCHANGED lruVars
  <2>1. UNCHANGED <<kv, kl, ki, capacity, found>>
    BY <1>1 DEF lruVars
  <2>2. LruInv'
    BY <2>1 DEF LruInv, LruType, InStep, Distinct, Listed
  <2>3. UNCHANGED Cache!cacheVars
    BY <2>1 DEF Cache!cacheVars, Behind
  <2>. QED
    BY <2>2, <2>3
<1>2. CASE LruNext
  <2>. SUFFICES ASSUME NEW m \in Map,
                       \/ \E k \in Key : Find(m, k) \/ Erase(m, k) \/ \E v \in Value : Insert(m, k, v)
                       \/ Clear(m)
                       \/ \E n \in Map : Swap(m, n)
                PROVE  LruInv' /\ Cache!Next
    BY <1>2 DEF LruNext
  <2>1. ASSUME NEW k \in Key, Find(m, k)
        PROVE  LruInv' /\ Cache!Next
    BY <2>1, FindStep DEF Cache!Next
  <2>2. ASSUME NEW k \in Key, Erase(m, k)
        PROVE  LruInv' /\ Cache!Next
    BY <2>2, EraseStep DEF Cache!Next
  <2>3. ASSUME NEW k \in Key, NEW v \in Value, Insert(m, k, v)
        PROVE  LruInv' /\ Cache!Next
    BY <2>3, InsertStep DEF Cache!Next
  <2>4. CASE Clear(m)
    BY <2>4, ClearStep DEF Cache!Next
  <2>5. ASSUME NEW n \in Map, Swap(m, n)
        PROVE  LruInv' /\ Cache!Next
    BY <2>5, SwapStep DEF Cache!Next
  <2>. QED
    BY <2>1, <2>2, <2>3, <2>4, <2>5
<1>. QED
  BY <1>1, <1>2

\* Entries, list and index have the same keys after every operation (lru_map.h).
THEOREM LruInvariant == LruSpec => []LruInv
<1>1. LruInit => LruInv
  BY LruInitially
<1>2. LruInv /\ [LruNext]_lruVars => LruInv'
  BY LruStep
<1>. QED
  BY <1>1, <1>2, PTL DEF LruSpec

\* LruMap is a bounded map that gives up the key not used for longest, for all keys,
\* values and capacities, with swaps (lru_map.h:33-83).
THEOREM LruIsCache == LruSpec => ImplementsLru
<1>1. LruInit => Cache!Init
  BY LruInitially
<1>2. LruInv /\ [LruNext]_lruVars => [Cache!Next]_Cache!cacheVars
  BY LruStep
<1>. QED
  BY <1>1, <1>2, LruInvariant, PTL DEF LruSpec, ImplementsLru, Cache!Spec
=============================================================================
