------------------------------ MODULE LogProofs ------------------------------
(***************************************************************************)
(* Proofs about the parts of the logs that stand for themselves, for every *)
(* value of the constants:                                                 *)
(*   LogFiles  the rotation keeps what was written in order, for any       *)
(*             number of files, writes, crashes and deletions              *)
(*             (LevelLogger::open_log_file and write in base/log.cc);      *)
(*   LogTime   the time stamp is right for every clock (LogTime in         *)
(*             base/log.cc);                                               *)
(*   UtilLog   whoever opened the message queue last can log, and texts    *)
(*             come out in order, for any number of processes that open    *)
(*             and use it at the same time (util_file/src/util_log.c);     *)
(*   GhLog     while no category is linked twice the list leads to all of  *)
(*             them and ends, and between two settings every linked        *)
(*             category has the current levels (gh_log/src/gh_log.c).      *)
(***************************************************************************)
EXTENDS LogFiles, LogTime, UtilLog, GhLog, WellFoundedInduction, SequenceTheorems, TLAPS

-----------------------------------------------------------------------------
\* LogFiles: the files.

FilesType ==
  /\ logFile \in [FilePlaces -> Seq(Nat)]
  /\ handle \in {"closed", "open", "unlinked"}
  /\ turn \in -1..Num
  /\ written \in Nat

\* A file is open only outside of open_log_file, and the place a file is moved to
\* is free: it was found free, or emptied just before.
Idle == handle # "closed" => turn = -1
Vacant == turn \in FilePlaces \ {0} => Absent(turn)

FilesInv == FilesType /\ Idle /\ Vacant /\ FilesInOrder

-----------------------------------------------------------------------------
\* The search for a place to move to finds one, a free one or the last
\* (log.cc:242-246).
LEMMA FreePlaceFound ==
  ASSUME FilesType
  PROVE  /\ FreePlace \in FilePlaces
         /\ FreePlace # Num - 1 => FreePlace > 0 /\ Absent(FreePlace)
         /\ \A j \in 1..FreePlace - 1 : ~Absent(j)
<1>. DEFINE Ends == {i \in FilePlaces : i = Num - 1 \/ (i > 0 /\ Absent(i))}
            Less == OpToRel(<, Nat)
<1>1. Num - 1 \in Ends /\ Ends \subseteq Nat
  BY FilesAssumption DEF FilePlaces
<1>2. PICK i \in Ends : \A j \in Ends : <<j, i>> \notin Less
  <2>. HIDE DEF Ends, Less
  <2>1. Ends # {}
    BY <1>1
  <2>2. IsWellFoundedOn(Less, Nat)
    BY NatLessThanWellFounded DEF Less
  <2>. QED
    BY <1>1, <2>1, <2>2, WFMin
<1>3. \A j \in Ends : ~(j < i)
  BY <1>1, <1>2 DEF OpToRel
<1>4. \A j \in 1..i - 1 : ~Absent(j)
  <2>. SUFFICES ASSUME NEW j \in 1..i - 1, Absent(j) PROVE FALSE
    OBVIOUS
  <2>1. j \in Ends /\ j < i
    BY FilesAssumption DEF FilePlaces
  <2>. QED
    BY <1>3, <2>1
<1>. QED
  BY <1>4 DEF FreePlace

\* What a file holds is a set of numbers, and empty if the file is absent.
LEMMA ContentType ==
  ASSUME FilesType, NEW i \in FilePlaces
  PROVE  Content(i) \subseteq Nat /\ (Absent(i) => Content(i) = {})
<1>1. logFile[i] \in Seq(Nat)
  BY DEF FilesType
<1>2. \A n \in DOMAIN logFile[i] : logFile[i][n] \in Nat
  BY <1>1, ElementOfSeq, LenProperties
<1>. QED
  BY <1>1, <1>2 DEF Content, Absent, NoFile

-----------------------------------------------------------------------------
\* The file in the last place goes, and all that is left is younger.
LEMMA RemoveLastInv ==
  ASSUME FilesInv, RemoveLast
  PROVE  FilesInv'
<1>. USE DEF FilesInv
<1>1. Num - 1 \in FilePlaces
  BY FilesAssumption DEF FilePlaces
<1>2. /\ logFile' = [logFile EXCEPT ![Num - 1] = NoFile]
      /\ dropped' = dropped \cup Content(Num - 1)
      /\ turn = Num /\ turn' = Num - 1
      /\ handle' = handle /\ written' = written /\ gone' = gone
  BY DEF RemoveLast
<1>3. /\ logFile'[Num - 1] = <<>>
      /\ \A i \in FilePlaces : i # Num - 1 => logFile'[i] = logFile[i]
  BY <1>1, <1>2 DEF FilesType, NoFile
<1>4. FilesType'
  <2>1. NoFile \in Seq(Nat)
    BY DEF NoFile
  <2>2. logFile' \in [FilePlaces -> Seq(Nat)]
    BY <1>2, <2>1 DEF FilesType
  <2>3. turn' \in -1..Num
    BY <1>2, FilesAssumption
  <2>. QED
    BY <1>2, <2>2, <2>3 DEF FilesType
<1>5. Idle'
  BY <1>2, FilesAssumption DEF Idle
<1>6. Vacant'
  BY <1>2, <1>3 DEF Vacant, Absent, NoFile
<1>7. /\ Content(Num - 1)' = {}
      /\ \A i \in FilePlaces : i # Num - 1 => Content(i)' = Content(i)
  BY <1>3 DEF Content
<1>8. Kept' \cup Content(Num - 1) = Kept /\ Kept' \subseteq Kept
  BY <1>1, <1>7 DEF Kept
<1>9. FilesInOrder'
  <2>1. \A i \in FilePlaces : \A m, n \in DOMAIN logFile'[i] : m < n => logFile'[i][m] < logFile'[i][n]
    BY <1>3 DEF FilesInOrder
  <2>2. \A i, j \in FilePlaces : i < j => \A x \in Content(i)', y \in Content(j)' : y < x
    BY <1>7 DEF FilesInOrder
  <2>3. Kept' \cup dropped' \cup gone' = 1..written'
    BY <1>2, <1>8 DEF FilesInOrder
  <2>4. \A x \in Content(Num - 1), y \in Kept' : x < y
    <3>. SUFFICES ASSUME NEW x \in Content(Num - 1), NEW y \in Kept' PROVE x < y
      OBVIOUS
    <3>1. PICK i \in FilePlaces : y \in Content(i)'
      BY DEF Kept
    <3>2. i # Num - 1 /\ y \in Content(i)
      BY <1>7, <3>1
    <3>3. i < Num - 1
      BY <3>2, FilesAssumption DEF FilePlaces
    <3>. QED
      BY <1>1, <3>2, <3>3 DEF FilesInOrder
  <2>5. \A x \in dropped', y \in Kept' : x < y
    BY <1>2, <1>8, <2>4 DEF FilesInOrder
  <2>. QED
    BY <2>1, <2>2, <2>3, <2>5 DEF FilesInOrder
<1>. QED
  BY <1>4, <1>5, <1>6, <1>9

\* A rename into the free place keeps the order and drops nothing.
LEMMA MoveOnInv ==
  ASSUME FilesInv, MoveOn
  PROVE  FilesInv'
<1>. USE DEF FilesInv
<1>1. /\ turn \in FilePlaces /\ turn - 1 \in FilePlaces /\ turn \in Nat /\ turn > 0
      /\ turn' = turn - 1
      /\ handle' = handle /\ written' = written /\ gone' = gone
  BY FilesAssumption DEF MoveOn, FilePlaces
<1>2. Content(turn) = {}
  BY <1>1, ContentType DEF Vacant
\* A name for the place that does not change with the step.
<1>3. PICK t \in FilePlaces : t = turn
  BY <1>1
<1>4. CASE Absent(turn - 1)
  <2>1. UNCHANGED <<logFile, dropped>>
    BY <1>4 DEF MoveOn
  <2>2. FilesType'
    BY <1>1, <2>1, FilesAssumption DEF FilesType
  <2>3. Idle' /\ Vacant'
    BY <1>1, <1>4, <2>1 DEF Idle, Vacant, Absent
  <2>4. FilesInOrder'
    BY <1>1, <2>1 DEF FilesInOrder, Kept, Content
  <2>. QED
    BY <2>2, <2>3, <2>4
<1>5. CASE ~Absent(turn - 1)
  <2>1. /\ logFile' = [logFile EXCEPT ![turn] = logFile[turn - 1], ![turn - 1] = NoFile]
        /\ dropped' = dropped
    BY <1>2, <1>5 DEF MoveOn
  <2>2. /\ logFile'[t] = logFile[t - 1] /\ logFile'[t - 1] = <<>>
        /\ \A i \in FilePlaces \ {t, t - 1} : logFile'[i] = logFile[i]
    BY <1>1, <1>3, <2>1 DEF FilesType, NoFile
  <2>3. FilesType'
    <3>1. logFile[t - 1] \in Seq(Nat) /\ NoFile \in Seq(Nat)
      BY <1>1, <1>3 DEF FilesType, NoFile
    <3>. QED
      BY <1>1, <1>3, <2>1, <3>1, FilesAssumption DEF FilesType
  <2>4. Idle' /\ Vacant'
    BY <1>1, <1>3, <2>2 DEF Idle, Vacant, Absent, NoFile
  <2>5. /\ Content(t)' = Content(t - 1) /\ Content(t - 1)' = {}
        /\ \A i \in FilePlaces \ {t, t - 1} : Content(i)' = Content(i)
    <3>1. Content(t)' = Content(t - 1)
      BY <2>2, Zenon DEF Content
    <3>2. Content(t - 1)' = {}
      <4>1. Content(t - 1)' = {logFile'[t - 1][n] : n \in DOMAIN logFile'[t - 1]}
        BY <1>1, <1>3 DEF Content
      <4>. QED
        BY <2>2, <4>1
    <3>3. \A i \in FilePlaces \ {t, t - 1} : Content(i)' = Content(i)
      BY <2>2, Zenon DEF Content
    <3>. QED
      BY <3>1, <3>2, <3>3
  <2>6. Kept' = Kept
    <3>1. \A y \in Kept : y \in Kept'
      <4>. SUFFICES ASSUME NEW y \in Kept PROVE y \in Kept'
        OBVIOUS
      <4>1. PICK i \in FilePlaces : y \in Content(i)
        BY DEF Kept
      <4>2. PICK j \in FilePlaces : y \in Content(j)'
        <5>1. CASE i = t
          BY <1>3, <1>2, <4>1, <5>1
        <5>2. CASE i = t - 1
          BY <1>1, <1>3, <2>5, <4>1, <5>2
        <5>3. CASE i \in FilePlaces \ {t, t - 1}
          BY <2>5, <4>1, <5>3
        <5>. QED
          BY <5>1, <5>2, <5>3
      <4>. QED
        BY <4>2 DEF Kept
    <3>2. \A y \in Kept' : y \in Kept
      BY <1>1, <1>3, <2>5 DEF Kept
    <3>. QED
      BY <3>1, <3>2
  <2>7. \A i \in FilePlaces : \A m, n \in DOMAIN logFile'[i] : m < n => logFile'[i][m] < logFile'[i][n]
    <3>1. \A i \in FilePlaces : logFile'[i] = <<>> \/ \E j \in FilePlaces : logFile'[i] = logFile[j]
      BY <1>1, <1>3, <2>2
    <3>. QED
      BY <3>1 DEF FilesInOrder
  <2>8. \A i, j \in FilePlaces : i < j => \A x \in Content(i)', y \in Content(j)' : y < x
    <3>. SUFFICES ASSUME NEW i \in FilePlaces, NEW j \in FilePlaces, i < j,
                         NEW x \in Content(i)', NEW y \in Content(j)'
                  PROVE  y < x
      OBVIOUS
    <3>. DEFINE From(k) == IF k = t THEN t - 1 ELSE k
    <3>1. /\ x \in Content(From(i)) /\ y \in Content(From(j))
          /\ i # t - 1 /\ j # t - 1
      <4>1. i # t - 1 /\ j # t - 1
        BY <2>5
      <4>2. \A k \in FilePlaces : k # t - 1 => Content(k)' = Content(From(k))
        BY <2>5
      <4>. QED
        BY <4>1, <4>2
    <3>2. From(i) \in FilePlaces /\ From(j) \in FilePlaces /\ From(i) < From(j)
      BY <1>1, <1>3, <3>1 DEF FilePlaces
    <3>. QED
      BY <3>1, <3>2 DEF FilesInOrder
  <2>9. FilesInOrder'
    BY <1>1, <1>3, <2>1, <2>6, <2>7, <2>8 DEF FilesInOrder
  <2>. QED
    BY <2>3, <2>4, <2>9
<1>. QED
  BY <1>4, <1>5

\* A write goes behind all that is there.
LEMMA WriteFileInv ==
  ASSUME FilesInv, WriteFile
  PROVE  FilesInv'
<1>. USE DEF FilesInv
<1>. DEFINE w == written + 1
<1>1. /\ w \in Nat /\ written \in Nat /\ written' = w /\ turn' = turn /\ dropped' = dropped
      /\ handle' \in {"closed", handle} /\ handle \in {"open", "unlinked"}
  BY DEF WriteFile, FilesType
<1>2. 0 \in FilePlaces
  BY FilesAssumption DEF FilePlaces
<1>3. Kept \subseteq 1..written /\ dropped \subseteq 1..written
  BY DEF FilesInOrder
<1>4. Idle'
  BY <1>1 DEF Idle
<1>5. CASE handle = "open"
  <2>1. logFile' = [logFile EXCEPT ![0] = Append(logFile[0], w)] /\ gone' = gone
    BY <1>5 DEF WriteFile
  <2>2. logFile[0] \in Seq(Nat)
    BY <1>2 DEF FilesType
  <2>3. /\ logFile'[0] = Append(logFile[0], w)
        /\ \A i \in FilePlaces : i # 0 => logFile'[i] = logFile[i]
    BY <1>2, <2>1 DEF FilesType
  <2>4. /\ Append(logFile[0], w) \in Seq(Nat)
        /\ DOMAIN logFile[0] = 1..Len(logFile[0]) /\ Len(logFile[0]) \in Nat
        /\ DOMAIN Append(logFile[0], w) = 1..Len(logFile[0]) + 1
        /\ \A n \in 1..Len(logFile[0]) : Append(logFile[0], w)[n] = logFile[0][n]
        /\ Append(logFile[0], w)[Len(logFile[0]) + 1] = w
    BY <1>1, <2>2, AppendProperties, LenProperties
  <2>. HIDE DEF w
  <2>5. FilesType'
    BY <1>1, <2>1, <2>4 DEF FilesType
  <2>6. Vacant'
    BY <1>1, <2>3 DEF Vacant, Absent
  <2>7. /\ Content(0)' = Content(0) \cup {w}
        /\ \A i \in FilePlaces : i # 0 => Content(i)' = Content(i)
    <3>1. \A n \in DOMAIN logFile'[0] : logFile'[0][n] \in Content(0) \cup {w}
      BY <2>3, <2>4 DEF Content
    <3>2. w \in Content(0)'
      BY <2>3, <2>4 DEF Content
    <3>3. \A n \in DOMAIN logFile[0] : logFile[0][n] \in Content(0)'
      BY <2>3, <2>4 DEF Content
    <3>4. Content(0)' = Content(0) \cup {w}
      BY <3>1, <3>2, <3>3 DEF Content
    <3>. QED
      BY <2>3, <3>4 DEF Content
  <2>8. Kept' = Kept \cup {w}
    BY <1>2, <2>7 DEF Kept
  <2>9. \A x \in Kept \cup dropped : x < w
    BY <1>1, <1>3 DEF w
  <2>10. \A i \in FilePlaces : \A m, n \in DOMAIN logFile'[i] : m < n => logFile'[i][m] < logFile'[i][n]
    <3>. SUFFICES ASSUME NEW i \in FilePlaces, NEW m \in DOMAIN logFile'[i],
                         NEW n \in DOMAIN logFile'[i], m < n
                  PROVE  logFile'[i][m] < logFile'[i][n]
      OBVIOUS
    <3>1. CASE i # 0
      BY <2>3, <3>1 DEF FilesInOrder
    <3>2. CASE i = 0 /\ n = Len(logFile[0]) + 1
      <4>1. m \in 1..Len(logFile[0]) /\ logFile[0][m] \in Kept
        BY <1>2, <2>3, <2>4, <3>2 DEF Content, Kept
      <4>. QED
        BY <2>3, <2>4, <2>9, <3>2, <4>1
    <3>3. CASE i = 0 /\ n # Len(logFile[0]) + 1
      <4>1. m \in DOMAIN logFile[0] /\ n \in DOMAIN logFile[0]
        BY <2>3, <2>4, <3>3
      <4>2. logFile[0][m] < logFile[0][n]
        BY <1>2, <4>1 DEF FilesInOrder
      <4>. QED
        BY <2>3, <2>4, <3>3, <4>1, <4>2
    <3>. QED
      BY <3>1, <3>2, <3>3
  <2>11. \A i, j \in FilePlaces : i < j => \A x \in Content(i)', y \in Content(j)' : y < x
    <3>. SUFFICES ASSUME NEW i \in FilePlaces, NEW j \in FilePlaces, i < j,
                         NEW x \in Content(i)', NEW y \in Content(j)'
                  PROVE  y < x
      OBVIOUS
    <3>1. j # 0 /\ y \in Content(j)
      BY <2>7 DEF FilePlaces
    <3>2. y \in Kept
      BY <3>1 DEF Kept
    <3>3. CASE x \in Content(i)
      BY <3>1, <3>3 DEF FilesInOrder
    <3>4. CASE x = w
      BY <2>9, <3>2, <3>4
    <3>. QED
      BY <2>7, <3>3, <3>4
  <2>12. Kept' \cup dropped' \cup gone' = 1..written'
    <3>1. 1..w = 1..written \cup {w}
      BY <1>1 DEF w
    <3>. QED
      BY <1>1, <2>1, <2>8, <3>1 DEF FilesInOrder
  <2>13. \A x \in dropped', y \in Kept' : x < y
    BY <1>1, <2>8, <2>9 DEF FilesInOrder
  <2>14. FilesInOrder'
    BY <2>10, <2>11, <2>12, <2>13 DEF FilesInOrder
  <2>. QED
    BY <1>4, <2>5, <2>6, <2>14
<1>6. CASE handle # "open"
  <2>1. logFile' = logFile /\ gone' = gone \cup {w}
    BY <1>6 DEF WriteFile
  <2>2. FilesType' /\ Vacant'
    BY <1>1, <2>1 DEF FilesType, Vacant, Absent
  <2>3. Kept' = Kept /\ \A i \in FilePlaces : Content(i)' = Content(i)
    BY <2>1 DEF Kept, Content
  <2>4. Kept' \cup dropped' \cup gone' = 1..written'
    BY <1>1, <2>1, <2>3 DEF FilesInOrder
  <2>5. FilesInOrder'
    BY <1>1, <2>1, <2>3, <2>4 DEF FilesInOrder
  <2>. QED
    BY <1>4, <2>2, <2>5
<1>. QED
  BY <1>5, <1>6

\* A file that is deleted is neither kept nor dropped; nothing moves.
LEMMA DeleteFileInv ==
  ASSUME FilesInv, NEW i \in FilePlaces, DeleteFile(i)
  PROVE  FilesInv'
<1>. USE DEF FilesInv
<1>1. /\ logFile' = [logFile EXCEPT ![i] = NoFile] /\ gone' = gone \cup Content(i)
      /\ turn' = turn /\ written' = written /\ dropped' = dropped
      /\ handle' \in {handle, "unlinked"} /\ (handle = "closed" => handle' = "closed")
  BY DEF DeleteFile
<1>2. /\ logFile'[i] = <<>>
      /\ \A j \in FilePlaces : j # i => logFile'[j] = logFile[j]
  BY <1>1 DEF FilesType, NoFile
<1>3. FilesType' /\ Idle' /\ Vacant'
  BY <1>1, <1>2 DEF FilesType, NoFile, Idle, Vacant, Absent
<1>4. /\ Content(i)' = {}
      /\ \A j \in FilePlaces : j # i => Content(j)' = Content(j)
  BY <1>2 DEF Content
<1>5. Kept' \cup Content(i) = Kept /\ Kept' \subseteq Kept
  BY <1>4 DEF Kept
<1>6. FilesInOrder'
  <2>1. \A j \in FilePlaces : \A m, n \in DOMAIN logFile'[j] : m < n => logFile'[j][m] < logFile'[j][n]
    BY <1>2 DEF FilesInOrder
  <2>2. \A j, k \in FilePlaces : j < k => \A x \in Content(j)', y \in Content(k)' : y < x
    BY <1>4 DEF FilesInOrder
  <2>3. Kept' \cup dropped' \cup gone' = 1..written'
    BY <1>1, <1>5 DEF FilesInOrder
  <2>4. \A x \in dropped', y \in Kept' : x < y
    BY <1>1, <1>5 DEF FilesInOrder
  <2>. QED
    BY <2>1, <2>2, <2>3, <2>4 DEF FilesInOrder
<1>. QED
  BY <1>3, <1>6

\* The steps that change no file: the search, the opening and a crash.
LEMMA OtherInv ==
  ASSUME FilesInv, Rotate \/ OpenFile \/ ProcessDies
  PROVE  FilesInv'
<1>. USE DEF FilesInv
<1>1. logFile' = logFile /\ dropped' = dropped
  BY DEF Rotate, OpenFile, Opened, ProcessDies
<1>2. Kept' = Kept /\ \A i \in FilePlaces : Content(i)' = Content(i)
  BY <1>1 DEF Kept, Content
<1>3. CASE Rotate
  <2>1. FilesType'
    BY <1>3, FreePlaceFound, FilesAssumption DEF Rotate, FilesType, FilePlaces
  <2>2. Idle' /\ Vacant'
    BY <1>1, <1>3, FreePlaceFound, FilesAssumption DEF Rotate, Idle, Vacant, Absent, FilePlaces
  <2>3. FilesInOrder'
    BY <1>1, <1>2, <1>3 DEF Rotate, FilesInOrder
  <2>. QED
    BY <2>1, <2>2, <2>3
<1>4. CASE OpenFile
  <2>1. FilesType' /\ Idle' /\ Vacant'
    BY <1>1, <1>4, FilesAssumption DEF OpenFile, FilesType, Idle, Vacant, FilePlaces
  <2>2. Kept' \cup dropped' \cup gone' = 1..written'
    BY <1>1, <1>2, <1>4 DEF OpenFile, FilesInOrder, FilesType
  <2>3. FilesInOrder'
    BY <1>1, <1>2, <2>2 DEF FilesInOrder
  <2>. QED
    BY <2>1, <2>3
<1>5. CASE ProcessDies
  <2>1. FilesType' /\ Idle' /\ Vacant'
    BY <1>1, <1>5, FilesAssumption DEF ProcessDies, FilesType, Idle, Vacant, FilePlaces
  <2>2. FilesInOrder'
    BY <1>1, <1>2, <1>5 DEF ProcessDies, FilesInOrder
  <2>. QED
    BY <2>1, <2>2
<1>. QED
  BY <1>3, <1>4, <1>5

-----------------------------------------------------------------------------
\* The invariant, for every number and size of the files.
THEOREM FilesInvariant == FilesSpec => []FilesInv
<1>1. FilesInit => FilesInv
  <2>. SUFFICES ASSUME FilesInit PROVE FilesInv
    OBVIOUS
  <2>1. FilesType /\ Idle /\ Vacant
    BY FilesAssumption DEF FilesInit, FilesType, NoFile, Idle, Vacant, FilePlaces
  <2>2. \A i \in FilePlaces : logFile[i] = <<>> /\ Content(i) = {}
    BY DEF FilesInit, NoFile, Content
  <2>3. FilesInOrder
    BY <2>2 DEF FilesInit, FilesInOrder, Kept
  <2>. QED
    BY <2>1, <2>3 DEF FilesInv
<1>2. FilesInv /\ [FilesNext]_filesVars => FilesInv'
  <2>. SUFFICES ASSUME FilesInv, [FilesNext]_filesVars PROVE FilesInv'
    OBVIOUS
  <2>1. CASE UNCHANGED filesVars
    BY <2>1 DEF filesVars, FilesInv, FilesType, Idle, Vacant, FilesInOrder, Absent, Content, Kept
  <2>2. CASE RemoveLast
    BY <2>2, RemoveLastInv
  <2>3. CASE MoveOn
    BY <2>3, MoveOnInv
  <2>4. CASE WriteFile
    BY <2>4, WriteFileInv
  <2>5. CASE Rotate \/ OpenFile \/ ProcessDies
    BY <2>5, OtherInv
  <2>6. CASE \E i \in FilePlaces : DeleteFile(i)
    BY <2>6, DeleteFileInv
  <2>. QED
    BY <2>1, <2>2, <2>3, <2>4, <2>5, <2>6 DEF FilesNext
<1>. QED
  BY <1>1, <1>2, PTL DEF FilesSpec

\* No write is in two files or out of order, none is missing but those that were
\* dropped with an oldest file or taken by somebody (log.cc:237-255).
THEOREM FilesStayInOrder == FilesSpec => []FilesInOrder
<1>1. FilesInv => FilesInOrder
  BY DEF FilesInv
<1>. QED
  BY <1>1, FilesInvariant, PTL

-----------------------------------------------------------------------------
\* How old a write is that was moved on, while nothing was deleted. The code dies
\* between two renames at times and leaves a place free, but it fills that one
\* first: there is one free place at most below a file.

\* While the files move on, the first one is full and there is no free place
\* below the one they move to.
Moving ==
  turn > 0 => /\ Len(logFile[0]) >= Size
              /\ \A j \in 1..Num - 2 : j < turn => ~Absent(j)

OneHole ==
  \A i \in 1..Num - 1 : ~Absent(i) =>
    \A j, k \in 1..i - 1 : Absent(j) /\ Absent(k) => j = k

\* Write x in file i was followed by as many as fill the files below.
Deep(i, x) ==
  /\ written - x >= Size * (i - 2) + Len(logFile[0])
  /\ (\A j \in 1..i - 1 : ~Absent(j)) => written - x >= Size * (i - 1) + Len(logFile[0])

Depth == \A i \in 1..Num - 1 : \A x \in Content(i) : Deep(i, x)
DroppedDeep == \A x \in dropped : written - x >= Size * (Num - 1)

AgeInv == gone = {} => Moving /\ OneHole /\ Depth /\ DroppedDeep

\* One file more is as many writes more.
LEMMA OneFileMore ==
  ASSUME NEW i \in Int
  PROVE  Size * i \in Int /\ Size * (i - 1) \in Int /\ Size * i = Size * (i - 1) + Size
<1>1. PICK s \in Int : s = Size
  BY FilesAssumption
<1>2. s * i = s * (i - 1) + s
  BY SMT
<1>. QED
  BY <1>1, <1>2

\* The file in the last place is removed only when all below it are full.
LEMMA RemoveLastAge ==
  ASSUME FilesInv, AgeInv, RemoveLast
  PROVE  AgeInv'
<1>. SUFFICES ASSUME gone' = {} PROVE (Moving /\ OneHole /\ Depth /\ DroppedDeep)'
  BY DEF AgeInv
<1>1. /\ Num \in Nat /\ Num > 0 /\ Size \in Nat /\ Size > 0
      /\ FilesType /\ FilesInOrder
  BY FilesAssumption DEF FilesInv
<1>2. /\ logFile' = [logFile EXCEPT ![Num - 1] = NoFile]
      /\ dropped' = dropped \cup Content(Num - 1)
      /\ turn = Num /\ turn' = Num - 1
      /\ written' = written /\ gone' = gone
  BY DEF RemoveLast
<1>3. /\ Absent(Num - 1)' /\ Content(Num - 1)' = {}
      /\ \A i \in FilePlaces : i # Num - 1 => logFile'[i] = logFile[i]
  BY <1>1, <1>2 DEF FilesType, NoFile, Absent, Content, FilePlaces
<1>4. Moving /\ OneHole /\ Depth /\ DroppedDeep
  BY <1>2 DEF AgeInv
<1>5. \A i \in 1..Num - 2 : Absent(i)' = Absent(i) /\ Content(i)' = Content(i)
  BY <1>1, <1>3 DEF Absent, Content, FilePlaces
<1>6. \A j \in 1..Num - 2 : ~Absent(j)
  BY <1>1, <1>2, <1>4 DEF Moving
<1>7. Len(logFile[0]) \in Nat /\ Len(logFile[0]) >= Size
  BY <1>1, <1>2, <1>4, LenProperties DEF Moving, FilesType, FilePlaces
<1>8. Num > 1 => logFile'[0] = logFile[0]
  BY <1>1, <1>3 DEF FilePlaces
<1>9. Moving'
  <2>1. turn' > 0 => Len(logFile'[0]) >= Size
    BY <1>1, <1>2, <1>7, <1>8
  <2>. QED
    BY <1>5, <1>6, <2>1 DEF Moving
<1>10. OneHole'
  BY <1>1, <1>3, <1>5, <1>6 DEF OneHole
<1>11. Depth'
  <2>. SUFFICES ASSUME NEW i \in 1..Num - 1, NEW x \in Content(i)' PROVE Deep(i, x)'
    BY DEF Depth
  <2>1. i \in 1..Num - 2 /\ x \in Content(i) /\ Deep(i, x)
    BY <1>1, <1>3, <1>4, <1>5 DEF Depth
  <2>2. \A j \in 1..i - 1 : Absent(j)' = Absent(j)
    BY <1>1, <1>5, <2>1
  <2>3. logFile'[0] = logFile[0] /\ written' = written
    BY <1>1, <1>2, <1>8
  <2>. QED
    BY <2>1, <2>2, <2>3 DEF Deep
<1>12. DroppedDeep'
  <2>. SUFFICES ASSUME NEW x \in Content(Num - 1) PROVE written - x >= Size * (Num - 1)
    BY <1>2, <1>4 DEF DroppedDeep
  <2>1. CASE Num = 1
    <3>1. x \in Kept
      BY <1>1 DEF Kept, FilePlaces
    <3>2. x \in 1..written /\ written \in Nat
      BY <1>1, <3>1 DEF FilesInOrder, FilesType
    <3>3. Size * (Num - 1) = 0
      BY <1>1, <2>1
    <3>. QED
      BY <3>2, <3>3
  <2>2. CASE Num > 1
    <3>1. Num - 1 \in 1..Num - 1 /\ Num - 1 \in Int
      BY <1>1, <2>2
    <3>2. Deep(Num - 1, x)
      BY <1>4, <3>1 DEF Depth
    <3>3. \A j \in 1..(Num - 1) - 1 : ~Absent(j)
      BY <1>1, <1>6
    <3>4. written - x >= Size * ((Num - 1) - 1) + Len(logFile[0])
      BY <3>2, <3>3 DEF Deep
    <3>5. x \in Nat /\ written \in Nat
      BY <1>1, <3>1, ContentType DEF FilesType, FilePlaces
    <3>6. PICK p \in Int, q \in Int, l \in Nat :
            /\ p = Size * (Num - 1) /\ q = Size * ((Num - 1) - 1) /\ p = q + Size
            /\ l = Len(logFile[0])
      BY <1>7, <3>1, OneFileMore
    <3>7. written - x >= q + l /\ l >= Size
      <4>1. written - x >= q + l
        BY <3>4, <3>6, Zenon
      <4>2. l >= Size
        BY <1>7, <3>6, Zenon
      <4>. QED
        BY <4>1, <4>2
    <3>8. p = q + Size
      BY <3>6
    <3>9. written - x >= p
      BY <1>1, <3>5, <3>7, <3>8
    <3>. QED
      BY <3>6, <3>9
  <2>. QED
    BY <1>1, <2>1, <2>2
<1>. QED
  BY <1>9, <1>10, <1>11, <1>12

\* A rename fills the one free place below the files behind it, and leaves one
\* where the file was, or none if that was the file itself.
LEMMA MoveOnAge ==
  ASSUME FilesInv, AgeInv, MoveOn
  PROVE  AgeInv'
<1>. SUFFICES ASSUME gone' = {} PROVE (Moving /\ OneHole /\ Depth /\ DroppedDeep)'
  BY DEF AgeInv
<1>1. /\ Num \in Nat /\ Num > 0 /\ Size \in Nat /\ Size > 0
      /\ FilesType /\ FilesInOrder /\ Vacant
  BY FilesAssumption DEF FilesInv
<1>2. PICK t \in 1..Num - 1 : t = turn
  BY <1>1 DEF MoveOn, FilePlaces
<1>3. /\ t \in FilePlaces /\ t - 1 \in FilePlaces /\ t \in Int
      /\ turn' = t - 1
      /\ written' = written /\ gone' = gone
  BY <1>1, <1>2 DEF MoveOn, FilePlaces
<1>4. Moving /\ OneHole /\ Depth /\ DroppedDeep
  BY <1>3 DEF AgeInv
<1>5. Absent(t)
  BY <1>1, <1>2, <1>3 DEF Vacant
<1>6. /\ Len(logFile[0]) \in Nat /\ Len(logFile[0]) >= Size
      /\ \A j \in 1..t - 1 : ~Absent(j)
  <2>1. Len(logFile[0]) \in Nat
    BY <1>1, LenProperties DEF FilesType, FilePlaces
  <2>2. \A j \in 1..t - 1 : j \in 1..Num - 2 /\ j < turn
    BY <1>1, <1>2
  <2>. QED
    BY <1>2, <1>4, <2>1, <2>2 DEF Moving
<1>7. ~Absent(t - 1)
  <2>1. CASE t = 1
    BY <1>1, <1>6, <2>1 DEF Absent, NoFile
  <2>2. CASE t > 1
    BY <1>6, <2>2
  <2>. QED
    BY <2>1, <2>2
<1>8. /\ logFile' = [logFile EXCEPT ![t] = logFile[t - 1], ![t - 1] = NoFile]
      /\ dropped' = dropped \cup Content(t)
  BY <1>2, <1>7 DEF MoveOn
<1>9. /\ logFile'[t] = logFile[t - 1] /\ logFile'[t - 1] = <<>>
      /\ \A i \in FilePlaces \ {t, t - 1} : logFile'[i] = logFile[i]
  BY <1>1, <1>3, <1>8 DEF FilesType, NoFile
<1>10. /\ ~Absent(t)' /\ Absent(t - 1)'
       /\ \A i \in FilePlaces \ {t, t - 1} : Absent(i)' = Absent(i)
  BY <1>7, <1>9 DEF Absent, NoFile
<1>11. /\ Content(t)' = Content(t - 1) /\ Content(t - 1)' = {}
       /\ \A i \in FilePlaces \ {t, t - 1} : Content(i)' = Content(i)
  <2>1. Content(t)' = Content(t - 1)
    BY <1>9, Zenon DEF Content
  <2>2. Content(t - 1)' = {}
    <3>1. Content(t - 1)' = {logFile'[t - 1][n] : n \in DOMAIN logFile'[t - 1]}
      BY <1>3 DEF Content
    <3>. QED
      BY <1>9, <3>1
  <2>3. \A i \in FilePlaces \ {t, t - 1} : Content(i)' = Content(i)
    BY <1>9, Zenon DEF Content
  <2>. QED
    BY <2>1, <2>2, <2>3
<1>12. \A i \in 1..Num - 1 : i \in FilePlaces /\ i # 0
  BY <1>1 DEF FilePlaces
\* A free place below a file behind t is now t - 1.
<1>13. \A i \in 1..Num - 1 : i > t /\ ~Absent(i) =>
         \A j \in 1..i - 1 : Absent(j)' => j = t - 1
  <2>. SUFFICES ASSUME NEW i \in 1..Num - 1, i > t, ~Absent(i),
                       NEW j \in 1..i - 1, Absent(j)'
                PROVE  j = t - 1
    OBVIOUS
  <2>1. CASE j = t
    BY <1>10, <2>1
  <2>2. CASE j # t /\ j # t - 1
    <3>1. j \in FilePlaces \ {t, t - 1}
      BY <1>1, <2>2 DEF FilePlaces
    <3>2. Absent(j) /\ t \in 1..i - 1
      BY <1>10, <3>1
    <3>. QED
      BY <1>4, <1>5, <2>2, <3>2 DEF OneHole
  <2>. QED
    BY <2>1, <2>2
<1>14. Moving'
  <2>1. turn' > 0 => t > 1
    BY <1>2, <1>3
  <2>2. t > 1 => logFile'[0] = logFile[0]
    BY <1>1, <1>9 DEF FilePlaces
  <2>3. \A j \in 1..Num - 2 : j < t - 1 => ~Absent(j)'
    <3>. SUFFICES ASSUME NEW j \in 1..Num - 2, j < t - 1 PROVE ~Absent(j)'
      OBVIOUS
    <3>1. j \in FilePlaces \ {t, t - 1} /\ j \in 1..t - 1
      BY <1>1, <1>2 DEF FilePlaces
    <3>. QED
      BY <1>6, <1>10, <3>1
  <2>. QED
    BY <1>3, <1>6, <2>1, <2>2, <2>3 DEF Moving
<1>15. OneHole'
  <2>. SUFFICES ASSUME NEW i \in 1..Num - 1, ~Absent(i)',
                       NEW j \in 1..i - 1, NEW k \in 1..i - 1, Absent(j)', Absent(k)'
                PROVE  j = k
    BY DEF OneHole
  <2>1. CASE i > t
    <3>1. ~Absent(i)
      BY <1>2, <1>10, <1>12, <2>1
    <3>. QED
      BY <1>13, <2>1, <3>1
  <2>2. CASE i <= t
    <3>1. \A l \in 1..i - 1 : Absent(l)' => l = t - 1
      <4>. SUFFICES ASSUME NEW l \in 1..i - 1, l # t - 1 PROVE ~Absent(l)'
        OBVIOUS
      <4>1. l \in FilePlaces \ {t, t - 1} /\ l \in 1..t - 1
        BY <1>1, <1>2, <2>2 DEF FilePlaces
      <4>. QED
        BY <1>6, <1>10, <4>1
    <3>. QED
      BY <3>1
  <2>. QED
    BY <1>2, <2>1, <2>2
<1>16. Depth'
  <2>. SUFFICES ASSUME NEW i \in 1..Num - 1, NEW x \in Content(i)' PROVE Deep(i, x)'
    BY DEF Depth
  <2>. DEFINE first == Len(logFile[0])
  <2>1. i # t - 1 /\ written \in Nat
    BY <1>1, <1>11 DEF FilesType
  <2>2. CASE i < t - 1
    <3>1. /\ i \in FilePlaces \ {t, t - 1} /\ logFile'[0] = logFile[0]
          /\ \A j \in 1..i - 1 : j \in FilePlaces \ {t, t - 1}
      BY <1>1, <1>2, <1>9, <2>2 DEF FilePlaces
    <3>2. Deep(i, x)
      BY <1>4, <1>11, <3>1 DEF Depth
    <3>3. \A j \in 1..i - 1 : Absent(j)' = Absent(j)
      BY <1>10, <3>1
    <3>. QED
      BY <1>3, <3>1, <3>2, <3>3 DEF Deep
  <2>3. CASE i = t /\ t > 1
    <3>1. /\ t - 1 \in 1..Num - 1 /\ x \in Content(t - 1) /\ logFile'[0] = logFile[0]
      BY <1>1, <1>2, <1>9, <1>11, <2>3 DEF FilePlaces
    <3>2. Deep(t - 1, x)
      BY <1>4, <3>1 DEF Depth
    <3>3. \A j \in 1..(t - 1) - 1 : ~Absent(j)
      BY <1>6
    <3>4. written - x >= Size * ((t - 1) - 1) + first
      BY <3>2, <3>3 DEF Deep
    <3>5. (t - 1) - 1 = i - 2
      BY <1>3, <2>3
    <3>6. written' - x >= Size * (i - 2) + Len(logFile'[0])
      BY <1>3, <3>1, <3>4, <3>5
    <3>7. t - 1 \in 1..i - 1 /\ Absent(t - 1)'
      BY <1>10, <2>3
    <3>. QED
      BY <3>6, <3>7 DEF Deep
  <2>4. CASE i = t /\ t = 1
    <3>1. x \in Content(0) /\ Len(logFile'[0]) = 0
      BY <1>9, <1>11, <2>4
    <3>2. x \in 1..written
      BY <1>1, <3>1 DEF FilesInOrder, Kept, FilePlaces
    <3>3. Size * (i - 2) = -Size /\ Size * (i - 1) = 0
      BY <1>1, <2>4
    <3>. QED
      BY <1>1, <1>3, <2>1, <3>1, <3>2, <3>3 DEF Deep
  <2>5. CASE i > t
    <3>1. i \in FilePlaces \ {t, t - 1}
      BY <1>1, <1>2, <2>5 DEF FilePlaces
    <3>2. x \in Content(i) /\ x \in Nat
      BY <1>1, <1>11, <3>1, ContentType
    <3>3. written - x >= Size * (i - 2) + first
      BY <1>4, <3>2 DEF Depth, Deep
    <3>4. CASE t > 1
      <4>1. logFile'[0] = logFile[0]
        BY <1>1, <1>9, <3>4 DEF FilePlaces
      <4>2. t - 1 \in 1..i - 1 /\ Absent(t - 1)'
        BY <1>10, <2>5, <3>4
      <4>. QED
        BY <1>3, <3>3, <4>1, <4>2 DEF Deep
    <3>5. CASE t = 1
      <4>1. Len(logFile'[0]) = 0
        BY <1>9, <3>5
      <4>2. /\ Size * (i - 1) \in Int /\ Size * (i - 2) \in Int
            /\ Size * (i - 1) = Size * (i - 2) + Size
        <5>1. i - 1 \in Int /\ (i - 1) - 1 = i - 2
          OBVIOUS
        <5>. QED
          BY <5>1, OneFileMore
      <4>3. written - x >= Size * (i - 1) /\ written - x >= Size * (i - 2)
        <5>1. PICK p \in Int, q \in Int, l \in Nat :
                /\ p = Size * (i - 1) /\ q = Size * (i - 2) /\ p = q + Size
                /\ l = Len(logFile[0])
          BY <1>6, <4>2
        <5>2. written - x >= q + l /\ l >= Size
          <6>1. written - x >= q + l
            BY <3>3, <5>1, Zenon
          <6>2. l >= Size
            BY <1>6, <5>1, Zenon
          <6>. QED
            BY <6>1, <6>2
        <5>3. p = q + Size
          BY <5>1
        <5>4. written - x >= p /\ written - x >= q
          BY <1>1, <2>1, <3>2, <5>2, <5>3
        <5>. QED
          BY <5>1, <5>4
      <4>4. written' - x >= Size * (i - 1) + Len(logFile'[0])
        BY <1>3, <4>1, <4>2, <4>3
      <4>5. written' - x >= Size * (i - 2) + Len(logFile'[0])
        BY <1>3, <4>1, <4>2, <4>3
      <4>. QED
        BY <4>4, <4>5 DEF Deep
    <3>. QED
      BY <1>2, <3>4, <3>5
  <2>. QED
    BY <1>2, <2>1, <2>2, <2>3, <2>4, <2>5
<1>17. DroppedDeep'
  <2>1. Content(t) = {}
    BY <1>1, <1>3, <1>5, ContentType
  <2>. QED
    BY <1>3, <1>4, <1>8, <2>1 DEF DroppedDeep
<1>. QED
  BY <1>14, <1>15, <1>16, <1>17

\* A write makes the first file and all ages one longer.
LEMMA WriteFileAge ==
  ASSUME FilesInv, AgeInv, WriteFile
  PROVE  AgeInv'
<1>. SUFFICES ASSUME gone' = {} PROVE (Moving /\ OneHole /\ Depth /\ DroppedDeep)'
  BY DEF AgeInv
<1>1. /\ Num \in Nat /\ Num > 0 /\ Size \in Nat /\ Size > 0
      /\ FilesType /\ FilesInOrder /\ Idle /\ written \in Nat
  BY FilesAssumption DEF FilesInv, FilesType
<1>2. handle = "open"
  BY DEF WriteFile
<1>3. /\ logFile' = [logFile EXCEPT ![0] = Append(logFile[0], written + 1)]
      /\ gone' = gone /\ written' = written + 1 /\ dropped' = dropped
      /\ turn' = turn /\ turn = -1
  BY <1>1, <1>2 DEF WriteFile, Idle
<1>4. Moving /\ OneHole /\ Depth /\ DroppedDeep
  BY <1>3 DEF AgeInv
<1>5. /\ Len(logFile'[0]) = Len(logFile[0]) + 1 /\ Len(logFile[0]) \in Nat
      /\ \A i \in 1..Num - 1 : logFile'[i] = logFile[i]
  <2>1. 0 \in FilePlaces /\ logFile[0] \in Seq(Nat)
    BY <1>1 DEF FilesType, FilePlaces
  <2>2. \A i \in 1..Num - 1 : i \in FilePlaces /\ i # 0
    BY <1>1 DEF FilePlaces
  <2>. QED
    BY <1>1, <1>3, <2>1, <2>2, AppendProperties, LenProperties DEF FilesType
<1>6. \A i \in 1..Num - 1 : Absent(i)' = Absent(i) /\ Content(i)' = Content(i)
  BY <1>5 DEF Absent, Content
<1>7. Moving'
  BY <1>3 DEF Moving
<1>8. OneHole'
  <2>1. \A i \in 1..Num - 1 : \A j \in 1..i - 1 : j \in 1..Num - 1
    BY <1>1
  <2>. QED
    BY <1>4, <1>6, <2>1 DEF OneHole
<1>9. Depth'
  <2>. SUFFICES ASSUME NEW i \in 1..Num - 1, NEW x \in Content(i)' PROVE Deep(i, x)'
    BY DEF Depth
  <2>1. Deep(i, x) /\ x \in Nat
    BY <1>1, <1>4, <1>6, ContentType DEF Depth, FilePlaces
  <2>2. \A j \in 1..i - 1 : Absent(j)' = Absent(j)
    <3>1. \A j \in 1..i - 1 : j \in 1..Num - 1
      BY <1>1
    <3>. QED
      BY <1>6, <3>1
  <2>3. /\ Size * (i - 1) \in Int /\ Size * (i - 2) \in Int
    BY <1>1
  <2>4. PICK p \in Int, q \in Int, l \in Nat, w \in Nat :
          /\ p = Size * (i - 1) /\ q = Size * (i - 2)
          /\ l = Len(logFile[0]) /\ w = written
    BY <1>1, <1>5, <2>3
  <2>5. /\ w - x >= q + l
        /\ (\A j \in 1..i - 1 : ~Absent(j)) => w - x >= p + l
    BY <2>1, <2>4 DEF Deep
  <2>6. /\ (w + 1) - x >= q + (l + 1)
        /\ w - x >= p + l => (w + 1) - x >= p + (l + 1)
    <3>1. w - x >= q + l
      BY <2>5
    <3>2. p \in Int /\ q \in Int /\ l \in Nat /\ w \in Nat /\ x \in Nat
      BY <2>1, <2>4
    <3>. QED
      BY <3>1, <3>2
  <2>7. written' = w + 1 /\ Len(logFile'[0]) = l + 1
    BY <1>3, <1>5, <2>4
  <2>8. written' - x >= Size * (i - 2) + Len(logFile'[0])
    BY <2>4, <2>6, <2>7
  <2>9. (\A j \in 1..i - 1 : ~Absent(j)') => written' - x >= Size * (i - 1) + Len(logFile'[0])
    BY <2>2, <2>4, <2>5, <2>6, <2>7
  <2>. QED
    BY <2>8, <2>9 DEF Deep
<1>10. DroppedDeep'
  <2>. SUFFICES ASSUME NEW x \in dropped' PROVE written' - x >= Size * (Num - 1)
    BY DEF DroppedDeep
  <2>1. x \in dropped /\ x \in 1..written
    BY <1>1, <1>3 DEF FilesInOrder
  <2>2. PICK p \in Int : p = Size * (Num - 1)
    BY <1>1
  <2>3. written - x >= p
    BY <1>4, <2>1, <2>2 DEF DroppedDeep
  <2>4. (written + 1) - x >= p
    BY <1>1, <2>1, <2>2, <2>3
  <2>. QED
    BY <1>3, <2>2, <2>4
<1>. QED
  BY <1>7, <1>8, <1>9, <1>10

\* The other steps change no age, or take something away.
LEMMA OtherAge ==
  ASSUME FilesInv, AgeInv,
         Rotate \/ OpenFile \/ ProcessDies \/ \E i \in FilePlaces : DeleteFile(i)
  PROVE  AgeInv'
<1>. SUFFICES ASSUME gone' = {} PROVE (Moving /\ OneHole /\ Depth /\ DroppedDeep)'
  BY DEF AgeInv
<1>1. /\ Num \in Nat /\ Num > 0 /\ FilesType
  BY FilesAssumption DEF FilesInv
<1>2. logFile' = logFile /\ written' = written /\ dropped' = dropped /\ gone = {}
  <2>1. CASE Rotate \/ ProcessDies
    BY <2>1 DEF Rotate, ProcessDies
  <2>2. CASE OpenFile
    BY <2>2 DEF OpenFile, Opened
  <2>3. ASSUME NEW i \in FilePlaces, DeleteFile(i)
        PROVE  logFile' = logFile /\ written' = written /\ dropped' = dropped /\ gone = {}
    <3>1. /\ logFile' = [logFile EXCEPT ![i] = NoFile] /\ gone' = gone \cup Content(i)
          /\ written' = written /\ dropped' = dropped
      BY <2>3 DEF DeleteFile
    <3>2. gone = {} /\ Content(i) = {}
      BY <3>1
    <3>3. logFile[i] = <<>>
      <4>1. logFile[i] \in Seq(Nat)
        BY <1>1 DEF FilesType
      <4>2. DOMAIN logFile[i] = {}
        BY <3>2 DEF Content
      <4>. QED
        <5>1. Len(logFile[i]) \in Nat /\ DOMAIN logFile[i] = 1..Len(logFile[i])
          BY <4>1, LenProperties
        <5>2. 1 \notin 1..Len(logFile[i])
          BY <4>2, <5>1
        <5>3. Len(logFile[i]) = 0
          BY <5>1, <5>2
        <5>. QED
          BY <4>1, <5>3, EmptySeq
    <3>4. logFile' = logFile
      BY <1>1, <3>1, <3>3 DEF FilesType, NoFile
    <3>. QED
      BY <3>1, <3>2, <3>4
  <2>. QED
    BY <2>1, <2>2, <2>3
<1>3. Moving /\ OneHole /\ Depth /\ DroppedDeep
  BY <1>2 DEF AgeInv
<1>4. OneHole' /\ Depth' /\ DroppedDeep'
  BY <1>2, <1>3 DEF OneHole, Depth, Deep, DroppedDeep, Absent, Content
<1>5. Moving'
  <2>1. CASE Rotate
    <3>1. turn' > 0 => Len(logFile[0]) >= Size
      BY <1>1, <2>1, FilesAssumption, LenProperties DEF Rotate, FilesType, FilePlaces
    <3>2. FreePlace \in FilePlaces /\ \A j \in 1..FreePlace - 1 : ~Absent(j)
      BY <1>1, FreePlaceFound
    <3>3. \A j \in 1..Num - 2 : j < turn' => ~Absent(j)
      BY <1>1, <2>1, <3>2 DEF Rotate, FilePlaces
    <3>. QED
      BY <1>2, <3>1, <3>3 DEF Moving, Absent
  <2>2. CASE OpenFile \/ ProcessDies
    BY <2>2 DEF OpenFile, ProcessDies, Moving
  <2>3. CASE \E i \in FilePlaces : DeleteFile(i)
    <3>1. turn' = turn
      BY <2>3 DEF DeleteFile
    <3>. QED
      BY <1>2, <1>3, <3>1 DEF Moving, Absent
  <2>. QED
    BY <2>1, <2>2, <2>3
<1>. QED
  BY <1>4, <1>5

\* Unless somebody deletes files or one cannot be opened, the last writes are
\* there, as many as all files but one hold, wherever the code died
\* (log.cc:233-255).
THEOREM FilesKeepLastWrites == FilesSpec => []LastWritesKept
<1>1. FilesInit => AgeInv
  <2>. SUFFICES ASSUME FilesInit PROVE Moving /\ OneHole /\ Depth /\ DroppedDeep
    BY DEF AgeInv
  <2>1. Num \in Nat /\ \A i \in 1..Num - 1 : i \in FilePlaces
    BY FilesAssumption DEF FilePlaces
  <2>2. \A i \in FilePlaces : Absent(i) /\ Content(i) = {}
    BY DEF FilesInit, NoFile, Content, Absent
  <2>. QED
    BY <2>1, <2>2 DEF FilesInit, Moving, OneHole, Depth, DroppedDeep
<1>2. FilesInv /\ AgeInv /\ [FilesNext]_filesVars => AgeInv'
  <2>. SUFFICES ASSUME FilesInv, AgeInv, [FilesNext]_filesVars PROVE AgeInv'
    OBVIOUS
  <2>1. CASE UNCHANGED filesVars
    BY <2>1 DEF filesVars, AgeInv, Moving, OneHole, Depth, Deep, DroppedDeep, Absent, Content
  <2>. QED
    BY <2>1, RemoveLastAge, MoveOnAge, WriteFileAge, OtherAge DEF FilesNext
<1>3. FilesInv /\ AgeInv => LastWritesKept
  <2>. SUFFICES ASSUME FilesInv, AgeInv, gone = {}, NEW x \in 1..written,
                       written - x < (Num - 1) * Size
                PROVE  x \in Kept
    BY DEF LastWritesKept
  <2>1. (Num - 1) * Size = Size * (Num - 1) /\ Size * (Num - 1) \in Int /\ written \in Nat
    BY FilesAssumption DEF FilesInv, FilesType
  <2>2. x \notin dropped
    BY <2>1 DEF AgeInv, DroppedDeep
  <2>. QED
    BY <2>2 DEF FilesInv, FilesInOrder
<1>. QED
  BY <1>1, <1>2, <1>3, FilesInvariant, PTL DEF FilesSpec

-----------------------------------------------------------------------------
\* LogTime: the time stamp.

\* What the clock shows is a time, and the stamp is that of the last look at it.
TimeInv ==
  /\ now \in Nat
  /\ start \in Nat
  /\ StampRight

\* Hour, minute and second put together again.
Whole(h, m, s) == 3600 * h + 60 * m + s

\* The broken-down time of a time is in range, and put together is that time.
LEMMA LocalWhole ==
  ASSUME NEW t \in Nat
  PROVE  /\ Local(t).hour \in Nat /\ Local(t).min \in 0..59 /\ Local(t).sec \in 0..59
         /\ t = Whole(Local(t).hour, Local(t).min, Local(t).sec)
<1>1. t \div 3600 = (t \div 60) \div 60
  OBVIOUS
<1>. QED
  BY <1>1, Z3 DEF Local, Whole

\* Hour, minute and second in range are the broken-down time of their whole.
LEMMA LocalUnique ==
  ASSUME NEW h \in Nat, NEW m \in 0..59, NEW s \in 0..59
  PROVE  Local(Whole(h, m, s)) = [hour |-> h, min |-> m, sec |-> s]
<1>. DEFINE t == 3600 * h + 60 * m + s
<1>1. t \div 3600 = h
  OBVIOUS
<1>2. t \div 60 = 60 * h + m
  OBVIOUS
<1>3. (60 * h + m) % 60 = m
  OBVIOUS
<1>4. t % 60 = s
  OBVIOUS
<1>. QED
  BY <1>1, <1>2, <1>3, <1>4 DEF Local, Whole

\* Counting on gives what formatting anew would give: the seconds carry into the
\* next minute once, and the hour does not end (update, log.cc:300-317).
LEMMA CountOnRight ==
  ASSUME TimeInv, CountOn
  PROVE  TimeInv'
<1>. DEFINE h == Local(start).hour
            m == Local(start).min
            s == Local(start).sec
            d == s + now - start
<1>1. /\ h \in Nat /\ m \in 0..59 /\ s \in 0..59
      /\ start = Whole(h, m, s)
  BY LocalWhole DEF TimeInv
<1>2. Local(start) = [hour |-> h, min |-> m, sec |-> s]
  BY DEF Local
<1>3. /\ now \in Nat /\ start \in Nat /\ tm = Local(start) /\ buf = Local(start)
      /\ start' = now /\ now' = now
      /\ ~(now < start \/ now - start > 60) /\ ~(m = 59 /\ d > 59)
  BY DEF TimeInv, StampRight, CountOn, Anew
<1>. HIDE DEF h, m, s
<1>4. /\ d \in 0..119 /\ (m = 59 => d < 60)
      /\ now = Whole(h, m, d)
  BY <1>1, <1>3 DEF Whole
<1>5. CASE d < 60
  <2>1. Local(now) = [hour |-> h, min |-> m, sec |-> d]
    <3>1. d \in 0..59
      BY <1>4, <1>5
    <3>. HIDE DEF d
    <3>. QED
      BY <1>1, <1>4, <3>1, LocalUnique
  <2>2. /\ tm' = [[hour |-> h, min |-> m, sec |-> s] EXCEPT !.sec = d]
        /\ buf' = [[hour |-> h, min |-> m, sec |-> s] EXCEPT !.sec = tm'.sec, !.min = m]
    BY <1>2, <1>3, <1>5 DEF CountOn
  <2>3. tm' = [hour |-> h, min |-> m, sec |-> d] /\ buf' = tm'
    <3>. HIDE DEF d
    <3>1. tm' = [hour |-> h, min |-> m, sec |-> d]
      BY <2>2
    <3>2. buf' = [hour |-> h, min |-> m, sec |-> d]
      BY <2>2, <3>1
    <3>. QED
      BY <3>1, <3>2
  <2>. QED
    BY <1>3, <2>1, <2>3 DEF TimeInv, StampRight
<1>6. CASE ~(d < 60)
  <2>1. Local(now) = [hour |-> h, min |-> m + 1, sec |-> d - 60]
    <3>1. /\ d - 60 \in 0..59 /\ m + 1 \in 0..59
          /\ now = Whole(h, m + 1, d - 60)
      BY <1>1, <1>4, <1>6 DEF Whole
    <3>. HIDE DEF d
    <3>. QED
      BY <1>1, <3>1, LocalUnique
  <2>2. /\ tm' = [[hour |-> h, min |-> m, sec |-> s] EXCEPT !.min = @ + 1, !.sec = d - 60]
        /\ buf' = [[hour |-> h, min |-> m, sec |-> s] EXCEPT !.sec = tm'.sec, !.min = tm'.min]
    BY <1>2, <1>3, <1>6 DEF CountOn
  <2>3. tm' = [hour |-> h, min |-> m + 1, sec |-> d - 60] /\ buf' = tm'
    <3>. HIDE DEF d
    <3>. QED
      BY <2>2
  <2>. QED
    BY <1>3, <2>1, <2>3 DEF TimeInv, StampRight
<1>. QED
  BY <1>5, <1>6

\* The invariant, for every set of times.
THEOREM TimeInvariant == TimeSpec => []TimeInv
<1>1. TimeInit => TimeInv
  BY TimesAssumption DEF TimeInit, TimeInv, StampRight
<1>2. TimeInv /\ [TimeNext]_timeVars => TimeInv'
  <2>. SUFFICES ASSUME TimeInv, [TimeNext]_timeVars PROVE TimeInv'
    OBVIOUS
  <2>1. CASE SetClock
    BY <2>1, TimesAssumption DEF SetClock, TimeInv, StampRight
  <2>2. CASE ResetTime
    BY <2>2 DEF ResetTime, TimeInv, StampRight
  <2>3. CASE CountOn
    BY <2>3, CountOnRight
  <2>4. CASE UNCHANGED timeVars
    BY <2>4 DEF timeVars, TimeInv, StampRight
  <2>. QED
    BY <2>1, <2>2, <2>3, <2>4 DEF TimeNext
<1>. QED
  BY <1>1, <1>2, PTL DEF TimeSpec

\* The stamp on a line is that of the time the log thread last looked at,
\* whatever the clock does (log.cc:293-325).
THEOREM TimeStampRight == TimeSpec => []StampRight
<1>1. TimeInv => StampRight
  BY DEF TimeInv
<1>. QED
  BY <1>1, TimeInvariant, PTL

-----------------------------------------------------------------------------
\* UtilLog: the message queue.

\* There is one queue at most, the one created last.
OpenType ==
  /\ made \in Nat
  /\ DOMAIN queue \in {{}, {made}}
  /\ opening \in [Process -> {"no", "get", "remove", "again"}]
  /\ sid \in [Process -> Nat]
  /\ rid \in [Process -> Nat]

\* The queue of the process that was last is there unless somebody has just
\* removed it, who will be last in turn.
LatestServed ==
  ~died => \A p \in latest \cap Process : opening[p] = "no" =>
             /\ rid[p] = sid[p]
             /\ Exists(sid[p]) \/ \E o \in Process : opening[o] = "again"

OpenInv == OpenType /\ LatestServed /\ latest \subseteq Process

-----------------------------------------------------------------------------
LEMMA OpenInitInv ==
  ASSUME UtilInit
  PROVE  OpenInv
BY DEF UtilInit, OpenInv, OpenType, LatestServed, NoQueue

\* Steps that touch neither the queues' existence nor open_msg.
LEMMA OpenUntouched ==
  ASSUME OpenInv, DOMAIN queue' = DOMAIN queue,
         UNCHANGED <<made, opening, sid, rid, latest, died>>
  PROVE  OpenInv'
BY DEF OpenInv, OpenType, LatestServed, Exists

LEMMA InitLogInv ==
  ASSUME OpenInv, NEW p \in Process, InitLog(p)
  PROVE  OpenInv'
<1>1. /\ opening' = [opening EXCEPT ![p] = "get"] /\ opening[p] = "no"
      /\ UNCHANGED <<queue, made, sid, rid, latest, died>>
  BY DEF InitLog
<1>2. \A o \in Process : opening[o] = "again" => opening'[o] = "again"
  BY <1>1 DEF OpenInv, OpenType
<1>3. \A o \in Process : opening'[o] = "no" => opening[o] = "no"
  BY <1>1 DEF OpenInv, OpenType
<1>. QED
  BY <1>1, <1>2, <1>3 DEF OpenInv, OpenType, LatestServed, Exists

\* What msgget finds is there.
LEMMA GetQueueFinds ==
  ASSUME OpenInv, NEW p \in Process, GetQueue(p)
  PROVE  /\ made' \in Nat /\ DOMAIN queue' = {made'}
         /\ sid' = [sid EXCEPT ![p] = made']
         /\ DOMAIN queue \subseteq DOMAIN queue'
BY DEF GetQueue, OpenInv, OpenType

LEMMA OpenGetInv ==
  ASSUME OpenInv, NEW p \in Process, OpenGet(p)
  PROVE  OpenInv'
<1>1. /\ opening' = [opening EXCEPT ![p] = "remove"] /\ opening[p] = "get"
      /\ UNCHANGED <<rid, latest, died>>
  BY DEF OpenGet
<1>2. /\ made' \in Nat /\ DOMAIN queue' = {made'}
      /\ sid' = [sid EXCEPT ![p] = made']
      /\ DOMAIN queue \subseteq DOMAIN queue'
  BY GetQueueFinds DEF OpenGet
<1>3. \A o \in Process : opening[o] = "again" => opening'[o] = "again"
  BY <1>1 DEF OpenInv, OpenType
<1>4. \A o \in Process : opening'[o] = "no" => opening[o] = "no" /\ sid'[o] = sid[o]
  BY <1>1, <1>2 DEF OpenInv, OpenType
<1>5. OpenType'
  BY <1>1, <1>2 DEF OpenInv, OpenType
<1>6. LatestServed'
  BY <1>1, <1>2, <1>3, <1>4 DEF OpenInv, LatestServed, Exists
<1>. QED
  BY <1>1, <1>5, <1>6 DEF OpenInv

LEMMA OpenRemoveInv ==
  ASSUME OpenInv, NEW p \in Process, OpenRemove(p)
  PROVE  OpenInv'
<1>1. /\ opening' = [opening EXCEPT ![p] = "again"] /\ opening[p] = "remove"
      /\ DOMAIN queue' = DOMAIN queue \ {sid[p]}
      /\ UNCHANGED <<made, sid, rid, latest, died>>
  BY DEF OpenRemove
<1>2. opening'[p] = "again" /\ \A o \in Process : opening'[o] = "no" => opening[o] = "no"
  BY <1>1 DEF OpenInv, OpenType
<1>3. OpenType'
  BY <1>1 DEF OpenInv, OpenType
<1>. QED
  BY <1>1, <1>2, <1>3 DEF OpenInv, LatestServed

LEMMA OpenAgainInv ==
  ASSUME OpenInv, NEW p \in Process, OpenAgain(p)
  PROVE  OpenInv'
<1>1. /\ opening' = [opening EXCEPT ![p] = "no"]
      /\ rid' = [rid EXCEPT ![p] = sid'[p]]
      /\ latest' = {p} /\ died' = died
  BY DEF OpenAgain
<1>2. /\ made' \in Nat /\ DOMAIN queue' = {made'}
      /\ sid' = [sid EXCEPT ![p] = made']
  BY GetQueueFinds DEF OpenAgain, Reopened
<1>3. sid'[p] = made' /\ rid'[p] = made'
  BY <1>1, <1>2 DEF OpenInv, OpenType
<1>4. OpenType'
  BY <1>1, <1>2, <1>3 DEF OpenInv, OpenType
<1>. QED
  BY <1>1, <1>2, <1>3, <1>4 DEF OpenInv, LatestServed, Exists

LEMMA DieInv ==
  ASSUME OpenInv, NEW p \in Process, Die(p)
  PROVE  OpenInv'
<1>1. /\ opening' = [opening EXCEPT ![p] = "no"]
      /\ sid' = [sid EXCEPT ![p] = 0] /\ rid' = [rid EXCEPT ![p] = 0]
      /\ latest' = latest \ {p}
      /\ died' = (died \/ opening[p] \in {"remove", "again"})
      /\ UNCHANGED <<queue, made>>
  BY DEF Die, NoQueue
<1>2. \A o \in Process \ {p} : opening'[o] = opening[o] /\ sid'[o] = sid[o] /\ rid'[o] = rid[o]
  BY <1>1 DEF OpenInv, OpenType
<1>3. OpenType'
  BY <1>1 DEF OpenInv, OpenType
<1>4. ~died' => ~died /\ \A o \in Process : opening[o] = "again" => opening'[o] = "again"
  BY <1>1, <1>2
<1>. QED
  BY <1>1, <1>2, <1>3, <1>4 DEF OpenInv, LatestServed, Exists

LEMMA OpenStepInv ==
  ASSUME OpenInv, [UtilNext]_utilVars
  PROVE  OpenInv'
<1>1. ASSUME NEW p \in Process, InitLog(p) PROVE OpenInv'
  BY <1>1, InitLogInv
<1>2. ASSUME NEW p \in Process, OpenGet(p) PROVE OpenInv'
  BY <1>2, OpenGetInv
<1>3. ASSUME NEW p \in Process, OpenRemove(p) PROVE OpenInv'
  BY <1>3, OpenRemoveInv
<1>4. ASSUME NEW p \in Process, OpenAgain(p) PROVE OpenInv'
  BY <1>4, OpenAgainInv
<1>5. ASSUME NEW p \in Process, Log(p) PROVE OpenInv'
  <2>1. DOMAIN queue' = DOMAIN queue
    BY <1>5 DEF Log
  <2>. QED
    BY <1>5, <2>1, OpenUntouched DEF Log
<1>6. ASSUME NEW p \in Process, Writing(p) PROVE OpenInv'
  <2>1. PICK w \in 1..MaxInits : Receive(p, w) \/ Write(p, w)
    BY <1>6 DEF Writing
  <2>2. DOMAIN queue' = DOMAIN queue
    BY <2>1 DEF Receive, Write
  <2>3. UNCHANGED <<made, opening, sid, rid, latest, died>>
    BY <2>1 DEF Receive, Write
  <2>. QED
    BY <2>2, <2>3, OpenUntouched
<1>7. ASSUME NEW p \in Process, Die(p) PROVE OpenInv'
  BY <1>7, DieInv
<1>8. CASE Midnight
  BY <1>8, OpenUntouched DEF Midnight
<1>9. CASE UNCHANGED utilVars
  BY <1>9, OpenUntouched DEF utilVars
<1>. QED
  BY <1>1, <1>2, <1>3, <1>4, <1>5, <1>6, <1>7, <1>8, <1>9 DEF UtilNext

-----------------------------------------------------------------------------
\* However the three system calls of open_msg fall between those of others, there
\* is one queue at most, and that of the process that was last is there or about
\* to be replaced by that of the next (util_log.c:283-292).
THEOREM OpenInvariant == UtilSpec => []OpenInv
<1>1. UtilInit => OpenInv
  BY OpenInitInv
<1>2. OpenInv /\ [UtilNext]_utilVars => OpenInv'
  BY OpenStepInv
<1>. QED
  BY <1>1, <1>2, PTL DEF UtilSpec

\* When nobody is inside open_msg, and no process died in there, the process that
\* was there last can log (util_log.c:283-292).
THEOREM LastOpenerLogs == UtilSpec => []LatestCanLog
<1>1. OpenInv => LatestCanLog
  BY DEF OpenInv, OpenType, LatestServed, LatestCanLog
<1>. QED
  BY <1>1, OpenInvariant, PTL

-----------------------------------------------------------------------------
\* UtilLog: the order of the texts.

Numbers == 1..Len(texts)
Filed == UNION {{file[d][i] : i \in DOMAIN file[d]} : d \in Days}
Queued(q) == {queue[q][k] : k \in DOMAIN queue[q]}
InHand(p) == {writer[p][w] : w \in DOMAIN writer[p]} \ {0}

OrderType ==
  /\ inits \in Nat /\ crowd \in BOOLEAN /\ day \in Days
  /\ life \in [Process -> 0..inits]
  /\ texts \in Seq(Nat) /\ \A n \in Numbers : texts[n] \in 1..inits
  /\ queue \in [DOMAIN queue -> Seq(Nat)]
  /\ writer \in [Process -> Seq(Nat)]
  /\ file \in [Days -> Seq(Nat)]

\* Only texts that were logged are on their way, and none is filed ahead of its day.
Known ==
  /\ \A q \in DOMAIN queue : Queued(q) \subseteq Numbers
  /\ \A p \in Process : InHand(p) \subseteq Numbers
  /\ Filed \subseteq Numbers
  /\ \A d \in Days : d > day => file[d] = <<>>

\* A life belongs to one process, which must be alive to open or hold a queue.
LivesApart ==
  \A p \in Process :
    /\ life[p] = 0 => sid[p] = 0 /\ opening[p] = "no"
    /\ \A o \in Process : life[p] = life[o] /\ life[p] # 0 => p = o

\* Of two texts of one life the first is the older one.
Follows(m, n) == texts[m] = texts[n] => m < n

FilesRise ==
  \A d, e \in Days : \A i \in DOMAIN file[d], j \in DOMAIN file[e] :
    Earlier(d, i, e, j) => Follows(file[d][i], file[e][j])

\* What is in a file is older than what is still on its way.
FiledFirst ==
  \A m \in Filed :
    /\ \A p \in Process : \A n \in InHand(p) : Follows(m, n)
    /\ \A q \in DOMAIN queue : \A n \in Queued(q) : Follows(m, n)

QueueRises ==
  \A q \in DOMAIN queue : \A i, j \in DOMAIN queue[q] :
    i < j => queue[q][i] < queue[q][j]

\* What a writer has in hand is older than what the queue holds of the same life,
\* which is the writer's own queue; and no other writer has texts of that life.
HandFirst ==
  \A p \in Process : \A m \in InHand(p) :
    /\ \A q \in DOMAIN queue : \A n \in Queued(q) :
         texts[m] = texts[n] => m < n /\ rid[p] = q
    /\ \A o \in Process : \A n \in InHand(o) : texts[m] = texts[n] => o = p

OneWriter ==
  \A p \in Process :
    /\ Len(writer[p]) <= 1
    /\ \A o \in Process \ {p} :
         writer[p] # <<>> /\ writer[o] # <<>> => rid[p] # rid[o]

\* A life logs to one queue, and to none before it is open.
OneHome ==
  \A r \in Process : life[r] # 0 =>
    IF opening[r] = "no"
    THEN /\ \A q \in DOMAIN queue : \A n \in Queued(q) : texts[n] = life[r] => sid[r] = q
         /\ \A p \in Process : \A n \in InHand(p) : texts[n] = life[r] => sid[r] = rid[p]
    ELSE \A n \in Numbers : texts[n] # life[r]

InOrder == FilesRise /\ FiledFirst /\ QueueRises /\ HandFirst /\ OneWriter /\ OneHome

OrderInv == OrderType /\ Known /\ LivesApart /\ (~crowd => InOrder)

-----------------------------------------------------------------------------
\* A writer that is the only one of its process has the first place.
LEMMA OnlyNumber ==
  ASSUME NEW n \in Nat, n <= 1, NEW w \in 1..n
  PROVE  n = 1 /\ w = 1
OBVIOUS

LEMMA OnlyPlace ==
  ASSUME NEW s \in Seq(Nat), Len(s) <= 1, NEW w \in DOMAIN s
  PROVE  Len(s) = 1 /\ w = 1 /\ s # <<>>
<1>1. Len(s) \in Nat /\ w \in 1..Len(s)
  OBVIOUS
<1>2. s # <<>>
  OBVIOUS
<1>. QED
  BY <1>1, <1>2, OnlyNumber, Zenon

\* What is in a sequence that got one more element.
LEMMA AppendElements ==
  ASSUME NEW s \in Seq(Nat), NEW x \in Nat
  PROVE  {Append(s, x)[k] : k \in DOMAIN Append(s, x)} = {s[k] : k \in DOMAIN s} \cup {x}
<1>1. /\ DOMAIN Append(s, x) = 1..(Len(s) + 1) /\ DOMAIN s = 1..Len(s)
      /\ Len(s) \in Nat /\ Append(s, x)[Len(s) + 1] = x
      /\ \A k \in DOMAIN s : Append(s, x)[k] = s[k]
  OBVIOUS
<1>2. \A k \in 1..(Len(s) + 1) : k \in 1..Len(s) \/ k = Len(s) + 1
  BY <1>1
<1>3. Len(s) + 1 \in 1..(Len(s) + 1) /\ 1..Len(s) \subseteq 1..(Len(s) + 1)
  BY <1>1
<1>. QED
  BY <1>1, <1>2, <1>3, Zenon

LEMMA OrderInitInv ==
  ASSUME UtilInit
  PROVE  OrderInv
<1>1. /\ texts = <<>> /\ inits = 0 /\ day = 0 /\ crowd = FALSE /\ DOMAIN queue = {}
      /\ life = [p \in Process |-> 0] /\ opening = [p \in Process |-> "no"]
      /\ sid = [p \in Process |-> 0] /\ writer = [p \in Process |-> <<>>]
      /\ file = [d \in Days |-> <<>>]
  BY DEF UtilInit, NoQueue
<1>2. Filed = {} /\ \A p \in Process : InHand(p) = {}
  BY <1>1 DEF Filed, InHand
<1>3. OrderType
  <2>1. queue \in [DOMAIN queue -> Seq(Nat)]
    BY DEF UtilInit
  <2>2. day \in Days
    BY <1>1, UtilLogAssumption DEF Days
  <2>3. texts \in Seq(Nat) /\ Numbers = {}
    BY <1>1 DEF Numbers
  <2>4. file \in [Days -> Seq(Nat)] /\ writer \in [Process -> Seq(Nat)]
    BY <1>1
  <2>. QED
    BY <1>1, <2>1, <2>2, <2>3, <2>4 DEF OrderType
<1>4. Known /\ LivesApart
  BY <1>1, <1>2 DEF Known, LivesApart
<1>5. InOrder
  BY <1>1, <1>2 DEF InOrder, FilesRise, FiledFirst, QueueRises, HandFirst, OneWriter, OneHome
<1>. QED
  BY <1>3, <1>4, <1>5 DEF OrderInv

\* init_log removes files and begins a life.
LEMMA InitLogOrder ==
  ASSUME OrderInv, OpenInv, NEW p \in Process, InitLog(p)
  PROVE  OrderInv'
<1>1. /\ inits' = inits + 1 /\ opening[p] = "no"
      /\ life' = [life EXCEPT ![p] = inits + 1]
      /\ opening' = [opening EXCEPT ![p] = "get"]
      /\ UNCHANGED <<queue, sid, rid, writer, texts, day, crowd>>
  BY DEF InitLog
<1>2. /\ file' \in [Days -> Seq(Nat)]
      /\ \A d \in Days : file'[d] \in {file[d], <<>>}
  BY DEF InitLog, OrderInv, OrderType
<1>3. /\ life' \in [Process -> Nat] /\ life'[p] = inits + 1 /\ opening'[p] = "get"
      /\ \A o \in Process \ {p} : life'[o] = life[o] /\ opening'[o] = opening[o]
      /\ \A o \in Process : life[o] \in 0..inits
      /\ inits \in Nat
  BY <1>1 DEF OrderInv, OrderType, OpenInv, OpenType
<1>4. /\ \A q : Queued(q)' = Queued(q)
      /\ \A o : InHand(o)' = InHand(o)
      /\ Numbers' = Numbers
  BY <1>1 DEF Queued, InHand, Numbers
<1>5. Filed' \subseteq Filed
  BY <1>2 DEF Filed
<1>6. OrderType'
  <2>1. life' \in [Process -> 0..inits']
    BY <1>1, <1>3
  <2>. QED
    BY <1>1, <1>2, <1>4, <2>1 DEF OrderInv, OrderType
<1>7. Known'
  BY <1>1, <1>2, <1>4, <1>5 DEF OrderInv, Known
<1>8. LivesApart'
  <2>1. \A o \in Process \ {p} : life'[o] # life'[p]
    BY <1>3
  <2>. QED
    BY <1>1, <1>3, <2>1 DEF OrderInv, LivesApart
<1>9. ASSUME ~crowd PROVE InOrder'
  <2>1. InOrder
    BY <1>9 DEF OrderInv
  <2>2. FilesRise'
    <3>1. \A d \in Days : \A i \in DOMAIN file'[d] :
            i \in DOMAIN file[d] /\ file'[d][i] = file[d][i]
      BY <1>2
    <3>. QED
      BY <1>1, <2>1, <3>1 DEF InOrder, FilesRise, Follows, Earlier
  <2>3. FiledFirst'
    BY <1>1, <1>4, <1>5, <2>1 DEF InOrder, FiledFirst, Follows
  <2>4. QueueRises' /\ HandFirst' /\ OneWriter'
    BY <1>1, <1>4, <2>1 DEF InOrder, QueueRises, HandFirst, OneWriter
  <2>5. \A n \in Numbers : texts[n] # life'[p]
    BY <1>3 DEF OrderInv, OrderType
  <2>6. OneHome'
    BY <1>1, <1>3, <1>4, <2>1, <2>5 DEF InOrder, OneHome
  <2>. QED
    BY <2>2, <2>3, <2>4, <2>6 DEF InOrder
<1>. QED
  BY <1>1, <1>6, <1>7, <1>8, <1>9 DEF OrderInv

\* What msgget leaves of the queues: those there were, or a new one that is empty.
LEMMA GetQueueOrder ==
  ASSUME OrderInv, OpenInv, NEW p \in Process, GetQueue(p)
  PROVE  /\ queue' \in [DOMAIN queue' -> Seq(Nat)]
         /\ \A q \in DOMAIN queue' :
              queue'[q] = <<>> \/ (q \in DOMAIN queue /\ queue'[q] = queue[q])
<1>1. CASE DOMAIN queue = {}
  <2>1. queue' = [q \in {made + 1} |-> <<>>]
    BY <1>1 DEF GetQueue
  <2>. QED
    BY <2>1
<1>2. CASE DOMAIN queue # {}
  BY <1>2 DEF GetQueue, OrderInv, OrderType
<1>. QED
  BY <1>1, <1>2

LEMMA OpenGetOrder ==
  ASSUME OrderInv, OpenInv, NEW p \in Process, OpenGet(p)
  PROVE  OrderInv'
<1>1. /\ opening' = [opening EXCEPT ![p] = "remove"] /\ opening[p] = "get"
      /\ sid' = [sid EXCEPT ![p] = made']
      /\ UNCHANGED <<rid, writer, life, inits, texts, day, file, crowd>>
  BY DEF OpenGet, GetQueue, logVars
<1>2. /\ queue' \in [DOMAIN queue' -> Seq(Nat)]
      /\ \A q \in DOMAIN queue' :
           queue'[q] = <<>> \/ (q \in DOMAIN queue /\ queue'[q] = queue[q])
  BY GetQueueOrder DEF OpenGet
<1>3. /\ opening'[p] = "remove"
      /\ \A o \in Process \ {p} : sid'[o] = sid[o] /\ opening'[o] = opening[o]
  BY <1>1 DEF OpenInv, OpenType
<1>4. /\ \A q \in DOMAIN queue' : Queued(q)' = {} \/ (q \in DOMAIN queue /\ Queued(q)' = Queued(q))
      /\ \A o : InHand(o)' = InHand(o)
      /\ Numbers' = Numbers /\ Filed' = Filed
  BY <1>1, <1>2 DEF Queued, InHand, Numbers, Filed
<1>5. OrderType'
  BY <1>1, <1>2, <1>4 DEF OrderInv, OrderType
<1>6. Known'
  BY <1>1, <1>4 DEF OrderInv, Known
<1>7. LivesApart'
  BY <1>1, <1>3 DEF OrderInv, LivesApart
<1>8. ASSUME ~crowd PROVE InOrder'
  <2>1. InOrder
    BY <1>8 DEF OrderInv
  <2>2. FilesRise' /\ OneWriter'
    BY <1>1, <2>1 DEF InOrder, FilesRise, Follows, Earlier, OneWriter
  <2>3. FiledFirst'
    BY <1>1, <1>4, <2>1 DEF InOrder, FiledFirst, Follows
  <2>4. QueueRises'
    BY <1>2, <2>1 DEF InOrder, QueueRises
  <2>5. HandFirst'
    BY <1>1, <1>4, <2>1 DEF InOrder, HandFirst
  <2>6. life[p] # 0 => \A n \in Numbers : texts[n] # life[p]
    BY <1>1, <2>1 DEF InOrder, OneHome
  <2>7. OneHome'
    BY <1>1, <1>3, <1>4, <2>1, <2>6 DEF InOrder, OneHome
  <2>. QED
    BY <2>2, <2>3, <2>4, <2>5, <2>7 DEF InOrder
<1>. QED
  BY <1>1, <1>5, <1>6, <1>7, <1>8 DEF OrderInv

LEMMA OpenRemoveOrder ==
  ASSUME OrderInv, OpenInv, NEW p \in Process, OpenRemove(p)
  PROVE  OrderInv'
<1>1. /\ opening' = [opening EXCEPT ![p] = "again"] /\ opening[p] = "remove"
      /\ UNCHANGED <<sid, rid, writer, life, inits, texts, day, file, crowd>>
  BY DEF OpenRemove, logVars
<1>2. /\ queue' \in [DOMAIN queue' -> Seq(Nat)]
      /\ \A q \in DOMAIN queue' : q \in DOMAIN queue /\ queue'[q] = queue[q]
  BY DEF OpenRemove, OrderInv, OrderType
<1>3. /\ opening'[p] = "again"
      /\ \A o \in Process \ {p} : opening'[o] = opening[o]
  BY <1>1 DEF OpenInv, OpenType
<1>4. /\ \A q \in DOMAIN queue' : q \in DOMAIN queue /\ Queued(q)' = Queued(q)
      /\ \A o : InHand(o)' = InHand(o)
      /\ Numbers' = Numbers /\ Filed' = Filed
  BY <1>1, <1>2 DEF Queued, InHand, Numbers, Filed
<1>5. OrderType'
  BY <1>1, <1>2, <1>4 DEF OrderInv, OrderType
<1>6. Known' /\ LivesApart'
  BY <1>1, <1>3, <1>4 DEF OrderInv, Known, LivesApart
<1>8. ASSUME ~crowd PROVE InOrder'
  <2>1. InOrder
    BY <1>8 DEF OrderInv
  <2>2. FilesRise' /\ OneWriter'
    BY <1>1, <2>1 DEF InOrder, FilesRise, Follows, Earlier, OneWriter
  <2>3. FiledFirst'
    BY <1>1, <1>4, <2>1 DEF InOrder, FiledFirst, Follows
  <2>4. QueueRises'
    BY <1>2, <2>1 DEF InOrder, QueueRises
  <2>5. HandFirst'
    BY <1>1, <1>4, <2>1 DEF InOrder, HandFirst
  <2>6. OneHome'
    BY <1>1, <1>3, <1>4, <2>1 DEF InOrder, OneHome
  <2>. QED
    BY <2>2, <2>3, <2>4, <2>5, <2>6 DEF InOrder
<1>. QED
  BY <1>1, <1>5, <1>6, <1>8 DEF OrderInv

\* The process that comes out of open_msg has logged nothing in this life yet,
\* and has one writer, the only one on its queue, unless the log is crowded.
LEMMA OpenAgainOrder ==
  ASSUME OrderInv, OpenInv, NEW p \in Process, OpenAgain(p)
  PROVE  OrderInv'
<1>1. /\ opening' = [opening EXCEPT ![p] = "no"] /\ opening[p] = "again"
      /\ sid' = [sid EXCEPT ![p] = made'] /\ rid' = [rid EXCEPT ![p] = sid'[p]]
      /\ writer' = [writer EXCEPT ![p] = Append(@, 0)]
      /\ UNCHANGED <<life, inits, texts, day, file>>
  BY DEF OpenAgain, Reopened, GetQueue, logVars
<1>2. /\ queue' \in [DOMAIN queue' -> Seq(Nat)]
      /\ \A q \in DOMAIN queue' :
           queue'[q] = <<>> \/ (q \in DOMAIN queue /\ queue'[q] = queue[q])
  BY GetQueueOrder DEF OpenAgain, Reopened
<1>3. /\ opening'[p] = "no"
      /\ \A o \in Process \ {p} : /\ opening'[o] = opening[o] /\ writer'[o] = writer[o]
                                  /\ sid'[o] = sid[o] /\ rid'[o] = rid[o]
  BY <1>1 DEF OpenInv, OpenType, OrderInv, OrderType
<1>4. writer'[p] = Append(writer[p], 0) /\ writer[p] \in Seq(Nat)
  BY <1>1 DEF OrderInv, OrderType
<1>5. InHand(p)' = InHand(p)
  <2>. PICK s \in Seq(Nat) : s = writer[p]
    BY <1>4
  <2>1. {Append(s, 0)[k] : k \in DOMAIN Append(s, 0)} = {s[k] : k \in DOMAIN s} \cup {0}
    BY AppendElements
  <2>2. /\ InHand(p)' = {Append(s, 0)[k] : k \in DOMAIN Append(s, 0)} \ {0}
        /\ InHand(p) = {s[k] : k \in DOMAIN s} \ {0}
    BY <1>4, Zenon DEF InHand
  <2>3. \A S : (S \cup {0}) \ {0} = S \ {0}
    OBVIOUS
  <2>. QED
    BY <2>1, <2>2, <2>3, Zenon
<1>6. /\ \A q \in DOMAIN queue' : Queued(q)' = {} \/ (q \in DOMAIN queue /\ Queued(q)' = Queued(q))
      /\ \A o \in Process : InHand(o)' = InHand(o)
      /\ Numbers' = Numbers /\ Filed' = Filed
  <2>1. \A o \in Process \ {p} : InHand(o)' = InHand(o)
    BY <1>3 DEF InHand
  <2>. QED
    BY <1>1, <1>2, <1>5, <2>1 DEF Queued, Numbers, Filed
<1>7. OrderType'
  <2>1. writer' \in [Process -> Seq(Nat)]
    BY <1>1, <1>4 DEF OrderInv, OrderType
  <2>2. crowd' \in BOOLEAN
    BY DEF OpenAgain, OrderInv, OrderType
  <2>. QED
    BY <1>1, <1>2, <1>6, <2>1, <2>2 DEF OrderInv, OrderType
<1>8. Known'
  BY <1>1, <1>6 DEF OrderInv, Known
<1>9. LivesApart' /\ life[p] # 0
  BY <1>1, <1>3 DEF OrderInv, LivesApart
<1>10. ASSUME ~crowd' PROVE InOrder'
  <2>1. /\ ~crowd /\ ~(Len(writer[p]) > 0)
        /\ ~ \E o \in Process \ {p} : writer[o] # <<>> /\ rid[o] = sid'[p]
    BY <1>10 DEF OpenAgain, OrderInv, OrderType
  <2>2. InOrder
    BY <2>1 DEF OrderInv
  <2>3. writer[p] = <<>> /\ InHand(p) = {}
    BY <1>4, <2>1 DEF InHand
  <2>4. Len(writer'[p]) = 1 /\ rid'[p] = sid'[p]
    BY <1>1, <1>4, <2>3 DEF OpenInv, OpenType
  <2>5. \A n \in Numbers : texts[n] # life[p]
    BY <1>1, <1>9, <2>2 DEF InOrder, OneHome
  <2>6. FilesRise'
    BY <1>1, <2>2 DEF InOrder, FilesRise, Follows, Earlier
  <2>7. FiledFirst'
    BY <1>1, <1>6, <2>2 DEF InOrder, FiledFirst, Follows
  <2>8. QueueRises'
    BY <1>2, <2>2 DEF InOrder, QueueRises
  <2>9. HandFirst'
    BY <1>1, <1>3, <1>6, <2>2, <2>3 DEF InOrder, HandFirst
  <2>10. OneWriter'
    <3>1. \A o \in Process : Len(writer'[o]) <= 1
      <4>1. \A o \in Process : Len(writer[o]) <= 1
        BY <2>2 DEF InOrder, OneWriter
      <4>2. \A o \in Process \ {p} : Len(writer'[o]) <= 1
        BY <1>3, <4>1
      <4>3. Len(writer'[p]) <= 1
        BY <2>4
      <4>. QED
        BY <4>2, <4>3
    <3>2. \A o \in Process \ {p} : writer'[o] # <<>> => rid'[p] # rid'[o]
      BY <1>3, <2>1, <2>4
    <3>3. \A o, r \in Process \ {p} :
            o # r /\ writer'[o] # <<>> /\ writer'[r] # <<>> => rid'[o] # rid'[r]
      BY <1>3, <2>2 DEF InOrder, OneWriter
    <3>. QED
      BY <3>1, <3>2, <3>3 DEF OneWriter
  <2>11. OneHome'
    <3>1. \A q \in DOMAIN queue' : Queued(q)' \subseteq Numbers
      BY <1>6 DEF OrderInv, Known
    <3>2. \A o \in Process : InHand(o)' \subseteq Numbers
      BY <1>6 DEF OrderInv, Known
    <3>3. \A r \in Process \ {p} : life[r] # 0 /\ opening[r] # "no" => \A n \in Numbers : texts[n] # life[r]
      BY <2>2 DEF InOrder, OneHome
    <3>4. \A r \in Process \ {p} : life[r] # 0 /\ opening[r] = "no" =>
             /\ \A q \in DOMAIN queue' : \A n \in Queued(q)' : texts[n] = life[r] => sid[r] = q
             /\ \A o \in Process : \A n \in InHand(o)' : texts[n] = life[r] => sid[r] = rid'[o]
      BY <1>3, <1>6, <2>2, <2>3 DEF InOrder, OneHome
    <3>. QED
      BY <1>1, <1>3, <1>6, <2>5, <3>1, <3>2, <3>3, <3>4 DEF OneHome
  <2>. QED
    BY <2>6, <2>7, <2>8, <2>9, <2>10, <2>11 DEF InOrder
<1>. QED
  BY <1>7, <1>8, <1>9, <1>10 DEF OrderInv

\* A text that is logged is the newest; it goes to the end of the one queue of
\* its life, if it is there and has room.
LEMMA LogOrder ==
  ASSUME OrderInv, OpenInv, NEW p \in Process, Log(p)
  PROVE  OrderInv'
<1> DEFINE new == Len(texts) + 1
<1>1. /\ texts' = Append(texts, life[p]) /\ sid[p] # 0
      /\ crowd' = (crowd \/ opening[p] # "no")
      /\ UNCHANGED <<made, opening, sid, rid, writer, life, inits, day, file>>
  BY DEF Log, NoQueue
<1>2. life[p] # 0 /\ life[p] \in 1..inits
  BY <1>1 DEF OrderInv, OrderType, LivesApart
<1>3. texts \in Seq(Nat) /\ new \in Nat
  BY DEF OrderInv, OrderType
<1>4. /\ texts' \in Seq(Nat) /\ Len(texts') = new /\ Numbers' = Numbers \cup {new}
      /\ \A n \in Numbers : n \in Nat /\ n < new /\ texts'[n] = texts[n]
      /\ texts'[new] = life[p]
  BY <1>1, <1>2, <1>3 DEF Numbers
<1>5. \/ queue' = queue
      \/ sid[p] \in DOMAIN queue /\ queue' = [queue EXCEPT ![sid[p]] = Append(@, new)]
  BY DEF Log, Exists
<1>6. /\ DOMAIN queue' = DOMAIN queue /\ queue' \in [DOMAIN queue' -> Seq(Nat)]
      /\ \A q \in DOMAIN queue :
           queue'[q] = queue[q] \/ (q = sid[p] /\ queue'[q] = Append(queue[q], new))
      /\ \A q \in DOMAIN queue : queue[q] \in Seq(Nat)
  <2>1. queue \in [DOMAIN queue -> Seq(Nat)]
    BY DEF OrderInv, OrderType
  <2>2. CASE queue' = queue
    BY <2>1, <2>2
  <2>3. CASE sid[p] \in DOMAIN queue /\ queue' = [queue EXCEPT ![sid[p]] = Append(@, new)]
    <3>1. Append(queue[sid[p]], new) \in Seq(Nat)
      BY <1>3, <2>1, <2>3
    <3>. HIDE DEF new
    <3>. QED
      BY <2>1, <2>3, <3>1
  <2>. QED
    BY <1>5, <2>2, <2>3
<1>7. \A q \in DOMAIN queue :
        /\ Queued(q) \subseteq Numbers
        /\ Queued(q)' \subseteq Queued(q) \cup {new}
        /\ q # sid[p] => Queued(q)' = Queued(q)
  <2>. TAKE q \in DOMAIN queue
  <2>1. CASE queue'[q] = queue[q]
    BY <2>1 DEF Queued, OrderInv, Known
  <2>2. CASE q = sid[p] /\ queue'[q] = Append(queue[q], new)
    <3>1. \A k \in DOMAIN queue'[q] : queue'[q][k] = new \/ (k \in DOMAIN queue[q] /\ queue'[q][k] = queue[q][k])
      BY <1>3, <1>6, <2>2
    <3>. QED
      BY <2>2, <3>1 DEF Queued, OrderInv, Known
  <2>. QED
    BY <1>6, <2>1, <2>2
<1>8. /\ \A o : InHand(o)' = InHand(o)
      /\ \A o \in Process : InHand(o) \subseteq Numbers
      /\ Filed' = Filed /\ Filed \subseteq Numbers
  BY <1>1 DEF InHand, Filed, OrderInv, Known
<1>9. OrderType'
  <2>1. \A n \in Numbers' : texts'[n] \in 1..inits
    BY <1>2, <1>4 DEF OrderInv, OrderType
  <2>. QED
    BY <1>1, <1>4, <1>6, <2>1 DEF OrderInv, OrderType
<1>10. Known' /\ LivesApart'
  <2>1. Known'
    BY <1>1, <1>4, <1>6, <1>7, <1>8 DEF OrderInv, Known
  <2>. QED
    BY <1>1, <2>1 DEF OrderInv, LivesApart
<1>11. ASSUME ~crowd' PROVE InOrder'
  <2>1. ~crowd /\ opening[p] = "no"
    BY <1>1, <1>11 DEF OrderInv, OrderType
  <2>2. InOrder
    BY <2>1 DEF OrderInv
  <2>3. FilesRise'
    <3>1. \A d \in Days : \A i \in DOMAIN file[d] : file[d][i] \in Numbers
      BY <1>8 DEF Filed
    <3>2. \A m, n \in Numbers : Follows(m, n) => (texts'[m] = texts'[n] => m < n)
      BY <1>4 DEF Follows
    <3>3. ASSUME NEW d \in Days, NEW e \in Days, NEW i \in DOMAIN file[d],
                 NEW j \in DOMAIN file[e], Earlier(d, i, e, j)
          PROVE  texts'[file[d][i]] = texts'[file[e][j]] => file[d][i] < file[e][j]
      BY <2>2, <3>1, <3>2, <3>3 DEF InOrder, FilesRise
    <3>. QED
      BY <1>1, <3>3 DEF FilesRise, Follows, Earlier
  <2>4. FiledFirst'
    <3>1. \A m \in Filed : \A o \in Process : \A n \in InHand(o) : Follows(m, n)'
      BY <1>4, <1>8, <2>2 DEF InOrder, FiledFirst, Follows
    <3>2. \A m \in Filed : \A q \in DOMAIN queue : \A n \in Queued(q)' : Follows(m, n)'
      BY <1>4, <1>7, <1>8, <2>2 DEF InOrder, FiledFirst, Follows
    <3>. QED
      BY <1>1, <1>6, <1>8, <3>1, <3>2 DEF FiledFirst, Follows
  <2>5. QueueRises'
    <3>. SUFFICES ASSUME NEW q \in DOMAIN queue,
                         NEW i \in DOMAIN queue'[q], NEW j \in DOMAIN queue'[q], i < j
                  PROVE  queue'[q][i] < queue'[q][j]
      BY <1>6 DEF QueueRises
    <3>1. \A k \in DOMAIN queue[q] : queue[q][k] \in Numbers
      BY <1>7 DEF Queued
    <3>2. CASE queue'[q] = queue[q]
      BY <2>2, <3>2 DEF InOrder, QueueRises
    <3>3. CASE queue'[q] = Append(queue[q], new)
      <4>1. /\ i \in DOMAIN queue[q] /\ queue'[q][i] = queue[q][i]
            /\ \/ j \in DOMAIN queue[q] /\ queue'[q][j] = queue[q][j]
               \/ queue'[q][j] = new
        BY <1>3, <1>6, <3>3
      <4>. QED
        BY <1>4, <2>2, <3>1, <4>1 DEF InOrder, QueueRises
    <3>. QED
      BY <1>6, <3>2, <3>3
  <2>6. HandFirst'
    <3>1. ASSUME NEW o \in Process, NEW m \in InHand(o),
                 NEW q \in DOMAIN queue, NEW n \in Queued(q)', texts'[m] = texts'[n]
          PROVE  m < n /\ rid[o] = q
      <4>1. m \in Numbers /\ texts'[m] = texts[m]
        BY <1>4, <1>8
      <4>2. texts[m] = life[p] => sid[p] = rid[o]
        BY <1>2, <2>1, <2>2 DEF InOrder, OneHome
      <4>3. CASE n \in Queued(q)
        <5>1. texts[m] = texts[n]
          BY <1>4, <1>7, <3>1, <4>1, <4>3
        <5>. QED
          BY <2>2, <4>3, <5>1 DEF InOrder, HandFirst
      <4>4. CASE n \notin Queued(q)
        <5>1. n = new /\ q = sid[p]
          BY <1>7, <4>4
        <5>2. m < new /\ texts[m] = life[p]
          BY <1>4, <3>1, <4>1, <5>1
        <5>. QED
          BY <4>2, <5>1, <5>2
      <4>. QED
        BY <4>3, <4>4
    <3>2. ASSUME NEW o \in Process, NEW m \in InHand(o), NEW r \in Process,
                 NEW n \in InHand(r), texts'[m] = texts'[n]
          PROVE  r = o
      <4>1. texts'[m] = texts[m] /\ texts'[n] = texts[n]
        BY <1>4, <1>8
      <4>. QED
        BY <2>2, <3>2, <4>1 DEF InOrder, HandFirst
    <3>3. rid' = rid /\ DOMAIN queue' = DOMAIN queue /\ \A o : InHand(o)' = InHand(o)
      BY <1>1, <1>6, <1>8
    <3>. QED
      BY <3>1, <3>2, <3>3 DEF HandFirst
  <2>7. OneWriter'
    BY <1>1, <2>2 DEF InOrder, OneWriter
  <2>8. OneHome'
    <3>. SUFFICES ASSUME NEW r \in Process, life[r] # 0
                  PROVE  IF opening[r] = "no"
                         THEN /\ \A q \in DOMAIN queue : \A n \in Queued(q)' :
                                   texts'[n] = life[r] => sid[r] = q
                              /\ \A o \in Process : \A n \in InHand(o) :
                                   texts'[n] = life[r] => sid[r] = rid[o]
                         ELSE \A n \in Numbers' : texts'[n] # life[r]
      BY <1>1, <1>6, <1>8 DEF OneHome
    <3>1. life[r] = life[p] => r = p
      BY <1>2 DEF OrderInv, LivesApart
    <3>2. CASE opening[r] # "no"
      <4>1. \A n \in Numbers : texts[n] # life[r]
        BY <2>2, <3>2 DEF InOrder, OneHome
      <4>. QED
        BY <1>4, <2>1, <3>1, <3>2, <4>1
    <3>3. CASE opening[r] = "no"
      <4>1. /\ \A q \in DOMAIN queue : \A n \in Queued(q) : texts[n] = life[r] => sid[r] = q
            /\ \A o \in Process : \A n \in InHand(o) : texts[n] = life[r] => sid[r] = rid[o]
        BY <2>2, <3>3 DEF InOrder, OneHome
      <4>2. \A o \in Process : \A n \in InHand(o) : texts'[n] = life[r] => sid[r] = rid[o]
        BY <1>4, <1>8, <4>1
      <4>3. \A q \in DOMAIN queue : \A n \in Queued(q)' : texts'[n] = life[r] => sid[r] = q
        BY <1>4, <1>7, <3>1, <4>1
      <4>. QED
        BY <3>3, <4>2, <4>3
    <3>. QED
      BY <3>2, <3>3
  <2>. QED
    BY <2>3, <2>4, <2>5, <2>6, <2>7, <2>8 DEF InOrder
<1>. QED
  BY <1>9, <1>10, <1>11 DEF OrderInv

\* The text a writer takes is the oldest of its queue; no other writer has one of
\* its life, since that would be a writer on the same queue.
LEMMA ReceiveOrder ==
  ASSUME OrderInv, OpenInv, NEW p \in Process, NEW w \in Nat, Receive(p, w)
  PROVE  OrderInv'
<1>. PICK home \in Nat : home = rid[p]
  BY DEF OpenInv, OpenType
<1>. PICK old \in Seq(Nat) : old = queue[home]
  BY DEF Receive, Exists, OrderInv, OrderType
<1>1. /\ w \in DOMAIN writer[p] /\ home \in DOMAIN queue /\ old # <<>>
      /\ writer' = [writer EXCEPT ![p][w] = Head(old)]
      /\ queue' = [queue EXCEPT ![home] = Tail(old)]
      /\ UNCHANGED <<made, opening, sid, rid, life, inits, texts, day, file, crowd>>
  BY DEF Receive, Exists, logVars
<1>. PICK taken \in Nat : taken = Head(old)
  BY <1>1
<1>2. /\ 1 \in DOMAIN old /\ taken = old[1] /\ taken \in Queued(home)
      /\ Tail(old) \in Seq(Nat)
      /\ \A k \in DOMAIN Tail(old) :
           k \in Nat /\ k + 1 \in DOMAIN old /\ Tail(old)[k] = old[k + 1]
  BY <1>1 DEF Queued
<1>3. /\ DOMAIN queue' = DOMAIN queue /\ queue'[home] = Tail(old)
      /\ \A q \in DOMAIN queue \ {home} : queue'[q] = queue[q]
      /\ queue' \in [DOMAIN queue' -> Seq(Nat)]
  BY <1>1, <1>2 DEF OrderInv, OrderType
<1>4. \A q \in DOMAIN queue : Queued(q)' \subseteq Queued(q)
  <2>1. Queued(home)' \subseteq Queued(home)
    BY <1>2, <1>3 DEF Queued
  <2>2. \A q \in DOMAIN queue \ {home} : Queued(q)' = Queued(q)
    BY <1>3 DEF Queued
  <2>. QED
    BY <2>1, <2>2
<1>5. /\ writer[p] \in Seq(Nat)
      /\ writer' = [writer EXCEPT ![p] = [writer[p] EXCEPT ![w] = taken]]
  BY <1>1 DEF OrderInv, OrderType
<1>6. /\ writer'[p] \in Seq(Nat) /\ Len(writer'[p]) = Len(writer[p])
      /\ DOMAIN writer'[p] = DOMAIN writer[p]
      /\ writer'[p][w] = taken
      /\ \A v \in DOMAIN writer[p] \ {w} : writer'[p][v] = writer[p][v]
      /\ \A o \in Process \ {p} : writer'[o] = writer[o]
      /\ writer' \in [Process -> Seq(Nat)]
  <2>1. writer'[p] = [writer[p] EXCEPT ![w] = taken]
    BY <1>5 DEF OrderInv, OrderType
  <2>2. /\ writer'[p] \in Seq(Nat) /\ Len(writer'[p]) = Len(writer[p])
        /\ DOMAIN writer'[p] = DOMAIN writer[p] /\ writer'[p][w] = taken
        /\ \A v \in DOMAIN writer[p] \ {w} : writer'[p][v] = writer[p][v]
    BY <1>1, <1>5, <2>1
  <2>. QED
    BY <1>5, <2>2 DEF OrderInv, OrderType
<1>7. /\ InHand(p)' \subseteq InHand(p) \cup {taken}
      /\ \A o \in Process \ {p} : InHand(o)' = InHand(o)
  BY <1>6 DEF InHand
<1>8. Numbers' = Numbers /\ Filed' = Filed /\ taken \in Numbers
  BY <1>1, <1>2 DEF Numbers, Filed, OrderInv, Known
<1>9. OrderType'
  BY <1>1, <1>3, <1>6, <1>8 DEF OrderInv, OrderType
<1>10. Known'
  BY <1>1, <1>3, <1>4, <1>7, <1>8 DEF OrderInv, Known
<1>11. LivesApart'
  BY <1>1 DEF OrderInv, LivesApart
<1>12. ASSUME ~crowd PROVE InOrder'
  <2>1. InOrder
    BY <1>12 DEF OrderInv
  <2>2. Len(writer[p]) = 1 /\ w = 1 /\ writer[p] # <<>>
    <3>1. Len(writer[p]) <= 1
      BY <2>1 DEF InOrder, OneWriter
    <3>. QED
      BY <1>1, <1>5, <3>1, OnlyPlace
  <2>3. InHand(p)' \subseteq {taken}
    BY <1>6, <2>2 DEF InHand
  <2>4. \A n \in Queued(home)' : taken < n
    <3>1. \A k \in DOMAIN Tail(old) : old[1] < old[k + 1]
      BY <1>1, <1>2, <2>1 DEF InOrder, QueueRises
    <3>. QED
      BY <1>2, <1>3, <3>1 DEF Queued
  <2>5. \A q \in DOMAIN queue : q = home
    BY <1>1 DEF OpenInv, OpenType
  <2>6. \A o \in Process \ {p} : \A n \in InHand(o) : texts[n] # texts[taken]
    <3>. SUFFICES ASSUME NEW o \in Process \ {p}, NEW n \in InHand(o), texts[n] = texts[taken]
                  PROVE  FALSE
      OBVIOUS
    <3>1. rid[o] = home
      BY <1>1, <1>2, <2>1 DEF InOrder, HandFirst
    <3>2. writer[o] # <<>>
      BY DEF InHand
    <3>. QED
      BY <2>1, <2>2, <3>1, <3>2 DEF InOrder, OneWriter
  <2>7. FilesRise'
    BY <1>1, <2>1 DEF InOrder, FilesRise, Follows, Earlier
  <2>8. FiledFirst'
    <3>1. \A m \in Filed : \A q \in DOMAIN queue : \A n \in Queued(q) : Follows(m, n)
      BY <2>1 DEF InOrder, FiledFirst
    <3>2. \A m \in Filed : \A o \in Process : \A n \in InHand(o)' : Follows(m, n)
      BY <1>1, <1>2, <1>7, <2>1, <2>3, <3>1 DEF InOrder, FiledFirst
    <3>. QED
      BY <1>1, <1>3, <1>4, <1>8, <3>1, <3>2 DEF FiledFirst, Follows
  <2>9. QueueRises'
    <3>1. \A i, j \in DOMAIN old : i < j => old[i] < old[j]
      BY <1>1, <2>1 DEF InOrder, QueueRises
    <3>2. \A i, j \in DOMAIN Tail(old) : i < j => Tail(old)[i] < Tail(old)[j]
      <4>1. \A i, j \in DOMAIN Tail(old) : i < j => i + 1 < j + 1
        BY <1>2
      <4>. QED
        BY <1>2, <3>1, <4>1
    <3>. QED
      BY <1>3, <2>5, <3>2 DEF QueueRises
  <2>10. HandFirst'
    <3>1. \A q \in DOMAIN queue : \A n \in Queued(q)' : taken < n /\ rid[p] = q
      BY <2>4, <2>5
    <3>2. \A o \in Process \ {p} : \A m \in InHand(o) :
            /\ \A q \in DOMAIN queue : \A n \in Queued(q)' : texts[m] = texts[n] => m < n /\ rid[o] = q
            /\ \A r \in Process \ {p} : \A n \in InHand(r) : texts[m] = texts[n] => r = o
      BY <1>4, <2>1 DEF InOrder, HandFirst
    <3>3. \A m \in InHand(p)' :
            /\ \A q \in DOMAIN queue : \A n \in Queued(q)' : texts[m] = texts[n] => m < n /\ rid[p] = q
            /\ \A r \in Process : \A n \in InHand(r)' : texts[m] = texts[n] => r = p
      BY <1>7, <2>3, <2>6, <3>1
    <3>4. \A o \in Process \ {p} : \A m \in InHand(o)' :
            /\ \A q \in DOMAIN queue : \A n \in Queued(q)' : texts[m] = texts[n] => m < n /\ rid[o] = q
            /\ \A r \in Process : \A n \in InHand(r)' : texts[m] = texts[n] => r = o
      BY <1>7, <2>3, <2>6, <3>2
    <3>. QED
      BY <1>1, <1>3, <3>3, <3>4 DEF HandFirst
  <2>11. OneWriter'
    <3>1. \A o \in Process : Len(writer'[o]) <= 1
      <4>1. \A o \in Process : Len(writer[o]) <= 1
        BY <2>1 DEF InOrder, OneWriter
      <4>. QED
        BY <1>6, <4>1
    <3>2. \A o \in Process : writer'[o] # <<>> => writer[o] # <<>>
      BY <1>6, <2>2
    <3>. QED
      BY <1>1, <2>1, <3>1, <3>2 DEF InOrder, OneWriter
  <2>12. OneHome'
    <3>. SUFFICES ASSUME NEW r \in Process, life[r] # 0
                  PROVE  IF opening[r] = "no"
                         THEN /\ \A q \in DOMAIN queue : \A n \in Queued(q)' :
                                   texts[n] = life[r] => sid[r] = q
                              /\ \A o \in Process : \A n \in InHand(o)' :
                                   texts[n] = life[r] => sid[r] = rid[o]
                         ELSE \A n \in Numbers : texts[n] # life[r]
      BY <1>1, <1>3, <1>8 DEF OneHome
    <3>1. CASE opening[r] # "no"
      BY <2>1, <3>1 DEF InOrder, OneHome
    <3>2. CASE opening[r] = "no"
      <4>1. /\ \A q \in DOMAIN queue : \A n \in Queued(q) : texts[n] = life[r] => sid[r] = q
            /\ \A o \in Process : \A n \in InHand(o) : texts[n] = life[r] => sid[r] = rid[o]
        BY <2>1, <3>2 DEF InOrder, OneHome
      <4>2. texts[taken] = life[r] => sid[r] = rid[p]
        BY <1>1, <1>2, <4>1
      <4>. QED
        BY <1>4, <1>7, <2>3, <3>2, <4>1, <4>2
    <3>. QED
      BY <3>1, <3>2
  <2>. QED
    BY <2>7, <2>8, <2>9, <2>10, <2>11, <2>12 DEF InOrder
<1>. QED
  BY <1>1, <1>9, <1>10, <1>11, <1>12 DEF OrderInv

\* What a writer puts at the end of the day's file is newer than all the files
\* hold of its life, and older than the rest.
LEMMA WriteOrder ==
  ASSUME OrderInv, OpenInv, NEW p \in Process, NEW w \in Nat, Write(p, w)
  PROVE  OrderInv'
<1>1. /\ w \in DOMAIN writer[p] /\ writer[p][w] # 0
      /\ writer' = [writer EXCEPT ![p][w] = 0]
      /\ UNCHANGED <<queue, made, opening, sid, rid, life, inits, texts, day, crowd>>
  BY DEF Write
<1>2. writer[p] \in Seq(Nat) /\ writer' = [writer EXCEPT ![p] = [writer[p] EXCEPT ![w] = 0]]
  BY <1>1 DEF OrderInv, OrderType
<1>. PICK text \in Nat : text = writer[p][w]
  BY <1>1, <1>2
<1>3. text \in InHand(p) /\ text \in Numbers
  BY <1>1 DEF InHand, OrderInv, Known
<1>4. /\ writer'[p] \in Seq(Nat) /\ Len(writer'[p]) = Len(writer[p])
      /\ writer'[p] = [writer[p] EXCEPT ![w] = 0]
      /\ \A o \in Process \ {p} : writer'[o] = writer[o]
      /\ writer' \in [Process -> Seq(Nat)]
  <2>1. writer'[p] = [writer[p] EXCEPT ![w] = 0]
    BY <1>2 DEF OrderInv, OrderType
  <2>2. writer'[p] \in Seq(Nat) /\ Len(writer'[p]) = Len(writer[p])
    BY <1>1, <1>2, <2>1
  <2>. QED
    BY <1>2, <2>1, <2>2 DEF OrderInv, OrderType
<1>5. \A o \in Process : InHand(o)' \subseteq InHand(o)
  <2>1. InHand(p)' \subseteq InHand(p)
    BY <1>1, <1>2, <1>4 DEF InHand
  <2>2. \A o \in Process \ {p} : InHand(o)' = InHand(o)
    BY <1>4 DEF InHand
  <2>. QED
    BY <2>1, <2>2
<1>6. day \in Days /\ file[day] \in Seq(Nat)
  BY DEF OrderInv, OrderType
<1>7. \/ file' = file
      \/ file' = [file EXCEPT ![day] = Append(file[day], text)]
  BY DEF Write
<1>8. /\ file' \in [Days -> Seq(Nat)]
      /\ \A d \in Days \ {day} : file'[d] = file[d]
      /\ file'[day] = file[day] \/ file'[day] = Append(file[day], text)
  <2>1. Append(file[day], text) \in Seq(Nat)
    BY <1>6
  <2>. QED
    BY <1>6, <1>7, <2>1 DEF OrderInv, OrderType
<1>9. \A d \in Days : \A i \in DOMAIN file'[d] :
        \/ i \in DOMAIN file[d] /\ file'[d][i] = file[d][i]
        \/ /\ d = day /\ i = Len(file[day]) + 1 /\ file'[d][i] = text
           /\ \A j \in DOMAIN file'[d] : j <= i
  <2>1. \A i \in DOMAIN Append(file[day], text) :
          \/ i \in DOMAIN file[day] /\ Append(file[day], text)[i] = file[day][i]
          \/ /\ i = Len(file[day]) + 1 /\ Append(file[day], text)[i] = text
             /\ \A j \in DOMAIN Append(file[day], text) : j <= i
    BY <1>6
  <2>. QED
    BY <1>8, <2>1
<1>10. Filed' \subseteq Filed \cup {text} /\ Filed \subseteq Numbers
  BY <1>9 DEF Filed, OrderInv, Known
<1>11. (\A q : Queued(q)' = Queued(q)) /\ Numbers' = Numbers
  BY <1>1 DEF Queued, Numbers
<1>12. OrderType'
  BY <1>1, <1>4, <1>8, <1>11 DEF OrderInv, OrderType
<1>13. Known' /\ LivesApart'
  <2>1. \A d \in Days : d > day => file'[d] = <<>>
    <3>1. \A d \in Days : d > day => d # day
      BY <1>6 DEF Days
    <3>. QED
      BY <1>8, <3>1 DEF OrderInv, Known
  <2>2. Known'
    BY <1>1, <1>3, <1>5, <1>10, <1>11, <2>1 DEF OrderInv, Known
  <2>. QED
    BY <1>1, <2>2 DEF OrderInv, LivesApart
<1>14. ASSUME ~crowd PROVE InOrder'
  <2>1. InOrder
    BY <1>14 DEF OrderInv
  <2>2. \A n \in InHand(p)' : FALSE
    <3>1. Len(writer[p]) <= 1
      BY <2>1 DEF InOrder, OneWriter
    <3>2. DOMAIN writer[p] = 1..Len(writer[p]) /\ Len(writer[p]) \in Nat
      BY <1>2
    <3>3. \A v \in DOMAIN writer[p] : v = w
      BY <1>1, <3>1, <3>2
    <3>4. \A v \in DOMAIN writer'[p] : writer'[p][v] = 0
      BY <1>4, <3>3
    <3>. QED
      BY <3>4 DEF InHand
  <2>3. FilesRise'
    <3>1. ASSUME NEW d \in Days, NEW e \in Days, NEW i \in DOMAIN file'[d],
                 NEW j \in DOMAIN file'[e], Earlier(d, i, e, j)
          PROVE  Follows(file'[d][i], file'[e][j])
      <4>1. CASE /\ i \in DOMAIN file[d] /\ file'[d][i] = file[d][i]
                 /\ j \in DOMAIN file[e] /\ file'[e][j] = file[e][j]
        BY <2>1, <3>1, <4>1 DEF InOrder, FilesRise
      <4>2. CASE /\ i \in DOMAIN file[d] /\ file'[d][i] = file[d][i]
                 /\ file'[e][j] = text
        <5>1. file[d][i] \in Filed
          BY <4>2 DEF Filed
        <5>. QED
          BY <1>3, <2>1, <4>2, <5>1 DEF InOrder, FiledFirst
      <4>3. ~ (d = day /\ i = Len(file[day]) + 1 /\ \A k \in DOMAIN file'[d] : k <= i)
        <5>. SUFFICES ASSUME d = day, i = Len(file[day]) + 1,
                             \A k \in DOMAIN file'[d] : k <= i
                      PROVE  FALSE
          OBVIOUS
        <5>1. CASE e = day
          <6>1. j <= i /\ i \in Int /\ j \in Int
            BY <1>6, <1>8, <5>1 DEF Days
          <6>. QED
            BY <1>6, <3>1, <5>1, <6>1 DEF Earlier, Days
        <5>2. CASE e # day
          <6>1. file'[e] = file[e] /\ e > day
            BY <1>6, <1>8, <3>1, <5>2 DEF Earlier, Days
          <6>2. file[e] = <<>>
            BY <6>1 DEF OrderInv, Known
          <6>. QED
            BY <6>1, <6>2
        <5>. QED
          BY <5>1, <5>2
      <4>. QED
        BY <1>9, <4>1, <4>2, <4>3
    <3>. QED
      BY <1>1, <3>1 DEF FilesRise, Follows, Earlier
  <2>4. FiledFirst'
    <3>1. \A m \in Filed : \A o \in Process : \A n \in InHand(o) : Follows(m, n)
      BY <2>1 DEF InOrder, FiledFirst
    <3>2. \A m \in Filed : \A q \in DOMAIN queue : \A n \in Queued(q) : Follows(m, n)
      BY <2>1 DEF InOrder, FiledFirst
    <3>3. \A o \in Process : \A n \in InHand(o)' : Follows(text, n)
      <4>1. \A o \in Process \ {p} : \A n \in InHand(o) : texts[text] # texts[n]
        BY <1>3, <2>1 DEF InOrder, HandFirst
      <4>. QED
        BY <1>5, <2>2, <4>1 DEF Follows
    <3>4. \A q \in DOMAIN queue : \A n \in Queued(q) : Follows(text, n)
      BY <1>3, <2>1 DEF InOrder, HandFirst, Follows
    <3>5. \A m \in Filed' : /\ \A o \in Process : \A n \in InHand(o)' : Follows(m, n)
                            /\ \A q \in DOMAIN queue : \A n \in Queued(q) : Follows(m, n)
      BY <1>5, <1>10, <3>1, <3>2, <3>3, <3>4
    <3>. QED
      BY <1>1, <1>11, <3>5 DEF FiledFirst, Follows
  <2>5. QueueRises'
    BY <1>1, <2>1 DEF InOrder, QueueRises
  <2>6. HandFirst'
    BY <1>1, <1>5, <1>11, <2>1 DEF InOrder, HandFirst
  <2>7. OneWriter'
    <3>1. \A o \in Process : Len(writer[o]) <= 1
      BY <2>1 DEF InOrder, OneWriter
    <3>2. \A o \in Process : Len(writer'[o]) <= 1
      BY <1>4, <3>1
    <3>3. \A o \in Process : writer'[o] # <<>> => writer[o] # <<>>
      BY <1>1, <1>4
    <3>. QED
      BY <1>1, <2>1, <3>2, <3>3 DEF InOrder, OneWriter
  <2>8. OneHome'
    BY <1>1, <1>5, <1>11, <2>1 DEF InOrder, OneHome
  <2>. QED
    BY <2>3, <2>4, <2>5, <2>6, <2>7, <2>8 DEF InOrder
<1>. QED
  BY <1>1, <1>12, <1>13, <1>14 DEF OrderInv

LEMMA DieOrder ==
  ASSUME OrderInv, OpenInv, NEW p \in Process, Die(p)
  PROVE  OrderInv'
<1>1. /\ life' = [life EXCEPT ![p] = 0] /\ sid' = [sid EXCEPT ![p] = 0]
      /\ rid' = [rid EXCEPT ![p] = 0] /\ writer' = [writer EXCEPT ![p] = <<>>]
      /\ opening' = [opening EXCEPT ![p] = "no"]
      /\ UNCHANGED <<queue, made, inits, texts, day, file, crowd>>
  BY DEF Die, NoQueue, logVars
<1>2. /\ life'[p] = 0 /\ sid'[p] = 0 /\ writer'[p] = <<>> /\ opening'[p] = "no"
      /\ \A o \in Process \ {p} :
           /\ life'[o] = life[o] /\ sid'[o] = sid[o] /\ rid'[o] = rid[o]
           /\ writer'[o] = writer[o] /\ opening'[o] = opening[o]
  BY <1>1 DEF OrderInv, OrderType, OpenInv, OpenType
<1>3. InHand(p)' = {} /\ \A o \in Process \ {p} : InHand(o)' = InHand(o)
  BY <1>2 DEF InHand
<1>4. (\A q : Queued(q)' = Queued(q)) /\ Numbers' = Numbers /\ Filed' = Filed
  BY <1>1 DEF Queued, Numbers, Filed
<1>5. OrderType'
  <2>1. /\ life' \in [Process -> 0..inits] /\ writer' \in [Process -> Seq(Nat)]
    BY <1>1 DEF OrderInv, OrderType
  <2>. QED
    BY <1>1, <1>4, <2>1 DEF OrderInv, OrderType
<1>6. Known'
  BY <1>1, <1>3, <1>4 DEF OrderInv, Known
<1>7. LivesApart'
  BY <1>2 DEF OrderInv, LivesApart
<1>8. ASSUME ~crowd PROVE InOrder'
  <2>1. InOrder
    BY <1>8 DEF OrderInv
  <2>2. FilesRise' /\ QueueRises'
    BY <1>1, <2>1 DEF InOrder, FilesRise, Follows, Earlier, QueueRises
  <2>3. FiledFirst'
    BY <1>1, <1>3, <1>4, <2>1 DEF InOrder, FiledFirst, Follows
  <2>4. HandFirst'
    BY <1>1, <1>2, <1>3, <1>4, <2>1 DEF InOrder, HandFirst
  <2>5. OneWriter'
    <3>1. \A o \in Process : Len(writer[o]) <= 1
      BY <2>1 DEF InOrder, OneWriter
    <3>2. \A o \in Process : Len(writer'[o]) <= 1
      BY <1>2, <3>1
    <3>3. \A o, r \in Process \ {p} :
            o # r /\ writer'[o] # <<>> /\ writer'[r] # <<>> => rid'[o] # rid'[r]
      BY <1>2, <2>1 DEF InOrder, OneWriter
    <3>. QED
      BY <1>2, <3>2, <3>3 DEF OneWriter
  <2>6. OneHome'
    BY <1>1, <1>2, <1>3, <1>4, <2>1 DEF InOrder, OneHome
  <2>. QED
    BY <2>2, <2>3, <2>4, <2>5, <2>6 DEF InOrder
<1>. QED
  BY <1>1, <1>5, <1>6, <1>7, <1>8 DEF OrderInv

\* Midnight, and steps that change nothing here.
LEMMA DayOrder ==
  ASSUME OrderInv,
         UNCHANGED <<queue, opening, sid, rid, writer, life, inits, texts, file, crowd>>,
         day' = day \/ (day < MaxDay /\ day' = day + 1)
  PROVE  OrderInv'
<1>1. /\ \A q : Queued(q)' = Queued(q)
      /\ \A o : InHand(o)' = InHand(o)
      /\ Numbers' = Numbers /\ Filed' = Filed
  BY DEF Queued, InHand, Numbers, Filed
<1>2. day' \in Days /\ \A d \in Days : d > day' => d > day
  BY UtilLogAssumption DEF OrderInv, OrderType, Days
<1>3. OrderType'
  BY <1>1, <1>2 DEF OrderInv, OrderType
<1>4. Known' /\ LivesApart'
  BY <1>1, <1>2 DEF OrderInv, Known, LivesApart
<1>5. InOrder => InOrder'
  <2>1. FilesRise => FilesRise'
    BY DEF FilesRise, Follows, Earlier
  <2>2. FiledFirst => FiledFirst'
    BY <1>1 DEF FiledFirst, Follows
  <2>3. QueueRises /\ HandFirst /\ OneWriter => QueueRises' /\ HandFirst' /\ OneWriter'
    BY <1>1 DEF QueueRises, HandFirst, OneWriter
  <2>4. OneHome => OneHome'
    BY <1>1 DEF OneHome
  <2>. QED
    BY <2>1, <2>2, <2>3, <2>4 DEF InOrder
<1>. QED
  BY <1>3, <1>4, <1>5 DEF OrderInv

LEMMA OrderStepInv ==
  ASSUME OrderInv, OpenInv, [UtilNext]_utilVars
  PROVE  OrderInv'
<1>1. ASSUME NEW p \in Process, InitLog(p) PROVE OrderInv'
  BY <1>1, InitLogOrder
<1>2. ASSUME NEW p \in Process, OpenGet(p) PROVE OrderInv'
  BY <1>2, OpenGetOrder
<1>3. ASSUME NEW p \in Process, OpenRemove(p) PROVE OrderInv'
  BY <1>3, OpenRemoveOrder
<1>4. ASSUME NEW p \in Process, OpenAgain(p) PROVE OrderInv'
  BY <1>4, OpenAgainOrder
<1>5. ASSUME NEW p \in Process, Log(p) PROVE OrderInv'
  BY <1>5, LogOrder
<1>6. ASSUME NEW p \in Process, Writing(p) PROVE OrderInv'
  <2>1. PICK w \in 1..MaxInits : Receive(p, w) \/ Write(p, w)
    BY <1>6 DEF Writing
  <2>2. w \in Nat
    BY UtilLogAssumption
  <2>. QED
    BY <2>1, <2>2, ReceiveOrder, WriteOrder
<1>7. ASSUME NEW p \in Process, Die(p) PROVE OrderInv'
  BY <1>7, DieOrder
<1>8. CASE Midnight
  BY <1>8, DayOrder DEF Midnight
<1>9. CASE UNCHANGED utilVars
  BY <1>9, DayOrder DEF utilVars
<1>. QED
  BY <1>1, <1>2, <1>3, <1>4, <1>5, <1>6, <1>7, <1>8, <1>9 DEF UtilNext

\* Where the texts of one life can be at a time, and in what order, for any number
\* of processes that start, die, open the queue under each other and log, as long
\* as no queue has two writers (send_msg, recv_msg and init_log in util_log.c).
THEOREM OrderInvariant == UtilSpec => []OrderInv
<1>1. UtilInit => OrderInv
  BY OrderInitInv
<1>2. OrderInv /\ OpenInv /\ [UtilNext]_utilVars => OrderInv'
  BY OrderStepInv
<1>. QED
  BY <1>1, <1>2, OpenInvariant, PTL DEF UtilSpec

\* No text is in the files twice, and those of one process stand in the order in
\* which it logged them (recv_msg in util_log.c).
THEOREM OrderIsKept == UtilSpec => []OrderKept
<1>1. ASSUME OrderInv PROVE OrderKept
  <2>. SUFFICES ASSUME ~crowd, NEW d \in Days, NEW e \in Days,
                       NEW i \in DOMAIN file[d], NEW j \in DOMAIN file[e], Earlier(d, i, e, j)
                PROVE  /\ file[d][i] # file[e][j]
                       /\ texts[file[d][i]] = texts[file[e][j]] => file[d][i] < file[e][j]
    BY DEF OrderKept
  <2>1. Follows(file[d][i], file[e][j])
    BY <1>1 DEF OrderInv, InOrder, FilesRise
  <2>2. file[d][i] \in Nat
    BY <1>1 DEF OrderInv, OrderType
  <2>. QED
    BY <2>1, <2>2 DEF Follows
<1>. QED
  BY <1>1, OrderInvariant, PTL

-----------------------------------------------------------------------------
\* GhLog: the list of categories.

Node == Listable \cup {Last}

Orders == [kind : Kinds, to : [Listable -> Levels], old : Nat]

CatTypeOK ==
  /\ chain \in [Kinds -> Nat]
  /\ setting \in [Kinds -> [Listable -> Levels]]
  /\ catList \in Listable
  /\ next \in [Listable -> Node \cup {Null}]
  /\ level \in [Listable -> [Kinds -> Levels \cup {Invalid}]]
  /\ lock \in Threads \cup {Null}
  /\ at \in [Threads -> {"idle", "test", "link", "set", "refresh"}]
  /\ cat \in [Threads -> Node]
  /\ order \in [Threads -> Orders]
  /\ doubled \in BOOLEAN

\* Only a refresh holds the lock, and only it gets to the sentinel.
Holders ==
  \A t \in Threads : /\ at[t] = "refresh" <=> lock = t
                     /\ at[t] \in {"test", "link"} => cat[t] \in Listable

\* From a category of a ring the list never comes to its end.
OnRing(c) == \E R \in SUBSET Listable : Closed(R) /\ c \in R

\* A second linking makes a ring, and from then on the list starts in one.
Shape ==
  /\ catList \in Linked
  /\ \A c \in Linked : next[c] \in Linked \cup {Last}
  /\ doubled => OnRing(catList)
  /\ ~doubled => \A R \in SUBSET Node : (Closed(R) /\ catList \in R) => Linked \cup {Last} \subseteq R

\* A refresh has done what does not lie ahead of it, or goes round for ever.
Refreshed(t) ==
  /\ cat[t] \in Linked \cup {Last}
  /\ doubled => OnRing(cat[t])
  /\ ~doubled => \A R \in SUBSET Node : (Closed(R) /\ cat[t] \in R) =>
                   \A c \in Linked \ R : level[c] = Current(c)

Refreshing == \A t \in Threads : at[t] = "refresh" => Refreshed(t)

CatInv == CatTypeOK /\ Holders /\ Shape /\ Refreshing /\ LevelsCurrent

LEMMA NoOrderType == NoOrder \in Orders
  BY LogAssumption DEF LogAssumption, NoOrder, Orders, Kinds, Levels

LEMMA CatInvInit == LogInit => CatInv
<1> SUFFICES ASSUME LogInit PROVE CatInv
  OBVIOUS
<1> USE DEF LogInit
<1>1. /\ Default \in Listable /\ Last \notin Listable /\ Null \notin Node
      /\ 0 \in Levels /\ Null \notin Threads
  BY LogAssumption DEF LogAssumption, Listable, Node, Levels
<1>2. Linked = {Default}
  BY <1>1 DEF Linked, Node
<1>3. CatTypeOK
  <2>1. next \in [Listable -> Node \cup {Null}]
    BY DEF Node
  <2>2. setting \in [Kinds -> [Listable -> Levels]]
    BY <1>1
  <2>3. level \in [Listable -> [Kinds -> Levels \cup {Invalid}]]
    BY <1>1
  <2>4. order \in [Threads -> Orders]
    BY NoOrderType
  <2>5. cat \in [Threads -> Node]
    BY <1>1 DEF Node
  <2> QED
    BY <1>1, <2>1, <2>2, <2>3, <2>4, <2>5 DEF CatTypeOK
<1>4. Holders
  BY <1>1 DEF Holders
<1>5. Shape
  BY <1>1, <1>2 DEF Shape, Closed, Node
<1>6. Refreshing /\ LevelsCurrent
  BY <1>1, <1>2 DEF Refreshing, LevelsCurrent, Current
<1> QED
  BY <1>3, <1>4, <1>5, <1>6 DEF CatInv

\* The steps that leave the list, the settings and the levels alone, and by
\* which no thread begins or ends a refresh.
LEMMA ApartInv ==
  ASSUME CatInv, UNCHANGED <<setting, catList, next, level, lock, doubled>>,
         CatTypeOK', Holders',
         \A t \in Threads : at'[t] = "refresh" => at[t] = "refresh" /\ cat'[t] = cat[t]
  PROVE  CatInv'
<1> USE DEF CatInv
<1>1. Shape'
  BY DEF Shape, Linked, Closed, OnRing
<1>2. Refreshing'
  BY DEF Refreshing, Refreshed, Linked, Closed, OnRing, Current
<1>3. LevelsCurrent'
  BY DEF LevelsCurrent, Linked, Current
<1> QED
  BY <1>1, <1>2, <1>3

LEMMA MessageInv ==
  ASSUME CatInv, NEW t \in Threads, NEW c \in Listable, Message(t, c)
  PROVE  CatInv'
<1> USE DEF CatInv, Message, GoOn, settingVars, listVars
<1>1. CatTypeOK'
  BY DEF CatTypeOK, Node
<1>2. Holders'
  BY DEF Holders, CatTypeOK
<1> QED
  BY <1>1, <1>2, ApartInv DEF CatTypeOK

LEMMA TestInv ==
  ASSUME CatInv, NEW t \in Threads, Test(t)
  PROVE  CatInv'
<1> USE DEF CatInv, Test, GoOn, Return, settingVars, listVars
<1>1. CatTypeOK'
  BY DEF CatTypeOK, Node, Listable
<1>2. Holders'
  BY DEF Holders, CatTypeOK
<1> QED
  BY <1>1, <1>2, ApartInv DEF CatTypeOK

LEMMA SetInv ==
  ASSUME CatInv, NEW t \in Threads, NEW k \in Kinds,
         NEW to \in [Listable -> Levels], Set(t, k, to)
  PROVE  CatInv'
<1> USE DEF CatInv, Set, GoOn, settingVars, listVars
<1>1. CatTypeOK'
  <2>1. order' \in [Threads -> Orders]
    BY DEF CatTypeOK, Orders
  <2> QED
    BY <2>1 DEF CatTypeOK
<1>2. Holders'
  BY DEF Holders, CatTypeOK
<1> QED
  BY <1>1, <1>2, ApartInv DEF CatTypeOK

\* What a step makes of the levels of a category, linked or refreshed.
LEMMA CurrentType ==
  ASSUME CatTypeOK, NEW c \in Listable
  PROVE  Current(c) \in [Kinds -> Levels \cup {Invalid}]
BY DEF CatTypeOK, Current

\* The categories from which the list leads to c are a ring once c is put in
\* front of the list a second time.
LEMMA SecondLinkClosesRing ==
  ASSUME CatInv, ~doubled, NEW c \in Linked, next' = [next EXCEPT ![c] = catList]
  PROVE  \E S \in SUBSET Listable : Closed(S)' /\ c \in S
<1> USE DEF CatInv
<1> PICK S : S = {x \in Linked : \A R \in SUBSET Node :
                                 (Closed(R) /\ x \in R) => c \in R}
  OBVIOUS
<1>1. /\ Last \notin Listable /\ Linked \subseteq Listable /\ catList \in Linked
      /\ next \in [Listable -> Node \cup {Null}]
  BY LogAssumption DEF LogAssumption, CatTypeOK, Linked, Shape
<1>2. c \in S /\ catList \in S /\ S \in SUBSET Listable
  BY <1>1 DEF Shape
<1>3. ASSUME NEW x \in S, x # c PROVE next[x] \in S
  <2>1. next[x] \in Linked \cup {Last}
    BY DEF Shape
  <2>2. ASSUME NEW R \in SUBSET Node, Closed(R), next[x] \in R PROVE c \in R
    <3>1. R \cup {x} \in SUBSET Node /\ x \in R \cup {x}
      BY <1>1 DEF Node
    <3>2. Closed(R \cup {x})
      BY <2>2 DEF Closed
    <3> QED
      BY <1>3, <3>1, <3>2
  <2>3. next[x] # Last
    <3>1. {Last} \in SUBSET Node /\ Closed({Last}) /\ c \notin {Last}
      BY <1>1 DEF Node, Closed
    <3> QED
      BY <2>2, <3>1
  <2> QED
    BY <2>1, <2>2, <2>3
<1>4. next'[c] = catList /\ \A x \in Listable : x # c => next'[x] = next[x]
  BY <1>1
<1>5. Closed(S)'
  <2> SUFFICES ASSUME NEW x \in S PROVE next'[x] \in S
    BY DEF Closed
  <2>1. CASE x = c
    BY <1>2, <1>4, <2>1
  <2>2. CASE x # c
    BY <1>2, <1>3, <1>4, <2>2
  <2> QED
    BY <2>1, <2>2
<1> QED
  BY <1>2, <1>5

LEMMA LinkInv ==
  ASSUME CatInv, NEW t \in Threads, Link(t)
  PROVE  CatInv'
<1> USE DEF CatInv
<1>0. PICK c \in Listable : c = cat[t]
  BY DEF Holders, Link
<1>1. /\ at[t] = "link" /\ lock = Null
      /\ catList' = c /\ next' = [next EXCEPT ![c] = catList]
      /\ level' = [level EXCEPT ![c] = Current(c)]
      /\ doubled' = (doubled \/ next[c] # Null)
      /\ at' = [at EXCEPT ![t] = "idle"]
      /\ cat' = [cat EXCEPT ![t] = Default]
      /\ UNCHANGED <<setting, chain, lock, order>>
  BY <1>0 DEF Link, LinkInFront, GoOn, Return, settingVars
<1>2. /\ c \in Listable /\ catList \in Linked /\ Linked \subseteq Listable
      /\ Last \notin Listable /\ Null \notin Node /\ Null \notin Threads
      /\ Listable \subseteq Node
      /\ next \in [Listable -> Node \cup {Null}]
  BY <1>1, LogAssumption DEF Holders, LogAssumption, Node, Linked, Shape, CatTypeOK
<1>3. /\ next'[c] = catList /\ \A x \in Listable : x # c => next'[x] = next[x]
      /\ next' \in [Listable -> Node \cup {Null}]
  BY <1>1, <1>2
<1>4. Linked' = Linked \cup {c}
  BY <1>2, <1>3 DEF Linked
<1>5. CatTypeOK'
  <2>1. level' \in [Listable -> [Kinds -> Levels \cup {Invalid}]]
    BY <1>1, <1>2, CurrentType DEF CatTypeOK
  <2>2. doubled' \in BOOLEAN /\ cat' \in [Threads -> Node]
    BY <1>1, <1>2 DEF CatTypeOK, Listable
  <2> QED
    BY <1>1, <1>2, <1>3, <2>1, <2>2 DEF CatTypeOK
<1>6. Holders'
  BY <1>1, <1>2 DEF Holders, CatTypeOK
<1>7. Refreshing'
  BY <1>1, <1>2, <1>6 DEF Refreshing, Holders
<1>8. LevelsCurrent'
  <2> SUFFICES ASSUME NEW x \in Linked \cup {c} PROVE level'[x] = Current(x)'
    BY <1>4 DEF LevelsCurrent
  <2>1. Current(x)' = Current(x)
    BY <1>1 DEF Current
  <2>2. CASE x = c
    BY <1>1, <1>2, <2>1, <2>2 DEF CatTypeOK
  <2>3. CASE x # c
    BY <1>1, <1>2, <2>1, <2>3 DEF CatTypeOK, LevelsCurrent
  <2> QED
    BY <2>2, <2>3
<1>9. Shape'
  <2>1. \A x \in Linked' : next'[x] \in Linked' \cup {Last}
    BY <1>2, <1>3, <1>4 DEF Shape
  <2>2. ASSUME ~doubled' PROVE \A R \in SUBSET Node : (Closed(R)' /\ c \in R) => Linked' \cup {Last} \subseteq R
    <3> SUFFICES ASSUME NEW R \in SUBSET Node, Closed(R)', c \in R
                 PROVE  Linked \cup {c} \cup {Last} \subseteq R
      BY <1>4
    <3>1. ~doubled /\ c \notin Linked
      BY <1>1, <2>2 DEF Linked
    <3>2. catList \in R \ {c} /\ R \ {c} \in SUBSET Node
      BY <1>2, <1>3, <3>1 DEF Closed
    <3>3. Closed(R \ {c})
      <4> SUFFICES ASSUME NEW x \in R \ {c}, x # Last PROVE next[x] \in R \ {c}
        BY DEF Closed
      <4>1. x \in Listable /\ next'[x] = next[x] /\ next[x] \in R
        BY <1>3 DEF Closed, Node
      <4>2. x \in Linked
        BY <1>2, <4>1 DEF Linked
      <4>3. next[x] # c
        BY <1>2, <3>1, <4>2 DEF Shape
      <4> QED
        BY <4>1, <4>3
    <3> QED
      BY <3>1, <3>2, <3>3 DEF Shape
  <2>3. ASSUME doubled' PROVE OnRing(c)'
    <3>1. CASE doubled
      <4>1. PICK S \in SUBSET Listable : Closed(S) /\ catList \in S
        BY <3>1 DEF Shape, OnRing
      <4>2. S \cup {c} \in SUBSET Listable
        BY <1>2
      <4>3. Closed(S \cup {c})'
        BY <1>2, <1>3, <4>1 DEF Closed
      <4> QED
        BY <4>2, <4>3 DEF OnRing
    <3>2. CASE ~doubled
      <4>1. c \in Linked
        BY <1>1, <1>2, <2>3, <3>2 DEF Linked
      <4> QED
        BY <1>1, <3>2, <4>1, SecondLinkClosesRing DEF OnRing
    <3> QED
      BY <3>1, <3>2
  <2>4. catList' \in Linked'
    BY <1>1, <1>4
  <2> QED
    BY <1>1, <2>1, <2>2, <2>3, <2>4 DEF Shape
<1> QED
  BY <1>5, <1>6, <1>7, <1>8, <1>9

LEMMA ReplaceInv ==
  ASSUME CatInv, NEW t \in Threads, Replace(t)
  PROVE  CatInv'
<1> USE DEF CatInv
<1>1. /\ at[t] = "set" /\ lock = Null /\ lock' = t
      /\ setting' = [setting EXCEPT ![order[t].kind] = order[t].to]
      /\ cat' = [cat EXCEPT ![t] = catList]
      /\ at' = [at EXCEPT ![t] = "refresh"]
      /\ chain' = [chain EXCEPT ![order[t].kind] = @ + 1]
      /\ order' = [order EXCEPT ![t] = NoOrder]
      /\ UNCHANGED <<catList, next, level, doubled>>
  BY DEF Replace, RefreshFrom, GoOn, listVars
<1>2. /\ catList \in Listable /\ Null \notin Threads
      /\ \A u \in Threads : at[u] # "refresh"
  BY <1>1, LogAssumption DEF Holders, LogAssumption, CatTypeOK
<1>3. CatTypeOK'
  <2>1. setting' \in [Kinds -> [Listable -> Levels]] /\ chain' \in [Kinds -> Nat]
    BY <1>1 DEF CatTypeOK, Orders
  <2>2. cat' \in [Threads -> Node]
    BY <1>1, <1>2 DEF CatTypeOK, Node
  <2>3. order' \in [Threads -> Orders]
    BY <1>1, NoOrderType DEF CatTypeOK
  <2> QED
    BY <1>1, <2>1, <2>2, <2>3 DEF CatTypeOK
<1>4. Holders'
  BY <1>1, <1>2 DEF Holders, CatTypeOK
<1>5. Shape'
  BY <1>1 DEF Shape, Linked, Closed, OnRing
<1>6. Refreshing'
  <2>1. ASSUME NEW u \in Threads, at'[u] = "refresh" PROVE u = t /\ cat'[u] = catList
    BY <1>1, <1>2, <2>1 DEF CatTypeOK
  <2>2. Linked' = Linked
    BY <1>1 DEF Linked
  <2>3. \A R : Closed(R)' = Closed(R)
    BY <1>1 DEF Closed
  <2>4. \A x : OnRing(x)' = OnRing(x)
    BY <2>3 DEF OnRing
  <2> QED
    BY <1>1, <2>1, <2>2, <2>3, <2>4 DEF Refreshing, Refreshed, Shape
<1>7. LevelsCurrent'
  BY <1>1, <1>2 DEF LevelsCurrent
<1> QED
  BY <1>3, <1>4, <1>5, <1>6, <1>7

LEMMA RefreshInv ==
  ASSUME CatInv, NEW t \in Threads, Refresh(t)
  PROVE  CatInv'
<1> USE DEF CatInv
<1>1. /\ at[t] = "refresh" /\ Refreshed(t)
      /\ UNCHANGED <<setting, chain, catList, next, order, doubled>>
  BY DEF Refresh, Refreshing, settingVars, listVars
<1>2. /\ Last \notin Listable /\ Null \notin Threads /\ Linked \subseteq Listable
      /\ Node = Listable \cup {Last}
      /\ \A u \in Threads : at[u] = "refresh" => u = t
  BY <1>1, LogAssumption DEF Holders, LogAssumption, Linked, Node
<1>3. Shape' /\ Linked' = Linked
  BY <1>1 DEF Shape, Linked, Closed, OnRing
<1>4. CASE cat[t] = Last
  <2>1. /\ lock' = Null
        /\ at' = [at EXCEPT ![t] = "idle"]
        /\ cat' = [cat EXCEPT ![t] = Default]
        /\ UNCHANGED level
    BY <1>4 DEF Refresh, GoOn, Return
  <2>2. CatTypeOK' /\ Holders'
    BY <1>1, <1>2, <2>1 DEF CatTypeOK, Holders, Listable
  <2>3. Refreshing'
    BY <1>1, <1>2, <2>1 DEF Refreshing, CatTypeOK
  <2>4. ~doubled
    BY <1>1, <1>2, <1>4 DEF Refreshed, OnRing
  <2>5. {Last} \in SUBSET Node /\ Closed({Last}) /\ Linked \ {Last} = Linked
    BY <1>2 DEF Closed
  <2>6. \A c \in Linked : level[c] = Current(c)
    BY <1>1, <1>4, <2>4, <2>5 DEF Refreshed
  <2>7. LevelsCurrent'
    BY <1>1, <1>3, <2>1, <2>6 DEF LevelsCurrent, Current
  <2> QED
    BY <1>3, <2>2, <2>3, <2>7
<1>5. CASE cat[t] # Last
  <2>1. /\ level' = [level EXCEPT ![cat[t]] = Current(cat[t])]
        /\ cat' = [cat EXCEPT ![t] = next[cat[t]]]
        /\ UNCHANGED <<lock, at>>
    BY <1>5 DEF Refresh
  <2>2. /\ cat[t] \in Linked /\ cat[t] \in Listable
        /\ next[cat[t]] \in Linked \cup {Last}
    BY <1>1, <1>2, <1>5 DEF Refreshed, Shape
  <2>3. cat'[t] = next[cat[t]] /\ lock = t
    BY <1>1, <2>1 DEF CatTypeOK, Holders
  <2>4. CatTypeOK'
    <3>1. level' \in [Listable -> [Kinds -> Levels \cup {Invalid}]]
      BY <2>1, <2>2, CurrentType DEF CatTypeOK
    <3>2. cat' \in [Threads -> Node]
      BY <1>2, <2>1, <2>2 DEF CatTypeOK
    <3> QED
      BY <1>1, <2>1, <3>1, <3>2 DEF CatTypeOK
  <2>5. Holders'
    BY <1>1, <2>1 DEF Holders, CatTypeOK
  <2>6. LevelsCurrent'
    BY <1>2, <2>1, <2>3 DEF LevelsCurrent
  <2>7. doubled => OnRing(cat'[t])
    BY <1>1, <2>2, <2>3, <1>5 DEF Refreshed, OnRing, Closed
  <2>8. ASSUME ~doubled, NEW R \in SUBSET Node, Closed(R), cat'[t] \in R,
               NEW c \in Linked \ R
        PROVE  level'[c] = Current(c)
    <3>1. CASE c = cat[t]
      BY <1>2, <2>1, <2>2, <3>1 DEF CatTypeOK
    <3>2. CASE c # cat[t]
      <4>1. R \cup {cat[t]} \in SUBSET Node /\ cat[t] \in R \cup {cat[t]}
        BY <1>2, <2>2
      <4>2. Closed(R \cup {cat[t]})
        BY <2>3, <2>8 DEF Closed
      <4>3. level[c] = Current(c)
        BY <1>1, <2>8, <3>2, <4>1, <4>2 DEF Refreshed
      <4> QED
        BY <1>2, <2>1, <3>2, <4>3 DEF CatTypeOK
    <3> QED
      BY <3>1, <3>2
  <2>9. Refreshed(t)'
    <3>1. \A R : Closed(R)' = Closed(R)
      BY <1>1 DEF Closed
    <3>2. \A c : Current(c)' = Current(c)
      BY <1>1 DEF Current
    <3>3. \A x : OnRing(x)' = OnRing(x)
      BY <3>1 DEF OnRing
    <3>4. OnRing(cat[t])' <=> OnRing(cat'[t])
      BY <1>1, <3>1 DEF OnRing
    <3> QED
      BY <1>1, <1>3, <2>2, <2>3, <2>7, <2>8, <3>1, <3>2, <3>4 DEF Refreshed
  <2>10. Refreshing'
    BY <1>2, <2>1, <2>9 DEF Refreshing
  <2> QED
    BY <1>3, <2>4, <2>5, <2>6, <2>10
<1> QED
  BY <1>4, <1>5

\* CatInv holds throughout, and with it the two properties.
THEOREM CatInvariant == LogSpec => []CatInv
<1>1. CatInv /\ [LogNext]_catVars => CatInv'
  <2> SUFFICES ASSUME CatInv, [LogNext]_catVars PROVE CatInv'
    OBVIOUS
  <2>1. CASE UNCHANGED catVars
    <3>1. CatTypeOK' /\ Holders'
      BY <2>1 DEF CatInv, CatTypeOK, Holders, catVars, settingVars, listVars
    <3> QED
      BY <2>1, <3>1, ApartInv DEF catVars, settingVars, listVars
  <2>2. ASSUME NEW t \in Threads, ThreadStep(t) PROVE CatInv'
    BY <2>2, TestInv, LinkInv, ReplaceInv, RefreshInv DEF ThreadStep
  <2>3. ASSUME NEW t \in Threads, NEW c \in Listable, Message(t, c) PROVE CatInv'
    BY <2>3, MessageInv
  <2>4. ASSUME NEW t \in Threads, NEW k \in Kinds,
               NEW to \in [Listable -> Levels], Set(t, k, to)
        PROVE  CatInv'
    BY <2>4, SetInv
  <2> QED
    BY <2>1, <2>2, <2>3, <2>4 DEF LogNext
<1> QED
  BY <1>1, CatInvInit, PTL DEF LogSpec

\* Whenever no setting is under way every linked category has the levels of the
\* current settings.
THEOREM LevelsStayCurrent == LogSpec => []LevelsCurrent
<1>1. CatInv => LevelsCurrent
  BY DEF CatInv
<1> QED
  BY <1>1, CatInvariant, PTL

\* The list leads to every linked category and to its end, unless one was linked
\* twice.
THEOREM ListStaysIntact == LogSpec => []ListIntact
<1>1. CatInv => ListIntact
  <2> SUFFICES ASSUME CatInv, ~doubled PROVE Reached = Linked \cup {Last}
    BY DEF ListIntact
  <2>1. /\ Linked \cup {Last} \in SUBSET Node
        /\ Closed(Linked \cup {Last}) /\ catList \in Linked
    BY DEF CatInv, Shape, Closed, Linked, Node
  <2>2. \A R \in SUBSET Node : (Closed(R) /\ catList \in R) => Linked \cup {Last} \subseteq R
    BY DEF CatInv, Shape
  <2> QED
    BY <2>1, <2>2 DEF Reached, Node
<1> QED
  BY <1>1, CatInvariant, PTL
=============================================================================
