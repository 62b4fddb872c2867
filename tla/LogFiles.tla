------------------------------ MODULE LogFiles ------------------------------
(***************************************************************************)
(* The log files behind LevelLogger::write (base/log.cc): path, path.1,    *)
(* path.2, ... When the file is large enough it is closed, and the next    *)
(* write moves every file one place on before it opens a new one. Each     *)
(* rename is a step, the process may die between any two of them and start *)
(* again, and somebody may delete files meanwhile.                         *)
(*                                                                         *)
(* A file is the sequence of what was written to it, by number; an empty   *)
(* one is not told from none (only the one that is open can be empty). The *)
(* file of fatal logs is moved on by the same code.                        *)
(***************************************************************************)
EXTENDS Integers, Sequences

CONSTANTS
  Num,       \* max_log_file_num
  Size,      \* max_log_file_size, in writes
  MaxWrites  \* bound: the number of writes

ASSUME FilesAssumption ==
  /\ Num \in Nat \ {0}
  /\ Size \in Nat \ {0}
  /\ MaxWrites \in Nat

VARIABLES
  logFile,     \* the files, path.i at i and path at 0
  handle,   \* _file: "closed", "open", or "unlinked": open, but deleted since
  turn,     \* where open_log_file is: the place a file is moved to next, Num: it
            \* removes the last file, 0: it opens one; -1: it is not called
  written,  \* how many writes there were
  dropped,  \* history: the writes that went with an oldest file
  gone      \* history: those that somebody deleted or that could not be made

filesVars == <<logFile, handle, turn, written, dropped, gone>>

FilePlaces == 0..Num - 1
NoFile == <<>>

FilesInit ==
  /\ logFile = [i \in FilePlaces |-> NoFile]
  /\ handle = "closed"
  /\ turn = -1
  /\ written = 0
  /\ dropped = {}
  /\ gone = {}

Content(i) == {logFile[i][n] : n \in DOMAIN logFile[i]}
Absent(i) == logFile[i] = NoFile

\* Mutant: a free place in between is not noticed.
FreePlace_last == Num - 1

\* The first place behind the file that is free, or the last one.
FreePlace ==
  CHOOSE i \in FilePlaces :
    /\ i = Num - 1 \/ (i > 0 /\ Absent(i))
    /\ \A j \in 1..i - 1 : ~Absent(j)

\* A write finds no file open: open_log_file looks at the size and finds the
\* place up to which the files move on.
Rotate ==
  /\ handle = "closed" /\ turn = -1
  /\ written < MaxWrites
  /\ turn' = IF Len(logFile[0]) < Size THEN 0
             ELSE IF FreePlace = Num - 1 THEN Num ELSE FreePlace
  /\ UNCHANGED <<logFile, handle, written, dropped, gone>>

\* The file in the last place is removed. If there is only one place, that is
\* the file itself.
RemoveLast ==
  /\ turn = Num
  /\ logFile' = [logFile EXCEPT ![Num - 1] = NoFile]
  /\ dropped' = dropped \cup Content(Num - 1)
  /\ turn' = Num - 1
  /\ UNCHANGED <<handle, written, gone>>

\* One rename. A file that is not there is not moved; one that is in the way is
\* replaced.
MoveOn ==
  /\ turn \in FilePlaces \ {0}
  /\ IF Absent(turn - 1) THEN UNCHANGED <<logFile, dropped>>
     ELSE /\ logFile' = [logFile EXCEPT ![turn] = logFile[turn - 1], ![turn - 1] = NoFile]
          /\ dropped' = dropped \cup Content(turn)
  /\ turn' = turn - 1
  /\ UNCHANGED <<handle, written, gone>>

\* Mutant: the file is opened to be written anew.
Opened_anew == logFile' = [logFile EXCEPT ![0] = NoFile]

\* The file is opened for appending.
Opened == UNCHANGED logFile

\* It may be that it cannot be opened, and then this write is lost.
OpenFile ==
  /\ turn = 0
  /\ turn' = -1
  /\ \/ handle' = "open" /\ Opened /\ UNCHANGED <<written, gone>>
     \/ /\ written' = written + 1
        /\ gone' = gone \cup {written + 1}
        /\ UNCHANGED <<logFile, handle>>
  /\ UNCHANGED dropped

\* write, and rotate(), which closes a file that is deleted or large enough.
WriteFile ==
  /\ handle # "closed"
  /\ written < MaxWrites
  /\ written' = written + 1
  /\ IF handle = "open"
     THEN logFile' = [logFile EXCEPT ![0] = Append(@, written + 1)] /\ UNCHANGED gone
     ELSE gone' = gone \cup {written + 1} /\ UNCHANGED logFile
  /\ handle' = IF Len(logFile'[0]) >= Size \/ handle = "unlinked" THEN "closed" ELSE handle
  /\ UNCHANGED <<turn, dropped>>

\* The process dies, and a later one begins anew.
ProcessDies == handle' = "closed" /\ turn' = -1 /\ UNCHANGED <<logFile, written, dropped, gone>>

\* Somebody deletes a file.
DeleteFile(i) ==
  /\ logFile' = [logFile EXCEPT ![i] = NoFile]
  /\ gone' = gone \cup Content(i)
  /\ handle' = IF i = 0 /\ handle = "open" THEN "unlinked" ELSE handle
  /\ UNCHANGED <<turn, written, dropped>>

FilesNext ==
  \/ Rotate \/ RemoveLast \/ MoveOn \/ OpenFile \/ WriteFile \/ ProcessDies
  \/ \E i \in FilePlaces : DeleteFile(i)

FilesSpec == FilesInit /\ [][FilesNext]_filesVars

-----------------------------------------------------------------------------
Kept == UNION {Content(i) : i \in FilePlaces}

\* Wherever the process dies between two renames, and whatever is deleted: no
\* write is in two files, the files from the last to the first hold what they
\* hold in the order in which it was written, nothing else is missing, and a
\* file goes only when all that is left is younger (log.cc:233-252).
FilesInOrder ==
  /\ \A i \in FilePlaces : \A m, n \in DOMAIN logFile[i] : m < n => logFile[i][m] < logFile[i][n]
  /\ \A i, j \in FilePlaces : i < j => \A x \in Content(i), y \in Content(j) : y < x
  /\ Kept \cup dropped \cup gone = 1..written
  /\ \A x \in dropped, y \in Kept : x < y

\* As long as nobody deletes files and all can be opened, the last writes are
\* there, as many as all files but one hold, although the code may die with a
\* place in between left free.
LastWritesKept ==
  gone = {} => \A x \in 1..written : written - x < (Num - 1) * Size => x \in Kept
=============================================================================
