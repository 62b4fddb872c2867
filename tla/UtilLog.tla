------------------------------- MODULE UtilLog -------------------------------
(***************************************************************************)
(* The file log of util_file/src/util_log.c, with LOGFILE_ENABLE set: a    *)
(* log call puts its text on a System V message queue, and the thread that *)
(* init_log starts takes the texts off and appends them to the file of the *)
(* day. The queue belongs to the kernel and is found by a fixed key, so it *)
(* outlives its process and is shared by all processes on the machine.     *)
(*                                                                         *)
(* open_msg is three steps, one per system call that matters to others;    *)
(* a writer takes a text in one step and writes it in another. Two log     *)
(* calls of a process may come from two threads. Texts are numbered.       *)
(***************************************************************************)
EXTENDS Integers, Sequences, FiniteSets

CONSTANTS
  Process,
  QueueLimit,  \* how many texts a queue holds (msg_qbytes)
  FileLimit,   \* LOGFILE_MAXSIZE, in texts
  AliveDays,   \* LOGFILE_ALIVEDAYS
  East,        \* is local midnight the day before in UTC? 1 or 0
  MaxQueues,   \* bound: how many queues are created
  MaxInits,    \* bound: how many times init_log is called
  MaxTexts,    \* bound: how many texts are logged
  MaxDay       \* bound: the last day

ASSUME UtilLogAssumption ==
  /\ {QueueLimit, FileLimit, AliveDays, MaxQueues, MaxInits, MaxTexts, MaxDay} \subseteq Nat
  /\ East \in {0, 1}

VARIABLES
  queue,    \* the kernel's queues that exist: a function from their ids
  made,     \* how many queues were created: the last one's id
  opening,  \* per process: "no", or the system call of open_msg that is next
  sid, rid, \* per process: s_msg_id and r_msg_id
  writer,   \* per process: what each of its writers has in hand, 0: nothing
  life,     \* per process: the last init_log it called, by number, 0: not alive
  inits,    \* history: how many times init_log was called
  texts,    \* history: per text logged, the life of the process that did
  day, file,  \* the day, and the files by day
  latest,   \* history: the process whose open_msg ended last
  died,     \* history: a process died inside open_msg
  crowd     \* history: a queue had two writers, or a process logged in open_msg

utilVars == <<queue, made, opening, sid, rid, writer, life, inits, texts, day, file,
              latest, died, crowd>>
logVars == <<texts, day, file>>

Days == 0..MaxDay
NoQueue == 0

UtilInit ==
  /\ queue = [q \in {} |-> <<>>]
  /\ made = 0
  /\ opening = [p \in Process |-> "no"]
  /\ sid = [p \in Process |-> NoQueue]
  /\ rid = [p \in Process |-> NoQueue]
  /\ writer = [p \in Process |-> <<>>]
  /\ life = [p \in Process |-> 0]
  /\ inits = 0
  /\ texts = <<>>
  /\ day = 0
  /\ file = [d \in Days |-> <<>>]
  /\ latest = {}
  /\ died = FALSE
  /\ crowd = FALSE

Exists(q) == q \in DOMAIN queue

\* msgget with IPC_CREAT: the key's queue, which is new if there was none.
GetQueue(p) ==
  /\ made' = IF DOMAIN queue = {} THEN made + 1 ELSE made
  /\ queue' = IF DOMAIN queue = {} THEN [q \in {made + 1} |-> <<>>] ELSE queue
  /\ sid' = [sid EXCEPT ![p] = made']

\* init_log first removes the files of the days before the last AliveDays. The
\* border is local midnight, but read as UTC; the file on it goes as well.
InitLog(p) ==
  /\ opening[p] = "no"
  /\ inits < MaxInits /\ made < MaxQueues
  /\ inits' = inits + 1
  /\ life' = [life EXCEPT ![p] = inits + 1]
  /\ file' = [d \in Days |-> IF d <= day - AliveDays - East THEN <<>> ELSE file[d]]
  /\ opening' = [opening EXCEPT ![p] = "get"]
  /\ UNCHANGED <<queue, made, sid, rid, writer, texts, day, latest, died, crowd>>

OpenGet(p) ==
  /\ opening[p] = "get"
  /\ GetQueue(p)
  /\ opening' = [opening EXCEPT ![p] = "remove"]
  /\ UNCHANGED <<rid, writer, life, inits, logVars, latest, died, crowd>>

\* IPC_RMID: the queue goes with all it holds, and whoever waits for it gets an
\* error. It may be gone already; the result is not looked at.
OpenRemove(p) ==
  /\ opening[p] = "remove"
  /\ queue' = [q \in DOMAIN queue \ {sid[p]} |-> queue[q]]
  /\ opening' = [opening EXCEPT ![p] = "again"]
  /\ UNCHANGED <<made, sid, rid, writer, life, inits, logVars, latest, died, crowd>>

\* Mutant: the queue is taken for the one it was before.
Reopened_old(p) == UNCHANGED <<queue, made, sid>>

Reopened(p) == GetQueue(p)

\* The queue is opened again, under r_msg_id as well, which the writers of an
\* earlier init_log use too; and one more writer starts.
OpenAgain(p) ==
  /\ opening[p] = "again"
  /\ Reopened(p)
  /\ rid' = [rid EXCEPT ![p] = sid'[p]]
  /\ writer' = [writer EXCEPT ![p] = Append(@, 0)]
  /\ opening' = [opening EXCEPT ![p] = "no"]
  /\ latest' = {p}
  /\ crowd' = (crowd \/ Len(writer[p]) > 0
                     \/ \E o \in Process \ {p} : writer[o] # <<>> /\ rid[o] = sid'[p])
  /\ UNCHANGED <<life, inits, logVars, died>>

-----------------------------------------------------------------------------
\* mylog1 once the log is open: IPC_NOWAIT gives up a text that finds the queue
\* full or gone.
Log(p) ==
  /\ sid[p] # NoQueue
  /\ Len(texts) < MaxTexts
  /\ texts' = Append(texts, life[p])
  /\ queue' = IF Exists(sid[p]) /\ Len(queue[sid[p]]) < QueueLimit
              THEN [queue EXCEPT ![sid[p]] = Append(@, Len(texts) + 1)] ELSE queue
  /\ crowd' = (crowd \/ opening[p] # "no")
  /\ UNCHANGED <<made, opening, sid, rid, writer, life, inits, day, file, latest, died>>

\* Mutant: the writer takes the last text.
Receive_last(p, w) ==
  /\ w \in DOMAIN writer[p] /\ writer[p][w] = 0
  /\ Exists(rid[p]) /\ queue[rid[p]] # <<>>
  /\ writer' = [writer EXCEPT ![p][w] = queue[rid[p]][Len(queue[rid[p]])]]
  /\ queue' = [queue EXCEPT ![rid[p]] = SubSeq(@, 1, Len(@) - 1)]
  /\ UNCHANGED <<made, opening, sid, rid, life, inits, logVars, latest, died, crowd>>

\* Writer w of process p takes a text; a queue that is gone is an error, over
\* and over again.
Receive(p, w) ==
  /\ w \in DOMAIN writer[p] /\ writer[p][w] = 0
  /\ Exists(rid[p]) /\ queue[rid[p]] # <<>>
  /\ writer' = [writer EXCEPT ![p][w] = Head(queue[rid[p]])]
  /\ queue' = [queue EXCEPT ![rid[p]] = Tail(@)]
  /\ UNCHANGED <<made, opening, sid, rid, life, inits, logVars, latest, died, crowd>>

\* It goes to the file of the day it is written on, unless that cannot be opened
\* or is too big.
Write(p, w) ==
  /\ w \in DOMAIN writer[p] /\ writer[p][w] # 0
  /\ writer' = [writer EXCEPT ![p][w] = 0]
  /\ \/ /\ Len(file[day]) <= FileLimit
        /\ file' = [file EXCEPT ![day] = Append(@, writer[p][w])]
     \/ UNCHANGED file
  /\ UNCHANGED <<queue, made, opening, sid, rid, life, inits, texts, day, latest, died, crowd>>

\* A process dies with its writers and may start again; the queue stays.
Die(p) ==
  /\ life[p] > 0
  /\ life' = [life EXCEPT ![p] = 0]
  /\ sid' = [sid EXCEPT ![p] = NoQueue]
  /\ rid' = [rid EXCEPT ![p] = NoQueue]
  /\ writer' = [writer EXCEPT ![p] = <<>>]
  /\ opening' = [opening EXCEPT ![p] = "no"]
  /\ died' = (died \/ opening[p] \in {"remove", "again"})
  /\ latest' = latest \ {p}
  /\ UNCHANGED <<queue, made, inits, logVars, crowd>>

Midnight ==
  /\ day < MaxDay
  /\ day' = day + 1
  /\ UNCHANGED <<queue, made, opening, sid, rid, writer, life, inits, texts, file, latest, died, crowd>>

Writing(p) == \E w \in 1..MaxInits : Receive(p, w) \/ Write(p, w)

UtilNext ==
  \/ \E p \in Process :
       \/ InitLog(p) \/ OpenGet(p) \/ OpenRemove(p) \/ OpenAgain(p)
       \/ Log(p) \/ Writing(p) \/ Die(p)
  \/ Midnight

UtilSpec == UtilInit /\ [][UtilNext]_utilVars

-----------------------------------------------------------------------------
\* Place i of the file of day d comes before place j of the file of day e.
Earlier(d, i, e, j) == d < e \/ (d = e /\ i < j)

\* No text comes out twice, and the texts of a process come out in the order in
\* which it logged them, through full queues, midnight, removed queues and
\* restarts, as long as no queue ever had two writers (a second init_log makes a
\* second one, and so does a process that opens its queue between the steps of
\* another one) and no thread logged while another one was in open_msg.
OrderKept ==
  ~crowd =>
    \A d, e \in Days : \A i \in DOMAIN file[d], j \in DOMAIN file[e] :
      Earlier(d, i, e, j) =>
        /\ file[d][i] # file[e][j]
        /\ texts[file[d][i]] = texts[file[e][j]] => file[d][i] < file[e][j]

\* When nobody is inside open_msg, the process that was there last can log:
\* the queue it holds exists, however the steps of the others fell between its
\* own (util_log.c:283-292). All others may be left with a queue that is gone
\* and lose what they log; and everybody is, when a process dies in there.
LatestCanLog ==
  (~died /\ \A p \in Process : opening[p] = "no") =>
    \A p \in latest : Exists(sid[p]) /\ rid[p] = sid[p]
=============================================================================
