----------------------------- MODULE TimeoutTask -----------------------------
(***************************************************************************)
(* The timer of util_file/src/util_timeout_task.c: clients add and remove  *)
(* tasks by putting them on the lists pending and removing, the checker    *)
(* thread moves pending tasks to the list living, starts a detached worker *)
(* thread for each and cancels those on the removing list, and a worker    *)
(* calls its callback once per interval until it finds itself cancelled.   *)
(*                                                                         *)
(* The lists are guarded by timer_tasks.lock. A critical section is one    *)
(* step where no other thread can tell; those of the checker and of deinit *)
(* are several, because a worker reads cancel without the lock and frees   *)
(* its info: a task may be gone between the two statements that cancel and *)
(* unlink it. To unlink a freed block is undefined: it goes on as if the   *)
(* links were still there, or the program is broken and takes no further   *)
(* step. init writes running and then update without the lock.             *)
(*                                                                         *)
(* A task's id is the address of its timer_task_info, and the heap may     *)
(* give a freed address to the next task: addresses are the elements of    *)
(* Addr, and the history variables number the tasks to tell them apart.    *)
(* LIST_INSERT_HEAD keeps the lists in an order that nothing depends on:   *)
(* a list is a set. calloc and pthread_create succeed, and nobody is       *)
(* inside the lock when init initialises it again.                         *)
(***************************************************************************)
EXTENDS Naturals

CONSTANTS
  Addr,       \* the heap blocks a timer_task_info can have
  Clients,    \* the threads that call the timer
  Owner,      \* the one that calls init and deinit, in turns
  Callers,    \* those that add and remove tasks
  MaxTasks,   \* bound: how many tasks are added
  MaxInits    \* bound: how many times init is called

ASSUME TimerAssumption ==
  /\ Owner \in Clients
  /\ Callers \subseteq Clients
  /\ MaxTasks \in Nat
  /\ MaxInits \in Nat

VARIABLES
  running, update,            \* timer_tasks.running and .update
  pending, living, removing,  \* the lists
  checker,   \* the checker thread
  cut,       \* the living task that is cancelled and not unlinked yet, if any
  task,      \* per address: the timer_task_info and its worker's locals
  client,    \* per client: the call it is in
  given,     \* history: the ids returned by add and not passed to remove yet
  tasks,     \* history: how many tasks were added
  inits,     \* history: how many times init was called
  missed,    \* history: init reset an update that was meant for the checker
  broken     \* history: the last step was undefined

lists   == <<pending, living, removing>>
flags   == <<running, update, missed>>
history == <<given, tasks, inits>>
timerVars == <<flags, lists, checker, cut, task, client, history, broken>>

\* A worker is asleep in select(), in its callback, or about to put itself on
\* the removing list; "none": no worker.
WorkerPlaces == {"none", "sleep", "call", "post"}

\* valid and waiting are next_valid and waiting_remove. History: over, the
\* callback returned STOP or ran in a one-time task; stray, the task got on the
\* pending list between deinit and init. number 0: a free block.
Block(n, onetime) ==
  [number |-> n, cancel |-> FALSE, onetime |-> onetime, valid |-> TRUE,
   waiting |-> FALSE, over |-> FALSE, stray |-> FALSE, at |-> "none"]

FreeBlock == Block(0, FALSE)

\* A client between two calls, or inside init ("clear": up to line 208, "start":
\* up to 209) or deinit ("cancel": it has the lock, "join").
Inside(op) == [op |-> op, id |-> 0, of |-> 0]
Idle == Inside("idle")

Linked(a) == a \in pending \cup living
BeingCut(a) == \E k \in cut : k.id = a

\* The checker and deinit keep the lock between their steps.
Unlocked == checker # "remove" /\ \A c \in Clients : client[c].op # "cancel"

\* deinit has emptied the lists and init has not yet emptied them again.
Shut == ~running /\ \A c \in Clients : client[c].op # "clear"

\* An entry of the removing list. of (the task that is meant) and late (it
\* was on no list any more) are history.
Entry(a, n) ==
  [id |-> a, of |-> n, late |-> ~(Linked(a) /\ task[a].number = n)]

TimerInit ==
  /\ running = FALSE
  /\ update = FALSE
  /\ pending = {}
  /\ living = {}
  /\ removing = {}
  /\ checker = "off"
  /\ cut = {}
  /\ task = [a \in Addr |-> FreeBlock]
  /\ client = [c \in Clients |-> Idle]
  /\ given = {}
  /\ tasks = 0
  /\ inits = 0
  /\ missed = FALSE
  /\ broken = FALSE

\* Mutant: the checker is not told.
Notify_not == UNCHANGED <<update, missed>>

\* The checker, which waits for update, is told of a change of the lists.
Notify == update' = TRUE /\ missed' = FALSE

\* A client's call goes on, or is over.
Goto(c, op) == client' = [client EXCEPT ![c] = Inside(op)]
Return(c) == Goto(c, "idle")

\* Under the lock: the first of the two statements that end a living task.
Cancel(a) ==
  /\ task' = [task EXCEPT ![a].cancel = TRUE]
  /\ cut' = {[id |-> a, of |-> task[a].number]}

\* The second one, LIST_REMOVE. By now the worker may have freed the block; if
\* calloc has given it to another task besides, its links are zeroes.
Unlink ==
  \E k \in cut :
    \/ /\ task[k.id].number \in {k.of, 0}
       /\ living' = living \ {k.id}
       /\ cut' = {}
       /\ UNCHANGED broken
    \/ /\ task[k.id].number # k.of
       /\ broken' = TRUE
       /\ UNCHANGED <<living, cut>>

-----------------------------------------------------------------------------
\* ipc_timeout_task_init, without the lock: LIST_INIT drops what the lists held,
TaskInit(c) ==
  /\ c = Owner
  /\ client[c] = Idle
  /\ checker = "off"
  /\ inits < MaxInits
  /\ inits' = inits + 1
  /\ pending' = {}
  /\ living' = {}
  /\ removing' = {}
  /\ Goto(c, "clear")
  /\ UNCHANGED <<flags, checker, cut, task, given, tasks, broken>>

\* ... running is set: from here on clients may use the timer,
InitRunning(c) ==
  /\ client[c].op = "clear"
  /\ running' = TRUE
  /\ Goto(c, "start")
  /\ UNCHANGED <<update, missed, lists, checker, cut, task, history, broken>>

\* ... update is reset, with what it stands for, and the thread starts.
InitStart(c) ==
  /\ client[c].op = "start"
  /\ update' = FALSE
  /\ missed' = (pending \cup removing # {})
  /\ checker' = "top"
  /\ Return(c)
  /\ UNCHANGED <<running, lists, cut, task, history, broken>>

\* ipc_timeout_task_deinit takes the lock,
Deinit(c) ==
  /\ c = Owner
  /\ client[c] = Idle
  /\ running
  /\ Unlocked
  /\ Goto(c, "cancel")
  /\ UNCHANGED <<flags, lists, checker, cut, task, history, broken>>

\* ... cancels and unlinks what lives,
DeinitCancel(c) ==
  /\ client[c].op = "cancel"
  /\ cut = {}
  /\ \E a \in living : Cancel(a)
  /\ UNCHANGED <<flags, lists, checker, client, history, broken>>

DeinitUnlink(c) ==
  /\ client[c].op = "cancel"
  /\ Unlink
  /\ UNCHANGED <<flags, pending, removing, checker, task, client, history>>

\* ... frees what is pending, tells the checker and releases the lock.
DeinitFree(c) ==
  /\ client[c].op = "cancel"
  /\ cut = {}
  /\ living = {}
  /\ task' = [a \in Addr |-> IF a \in pending THEN FreeBlock ELSE task[a]]
  /\ pending' = {}
  /\ removing' = {}
  /\ running' = FALSE
  /\ Notify
  /\ Goto(c, "join")
  /\ UNCHANGED <<living, checker, cut, history, broken>>

\* deinit waits for the checker, not for the workers.
DeinitJoin(c) ==
  /\ client[c].op = "join"
  /\ checker = "done"
  /\ checker' = "off"
  /\ Return(c)
  /\ UNCHANGED <<flags, lists, cut, task, history, broken>>

-----------------------------------------------------------------------------
\* task_add looks at running without the lock and fills a new info ...
AddBegin(c) ==
  /\ c \in Callers
  /\ client[c] = Idle
  /\ running
  /\ tasks < MaxTasks
  /\ tasks' = tasks + 1
  /\ \E a \in Addr, onetime \in BOOLEAN :
       /\ task[a].number = 0
       /\ task' = [task EXCEPT ![a] = Block(tasks + 1, onetime)]
       /\ client' = [client EXCEPT ![c] = [op |-> "add", id |-> a, of |-> tasks + 1]]
  /\ UNCHANGED <<flags, lists, checker, cut, given, inits, broken>>

\* ... and puts it on the pending list under the lock, without another look at
\* running.
AddInsert(c) ==
  /\ client[c].op = "add"
  /\ Unlocked
  /\ pending' = pending \cup {client[c].id}
  /\ Notify
  /\ task' = [task EXCEPT ![client[c].id] =
                IF Shut THEN [@ EXCEPT !.stray = TRUE] ELSE @]
  /\ given' = given \cup {[id |-> client[c].id, of |-> client[c].of]}
  /\ Return(c)
  /\ UNCHANGED <<running, living, removing, checker, cut, tasks, inits, broken>>

\* ipc_timeout_task_remove, of an id that add returned, once: the task may
\* have ended by itself, and its block may hold another one by now.
RemoveBegin(c) ==
  /\ c \in Callers
  /\ client[c] = Idle
  /\ running
  /\ \E g \in given :
       /\ given' = given \ {g}
       /\ client' = [client EXCEPT ![c] = [op |-> "remove", id |-> g.id, of |-> g.of]]
  /\ UNCHANGED <<flags, lists, checker, cut, task, tasks, inits, broken>>

\* The entry for the id is put on the removing list under the lock.
RemoveInsert(c) ==
  /\ client[c].op = "remove"
  /\ Unlocked
  /\ removing' = removing \cup {Entry(client[c].id, client[c].of)}
  /\ Notify
  /\ Return(c)
  /\ UNCHANGED <<running, pending, living, checker, cut, task, history, broken>>

-----------------------------------------------------------------------------
\* check_task: while (t->running), without the lock.
CheckTop ==
  /\ checker = "top"
  /\ checker' = IF running THEN "lock" ELSE "done"
  /\ UNCHANGED <<flags, lists, cut, task, client, history, broken>>

\* It waits for update under the lock, moves the pending tasks to the living
\* ones and starts their workers.
CheckPromote ==
  /\ checker = "lock"
  /\ Unlocked
  /\ update
  /\ update' = FALSE
  /\ living' = living \cup pending
  /\ pending' = {}
  /\ task' = [a \in Addr |-> IF a \in pending THEN [task[a] EXCEPT !.at = "sleep"]
                             ELSE task[a]]
  /\ checker' = "remove"
  /\ UNCHANGED <<running, missed, removing, cut, client, history, broken>>

\* Still under the lock it takes the entries off the removing list, one by one,
\* and cancels the living task of that id; an id that no living task has is
\* dropped.
CheckCancel ==
  /\ checker = "remove"
  /\ cut = {}
  /\ \E r \in removing :
       /\ removing' = removing \ {r}
       /\ IF r.id \in living THEN Cancel(r.id) ELSE UNCHANGED <<task, cut>>
  /\ UNCHANGED <<flags, pending, living, checker, client, history, broken>>

CheckUnlink ==
  /\ checker = "remove"
  /\ Unlink
  /\ UNCHANGED <<flags, pending, removing, checker, task, client, history>>

\* Mutant: it deals with one entry at a time.
AllDealt_not == TRUE

AllDealt == removing = {}

\* The lock is released.
CheckDone ==
  /\ checker = "remove"
  /\ cut = {}
  /\ AllDealt
  /\ checker' = "top"
  /\ UNCHANGED <<flags, lists, cut, task, client, history, broken>>

-----------------------------------------------------------------------------
\* Mutants: a worker that is done ends without asking for its removal; a
\* cancelled worker goes on.
Checked_exit(w) ==
  IF w.cancel \/ ~w.valid THEN FreeBlock ELSE [w EXCEPT !.at = "sleep"]
Checked_ignore(w) ==
  [w EXCEPT !.at = IF ~w.valid /\ ~w.waiting THEN "post" ELSE "sleep"]

\* The second look at cancel: a cancelled worker frees its info and ends; one
\* whose task is over asks once for its removal.
Checked(w) ==
  IF w.cancel THEN FreeBlock
  ELSE [w EXCEPT !.at = IF ~w.valid /\ ~w.waiting THEN "post" ELSE "sleep"]

\* timer_process after select(): the callback's turn, or the second look.
WorkerWake(a) ==
  /\ task[a].at = "sleep"
  /\ task' = [task EXCEPT ![a] =
                IF ~@.cancel /\ @.valid THEN [@ EXCEPT !.at = "call"] ELSE Checked(@)]
  /\ UNCHANGED <<flags, lists, checker, cut, client, history, broken>>

\* Mutant: a one-time task is not stopped.
Called_again(w, more) ==
  [w EXCEPT !.valid = more,
            !.over = @ \/ ~more \/ w.onetime]

\* What the callback's answer, CONTINUE or STOP, makes of the worker.
Called(w, more) ==
  [w EXCEPT !.valid = more /\ ~w.onetime,
            !.over = @ \/ ~more \/ w.onetime]

\* The callback returns, and the worker looks at cancel.
WorkerCall(a) ==
  /\ task[a].at = "call"
  /\ \E more \in BOOLEAN : task' = [task EXCEPT ![a] = Checked(Called(@, more))]
  /\ UNCHANGED <<flags, lists, checker, cut, client, history, broken>>

WorkerPost(a) ==
  /\ task[a].at = "post"
  /\ Unlocked
  /\ removing' = removing \cup {Entry(a, task[a].number)}
  /\ Notify
  /\ task' = [task EXCEPT ![a].at = "sleep", ![a].waiting = TRUE]
  /\ UNCHANGED <<running, pending, living, checker, cut, client, history, broken>>

CheckerStep ==
  /\ ~broken
  /\ CheckTop \/ CheckPromote \/ CheckCancel \/ CheckUnlink \/ CheckDone

WorkerStep(a) ==
  /\ ~broken
  /\ WorkerWake(a) \/ WorkerCall(a) \/ WorkerPost(a)

\* What a client does inside a call it has begun.
ClientStep(c) ==
  /\ ~broken
  /\ \/ InitRunning(c) \/ InitStart(c) \/ AddInsert(c) \/ RemoveInsert(c)
     \/ DeinitCancel(c) \/ DeinitUnlink(c) \/ DeinitFree(c) \/ DeinitJoin(c)

ClientCall(c) ==
  /\ ~broken
  /\ TaskInit(c) \/ Deinit(c) \/ AddBegin(c) \/ RemoveBegin(c)

TimerNext ==
  \/ CheckerStep
  \/ \E a \in Addr : WorkerStep(a)
  \/ \E c \in Clients : ClientCall(c) \/ ClientStep(c)

\* Every thread goes on, callbacks return; nobody is obliged to make a call.
TimerFairness ==
  /\ WF_timerVars(CheckerStep)
  /\ \A a \in Addr : WF_timerVars(WorkerStep(a))
  /\ \A c \in Clients : WF_timerVars(ClientStep(c))

TimerSpec == TimerInit /\ [][TimerNext]_timerVars /\ TimerFairness

-----------------------------------------------------------------------------
Info ==
  [number : 0..MaxTasks, cancel : BOOLEAN, onetime : BOOLEAN, valid : BOOLEAN,
   waiting : BOOLEAN, over : BOOLEAN, stray : BOOLEAN, at : WorkerPlaces]

Calls == [op : {"add", "remove"}, id : Addr, of : 1..MaxTasks]
Insides == {Inside(op) : op \in {"idle", "clear", "start", "cancel", "join"}}

TimerTypeOK ==
  /\ running \in BOOLEAN
  /\ update \in BOOLEAN
  /\ pending \subseteq Addr
  /\ living \subseteq Addr
  /\ removing \subseteq [id : Addr, of : 1..MaxTasks, late : BOOLEAN]
  /\ checker \in {"off", "top", "lock", "remove", "done"}
  /\ cut \subseteq [id : Addr, of : 1..MaxTasks]
  /\ task \in [Addr -> Info]
  /\ client \in [Clients -> Insides \cup Calls]
  /\ given \subseteq [id : Addr, of : 1..MaxTasks]
  /\ tasks \in 0..MaxTasks
  /\ inits \in 0..MaxInits
  /\ missed \in BOOLEAN
  /\ broken \in BOOLEAN

\* The lists hold no freed memory: a worker frees its own info without the
\* lock (util_timeout_task.c:108), but only once somebody has cancelled it. The
\* one that is cancelled and about to be unlinked (150-151, 221-222) is the
\* exception. And no worker is lost: one that is on no list is cancelled, except
\* that of a task whose add() raced with deinit(), which looked at running too
\* early.
ListsSound ==
  /\ \A a \in pending : task[a].number # 0 /\ task[a].at = "none" /\ ~task[a].cancel
  /\ \A a \in living : BeingCut(a) \/ (task[a].at # "none" /\ ~task[a].cancel)
  /\ \A a \in Addr : task[a].at # "none" =>
       a \in living \/ task[a].cancel \/ task[a].stray

\* A removal that is posted while its task is on a list cannot hit another
\* task that gets the same address later: outside the lock its task is still
\* listed, however many threads post entries for it, and inside the lock what
\* is listed under its id is its task, or is being unlinked already. Entries
\* posted later can hit another one (the worker's own at line 102 among them).
TimelyRemoveHitsItsTask ==
  \A r \in removing : ~r.late =>
    /\ Unlocked => Linked(r.id)
    /\ Linked(r.id) => BeingCut(r.id) \/ task[r.id].number = r.of

\* A callback that returned STOP, or ran in a one-time task, never runs again,
\* though its worker stays around until the checker has cancelled it.
OverIsFinal == \A a \in Addr : task[a].at = "call" => ~task[a].over

\* No request gets stuck between the threads: a pending task is started and a
\* removal is carried out, unless the timer is shut down first. A request that
\* init has overlooked (util_timeout_task.c:210) waits for the next one.
RequestsHandled ==
  /\ \A a \in Addr :
       (a \in pending) ~> (a \notin pending \/ ~running \/ missed \/ broken)
  /\ (removing # {}) ~> (removing = {} \/ ~running \/ missed \/ broken)

\* A worker whose task is over or was cancelled ends and frees its info, but
\* for the stray one.
WorkersEnd ==
  \A a \in Addr :
    (task[a].at # "none" /\ (task[a].cancel \/ task[a].over))
      ~> (task[a].at = "none" \/ task[a].stray \/ broken)

\* deinit gets its checker to stop wherever that is, blocked in its wait or on
\* the way to it with an old value of running.
DeinitReturns ==
  client[Owner].op \in {"cancel", "join"} ~> (client[Owner] = Idle \/ broken)
=============================================================================
