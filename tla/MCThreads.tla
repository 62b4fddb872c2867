----------------------------- MODULE MCThreads ------------------------------
(***************************************************************************)
(* The four components whose threads or processes share a lock and have    *)
(* nothing else to do with each other, checked in one run: the event, the  *)
(* speech queue, the ring in shared memory and the log categories. The     *)
(* first state chooses one of them; the others stay in their initial       *)
(* states, in which nobody has begun a call and no fairness obliges them.  *)
(***************************************************************************)
EXTENDS SyncEvent, AoutQueue, SharedBuffer, GhLog

VARIABLE part

ThreadsInit ==
  /\ part \in {"event", "queue", "buffer", "categories"}
  /\ EventInit /\ (part # "event" => ~signaled)
  /\ QueueInit
  /\ BufferInit
  /\ LogInit

ThreadsNext ==
  \/ part = "event" /\ EventNext /\ UNCHANGED <<part, queueVars, bufferVars, catVars>>
  \/ part = "queue" /\ QueueNext /\ UNCHANGED <<part, eventVars, bufferVars, catVars>>
  \/ part = "buffer" /\ BufferNext /\ UNCHANGED <<part, eventVars, queueVars, catVars>>
  \/ part = "categories" /\ LogNext /\ UNCHANGED <<part, eventVars, queueVars, bufferVars>>

ThreadsSpec ==
  /\ ThreadsInit
  /\ [][ThreadsNext]_<<part, eventVars, queueVars, bufferVars, catVars>>
  /\ QueueFairness
  /\ BufferFairness
  /\ LogFairness
=============================================================================
