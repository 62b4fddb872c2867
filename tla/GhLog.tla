-------------------------------- MODULE GhLog --------------------------------
(***************************************************************************)
(* Log categories of gh_log/src/gh_log.c. A category is a static record;   *)
(* its first message links it into a global list and gives it the levels   *)
(* of the current settings. Setting a string replaces the log or the trace *)
(* setting and refreshes both levels of every category on the list.        *)
(*                                                                         *)
(* A setting is what its patterns make of it, a level per category. The    *)
(* code tests a category's level, tests whether it is linked and reads the *)
(* old setting without the lock; each of these is a step apart from the    *)
(* locked part that follows. Of a message only the linking is kept, and so *)
(* one step is enough for the locked part of it.                           *)
(***************************************************************************)
EXTENDS Naturals

CONSTANTS
  Threads,
  Cats,        \* categories made by AML_LOG_DEFINE
  Default,     \* AML_LOG_DEFAULT, on the list from the start
  Null,
  MaxLevel,    \* bound: levels of settings
  MaxSet       \* bound: settings made

Kinds == {"log", "trace"}
Listable == Cats \cup {Default}
Levels == 0..MaxLevel
Invalid == MaxLevel + 1     \* AML_LOG_LEVEL_INVALID
Last == "AML_LOG_LAST"      \* the sentinel; it has no name and no levels

ASSUME LogAssumption ==
  /\ Default \notin Cats
  /\ Last \notin Listable
  /\ Null \notin Listable \cup {Last} \cup Threads
  /\ MaxLevel \in Nat
  /\ MaxSet \in Nat

VARIABLES
  setting,     \* per kind: what get_log_level and get_trace_level return
  chain,       \* per kind: the number of the setting; 0 is the empty one
  sets,        \* settings made
  catList,     \* g_aml_log_cat_list
  next,        \* per category: cat->next
  level,       \* per category and kind: log_level, trace_level
  lock,        \* who holds g_aml_log_lock, or Null
  at, cat,     \* per thread: where it is, and the category at hand
  order,       \* per thread: the kind and the setting it is about to make,
               \* and the chain it will free
  doubled,     \* a category was linked a second time
  freedTwice   \* a chain was freed a second time: undefined behaviour

settingVars == <<setting, chain, sets>>
listVars == <<catList, next>>
catVars == <<settingVars, listVars, level, lock, at, cat, order, doubled,
             freedTwice>>

\* What a thread remembers of a setting, and of a category, is forgotten when it
\* has no more use for it.
NoOrder == [kind |-> "log", to |-> [c \in Listable |-> 0], old |-> 0]

LogInit ==
  /\ setting = [k \in Kinds |-> [c \in Listable |-> 0]]
  /\ chain = [k \in Kinds |-> 0]
  /\ sets = 0
  /\ catList = Default
  /\ next = [c \in Listable |-> IF c = Default THEN Last ELSE Null]
  /\ level = [c \in Listable |->
                [k \in Kinds |-> IF c = Default THEN 0 ELSE Invalid]]
  /\ lock = Null
  /\ at = [t \in Threads |-> "idle"]
  /\ cat = [t \in Threads |-> Default]
  /\ order = [t \in Threads |-> NoOrder]
  /\ doubled = FALSE
  /\ freedTwice = FALSE

GoOn(t, where) == at' = [at EXCEPT ![t] = where]

Return(t) == GoOn(t, "idle") /\ cat' = [cat EXCEPT ![t] = Default]

Current(c) == [k \in Kinds |-> setting[k][c]]

-----------------------------------------------------------------------------
\* The macros: a message that the level of its category lets through. Level 0
\* is the lowest, so some message passes when the level is above 0.
Message(t, c) ==
  /\ at[t] = "idle"
  /\ \E k \in Kinds : level[c][k] > 0
  /\ cat' = [cat EXCEPT ![t] = c]
  /\ GoOn(t, "test")
  /\ UNCHANGED <<settingVars, listVars, level, lock, order, doubled, freedTwice>>

\* cat->next == NULL: the category has to be linked.
Test(t) ==
  /\ at[t] = "test"
  /\ IF next[cat[t]] = Null THEN GoOn(t, "link") /\ UNCHANGED cat ELSE Return(t)
  /\ UNCHANGED <<settingVars, listVars, level, lock, order, doubled, freedTwice>>

\* Mutant: the head is moved before the category gets its successor.
LinkInFront_swapped(c) == catList' = c /\ next' = [next EXCEPT ![c] = c]

LinkInFront(c) == catList' = c /\ next' = [next EXCEPT ![c] = catList]

\* Under the lock: link the category, without another test, and set its levels.
Link(t) ==
  /\ at[t] = "link"
  /\ lock = Null
  /\ LinkInFront(cat[t])
  /\ level' = [level EXCEPT ![cat[t]] = Current(cat[t])]
  /\ doubled' = (doubled \/ next[cat[t]] # Null)
  /\ Return(t)
  /\ UNCHANGED <<settingVars, lock, order, freedTwice>>

-----------------------------------------------------------------------------
\* get_setting_from_string: parse, and read the old chain without the lock.
Set(t, k, to) ==
  /\ at[t] = "idle"
  /\ sets < MaxSet
  /\ sets' = sets + 1
  /\ order' = [order EXCEPT ![t] = [kind |-> k, to |-> to, old |-> chain[k]]]
  /\ GoOn(t, "set")
  /\ UNCHANGED <<setting, chain, listVars, level, lock, cat, doubled, freedTwice>>

\* Mutant: the refresh leaves out the first category of the list.
RefreshFrom_second == next[catList]

RefreshFrom == catList

\* Take the lock, free the chain that was read before and put the new one in.
\* Chains are numbered per kind; there is nothing to free of the empty one.
Replace(t) ==
  /\ at[t] = "set"
  /\ lock = Null
  /\ lock' = t
  /\ LET k == order[t].kind
     IN  /\ freedTwice' = (order[t].old # chain[k] /\ order[t].old # 0)
         /\ setting' = [setting EXCEPT ![k] = order[t].to]
         /\ chain' = [chain EXCEPT ![k] = @ + 1]
  /\ cat' = [cat EXCEPT ![t] = RefreshFrom]
  /\ GoOn(t, "refresh")
  /\ order' = [order EXCEPT ![t] = NoOrder]
  /\ UNCHANGED <<sets, listVars, level, doubled>>

\* One turn of the refresh loop; at its end the lock is given back.
Refresh(t) ==
  /\ at[t] = "refresh"
  /\ IF cat[t] = Last
       THEN /\ lock' = Null
            /\ Return(t)
            /\ UNCHANGED level
       ELSE /\ level' = [level EXCEPT ![cat[t]] = Current(cat[t])]
            /\ cat' = [cat EXCEPT ![t] = next[cat[t]]]
            /\ UNCHANGED <<lock, at>>
  /\ UNCHANGED <<settingVars, listVars, order, doubled, freedTwice>>

ThreadStep(t) == Test(t) \/ Link(t) \/ Replace(t) \/ Refresh(t)

\* Nothing is said of the program once it has freed memory twice.
LogNext ==
  /\ ~freedTwice
  /\ \E t \in Threads :
       \/ ThreadStep(t)
       \/ \E c \in Listable : Message(t, c)
       \/ \E k \in Kinds, to \in [Listable -> Levels] : Set(t, k, to)

\* A thread goes on, and the mutex is not withheld from it for ever.
LogFairness == \A t \in Threads : SF_catVars(~freedTwice /\ ThreadStep(t))

LogSpec == LogInit /\ [][LogNext]_catVars /\ LogFairness

-----------------------------------------------------------------------------
Linked == {c \in Listable : next[c] # Null}

\* What the list leads to: the least set with its head and, with a category, the
\* one after it.
Closed(R) == \A c \in R \ {Last} : next[c] \in R

Reached ==
  {c \in Listable \cup {Last} :
     \A R \in SUBSET (Listable \cup {Last}) : Closed(R) /\ catList \in R => c \in R}

\* Whenever the lock is free every linked category has the levels of the
\* current settings (gh_log.c:99-105, 133-138): one that is linked while a
\* setting is under way is not forgotten between the old and the new one.
\* It holds even for lists that a second linking has broken: the refresh of
\* such a list never gives the lock back.
LevelsCurrent ==
  lock = Null => \A c \in Linked : level[c] = Current(c)

\* The list leads to every linked category and to its end, and so it passes each
\* of them once (gh_log.c:134), unless two threads have linked the same category.
ListIntact == ~doubled => Reached = Linked \cup {Last}

\* A setting is made and its caller returns (gh_log.c:91-106), unless two
\* threads have linked the same category, which closes the list to a ring, or
\* two settings of one kind have freed the same chain.
SetReturns ==
  \A t \in Threads :
    (at[t] = "set") ~> (at[t] = "idle" \/ doubled \/ freedTwice)
=============================================================================
