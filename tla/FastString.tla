----------------------------- MODULE FastString -----------------------------
(***************************************************************************)
(* The strings of base/fastring.h: a handle points to a block of memory    *)
(* that holds the characters and an atomic count of the handles that share *)
(* it. A change in place shows in all of them; only one that needs more    *)
(* room gets the handle a block of its own (_Reserve in fastring.cc). So   *)
(* every change is one that may give a share back, and threads that share  *)
(* a block meet there.                                                     *)
(*                                                                         *)
(* What a thread does to a count and to its own handles is one step; a     *)
(* growth, which looks at the count, gives its share back and then copies  *)
(* the old characters, is three. Characters are left out, and realloc of a *)
(* block that is not shared is the same block.                             *)
(***************************************************************************)
EXTENDS Integers, FiniteSets

CONSTANTS Handle, Thread, Block, None

ASSUME StringAssumption ==
  /\ None \notin Block \cup Handle
  /\ IsFiniteSet(Handle)

VARIABLES
  of,       \* per handle: _p
  owner,    \* per handle: the thread whose variable it is
  refn,     \* per block: the count
  live,     \* the blocks that are allocated
  grow,     \* per thread: the handle it makes grow
  gave,     \* per thread: it has given its share of the old block back
  misread,  \* a growth copied from a block that was freed
  raced     \* history: a share was given back while another thread made the
            \* same block grow

strVars == <<of, owner, refn, live, grow, gave, misread, raced>>

StrInit ==
  /\ of = [h \in Handle |-> None]
  /\ owner \in [Handle -> Thread]
  /\ refn = [b \in Block |-> 0]
  /\ live = {}
  /\ grow = [t \in Thread |-> None]
  /\ gave = [t \in Thread |-> FALSE]
  /\ misread = FALSE
  /\ raced = FALSE

\* A handle its thread is free to use.
Own(h) == grow[owner[h]] = None

\* Thread t gives back a share of block b while another one copies from it.
Race(t, b) == \E u \in Thread \ {t} : grow[u] # None /\ of[grow[u]] = b

\* A new block for handle h.
Fresh(h) ==
  \E b \in Block \ live :
    /\ of' = [of EXCEPT ![h] = b]
    /\ refn' = [refn EXCEPT ![b] = 1]
    /\ live' = live \cup {b}

\* The constructors and reserve of an empty handle.
Construct(h) ==
  /\ Own(h) /\ of[h] = None
  /\ Fresh(h)
  /\ UNCHANGED <<owner, grow, gave, misread, raced>>

\* Mutant: the copy does not count.
Counted_not(count, b) == count

\* The count after a copy.
Counted(count, b) == IF b = None THEN count ELSE [count EXCEPT ![b] = @ + 1]

\* The share of h is given back, and the block freed with the last one, before
\* h gets block b: what the destructor and both assignments begin with.
GiveBack(h, b, keeps) ==
  LET a == of[h]
      rest == IF a = None THEN refn ELSE [refn EXCEPT ![a] = @ - 1]
  IN  /\ refn' = IF keeps THEN Counted(rest, b) ELSE rest
      /\ live' = IF a # None /\ rest[a] = 0 THEN live \ {a} ELSE live
      /\ raced' = (raced \/ (a # None /\ Race(owner[h], a)))

\* Copy construction and copy assignment.
Assign(h, g) ==
  /\ Own(h) /\ owner[g] = owner[h] /\ h # g
  /\ GiveBack(h, of[g], TRUE)
  /\ of' = [of EXCEPT ![h] = of[g]]
  /\ UNCHANGED <<owner, grow, gave, misread>>

\* Move assignment, to itself as well.
Move(h, g) ==
  /\ Own(h) /\ owner[g] = owner[h]
  /\ GiveBack(h, of[g], FALSE)
  /\ of' = [of EXCEPT ![h] = of[g], ![g] = None]
  /\ UNCHANGED <<owner, grow, gave, misread>>

Destruct(h) ==
  /\ Own(h) /\ of[h] # None
  /\ GiveBack(h, None, FALSE)
  /\ of' = [of EXCEPT ![h] = None]
  /\ UNCHANGED <<owner, grow, gave, misread>>

\* A string is handed to another thread, under some lock of the program.
HandOver(h, t) ==
  /\ Own(h) /\ t # owner[h]
  /\ owner' = [owner EXCEPT ![h] = t]
  /\ UNCHANGED <<of, refn, live, grow, gave, misread, raced>>

-----------------------------------------------------------------------------
\* _Reserve finds too little room and the block shared: refn is not 1.
GrowLook(h) ==
  /\ Own(h) /\ of[h] # None
  /\ refn[of[h]] # 1
  /\ grow' = [grow EXCEPT ![owner[h]] = h]
  /\ UNCHANGED <<of, owner, refn, live, gave, misread, raced>>

\* The share is given back; whether it was the last one is not looked at.
GrowGive(t) ==
  /\ grow[t] # None /\ ~gave[t]
  /\ refn' = [refn EXCEPT ![of[grow[t]]] = @ - 1]
  /\ gave' = [gave EXCEPT ![t] = TRUE]
  /\ raced' = (raced \/ Race(t, of[grow[t]]))
  /\ UNCHANGED <<of, owner, live, grow, misread>>

\* A new block gets the characters of the old one.
GrowCopy(t) ==
  /\ grow[t] # None /\ gave[t]
  /\ misread' = (misread \/ of[grow[t]] \notin live)
  /\ Fresh(grow[t])
  /\ grow' = [grow EXCEPT ![t] = None]
  /\ gave' = [gave EXCEPT ![t] = FALSE]
  /\ UNCHANGED <<owner, raced>>

StrNext ==
  \/ \E h \in Handle :
       \/ Construct(h) \/ Destruct(h) \/ GrowLook(h)
       \/ \E g \in Handle : Assign(h, g) \/ Move(h, g)
       \/ \E t \in Thread : HandOver(h, t)
  \/ \E t \in Thread : GrowGive(t) \/ GrowCopy(t)

StrSpec == StrInit /\ [][StrNext]_strVars

-----------------------------------------------------------------------------
\* The handles that have a share of b.
Sharers(b) == {h \in Handle : of[h] = b /\ ~(grow[owner[h]] = h /\ gave[owner[h]])}

\* A block is freed with its last share and not before, a growth copies what is
\* still there, and no block is left over: counting alone is enough, as long as
\* nobody gives back a share of a block that another thread makes grow between
\* its look at the count and its copy (fastring.cc:248-256). That is the one
\* window; sharing a block between threads, with all else they do, is safe.
SharesSound ==
  ~raced =>
    /\ ~misread
    /\ \A b \in live : refn[b] = Cardinality(Sharers(b)) /\ refn[b] > 0
    /\ \A h \in Handle : of[h] # None => of[h] \in live
=============================================================================
