------------------------------- MODULE LruMap -------------------------------
(***************************************************************************)
(* The map of base/lru_map.h: the entries _kv, the list of keys _kl with   *)
(* the key used last in front, and the index _ki, which holds the list     *)
(* node of every key. A list node stays valid until it is erased, wherever *)
(* it is moved, so the index is the set of keys that have a node. An       *)
(* iterator handed to erase is one of the map's present entries, or end(). *)
(***************************************************************************)
EXTENDS Integers, FiniteSets, SequencesExt

CONSTANTS
  Key, Value,
  Map,              \* the maps of a program, which swap() exchanges
  Asked,            \* the capacities given to constructors
  DefaultCapacity   \* what capacity 0 stands for

ASSUME LruAssumption ==
  /\ Asked \subseteq Nat
  /\ DefaultCapacity \in Nat \ {0}

VARIABLES
  kv, kl, ki, capacity,   \* per map: _kv, _kl, _ki, _capacity
  found                   \* history: the map and key that find found just now

lruVars == <<kv, kl, ki, capacity, found>>

Nothing == <<>>

LruInit ==
  /\ kv = [m \in Map |-> [k \in {} |-> 0]]
  /\ kl = [m \in Map |-> <<>>]
  /\ ki = [m \in Map |-> {}]
  /\ \E asked \in [Map -> Asked] :
       capacity = [m \in Map |-> IF asked[m] > 0 THEN asked[m] ELSE DefaultCapacity]
  /\ found = Nothing

\* A list without its node of key k.
Unlinked(list, k) == RemoveAt(list, CHOOSE i \in 1..Len(list) : list[i] = k)

\* Mutant: the key found stays where it is in the list.
ToFront_stay(list, k) == list

\* A key that is not in front yet is moved there.
ToFront(list, k) == IF list[1] = k THEN list ELSE <<k>> \o Unlinked(list, k)

\* find of a key that is there; of any other it returns end().
Find(m, k) ==
  /\ k \in DOMAIN kv[m]
  /\ kl' = [kl EXCEPT ![m] = ToFront(@, k)]
  /\ found' = <<m, k>>
  /\ UNCHANGED <<kv, ki, capacity>>

\* insert drops the key at the back from all three.
Evicted(m, map, list, index) ==
  /\ kv' = [kv EXCEPT ![m] = [j \in DOMAIN map \ {Last(list)} |-> map[j]]]
  /\ kl' = [kl EXCEPT ![m] = Front(list)]
  /\ ki' = [ki EXCEPT ![m] = index \ {Last(list)}]

\* insert does nothing with a key that is there, does not even move it.
Insert(m, k, v) ==
  LET map == [j \in DOMAIN kv[m] \cup {k} |-> IF j = k THEN v ELSE kv[m][j]]
      list == <<k>> \o kl[m]
      index == ki[m] \cup {k}
  IN  /\ k \notin DOMAIN kv[m]
      /\ IF Cardinality(DOMAIN map) > capacity[m]
         THEN Evicted(m, map, list, index)
         ELSE /\ kv' = [kv EXCEPT ![m] = map]
              /\ kl' = [kl EXCEPT ![m] = list]
              /\ ki' = [ki EXCEPT ![m] = index]
      /\ found' = Nothing
      /\ UNCHANGED capacity

\* erase, by key or by iterator.
Erase(m, k) ==
  /\ k \in DOMAIN kv[m]
  /\ kl' = [kl EXCEPT ![m] = Unlinked(@, k)]
  /\ ki' = [ki EXCEPT ![m] = @ \ {k}]
  /\ kv' = [kv EXCEPT ![m] = [j \in DOMAIN kv[m] \ {k} |-> kv[m][j]]]
  /\ found' = Nothing
  /\ UNCHANGED capacity

Clear(m) ==
  /\ kv' = [kv EXCEPT ![m] = [k \in {} |-> 0]]
  /\ kl' = [kl EXCEPT ![m] = <<>>]
  /\ ki' = [ki EXCEPT ![m] = {}]
  /\ found' = Nothing
  /\ UNCHANGED capacity

\* swap exchanges the capacities as well.
Swap(m, n) ==
  /\ kv' = [kv EXCEPT ![m] = kv[n], ![n] = kv[m]]
  /\ kl' = [kl EXCEPT ![m] = kl[n], ![n] = kl[m]]
  /\ ki' = [ki EXCEPT ![m] = ki[n], ![n] = ki[m]]
  /\ capacity' = [capacity EXCEPT ![m] = capacity[n], ![n] = capacity[m]]
  /\ found' = Nothing

LruNext ==
  \E m \in Map :
    \/ \E k \in Key : Find(m, k) \/ Erase(m, k) \/ \E v \in Value : Insert(m, k, v)
    \/ Clear(m)
    \/ \E n \in Map : Swap(m, n)

LruSpec == LruInit /\ [][LruNext]_lruVars

-----------------------------------------------------------------------------
\* The order of the list is the order in which the keys were used.
Behind(list) ==
  {<<list[p[2]], list[p[1]]>> : p \in {q \in (1..Len(list)) \X (1..Len(list)) : q[1] < q[2]}}

Cache == INSTANCE LruCache WITH
           store <- kv,
           older <- [m \in Map |-> Behind(kl[m])],
           limit <- capacity,
           hit <- found

\* LruMap implements the cache that evicts the key used longest ago.
ImplementsLru == Cache!Spec
=============================================================================
