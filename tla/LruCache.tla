------------------------------ MODULE LruCache ------------------------------
(***************************************************************************)
(* What a user of LruMap (base/lru_map.h) relies on: a bounded map that,   *)
(* when it is full, gives up the key that was not used for longest. How    *)
(* recently the keys were used is a relation between them.                 *)
(***************************************************************************)
EXTENDS Integers, FiniteSets

CONSTANTS Key, Value, Map

VARIABLES
  store,   \* per map: its entries, a function on its keys
  older,   \* per map: the pairs <<k, l>> where k was not used since l was
  limit,   \* per map: how many entries it may have
  hit      \* the map and key that were found just now, or <<>>

cacheVars == <<store, older, limit, hit>>

Keys(m) == DOMAIN store[m]

Init ==
  /\ store = [m \in Map |-> [k \in {} |-> 0]]
  /\ older = [m \in Map |-> {}]
  /\ limit \in [Map -> Nat \ {0}]
  /\ hit = <<>>

\* The pairs when k is the newest of the keys ks, and when k is gone.
Newest(r, ks, k) == {p \in r : p[1] # k /\ p[2] # k} \cup ((ks \ {k}) \X {k})
Gone(r, k) == {p \in r : p[1] # k /\ p[2] # k}

Touch(m, k) ==
  /\ k \in Keys(m)
  /\ older' = [older EXCEPT ![m] = Newest(@, Keys(m), k)]
  /\ hit' = <<m, k>>
  /\ UNCHANGED <<store, limit>>

\* A new entry, for which the key that is older than all others goes if the
\* map is full.
Put(m, k, v) ==
  /\ k \in Key \ Keys(m)
  /\ \E lost \in SUBSET Keys(m) :
       /\ IF Cardinality(Keys(m)) < limit[m] THEN lost = {}
          ELSE \E l \in Keys(m) : lost = {l} /\ \A j \in Keys(m) \ {l} : <<l, j>> \in older[m]
       /\ LET kept == Keys(m) \ lost
          IN  /\ store' = [store EXCEPT ![m] =
                             [j \in kept \cup {k} |-> IF j = k THEN v ELSE store[m][j]]]
              /\ older' = [older EXCEPT ![m] =
                             Newest({p \in @ : p[1] \in kept /\ p[2] \in kept}, kept, k)]
  /\ hit' = <<>>
  /\ UNCHANGED limit

Drop(m, k) ==
  /\ k \in Keys(m)
  /\ store' = [store EXCEPT ![m] = [j \in Keys(m) \ {k} |-> @[j]]]
  /\ older' = [older EXCEPT ![m] = Gone(@, k)]
  /\ hit' = <<>>
  /\ UNCHANGED limit

Wipe(m) ==
  /\ store' = [store EXCEPT ![m] = [k \in {} |-> 0]]
  /\ older' = [older EXCEPT ![m] = {}]
  /\ hit' = <<>>
  /\ UNCHANGED limit

Exchange(m, n) ==
  /\ store' = [store EXCEPT ![m] = store[n], ![n] = store[m]]
  /\ older' = [older EXCEPT ![m] = older[n], ![n] = older[m]]
  /\ limit' = [limit EXCEPT ![m] = limit[n], ![n] = limit[m]]
  /\ hit' = <<>>

Next ==
  \E m \in Map :
    \/ \E k \in Key : Touch(m, k) \/ Drop(m, k) \/ \E v \in Value : Put(m, k, v)
    \/ Wipe(m)
    \/ \E n \in Map : Exchange(m, n)

Spec == Init /\ [][Next]_cacheVars
=============================================================================
