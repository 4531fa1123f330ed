------------------------------ MODULE LruCache ------------------------------
(***************************************************************************)
(* The bounded least-recently-used map of the `lru` crate, as eleel uses   *)
(* it for every one of its caches (external code, modelled from its use).  *)
(*                                                                         *)
(* A cache is a function from the keys it holds to records [val, rank];    *)
(* rank 1 is the most recently used key and the ranks of the n keys held   *)
(* are exactly 1..n, so a key whose rank would exceed the capacity is the  *)
(* one the crate evicts.                                                   *)
(***************************************************************************)
EXTENDS Naturals, FiniteSets

LruEmpty == [k \in {} |-> [val |-> k, rank |-> 1]]

LruContains(c, k) == k \in DOMAIN c

\* The rank of key j after key k has moved (or been inserted) to the front.
LruRankAfterUse(c, k, j) ==
    IF j = k THEN 1
    ELSE IF k \in DOMAIN c /\ c[j].rank > c[k].rank
         THEN c[j].rank ELSE c[j].rank + 1

\* get and get_mut on a key that is present: move it to the front.
LruTouch(c, k) ==
    [j \in DOMAIN c |-> [val |-> c[j].val, rank |-> LruRankAfterUse(c, k, j)]]

\* A get that may miss; a miss changes nothing.
LruGet(c, k) == IF k \in DOMAIN c THEN LruTouch(c, k) ELSE c

\* put: replace or insert at the front, evicting the last key of a full cache.
LruPut(c, cap, k, v) ==
    [j \in {i \in DOMAIN c \cup {k} : LruRankAfterUse(c, k, i) <= cap} |->
        [val  |-> IF j = k THEN v ELSE c[j].val,
         rank |-> LruRankAfterUse(c, k, j)]]

\* get_or_insert: an existing entry is moved to the front and keeps its value.
LruGetOrInsert(c, cap, k, v) ==
    IF k \in DOMAIN c THEN LruTouch(c, k) ELSE LruPut(c, cap, k, v)

\* The first of the keys S in iteration order (most recently used first).
LruFirst(c, S) ==
    CHOOSE k \in S \cap DOMAIN c :
        \A j \in S \cap DOMAIN c : c[k].rank <= c[j].rank

\* c is a well-formed cache of at most cap keys from K with values from V.
IsLru(c, cap, K, V) ==
    /\ DOMAIN c \subseteq K
    /\ c \in [DOMAIN c -> [val : V, rank : 1 .. cap]]
    /\ \A j, k \in DOMAIN c : c[j].rank = c[k].rank => j = k
    /\ \A k \in DOMAIN c : \A r \in 1 .. c[k].rank :
          \E j \in DOMAIN c : c[j].rank = r
=============================================================================
