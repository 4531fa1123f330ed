--------------------------- MODULE LruCacheProofs ---------------------------
(***************************************************************************)
(* What the operations of LruCache preserve, for every key, value and      *)
(* capacity.                                                               *)
(***************************************************************************)
EXTENDS LruCache, FiniteSetTheorems, WellFoundedInduction, TLAPS

\* A set of naturals that is not empty has a least element.
LEMMA LeastNatural ==
    ASSUME NEW S, S \subseteq Nat, S # {}
    PROVE  \E n \in S : \A m \in S : n <= m
<1> DEFINE R == OpToRel(<, Nat)
<1>1. IsWellFoundedOn(R, Nat)
  BY NatLessThanWellFounded
<1> HIDE DEF R
<1>2. PICK n \in S : \A m \in S : ~(<<m, n>> \in R)
  BY <1>1, WFMin, Zenon
<1>3. ASSUME NEW m \in S, ~(n <= m)
      PROVE  FALSE
  <2>1. <<m, n>> \in {ss \in Nat \X Nat : ss[1] < ss[2]}
    BY <1>3
  <2>2. <<m, n>> \in R
    BY <2>1 DEF R, OpToRel
  <2> QED
    BY <1>2, <2>2
<1> QED
  BY <1>3

\* LruFirst finds a key whenever one of S is cached.
LEMMA LruFirstIsCached ==
    ASSUME NEW c, NEW cap, NEW K, NEW V, NEW S,
           IsLru(c, cap, K, V), cap \in Nat, S \cap DOMAIN c # {}
    PROVE  LruFirst(c, S) \in S \cap DOMAIN c
<1> DEFINE T == S \cap DOMAIN c
           R == {c[k].rank : k \in T}
<1>1. \A k \in DOMAIN c : c[k].rank \in Nat
  BY DEF IsLru
<1>2. R \subseteq Nat /\ R # {}
  BY <1>1
<1> HIDE DEF R
<1>3. PICK n \in R : \A m \in R : n <= m
  BY <1>2, LeastNatural
<1>4. PICK k \in T : n = c[k].rank
  BY <1>3 DEF R
<1>5. \A j \in T : c[j].rank \in R
  BY DEF R
<1>6. \A j \in T : c[k].rank <= c[j].rank
  BY <1>3, <1>4, <1>5
<1> QED
  BY <1>4, <1>6 DEF LruFirst

\* The entries of a cache are finitely many: one of them is the greatest.
LEMMA LruGreatest ==
    ASSUME NEW c, NEW cap \in Nat, NEW K, NEW V, NEW f,
           IsLru(c, cap, K, V), DOMAIN c # {},
           \A k \in DOMAIN c : f[k] \in Nat
    PROVE  \E m \in DOMAIN c : \A k \in DOMAIN c : f[k] <= f[m]
<1> DEFINE UpTo(n) == \E m \in DOMAIN c : \A k \in DOMAIN c :
                         c[k].rank <= n => f[k] <= f[m]
           Bad == {n \in Nat : ~UpTo(n)}
<1>1. \A k \in DOMAIN c : c[k].rank \in 1 .. cap
  BY DEF IsLru
<1>2. \A j, k \in DOMAIN c : c[j].rank = c[k].rank => j = k
  BY DEF IsLru
<1>3. Bad = {}
  <2> SUFFICES ASSUME Bad # {} PROVE FALSE
    OBVIOUS
  <2>1. Bad \subseteq Nat
    OBVIOUS
  <2>2. PICK n \in Bad : \A m \in Bad : n <= m
    BY <2>1, LeastNatural
  <2>3. n \in Nat /\ ~UpTo(n) /\ \A m \in Nat : m < n => UpTo(m)
    BY <2>2
  <2> HIDE DEF Bad
  <2>4. DOMAIN c # {} /\ \A k \in DOMAIN c : ~(c[k].rank <= 0)
    BY <1>1
  <2>5. n # 0
    BY <2>3, <2>4
  <2> HIDE DEF UpTo
  <2>6. n - 1 \in Nat /\ UpTo(n - 1)
    BY <2>3, <2>5
  <2>7. PICK m \in DOMAIN c : \A k \in DOMAIN c :
           c[k].rank <= n - 1 => f[k] <= f[m]
    BY <2>6 DEF UpTo
  <2>8. CASE \E j \in DOMAIN c : c[j].rank = n
    <3>1. PICK j \in DOMAIN c : c[j].rank = n
      BY <2>8
    <3>2. \A k \in DOMAIN c : c[k].rank <= n => c[k].rank <= n - 1 \/ k = j
      BY <1>1, <1>2, <2>3, <3>1
    <3>3. CASE f[j] <= f[m]
      BY <2>3, <2>7, <3>2, <3>3 DEF UpTo
    <3>4. CASE f[m] <= f[j]
      <4>1. \A k \in DOMAIN c : c[k].rank <= n => f[k] <= f[j]
        BY <2>7, <3>2, <3>4
      <4> QED
        BY <2>3, <4>1 DEF UpTo
    <3> QED
      BY <3>3, <3>4
  <2>9. CASE \A j \in DOMAIN c : c[j].rank # n
    <3>1. \A k \in DOMAIN c : c[k].rank <= n => c[k].rank <= n - 1
      BY <1>1, <2>3, <2>9
    <3> QED
      BY <2>3, <2>7, <3>1 DEF UpTo
  <2> QED
    BY <2>8, <2>9
<1>4. UpTo(cap)
  BY <1>3
<1> QED
  BY <1>1, <1>4

LEMMA LruEmptyIsLru ==
    ASSUME NEW cap, NEW K, NEW V
    PROVE  IsLru(LruEmpty, cap, K, V)
BY DEF IsLru, LruEmpty

\* get and get_mut keep a cache a cache.
LEMMA LruTouchIsLru ==
    ASSUME NEW c, NEW cap \in Nat, NEW K, NEW V, NEW k \in DOMAIN c,
           IsLru(c, cap, K, V)
    PROVE  /\ IsLru(LruTouch(c, k), cap, K, V)
           /\ DOMAIN LruTouch(c, k) = DOMAIN c
           /\ \A j \in DOMAIN c : LruTouch(c, k)[j].val = c[j].val
<1> DEFINE d == LruTouch(c, k)
           new(j) == LruRankAfterUse(c, k, j)
<1>1. /\ DOMAIN d = DOMAIN c
      /\ \A j \in DOMAIN c : d[j] = [val |-> c[j].val, rank |-> new(j)]
  BY DEF LruTouch
<1>2. \A j \in DOMAIN c : c[j].val \in V /\ c[j].rank \in 1 .. cap
  BY DEF IsLru
<1>3. /\ new(k) = 1
      /\ \A j \in DOMAIN c \ {k} :
            /\ c[j].rank > c[k].rank => new(j) = c[j].rank
            /\ c[j].rank < c[k].rank => new(j) = c[j].rank + 1
            /\ c[j].rank # c[k].rank
  BY <1>2 DEF LruRankAfterUse, IsLru
<1> HIDE DEF new
<1>4. \A j \in DOMAIN c : new(j) \in 1 .. cap
  BY <1>2, <1>3
<1>5. d \in [DOMAIN d -> [val : V, rank : 1 .. cap]]
  BY <1>1, <1>2, <1>4 DEF LruTouch, new
<1>6. \A i, j \in DOMAIN c : new(i) = new(j) => i = j
  BY <1>2, <1>3 DEF IsLru
<1>7. ASSUME NEW j \in DOMAIN c, NEW r \in 1 .. new(j)
      PROVE  \E i \in DOMAIN c : new(i) = r
  <2>1. CASE r = 1
    BY <1>3, <2>1
  <2>2. CASE r > 1 /\ r <= c[k].rank
    <3>1. r - 1 \in 1 .. c[k].rank
      BY <1>2, <1>4, <1>7, <2>2
    <3>2. PICK i \in DOMAIN c : c[i].rank = r - 1
      BY <3>1 DEF IsLru
    <3> QED
      BY <1>2, <1>3, <3>2, <2>2, <1>4, <1>7
  <2>3. CASE r > c[k].rank
    <3>1. r \in 1 .. c[j].rank
      BY <1>2, <1>3, <1>4, <1>7, <2>3
    <3>2. PICK i \in DOMAIN c : c[i].rank = r
      BY <3>1 DEF IsLru
    <3> QED
      BY <1>2, <1>3, <3>2, <2>3
  <2> QED
    BY <1>2, <1>4, <1>7, <2>1, <2>2, <2>3
<1> HIDE DEF d
<1>8. \A i, j \in DOMAIN d : d[i].rank = d[j].rank => i = j
  BY <1>1, <1>6
<1>9. \A j \in DOMAIN d : \A r \in 1 .. d[j].rank :
         \E i \in DOMAIN d : d[i].rank = r
  BY <1>1, <1>7
<1>10. IsLru(d, cap, K, V)
  BY <1>1, <1>5, <1>8, <1>9 DEF IsLru
<1> QED
  BY <1>1, <1>10 DEF d

\* put keeps a cache a cache, stores the value and only drops other keys.
LEMMA LruPutIsLru ==
    ASSUME NEW c, NEW cap \in Nat \ {0}, NEW K, NEW V, NEW k \in K,
           NEW v \in V, IsLru(c, cap, K, V)
    PROVE  /\ IsLru(LruPut(c, cap, k, v), cap, K, V)
           /\ DOMAIN LruPut(c, cap, k, v) \subseteq DOMAIN c \cup {k}
           /\ k \in DOMAIN LruPut(c, cap, k, v)
           /\ LruPut(c, cap, k, v)[k].val = v
           /\ \A j \in DOMAIN LruPut(c, cap, k, v) \ {k} :
                 LruPut(c, cap, k, v)[j].val = c[j].val
<1> DEFINE d == LruPut(c, cap, k, v)
           new(j) == LruRankAfterUse(c, k, j)
           D == {i \in DOMAIN c \cup {k} : new(i) <= cap}
<1>1. /\ DOMAIN d = D
      /\ \A j \in D : d[j] = [val  |-> IF j = k THEN v ELSE c[j].val,
                              rank |-> new(j)]
  BY DEF LruPut
<1>2. \A j \in DOMAIN c : c[j].val \in V /\ c[j].rank \in 1 .. cap
  BY DEF IsLru
<1>3. /\ new(k) = 1
      /\ k \in DOMAIN c =>
            \A j \in DOMAIN c \ {k} :
               /\ c[j].rank > c[k].rank => new(j) = c[j].rank
               /\ c[j].rank < c[k].rank => new(j) = c[j].rank + 1
               /\ c[j].rank # c[k].rank
      /\ k \notin DOMAIN c => \A j \in DOMAIN c : new(j) = c[j].rank + 1
  BY <1>2 DEF LruRankAfterUse, IsLru
<1> HIDE DEF new
<1>4. \A j \in D : new(j) \in 1 .. cap
  BY <1>2, <1>3
<1>5. k \in D
  BY <1>3
<1>6. d \in [DOMAIN d -> [val : V, rank : 1 .. cap]]
  BY <1>1, <1>2, <1>4 DEF LruPut, new
<1>7. \A i, j \in D : new(i) = new(j) => i = j
  BY <1>2, <1>3 DEF IsLru
<1>8. ASSUME NEW j \in D, NEW r \in 1 .. new(j)
      PROVE  \E i \in D : new(i) = r
  <2>0. r \in 1 .. cap
    BY <1>4, <1>8
  <2>1. CASE r = 1
    BY <1>3, <1>5, <2>1
  <2>2. CASE r > 1 /\ (k \in DOMAIN c => r <= c[k].rank)
    <3>1. \E m \in DOMAIN c : r - 1 \in 1 .. c[m].rank
      BY <1>2, <1>3, <1>4, <1>8, <2>2, <2>0
    <3>2. PICK i \in DOMAIN c : c[i].rank = r - 1
      BY <3>1 DEF IsLru
    <3>3. new(i) = r
      BY <1>2, <1>3, <3>2, <2>2, <2>0
    <3> QED
      BY <2>0, <3>3
  <2>3. CASE k \in DOMAIN c /\ r > c[k].rank
    <3>1. j \in DOMAIN c /\ r \in 1 .. c[j].rank
      BY <1>2, <1>3, <1>4, <1>8, <2>3, <2>0
    <3>2. PICK i \in DOMAIN c : c[i].rank = r
      BY <3>1 DEF IsLru
    <3>3. new(i) = r
      BY <1>2, <1>3, <3>2, <2>3
    <3> QED
      BY <2>0, <3>3
  <2> QED
    BY <1>2, <2>0, <2>1, <2>2, <2>3
<1> HIDE DEF d, D
<1>9. \A i, j \in DOMAIN d : d[i].rank = d[j].rank => i = j
  BY <1>1, <1>7
<1>10. \A j \in DOMAIN d : \A r \in 1 .. d[j].rank :
          \E i \in DOMAIN d : d[i].rank = r
  BY <1>1, <1>8
<1>11. DOMAIN d \subseteq DOMAIN c \cup {k}
  BY <1>1 DEF D
<1>12. IsLru(d, cap, K, V)
  BY <1>1, <1>6, <1>9, <1>10, <1>11 DEF IsLru
<1> QED
  BY <1>1, <1>5, <1>11, <1>12 DEF d

-----------------------------------------------------------------------------
(* A cache that has been filled stays full.                                *)

LruFull(c, cap) == \E k \in DOMAIN c : c[k].rank = cap

\* get and get_mut leave a full cache full.
LEMMA LruTouchFull ==
    ASSUME NEW c, NEW cap \in Nat \ {0}, NEW K, NEW V, NEW k \in DOMAIN c,
           IsLru(c, cap, K, V), LruFull(c, cap)
    PROVE  LruFull(LruTouch(c, k), cap)
<1>1. PICK j \in DOMAIN c : c[j].rank = cap
  BY DEF LruFull
<1>2. \A i \in DOMAIN c : c[i].rank \in 1 .. cap
  BY DEF IsLru
<1> SUFFICES \E i \in DOMAIN c : LruRankAfterUse(c, k, i) = cap
  BY DEF LruFull, LruTouch
<1>3. CASE j # k
  <2>1. c[j].rank # c[k].rank
    BY <1>3 DEF IsLru
  <2> QED
    BY <1>1, <1>2, <1>3, <2>1 DEF LruRankAfterUse
<1>4. CASE j = k /\ cap = 1
  BY <1>4 DEF LruRankAfterUse
<1>5. CASE j = k /\ cap # 1
  <2>1. cap - 1 \in 1 .. c[k].rank
    BY <1>1, <1>5
  <2>2. PICK i \in DOMAIN c : c[i].rank = cap - 1
    BY <2>1 DEF IsLru
  <2> QED
    BY <1>1, <1>5, <2>2 DEF LruRankAfterUse
<1> QED
  BY <1>3, <1>4, <1>5

\* put of a new key leaves a full cache full, and drops a key only from one.
LEMMA LruPutFull ==
    ASSUME NEW c, NEW cap \in Nat \ {0}, NEW K, NEW V, NEW k, NEW v,
           IsLru(c, cap, K, V), k \notin DOMAIN c
    PROVE  /\ LruFull(c, cap) => LruFull(LruPut(c, cap, k, v), cap)
           /\ \A j \in DOMAIN c \ DOMAIN LruPut(c, cap, k, v) : LruFull(c, cap)
<1>1. \A i \in DOMAIN c : c[i].rank \in 1 .. cap
  BY DEF IsLru
<1>2. /\ LruRankAfterUse(c, k, k) = 1
      /\ \A i \in DOMAIN c : LruRankAfterUse(c, k, i) = c[i].rank + 1
  BY DEF LruRankAfterUse
<1>3. ASSUME NEW j \in DOMAIN c \ DOMAIN LruPut(c, cap, k, v)
      PROVE  LruFull(c, cap)
  <2>1. ~(c[j].rank + 1 <= cap)
    BY <1>2 DEF LruPut
  <2> QED
    BY <1>1, <2>1 DEF LruFull
<1>4. ASSUME LruFull(c, cap)
      PROVE  LruFull(LruPut(c, cap, k, v), cap)
  <2> SUFFICES \E i \in DOMAIN c \cup {k} : LruRankAfterUse(c, k, i) = cap
    BY DEF LruFull, LruPut
  <2>1. PICK j \in DOMAIN c : c[j].rank = cap
    BY <1>4 DEF LruFull
  <2>2. CASE cap = 1
    BY <1>2, <2>2
  <2>3. CASE cap # 1
    <3>1. cap - 1 \in 1 .. c[j].rank
      BY <2>1, <2>3
    <3>2. PICK i \in DOMAIN c : c[i].rank = cap - 1
      BY <3>1 DEF IsLru
    <3> QED
      BY <1>2, <3>2
  <2> QED
    BY <2>2, <2>3
<1> QED
  BY <1>3, <1>4

\* A full cache holds as many keys as it has room for.
LEMMA LruFullCardinality ==
    ASSUME NEW c, NEW cap \in Nat \ {0}, NEW K, NEW V,
           IsLru(c, cap, K, V), LruFull(c, cap)
    PROVE  Cardinality(DOMAIN c) = cap
<1> DEFINE D == DOMAIN c
           f == [r \in 1 .. cap |-> CHOOSE k \in D : c[k].rank = r]
<1>1. \A r \in 1 .. cap : \E k \in D : c[k].rank = r
  BY DEF IsLru, LruFull
<1>2. \A r \in 1 .. cap : f[r] \in D /\ c[f[r]].rank = r
  BY <1>1
<1>3. \A k \in D : c[k].rank \in 1 .. cap
  BY DEF IsLru
<1>4. \A k \in D : f[c[k].rank] = k
  BY <1>2, <1>3 DEF IsLru
<1>5. f \in [1 .. cap -> D]
  BY <1>2
<1> HIDE DEF f, D
<1>6. f \in Injection(1 .. cap, D)
  BY <1>2, <1>5 DEF Injection, IsInjective
<1>7. f \in Surjection(1 .. cap, D)
  BY <1>3, <1>4, <1>5 DEF Surjection
<1>8. ExistsBijection(1 .. cap, D)
  BY <1>6, <1>7 DEF ExistsBijection, Bijection
<1>9. IsFiniteSet(1 .. cap) /\ Cardinality(1 .. cap) = cap
  <2>1. 1 \in Int /\ cap \in Int /\ ~(1 > cap) /\ cap - 1 + 1 = cap
    OBVIOUS
  <2> QED
    BY <2>1, FS_Interval
<1>10. Cardinality(D) = cap
  BY <1>8, <1>9, FS_Bijection
<1> QED
  BY <1>10 DEF D
=============================================================================
