--------------------------- MODULE LRUCacheProofs ---------------------------
(***************************************************************************)
(* The cache of cache.go is type correct, its list and map agree, its list *)
(* is ordered by recency, and it implements RecencyCache, for any set of   *)
(* keys, values and capacities.  The invariant is the conjunction of       *)
(* TypeOK, ListMatchesMap and RecencyInv: the list can only be kept in     *)
(* step with the map if no element occurs in it twice, and the element at  *)
(* its back is the one to evict only if its order is that of the uses.     *)
(***************************************************************************)
EXTENDS LRUCacheRefinement, FiniteSetTheorems, TLAPS

Distinct(s) == \A i, j \in DOMAIN s : s[i] = s[j] => i = j

-----------------------------------------------------------------------------
(* Moving an element to the front shifts those ahead of it back by one and *)
(* leaves the rest in place.                                               *)
LEMMA MoveToFrontElements ==
  ASSUME NEW S, NEW s \in Seq(S), Distinct(s), NEW q \in 1..Len(s)
  PROVE  LET m == MoveToFront(s, s[q])
         IN  /\ m \in Seq(S) /\ Len(m) = Len(s) /\ DOMAIN m = 1..Len(s)
             /\ m[1] = s[q]
             /\ \A i \in 2..q : m[i] = s[i-1]
             /\ \A i \in (q+1)..Len(s) : m[i] = s[i]
<1> DEFINE p == CHOOSE i \in DOMAIN s : s[i] = s[q]
           m == MoveToFront(s, s[q])
<1>1. p = q
  BY DEF Distinct
<1>a. m = [i \in DOMAIN s |-> IF i = 1 THEN s[q]
                              ELSE IF i <= p THEN s[i-1] ELSE s[i]]
  BY Zenon DEF MoveToFront
<1> HIDE DEF m, p
<1>2. m = [i \in 1..Len(s) |-> IF i = 1 THEN s[q]
                               ELSE IF i <= q THEN s[i-1] ELSE s[i]]
  BY <1>1, <1>a
<1>3. m \in [1..Len(s) -> S]
  BY <1>2
<1>4. m \in Seq(S) /\ Len(m) = Len(s) /\ DOMAIN m = 1..Len(s)
  BY <1>3
<1>5. m[1] = s[q]
  BY <1>2
<1>6. \A i \in 2..q : m[i] = s[i-1]
  BY <1>2
<1>7. \A i \in (q+1)..Len(s) : m[i] = s[i]
  BY <1>2
<1> QED
  BY <1>4, <1>5, <1>6, <1>7 DEF m

(* So it only permutes the list. *)
LEMMA MoveToFrontPermutes ==
  ASSUME NEW S, NEW s \in Seq(S), Distinct(s), NEW q \in 1..Len(s)
  PROVE  LET m == MoveToFront(s, s[q])
         IN  Distinct(m) /\ Range(m) = Range(s)
<1> DEFINE m == MoveToFront(s, s[q])
<1>1. /\ m \in Seq(S) /\ Len(m) = Len(s) /\ DOMAIN m = 1..Len(s)
      /\ m[1] = s[q]
      /\ \A i \in 2..q : m[i] = s[i-1]
      /\ \A i \in (q+1)..Len(s) : m[i] = s[i]
  BY MoveToFrontElements
<1> HIDE DEF m
<1> DEFINE from(i) == IF i = 1 THEN q ELSE IF i <= q THEN i-1 ELSE i
           to(i)   == IF i = q THEN 1 ELSE IF i < q THEN i+1 ELSE i
<1>2. \A i \in 1..Len(s) : from(i) \in 1..Len(s) /\ m[i] = s[from(i)]
  BY <1>1
<1>3. \A i, j \in 1..Len(s) : from(i) = from(j) => i = j
  OBVIOUS
<1>4. \A i \in 1..Len(s) : to(i) \in 1..Len(s) /\ from(to(i)) = i
  OBVIOUS
<1> HIDE DEF from, to
<1>5. Distinct(m)
  BY <1>1, <1>2, <1>3 DEF Distinct
<1>6. Range(m) \subseteq Range(s)
  BY <1>1, <1>2 DEF Range
<1>7. Range(s) \subseteq Range(m)
  BY <1>1, <1>2, <1>4 DEF Range
<1> QED
  BY <1>5, <1>6, <1>7 DEF m
-----------------------------------------------------------------------------
IInv == TypeOK /\ ListMatchesMap /\ RecencyInv

(* Consequences of the invariant used throughout. *)
LEMMA ListFacts ==
  ASSUME IInv
  PROVE  /\ ll \in Seq(Elem) /\ Distinct(ll) /\ DOMAIN ll = 1..Len(ll)
         /\ Len(ll) \in Nat
         /\ \A i \in 1..Len(ll) : ll[i] \in DOMAIN entry /\ KeyAt(i) \in DOMAIN items
         /\ \A i, j \in 1..Len(ll) : KeyAt(i) = KeyAt(j) => i = j
         /\ \A k \in DOMAIN items : \E q \in 1..Len(ll) :
              items[k] = ll[q] /\ KeyAt(q) = k
<1>1. ll \in Seq(Elem) /\ DOMAIN ll = 1..Len(ll) /\ Len(ll) \in Nat
  BY DEF IInv, TypeOK
<1>2. Distinct(ll)
  BY DEF IInv, ListMatchesMap, Distinct
<1>3. \A i \in 1..Len(ll) : ll[i] \in DOMAIN entry /\ KeyAt(i) \in DOMAIN items
  BY <1>1 DEF IInv, ListMatchesMap, Range, KeyAt
<1>4. \A i, j \in 1..Len(ll) : KeyAt(i) = KeyAt(j) => i = j
  BY <1>1 DEF IInv, ListMatchesMap, KeyAt
<1>5. \A k \in DOMAIN items : \E q \in 1..Len(ll) :
        items[k] = ll[q] /\ KeyAt(q) = k
  BY <1>1 DEF IInv, ListMatchesMap, Range, KeyAt
<1> QED
  BY <1>1, <1>2, <1>3, <1>4, <1>5

(* A hit, and an overwrite: the list is permuted, the keys of the elements *)
(* and the map stay.  What the list has to do with the map and the history *)
(* is kept.                                                                *)
LEMMA TouchKeepsOrder ==
  ASSUME IInv, NEW k \in DOMAIN items,
         ll' = MoveToFront(ll, items[k]), UNCHANGED <<cap, items>>,
         DOMAIN entry' = DOMAIN entry,
         \A e \in DOMAIN entry : entry'[e].key = entry[e].key,
         since' = RC!Used(since, k), DOMAIN latest' = DOMAIN latest
  PROVE  /\ ll' \in Seq(Elem) /\ Len(ll') = Len(ll) /\ Range(ll') = Range(ll)
         /\ ListMatchesMap' /\ OrderedByUse' /\ PushedOutByUse' /\ HistoryOK'
<1>0. PICK q \in 1..Len(ll) : items[k] = ll[q] /\ KeyAt(q) = k
  BY ListFacts
<1>1. /\ ll' \in Seq(Elem) /\ Len(ll') = Len(ll) /\ DOMAIN ll' = 1..Len(ll)
      /\ ll'[1] = ll[q]
      /\ \A i \in 2..q : ll'[i] = ll[i-1]
      /\ \A i \in (q+1)..Len(ll) : ll'[i] = ll[i]
  BY <1>0, ListFacts, MoveToFrontElements
<1>2. Distinct(ll') /\ Range(ll') = Range(ll)
  BY <1>0, ListFacts, MoveToFrontPermutes
<1>3. \A i \in 1..Len(ll) : ll'[i] \in DOMAIN entry
  BY <1>1, <1>2, ListFacts DEF Range, IInv, ListMatchesMap
<1>4. /\ KeyAt(1)' = k
      /\ \A i \in 2..q : KeyAt(i)' = KeyAt(i-1)
      /\ \A i \in (q+1)..Len(ll) : KeyAt(i)' = KeyAt(i)
  BY <1>0, <1>1, <1>3, ListFacts DEF KeyAt
<1>5. ListMatchesMap'
  <2>1. ASSUME NEW i \in 1..Len(ll)
        PROVE  KeyAt(i)' \in DOMAIN items /\ items[KeyAt(i)'] = ll'[i]
    <3>1. PICK j \in 1..Len(ll) : ll[j] = ll'[i]
      BY <1>1, <1>3, ListFacts DEF IInv, ListMatchesMap, Range
    <3>2. KeyAt(i)' = KeyAt(j)
      BY <3>1, <1>3 DEF KeyAt
    <3>3. KeyAt(j) \in DOMAIN items /\ items[KeyAt(j)] = ll[j]
      BY ListFacts DEF KeyAt, IInv, ListMatchesMap
    <3> QED
      BY <3>1, <3>2, <3>3
  <2>2. \A j \in DOMAIN items : items[j] \in Range(ll') /\ entry'[items[j]].key = j
    BY <1>2 DEF IInv, ListMatchesMap
  <2> QED
    BY <1>1, <1>2, <2>1, <2>2 DEF ListMatchesMap, Distinct, KeyAt, IInv
<1>6. DOMAIN since' = DOMAIN since /\ since'[k] = {}
      /\ \A j \in DOMAIN since \ {k} : since'[j] = since[j] \union {k}
  BY DEF RC!Used, IInv, RecencyInv, HistoryOK
<1>7. OrderedByUse'
  <2> SUFFICES ASSUME NEW i \in 1..Len(ll)
               PROVE  since'[KeyAt(i)'] = { KeyAt(j)' : j \in 1..(i-1) }
    BY <1>1 DEF OrderedByUse
  <2>1. CASE i = 1
    BY <2>1, <1>4, <1>6
  <2>2. CASE i \in 2..q
    <3>1. KeyAt(i)' = KeyAt(i-1) /\ KeyAt(i-1) # k /\ KeyAt(i-1) \in DOMAIN since
      BY <2>2, <1>4, <1>0, ListFacts DEF IInv, RecencyInv, HistoryOK
    <3>2. since'[KeyAt(i)'] = { KeyAt(j) : j \in 1..(i-2) } \union {k}
      BY <2>2, <3>1, <1>6, ListFacts DEF IInv, RecencyInv, OrderedByUse
    <3>3. \A j \in 1..(i-1) : KeyAt(j)' = IF j = 1 THEN k ELSE KeyAt(j-1)
      BY <2>2, <1>4
    <3>4. { KeyAt(j)' : j \in 1..(i-1) } \subseteq { KeyAt(j) : j \in 1..(i-2) } \union {k}
      BY <2>2, <3>3
    <3>5. ASSUME NEW j \in 1..(i-2)
          PROVE  KeyAt(j) \in { KeyAt(l)' : l \in 1..(i-1) }
      BY <2>2, <3>3, j+1 \in 1..(i-1), KeyAt(j+1)' = KeyAt(j)
    <3>6. k \in { KeyAt(l)' : l \in 1..(i-1) }
      BY <2>2, <3>3
    <3> QED
      BY <3>2, <3>4, <3>5, <3>6
  <2>3. CASE i \in (q+1)..Len(ll)
    <3>1. KeyAt(i)' = KeyAt(i) /\ KeyAt(i) # k /\ KeyAt(i) \in DOMAIN since
      BY <2>3, <1>4, <1>0, ListFacts DEF IInv, RecencyInv, HistoryOK
    <3>2. since'[KeyAt(i)'] = { KeyAt(j) : j \in 1..(i-1) } \union {k}
      BY <2>3, <3>1, <1>6, ListFacts DEF IInv, RecencyInv, OrderedByUse
    <3>3. ASSUME NEW j \in 1..(i-1)
          PROVE  KeyAt(j)' \in { KeyAt(l) : l \in 1..(i-1) } \union {k}
      <4>1. CASE j = 1
        BY <4>1, <1>4
      <4>2. CASE j \in 2..q
        BY <4>2, <1>4, j-1 \in 1..(i-1)
      <4>3. CASE j \in (q+1)..Len(ll)
        BY <4>3, <1>4
      <4> QED
        BY <4>1, <4>2, <4>3, <2>3
    <3>4. ASSUME NEW j \in 1..(i-1)
          PROVE  KeyAt(j) \in { KeyAt(l)' : l \in 1..(i-1) }
      <4>1. CASE j = q
        BY <4>1, <1>0, <1>4, 1 \in 1..(i-1)
      <4>2. CASE j < q
        BY <4>2, <2>3, <1>4, j+1 \in 1..(i-1), KeyAt(j+1)' = KeyAt(j)
      <4>3. CASE j > q
        BY <4>3, <2>3, <1>4
      <4> QED
        BY <4>1, <4>2, <4>3
    <3>5. k \in { KeyAt(l)' : l \in 1..(i-1) }
      BY <2>3, <1>4, 1 \in 1..(i-1)
    <3> QED
      BY <3>2, <3>3, <3>4, <3>5
  <2> QED
    BY <2>1, <2>2, <2>3
<1>8. PushedOutByUse'
  <2> SUFFICES ASSUME NEW j \in DOMAIN since \ DOMAIN items, NEW i \in 1..Len(ll)
               PROVE  Len(ll) = cap /\ KeyAt(i)' \in since'[j]
    BY <1>1, <1>6 DEF PushedOutByUse, IInv, RecencyInv
  <2>1. Len(ll) = cap /\ \A l \in 1..Len(ll) : KeyAt(l) \in since[j]
    BY ListFacts DEF IInv, RecencyInv, PushedOutByUse
  <2>2. since'[j] = since[j] \union {k}
    BY <1>6
  <2>3. KeyAt(i)' \in {KeyAt(l) : l \in 1..Len(ll)} \union {k}
    <3>1. CASE i = 1
      BY <3>1, <1>4
    <3>2. CASE i \in 2..q
      BY <3>2, <1>4, i-1 \in 1..Len(ll)
    <3>3. CASE i \in (q+1)..Len(ll)
      BY <3>3, <1>4
    <3> QED
      BY <3>1, <3>2, <3>3
  <2> QED
    BY <2>1, <2>2, <2>3
<1>9. HistoryOK'
  <2>1. ASSUME NEW j \in DOMAIN since'
        PROVE  IsFiniteSet(since'[j])
    <3>1. CASE j = k
      BY <3>1, <1>6, FS_EmptySet
    <3>2. CASE j # k
      <4>1. IsFiniteSet(since[j]) /\ since'[j] = since[j] \union {k}
        BY <3>2, <1>6 DEF IInv, RecencyInv, HistoryOK
      <4> QED
        BY <4>1, FS_AddElement
    <3> QED
      BY <3>1, <3>2
  <2> QED
    BY <1>6, <2>1 DEF IInv, RecencyInv, HistoryOK
<1> QED
  BY <1>1, <1>2, <1>5, <1>7, <1>8, <1>9

(* A new key: its element goes to the front, and the back is dropped when  *)
(* the list was full.  The first w - 1 old elements stay, with their keys  *)
(* and values.                                                             *)
LEMMA PutNewShape ==
  ASSUME IInv, NEW k \in Keys, NEW v \in Vals, PutNew(k, v)
  PROVE  \E e \in Elem \ DOMAIN entry, w \in 1..(Len(ll) + 1) :
           /\ (w = Len(ll) + 1 /\ w <= cap) \/ (w = Len(ll) /\ w = cap)
           /\ ll' = [i \in 1..w |-> IF i = 1 THEN e ELSE ll[i-1]]
           /\ DOMAIN items' = {k} \union {KeyAt(i) : i \in 1..(w-1)}
           /\ items'[k] = e /\ \A i \in 1..(w-1) : items'[KeyAt(i)] = ll[i]
           /\ DOMAIN entry' = {e} \union {ll[i] : i \in 1..(w-1)}
           /\ entry'[e] = [key |-> k, val |-> v]
           /\ \A i \in 1..(w-1) : entry'[ll[i]] = entry[ll[i]]
<1> DEFINE n == Len(ll)
<1>1. /\ cap > 0 /\ k \notin DOMAIN items /\ cap' = cap
      /\ \E e \in Elem \ DOMAIN entry :
           LET s == PushFront(ll, e)
               m == Assign(items, k, e)
               c == Assign(entry, e, [key |-> k, val |-> v])
           IN  \/ Len(s) > cap  /\ Evict(s, m, c)
               \/ Len(s) <= cap /\ ll' = s /\ items' = m /\ entry' = c
  BY DEF PutNew
<1>2. PICK e \in Elem \ DOMAIN entry :
        \/ /\ Len(PushFront(ll, e)) > cap
           /\ Evict(PushFront(ll, e), Assign(items, k, e),
                    Assign(entry, e, [key |-> k, val |-> v]))
        \/ /\ Len(PushFront(ll, e)) <= cap
           /\ ll' = PushFront(ll, e)
           /\ items' = Assign(items, k, e)
           /\ entry' = Assign(entry, e, [key |-> k, val |-> v])
  BY <1>1
<1> DEFINE s == PushFront(ll, e)
           m == Assign(items, k, e)
           c == Assign(entry, e, [key |-> k, val |-> v])
<1>3. /\ ll \in Seq(Elem) /\ DOMAIN ll = 1..n /\ n \in Nat /\ Distinct(ll)
      /\ \A i \in 1..n : ll[i] \in DOMAIN entry /\ KeyAt(i) \in DOMAIN items
      /\ \A i, j \in 1..n : KeyAt(i) = KeyAt(j) => i = j
      /\ n <= cap /\ cap \in Int
  BY <1>1, ListFacts, CapacitiesAssumption DEF IInv, TypeOK
<1>4. /\ s \in Seq(Elem) /\ Len(s) = n + 1
      /\ \A i \in 1..(n+1) : s[i] = IF i = 1 THEN e ELSE ll[i-1]
  BY <1>3 DEF PushFront
<1>5. /\ DOMAIN m = DOMAIN items \union {k} /\ m[k] = e
      /\ \A i \in 1..n : m[KeyAt(i)] = ll[i]
  BY <1>1, <1>3 DEF Assign, IInv, ListMatchesMap, KeyAt
<1>6. /\ DOMAIN c = DOMAIN entry \union {e} /\ c[e] = [key |-> k, val |-> v]
      /\ \A i \in 1..n : c[ll[i]] = entry[ll[i]]
  BY <1>3 DEF Assign
<1>7. DOMAIN items = {KeyAt(i) : i \in 1..n} /\ DOMAIN entry = {ll[i] : i \in 1..n}
  <2>1. DOMAIN items \subseteq {KeyAt(i) : i \in 1..n}
    BY ListFacts
  <2>2. {KeyAt(i) : i \in 1..n} \subseteq DOMAIN items
    BY <1>3
  <2>3. DOMAIN entry = {ll[i] : i \in 1..n}
    BY <1>3 DEF IInv, ListMatchesMap, Range
  <2> QED
    BY <2>1, <2>2, <2>3
<1> HIDE DEF s, m, c
<1>8. CASE n + 1 > cap
  <2>1. n = cap /\ n \in 1..(n+1)
    BY <1>8, <1>3, <1>1
  <2>2. s[Len(s)] = ll[n] /\ c[ll[n]].key = KeyAt(n)
    BY <2>1, <1>3, <1>4, <1>6 DEF KeyAt
  <2>3. /\ ll' = SubSeq(s, 1, n)
        /\ items' = Restrict(m, DOMAIN m \ {KeyAt(n)})
        /\ entry' = Restrict(c, DOMAIN c \ {ll[n]})
    <3>1. ~(Len(s) <= cap)
      BY <1>8, <1>3, <1>4
    <3>2. Evict(s, m, c)
      BY <3>1, <1>2 DEF s, m, c
    <3>3. Len(s) - 1 = n
      BY <1>3, <1>4
    <3> QED
      BY <3>2, <3>3, <2>2 DEF Evict
  <2>4. ll' = [i \in 1..n |-> IF i = 1 THEN e ELSE ll[i-1]]
    BY <2>1, <2>3, <1>4
  <2>5. DOMAIN m \ {KeyAt(n)} = {k} \union {KeyAt(i) : i \in 1..(n-1)}
    BY <2>1, <1>1, <1>3, <1>5, <1>7
  <2>6. DOMAIN c \ {ll[n]} = {e} \union {ll[i] : i \in 1..(n-1)}
    <3>1. \A i \in 1..(n-1) : ll[i] # ll[n]
      BY <2>1, <1>3 DEF Distinct
    <3>2. \A i \in 1..n : i = n \/ i \in 1..(n-1)
      <4>1. n \in Nat
        BY <1>3
      <4> QED
        BY <4>1
    <3>3. e # ll[n]
      BY <2>1, <1>3
    <3> QED
      BY <3>1, <3>2, <3>3, <1>6, <1>7
  <2>7. /\ DOMAIN items' = {k} \union {KeyAt(i) : i \in 1..(n-1)}
        /\ items'[k] = e /\ \A i \in 1..(n-1) : items'[KeyAt(i)] = ll[i]
    <3>1. /\ DOMAIN items' = {k} \union {KeyAt(i) : i \in 1..(n-1)}
          /\ \A x \in DOMAIN items' : items'[x] = m[x]
      BY <2>3, <2>5 DEF Restrict
    <3>2. \A i \in 1..(n-1) : i \in 1..n
      BY <1>3
    <3> QED
      BY <3>1, <3>2, <1>5
  <2>8. /\ DOMAIN entry' = {e} \union {ll[i] : i \in 1..(n-1)}
        /\ entry'[e] = [key |-> k, val |-> v]
        /\ \A i \in 1..(n-1) : entry'[ll[i]] = entry[ll[i]]
    <3>1. /\ DOMAIN entry' = {e} \union {ll[i] : i \in 1..(n-1)}
          /\ \A x \in DOMAIN entry' : entry'[x] = c[x]
      BY <2>3, <2>6 DEF Restrict
    <3>2. \A i \in 1..(n-1) : i \in 1..n
      BY <1>3
    <3> QED
      BY <3>1, <3>2, <1>6
  <2> QED
    BY <2>1, <2>4, <2>7, <2>8
<1>9. CASE n + 1 <= cap
  <2>1. ll' = s /\ items' = m /\ entry' = c
    BY <1>9, <1>2, <1>3, <1>4 DEF s, m, c
  <2>2. ll' = [i \in 1..(n+1) |-> IF i = 1 THEN e ELSE ll[i-1]]
    BY <2>1, <1>4
  <2>3. /\ DOMAIN items' = {k} \union {KeyAt(i) : i \in 1..((n+1)-1)}
        /\ items'[k] = e /\ \A i \in 1..((n+1)-1) : items'[KeyAt(i)] = ll[i]
    BY <2>1, <1>3, <1>5, <1>7
  <2>4. /\ DOMAIN entry' = {e} \union {ll[i] : i \in 1..((n+1)-1)}
        /\ entry'[e] = [key |-> k, val |-> v]
        /\ \A i \in 1..((n+1)-1) : entry'[ll[i]] = entry[ll[i]]
    BY <2>1, <1>3, <1>6, <1>7
  <2>5. n + 1 \in 1..(n+1)
    BY <1>3
  <2> QED
    BY <1>9, <2>2, <2>3, <2>4, <2>5
<1>10. n + 1 > cap \/ n + 1 <= cap
  <2>1. n \in Int /\ cap \in Int
    BY <1>3
  <2> QED
    BY <2>1
<1> QED
  BY <1>8, <1>9, <1>10

LEMMA PutNewKeepsOrder ==
  ASSUME IInv, NEW k \in Keys, NEW v \in Vals, PutNew(k, v),
         since' = RC!Used(since, k), latest' = RC!Stored(latest, k, v)
  PROVE  IInv'
<1>1. PICK e \in Elem \ DOMAIN entry, w \in 1..(Len(ll) + 1) :
        /\ (w = Len(ll) + 1 /\ w <= cap) \/ (w = Len(ll) /\ w = cap)
        /\ ll' = [i \in 1..w |-> IF i = 1 THEN e ELSE ll[i-1]]
        /\ DOMAIN items' = {k} \union {KeyAt(i) : i \in 1..(w-1)}
        /\ items'[k] = e /\ \A i \in 1..(w-1) : items'[KeyAt(i)] = ll[i]
        /\ DOMAIN entry' = {e} \union {ll[i] : i \in 1..(w-1)}
        /\ entry'[e] = [key |-> k, val |-> v]
        /\ \A i \in 1..(w-1) : entry'[ll[i]] = entry[ll[i]]
  BY PutNewShape
<1>2. /\ ll \in Seq(Elem) /\ DOMAIN ll = 1..Len(ll) /\ Len(ll) \in Nat
      /\ \A i, j \in 1..Len(ll) : ll[i] = ll[j] => i = j
      /\ \A i \in 1..Len(ll) : ll[i] \in DOMAIN entry /\ KeyAt(i) \in DOMAIN items
      /\ \A i, j \in 1..Len(ll) : KeyAt(i) = KeyAt(j) => i = j
      /\ \A i \in 1..Len(ll) : ll[i] \in Elem
  BY ListFacts DEF Distinct
<1>3. cap > 0 /\ cap' = cap /\ cap \in Int /\ k \notin DOMAIN items /\ ret' = NoRet
  BY CapacitiesAssumption DEF PutNew, IInv, TypeOK
<1>s. /\ Len(ll) \in Nat /\ cap \in Int
      /\ (w = Len(ll) + 1 /\ w <= cap) \/ (w = Len(ll) /\ w = cap)
  BY <1>1, <1>2, <1>3
<1>w. /\ w \in Nat \ {0} /\ w <= cap
      /\ 1 \in 1..w /\ \A i \in 1..w : i = 1 \/ i \in 2..w
      /\ \A i \in 2..w : i-1 \in 1..(w-1) /\ i-1 \in 1..Len(ll)
      /\ \A i \in 1..(w-1) : i \in 1..Len(ll) /\ i+1 \in 2..w
      /\ \A i \in 1..Len(ll) : i \in 1..(w-1) \/ (i = Len(ll) /\ w = Len(ll))
  BY <1>s
<1>4. /\ ll' \in Seq(Elem) /\ Len(ll') = w /\ DOMAIN ll' = 1..w
      /\ ll'[1] = e /\ \A i \in 2..w : ll'[i] = ll[i-1]
  <2>1. \A i \in 1..w : i # 1 => i-1 \in 1..Len(ll)
    BY <1>s, <1>w
  <2>2. ll' \in [1..w -> Elem]
    BY <1>1, <1>2, <2>1
  <2>3. w \in Nat
    BY <1>2
  <2>4. ll' \in Seq(Elem) /\ Len(ll') = w /\ DOMAIN ll' = 1..w
    BY <2>2, <2>3
  <2>5. ll'[1] = e /\ \A i \in 2..w : ll'[i] = ll[i-1]
    BY <1>1, <2>3
  <2> QED
    BY <2>4, <2>5
<1>5. \A i \in 1..w : KeyAt(i)' = IF i = 1 THEN k ELSE KeyAt(i-1)
  BY <1>1, <1>4 DEF KeyAt
<1>6. TypeOK'
  <2>1. DOMAIN items' \subseteq Keys /\ \A j \in DOMAIN items' : items'[j] \in Elem
    BY <1>1, <1>2 DEF IInv, TypeOK
  <2>2. DOMAIN entry' \subseteq Elem /\ \A x \in DOMAIN entry' : entry'[x] \in Entry
    <3>2. \A i \in 1..(w-1) : ll[i] \in Elem /\ entry[ll[i]] \in Entry
      BY <1>w, <1>2 DEF IInv, TypeOK
    <3>3. [key |-> k, val |-> v] \in Entry
      BY DEF Entry
    <3>4. e \in Elem /\ DOMAIN entry' = {e} \union {ll[i] : i \in 1..(w-1)}
      BY <1>1
    <3>5. DOMAIN entry' \subseteq Elem
      BY <3>2, <3>4
    <3>6. ASSUME NEW x \in DOMAIN entry' PROVE entry'[x] \in Entry
      <4>1. CASE x = e
        BY <4>1, <3>3, <1>1
      <4>2. CASE \E i \in 1..(w-1) : x = ll[i]
        BY <4>2, <3>2, <1>1
      <4> QED
        BY <4>1, <4>2, <3>4
    <3> QED
      BY <3>5, <3>6
  <2>3. items' \in [DOMAIN items' -> Elem]
    <3>1. items' = [j \in DOMAIN items' |-> items'[j]]
      BY DEF PutNew, Evict, Assign, Restrict
    <3> QED
      BY <2>1, <3>1
  <2>4. entry' \in [DOMAIN entry' -> Entry]
    <3>1. entry' = [j \in DOMAIN entry' |-> entry'[j]]
      BY DEF PutNew, Evict, Assign, Restrict
    <3> QED
      BY <2>2, <3>1
  <2> QED
    BY <1>1, <1>3, <1>4, <2>1, <2>2, <2>3, <2>4 DEF TypeOK, IInv
<1>7. ListMatchesMap'
  <2>0. \A i \in 2..w : ll'[i] = ll[i-1] /\ ll'[i] # e
    <3>1. \A i \in 1..Len(ll) : ll[i] # e
      BY <1>2
    <3> QED
      BY <3>1, <1>w, <1>4
  <2>1. ASSUME NEW i \in 1..w, NEW j \in 1..w, ll'[i] = ll'[j]
        PROVE  i = j
    <3>1. CASE i = 1 \/ j = 1
      BY <3>1, <2>1, <2>0, <1>w, <1>4
    <3>2. CASE i \in 2..w /\ j \in 2..w
      <4>1. ll[i-1] = ll[j-1]
        BY <3>2, <2>0, <2>1
      <4>2. i-1 = j-1
        BY <3>2, <4>1, <1>w, <1>2
      <4> QED
        BY <3>2, <4>2, <1>w
    <3> QED
      BY <3>1, <3>2, <1>w
  <2>2. Range(ll') = DOMAIN entry'
    <3>1. Range(ll') \subseteq DOMAIN entry'
      BY <2>0, <1>1, <1>w, <1>4 DEF Range
    <3>2. ASSUME NEW i \in 1..(w-1) PROVE ll[i] \in Range(ll')
      BY <1>4, i + 1 \in 2..w, ll'[i+1] = ll[i] DEF Range
    <3>3. e \in Range(ll')
      BY <1>1, <1>2, <1>4 DEF Range
    <3>4. DOMAIN entry' = {e} \union {ll[i] : i \in 1..(w-1)}
      BY <1>1
    <3>5. DOMAIN entry' \subseteq Range(ll')
      BY <3>2, <3>3, <3>4
    <3> QED
      BY <3>1, <3>5
  <2>3. \A i \in DOMAIN ll' : KeyAt(i)' \in DOMAIN items' /\ items'[KeyAt(i)'] = ll'[i]
    <3> SUFFICES ASSUME NEW i \in 1..w
                 PROVE  KeyAt(i)' \in DOMAIN items' /\ items'[KeyAt(i)'] = ll'[i]
      BY <1>4
    <3>1. CASE i = 1
      BY <3>1, <1>1, <1>4, <1>5
    <3>2. CASE i \in 2..w
      <4>1. KeyAt(i)' = KeyAt(i-1) /\ ll'[i] = ll[i-1] /\ i-1 \in 1..(w-1)
        <5>1. i # 1
          BY <3>2, <1>s
        <5>2. KeyAt(i)' = KeyAt(i-1)
          BY <5>1, <1>5
        <5> QED
          BY <3>2, <5>2, <1>4, <1>w
      <4> QED
        BY <4>1, <1>1
    <3> QED
      BY <3>1, <3>2, <1>w
  <2>4. ASSUME NEW j \in DOMAIN items'
        PROVE  items'[j] \in Range(ll') /\ entry'[items'[j]].key = j
    <3>1. CASE j = k
      BY <3>1, <2>2, <1>1
    <3>2. CASE j \in {KeyAt(i) : i \in 1..(w-1)}
      <4>1. PICK i \in 1..(w-1) : j = KeyAt(i)
        BY <3>2
      <4>2. items'[j] = ll[i] /\ entry'[ll[i]] = entry[ll[i]] /\ ll[i] \in DOMAIN entry'
        BY <4>1, <1>1
      <4> QED
        BY <4>1, <4>2, <2>2 DEF KeyAt
    <3> QED
      BY <3>1, <3>2, <1>1
  <2> QED
    BY <1>4, <2>1, <2>2, <2>3, <2>4 DEF ListMatchesMap, KeyAt
<1>8. DOMAIN since' = DOMAIN since \union {k} /\ since'[k] = {}
      /\ \A j \in DOMAIN since \ {k} : since'[j] = since[j] \union {k}
  BY DEF RC!Used
<1>9. DOMAIN latest' = DOMAIN latest \union {k} /\ latest'[k] = v
      /\ \A j \in DOMAIN latest \ {k} : latest'[j] = latest[j]
  BY DEF RC!Stored
<1>10. \A i \in 1..Len(ll) : KeyAt(i) # k /\ KeyAt(i) \in DOMAIN since
  BY <1>2, <1>3 DEF IInv, RecencyInv, HistoryOK
<1>11. OrderedByUse'
  <2> SUFFICES ASSUME NEW i \in 1..w
               PROVE  since'[KeyAt(i)'] = { KeyAt(j)' : j \in 1..(i-1) }
    BY <1>4 DEF OrderedByUse
  <2>1. CASE i = 1
    BY <2>1, <1>5, <1>8
  <2>2. CASE i \in 2..w
    <3>1. KeyAt(i)' = KeyAt(i-1) /\ i-1 \in 1..Len(ll)
      BY <2>2, <1>5
    <3>2. since'[KeyAt(i)'] = { KeyAt(j) : j \in 1..(i-2) } \union {k}
      BY <2>2, <3>1, <1>2, <1>8, <1>10 DEF IInv, RecencyInv, OrderedByUse
    <3>3. \A j \in 1..(i-1) : KeyAt(j)' = IF j = 1 THEN k ELSE KeyAt(j-1)
      BY <2>2, <1>5
    <3>4. { KeyAt(j)' : j \in 1..(i-1) } \subseteq { KeyAt(j) : j \in 1..(i-2) } \union {k}
      BY <2>2, <3>3
    <3>5. ASSUME NEW j \in 1..(i-2)
          PROVE  KeyAt(j) \in { KeyAt(l)' : l \in 1..(i-1) }
      BY <2>2, <3>3, j+1 \in 1..(i-1), KeyAt(j+1)' = KeyAt(j)
    <3>6. k \in { KeyAt(l)' : l \in 1..(i-1) }
      BY <2>2, <3>3
    <3> QED
      BY <3>2, <3>4, <3>5, <3>6
  <2> QED
    BY <2>1, <2>2
<1>12. PushedOutByUse'
  <2> SUFFICES ASSUME NEW j \in DOMAIN since' \ DOMAIN items'
               PROVE  w = cap /\ \A i \in 1..w : KeyAt(i)' \in since'[j]
    BY <1>3, <1>4 DEF PushedOutByUse
  <2>1. j # k /\ j \in DOMAIN since /\ since'[j] = since[j] \union {k}
    BY <1>1, <1>8
  <2>2. CASE j \in DOMAIN items
    <3>1. PICK q \in 1..Len(ll) : KeyAt(q) = j
      BY <2>2, ListFacts
    <3>2. q = Len(ll) /\ w = Len(ll) /\ w = cap
      <4>1. j \notin {KeyAt(i) : i \in 1..(w-1)}
        BY <1>1
      <4>2. ~(q \in 1..(w-1))
        BY <3>1, <4>1
      <4> QED
        BY <4>2, <1>w, <1>s
    <3>3. since[j] = { KeyAt(i) : i \in 1..(w-1) }
      BY <3>1, <3>2, <1>2 DEF IInv, RecencyInv, OrderedByUse
    <3> QED
      BY <2>1, <3>2, <3>3, <1>5
  <2>3. CASE j \notin DOMAIN items
    <3>1. Len(ll) = cap /\ \A i \in 1..Len(ll) : KeyAt(i) \in since[j]
      BY <2>1, <2>3, <1>2 DEF IInv, RecencyInv, PushedOutByUse
    <3> QED
      BY <2>1, <3>1, <1>1, <1>3, <1>5
  <2> QED
    BY <2>2, <2>3
<1>13. CachedIsLatest'
  <2> SUFFICES ASSUME NEW i \in 1..w
               PROVE  entry'[ll'[i]].val = latest'[KeyAt(i)']
    BY <1>4 DEF CachedIsLatest
  <2>1. CASE i = 1
    BY <2>1, <1>1, <1>4, <1>5, <1>9
  <2>2. CASE i \in 2..w
    <3>1. i-1 \in 1..Len(ll) /\ i-1 \in 1..(w-1)
          /\ KeyAt(i)' = KeyAt(i-1) /\ ll'[i] = ll[i-1]
      BY <2>2, <1>4, <1>5
    <3>2. entry[ll[i-1]].val = latest[KeyAt(i-1)]
      BY <3>1, <1>2 DEF IInv, RecencyInv, CachedIsLatest
    <3>3. latest'[KeyAt(i-1)] = latest[KeyAt(i-1)]
      BY <3>1, <1>9, <1>10 DEF IInv, RecencyInv, HistoryOK
    <3> QED
      BY <3>1, <3>2, <3>3, <1>1
  <2> QED
    BY <2>1, <2>2
<1>14. HistoryOK'
  <2>1. ASSUME NEW j \in DOMAIN since'
        PROVE  IsFiniteSet(since'[j])
    <3>1. CASE j = k
      BY <3>1, <1>8, FS_EmptySet
    <3>2. CASE j # k
      <4>1. IsFiniteSet(since[j]) /\ since'[j] = since[j] \union {k}
        BY <3>2, <1>8 DEF IInv, RecencyInv, HistoryOK
      <4> QED
        BY <4>1, FS_AddElement
    <3> QED
      BY <3>1, <3>2
  <2>2. DOMAIN items' \subseteq DOMAIN since'
    BY <1>1, <1>8, <1>10
  <2>3. DOMAIN since' = DOMAIN latest'
    BY <1>8, <1>9 DEF IInv, RecencyInv, HistoryOK
  <2> QED
    BY <1>3, <2>1, <2>2, <2>3 DEF HistoryOK
<1> QED
  BY <1>6, <1>7, <1>11, <1>12, <1>13, <1>14 DEF IInv, RecencyInv

-----------------------------------------------------------------------------
LEMMA InitIInv == HInit => IInv
<1> SUFFICES ASSUME HInit PROVE IInv
  OBVIOUS
<1>1. ll = <<>> /\ Len(ll) = 0 /\ DOMAIN ll = {} /\ ll \in Seq(Elem)
  BY DEF HInit, Init
<1>2. DOMAIN items = {} /\ DOMAIN entry = {} /\ DOMAIN since = {} /\ DOMAIN latest = {}
  BY DEF HInit, Init
<1>3. cap \in Capacities /\ cap \in Int
  BY CapacitiesAssumption DEF HInit, Init
<1>4. TypeOK
  <2>1. items \in [DOMAIN items -> Elem] /\ entry \in [DOMAIN entry -> Entry]
    BY DEF HInit, Init
  <2>2. ret \in {Miss, NoRet} \union {Hit(v) : v \in Vals}
    BY DEF HInit, Init
  <2> QED
    BY <1>1, <1>2, <1>3, <2>1, <2>2 DEF TypeOK
<1>5. ListMatchesMap
  BY <1>1, <1>2 DEF ListMatchesMap, Range
<1>6. RecencyInv
  BY <1>1, <1>2 DEF RecencyInv, OrderedByUse, PushedOutByUse, CachedIsLatest, HistoryOK
<1> QED
  BY <1>4, <1>5, <1>6 DEF IInv

(* A call that changes nothing but what it returns. *)
LEMMA QuietStep ==
  ASSUME IInv, UNCHANGED <<cap, ll, items, entry, since, latest>>,
         ret' \in {Miss, NoRet} \union {Hit(v) : v \in Vals}
  PROVE  IInv'
<1>1. TypeOK'
  BY DEF IInv, TypeOK
<1>2. ListMatchesMap'
  BY DEF IInv, ListMatchesMap
<1>3. RecencyInv'
  BY DEF IInv, RecencyInv, OrderedByUse, PushedOutByUse, CachedIsLatest,
         HistoryOK, KeyAt
<1> QED
  BY <1>1, <1>2, <1>3 DEF IInv

LEMMA GetHitStep ==
  ASSUME IInv, NEW k \in Keys, HGetHit(k)
  PROVE  IInv'
<1>1. /\ k \in DOMAIN items /\ ll' = MoveToFront(ll, items[k])
      /\ ret' = Hit(entry[items[k]].val)
      /\ UNCHANGED <<cap, items, entry, latest>> /\ since' = RC!Used(since, k)
  BY DEF HGetHit, GetHit
<1>2. /\ ll' \in Seq(Elem) /\ Len(ll') = Len(ll) /\ Range(ll') = Range(ll)
      /\ ListMatchesMap' /\ OrderedByUse' /\ PushedOutByUse' /\ HistoryOK'
  BY <1>1, TouchKeepsOrder
<1>3. PICK q \in 1..Len(ll) : items[k] = ll[q] /\ KeyAt(q) = k
  BY <1>1, ListFacts
<1>4. entry[items[k]] \in Entry
  BY <1>3, ListFacts DEF IInv, TypeOK
<1>5. TypeOK'
  BY <1>1, <1>2, <1>4 DEF IInv, TypeOK, Entry
<1>6. CachedIsLatest'
  <2>1. ASSUME NEW i \in DOMAIN ll'
        PROVE  entry[ll'[i]].val = latest[entry[ll'[i]].key]
    <3>1. PICK j \in DOMAIN ll : ll[j] = ll'[i]
      BY <1>2 DEF Range
    <3> QED
      BY <3>1 DEF IInv, RecencyInv, CachedIsLatest, KeyAt
  <2> QED
    BY <2>1, <1>1 DEF CachedIsLatest, KeyAt
<1> QED
  BY <1>2, <1>5, <1>6 DEF IInv, RecencyInv

LEMMA PutExistingStep ==
  ASSUME IInv, NEW k \in Keys, NEW v \in Vals, PutExisting(k, v),
         since' = RC!Used(since, k), latest' = RC!Stored(latest, k, v)
  PROVE  IInv'
<1>1. /\ k \in DOMAIN items /\ ll' = MoveToFront(ll, items[k])
      /\ ret' = NoRet /\ UNCHANGED <<cap, items>>
      /\ entry' = [entry EXCEPT ![items[k]].val = v]
  BY DEF PutExisting
<1>2. PICK q \in 1..Len(ll) : items[k] = ll[q] /\ KeyAt(q) = k
  BY <1>1, ListFacts
<1>3. items[k] \in DOMAIN entry /\ entry \in [DOMAIN entry -> Entry]
  BY <1>2, ListFacts DEF IInv, TypeOK
<1>4. /\ entry' \in [DOMAIN entry -> Entry] /\ DOMAIN entry' = DOMAIN entry
      /\ \A e \in DOMAIN entry : entry'[e].key = entry[e].key
      /\ entry'[items[k]].val = v
      /\ \A e \in DOMAIN entry \ {items[k]} : entry'[e] = entry[e]
  BY <1>1, <1>3 DEF Entry
<1>5. /\ DOMAIN latest' = DOMAIN latest /\ latest'[k] = v
      /\ \A j \in DOMAIN latest \ {k} : latest'[j] = latest[j]
  BY <1>1 DEF RC!Stored, IInv, RecencyInv, HistoryOK
<1>6. /\ ll' \in Seq(Elem) /\ Len(ll') = Len(ll) /\ Range(ll') = Range(ll)
      /\ ListMatchesMap' /\ OrderedByUse' /\ PushedOutByUse' /\ HistoryOK'
  BY <1>1, <1>4, <1>5, TouchKeepsOrder
<1>7. TypeOK'
  BY <1>1, <1>4, <1>6 DEF IInv, TypeOK
<1>8. CachedIsLatest'
  <2> SUFFICES ASSUME NEW i \in DOMAIN ll'
               PROVE  entry'[ll'[i]].val = latest'[entry'[ll'[i]].key]
    BY DEF CachedIsLatest, KeyAt
  <2>1. PICK j \in 1..Len(ll) : ll[j] = ll'[i]
    <3>1. DOMAIN ll = 1..Len(ll) /\ Range(ll') = Range(ll)
      BY <1>6, ListFacts
    <3> QED
      BY <3>1 DEF Range
  <2>2. ll[j] \in DOMAIN entry /\ entry'[ll[j]].key = KeyAt(j)
    BY <1>4, ListFacts DEF KeyAt
  <2>3. CASE j = q
    BY <2>1, <2>2, <2>3, <1>2, <1>4, <1>5
  <2>4. CASE j # q
    <3>1. ll[j] # items[k] /\ KeyAt(j) # k
      BY <2>4, <1>2, ListFacts DEF Distinct
    <3>2. KeyAt(j) \in DOMAIN latest
      BY ListFacts DEF IInv, RecencyInv, HistoryOK
    <3>3. entry[ll[j]].val = latest[KeyAt(j)]
      BY ListFacts DEF IInv, RecencyInv, CachedIsLatest
    <3> QED
      BY <2>1, <2>2, <3>1, <3>2, <3>3, <1>4, <1>5
  <2> QED
    BY <2>3, <2>4
<1> QED
  BY <1>6, <1>7, <1>8 DEF IInv, RecencyInv

LEMMA StepIInv == IInv /\ [HNext]_hvars => IInv'
<1> SUFFICES ASSUME IInv, [HNext]_hvars PROVE IInv'
  OBVIOUS
<1>1. ASSUME NEW k \in Keys, HGetMiss(k) PROVE IInv'
  BY <1>1, QuietStep DEF HGetMiss, GetMiss
<1>2. ASSUME NEW k \in Keys, HGetHit(k) PROVE IInv'
  BY <1>2, GetHitStep
<1>3. ASSUME NEW k \in Keys, NEW v \in Vals, HPutDisabled(k, v) PROVE IInv'
  BY <1>3, QuietStep DEF HPutDisabled, PutDisabled
<1>4. ASSUME NEW k \in Keys, NEW v \in Vals, HPut(k, v) PROVE IInv'
  BY <1>4, PutExistingStep, PutNewKeepsOrder DEF HPut
<1>5. CASE UNCHANGED hvars
  <2>1. ret \in {Miss, NoRet} \union {Hit(v) : v \in Vals}
    BY DEF IInv, TypeOK
  <2> QED
    BY <1>5, <2>1, QuietStep DEF hvars
<1> QED
  BY <1>1, <1>2, <1>3, <1>4, <1>5 DEF HNext

(* The invariant holds in every reachable state. *)
THEOREM Invariance == HSpec => []IInv
BY InitIInv, StepIInv, PTL DEF HSpec

(* The cache never holds more entries than the capacity it was created     *)
(* with, and its variables keep their types.                               *)
THEOREM CacheTypeOK == HSpec => []TypeOK
<1>1. IInv => TypeOK
  BY DEF IInv
<1> QED
  BY Invariance, <1>1, PTL

(* The list and the map of cache.go always hold the same entries. *)
THEOREM CacheListMatchesMap == HSpec => []ListMatchesMap
<1>1. IInv => ListMatchesMap
  BY DEF IInv
<1> QED
  BY Invariance, <1>1, PTL

(* The list is ordered by use, and what was evicted is older than all that *)
(* is cached.                                                              *)
THEOREM CacheRecencyInv == HSpec => []RecencyInv
<1>1. IInv => RecencyInv
  BY DEF IInv
<1> QED
  BY Invariance, <1>1, PTL

-----------------------------------------------------------------------------
(* A key is in the map exactly when it is among the cap most recently used *)
(* ones: the one at position i of the list was followed by i - 1 others,   *)
(* and one that was evicted by at least cap others.                        *)
LEMMA HeldIsCached ==
  ASSUME IInv, cap > 0
  PROVE  RC!Held = DOMAIN items
<1>0. \A S : RC!Cardinality(S) = Cardinality(S)
  BY Zenon DEF RC!Cardinality, Cardinality
<1>1. cap \in Int /\ Len(ll) <= cap /\ Len(ll) \in Nat
  BY CapacitiesAssumption, ListFacts DEF IInv, TypeOK
<1>2. ASSUME NEW n \in 0..Len(ll)
      PROVE  /\ IsFiniteSet({KeyAt(i) : i \in 1..n})
             /\ Cardinality({KeyAt(i) : i \in 1..n}) = n
  <2> DEFINE f == [i \in 1..n |-> KeyAt(i)]
             T == {KeyAt(i) : i \in 1..n}
  <2>1. f \in Bijection(1..n, T)
    <3>1. \A i \in 1..n : i \in 1..Len(ll)
      BY <1>1
    <3>2. \A i, j \in 1..n : f[i] = f[j] => i = j
      BY <3>1, ListFacts
    <3>3. f \in [1..n -> T] /\ \A t \in T : \E i \in 1..n : f[i] = t
      OBVIOUS
    <3> QED
      BY <3>2, <3>3 DEF Bijection, Injection, Surjection, IsInjective
  <2>2. IsFiniteSet(1..n) /\ Cardinality(1..n) = n
    BY FS_Interval, <1>1
  <2>3. IsFiniteSet(T) /\ Cardinality(T) = Cardinality(1..n)
    BY <2>1, <2>2, FS_Bijection DEF ExistsBijection
  <2> QED
    BY <2>2, <2>3
<1>3. ASSUME NEW k \in DOMAIN items
      PROVE  k \in RC!Held
  <2>1. PICK i \in 1..Len(ll) : KeyAt(i) = k
    BY ListFacts
  <2>2. k \in DOMAIN since /\ since[k] = {KeyAt(j) : j \in 1..(i-1)}
    BY <2>1, ListFacts DEF IInv, RecencyInv, OrderedByUse, HistoryOK
  <2>3. i-1 \in 0..Len(ll) /\ i-1 < cap
    BY <1>1
  <2> QED
    <3>1. Cardinality(since[k]) = i-1
      BY <2>2, <2>3, <1>2
    <3> QED
      BY <3>1, <2>2, <2>3, <1>0 DEF RC!Held
<1>4. ASSUME NEW k \in DOMAIN since \ DOMAIN items
      PROVE  k \notin RC!Held
  <2> DEFINE T == {KeyAt(i) : i \in 1..Len(ll)}
  <2>1. Len(ll) = cap /\ T \subseteq since[k]
    BY ListFacts DEF IInv, RecencyInv, PushedOutByUse
  <2>2. IsFiniteSet(since[k])
    BY DEF IInv, RecencyInv, HistoryOK
  <2>3. Cardinality(T) = cap
    <3>1. Len(ll) \in 0..Len(ll)
      BY <1>1
    <3> QED
      BY <2>1, <3>1, <1>2
  <2>4. Cardinality(T) <= Cardinality(since[k]) /\ Cardinality(since[k]) \in Nat
    BY <2>1, <2>2, FS_Subset, FS_CardinalityType
  <2>5. ~(Cardinality(since[k]) < cap)
    BY <2>3, <2>4, <1>1
  <2> QED
    BY <2>5, <1>0 DEF RC!Held
<1> QED
  BY <1>3, <1>4 DEF RC!Held

LEMMA NothingHeldWhenDisabled ==
  ASSUME IInv, cap <= 0
  PROVE  RC!Held = {}
BY DEF IInv, RecencyInv, HistoryOK, RC!Held

(* Every call of the cache is the corresponding call of RecencyCache. *)
LEMMA StepRefines ==
  ASSUME IInv, [HNext]_hvars
  PROVE  [RC!AbsNext]_RC!absVars
<1> USE DEF Miss, Hit, NoRet, RC!Miss, RC!Hit, RC!NoRet
<1>0. cap \in Int
  BY CapacitiesAssumption DEF IInv, TypeOK
<1>1. ASSUME NEW k \in Keys, HGetMiss(k) PROVE RC!AbsGet(k)
  <2>1. k \notin RC!Held
    BY <1>0, <1>1, HeldIsCached, NothingHeldWhenDisabled DEF HGetMiss, GetMiss
  <2> QED
    BY <1>1, <2>1 DEF HGetMiss, GetMiss, RC!AbsGet
<1>2. ASSUME NEW k \in Keys, HGetHit(k) PROVE RC!AbsGet(k)
  <2>1. k \in RC!Held /\ k \in DOMAIN items
    BY <1>2, HeldIsCached DEF HGetHit, GetHit
  <2>2. PICK q \in 1..Len(ll) : items[k] = ll[q] /\ KeyAt(q) = k
    BY <2>1, ListFacts
  <2>3. entry[items[k]].val = latest[k]
    BY <2>2, ListFacts DEF IInv, RecencyInv, CachedIsLatest
  <2> QED
    BY <1>2, <2>1, <2>3 DEF HGetHit, GetHit, RC!AbsGet
<1>3. ASSUME NEW k \in Keys, NEW v \in Vals, HPutDisabled(k, v) PROVE RC!AbsPut(k, v)
  BY <1>3 DEF HPutDisabled, PutDisabled, RC!AbsPut
<1>4. ASSUME NEW k \in Keys, NEW v \in Vals, HPut(k, v) PROVE RC!AbsPut(k, v)
  BY <1>4 DEF HPut, PutExisting, PutNew, RC!AbsPut
<1>5. CASE UNCHANGED hvars
  BY <1>5 DEF hvars, RC!absVars
<1> QED
  BY <1>1, <1>2, <1>3, <1>4, <1>5 DEF HNext, RC!AbsNext

(* When the map of values is one that AfterPut allows: nothing is          *)
(* forgotten, or one key, and only if k is new.                            *)
LEMMA NothingForgotten ==
  ASSUME NEW k, NEW v, DOMAIN items' = DOMAIN items \union {k},
         \A i \in DOMAIN items' :
           entry'[items'[i]].val = IF i = k THEN v ELSE Cached[i]
  PROVE  Cached' \in AfterPut(Cached, k, v)
<1> DEFINE keys == DOMAIN Cached \union {k}
<1>1. DOMAIN Cached = DOMAIN items
  BY DEF Cached
<1>2. Cached' = [i \in keys \ {} |-> IF i = k THEN v ELSE Cached[i]]
  BY <1>1 DEF Cached
<1> QED
  BY <1>2 DEF AfterPut

LEMMA OneForgotten ==
  ASSUME NEW k, NEW v, k \notin DOMAIN items, NEW old \in DOMAIN items \union {k},
         DOMAIN items' = (DOMAIN items \union {k}) \ {old},
         \A i \in DOMAIN items' :
           entry'[items'[i]].val = IF i = k THEN v ELSE Cached[i]
  PROVE  Cached' \in AfterPut(Cached, k, v)
<1> DEFINE keys == DOMAIN Cached \union {k}
<1>1. DOMAIN Cached = DOMAIN items
  BY DEF Cached
<1>2. Cached' = [i \in keys \ {old} |-> IF i = k THEN v ELSE Cached[i]]
  BY <1>1 DEF Cached
<1> QED
  BY <1>1, <1>2 DEF AfterPut

(* A disabled cache holds nothing, and keeps nothing. *)
LEMMA DisabledIsAfterPut ==
  ASSUME IInv, NEW k \in Keys, NEW v \in Vals, PutDisabled(k, v)
  PROVE  Cached' \in AfterPut(Cached, k, v)
<1>1. DOMAIN items = {} /\ UNCHANGED <<items, entry>>
  BY DEF PutDisabled, IInv, RecencyInv, HistoryOK
<1> QED
  BY <1>1, OneForgotten

(* An overwrite changes the value of its key and no other. *)
LEMMA OverwriteIsAfterPut ==
  ASSUME IInv, NEW k \in Keys, NEW v \in Vals, PutExisting(k, v)
  PROVE  Cached' \in AfterPut(Cached, k, v)
<1>1. /\ k \in DOMAIN items /\ items' = items
      /\ entry' = [entry EXCEPT ![items[k]].val = v]
  BY DEF PutExisting
<1>2. \A i \in DOMAIN items : items[i] \in DOMAIN entry /\ entry[items[i]].key = i
  BY ListFacts DEF KeyAt
<1>3. entry[items[k]] \in Entry
  BY <1>1, <1>2 DEF IInv, TypeOK
<1>4. entry'[items[k]].val = v
  BY <1>1, <1>2, <1>3 DEF Entry
<1>5. \A i \in DOMAIN items : i # k => entry'[items[i]] = entry[items[i]]
  BY <1>1, <1>2
<1>6. \A i \in DOMAIN items' : entry'[items'[i]].val = IF i = k THEN v ELSE Cached[i]
  <2> SUFFICES ASSUME NEW i \in DOMAIN items
               PROVE  entry'[items[i]].val = IF i = k THEN v ELSE Cached[i]
    BY <1>1
  <2>1. CASE i = k
    BY <1>4, <2>1
  <2>2. CASE i # k
    BY <1>5, <2>2 DEF Cached
  <2> QED
    BY <2>1, <2>2
<1>7. DOMAIN items' = DOMAIN items \union {k}
  BY <1>1
<1> QED
  BY <1>6, <1>7, NothingForgotten

(* A new key pushes out the key at the back of a full list, or none. *)
LEMMA NewKeyIsAfterPut ==
  ASSUME IInv, NEW k \in Keys, NEW v \in Vals, PutNew(k, v)
  PROVE  Cached' \in AfterPut(Cached, k, v)
<1>1. PICK e \in Elem \ DOMAIN entry, w \in 1..(Len(ll) + 1) :
        /\ (w = Len(ll) + 1 /\ w <= cap) \/ (w = Len(ll) /\ w = cap)
        /\ ll' = [i \in 1..w |-> IF i = 1 THEN e ELSE ll[i-1]]
        /\ DOMAIN items' = {k} \union {KeyAt(i) : i \in 1..(w-1)}
        /\ items'[k] = e /\ \A i \in 1..(w-1) : items'[KeyAt(i)] = ll[i]
        /\ DOMAIN entry' = {e} \union {ll[i] : i \in 1..(w-1)}
        /\ entry'[e] = [key |-> k, val |-> v]
        /\ \A i \in 1..(w-1) : entry'[ll[i]] = entry[ll[i]]
  BY PutNewShape
<1> DEFINE n == Len(ll)
<1>2. k \notin DOMAIN items /\ n \in Nat /\ w \in Nat \ {0}
  BY ListFacts DEF PutNew
<1>3. /\ DOMAIN items = {KeyAt(i) : i \in 1..n}
      /\ \A i \in 1..n : items[KeyAt(i)] = ll[i]
      /\ \A i, j \in 1..n : KeyAt(i) = KeyAt(j) => i = j
  <2>1. \A i \in 1..n : KeyAt(i) \in DOMAIN items /\ items[KeyAt(i)] = ll[i]
    BY ListFacts
  <2>2. \A j \in DOMAIN items : \E i \in 1..n : j = KeyAt(i)
    BY ListFacts
  <2>3. DOMAIN items = {KeyAt(i) : i \in 1..n}
    BY <2>1, <2>2
  <2>4. \A i, j \in 1..n : KeyAt(i) = KeyAt(j) => i = j
    BY ListFacts
  <2> QED
    BY <2>1, <2>3, <2>4
<1>4. \A i \in 1..(w-1) : i \in 1..n
  BY <1>1, <1>2
<1>5. \A j \in DOMAIN items' : entry'[items'[j]].val = IF j = k THEN v ELSE Cached[j]
  <2> SUFFICES ASSUME NEW j \in DOMAIN items'
               PROVE  entry'[items'[j]].val = IF j = k THEN v ELSE Cached[j]
    OBVIOUS
  <2>1. CASE j = k
    BY <1>1, <2>1
  <2>2. CASE j # k
    <3>1. PICK i \in 1..(w-1) : j = KeyAt(i)
      BY <1>1, <2>2
    <3>2. items'[j] = ll[i] /\ entry'[ll[i]] = entry[ll[i]]
      BY <1>1, <3>1
    <3>3. j \in DOMAIN items /\ items[j] = ll[i]
      BY <1>3, <1>4, <3>1
    <3> QED
      BY <2>2, <3>2, <3>3 DEF Cached
  <2> QED
    BY <2>1, <2>2
<1>6. CASE w = n + 1
  <2>1. 1..(w-1) = 1..n
    BY <1>2, <1>6
  <2>2. DOMAIN items' = DOMAIN items \union {k}
    BY <1>1, <1>3, <2>1
  <2> QED
    BY <1>5, <2>2, NothingForgotten
<1>7. CASE w = n
  <2>1. n \in 1..n /\ KeyAt(n) \in DOMAIN items /\ KeyAt(n) # k
    BY <1>2, <1>3, <1>7
  <2>2. \A i \in 1..n : i \in 1..(n-1) <=> i # n
    BY <1>2
  <2>3. \A i \in 1..n : KeyAt(i) = KeyAt(n) <=> i = n
    BY <1>3, <2>1
  <2>4. DOMAIN items' = (DOMAIN items \union {k}) \ {KeyAt(n)}
    BY <1>1, <1>3, <1>4, <1>7, <2>1, <2>2, <2>3
  <2> QED
    BY <1>2, <1>5, <2>1, <2>4, OneForgotten
<1> QED
  BY <1>1, <1>6, <1>7

(* Every call of the cache is the corresponding call of MapCache. *)
LEMMA MapStepRefines ==
  ASSUME IInv, [HNext]_hvars
  PROVE  [MC!MapNext]_MC!mapVars
<1> USE DEF Miss, Hit, NoRet, MC!Miss, MC!Hit, MC!NoRet
<1>1. DOMAIN Cached = DOMAIN items /\ (cap <= 0 => DOMAIN items = {})
  BY DEF Cached, IInv, RecencyInv, HistoryOK
<1>2. ASSUME NEW k \in Keys, HGetMiss(k) PROVE MC!MapGet(k)
  <2>1. k \notin DOMAIN Cached /\ ret' = Miss /\ UNCHANGED <<items, entry>>
    BY <1>1, <1>2 DEF HGetMiss, GetMiss
  <2> QED
    BY <2>1 DEF MC!MapGet, Cached
<1>3. ASSUME NEW k \in Keys, HGetHit(k) PROVE MC!MapGet(k)
  <2>1. /\ k \in DOMAIN Cached /\ ret' = Hit(entry[items[k]].val)
        /\ UNCHANGED <<items, entry>>
    BY <1>1, <1>3 DEF HGetHit, GetHit
  <2> QED
    BY <2>1 DEF MC!MapGet, Cached
<1>4. ASSUME NEW k, NEW v PROVE MC!AfterPut(Cached, k, v) = AfterPut(Cached, k, v)
  BY DEF AfterPut, MC!AfterPut
<1>5. ASSUME NEW k \in Keys, NEW v \in Vals, HPutDisabled(k, v) PROVE MC!MapPut(k, v)
  <2>1. PutDisabled(k, v) /\ ret' = NoRet
    BY <1>5 DEF HPutDisabled, PutDisabled
  <2> QED
    BY <1>4, <2>1, DisabledIsAfterPut DEF MC!MapPut
<1>6. ASSUME NEW k \in Keys, NEW v \in Vals, HPut(k, v) PROVE MC!MapPut(k, v)
  <2>1. ret' = NoRet /\ (PutExisting(k, v) \/ PutNew(k, v))
    BY <1>6 DEF HPut, PutExisting, PutNew
  <2> QED
    BY <1>4, <2>1, OverwriteIsAfterPut, NewKeyIsAfterPut DEF MC!MapPut
<1>7. CASE UNCHANGED hvars
  BY <1>7 DEF hvars, MC!mapVars, Cached
<1> QED
  BY <1>2, <1>3, <1>5, <1>6, <1>7 DEF HNext, MC!MapNext

(* cache.go implements MapCache: for any capacity, a call changes the      *)
(* value of no other key, and a key is forgotten only by a Put of a new    *)
(* one, which forgets one at most.                                         *)
THEOREM CacheIsMap == HSpec => MC!MapSpec
<1>1. HInit => MC!MapInit
  BY DEF HInit, Init, MC!MapInit, Cached, NoRet, MC!NoRet
<1>2. IInv /\ [HNext]_hvars => [MC!MapNext]_MC!mapVars
  BY MapStepRefines
<1> QED
  BY <1>1, <1>2, Invariance, PTL DEF HSpec, MC!MapSpec

(* cache.go implements RecencyCache: a lookup hits exactly when fewer than *)
(* cap other keys were used since the last use of its key, and answers the *)
(* latest value; and it implements the map the pages take it for.          *)
THEOREM CacheRefinement == HSpec => Refinement
<1>1. HInit => RC!AbsInit
  BY DEF HInit, Init, RC!AbsInit, NoRet, RC!NoRet
<1>2. IInv /\ [HNext]_hvars => [RC!AbsNext]_RC!absVars
  BY StepRefines
<1> QED
  BY <1>1, <1>2, Invariance, CacheIsMap, PTL DEF HSpec, RC!AbsSpec, Refinement
=============================================================================
