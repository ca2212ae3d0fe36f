------------------------------ MODULE LRUCache ------------------------------
(***************************************************************************)
(* The bounded LRU cache of internal/cache/cache.go: a doubly linked list  *)
(* `ll' of elements, most recently used first, and a map `items' from a    *)
(* key to its element.  Get and Put hold c.mu from their first access to   *)
(* the list to their return, so each is one atomic action, whichever       *)
(* goroutine calls it.                                                     *)
(***************************************************************************)
EXTENDS Integers, Sequences, Functions, CacheCalls

CONSTANTS
  Keys,        \* cache keys ("blk:<hash>", "tx:<txid>", ...)
  Vals,        \* cached payloads
  Elem,        \* identities of *list.Element, reused once collected
  Capacities   \* the capacities New may be called with

ASSUME CapacitiesAssumption == Capacities \subseteq Int

VARIABLES
  cap,     \* c.cap
  ll,      \* c.ll, front first
  items,   \* c.items: the keys present |-> their element
  entry,   \* the entry each live element carries
  ret      \* what the last call returned

vars == <<cap, ll, items, entry, ret>>

Entry == [key : Keys, val : Vals]
-----------------------------------------------------------------------------
(* list.MoveToFront: the elements ahead of e move back by one. *)
MoveToFront(s, e) ==
  LET p == CHOOSE i \in DOMAIN s : s[i] = e
  IN  [i \in DOMAIN s |-> IF i = 1 THEN e ELSE IF i <= p THEN s[i-1] ELSE s[i]]

(* list.PushFront. *)
PushFront(s, e) == <<e>> \o s

(* f with x mapped to y. *)
Assign(f, x, y) == [z \in DOMAIN f \union {x} |-> IF z = x THEN y ELSE f[z]]

(* Slip: the element leaves the list and its key stays in the map. *)
EvictKeepsKey(s, m, c) ==
  LET back == s[Len(s)]
  IN  /\ ll' = SubSeq(s, 1, Len(s) - 1)
      /\ items' = m
      /\ entry' = Restrict(c, DOMAIN c \ {back})

(* evict, on the list, map and entries that Put has just extended. *)
Evict(s, m, c) ==
  LET back == s[Len(s)]
  IN  /\ ll' = SubSeq(s, 1, Len(s) - 1)
      /\ items' = Restrict(m, DOMAIN m \ {c[back].key})
      /\ entry' = Restrict(c, DOMAIN c \ {back})
-----------------------------------------------------------------------------
Init ==
  /\ cap \in Capacities
  /\ ll = <<>>
  /\ items = [k \in {} |-> k]
  /\ entry = [e \in {} |-> e]
  /\ ret = NoRet

GetMiss(k) ==
  /\ cap <= 0 \/ k \notin DOMAIN items
  /\ ret' = Miss
  /\ UNCHANGED <<cap, ll, items, entry>>

(* Slip: a hit is not a use. *)
GetHitInPlace(k) ==
  /\ cap > 0 /\ k \in DOMAIN items
  /\ ret' = Hit(entry[items[k]].val)
  /\ UNCHANGED <<cap, ll, items, entry>>

GetHit(k) ==
  /\ cap > 0 /\ k \in DOMAIN items
  /\ ll' = MoveToFront(ll, items[k])
  /\ ret' = Hit(entry[items[k]].val)
  /\ UNCHANGED <<cap, items, entry>>

(* A capacity <= 0: Put returns at once. *)
PutDisabled(k, v) ==
  /\ cap <= 0
  /\ ret' = NoRet
  /\ UNCHANGED <<cap, ll, items, entry>>

(* Slip: an overwrite is not a use. *)
PutExistingInPlace(k, v) ==
  /\ cap > 0 /\ k \in DOMAIN items
  /\ entry' = [entry EXCEPT ![items[k]].val = v]
  /\ ret' = NoRet
  /\ UNCHANGED <<cap, ll, items>>

PutExisting(k, v) ==
  /\ cap > 0 /\ k \in DOMAIN items
  /\ ll' = MoveToFront(ll, items[k])
  /\ entry' = [entry EXCEPT ![items[k]].val = v]
  /\ ret' = NoRet
  /\ UNCHANGED <<cap, items>>

(* Slip: one entry too many before evict is called. *)
PutNewLate(k, v) ==
  /\ cap > 0 /\ k \notin DOMAIN items
  /\ ret' = NoRet
  /\ UNCHANGED cap
  /\ \E e \in Elem \ DOMAIN entry :
       LET s == PushFront(ll, e)
           m == Assign(items, k, e)
           c == Assign(entry, e, [key |-> k, val |-> v])
       IN  \/ Len(s) > cap + 1  /\ Evict(s, m, c)
           \/ Len(s) <= cap + 1 /\ ll' = s /\ items' = m /\ entry' = c

PutNew(k, v) ==
  /\ cap > 0 /\ k \notin DOMAIN items
  /\ ret' = NoRet
  /\ UNCHANGED cap
  /\ \E e \in Elem \ DOMAIN entry :
       LET s == PushFront(ll, e)
           m == Assign(items, k, e)
           c == Assign(entry, e, [key |-> k, val |-> v])
       IN  \/ Len(s) > cap  /\ Evict(s, m, c)
           \/ Len(s) <= cap /\ ll' = s /\ items' = m /\ entry' = c

Get(k)    == GetMiss(k) \/ GetHit(k)
Put(k, v) == PutDisabled(k, v) \/ PutExisting(k, v) \/ PutNew(k, v)

Next == \E k \in Keys : Get(k) \/ \E v \in Vals : Put(k, v)

Spec == Init /\ [][Next]_vars
-----------------------------------------------------------------------------
(* Every variable has its type; in particular the list never outgrows the  *)
(* capacity New was given, whatever its sign.                              *)
TypeOK ==
  /\ cap \in Capacities
  /\ ll \in Seq(Elem)
  /\ Len(ll) <= IF cap > 0 THEN cap ELSE 0
  /\ DOMAIN items \subseteq Keys /\ items \in [DOMAIN items -> Elem]
  /\ DOMAIN entry \subseteq Elem /\ entry \in [DOMAIN entry -> Entry]
  /\ ret \in {Miss, NoRet} \union {Hit(v) : v \in Vals}

(* The list and the map describe the same set of entries: no element is    *)
(* listed twice, the listed elements are exactly the mapped ones, and an   *)
(* element is mapped from the key it carries.  A key left in the map after *)
(* evict would be answered forever and leak; one listed but not mapped     *)
(* would never be found and use up the capacity.                           *)
ListMatchesMap ==
  /\ \A i, j \in DOMAIN ll : ll[i] = ll[j] => i = j
  /\ Range(ll) = DOMAIN entry
  /\ \A i \in DOMAIN ll : LET k == entry[ll[i]].key
                          IN  k \in DOMAIN items /\ items[k] = ll[i]
  /\ \A k \in DOMAIN items : items[k] \in Range(ll) /\ entry[items[k]].key = k
=============================================================================
