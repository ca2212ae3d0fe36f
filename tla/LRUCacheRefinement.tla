------------------------- MODULE LRUCacheRefinement -------------------------
(***************************************************************************)
(* LRUCache with two history variables, which no action reads: the keys    *)
(* used since each key's last use, and the latest value stored for it.     *)
(* With them the list and map of cache.go implement RecencyCache.          *)
(***************************************************************************)
EXTENDS LRUCache, FiniteSets

VARIABLES
  since,    \* history: key |-> the other keys used since its last use
  latest    \* history: key |-> the value of its latest Put

hvars == <<cap, ll, items, entry, ret, since, latest>>

RC == INSTANCE RecencyCache

HInit ==
  /\ Init
  /\ since = [k \in {} |-> k]
  /\ latest = [k \in {} |-> k]

HGetMiss(k) == GetMiss(k) /\ UNCHANGED <<since, latest>>

HGetHit(k) ==
  /\ GetHit(k)
  /\ since' = RC!Used(since, k)
  /\ UNCHANGED latest

HPutDisabled(k, v) == PutDisabled(k, v) /\ UNCHANGED <<since, latest>>

HPut(k, v) ==
  /\ PutExisting(k, v) \/ PutNew(k, v)
  /\ since' = RC!Used(since, k)
  /\ latest' = RC!Stored(latest, k, v)

HNext ==
  \E k \in Keys :
    \/ HGetMiss(k) \/ HGetHit(k)
    \/ \E v \in Vals : HPutDisabled(k, v) \/ HPut(k, v)

HSpec == HInit /\ [][HNext]_hvars
-----------------------------------------------------------------------------
(* The key the element at position i of the list carries. *)
KeyAt(i) == entry[ll[i]].key

(* The list orders the cached keys by recency. *)
OrderedByUse ==
  \A i \in DOMAIN ll : since[KeyAt(i)] = { KeyAt(j) : j \in 1..(i-1) }

(* A key that was stored and is no longer cached was pushed out of a full  *)
(* cache by the keys in it, all of them used after it.                     *)
PushedOutByUse ==
  \A k \in DOMAIN since \ DOMAIN items :
    Len(ll) = cap /\ \A i \in DOMAIN ll : KeyAt(i) \in since[k]

CachedIsLatest == \A i \in DOMAIN ll : entry[ll[i]].val = latest[KeyAt(i)]

HistoryOK ==
  /\ DOMAIN since = DOMAIN latest /\ DOMAIN items \subseteq DOMAIN since
  /\ cap <= 0 => DOMAIN since = {}
  /\ \A k \in DOMAIN since : IsFiniteSet(since[k])

(* What makes evicting the back of the list right: the keys used since the *)
(* one at position i of the list are those ahead of it, and every key that *)
(* was evicted is older than all that are cached, whose values are the     *)
(* latest stored ones.                                                     *)
RecencyInv ==
  OrderedByUse /\ PushedOutByUse /\ CachedIsLatest /\ HistoryOK

(* The list and the map as the map of values that callers know. *)
Cached == [k \in DOMAIN items |-> entry[items[k]].val]

MC == INSTANCE MapCache WITH cache <- Cached

(* The cache of cache.go is an LRU cache: a Get hits exactly when fewer    *)
(* than cap other keys were used since the last use of its key, and then   *)
(* returns the value of the latest Put.  It is also the map that the pages *)
(* take it for: a call changes the value of no other key, only a Put of a  *)
(* new key evicts, and one entry at most.                                  *)
Refinement == RC!AbsSpec /\ MC!MapSpec
=============================================================================
