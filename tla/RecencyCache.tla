---------------------------- MODULE RecencyCache ----------------------------
(***************************************************************************)
(* What the bounded cache of internal/cache promises, with no list, no map *)
(* and no eviction.  For every key ever stored it remembers the latest     *)
(* value and the set of other keys used since its own last use (the reuse  *)
(* distance).  A lookup hits exactly when fewer than `cap' other keys have *)
(* been used since, and answers the latest value; a lookup that misses is  *)
(* not a use.                                                              *)
(***************************************************************************)
EXTENDS Integers, FiniteSets, CacheCalls

CONSTANTS Keys, Vals, Capacities

VARIABLES
  cap,      \* the capacity given to New
  since,    \* key |-> the other keys used since its last use
  latest,   \* key |-> the value of its latest Put
  ret       \* what the last call returned

absVars == <<cap, since, latest, ret>>

(* The keys a cache of capacity cap still holds. *)
Held == { k \in DOMAIN since : Cardinality(since[k]) < cap }

(* k becomes the most recently used key of the reuse record s. *)
Used(s, k) == [j \in DOMAIN s \union {k} |->
                 IF j = k THEN {} ELSE s[j] \union {k}]

Stored(s, k, v) == [j \in DOMAIN s \union {k} |-> IF j = k THEN v ELSE s[j]]

AbsInit ==
  /\ cap \in Capacities
  /\ since = [k \in {} |-> k]
  /\ latest = [k \in {} |-> k]
  /\ ret = NoRet

AbsGet(k) ==
  /\ UNCHANGED <<cap, latest>>
  /\ \/ k \in Held    /\ ret' = Hit(latest[k]) /\ since' = Used(since, k)
     \/ k \notin Held /\ ret' = Miss           /\ UNCHANGED since

AbsPut(k, v) ==
  /\ ret' = NoRet
  /\ UNCHANGED cap
  /\ \/ cap > 0  /\ since' = Used(since, k) /\ latest' = Stored(latest, k, v)
     \/ cap <= 0 /\ UNCHANGED <<since, latest>>

AbsNext == \E k \in Keys : AbsGet(k) \/ \E v \in Vals : AbsPut(k, v)

AbsSpec == AbsInit /\ [][AbsNext]_absVars
=============================================================================
