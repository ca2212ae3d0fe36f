------------------------------ MODULE MapCache ------------------------------
(***************************************************************************)
(* The cache as the handlers use it (cachedCall, cachedTx): a map that     *)
(* answers a key it holds with its value, and that may forget one entry    *)
(* when a new key is put, whichever.  No handler relies on which.          *)
(***************************************************************************)
EXTENDS CacheCalls

CONSTANTS Keys, Vals

VARIABLES
  cache,    \* key |-> value
  ret       \* what the last call returned

mapVars == <<cache, ret>>

MapInit == cache = [k \in {} |-> k] /\ ret = NoRet

MapGet(k) ==
  /\ ret' = IF k \in DOMAIN cache THEN Hit(cache[k]) ELSE Miss
  /\ UNCHANGED cache

MapPut(k, v) ==
  /\ cache' \in AfterPut(cache, k, v)
  /\ ret' = NoRet

MapNext == \E k \in Keys : MapGet(k) \/ \E v \in Vals : MapPut(k, v)

MapSpec == MapInit /\ [][MapNext]_mapVars
=============================================================================
