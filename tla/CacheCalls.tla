----------------------------- MODULE CacheCalls -----------------------------
(***************************************************************************)
(* What a caller of internal/cache sees of a call: what Get and Put        *)
(* return, and the map of entries that a Put may leave.                    *)
(***************************************************************************)
Miss   == [hit |-> FALSE]
Hit(v) == [hit |-> TRUE, val |-> v]
NoRet  == [hit |-> FALSE, put |-> TRUE]   \* Put returns nothing

(* The maps that the Put of v for key may leave of map c: one entry at     *)
(* most is evicted, and none by an overwrite; the new one itself is not    *)
(* kept when the cache is disabled.                                        *)
AfterPut(c, key, v) ==
  LET keys == DOMAIN c \union {key}
  IN  { [i \in keys \ gone |-> IF i = key THEN v ELSE c[i]] :
          gone \in {{}} \union {{i} : i \in IF key \in DOMAIN c THEN {} ELSE keys} }
=============================================================================
