----------------------------- MODULE MCLRUCache -----------------------------
(* Capacities on both sides of the boundaries of New: disabled by a        *)
(* negative value and by 0, a cache of one entry, one that evicts with all *)
(* its neighbours present, and one that never fills.                       *)
EXTENDS LRUCacheRefinement, TLC

MCCapacities == {-1, 0, 1, 2, 3, 5}

(* Keys and elements enter only by equality and no property names one; the *)
(* values likewise.                                                        *)
Symmetry == Permutations(Keys) \union Permutations(Elem)
              \union Permutations(Vals)
=============================================================================
