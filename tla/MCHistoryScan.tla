--------------------------- MODULE MCHistoryScan ---------------------------
(* Two tabs over two addresses: a scan in the slot and one it displaced    *)
(* that still runs, or is delivered.  No SYMMETRY: the run checks liveness.*)
EXTENDS HistoryScan
=============================================================================
