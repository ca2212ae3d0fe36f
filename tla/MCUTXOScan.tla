----------------------------- MODULE MCUTXOScan -----------------------------
(* Two tabs, on one address or on two: they race for the slot, and one may *)
(* replace the job the other is about to read.  Three identities are then  *)
(* never short: the old job in the slot, one held by a request, the new    *)
(* one.  UTXOScanProofs proves the safety properties for any number.       *)
EXTENDS UTXOScan
=============================================================================
