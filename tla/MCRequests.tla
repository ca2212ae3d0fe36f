----------------------------- MODULE MCRequests -----------------------------
(* Two starts of the node: a cookie is replaced after an orderly stop, and *)
(* after a crash that left the old one behind.                             *)
EXTENDS Requests
=============================================================================
