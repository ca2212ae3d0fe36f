------------------------------- MODULE Client -------------------------------
(***************************************************************************)
(* The JSON-RPC client (internal/rpc/client.go) and the credentials it     *)
(* reads (ResolveAuth in internal/config/config.go), against a node that   *)
(* is shut down, crashes and starts again: each start writes a new cookie  *)
(* file, an orderly stop deletes it, a crash leaves it behind.             *)
(***************************************************************************)
EXTENDS Naturals

CONSTANT MaxRestarts    \* bound on starts of the node

ASSUME RestartsAssumption == MaxRestarts \in Nat

NoFile == 0

VARIABLES
  mode,      \* how RPC auth is configured
  node,      \* whether the node answers
  secret,    \* the password of the last cookie the node wrote
  cookie,    \* the password in the cookie file, or NoFile
  call       \* the call under way, or the last one

nodeVars == <<node, secret, cookie>>
clientVars == <<mode, nodeVars, call>>

(* at: no call yet, about to resolve the credentials, sent, over.  gen is  *)
(* for checking only: the node's secret when the credentials were read.    *)
Call == [at : {"none", "auth", "sent", "over"}, creds : 0..(MaxRestarts + 1),
         gen : 0..(MaxRestarts + 1),
         out : {"none", "result", "notfound", "rpcerror", "nocookie",
                "badcookie", "unauthorized", "garbled", "failed"}]

NoCall  == [at |-> "none", creds |-> NoFile, gen |-> 0, out |-> "none"]
NewCall == [NoCall EXCEPT !.at = "auth"]

ClientInit ==
  /\ mode \in {"cookie", "userpass"}
  /\ node = "up" /\ secret = 1 /\ cookie = 1
  /\ call = NoCall
-----------------------------------------------------------------------------
(* The node (external). *)

(* An orderly stop: no more answers, then the cookie file is deleted. *)
Shutdown ==
  /\ node = "up"
  /\ node' = "stopping"
  /\ UNCHANGED <<secret, cookie>>

CookieDeleted ==
  /\ node = "stopping"
  /\ node' = "down" /\ cookie' = NoFile
  /\ UNCHANGED secret

Crash ==
  /\ node # "down"
  /\ node' = "down"
  /\ UNCHANGED <<secret, cookie>>

(* A start: the new cookie replaces the file, then the node answers. *)
Start ==
  /\ node = "down" /\ secret <= MaxRestarts
  /\ node' = "starting" /\ secret' = secret + 1 /\ cookie' = secret'

Ready ==
  /\ node = "starting"
  /\ node' = "up"
  /\ UNCHANGED <<secret, cookie>>

NodeStep ==
  /\ Shutdown \/ CookieDeleted \/ Crash \/ Start \/ Ready
  /\ UNCHANGED <<mode, call>>
-----------------------------------------------------------------------------
(* do: the credentials, the request, the response. *)
CallEnds(o) == call' = [call EXCEPT !.at = "over", !.out = o]

(* Slip: a cookie that was read once is used from then on. *)
ResolveOnce ==
  /\ call.at = "auth"
  /\ \/ /\ mode = "cookie" /\ cookie = NoFile
        /\ CallEnds("nocookie")
     \/ /\ mode = "cookie" => cookie # NoFile
        /\ call' = [call EXCEPT !.at = "sent", !.creds = 1, !.gen = secret]
  /\ UNCHANGED <<mode, nodeVars>>

(* ResolveAuth, once per call: the cookie file as it is now; it may be     *)
(* missing, and when it is there it may be unreadable or hold no colon.    *)
ResolveAuth ==
  /\ call.at = "auth"
  /\ \/ /\ mode = "cookie"
        /\ CallEnds(IF cookie = NoFile THEN "nocookie" ELSE "badcookie")
     \/ /\ mode = "cookie" => cookie # NoFile
        /\ call' = [call EXCEPT !.at = "sent", !.gen = secret,
                                !.creds = IF mode = "cookie" THEN cookie ELSE @]
  /\ UNCHANGED <<mode, nodeVars>>

Accepts == mode = "cookie" => call.creds = secret

(* 401. *)
Unauthorized ==
  /\ call.at = "sent" /\ node = "up" /\ ~Accepts
  /\ CallEnds("unauthorized")
  /\ UNCHANGED <<mode, nodeVars>>

(* The node answers one of outs, another RPC error (warming up), or, being *)
(* overloaded, a body that is not JSON.                                    *)
Responds(outs) ==
  /\ call.at = "sent" /\ node = "up" /\ Accepts
  /\ \E o \in outs \union {"rpcerror", "garbled"} : CallEnds(o)
  /\ UNCHANGED <<mode, nodeVars>>

(* Refused, timed out, cancelled, connection lost. *)
NoResponse ==
  /\ call.at = "sent"
  /\ CallEnds("failed")
  /\ UNCHANGED <<mode, nodeVars>>

Do(outs) == ResolveAuth \/ Unauthorized \/ Responds(outs) \/ NoResponse
-----------------------------------------------------------------------------
(* Types; a call is sent with the cookie that was read, never without.     *)
ClientTypeOK ==
  /\ mode \in {"cookie", "userpass"}
  /\ node \in {"up", "stopping", "down", "starting"}
  /\ secret \in 1..(MaxRestarts + 1) /\ cookie \in {NoFile, secret}
  /\ call \in Call
  /\ call.at = "sent" /\ mode = "cookie" => call.creds # NoFile

(* ResolveAuth: the file is "read fresh on every call so that cookie       *)
(* rotation is picked up".  A call is refused only if the node wrote a new *)
(* cookie after the call had read the file: a stale cookie is never used   *)
(* twice, and a file that a crash left behind is never offered to a node   *)
(* that has started again since.                                           *)
RefusedOnlyByRotation == call.out = "unauthorized" => call.gen < secret
=============================================================================
