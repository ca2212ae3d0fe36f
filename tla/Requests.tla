------------------------------ MODULE Requests ------------------------------
(***************************************************************************)
(* Search and the pages it leads to (internal/handlers, ProbeHex in        *)
(* internal/explorer/search.go), through the client: how a string is       *)
(* classified and probed, what the page's own validation makes of it, and  *)
(* which status an error becomes.  Requests share nothing but the cache,   *)
(* so there is one browser here.  Of a page only its first failing call    *)
(* matters; how its parts come together is in Pages and Overview.          *)
(***************************************************************************)
EXTENDS Client

VARIABLES
  req,     \* the request under way
  page,    \* the last answer
  thing,   \* what the string of the request names on the node
  past     \* history: since the tab asked, was it there, did a call fail

vars == <<clientVars, req, page, thing, past>>

(* What the handlers tell apart of a string.  hexdigits: 64 decimal        *)
(* digits, a number too large to be a height (one padded with zeros to 64  *)
(* is among the digits); almost: it has the prefix of an address, and a    *)
(* length or a character that no address has; word: 10 to 100 letters and  *)
(* digits.                                                                 *)
Shape == {"empty", "digits", "hex", "hexdigits", "address", "almost",
          "word", "other"}

isAllDigits      == {"digits", "hexdigits"}
isHex64          == {"hex", "hexdigits"}
LooksLikeAddress == {"address", "almost"}
validBlockID     == isAllDigits \union isHex64
validTxid        == isHex64
validAddr        == {"hex", "hexdigits", "address", "word"}

(* A hash names a block or a transaction, a number a height.               *)
Named(s) == IF s \in isHex64 THEN {"block", "tx", "nothing"}
            ELSE IF s = "digits" THEN {"block"} ELSE {"nothing"}

NoRequest == [by |-> "none", via |-> "none", shape |-> "empty", step |-> "none"]
Request(h, via, s) == [by |-> h, via |-> via, shape |-> s, step |-> "start"]

NoPage == [status |-> 0, by |-> "none", via |-> "none", shape |-> "empty",
           out |-> "none"]

Init ==
  /\ ClientInit
  /\ req = NoRequest /\ page = NoPage
  /\ thing = [names |-> "nothing", found |-> FALSE]
  /\ past = [always |-> FALSE, trouble |-> FALSE]
-----------------------------------------------------------------------------
(* A tab searches, or follows a link or a bookmark. *)
Open ==
  /\ req = NoRequest
  /\ \E s \in Shape, h \in {"search", "block", "tx", "address"} :
       /\ req' = Request(h, "none", s)
       /\ \E n \in Named(s), f \in BOOLEAN :
            /\ n = "nothing" => ~f
            /\ thing' = [names |-> n, found |-> f]
            /\ past' = [always |-> f, trouble |-> FALSE]
  /\ page' = NoPage
  /\ UNCHANGED clientVars

Answer(status, out) ==
  /\ page' = [status |-> status, by |-> req.by, via |-> req.via,
              shape |-> req.shape, out |-> out]
  /\ req' = NoRequest /\ call' = NoCall

(* 302, which the browser follows. *)
Redirect(h) ==
  /\ req' = Request(h, req.by, req.shape) /\ call' = NoCall
  /\ UNCHANGED page

Ask(method) ==
  /\ req' = [req EXCEPT !.step = method]
  /\ call' = NewCall
  /\ UNCHANGED page

(* Handlers.Search. *)
Search ==
  /\ req.by = "search" /\ req.step = "start"
  /\ \/ req.shape = "empty" /\ Answer(302, "none")
     \/ req.shape \in isAllDigits /\ Redirect("block")
     \/ req.shape \in isHex64 \ isAllDigits /\ Ask("getblockheader")
     \/ req.shape \in LooksLikeAddress /\ Redirect("address")
     \/ req.shape \in {"word", "other"} /\ Answer(404, "none")

(* Handlers.Block: a height of 64 digits is no int64. *)
Block ==
  /\ req.by = "block" /\ req.step = "start"
  /\ \/ req.shape \notin validBlockID /\ Answer(400, "none")
     \/ req.shape = "digits"    /\ Ask("getblockhash")
     \/ req.shape = "hexdigits" /\ Answer(404, "badid")
     \/ req.shape = "hex"       /\ Ask("getblock")

(* Handlers.Tx. *)
Tx ==
  /\ req.by = "tx" /\ req.step = "start"
  /\ \/ req.shape \notin validTxid /\ Answer(400, "none")
     \/ req.shape \in validTxid    /\ Ask("getrawtransaction")

(* Handlers.Address. *)
Address ==
  /\ req.by = "address" /\ req.step = "start"
  /\ \/ req.shape \notin validAddr /\ Answer(400, "none")
     \/ req.shape \in validAddr    /\ Ask("validateaddress")

(* cachedCall, cachedTx: blocks that were shown before, and transactions   *)
(* even if the node has dropped them since.                                *)
Cached ==
  /\ req.by \in {"block", "tx"} /\ call = NewCall
  /\ \/ req.step = "getblock" /\ thing.names = "block" /\ thing.found
     \/ req.step = "getrawtransaction" /\ thing.names = "tx"
  /\ Answer(200, "result")
-----------------------------------------------------------------------------
(* What the node answers to the method: the object, or its error for one   *)
(* that it does not have.  validateaddress has an answer to every string.  *)
Outs ==
  LET has(kind) == IF thing.names = kind /\ thing.found THEN {"result"}
                   ELSE {"notfound"}
  IN  CASE req.step \in {"getblockheader", "getblockhash", "getblock"} -> has("block")
        [] req.step = "getrawtransaction" -> has("tx")
        [] req.step = "validateaddress" -> {"result"}
        [] OTHER -> {}

(* Slip: the error texts are compared, not searched, so that the node's    *)
(* "Block not found" is missed.                                            *)
LooksNotFoundExactly == call.out \in {"nocookie", "garbled"}

(* httpError: the error texts that hold "not found" ("Block not found"),   *)
(* "no such" (the cookie file: "no such file or directory") or "invalid"   *)
(* (a body that is not JSON: "invalid character").  The node's "Block      *)
(* height out of range" and "No such mempool transaction" hold none.       *)
LooksNotFound ==
  \/ call.out \in {"nocookie", "garbled"}
  \/ call.out = "notfound" /\ req.step \in {"getblock", "getblockheader"}

ProbedBlock == req.step = "getblockheader"   /\ call.at = "over"
ProbedTx    == req.step = "getrawtransaction" /\ req.by = "search"
                 /\ call.at = "over"
Hit == call.out = "result"

(* Slip: an error of the first probe ends the search. *)
ProbedBlocksOnly ==
  \/ ProbedBlock /\ Hit  /\ Redirect("block")
  \/ ProbedBlock /\ ~Hit /\ Answer(404, call.out)

(* Slip: whatever comes back from the second probe is taken for a hit. *)
ProbedLoosely ==
  \/ ProbedBlock /\ Hit  /\ Redirect("block")
  \/ ProbedBlock /\ ~Hit /\ Ask("getrawtransaction")
  \/ ProbedTx /\ Redirect("tx")

(* Slip: the probes are made again as long as neither answers. *)
ProbedAgain ==
  \/ ProbedBlock /\ Hit  /\ Redirect("block")
  \/ ProbedBlock /\ ~Hit /\ Ask("getrawtransaction")
  \/ ProbedTx /\ Hit  /\ Redirect("tx")
  \/ ProbedTx /\ ~Hit /\ Ask("getblockheader")

(* ProbeHex, and what Search makes of it: every error is a miss. *)
Probed ==
  \/ ProbedBlock /\ Hit  /\ Redirect("block")
  \/ ProbedBlock /\ ~Hit /\ Ask("getrawtransaction")
  \/ ProbedTx /\ Hit  /\ Redirect("tx")
  \/ ProbedTx /\ ~Hit /\ Answer(404, call.out)

(* The page, or httpError. *)
Built ==
  /\ req.by \in {"block", "tx", "address"} /\ call.at = "over"
  /\ \/ Hit /\ req.step = "getblockhash" /\ Ask("getblock")
     \/ Hit /\ req.step # "getblockhash" /\ Answer(200, "result")
     \/ ~Hit /\ Answer(IF LooksNotFound THEN 404 ELSE 500, call.out)

(* The handlers, and the calls they make. *)
Handler ==
  /\ Search \/ Block \/ Tx \/ Address \/ Cached \/ Probed \/ Built
  /\ UNCHANGED <<mode, nodeVars, thing, past>>

Calling ==
  /\ Do(Outs)
  /\ past' = IF call'.out \in {"none", "result", "notfound"} THEN past
             ELSE [past EXCEPT !.trouble = TRUE]
  /\ UNCHANGED <<req, page, thing>>

Handle == Handler \/ Calling

NodeMoves == NodeStep /\ UNCHANGED <<req, page, thing, past>>

(* A block arrives; a transaction arrives, or leaves the node.             *)
ThingMoves ==
  /\ req # NoRequest
  /\ \/ thing.names = "block" /\ ~thing.found
     \/ thing.names = "tx"
  /\ thing' = [thing EXCEPT !.found = ~@]
  /\ past' = [past EXCEPT !.always = FALSE]
  /\ UNCHANGED <<clientVars, req, page>>

Next == Open \/ Handle \/ NodeMoves \/ ThingMoves

Spec == Init /\ [][Next]_vars

(* Handlers run on, browsers follow a redirect, calls end after 30 s.      *)
FairSpec == Spec /\ WF_vars(Handle)
-----------------------------------------------------------------------------
(* Types, those of the client included. *)
TypeOK ==
  /\ ClientTypeOK
  /\ req \in [by : {"none", "search", "block", "tx", "address"},
              via : {"none", "search"}, shape : Shape,
              step : {"none", "start", "getblockheader", "getrawtransaction",
                      "getblockhash", "getblock", "validateaddress"}]
  /\ page.status \in {0, 200, 302, 400, 404, 500}
  /\ thing \in [names : {"block", "tx", "nothing"}, found : BOOLEAN]
  /\ past \in [always : BOOLEAN, trouble : BOOLEAN]

(* A search never sends the browser astray: a hash is redirected to the    *)
(* kind of thing it is, but for one that happens to be 64 decimal digits,  *)
(* which is always taken for a height; and the page that the search leads  *)
(* to does not reject the string, but for what merely starts like an       *)
(* address.                                                                *)
RedirectIsRight ==
  /\ req.via = "search" /\ req.shape \in isHex64 =>
       \/ req.by = thing.names
       \/ req.shape \in isAllDigits /\ req.by = "block"
  /\ page.via = "search" /\ page.status = 400 => page.shape = "almost"

Searched == "search" \in {page.by, page.via}
Found    == page.status = 200 /\ page.by = thing.names

(* What the node has during the whole search is found and shown, unless a  *)
(* call failed: every other failure of ProbeHex and of the page is "not    *)
(* found".  A hash of 64 decimal digits is the exception: it is not found, *)
(* and nothing else is shown in its place.                                 *)
WhatIsThereIsFound ==
  Searched => \/ Found \/ past.trouble \/ ~past.always
              \/ page.shape \in isHex64 \intersect isAllDigits /\ page.status = 404

(* The server takes the blame (500) only if a call was in trouble, or for  *)
(* a height or a transaction that the node did not have all along: to      *)
(* httpError those are no "not found", while the hash of an absent block   *)
(* is, and what is there is never an error of its own.                     *)
ServerErrorIsEarned ==
  page.status = 500 =>
    \/ past.trouble
    \/ /\ page.by = "tx" \/ page.shape = "digits"
       /\ ~(past.always /\ thing.names = page.by)

(* Every request is answered, redirects followed. *)
EveryRequestEnds == req # NoRequest ~> req = NoRequest
=============================================================================
