--------------------------- MODULE RequestsProofs ---------------------------
(***************************************************************************)
(* Proofs about Requests and the Client under it, for any number of starts *)
(* of the node: type correctness, RefusedOnlyByRotation, RedirectIsRight,  *)
(* WhatIsThereIsFound and ServerErrorIsEarned.                             *)
(***************************************************************************)
EXTENDS Requests, TLAPS

(* Where a request can be: the steps of each handler, the strings that a   *)
(* search forwards, and that nothing is called between two requests.       *)
Route ==
  /\ req.by = "none"    => req = NoRequest
  /\ req.by = "search"  => /\ req.via = "none"
                           /\ req.step \in {"start", "getblockheader",
                                            "getrawtransaction"}
                           /\ req.step # "start" => req.shape = "hex"
  /\ req.by = "block"   => /\ req.step \in {"start", "getblockhash", "getblock"}
                           /\ req.step = "getblockhash" => req.shape = "digits"
                           /\ req.step # "start" => req.shape \in {"digits", "hex"}
                           /\ req.via = "search" =>
                                req.shape \in isAllDigits \union {"hex"}
  /\ req.by = "tx"      => /\ req.step \in {"start", "getrawtransaction"}
                           /\ req.via = "search" => req.shape = "hex"
  /\ req.by = "address" => /\ req.step \in {"start", "validateaddress"}
                           /\ req.via = "search" => req.shape \in LooksLikeAddress
  /\ req.step \in {"none", "start"} => call = NoCall
  /\ req # NoRequest => page = NoPage

(* What is known of a call: a cookie that was sent is the one of the time  *)
(* it was read, and the node's secrets only grow.                          *)
Sent ==
  /\ call.at \in {"none", "auth", "sent"} => call.out = "none"
  /\ call.at = "over" => call.out # "none"
  /\ call.at = "auth" => call = NewCall
  /\ call.at = "sent" => /\ call.gen <= secret
                         /\ mode = "cookie" => call.creds = call.gen

(* What an outcome tells of the string, and what is remembered of it.      *)
Learnt ==
  /\ req # NoRequest => thing.names \in Named(req.shape)
  /\ past.always => thing.found
  /\ thing.names = "nothing" => ~thing.found
  /\ call.out \notin {"none", "result", "notfound"} => past.trouble
  /\ call.out = "result" =>
       /\ req.step \in {"getblockheader", "getblockhash", "getblock"} =>
            thing.names = "block"
       /\ req.step = "getrawtransaction" => thing.names = "tx"
  /\ call.out = "notfound" /\ past.always =>
       /\ req.step \in {"getblockheader", "getblockhash", "getblock"} =>
            thing.names # "block"
       /\ req.step = "getrawtransaction" => thing.names # "tx"
  /\ call.out = "notfound" => req.step # "validateaddress"
  (* the second probe of a search is for a transaction *)
  /\ req.by = "search" /\ req.step = "getrawtransaction" /\ past.always =>
       past.trouble \/ thing.names = "tx"

IInv == /\ TypeOK /\ RefusedOnlyByRotation /\ RedirectIsRight
        /\ WhatIsThereIsFound /\ ServerErrorIsEarned
        /\ Route /\ Sent /\ Learnt
-----------------------------------------------------------------------------
(* Initially nothing was asked, called or learnt. *)
LEMMA InitIInv == Init => IInv
<1> SUFFICES ASSUME Init PROVE IInv
  OBVIOUS
<1>1. NoCall \in Call
  BY RestartsAssumption DEF NoCall, Call, NoFile
<1>2. TypeOK
  BY <1>1, RestartsAssumption
  DEF Init, ClientInit, TypeOK, ClientTypeOK, NoRequest, NoPage, Shape, NoCall, NoFile
<1> QED
  BY <1>2 DEF Init, ClientInit, IInv, RefusedOnlyByRotation, RedirectIsRight,
              WhatIsThereIsFound, Searched, Found, ServerErrorIsEarned, Route, Sent, Learnt,
      NoCall, NoRequest, NoPage

(* A new request starts without a call, a page or anything learnt. *)
LEMMA OpenStep == IInv /\ Open => IInv'
<1> SUFFICES ASSUME IInv, Open PROVE IInv'
  OBVIOUS
<1> PICK s \in Shape, h \in {"search", "block", "tx", "address"} :
      /\ req' = Request(h, "none", s)
      /\ \E n \in Named(s), f \in BOOLEAN :
           /\ n = "nothing" => ~f
           /\ thing' = [names |-> n, found |-> f]
           /\ past' = [always |-> f, trouble |-> FALSE]
  BY DEF Open
<1>1. PICK n \in Named(s), f \in BOOLEAN :
        /\ n = "nothing" => ~f
        /\ req' = Request(h, "none", s)
        /\ thing' = [names |-> n, found |-> f]
        /\ past' = [always |-> f, trouble |-> FALSE]
  OBVIOUS
<1>2. page' = NoPage /\ UNCHANGED clientVars /\ call = NoCall
  BY DEF Open, IInv, Route, NoRequest
<1>3. n \in {"block", "tx", "nothing"}
  BY DEF Named
<1>4. TypeOK'
  BY <1>1, <1>2, <1>3
  DEF IInv, TypeOK, ClientTypeOK, clientVars, nodeVars, Request, NoPage
<1>5. Route' /\ Sent'
  BY <1>1, <1>2 DEF IInv, Route, Sent, Request, NoRequest, clientVars, nodeVars
<1>6. Learnt'
  BY <1>1, <1>2, <1>3 DEF Learnt, Request, NoCall, clientVars, Named
<1> QED
  BY <1>1, <1>2, <1>4, <1>5, <1>6
  DEF IInv, RefusedOnlyByRotation, RedirectIsRight, WhatIsThereIsFound, Searched, Found,
      ServerErrorIsEarned, NoPage,
      NoCall, Request, clientVars, nodeVars
-----------------------------------------------------------------------------
(* The rest of the state, during a step of a handler. *)
Rest == UNCHANGED <<mode, nodeVars, thing, past>>

(* A string that can name nothing never names what is there. *)
LEMMA NothingIsThere ==
  ASSUME IInv, Named(req.shape) = {"nothing"}
  PROVE  req # NoRequest => ~past.always
BY DEF IInv, Learnt

(* An answer preserves the invariant if it is right. *)
LEMMA AnswerStep ==
  ASSUME IInv, Rest, NEW st \in {200, 302, 400, 404, 500}, NEW o, Answer(st, o),
         req.via = "search" /\ st = 400 => req.shape = "almost",
         Named(req.shape) # {"nothing"} /\ "search" \in {req.by, req.via} =>
           \/ st = 200 /\ req.by = thing.names
           \/ past.trouble \/ ~past.always
           \/ req.shape = "hexdigits" /\ st = 404,
         st = 500 => \/ past.trouble
                     \/ /\ req.by = "tx" \/ req.shape = "digits"
                        /\ ~(past.always /\ thing.names = req.by)
  PROVE  IInv'
<1>1. /\ req' = NoRequest /\ call' = NoCall
      /\ page' = [status |-> st, by |-> req.by, via |-> req.via,
                  shape |-> req.shape, out |-> o]
  BY DEF Answer
<1>2. NoCall \in Call
  BY RestartsAssumption DEF NoCall, Call, NoFile
<1>3. TypeOK'
  BY <1>1, <1>2 DEF IInv, TypeOK, ClientTypeOK, NoRequest, NoCall, Shape, Rest, nodeVars
<1>4. Route' /\ Sent' /\ Learnt'
  BY <1>1 DEF IInv, Route, Sent, Learnt, NoRequest, NoCall, Rest, nodeVars
<1>5. RedirectIsRight' /\ ServerErrorIsEarned'
  BY <1>1 DEF RedirectIsRight, ServerErrorIsEarned, NoRequest, Rest
<1>6. Named(req.shape) = {"nothing"} /\ "search" \in {req.by, req.via} => ~past.always
  BY NothingIsThere DEF NoRequest
<1>7. WhatIsThereIsFound'
  BY <1>1, <1>6
  DEF WhatIsThereIsFound, Searched, Found, Rest, isHex64, isAllDigits
<1> QED
  BY <1>1, <1>3, <1>4, <1>5, <1>7 DEF IInv, RefusedOnlyByRotation, NoCall

(* A redirect preserves it if it leads to a page of the right kind. *)
LEMMA RedirectStep ==
  ASSUME IInv, Rest, NEW h \in {"block", "tx", "address"}, Redirect(h),
         req.by = "search",
         h = "block"   => req.shape \in isAllDigits \union {"hex"},
         h = "tx"      => req.shape = "hex",
         h = "address" => req.shape \in LooksLikeAddress,
         req.shape = "hex" => h = thing.names
  PROVE  IInv'
<1>1. /\ req' = [by |-> h, via |-> "search", shape |-> req.shape, step |-> "start"]
      /\ call' = NoCall /\ page' = page
  BY DEF Redirect, Request
<1>2. NoCall \in Call
  BY RestartsAssumption DEF NoCall, Call, NoFile
<1>3. page = NoPage
  BY DEF IInv, Route, NoRequest
<1>4. TypeOK'
  BY <1>1, <1>2 DEF IInv, TypeOK, ClientTypeOK, NoCall, Rest, nodeVars
<1>5. Route' /\ Sent'
  BY <1>1, <1>3 DEF IInv, Route, Sent, NoCall, NoRequest
<1>6. Learnt'
  BY <1>1 DEF IInv, Learnt, Rest, NoCall, NoRequest
<1>7. RedirectIsRight' /\ WhatIsThereIsFound' /\ ServerErrorIsEarned'
  BY <1>1, <1>3
  DEF RedirectIsRight, WhatIsThereIsFound, Searched, ServerErrorIsEarned, NoPage, Rest,
      LooksLikeAddress, isHex64, isAllDigits
<1> QED
  BY <1>1, <1>4, <1>5, <1>6, <1>7 DEF IInv, RefusedOnlyByRotation, NoCall

(* A call preserves it if it is one of the handler's, and the second probe *)
(* of a search is made only for what is no block.                          *)
LEMMA AskStep ==
  ASSUME IInv, Rest, NEW m, Ask(m), req # NoRequest,
         req.by = "search"  => /\ m \in {"getblockheader", "getrawtransaction"}
                               /\ req.shape = "hex",
         req.by = "block"   => /\ m \in {"getblockhash", "getblock"}
                               /\ m = "getblockhash" => req.shape = "digits"
                               /\ req.shape \in {"digits", "hex"},
         req.by = "tx"      => m = "getrawtransaction",
         req.by = "address" => m = "validateaddress",
         req.by = "search" /\ m = "getrawtransaction" /\ past.always =>
           past.trouble \/ thing.names = "tx"
  PROVE  IInv'
<1>1. /\ req' = [req EXCEPT !.step = m] /\ call' = NewCall /\ page' = page
  BY DEF Ask
<1>2. /\ req' = [by |-> req.by, via |-> req.via, shape |-> req.shape, step |-> m]
      /\ req.by \in {"search", "block", "tx", "address"}
  BY <1>1 DEF IInv, TypeOK, Route
<1>3. NewCall = [at |-> "auth", creds |-> 0, gen |-> 0, out |-> "none"]
  BY DEF NewCall, NoCall, NoFile
<1>4. NewCall \in Call
  BY <1>3, RestartsAssumption DEF Call
<1>5. page = NoPage
  BY DEF IInv, Route
<1>6. TypeOK'
  BY <1>1, <1>2, <1>3, <1>4 DEF IInv, TypeOK, ClientTypeOK, Rest, nodeVars
<1>7. Route' /\ Sent'
  BY <1>1, <1>2, <1>3, <1>5 DEF IInv, Route, Sent, NoRequest
<1>8. Learnt'
  BY <1>1, <1>2, <1>3 DEF IInv, Learnt, Rest
<1>9. RedirectIsRight' /\ WhatIsThereIsFound' /\ ServerErrorIsEarned'
  BY <1>1, <1>2, <1>5
  DEF IInv, RedirectIsRight, WhatIsThereIsFound, Searched, ServerErrorIsEarned, NoPage,
      Rest
<1> QED
  BY <1>1, <1>3, <1>6, <1>7, <1>8, <1>9 DEF IInv, RefusedOnlyByRotation
-----------------------------------------------------------------------------
(* Handlers.Search. *)
LEMMA SearchStep == IInv /\ Search /\ Rest => IInv'
<1> SUFFICES ASSUME IInv, Search, Rest PROVE IInv'
  OBVIOUS
<1>1. req.by = "search" /\ req.step = "start" /\ req.via = "none"
  BY DEF Search, IInv, Route
<1>2. CASE req.shape = "empty" /\ Answer(302, "none")
  BY <1>1, <1>2, AnswerStep DEF Named, isHex64
<1>3. CASE req.shape \in isAllDigits /\ Redirect("block")
  BY <1>1, <1>3, RedirectStep DEF isAllDigits
<1>4. CASE req.shape \in isHex64 \ isAllDigits /\ Ask("getblockheader")
  BY <1>1, <1>4, AskStep DEF isAllDigits, isHex64, NoRequest
<1>5. CASE req.shape \in LooksLikeAddress /\ Redirect("address")
  BY <1>1, <1>5, RedirectStep DEF LooksLikeAddress
<1>6. CASE req.shape \in {"word", "other"} /\ Answer(404, "none")
  BY <1>1, <1>6, AnswerStep DEF Named, isHex64
<1> QED
  BY <1>2, <1>3, <1>4, <1>5, <1>6 DEF Search

(* The pages' own validation: a string that a search forwarded passes it,  *)
(* unless it merely starts like an address.                                *)
LEMMA ValidationStep == IInv /\ (Block \/ Tx \/ Address) /\ Rest => IInv'
<1> SUFFICES ASSUME IInv, Block \/ Tx \/ Address, Rest PROVE IInv'
  OBVIOUS
<1> USE DEF IInv, Route, isAllDigits, isHex64, LooksLikeAddress, validBlockID,
            validTxid, validAddr, NoRequest, Named
<1>1. CASE Block
  <2>1. CASE req.shape \notin validBlockID /\ Answer(400, "none")
    BY <1>1, <2>1, AnswerStep DEF Block
  <2>2. CASE req.shape = "digits" /\ Ask("getblockhash")
    BY <1>1, <2>2, AskStep DEF Block
  <2>3. CASE req.shape = "hexdigits" /\ Answer(404, "badid")
    BY <1>1, <2>3, AnswerStep DEF Block
  <2>4. CASE req.shape = "hex" /\ Ask("getblock")
    BY <1>1, <2>4, AskStep DEF Block
  <2> QED
    BY <1>1, <2>1, <2>2, <2>3, <2>4 DEF Block
<1>2. CASE Tx
  <2>1. CASE req.shape \notin validTxid /\ Answer(400, "none")
    BY <1>2, <2>1, AnswerStep DEF Tx
  <2>2. CASE req.shape \in validTxid /\ Ask("getrawtransaction")
    BY <1>2, <2>2, AskStep DEF Tx
  <2> QED
    BY <1>2, <2>1, <2>2 DEF Tx
<1>3. CASE Address
  <2>1. CASE req.shape \notin validAddr /\ Answer(400, "none")
    BY <1>3, <2>1, AnswerStep DEF Address
  <2>2. CASE req.shape \in validAddr /\ Ask("validateaddress")
    BY <1>3, <2>2, AskStep DEF Address
  <2> QED
    BY <1>3, <2>1, <2>2 DEF Address
<1> QED
  BY <1>1, <1>2, <1>3

(* What the cache holds is of the right kind. *)
LEMMA CachedStep == IInv /\ Cached /\ Rest => IInv'
<1> SUFFICES ASSUME IInv, Cached, Rest PROVE IInv'
  OBVIOUS
<1>1. Answer(200, "result") /\ req.by = thing.names
  BY DEF Cached, IInv, Route
<1> QED
  BY <1>1, AnswerStep

(* ProbeHex: a hit names the kind; a miss with no call in trouble shows    *)
(* that the string is not of this kind, and two misses that it is nothing. *)
LEMMA ProbedStep == IInv /\ Probed /\ Rest => IInv'
<1> SUFFICES ASSUME IInv, Probed, Rest PROVE IInv'
  OBVIOUS
<1>1. /\ req.by = "search" /\ req.via = "none" /\ req.shape = "hex"
      /\ call.at = "over" /\ req # NoRequest
      /\ thing.names \in {"block", "tx", "nothing"}
  <2>1. /\ req.by = "search" /\ call.at = "over" /\ req.shape = "hex"
        /\ req.via = "none"
    BY DEF Probed, ProbedBlock, ProbedTx, IInv, Route, NoRequest, TypeOK
  <2> QED
    BY <2>1 DEF IInv, Learnt, Named, isHex64, NoRequest
<1>2. call.out # "none" /\ (past.always => thing.names # "nothing")
  BY <1>1 DEF IInv, Sent, Learnt
<1>3. CASE ProbedBlock /\ Hit /\ Redirect("block")
  BY <1>1, <1>3, RedirectStep DEF ProbedBlock, Hit, IInv, Learnt
<1>4. CASE ProbedBlock /\ ~Hit /\ Ask("getrawtransaction")
  <2>1. past.always => past.trouble \/ thing.names = "tx"
    BY <1>1, <1>2, <1>4 DEF ProbedBlock, Hit, IInv, Learnt
  <2> QED
    BY <1>1, <1>4, <2>1, AskStep
<1>5. CASE ProbedTx /\ Hit /\ Redirect("tx")
  BY <1>1, <1>5, RedirectStep DEF ProbedTx, Hit, IInv, Learnt
<1>6. CASE ProbedTx /\ ~Hit /\ Answer(404, call.out)
  <2>1. past.trouble \/ ~past.always
    BY <1>1, <1>2, <1>6 DEF ProbedTx, Hit, IInv, Learnt
  <2> QED
    BY <1>1, <1>6, <2>1, AnswerStep
<1> QED
  BY <1>3, <1>4, <1>5, <1>6 DEF Probed

(* The page of a thing that is there is built, unless a call failed.       *)
LEMMA BuiltStep == IInv /\ Built /\ Rest => IInv'
<1> SUFFICES ASSUME IInv, Built, Rest PROVE IInv'
  OBVIOUS
<1>1. /\ req.by \in {"block", "tx", "address"} /\ call.at = "over"
      /\ req # NoRequest /\ call.out # "none"
  BY DEF Built, IInv, Sent, NoRequest
<1>2. req.step \notin {"none", "start"}
  BY <1>1 DEF IInv, Route, NoCall
<1>3. ASSUME Named(req.shape) # {"nothing"}, "search" \in {req.by, req.via}
      PROVE  req.by = thing.names /\ req.shape \in {"digits", "hex"}
  <2>1. /\ req.via = "search" /\ req.by \in {"block", "tx"}
        /\ req.shape \in {"digits", "hex"}
    BY <1>1, <1>2, <1>3 DEF IInv, Route, LooksLikeAddress, Named, isHex64,
       isAllDigits
  <2>2. CASE req.shape = "hex"
    BY <2>1, <2>2 DEF IInv, RedirectIsRight, isHex64, isAllDigits
  <2>3. CASE req.shape = "digits"
    BY <1>1, <2>1, <2>3 DEF IInv, Route, Learnt, Named, isHex64
  <2> QED
    BY <2>1, <2>2, <2>3
<1>4. CASE Hit /\ req.step = "getblockhash" /\ Ask("getblock")
  BY <1>1, <1>2, <1>4, AskStep DEF IInv, Route
<1>5. CASE Hit /\ req.step # "getblockhash" /\ Answer(200, "result")
  BY <1>3, <1>5, AnswerStep
<1>6. CASE ~Hit /\ Answer(IF LooksNotFound THEN 404 ELSE 500, call.out)
  <2>1. Named(req.shape) # {"nothing"} /\ "search" \in {req.by, req.via}
          => past.trouble \/ ~past.always
    BY <1>1, <1>2, <1>3, <1>6 DEF Hit, IInv, Route, Learnt, LooksLikeAddress
  <2> DEFINE st == IF LooksNotFound THEN 404 ELSE 500
  <2>2. st \in {404, 500} /\ Answer(st, call.out)
    BY <1>6
  <2>3. ASSUME st = 500, ~past.trouble
        PROVE  /\ req.by = "tx" \/ req.shape = "digits"
               /\ ~(past.always /\ thing.names = req.by)
    <3>1. ~LooksNotFound /\ call.out = "notfound"
      BY <1>1, <1>6, <2>3 DEF Hit, IInv, Learnt
    <3>2. \/ req.by = "block" /\ req.step = "getblockhash" /\ req.shape = "digits"
          \/ req.by = "tx" /\ req.step = "getrawtransaction"
      BY <1>1, <1>2, <3>1 DEF LooksNotFound, IInv, Route, Learnt
    <3> QED
      BY <3>1, <3>2 DEF IInv, Learnt
  <2> HIDE DEF st
  <2> QED
    BY <2>1, <2>2, <2>3, AnswerStep
<1> QED
  BY <1>4, <1>5, <1>6 DEF Built
-----------------------------------------------------------------------------
(* What a step of the client may change. *)
LEMMA CallShape ==
  ASSUME IInv, Calling
  PROVE  /\ call.at \in {"auth", "sent"} /\ req # NoRequest /\ page = NoPage
         /\ req.step \notin {"none", "start"}
         /\ UNCHANGED <<mode, nodeVars, req, page, thing>>
         /\ past'.always = past.always
         /\ past' \in [always : BOOLEAN, trouble : BOOLEAN]
         /\ past.trouble => past'.trouble
         /\ call'.out \notin {"none", "result", "notfound"} => past'.trouble
<1>1. /\ call.at \in {"auth", "sent"}
      /\ UNCHANGED <<mode, nodeVars, req, page, thing>>
  BY DEF Calling, Do, ResolveAuth, Unauthorized, Responds, NoResponse
<1>2. req.step \notin {"none", "start"} /\ req # NoRequest /\ page = NoPage
  BY <1>1 DEF IInv, Route, NoCall, NoRequest
<1>3. past \in [always : BOOLEAN, trouble : BOOLEAN]
  BY DEF IInv, TypeOK
<1>4. CASE past' = past /\ call'.out \in {"none", "result", "notfound"}
  BY <1>1, <1>2, <1>3, <1>4
<1>5. CASE past' = [past EXCEPT !.trouble = TRUE]
  <2>1. past' = [always |-> past.always, trouble |-> TRUE]
    BY <1>3, <1>5
  <2>2. past.always \in BOOLEAN
    BY <1>3
  <2> QED
    BY <1>1, <1>2, <2>1, <2>2
<1> QED
  BY <1>4, <1>5 DEF Calling

(* The call ends with an outcome that the node, or its absence, gives.     *)
LEMMA CallEndsStep ==
  ASSUME IInv, Calling,
         NEW o \in {"result", "notfound", "rpcerror", "nocookie",
                    "badcookie", "unauthorized", "garbled", "failed"},
         CallEnds(o),
         o = "unauthorized" => call.gen < secret,
         o \in {"result", "notfound"} => o \in Outs
  PROVE  IInv'
<1>1. /\ call' = [at |-> "over", creds |-> call.creds, gen |-> call.gen, out |-> o]
      /\ call' \in Call
  <2>1. call \in Call
    BY DEF IInv, TypeOK, ClientTypeOK
  <2> QED
    BY <2>1 DEF CallEnds, Call
<1>2. TypeOK'
  BY <1>1, CallShape DEF IInv, TypeOK, ClientTypeOK, nodeVars
<1>3. Route' /\ Sent'
  BY <1>1, CallShape DEF IInv, Route, Sent, nodeVars
<1>4. ASSUME o = "result"
      PROVE  /\ req.step \in {"getblockheader", "getblockhash", "getblock"} =>
                  thing.names = "block"
             /\ req.step = "getrawtransaction" => thing.names = "tx"
  BY <1>4 DEF Outs
<1>5. ASSUME o = "notfound"
      PROVE  /\ req.step \in {"getblockheader", "getblockhash", "getblock"} =>
                  ~(thing.names = "block" /\ thing.found)
             /\ req.step = "getrawtransaction" =>
                  ~(thing.names = "tx" /\ thing.found)
             /\ req.step # "validateaddress"
  BY <1>5 DEF Outs
<1>6. Learnt'
  BY <1>1, <1>4, <1>5, CallShape DEF IInv, Learnt
<1>7. RedirectIsRight' /\ WhatIsThereIsFound' /\ ServerErrorIsEarned'
  BY CallShape
  DEF IInv, RedirectIsRight, WhatIsThereIsFound, Searched, Found, ServerErrorIsEarned, NoPage
<1>8. RefusedOnlyByRotation'
  BY <1>1, CallShape DEF RefusedOnlyByRotation, nodeVars
<1> QED
  BY <1>2, <1>3, <1>6, <1>7, <1>8 DEF IInv

(* A call: the cookie that is read is the one of now; when the node no     *)
(* longer takes it, it has started again since.                            *)
LEMMA CallingStep == IInv /\ Calling => IInv'
<1> SUFFICES ASSUME IInv, Calling PROVE IInv'
  OBVIOUS
<1>1. CASE Unauthorized
  <2>1. call.gen < secret
    <3>1. /\ call.at = "sent" /\ mode = "cookie" /\ call.creds # secret
      BY <1>1 DEF Unauthorized, Accepts
    <3>2. call.creds = call.gen /\ call.gen <= secret
      BY <3>1 DEF IInv, Sent
    <3>3. call.gen \in Nat /\ secret \in Nat
      BY RestartsAssumption DEF IInv, TypeOK, ClientTypeOK, Call
    <3> QED
      BY <3>1, <3>2, <3>3
  <2> QED
    BY <1>1, <2>1, CallEndsStep DEF Unauthorized
<1>2. CASE NoResponse
  BY <1>2, CallEndsStep DEF NoResponse
<1>3. CASE Responds(Outs)
  <2>1. Outs \subseteq {"result", "notfound"}
    BY DEF Outs
  <2>2. PICK o \in Outs \union {"rpcerror", "garbled"} : CallEnds(o)
    BY <1>3 DEF Responds
  <2> QED
    BY <2>1, <2>2, CallEndsStep
<1>4. CASE ResolveAuth
  <2>1. CASE CallEnds(IF cookie = NoFile THEN "nocookie" ELSE "badcookie")
    BY <2>1, CallEndsStep
  <2>2. CASE /\ call.at = "auth" /\ (mode = "cookie" => cookie # NoFile)
             /\ call' = [call EXCEPT !.at = "sent", !.gen = secret,
                           !.creds = IF mode = "cookie" THEN cookie ELSE @]
    <3>1. call = [at |-> "auth", creds |-> NoFile, gen |-> 0, out |-> "none"]
      BY <2>2 DEF IInv, Sent, NewCall, NoCall
    <3>2. call' = [at |-> "sent", gen |-> secret, out |-> "none",
                   creds |-> IF mode = "cookie" THEN cookie ELSE NoFile]
      BY <2>2, <3>1
    <3>3. secret \in 1..(MaxRestarts + 1) /\ (mode = "cookie" => cookie = secret)
      BY <2>2 DEF IInv, TypeOK, ClientTypeOK
    <3>4. call' \in Call
      BY <3>2, <3>3, RestartsAssumption DEF Call, NoFile
    <3>5. TypeOK'
      BY <3>2, <3>3, <3>4, CallShape DEF IInv, TypeOK, ClientTypeOK, nodeVars, NoFile
    <3>6. Route' /\ Sent'
      BY <3>2, <3>3, CallShape DEF IInv, Route, Sent, nodeVars
    <3>7. Learnt' /\ RedirectIsRight' /\ WhatIsThereIsFound'
          /\ ServerErrorIsEarned'
      BY <3>2, CallShape
      DEF IInv, Learnt, RedirectIsRight, WhatIsThereIsFound, Searched, Found, ServerErrorIsEarned,
          NoPage
    <3> QED
      BY <3>2, <3>5, <3>6, <3>7 DEF IInv, RefusedOnlyByRotation
  <2> QED
    BY <1>4, <2>1, <2>2 DEF ResolveAuth
<1> QED
  BY <1>1, <1>2, <1>3, <1>4 DEF Calling, Do
-----------------------------------------------------------------------------
(* The node stops and starts; secrets only grow. *)
LEMMA NodeMovesStep == IInv /\ NodeMoves => IInv'
<1> SUFFICES ASSUME IInv, NodeMoves PROVE IInv'
  OBVIOUS
<1>1. UNCHANGED <<mode, call, req, page, thing, past>>
  BY DEF NodeMoves, NodeStep
<1>2. /\ node' \in {"up", "stopping", "down", "starting"}
      /\ secret' \in 1..(MaxRestarts + 1) /\ secret <= secret'
      /\ cookie' \in {NoFile, secret'}
  BY RestartsAssumption DEF NodeMoves, NodeStep, Shutdown, CookieDeleted, Crash,
     Start, Ready, IInv, TypeOK, ClientTypeOK
<1>3. secret \in Nat /\ secret' \in Nat /\ call.gen \in Nat
  BY <1>2, RestartsAssumption DEF IInv, TypeOK, ClientTypeOK, Call
<1>4. TypeOK'
  BY <1>1, <1>2 DEF IInv, TypeOK, ClientTypeOK
<1>5. Route' /\ Learnt' /\ RedirectIsRight' /\ WhatIsThereIsFound'
      /\ ServerErrorIsEarned'
  BY <1>1
  DEF IInv, Route, Learnt, RedirectIsRight, WhatIsThereIsFound, Searched, Found,
      ServerErrorIsEarned
<1>6. Sent' /\ RefusedOnlyByRotation'
  BY <1>1, <1>2, <1>3 DEF IInv, Sent, RefusedOnlyByRotation
<1> QED
  BY <1>4, <1>5, <1>6 DEF IInv

(* What the string names appears or disappears. *)
LEMMA ThingMovesStep == IInv /\ ThingMoves => IInv'
<1> SUFFICES ASSUME IInv, ThingMoves PROVE IInv'
  OBVIOUS
<1>1. /\ UNCHANGED <<clientVars, req, page>> /\ page = NoPage
      /\ thing' = [thing EXCEPT !.found = ~@]
      /\ past' = [past EXCEPT !.always = FALSE]
      /\ thing.names \in {"block", "tx"}
  BY DEF ThingMoves, IInv, Route
<1>2. /\ thing'.names = thing.names /\ ~past'.always
      /\ past'.trouble = past.trouble
      /\ thing' \in [names : {"block", "tx", "nothing"}, found : BOOLEAN]
      /\ past' \in [always : BOOLEAN, trouble : BOOLEAN]
  <2>1. /\ thing \in [names : {"block", "tx", "nothing"}, found : BOOLEAN]
        /\ past \in [always : BOOLEAN, trouble : BOOLEAN]
    BY DEF IInv, TypeOK
  <2>2. thing' = [names |-> thing.names, found |-> ~thing.found]
    BY <1>1, <2>1
  <2>3. past' = [always |-> FALSE, trouble |-> past.trouble]
    BY <1>1, <2>1
  <2>4. past.trouble \in BOOLEAN /\ thing.names \in {"block", "tx", "nothing"}
    BY <2>1
  <2> QED
    BY <2>2, <2>3, <2>4
<1>3. TypeOK'
  BY <1>1, <1>2 DEF IInv, TypeOK, ClientTypeOK, clientVars, nodeVars
<1>4. Route' /\ Sent' /\ RefusedOnlyByRotation'
  BY <1>1 DEF IInv, Route, Sent, RefusedOnlyByRotation, clientVars, nodeVars
<1>5. Learnt'
  BY <1>1, <1>2 DEF IInv, Learnt, clientVars
<1>6. RedirectIsRight' /\ WhatIsThereIsFound' /\ ServerErrorIsEarned'
  BY <1>1, <1>2
  DEF IInv, RedirectIsRight, WhatIsThereIsFound, Searched, Found, ServerErrorIsEarned, NoPage
<1> QED
  BY <1>3, <1>4, <1>5, <1>6 DEF IInv

(* Every step preserves the invariant. *)
LEMMA StepIInv == IInv /\ [Next]_vars => IInv'
<1> SUFFICES ASSUME IInv, [Next]_vars PROVE IInv'
  OBVIOUS
<1>1. CASE Open
  BY <1>1, OpenStep
<1>2. CASE Handler
  BY <1>2, SearchStep, ValidationStep, CachedStep, ProbedStep, BuiltStep
  DEF Handler, Rest
<1>3. CASE Calling
  BY <1>3, CallingStep
<1>4. CASE NodeMoves
  BY <1>4, NodeMovesStep
<1>5. CASE ThingMoves
  BY <1>5, ThingMovesStep
<1>6. CASE UNCHANGED vars
  BY <1>6 DEF vars, clientVars, nodeVars, IInv, TypeOK, ClientTypeOK, Route, Sent,
     Learnt, RefusedOnlyByRotation, RedirectIsRight, WhatIsThereIsFound, Searched, Found,
      ServerErrorIsEarned
<1> QED
  BY <1>1, <1>2, <1>3, <1>4, <1>5, <1>6 DEF Next, Handle
-----------------------------------------------------------------------------
(* The inductive invariant holds in every reachable state. *)
THEOREM Invariance == Spec => []IInv
<1> QED
  BY InitIInv, StepIInv, PTL DEF Spec

(* Types; no call is sent in cookie mode without a cookie. *)
THEOREM RequestsTypeOK == Spec => []TypeOK
<1>1. IInv => TypeOK
  BY DEF IInv
<1> QED
  BY <1>1, Invariance, PTL

(* The node refuses a call only if it wrote a new cookie after the call    *)
(* had read the file, however often it stops, crashes and starts.          *)
THEOREM CookieIsFresh == Spec => []RefusedOnlyByRotation
<1>1. IInv => RefusedOnlyByRotation
  BY DEF IInv
<1> QED
  BY <1>1, Invariance, PTL

(* A search redirects a hash to the kind of thing it is, but for one of 64 *)
(* decimal digits, and forwards no string that the page rejects, but for   *)
(* one that merely starts like an address.                                 *)
THEOREM SearchRedirects == Spec => []RedirectIsRight
<1>1. IInv => RedirectIsRight
  BY DEF IInv
<1> QED
  BY <1>1, Invariance, PTL

(* An answer of status 500 means a call in trouble, or a height or a       *)
(* transaction that the node did not have all along.                       *)
THEOREM ErrorStatus == Spec => []ServerErrorIsEarned
<1>1. IInv => ServerErrorIsEarned
  BY DEF IInv
<1> QED
  BY <1>1, Invariance, PTL

(* A search, of whatever string, finds what is there the whole time,       *)
(* unless a call fails or the string is a hash of 64 decimal digits, which *)
(* ends as not found.                                                      *)
THEOREM SearchFinds == Spec => []WhatIsThereIsFound
<1>1. IInv => WhatIsThereIsFound
  BY DEF IInv
<1> QED
  BY <1>1, Invariance, PTL
-----------------------------------------------------------------------------
(* Why a request is answered.  What a handler, or the one it redirects to, *)
(* may still have to do, and what the call under way has.                  *)
Stage ==
  IF req.by = "none" THEN 0
  ELSE IF req.by = "search"
       THEN IF req.step = "start" THEN 6 ELSE IF req.step = "getblockheader" THEN 5 ELSE 4
       ELSE IF req.step = "start" THEN 3 ELSE IF req.step = "getblockhash" THEN 2 ELSE 1

CallLeft == IF call.at = "auth" THEN 2 ELSE IF call.at = "sent" THEN 1 ELSE 0

Nearer == Stage' < Stage \/ (Stage' = Stage /\ CallLeft' < CallLeft)

(* Every step of a handler or of its call brings the request nearer to its *)
(* answer, redirects and second probes included, and nothing that the node *)
(* does in between puts it back.                                           *)
Onwards ==
  /\ Handle => Nearer
  /\ req # NoRequest => Nearer \/ UNCHANGED <<Stage, CallLeft>>

(* A request never stands where no handler goes on: it is at a start, or   *)
(* has a call that can go on, or a call that is over and somebody to look  *)
(* at its outcome.                                                         *)
Attended ==
  req # NoRequest =>
    \/ req.step = "start" \/ call.at \in {"auth", "sent"}
    \/ ProbedBlock \/ ProbedTx
    \/ req.by \in {"block", "tx", "address"} /\ call.at = "over"

(* Between the start and the answer there is always a call. *)
Called == req.step \notin {"none", "start"} => call.at # "none"

LEMMA StageIsNat == Stage \in 0..6 /\ CallLeft \in 0..2
BY DEF Stage, CallLeft

(* What the three ways to end a step of a handler do. *)
LEMMA AnswerGoesOn ==
  ASSUME IInv, req.by # "none", NEW s, NEW o, Answer(s, o)
  PROVE  Nearer /\ Called'
BY DEF Answer, NoRequest, Nearer, Stage, Called

LEMMA RedirectGoesOn ==
  ASSUME IInv, req.by = "search", NEW h \in {"block", "tx", "address"}, Redirect(h)
  PROVE  Nearer /\ Called'
BY DEF Redirect, Request, Nearer, Stage, Called

LEMMA AskGoesOn ==
  ASSUME IInv, NEW m, Ask(m),
         IF req.by = "search"
         THEN \/ req.step = "start" /\ m = "getblockheader"
              \/ req.step = "getblockheader" /\ m = "getrawtransaction"
         ELSE /\ req.by # "none"
              /\ \/ req.step = "start" /\ m # "start"
                 \/ req.step = "getblockhash" /\ m = "getblock"
  PROVE  Nearer /\ Called'
<1>1. req' = [req EXCEPT !.step = m] /\ call' = NewCall
  BY DEF Ask
<1>2. req'.step = m /\ req'.by = req.by /\ call'.at = "auth"
  BY <1>1 DEF IInv, TypeOK, NewCall, NoCall
<1> QED
  BY <1>2 DEF Nearer, Stage, Called

LEMMA HandlerGoesOn == IInv /\ Handler => Nearer /\ Called'
<1> SUFFICES ASSUME IInv, Handler PROVE Nearer /\ Called'
  OBVIOUS
<1>1. CASE Search
  BY <1>1, AnswerGoesOn, RedirectGoesOn, AskGoesOn DEF Search
<1>2. CASE Block
  BY <1>2, AnswerGoesOn, AskGoesOn DEF Block
<1>3. CASE Tx
  BY <1>3, AnswerGoesOn, AskGoesOn DEF Tx
<1>4. CASE Address
  BY <1>4, AnswerGoesOn, AskGoesOn DEF Address
<1>5. CASE Cached
  BY <1>5, AnswerGoesOn DEF Cached
<1>6. CASE Probed
  <2>1. req.by = "search"
    BY <1>6 DEF Probed, ProbedBlock, ProbedTx, IInv, TypeOK, Route, NoRequest
  <2> QED
    BY <1>6, <2>1, AnswerGoesOn, RedirectGoesOn, AskGoesOn
       DEF Probed, ProbedBlock, ProbedTx
<1>7. CASE Built
  BY <1>7, AnswerGoesOn, AskGoesOn DEF Built
<1> QED
  BY <1>1, <1>2, <1>3, <1>4, <1>5, <1>6, <1>7 DEF Handler

LEMMA CallingGoesOn == IInv /\ Calling => Nearer /\ Called'
<1> SUFFICES ASSUME IInv, Calling PROVE Nearer /\ Called'
  OBVIOUS
<1>1. UNCHANGED Stage /\ UNCHANGED req
  BY DEF Calling, Stage
<1>2. call \in Call
  BY DEF IInv, TypeOK, ClientTypeOK
<1>3. /\ call.at \in {"auth", "sent"}
      /\ \/ call.at = "auth" /\ call'.at = "sent"
         \/ call'.at = "over"
  <2>1. ASSUME NEW o, CallEnds(o) PROVE call'.at = "over"
    BY <1>2, <2>1 DEF CallEnds, Call
  <2>2. ASSUME ResolveAuth
        PROVE  call.at = "auth" /\ (call'.at = "sent" \/ \E o : CallEnds(o))
    BY <1>2, <2>2 DEF ResolveAuth, Call
  <2>3. Unauthorized \/ Responds(Outs) \/ NoResponse =>
          call.at = "sent" /\ \E o : CallEnds(o)
    BY DEF Unauthorized, Responds, NoResponse
  <2> QED
    BY <2>1, <2>2, <2>3 DEF Calling, Do
<1> QED
  BY <1>1, <1>3 DEF Nearer, CallLeft, Called

LEMMA StepGoesOn == IInv /\ Called /\ [Next]_vars => Called' /\ [Onwards]_vars
<1> SUFFICES ASSUME IInv, Called, [Next]_vars PROVE Called' /\ [Onwards]_vars
  OBVIOUS
<1>1. Handle => Nearer /\ Called'
  BY HandlerGoesOn, CallingGoesOn DEF Handle
<1>2. NodeMoves \/ ThingMoves => Called' /\ UNCHANGED <<Stage, CallLeft>>
  BY DEF NodeMoves, NodeStep, ThingMoves, clientVars, Called, Stage, CallLeft
<1>3. Open => req = NoRequest /\ Called'
  BY DEF Open, Request, Called
<1>4. UNCHANGED vars => Called'
  BY DEF vars, clientVars, Called
<1> QED
  BY <1>1, <1>2, <1>3, <1>4 DEF Next, Onwards

LEMMA SomebodyAttends == IInv /\ Called => Attended
<1> SUFFICES ASSUME IInv, Called, req # NoRequest, req.step # "start",
                    call.at \notin {"auth", "sent"}
             PROVE  \/ ProbedBlock \/ ProbedTx
                    \/ req.by \in {"block", "tx", "address"} /\ call.at = "over"
  BY DEF Attended
<1>1. req.by \in {"search", "block", "tx", "address"} /\ req.step # "none"
  BY DEF IInv, TypeOK, Route
<1>2. call.at = "over"
  BY <1>1 DEF Called, IInv, TypeOK, ClientTypeOK, Call
<1> QED
  BY <1>1, <1>2 DEF IInv, Route, ProbedBlock, ProbedTx

(* No request, whatever its string and wherever it is redirected, goes on  *)
(* for ever or is left standing, for any number of starts of the node.     *)
THEOREM RequestsAreBounded == Spec => []Attended /\ [][Onwards]_vars
<1>1. Init => Called
  BY DEF Init, NoRequest, Called
<1> QED
  BY <1>1, StepGoesOn, SomebodyAttends, Invariance, PTL DEF Spec
=============================================================================
