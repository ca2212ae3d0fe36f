--------------------------- MODULE OverviewProofs ---------------------------
(***************************************************************************)
(* Proofs about Overview, for any branches and any number of rows, however *)
(* the chain moves: types, RowsWereActive and ErrorIsEarned.               *)
(***************************************************************************)
EXTENDS Overview, FiniteSets, FiniteSetTheorems, TLAPS

(* The chains since the tip was read are at least as long as it: a chain   *)
(* gives way to a longer one only.                                         *)
Grown ==
  /\ at # "idle" => page = Blank
  /\ at \in {"hashes", "blocks"} =>
       /\ tip > 0 /\ chain \in seen
       /\ \A c \in seen : c \in Chains /\ Len(c) >= tip

(* A hash that is known was active at its height. *)
WasActive(i) ==
  /\ tip - i > 0
  /\ \E c \in seen : tip - i \in DOMAIN c /\ hashes[i] = c[tip - i]

Hashed ==
  /\ at = "hashes" => part[0] = "ok"
  /\ at \in {"hashes", "blocks"} => \A i \in Row : part[i] # "idle"
  /\ at \in {"hashes", "blocks"} =>
       \A i \in Row : at = "blocks" \/ part[i] = "ok" => WasActive(i)
  /\ at = "blocks" =>
       \A i \in Row : part[i] = "ok" => blocks[i] = Header(hashes[i])

(* A part that failed has its reason, one that was cancelled another part. *)
Reasons ==
  at \in {"hashes", "blocks"} =>
    /\ \A i \in Row : part[i] = "failed" => broke \/ tip < Rows
    /\ \A i \in Row : part[i] = "cancelled" => \E k \in Row : part[k] = "failed"

OnBranch == known \subseteq UNION { Range(c) : c \in Branches }

IInv == /\ TypeOK /\ RowsWereActive /\ ErrorIsEarned
        /\ Grown /\ Hashed /\ Reasons /\ OnBranch
-----------------------------------------------------------------------------
(* A chain is the beginning of a branch. *)
LEMMA ChainOfBranch ==
  ASSUME NEW c \in Chains
  PROVE  /\ c \in Seq(Blocks) /\ Len(c) \in Nat \ {0} /\ DOMAIN c = 1..Len(c)
         /\ \E b \in Branches : /\ b \in Seq(Blocks) /\ Len(c) <= Len(b)
                                /\ \A i \in DOMAIN c : i \in DOMAIN b /\ c[i] = b[i]
<1>0. PICK b \in Branches : c \in { SubSeq(b, 1, n) : n \in 1..Len(b) }
  BY DEF Chains
<1>1. PICK n \in 1..Len(b) : c = SubSeq(b, 1, n)
  BY <1>0
<1>2. b \in Seq(Blocks) /\ Len(b) \in Nat
  BY BranchesAssumption
<1>3. /\ c \in Seq(Blocks) /\ Len(c) = n /\ DOMAIN c = 1..n
      /\ \A i \in 1..n : c[i] = b[i] /\ i \in DOMAIN b
  BY <1>1, <1>2
<1> QED
  BY <1>2, <1>3

(* getblock tells the height at which a block was active. *)
LEMMA HeaderOf ==
  ASSUME NEW c \in Chains, NEW h \in DOMAIN c
  PROVE  Header(c[h]) = [block |-> c[h], height |-> h]
<1>1. PICK b \in Branches : \A i \in DOMAIN c : i \in DOMAIN b /\ c[i] = b[i]
  BY ChainOfBranch
<1> DEFINE x == c[h]
           d == CHOOSE d \in Branches : x \in Range(d)
<1>2. b[h] = x /\ h \in DOMAIN b /\ x \in Range(b)
  BY <1>1 DEF Range
<1>3. d \in Branches /\ x \in Range(d)
  BY <1>2
<1>4. PICK j \in DOMAIN d : d[j] = x
  BY <1>3 DEF Range
<1>5. \A i \in DOMAIN d : d[i] = x => i = h
  BY <1>2, <1>3, BranchesAssumption
<1>6. (CHOOSE i \in DOMAIN d : d[i] = x) = h
  BY <1>4, <1>5
<1> QED
  BY <1>6 DEF Header

(* Blocks have hashes that are no NoBlock. *)
LEMMA BlocksAreNot == \A c \in Chains : \A i \in DOMAIN c : c[i] # NoBlock
BY ChainOfBranch, NoBlockAssumption

LEMMA RowType == Row \subseteq Nat /\ 0 \in Row /\ \A i \in Row : i < Rows
BY RowsAssumption DEF Row

LEMMA InitIInv == Init => IInv
<1> SUFFICES ASSUME Init PROVE IInv
  OBVIOUS
<1>1. chain \in Chains /\ known = Range(chain) /\ at = "idle" /\ page = Blank
  BY DEF Init, NodeInit
<1>2. OnBranch
  <2>1. PICK b \in Branches : \A i \in DOMAIN chain : i \in DOMAIN b /\ chain[i] = b[i]
    BY <1>1, ChainOfBranch
  <2> QED
    BY <1>1, <2>1 DEF OnBranch, Range
<1>3. TypeOK
  <2>1. /\ hashes \in [Row -> known \union {NoBlock}]
        /\ part \in [Row -> {"idle", "call", "ok", "failed", "cancelled"}]
        /\ blocks \in [Row -> [block : known \union {NoBlock}, height : Nat]]
    BY DEF Init, NoHashes, NoBlocks
  <2>2. tip = 0 /\ seen = {} /\ broke = FALSE
    BY DEF Init
  <2>3. page.kind = "blank"
    BY <1>1 DEF Blank
  <2> QED
    BY <1>1, <2>1, <2>2, <2>3 DEF TypeOK
<1> QED
  BY <1>1, <1>2, <1>3
  DEF IInv, RowsWereActive, ErrorIsEarned, Grown, Hashed, Reasons, Blank

(* What the steps of a request leave alone. *)
LEMMA OpenStep == IInv /\ Open => IInv'
<1> SUFFICES ASSUME IInv, Open PROVE IInv'
  OBVIOUS
<1>1. TypeOK'
  BY RowType DEF Open, nodeVars, IInv, TypeOK, NoHashes, NoBlocks, Blank
<1> QED
  BY <1>1 DEF Open, nodeVars, IInv, RowsWereActive, ErrorIsEarned, Grown, Hashed,
     Reasons, OnBranch, Blank

(* The tip is active when it is read. *)
LEMMA InfoStep == IInv /\ Info => IInv'
<1> SUFFICES ASSUME IInv, Info PROVE IInv'
  OBVIOUS
<1>1. /\ at' = "hashes" /\ tip' = Len(chain) /\ seen' = {chain}
      /\ hashes' = [NoHashes EXCEPT ![0] = chain[Len(chain)]]
      /\ part' = [i \in Row |-> IF i = 0 THEN "ok" ELSE "call"]
      /\ UNCHANGED <<chain, pool, indexed, known, txindex, blocks, page, broke>>
  BY DEF Info, nodeVars
<1>2. /\ chain \in Chains /\ Len(chain) \in Nat \ {0}
      /\ DOMAIN chain = 1..Len(chain) /\ Range(chain) \subseteq known
  BY ChainOfBranch DEF IInv, TypeOK
<1>3. chain[Len(chain)] \in known
  BY <1>2 DEF Range
<1>4. /\ hashes' \in [Row -> known \union {NoBlock}]
      /\ hashes'[0] = chain[Len(chain)]
  BY <1>1, <1>3, RowType DEF NoHashes
<1>5. page = Blank /\ page' = Blank
  BY DEF Info, IInv, Grown
<1>6. TypeOK'
  BY <1>1, <1>2, <1>4 DEF IInv, TypeOK
<1>7. Grown'
  BY <1>1, <1>2, <1>5 DEF Grown
<1>8. Hashed'
  <2>1. WasActive(0)'
    BY <1>1, <1>2, <1>4 DEF WasActive
  <2> QED
    BY <1>1, <2>1, RowType DEF Hashed
<1>9. Reasons'
  BY <1>1 DEF Reasons
<1> QED
  BY <1>1, <1>5, <1>6, <1>7, <1>8, <1>9
  DEF IInv, RowsWereActive, ErrorIsEarned, OnBranch, Blank

(* What a request carries along while a step leaves it where it is: the    *)
(* chains, and what was active.                                            *)
LEMMA StayStep ==
  ASSUME IInv, at \in {"hashes", "blocks"}, at' = at,
         UNCHANGED <<nodeVars, tip, page, seen>>,
         TypeOK', Hashed', Reasons', broke => broke'
  PROVE  IInv'
<1>1. page = Blank
  BY DEF IInv, Grown
<1> QED
  BY <1>1 DEF IInv, RowsWereActive, ErrorIsEarned, Grown, OnBranch, nodeVars, Blank

(* getblockhash answers from the chain of its own instant. *)
LEMMA HashStep == ASSUME IInv, NEW i \in Row, HashAnswered(i) PROVE IInv'
<1>1. /\ at = "hashes" /\ part[i] = "call" /\ i # 0
      /\ UNCHANGED <<nodeVars, at, tip, blocks, page, seen, broke>>
  BY DEF HashAnswered, IInv, Hashed
<1>2. /\ chain \in seen /\ tip \in Nat /\ Len(chain) >= tip /\ tip > 0
      /\ DOMAIN chain = 1..Len(chain) /\ Len(chain) \in Nat
      /\ Range(chain) \subseteq known
  BY <1>1, ChainOfBranch DEF IInv, TypeOK, Grown
<1>3. i \in Nat /\ i < Rows /\ Rows \in Nat
  BY RowType, RowsAssumption
<1>4. CASE HeightOf(i) \in DOMAIN chain
  <2>1. /\ hashes' = [hashes EXCEPT ![i] = chain[tip - i]]
        /\ part' = [part EXCEPT ![i] = "ok"] /\ tip - i \in DOMAIN chain
    BY <1>4 DEF HashAnswered, HeightOf
  <2>2. chain[tip - i] \in known
    BY <1>2, <2>1 DEF Range
  <2>3. TypeOK'
    BY <1>1, <2>1, <2>2 DEF IInv, TypeOK, nodeVars
  <2>4. /\ hashes'[i] = chain[tip - i] /\ part'[i] = "ok"
        /\ \A k \in Row : k # i => hashes'[k] = hashes[k] /\ part'[k] = part[k]
    BY <2>1 DEF IInv, TypeOK
  <2>5. WasActive(i)'
    BY <1>1, <1>2, <1>3, <2>1, <2>4 DEF WasActive
  <2>6. Hashed'
    BY <1>1, <2>4, <2>5, RowType DEF IInv, Hashed, WasActive
  <2>7. Reasons'
    BY <1>1, <2>4 DEF IInv, Reasons
  <2> QED
    BY <1>1, <2>3, <2>6, <2>7, StayStep
<1>5. CASE HeightOf(i) \notin DOMAIN chain
  <2>1. /\ hashes' = hashes /\ part' = [part EXCEPT ![i] = "failed"]
    BY <1>5 DEF HashAnswered
  <2>2. tip < Rows
    BY <1>2, <1>3, <1>5 DEF HeightOf
  <2>3. TypeOK'
    BY <1>1, <2>1 DEF IInv, TypeOK, nodeVars
  <2>4. /\ part'[i] = "failed"
        /\ \A k \in Row : k # i => part'[k] = part[k]
    BY <2>1 DEF IInv, TypeOK
  <2>5. Hashed'
    BY <1>1, <2>1, <2>4 DEF IInv, Hashed, WasActive
  <2>6. Reasons'
    BY <1>1, <2>2, <2>4 DEF IInv, Reasons
  <2> QED
    BY <1>1, <2>3, <2>5, <2>6, StayStep
<1> QED
  BY <1>4, <1>5

(* getblock answers with the block of the row's own hash. *)
LEMMA BlockStep == ASSUME IInv, NEW i \in Row, BlockAnswered(i) PROVE IInv'
<1>1. /\ at = "blocks" /\ part[i] = "call" /\ hashes[i] \in known
      /\ blocks' = [blocks EXCEPT ![i] = Header(hashes[i])]
      /\ part' = [part EXCEPT ![i] = "ok"]
      /\ UNCHANGED <<nodeVars, at, tip, hashes, page, seen, broke>>
  BY DEF BlockAnswered, Asked
<1>2. PICK c \in seen : tip - i \in DOMAIN c /\ hashes[i] = c[tip - i]
  BY <1>1 DEF IInv, Hashed, WasActive
<1>3. c \in Chains /\ DOMAIN c \subseteq Nat
  BY <1>1, <1>2, ChainOfBranch DEF IInv, Grown
<1>4. Header(hashes[i]) = [block |-> hashes[i], height |-> tip - i]
  BY <1>2, <1>3, HeaderOf
<1>5. /\ blocks' \in [Row -> [block : known \union {NoBlock}, height : Nat]]
      /\ blocks'[i] = Header(hashes[i]) /\ part'[i] = "ok"
      /\ \A k \in Row : k # i => blocks'[k] = blocks[k] /\ part'[k] = part[k]
  BY <1>1, <1>2, <1>3, <1>4 DEF IInv, TypeOK
<1>6. TypeOK'
  BY <1>1, <1>5 DEF IInv, TypeOK, nodeVars
<1>7. Hashed'
  BY <1>1, <1>5 DEF IInv, Hashed, WasActive
<1>8. Reasons'
  BY <1>1, <1>5 DEF IInv, Reasons
<1> QED
  BY <1>1, <1>6, <1>7, <1>8, StayStep

LEMMA CallFailsStep == ASSUME IInv, NEW i \in Row, CallFails(i) PROVE IInv'
<1>1. /\ at \in {"hashes", "blocks"} /\ part[i] = "call" /\ broke'
      /\ part' = [part EXCEPT ![i] = "failed"]
      /\ UNCHANGED <<nodeVars, at, tip, hashes, blocks, page, seen>>
  BY DEF CallFails
<1>2. part'[i] = "failed" /\ \A k \in Row : k # i => part'[k] = part[k]
  BY <1>1 DEF IInv, TypeOK
<1>3. TypeOK'
  BY <1>1 DEF CallFails, IInv, TypeOK, nodeVars
<1>4. Hashed' /\ Reasons'
  BY <1>1, <1>2 DEF IInv, Hashed, WasActive, Reasons
<1> QED
  BY <1>1, <1>3, <1>4, StayStep

LEMMA CallCancelledStep == ASSUME IInv, NEW i \in Row, CallCancelled(i) PROVE IInv'
<1>1. /\ at \in {"hashes", "blocks"} /\ part[i] = "call"
      /\ part' = [part EXCEPT ![i] = "cancelled"]
      /\ UNCHANGED <<nodeVars, at, tip, hashes, blocks, page, seen, broke>>
  BY DEF CallCancelled
<1>2. part'[i] = "cancelled" /\ \A k \in Row : k # i => part'[k] = part[k]
  BY <1>1 DEF IInv, TypeOK
<1>3. \E k \in Row : k # i /\ part[k] = "failed"
  BY <1>1 DEF CallCancelled
<1>4. TypeOK'
  BY <1>1 DEF IInv, TypeOK, nodeVars
<1>5. Hashed' /\ Reasons'
  BY <1>1, <1>2, <1>3 DEF IInv, Hashed, WasActive, Reasons
<1> QED
  BY <1>1, <1>4, <1>5, StayStep
-----------------------------------------------------------------------------
(* An error page that has its reason. *)
LEMMA ErrorStep ==
  ASSUME IInv, at # "idle", Answer(ErrorPage), broke' \/ (tip > 0 /\ tip < Rows),
         UNCHANGED <<nodeVars, tip, hashes, part, blocks, seen>>,
         broke' \in BOOLEAN
  PROVE  IInv'
<1>1. TypeOK'
  BY DEF IInv, TypeOK, nodeVars, Answer, ErrorPage
<1> QED
  BY <1>1 DEF IInv, Answer, ErrorPage, RowsWereActive, ErrorIsEarned, Grown, Hashed,
     Reasons, OnBranch, nodeVars

LEMMA InfoFailsStep == IInv /\ InfoFails => IInv'
BY ErrorStep DEF InfoFails

(* A group that has ended without success has a part that failed.          *)
LEMMA GroupError ==
  ASSUME IInv, at \in {"hashes", "blocks"}, Ended, ~AllOk
  PROVE  broke \/ (tip > 0 /\ tip < Rows)
<1>1. PICK i \in Row : part[i] \in {"failed", "cancelled"}
  BY DEF Ended, AllOk, IInv, TypeOK, Hashed
<1> QED
  BY <1>1 DEF IInv, Reasons, Grown

LEMMA WaitHashesStep == IInv /\ WaitHashes => IInv'
<1> SUFFICES ASSUME IInv, WaitHashes PROVE IInv'
  OBVIOUS
<1>1. CASE AllOk
  <2>1. /\ at = "hashes" /\ at' = "blocks" /\ part' = [i \in Row |-> "call"]
        /\ UNCHANGED <<nodeVars, tip, hashes, blocks, page, seen, broke>>
    BY <1>1 DEF WaitHashes
  <2>2. TypeOK'
    BY <2>1 DEF IInv, TypeOK, nodeVars
  <2>3. Hashed' /\ Reasons'
    BY <1>1, <2>1 DEF IInv, Hashed, WasActive, Reasons, AllOk
  <2> QED
    BY <2>1, <2>2, <2>3
    DEF IInv, RowsWereActive, ErrorIsEarned, Grown, OnBranch, nodeVars
<1>2. CASE ~AllOk
  <2>1. broke \/ (tip > 0 /\ tip < Rows)
    BY <1>2, GroupError DEF WaitHashes
  <2> QED
    BY <1>2, <2>1, ErrorStep DEF WaitHashes, IInv, TypeOK
<1> QED
  BY <1>1, <1>2

(* The page: each row is the header of a hash that was active.             *)
LEMMA WaitBlocksStep == IInv /\ WaitBlocks => IInv'
<1> SUFFICES ASSUME IInv, WaitBlocks PROVE IInv'
  OBVIOUS
<1>1. CASE AllOk
  <2>1. /\ at = "blocks" /\ at' = "idle" /\ page' = OverviewPage
        /\ UNCHANGED <<nodeVars, tip, hashes, part, blocks, seen, broke>>
    BY <1>1 DEF WaitBlocks, Answer
  <2>2. ASSUME NEW i \in Row
        PROVE  /\ blocks[i] \in [block : known, height : Nat \ {0}]
               /\ blocks[i].block = hashes[i] /\ blocks[i].height = tip - i
               /\ \E c \in seen : hashes[i] = c[tip - i]
    <3>1. PICK c \in seen : tip - i \in DOMAIN c /\ hashes[i] = c[tip - i]
      BY <2>1 DEF IInv, Hashed, WasActive
    <3>2. c \in Chains /\ DOMAIN c \subseteq Nat \ {0}
      BY <2>1, <3>1, ChainOfBranch DEF IInv, Grown
    <3>3. blocks[i] = Header(hashes[i])
      BY <1>1, <2>1 DEF IInv, Hashed, AllOk
    <3>4. hashes[i] # NoBlock
      BY <3>1, <3>2, BlocksAreNot
    <3>5. blocks[i] = [block |-> hashes[i], height |-> tip - i]
      BY <3>1, <3>2, <3>3, HeaderOf
    <3>6. hashes[i] \in known /\ tip - i \in Nat \ {0}
      BY <3>1, <3>2, <3>4 DEF IInv, TypeOK
    <3> QED
      BY <3>1, <3>5, <3>6
  <2>3. /\ page'.kind = "overview" /\ page'.tip = tip
        /\ page'.best = hashes[0] /\ page'.rows = blocks
    BY <2>1 DEF OverviewPage
  <2>4. TypeOK'
    <3>1. \A i \in Row : blocks[i] \in [block : known, height : Nat \ {0}]
      BY <2>2
    <3>2. \A i \in Row : page'.rows[i] \in [block : known, height : Nat \ {0}]
      BY <2>3, <3>1
    <3>3. page'.kind \in {"blank", "error", "overview"}
      BY <2>3
    <3>4. /\ chain \in Chains /\ Range(chain) \subseteq known
          /\ tip \in Nat /\ hashes \in [Row -> known \union {NoBlock}]
          /\ part \in [Row -> {"idle", "call", "ok", "failed", "cancelled"}]
          /\ blocks \in [Row -> [block : known \union {NoBlock}, height : Nat]]
          /\ seen \subseteq Chains /\ broke \in BOOLEAN
      BY DEF IInv, TypeOK
    <3> QED
      BY <2>1, <3>2, <3>3, <3>4 DEF TypeOK, nodeVars
  <2>5. RowsWereActive'
    <3>1. blocks[0].block = hashes[0]
      BY <2>2, RowType
    <3>2. ASSUME NEW i \in Row
          PROVE  /\ blocks[i].height = tip - i
                 /\ \E c \in seen : blocks[i].block = c[tip - i]
      BY <2>2
    <3> QED
      BY <2>1, <2>3, <3>1, <3>2 DEF RowsWereActive
  <2> QED
    BY <2>1, <2>4, <2>5 DEF IInv, ErrorIsEarned, Grown, Hashed, Reasons, OnBranch,
       nodeVars, OverviewPage
<1>2. CASE ~AllOk
  <2>1. broke \/ (tip > 0 /\ tip < Rows)
    BY <1>2, GroupError DEF WaitBlocks
  <2> QED
    BY <1>2, <2>1, ErrorStep DEF WaitBlocks, IInv, TypeOK
<1> QED
  BY <1>1, <1>2
-----------------------------------------------------------------------------
(* The chain moves: what was active stays seen, and the tip is still       *)
(* below the new one.                                                      *)
LEMMA ChainMovesStep == IInv /\ ChainMoves => IInv'
<1> SUFFICES ASSUME IInv, ChainMoves PROVE IInv'
  OBVIOUS
<1>1. /\ chain' \in Chains /\ Len(chain') > Len(chain)
      /\ known' = known \union Range(chain')
      /\ seen' = IF at \in {"hashes", "blocks"} THEN seen \union {chain'} ELSE seen
      /\ UNCHANGED <<reqVars, broke>>
  BY DEF ChainMoves, NewTip
<1>2. Len(chain) \in Nat /\ Len(chain') \in Nat
  BY <1>1, ChainOfBranch DEF IInv, TypeOK
<1>3. TypeOK'
  BY <1>1 DEF IInv, TypeOK, reqVars
<1>4. Grown'
  BY <1>1, <1>2 DEF IInv, TypeOK, Grown, reqVars
<1>5. Hashed'
  <2>1. ASSUME NEW i \in Row, WasActive(i), at \in {"hashes", "blocks"}
        PROVE  WasActive(i)'
    BY <1>1, <2>1 DEF WasActive, reqVars
  <2>2. \A i \in Row : Header(hashes[i])' = Header(hashes[i])
    BY <1>1 DEF Header, reqVars
  <2> QED
    BY <1>1, <2>1, <2>2 DEF IInv, Hashed, reqVars
<1>6. OnBranch'
  <2>1. PICK b \in Branches : \A i \in DOMAIN chain' : i \in DOMAIN b /\ chain'[i] = b[i]
    BY <1>1, ChainOfBranch
  <2>2. Range(chain') \subseteq Range(b)
    BY <2>1 DEF Range
  <2> QED
    BY <1>1, <2>2 DEF IInv, OnBranch
<1>7. Reasons' /\ ErrorIsEarned'
  BY <1>1 DEF IInv, Reasons, ErrorIsEarned, reqVars
<1>8. RowsWereActive'
  BY <1>1 DEF IInv, RowsWereActive, reqVars
<1> QED
  BY <1>3, <1>4, <1>5, <1>6, <1>7, <1>8 DEF IInv

(* Every step preserves the invariant. *)
LEMMA StepIInv == IInv /\ [Next]_vars => IInv'
<1> SUFFICES ASSUME IInv, [Next]_vars PROVE IInv'
  OBVIOUS
<1>1. CASE UNCHANGED vars
  <2>1. UNCHANGED <<nodeVars, at, tip, hashes, part, blocks, page, seen, broke>>
    BY <1>1 DEF vars, reqVars
  <2>2. TypeOK' /\ RowsWereActive' /\ ErrorIsEarned'
    BY <2>1 DEF nodeVars, IInv, TypeOK, RowsWereActive, ErrorIsEarned
  <2>3. Grown' /\ Reasons' /\ OnBranch'
    BY <2>1 DEF nodeVars, IInv, Grown, Reasons, OnBranch
  <2>4. Hashed'
    BY <2>1 DEF IInv, Hashed, WasActive
  <2> QED
    BY <2>2, <2>3, <2>4 DEF IInv
<1> QED
  BY <1>1, OpenStep, InfoStep, InfoFailsStep, WaitHashesStep, WaitBlocksStep,
     HashStep, BlockStep, CallFailsStep, CallCancelledStep, ChainMovesStep
  DEF Next, Handle

-----------------------------------------------------------------------------
(* The inductive invariant holds in every reachable state. *)
THEOREM Invariance == Spec => []IInv
<1> QED
  BY InitIInv, StepIInv, PTL DEF Spec

(* Types; no row of a page is missing. *)
THEOREM OverviewTypeOK == Spec => []TypeOK
<1>1. IInv => TypeOK
  BY DEF IInv
<1> QED
  BY <1>1, Invariance, PTL

(* Each row is the active block of its height at some instant since the    *)
(* tip was read, for any branches and any number of rows.                  *)
THEOREM OverviewRows == Spec => []RowsWereActive
<1>1. IInv => RowsWereActive
  BY DEF IInv
<1> QED
  BY <1>1, Invariance, PTL

(* A chain that moves is never what makes the page fail. *)
THEOREM OverviewErrors == Spec => []ErrorIsEarned
<1>1. IInv => ErrorIsEarned
  BY DEF IInv
<1> QED
  BY <1>1, Invariance, PTL
-----------------------------------------------------------------------------
(* Why the overview is answered.  BuildOverview has its three waits before *)
(* it, and in each group the calls that are not answered yet.              *)
MovesLeft == IF at = "info" THEN 3 ELSE IF at = "hashes" THEN 2
             ELSE IF at = "blocks" THEN 1 ELSE 0

CallsAhead == {i \in Row : part[i] = "call"}

Nearer ==
  \/ MovesLeft' < MovesLeft
  \/ MovesLeft' = MovesLeft /\ CallsAhead' \subseteq CallsAhead /\ CallsAhead' # CallsAhead

(* Every step of the request brings it nearer to its page, and the chain   *)
(* that moves under it does not put it back.                               *)
Onwards ==
  /\ Handle => Nearer
  /\ at # "idle" => Nearer \/ UNCHANGED <<MovesLeft, CallsAhead>>

(* While a group is waited for, one of its calls can be answered, without  *)
(* any failing: the node knows every block that is asked for, wherever the *)
(* chain has gone meanwhile.                                               *)
Answerable ==
  at \in {"hashes", "blocks"} =>
    Ended \/ \E i \in Row : part[i] = "call" /\ (at = "blocks" => Asked(i) \in known)

LEMMA MovesAreNat == MovesLeft \in 0..3 /\ MovesLeft' \in 0..3
BY DEF MovesLeft

LEMMA CallsAreFinite == IsFiniteSet(CallsAhead)
<1>1. IsFiniteSet(Row)
  BY RowsAssumption, FS_Interval DEF Row
<1> QED
  BY <1>1, FS_Subset DEF CallsAhead

(* A call that is over is one less to wait for. *)
LEMMA CallIsOver ==
  ASSUME NEW i \in Row, IInv, part[i] = "call", NEW r \in {"ok", "failed", "cancelled"},
         part' = [part EXCEPT ![i] = r], UNCHANGED at
  PROVE  Nearer
<1>1. i \in CallsAhead /\ CallsAhead' = CallsAhead \ {i}
  BY DEF IInv, TypeOK, CallsAhead
<1>2. UNCHANGED MovesLeft
  BY DEF MovesLeft
<1> QED
  BY <1>1, <1>2 DEF Nearer

LEMMA HandleGoesOn == IInv /\ Handle => Nearer
<1> SUFFICES ASSUME IInv, Handle PROVE Nearer
  OBVIOUS
<1>1. CASE Info \/ InfoFails \/ WaitHashes \/ WaitBlocks
  <2>1. CASE at' = at
    <3>1. FALSE
      BY <1>1, <2>1 DEF Info, InfoFails, WaitHashes, WaitBlocks, Answer
    <3> QED
      BY <3>1
  <2>2. CASE at' # at
    <3>1. \/ at = "info" /\ at' \in {"hashes", "idle"}
          \/ at = "hashes" /\ at' \in {"blocks", "idle"}
          \/ at = "blocks" /\ at' = "idle"
      BY <1>1 DEF Info, InfoFails, WaitHashes, WaitBlocks, Answer
    <3> QED
      BY <3>1 DEF MovesLeft, Nearer
  <2> QED
    BY <2>1, <2>2
<1>2. ASSUME NEW i \in Row,
             HashAnswered(i) \/ BlockAnswered(i) \/ CallFails(i) \/ CallCancelled(i)
      PROVE  Nearer
  <2>1. /\ part[i] = "call" /\ UNCHANGED at
        /\ \E r \in {"ok", "failed", "cancelled"} : part' = [part EXCEPT ![i] = r]
    BY <1>2 DEF HashAnswered, BlockAnswered, CallFails, CallCancelled
  <2> QED
    BY <2>1, CallIsOver
<1> QED
  BY <1>1, <1>2 DEF Handle

LEMMA StepGoesOn == IInv /\ [Next]_vars => [Onwards]_vars
<1> SUFFICES ASSUME IInv, Next PROVE Onwards
  OBVIOUS
<1>1. Handle => Nearer
  BY HandleGoesOn
<1>2. ChainMoves => UNCHANGED <<MovesLeft, CallsAhead>>
  BY DEF ChainMoves, reqVars, MovesLeft, CallsAhead
<1>3. Open => at = "idle"
  BY DEF Open
<1> QED
  BY <1>1, <1>2, <1>3 DEF Next, Onwards

(* A block that is asked for was active once, and what was active once     *)
(* stays known.                                                            *)
LEMMA CallsCanBeAnswered == IInv => Answerable
<1> SUFFICES ASSUME IInv, at \in {"hashes", "blocks"}, NEW i \in Row, part[i] = "call"
             PROVE  at = "blocks" => Asked(i) \in known
  BY DEF Answerable, Ended
<1>1. ASSUME at = "blocks" PROVE hashes[i] \in known
  <2>1. PICK c \in seen : tip - i \in DOMAIN c /\ hashes[i] = c[tip - i]
    BY <1>1 DEF IInv, Hashed, WasActive
  <2>2. hashes[i] # NoBlock
    BY <2>1, BlocksAreNot DEF IInv, Grown
  <2> QED
    BY <2>2 DEF IInv, TypeOK
<1> QED
  BY <1>1 DEF Asked

(* A request for the overview cannot go on for ever and cannot get stuck,  *)
(* for any number of rows and however the chain moves.                     *)
THEOREM OverviewIsBounded ==
  Spec => []IsFiniteSet(CallsAhead) /\ []Answerable /\ [][Onwards]_vars
<1> QED
  BY CallsAreFinite, CallsCanBeAnswered, StepGoesOn, Invariance, PTL DEF Spec
=============================================================================
