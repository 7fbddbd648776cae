---------------------------- MODULE ServiceProofs ----------------------------
(***************************************************************************)
(* Proofs about the services that MCServices checks together: the rebase   *)
(* process, the import of the proof-of-work chain, and the metric process; *)
(* for every chain, every window or period, and every number of faults.    *)
(* They share no state.                                                    *)
(***************************************************************************)
EXTENDS RebaseSender, PowSync, MetricJobs, FiniteSetTheorems, TLAPS

-----------------------------------------------------------------------------
(***************************************************************************)
(* The rebase process, behind an importer that keeps the promise of        *)
(* AtomicImport.                                                           *)
(***************************************************************************)

\* The head is below the importer's, unless the importer has not moved since it was created.
HeadInv ==
  /\ head = -1 <=> born = -1
  /\ head # -1 => tip # -1 /\ (head < tip \/ (head = born /\ born = tip))

\* A round looks at what the importer had passed when it began.  It ends before it begins only
\* where the head was created.
RoundInv ==
  /\ pc \notin {"down", "idle"} => /\ head # -1 /\ num = head
                                   /\ endNum < tip
                                   /\ endNum >= head \/ (head = born /\ endNum = born - 1)
  /\ pc \in {"work", "rebase", "sync", "done"} =>
       /\ num < blk /\ blk <= endNum /\ blk \in TxBlock
       /\ \A n \in TxBlock \cap visible : num < n /\ n <= endNum => blk <= n
  /\ pc \in {"rebase", "sync"} => blk \in AuctionEnd

LInv == RebaseTypeOK /\ HeadInv /\ RoundInv

\* The head is where it was created, and may still go back.
Fresh == head = born /\ (tip = born \/ (pc = "scan" /\ endNum = born - 1))

\* Block n has been reviewed, or its rebase has been sent, since the process was last interrupted.
Reached(n) ==
  \/ n <= head /\ ~ (Fresh /\ n = born)
  \/ pc \in {"sync", "done"} /\ blk = n

CountInv ==
  \A n \in AuctionEnd :
    /\ rebases[n] <= stops + 1
    /\ ~ Reached(n) => rebases[n] <= stops
    /\ syncs[n] <= rebases[n] + sendErrors
    /\ pc = "sync" /\ blk = n => syncs[n] < rebases[n] + sendErrors

CInv == LInv /\ CountInv
-----------------------------------------------------------------------------
LEMMA InitLInv == RebaseInit => LInv
  BY RebaseAssumption
     DEF RebaseInit, AbsInit, LInv, RebaseTypeOK, AbsTypeOK, HeadInv, RoundInv, Block

\* Where the numbers lie.
LEMMA NumberFact ==
  ASSUME LInv
  PROVE  /\ MaxBlock \in Nat /\ Window \in Nat \ {0}
         /\ tip \in Int /\ -1 <= tip /\ tip <= MaxBlock
         /\ head \in Int /\ -1 <= head /\ head <= MaxBlock
         /\ born \in Int /\ -1 <= born /\ born <= MaxBlock
         /\ num \in Int /\ endNum \in Int /\ blk \in Int
         /\ TxBlock \subseteq Int /\ AuctionEnd \subseteq TxBlock
  BY RebaseAssumption DEF LInv, RebaseTypeOK, AbsTypeOK, Block

\* What the importer adds lies beyond the round.
LEMMA ImportFact ==
  ASSUME LInv, PosImports
  PROVE  /\ tip' \in -1..MaxBlock /\ tip < tip' /\ visible' \subseteq 0..tip'
         /\ \A n \in visible' : n \in visible \/ tip < n
  <1>0. PICK n \in (tip + 1)..MaxBlock :
          \E batch \in SUBSET ((tip + 1)..n) : tip' = n /\ visible' = visible \cup batch
    BY DEF PosImports, ImportBatch
  <1>1. PICK batch \in SUBSET ((tip + 1)..n) : tip' = n /\ visible' = visible \cup batch
    BY <1>0
  <1>2. visible \subseteq 0..tip
    BY DEF LInv, RebaseTypeOK, AbsTypeOK
  <1>. QED  BY <1>1, <1>2, NumberFact

LEMMA NextLInv == LInv /\ [RebaseNext]_rebaseVars => LInv'
  <1>. SUFFICES ASSUME LInv, [RebaseNext]_rebaseVars
                PROVE  LInv'
    OBVIOUS
  <1>. USE NumberFact DEF LInv, HeadInv, RoundInv
  <1>1. CASE StartRebase \/ NoPosHead \/ EmptyEndBlock
    BY <1>1 DEF StartRebase, NoPosHead, EmptyEndBlock, RebaseTypeOK, AbsTypeOK, absVars, sent, faults
  <1>2. CASE BeginReview
    <2>1. /\ pc' = "scan" /\ head' = From /\ num' = From /\ endNum' = RoundEnd
          /\ born' = (IF head = -1 THEN tip ELSE born)
          /\ tip # -1 /\ UNCHANGED <<absVars, blk, sent, faults>>
      BY <1>2 DEF BeginReview
    <2>2. /\ From \in 0..MaxBlock /\ From <= tip /\ RoundEnd \in -1..MaxBlock /\ RoundEnd < tip
          /\ RoundEnd >= From \/ (From = tip /\ RoundEnd = tip - 1)
      BY <2>1 DEF From, RoundEnd, LocalBest
    <2>3. RebaseTypeOK'
      BY <2>1, <2>2 DEF RebaseTypeOK, AbsTypeOK, absVars, sent, faults, Block
    <2>4. HeadInv'
      BY <2>1, <2>2 DEF From, absVars
    <2>5. RoundInv'
      BY <2>1, <2>2 DEF From, absVars
    <2>. QED  BY <2>3, <2>4, <2>5
  <1>3. CASE NextBlock
    BY <1>3, RebaseAssumption
       DEF NextBlock, ToReview, RebaseTypeOK, AbsTypeOK, absVars, sent, faults, Block
  <1>4. CASE NothingToProcess
    BY <1>4, RebaseAssumption
       DEF NothingToProcess, RebaseTypeOK, AbsTypeOK, absVars, sent, faults, Block
  <1>5. CASE ProcessTx
    BY <1>5 DEF ProcessTx, RebaseTypeOK, AbsTypeOK, absVars, sent, faults
  <1>6. CASE SendRebase
    BY <1>6 DEF SendRebase, RebaseTypeOK, AbsTypeOK, absVars, faults
  <1>7. CASE SendSync
    BY <1>7 DEF SendSync, RebaseTypeOK, AbsTypeOK, absVars, faults
  <1>8. CASE SendFails
    <2>1. rebases' \in [AuctionEnd -> Nat] /\ syncs' \in [AuctionEnd -> Nat]
      BY <1>8 DEF SendFails, RebaseTypeOK
    <2>2. sendErrors' \in 0..SendErrors
      BY <1>8, RebaseAssumption DEF SendFails, RebaseTypeOK
    <2>. QED  BY <1>8, <2>1, <2>2 DEF SendFails, RebaseTypeOK, AbsTypeOK, absVars
  <1>9. CASE Reviewed
    <2>1. blk \in Block /\ blk < tip /\ blk # -1
      BY <1>9 DEF Reviewed, RebaseTypeOK, Block
    <2>. QED  BY <1>9, <2>1 DEF Reviewed, RebaseTypeOK, AbsTypeOK, absVars, sent, faults, Block
  <1>10. CASE Stop
    BY <1>10, RebaseAssumption DEF Stop, RebaseTypeOK, AbsTypeOK, absVars, sent
  <1>11. CASE PosImports
    BY <1>11, ImportFact DEF PosImports, RebaseTypeOK, AbsTypeOK, local, sent, faults, Block
  <1>12. CASE UNCHANGED rebaseVars
    BY <1>12 DEF rebaseVars, RebaseTypeOK, AbsTypeOK, absVars, local, sent, faults, Block
  <1>. QED  BY <1>1, <1>2, <1>3, <1>4, <1>5, <1>6, <1>7, <1>8, <1>9, <1>10, <1>11, <1>12
            DEF RebaseNext, RebaseProgram, RebaseLoop

LEMMA LInvAlways == RebaseSpec => []LInv
  BY InitLInv, NextLInv, PTL DEF RebaseSpec
-----------------------------------------------------------------------------
\* No block with a transaction is passed over by the rebase process: the head of rebase comes to
\* it, or past it, only by reviewing that very block.
THEOREM EveryBlockReached == RebaseSpec => NoBlockPassed
  <1>1. ASSUME LInv, [RebaseNext]_rebaseVars, NEW n \in TxBlock \cap visible,
               head # -1, head < n, n <= head'
        PROVE  pc = "done" /\ blk = n
    <2>. USE NumberFact
    <2>1. head' # head
      BY <1>1
    <2>2. CASE BeginReview
      BY <2>1, <2>2, <1>1 DEF BeginReview, From
    <2>3. CASE NothingToProcess
      BY <2>3, <1>1 DEF NothingToProcess, ToReview, LInv, RoundInv
    <2>4. CASE Reviewed
      BY <2>4, <1>1 DEF Reviewed, LInv, RoundInv
    <2>. QED  BY <2>1, <2>2, <2>3, <2>4, <1>1
              DEF RebaseNext, RebaseProgram, RebaseLoop, StartRebase, NoPosHead, EmptyEndBlock, NextBlock, ProcessTx,
                  SendRebase, SendSync, SendFails, Stop, PosImports, rebaseVars
  <1>2. LInv /\ [RebaseNext]_rebaseVars =>
          [ \A n \in TxBlock \cap visible :
              head # -1 /\ head < n /\ n <= head' => pc = "done" /\ blk = n ]_rebaseVars
    BY <1>1
  <1>. QED  BY <1>2, LInvAlways, PTL DEF RebaseSpec, NoBlockPassed

\* The head of rebase goes back only from where it was created, and by one.
THEOREM BackOnce == RebaseSpec => GoesBackOnce
  <1>1. ASSUME LInv, [RebaseNext]_rebaseVars, head' < head
        PROVE  head = born /\ head' = born - 1
    <2>. USE NumberFact
    <2>2. CASE BeginReview
      BY <2>2, <1>1 DEF BeginReview, From
    <2>3. CASE NothingToProcess
      BY <2>3, <1>1 DEF NothingToProcess, LInv, RoundInv
    <2>4. CASE Reviewed
      BY <2>4, <1>1 DEF Reviewed, LInv, RoundInv
    <2>. QED  BY <2>2, <2>3, <2>4, <1>1
              DEF RebaseNext, RebaseProgram, RebaseLoop, StartRebase, NoPosHead, EmptyEndBlock, NextBlock, ProcessTx,
                  SendRebase, SendSync, SendFails, Stop, PosImports, rebaseVars
  <1>. QED  BY <1>1, LInvAlways, PTL DEF RebaseSpec, GoesBackOnce
-----------------------------------------------------------------------------
LEMMA InitCInv == RebaseInit => CInv
  BY InitLInv DEF RebaseInit, CInv, CountInv

\* A step that sends nothing keeps the bounds, unless it turns back over a block that was reached.
LEMMA QuietCounts ==
  ASSUME CInv, UNCHANGED <<sent, faults>>,
         \A n \in AuctionEnd : Reached(n) => Reached(n)' \/ rebases[n] <= stops,
         pc' # "sync" \/ UNCHANGED <<pc, blk>>
  PROVE  CountInv'
  BY DEF CInv, CountInv, sent, faults

LEMMA NextCInv == CInv /\ [RebaseNext]_rebaseVars => CInv'
  <1>. SUFFICES ASSUME CInv, [RebaseNext]_rebaseVars
                PROVE  CountInv'
    BY NextLInv DEF CInv
  <1>. USE NumberFact DEF CInv
  <1>0. /\ \A n \in AuctionEnd : n \in Int /\ rebases[n] \in Nat /\ syncs[n] \in Nat
        /\ stops \in Nat /\ sendErrors \in Nat
    BY RebaseAssumption DEF LInv, RebaseTypeOK
  <1>1. CASE StartRebase \/ NoPosHead \/ EmptyEndBlock
    BY <1>1, <1>0, QuietCounts DEF StartRebase, NoPosHead, EmptyEndBlock, absVars, Reached, Fresh
  <1>2. CASE BeginReview
    <2>1. /\ pc = "idle" /\ pc' = "scan" /\ head' = From /\ endNum' = RoundEnd
          /\ born' = (IF head = -1 THEN tip ELSE born)
          /\ UNCHANGED <<absVars, blk, sent, faults>>
      BY <1>2 DEF BeginReview
    <2>2. ASSUME NEW n \in AuctionEnd, Reached(n)
          PROVE  Reached(n)'
      <3>1. n <= head /\ ~ (Fresh /\ n = born)
        BY <2>1, <2>2 DEF Reached
      <3>2. CASE head = -1
        BY <3>1, <3>2, RebaseAssumption
      <3>3. CASE head # -1
        <4>1. head' = head /\ born' = born /\ tip' = tip
          BY <2>1, <3>3 DEF From, absVars
        <4>2. Fresh' => Fresh
          BY <4>1, <2>1, <3>3 DEF Fresh, RoundEnd, From, LocalBest, LInv, HeadInv
        <4>. QED  BY <3>1, <4>1, <4>2 DEF Reached
      <3>. QED  BY <3>2, <3>3
    <2>. QED  BY <2>1, <2>2, QuietCounts
  <1>3. CASE NextBlock
    BY <1>3, <1>0, QuietCounts DEF NextBlock, absVars, Reached, Fresh
  <1>4. CASE NothingToProcess
    <2>1. /\ pc = "scan" /\ pc' = "idle" /\ head' = endNum
          /\ UNCHANGED <<absVars, born, endNum, blk, sent, faults>>
      BY <1>4 DEF NothingToProcess
    <2>2. ASSUME NEW n \in AuctionEnd, Reached(n)
          PROVE  Reached(n)'
      <3>1. n <= head /\ ~ (Fresh /\ n = born)
        BY <2>1, <2>2 DEF Reached
      <3>2. endNum < tip /\ (endNum >= head \/ (head = born /\ endNum = born - 1))
        BY <2>1 DEF LInv, RoundInv
      <3>3. n <= endNum
        BY <3>1, <3>2, <2>1 DEF Fresh
      <3>4. ~ Fresh'
        BY <2>1, <3>2 DEF Fresh, absVars
      <3>. QED  BY <3>3, <3>4, <2>1 DEF Reached
    <2>. QED  BY <2>1, <2>2, QuietCounts
  <1>5. CASE ProcessTx
    BY <1>5, <1>0, QuietCounts DEF ProcessTx, absVars, Reached, Fresh
  \* The block whose rebase is sent lies above the head.
  <1>6. ASSUME pc = "rebase"
        PROVE  blk \in AuctionEnd /\ rebases[blk] <= stops
    BY <1>6 DEF LInv, RoundInv, CountInv, Reached
  <1>7. CASE SendRebase
    <2>1. /\ pc = "rebase" /\ pc' = "sync" /\ rebases' = [rebases EXCEPT ![blk] = @ + 1]
          /\ UNCHANGED <<tip, head, born, endNum, blk, syncs, faults>>
      BY <1>7 DEF SendRebase, absVars
    <2>2. \A n \in AuctionEnd : rebases'[n] = IF n = blk THEN rebases[n] + 1 ELSE rebases[n]
      BY <2>1 DEF LInv, RebaseTypeOK
    <2>3. \A n \in AuctionEnd : Reached(n) => Reached(n)'
      BY <2>1 DEF Reached, Fresh
    <2>4. Reached(blk)'
      BY <2>1 DEF Reached
    <2>5. ASSUME NEW n \in AuctionEnd
          PROVE  /\ rebases'[n] <= stops' + 1
                 /\ ~ Reached(n)' => rebases'[n] <= stops'
                 /\ syncs'[n] <= rebases'[n] + sendErrors'
                 /\ pc' = "sync" /\ blk' = n => syncs'[n] < rebases'[n] + sendErrors'
      <3>1. CASE n = blk
        BY <3>1, <2>1, <2>2, <2>4, <1>0, <1>6 DEF CountInv, faults
      <3>2. CASE n # blk
        BY <3>2, <2>1, <2>2, <2>3, <1>0 DEF CountInv, faults
      <3>. QED  BY <3>1, <3>2
    <2>. QED  BY <2>5 DEF CountInv
  <1>8. CASE SendSync
    <2>1. /\ pc = "sync" /\ pc' = "done" /\ syncs' = [syncs EXCEPT ![blk] = @ + 1]
          /\ UNCHANGED <<tip, head, born, endNum, blk, rebases, faults>>
      BY <1>8 DEF SendSync, absVars
    <2>2. \A n \in AuctionEnd : syncs'[n] = IF n = blk THEN syncs[n] + 1 ELSE syncs[n]
      BY <2>1 DEF LInv, RebaseTypeOK
    <2>3. \A n \in AuctionEnd : Reached(n) => Reached(n)'
      BY <2>1 DEF Reached, Fresh
    <2>. QED  BY <2>1, <2>2, <2>3, <1>0 DEF CountInv, faults
  <1>9. CASE SendFails
    <2>1. /\ sendErrors' = sendErrors + 1 /\ pc' = "done"
          /\ UNCHANGED <<tip, head, born, endNum, blk, stops>>
      BY <1>9 DEF SendFails, absVars
    <2>2. CASE pc = "rebase"
      <3>1. PICK k \in {0, 1} : rebases' = [rebases EXCEPT ![blk] = @ + k]
        BY <2>2, <1>9 DEF SendFails
      <3>2. syncs' = syncs
        BY <2>2, <1>9 DEF SendFails
      <3>3. \A n \in AuctionEnd : rebases'[n] = IF n = blk THEN rebases[n] + k ELSE rebases[n]
        BY <3>1 DEF LInv, RebaseTypeOK
      <3>4. \A n \in AuctionEnd : Reached(n) => Reached(n)'
        BY <2>1, <2>2 DEF Reached, Fresh
      <3>5. Reached(blk)'
        BY <2>1 DEF Reached
      <3>6. ASSUME NEW n \in AuctionEnd
            PROVE  /\ rebases'[n] <= stops' + 1
                   /\ ~ Reached(n)' => rebases'[n] <= stops'
                   /\ syncs'[n] <= rebases'[n] + sendErrors'
        <4>1. CASE n = blk
          BY <4>1, <2>1, <2>2, <3>2, <3>3, <3>5, <1>0, <1>6 DEF CountInv
        <4>2. CASE n # blk
          BY <4>2, <2>1, <3>2, <3>3, <3>4, <1>0 DEF CountInv
        <4>. QED  BY <4>1, <4>2
      <3>. QED  BY <3>6, <2>1 DEF CountInv
    <2>3. CASE pc = "sync"
      <3>1. PICK k \in {0, 1} : syncs' = [syncs EXCEPT ![blk] = @ + k]
        BY <2>3, <1>9 DEF SendFails
      <3>2. rebases' = rebases
        BY <2>3, <1>9 DEF SendFails
      <3>3. \A n \in AuctionEnd : syncs'[n] = IF n = blk THEN syncs[n] + k ELSE syncs[n]
        BY <3>1 DEF LInv, RebaseTypeOK
      <3>4. \A n \in AuctionEnd : Reached(n) => Reached(n)'
        BY <2>1, <2>3 DEF Reached, Fresh
      <3>. QED  BY <2>1, <2>3, <3>2, <3>3, <3>4, <1>0 DEF CountInv
    <2>. QED  BY <2>2, <2>3, <1>9 DEF SendFails
  <1>10. CASE Reviewed
    <2>1. /\ pc = "done" /\ pc' = "scan" /\ head' = blk
          /\ UNCHANGED <<absVars, born, endNum, blk, sent, faults>>
      BY <1>10 DEF Reviewed
    <2>2. head < blk /\ blk <= endNum /\ endNum < tip
      BY <2>1 DEF LInv, RoundInv
    <2>3. ~ Fresh'
      BY <2>1, <2>2 DEF Fresh, absVars
    <2>4. \A n \in AuctionEnd : Reached(n) => Reached(n)'
      BY <2>1, <2>2, <2>3, <1>0 DEF Reached
    <2>. QED  BY <2>1, <2>4, QuietCounts
  <1>11. CASE Stop
    BY <1>11, <1>0 DEF Stop, CountInv, sent
  <1>12. CASE PosImports
    <2>1. tip < tip' /\ tip' \in Int /\ UNCHANGED <<head, born, pc, endNum, blk, sent, faults>>
      BY <1>12, ImportFact DEF PosImports, local
    <2>2. ASSUME NEW n \in AuctionEnd, Reached(n)
          PROVE  Reached(n)'
      <3>1. CASE head = -1
        BY <3>1, <2>1, <2>2, RebaseAssumption DEF Reached
      <3>2. CASE head # -1
        BY <3>2, <2>1, <2>2 DEF Reached, Fresh, LInv, HeadInv
      <3>. QED  BY <3>1, <3>2
    <2>. QED  BY <2>1, <2>2, QuietCounts
  <1>13. CASE UNCHANGED rebaseVars
    BY <1>13, <1>0, QuietCounts DEF rebaseVars, absVars, local, Reached, Fresh
  <1>. QED  BY <1>1, <1>2, <1>3, <1>4, <1>5, <1>7, <1>8, <1>9, <1>10, <1>11, <1>12, <1>13
            DEF RebaseNext, RebaseProgram, RebaseLoop

\* An auction is answered with one rebase, and with one more for every time the process has ended
\* in between; no sync goes without its rebase unless sending failed.
THEOREM BoundedRebases == RebaseSpec => []RebasesBounded
  <1>1. CInv => RebasesBounded
    <2>. SUFFICES ASSUME CInv, NEW n \in AuctionEnd
                  PROVE  rebases[n] <= 1 + stops /\ syncs[n] <= rebases[n] + sendErrors
      BY DEF RebasesBounded
    <2>1. rebases[n] \in Nat /\ stops \in Nat
      BY RebaseAssumption DEF CInv, LInv, RebaseTypeOK
    <2>. QED  BY <2>1 DEF CInv, CountInv
  <1>2. RebaseSpec => []CInv
    BY InitCInv, NextCInv, PTL DEF RebaseSpec
  <1>. QED  BY <1>1, <1>2, PTL
-----------------------------------------------------------------------------
\* What has been sent for a block the head has passed, or is about to pass.
AnswerInv ==
  sendErrors = 0 =>
    \A n \in AuctionEnd \cap visible : tip <= n + FarBehind =>
      /\ (born < n /\ n <= head) \/ (pc = "done" /\ blk = n) => rebases[n] >= 1 /\ syncs[n] >= 1
      /\ pc = "sync" /\ blk = n => rebases[n] >= 1

LEMMA NextAnswer == LInv /\ AnswerInv /\ [RebaseNext]_rebaseVars => AnswerInv'
  <1>. SUFFICES ASSUME LInv, AnswerInv, [RebaseNext]_rebaseVars
                PROVE  AnswerInv'
    OBVIOUS
  <1>. USE NumberFact
  <1>0. /\ \A n \in AuctionEnd : n \in Int /\ rebases[n] \in Nat /\ syncs[n] \in Nat
        /\ sendErrors \in Nat /\ FarBehind \in Nat
        /\ rebases \in [AuctionEnd -> Nat] /\ syncs \in [AuctionEnd -> Nat]
    BY RebaseAssumption DEF LInv, RebaseTypeOK
  <1>1. CASE StartRebase \/ NoPosHead \/ EmptyEndBlock \/ Stop
    BY <1>1 DEF StartRebase, NoPosHead, EmptyEndBlock, Stop, absVars, sent, faults, AnswerInv
  <1>2. CASE BeginReview
    <2>1. /\ pc' = "scan" /\ UNCHANGED <<tip, visible, rebases, syncs, sendErrors>>
          /\ head' = From /\ born' = IF head = -1 THEN tip ELSE born
      BY <1>2 DEF BeginReview, absVars, sent, faults
    <2>. QED  BY <2>1, <1>0 DEF From, AnswerInv
  <1>3. CASE NextBlock
    BY <1>3 DEF NextBlock, absVars, sent, faults, AnswerInv
  \* No auction above the head is left out of a round that finds nothing.
  <1>4. CASE NothingToProcess
    <2>1. /\ pc = "scan" /\ pc' = "idle" /\ head' = endNum
          /\ UNCHANGED <<tip, visible, born, rebases, syncs, sendErrors>>
      BY <1>4 DEF NothingToProcess, absVars, sent, faults
    <2>2. ASSUME NEW n \in AuctionEnd \cap visible, n <= endNum PROVE n <= head
      BY <1>4, <2>1, <2>2, <1>0 DEF NothingToProcess, ToReview, LInv, RoundInv
    <2>. QED  BY <2>1, <2>2 DEF AnswerInv
  \* An auction is left alone only if the importer is far ahead.
  <1>5. CASE ProcessTx
    <2>1. /\ UNCHANGED <<tip, visible, head, born, blk, rebases, syncs, sendErrors>>
          /\ pc' = IF blk \in AuctionEnd /\ ~ (tip > blk + FarBehind) THEN "rebase" ELSE "done"
      BY <1>5 DEF ProcessTx, TooLate, absVars, sent, faults
    <2>. QED  BY <2>1, <1>0 DEF AnswerInv
  <1>6. CASE SendRebase
    <2>1. /\ pc' = "sync" /\ UNCHANGED <<tip, visible, head, born, blk, syncs, sendErrors>>
          /\ pc = "rebase" /\ rebases' = [rebases EXCEPT ![blk] = @ + 1]
      BY <1>6 DEF SendRebase, absVars, faults
    <2>2. \A n \in AuctionEnd : rebases'[n] = IF n = blk THEN rebases[n] + 1 ELSE rebases[n]
      BY <2>1, <1>0
    <2>. QED  BY <2>1, <2>2, <1>0 DEF AnswerInv
  <1>7. CASE SendSync
    <2>1. /\ pc' = "done" /\ UNCHANGED <<tip, visible, head, born, blk, rebases, sendErrors>>
          /\ pc = "sync" /\ syncs' = [syncs EXCEPT ![blk] = @ + 1]
      BY <1>7 DEF SendSync, absVars, faults
    <2>2. \A n \in AuctionEnd : syncs'[n] = IF n = blk THEN syncs[n] + 1 ELSE syncs[n]
      BY <2>1, <1>0
    <2>. QED  BY <2>1, <2>2, <1>0 DEF AnswerInv
  <1>8. CASE SendFails
    BY <1>8, <1>0 DEF SendFails, AnswerInv
  \* The block reviewed is the first one above the head.
  <1>9. CASE Reviewed
    <2>1. /\ pc = "done" /\ pc' = "scan" /\ head' = blk
          /\ UNCHANGED <<tip, visible, born, blk, rebases, syncs, sendErrors>>
      BY <1>9 DEF Reviewed, absVars, sent, faults
    <2>2. ASSUME NEW n \in AuctionEnd \cap visible, n <= blk PROVE n <= head \/ n = blk
      BY <2>1, <2>2, <1>0 DEF LInv, RoundInv
    <2>. QED  BY <2>1, <2>2 DEF AnswerInv
  <1>10. CASE PosImports
    <2>1. /\ tip' \in Int /\ tip < tip' /\ \A n \in visible' : n \in visible \/ tip < n
          /\ UNCHANGED <<head, born, pc, blk, rebases, syncs, sendErrors>>
      BY <1>10, ImportFact DEF PosImports, local, sent, faults
    <2>2. ASSUME NEW n \in AuctionEnd \cap visible', (born < n /\ n <= head) \/ (pc \in {"sync", "done"} /\ blk = n)
          PROVE  n \in visible
      BY <2>1, <2>2, <1>0 DEF LInv, HeadInv, RoundInv
    <2>. QED  BY <2>1, <2>2, <1>0 DEF AnswerInv
  <1>11. CASE UNCHANGED rebaseVars
    BY <1>11 DEF rebaseVars, absVars, local, sent, faults, AnswerInv
  <1>. QED  BY <1>1, <1>2, <1>3, <1>4, <1>5, <1>6, <1>7, <1>8, <1>9, <1>10, <1>11
            DEF RebaseNext, RebaseProgram, RebaseLoop

\* An auction the head of rebase has passed has been answered with both transactions, whatever ends
\* the process in between, unless sending failed or the importer was too far ahead.
THEOREM EveryAuctionAnswered == RebaseSpec => []AuctionAnswered
  <1>1. RebaseInit => AnswerInv
    BY DEF RebaseInit, AbsInit, AnswerInv
  <1>2. LInv /\ AnswerInv => AuctionAnswered
    BY DEF AnswerInv, AuctionAnswered
  <1>. QED  BY <1>1, <1>2, NextAnswer, LInvAlways, PTL DEF RebaseSpec
-----------------------------------------------------------------------------
(***************************************************************************)
(* The import of the proof-of-work chain, for every chain of two branches. *)
(***************************************************************************)

\* The steps at which a block has been asked for, and has no row yet.
AtHand == {"fetching", "read", "fetchingPrevious", "create"}

\* The block at hand lies in the round, and is of one of the branches; so is the one before it, when
\* it has been asked for.  Only the transactions of a block that has its row are waiting.
HandInv ==
  /\ step \in AtHand => height \in Height /\ fetched \in Branch
  /\ step \in {"fetchingPrevious", "create"} => height \in 1..MaxHeight /\ before \in Branch
  /\ step = "txs" => height \in Height
  /\ step # "txs" => rest = << >>
  /\ \A f \in PowFault : powLeft[f] <= PowLimit[f]

TInv == PowTypeOK /\ HandInv

\* No two rows of pow_block have the same height.
OnePerHeight == \A b, c \in powBlocks : b.height = c.height => b = c

\* The transactions still to be stored are those of the block at hand, and it has its row.  Those
\* of a block about to be deleted are gone.
TxInv ==
  /\ step = "txs" => \A i \in DOMAIN rest : \E b \in powBlocks :
                        b.height = height /\ rest[i] \in TxSet(b.height, b.branch)
  /\ step = "drop" => \A b \in powBlocks :
                        b.height = height => TxSet(b.height, b.branch) \cap powTxs = {}

OInv == TInv /\ OnePerHeight /\ TxInv /\ NoOrphanTx

\* What has a row above the head is the block at hand, and nothing else.
AheadInv ==
  /\ step \in AtHand \cup {"fetch", "txs", "drop"} => height > powHead
  /\ step \in AtHand \cup {"fetch"} => \A b \in powBlocks : b.height <= powHead
  /\ step = "txs" => \A b \in powBlocks : b.height <= powHead \/ b.height = height
  /\ step = "txs" /\ height > 0 =>
       \E b \in powBlocks : /\ b.height = height
                            /\ TxSet(b.height, b.branch) \subseteq
                                 powTxs \cup { rest[i] : i \in DOMAIN rest }

AInv == OInv /\ AheadInv

\* As long as the chain has stood still everything is on the branch it began with, the answers that
\* are still to come included.
StandsStill ==
  NoReorg => /\ \A h \in Height : chain[h] = 0 /\ cache[h] \in {0, Unread}
             /\ \A p \in Preload : reading[p].branch = 0
             /\ fetched \in {0, Unread} /\ before \in {0, Unread}
             /\ \A b \in powBlocks : b.branch = 0 /\ b.prev = 0

SInv == TInv /\ StandsStill

\* Unless it is lost, what is remembered of the head is the row of the head, and what is remembered
\* of the block at hand is that block, from the moment it is remembered to that at which the head
\* comes to it.
Remembers ==
  /\ \A b \in powBlocks : b.height = powHead /\ powHead \notin lost => b.branch = cache[powHead]
  /\ step \in AtHand \ {"fetching"} => fetched = cache[height] \/ height \in lost
  /\ step = "txs" => \A b \in powBlocks :
                       b.height = height => b.branch = cache[height] \/ height \in lost

\* So a block names the stored one below it, or that one is lost.
Linked ==
  /\ \A b, c \in powBlocks : c.height = b.height + 1 => c.prev = b.branch \/ b.height \in lost
  /\ step \in {"fetchingPrevious", "create"} =>
       \A b \in powBlocks : b.height = height - 1 => before = b.branch \/ b.height \in lost

PInv == AInv /\ SInv /\ Remembers /\ Linked
-----------------------------------------------------------------------------
\* Spending a fault takes one away and leaves the others alone.
LEMMA SpendFact ==
  ASSUME PowTypeOK, NEW f \in PowFault, Spend(f)
  PROVE  /\ powLeft' \in [PowFault -> Nat]
         /\ powLeft'[f] = powLeft[f] - 1
         /\ \A g \in PowFault : powLeft'[g] <= powLeft[g]
         /\ \A g \in PowFault : g # f => powLeft'[g] = powLeft[g]
  BY DEF PowTypeOK, Spend

\* No more faults than there are.
LEMMA FaultsFact ==
  ASSUME TInv, NEW f \in PowFault, Spend(f)
  PROVE  powLeft' \in [PowFault -> Nat] /\ \A g \in PowFault : powLeft'[g] <= PowLimit[g]
  <1>1. \A g \in PowFault : /\ powLeft'[g] <= powLeft[g] /\ powLeft[g] <= PowLimit[g]
                            /\ powLeft[g] \in Int /\ powLeft'[g] \in Int /\ PowLimit[g] \in Int
    BY SpendFact, PowAssumption DEF TInv, PowTypeOK, HandInv
  <1>. QED  BY <1>1, SpendFact DEF TInv

\* A fault that is spent does not come back.
LEMMA NoReorgBefore ==
  ASSUME TInv, [PowNext]_powVars, NoReorg'
  PROVE  NoReorg /\ ~ Reorganised
  <1>. USE DEF TInv, HandInv, NoReorg
  <1>0. "reorg" \in PowFault /\ powLeft["reorg"] \in Nat /\ PowLimit["reorg"] \in Nat
        /\ powLeft["reorg"] <= PowLimit["reorg"]
    BY PowAssumption DEF PowFault, PowTypeOK
  <1>1. CASE \E f \in PowFault : Spend(f)
    <2>1. PICK f \in PowFault : Spend(f)
      BY <1>1
    <2>2. powLeft'["reorg"] <= powLeft["reorg"]
      BY <2>1, <1>0, SpendFact
    <2>3. ~ Reorganised
      BY <1>0, SpendFact DEF Reorganised
    <2>. QED  BY <2>2, <2>3, <1>0
  <1>2. CASE powLeft' = powLeft /\ ~ Reorganised
    BY <1>2
  <1>3. CASE Reorganised \/ NullBlock \/ NullPrevious \/ RoundFails \/ PowCrash
    BY <1>3, <1>1 DEF Reorganised, NullBlock, NullPrevious, RoundFails, PowCrash, PowFault
  <1>. QED
    BY <1>2, <1>3 DEF PowNext, PowProgram, Mined, ReadAhead, ReadLands, PowStart, Wake, DeleteTxs,
         DeleteBlock, NothingNew, BeginPowRound, FetchBlock, BlockFetched, EndOfRound, GenesisBlock,
         FetchPrevious, PreviousFetched, CreateBlock, CreateTx, RefuseTx, SavePowHead, powVars

LEMMA RoundTargetFact ==
  ASSUME PowTypeOK, powHead + 1 <= RoundTarget
  PROVE  RoundTarget \in Height /\ FirstHeight \in Height
  BY PowAssumption DEF PowTypeOK, RoundTarget, FirstHeight, Height

\* A read gives a block of one of the branches.
LEMMA GetBlockFact ==
  ASSUME PowTypeOK, NEW h \in Height
  PROVE  GetBlock(h) \in Branch
  BY DEF PowTypeOK, GetBlock, Known

\* An answer lands at one height, which is lost unless it says nothing new.
LEMMA LandsFact ==
  ASSUME PowTypeOK, NEW p \in Preload, ReadLands(p)
  PROVE  /\ cache' \in [Height -> Branch \cup {Unread}]
         /\ lost \subseteq lost' /\ lost' \subseteq -1..MaxHeight
         /\ reading' \in [Preload -> [height : Height \cup {-1}, branch : Branch]]
         /\ \A h \in Height : cache'[h] = cache[h] \/ cache[h] = Unread \/ h \in lost'
         /\ \A h \in Height : cache'[h] \in {cache[h], reading[p].branch}
         /\ \A q \in Preload : reading'[q] \in {reading[q], NoRead}
  <1>. DEFINE h == reading[p].height
  <1>. DEFINE b == reading[p].branch
  <1>1. h \in Height \cup {-1} /\ b \in Branch /\ -1 \notin Height
    BY DEF PowTypeOK, Height
  <1>2. /\ cache' = [cache EXCEPT ![h] = b]
        /\ lost' = IF cache[h] \in {Unread, b} THEN lost ELSE lost \cup {h}
        /\ reading' = [reading EXCEPT ![p] = NoRead]
    BY DEF ReadLands
  <1>3. NoRead \in [height : Height \cup {-1}, branch : Branch]
    BY DEF NoRead, Branch
  <1>4. h \in -1..MaxHeight
    BY <1>1, PowAssumption DEF Height
  <1>. HIDE DEF h, b
  <1>5. cache' \in [Height -> Branch \cup {Unread}]
        /\ \A k \in Height : cache'[k] = IF k = h THEN b ELSE cache[k]
    BY <1>1, <1>2 DEF PowTypeOK
  <1>6. lost \subseteq lost' /\ lost' \subseteq -1..MaxHeight
    BY <1>2, <1>4 DEF PowTypeOK
  <1>7. \A k \in Height : cache'[k] = cache[k] \/ cache[k] = Unread \/ k \in lost'
    <2>. SUFFICES ASSUME NEW k \in Height, cache'[k] # cache[k], cache[k] # Unread
                  PROVE  k \in lost'
      OBVIOUS
    <2>1. k = h /\ cache[h] \notin {Unread, b}
      BY <1>5
    <2>. QED  BY <2>1, <1>2
  <1>8. /\ reading' \in [Preload -> [height : Height \cup {-1}, branch : Branch]]
        /\ \A q \in Preload : reading'[q] \in {reading[q], NoRead}
    BY <1>2, <1>3 DEF PowTypeOK
  <1>. QED  BY <1>5, <1>6, <1>7, <1>8 DEF b

LEMMA InitTInv == PowInit => TInv
  BY PowAssumption
     DEF PowInit, TInv, PowTypeOK, HandInv, AtHand, Height, Branch, Unread, NoRead, PowRow, PowFault

LEMMA NextTInv == TInv /\ [PowNext]_powVars => TInv'
  <1>. SUFFICES ASSUME TInv, [PowNext]_powVars
                PROVE  TInv'
    OBVIOUS
  <1>. USE DEF TInv, HandInv, AtHand
  <1>0. "reorg" \in PowFault /\ "null" \in PowFault /\ "error" \in PowFault /\ "crash" \in PowFault
        /\ MaxHeight \in Nat /\ << >> \in Seq(PowTx)
    BY PowAssumption DEF PowFault
  <1>1. CASE Mined
    BY <1>1, PowAssumption DEF Mined, PowTypeOK, Height, remembered, store, run
  <1>2. CASE Reorganised
    <2>1. chain' \in [Height -> Branch]
      <3>1. PICK from \in 1..best :
              chain' = [h \in Height |-> IF h < from THEN chain[h] ELSE 1 - chain[h]]
        BY <1>2 DEF Reorganised
      <3>2. \A h \in Height : chain[h] \in Branch /\ 1 - chain[h] \in Branch
        BY DEF PowTypeOK, Branch
      <3>. QED  BY <3>1, <3>2
    <2>2. powLeft' \in [PowFault -> Nat] /\ \A f \in PowFault : powLeft'[f] <= PowLimit[f]
      BY <1>0, <1>2, FaultsFact DEF Reorganised
    <2>. QED  BY <1>2, <2>1, <2>2 DEF Reorganised, PowTypeOK, remembered, store, run
  <1>3. ASSUME NEW p \in Preload, ReadAhead(p) PROVE TInv'
    <2>1. PICK h : h \in Height /\ reading' = [reading EXCEPT ![p] = [height |-> h, branch |-> chain[h]]]
      <3>1. PICK n \in called : \E h \in (n + 1)..(n + PreloadWindow) :
              h <= best /\ reading' = [reading EXCEPT ![p] = [height |-> h, branch |-> chain[h]]]
        BY <1>3 DEF ReadAhead
      <3>2. n \in Nat /\ best \in Height
        BY PowAssumption DEF PowTypeOK, Height
      <3>3. PICK h \in (n + 1)..(n + PreloadWindow) :
              h <= best /\ reading' = [reading EXCEPT ![p] = [height |-> h, branch |-> chain[h]]]
        BY <3>1
      <3>4. h \in Height
        BY <3>2, <3>3, PowAssumption DEF Height
      <3>. QED  BY <3>3, <3>4
    <2>2. reading' \in [Preload -> [height : Height \cup {-1}, branch : Branch]]
      BY <2>1 DEF PowTypeOK
    <2>. QED  BY <1>3, <2>2 DEF ReadAhead, PowTypeOK, node, store, run
  <1>4. ASSUME NEW p \in Preload, ReadLands(p) PROVE TInv'
    BY <1>4, LandsFact DEF ReadLands, PowTypeOK, node, store, run
  <1>5. CASE PowStart
    BY <1>5 DEF PowStart, PowTypeOK, node, remembered, store
  <1>6. CASE Wake
    BY <1>6 DEF Wake, PowTypeOK, node, remembered, store
  <1>7. CASE DeleteTxs
    <2>1. PICK b \in FutureBlocks : height' = b.height /\ powTxs' = powTxs \ TxSet(b.height, b.branch)
      BY <1>7 DEF DeleteTxs
    <2>2. b \in PowRow
      BY DEF FutureBlocks, PowTypeOK
    <2>3. height' \in 0..(MaxHeight + 1)
      BY <2>1, <2>2, PowAssumption DEF PowRow
    <2>4. powTxs' \subseteq PowTx
      BY <2>1 DEF PowTypeOK
    <2>. QED  BY <1>7, <2>3, <2>4 DEF DeleteTxs, PowTypeOK, node, remembered
  <1>8. CASE DeleteBlock
    BY <1>8 DEF DeleteBlock, PowTypeOK, node, remembered
  <1>9. CASE NothingNew
    BY <1>9 DEF NothingNew, PowTypeOK, node, remembered, store
  <1>10. CASE BeginPowRound
    <2>1. RoundTarget \in Height /\ FirstHeight \in Height
      BY <1>10, RoundTargetFact DEF BeginPowRound
    <2>2. target' \in Height /\ height' \in 0..(MaxHeight + 1)
      BY <1>10, <2>1, <1>0 DEF BeginPowRound, Height
    <2>. QED  BY <1>10, <2>2 DEF BeginPowRound, PowTypeOK, node, remembered, store
  <1>11. CASE FetchBlock
    <2>1. height \in Height
      BY <1>11, PowAssumption DEF FetchBlock, PowTypeOK, Height
    <2>2. fetched' \in Branch
      BY <1>11, <2>1, GetBlockFact DEF FetchBlock
    <2>3. called' \subseteq Height /\ step' \in {"fetching", "read"}
      BY <1>11, <2>1 DEF FetchBlock, PowTypeOK
    <2>. QED  BY <1>11, <2>1, <2>2, <2>3 DEF FetchBlock, PowTypeOK, node, store
  <1>12. CASE BlockFetched
    <2>1. height \in Height /\ fetched \in Branch
      BY <1>12 DEF BlockFetched
    <2>2. cache' \in [Height -> Branch \cup {Unread}] /\ called' \subseteq Height
      BY <1>12, <2>1 DEF BlockFetched, PowTypeOK
    <2>. QED  BY <1>12, <2>1, <2>2 DEF BlockFetched, PowTypeOK, node, store
  <1>13. CASE NullBlock
    <2>1. powLeft' \in [PowFault -> Nat] /\ \A f \in PowFault : powLeft'[f] <= PowLimit[f]
      BY <1>0, <1>13, FaultsFact DEF NullBlock
    <2>2. height \in Height /\ called' \subseteq Height /\ height' \in 0..(MaxHeight + 1)
      BY <1>13, <1>0 DEF NullBlock, PowTypeOK, Height
    <2>. QED  BY <1>13, <2>1, <2>2 DEF NullBlock, PowTypeOK, node, store
  <1>14. CASE EndOfRound
    BY <1>14 DEF EndOfRound, PowTypeOK, node, remembered, store
  <1>15. CASE GenesisBlock
    BY <1>15 DEF GenesisBlock, PowTypeOK, node, remembered, store
  <1>16. CASE FetchPrevious
    <2>1. height \in 1..MaxHeight /\ height - 1 \in Height
      BY <1>16, <1>0 DEF FetchPrevious, PowTypeOK, Height
    <2>2. before' \in Branch
      BY <1>16, <2>1, GetBlockFact DEF FetchPrevious, Previous
    <2>3. called' \subseteq Height /\ step' \in {"fetchingPrevious", "create"}
      BY <1>16, <2>1 DEF FetchPrevious, PowTypeOK
    <2>. QED  BY <1>16, <2>1, <2>2, <2>3 DEF FetchPrevious, PowTypeOK, node, store
  <1>17. CASE PreviousFetched
    <2>1. height \in 1..MaxHeight /\ height - 1 \in Height /\ before \in Branch
      BY <1>17, <1>0 DEF PreviousFetched, Height
    <2>2. cache' \in [Height -> Branch \cup {Unread}] /\ called' \subseteq Height
      BY <1>17, <2>1 DEF PreviousFetched, PowTypeOK
    <2>. QED  BY <1>17, <2>1, <2>2 DEF PreviousFetched, PowTypeOK, node, store
  <1>18. CASE NullPrevious
    <2>1. powLeft' \in [PowFault -> Nat] /\ \A f \in PowFault : powLeft'[f] <= PowLimit[f]
      BY <1>0, <1>18, FaultsFact DEF NullPrevious
    <2>2. called' \subseteq Height
      BY <1>18, <1>0 DEF NullPrevious, PowTypeOK, Height
    <2>. QED  BY <1>18, <1>0, <2>1, <2>2 DEF NullPrevious, Abandoned, PowTypeOK, node, store
  <1>19. CASE CreateBlock
    <2>1. height \in 1..MaxHeight /\ height \in Height /\ fetched \in Branch /\ before \in Branch
      BY <1>19, <1>0 DEF CreateBlock
    <2>2. [height |-> height, branch |-> fetched, prev |-> before] \in PowRow
      BY <2>1 DEF PowRow
    <2>3. rest' \in Seq(PowTx)
      BY <1>19, <2>1, PowAssumption DEF CreateBlock
    <2>. QED  BY <1>19, <2>1, <2>2, <2>3 DEF CreateBlock, PowTypeOK, node, remembered
  <1>20. CASE CreateTx
    <2>1. Head(rest) \in PowTx /\ rest' \in Seq(PowTx)
      BY <1>20 DEF CreateTx, PowTypeOK
    <2>. QED  BY <1>20, <2>1 DEF CreateTx, PowTypeOK, node, remembered
  <1>21. CASE RefuseTx
    BY <1>21, <1>0 DEF RefuseTx, Abandoned, PowTypeOK, node, remembered, store
  <1>22. CASE SavePowHead
    BY <1>22, PowAssumption DEF SavePowHead, AllStored, PowTypeOK, node, remembered, Height
  <1>23. CASE RoundFails
    <2>1. powLeft' \in [PowFault -> Nat] /\ \A f \in PowFault : powLeft'[f] <= PowLimit[f]
      BY <1>0, <1>23, FaultsFact DEF RoundFails
    <2>. QED  BY <1>23, <1>0, <2>1 DEF RoundFails, Abandoned, PowTypeOK, node, remembered, store
  <1>24. CASE PowCrash
    <2>1. powLeft' \in [PowFault -> Nat] /\ \A f \in PowFault : powLeft'[f] <= PowLimit[f]
      BY <1>0, <1>24, FaultsFact DEF PowCrash
    <2>2. reading' \in [Preload -> [height : Height \cup {-1}, branch : Branch]]
          /\ lost' \subseteq -1..MaxHeight
      BY <1>24 DEF PowCrash, PowTypeOK, NoRead, Branch
    <2>. QED  BY <1>24, <1>0, <2>1, <2>2
              DEF PowCrash, PowTypeOK, node, store, Height, Unread
  <1>25. CASE UNCHANGED powVars
    BY <1>25 DEF powVars, PowTypeOK, node, remembered, store, run
  <1>. QED  BY <1>1, <1>2, <1>3, <1>4, <1>5, <1>6, <1>7, <1>8, <1>9, <1>10, <1>11, <1>12, <1>13,
               <1>14, <1>15, <1>16, <1>17, <1>18, <1>19, <1>20, <1>21, <1>22, <1>23, <1>24, <1>25
            DEF PowNext, PowProgram

\* Type correctness of the proof-of-work import (PowCMD), with the block at hand in its round.
THEOREM PowTypeCorrect == PowSpec => []PowTypeOK
  <1>1. PowSpec => []TInv
    BY InitTInv, NextTInv, PTL DEF PowSpec
  <1>. QED  BY <1>1, PTL DEF TInv
-----------------------------------------------------------------------------
LEMMA InitOInv == PowInit => OInv
  BY InitTInv DEF PowInit, OInv, OnePerHeight, TxInv, NoOrphanTx

LEMMA NextOInv == OInv /\ [PowNext]_powVars => OInv'
  <1>. SUFFICES ASSUME OInv, [PowNext]_powVars
                PROVE  (OnePerHeight /\ TxInv /\ NoOrphanTx)'
    BY NextTInv DEF OInv
  <1>. USE DEF OInv, OnePerHeight, TxInv, NoOrphanTx
  <1>1. CASE UNCHANGED <<powBlocks, powTxs>> /\ step' \notin {"txs", "drop"}
    BY <1>1
  <1>2. CASE UNCHANGED <<powBlocks, powTxs, step, height, rest>>
    BY <1>2
  <1>3. CASE DeleteTxs
    <2>1. PICK b \in FutureBlocks : height' = b.height /\ powTxs' = powTxs \ TxSet(b.height, b.branch)
      BY <1>3 DEF DeleteTxs
    <2>2. step' = "drop" /\ powBlocks' = powBlocks
      BY <1>3 DEF DeleteTxs
    <2>3. \A c \in powBlocks' : c.height = height' => TxSet(c.height, c.branch) \cap powTxs' = {}
      BY <2>1, <2>2 DEF FutureBlocks
    <2>. QED  BY <2>1, <2>2, <2>3
  <1>4. CASE DeleteBlock
    <2>1. step = "drop" /\ step' = "clean" /\ powTxs' = powTxs
          /\ powBlocks' = { b \in powBlocks : b.height # height }
      BY <1>4 DEF DeleteBlock
    <2>2. NoOrphanTx'
      <3>. SUFFICES ASSUME NEW tx \in powTxs
                    PROVE  \E b \in powBlocks' : tx \in TxSet(b.height, b.branch)
        BY <2>1
      <3>1. PICK b \in powBlocks : tx \in TxSet(b.height, b.branch)
        OBVIOUS
      <3>2. b.height # height
        BY <2>1, <3>1
      <3>. QED  BY <2>1, <3>1, <3>2
    <2>. QED  BY <2>1, <2>2
  <1>5. CASE GenesisBlock
    <2>1. rest' = << >> /\ step' = "txs" /\ UNCHANGED <<powBlocks, powTxs>>
      BY <1>5 DEF GenesisBlock, store, TInv, HandInv
    <2>2. \A i \in DOMAIN rest' : FALSE
      BY <2>1
    <2>. QED  BY <2>1, <2>2
  <1>6. CASE CreateBlock
    <2>. DEFINE new == [height |-> height, branch |-> fetched, prev |-> before]
    <2>1. /\ \A b \in powBlocks : b.height # height
          /\ powBlocks' = powBlocks \cup {new}
          /\ rest' = TxOf[height][fetched]
          /\ step' = "txs" /\ height' = height /\ powTxs' = powTxs
      BY <1>6 DEF CreateBlock
    <2>2. OnePerHeight'
      BY <2>1
    <2>3. \A i \in DOMAIN rest' : rest'[i] \in TxSet(new.height, new.branch)
      BY <2>1 DEF TxSet
    <2>4. TxInv'
      BY <2>1, <2>3
    <2>5. NoOrphanTx'
      BY <2>1
    <2>. QED  BY <2>2, <2>4, <2>5
  <1>7. CASE CreateTx
    <2>1. /\ step = "txs" /\ step' = "txs" /\ rest # << >>
          /\ powTxs' = powTxs \cup {Head(rest)} /\ rest' = Tail(rest)
          /\ UNCHANGED <<powBlocks, height>>
      BY <1>7 DEF CreateTx
    <2>2. rest \in Seq(PowTx)
      BY DEF TInv, PowTypeOK
    <2>3. 1 \in DOMAIN rest /\ Head(rest) = rest[1]
      BY <2>1, <2>2
    <2>4. \A i \in DOMAIN rest' : i + 1 \in DOMAIN rest /\ rest'[i] = rest[i + 1]
      BY <2>1, <2>2
    <2>5. PICK b \in powBlocks : b.height = height /\ Head(rest) \in TxSet(b.height, b.branch)
      BY <2>1, <2>3
    <2>6. NoOrphanTx'
      BY <2>1, <2>5
    <2>7. TxInv'
      BY <2>1, <2>4
    <2>. QED  BY <2>1, <2>6, <2>7
  <1>. QED
    <2>1. CASE Mined \/ Reorganised \/ (\E p \in Preload : ReadAhead(p) \/ ReadLands(p))
      BY <2>1, <1>2 DEF Mined, Reorganised, ReadAhead, ReadLands, store, run
    <2>2. CASE NullBlock \/ FetchBlock \/ BlockFetched \/ FetchPrevious \/ PreviousFetched
               \/ NullPrevious
      BY <2>2, <1>1 DEF NullBlock, FetchBlock, BlockFetched, FetchPrevious, PreviousFetched,
                        NullPrevious, Abandoned, store
    <2>3. CASE PowStart \/ Wake \/ NothingNew \/ BeginPowRound \/ EndOfRound \/ RefuseTx
               \/ SavePowHead \/ RoundFails \/ PowCrash
      BY <2>3, <1>1 DEF PowStart, Wake, NothingNew, BeginPowRound, EndOfRound, RefuseTx,
                        SavePowHead, RoundFails, PowCrash, Abandoned, store
    <2>4. CASE UNCHANGED powVars
      BY <2>4, <1>2 DEF powVars, store, run
    <2>. QED  BY <1>3, <1>4, <1>5, <1>6, <1>7, <2>1, <2>2, <2>3, <2>4
              DEF PowNext, PowProgram

\* Whatever is interrupted, and however the chain is reorganised, every transaction that has a row
\* belongs to a block that has one: the cleanup of the next round finds all there is to delete.
THEOREM NoOrphans == PowSpec => []NoOrphanTx
  <1>1. PowSpec => []OInv
    BY InitOInv, NextOInv, PTL DEF PowSpec
  <1>. QED  BY <1>1, PTL DEF OInv
-----------------------------------------------------------------------------
LEMMA BlockFact ==
  ASSUME PowTypeOK, NEW b \in powBlocks
  PROVE  b.height \in 1..MaxHeight /\ b.branch \in Branch /\ b.prev \in Branch
  BY DEF PowTypeOK, PowRow

LEMMA InitAInv == PowInit => AInv
  BY InitOInv DEF PowInit, AInv, AheadInv, AtHand

LEMMA NextAhead == AInv /\ [PowNext]_powVars => AheadInv'
  <1>. SUFFICES ASSUME AInv, [PowNext]_powVars
                PROVE  AheadInv'
    OBVIOUS
  <1>. USE DEF AInv, AheadInv, AtHand
  <1>0. PowTypeOK /\ TInv
    BY DEF OInv, TInv
  <1>1. CASE UNCHANGED <<powHead, powBlocks, powTxs, step, height, rest>>
    BY <1>1
  <1>2. CASE step' \in {"down", "idle", "clean"}
    BY <1>2
  <1>3. CASE DeleteTxs
    BY <1>3 DEF DeleteTxs, FutureBlocks
  <1>4. CASE BeginPowRound
    <2>1. \A b \in powBlocks : b.height <= powHead
      BY <1>4, <1>0, BlockFact DEF BeginPowRound, FutureBlocks, PowTypeOK
    <2>. QED  BY <1>4, <2>1, <1>0 DEF BeginPowRound, FirstHeight, PowTypeOK, store
  \* From one step of the reading to the next.
  <1>5. CASE /\ step \in AtHand \cup {"fetch"} /\ step' \in AtHand
             /\ UNCHANGED <<powHead, powBlocks, height>>
    BY <1>5
  <1>6. CASE FetchBlock \/ BlockFetched \/ FetchPrevious \/ PreviousFetched
    BY <1>6, <1>5 DEF FetchBlock, BlockFetched, FetchPrevious, PreviousFetched, store
  <1>7. CASE NullBlock
    BY <1>7, <1>0, PowAssumption DEF NullBlock, PowTypeOK, store
  <1>8. CASE GenesisBlock
    BY <1>8 DEF GenesisBlock, store
  <1>9. CASE CreateBlock
    <2>. DEFINE new == [height |-> height, branch |-> fetched, prev |-> before]
    <2>1. /\ powBlocks' = powBlocks \cup {new} /\ rest' = TxOf[height][fetched]
          /\ UNCHANGED <<powHead, powTxs, height>> /\ step = "create" /\ step' = "txs"
      BY <1>9 DEF CreateBlock
    <2>2. TxSet(new.height, new.branch) \subseteq { rest'[i] : i \in DOMAIN rest' }
      BY <2>1 DEF TxSet
    <2>3. new.height = height' /\ new \in powBlocks'
      BY <2>1
    <2>4. \E b \in powBlocks' : b.height = height'
                              /\ TxSet(b.height, b.branch) \subseteq
                                   powTxs' \cup { rest'[i] : i \in DOMAIN rest' }
      BY <2>2, <2>3
    <2>5. \A b \in powBlocks' : b.height <= powHead' \/ b.height = height'
      BY <2>1, <2>3
    <2>. HIDE DEF new
    <2>. QED  BY <2>1, <2>4, <2>5
  <1>10. CASE CreateTx
    <2>1. /\ step = "txs" /\ step' = "txs" /\ rest # << >>
          /\ powTxs' = powTxs \cup {Head(rest)} /\ rest' = Tail(rest)
          /\ UNCHANGED <<powBlocks, height, powHead>>
      BY <1>10 DEF CreateTx
    <2>2. rest \in Seq(PowTx)
      BY <1>0 DEF PowTypeOK
    <2>3. \A i \in DOMAIN rest : rest[i] = Head(rest) \/ (i - 1 \in DOMAIN rest' /\ rest'[i - 1] = rest[i])
      BY <2>1, <2>2
    <2>4. powTxs \cup { rest[i] : i \in DOMAIN rest } \subseteq
            powTxs' \cup { rest'[i] : i \in DOMAIN rest' }
      BY <2>1, <2>3
    <2>. QED  BY <2>1, <2>4
  <1>11. CASE SavePowHead
    <2>1. /\ powHead' = height /\ height' = height + 1 /\ powBlocks' = powBlocks
          /\ step = "txs" /\ step' = "fetch"
      BY <1>11 DEF SavePowHead
    <2>2. height \in Int /\ powHead \in Int /\ powHead < height
      BY <2>1, <1>0, PowAssumption DEF PowTypeOK
    <2>3. ASSUME NEW b \in powBlocks
          PROVE  b.height <= height
      <3>1. b.height \in Int /\ (b.height <= powHead \/ b.height = height)
        BY <2>1, <1>0, BlockFact
      <3>. QED  BY <3>1, <2>2
    <2>. QED  BY <2>1, <2>2, <2>3
  <1>. QED
    <2>1. CASE Mined \/ Reorganised \/ (\E p \in Preload : ReadAhead(p) \/ ReadLands(p))
               \/ UNCHANGED powVars
      BY <2>1, <1>1 DEF Mined, Reorganised, ReadAhead, ReadLands, store, run, powVars
    <2>2. CASE PowStart \/ Wake \/ DeleteBlock \/ NothingNew \/ EndOfRound \/ RefuseTx
               \/ NullPrevious \/ RoundFails \/ PowCrash
      BY <2>2, <1>2 DEF PowStart, Wake, DeleteBlock, NothingNew, EndOfRound, RefuseTx, NullPrevious,
                        RoundFails, PowCrash, Abandoned
    <2>. QED  BY <1>3, <1>4, <1>6, <1>7, <1>8, <1>9, <1>10, <1>11, <2>1, <2>2 DEF PowNext, PowProgram

LEMMA NextAInv == AInv /\ [PowNext]_powVars => AInv'
  BY NextOInv, NextAhead DEF AInv
-----------------------------------------------------------------------------
LEMMA InitSInv == PowInit => SInv
  BY InitTInv DEF PowInit, SInv, StandsStill, Unread, NoRead

LEMMA NextSInv == SInv /\ [PowNext]_powVars => SInv'
  <1>. SUFFICES ASSUME SInv, [PowNext]_powVars, NoReorg'
                PROVE  StandsStill'
    BY NextTInv DEF SInv, StandsStill
  <1>0. NoReorg /\ ~ Reorganised /\ PowTypeOK /\ TInv
    BY NoReorgBefore DEF SInv, TInv
  <1>. USE DEF SInv, StandsStill
  <1>1. CASE UNCHANGED <<chain, cache, reading, fetched, before>> /\ powBlocks' \subseteq powBlocks
    BY <1>0, <1>1
  <1>2. CASE /\ UNCHANGED <<chain, cache, reading, powBlocks>>
             /\ fetched' \in {0, fetched, Unread} /\ before' \in {0, before, Unread}
    BY <1>0, <1>2
  <1>3. ASSUME NEW p \in Preload, ReadAhead(p) PROVE StandsStill'
    <2>1. PICK h : h \in Height /\ reading' = [reading EXCEPT ![p] = [height |-> h, branch |-> chain[h]]]
      <3>1. PICK n \in called : \E h \in (n + 1)..(n + PreloadWindow) :
              h <= best /\ reading' = [reading EXCEPT ![p] = [height |-> h, branch |-> chain[h]]]
        BY <1>3 DEF ReadAhead
      <3>2. n \in Nat /\ best \in Height
        BY <1>0, PowAssumption DEF PowTypeOK, Height
      <3>3. PICK h \in (n + 1)..(n + PreloadWindow) :
              h <= best /\ reading' = [reading EXCEPT ![p] = [height |-> h, branch |-> chain[h]]]
        BY <3>1
      <3>4. h \in Height
        BY <3>2, <3>3, PowAssumption DEF Height
      <3>. QED  BY <3>3, <3>4
    <2>2. \A q \in Preload : reading'[q].branch = 0
      BY <1>0, <2>1 DEF PowTypeOK
    <2>3. UNCHANGED <<chain, cache, fetched, before, powBlocks>>
      BY <1>3 DEF ReadAhead, node, store, run
    <2>. QED  BY <1>0, <2>2, <2>3
  <1>4. ASSUME NEW p \in Preload, ReadLands(p) PROVE StandsStill'
    <2>1. \A h \in Height : cache'[h] \in {0, Unread}
      <3>1. \A h \in Height : cache'[h] \in {cache[h], 0}
        BY <1>0, <1>4, LandsFact
      <3>. QED  BY <1>0, <3>1
    <2>2. \A q \in Preload : reading'[q].branch = 0
      <3>1. \A q \in Preload : reading'[q] \in {reading[q], NoRead}
        BY <1>0, <1>4, LandsFact
      <3>. QED  BY <1>0, <3>1 DEF NoRead
    <2>3. UNCHANGED <<chain, fetched, before, powBlocks>>
      BY <1>4 DEF ReadLands, node, store, run
    <2>. QED  BY <1>0, <2>1, <2>2, <2>3
  <1>5. CASE FetchBlock
    <2>1. height \in Height
      BY <1>0, <1>5, PowAssumption DEF FetchBlock, PowTypeOK, Height
    <2>2. fetched' = 0
      BY <1>0, <1>5, <2>1 DEF FetchBlock, GetBlock, Known
    <2>. QED  BY <1>2, <1>5, <2>2 DEF FetchBlock, node, store
  <1>6. CASE FetchPrevious
    <2>1. height - 1 \in Height
      BY <1>0, <1>6, PowAssumption DEF FetchPrevious, PowTypeOK, Height
    <2>2. before' = 0
      BY <1>0, <1>6, <2>1 DEF FetchPrevious, Previous, GetBlock, Known
    <2>. QED  BY <1>2, <1>6, <2>2 DEF FetchPrevious, node, store
  <1>7. ASSUME NEW h \in Height, NEW b \in {fetched, before}, cache' = [cache EXCEPT ![h] = b],
               UNCHANGED <<chain, reading, fetched, before, powBlocks>>
        PROVE  StandsStill'
    BY <1>0, <1>7 DEF PowTypeOK
  <1>8. CASE BlockFetched
    BY <1>0, <1>8, <1>7 DEF BlockFetched, TInv, HandInv, AtHand, node, store
  <1>9. CASE PreviousFetched
    <2>1. height - 1 \in Height
      BY <1>0, <1>9, PowAssumption DEF PreviousFetched, TInv, HandInv, Height
    <2>. QED  BY <2>1, <1>9, <1>7 DEF PreviousFetched, node, store
  <1>10. CASE CreateBlock
    <2>. DEFINE new == [height |-> height, branch |-> fetched, prev |-> before]
    <2>1. /\ fetched \in Branch /\ before \in Branch
          /\ powBlocks' = powBlocks \cup {new} /\ fetched' = Unread /\ before' = Unread
          /\ UNCHANGED <<chain, cache, reading>>
      BY <1>0, <1>10 DEF CreateBlock, TInv, HandInv, AtHand, node, remembered
    <2>2. new.branch = 0 /\ new.prev = 0
      BY <1>0, <2>1 DEF Branch, Unread
    <2>. QED  BY <1>0, <2>1, <2>2
  <1>11. CASE PowCrash
    <2>1. /\ \A h \in Height : cache'[h] = Unread
          /\ \A p \in Preload : reading'[p] = NoRead
          /\ fetched' = Unread /\ before' = Unread /\ UNCHANGED <<chain, powBlocks>>
      BY <1>11 DEF PowCrash, node, store
    <2>. QED  BY <1>0, <2>1 DEF NoRead
  <1>. QED
    <2>1. CASE Mined \/ PowStart \/ Wake \/ DeleteTxs \/ DeleteBlock \/ NothingNew \/ BeginPowRound
               \/ EndOfRound \/ CreateTx \/ SavePowHead \/ UNCHANGED powVars
      BY <2>1, <1>1 DEF Mined, PowStart, Wake, DeleteTxs, DeleteBlock, NothingNew, BeginPowRound,
           EndOfRound, CreateTx, SavePowHead, powVars, node, remembered, store, run
    <2>2. CASE NullBlock \/ GenesisBlock \/ NullPrevious \/ RefuseTx \/ RoundFails
      BY <2>2, <1>2 DEF NullBlock, GenesisBlock, NullPrevious, RefuseTx, RoundFails, Abandoned,
           node, remembered, store
    <2>. QED  BY <1>0, <1>3, <1>4, <1>5, <1>6, <1>8, <1>9, <1>10, <1>11, <2>1, <2>2
              DEF PowNext, PowProgram
-----------------------------------------------------------------------------
LEMMA InitPInv == PowInit => PInv
  BY InitAInv, InitSInv DEF PowInit, PInv, Remembers, Linked, AtHand

LEMMA NextPInv == PInv /\ [PowNext]_powVars => PInv'
  <1>. SUFFICES ASSUME PInv, [PowNext]_powVars
                PROVE  Remembers' /\ Linked'
    BY NextAInv, NextSInv DEF PInv
  <1>0. PowTypeOK /\ TInv /\ AheadInv /\ MaxHeight \in Nat
    BY PowAssumption DEF PInv, SInv, TInv, AInv
  <1>. USE DEF PInv, Remembers, Linked, AtHand
  \* What does not touch the memory: the block at hand is given up, or stays as it is.
  <1>1. CASE /\ UNCHANGED <<powHead, cache, lost>> /\ powBlocks' \subseteq powBlocks
             /\ \/ UNCHANGED <<step, height, fetched, before>>
                \/ step' \notin AtHand \cup {"txs"}
    BY <1>0, <1>1
  <1>2. CASE Mined \/ Reorganised \/ (\E p \in Preload : ReadAhead(p)) \/ PowStart \/ Wake
             \/ DeleteTxs \/ DeleteBlock \/ NothingNew \/ BeginPowRound \/ NullBlock \/ EndOfRound
             \/ NullPrevious \/ CreateTx \/ RefuseTx \/ RoundFails \/ UNCHANGED powVars
    BY <1>1, <1>2 DEF Mined, Reorganised, ReadAhead, PowStart, Wake, DeleteTxs, DeleteBlock, NothingNew,
         BeginPowRound, NullBlock, EndOfRound, NullPrevious, CreateTx, RefuseTx, RoundFails, Abandoned,
         powVars, node, remembered, store, run
  \* An answer that takes the place of another loses the height.
  <1>3. ASSUME NEW p \in Preload, ReadLands(p) PROVE Remembers' /\ Linked'
    <2>1. /\ lost \subseteq lost'
          /\ \A h \in Height : cache'[h] = cache[h] \/ cache[h] = Unread \/ h \in lost'
      BY <1>0, <1>3, LandsFact
    <2>2. UNCHANGED <<powHead, powBlocks, step, height, fetched, before>>
      BY <1>3 DEF ReadLands, store, run
    <2>3. \A b \in powBlocks : b.height \in Height /\ b.branch # Unread
      BY <1>0, BlockFact DEF Branch, Unread, Height
    <2>4. step \in AtHand => height \in Height /\ fetched # Unread
      BY <1>0 DEF TInv, HandInv, Branch, Unread
    <2>5. \A b \in powBlocks : b.height = powHead /\ powHead \notin lost' => b.branch = cache'[powHead]
      <3>. SUFFICES ASSUME NEW b \in powBlocks, b.height = powHead, powHead \notin lost'
                    PROVE  b.branch = cache'[powHead]
        OBVIOUS
      <3>1. b.branch = cache[powHead]
        BY <2>1
      <3>. QED  BY <3>1, <2>1, <2>3
    <2>6. step \in AtHand \ {"fetching"} => fetched = cache'[height] \/ height \in lost'
      BY <2>1, <2>4
    <2>7. step = "txs" => \A b \in powBlocks :
                            b.height = height => b.branch = cache'[height] \/ height \in lost'
      BY <2>1, <2>3
    <2>8. Linked'
      BY <2>1, <2>2
    <2>. QED  BY <2>2, <2>5, <2>6, <2>7, <2>8
  <1>4. CASE FetchBlock
    <2>1. height \in Height /\ UNCHANGED <<powHead, powBlocks, cache, lost, height>>
          /\ fetched' = GetBlock(height)
          /\ step' = IF Known(height) THEN "read" ELSE "fetching"
      BY <1>0, <1>4 DEF FetchBlock, PowTypeOK, Height, store
    <2>. QED  BY <2>1 DEF GetBlock, Known
  \* The block is above the head.
  <1>5. CASE BlockFetched
    <2>1. height \in Height /\ height # powHead /\ UNCHANGED <<powHead, powBlocks, lost, height, fetched>>
          /\ step' = "read" /\ cache' = [cache EXCEPT ![height] = fetched]
      BY <1>0, <1>5 DEF BlockFetched, TInv, HandInv, AheadInv, PowTypeOK, Height, store
    <2>2. cache'[height] = fetched /\ cache'[powHead] = cache[powHead]
      BY <1>0, <2>1 DEF PowTypeOK
    <2>. QED  BY <2>1, <2>2
  <1>6. CASE GenesisBlock
    <2>1. UNCHANGED <<powHead, powBlocks, cache, lost, height>> /\ height = 0 /\ step' = "txs"
      BY <1>6 DEF GenesisBlock, store, remembered
    <2>2. \A b \in powBlocks : b.height # 0
      BY <1>0, BlockFact
    <2>. QED  BY <2>1, <2>2
  \* Of the blocks with a row only the head can be the one before.
  <1>7. CASE FetchPrevious
    <2>1. /\ height \in 1..MaxHeight /\ height > powHead /\ \A b \in powBlocks : b.height <= powHead
          /\ UNCHANGED <<powHead, powBlocks, cache, lost, height, fetched>>
          /\ step = "read" /\ step' \in {"fetchingPrevious", "create"} /\ before' = GetBlock(height - 1)
      BY <1>0, <1>7 DEF FetchPrevious, Previous, TInv, HandInv, AheadInv, PowTypeOK, Height, store
    <2>2. ASSUME NEW b \in powBlocks, b.height = height - 1
          PROVE  before' = b.branch \/ b.height \in lost
      <3>1. b.height <= powHead /\ powHead \in Int
        BY <1>0, <2>1 DEF PowTypeOK
      <3>2. b.height = powHead
        BY <2>1, <2>2, <3>1
      <3>3. b.branch # Unread
        BY <1>0, BlockFact DEF Branch, Unread
      <3>4. b.branch = cache[powHead] \/ b.height \in lost
        BY <3>2
      <3>. QED  BY <2>1, <2>2, <3>2, <3>3, <3>4 DEF GetBlock, Known
    <2>. QED  BY <2>1, <2>2
  <1>8. CASE PreviousFetched
    <2>1. /\ height \in 1..MaxHeight /\ height - 1 \in Height /\ height > powHead
          /\ UNCHANGED <<powHead, powBlocks, lost, height, fetched, before>>
          /\ step = "fetchingPrevious" /\ step' = "create"
          /\ cache' = [cache EXCEPT ![height - 1] = before]
      BY <1>0, <1>8 DEF PreviousFetched, TInv, HandInv, AheadInv, PowTypeOK, Height, store
    <2>2. cache'[height] = cache[height] /\ cache'[height - 1] = before
          /\ (powHead # height - 1 => cache'[powHead] = cache[powHead])
      BY <1>0, <2>1 DEF PowTypeOK
    <2>3. \A b \in powBlocks : b.height = powHead /\ powHead \notin lost => b.branch = cache'[powHead]
      BY <2>1, <2>2
    <2>. QED  BY <2>1, <2>2, <2>3
  <1>9. CASE CreateBlock
    <2>. DEFINE new == [height |-> height, branch |-> fetched, prev |-> before]
    <2>1. /\ height \in 1..MaxHeight /\ height > powHead /\ powHead \in Int
          /\ \A b \in powBlocks : b.height <= powHead /\ b.height \in Int
          /\ UNCHANGED <<powHead, cache, lost, height>>
          /\ powBlocks' = powBlocks \cup {new} /\ step = "create" /\ step' = "txs"
      BY <1>0, <1>9, BlockFact DEF CreateBlock, TInv, HandInv, AheadInv, PowTypeOK, remembered
    <2>2. Remembers'
      <3>1. \A b \in powBlocks' : b.height = height => b = new
        BY <2>1
      <3>2. \A b \in powBlocks' : b.height = powHead => b \in powBlocks
        BY <2>1
      <3>. QED  BY <2>1, <3>1, <3>2
    <2>3. \A b, c \in powBlocks' : c.height = b.height + 1 => c.prev = b.branch \/ b.height \in lost
      <3>. SUFFICES ASSUME NEW b \in powBlocks', NEW c \in powBlocks', c.height = b.height + 1
                    PROVE  c.prev = b.branch \/ b.height \in lost
        OBVIOUS
      <3>1. b \in powBlocks
        BY <2>1
      <3>2. CASE c = new
        BY <2>1, <3>1, <3>2
      <3>3. CASE c \in powBlocks
        BY <3>1, <3>3
      <3>. QED  BY <2>1, <3>2, <3>3
    <2>. QED  BY <2>1, <2>2, <2>3
  <1>10. CASE SavePowHead
    BY <1>10 DEF SavePowHead, remembered
  <1>11. CASE PowCrash
    BY <1>11 DEF PowCrash, store
  <1>. QED  BY <1>2, <1>3, <1>4, <1>5, <1>6, <1>7, <1>8, <1>9, <1>10, <1>11 DEF PowNext, PowProgram

\* A stored block names the stored block below it, for every chain and whatever reads ahead are under
\* way, unless the chain was reorganised and the process has lost the lower one: because it was
\* restarted with that one as its head, or because an answer took the place of what it remembered.
THEOREM PreviousIsStored == PowSpec => []PreviousStored
  <1>1. PInv => PreviousStored
    BY DEF PInv, SInv, StandsStill, Linked, PreviousStored
  <1>2. PowSpec => []PInv
    BY InitPInv, NextPInv, PTL DEF PowSpec
  <1>. QED  BY <1>1, <1>2, PTL
-----------------------------------------------------------------------------
\* A transaction is in one block of the chain: the blocks of a branch share none.
TxOnce == \A h, k \in 1..MaxHeight : h # k => TxSet(h, 0) \cap TxSet(k, 0) = {}

\* While the chain stands still what the head has passed is whole.
WholeInv ==
  NoReorg => \A b \in powBlocks : b.height <= powHead => TxSet(b.height, b.branch) \subseteq powTxs

KInv == AInv /\ SInv /\ WholeInv

\* The blocks readers see.
Visible == { h \in 0..powHead : Complete(h) }

LEMMA InitKInv == PowInit => KInv
  BY InitAInv, InitSInv DEF PowInit, KInv, WholeInv

\* A step that keeps the promise: it leaves what readers see alone, or adds the block at hand.
LEMMA StepKeeps ==
  ASSUME TxOnce, KInv, [PowNext]_powVars, NoReorg'
  PROVE  /\ WholeInv'
         /\ \/ UNCHANGED <<powHead, Visible>>
            \/ /\ powHead' \in (powHead + 1)..MaxHeight
               /\ \E batch \in SUBSET ((powHead + 1)..powHead') :
                    powHead' \in batch /\ Visible' = Visible \cup batch
  <1>. USE DEF KInv, AInv
  <1>0. TInv /\ PowTypeOK /\ NoReorg
    BY NoReorgBefore DEF OInv, TInv
  <1>1. \A b \in powBlocks : b.height \in 1..MaxHeight /\ b.branch = 0
    BY <1>0, BlockFact DEF SInv, StandsStill
  <1>2. \A b \in powBlocks : b.height <= powHead => TxSet(b.height, b.branch) \subseteq powTxs
    BY <1>0 DEF WholeInv
  \* What readers see is the heights with a row, and genesis.
  <1>3. Visible = { h \in 0..powHead : h = 0 \/ \E b \in powBlocks : b.height = h }
    BY <1>2, <1>0 DEF Visible, Complete, PowTypeOK
  <1>4. ASSUME WholeInv'
        PROVE  Visible' = { h \in 0..powHead' : h = 0 \/ \E b \in powBlocks' : b.height = h }
    BY <1>4, NextTInv, <1>0 DEF Visible, Complete, WholeInv, TInv, PowTypeOK
  \* Rows come and go above the head only.
  <1>5. ASSUME powHead' = powHead,
               \A b \in powBlocks : b.height <= powHead => b \in powBlocks',
               \A b \in powBlocks' : b.height <= powHead => b \in powBlocks,
               \A b \in powBlocks : b.height <= powHead => TxSet(b.height, b.branch) \subseteq powTxs'
        PROVE  WholeInv' /\ UNCHANGED <<powHead, Visible>>
    <2>1. WholeInv'
      BY <1>5 DEF WholeInv
    <2>2. Visible' = Visible
      BY <2>1, <1>3, <1>4, <1>5, <1>0 DEF PowTypeOK
    <2>. QED  BY <2>1, <2>2, <1>5
  <1>6. CASE UNCHANGED <<powHead, powBlocks>> /\ powTxs \subseteq powTxs'
    BY <1>6, <1>5, <1>2
  <1>7. CASE DeleteTxs
    <2>1. PICK b \in FutureBlocks : powTxs' = powTxs \ TxSet(b.height, b.branch)
      BY <1>7 DEF DeleteTxs
    <2>2. UNCHANGED <<powHead, powBlocks>>
      BY <1>7 DEF DeleteTxs
    <2>3. ASSUME NEW c \in powBlocks, c.height <= powHead
          PROVE  TxSet(c.height, c.branch) \subseteq powTxs'
      <3>1. b.height # c.height /\ b \in powBlocks
        BY <2>3, <1>0, <1>1 DEF FutureBlocks, PowTypeOK
      <3>2. TxSet(b.height, b.branch) \cap TxSet(c.height, c.branch) = {}
        BY <3>1, <1>1 DEF TxOnce
      <3>. QED  BY <3>2, <2>1, <2>3, <1>2
    <2>. QED  BY <2>2, <2>3, <1>5
  <1>8. CASE DeleteBlock
    <2>1. /\ height > powHead /\ UNCHANGED <<powHead, powTxs>>
          /\ powBlocks' = { b \in powBlocks : b.height # height }
      BY <1>8 DEF DeleteBlock, AheadInv
    <2>. QED  BY <2>1, <1>5, <1>2, <1>1, <1>0 DEF PowTypeOK
  <1>9. CASE CreateBlock
    <2>. DEFINE new == [height |-> height, branch |-> fetched, prev |-> before]
    <2>1. /\ height > powHead /\ UNCHANGED <<powHead, powTxs>>
          /\ powBlocks' = powBlocks \cup {new} /\ new.height = height
      BY <1>9 DEF CreateBlock, AheadInv, AtHand
    <2>2. ~ (new.height <= powHead)
      BY <2>1, <1>0, PowAssumption DEF PowTypeOK
    <2>. QED  BY <2>1, <2>2, <1>5, <1>2
  <1>10. CASE SavePowHead
    <2>1. /\ step = "txs" /\ rest = << >> /\ powHead' = height
          /\ UNCHANGED <<powBlocks, powTxs>>
      BY <1>10 DEF SavePowHead, AllStored
    <2>2. height \in Height /\ powHead < height /\ powHead \in -1..MaxHeight /\ MaxHeight \in Nat
      BY <2>1, <1>0, PowAssumption DEF TInv, HandInv, AheadInv, PowTypeOK, Height
    <2>3. height > 0 => \E b \in powBlocks : b.height = height /\ TxSet(b.height, b.branch) \subseteq powTxs
      <3>1. { rest[i] : i \in DOMAIN rest } = {}
        BY <2>1
      <3>. QED  BY <2>1, <3>1 DEF AheadInv
    <2>4. WholeInv'
      <3>. SUFFICES ASSUME NEW b \in powBlocks, b.height <= height
                    PROVE  TxSet(b.height, b.branch) \subseteq powTxs
        BY <2>1 DEF WholeInv
      <3>1. CASE b.height = height
        <4>1. height > 0
          BY <3>1, <1>1
        <4>2. PICK c \in powBlocks : c.height = height /\ TxSet(c.height, c.branch) \subseteq powTxs
          BY <4>1, <2>3
        <4>. QED  BY <4>2, <3>1 DEF OInv, OnePerHeight
      <3>2. CASE b.height # height
        BY <3>2, <2>1, <1>2 DEF AheadInv
      <3>. QED  BY <3>1, <3>2
    <2>. DEFINE batch == { h \in (powHead + 1)..height : h = 0 \/ \E b \in powBlocks : b.height = h }
    <2>5. Visible' = { h \in 0..height : h = 0 \/ \E b \in powBlocks : b.height = h }
      BY <2>1, <2>4, <1>4
    <2>6. Visible' = Visible \cup batch
      <3>1. \A h : h \in 0..height <=> h \in 0..powHead \/ h \in (powHead + 1)..height
        BY <2>2 DEF Height
      <3>. QED  BY <3>1, <2>5, <1>3
    <2>7. height \in batch
      <3>1. height = 0 \/ height > 0
        BY <2>2 DEF Height
      <3>2. height \in (powHead + 1)..height
        BY <2>2 DEF Height
      <3>. QED  BY <3>1, <3>2, <2>3
    <2>8. powHead' \in (powHead + 1)..MaxHeight
      BY <2>1, <2>2 DEF Height
    <2>. QED  BY <2>1, <2>4, <2>6, <2>7, <2>8
  <1>. QED
    <2>1. CASE Mined \/ Reorganised \/ (\E p \in Preload : ReadAhead(p) \/ ReadLands(p)) \/ PowStart
               \/ Wake \/ NothingNew \/ BeginPowRound \/ EndOfRound \/ CreateTx \/ RefuseTx \/ RoundFails
               \/ PowCrash \/ UNCHANGED powVars
      BY <2>1, <1>6 DEF Mined, Reorganised, ReadAhead, ReadLands, PowStart, Wake, NothingNew,
           BeginPowRound, EndOfRound, CreateTx, RefuseTx, RoundFails, PowCrash, Abandoned, powVars, store
    <2>2. CASE FetchBlock \/ BlockFetched \/ NullBlock \/ GenesisBlock \/ FetchPrevious
               \/ PreviousFetched \/ NullPrevious
      BY <2>2, <1>6 DEF FetchBlock, BlockFetched, NullBlock, GenesisBlock, FetchPrevious,
           PreviousFetched, NullPrevious, Abandoned, store
    <2>. QED  BY <1>7, <1>8, <1>9, <1>10, <2>1, <2>2 DEF PowNext, PowProgram

LEMMA NextKInv == TxOnce /\ KInv /\ [PowNext]_powVars => KInv'
  <1>. SUFFICES ASSUME TxOnce, KInv, [PowNext]_powVars
                PROVE  KInv'
    OBVIOUS
  <1>1. AInv' /\ SInv'
    BY NextAInv, NextSInv DEF KInv
  <1>2. WholeInv'
    <2>1. CASE NoReorg'
      BY <2>1, StepKeeps
    <2>2. CASE ~ NoReorg'
      BY <2>2 DEF WholeInv
    <2>. QED  BY <2>1, <2>2
  <1>. QED  BY <1>1, <1>2 DEF KInv

\* The proof-of-work import keeps the promise of AtomicImport as long as the node's chain is not
\* reorganised, for every chain no transaction of which is in two blocks: a block appears whole,
\* in the step that moves the head to it, and stays, through errors, crashes and cleanups.
THEOREM PromiseKept ==
  ASSUME TxOnce
  PROVE  PowSpec => KeepsPromise
  <1>1. PowInit => Import!AbsInit
    BY PowAssumption DEF PowInit, Import!AbsInit, Complete
  <1>2. KInv /\ [PowNext]_powVars => [NoReorg' => Import!ImportBatch]_(Import!absVars)
    <2>. SUFFICES ASSUME KInv, [PowNext]_powVars, NoReorg', ~ UNCHANGED Import!absVars
                  PROVE  Import!ImportBatch
      OBVIOUS
    <2>1. PICK batch \in SUBSET ((powHead + 1)..powHead') :
            /\ powHead' \in (powHead + 1)..MaxHeight
            /\ powHead' \in batch /\ Visible' = Visible \cup batch
      BY StepKeeps DEF Import!absVars, Visible
    <2>. QED  BY <2>1 DEF Import!ImportBatch, Visible
  <1>3. KInv /\ [PowNext]_powVars => KInv'
    BY NextKInv
  <1>. QED  BY <1>1, <1>2, <1>3, InitKInv, PTL DEF PowSpec, KeepsPromise
-----------------------------------------------------------------------------
\* Heights the head has passed without a row.
Missing == { h \in 1..powHead : \A b \in powBlocks : b.height # h }

\* Heights the round at hand has passed over, and the head has not reached.
Skipped == { h \in 1..MaxHeight :
               step \in AtHand \cup {"fetch", "txs"} /\ powHead < h /\ h < height }

Nulls == PowLimit["null"] - powLeft["null"]

GapInv == Cardinality(Missing \cup Skipped) <= Nulls

\* What is smaller is no more.
LEMMA FewerFact ==
  ASSUME NEW n \in Nat, NEW S \in SUBSET (1..n), NEW T \in SUBSET S
  PROVE  /\ Cardinality(S) \in Nat /\ Cardinality(T) \in Nat
         /\ Cardinality(T) <= Cardinality(S)
         /\ \A x : Cardinality(S \cup {x}) <= Cardinality(S) + 1
  <1>1. IsFiniteSet(1..n)
    BY FS_Interval
  <1>2. IsFiniteSet(S)
    BY <1>1, FS_Subset
  <1>3. IsFiniteSet(T) /\ Cardinality(T) <= Cardinality(S)
    BY <1>2, FS_Subset
  <1>4. Cardinality(S) \in Nat /\ Cardinality(T) \in Nat
    BY <1>2, <1>3, FS_CardinalityType
  <1>5. ASSUME NEW x PROVE Cardinality(S \cup {x}) <= Cardinality(S) + 1
    <2>1. Cardinality(S \cup {x}) = IF x \in S THEN Cardinality(S) ELSE Cardinality(S) + 1
      BY <1>2, FS_AddElement
    <2>. QED  BY <1>4, <2>1
  <1>. QED  BY <1>3, <1>4, <1>5

LEMMA NextGap == AInv /\ GapInv /\ [PowNext]_powVars => GapInv'
  <1>. SUFFICES ASSUME AInv, GapInv, [PowNext]_powVars
                PROVE  GapInv'
    OBVIOUS
  <1>0. /\ MaxHeight \in Nat /\ powHead \in -1..MaxHeight /\ height \in 0..(MaxHeight + 1)
        /\ \A b \in powBlocks : b.height \in 1..MaxHeight
        /\ "null" \in PowFault /\ powLeft \in [PowFault -> Nat] /\ powLeft["null"] \in Nat
        /\ PowLimit["null"] \in Nat /\ PowTypeOK
    BY PowAssumption, BlockFact DEF AInv, OInv, TInv, PowTypeOK, PowFault, Height
  <1>1. /\ Missing \cup Skipped \in SUBSET (1..MaxHeight)
        /\ Cardinality(Missing \cup Skipped) \in Nat
    <2>1. Missing \cup Skipped \in SUBSET (1..MaxHeight)
      BY <1>0 DEF Missing, Skipped, AtHand
    <2>. QED  BY <1>0, <2>1, FewerFact
  \* No other fault is charged to the null answers.
  <1>2. ~ (NullBlock \/ NullPrevious) => powLeft'["null"] = powLeft["null"]
    BY <1>0, SpendFact
       DEF PowNext, PowProgram, Mined, Reorganised, ReadAhead, ReadLands, PowStart, Wake, DeleteTxs,
           DeleteBlock, NothingNew, BeginPowRound, FetchBlock, BlockFetched, EndOfRound, GenesisBlock,
           FetchPrevious, PreviousFetched, CreateBlock, CreateTx, RefuseTx, SavePowHead, RoundFails,
           PowCrash, powVars, Spend
  <1>3. ASSUME ~ (NullBlock \/ NullPrevious), (Missing \cup Skipped)' \subseteq Missing \cup Skipped
        PROVE  GapInv'
    <2>1. Cardinality((Missing \cup Skipped)') <= Cardinality(Missing \cup Skipped)
          /\ Cardinality((Missing \cup Skipped)') \in Nat
      BY <1>0, <1>1, <1>3, FewerFact
    <2>. QED  BY <1>0, <1>1, <1>2, <1>3, <2>1 DEF GapInv, Nulls
  <1>4. CASE NullBlock
    <2>1. /\ height' = height + 1 /\ UNCHANGED <<powHead, powBlocks>>
          /\ step = "fetching" /\ step' = "fetch"
          /\ powLeft'["null"] = powLeft["null"] - 1
      BY <1>0, <1>4, SpendFact DEF NullBlock, store
    <2>2. (Missing \cup Skipped)' \in SUBSET ((Missing \cup Skipped) \cup {height})
      BY <1>0, <2>1 DEF Missing, Skipped, AtHand
    <2>3. (Missing \cup Skipped)' \in SUBSET (1..MaxHeight)
      BY <1>0, <2>1 DEF Missing, Skipped, AtHand
    <2>4. CASE height \in 1..MaxHeight
      <3>1. (Missing \cup Skipped) \cup {height} \in SUBSET (1..MaxHeight)
        BY <1>1, <2>4
      <3>2. /\ Cardinality((Missing \cup Skipped)') <= Cardinality((Missing \cup Skipped) \cup {height})
            /\ Cardinality((Missing \cup Skipped)') \in Nat
            /\ Cardinality((Missing \cup Skipped) \cup {height}) \in Nat
        BY <1>0, <2>2, <3>1, FewerFact
      <3>3. Cardinality((Missing \cup Skipped) \cup {height}) <= Cardinality(Missing \cup Skipped) + 1
        BY <1>0, <1>1, FewerFact
      <3>. QED  BY <1>0, <1>1, <2>1, <3>2, <3>3 DEF GapInv, Nulls
    <2>5. CASE height \notin 1..MaxHeight
      <3>1. (Missing \cup Skipped)' \in SUBSET (Missing \cup Skipped)
        BY <2>2, <2>3, <2>5
      <3>2. Cardinality((Missing \cup Skipped)') <= Cardinality(Missing \cup Skipped)
            /\ Cardinality((Missing \cup Skipped)') \in Nat
        BY <1>0, <1>1, <3>1, FewerFact
      <3>. QED  BY <1>0, <1>1, <2>1, <3>2 DEF GapInv, Nulls
    <2>. QED  BY <2>4, <2>5
  \* The block at hand has its row when the head comes to it; what lies before it was skipped.
  <1>5. CASE SavePowHead
    <2>1. /\ step = "txs" /\ step' = "fetch" /\ powHead' = height /\ height' = height + 1
          /\ powBlocks' = powBlocks
      BY <1>5 DEF SavePowHead
    <2>2. height > 0 => \E b \in powBlocks : b.height = height
      BY <2>1 DEF AInv, AheadInv
    <2>3. Skipped' = {}
      BY <1>0, <2>1 DEF Skipped, AtHand
    <2>4. Missing' \subseteq Missing \cup Skipped
      <3>. SUFFICES ASSUME NEW h \in 1..height, \A b \in powBlocks : b.height # h
                    PROVE  h \in Missing \cup Skipped
        BY <2>1 DEF Missing
      <3>1. h < height /\ h \in 1..MaxHeight
        BY <1>0, <2>2
      <3>. QED  BY <1>0, <2>1, <3>1 DEF Missing, Skipped, AtHand
    <2>. QED  BY <1>3, <2>3, <2>4, <1>5 DEF SavePowHead, NullBlock, NullPrevious
  <1>6. CASE CreateBlock
    <2>1. /\ UNCHANGED <<powHead, height>> /\ step = "create" /\ powBlocks \subseteq powBlocks'
      BY <1>6 DEF CreateBlock
    <2>. QED  BY <1>3, <1>6, <2>1 DEF Missing, Skipped, AtHand, CreateBlock, NullBlock, NullPrevious
  <1>7. CASE DeleteBlock
    <2>1. /\ UNCHANGED <<powHead, height>> /\ step = "drop" /\ step' = "clean" /\ height > powHead
          /\ \A b \in powBlocks : b \in powBlocks' \/ b.height = height
      BY <1>7 DEF DeleteBlock, AInv, AheadInv
    <2>. QED  BY <1>0, <1>3, <1>7, <2>1 DEF Missing, Skipped, AtHand, DeleteBlock, NullBlock, NullPrevious
  <1>8. CASE BeginPowRound
    <2>1. /\ UNCHANGED <<powHead, powBlocks>> /\ height' = powHead + 1 /\ step = "clean"
      BY <1>8 DEF BeginPowRound, FirstHeight, store
    <2>. QED  BY <1>0, <1>3, <1>8, <2>1 DEF Missing, Skipped, AtHand, BeginPowRound, NullBlock, NullPrevious
  <1>9. CASE NullPrevious
    <2>1. UNCHANGED <<powHead, powBlocks>> /\ step' = "idle" /\ powLeft'["null"] = powLeft["null"] - 1
      BY <1>0, <1>9, SpendFact DEF NullPrevious, Abandoned, store
    <2>2. (Missing \cup Skipped)' \in SUBSET (Missing \cup Skipped)
      BY <2>1 DEF Missing, Skipped, AtHand
    <2>3. /\ Cardinality((Missing \cup Skipped)') <= Cardinality(Missing \cup Skipped)
          /\ Cardinality((Missing \cup Skipped)') \in Nat
      BY <1>0, <1>1, <2>2, FewerFact
    <2>. QED  BY <1>0, <1>1, <2>1, <2>3 DEF GapInv, Nulls
  <1>10. CASE ~ (NullBlock \/ NullPrevious \/ SavePowHead \/ CreateBlock \/ DeleteBlock \/ BeginPowRound)
    <2>. DEFINE InRound == AtHand \cup {"fetch", "txs"}
    <2>1. /\ UNCHANGED <<powHead, powBlocks>>
          /\ \/ UNCHANGED height /\ (step' \in InRound => step \in InRound)
             \/ step' \notin InRound
      BY <1>10 DEF PowNext, PowProgram, Mined, Reorganised, ReadAhead, ReadLands, PowStart, Wake,
           DeleteTxs, NothingNew, FetchBlock, BlockFetched, EndOfRound, GenesisBlock, FetchPrevious,
           PreviousFetched, CreateTx, RefuseTx, RoundFails, PowCrash, Abandoned, powVars, store, run, AtHand
    <2>. HIDE DEF InRound
    <2>2. Skipped = { h \in 1..MaxHeight : step \in InRound /\ powHead < h /\ h < height }
      BY DEF Skipped, InRound
    <2>3. Skipped' = { h \in 1..MaxHeight : step' \in InRound /\ powHead' < h /\ h < height' }
      BY DEF Skipped, InRound
    <2>. QED  BY <1>3, <1>10, <2>1, <2>2, <2>3 DEF Missing
  <1>. QED  BY <1>4, <1>5, <1>6, <1>7, <1>8, <1>9, <1>10

\* A height the head has passed without a row costs an answer of the node that was null: no crash,
\* error, cleanup or reorganisation leaves a gap, however often each of them happens.
THEOREM EveryGapIsANull == PowSpec => []GapsAreNulls
  <1>1. PowInit => AInv /\ GapInv
    <2>. SUFFICES ASSUME PowInit PROVE AInv /\ GapInv
      OBVIOUS
    <2>1. AInv
      BY InitAInv
    <2>2. Missing \cup Skipped = {}
      BY DEF PowInit, Missing, Skipped, AtHand
    <2>3. Nulls = 0
      BY PowAssumption DEF PowInit, Nulls, PowFault
    <2>. QED  BY <2>1, <2>2, <2>3, FS_EmptySet DEF GapInv
  <1>2. AInv /\ GapInv /\ [PowNext]_powVars => AInv' /\ GapInv'
    BY NextAInv, NextGap
  <1>3. AInv /\ GapInv => GapsAreNulls
    <2>. SUFFICES ASSUME AInv, GapInv PROVE Cardinality(Missing) <= Nulls
      BY DEF GapsAreNulls, Missing, Nulls
    <2>1. MaxHeight \in Nat /\ powHead \in -1..MaxHeight /\ Nulls \in Int
      BY PowAssumption DEF AInv, OInv, TInv, PowTypeOK, Nulls, PowFault
    <2>2. Missing \cup Skipped \in SUBSET (1..MaxHeight) /\ Missing \in SUBSET (Missing \cup Skipped)
      BY <2>1 DEF Missing, Skipped
    <2>. QED  BY <2>1, <2>2, FewerFact DEF GapInv
  <1>. QED  BY <1>1, <1>2, <1>3, PTL DEF PowSpec
-----------------------------------------------------------------------------
(***************************************************************************)
(* The metric process.                                                     *)
(***************************************************************************)

\* An alert is recorded, and has not been posted, when it is about to be.
PostInv == task = "post" => message \in alerts /\ message \in Message /\ posts[message] = 0

AlertInv == MetricTypeOK /\ AlertsOnce /\ PostInv
-----------------------------------------------------------------------------
(* The turns. *)

LEMMA JobFacts ==
  /\ DOMAIN Jobs = 1..8
  /\ Range(Jobs) = {"figure", "halt", "rpc", "price", "ranks", "candidates", "slashing", "supply"}
  /\ \A j \in 1..8 : Jobs[j] \in Range(Jobs)
  <1>1. DOMAIN Jobs = 1..8
    BY DEF Jobs
  <1>2. Range(Jobs) = { Jobs[j] : j \in 1..8 }
    BY <1>1 DEF Range
  <1>3. /\ Jobs[1] = "figure" /\ Jobs[2] = "halt" /\ Jobs[3] = "rpc" /\ Jobs[4] = "price"
        /\ Jobs[5] = "ranks" /\ Jobs[6] = "candidates" /\ Jobs[7] = "slashing" /\ Jobs[8] = "supply"
    BY DEF Jobs
  <1>4. 1..8 = {1, 2, 3, 4, 5, 6, 7, 8}
    OBVIOUS
  <1>5. Range(Jobs) = {Jobs[1], Jobs[2], Jobs[3], Jobs[4], Jobs[5], Jobs[6], Jobs[7], Jobs[8]}
    BY <1>2, <1>4
  <1>. QED  BY <1>1, <1>2, <1>3, <1>5

LEMMA MinFact ==
  ASSUME NEW S \in SUBSET (1..8), S # {}
  PROVE  Min(S) \in S
  <1>1. \E x \in S : \A y \in S : x <= y
    <2>. SUFFICES ASSUME \A x \in S : \E y \in S : y < x PROVE FALSE
      OBVIOUS
    <2>1. \A x \in S : x \in {1, 2, 3, 4, 5, 6, 7, 8}
      OBVIOUS
    <2>2. 1 \notin S /\ 2 \notin S /\ 3 \notin S
      BY <2>1
    <2>3. 4 \notin S /\ 5 \notin S
      BY <2>1, <2>2
    <2>4. 6 \notin S /\ 7 \notin S /\ 8 \notin S
      BY <2>1, <2>2, <2>3
    <2>. QED  BY <2>1, <2>2, <2>3, <2>4
  <1>. QED  BY <1>1 DEF Min

\* The names of the steps that are not the first of a job.
LEMMA TurnFact ==
  ASSUME MetricTypeOK, NEW i, Turn(i)
  PROVE  task' \in Range(Jobs) \cup {"asleep"} /\ tick' \in 0..(Day - 1)
  <1>1. tick \in 0..(Day - 1) /\ Day \in Nat \ {0}
    BY MetricAssumption DEF MetricTypeOK
  <1>2. (tick + 1) % Day \in 0..(Day - 1)
    BY <1>1
  <1>3. DueFrom(i) \subseteq 1..8
    BY JobFacts DEF DueFrom
  <1>4. CASE DueFrom(i) = {}
    BY <1>2, <1>4 DEF Turn
  <1>5. CASE DueFrom(i) # {}
    <2>1. Min(DueFrom(i)) \in 1..8
      BY <1>3, <1>5, MinFact
    <2>2. task' = Jobs[Min(DueFrom(i))] /\ tick' = tick
      BY <1>5 DEF Turn
    <2>. QED  BY <1>1, <2>1, <2>2, JobFacts
  <1>. QED  BY <1>4, <1>5

LEMMA ZeroTick == 0 \in 0..(Day - 1)
  BY MetricAssumption

LEMMA AfterFact ==
  ASSUME MetricTypeOK, NEW job, After(job)
  PROVE  task' \in Range(Jobs) \cup {"asleep"} /\ tick' \in 0..(Day - 1)
  BY TurnFact DEF After
-----------------------------------------------------------------------------
(* What is remembered and stored. *)

\* What the node may say of k.
Fits(k, v) ==
  /\ k \in Lists => v \subseteq Validator
  /\ k = "stats" => v \in [Validator -> Nat]
  /\ k \in {"figure", "price"} => v \in Nat

LEMMA AnswerFact ==
  ASSUME MetricTypeOK
  PROVE  /\ \A k \in Key : Fits(k, Answer[k][now])
         /\ \A n \in Clock : Supply[n] \in Nat
         /\ now \in Clock /\ 0 \in Clock /\ importedTo \in Clock /\ now \in Int /\ importedTo \in Int
         /\ MaxClock \in Nat
  <1>1. world \in DOMAIN Worlds /\ now \in Clock /\ importedTo \in 0..now /\ MaxClock \in Nat
    BY MetricAssumption DEF MetricTypeOK
  <1>2. ASSUME NEW k \in Lists PROVE Fits(k, Answer[k][now])
    <2>1. Answer[k] \in [Clock -> SUBSET Validator]
      BY <1>1, MetricAssumption DEF Answer
    <2>. QED  BY <1>1, <2>1 DEF Fits, Lists
  <1>3. Fits("stats", Answer["stats"][now])
    <2>1. Answer["stats"] \in [Clock -> [Validator -> Nat]]
      BY <1>1, MetricAssumption DEF Answer
    <2>. QED  BY <1>1, <2>1 DEF Fits, Lists
  <1>4. ASSUME NEW k \in {"figure", "price"} PROVE Fits(k, Answer[k][now])
    <2>1. Answer[k] \in [Clock -> Nat]
      BY <1>1, MetricAssumption DEF Answer
    <2>. QED  BY <1>1, <2>1 DEF Fits, Lists
  <1>5. \A n \in Clock : Supply[n] \in Nat
    <2>1. Supply \in [Clock -> Nat]
      BY <1>1, MetricAssumption DEF Supply
    <2>. QED  BY <2>1
  <1>6. 0 \in Clock /\ importedTo \in Clock /\ now \in Int /\ importedTo \in Int
    BY <1>1 DEF Clock
  <1>. QED  BY <1>1, <1>2, <1>3, <1>4, <1>5, <1>6 DEF Key

LEMMA MemoryFact ==
  ASSUME NEW m, IsMemory(m), NEW k \in Key, NEW v, Fits(k, v)
  PROVE  IsMemory([m EXCEPT ![k] = v])
  <1>. DEFINE w == [m EXCEPT ![k] = v]
  <1>1. DOMAIN w = Key /\ \A j \in Key : w[j] = IF j = k THEN v ELSE m[j]
    BY DEF IsMemory
  <1>. HIDE DEF w
  <1>. QED  BY <1>1 DEF IsMemory, Fits, Key, Lists

LEMMA UpdateFact ==
  ASSUME MetricTypeOK, NEW k \in Key, Update(k, Answer[k][now])
  PROVE  IsMemory(memory') /\ IsMemory(kept')
  <1>1. Fits(k, Answer[k][now]) /\ IsMemory(memory) /\ IsMemory(kept)
    BY AnswerFact DEF MetricTypeOK
  <1>2. memory' = [memory EXCEPT ![k] = Answer[k][now]]
    BY DEF Update
  <1>3. kept' = kept \/ kept' = [kept EXCEPT ![k] = Answer[k][now]]
    BY DEF Update
  <1>4. IsMemory([memory EXCEPT ![k] = Answer[k][now]]) /\ IsMemory([kept EXCEPT ![k] = Answer[k][now]])
    BY <1>1, MemoryFact
  <1>. QED  BY <1>1, <1>2, <1>3, <1>4

LEMMA FailFact ==
  ASSUME MetricTypeOK, NEW f \in MetricFault, Fail(f)
  PROVE  faultsLeft' \in [MetricFault -> Nat]
  BY DEF MetricTypeOK, Fail
-----------------------------------------------------------------------------
(* Ranks and validators. *)

LEMMA RankFact ==
  ASSUME MetricTypeOK, NEW c \in Coin, NEW at \in Orders(c), NEW n
  PROVE  WithRanks(c, at, n) \in [Coin -> [Ranked -> 1..Unranked]]
  <1>. DEFINE rows == { a \in Ranked : Total[sorted][c][a] # -1 }
  <1>1. IsFiniteSet(rows) /\ Cardinality(rows) <= Cardinality(Ranked)
    BY MetricAssumption, FS_Subset
  <1>2. Cardinality(rows) \in Nat /\ Cardinality(Ranked) \in Nat
    BY <1>1, MetricAssumption, FS_CardinalityType
  <1>3. at \in [rows -> 1..Cardinality(rows)]
    BY DEF Orders
  <1>. HIDE DEF rows
  <1>4. \A a \in DOMAIN at : at[a] \in 1..Unranked
    BY <1>1, <1>2, <1>3 DEF Unranked
  <1>5. rank \in [Coin -> [Ranked -> 1..Unranked]]
    BY DEF MetricTypeOK
  <1>. QED  BY <1>4, <1>5 DEF WithRanks

LEMMA RowFact ==
  ASSUME MetricTypeOK
  PROVE  /\ NoRow \in ValidatorRow
         /\ RowsOf(memory) \in [Validator -> ValidatorRow]
         /\ \A V : WithPoints(V) \in [Validator -> ValidatorRow]
         /\ \A v \in Validator : [validators[v] EXCEPT !.points = 0] \in ValidatorRow
  <1>1. NoRow \in ValidatorRow
    BY DEF NoRow, ValidatorRow
  <1>2. memory["stats"] \in [Validator -> Nat]
    BY DEF MetricTypeOK, IsMemory
  <1>3. ASSUME NEW v \in Validator, NEW p \in Nat
        PROVE  [status |-> Status(v, memory), points |-> p] \in ValidatorRow
    BY DEF Status, ValidatorRow
  <1>4. RowsOf(memory) \in [Validator -> ValidatorRow]
    BY <1>1, <1>2, <1>3 DEF RowsOf
  <1>5. \A v \in Validator : validators[v] \in ValidatorRow
    BY DEF MetricTypeOK
  <1>6. ASSUME NEW v \in Validator, NEW p \in Nat PROVE [validators[v] EXCEPT !.points = p] \in ValidatorRow
    BY <1>5 DEF ValidatorRow
  <1>7. ASSUME NEW V PROVE WithPoints(V) \in [Validator -> ValidatorRow]
    BY <1>2, <1>5, <1>6 DEF WithPoints
  <1>. QED  BY <1>1, <1>4, <1>6, <1>7

LEMMA CutFact ==
  ASSUME MetricTypeOK, Cut
  PROVE  validators' \in [Validator -> ValidatorRow] /\ rank' \in [Coin -> [Ranked -> 1..Unranked]]
  <1>1. CASE UNCHANGED <<validators, rank>>
    BY <1>1 DEF MetricTypeOK
  <1>2. ASSUME NEW V \in SUBSET Validator, UNCHANGED rank,
               validators' = [v \in Validator |-> IF v \in V THEN RowsOf(memory)[v] ELSE NoRow]
        PROVE  validators' \in [Validator -> ValidatorRow] /\ rank' \in [Coin -> [Ranked -> 1..Unranked]]
    BY <1>2, RowFact DEF MetricTypeOK
  <1>3. ASSUME task \in Coin, NEW at \in Orders(task), NEW n, rank' = WithRanks(task, at, n),
               UNCHANGED validators
        PROVE  validators' \in [Validator -> ValidatorRow] /\ rank' \in [Coin -> [Ranked -> 1..Unranked]]
    BY <1>3, RankFact DEF MetricTypeOK
  <1>. QED  BY <1>1, <1>2, <1>3 DEF Cut

LEMMA NotedFact ==
  ASSUME MetricTypeOK, Noted
  PROVE  IsMemory(memory')
  <1>1. ASSUME NEW k \in Key PROVE IsMemory([memory EXCEPT ![k] = Answer[k][now]])
    BY AnswerFact, MemoryFact DEF MetricTypeOK
  <1>2. IsMemory(memory)
    BY DEF MetricTypeOK
  <1>. QED  BY <1>1, <1>2 DEF Noted, Key
-----------------------------------------------------------------------------
(* The type invariant. *)

LEMMA InitType == MetricInit => MetricTypeOK
  <1>. SUFFICES ASSUME MetricInit PROVE MetricTypeOK
    OBVIOUS
  <1>1. MaxClock \in Nat /\ 0 \in Clock /\ Day \in Nat \ {0}
    BY MetricAssumption DEF Clock
  <1>2. Supply[0] \in Nat /\ faultsLeft \in [MetricFault -> Nat]
    BY <1>1, MetricAssumption DEF MetricInit, Supply
  <1>3. IsMemory(Default)
    BY DEF IsMemory, Default, Key, Lists
  <1>4. Unranked \in Nat \ {0}
    BY MetricAssumption, FS_CardinalityType DEF Unranked
  <1>5. rank \in [Coin -> [Ranked -> 1..Unranked]]
    BY <1>4 DEF MetricInit
  <1>6. validators \in [Validator -> ValidatorRow]
    BY DEF MetricInit, NoRow, ValidatorRow
  <1>7. writing \in Seq(Nat) /\ posts \in [Message -> Nat] /\ message \in Message \cup {NoMessage}
    BY DEF MetricInit
  <1>8. tick \in 0..(Day - 1) /\ importedTo \in 0..now /\ minted \in {NotAsked} \cup Nat
    BY <1>1 DEF MetricInit
  <1>. QED  BY <1>1, <1>2, <1>3, <1>5, <1>6, <1>7, <1>8 DEF MetricInit, MetricTypeOK

LEMMA StepType == MetricTypeOK /\ [MetricNext]_metricVars => MetricTypeOK'
  <1>. SUFFICES ASSUME MetricTypeOK, [MetricNext]_metricVars PROVE MetricTypeOK'
    OBVIOUS
  <1>. USE DEF chainVars, importer, staking, ranking, supplies, alarm, metrics, metricVars, MetricTypeOK, Go, EndsProcess
  <1>1. CASE ChainMoves
    <2>1. now' \in Clock /\ importedTo' \in 0..now'
      BY <1>1, AnswerFact DEF ChainMoves, Clock
    <2>. QED  BY <1>1, <2>1 DEF ChainMoves
  <1>2. CASE TwoMinutesPass
    BY <1>2 DEF TwoMinutesPass
  <1>3. CASE AskSupply
    BY <1>3, AnswerFact DEF AskSupply, NotAsked
  <1>4. CASE ImportNext
    BY <1>4, AnswerFact DEF ImportNext, NotAsked
  <1>5. CASE MetricStart
    BY <1>5, ZeroTick DEF MetricStart
  <1>6. CASE Wakes
    BY <1>6, TurnFact DEF Wakes
  <1>7. CASE NoteFigure
    BY <1>7, AfterFact, UpdateFact DEF NoteFigure, Key
  <1>8. CASE NotePrice
    <2>1. IsMemory(memory')
      BY <1>8, AnswerFact, MemoryFact DEF NotePrice, Key, MetricTypeOK
    <2>2. writing' \in Seq(Nat)
      <3>1. Answer["price"][now] \in Nat
        BY AnswerFact DEF Key, Fits
      <3>. QED  BY <1>8, <3>1 DEF NotePrice
    <2>. QED  BY <1>8, <2>1, <2>2, AfterFact DEF NotePrice
  <1>9. CASE NoPrice
    BY <1>9, AfterFact, FailFact DEF NoPrice, MetricFault
  <1>10. CASE PriceLands
    <2>1. Head(writing) \in Nat /\ Tail(writing) \in Seq(Nat)
      BY <1>10 DEF PriceLands
    <2>2. IsMemory(kept')
      BY <1>10, <2>1, MemoryFact DEF PriceLands, Key, Fits, Lists
    <2>. QED  BY <1>10, <2>1, <2>2 DEF PriceLands
  <1>11. CASE AlertIfNetworkHalt
    <2>. DEFINE m == [network |-> "MainNet", about |-> "halt", number |-> importedTo]
    <2>1. m \in Message
      BY AnswerFact DEF Message
    <2>2. CASE importedTo = now /\ halted
      <3>1. SendAlert("halt", m)
        BY <1>11, <2>2 DEF AlertIfNetworkHalt
      <3>2. UNCHANGED <<chainVars, importer, staking, ranking, supplies, metrics, faultsLeft>>
        BY <1>11 DEF AlertIfNetworkHalt
      <3>. HIDE DEF m
      <3>. QED  BY <2>1, <3>1, <3>2, AfterFact DEF SendAlert
    <2>3. CASE ~ (importedTo = now /\ halted)
      BY <1>11, <2>3, AfterFact DEF AlertIfNetworkHalt
    <2>. QED  BY <2>2, <2>3
  <1>12. CASE CheckRpc
    <2>1. UNCHANGED <<chainVars, importer, staking, ranking, supplies, metrics, faultsLeft>>
      BY <1>12 DEF CheckRpc
    <2>2. CASE After("rpc") /\ UNCHANGED alarm
      BY <2>1, <2>2, AfterFact
    <2>3. ASSUME NEW n \in {0, now}, SendAlert("rpc", [network |-> "mainnet", about |-> "rpc", number |-> n])
          PROVE  MetricTypeOK'
      <3>. DEFINE m == [network |-> "mainnet", about |-> "rpc", number |-> n]
      <3>1. m \in Message
        BY AnswerFact DEF Message
      <3>2. SendAlert("rpc", m)
        BY <2>3
      <3>. HIDE DEF m
      <3>. QED  BY <2>1, <3>1, <3>2, AfterFact DEF SendAlert
    <2>. QED  BY <1>12, <2>2, <2>3 DEF CheckRpc
  <1>13. CASE Post
    <2>0. PICK k \in {0, 1} : posts' = [posts EXCEPT ![message] = @ + k]
      BY <1>13 DEF Post
    <2>1. posts' \in [Message -> Nat]
      <3>1. \A m \in Message : posts[m] + k \in Nat
        OBVIOUS
      <3>. QED  BY <2>0, <3>1
    <2>. QED  BY <1>13, <2>1, AfterFact DEF Post
  <1>14. CASE ReadAccounts
    BY <1>14, AnswerFact DEF ReadAccounts
  <1>15. CASE RankAccounts
    <2>1. rank' \in [Coin -> [Ranked -> 1..Unranked]]
      BY <1>15, RankFact DEF RankAccounts
    <2>2. task' \in Range(Jobs) \cup {"asleep", "mtrg"} /\ tick' \in 0..(Day - 1)
      BY <1>15, AfterFact DEF RankAccounts
    <2>. QED  BY <1>15, <2>1, <2>2 DEF RankAccounts
  <1>16. CASE NoteList
    <2>1. IsMemory(memory') /\ IsMemory(kept')
      BY <1>16, UpdateFact DEF NoteList, Key
    <2>2. AfterList[task] \in {"jailed", "delegates", "decide"}
      BY <1>16 DEF NoteList, Lists, AfterList
    <2>3. due' \in BOOLEAN
      BY <1>16 DEF NoteList
    <2>. QED  BY <1>16, <2>1, <2>2, <2>3 DEF NoteList
  <1>17. CASE NullList
    <2>1. faultsLeft' \in [MetricFault -> Nat]
      BY <1>17, FailFact DEF NullList, MetricFault
    <2>2. AfterList[task] \in {"jailed", "delegates", "decide"}
      BY <1>17 DEF NullList, Lists, AfterList
    <2>. QED  BY <1>17, <2>1, <2>2 DEF NullList
  <1>18. CASE Decide
    BY <1>18, AfterFact DEF Decide
  <1>19. CASE DeleteValidators
    BY <1>19, RowFact DEF DeleteValidators
  <1>20. CASE InsertValidators
    BY <1>20, AfterFact, RowFact DEF InsertValidators
  <1>21. CASE NoteStats
    BY <1>21, AfterFact, UpdateFact DEF NoteStats, Key
  <1>22. CASE NullStats
    BY <1>22, AfterFact, FailFact DEF NullStats, MetricFault
  <1>23. CASE EmptyPoints
    <2>1. validators' \in [Validator -> ValidatorRow]
      BY <1>23, RowFact DEF EmptyPoints
    <2>. QED  BY <1>23, <2>1 DEF EmptyPoints
  <1>24. CASE SavePoints
    BY <1>24, AfterFact, RowFact DEF SavePoints
  <1>25. CASE PointsFail
    <2>1. validators' \in [Validator -> ValidatorRow]
      BY <1>25, RowFact DEF PointsFail
    <2>. QED  BY <1>25, <2>1, AfterFact, FailFact DEF PointsFail, MetricFault
  <1>26. CASE ReadSupply
    BY <1>26 DEF ReadSupply
  <1>27. CASE Adjust
    BY <1>27, AfterFact, AnswerFact DEF Adjust
  <1>28. CASE SaveSupply
    BY <1>28, AfterFact DEF SaveSupply
  <1>29. CASE AdjustFails
    BY <1>29, AfterFact, FailFact DEF AdjustFails, MetricFault
  <1>30. CASE TurnFails
    <2>1. IsMemory(memory')
      BY <1>30, NotedFact DEF TurnFails
    <2>2. faultsLeft' \in [MetricFault -> Nat]
      BY <1>30, FailFact DEF TurnFails, MetricFault
    <2>3. validators' \in [Validator -> ValidatorRow] /\ rank' \in [Coin -> [Ranked -> 1..Unranked]]
      BY <1>30, CutFact DEF TurnFails
    <2>4. tick' \in 0..(Day - 1)
      BY <1>30, MetricAssumption DEF TurnFails
    <2>. QED  BY <1>30, <2>1, <2>2, <2>3, <2>4 DEF TurnFails
  <1>31. CASE PriceFails
    <2>1. validators' \in [Validator -> ValidatorRow] /\ rank' \in [Coin -> [Ranked -> 1..Unranked]]
      BY <1>31, CutFact DEF PriceFails
    <2>2. faultsLeft' \in [MetricFault -> Nat]
      BY <1>31, FailFact DEF PriceFails, MetricFault
    <2>3. writing' \in Seq(Nat) /\ tick' \in 0..(Day - 1)
      BY <1>31, ZeroTick DEF PriceFails
    <2>. QED  BY <1>31, <2>1, <2>2, <2>3 DEF PriceFails
  <1>32. CASE MetricCrash
    <2>1. validators' \in [Validator -> ValidatorRow] /\ rank' \in [Coin -> [Ranked -> 1..Unranked]]
      BY <1>32, CutFact DEF MetricCrash
    <2>2. faultsLeft' \in [MetricFault -> Nat]
      BY <1>32, FailFact DEF MetricCrash, MetricFault
    <2>3. writing' \in Seq(Nat) /\ tick' \in 0..(Day - 1)
      BY <1>32, ZeroTick DEF MetricCrash
    <2>. QED  BY <1>32, <2>1, <2>2, <2>3 DEF MetricCrash
  <1>33. CASE UNCHANGED metricVars
    BY <1>33
  <1>. HIDE DEF chainVars, importer, staking, ranking, supplies, alarm, metrics, metricVars, MetricTypeOK
  <1>. QED  BY <1>1, <1>2, <1>3, <1>4, <1>5, <1>6, <1>7, <1>8, <1>9, <1>10, <1>11, <1>12, <1>13,
             <1>14, <1>15, <1>16, <1>17, <1>18, <1>19, <1>20, <1>21, <1>22, <1>23, <1>24,
             <1>25, <1>26, <1>27, <1>28, <1>29, <1>30, <1>31, <1>32, <1>33
           DEF MetricNext, MetricProgram, Importing

\* The state of the metric process has its type: a rank is that of an account or `unranked', what is
\* remembered and stored is what the chain may say.
THEOREM MetricTypeCorrect == MetricSpec => []MetricTypeOK
  <1>1. MetricInit => MetricTypeOK
    BY InitType
  <1>2. MetricTypeOK /\ [MetricNext]_metricVars => MetricTypeOK'
    BY StepType
  <1>. QED  BY <1>1, <1>2, PTL DEF MetricSpec
-----------------------------------------------------------------------------
(* Alerts. *)

\* A step that leaves the alerts alone is not about to post one.
LEMMA AlarmIdle ==
  ASSUME AlertInv, UNCHANGED alarm, task' # "post"
  PROVE  AlertsOnce' /\ PostInv'
  BY DEF AlertInv, alarm, AlertsOnce, PostInv

LEMMA NotPosting ==
  ASSUME MetricTypeOK, NEW job, After(job)
  PROVE  task' # "post"
  BY AfterFact, JobFacts

LEMMA SendFact ==
  ASSUME AlertInv, NEW job, NEW m \in Message, SendAlert(job, m)
  PROVE  AlertsOnce' /\ PostInv'
  <1>1. posts \in [Message -> Nat] /\ MetricTypeOK
    BY DEF AlertInv, MetricTypeOK
  <1>2. CASE m \notin alerts /\ Valid(m)
    <2>1. alerts' = alerts \cup {m} /\ message' = m /\ posts' = posts
      BY <1>2 DEF SendAlert
    <2>2. posts[m] = 0
      <3>1. posts[m] \in Nat /\ posts[m] <= 1 /\ posts[m] # 1
        BY <1>1, <1>2 DEF AlertInv, AlertsOnce
      <3>. QED  BY <3>1
    <2>. QED  BY <2>1, <2>2 DEF AlertInv, AlertsOnce, PostInv
  <1>3. CASE ~ (m \notin alerts /\ Valid(m))
    <2>1. After(job) /\ UNCHANGED alarm
      BY <1>3 DEF SendAlert
    <2>. QED  BY <1>1, <2>1, AlarmIdle, NotPosting
  <1>. QED  BY <1>2, <1>3

LEMMA PostFact ==
  ASSUME AlertInv, Post
  PROVE  AlertsOnce' /\ PostInv'
  <1>1. message \in alerts /\ message \in Message /\ posts[message] = 0 /\ posts \in [Message -> Nat]
    BY DEF AlertInv, MetricTypeOK, PostInv, Post
  <1>2. PICK k \in {0, 1} : posts' = [posts EXCEPT ![message] = @ + k]
    BY DEF Post
  <1>3. posts'[message] \in {0, 1} /\ \A m \in Message : m # message => posts'[m] = posts[m]
    BY <1>1, <1>2
  <1>4. task' # "post" /\ alerts' = alerts
    <2>1. After(message.about) /\ alerts' = alerts
      BY DEF Post
    <2>. QED  BY <2>1, NotPosting DEF AlertInv
  <1>5. AlertsOnce'
    <2>. SUFFICES ASSUME NEW m \in Message PROVE posts'[m] <= 1 /\ (posts'[m] = 1 => m \in alerts')
      BY DEF AlertsOnce
    <2>. QED  BY <1>1, <1>3, <1>4 DEF AlertInv, AlertsOnce
  <1>. QED  BY <1>4, <1>5 DEF PostInv

LEMMA StepAlerts == AlertInv /\ [MetricNext]_metricVars => AlertInv'
  <1>. SUFFICES ASSUME AlertInv, [MetricNext]_metricVars PROVE AlertInv'
    OBVIOUS
  <1>0. MetricTypeOK
    BY DEF AlertInv
  <1>. SUFFICES AlertsOnce' /\ PostInv'
    BY <1>0, StepType DEF AlertInv
  <1>2. CASE AlertIfNetworkHalt
    <2>. DEFINE m == [network |-> "MainNet", about |-> "halt", number |-> importedTo]
    <2>1. m \in Message
      BY <1>0, AnswerFact DEF Message
    <2>2. CASE SendAlert("halt", m)
      BY <2>1, <2>2, SendFact
    <2>3. CASE After("halt") /\ UNCHANGED alarm
      BY <1>0, <2>3, AlarmIdle, NotPosting
    <2>. QED  BY <1>2, <2>2, <2>3 DEF AlertIfNetworkHalt
  <1>3. CASE CheckRpc
    <2>1. ASSUME NEW n \in {0, now}, SendAlert("rpc", [network |-> "mainnet", about |-> "rpc", number |-> n])
          PROVE  AlertsOnce' /\ PostInv'
      <3>1. [network |-> "mainnet", about |-> "rpc", number |-> n] \in Message
        BY <1>0, AnswerFact DEF Message
      <3>. QED  BY <2>1, <3>1, SendFact
    <2>2. CASE After("rpc") /\ UNCHANGED alarm
      BY <1>0, <2>2, AlarmIdle, NotPosting
    <2>. QED  BY <1>3, <2>1, <2>2 DEF CheckRpc
  <1>4. CASE Post
    BY <1>4, PostFact
  \* The steps of other processes.
  <1>5. CASE ChainMoves \/ TwoMinutesPass \/ Importing \/ PriceLands \/ UNCHANGED metricVars
    BY <1>5 DEF ChainMoves, TwoMinutesPass, Importing, AskSupply, ImportNext, PriceLands, metricVars, alarm,
                AlertInv, AlertsOnce, PostInv
  \* A job, or the step of one, is through.
  <1>6. CASE \/ Wakes \/ NoteFigure \/ NotePrice \/ NoPrice \/ RankAccounts \/ Decide \/ InsertValidators
             \/ NoteStats \/ NullStats \/ SavePoints \/ PointsFail \/ Adjust \/ SaveSupply \/ AdjustFails
    <2>1. UNCHANGED alarm
      BY <1>6 DEF Wakes, NoteFigure, NotePrice, NoPrice, RankAccounts, Decide, InsertValidators, NoteStats,
                  NullStats, SavePoints, PointsFail, Adjust, SaveSupply, AdjustFails, alarm
    <2>2. \/ \E job : After(job)
          \/ Turn(1)
          \/ \E s \in {"mtrg", "delete", "empty", "save"} : task' = s
      BY <1>6 DEF Wakes, NoteFigure, NotePrice, NoPrice, RankAccounts, Decide, InsertValidators, NoteStats,
                  NullStats, SavePoints, PointsFail, Adjust, SaveSupply, AdjustFails, Go
    <2>3. task' # "post"
      BY <1>0, <2>2, NotPosting, TurnFact, JobFacts
    <2>. QED  BY <2>1, <2>3, AlarmIdle
  <1>7. CASE MetricStart \/ ReadAccounts \/ DeleteValidators \/ EmptyPoints \/ ReadSupply \/ TurnFails
    <2>1. task' # "post" /\ UNCHANGED alarm
      BY <1>7 DEF MetricStart, ReadAccounts, DeleteValidators, EmptyPoints, ReadSupply, TurnFails, Go, alarm
    <2>. QED  BY <2>1, AlarmIdle
  <1>8. CASE NoteList \/ NullList
    <2>1. task' # "post"
      BY <1>8 DEF NoteList, NullList, Go, AfterList, Lists
    <2>2. UNCHANGED alarm
      BY <1>8 DEF NoteList, NullList, alarm
    <2>. QED  BY <2>1, <2>2, AlarmIdle
  \* The end of the process: what was recorded and not posted never will be.
  <1>9. CASE PriceFails \/ MetricCrash
    BY <1>9 DEF PriceFails, MetricCrash, EndsProcess, alarm, AlertInv, AlertsOnce, PostInv
  <1>. QED  BY <1>2, <1>3, <1>4, <1>5, <1>6, <1>7, <1>8, <1>9 DEF MetricNext, MetricProgram

\* No alert is posted twice, whatever stops the process (checkOrSendAlert): it is recorded before it is
\* posted, and what is recorded is never sent again.
THEOREM NoAlertTwice == MetricSpec => []AlertsOnce
  <1>1. MetricInit => AlertInv
    BY InitType DEF MetricInit, AlertInv, AlertsOnce, PostInv
  <1>2. AlertInv /\ [MetricNext]_metricVars => AlertInv'
    BY StepAlerts
  <1>3. AlertInv => AlertsOnce
    BY DEF AlertInv
  <1>. QED  BY <1>1, <1>2, <1>3, PTL DEF MetricSpec
=============================================================================
