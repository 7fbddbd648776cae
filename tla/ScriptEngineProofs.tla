------------------------- MODULE ScriptEngineProofs -------------------------
(***************************************************************************)
(* Proofs about the block reviewer, in the script engine that extends it:  *)
(* for every chain, window, script and number of faults.                   *)
(***************************************************************************)
EXTENDS ScriptEngine, FiniteSetTheorems, TLAPS

\* What the reviewer and the importer see of each other.
shared == <<head, tip, visible, reviewer>>

\* A process that is up has a head; in a round it is the block reviewed last, and the round does not
\* reach beyond what the importer has committed.
RoundInv ==
  /\ pc # "down" => head >= 0
  /\ pc \in {"scan", "work"} => num = head /\ (endNum <= tip \/ endNum = 0)

\* The block under review is the first one after the head.
NextInv ==
  pc = "work" => /\ num < blk /\ blk <= endNum
                 /\ \A n \in TxBlock \cap visible : num < n /\ n <= endNum => blk <= n

RInv == ReviewerTypeOK /\ RoundInv /\ NextInv

\* What a step may do to the head.
Reaches(n) == head < n /\ n <= head' => pc = "work" /\ blk = n
-----------------------------------------------------------------------------
\* The operations of processTx touch neither head nor the loop.
LEMMA OperationsQuiet ==
  ASSUME StartAuction \/ ProcessBid \/ Govern \/ End
  PROVE  UNCHANGED shared
  <1>1. CASE StartAuction
    BY <1>1 DEF StartAuction, Frame, shared, reviewer
  <1>2. CASE ProcessBid
    BY <1>2 DEF ProcessBid, CreateBid, AddToTotals, Frame, shared, reviewer
  <1>3. CASE Govern
    BY <1>3 DEF Govern, RefreshAuction, Autobid, RewardAutobid, AutobidsDone, RewardValidator,
                SaveValidatorReward, SaveEpochSummary, Frame, shared, reviewer
  <1>4. CASE End
    BY <1>4 DEF End, AlreadyEnded, EndSummary, FindBid, CloseBid, EndAuction, Frame, shared, reviewer
  <1>. QED  BY <1>1, <1>2, <1>3, <1>4

\* The end of a round lies between zero and what the importer has committed.
LEMMA RoundEndFact ==
  ASSUME ReviewerTypeOK, head >= 0
  PROVE  /\ LocalBest \in Int
         /\ head <= RoundEnd => RoundEnd \in Block /\ (RoundEnd <= tip \/ RoundEnd = 0)
  BY BlockReviewerAssumption DEF ReviewerTypeOK, AbsTypeOK, Block, LocalBest, RoundEnd

LEMMA InitRInv == Init => RInv
  BY BlockReviewerAssumption
     DEF Init, ReviewerInit, AbsInit, RInv, ReviewerTypeOK, AbsTypeOK, RoundInv, NextInv, Block

\* A step that leaves alone what both see keeps the invariant.
LEMMA QuietKeeps ==
  ASSUME RInv, UNCHANGED shared
  PROVE  RInv'
  BY DEF RInv, ReviewerTypeOK, AbsTypeOK, RoundInv, NextInv, shared, reviewer, Block

\* The importer's blocks lie beyond the round that is under way.
LEMMA ImportKeeps ==
  ASSUME RInv, PosImport
  PROVE  RInv'
  <1>1. PICK n \in (tip + 1)..MaxBlock :
          \E batch \in SUBSET ((tip + 1)..n) : tip' = n /\ visible' = visible \cup batch
    BY DEF PosImport, ImportBatch
  <1>2. PICK batch \in SUBSET ((tip + 1)..n) : tip' = n /\ visible' = visible \cup batch
    BY <1>1
  <1>3. UNCHANGED <<head, reviewer>>
    BY DEF PosImport
  <1>4. tip \in -1..MaxBlock /\ visible \subseteq 0..tip
    BY DEF RInv, ReviewerTypeOK, AbsTypeOK
  <1>5. tip' \in -1..MaxBlock /\ tip < tip' /\ visible' \subseteq 0..tip'
    BY <1>2, <1>4, BlockReviewerAssumption
  <1>6. ReviewerTypeOK'
    BY <1>3, <1>5 DEF RInv, ReviewerTypeOK, AbsTypeOK, reviewer, Block
  <1>7. RoundInv'
    BY <1>3, <1>4, <1>5, BlockReviewerAssumption DEF RInv, RoundInv, ReviewerTypeOK, reviewer, Block
  <1>8. NextInv'
    <2>. SUFFICES ASSUME pc = "work"
                  PROVE  /\ num < blk /\ blk <= endNum
                         /\ \A m \in TxBlock \cap visible' : num < m /\ m <= endNum => blk <= m
      BY <1>3 DEF NextInv, reviewer
    <2>1. num < blk /\ blk <= endNum
      BY DEF RInv, NextInv
    <2>2. ASSUME NEW m \in TxBlock \cap visible', num < m, m <= endNum
          PROVE  blk <= m
      <3>1. m \in Int /\ m >= 1
        BY <2>2, BlockReviewerAssumption
      <3>2. endNum <= tip
        BY <2>2, <3>1, <1>4 DEF RInv, RoundInv, ReviewerTypeOK, Block
      <3>3. m \notin batch
        BY <2>2, <3>1, <3>2, <1>4 DEF RInv, ReviewerTypeOK, Block
      <3>. QED  BY <2>2, <3>3, <1>2 DEF RInv, NextInv
    <2>. QED  BY <2>1, <2>2
  <1>. QED  BY <1>6, <1>7, <1>8 DEF RInv

\* A round: from the head to the first block after it, to the next one, and so on.
LEMMA LoopKeeps ==
  ASSUME RInv, Turn
  PROVE  RInv'
  <1>. UNCHANGED <<tip, visible>>
    BY DEF Turn
  <1>1. CASE BeginReview
    <2>1. head >= 0 /\ head <= RoundEnd
      BY <1>1 DEF BeginReview, RInv, RoundInv
    <2>2. RoundEnd \in Block /\ (RoundEnd <= tip \/ RoundEnd = 0)
      BY <2>1, RoundEndFact DEF RInv
    <2>. QED  BY <1>1, <2>1, <2>2 DEF BeginReview, RInv, ReviewerTypeOK, AbsTypeOK, RoundInv, NextInv, Block
  <1>2. CASE SkipReview \/ QuitWithoutGenesis
    BY <1>2, QuietKeeps DEF SkipReview, QuitWithoutGenesis, shared, reviewer
  <1>3. CASE NextBlock
    <2>1. PICK n \in ToReview : (\A m \in ToReview : n <= m) /\ blk' = n
      BY <1>3 DEF NextBlock
    <2>2. n \in Block /\ n \in TxBlock \cap visible /\ num < n /\ n <= endNum
      BY BlockReviewerAssumption DEF ToReview, Block
    <2>3. /\ pc = "scan" /\ pc' = "work" /\ blk' = n
          /\ UNCHANGED <<head, num, endNum>>
      BY <1>3, <2>1 DEF NextBlock
    <2>4. ReviewerTypeOK'
      BY <2>2, <2>3 DEF RInv, ReviewerTypeOK, AbsTypeOK, Block
    <2>5. RoundInv'
      BY <2>3 DEF RInv, RoundInv
    <2>6. NextInv'
      BY <2>1, <2>2, <2>3 DEF NextInv, ToReview
    <2>. QED  BY <2>4, <2>5, <2>6 DEF RInv
  <1>4. CASE NothingToProcess \/ EmptyEndBlock
    BY <1>4 DEF NothingToProcess, EmptyEndBlock, RInv, ReviewerTypeOK, AbsTypeOK, RoundInv, NextInv, Block
  <1>. QED  BY <1>1, <1>2, <1>3, <1>4 DEF Turn, Loop

LEMMA StepKeeps == RInv /\ [Next]_vars => RInv'
  <1>. SUFFICES ASSUME RInv, [Next]_vars PROVE RInv'
    OBVIOUS
  <1>1. CASE StartUp
    BY <1>1, BlockReviewerAssumption
       DEF StartUp, BeforeStart, RInv, ReviewerTypeOK, AbsTypeOK, RoundInv, NextInv, Block
  <1>2. CASE CleanUp
    <2>1. /\ pc = "clean" /\ pc' \in {"idle", "clean"}
          /\ UNCHANGED <<tip, visible, head, num, endNum, blk>>
      BY <1>2 DEF CleanUp
    <2>. QED  BY <2>1 DEF RInv, ReviewerTypeOK, AbsTypeOK, RoundInv, NextInv, Block
  <1>3. CASE Turn
    BY <1>3, LoopKeeps
  <1>4. CASE BlockDone
    BY <1>4 DEF BlockDone, Reviewed, RInv, ReviewerTypeOK, AbsTypeOK, RoundInv, NextInv, Block
  <1>5. CASE RetryRefused \/ CallFails
    <2>1. Retry /\ UNCHANGED <<tip, visible>>
      BY <1>5 DEF RetryRefused, CallFails
    <2>. QED  BY <2>1 DEF Retry, RInv, ReviewerTypeOK, AbsTypeOK, RoundInv, NextInv, Block
  <1>6. CASE Crash
    BY <1>6 DEF Crash, RInv, ReviewerTypeOK, AbsTypeOK, RoundInv, NextInv, Block
  <1>7. CASE StartAuction \/ ProcessBid \/ Govern \/ End
    BY <1>7, OperationsQuiet, QuietKeeps
  <1>8. CASE PosImport
    BY <1>8, ImportKeeps
  <1>9. CASE UNCHANGED vars
    BY <1>9, QuietKeeps DEF vars, shared, reviewer
  <1>. QED  BY <1>1, <1>2, <1>3, <1>4, <1>5, <1>6, <1>7, <1>8, <1>9 DEF Next, Program
-----------------------------------------------------------------------------
\* The head comes to a block only by the review of it.
LEMMA HeadMoves ==
  ASSUME RInv, [Next]_vars, NEW n \in TxBlock \cap visible
  PROVE  Reaches(n)
  <1>0. n \in Int /\ n >= 1 /\ head \in Int
    BY BlockReviewerAssumption DEF RInv, ReviewerTypeOK
  <1>1. CASE StartUp
    BY <1>0, <1>1 DEF StartUp, BeforeStart, Reaches
  <1>2. CASE Turn
    <2>1. CASE NothingToProcess
      BY <1>0, <2>1 DEF NothingToProcess, ToReview, RInv, RoundInv, Reaches
    <2>2. CASE BeginReview \/ SkipReview \/ NextBlock \/ EmptyEndBlock \/ QuitWithoutGenesis
      BY <1>0, <2>2 DEF BeginReview, SkipReview, NextBlock, EmptyEndBlock, QuitWithoutGenesis, Reaches
    <2>. QED  BY <1>2, <2>1, <2>2 DEF Turn, Loop
  <1>3. CASE BlockDone
    <2>1. pc = "work" /\ head' = blk
      BY <1>3 DEF BlockDone, Reviewed
    <2>2. num = head /\ blk <= endNum /\ (num < n /\ n <= endNum => blk <= n)
      BY <2>1 DEF RInv, RoundInv, NextInv
    <2>. QED  BY <1>0, <2>1, <2>2 DEF RInv, ReviewerTypeOK, Block, Reaches
  <1>4. ASSUME UNCHANGED head PROVE Reaches(n)
    BY <1>0, <1>4 DEF Reaches
  <1>5. CASE CleanUp \/ RetryRefused \/ CallFails \/ Crash \/ PosImport \/ UNCHANGED vars
    <2>1. UNCHANGED head
      BY <1>5 DEF CleanUp, RetryRefused, CallFails, Retry, Crash, PosImport, vars
    <2>. QED  BY <2>1, <1>4
  <1>6. CASE StartAuction \/ ProcessBid \/ Govern \/ End
    <2>1. UNCHANGED head
      BY <1>6, OperationsQuiet DEF shared
    <2>. QED  BY <2>1, <1>4
  <1>. QED  BY <1>1, <1>2, <1>3, <1>5, <1>6 DEF Next, Program

\* The head of the reviewer comes to a block with a transaction, or past it, only by reviewing it:
\* for every chain and window, with any number of crashes and errors, and whatever batches the
\* importer commits in the meantime.
THEOREM EveryBlockReviewed == Spec => NoBlockSkipped
  <1>1. Init => RInv
    BY InitRInv
  <1>2. RInv /\ [Next]_vars => RInv'
    BY StepKeeps
  <1>3. RInv /\ [Next]_vars =>
          [ \A n \in TxBlock \cap visible :
              head < n /\ n <= head' => pc = "work" /\ blk = n ]_<<head, tip, visible, reviewer>>
    BY HeadMoves DEF Reaches
  <1>. QED  BY <1>1, <1>2, <1>3, PTL DEF Spec, NoBlockSkipped
-----------------------------------------------------------------------------
(* Sums of amounts. *)

\* Induction, over a set of numbers.
LEMMA NaturalsAll ==
  ASSUME NEW T \in SUBSET Nat, 0 \in T, \A n \in T : n + 1 \in T
  PROVE  T = Nat
  <1>. DEFINE U == Nat \ T
              Less == OpToRel(<, Nat)
  <1>. SUFFICES ASSUME U # {} PROVE FALSE
    OBVIOUS
  <1>1. \E x \in U : \A y \in U : <<y, x>> \notin Less
    <2>1. U \subseteq Nat /\ IsWellFoundedOn(Less, Nat)
      BY NatLessThanWellFounded
    <2>. HIDE DEF U, Less
    <2>. QED  BY <2>1, WFMin
  <1>2. PICK n \in U : \A m \in U : <<m, n>> \notin Less
    BY <1>1
  <1>3. n - 1 \in Nat /\ n - 1 \in U
    <2>1. n \in Nat /\ n \notin T /\ n # 0
      OBVIOUS
    <2>2. n - 1 \in Nat /\ (n - 1) + 1 = n
      BY <2>1
    <2>3. n - 1 \notin T
      BY <2>1, <2>2
    <2>. QED  BY <2>2, <2>3
  <1>4. <<n - 1, n>> \in Less
    BY <1>3 DEF OpToRel
  <1>. QED  BY <1>2, <1>3, <1>4

\* The element the fold of the library takes out of a set first.
One(s) == CHOOSE b \in s : TRUE

\* What the fold of the library does to the subsets of S.
Adds(g, s) == g[s] = IF s = {} THEN 0 ELSE BidInfo[One(s)].amount + g[s \ {One(s)}]

Small(S, n) == { s \in SUBSET S : Cardinality(s) <= n }

LEMMA OneLess ==
  ASSUME NEW S, IsFiniteSet(S), NEW s \in SUBSET S, s # {}
  PROVE  /\ One(s) \in s /\ Cardinality(s) \in Nat /\ Cardinality(s \ {One(s)}) = Cardinality(s) - 1
         /\ s \ {One(s)} \in SUBSET S
  <1>1. One(s) \in s
    BY DEF One
  <1>2. IsFiniteSet(s)
    BY FS_Subset
  <1>3. Cardinality(s) \in Nat
    BY <1>2, FS_CardinalityType
  <1>4. Cardinality(s \ {One(s)}) = Cardinality(s) - 1
    BY <1>1, <1>2, FS_RemoveElement
  <1>. QED  BY <1>1, <1>3, <1>4

LEMMA FoldExists ==
  ASSUME NEW S \in SUBSET Bid, IsFiniteSet(S)
  PROVE  \E g : g = [s \in SUBSET S |-> IF s = {} THEN 0
                       ELSE BidInfo[One(s)].amount + g[s \ {One(s)}]]
  <1>. DEFINE T == { n \in Nat : \E g \in [Small(S, n) -> Nat] : \A s \in Small(S, n) : Adds(g, s) }
  <1>1. 0 \in T
    <2>. DEFINE g == [s \in Small(S, 0) |-> 0]
    <2>1. \A s \in Small(S, 0) : s = {}
      <3>. SUFFICES ASSUME NEW s \in Small(S, 0), s # {} PROVE FALSE
        OBVIOUS
      <3>1. s \in SUBSET S /\ Cardinality(s) <= 0
        BY DEF Small
      <3>2. IsFiniteSet(s)
        BY <3>1, FS_Subset
      <3>3. Cardinality(s) \in Nat
        BY <3>2, FS_CardinalityType
      <3>. QED  BY <3>1, <3>2, <3>3, FS_EmptySet
    <2>2. g \in [Small(S, 0) -> Nat] /\ \A s \in Small(S, 0) : Adds(g, s)
      BY <2>1 DEF Adds
    <2>. QED  BY <2>2
  <1>2. ASSUME NEW n \in T PROVE n + 1 \in T
    <2>1. PICK g \in [Small(S, n) -> Nat] : \A s \in Small(S, n) : Adds(g, s)
      OBVIOUS
    <2>. DEFINE h == [s \in Small(S, n + 1) |->
                        IF s \in Small(S, n) THEN g[s]
                        ELSE BidInfo[One(s)].amount + g[s \ {One(s)}]]
    <2>2. ASSUME NEW s \in Small(S, n + 1), s # {}
          PROVE  One(s) \in s /\ s \subseteq S /\ s \ {One(s)} \in Small(S, n)
      BY <2>2, OneLess DEF Small
    <2>3. \A s \in Small(S, n) : s \in Small(S, n + 1)
      <3>. SUFFICES ASSUME NEW s \in Small(S, n) PROVE Cardinality(s) <= n + 1
        BY DEF Small
      <3>1. Cardinality(s) \in Nat
        <4>1. IsFiniteSet(s)
          BY FS_Subset DEF Small
        <4>. QED  BY <4>1, FS_CardinalityType
      <3>. QED  BY <3>1 DEF Small
    <2>4. \A s \in Small(S, n + 1) : s = {} => s \in Small(S, n)
      BY FS_EmptySet DEF Small
    <2>5. h \in [Small(S, n + 1) -> Nat]
      <3>. SUFFICES ASSUME NEW s \in Small(S, n + 1), s \notin Small(S, n)
                    PROVE  BidInfo[One(s)].amount + g[s \ {One(s)}] \in Nat
        OBVIOUS
      <3>1. One(s) \in Bid /\ s \ {One(s)} \in Small(S, n)
        BY <2>2, <2>4
      <3>. QED  BY <3>1, ScriptAssumption
    <2>6. ASSUME NEW s \in Small(S, n + 1) PROVE Adds(h, s)
      <3>1. CASE s = {}
        BY <3>1, <2>1, <2>4 DEF Adds
      <3>2. CASE s # {}
        <4>1. s \ {One(s)} \in Small(S, n) /\ h[s \ {One(s)}] = g[s \ {One(s)}]
          BY <3>2, <2>2, <2>3
        <4>2. CASE s \in Small(S, n)
          <5>1. g[s] = BidInfo[One(s)].amount + g[s \ {One(s)}] /\ h[s] = g[s]
            BY <3>2, <2>1, <4>2 DEF Adds
          <5>. HIDE DEF h
          <5>. QED  BY <3>2, <5>1, <4>1 DEF Adds
        <4>3. CASE s \notin Small(S, n)
          <5>1. h[s] = BidInfo[One(s)].amount + g[s \ {One(s)}]
            BY <4>3
          <5>. HIDE DEF h
          <5>. QED  BY <3>2, <5>1, <4>1 DEF Adds
        <4>. QED  BY <4>2, <4>3
      <3>. QED  BY <3>1, <3>2
    <2>. HIDE DEF h
    <2>. QED  BY <2>5, <2>6
  <1>3. T = Nat
    <2>. HIDE DEF T
    <2>1. T \in SUBSET Nat
      BY DEF T
    <2>. QED  BY <1>1, <1>2, <2>1, NaturalsAll
  <1>4. Cardinality(S) \in Nat
    BY FS_CardinalityType
  <1>5. PICK g \in [Small(S, Cardinality(S)) -> Nat] : \A s \in Small(S, Cardinality(S)) : Adds(g, s)
    BY <1>3, <1>4
  <1>6. Small(S, Cardinality(S)) = SUBSET S
    BY FS_Subset DEF Small
  <1>7. g = [s \in SUBSET S |-> IF s = {} THEN 0 ELSE BidInfo[One(s)].amount + g[s \ {One(s)}]]
    BY <1>5, <1>6 DEF Adds
  <1>. QED  BY <1>7

LEMMA AmountIsNat ==
  ASSUME NEW S \in SUBSET Bid, IsFiniteSet(S)
  PROVE  Amount(S) \in Nat
  <1>. DEFINE Def(g) == g = [s \in SUBSET S |-> IF s = {} THEN 0
                               ELSE BidInfo[One(s)].amount + g[s \ {One(s)}]]
              g == CHOOSE f : Def(f)
  <1>1. Amount(S) = g[S]
    BY DEF Amount, MapThenSumSet, MapThenFoldSet, One
  <1>2. Def(g)
    <2>1. \E f : Def(f)
      BY FoldExists
    <2>. HIDE DEF Def
    <2>. QED  BY <2>1
  <1>. HIDE DEF g
  <1>3. \A s \in SUBSET S : Adds(g, s)
    BY <1>2 DEF Adds
  <1>. DEFINE T == { n \in Nat : \A s \in Small(S, n) : g[s] \in Nat }
  <1>4. 0 \in T
    <2>. SUFFICES ASSUME NEW s \in Small(S, 0) PROVE g[s] \in Nat
      OBVIOUS
    <2>1. s \in SUBSET S /\ Cardinality(s) <= 0
      BY DEF Small
    <2>2. s = {}
      <3>. SUFFICES ASSUME s # {} PROVE FALSE
        OBVIOUS
      <3>1. /\ Cardinality(s) \in Nat /\ Cardinality(s \ {One(s)}) = Cardinality(s) - 1
            /\ s \ {One(s)} \in SUBSET S
        BY <2>1, OneLess
      <3>2. IsFiniteSet(s \ {One(s)})
        BY <3>1, FS_Subset
      <3>3. Cardinality(s \ {One(s)}) \in Nat
        BY <3>2, FS_CardinalityType
      <3>. QED  BY <2>1, <3>1, <3>3
    <2>3. Adds(g, s)
      BY <1>3, <2>1
    <2>4. g[s] = 0
      BY <2>2, <2>3 DEF Adds
    <2>. QED  BY <2>4
  <1>5. ASSUME NEW n \in T PROVE n + 1 \in T
    <2>. SUFFICES ASSUME NEW s \in Small(S, n + 1) PROVE g[s] \in Nat
      OBVIOUS
    <2>0. s \in SUBSET S /\ (s = {} => g[s] = 0)
      BY <1>3 DEF Adds, Small
    <2>. SUFFICES ASSUME s # {} PROVE g[s] \in Nat
      BY <2>0
    <2>1. One(s) \in Bid /\ s \ {One(s)} \in Small(S, n)
      BY OneLess DEF Small
    <2>2. g[s] = BidInfo[One(s)].amount + g[s \ {One(s)}]
      BY <1>3 DEF Adds, Small
    <2>. QED  BY <2>1, <2>2, ScriptAssumption
  <1>6. T = Nat
    <2>1. T \in SUBSET Nat
      OBVIOUS
    <2>. HIDE DEF T
    <2>. QED  BY <1>4, <1>5, <2>1, NaturalsAll
  <1>7. Cardinality(S) \in Nat /\ S \in Small(S, Cardinality(S))
    BY FS_CardinalityType DEF Small
  <1>. QED  BY <1>1, <1>6, <1>7
-----------------------------------------------------------------------------
(* Types. *)

\* The operation under way is one of the chain's.
LEMMA OperationFact ==
  ASSUME Working, blk \in Block, at \in Nat \ {0}
  PROVE  /\ at \in DOMAIN Script[blk] /\ Script[blk] \in Seq(Operation)
         /\ Script[blk][at] \in Operation
         /\ Script[blk][at].op = "start" => Script[blk][at].auction \in Auction
         /\ Script[blk][at].op = "end" => Script[blk][at].auction \in Auction
         /\ Script[blk][at].op = "bid" => Script[blk][at].bid \in Bid
         /\ blk \in TxBlock
  <1>1. Script[blk] \in Seq(Operation)
    BY ScriptAssumption
  <1>2. at \in 1..Len(Script[blk]) /\ at \in DOMAIN Script[blk]
    BY <1>1 DEF Working
  <1>3. Script[blk][at] \in Operation
    BY <1>1, <1>2
  <1>4. Script[blk] # <<>>
    BY <1>1, <1>2
  <1>5. blk \in TxBlock
    BY <1>4, ScriptAssumption
  <1>. QED  BY <1>1, <1>2, <1>3, <1>5 DEF Operation

LEMMA AmountType ==
  ASSUME NEW S \in SUBSET Bid
  PROVE  Amount(S) \in Nat /\ Cardinality(S) \in Nat
  <1>1. IsFiniteSet(S)
    BY FS_Subset, ScriptAssumption
  <1>. QED  BY <1>1, AmountIsNat, FS_CardinalityType

LEMMA BidSetsFact ==
  ASSUME NEW n, NEW a, NEW t
  PROVE  /\ AuctionTxs(n) \in SUBSET Bid /\ NewAutobids(n) \in SUBSET Bid
         /\ SummaryTxs(a) \in SUBSET Bid /\ OfType(SummaryTxs(a), t) \in SUBSET Bid
  BY DEF AuctionTxs, NewAutobids, SummaryTxs, OfType

\* The collections, and where in an operation the process is.
AuctionRow == [exists : BOOLEAN, pending : BOOLEAN, count : Nat, received : Nat,
               userbid : Nat, autobid : Nat]
BidRow == [num : -1..MaxBlock, pending : BOOLEAN, auction : Auction \cup {"none"}]

RowsTypeOK ==
  /\ auctions \in [Auction -> AuctionRow]
  /\ bids \in [Bid -> BidRow]
  /\ rewards \in [Block -> [Payee -> 0..2]]
  /\ summaries \subseteq Auction
  /\ epochs \subseteq Block /\ payouts \subseteq Block

PlaceTypeOK ==
  /\ at \in Nat \ {0}
  /\ step \in {"begin", "total", "autobid", "reward", "transfer", "payout", "epoch", "close", "closing"}
  /\ todo \subseteq Payee
  /\ Bid = {} \/ it \in Bid
  /\ stage \in 1..5
  /\ spent \in [{"crash", "error"} -> Nat]

LEMMA InitTypeOK == Init => TypeOK
  <1>. SUFFICES ASSUME Init PROVE TypeOK
    OBVIOUS
  <1>1. ReviewerTypeOK
    BY InitRInv DEF RInv
  <1>2. NoAuction \in AuctionRow /\ NoBid \in BidRow
    BY BlockReviewerAssumption DEF NoAuction, AuctionRow, NoBid, BidRow
  <1>3. RowsTypeOK
    BY <1>2 DEF Init, RowsTypeOK
  <1>4. PlaceTypeOK
    BY DEF Init, PlaceTypeOK
  <1>. QED  BY <1>1, <1>3, <1>4 DEF TypeOK, RowsTypeOK, PlaceTypeOK, AuctionRow, BidRow

\* The steps of an operation keep the types of the collections.
LEMMA OperationRows ==
  ASSUME RowsTypeOK, PlaceTypeOK, ReviewerTypeOK, StartAuction \/ ProcessBid \/ Govern \/ End
  PROVE  RowsTypeOK'
  <1>. USE DEF RowsTypeOK
  <1>0. blk \in Block /\ at \in Nat \ {0} /\ todo \subseteq Payee /\ blk \in -1..MaxBlock
    BY BlockReviewerAssumption DEF ReviewerTypeOK, PlaceTypeOK, Block
  <1>1. NoAuction \in AuctionRow
    BY DEF NoAuction, AuctionRow
  <1>2. CASE StartAuction
    <2>1. Script[blk][at].auction \in Auction
      BY <1>0, <1>2, OperationFact DEF StartAuction, Doing
    <2>2. [NoAuction EXCEPT !.exists = TRUE, !.pending = TRUE] \in AuctionRow
      BY <1>1 DEF AuctionRow
    <2>. QED  BY <1>2, <2>1, <2>2 DEF StartAuction
  <1>3. CASE CreateBid
    <2>1. Script[blk][at].bid \in Bid
      BY <1>0, <1>3, OperationFact DEF CreateBid, Doing
    <2>2. PICK a \in Present : bids' = [bids EXCEPT ![Script[blk][at].bid] =
                                          [num |-> blk, pending |-> TRUE, auction |-> a]]
      BY <1>3 DEF CreateBid
    <2>3. [num |-> blk, pending |-> TRUE, auction |-> a] \in BidRow
      BY <1>0 DEF BidRow, Present
    <2>. QED  BY <1>3, <2>2, <2>3 DEF CreateBid
  <1>4. CASE AddToTotals
    <2>1. Script[blk][at].bid \in Bid
      BY <1>0, <1>4, OperationFact DEF AddToTotals, Doing
    <2>. DEFINE bid == BidInfo[Script[blk][at].bid]
    <2>2. bid.type \in {"userbid", "autobid"} /\ bid.amount \in Nat
      BY <2>1, ScriptAssumption
    <2>. HIDE DEF bid
    <2>3. PICK a \in Present : auctions' = [auctions EXCEPT ![a] = WithBid(auctions[a], bid)]
      BY <1>4 DEF AddToTotals, bid
    <2>4. a \in Auction /\ auctions[a] \in AuctionRow
      BY DEF Present
    <2>5. WithBid(auctions[a], bid) \in AuctionRow
      <3>. DEFINE r == auctions[a]
                  u == IF bid.type = "userbid" THEN bid.amount ELSE 0
                  v == IF bid.type = "autobid" THEN bid.amount ELSE 0
      <3>1. u \in Nat /\ v \in Nat
        BY <2>2
      <3>2. WithBid(r, bid) = [r EXCEPT !.count = r.count + 1, !.received = r.received + bid.amount,
                                        !.userbid = r.userbid + u, !.autobid = r.autobid + v]
        BY <2>4 DEF WithBid, AuctionRow
      <3>3. r \in AuctionRow
        BY <2>4
      <3>. HIDE DEF r, u, v
      <3>4. /\ r.count + 1 \in Nat /\ r.received + bid.amount \in Nat
            /\ r.userbid + u \in Nat /\ r.autobid + v \in Nat
        BY <3>1, <3>3, <2>2 DEF AuctionRow
      <3>5. WithBid(r, bid) \in AuctionRow
        BY <3>2, <3>3, <3>4 DEF AuctionRow
      <3>. QED  BY <3>5 DEF r
    <2>6. auctions' \in [Auction -> AuctionRow]
      BY <2>3, <2>4, <2>5
    <2>. QED  BY <1>4, <2>6 DEF AddToTotals
  <1>5. CASE RefreshAuction
    <2>1. Amount(AuctionTxs(blk)) \in Nat /\ Cardinality(AuctionTxs(blk)) \in Nat
      BY BidSetsFact, AmountType
    <2>2. ASSUME NEW a \in Auction
          PROVE  [auctions[a] EXCEPT !.count = Cardinality(AuctionTxs(blk)),
                                     !.received = Amount(AuctionTxs(blk))] \in AuctionRow
      BY <2>1 DEF AuctionRow
    <2>. QED  BY <1>5, <2>2 DEF RefreshAuction
  <1>6. ASSUME NEW b \in Bid, FindOrCreate(b)
        PROVE  bids' \in [Bid -> BidRow]
    <2>1. [num |-> blk, pending |-> TRUE, auction |-> BidInfo[b].auction] \in BidRow
      BY <1>0, ScriptAssumption DEF BidRow
    <2>. QED  BY <1>6, <2>1 DEF FindOrCreate
  <1>7. CASE \E b \in Bid : Autobid(b) \/ FindBid(b)
    BY <1>6, <1>7 DEF Autobid, FindBid
  <1>8. ASSUME NEW p, Pay(p)
        PROVE  rewards' \in [Block -> [Payee -> 0..2]]
    <2>1. ASSUME p \in Payee
          PROVE  (IF rewards[blk][p] < 2 THEN rewards[blk][p] + 1 ELSE 2) \in 0..2
      BY <1>0, <2>1
    <2>. QED  BY <1>8, <2>1, <1>0 DEF Pay
  <1>9. CASE RewardAutobid \/ \E v \in Validator : RewardValidator(v)
    BY <1>8, <1>9 DEF RewardAutobid, RewardValidator
  <1>10. CASE AutobidsDone \/ AlreadyEnded
    BY <1>10 DEF AutobidsDone, AlreadyEnded, db
  <1>11. CASE SaveValidatorReward \/ SaveEpochSummary
    BY <1>11, <1>0 DEF SaveValidatorReward, SaveEpochSummary
  <1>12. CASE EndSummary
    <2>1. Script[blk][at].auction \in Auction
      BY <1>0, <1>12, OperationFact DEF EndSummary, Doing
    <2>. QED  BY <1>12, <2>1 DEF EndSummary
  <1>13. CASE CloseBid
    <2>1. bids' = [bids EXCEPT ![it].pending = FALSE]
      BY <1>13 DEF CloseBid
    <2>2. bids' \in [Bid -> BidRow]
      BY <2>1 DEF BidRow
    <2>. QED  BY <1>13, <2>2 DEF CloseBid
  <1>14. CASE EndAuction
    <2>. DEFINE a == Script[blk][at].auction
    <2>1. a \in Auction
      BY <1>0, <1>14, OperationFact DEF EndAuction, Doing
    <2>2. Ended(a) \in AuctionRow
      <3>1. /\ Amount(SummaryTxs(a)) \in Nat
            /\ Amount(OfType(SummaryTxs(a), "userbid")) \in Nat
            /\ Amount(OfType(SummaryTxs(a), "autobid")) \in Nat
        BY BidSetsFact, AmountType
      <3>. QED  BY <2>1, <3>1 DEF Ended, AuctionRow
    <2>. QED  BY <1>14, <2>1, <2>2 DEF EndAuction
  <1>. QED  BY <1>2, <1>3, <1>4, <1>5, <1>7, <1>9, <1>10, <1>11, <1>12, <1>13, <1>14
            DEF ProcessBid, Govern, End

\* So do the cleanup and the loop.
LEMMA RowsKeep ==
  ASSUME RowsTypeOK, PlaceTypeOK, ReviewerTypeOK, [Next]_vars
  PROVE  RowsTypeOK'
  <1>. USE DEF RowsTypeOK
  <1>1. CASE CleanUp
    <2>1. NoAuction \in AuctionRow /\ NoBid \in BidRow
      BY BlockReviewerAssumption DEF NoAuction, AuctionRow, NoBid, BidRow
    <2>. QED  BY <1>1, <2>1 DEF CleanUp, DeleteAuctions, DeleteBids, DeleteSummaries, DeleteRewards, DeleteEpochs
  <1>2. CASE StartAuction \/ ProcessBid \/ Govern \/ End
    BY <1>2, OperationRows
  <1>3. CASE StartUp \/ Turn \/ BlockDone \/ RetryRefused \/ CallFails \/ Crash \/ PosImport \/ UNCHANGED vars
    <2>1. UNCHANGED db
      BY <1>3 DEF StartUp, Turn, BlockDone, RetryRefused, CallFails, Crash, PosImport, vars, db
    <2>. QED  BY <2>1 DEF db
  <1>. QED  BY <1>1, <1>2, <1>3 DEF Next, Program

LEMMA PlaceKeeps ==
  ASSUME PlaceTypeOK, [Next]_vars
  PROVE  PlaceTypeOK'
  <1>. USE DEF PlaceTypeOK, Payee
  <1>1. CASE StartAuction
    BY <1>1 DEF StartAuction, NextOperation, Frame
  <1>2. CASE ProcessBid
    BY <1>2 DEF ProcessBid, CreateBid, AddToTotals, GoOn, NextOperation, Frame
  <1>3. CASE RefreshAuction
    BY <1>3, BidSetsFact DEF RefreshAuction, Frame
  <1>4. CASE \E b \in Bid : Autobid(b) \/ FindBid(b)
    BY <1>4 DEF Autobid, FindBid, Frame
  <1>5. CASE RewardAutobid \/ AutobidsDone \/ \E v \in Validator : RewardValidator(v)
    BY <1>5 DEF RewardAutobid, AutobidsDone, RewardValidator, Frame
  <1>6. CASE SaveValidatorReward \/ SaveEpochSummary
    BY <1>6 DEF SaveValidatorReward, SaveEpochSummary, GoOn, NextOperation, Frame
  <1>7. CASE AlreadyEnded
    BY <1>7 DEF AlreadyEnded, NextOperation, Frame
  <1>8. CASE EndSummary
    BY <1>8, BidSetsFact DEF EndSummary, Frame
  <1>9. CASE CloseBid
    BY <1>9 DEF CloseBid, Frame
  <1>10. CASE EndAuction
    BY <1>10 DEF EndAuction, NextOperation, Frame
  <1>11. CASE StartUp
    BY <1>11 DEF StartUp
  <1>12. CASE CleanUp
    BY <1>12 DEF CleanUp
  <1>13. CASE Turn \/ BlockDone \/ RetryRefused
    BY <1>13 DEF Turn, BlockDone, RetryRefused, Fresh
  <1>14. ASSUME NEW k \in {"crash", "error"}, CanSpend(k), Spend(k)
         PROVE  spent' \in [{"crash", "error"} -> Nat]
    BY <1>14 DEF CanSpend, Spend
  <1>15. CASE CallFails \/ Crash
    BY <1>14, <1>15 DEF CallFails, Crash, Fresh
  <1>16. CASE PosImport \/ UNCHANGED vars
    BY <1>16 DEF PosImport, vars, local
  <1>. QED  BY <1>1, <1>2, <1>3, <1>4, <1>5, <1>6, <1>7, <1>8, <1>9, <1>10, <1>11, <1>12, <1>13, <1>15, <1>16
            DEF Next, Program, Govern, End

LEMMA TypesKept == RInv /\ TypeOK /\ [Next]_vars => (RInv /\ TypeOK)'
  <1>. SUFFICES ASSUME RInv, TypeOK, [Next]_vars PROVE (RInv /\ TypeOK)'
    OBVIOUS
  <1>1. RInv' /\ ReviewerTypeOK'
    BY StepKeeps DEF RInv
  <1>2. RowsTypeOK /\ PlaceTypeOK /\ ReviewerTypeOK
    BY DEF TypeOK, RowsTypeOK, PlaceTypeOK, AuctionRow, BidRow
  <1>3. RowsTypeOK' /\ PlaceTypeOK'
    BY <1>2, RowsKeep, PlaceKeeps
  <1>. QED  BY <1>1, <1>3 DEF TypeOK, RowsTypeOK, PlaceTypeOK, AuctionRow, BidRow

\* The collections and the process keep their types; the totals of the auctions are numbers, which
\* is a fact about the sum over a set of bids, by induction over its size.
THEOREM TypeCorrect == Spec => []TypeOK
  <1>1. Init => RInv /\ TypeOK
    BY InitRInv, InitTypeOK
  <1>. QED  BY <1>1, TypesKept, PTL DEF Spec
-----------------------------------------------------------------------------
(* Rewards.  An attempt at a block that ends in a refusal leaves rewards behind, and the next one  *)
(* would give them again; but then what was refused is still to come and is refused again, so that *)
(* the block is not passed before a restart has cleaned up.                                        *)

At(n) == pc = "work" /\ blk = n

Op(n, i) == Script[n][i].op

Governs(n, i) == i \in DOMAIN Script[n] /\ Op(n, i) = "governing"

Payees(n) == NewAutobids(n) \cup Validator

Governing == {"autobid", "reward", "transfer", "epoch"}

\* Where the process is in the script of the block.
PlaceInv ==
  /\ pc # "work" => at = 1 /\ step = "begin"
  /\ pc = "work" =>
       /\ at <= Len(Script[blk]) + 1
       /\ blk \in TxBlock \cap visible
       /\ step \in Governing => Governs(blk, at)
       /\ step \in {"autobid", "reward"} => todo \subseteq NewAutobids(blk)
       /\ step = "reward" => it \in todo
       /\ step = "transfer" => todo \subseteq Validator
       /\ \A j \in 1..(at - 1) : Op(blk, j) = "start" => auctions[Script[blk][j].auction].exists

\* The head is no further than the importer, and a round ends no lower than it is.
HeadInv ==
  /\ head <= tip \/ head <= 0
  /\ pc = "scan" => num <= endNum

TInv == RInv /\ TypeOK /\ PlaceInv /\ HeadInv

LEMMA TypesOfTInv ==
  ASSUME TInv
  PROVE  /\ RowsTypeOK /\ PlaceTypeOK /\ ReviewerTypeOK
         /\ blk \in Block /\ at \in Nat \ {0} /\ Script[blk] \in Seq(Operation)
         /\ Block \subseteq Int
  <1>1. RowsTypeOK /\ PlaceTypeOK /\ ReviewerTypeOK
    BY DEF TInv, TypeOK, RowsTypeOK, PlaceTypeOK, AuctionRow, BidRow
  <1>2. blk \in Block /\ at \in Nat \ {0}
    BY <1>1 DEF ReviewerTypeOK, PlaceTypeOK
  <1>3. Script[blk] \in Seq(Operation) /\ Block \subseteq Int
    BY <1>2, ScriptAssumption, BlockReviewerAssumption DEF Block
  <1>. QED  BY <1>1, <1>2, <1>3

\* What the steps of an operation have in common.
LEMMA OperationEffect ==
  ASSUME TInv, StartAuction \/ ProcessBid \/ Govern \/ End
  PROVE  /\ Working /\ at \in DOMAIN Script[blk]
         /\ at' = at \/ (at' = at + 1 /\ step' = "begin")
         /\ \A a \in Auction : auctions[a].exists => auctions'[a].exists
         /\ \A b \in Bid : bids[b].num # -1 => bids'[b].num # -1
         /\ epochs \subseteq epochs'
  <1>. USE DEF RowsTypeOK
  <1>0. /\ RowsTypeOK /\ PlaceTypeOK /\ blk \in Block /\ at \in Nat \ {0}
        /\ Script[blk] \in Seq(Operation) /\ blk # -1
    BY TypesOfTInv DEF Block
  <1>. SUFFICES /\ Working
                /\ at' = at \/ (at' = at + 1 /\ step' = "begin")
                /\ \A a \in Auction : auctions[a].exists => auctions'[a].exists
                /\ \A b \in Bid : bids[b].num # -1 => bids'[b].num # -1
                /\ epochs \subseteq epochs'
    BY <1>0 DEF Working
  <1>1. CASE StartAuction
    BY <1>0, <1>1 DEF StartAuction, Doing, NextOperation, AuctionRow, NoAuction
  <1>2. CASE CreateBid
    BY <1>0, <1>2 DEF CreateBid, Doing, GoOn, Present
  <1>3. CASE AddToTotals
    BY <1>0, <1>3 DEF AddToTotals, WithBid, Doing, NextOperation, AuctionRow, Present
  <1>4. CASE RefreshAuction
    BY <1>0, <1>4 DEF RefreshAuction, Doing, AuctionRow
  <1>5. ASSUME NEW b \in Bid, FindOrCreate(b)
        PROVE  \A c \in Bid : bids[c].num # -1 => bids'[c].num # -1
    BY <1>0, <1>5 DEF FindOrCreate
  <1>6. CASE \E b \in Bid : Autobid(b) \/ FindBid(b)
    BY <1>5, <1>6 DEF Autobid, FindBid, Doing
  <1>7. CASE RewardAutobid \/ AutobidsDone \/ \E v \in Validator : RewardValidator(v)
    BY <1>7 DEF RewardAutobid, AutobidsDone, RewardValidator, Doing, db
  <1>8. CASE SaveValidatorReward \/ SaveEpochSummary
    BY <1>8 DEF SaveValidatorReward, SaveEpochSummary, Doing, GoOn, NextOperation
  <1>9. CASE AlreadyEnded \/ EndSummary
    BY <1>9 DEF AlreadyEnded, EndSummary, Doing, NextOperation, db
  <1>10. CASE CloseBid
    BY <1>0, <1>10 DEF CloseBid, Doing, BidRow
  <1>11. CASE EndAuction
    BY <1>0, <1>11 DEF EndAuction, Ended, Doing, NextOperation, AuctionRow
  <1>. QED  BY <1>1, <1>2, <1>3, <1>4, <1>6, <1>7, <1>8, <1>9, <1>10, <1>11 DEF ProcessBid, Govern, End

\* What a refusal can be about.
LEMMA OperationGuards ==
  ASSUME TInv, StartAuction \/ ProcessBid \/ Govern \/ End
  PROVE  /\ Op(blk, at) = "start" => ~ auctions[Script[blk][at].auction].exists
         /\ Op(blk, at) = "start" => auctions'[Script[blk][at].auction].exists
         /\ Op(blk, at) = "bid" /\ step = "begin" => bids[Script[blk][at].bid].num = -1 /\ Present # {}
         /\ Op(blk, at) # "start" => Present' \subseteq Present
  <1>. USE DEF Doing, Op, RowsTypeOK
  <1>0. /\ RowsTypeOK /\ PlaceTypeOK /\ blk \in Block /\ at \in Nat \ {0}
    BY TypesOfTInv
  <1>1. CASE StartAuction
    <2>1. Script[blk][at].auction \in Auction
      BY <1>0, <1>1, OperationFact DEF StartAuction
    <2>. QED  BY <1>0, <1>1, <2>1 DEF StartAuction, NoAuction
  <1>2. CASE CreateBid
    BY <1>0, <1>2 DEF CreateBid, Present
  <1>3. CASE AddToTotals
    BY <1>0, <1>3 DEF AddToTotals, WithBid, AuctionRow, Present
  <1>4. CASE RefreshAuction
    BY <1>0, <1>4 DEF RefreshAuction, AuctionRow, Present
  <1>5. CASE \/ \E b \in Bid : Autobid(b) \/ FindBid(b)
             \/ RewardAutobid \/ AutobidsDone \/ \E v \in Validator : RewardValidator(v)
             \/ SaveValidatorReward \/ SaveEpochSummary \/ AlreadyEnded \/ EndSummary \/ CloseBid
    BY <1>5 DEF Autobid, FindBid, RewardAutobid, AutobidsDone, RewardValidator, SaveValidatorReward,
                SaveEpochSummary, AlreadyEnded, EndSummary, CloseBid, db, Present
  <1>6. CASE EndAuction
    BY <1>0, <1>6 DEF EndAuction, Ended, AuctionRow, Present
  <1>. QED  BY <1>1, <1>2, <1>3, <1>4, <1>5, <1>6 DEF ProcessBid, Govern, End

\* A governing operation is one in the block.
LEMMA OneGoverns ==
  ASSUME NEW n \in Block, NEW i, NEW j, Governs(n, i), Governs(n, j)
  PROVE  i = j
  BY ScriptAssumption DEF Governs, Op

LEMMA HeadKeeps ==
  ASSUME TInv, [Next]_vars
  PROVE  HeadInv'
  <1>0. head \in Int /\ tip \in Int /\ blk \in Int /\ num \in Int /\ endNum \in Int /\ Block \subseteq Int
    BY BlockReviewerAssumption DEF TInv, RInv, ReviewerTypeOK, AbsTypeOK, Block
  <1>1. CASE StartUp
    BY <1>0, <1>1 DEF StartUp, BeforeStart, TInv, HeadInv
  <1>2. CASE Turn
    <2>1. CASE NothingToProcess
      BY <1>0, <1>2, <2>1 DEF Turn, NothingToProcess, TInv, RInv, RoundInv, HeadInv
    <2>2. CASE BeginReview \/ SkipReview \/ NextBlock \/ EmptyEndBlock \/ QuitWithoutGenesis
      BY <1>0, <1>2, <2>2 DEF Turn, BeginReview, SkipReview, NextBlock, EmptyEndBlock, QuitWithoutGenesis,
                            reviewer, TInv, HeadInv
    <2>. QED  BY <1>2, <2>1, <2>2 DEF Turn, Loop
  <1>3. CASE BlockDone
    <2>1. /\ head' = blk /\ tip' = tip /\ pc = "work"
          /\ num' = blk /\ endNum' = endNum
      BY <1>3 DEF BlockDone, Reviewed
    <2>2. blk <= endNum /\ (endNum <= tip \/ endNum = 0)
      BY <2>1 DEF TInv, RInv, RoundInv, NextInv
    <2>. QED  BY <1>0, <2>1, <2>2 DEF HeadInv
  <1>4. CASE PosImport
    <2>1. UNCHANGED <<head, pc, num, endNum>> /\ \E n \in (tip + 1)..MaxBlock : tip' = n
      BY <1>4 DEF PosImport, ImportBatch, reviewer
    <2>2. tip' \in Int /\ tip < tip'
      BY <1>0, <2>1, BlockReviewerAssumption
    <2>. QED  BY <1>0, <2>1, <2>2 DEF TInv, HeadInv
  <1>5. CASE CleanUp \/ RetryRefused \/ CallFails \/ Crash \/ UNCHANGED vars
    <2>1. UNCHANGED <<head, tip, num, endNum>> /\ (pc' = "scan" => pc = "scan")
      BY <1>5 DEF CleanUp, RetryRefused, CallFails, Retry, Crash, vars, reviewer
    <2>. QED  BY <2>1 DEF TInv, HeadInv
  <1>6. CASE StartAuction \/ ProcessBid \/ Govern \/ End
    BY <1>6, OperationsQuiet DEF shared, reviewer, TInv, HeadInv
  <1>. QED  BY <1>1, <1>2, <1>3, <1>4, <1>5, <1>6 DEF Next, Program

\* The part of PlaceInv about the steps of a governing operation.
AtStep ==
  /\ step \in Governing => Governs(blk, at)
  /\ step \in {"autobid", "reward"} => todo \subseteq NewAutobids(blk)
  /\ step = "reward" => it \in todo
  /\ step = "transfer" => todo \subseteq Validator

LEMMA AtStepKept ==
  ASSUME TInv, StartAuction \/ ProcessBid \/ Govern \/ End
  PROVE  AtStep'
  <1>. USE DEF AtStep, Governing
  <1>0. blk' = blk /\ pc = "work" /\ Working /\ at \in DOMAIN Script[blk]
    BY OperationsQuiet, OperationEffect DEF shared, reviewer, Working
  <1>1. AtStep
    BY <1>0 DEF TInv, PlaceInv
  <1>2. CASE StartAuction \/ ProcessBid \/ AlreadyEnded \/ EndSummary \/ CloseBid \/ EndAuction
             \/ \E b \in Bid : FindBid(b)
    BY <1>2 DEF StartAuction, ProcessBid, CreateBid, AddToTotals, AlreadyEnded, EndSummary, CloseBid,
                EndAuction, FindBid, GoOn, NextOperation
  <1>3. CASE RefreshAuction
    BY <1>0, <1>3 DEF RefreshAuction, Doing, Governs, Op, NewAutobids
  <1>4. CASE \E b \in Bid : Autobid(b)
    BY <1>0, <1>1, <1>4 DEF Autobid, Doing, Governs, Op, NewAutobids
  <1>5. CASE RewardAutobid \/ \E v \in Validator : RewardValidator(v)
    BY <1>0, <1>1, <1>5 DEF RewardAutobid, RewardValidator, Doing, Governs, Op, NewAutobids
  <1>6. CASE AutobidsDone
    BY <1>0, <1>6 DEF AutobidsDone, Doing, Governs, Op
  <1>7. CASE SaveValidatorReward \/ SaveEpochSummary
    BY <1>0, <1>7 DEF SaveValidatorReward, SaveEpochSummary, Doing, GoOn, NextOperation, Governs, Op
  <1>. QED  BY <1>2, <1>3, <1>4, <1>5, <1>6, <1>7 DEF Govern, End

LEMMA PlaceStep ==
  ASSUME TInv, [Next]_vars
  PROVE  PlaceInv'
  <1>0. /\ blk \in Block /\ at \in Nat \ {0} /\ Script[blk] \in Seq(Operation)
        /\ PlaceInv
    BY TypesOfTInv DEF TInv
  <1>1. CASE StartAuction \/ ProcessBid \/ Govern \/ End
    <2>1. UNCHANGED <<pc, blk, visible>> /\ pc = "work"
      BY <1>1, OperationsQuiet, OperationEffect DEF shared, reviewer, Working
    <2>2. /\ at <= Len(Script[blk]) /\ at \in DOMAIN Script[blk]
          /\ at' = at \/ at' = at + 1
      BY <1>1, OperationEffect DEF Working
    <2>3. at' <= Len(Script[blk]) + 1
      BY <1>0, <2>2
    <2>4. ASSUME NEW j \in 1..(at' - 1), Op(blk, j) = "start"
          PROVE  auctions'[Script[blk][j].auction].exists
      <3>1. CASE j = at
        BY <1>1, <2>4, <3>1, OperationGuards
      <3>2. CASE j # at
        <4>1. j \in 1..(at - 1)
          BY <1>0, <2>2, <3>2
        <4>2. auctions[Script[blk][j].auction].exists
          BY <1>0, <2>1, <2>4, <4>1 DEF PlaceInv
        <4>3. Script[blk][j] \in Operation
          BY <1>0, <2>2, <4>1
        <4>4. Script[blk][j].auction \in Auction
          BY <2>4, <4>3 DEF Op, Operation
        <4>. QED  BY <1>1, <4>2, <4>4, OperationEffect
      <3>. QED  BY <3>1, <3>2
    <2>5. AtStep'
      BY <1>1, AtStepKept
    <2>. QED  BY <1>0, <2>1, <2>3, <2>4, <2>5 DEF PlaceInv, AtStep, Op
  <1>2. CASE Turn
    <2>1. at' = 1 /\ step' = "begin" /\ UNCHANGED visible
      BY <1>2 DEF Turn, Fresh
    <2>2. ASSUME pc' = "work" PROVE blk' \in TxBlock \cap visible
      BY <1>2, <2>2 DEF Turn, Loop, BeginReview, SkipReview, QuitWithoutGenesis, NextBlock,
                        NothingToProcess, EmptyEndBlock, ToReview, reviewer
    <2>3. blk' \in Block
      BY StepKeeps DEF TInv, RInv, ReviewerTypeOK
    <2>4. Len(Script[blk']) \in Nat
      BY <2>3, ScriptAssumption
    <2>. QED  BY <2>1, <2>2, <2>4 DEF PlaceInv, Governing
  <1>3. CASE StartUp \/ CleanUp
    BY <1>0, <1>3 DEF StartUp, BeforeStart, CleanUp, PlaceInv
  <1>4. CASE BlockDone \/ RetryRefused \/ CallFails \/ Crash
    BY <1>4 DEF BlockDone, Reviewed, RetryRefused, CallFails, Retry, Crash, Fresh, PlaceInv
  <1>5. CASE PosImport
    <2>1. UNCHANGED <<pc, blk, at, step, todo, it, auctions>> /\ visible \subseteq visible'
      BY <1>5 DEF PosImport, ImportBatch, reviewer, local, db
    <2>. QED  BY <1>0, <2>1 DEF PlaceInv, Governs, Op, NewAutobids
  <1>6. CASE UNCHANGED vars
    BY <1>0, <1>6 DEF vars, reviewer, local, db, PlaceInv, Governs, Op
  <1>. QED  BY <1>1, <1>2, <1>3, <1>4, <1>5, <1>6 DEF Next, Program

LEMMA InitTInv == Init => TInv
  <1>. SUFFICES ASSUME Init PROVE TInv
    OBVIOUS
  <1>1. RInv /\ TypeOK
    BY InitRInv, InitTypeOK
  <1>2. PlaceInv /\ HeadInv
    BY DEF Init, ReviewerInit, AbsInit, PlaceInv, HeadInv
  <1>. QED  BY <1>1, <1>2 DEF TInv

LEMMA TInvKept == TInv /\ [Next]_vars => TInv'
  BY TypesKept, PlaceStep, HeadKeeps DEF TInv

\* The payees that have been given their reward in the review that is under way.
Done(n) == \E i \in 1..(at - 1) : Governs(n, i)

Given(n) == { p \in Payees(n) :
                At(n) /\ \/ Done(n)
                         \/ step \in {"autobid", "reward"} /\ p \in Bid /\ p \notin todo
                         \/ step = "transfer" /\ p \notin todo
                         \/ step = "epoch" }

RewardsAre(n, S) == rewards[n] = [p \in Payee |-> IF p \in S THEN 1 ELSE 0]

\* The block that is reviewed next, and has been tried already.
First(n) ==
  /\ n \in TxBlock \cap visible /\ head < n
  /\ \A m \in TxBlock \cap visible : head < m => n <= m

\* Operation i of block n is still to come.
Before(n, i) == At(n) => at < i \/ (at = i /\ step = "begin")

StillToPay ==
  \/ step \in {"begin", "reward"}
  \/ step = "transfer" /\ todo # {}
  \/ step = "autobid" /\ (todo # {} \/ Validator # {})

\* It will be refused: what it creates is there already, or no auction is present and none is
\* started before it, or the epoch has its one reward.
Created(n, i) ==
  /\ Before(n, i)
  /\ \/ Op(n, i) = "start" /\ auctions[Script[n][i].auction].exists
     \/ Op(n, i) = "bid" /\ bids[Script[n][i].bid].num # -1

NoAuctionFor(n, i) ==
  /\ Before(n, i)
  /\ Op(n, i) = "bid" /\ Present = {} /\ First(n)
  /\ \A j \in 1..(i - 1) : Op(n, j) # "start"

Owed(n, i) ==
  /\ Op(n, i) = "governing" /\ UniqueEpochReward /\ Payees(n) # {}
  /\ \E q \in Payee : rewards[n][q] > 0
  /\ At(n) => at < i \/ (at = i /\ StillToPay)

Sticks(n, i) == Created(n, i) \/ NoAuctionFor(n, i) \/ Owed(n, i)

Stuck(n) == \E i \in DOMAIN Script[n] : Sticks(n, i)

Cleaned == pc \in {"idle", "scan", "work"} \/ (pc = "clean" /\ stage = 5)

GovernsBlock(n) == \E i \in DOMAIN Script[n] : Governs(n, i)

AboveHead(n) == head < n /\ Cleaned => RewardsAre(n, Given(n)) \/ Stuck(n)

BelowHead(n) == Passed(n) /\ GovernsBlock(n) => n \in epochs /\ RewardsAre(n, Payees(n))

HasEpoch(n) == At(n) /\ Done(n) => n \in epochs

RewInv == NoError => \A n \in Block : AboveHead(n) /\ BelowHead(n) /\ HasEpoch(n)
-----------------------------------------------------------------------------
LEMMA ScriptFact ==
  ASSUME NEW n \in Block
  PROVE  /\ Script[n] \in Seq(Operation) /\ DOMAIN Script[n] = 1..Len(Script[n]) /\ Len(Script[n]) \in Nat
         /\ GovernsBlock(n) => n \in TxBlock /\ n >= 1
         /\ \A i \in DOMAIN Script[n] :
              /\ Op(n, i) = "start" => Script[n][i].auction \in Auction
              /\ Op(n, i) = "bid" => Script[n][i].bid \in Bid
  <1>1. Script[n] \in Seq(Operation) /\ DOMAIN Script[n] = 1..Len(Script[n]) /\ Len(Script[n]) \in Nat
    BY ScriptAssumption
  <1>2. ASSUME GovernsBlock(n) PROVE n \in TxBlock /\ n >= 1
    <2>1. Script[n] # <<>>
      BY <1>1, <1>2 DEF GovernsBlock
    <2>2. n \in TxBlock
      BY <2>1, ScriptAssumption
    <2>. QED  BY <2>2, BlockReviewerAssumption
  <1>3. ASSUME NEW i \in DOMAIN Script[n]
        PROVE  /\ Op(n, i) = "start" => Script[n][i].auction \in Auction
               /\ Op(n, i) = "bid" => Script[n][i].bid \in Bid
    <2>1. Script[n][i] \in Operation
      BY <1>1
    <2>. QED  BY <2>1 DEF Op, Operation
  <1>. QED  BY <1>1, <1>2, <1>3

\* The block under review is the first one.
LEMMA FirstIsBlk ==
  ASSUME TInv, pc = "work", NEW n \in Block, First(n)
  PROVE  n = blk
  <1>1. /\ num = head /\ num < blk /\ blk <= endNum
        /\ \A m \in TxBlock \cap visible : num < m /\ m <= endNum => blk <= m
        /\ blk \in TxBlock \cap visible
    BY DEF TInv, RInv, RoundInv, NextInv, PlaceInv
  <1>2. n \in Int /\ blk \in Int /\ endNum \in Int /\ head \in Int
    BY TypesOfTInv DEF ReviewerTypeOK, Block
  <1>. QED  BY <1>1, <1>2 DEF First

\* A step of an operation leaves what will be refused.
LEMMA SticksKept ==
  ASSUME TInv, StartAuction \/ ProcessBid \/ Govern \/ End,
         NEW n \in Block, NEW i \in DOMAIN Script[n], Created(n, i) \/ NoAuctionFor(n, i)
  PROVE  (Created(n, i) \/ NoAuctionFor(n, i))'
  <1>0. /\ UNCHANGED <<pc, blk, head, visible>> /\ pc = "work"
        /\ at \in Int /\ i \in Int /\ i >= 1
    BY OperationsQuiet, OperationEffect, TypesOfTInv, ScriptFact DEF shared, reviewer, Working
  <1>1. at' = at \/ (at' = at + 1 /\ step' = "begin")
    BY OperationEffect
  <1>2. Before(n, i) /\ Op(n, i) \in {"start", "bid"}
    BY DEF Created, NoAuctionFor
  <1>3. ASSUME At(n), at = i PROVE FALSE
    <2>1. step = "begin" /\ n = blk
      BY <1>0, <1>2, <1>3 DEF Before, At
    <2>. QED  BY <1>3, <2>1, OperationGuards DEF Created, NoAuctionFor
  <1>4. Before(n, i)'
    BY <1>0, <1>1, <1>2, <1>3 DEF Before, At
  <1>5. CASE Created(n, i)
    <2>1. /\ Op(n, i) = "start" => Script[n][i].auction \in Auction
          /\ Op(n, i) = "bid" => Script[n][i].bid \in Bid
      BY ScriptFact
    <2>. QED  BY <1>4, <1>5, <2>1, OperationEffect DEF Created, Op
  <1>6. CASE NoAuctionFor(n, i)
    <2>1. n = blk /\ At(n) /\ at < i
      BY <1>0, <1>2, <1>3, <1>6, FirstIsBlk DEF NoAuctionFor, At, Before
    <2>2. at \in 1..(i - 1)
      BY <1>0, <2>1, TypesOfTInv
    <2>3. Op(blk, at) # "start"
      BY <1>6, <2>1, <2>2 DEF NoAuctionFor
    <2>4. Present' = {}
      BY <1>6, <2>3, OperationGuards DEF NoAuctionFor
    <2>. QED  BY <1>0, <1>4, <1>6, <2>4 DEF NoAuctionFor, First, Op
  <1>. QED  BY <1>5, <1>6

\* Only a governing operation gives rewards, and only those of its block.
LEMMA OtherRewards ==
  ASSUME TInv, StartAuction \/ ProcessBid \/ Govern \/ End
  PROVE  /\ \A n \in Block : n # blk => rewards'[n] = rewards[n]
         /\ Op(blk, at) # "governing" => rewards' = rewards /\ step \notin Governing /\ step' \notin Governing
  <1>. USE DEF Doing, Op, Governing
  <1>0. rewards \in [Block -> [Payee -> 0..2]] /\ Working
    BY TypesOfTInv, OperationEffect DEF RowsTypeOK
  <1>1. CASE StartAuction \/ ProcessBid \/ AlreadyEnded \/ EndSummary \/ CloseBid \/ EndAuction
             \/ \E b \in Bid : FindBid(b)
    BY <1>1 DEF StartAuction, ProcessBid, CreateBid, AddToTotals, AlreadyEnded, EndSummary, CloseBid,
                EndAuction, FindBid, GoOn, NextOperation, db
  <1>2. CASE RefreshAuction \/ AutobidsDone \/ SaveValidatorReward \/ SaveEpochSummary
             \/ \E b \in Bid : Autobid(b)
    BY <1>2 DEF RefreshAuction, AutobidsDone, SaveValidatorReward, SaveEpochSummary, Autobid, db
  <1>3. CASE RewardAutobid \/ \E v \in Validator : RewardValidator(v)
    BY <1>0, <1>3 DEF RewardAutobid, RewardValidator, Pay
  <1>. QED  BY <1>1, <1>2, <1>3 DEF Govern, End

\* A payee who has had no reward of the block has one after the payment.
LEMMA PayAdds ==
  ASSUME TInv, NEW p \in Payee, Pay(p), NEW S, p \notin S, RewardsAre(blk, S)
  PROVE  rewards'[blk] = [q \in Payee |-> IF q \in S \cup {p} THEN 1 ELSE 0]
  <1>1. rewards \in [Block -> [Payee -> 0..2]] /\ blk \in Block
    BY TypesOfTInv DEF RowsTypeOK
  <1>2. rewards[blk][p] = 0
    BY DEF RewardsAre
  <1>3. rewards' = [rewards EXCEPT ![blk] = [rewards[blk] EXCEPT ![p] = 1]]
    BY <1>2 DEF Pay
  <1>4. rewards'[blk] = [rewards[blk] EXCEPT ![p] = 1]
    BY <1>1, <1>3
  <1>5. rewards[blk] = [q \in Payee |-> IF q \in S THEN 1 ELSE 0]
    BY DEF RewardsAre
  <1>6. [rewards[blk] EXCEPT ![p] = 1] = [q \in Payee |-> IF q \in S \cup {p} THEN 1 ELSE 0]
    BY <1>5
  <1>. QED  BY <1>4, <1>6

\* What has been done stays done, and an operation is done when the next one begins.
LEMMA DoneFact ==
  ASSUME TInv, StartAuction \/ ProcessBid \/ Govern \/ End
  PROVE  /\ Done(blk) => Done(blk)'
         /\ Done(blk)' => Done(blk) \/ (at' = at + 1 /\ Governs(blk, at))
         /\ Governs(blk, at) => ~ Done(blk)
         /\ Governs(blk, at) /\ at' = at + 1 => Done(blk)'
  <1>1. blk' = blk /\ blk \in Block /\ at \in Nat \ {0} /\ (at' = at \/ at' = at + 1)
    BY OperationsQuiet, OperationEffect, TypesOfTInv DEF shared, reviewer
  <1>2. ASSUME Governs(blk, at), Done(blk) PROVE FALSE
    BY <1>1, <1>2, OneGoverns DEF Done
  <1>. QED  BY <1>1, <1>2 DEF Done, Governs, Op

\* Each step of the governing operation gives what Given says.
LEMMA GovernGives ==
  ASSUME TInv, Govern, RewardsAre(blk, Given(blk))
  PROVE  RewardsAre(blk, Given(blk))'
  <1>0. /\ UNCHANGED <<pc, blk>> /\ pc = "work" /\ At(blk) /\ At(blk)' /\ blk \in Block
        /\ Governs(blk, at) /\ ~ Done(blk)
        /\ Payees(blk)' = Payees(blk)
    <2>1. UNCHANGED <<pc, blk>> /\ Working /\ at \in DOMAIN Script[blk]
      BY OperationsQuiet, OperationEffect DEF shared, reviewer
    <2>2. Script[blk][at].op = "governing"
      BY DEF Govern, RefreshAuction, Autobid, RewardAutobid, AutobidsDone, RewardValidator,
             SaveValidatorReward, SaveEpochSummary, Doing
    <2>. QED  BY <2>1, <2>2, TypesOfTInv, DoneFact DEF Working, At, Governs, Op, Payees, NewAutobids, AuctionTxs
  <1>1. AtStep
    BY <1>0 DEF TInv, PlaceInv, AtStep
  <1>2. NewAutobids(blk) \subseteq Bid /\ Bid \cap Validator = {} /\ Payees(blk) \subseteq Payee
    BY BidSetsFact, ScriptAssumption DEF Payees, Payee
  <1>3. ASSUME rewards' = rewards, Given(blk)' = Given(blk)
        PROVE  RewardsAre(blk, Given(blk))'
    BY <1>0, <1>3 DEF RewardsAre
  <1>4. ASSUME NEW p \in Payee, Pay(p), p \notin Given(blk), Given(blk)' = Given(blk) \cup {p}
        PROVE  RewardsAre(blk, Given(blk))'
    BY <1>0, <1>4, PayAdds DEF RewardsAre
  <1>. DEFINE G(t, s) == { p \in Payees(blk) :
                             \/ s \in {"autobid", "reward"} /\ p \in Bid /\ p \notin t
                             \/ s = "transfer" /\ p \notin t
                             \/ s = "epoch" }
  <1>5. Given(blk) = G(todo, step)
    BY <1>0 DEF Given
  <1>6. ASSUME at' = at PROVE Given(blk)' = G(todo', step')
    <2>1. ~ Done(blk)'
      BY <1>0, <1>6, DoneFact, TypesOfTInv
    <2>. QED  BY <1>0, <2>1 DEF Given
  <1>7. CASE RefreshAuction
    <2>1. step = "begin" /\ step' = "autobid" /\ todo' = NewAutobids(blk) /\ at' = at /\ rewards' = rewards
      BY <1>7 DEF RefreshAuction, Doing
    <2>2. G(todo, step) = {} /\ G(todo', step') = {}
      BY <1>2, <2>1 DEF Payees
    <2>. QED  BY <1>3, <1>5, <1>6, <2>1, <2>2
  <1>8. CASE \E b \in Bid : Autobid(b)
    <2>1. step = "autobid" /\ step' = "reward" /\ todo' = todo /\ at' = at /\ rewards' = rewards
      BY <1>8 DEF Autobid, Doing
    <2>2. G(todo, step) = G(todo', step')
      BY <2>1
    <2>. QED  BY <1>3, <1>5, <1>6, <2>1, <2>2
  <1>9. CASE RewardAutobid
    <2>1. /\ step = "reward" /\ step' = "autobid" /\ todo' = todo \ {it} /\ at' = at
          /\ it \in todo /\ todo \subseteq NewAutobids(blk) /\ Pay(it)
      BY <1>1, <1>9 DEF RewardAutobid, Doing, AtStep
    <2>2. it \in Payee /\ it \notin G(todo, step) /\ G(todo', step') = G(todo, step) \cup {it}
      BY <1>2, <2>1 DEF Payees, Payee
    <2>. QED  BY <1>4, <1>5, <1>6, <2>1, <2>2
  <1>10. CASE AutobidsDone
    <2>1. /\ step = "autobid" /\ step' = "transfer" /\ todo = {} /\ todo' = Validator /\ at' = at
          /\ rewards' = rewards
      BY <1>10 DEF AutobidsDone, Doing, db
    <2>2. G(todo, step) = G(todo', step')
      BY <1>2, <2>1 DEF Payees
    <2>. QED  BY <1>3, <1>5, <1>6, <2>1, <2>2
  <1>11. CASE \E v \in Validator : RewardValidator(v)
    <2>1. PICK v \in Validator : RewardValidator(v)
      BY <1>11
    <2>2. /\ step = "transfer" /\ step' = "transfer" /\ v \in todo /\ todo' = todo \ {v} /\ at' = at
          /\ Pay(v)
      BY <2>1 DEF RewardValidator, Doing
    <2>3. v \in Payee /\ v \notin G(todo, step) /\ G(todo', step') = G(todo, step) \cup {v}
      BY <1>2, <2>2 DEF Payees, Payee
    <2>. QED  BY <1>4, <1>5, <1>6, <2>2, <2>3
  <1>12. CASE SaveValidatorReward
    <2>1. step = "transfer" /\ step' = "epoch" /\ todo = {} /\ at' = at /\ rewards' = rewards
      BY <1>12 DEF SaveValidatorReward, Doing, GoOn
    <2>2. G(todo, step) = G(todo', step')
      BY <2>1
    <2>. QED  BY <1>3, <1>5, <1>6, <2>1, <2>2
  <1>13. CASE SaveEpochSummary
    <2>1. step = "epoch" /\ at' = at + 1 /\ rewards' = rewards
      BY <1>13 DEF SaveEpochSummary, Doing, NextOperation
    <2>2. Done(blk)'
      BY <1>0, <2>1, DoneFact
    <2>3. Given(blk)' = Payees(blk) /\ Given(blk) = Payees(blk)
      BY <1>0, <2>1, <2>2 DEF Given
    <2>. QED  BY <1>3, <2>1, <2>3
  <1>. QED  BY <1>7, <1>8, <1>9, <1>10, <1>11, <1>12, <1>13 DEF Govern

LEMMA OperationGives ==
  ASSUME TInv, StartAuction \/ ProcessBid \/ Govern \/ End, NEW n \in Block, RewardsAre(n, Given(n))
  PROVE  RewardsAre(n, Given(n))'
  <1>0. /\ UNCHANGED <<pc, blk>> /\ pc = "work" /\ blk \in Block /\ at \in DOMAIN Script[blk]
        /\ Payees(n)' = Payees(n)
    BY OperationsQuiet, OperationEffect, TypesOfTInv
       DEF shared, reviewer, Working, Payees, NewAutobids, AuctionTxs
  <1>1. CASE n # blk
    <2>1. Given(n) = {} /\ Given(n)' = {}
      BY <1>0, <1>1 DEF Given, At
    <2>. QED  BY <1>1, <2>1, OtherRewards DEF RewardsAre
  <1>2. CASE n = blk /\ Govern
    BY <1>0, <1>2, GovernGives DEF RewardsAre, Given, At, Done, Payees, Governs, Op
  <1>3. CASE n = blk /\ ~ Govern
    <2>1. Op(blk, at) # "governing"
      BY <1>3 DEF StartAuction, ProcessBid, CreateBid, AddToTotals, End, AlreadyEnded, EndSummary, FindBid,
                  CloseBid, EndAuction, Doing, Op
    <2>2. rewards' = rewards /\ step \notin Governing /\ step' \notin Governing
      BY <2>1, OtherRewards
    <2>3. Done(blk)' <=> Done(blk)
      BY <2>1, DoneFact DEF Governs
    <2>4. Given(n)' = Given(n)
      BY <1>0, <1>3, <2>2, <2>3 DEF Given, Governing, At
    <2>. QED  BY <2>2, <2>4 DEF RewardsAre
  <1>. QED  BY <1>1, <1>2, <1>3

\* With the index in place nothing more is paid once there is a reward.
LEMMA OwedKept ==
  ASSUME TInv, StartAuction \/ ProcessBid \/ Govern \/ End,
         NEW n \in Block, NEW i \in DOMAIN Script[n], Owed(n, i)
  PROVE  Owed(n, i)'
  <1>0. /\ UNCHANGED <<pc, blk>> /\ pc = "work" /\ blk \in Block /\ at \in DOMAIN Script[blk]
        /\ Payees(n)' = Payees(n) /\ at \in Nat \ {0}
        /\ at' = at \/ (at' = at + 1 /\ step' = "begin")
        /\ Governs(n, i) /\ i \in Int
    BY OperationsQuiet, OperationEffect, TypesOfTInv, ScriptFact
       DEF shared, reviewer, Working, Payees, NewAutobids, AuctionTxs, Owed, Governs
  <1>1. CASE n # blk
    <2>1. rewards'[n] = rewards[n] /\ ~ At(n) /\ ~ At(n)'
      BY <1>0, <1>1, OtherRewards DEF At
    <2>. QED  BY <2>1, <1>0 DEF Owed, Op
  <1>2. ASSUME n = blk, NEW p, Pay(p) PROVE FALSE
    BY <1>2 DEF Pay, Owed
  <1>3. CASE n = blk
    <2>1. rewards' = rewards
      <3>1. CASE Govern
        BY <1>2, <1>3, <3>1 DEF Govern, RefreshAuction, Autobid, RewardAutobid, AutobidsDone, RewardValidator,
                                SaveValidatorReward, SaveEpochSummary, db
      <3>2. CASE ~ Govern
        <4>1. Op(blk, at) # "governing"
          BY <3>2 DEF StartAuction, ProcessBid, CreateBid, AddToTotals, End, AlreadyEnded, EndSummary,
                      FindBid, CloseBid, EndAuction, Doing, Op
        <4>. QED  BY <4>1, OtherRewards
      <3>. QED  BY <3>1, <3>2
    <2>2. at < i \/ (at = i /\ StillToPay)
      BY <1>0, <1>3 DEF Owed, At
    <2>3. CASE at < i
      <3>1. at' < i \/ (at' = i /\ step' = "begin")
        BY <1>0, <2>3
      <3>. QED  BY <1>0, <2>1, <3>1 DEF Owed, Op, StillToPay
    <2>4. CASE at = i /\ StillToPay
      <3>1. Op(blk, at) = "governing"
        BY <1>0, <1>3, <2>4 DEF Governs
      <3>2. Govern
        BY <3>1 DEF StartAuction, ProcessBid, CreateBid, AddToTotals, End, AlreadyEnded, EndSummary,
                    FindBid, CloseBid, EndAuction, Doing, Op
      <3>3. at' = at /\ StillToPay'
        <4>1. CASE RefreshAuction
          <5>1. Payees(blk) # {}
            BY <1>3 DEF Owed
          <5>. QED  BY <4>1, <5>1 DEF RefreshAuction, StillToPay, Payees
        <4>2. CASE \E b \in Bid : Autobid(b)
          BY <4>2 DEF Autobid, StillToPay
        <4>3. CASE AutobidsDone
          BY <2>4, <4>3 DEF AutobidsDone, Doing, StillToPay
        <4>4. CASE RewardAutobid \/ \E v \in Validator : RewardValidator(v)
          BY <1>2, <1>3, <4>4 DEF RewardAutobid, RewardValidator
        <4>5. CASE SaveValidatorReward \/ SaveEpochSummary
          BY <2>4, <4>5 DEF SaveValidatorReward, SaveEpochSummary, Doing, StillToPay
        <4>. QED  BY <3>2, <4>1, <4>2, <4>3, <4>4, <4>5 DEF Govern
      <3>. QED  BY <1>0, <2>1, <2>4, <3>3 DEF Owed, Op
    <2>. QED  BY <2>2, <2>3, <2>4
  <1>. QED  BY <1>1, <1>3

LEMMA OperationsRewards ==
  ASSUME TInv, StartAuction \/ ProcessBid \/ Govern \/ End, NEW n \in Block,
         AboveHead(n), BelowHead(n), HasEpoch(n)
  PROVE  (AboveHead(n) /\ BelowHead(n) /\ HasEpoch(n))'
  <1>0. /\ UNCHANGED <<pc, blk, head, visible, tip, stage>> /\ pc = "work" /\ blk \in Block
        /\ at \in DOMAIN Script[blk] /\ head < blk /\ Payees(n)' = Payees(n)
        /\ epochs \subseteq epochs' /\ head \in Int /\ n \in Int /\ blk \in Int
    <2>1. UNCHANGED stage
      BY DEF StartAuction, ProcessBid, CreateBid, AddToTotals, Govern, RefreshAuction, Autobid, RewardAutobid,
             AutobidsDone, RewardValidator, SaveValidatorReward, SaveEpochSummary, End, AlreadyEnded,
             EndSummary, FindBid, CloseBid, EndAuction, Frame
    <2>2. pc = "work"
      BY OperationEffect DEF Working
    <2>3. head < blk
      BY <2>2 DEF TInv, RInv, RoundInv, NextInv
    <2>. QED  BY <2>1, <2>2, <2>3, OperationsQuiet, OperationEffect, TypesOfTInv
              DEF shared, reviewer, Payees, NewAutobids, AuctionTxs, ReviewerTypeOK
  <1>1. AboveHead(n)'
    <2>. SUFFICES ASSUME head < n PROVE (RewardsAre(n, Given(n)) \/ Stuck(n))'
      BY <1>0 DEF AboveHead
    <2>1. RewardsAre(n, Given(n)) \/ Stuck(n)
      BY <1>0 DEF AboveHead, Cleaned
    <2>2. CASE RewardsAre(n, Given(n))
      BY <2>2, OperationGives
    <2>3. CASE Stuck(n)
      <3>1. PICK i \in DOMAIN Script[n] : Sticks(n, i)
        BY <2>3 DEF Stuck
      <3>2. Sticks(n, i)'
        BY <3>1, SticksKept, OwedKept DEF Sticks
      <3>. QED  BY <3>2 DEF Stuck
    <2>. QED  BY <2>1, <2>2, <2>3
  <1>2. BelowHead(n)'
    <2>. SUFFICES ASSUME Passed(n), GovernsBlock(n)
                  PROVE  n \in epochs' /\ rewards'[n] = [p \in Payee |-> IF p \in Payees(n) THEN 1 ELSE 0]
      BY <1>0 DEF BelowHead, Passed, GovernsBlock, Governs, Op, RewardsAre
    <2>1. n # blk
      BY <1>0 DEF Passed
    <2>2. rewards'[n] = rewards[n]
      BY <2>1, OtherRewards
    <2>. QED  BY <1>0, <2>2 DEF BelowHead, RewardsAre
  <1>3. HasEpoch(n)'
    <2>. SUFFICES ASSUME n = blk, Done(blk)' PROVE blk \in epochs'
      BY <1>0 DEF HasEpoch, At, Done, Governs, Op
    <2>1. CASE Done(blk)
      BY <1>0, <2>1 DEF HasEpoch, At
    <2>2. CASE at' = at + 1 /\ Governs(blk, at)
      <3>1. at' # at /\ Script[blk][at].op = "governing"
        BY <2>2, TypesOfTInv DEF Governs, Op
      <3>2. SaveEpochSummary
        BY <3>1 DEF StartAuction, ProcessBid, CreateBid, AddToTotals, Govern, RefreshAuction, Autobid,
                    RewardAutobid, AutobidsDone, RewardValidator, SaveValidatorReward, GoOn, End,
                    AlreadyEnded, EndSummary, FindBid, CloseBid, EndAuction, Doing
      <3>. QED  BY <3>2 DEF SaveEpochSummary
    <2>. QED  BY <2>1, <2>2, DoneFact
  <1>. QED  BY <1>1, <1>2, <1>3
-----------------------------------------------------------------------------
\* Before the first operation of a block nothing is given and everything is to come.
LEMMA BeginFact ==
  ASSUME NEW n, at' = 1, step' = "begin"
  PROVE  /\ Given(n)' = {} /\ ~ Done(n)'
         /\ \A i \in Nat \ {0} : Before(n, i)'
         /\ StillToPay'
  BY DEF Given, Before, Done, StillToPay

\* What will be refused, between reviews and at the beginning of one.
LEMMA StuckAgain ==
  ASSUME NEW n \in Block, Stuck(n), at' = 1, step' = "begin",
         UNCHANGED <<auctions, bids, rewards>>, First(n) => First(n)'
  PROVE  Stuck(n)'
  <1>1. PICK i \in DOMAIN Script[n] : Sticks(n, i)
    BY DEF Stuck
  <1>2. i \in Nat \ {0}
    BY ScriptFact
  <1>3. Before(n, i)' /\ StillToPay' /\ (1 < i \/ i = 1)
    BY <1>2, BeginFact
  <1>4. Payees(n)' = Payees(n) /\ Present' = Present
    BY DEF Payees, NewAutobids, AuctionTxs, Present
  <1>5. CASE Created(n, i)
    BY <1>3, <1>5 DEF Created, Op, Stuck, Sticks
  <1>6. CASE NoAuctionFor(n, i)
    BY <1>3, <1>4, <1>6 DEF NoAuctionFor, Op, Stuck, Sticks
  <1>7. CASE Owed(n, i)
    BY <1>3, <1>4, <1>7 DEF Owed, Op, Stuck, Sticks
  <1>. QED  BY <1>1, <1>5, <1>6, <1>7 DEF Sticks

\* What was refused will be refused again.
LEMMA RefusedSticks ==
  ASSUME TInv, RetryRefused
  PROVE  Stuck(blk)'
  <1>0. /\ blk \in Block /\ at \in DOMAIN Script[blk] /\ at \in Nat \ {0} /\ pc = "work" /\ PlaceInv /\ AtStep
        /\ UNCHANGED <<blk, db, tip, visible, head>> /\ at' = 1 /\ step' = "begin" /\ pc' = "idle"
        /\ Refused
    <2>1. Working /\ Refused /\ UNCHANGED <<blk, db, tip, visible, head>> /\ at' = 1 /\ step' = "begin" /\ pc' = "idle"
      BY DEF RetryRefused, Refused, Retry, Fresh, Doing
    <2>. QED  BY <2>1, TypesOfTInv, OperationFact DEF Working, TInv, PlaceInv, AtStep
  <1>. PICK i \in DOMAIN Script[blk] : i = at
    BY <1>0
  <1>1. ~ At(blk)' /\ Before(blk, i)' /\ \A j : Before(blk, j)'
    BY <1>0 DEF At, Before
  <1>2. UNCHANGED <<auctions, bids, rewards>> /\ Payees(blk)' = Payees(blk) /\ Present' = Present
    BY <1>0 DEF db, Payees, NewAutobids, AuctionTxs, Present
  <1>3. CASE Doing("start", "begin") /\ auctions[Script[blk][at].auction].exists
    <2>1. Created(blk, i)'
      BY <1>0, <1>1, <1>2, <1>3 DEF Created, Doing, Op
    <2>. QED  BY <1>0, <2>1 DEF Stuck, Sticks
  <1>4. CASE Doing("bid", "begin") /\ bids[Script[blk][at].bid].num # -1
    <2>1. Created(blk, i)'
      BY <1>0, <1>1, <1>2, <1>4 DEF Created, Doing, Op
    <2>. QED  BY <1>0, <2>1 DEF Stuck, Sticks
  <1>5. CASE Doing("bid", "begin") /\ Present = {}
    <2>1. CASE \E j \in 1..(at - 1) : Op(blk, j) = "start"
      <3>1. PICK j \in 1..(at - 1) : Op(blk, j) = "start"
        BY <2>1
      <3>2. j \in DOMAIN Script[blk]
        BY <1>0, ScriptFact
      <3>3. Created(blk, j)'
        BY <1>0, <1>1, <1>2, <3>1 DEF Created, PlaceInv, Op
      <3>. QED  BY <1>0, <3>2, <3>3 DEF Stuck, Sticks
    <2>2. CASE ~ \E j \in 1..(at - 1) : Op(blk, j) = "start"
      <3>1. /\ num = head /\ num < blk /\ blk <= endNum
            /\ \A m \in TxBlock \cap visible : num < m /\ m <= endNum => blk <= m
        BY <1>0 DEF TInv, RInv, RoundInv, NextInv
      <3>2. TxBlock \subseteq Int /\ endNum \in Int /\ blk \in Int
        BY <1>0, TypesOfTInv, BlockReviewerAssumption DEF ReviewerTypeOK, Block
      <3>3. \A m \in TxBlock \cap visible : head < m => blk <= m
        BY <3>1, <3>2
      <3>4. First(blk)'
        BY <1>0, <3>1, <3>3 DEF First, PlaceInv
      <3>5. NoAuctionFor(blk, i)'
        BY <1>0, <1>1, <1>2, <1>5, <2>2, <3>4 DEF NoAuctionFor, Doing, Op
      <3>. QED  BY <1>0, <3>5 DEF Stuck, Sticks
    <2>. QED  BY <2>1, <2>2
  <1>6. CASE /\ Doing("governing", "reward") \/ (Doing("governing", "transfer") /\ todo # {})
             /\ UniqueEpochReward
             /\ \E q \in Payee : rewards[blk][q] > 0
    <2>1. Payees(blk) # {}
      BY <1>0, <1>6 DEF AtStep, Doing, Payees
    <2>2. Op(blk, at) = "governing"
      BY <1>6 DEF Doing, Op
    <2>3. Owed(blk, i)'
      BY <1>0, <1>1, <1>2, <1>6, <2>1, <2>2 DEF Owed, Op
    <2>. QED  BY <1>0, <2>3 DEF Stuck, Sticks
  <1>. QED  BY <1>0, <1>3, <1>4, <1>5, <1>6 DEF Refused

\* A round: the head comes to a block that is done, or to the end of a window without one.
LEMMA RoundRewards ==
  ASSUME TInv, Turn \/ BlockDone, NEW n \in Block, AboveHead(n), BelowHead(n), HasEpoch(n)
  PROVE  (AboveHead(n) /\ BelowHead(n) /\ HasEpoch(n))'
  <1>0. /\ at' = 1 /\ step' = "begin" /\ UNCHANGED <<tip, visible, auctions, bids, rewards, epochs>>
        /\ n \in Int /\ blk \in Int /\ head \in Int /\ endNum \in Int
        /\ Payees(n)' = Payees(n)
    BY TypesOfTInv DEF Turn, BlockDone, Fresh, db, ReviewerTypeOK, Payees, NewAutobids, AuctionTxs, Block
  <1>1. Given(n)' = {} /\ HasEpoch(n)'
    BY <1>0, BeginFact DEF HasEpoch
  <1>2. CASE Turn
    <2>0. pc # "work" /\ Given(n) = {}
      BY <1>2 DEF Turn, Loop, BeginReview, SkipReview, NextBlock, NothingToProcess, EmptyEndBlock,
                  QuitWithoutGenesis, Given, At
    <2>1. \/ UNCHANGED head
          \/ /\ pc = "scan" /\ num = head /\ head <= endNum /\ head' = endNum /\ ToReview = {}
      BY <1>2 DEF Turn, Loop, BeginReview, SkipReview, NextBlock, NothingToProcess, EmptyEndBlock,
                  QuitWithoutGenesis, TInv, RInv, RoundInv, HeadInv
    <2>2. head <= head' /\ head' \in Int
      BY <1>0, <2>1
    <2>3. ASSUME GovernsBlock(n), n \in visible, head < n, n <= head' PROVE FALSE
      BY <1>0, <2>1, <2>3, ScriptFact DEF ToReview
    <2>4. Cleaned' => Cleaned
      BY <1>2 DEF Turn, Loop, BeginReview, SkipReview, NextBlock, NothingToProcess, EmptyEndBlock,
                  QuitWithoutGenesis, reviewer, Fresh, Cleaned
    <2>5. AboveHead(n)'
      <3>. SUFFICES ASSUME head' < n, Cleaned' PROVE (RewardsAre(n, Given(n)) \/ Stuck(n))'
        BY DEF AboveHead
      <3>1. RewardsAre(n, Given(n)) \/ Stuck(n)
        BY <1>0, <2>2, <2>4 DEF AboveHead
      <3>2. CASE RewardsAre(n, Given(n))
        BY <1>0, <1>1, <2>0, <3>2 DEF RewardsAre
      <3>3. CASE Stuck(n)
        <4>1. First(n) => First(n)'
          BY <1>0, <2>2, BlockReviewerAssumption DEF First
        <4>. QED  BY <1>0, <3>3, <4>1, StuckAgain
      <3>. QED  BY <3>1, <3>2, <3>3
    <2>6. BelowHead(n)'
      <3>1. GovernsBlock(n)' = GovernsBlock(n)
        BY DEF GovernsBlock, Governs, Op
      <3>2. ASSUME Passed(n)', GovernsBlock(n) PROVE Passed(n)
        BY <1>0, <2>3, <3>2 DEF Passed
      <3>. QED  BY <1>0, <3>1, <3>2 DEF BelowHead, RewardsAre
    <2>. QED  BY <1>1, <2>5, <2>6
  <1>3. CASE BlockDone
    <2>0. /\ pc = "work" /\ pc' = "scan" /\ head' = blk /\ at > Len(Script[blk]) /\ head < blk
          /\ \A m \in TxBlock \cap visible : head < m /\ m <= endNum => blk <= m
          /\ blk <= endNum /\ blk \in Block /\ at \in Nat
      BY <1>3, TypesOfTInv DEF BlockDone, Reviewed, TInv, RInv, RoundInv, NextInv
    <2>1. AboveHead(n)'
      <3>. SUFFICES ASSUME blk < n PROVE (RewardsAre(n, Given(n)) \/ Stuck(n))'
        BY <2>0 DEF AboveHead
      <3>0. ~ At(n) /\ Given(n) = {}
        BY <1>0 DEF At, Given
      <3>1. RewardsAre(n, Given(n)) \/ Stuck(n)
        BY <1>0, <2>0 DEF AboveHead, Cleaned
      <3>2. CASE RewardsAre(n, Given(n))
        BY <1>0, <1>1, <3>0, <3>2 DEF RewardsAre
      <3>3. CASE Stuck(n)
        <4>1. ~ First(n)
          BY <1>0, <2>0, FirstIsBlk
        <4>. QED  BY <1>0, <3>3, <4>1, StuckAgain
      <3>. QED  BY <3>1, <3>2, <3>3
    <2>2. BelowHead(n)'
      <3>. SUFFICES ASSUME n <= blk, n \in visible, GovernsBlock(n)
                    PROVE  n \in epochs /\ RewardsAre(n, Payees(n))
        BY <1>0, <2>0 DEF BelowHead, Passed, GovernsBlock, Governs, Op, RewardsAre
      <3>1. CASE n <= head
        BY <3>1 DEF BelowHead, Passed
      <3>2. CASE head < n
        <4>1. n = blk
          BY <1>0, <2>0, <3>2, ScriptFact
        <4>2. \A i \in DOMAIN Script[n] : i < at /\ i \in 1..(at - 1)
          BY <2>0, <4>1, ScriptFact
        <4>3. Done(n) /\ At(n)
          BY <2>0, <4>1, <4>2 DEF GovernsBlock, Done, At, Governs
        <4>4. ~ Stuck(n)
          <5>. SUFFICES ASSUME NEW i \in DOMAIN Script[n], Sticks(n, i) PROVE FALSE
            BY DEF Stuck
          <5>1. i < at /\ i \in Int
            BY <4>2, ScriptFact
          <5>. QED  BY <2>0, <4>3, <5>1 DEF Sticks, Created, NoAuctionFor, Owed, Before
        <4>5. RewardsAre(n, Given(n))
          BY <2>0, <3>2, <4>4 DEF AboveHead, Cleaned
        <4>6. Given(n) = Payees(n)
          BY <4>3 DEF Given
        <4>. QED  BY <4>3, <4>5, <4>6 DEF HasEpoch
      <3>. QED  BY <1>0, <3>1, <3>2
    <2>. QED  BY <1>1, <2>1, <2>2
  <1>. QED  BY <1>2, <1>3

\* The cleanup takes the rewards above the head away and leaves the others.
LEMMA CleanUpRewards ==
  ASSUME TInv, CleanUp, NEW n \in Block, AboveHead(n), BelowHead(n), HasEpoch(n)
  PROVE  (AboveHead(n) /\ BelowHead(n) /\ HasEpoch(n))'
  <1>0. /\ pc = "clean" /\ pc' \in {"clean", "idle"} /\ (pc' = "idle" <=> stage = 5)
        /\ stage' = (IF stage = 5 THEN 1 ELSE stage + 1) /\ stage \in 1..5
        /\ UNCHANGED <<head, visible, at, step>>
        /\ n \in Int /\ head \in Int
        /\ at = 1 /\ step = "begin"
        /\ rewards \in [Block -> [Payee -> 0..2]]
    BY TypesOfTInv DEF CleanUp, PlaceTypeOK, RowsTypeOK, ReviewerTypeOK, Block, TInv, PlaceInv
  <1>1. Given(n) = {} /\ Given(n)' = {} /\ HasEpoch(n)'
    BY <1>0, BeginFact DEF Given, At, HasEpoch
  <1>2. BelowHead(n)'
    <2>1. n <= head => rewards'[n] = rewards[n] /\ (n \in epochs => n \in epochs')
      BY <1>0 DEF CleanUp, DeleteAuctions, DeleteBids, DeleteSummaries, DeleteRewards, DeleteEpochs, Stays
    <2>. QED  BY <1>0, <2>1 DEF BelowHead, Passed, GovernsBlock, Governs, Op, RewardsAre, Payees, NewAutobids, AuctionTxs
  <1>3. CASE stage = 5
    <2>1. UNCHANGED <<auctions, bids, rewards>>
      BY <1>3 DEF CleanUp, DeleteEpochs
    <2>2. AboveHead(n)'
      <3>. SUFFICES ASSUME head < n PROVE (RewardsAre(n, Given(n)) \/ Stuck(n))'
        BY <1>0 DEF AboveHead
      <3>1. RewardsAre(n, Given(n)) \/ Stuck(n)
        BY <1>0, <1>3 DEF AboveHead, Cleaned
      <3>2. CASE RewardsAre(n, Given(n))
        BY <1>1, <2>1, <3>2 DEF RewardsAre
      <3>3. CASE Stuck(n)
        <4>1. First(n) => First(n)'
          BY <1>0 DEF First
        <4>. QED  BY <1>0, <2>1, <3>3, <4>1, StuckAgain
      <3>. QED  BY <3>1, <3>2, <3>3
    <2>. QED  BY <1>1, <1>2, <2>2
  <1>4. CASE stage = 4
    <2>1. head < n => rewards'[n] = [p \in Payee |-> 0]
      BY <1>0, <1>4 DEF CleanUp, DeleteRewards, Stays
    <2>2. AboveHead(n)'
      BY <1>0, <1>1, <2>1 DEF AboveHead, RewardsAre
    <2>. QED  BY <1>1, <1>2, <2>2
  <1>5. CASE stage < 4
    BY <1>0, <1>1, <1>2, <1>5 DEF AboveHead, Cleaned
  <1>. QED  BY <1>0, <1>3, <1>4, <1>5

\* The rest gives no rewards.
LEMMA QuietRewards ==
  ASSUME TInv, StartUp \/ RetryRefused \/ Crash \/ PosImport \/ UNCHANGED vars,
         NEW n \in Block, AboveHead(n), BelowHead(n), HasEpoch(n)
  PROVE  (AboveHead(n) /\ BelowHead(n) /\ HasEpoch(n))'
  <1>0. /\ UNCHANGED <<auctions, bids, rewards, epochs>>
        /\ n \in Int /\ head \in Int /\ tip \in Int /\ visible \subseteq 0..tip
        /\ Payees(n)' = Payees(n) /\ Present' = Present /\ GovernsBlock(n)' = GovernsBlock(n)
    <2>1. UNCHANGED <<auctions, bids, rewards, epochs>>
      BY DEF StartUp, RetryRefused, Crash, PosImport, vars, db
    <2>. QED  BY <2>1, TypesOfTInv, BlockReviewerAssumption
              DEF ReviewerTypeOK, AbsTypeOK, Block, Payees, NewAutobids, AuctionTxs, Present, GovernsBlock, Governs, Op
  <1>1. ASSUME UNCHANGED <<head, visible>> PROVE BelowHead(n)'
    BY <1>0, <1>1 DEF BelowHead, Passed, RewardsAre
  <1>2. CASE StartUp
    <2>1. pc' = "clean" /\ stage' = 1 /\ (head' = head \/ (head = -1 /\ head' = 0)) /\ visible' = visible
      BY <1>2 DEF StartUp, BeforeStart
    <2>2. AboveHead(n)' /\ HasEpoch(n)'
      BY <2>1 DEF AboveHead, Cleaned, HasEpoch, At
    <2>3. ASSUME GovernsBlock(n), Passed(n)' PROVE Passed(n)
      BY <1>0, <2>1, <2>3, ScriptFact DEF Passed
    <2>. QED  BY <1>0, <2>2, <2>3 DEF BelowHead, RewardsAre
  <1>3. CASE RetryRefused
    <2>1. /\ UNCHANGED <<head, visible>> /\ at' = 1 /\ step' = "begin" /\ pc' = "idle" /\ pc = "work"
      BY <1>3 DEF RetryRefused, Refused, Retry, Fresh, Doing, Working
    <2>2. HasEpoch(n)' /\ Given(n)' = {}
      BY <2>1, BeginFact DEF HasEpoch
    <2>3. AboveHead(n)'
      <3>. SUFFICES ASSUME head < n PROVE (RewardsAre(n, Given(n)) \/ Stuck(n))'
        BY <2>1 DEF AboveHead
      <3>1. CASE n = blk
        <4>1. Stuck(blk)' /\ blk' = blk
          BY <1>3, RefusedSticks DEF RetryRefused, Retry
        <4>. QED  BY <3>1, <4>1 DEF Stuck, Sticks, Created, NoAuctionFor, Owed, Before, At, First, Op, Payees,
                                    NewAutobids, AuctionTxs
      <3>2. CASE n # blk /\ RewardsAre(n, Given(n))
        <4>1. Given(n) = {}
          BY <3>2 DEF Given, At
        <4>. QED  BY <1>0, <2>2, <3>2, <4>1 DEF RewardsAre
      <3>3. CASE Stuck(n)
        <4>1. First(n) => First(n)'
          BY <2>1 DEF First
        <4>. QED  BY <1>0, <2>1, <3>3, <4>1, StuckAgain
      <3>4. RewardsAre(n, Given(n)) \/ Stuck(n)
        BY <2>1 DEF AboveHead, Cleaned
      <3>. QED  BY <3>1, <3>2, <3>3, <3>4
    <2>. QED  BY <1>1, <2>1, <2>2, <2>3
  <1>4. CASE Crash
    <2>1. pc' = "down" /\ UNCHANGED <<head, visible>>
      BY <1>4 DEF Crash
    <2>. QED  BY <1>1, <2>1 DEF AboveHead, Cleaned, HasEpoch, At
  <1>5. CASE PosImport
    <2>1. /\ UNCHANGED <<head, pc, blk, at, step, todo, stage>>
          /\ \E m \in (tip + 1)..MaxBlock : \E batch \in SUBSET ((tip + 1)..m) : visible' = visible \cup batch
      BY <1>5 DEF PosImport, ImportBatch, reviewer, local
    <2>2. \A m \in visible' : m \in visible \/ (m \in Int /\ m > tip)
      <3>1. PICK k \in (tip + 1)..MaxBlock :
              \E batch \in SUBSET ((tip + 1)..k) : visible' = visible \cup batch
        BY <2>1
      <3>2. PICK batch \in SUBSET ((tip + 1)..k) : visible' = visible \cup batch
        BY <3>1
      <3>3. \A m \in batch : m \in Int /\ m > tip
        BY <1>0
      <3>. QED  BY <3>2, <3>3
    <2>3. visible \subseteq visible'
      BY <2>1
    <2>4. ASSUME First(n) PROVE First(n)'
      <3>1. n \in visible /\ n <= tip
        BY <1>0, <2>4 DEF First
      <3>. QED  BY <1>0, <2>1, <2>2, <2>3, <2>4, <3>1 DEF First
    <2>5. Given(n)' = Given(n) /\ HasEpoch(n)'
      BY <1>0, <2>1 DEF Given, HasEpoch, At, Done, Governs, Op
    <2>6. AboveHead(n)'
      <3>. SUFFICES ASSUME head < n, Cleaned PROVE (RewardsAre(n, Given(n)) \/ Stuck(n))'
        BY <2>1 DEF AboveHead, Cleaned
      <3>1. CASE RewardsAre(n, Given(n))
        BY <1>0, <2>5, <3>1 DEF RewardsAre
      <3>2. CASE Stuck(n)
        <4>1. PICK i \in DOMAIN Script[n] : Sticks(n, i)
          BY <3>2 DEF Stuck
        <4>2. Sticks(n, i)'
          <5>1. Created(n, i) => Created(n, i)'
            BY <1>0, <2>1 DEF Created, Before, At, Op
          <5>2. NoAuctionFor(n, i) => NoAuctionFor(n, i)'
            BY <1>0, <2>1, <2>4 DEF NoAuctionFor, Before, At, Op
          <5>3. Owed(n, i) => Owed(n, i)'
            BY <1>0, <2>1 DEF Owed, StillToPay, At, Op
          <5>. QED  BY <4>1, <5>1, <5>2, <5>3 DEF Sticks
        <4>. QED  BY <4>2 DEF Stuck
      <3>. QED  BY <3>1, <3>2 DEF AboveHead
    <2>7. ASSUME GovernsBlock(n), Passed(n)' PROVE Passed(n)
      <3>1. n \in TxBlock /\ n >= 1 /\ n <= head
        BY <2>1, <2>7, ScriptFact DEF Passed
      <3>2. n <= tip
        BY <1>0, <3>1 DEF TInv, HeadInv
      <3>3. n \in visible
        BY <1>0, <2>2, <2>7, <3>2 DEF Passed
      <3>. QED  BY <3>1, <3>3 DEF Passed
    <2>8. BelowHead(n)'
      BY <1>0, <2>7 DEF BelowHead, RewardsAre
    <2>. QED  BY <2>5, <2>6, <2>8
  <1>6. CASE UNCHANGED vars
    <2>1. UNCHANGED <<head, pc, blk, at, step, todo, stage, visible>>
      BY <1>6 DEF vars, reviewer, local
    <2>. QED  BY <1>0, <2>1
              DEF AboveHead, BelowHead, HasEpoch, Passed, RewardsAre, Given, At, Done, Governs, Op, Cleaned, Stuck,
                  Sticks, Created, NoAuctionFor, Owed, StillToPay, Before, First
  <1>. QED  BY <1>2, <1>3, <1>4, <1>5, <1>6

LEMMA RewardsKept == TInv /\ RewInv /\ [Next]_vars => RewInv'
  <1>. SUFFICES ASSUME TInv, RewInv, [Next]_vars, NoError', NEW n \in Block
                PROVE  (AboveHead(n) /\ BelowHead(n) /\ HasEpoch(n))'
    BY DEF RewInv
  <1>1. spent \in [{"crash", "error"} -> Nat]
    BY TypesOfTInv DEF PlaceTypeOK
  <1>2. ~ CallFails
    BY <1>1 DEF CallFails, Spend, NoError
  <1>3. NoError
    <2>1. spent'["error"] = spent["error"]
      <3>1. CASE Crash
        BY <1>1, <3>1 DEF Crash, Spend
      <3>2. CASE StartUp \/ CleanUp \/ Turn \/ BlockDone \/ RetryRefused \/ PosImport \/ UNCHANGED vars
        BY <3>2 DEF StartUp, CleanUp, Turn, BlockDone, RetryRefused, PosImport, vars
      <3>3. CASE StartAuction \/ ProcessBid \/ Govern \/ End
        BY <3>3 DEF StartAuction, ProcessBid, CreateBid, AddToTotals, Govern, RefreshAuction, Autobid,
                    RewardAutobid, AutobidsDone, RewardValidator, SaveValidatorReward, SaveEpochSummary, End,
                    AlreadyEnded, EndSummary, FindBid, CloseBid, EndAuction, Frame
      <3>. QED  BY <1>2, <3>1, <3>2, <3>3 DEF Next, Program
    <2>. QED  BY <2>1 DEF NoError
  <1>4. AboveHead(n) /\ BelowHead(n) /\ HasEpoch(n)
    BY <1>3 DEF RewInv
  <1>. QED  BY <1>2, <1>4, OperationsRewards, CleanUpRewards, RoundRewards, QuietRewards DEF Next, Program

LEMMA InitRewInv == Init => RewInv
  <1>. SUFFICES ASSUME Init, NEW n \in Block PROVE AboveHead(n) /\ BelowHead(n) /\ HasEpoch(n)
    BY DEF RewInv
  <1>1. pc = "down" /\ head = -1
    BY DEF Init, ReviewerInit
  <1>. QED  BY <1>1, BlockReviewerAssumption DEF AboveHead, BelowHead, HasEpoch, Cleaned, At, Passed, Block

\* Without an error, and whatever crashes and refusals there are, a block that governs and has been
\* passed has its summary and has given every payee its reward exactly once.
THEOREM RewardsGivenOnce == Spec => []RewardsOnce
  <1>1. Init => TInv /\ RewInv
    BY InitTInv, InitRewInv
  <1>2. TInv /\ RewInv /\ [Next]_vars => (TInv /\ RewInv)'
    BY TInvKept, RewardsKept
  <1>3. TInv /\ RewInv => RewardsOnce
    <2>. SUFFICES ASSUME RewInv, NoError, NEW n \in Block, Passed(n), Has(n, [op |-> "governing"])
                  PROVE  n \in epochs /\ \A p \in Payee :
                           rewards[n][p] = (IF p \in NewAutobids(n) \cup Validator THEN 1 ELSE 0)
      BY DEF RewardsOnce
    <2>1. GovernsBlock(n)
      BY DEF Has, GovernsBlock, Governs, Op
    <2>2. n \in epochs /\ RewardsAre(n, Payees(n))
      BY <2>1 DEF RewInv, BelowHead
    <2>. QED  BY <2>2 DEF RewardsAre, Payees
  <1>. QED  BY <1>1, <1>2, <1>3, PTL DEF Spec
-----------------------------------------------------------------------------
(* Auctions and bids.  Everything is about an importer that leaves no gap: then every block with a *)
(* transaction below the one under review has been passed, and what it wrote stays.                *)

Starts(a) == \E n \in Block : StartsIn(n, a)
Ends(a)   == \E n \in Block : EndsIn(n, a)

\* All blocks with a transaction before block m have been passed.
Behind(m) == \A k \in TxBlock : k < m => k <= head

Over(a) == auctions[a].exists /\ ~ auctions[a].pending

TotalsExact(a) ==
  /\ auctions[a].received = Amount(SummaryTxs(a))
  /\ auctions[a].userbid = Amount(OfType(SummaryTxs(a), "userbid"))
  /\ auctions[a].autobid = Amount(OfType(SummaryTxs(a), "autobid"))

\* An auction exists only if all before its start is done, and ends only if all before its end is.
AuctionIs(a) ==
  /\ auctions[a].exists => Starts(a) /\ Behind(StartOf(a))
  /\ Starts(a) /\ StartOf(a) <= head => auctions[a].exists
  /\ Ends(a) /\ EndOf(a) <= head => ~ auctions[a].pending
  /\ Over(a) => Ends(a) /\ Behind(EndOf(a)) /\ TotalsExact(a)

InTurn(a, c) == auctions[c].exists /\ EndsBefore(a, c) => Over(a)

\* The auctions that an earlier operation of the block has ended.
EndsDone ==
  pc = "work" => \A j \in 1..(at - 1) : Op(blk, j) = "end" => ~ auctions[Script[blk][j].auction].pending

AuctionsRight == (\A a \in Auction : AuctionIs(a)) /\ (\A a, c \in Auction : InTurn(a, c))

AuctionsInv == NoGap => AuctionsRight /\ EndsDone

\* The process learns of bid b before the block that ends its auction.
Timely(b) ==
  /\ Has(BidInfo[b].num, [op |-> "bid", bid |-> b]) \/ b \in NewAutobids(BidInfo[b].num)
  /\ BidInfo[b].num < EndOf(BidInfo[b].auction)

Recorded(b) == bids[b].num # -1

\* A bid that has been recorded belongs to its block and auction; it is recorded when the head has
\* passed the block, and no longer pending when the auction is over.
BidIs(b) ==
  /\ Recorded(b) => bids[b].num = BidInfo[b].num /\ bids[b].auction = BidInfo[b].auction
  /\ BidInfo[b].num <= head => Recorded(b)
  /\ Over(BidInfo[b].auction) => Recorded(b) /\ ~ bids[b].pending

\* Within a block: bids of the operations that are done, and bids that are closed.
BidAt(b) ==
  pc = "work" =>
    /\ \A j \in DOMAIN Script[blk] :
         Script[blk][j] = [op |-> "bid", bid |-> b] /\ (j < at \/ (j = at /\ step = "total")) => Recorded(b)
    /\ b \in Given(blk) => Recorded(b)
    /\ step = "reward" /\ it = b => Recorded(b)
    /\ at \in DOMAIN Script[blk] /\ Op(blk, at) = "end" /\ step \in {"close", "closing"} =>
         /\ b \in todo => b \in SummaryTxs(Script[blk][at].auction)
         /\ b \in SummaryTxs(Script[blk][at].auction) /\ b \notin todo => ~ bids[b].pending

BidsInv == NoGap => \A b \in Bid : Timely(b) => BidIs(b) /\ BidAt(b)
-----------------------------------------------------------------------------
LEMMA HasFact ==
  ASSUME NEW n \in Block, NEW o, Has(n, o)
  PROVE  n \in TxBlock /\ n \in Int /\ n >= 1
  <1>1. Script[n] \in Seq(Operation) /\ DOMAIN Script[n] = 1..Len(Script[n]) /\ Len(Script[n]) \in Nat
    BY ScriptFact
  <1>2. PICK i \in DOMAIN Script[n] : Script[n][i] = o
    BY DEF Has
  <1>3. Script[n] # <<>>
    BY <1>1, <1>2
  <1>4. n \in TxBlock
    BY <1>3, ScriptAssumption
  <1>. QED  BY <1>4, BlockReviewerAssumption

\* When an auction starts and ends.
LEMMA ChainFact ==
  ASSUME NEW a \in Auction
  PROVE  /\ \A n \in Block : StartsIn(n, a) => Starts(a) /\ StartOf(a) = n
         /\ \A n \in Block : EndsIn(n, a) => Ends(a) /\ EndOf(a) = n
         /\ Starts(a) => StartOf(a) \in TxBlock /\ StartsIn(StartOf(a), a) /\ StartOf(a) \in Block
         /\ Ends(a) => EndOf(a) \in TxBlock /\ EndsIn(EndOf(a), a) /\ EndOf(a) \in Block
         /\ Ends(a) => Starts(a) /\ StartOf(a) < EndOf(a)
         /\ ~ Ends(a) => EndOf(a) = MaxBlock + 1
         /\ EndOf(a) \in Int /\ (Starts(a) => StartOf(a) \in Int)
  <1>1. ASSUME NEW n \in Block, StartsIn(n, a) PROVE Starts(a) /\ StartOf(a) = n
    <2>1. StartOf(a) \in Block /\ StartsIn(StartOf(a), a)
      BY <1>1 DEF StartOf
    <2>. QED  BY <1>1, <2>1, AuctionAssumption DEF Starts
  <1>2. ASSUME NEW n \in Block, EndsIn(n, a) PROVE Ends(a) /\ EndOf(a) = n
    <2>1. EndOf(a) \in Block /\ EndsIn(EndOf(a), a)
      BY <1>2 DEF EndOf
    <2>. QED  BY <1>2, <2>1, AuctionAssumption DEF Ends
  <1>3. ASSUME Starts(a) PROVE StartOf(a) \in TxBlock /\ StartsIn(StartOf(a), a) /\ StartOf(a) \in Block
    <2>1. PICK n \in Block : StartsIn(n, a)
      BY <1>3 DEF Starts
    <2>2. n \in TxBlock
      BY <2>1, HasFact DEF StartsIn
    <2>. QED  BY <1>1, <2>1, <2>2
  <1>4. ASSUME Ends(a) PROVE EndOf(a) \in TxBlock /\ EndsIn(EndOf(a), a) /\ EndOf(a) \in Block
    <2>1. PICK n \in Block : EndsIn(n, a)
      BY <1>4 DEF Ends
    <2>2. n \in TxBlock
      BY <2>1, HasFact DEF EndsIn
    <2>. QED  BY <1>2, <2>1, <2>2
  <1>5. ASSUME Ends(a) PROVE Starts(a) /\ StartOf(a) < EndOf(a)
    <2>1. PICK m \in Block : m < EndOf(a) /\ StartsIn(m, a)
      BY <1>4, <1>5, AuctionAssumption
    <2>. QED  BY <1>1, <2>1
  <1>6. ~ Ends(a) => EndOf(a) = MaxBlock + 1
    BY DEF Ends, EndOf
  <1>7. MaxBlock + 1 \in Int /\ Block \subseteq Int
    BY BlockReviewerAssumption DEF Block
  <1>8. EndOf(a) \in Int /\ (Starts(a) => StartOf(a) \in Int)
    BY <1>3, <1>4, <1>6, <1>7
  <1>. QED  BY <1>1, <1>2, <1>3, <1>4, <1>5, <1>6, <1>8

\* The operations of a block, as records.
LEMMA RecordFact ==
  ASSUME NEW n \in Block, NEW i \in DOMAIN Script[n]
  PROVE  /\ Op(n, i) = "start" => Script[n][i] = [op |-> "start", auction |-> Script[n][i].auction]
         /\ Op(n, i) = "end" => Script[n][i] = [op |-> "end", auction |-> Script[n][i].auction]
         /\ Op(n, i) = "bid" => Script[n][i] = [op |-> "bid", bid |-> Script[n][i].bid]
  <1>1. Script[n][i] \in Operation
    BY ScriptAssumption
  <1>. QED  BY <1>1 DEF Op, Operation

LEMMA StartsEndsFact ==
  ASSUME NEW n \in Block, NEW i \in DOMAIN Script[n], NEW a \in Auction, Script[n][i].auction = a
  PROVE  /\ Op(n, i) = "start" => StartsIn(n, a) /\ Starts(a) /\ StartOf(a) = n
         /\ Op(n, i) = "end" => EndsIn(n, a) /\ Ends(a) /\ EndOf(a) = n
  <1>1. Op(n, i) = "start" => StartsIn(n, a)
    BY RecordFact DEF StartsIn, Has
  <1>2. Op(n, i) = "end" => EndsIn(n, a)
    BY RecordFact DEF EndsIn, Has
  <1>. QED  BY <1>1, <1>2, ChainFact

\* One auction after the other: when c starts, a has ended, in an earlier block or earlier in this one.
LEMMA InTurnFact ==
  ASSUME NEW a \in Auction, NEW c \in Auction, EndsBefore(a, c)
  PROVE  /\ Ends(a) /\ Starts(c) /\ StartOf(a) < EndOf(a) /\ EndOf(a) <= StartOf(c)
         /\ \A i, j \in DOMAIN Script[StartOf(c)] :
              /\ EndOf(a) = StartOf(c)
              /\ Script[StartOf(c)][i] = [op |-> "end", auction |-> a]
              /\ Script[StartOf(c)][j] = [op |-> "start", auction |-> c]
              => i < j
  <1>1. PICK m, n \in Block :
          /\ EndsIn(m, a) /\ StartsIn(n, c) /\ m <= n
          /\ \A i, j \in DOMAIN Script[n] :
               /\ m = n
               /\ Script[n][i] = [op |-> "end", auction |-> a]
               /\ Script[n][j] = [op |-> "start", auction |-> c]
               => i < j
    BY DEF EndsBefore
  <1>2. Ends(a) /\ EndOf(a) = m /\ Starts(c) /\ StartOf(c) = n
    BY <1>1, ChainFact
  <1>. QED  BY <1>1, <1>2, ChainFact

\* What is known of the chain does not change.
LEMMA Rigid ==
  ASSUME NEW a, NEW c
  PROVE  /\ Starts(a)' = Starts(a) /\ Ends(a)' = Ends(a) /\ EndsBefore(a, c)' = EndsBefore(a, c)
         /\ StartOf(a)' = StartOf(a) /\ EndOf(a)' = EndOf(a)
  BY DEF Starts, Ends, EndsBefore, StartOf, EndOf, StartsIn, EndsIn, Has

LEMMA RigidTotals ==
  ASSUME NEW a, auctions'[a] = auctions[a], TotalsExact(a)
  PROVE  TotalsExact(a)'
  <1>1. Amount(SummaryTxs(a))' = Amount(SummaryTxs(a))
    OBVIOUS
  <1>2. \A t : Amount(OfType(SummaryTxs(a), t))' = Amount(OfType(SummaryTxs(a), t))
    OBVIOUS
  <1>. QED  BY <1>1, <1>2 DEF TotalsExact

\* The importer can not fill a gap.
LEMMA NoGapBefore ==
  ASSUME TInv, [Next]_vars, NoGap'
  PROVE  NoGap
  <1>0. tip \in Int /\ visible \subseteq 0..tip /\ tip >= -1
    BY BlockReviewerAssumption DEF TInv, RInv, ReviewerTypeOK, AbsTypeOK
  <1>1. CASE PosImport
    <2>1. PICK k \in (tip + 1)..MaxBlock :
            \E batch \in SUBSET ((tip + 1)..k) : tip' = k /\ visible' = visible \cup batch
      BY <1>1 DEF PosImport, ImportBatch
    <2>2. PICK batch \in SUBSET ((tip + 1)..k) : tip' = k /\ visible' = visible \cup batch
      BY <2>1
    <2>3. ASSUME NEW n \in 0..tip PROVE n \in visible
      <3>1. n \in 0..k /\ n \notin batch
        BY <1>0, <2>2, BlockReviewerAssumption
      <3>. QED  BY <2>2, <3>1 DEF NoGap
    <2>. QED  BY <1>0, <2>3 DEF NoGap
  <1>2. CASE ~ PosImport
    <2>1. UNCHANGED <<tip, visible>>
      <3>1. CASE StartAuction \/ ProcessBid \/ Govern \/ End
        BY <3>1, OperationsQuiet DEF shared
      <3>2. CASE StartUp \/ CleanUp \/ Turn \/ BlockDone \/ RetryRefused \/ CallFails \/ Crash \/ UNCHANGED vars
        BY <3>2 DEF StartUp, CleanUp, Turn, BlockDone, RetryRefused, CallFails, Crash, vars
      <3>. QED  BY <1>2, <3>1, <3>2 DEF Next, Program
    <2>. QED  BY <2>1 DEF NoGap
  <1>. QED  BY <1>1, <1>2

\* Every block before the one under review has been passed.
LEMMA AllBehind ==
  ASSUME TInv, NoGap, pc = "work"
  PROVE  /\ Behind(blk) /\ head < blk /\ head \in Int /\ blk \in Int /\ blk \in TxBlock /\ blk \in Block
         /\ \A k \in TxBlock : k <= blk => k <= head \/ k = blk
  <1>1. /\ num = head /\ num < blk /\ blk <= endNum /\ blk \in TxBlock \cap visible
        /\ \A m \in TxBlock \cap visible : num < m /\ m <= endNum => blk <= m
    BY DEF TInv, RInv, RoundInv, NextInv, PlaceInv
  <1>2. /\ head \in Int /\ blk \in Int /\ blk \in Block /\ endNum \in Int /\ tip \in Int
    BY TypesOfTInv, BlockReviewerAssumption DEF ReviewerTypeOK, AbsTypeOK, Block
  <1>3. ASSUME NEW k \in TxBlock, k < blk, head < k PROVE FALSE
    <2>1. k \in Int /\ k >= 1
      BY BlockReviewerAssumption
    <2>2. k \in visible
      BY <1>1, <1>2, <1>3, <2>1 DEF NoGap
    <2>. QED  BY <1>1, <1>2, <1>3, <2>1, <2>2
  <1>4. TxBlock \subseteq Int
    BY BlockReviewerAssumption
  <1>. QED  BY <1>1, <1>2, <1>3, <1>4 DEF Behind

\* The head comes to no block with a transaction but the one that has been reviewed.
LEMMA HeadOnward ==
  ASSUME TInv, [Next]_vars, NoGap
  PROVE  /\ head <= head' /\ head \in Int /\ head' \in Int
         /\ \A k \in TxBlock : k <= head' => k <= head \/ (BlockDone /\ k = blk)
  <1>0. /\ head \in Int /\ endNum \in Int /\ tip \in Int /\ blk \in Int /\ TxBlock \subseteq Int
        /\ \A k \in TxBlock : k >= 1
    BY TypesOfTInv, BlockReviewerAssumption DEF ReviewerTypeOK, AbsTypeOK, Block
  <1>1. CASE StartUp
    BY <1>0, <1>1 DEF StartUp, BeforeStart
  <1>2. CASE Turn
    <2>1. CASE NothingToProcess
      <3>1. num = head /\ num <= endNum /\ head' = endNum /\ endNum \in visible
        BY <2>1 DEF NothingToProcess, TInv, RInv, RoundInv, HeadInv
      <3>2. ASSUME NEW k \in TxBlock, k <= endNum, head < k PROVE FALSE
        <4>1. k \in visible
          BY <1>0, <3>1, <3>2 DEF NoGap
        <4>. QED  BY <1>0, <2>1, <3>1, <3>2, <4>1 DEF NothingToProcess, ToReview
      <3>. QED  BY <1>0, <3>1, <3>2
    <2>2. CASE BeginReview \/ SkipReview \/ NextBlock \/ EmptyEndBlock \/ QuitWithoutGenesis
      BY <1>0, <2>2 DEF BeginReview, SkipReview, NextBlock, EmptyEndBlock, QuitWithoutGenesis
    <2>. QED  BY <1>2, <2>1, <2>2 DEF Turn, Loop
  <1>3. CASE BlockDone
    <2>1. pc = "work" /\ head' = blk
      BY <1>3 DEF BlockDone, Reviewed
    <2>. QED  BY <1>3, <2>1, AllBehind
  <1>4. CASE ~ StartUp /\ ~ Turn /\ ~ BlockDone
    <2>1. UNCHANGED head
      <3>1. CASE StartAuction \/ ProcessBid \/ Govern \/ End
        BY <3>1, OperationsQuiet DEF shared
      <3>2. CASE CleanUp \/ RetryRefused \/ CallFails \/ Crash \/ PosImport \/ UNCHANGED vars
        BY <3>2 DEF CleanUp, RetryRefused, CallFails, Retry, Crash, PosImport, vars
      <3>. QED  BY <1>4, <3>1, <3>2 DEF Next, Program
    <2>. QED  BY <1>0, <2>1
  <1>. QED  BY <1>1, <1>2, <1>3, <1>4
-----------------------------------------------------------------------------
\* The head goes on, if at all, over what is there; auctions that are over stay as they are.
LEMMA Onward ==
  ASSUME TInv, AuctionsRight, head <= head', head \in Int, head' \in Int,
         \A a \in Auction : /\ auctions'[a].exists = auctions[a].exists
                            /\ auctions'[a].pending = auctions[a].pending
                            /\ Over(a) => auctions'[a] = auctions[a],
         \A a \in Auction : Starts(a) /\ StartOf(a) <= head' => StartOf(a) <= head \/ auctions[a].exists,
         \A a \in Auction : Ends(a) /\ EndOf(a) <= head' => EndOf(a) <= head \/ ~ auctions[a].pending
  PROVE  AuctionsRight'
  <1>1. ASSUME NEW n, Behind(n) PROVE Behind(n)'
    <2>. SUFFICES ASSUME NEW k \in TxBlock, k < n PROVE k <= head'
      BY DEF Behind
    <2>1. k \in Int
      BY BlockReviewerAssumption
    <2>2. k <= head
      BY <1>1 DEF Behind
    <2>. QED  BY <2>1, <2>2
  <1>2. ASSUME NEW a \in Auction PROVE AuctionIs(a)'
    <2>0. /\ Starts(a)' = Starts(a) /\ Ends(a)' = Ends(a)
          /\ StartOf(a)' = StartOf(a) /\ EndOf(a)' = EndOf(a)
      BY Rigid
    <2>1. AuctionIs(a)
      BY DEF AuctionsRight
    <2>2. Behind(StartOf(a)) => Behind(StartOf(a))'
      <3>1. PICK n : n = StartOf(a)
        OBVIOUS
      <3>. QED  BY <1>1, <2>0, <3>1 DEF Behind
    <2>3. Behind(EndOf(a)) => Behind(EndOf(a))'
      <3>1. PICK n : n = EndOf(a)
        OBVIOUS
      <3>. QED  BY <1>1, <2>0, <3>1 DEF Behind
    <2>4. Over(a)' => Over(a) /\ auctions'[a] = auctions[a]
      BY DEF Over
    <2>5. Over(a)' /\ TotalsExact(a) => TotalsExact(a)'
      BY <2>4, RigidTotals
    <2>. QED  BY <2>0, <2>1, <2>2, <2>3, <2>4, <2>5 DEF AuctionIs
  <1>3. ASSUME NEW a \in Auction, NEW c \in Auction PROVE InTurn(a, c)'
    <2>1. EndsBefore(a, c)' = EndsBefore(a, c)
      BY Rigid
    <2>. QED  BY <2>1 DEF AuctionsRight, InTurn, Over
  <1>. QED  BY <1>2, <1>3 DEF AuctionsRight

\* What has started and ended before the block under review.
LEMMA PastAuctions ==
  ASSUME TInv, NoGap, AuctionsRight, pc = "work", NEW a \in Auction
  PROVE  /\ Starts(a) /\ StartOf(a) < blk => auctions[a].exists
         /\ Ends(a) /\ EndOf(a) < blk => Over(a)
         /\ Ends(a) /\ EndOf(a) <= blk => auctions[a].exists
         /\ Over(a) => EndOf(a) <= blk
  <1>1. /\ Behind(blk) /\ head < blk /\ head \in Int /\ blk \in Int /\ blk \in TxBlock
        /\ TxBlock \subseteq Int
    BY AllBehind, BlockReviewerAssumption
  <1>2. Starts(a) /\ StartOf(a) < blk => auctions[a].exists
    BY <1>1, ChainFact DEF Behind, AuctionsRight, AuctionIs
  <1>3. Ends(a) => Starts(a) /\ StartOf(a) < EndOf(a) /\ StartOf(a) \in Int /\ EndOf(a) \in Int /\ EndOf(a) \in TxBlock
    BY <1>1, ChainFact
  <1>4. Ends(a) /\ EndOf(a) < blk => ~ auctions[a].pending
    BY <1>1, <1>3 DEF Behind, AuctionsRight, AuctionIs
  <1>5. Over(a) => Ends(a) /\ Behind(EndOf(a))
    BY DEF AuctionsRight, AuctionIs
  <1>. QED  BY <1>1, <1>2, <1>3, <1>4, <1>5 DEF Over, Behind

LEMMA StartKeepsAuctions ==
  ASSUME TInv, NoGap, AuctionsRight, EndsDone, StartAuction
  PROVE  AuctionsRight' /\ EndsDone'
  <1>. DEFINE c == Script[blk][at].auction
              new == [NoAuction EXCEPT !.exists = TRUE, !.pending = TRUE]
  <1>1. /\ pc = "work" /\ Op(blk, at) = "start" /\ at \in DOMAIN Script[blk] /\ c \in Auction /\ blk \in Block
        /\ at \in Nat
    BY OperationFact, TypesOfTInv DEF StartAuction, Doing, Working, Op
  <1>2. StartsIn(blk, c) /\ Starts(c) /\ StartOf(c) = blk
    BY <1>1, StartsEndsFact
  <1>3. auctions' = [auctions EXCEPT ![c] = new] /\ ~ auctions[c].exists /\ at' = at + 1
    BY DEF StartAuction, NextOperation
  <1>4. new.exists /\ new.pending
    BY DEF NoAuction
  <1>5. auctions \in [Auction -> AuctionRow]
    BY TypesOfTInv DEF RowsTypeOK
  <1>6. UNCHANGED <<head, pc, blk>>
    BY OperationsQuiet DEF shared, reviewer
  <1>7. Behind(blk) /\ head < blk /\ head \in Int /\ blk \in Int
    BY <1>1, AllBehind
  <1>. HIDE DEF c, new
  <1>8. /\ auctions'[c].exists /\ auctions'[c].pending
        /\ \A a \in Auction : a # c => auctions'[a] = auctions[a]
    BY <1>1, <1>3, <1>4, <1>5
  <1>9. ASSUME NEW a \in Auction PROVE AuctionIs(a)'
    <2>0. /\ Starts(a)' = Starts(a) /\ Ends(a)' = Ends(a)
          /\ StartOf(a)' = StartOf(a) /\ EndOf(a)' = EndOf(a)
      BY Rigid
    <2>1. AuctionIs(a)
      BY DEF AuctionsRight
    <2>2. Behind(StartOf(a))' = Behind(StartOf(a)) /\ Behind(EndOf(a))' = Behind(EndOf(a))
      BY <1>6, <2>0 DEF Behind
    <2>3. CASE a = c
      <3>1. Ends(a) => ~ (EndOf(a) <= head)
        BY <1>2, <1>7, <2>3, ChainFact
      <3>. QED  BY <1>2, <1>6, <1>7, <1>8, <2>0, <2>2, <2>3, <3>1 DEF AuctionIs, Over
    <2>4. CASE a # c
      <3>1. TotalsExact(a) => TotalsExact(a)'
        BY <1>8, <2>4, RigidTotals
      <3>. QED  BY <1>6, <1>8, <2>0, <2>1, <2>2, <2>4, <3>1 DEF AuctionIs, Over
    <2>. QED  BY <2>3, <2>4
  <1>10. ASSUME NEW a \in Auction, NEW d \in Auction PROVE InTurn(a, d)'
    <2>0. EndsBefore(a, d)' = EndsBefore(a, d)
      BY Rigid
    <2>. SUFFICES ASSUME auctions'[d].exists, EndsBefore(a, d) PROVE Over(a)'
      BY <2>0 DEF InTurn
    <2>1. CASE d = c
      <3>1. Ends(a) /\ StartOf(a) < EndOf(a) /\ EndOf(a) <= blk
        BY <1>2, <2>1, InTurnFact
      <3>2. auctions[a].exists
        BY <1>1, <3>1, PastAuctions
      <3>3. a # c
        BY <1>3, <3>2
      <3>4. ~ auctions[a].pending
        <4>1. CASE EndOf(a) < blk
          BY <1>1, <3>1, <4>1, PastAuctions DEF Over
        <4>2. CASE EndOf(a) = blk
          <5>1. PICK i \in DOMAIN Script[blk] : Script[blk][i] = [op |-> "end", auction |-> a]
            BY <3>1, <4>2, ChainFact DEF EndsIn, Has
          <5>2. Script[blk][at] = [op |-> "start", auction |-> c]
            BY <1>1, RecordFact DEF c
          <5>3. i < at
            BY <1>1, <1>2, <2>1, <4>2, <5>1, <5>2, InTurnFact
          <5>4. i \in 1..(at - 1)
            BY <1>1, <5>1, <5>3, ScriptFact
          <5>. QED  BY <1>1, <5>1, <5>4 DEF EndsDone, Op
        <4>3. EndOf(a) \in Int
          BY ChainFact
        <4>. QED  BY <1>7, <3>1, <4>1, <4>2, <4>3
      <3>. QED  BY <1>8, <3>2, <3>3, <3>4 DEF Over
    <2>2. CASE d # c
      <3>1. Over(a)
        BY <1>8, <2>2 DEF AuctionsRight, InTurn
      <3>2. a # c
        BY <1>3, <3>1 DEF Over
      <3>. QED  BY <1>8, <3>1, <3>2 DEF Over
    <2>. QED  BY <2>1, <2>2
  <1>11. EndsDone'
    <2>. SUFFICES ASSUME NEW j \in 1..at, Op(blk, j) = "end"
                  PROVE  ~ auctions'[Script[blk][j].auction].pending
      BY <1>1, <1>3, <1>6 DEF EndsDone, Op
    <2>1. j # at /\ j \in 1..(at - 1) /\ j \in DOMAIN Script[blk]
      BY <1>1, ScriptFact
    <2>2. ~ auctions[Script[blk][j].auction].pending
      BY <1>1, <2>1 DEF EndsDone
    <2>3. Script[blk][j].auction \in Auction
      <3>1. Script[blk][j] \in Operation
        BY <1>1, <2>1, ScriptAssumption
      <3>. QED  BY <3>1 DEF Operation, Op
    <2>4. EndOf(Script[blk][j].auction) = blk /\ Ends(Script[blk][j].auction)
      BY <1>1, <2>1, <2>3, StartsEndsFact
    <2>5. Script[blk][j].auction # c
      BY <1>2, <1>7, <2>3, <2>4, ChainFact
    <2>. QED  BY <1>8, <2>2, <2>3, <2>5
  <1>. QED  BY <1>9, <1>10, <1>11 DEF AuctionsRight

LEMMA EndKeepsAuctions ==
  ASSUME TInv, NoGap, AuctionsRight, EndsDone, EndAuction
  PROVE  AuctionsRight' /\ EndsDone'
  <1>1. /\ pc = "work" /\ Op(blk, at) = "end" /\ at \in DOMAIN Script[blk] /\ blk \in Block
        /\ at \in Nat /\ Script[blk][at].auction \in Auction
    BY OperationFact, TypesOfTInv DEF EndAuction, Doing, Working, Op
  <1>. PICK c \in Auction : c = Script[blk][at].auction
    BY <1>1
  <1>2. EndsIn(blk, c) /\ Ends(c) /\ EndOf(c) = blk
    BY <1>1, StartsEndsFact
  <1>3. auctions' = [auctions EXCEPT ![c] = Ended(c)] /\ at' = at + 1
    BY DEF EndAuction, NextOperation
  <1>5. auctions \in [Auction -> AuctionRow]
    BY TypesOfTInv DEF RowsTypeOK
  <1>6. UNCHANGED <<head, pc, blk>>
    BY OperationsQuiet DEF End, shared, reviewer
  <1>7. Behind(blk) /\ head < blk /\ head \in Int /\ blk \in Int
    BY <1>1, AllBehind
  <1>8. /\ auctions'[c] = Ended(c)
        /\ \A a \in Auction : a # c => auctions'[a] = auctions[a]
    BY <1>1, <1>3, <1>5
  <1>9. /\ auctions'[c].exists = auctions[c].exists /\ ~ auctions'[c].pending
        /\ auctions'[c].received = Amount(SummaryTxs(c))
        /\ auctions'[c].userbid = Amount(OfType(SummaryTxs(c), "userbid"))
        /\ auctions'[c].autobid = Amount(OfType(SummaryTxs(c), "autobid"))
    <2>1. auctions[c] \in AuctionRow
      BY <1>1, <1>5
    <2>. QED  BY <1>8, <2>1 DEF Ended, AuctionRow
  <1>10. TotalsExact(c)'
    BY <1>9 DEF TotalsExact
  <1>11. auctions[c].exists /\ Over(c)'
    BY <1>1, <1>2, <1>7, <1>9, PastAuctions DEF Over
  <1>12. ASSUME NEW a \in Auction PROVE AuctionIs(a)'
    <2>0. /\ Starts(a)' = Starts(a) /\ Ends(a)' = Ends(a)
          /\ StartOf(a)' = StartOf(a) /\ EndOf(a)' = EndOf(a)
      BY Rigid
    <2>1. AuctionIs(a)
      BY DEF AuctionsRight
    <2>2. Behind(StartOf(a))' = Behind(StartOf(a)) /\ Behind(EndOf(a))' = Behind(EndOf(a))
      BY <1>6, <2>0 DEF Behind
    <2>3. CASE a = c
      BY <1>2, <1>6, <1>7, <1>9, <1>10, <1>11, <2>0, <2>1, <2>2, <2>3 DEF AuctionIs
    <2>4. CASE a # c
      <3>1. TotalsExact(a) => TotalsExact(a)'
        BY <1>8, <2>4, RigidTotals
      <3>. QED  BY <1>6, <1>8, <2>0, <2>1, <2>2, <2>4, <3>1 DEF AuctionIs, Over
    <2>. QED  BY <2>3, <2>4
  <1>13. ASSUME NEW a \in Auction, NEW d \in Auction PROVE InTurn(a, d)'
    <2>0. EndsBefore(a, d)' = EndsBefore(a, d)
      BY Rigid
    <2>1. auctions'[d].exists = auctions[d].exists
      BY <1>8, <1>9
    <2>2. Over(a) => Over(a)'
      BY <1>8, <1>11 DEF Over
    <2>. QED  BY <2>0, <2>1, <2>2 DEF AuctionsRight, InTurn
  <1>14. EndsDone'
    <2>. SUFFICES ASSUME NEW j \in 1..at, Op(blk, j) = "end"
                  PROVE  ~ auctions'[Script[blk][j].auction].pending
      BY <1>1, <1>3, <1>6 DEF EndsDone, Op
    <2>1. CASE j = at
      BY <1>9, <2>1
    <2>2. CASE j # at
      <3>1. j \in 1..(at - 1) /\ j \in DOMAIN Script[blk]
        BY <1>1, <2>2, ScriptFact
      <3>2. ~ auctions[Script[blk][j].auction].pending
        BY <1>1, <3>1 DEF EndsDone
      <3>3. Script[blk][j] \in Operation
        BY <1>1, <3>1, ScriptAssumption
      <3>4. Script[blk][j].auction \in Auction
        BY <3>3 DEF Operation, Op
      <3>. QED  BY <1>8, <1>9, <3>2, <3>4
    <2>. QED  BY <2>1, <2>2
  <1>. QED  BY <1>12, <1>13, <1>14 DEF AuctionsRight

\* The other operations: totals may change of an auction that is present.
LEMMA OperationsKeepAuctions ==
  ASSUME TInv, NoGap, AuctionsRight, EndsDone, StartAuction \/ ProcessBid \/ Govern \/ End
  PROVE  AuctionsRight' /\ EndsDone'
  <1>0. /\ UNCHANGED <<head, pc, blk>> /\ pc = "work" /\ blk \in Block /\ at \in DOMAIN Script[blk]
        /\ at \in Nat /\ head \in Int /\ auctions \in [Auction -> AuctionRow]
        /\ at' = at \/ at' = at + 1
    BY OperationsQuiet, OperationEffect, TypesOfTInv, AllBehind DEF shared, reviewer, Working, RowsTypeOK
  <1>1. ASSUME \A a \in Auction : /\ auctions'[a].exists = auctions[a].exists
                                  /\ auctions'[a].pending = auctions[a].pending
                                  /\ Over(a) => auctions'[a] = auctions[a],
               at' = at + 1 /\ Op(blk, at) = "end" => ~ auctions[Script[blk][at].auction].pending
        PROVE  AuctionsRight' /\ EndsDone'
    <2>1. AuctionsRight'
      BY <1>0, <1>1, Onward
    <2>2. EndsDone'
      <3>. SUFFICES ASSUME NEW j \in 1..(at' - 1), Op(blk, j) = "end"
                    PROVE  ~ auctions'[Script[blk][j].auction].pending
        BY <1>0 DEF EndsDone, Op
      <3>1. j \in DOMAIN Script[blk] /\ (j \in 1..(at - 1) \/ (j = at /\ at' = at + 1))
        BY <1>0, ScriptFact
      <3>2. ~ auctions[Script[blk][j].auction].pending
        BY <1>0, <1>1, <3>1 DEF EndsDone
      <3>3. Script[blk][j] \in Operation
        BY <1>0, <3>1, ScriptAssumption
      <3>4. Script[blk][j].auction \in Auction
        BY <3>3 DEF Operation, Op
      <3>. QED  BY <1>1, <3>2, <3>4
    <2>. QED  BY <2>1, <2>2
  <1>2. CASE StartAuction
    BY <1>2, StartKeepsAuctions
  <1>3. CASE EndAuction
    BY <1>3, EndKeepsAuctions
  <1>4. CASE AddToTotals
    <2>1. Op(blk, at) # "end"
      BY <1>4 DEF AddToTotals, Doing, Op
    <2>2. \A a \in Auction : /\ auctions'[a].exists = auctions[a].exists
                             /\ auctions'[a].pending = auctions[a].pending
                             /\ Over(a) => auctions'[a] = auctions[a]
      BY <1>0, <1>4 DEF AddToTotals, WithBid, Present, AuctionRow, Over
    <2>. QED  BY <1>1, <2>1, <2>2
  <1>5. CASE RefreshAuction
    <2>1. Op(blk, at) # "end"
      BY <1>5 DEF RefreshAuction, Doing, Op
    <2>2. ASSUME NEW a \in Auction
          PROVE  /\ auctions'[a].exists = auctions[a].exists
                 /\ auctions'[a].pending = auctions[a].pending
                 /\ Over(a) => auctions'[a] = auctions[a]
      <3>1. Over(a) => EndOf(a) <= blk /\ EndOf(a) \in Int /\ blk \in Int
        BY <1>0, PastAuctions, ChainFact, AllBehind
      <3>2. Over(a) => ~ (blk < EndOf(a))
        BY <3>1
      <3>3. auctions'[a] = IF StartOf(a) <= blk /\ blk < EndOf(a) /\ auctions[a].exists
                           THEN [auctions[a] EXCEPT !.count = Cardinality(AuctionTxs(blk)),
                                                    !.received = Amount(AuctionTxs(blk))]
                           ELSE auctions[a]
        BY <1>5 DEF RefreshAuction
      <3>4. auctions[a] \in AuctionRow
        BY <1>0
      <3>. QED  BY <3>2, <3>3, <3>4 DEF AuctionRow
    <2>. QED  BY <1>1, <2>1, <2>2
  <1>6. CASE AlreadyEnded
    <2>1. Op(blk, at) = "end" /\ Script[blk][at].auction \notin Present /\ UNCHANGED auctions
      BY <1>6 DEF AlreadyEnded, Doing, Op, db
    <2>2. Script[blk][at].auction \in Auction
      BY <1>0, <1>6, <2>1, OperationFact, TypesOfTInv DEF AlreadyEnded, Doing
    <2>3. auctions[Script[blk][at].auction].exists
      BY <1>0, <2>1, <2>2, StartsEndsFact, PastAuctions, AllBehind
    <2>. QED  BY <1>0, <1>1, <2>1, <2>2, <2>3 DEF Present, AuctionRow
  <1>7. CASE CreateBid \/ EndSummary \/ CloseBid \/ \E b \in Bid : Autobid(b) \/ FindBid(b)
    <2>1. UNCHANGED <<auctions, at>>
      BY <1>7 DEF CreateBid, GoOn, EndSummary, CloseBid, Autobid, FindBid
    <2>. QED  BY <1>0, <1>1, <2>1
  <1>8. CASE RewardAutobid \/ AutobidsDone \/ SaveValidatorReward \/ SaveEpochSummary
             \/ \E v \in Validator : RewardValidator(v)
    <2>1. UNCHANGED auctions /\ Op(blk, at) = "governing"
      BY <1>8 DEF RewardAutobid, AutobidsDone, SaveValidatorReward, SaveEpochSummary, RewardValidator, db, Doing, Op
    <2>. QED  BY <1>0, <1>1, <2>1
  <1>. QED  BY <1>2, <1>3, <1>4, <1>5, <1>6, <1>7, <1>8 DEF ProcessBid, Govern, End

\* The cleanup takes auctions away that were started above the head.
LEMMA CleanUpKeepsAuctions ==
  ASSUME TInv, NoGap, AuctionsRight, CleanUp
  PROVE  AuctionsRight'
  <1>0. UNCHANGED head /\ head \in Int
    BY TypesOfTInv DEF CleanUp, ReviewerTypeOK
  <1>1. CASE UNCHANGED auctions
    BY <1>0, <1>1, Onward
  <1>2. CASE DeleteAuctions
    <2>1. ASSUME NEW a \in Auction
          PROVE  /\ StartOf(a) <= head => auctions'[a] = auctions[a]
                 /\ ~ (StartOf(a) <= head) => auctions'[a] = NoAuction
      BY <1>2 DEF DeleteAuctions, Stays
    <2>2. ~ NoAuction.exists /\ ~ NoAuction.pending
      BY DEF NoAuction
    <2>3. ASSUME NEW a \in Auction PROVE AuctionIs(a)'
      <3>0. /\ Starts(a)' = Starts(a) /\ Ends(a)' = Ends(a)
            /\ StartOf(a)' = StartOf(a) /\ EndOf(a)' = EndOf(a)
        BY Rigid
      <3>1. AuctionIs(a)
        BY DEF AuctionsRight
      <3>2. Behind(StartOf(a))' = Behind(StartOf(a)) /\ Behind(EndOf(a))' = Behind(EndOf(a))
        BY <1>0, <3>0 DEF Behind
      <3>3. auctions'[a] = auctions[a] /\ TotalsExact(a) => TotalsExact(a)'
        BY RigidTotals
      <3>. QED  BY <1>0, <2>1, <2>2, <3>0, <3>1, <3>2, <3>3 DEF AuctionIs, Over
    <2>4. ASSUME NEW a \in Auction, NEW c \in Auction PROVE InTurn(a, c)'
      <3>1. EndsBefore(a, c)' = EndsBefore(a, c)
        BY Rigid
      <3>. SUFFICES ASSUME auctions'[c].exists, EndsBefore(a, c) PROVE Over(a)'
        BY <3>1 DEF InTurn
      <3>2. StartOf(c) <= head /\ auctions[c].exists
        BY <2>1, <2>2
      <3>3. Over(a)
        BY <3>2 DEF AuctionsRight, InTurn
      <3>4. StartOf(a) <= head
        <4>1. /\ Ends(a) /\ Starts(a) /\ Starts(c) /\ StartOf(a) < EndOf(a) /\ EndOf(a) <= StartOf(c)
          BY InTurnFact, ChainFact
        <4>2. StartOf(a) \in Int /\ EndOf(a) \in Int /\ StartOf(c) \in Int
          BY <4>1, ChainFact
        <4>. QED  BY <1>0, <3>2, <4>1, <4>2
      <3>. QED  BY <2>1, <3>3, <3>4 DEF Over
    <2>. QED  BY <2>3, <2>4 DEF AuctionsRight
  <1>. QED  BY <1>1, <1>2 DEF CleanUp, DeleteBids, DeleteSummaries, DeleteRewards, DeleteEpochs

\* The loop moves the head over blocks that have been reviewed to their end.
LEMMA LoopKeepsAuctions ==
  ASSUME TInv, NoGap, AuctionsRight, EndsDone, [Next]_vars, UNCHANGED auctions
  PROVE  AuctionsRight'
  <1>1. /\ head <= head' /\ head \in Int /\ head' \in Int
        /\ \A k \in TxBlock : k <= head' => k <= head \/ (BlockDone /\ k = blk)
    BY HeadOnward
  <1>2. BlockDone => /\ pc = "work" /\ at > Len(Script[blk]) /\ at \in Nat /\ blk \in Block
                     /\ \A i \in DOMAIN Script[blk] : i \in 1..(at - 1)
    BY TypesOfTInv DEF BlockDone, Reviewed
  <1>3. ASSUME NEW a \in Auction, Starts(a), StartOf(a) <= head', BlockDone, StartOf(a) = blk
        PROVE  auctions[a].exists
    <2>1. PICK i \in DOMAIN Script[blk] : Script[blk][i] = [op |-> "start", auction |-> a]
      BY <1>3, ChainFact DEF StartsIn, Has
    <2>2. Op(blk, i) = "start" /\ Script[blk][i].auction = a /\ i \in 1..(at - 1) /\ pc = "work"
      BY <1>2, <1>3, <2>1 DEF Op
    <2>3. \A j \in 1..(at - 1) : Op(blk, j) = "start" => auctions[Script[blk][j].auction].exists
      BY <2>2 DEF TInv, PlaceInv
    <2>. QED  BY <2>2, <2>3
  <1>4. ASSUME NEW a \in Auction, Ends(a), EndOf(a) <= head', BlockDone, EndOf(a) = blk
        PROVE  ~ auctions[a].pending
    <2>1. PICK i \in DOMAIN Script[blk] : Script[blk][i] = [op |-> "end", auction |-> a]
      BY <1>4, ChainFact DEF EndsIn, Has
    <2>. QED  BY <1>2, <1>4, <2>1 DEF EndsDone, Op
  <1>5. \A a \in Auction : Starts(a) /\ StartOf(a) <= head' => StartOf(a) <= head \/ auctions[a].exists
    BY <1>1, <1>3, ChainFact
  <1>6. \A a \in Auction : Ends(a) /\ EndOf(a) <= head' => EndOf(a) <= head \/ ~ auctions[a].pending
    BY <1>1, <1>4, ChainFact
  <1>. QED  BY <1>1, <1>5, <1>6, Onward

LEMMA AuctionsKept == TInv /\ AuctionsInv /\ [Next]_vars => AuctionsInv'
  <1>. SUFFICES ASSUME TInv, AuctionsInv, [Next]_vars, NoGap' PROVE AuctionsRight' /\ EndsDone'
    BY DEF AuctionsInv
  <1>1. NoGap /\ AuctionsRight /\ EndsDone
    BY NoGapBefore DEF AuctionsInv
  <1>2. CASE StartAuction \/ ProcessBid \/ Govern \/ End
    BY <1>1, <1>2, OperationsKeepAuctions
  <1>3. CASE CleanUp
    <2>1. pc' # "work"
      BY <1>3 DEF CleanUp
    <2>. QED  BY <1>1, <1>3, <2>1, CleanUpKeepsAuctions DEF EndsDone
  <1>4. CASE StartUp \/ Turn \/ BlockDone \/ RetryRefused \/ CallFails \/ Crash \/ PosImport \/ UNCHANGED vars
    <2>1. UNCHANGED auctions
      BY <1>4 DEF StartUp, Turn, BlockDone, RetryRefused, CallFails, Crash, PosImport, vars, db
    <2>2. AuctionsRight'
      BY <1>1, <2>1, LoopKeepsAuctions
    <2>3. EndsDone'
      <3>1. CASE StartUp \/ BlockDone \/ RetryRefused \/ CallFails \/ Crash
        BY <3>1 DEF StartUp, BeforeStart, BlockDone, Reviewed, RetryRefused, CallFails, Retry, Crash, EndsDone
      <3>2. CASE Turn
        <4>1. at' = 1
          BY <3>2 DEF Turn, Fresh
        <4>. QED  BY <4>1 DEF EndsDone
      <3>3. CASE PosImport \/ UNCHANGED vars
        BY <1>1, <3>3 DEF PosImport, vars, reviewer, local, db, EndsDone, Op
      <3>. QED  BY <1>4, <3>1, <3>2, <3>3
    <2>. QED  BY <2>2, <2>3
  <1>. QED  BY <1>2, <1>3, <1>4 DEF Next, Program

LEMMA InitAuctions == Init => AuctionsInv
  <1>. SUFFICES ASSUME Init PROVE AuctionsRight /\ EndsDone
    BY DEF AuctionsInv
  <1>1. /\ auctions = [a \in Auction |-> NoAuction] /\ ~ NoAuction.exists /\ ~ NoAuction.pending
        /\ head = -1 /\ pc = "down"
    BY DEF Init, ReviewerInit, NoAuction
  <1>2. ASSUME NEW a \in Auction, Starts(a) PROVE ~ (StartOf(a) <= head)
    <2>1. StartOf(a) \in TxBlock
      BY <1>2, ChainFact
    <2>2. \A n \in TxBlock : n \in Int /\ n >= 1
      BY BlockReviewerAssumption
    <2>. QED  BY <1>1, <2>1, <2>2
  <1>. QED  BY <1>1, <1>2 DEF AuctionsRight, AuctionIs, InTurn, Over, EndsDone

\* Two auctions are never present at once: when the second starts, the first is over.
LEMMA PresentOne ==
  ASSUME TInv, NoGap, AuctionsRight, NEW a \in Present, NEW c \in Present
  PROVE  a = c
  <1>. SUFFICES ASSUME a # c PROVE FALSE
    OBVIOUS
  <1>1. a \in Auction /\ c \in Auction /\ ~ Over(a) /\ ~ Over(c)
    BY DEF Present, Over
  <1>2. Starts(a) /\ Starts(c)
    BY <1>1 DEF Present, AuctionsRight, AuctionIs
  <1>3. EndsBefore(a, c) \/ EndsBefore(c, a)
    BY <1>1, <1>2, AuctionAssumption DEF Starts
  <1>. QED  BY <1>1, <1>3 DEF Present, AuctionsRight, InTurn

\* However often a block is reviewed again after crashes and errors, there is one auction present at
\* most, and an auction that has been passed is over and has the totals of the chain: behind an
\* importer that leaves no gap, for every chain that holds one auction after the other.
THEOREM AuctionsOfTheChain == Spec => []EndedAuctionsExact
  <1>1. Init => TInv /\ AuctionsInv
    BY InitTInv, InitAuctions
  <1>2. TInv /\ AuctionsInv /\ [Next]_vars => (TInv /\ AuctionsInv)'
    BY TInvKept, AuctionsKept
  <1>3. TInv /\ AuctionsInv => EndedAuctionsExact
    <2>. SUFFICES ASSUME TInv, AuctionsInv, NoGap
                  PROVE  /\ Cardinality(Present) <= 1
                         /\ \A a \in Auction : EndOf(a) <= head => Over(a) /\ TotalsExact(a)
      BY DEF EndedAuctionsExact, OnePresent, Over, TotalsExact
    <2>1. AuctionsRight
      BY DEF AuctionsInv
    <2>2. Cardinality(Present) <= 1
      <3>1. CASE Present = {}
        BY <3>1, FS_EmptySet
      <3>2. CASE Present # {}
        <4>1. PICK a \in Present : TRUE
          BY <3>2
        <4>2. Present = {a}
          BY <2>1, <4>1, PresentOne
        <4>. QED  BY <4>2, FS_Singleton
      <3>. QED  BY <3>1, <3>2
    <2>3. ASSUME NEW a \in Auction, EndOf(a) <= head PROVE Over(a) /\ TotalsExact(a)
      <3>1. head \in Int /\ head <= MaxBlock /\ MaxBlock \in Nat
        BY TypesOfTInv, BlockReviewerAssumption DEF ReviewerTypeOK
      <3>2. Ends(a)
        BY <2>3, <3>1, ChainFact
      <3>3. StartOf(a) <= head
        BY <2>3, <3>1, <3>2, ChainFact
      <3>. QED  BY <2>1, <2>3, <3>2, <3>3, ChainFact DEF AuctionsRight, AuctionIs, Over
    <2>. QED  BY <2>2, <2>3
  <1>. QED  BY <1>1, <1>2, <1>3, PTL DEF Spec
-----------------------------------------------------------------------------
\* A bid the process learns of in time: its block has an operation, and its auction is on.
LEMMA TimelyFact ==
  ASSUME NEW b \in Bid, Timely(b)
  PROVE  /\ BidInfo[b].num \in TxBlock /\ BidInfo[b].num \in Block /\ BidInfo[b].num \in Int
         /\ BidInfo[b].auction \in Auction
         /\ Starts(BidInfo[b].auction) /\ StartOf(BidInfo[b].auction) <= BidInfo[b].num
         /\ BidInfo[b].num < EndOf(BidInfo[b].auction)
         /\ b \in NewAutobids(BidInfo[b].num) => Has(BidInfo[b].num, [op |-> "governing"])
  <1>1. /\ BidInfo[b].num \in Block /\ BidInfo[b].auction \in Auction
        /\ BidInfo[b].num < EndOf(BidInfo[b].auction)
    BY ScriptAssumption DEF Timely
  <1>2. b \in NewAutobids(BidInfo[b].num) => Has(BidInfo[b].num, [op |-> "governing"])
    BY <1>1, AuctionAssumption DEF NewAutobids
  <1>3. BidInfo[b].num \in TxBlock /\ BidInfo[b].num \in Int
    BY <1>1, <1>2, HasFact DEF Timely
  <1>4. PICK m \in Block : m <= BidInfo[b].num /\ StartsIn(m, BidInfo[b].auction)
    BY AuctionAssumption
  <1>5. Starts(BidInfo[b].auction) /\ StartOf(BidInfo[b].auction) <= BidInfo[b].num
    BY <1>1, <1>4, ChainFact
  <1>. QED  BY <1>1, <1>2, <1>3, <1>5

\* The autobids that a governing operation places are those of its block.
LEMMA NewAutobidFact ==
  ASSUME NEW m \in Block, NEW b \in NewAutobids(m)
  PROVE  b \in Bid /\ BidInfo[b].num = m
  <1>1. /\ b \in Bid /\ BidInfo[b].num <= m /\ StartOf(BidInfo[b].auction) <= m
        /\ EndOf(BidInfo[b].auction) > m
        /\ ~ (/\ BidInfo[b].num <= m - 1 /\ StartOf(BidInfo[b].auction) <= m - 1
              /\ EndOf(BidInfo[b].auction) > m - 1)
    BY DEF NewAutobids, AuctionTxs
  <1>2. BidInfo[b].num \in Block /\ BidInfo[b].auction \in Auction
    BY <1>1, ScriptAssumption
  <1>3. PICK k \in Block : k <= BidInfo[b].num /\ StartsIn(k, BidInfo[b].auction)
    BY <1>1, AuctionAssumption
  <1>4. StartOf(BidInfo[b].auction) = k /\ EndOf(BidInfo[b].auction) \in Int
    BY <1>2, <1>3, ChainFact
  <1>5. Block \subseteq Int
    BY BlockReviewerAssumption DEF Block
  <1>6. BidInfo[b].num \in Int /\ m \in Int /\ k \in Int
    BY <1>2, <1>5
  <1>. QED  BY <1>1, <1>3, <1>4, <1>6

LEMMA RigidBids ==
  ASSUME NEW b
  PROVE  Timely(b)' = Timely(b)
  BY DEF Timely, Has, NewAutobids, AuctionTxs, StartOf, EndOf, StartsIn, EndsIn

\* The auction of a bid that is placed in the block under review is the one that is present.
LEMMA ItsAuction ==
  ASSUME TInv, NoGap, AuctionsRight, NEW b \in Bid, Timely(b),
         pc = "work", at \in DOMAIN Script[blk], Script[blk][at] = [op |-> "bid", bid |-> b]
  PROVE  BidInfo[b].num = blk /\ BidInfo[b].auction \in Present
  <1>. PICK a \in Auction : a = BidInfo[b].auction
    BY TimelyFact
  <1>0. blk \in Block /\ blk \in Int /\ at \in Nat
    BY AllBehind, TypesOfTInv
  <1>1. BidInfo[b].num = blk
    BY <1>0, AuctionAssumption DEF Has
  <1>2. Starts(a) /\ StartOf(a) <= blk /\ blk < EndOf(a) /\ EndOf(a) \in Int /\ StartOf(a) \in Int
    BY <1>1, TimelyFact, ChainFact
  <1>3. auctions[a].exists
    <2>1. CASE StartOf(a) < blk
      BY <1>2, <2>1, PastAuctions
    <2>2. CASE StartOf(a) = blk
      <3>1. PICK i \in DOMAIN Script[blk] : Script[blk][i] = [op |-> "start", auction |-> a]
        BY <1>0, <1>2, <2>2, ChainFact DEF StartsIn, Has
      <3>2. i < at
        BY <1>1, <3>1, AuctionAssumption
      <3>3. i \in 1..(at - 1) /\ Op(blk, i) = "start" /\ Script[blk][i].auction = a
        BY <1>0, <3>1, <3>2, ScriptFact DEF Op
      <3>. QED  BY <3>3 DEF TInv, PlaceInv
    <2>. QED  BY <1>0, <1>2, <2>1, <2>2
  <1>4. ~ Over(a)
    BY <1>0, <1>2, PastAuctions
  <1>5. auctions[a].pending \in BOOLEAN
    BY TypesOfTInv DEF RowsTypeOK, AuctionRow
  <1>. QED  BY <1>1, <1>3, <1>4, <1>5 DEF Present, Over

\* What an operation does to a bid: nothing, it closes it, or records it as the chain has it.
Closes(b) == CloseBid /\ it = b /\ bids'[b].num = bids[b].num /\ bids'[b].auction = bids[b].auction
                      /\ ~ bids'[b].pending

Records(b) == /\ ~ Recorded(b)
              /\ bids'[b].num = BidInfo[b].num /\ bids'[b].auction = BidInfo[b].auction
              /\ BidInfo[b].num = blk

LEMMA OperationBids ==
  ASSUME TInv, NoGap, AuctionsRight, NEW b \in Bid, Timely(b), BidIs(b), BidAt(b),
         StartAuction \/ ProcessBid \/ Govern \/ End
  PROVE  bids'[b] = bids[b] \/ Closes(b) \/ Records(b)
  <1>0. /\ pc = "work" /\ blk \in Block /\ at \in DOMAIN Script[blk] /\ bids \in [Bid -> BidRow]
        /\ Behind(blk) /\ blk \in Int /\ head \in Int /\ head < blk
    BY OperationEffect, TypesOfTInv, AllBehind DEF RowsTypeOK, Working
  <1>1. CASE CreateBid
    <2>1. Op(blk, at) = "bid"
      BY <1>1 DEF CreateBid, Doing, Op
    <2>. PICK c \in Bid : c = Script[blk][at].bid
      BY <1>0, <2>1, ScriptFact
    <2>2. Script[blk][at] = [op |-> "bid", bid |-> c]
      BY <1>0, <2>1, RecordFact
    <2>3. PICK a \in Present : bids' = [bids EXCEPT ![c] = [num |-> blk, pending |-> TRUE, auction |-> a]]
      BY <1>1 DEF CreateBid
    <2>4. CASE c = b
      <3>1. BidInfo[b].num = blk /\ a = BidInfo[b].auction
        BY <1>0, <2>2, <2>4, ItsAuction, PresentOne
      <3>2. bids'[b] = [num |-> blk, pending |-> TRUE, auction |-> a]
        BY <1>0, <2>3, <2>4
      <3>3. ~ Recorded(b)
        BY <1>1, <2>4 DEF CreateBid, Recorded
      <3>. QED  BY <3>1, <3>2, <3>3 DEF Records
    <2>5. CASE c # b
      BY <1>0, <2>3, <2>5
    <2>. QED  BY <2>4, <2>5
  <1>2. ASSUME NEW c \in Bid, FindOrCreate(c), c = b /\ ~ Recorded(b) => BidInfo[b].num = blk
        PROVE  bids'[b] = bids[b] \/ Records(b)
    BY <1>0, <1>2 DEF FindOrCreate, Records, Recorded
  <1>3. ASSUME NEW c \in Bid, Autobid(c)
        PROVE  bids'[b] = bids[b] \/ Records(b)
    <2>1. c \in NewAutobids(blk)
      BY <1>0, <1>3 DEF Autobid, Doing, TInv, PlaceInv
    <2>2. BidInfo[c].num = blk
      BY <1>0, <2>1, NewAutobidFact
    <2>. QED  BY <1>2, <1>3, <2>2 DEF Autobid
  <1>4. ASSUME NEW c \in Bid, FindBid(c)
        PROVE  bids'[b] = bids[b] \/ Records(b)
    <2>. SUFFICES ASSUME c = b PROVE Recorded(b)
      BY <1>0, <1>4 DEF FindBid, FindOrCreate, Recorded
    <2>1. Op(blk, at) = "end" /\ step = "close" /\ b \in todo
      BY <1>4 DEF FindBid, Doing, Op
    <2>2. b \in SummaryTxs(Script[blk][at].auction)
      BY <1>0, <2>1 DEF BidAt
    <2>3. BidInfo[b].auction = Script[blk][at].auction /\ BidInfo[b].auction \in Auction
      BY <2>2, TimelyFact DEF SummaryTxs
    <2>4. EndOf(BidInfo[b].auction) = blk
      BY <1>0, <2>1, <2>3, StartsEndsFact
    <2>5. BidInfo[b].num < blk /\ BidInfo[b].num \in TxBlock
      BY <2>4, TimelyFact
    <2>6. BidInfo[b].num <= head
      BY <1>0, <2>5 DEF Behind
    <2>. QED  BY <2>6 DEF BidIs
  <1>5. CASE CloseBid
    BY <1>0, <1>5 DEF CloseBid, Closes, BidRow
  <1>6. CASE StartAuction \/ AddToTotals \/ RefreshAuction \/ RewardAutobid \/ AutobidsDone
             \/ SaveValidatorReward \/ SaveEpochSummary \/ AlreadyEnded \/ EndSummary \/ EndAuction
             \/ \E v \in Validator : RewardValidator(v)
    BY <1>6 DEF StartAuction, AddToTotals, RefreshAuction, RewardAutobid, AutobidsDone, SaveValidatorReward,
                SaveEpochSummary, AlreadyEnded, EndSummary, EndAuction, RewardValidator, db
  <1>. QED  BY <1>1, <1>3, <1>4, <1>5, <1>6 DEF ProcessBid, Govern, End

\* The autobids that are through are those that were, and the one whose reward is given.
LEMMA GivenGrows ==
  ASSUME TInv, NEW b \in Bid, StartAuction \/ ProcessBid \/ Govern \/ End, b \in Given(blk)'
  PROVE  b \in Given(blk) \/ (step = "reward" /\ it = b)
  <1>0. /\ UNCHANGED <<pc, blk>> /\ pc = "work" /\ blk \in Block /\ at \in DOMAIN Script[blk] /\ At(blk)
        /\ (at' = at \/ at' = at + 1)
    BY OperationsQuiet, OperationEffect, TypesOfTInv DEF shared, reviewer, Working, At
  <1>1. /\ b \in Payees(blk)
        /\ \/ Done(blk)'
           \/ step' \in {"autobid", "reward"} /\ b \notin todo'
           \/ step' = "transfer" /\ b \notin todo'
           \/ step' = "epoch"
    BY <1>0 DEF Given, Payees, NewAutobids, AuctionTxs
  <1>2. b \in NewAutobids(blk) /\ b \notin Validator
    BY <1>1, ScriptAssumption DEF Payees
  <1>3. Done(blk) => b \in Given(blk)
    BY <1>0, <1>1 DEF Given
  <1>4. AtStep
    BY <1>0 DEF TInv, PlaceInv, AtStep
  <1>5. CASE StartAuction \/ ProcessBid \/ End
    <2>1. Op(blk, at) # "governing"
      BY <1>5 DEF StartAuction, ProcessBid, CreateBid, AddToTotals, End, AlreadyEnded, EndSummary, FindBid,
                  CloseBid, EndAuction, Doing, Op
    <2>2. step' \notin Governing
      BY <2>1, OtherRewards
    <2>3. Done(blk)' => Done(blk)
      BY <2>1, DoneFact DEF Governs
    <2>. QED  BY <1>1, <1>3, <2>2, <2>3 DEF Governing
  <1>6. CASE Govern
    <2>1. Done(blk)' => Done(blk) \/ at' = at + 1
      BY DoneFact
    <2>2. CASE RefreshAuction
      <3>1. at' = at /\ step' = "autobid" /\ todo' = NewAutobids(blk)
        BY <2>2 DEF RefreshAuction
      <3>2. Done(blk)' => Done(blk)
        BY <1>0, <3>1 DEF Done, Governs, Op
      <3>. QED  BY <1>1, <1>2, <1>3, <3>1, <3>2
    <2>3. CASE \E c \in Bid : Autobid(c)
      <3>1. at' = at /\ step = "autobid" /\ step' = "reward" /\ todo' = todo
        BY <2>3 DEF Autobid, Doing
      <3>2. Done(blk)' => Done(blk)
        BY <1>0, <3>1 DEF Done, Governs, Op
      <3>. QED  BY <1>0, <1>1, <1>3, <3>1, <3>2 DEF Given
    <2>4. CASE RewardAutobid
      <3>1. at' = at /\ step = "reward" /\ step' = "autobid" /\ todo' = todo \ {it}
        BY <2>4 DEF RewardAutobid, Doing
      <3>2. Done(blk)' => Done(blk)
        BY <1>0, <3>1 DEF Done, Governs, Op
      <3>. QED  BY <1>0, <1>1, <1>3, <3>1, <3>2 DEF Given
    <2>5. CASE AutobidsDone
      BY <1>0, <1>1, <2>5 DEF AutobidsDone, Doing, Given
    <2>6. CASE \/ \E v \in Validator : RewardValidator(v)
               \/ SaveValidatorReward \/ SaveEpochSummary
      <3>1. step = "transfer" \/ step = "epoch"
        BY <2>6 DEF RewardValidator, SaveValidatorReward, SaveEpochSummary, Doing
      <3>2. step = "transfer" => b \notin todo
        BY <1>2, <1>4 DEF AtStep
      <3>. QED  BY <1>0, <1>1, <3>1, <3>2 DEF Given
    <2>. QED  BY <1>6, <2>2, <2>3, <2>4, <2>5, <2>6 DEF Govern
  <1>. QED  BY <1>5, <1>6

LEMMA OperationsKeepBids ==
  ASSUME TInv, NoGap, AuctionsRight, NEW b \in Bid, Timely(b), BidIs(b), BidAt(b),
         StartAuction \/ ProcessBid \/ Govern \/ End
  PROVE  BidIs(b)' /\ BidAt(b)'
  <1>0. /\ UNCHANGED <<head, pc, blk>> /\ pc = "work" /\ blk \in Block /\ at \in DOMAIN Script[blk]
        /\ at \in Nat /\ blk \in Int /\ head \in Int /\ Behind(blk)
        /\ at' = at \/ (at' = at + 1 /\ step' = "begin")
    BY OperationsQuiet, OperationEffect, TypesOfTInv, AllBehind DEF shared, reviewer, Working
  <1>1. bids'[b] = bids[b] \/ Closes(b) \/ Records(b)
    BY OperationBids
  <1>2. Recorded(b) => Recorded(b)'
    BY OperationEffect DEF Recorded
  <1>3. PICK a \in Auction : a = BidInfo[b].auction
    BY TimelyFact
  <1>4. BidIs(b)'
    <2>1. Recorded(b)' => bids'[b].num = BidInfo[b].num /\ bids'[b].auction = BidInfo[b].auction
      BY <1>1 DEF BidIs, Recorded, Closes, Records
    <2>2. BidInfo[b].num <= head' => Recorded(b)'
      BY <1>0, <1>2 DEF BidIs
    <2>3. ASSUME Over(a)' PROVE Recorded(b)' /\ ~ bids'[b].pending
      <3>1. CASE Over(a)
        BY <1>1, <1>2, <1>3, <3>1 DEF BidIs, Closes, Records
      <3>2. CASE ~ Over(a)
        <4>1. EndAuction /\ a = Script[blk][at].auction
          <5>1. auctions \in [Auction -> AuctionRow]
            BY TypesOfTInv DEF RowsTypeOK
          <5>2. CASE StartAuction
            BY <1>3, <2>3, <3>2, <5>1, <5>2 DEF StartAuction, NoAuction, Over
          <5>3. CASE AddToTotals
            BY <1>3, <2>3, <3>2, <5>1, <5>3 DEF AddToTotals, WithBid, AuctionRow, Present, Over
          <5>4. CASE RefreshAuction
            BY <1>3, <2>3, <3>2, <5>1, <5>4 DEF RefreshAuction, AuctionRow, Over
          <5>5. CASE CreateBid \/ RewardAutobid \/ AutobidsDone \/ SaveValidatorReward \/ SaveEpochSummary
                     \/ AlreadyEnded \/ EndSummary \/ CloseBid
                     \/ (\E c \in Bid : Autobid(c) \/ FindBid(c)) \/ (\E v \in Validator : RewardValidator(v))
            <6>1. UNCHANGED auctions
              BY <5>5 DEF CreateBid, RewardAutobid, AutobidsDone, SaveValidatorReward, SaveEpochSummary,
                          AlreadyEnded, EndSummary, CloseBid, Autobid, FindBid, RewardValidator, db
            <6>. QED  BY <2>3, <3>2, <6>1 DEF Over
          <5>6. CASE EndAuction
            BY <1>3, <2>3, <3>2, <5>1, <5>6 DEF EndAuction, Over
          <5>. QED  BY <5>2, <5>3, <5>4, <5>5, <5>6 DEF ProcessBid, Govern, End
        <4>2. Op(blk, at) = "end" /\ step = "close" /\ todo = {} /\ UNCHANGED bids
          BY <4>1 DEF EndAuction, Doing, Op
        <4>3. b \in SummaryTxs(Script[blk][at].auction)
          BY <1>3, <4>1 DEF SummaryTxs
        <4>4. ~ bids[b].pending
          BY <1>0, <4>2, <4>3 DEF BidAt
        <4>5. EndOf(a) = blk
          BY <1>0, <4>1, <4>2, StartsEndsFact
        <4>6. BidInfo[b].num < blk /\ BidInfo[b].num \in TxBlock
          BY <1>3, <4>5, TimelyFact
        <4>7. BidInfo[b].num <= head
          BY <4>6, <1>0 DEF Behind
        <4>. QED  BY <1>2, <4>2, <4>4, <4>7 DEF BidIs
      <3>. QED  BY <3>1, <3>2
    <2>. QED  BY <1>3, <2>1, <2>2, <2>3 DEF BidIs, Over
  <1>5. ASSUME NEW j \in DOMAIN Script[blk], Script[blk][j] = [op |-> "bid", bid |-> b],
               j < at' \/ (j = at' /\ step' = "total")
        PROVE  Recorded(b)'
    <2>0. j \in Int
      BY <1>0, ScriptFact
    <2>1. CASE j < at
      BY <1>0, <1>2, <1>5, <2>1 DEF BidAt
    <2>2. CASE j = at
      <3>1. Op(blk, at) = "bid" /\ Script[blk][at].bid = b
        BY <1>5, <2>2 DEF Op
      <3>2. CASE CreateBid
        <4>1. bids \in [Bid -> BidRow] /\ blk # -1
          BY <1>0, TypesOfTInv, AllBehind, BlockReviewerAssumption DEF RowsTypeOK, Block
        <4>. QED  BY <3>1, <3>2, <4>1 DEF CreateBid, Recorded
      <3>3. CASE AddToTotals
        BY <1>0, <1>2, <1>5, <2>2, <3>3 DEF AddToTotals, Doing, BidAt
      <3>4. CASE StartAuction \/ Govern \/ End
        BY <3>1, <3>4 DEF StartAuction, Govern, RefreshAuction, Autobid, RewardAutobid, AutobidsDone,
                          RewardValidator, SaveValidatorReward, SaveEpochSummary, End, AlreadyEnded, EndSummary,
                          FindBid, CloseBid, EndAuction, Doing, Op
      <3>. QED  BY <3>2, <3>3, <3>4 DEF ProcessBid
    <2>. QED  BY <1>0, <1>5, <2>0, <2>1, <2>2
  <1>6. b \in Given(blk)' => Recorded(b)'
    BY <1>0, <1>2, GivenGrows DEF BidAt
  <1>7. ASSUME step' = "reward", it' = b PROVE Recorded(b)'
    <2>1. Autobid(b)
      BY <1>7 DEF StartAuction, ProcessBid, CreateBid, AddToTotals, Govern, RefreshAuction, Autobid, RewardAutobid,
                  AutobidsDone, RewardValidator, SaveValidatorReward, SaveEpochSummary, End, AlreadyEnded,
                  EndSummary, FindBid, CloseBid, EndAuction, GoOn, NextOperation, Doing
    <2>2. bids \in [Bid -> BidRow] /\ blk # -1
      BY <1>0, TypesOfTInv, AllBehind, BlockReviewerAssumption DEF RowsTypeOK, Block
    <2>. QED  BY <2>1, <2>2 DEF Autobid, FindOrCreate, Recorded
  <1>8. ASSUME at' \in DOMAIN Script[blk], Op(blk, at') = "end", step' \in {"close", "closing"}
        PROVE  /\ b \in todo' => b \in SummaryTxs(Script[blk][at'].auction)
               /\ b \in SummaryTxs(Script[blk][at'].auction) /\ b \notin todo' => ~ bids'[b].pending
    <2>1. at' = at
      BY <1>0, <1>8
    <2>2. CASE EndSummary
      BY <2>1, <2>2 DEF EndSummary
    <2>3. CASE \E c \in Bid : FindBid(c)
      <3>1. PICK c \in Bid : FindBid(c)
        BY <2>3
      <3>2. step = "close" /\ Op(blk, at) = "end" /\ todo' = todo /\ c \in todo
        BY <3>1 DEF FindBid, Doing, Op
      <3>3. b \notin todo => bids'[b] = bids[b]
        BY <3>1, <3>2 DEF FindBid, FindOrCreate
      <3>. QED  BY <1>0, <2>1, <3>2, <3>3 DEF BidAt
    <2>4. CASE CloseBid
      <3>1. step = "closing" /\ Op(blk, at) = "end" /\ todo' = todo \ {it}
            /\ bids' = [bids EXCEPT ![it].pending = FALSE]
        BY <2>4 DEF CloseBid, Doing, Op
      <3>2. bids \in [Bid -> BidRow]
        BY TypesOfTInv DEF RowsTypeOK
      <3>3. b # it => bids'[b] = bids[b]
        BY <3>1, <3>2
      <3>4. b = it => ~ bids'[b].pending
        BY <3>1, <3>2 DEF BidRow
      <3>. QED  BY <1>0, <2>1, <3>1, <3>3, <3>4 DEF BidAt
    <2>5. CASE StartAuction \/ ProcessBid \/ Govern \/ AlreadyEnded \/ EndAuction
      <3>1. step' \notin {"close", "closing"}
        BY <2>5 DEF StartAuction, ProcessBid, CreateBid, AddToTotals, Govern, RefreshAuction, Autobid, RewardAutobid,
                    AutobidsDone, RewardValidator, SaveValidatorReward, SaveEpochSummary, AlreadyEnded,
                    EndAuction, GoOn, NextOperation, Doing
      <3>. QED  BY <1>8, <3>1
    <2>. QED  BY <2>2, <2>3, <2>4, <2>5 DEF End
  <1>9. BidAt(b)'
    BY <1>0, <1>5, <1>6, <1>7, <1>8 DEF BidAt, Op, SummaryTxs
  <1>. QED  BY <1>4, <1>9

\* The cleanup takes bids away that were made above the head: none of an auction that is over.
LEMMA CleanUpKeepsBids ==
  ASSUME TInv, AuctionsRight, CleanUp, NEW b \in Bid, Timely(b), BidIs(b)
  PROVE  BidIs(b)' /\ BidAt(b)'
  <1>0. /\ UNCHANGED head /\ head \in Int /\ pc' # "work" /\ auctions \in [Auction -> AuctionRow]
    BY TypesOfTInv DEF CleanUp, ReviewerTypeOK, RowsTypeOK
  <1>1. PICK a \in Auction : a = BidInfo[b].auction
    BY TimelyFact
  <1>2. Over(a)' => Over(a)
    <2>1. CASE UNCHANGED auctions
      BY <2>1 DEF Over
    <2>2. CASE DeleteAuctions
      BY <2>2 DEF DeleteAuctions, NoAuction, Over
    <2>. QED  BY <2>1, <2>2 DEF CleanUp, DeleteBids, DeleteSummaries, DeleteRewards, DeleteEpochs
  <1>3. Over(a) => BidInfo[b].num <= head
    <2>. SUFFICES ASSUME Over(a) PROVE BidInfo[b].num <= head
      OBVIOUS
    <2>1. Behind(EndOf(a))
      BY DEF AuctionsRight, AuctionIs
    <2>2. BidInfo[b].num \in TxBlock /\ BidInfo[b].num < EndOf(a)
      BY <1>1, TimelyFact
    <2>. QED  BY <2>1, <2>2 DEF Behind
  <1>4. bids'[b] = bids[b] \/ (bids'[b] = NoBid /\ Recorded(b) /\ ~ (BidInfo[b].num <= head))
    <2>1. CASE UNCHANGED bids
      BY <2>1
    <2>2. CASE DeleteBids
      <3>1. bids'[b] = IF bids[b].num <= head THEN bids[b] ELSE NoBid
        BY <2>2 DEF DeleteBids, Stays
      <3>2. bids[b].num = -1 => bids[b].num <= head
        BY TypesOfTInv DEF ReviewerTypeOK
      <3>. QED  BY <3>1, <3>2 DEF BidIs, Recorded
    <2>. QED  BY <2>1, <2>2 DEF CleanUp, DeleteAuctions, DeleteSummaries, DeleteRewards, DeleteEpochs
  <1>5. NoBid.num = -1
    BY DEF NoBid
  <1>6. BidIs(b)'
    BY <1>0, <1>1, <1>2, <1>3, <1>4, <1>5 DEF BidIs, Recorded, Over
  <1>. QED  BY <1>0, <1>6 DEF BidAt

\* The loop moves the head over a block when all its bids are recorded, and begins the next one anew.
LEMMA LoopKeepsBids ==
  ASSUME TInv, NoGap, [Next]_vars, UNCHANGED <<auctions, bids>>, NEW b \in Bid, Timely(b), BidIs(b), BidAt(b),
         \/ StartUp \/ Turn \/ BlockDone \/ RetryRefused \/ CallFails \/ Crash
         \/ PosImport \/ UNCHANGED vars
  PROVE  BidIs(b)' /\ BidAt(b)'
  <1>1. BidInfo[b].num \in TxBlock /\ BidInfo[b].num \in Block
    BY TimelyFact
  <1>2. BidInfo[b].num <= head' => BidInfo[b].num <= head \/ (BlockDone /\ BidInfo[b].num = blk)
    BY <1>1, HeadOnward
  <1>3. ASSUME BlockDone, BidInfo[b].num = blk PROVE Recorded(b)
    <2>1. /\ pc = "work" /\ at > Len(Script[blk]) /\ at \in Nat /\ blk \in Block
          /\ \A i \in DOMAIN Script[blk] : i < at /\ i \in 1..(at - 1)
      BY <1>3, TypesOfTInv DEF BlockDone, Reviewed
    <2>2. CASE Has(blk, [op |-> "bid", bid |-> b])
      BY <2>1, <2>2 DEF Has, BidAt
    <2>3. CASE b \in NewAutobids(blk)
      <3>1. PICK i \in DOMAIN Script[blk] : Script[blk][i] = [op |-> "governing"]
        BY <1>3, <2>3, TimelyFact DEF Has
      <3>2. Done(blk)
        BY <2>1, <3>1 DEF Done, Governs, Op
      <3>3. b \in Given(blk)
        BY <2>1, <2>3, <3>2 DEF Given, Payees, At
      <3>. QED  BY <2>1, <3>3 DEF BidAt
    <2>. QED  BY <1>3, <2>2, <2>3 DEF Timely
  <1>4. BidIs(b)'
    BY <1>2, <1>3 DEF BidIs, Recorded, Over
  <1>5. BidAt(b)'
    <2>1. CASE StartUp \/ BlockDone \/ RetryRefused \/ CallFails \/ Crash
      BY <2>1 DEF StartUp, BeforeStart, BlockDone, Reviewed, RetryRefused, CallFails, Retry, Crash, BidAt
    <2>2. CASE Turn
      <3>1. at' = 1 /\ step' = "begin"
        BY <2>2 DEF Turn, Fresh
      <3>2. ASSUME pc' = "work" PROVE blk' \in Block
        <4>1. TInv'
          BY TInvKept
        <4>. QED  BY <4>1 DEF TInv, RInv, ReviewerTypeOK
      <3>3. pc' = "work" => \A j \in DOMAIN Script[blk'] : ~ (j < 1)
        BY <3>2, ScriptFact
      <3>4. b \notin Given(blk)'
        BY <3>1 DEF Given, Done
      <3>. QED  BY <3>1, <3>3, <3>4 DEF BidAt
    <2>3. CASE PosImport \/ UNCHANGED vars
      <3>1. UNCHANGED <<pc, blk, at, step, todo, it, bids>>
        BY <2>3 DEF PosImport, vars, reviewer, local, db
      <3>2. Given(blk)' = Given(blk)
        BY <3>1 DEF Given, Payees, NewAutobids, AuctionTxs, At, Done, Governs, Op
      <3>. QED  BY <3>1, <3>2 DEF BidAt, Recorded, Op, SummaryTxs
    <2>. QED  BY <2>1, <2>2, <2>3
  <1>. QED  BY <1>4, <1>5

LEMMA BidsKept == TInv /\ AuctionsInv /\ BidsInv /\ [Next]_vars => BidsInv'
  <1>. SUFFICES ASSUME TInv, AuctionsInv, BidsInv, [Next]_vars, NoGap', NEW b \in Bid, Timely(b)
                PROVE  BidIs(b)' /\ BidAt(b)'
    BY RigidBids DEF BidsInv
  <1>1. NoGap /\ AuctionsRight /\ BidIs(b) /\ BidAt(b)
    BY NoGapBefore DEF AuctionsInv, BidsInv
  <1>2. CASE StartAuction \/ ProcessBid \/ Govern \/ End
    BY <1>1, <1>2, OperationsKeepBids
  <1>3. CASE CleanUp
    BY <1>1, <1>3, CleanUpKeepsBids
  <1>4. CASE \/ StartUp \/ Turn \/ BlockDone \/ RetryRefused \/ CallFails \/ Crash
             \/ PosImport \/ UNCHANGED vars
    <2>1. UNCHANGED <<auctions, bids>>
      BY <1>4 DEF StartUp, Turn, BlockDone, RetryRefused, CallFails, Crash, PosImport, vars, db
    <2>. QED  BY <1>1, <1>4, <2>1, LoopKeepsBids
  <1>. QED  BY <1>2, <1>3, <1>4 DEF Next, Program

LEMMA InitBids == Init => BidsInv
  <1>. SUFFICES ASSUME Init, NEW b \in Bid, Timely(b) PROVE BidIs(b) /\ BidAt(b)
    BY DEF BidsInv
  <1>1. /\ auctions = [a \in Auction |-> NoAuction] /\ ~ NoAuction.exists
        /\ bids[b] = NoBid /\ NoBid.num = -1 /\ head = -1 /\ pc = "down"
    BY DEF Init, ReviewerInit, NoAuction, NoBid
  <1>2. BidInfo[b].num \in TxBlock /\ BidInfo[b].auction \in Auction
    BY TimelyFact
  <1>3. ~ (BidInfo[b].num <= head)
    <2>1. \A n \in TxBlock : n \in Int /\ n >= 1
      BY BlockReviewerAssumption
    <2>. QED  BY <1>1, <1>2, <2>1
  <1>. QED  BY <1>1, <1>2, <1>3 DEF BidIs, BidAt, Recorded, Over

\* Crashes and errors between a bid, its auction and the head leave no bid out that the process
\* learns of before its auction ends, put none in another auction, and leave none pending behind the
\* end of the auction: behind an importer that leaves no gap, for every chain and number of faults.
THEOREM BidsOfTheChain == Spec => []BidsRecorded
  <1>1. Init => TInv /\ AuctionsInv /\ BidsInv
    BY InitTInv, InitAuctions, InitBids
  <1>2. TInv /\ AuctionsInv /\ BidsInv /\ [Next]_vars => (TInv /\ AuctionsInv /\ BidsInv)'
    BY TInvKept, AuctionsKept, BidsKept
  <1>3. TInv /\ AuctionsInv /\ BidsInv => BidsRecorded
    <2>. SUFFICES ASSUME TInv, AuctionsInv, BidsInv, NoGap, NEW b \in Bid,
                         BidInfo[b].num <= head, SeenIn(b) < EndOf(BidInfo[b].auction)
                  PROVE  /\ bids[b].num = BidInfo[b].num
                         /\ bids[b].auction = BidInfo[b].auction
                         /\ EndOf(BidInfo[b].auction) <= head => ~ bids[b].pending
      BY DEF BidsRecorded
    <2>0. PICK a \in Auction : a = BidInfo[b].auction
      BY ScriptAssumption
    <2>1. Timely(b)
      <3>1. EndOf(a) \in Int
        BY ChainFact
      <3>. QED  BY <2>0, <3>1 DEF Timely, SeenIn
    <2>2. BidIs(b) /\ Recorded(b)
      BY <2>1 DEF BidsInv, BidIs
    <2>3. ASSUME EndOf(a) <= head PROVE Over(a)
      <3>1. head \in Int /\ head <= MaxBlock /\ MaxBlock \in Nat
        BY TypesOfTInv, BlockReviewerAssumption DEF ReviewerTypeOK
      <3>2. Ends(a)
        BY <2>3, <3>1, ChainFact
      <3>3. Starts(a) /\ StartOf(a) <= head
        BY <2>3, <3>1, <3>2, ChainFact
      <3>. QED  BY <2>3, <3>2, <3>3 DEF AuctionsInv, AuctionsRight, AuctionIs, Over
    <2>. QED  BY <2>0, <2>2, <2>3 DEF BidIs
  <1>. QED  BY <1>1, <1>2, <1>3, PTL DEF Spec
=============================================================================
