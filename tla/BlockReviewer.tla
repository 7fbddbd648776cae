---------------------------- MODULE BlockReviewer ----------------------------
(***************************************************************************)
(* The loop of TxBlockReviewer (src/src/cmd/blockReviewer.ts): a process   *)
(* of its own that follows the head of the PoS import, one block behind,   *)
(* and hands every block with a transaction to processBlock, in order.     *)
(* It has a head document too, which it moves after each block.            *)
(*                                                                         *)
(* The importer is its environment and is taken at its word: AtomicImport  *)
(* says that blocks the head of pos has passed are complete and stay as    *)
(* they are.  What processBlock does is left to a module that extends this *)
(* one.                                                                    *)
(***************************************************************************)
EXTENDS AtomicImport

CONSTANTS
  Window,      \* LOOP_WINDOW: how far a round looks ahead
  TxBlock      \* the blocks that contain a transaction

ASSUME BlockReviewerAssumption ==
  /\ MaxBlock \in Nat
  /\ Window \in Nat \ {0}
  /\ TxBlock \subseteq 1..MaxBlock

VARIABLES
  head,     \* the number in the reviewer's head document, -1 if there is none
  pc,       \* what the process is doing; the rest of the process is lost in a crash
  num,      \* the block reviewed last in this round
  endNum,   \* the last block of the round
  blk       \* the block under review

reviewer == <<pc, num, endNum, blk>>

ReviewerTypeOK ==
  /\ AbsTypeOK
  /\ head \in -1..MaxBlock
  /\ pc \in {"down", "clean", "idle", "scan", "work"}
  /\ num \in Block
  /\ endNum \in Block
  /\ blk \in Block

ReviewerInit ==
  /\ AbsInit
  /\ head = -1
  /\ pc = "down" /\ num = 0 /\ endNum = 0 /\ blk = 0

\* The head of pos itself is left alone: localBestNum is one less.
LocalBest == IF tip = -1 THEN 0 ELSE tip - 1

NoGenesis == head \in {-1, 0} /\ 0 \notin visible

\* beforeStart.
BeforeStart ==
  /\ pc = "down"
  /\ ~ NoGenesis
  /\ head' = IF head = -1 THEN 0 ELSE head
  /\ pc' = "clean"
  /\ UNCHANGED <<num, endNum, blk>>

\* Without the genesis block the process takes a nap and exits, to be started again.
QuitWithoutGenesis ==
  /\ pc = "down"
  /\ NoGenesis
  /\ UNCHANGED <<head, reviewer>>

\* Without the look at the other head.
BugRoundEnd == head + Window

\* The end of the window, or the local best block.
RoundEnd == IF head + Window > LocalBest THEN LocalBest ELSE head + Window

BeginReview ==
  /\ pc = "idle"
  /\ head <= RoundEnd
  /\ endNum' = RoundEnd
  /\ num' = head
  /\ pc' = "scan"
  /\ UNCHANGED <<head, blk>>

\* The reviewer is ahead of the importer: look again later.
SkipReview ==
  /\ pc = "idle"
  /\ head > RoundEnd
  /\ UNCHANGED <<head, reviewer>>

\* The last block of the window is left out.
BugToReview == { n \in TxBlock \cap visible : num < n /\ n < endNum }

\* findBlockWithTxFrom(num) finds the first of these, if any; the rest is for a later round.
ToReview == { n \in TxBlock \cap visible : num < n /\ n <= endNum }

NextBlock ==
  /\ pc = "scan"
  /\ \E n \in ToReview : (\A m \in ToReview : n <= m) /\ blk' = n
  /\ pc' = "work"
  /\ UNCHANGED <<head, num, endNum>>

\* The head moves to the end of the window.
NothingToProcess ==
  /\ pc = "scan"
  /\ ToReview = {}
  /\ endNum \in visible
  /\ head' = endNum
  /\ pc' = "idle"
  /\ UNCHANGED <<num, endNum, blk>>

\* The importer has no block of that number: the loop stumbles over null and tries again.
EmptyEndBlock ==
  /\ pc = "scan"
  /\ ToReview = {}
  /\ endNum \notin visible
  /\ pc' = "idle"
  /\ UNCHANGED <<head, num, endNum, blk>>

\* After processBlock: the head moves to the block.
Reviewed ==
  /\ pc = "work"
  /\ head' = blk
  /\ num' = blk
  /\ pc' = "scan"
  /\ UNCHANGED <<endNum, blk>>

\* The catch clause: sleep and begin a new round; nothing is cleaned up.
Retry ==
  /\ pc \in {"idle", "scan", "work"}
  /\ pc' = "idle"
  /\ UNCHANGED <<head, num, endNum, blk>>

Loop == BeginReview \/ SkipReview \/ NextBlock \/ NothingToProcess \/ EmptyEndBlock

\* Where the reviewer's head is when it has nothing left to do.
CaughtUp == IF tip < 1 THEN tip ELSE tip - 1

NoGap == visible = 0..tip

\* No block with a transaction is passed over: the head comes to a block the importer has stored,
\* or past it, only by reviewing that very block, whatever crashes, retries and moves of the other
\* head come in between.
NoBlockSkipped ==
  [][ \A n \in TxBlock \cap visible :
        head < n /\ n <= head' => pc = "work" /\ blk = n ]_<<head, tip, visible, reviewer>>
=============================================================================
