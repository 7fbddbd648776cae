---------------------------- MODULE RebaseSender ----------------------------
(***************************************************************************)
(* The rebase process: the loop of TxBlockListener                         *)
(* (src/src/cmd/blockListener.ts) and what RebaseCMD                       *)
(* (src/src/cmd/rebase.cmd.ts) does with a block.  It follows the head of  *)
(* the PoS import one block behind, and answers the end of an auction with *)
(* two transactions to the chain: rebase, and sync of the trading pair.    *)
(*                                                                         *)
(* The loop is older than that of BlockReviewer: it begins at the          *)
(* importer's head instead of the genesis block, cleans up nothing, and an *)
(* error ends the process.  Whoever started it may start it again: no      *)
(* compose file of the repository does.                                    *)
(*                                                                         *)
(* The importer is AtomicImport.  An auction ends at most once in a block. *)
(***************************************************************************)
EXTENDS AtomicImport

CONSTANTS
  Window,       \* LOOP_WINDOW: how far a round looks ahead
  TxBlock,      \* the blocks that contain a transaction
  AuctionEnd,   \* the blocks in which an auction ends
  FarBehind,    \* 100: an auction so many blocks behind the importer is left alone
  Stops,        \* how often the process may end by a crash or an error
  SendErrors    \* how often sending a transaction may fail

ASSUME RebaseAssumption ==
  /\ MaxBlock \in Nat
  /\ Window \in Nat \ {0}
  /\ TxBlock \subseteq 1..MaxBlock
  /\ AuctionEnd \subseteq TxBlock
  /\ FarBehind \in Nat
  /\ Stops \in Nat /\ SendErrors \in Nat

VARIABLES
  head,       \* the number in the head of rebase, -1 if there is none
  born,       \* where that head was created, -1 if it was not
  pc,         \* what the process is doing
  num,        \* the block reviewed last in this round
  endNum,     \* the last block of the round
  blk,        \* the block under review
  rebases,    \* the rebase transactions on the chain, by the block they answer
  syncs,      \* the sync transactions
  stops,      \* how often the process has ended
  sendErrors  \* how often sending has failed

local == <<pc, num, endNum, blk>>
sent == <<rebases, syncs>>
faults == <<stops, sendErrors>>
rebaseVars == <<absVars, head, born, local, sent, faults>>

RebaseTypeOK ==
  /\ AbsTypeOK
  /\ head \in -1..MaxBlock /\ born \in -1..MaxBlock
  /\ pc \in {"down", "idle", "scan", "work", "rebase", "sync", "done"}
  /\ num \in Block /\ endNum \in -1..MaxBlock /\ blk \in Block
  /\ rebases \in [AuctionEnd -> Nat] /\ syncs \in [AuctionEnd -> Nat]
  /\ stops \in 0..Stops /\ sendErrors \in 0..SendErrors

RebaseInit ==
  /\ AbsInit
  /\ head = -1 /\ born = -1
  /\ pc = "down" /\ num = 0 /\ endNum = 0 /\ blk = 0
  /\ rebases = [n \in AuctionEnd |-> 0] /\ syncs = [n \in AuctionEnd |-> 0]
  /\ stops = 0 /\ sendErrors = 0

---------------------------------------------------------------------------
(* The loop. *)

StartRebase ==
  /\ pc = "down"
  /\ pc' = "idle"
  /\ UNCHANGED <<absVars, head, born, num, endNum, blk, sent, faults>>

\* The fields of null: the process ends.
NoPosHead ==
  /\ pc = "idle"
  /\ tip = -1
  /\ pc' = "down"
  /\ UNCHANGED <<absVars, head, born, num, endNum, blk, sent, faults>>

LocalBest == tip - 1

\* What beforeStart would have done, which is no longer called.
BugFrom == tip

\* From where the rebase process has got to, or from the importer's head if it is new.
From == IF head = -1 THEN tip ELSE head

\* The window alone.
BugRoundEnd == From + Window

RoundEnd == IF From + Window > LocalBest THEN LocalBest ELSE From + Window

\* A process that is ahead sleeps a little longer and goes on all the same.
BeginReview ==
  /\ pc = "idle"
  /\ tip # -1
  /\ head' = From
  /\ born' = IF head = -1 THEN tip ELSE born
  /\ num' = From
  /\ endNum' = RoundEnd
  /\ pc' = "scan"
  /\ UNCHANGED <<absVars, blk, sent, faults>>

\* The last block of the window is left out.
BugToReview == { n \in TxBlock \cap visible : num < n /\ n < endNum }

\* findBlockWithTxFrom(num) finds the first of these, if any.
ToReview == { n \in TxBlock \cap visible : num < n /\ n <= endNum }

NextBlock ==
  /\ pc = "scan"
  /\ \E n \in ToReview : (\A m \in ToReview : n <= m) /\ blk' = n
  /\ pc' = "work"
  /\ UNCHANGED <<absVars, head, born, num, endNum, sent, faults>>

\* The head moves to the end of the round, which may be behind it.
NothingToProcess ==
  /\ pc = "scan"
  /\ ToReview = {}
  /\ endNum \in visible
  /\ head' = endNum
  /\ pc' = "idle"
  /\ UNCHANGED <<absVars, born, num, endNum, blk, sent, faults>>

\* The importer has no block of that number: the fields of null again.
EmptyEndBlock ==
  /\ pc = "scan"
  /\ ToReview = {}
  /\ endNum \notin visible
  /\ pc' = "down"
  /\ UNCHANGED <<absVars, head, born, num, endNum, blk, sent, faults>>

\* Any distance.
BugTooLate == tip > blk

TooLate == tip > blk + FarBehind

ProcessTx ==
  /\ pc = "work"
  /\ pc' = IF blk \in AuctionEnd /\ ~ TooLate THEN "rebase" ELSE "done"
  /\ UNCHANGED <<absVars, head, born, num, endNum, blk, sent, faults>>

SendRebase ==
  /\ pc = "rebase"
  /\ rebases' = [rebases EXCEPT ![blk] = @ + 1]
  /\ pc' = "sync"
  /\ UNCHANGED <<absVars, head, born, num, endNum, blk, syncs, faults>>

SendSync ==
  /\ pc = "sync"
  /\ syncs' = [syncs EXCEPT ![blk] = @ + 1]
  /\ pc' = "done"
  /\ UNCHANGED <<absVars, head, born, num, endNum, blk, rebases, faults>>

\* sendTransaction throws, whether the transaction has reached the chain or not.  The error is
\* logged and the review goes on as if nothing had happened.
SendFails ==
  /\ sendErrors < SendErrors
  /\ sendErrors' = sendErrors + 1
  /\ \/ /\ pc = "rebase"
        /\ \E k \in {0, 1} : rebases' = [rebases EXCEPT ![blk] = @ + k]
        /\ UNCHANGED syncs
     \/ /\ pc = "sync"
        /\ \E k \in {0, 1} : syncs' = [syncs EXCEPT ![blk] = @ + k]
        /\ UNCHANGED rebases
  /\ pc' = "done"
  /\ UNCHANGED <<absVars, head, born, num, endNum, blk, stops>>

\* The search goes on from where it began.
BugReviewed ==
  /\ pc = "done"
  /\ head' = blk
  /\ pc' = "scan"
  /\ UNCHANGED <<absVars, born, num, endNum, blk, sent, faults>>

Reviewed ==
  /\ pc = "done"
  /\ head' = blk
  /\ num' = blk
  /\ pc' = "scan"
  /\ UNCHANGED <<absVars, born, endNum, blk, sent, faults>>

\* A crash, or an error outside of processTx: the loop is left and the process ends.
Stop ==
  /\ stops < Stops
  /\ stops' = stops + 1
  /\ pc # "down"
  /\ pc' = "down"
  /\ UNCHANGED <<absVars, head, born, num, endNum, blk, sent, sendErrors>>

PosImports == ImportBatch /\ UNCHANGED <<head, born, local, sent, faults>>

\* The process while it runs.  Nothing in the repository starts it again when it has ended.
RebaseLoop ==
  \/ NoPosHead \/ BeginReview \/ NextBlock \/ NothingToProcess \/ EmptyEndBlock
  \/ ProcessTx \/ SendRebase \/ SendSync \/ Reviewed

RebaseProgram == StartRebase \/ RebaseLoop

RebaseNext == RebaseProgram \/ SendFails \/ Stop \/ PosImports

RebaseSpec == RebaseInit /\ [][RebaseNext]_rebaseVars

---------------------------------------------------------------------------
(* What the process is for. *)

\* No block with a transaction above the head is passed over: the head comes to it, or past it,
\* only by reviewing that very block.
NoBlockPassed ==
  [][ \A n \in TxBlock \cap visible :
        head # -1 /\ head < n /\ n <= head' => pc = "done" /\ blk = n ]_rebaseVars

\* The head never goes back over a block that was reviewed.  It does go back, by one, but only
\* from where it was created: the importer's head, which is above the local best block.
GoesBackOnce == [][ head' < head => head = born /\ head' = born - 1 ]_rebaseVars

\* An auction is answered once, and once more only if the process ended in between: there is no
\* other way a block is reviewed twice.  No sync without its rebase.
RebasesBounded ==
  \A n \in AuctionEnd : rebases[n] <= 1 + stops /\ syncs[n] <= rebases[n] + sendErrors

\* An auction the head has passed has been answered with both transactions, unless sending failed
\* or the importer was far ahead.
AuctionAnswered ==
  \A n \in AuctionEnd \cap visible :
    born < n /\ n <= head /\ sendErrors = 0 /\ tip <= n + FarBehind =>
      rebases[n] >= 1 /\ syncs[n] >= 1

\* If somebody starts the process again whenever it has ended, then, once nothing fails any more,
\* the head comes to the block before the importer's, which has to have got past the genesis block
\* and has to have left no gap.
RebaseFollows ==
  <>[](tip > 0 /\ visible = 0..tip) /\ []<>(pc # "down") => <>[](head = tip - 1)
=============================================================================
