---------------------------- MODULE ScriptEngine ----------------------------
(***************************************************************************)
(* The script engine process (src/src/cmd/scriptEngine.cmd.ts): a block    *)
(* reviewer that keeps auctions, their bids and the rewards of each epoch. *)
(* A block contains operations; an operation is a handful of writes to     *)
(* MongoDB, each a step here, because the process may end between any two  *)
(* and the head moves only after the last one of the block.                *)
(*                                                                         *)
(* Values that processTx asks the chain node for at the block's revision   *)
(* are functions of the chain (AuctionTxs and the like).  An amount is a   *)
(* number; prices and what is derived from totals are left out.  A block   *)
(* has at most one governing operation, so its number stands for the epoch.*)
(* Left out: candidates (the collection known), reverted transactions, and *)
(* auctions that end without a price.                                      *)
(***************************************************************************)
EXTENDS BlockReviewer, Sequences, FiniteSetsExt

CONSTANTS
  Auction, Bid, Validator,
  Script,             \* Script[n]: the script engine operations of block n, in order
  BidInfo,            \* BidInfo[b]: the auction, type, amount and block of a bid, on the chain
  UniqueEpochReward,  \* whether the unique index over the epoch of a reward could be built
  Limit               \* how many crashes and errors are explored

Operation == [op : {"start", "end"}, auction : Auction] \cup [op : {"bid"}, bid : Bid]
               \cup [op : {"governing"}]

ASSUME ScriptAssumption ==
  /\ Script \in [Block -> Seq(Operation)]
  /\ \A n \in Block : Script[n] # <<>> => n \in TxBlock
  /\ \A n \in Block : \A i, j \in DOMAIN Script[n] :
       Script[n][i].op = "governing" /\ Script[n][j].op = "governing" => i = j
  /\ BidInfo \in [Bid -> [auction : Auction, type : {"userbid", "autobid"},
                          amount : Nat, num : Block]]
  /\ UniqueEpochReward \in BOOLEAN
  /\ Limit \in [{"crash", "error"} -> Nat]
  /\ IsFiniteSet(Bid)
  /\ Bid \cap Validator = {}

VARIABLES
  auctions,    \* the collections, by key
  bids,
  rewards,     \* rewards[n][p]: how often p has been given the reward of block n
  summaries,   \* auctionSummary: the auctions that have one
  epochs,      \* epochRewardSummary: the blocks that have one
  payouts,     \* validatorReward: the blocks that have one
  at,          \* the operation under way is Script[blk][at]
  step,        \* what is next in it
  todo,        \* the bids or validators a loop has still to visit
  it,          \* the bid the loop is at
  stage,       \* how far cleanUpIncompleteData has come
  spent        \* the faults that have happened

db    == <<auctions, bids, rewards, summaries, epochs, payouts>>
local == <<at, step, todo, it, stage>>
vars  == <<tip, visible, head, reviewer, db, local, spent>>

Payee == Bid \cup Validator

NoAuction == [exists |-> FALSE, pending |-> FALSE, count |-> 0, received |-> 0,
              userbid |-> 0, autobid |-> 0]

NoBid == [num |-> -1, pending |-> FALSE, auction |-> "none"]

TypeOK ==
  /\ ReviewerTypeOK
  /\ auctions \in [Auction -> [exists : BOOLEAN, pending : BOOLEAN, count : Nat, received : Nat,
                               userbid : Nat, autobid : Nat]]
  /\ bids \in [Bid -> [num : -1..MaxBlock, pending : BOOLEAN, auction : Auction \cup {"none"}]]
  /\ rewards \in [Block -> [Payee -> 0..2]]
  /\ summaries \subseteq Auction
  /\ epochs \subseteq Block /\ payouts \subseteq Block
  /\ at \in Nat \ {0}
  /\ step \in {"begin", "total", "autobid", "reward", "transfer", "payout", "epoch", "close", "closing"}
  /\ todo \subseteq Payee
  /\ Bid = {} \/ it \in Bid
  /\ stage \in 1..5
  /\ spent \in [{"crash", "error"} -> Nat]
-----------------------------------------------------------------------------
(* The chain. *)

Has(n, o) == \E i \in DOMAIN Script[n] : Script[n][i] = o

StartsIn(n, a) == Has(n, [op |-> "start", auction |-> a])

EndsIn(n, a) == Has(n, [op |-> "end", auction |-> a])

StartOf(a) == CHOOSE n \in Block : StartsIn(n, a)

\* Block MaxBlock + 1 stands for the future.
EndOf(a) == IF \E n \in Block : EndsIn(n, a) THEN CHOOSE n \in Block : EndsIn(n, a) ELSE MaxBlock + 1

\* a is over when c starts, if need be earlier in the same block.
EndsBefore(a, c) ==
  \E m, n \in Block :
    /\ EndsIn(m, a) /\ StartsIn(n, c) /\ m <= n
    /\ \A i, j \in DOMAIN Script[n] :
         /\ m = n
         /\ Script[n][i] = [op |-> "end", auction |-> a]
         /\ Script[n][j] = [op |-> "start", auction |-> c]
         => i < j

\* auctionTxs of the present auction after block n.
AuctionTxs(n) == { b \in Bid : /\ BidInfo[b].num <= n
                               /\ StartOf(BidInfo[b].auction) <= n
                               /\ EndOf(BidInfo[b].auction) > n }

\* The autobids among them that the governing transaction of block n has placed.
NewAutobids(n) == { b \in AuctionTxs(n) \ AuctionTxs(n - 1) : BidInfo[b].type = "autobid" }

\* auctionTxs of the summary of a.
SummaryTxs(a) == { b \in Bid : BidInfo[b].auction = a }

Amount(S) == MapThenSumSet(LAMBDA b : BidInfo[b].amount, S)

OfType(S, t) == { b \in S : BidInfo[b].type = t }

\* The auction module of the chain: it holds one auction after the other, each of which starts in one
\* block and ends in a later one; a bid is placed in one block, and not before its auction starts;
\* autobids are placed by governing operations.
ASSUME AuctionAssumption ==
  /\ \A a \in Auction : \A m, n \in Block :
       /\ StartsIn(m, a) /\ StartsIn(n, a) => m = n
       /\ EndsIn(m, a) /\ EndsIn(n, a) => m = n
  /\ \A a \in Auction : \A n \in Block : EndsIn(n, a) => \E m \in Block : m < n /\ StartsIn(m, a)
  /\ \A a, c \in Auction : \A m, n \in Block :
       StartsIn(m, a) /\ StartsIn(n, c) /\ a # c => EndsBefore(a, c) \/ EndsBefore(c, a)
  /\ \A b \in Bid :
       LET a == BidInfo[b].auction
           n == BidInfo[b].num
           bid == [op |-> "bid", bid |-> b]
       IN /\ \E m \in Block : m <= n /\ StartsIn(m, a)
          /\ \A m \in Block : Has(m, bid) => m = n
          /\ \A i, j \in DOMAIN Script[n] :
               Script[n][i] = [op |-> "start", auction |-> a] /\ Script[n][j] = bid => i < j
          /\ BidInfo[b].type = "autobid" /\ n < EndOf(a) => Has(n, [op |-> "governing"])
-----------------------------------------------------------------------------
Init ==
  /\ ReviewerInit
  /\ auctions = [a \in Auction |-> NoAuction]
  /\ bids = [b \in Bid |-> NoBid]
  /\ rewards = [n \in Block |-> [p \in Payee |-> 0]]
  /\ summaries = {} /\ epochs = {} /\ payouts = {}
  /\ at = 1 /\ step = "begin" /\ todo = {} /\ it = CHOOSE b \in Bid : TRUE
  /\ stage = 1
  /\ spent = [k \in {"crash", "error"} |-> 0]
-----------------------------------------------------------------------------
(* beforeStart and cleanUpIncompleteData. *)

StartUp ==
  /\ BeforeStart
  /\ stage' = 1
  /\ UNCHANGED <<tip, visible, db, at, step, todo, it, spent>>

\* The head's own rows go as well.
BugStays(n) == n < head

\* deleteAfter(head) keeps the rows of the blocks up to the head.
Stays(n) == n <= head

\* An auction, and its summary, belong to the block that started it.
DeleteAuctions ==
  /\ auctions' = [a \in Auction |-> IF Stays(StartOf(a)) THEN auctions[a] ELSE NoAuction]
  /\ UNCHANGED <<bids, rewards, summaries, epochs, payouts>>

\* The bids are forgotten.
BugDeleteBids == UNCHANGED db

DeleteBids ==
  /\ bids' = [b \in Bid |-> IF Stays(bids[b].num) THEN bids[b] ELSE NoBid]
  /\ UNCHANGED <<auctions, rewards, summaries, epochs, payouts>>

DeleteSummaries ==
  /\ summaries' = { a \in summaries : Stays(StartOf(a)) }
  /\ UNCHANGED <<auctions, bids, rewards, epochs, payouts>>

\* The rewards are forgotten.
BugDeleteRewards == UNCHANGED db

DeleteRewards ==
  /\ rewards' = [n \in Block |-> IF Stays(n) THEN rewards[n] ELSE [p \in Payee |-> 0]]
  /\ UNCHANGED <<auctions, bids, summaries, epochs, payouts>>

DeleteEpochs ==
  /\ epochs' = { n \in epochs : Stays(n) }
  /\ UNCHANGED <<auctions, bids, rewards, summaries, payouts>>

\* One collection after the other; validatorReward is left as it is.
CleanUp ==
  /\ pc = "clean"
  /\ \/ stage = 1 /\ DeleteAuctions
     \/ stage = 2 /\ DeleteBids
     \/ stage = 3 /\ DeleteSummaries
     \/ stage = 4 /\ DeleteRewards
     \/ stage = 5 /\ DeleteEpochs
  /\ stage' = IF stage = 5 THEN 1 ELSE stage + 1
  /\ pc' = IF stage = 5 THEN "idle" ELSE "clean"
  /\ UNCHANGED <<tip, visible, head, num, endNum, blk, at, step, todo, it, spent>>
-----------------------------------------------------------------------------
(* processTx.  The steps of an operation; each makes at most one write. *)

Working == pc = "work" /\ at <= Len(Script[blk])

\* The operation under way, at one of its steps.
Doing(op, s) == Working /\ Script[blk][at].op = op /\ step = s

Frame == UNCHANGED <<tip, visible, head, reviewer, stage, spent>>

GoOn(s) == step' = s /\ UNCHANGED <<at, todo, it>>

NextOperation == at' = at + 1 /\ step' = "begin" /\ todo' = {} /\ UNCHANGED it

\* auctionRepo.findPresent: some auction that is pending.
Present == { a \in Auction : auctions[a].exists /\ auctions[a].pending }

StartAuction ==
  /\ Doing("start", "begin")
  /\ LET a == Script[blk][at].auction
     IN /\ ~ auctions[a].exists
        /\ auctions' = [auctions EXCEPT ![a] = [NoAuction EXCEPT !.exists = TRUE, !.pending = TRUE]]
  /\ NextOperation /\ Frame
  /\ UNCHANGED <<bids, rewards, summaries, epochs, payouts>>

CreateBid ==
  /\ Doing("bid", "begin")
  /\ LET b == Script[blk][at].bid
     IN /\ bids[b].num = -1
        /\ \E a \in Present : bids' = [bids EXCEPT ![b] = [num |-> blk, pending |-> TRUE, auction |-> a]]
  /\ GoOn("total") /\ Frame
  /\ UNCHANGED <<auctions, rewards, summaries, epochs, payouts>>

\* The totals of an auction, with a bid more.
WithBid(row, bid) ==
  LET of(t) == IF bid.type = t THEN bid.amount ELSE 0
  IN [row EXCEPT !.count = @ + 1, !.received = @ + bid.amount,
                 !.userbid = @ + of("userbid"), !.autobid = @ + of("autobid")]

\* The totals of the present auction, read again after the bid has been created.
AddToTotals ==
  /\ Doing("bid", "total")
  /\ LET bid == BidInfo[Script[blk][at].bid]
     IN \E a \in Present :
          auctions' = [auctions EXCEPT ![a] = WithBid(auctions[a], bid)]
  /\ NextOperation /\ Frame
  /\ UNCHANGED <<bids, rewards, summaries, epochs, payouts>>

\* Governing: the auction's count and receipts are overwritten with the chain's.
RefreshAuction ==
  /\ Doing("governing", "begin")
  /\ auctions' = [a \in Auction |->
                    IF StartOf(a) <= blk /\ blk < EndOf(a) /\ auctions[a].exists
                    THEN [auctions[a] EXCEPT !.count = Cardinality(AuctionTxs(blk)),
                                             !.received = Amount(AuctionTxs(blk))]
                    ELSE auctions[a]]
  /\ step' = "autobid"
  /\ todo' = NewAutobids(blk)
  /\ UNCHANGED <<at, it>> /\ Frame
  /\ UNCHANGED <<bids, rewards, summaries, epochs, payouts>>

\* A bid that is in the chain's list is found, or created in the block under review.
FindOrCreate(b) ==
  bids' = IF bids[b].num = -1
          THEN [bids EXCEPT ![b] = [num |-> blk, pending |-> TRUE, auction |-> BidInfo[b].auction]]
          ELSE bids

Autobid(b) ==
  /\ Doing("governing", "autobid")
  /\ b \in todo
  /\ FindOrCreate(b)
  /\ it' = b
  /\ step' = "reward"
  /\ UNCHANGED <<at, todo>> /\ Frame
  /\ UNCHANGED <<auctions, rewards, summaries, epochs, payouts>>

\* epochRewardRepo.create, counted up to two; with the index in place an epoch has one reward at most.
Pay(p) ==
  /\ UniqueEpochReward => \A q \in Payee : rewards[blk][q] = 0
  /\ rewards' = [rewards EXCEPT ![blk][p] = IF @ < 2 THEN @ + 1 ELSE 2]

RewardAutobid ==
  /\ Doing("governing", "reward")
  /\ Pay(it)
  /\ todo' = todo \ {it}
  /\ step' = "autobid"
  /\ UNCHANGED <<at, it>> /\ Frame
  /\ UNCHANGED <<auctions, bids, summaries, epochs, payouts>>

AutobidsDone ==
  /\ Doing("governing", "autobid")
  /\ todo = {}
  /\ todo' = Validator
  /\ step' = "transfer"
  /\ UNCHANGED <<at, it>> /\ Frame
  /\ UNCHANGED db

RewardValidator(v) ==
  /\ Doing("governing", "transfer")
  /\ v \in todo
  /\ Pay(v)
  /\ todo' = todo \ {v}
  /\ UNCHANGED <<at, step, it>> /\ Frame
  /\ UNCHANGED <<auctions, bids, summaries, epochs, payouts>>

SaveValidatorReward ==
  /\ Doing("governing", "transfer")
  /\ todo = {}
  /\ payouts' = payouts \cup {blk}
  /\ GoOn("epoch") /\ Frame
  /\ UNCHANGED <<auctions, bids, rewards, summaries, epochs>>

SaveEpochSummary ==
  /\ Doing("governing", "epoch")
  /\ epochs' = epochs \cup {blk}
  /\ NextOperation /\ Frame
  /\ UNCHANGED <<auctions, bids, rewards, summaries, payouts>>

\* An auction that is unknown or has ended is not ended again.
AlreadyEnded ==
  /\ Doing("end", "begin")
  /\ Script[blk][at].auction \notin Present
  /\ NextOperation /\ Frame
  /\ UNCHANGED db

EndSummary ==
  /\ Doing("end", "begin")
  /\ LET a == Script[blk][at].auction
     IN /\ a \in Present
        /\ summaries' = summaries \cup {a}
        /\ todo' = SummaryTxs(a)
  /\ step' = "close"
  /\ UNCHANGED <<at, it>> /\ Frame
  /\ UNCHANGED <<auctions, bids, rewards, epochs, payouts>>

FindBid(b) ==
  /\ Doing("end", "close")
  /\ b \in todo
  /\ FindOrCreate(b)
  /\ it' = b
  /\ step' = "closing"
  /\ UNCHANGED <<at, todo>> /\ Frame
  /\ UNCHANGED <<auctions, rewards, summaries, epochs, payouts>>

CloseBid ==
  /\ Doing("end", "closing")
  /\ bids' = [bids EXCEPT ![it].pending = FALSE]
  /\ todo' = todo \ {it}
  /\ step' = "close"
  /\ UNCHANGED <<at, it>> /\ Frame
  /\ UNCHANGED <<auctions, rewards, summaries, epochs, payouts>>

\* The totals collected from the bids are not used.
BugTotalsKept(a) == [auctions[a] EXCEPT !.pending = FALSE]

\* The totals are replaced by those of the summary.
Ended(a) == [auctions[a] EXCEPT !.pending = FALSE,
                                !.received = Amount(SummaryTxs(a)),
                                !.userbid = Amount(OfType(SummaryTxs(a), "userbid")),
                                !.autobid = Amount(OfType(SummaryTxs(a), "autobid"))]

EndAuction ==
  /\ Doing("end", "close")
  /\ todo = {}
  /\ LET a == Script[blk][at].auction
     IN auctions' = [auctions EXCEPT ![a] = Ended(a)]
  /\ NextOperation /\ Frame
  /\ UNCHANGED <<bids, rewards, summaries, epochs, payouts>>
-----------------------------------------------------------------------------
(* The loop around it. *)

\* The operation throws: MongoDB refuses a second row of the same key, or no auction is present.
Refused ==
  \/ /\ Doing("start", "begin")
     /\ auctions[Script[blk][at].auction].exists
  \/ /\ Doing("bid", "begin")
     /\ Present = {} \/ bids[Script[blk][at].bid].num # -1
  \/ /\ Doing("governing", "reward") \/ (Doing("governing", "transfer") /\ todo # {})
     /\ UniqueEpochReward
     /\ \E q \in Payee : rewards[blk][q] > 0

Fresh == at' = 1 /\ step' = "begin" /\ todo' = {} /\ UNCHANGED <<it, stage>>

Turn == (Loop \/ QuitWithoutGenesis) /\ Fresh /\ UNCHANGED <<tip, visible, db, spent>>

BlockDone ==
  /\ at > Len(Script[blk])
  /\ Reviewed
  /\ Fresh
  /\ UNCHANGED <<tip, visible, db, spent>>

RetryRefused ==
  /\ Refused
  /\ Retry
  /\ Fresh
  /\ UNCHANGED <<tip, visible, db, spent>>

CanSpend(k) == spent[k] < Limit[k]

Spend(k) == spent' = [spent EXCEPT ![k] = @ + 1]

\* A call to the chain node or to MongoDB fails in the loop; before it, that ends the process.
CallFails ==
  /\ CanSpend("error") /\ Spend("error")
  /\ Retry
  /\ Fresh
  /\ UNCHANGED <<tip, visible, db>>

Crash ==
  /\ CanSpend("crash") /\ Spend("crash")
  /\ pc # "down"
  /\ pc' = "down"
  /\ Fresh
  /\ UNCHANGED <<tip, visible, head, num, endNum, blk, db>>

\* The PoS process goes on importing.
PosImport == ImportBatch /\ UNCHANGED <<head, reviewer, db, local, spent>>

ProcessBid == CreateBid \/ AddToTotals

Govern == \/ RefreshAuction
          \/ \E b \in Bid : Autobid(b)
          \/ RewardAutobid
          \/ AutobidsDone
          \/ \E v \in Validator : RewardValidator(v)
          \/ SaveValidatorReward
          \/ SaveEpochSummary

End == \/ AlreadyEnded
       \/ EndSummary
       \/ \E b \in Bid : FindBid(b)
       \/ CloseBid
       \/ EndAuction

Program == \/ StartUp \/ CleanUp \/ Turn \/ BlockDone \/ RetryRefused
           \/ StartAuction \/ ProcessBid \/ Govern \/ End

Next == Program \/ CallFails \/ Crash \/ PosImport

Spec == Init /\ [][Next]_vars

\* The process never waits for ever, and docker starts it again; nothing is assumed of the import.
FairSpec == Spec /\ WF_vars(Program)
-----------------------------------------------------------------------------
(* Properties. *)

NoError == spent["error"] = 0

\* The head has passed block n, and the importer had it.
Passed(n) == n <= head /\ n \in visible

\* The block in which the process learns of bid b: its own, or the end of its auction.
SeenIn(b) == IF \/ Has(BidInfo[b].num, [op |-> "bid", bid |-> b])
                \/ b \in NewAutobids(BidInfo[b].num)
             THEN BidInfo[b].num ELSE EndOf(BidInfo[b].auction)

\* Every bid whose block the head has passed is recorded, with its own auction, and is pending
\* exactly as long as that auction: crashes between the bid, its auction and the head leave no
\* bid out, and none behind after the auction's end.
BidsRecorded ==
  NoGap => \A b \in Bid :
    LET a == BidInfo[b].auction
    IN BidInfo[b].num <= head /\ SeenIn(b) < EndOf(a) =>
         /\ bids[b].num = BidInfo[b].num
         /\ bids[b].auction = a
         /\ EndOf(a) <= head => ~ bids[b].pending

OnePresent == NoGap => Cardinality(Present) <= 1

\* findPresent takes the first auction that is pending: there is never a second one.  An auction the
\* head has seen ending is over, and its totals are the chain's, however often its bids were added
\* up in blocks reviewed twice.
EndedAuctionsExact ==
  /\ OnePresent
  /\ \A a \in Auction : EndOf(a) <= head /\ NoGap =>
       /\ auctions[a].exists /\ ~ auctions[a].pending
       /\ auctions[a].received = Amount(SummaryTxs(a))
       /\ auctions[a].userbid = Amount(OfType(SummaryTxs(a), "userbid"))
       /\ auctions[a].autobid = Amount(OfType(SummaryTxs(a), "autobid"))

\* Crashes in the middle of a governing operation leave every reward of a passed block given
\* once, and no summary of the epoch without them.
RewardsOnce ==
  NoError => \A n \in Block :
    Passed(n) /\ Has(n, [op |-> "governing"]) =>
      /\ n \in epochs
      /\ \A p \in Payee : rewards[n][p] = (IF p \in NewAutobids(n) \cup Validator THEN 1 ELSE 0)

\* After crashes alone, and with an importer that leaves no gap, the reviewer follows it.
FollowsImport == [](NoError /\ NoGap) => <>[](head = CaughtUp)
-----------------------------------------------------------------------------
(* Statements of the code that the process does not live up to. *)

\* scriptEngine.cmd.ts:68: dirty data higher than the head has been deleted, and is made again
\* by the next review: a bid missed before is added when its auction ends (:153).
NoBidMissing ==
  NoGap => \A a \in Auction : EndOf(a) <= head => \A b \in SummaryTxs(a) : bids[b].num # -1

\* blockReviewer.ts:167: after an error the loop sleeps, hoping that it would resolve.
ReviewResolves == []NoGap => <>[](head = CaughtUp)
=============================================================================
