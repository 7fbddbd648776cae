------------------------------- MODULE PowSync -------------------------------
(***************************************************************************)
(* The import of the proof-of-work chain (src/src/cmd/pow.cmd.ts).  One    *)
(* loop, one block at a time: the row of the block, the rows of its        *)
(* transactions, the head.  Every round, not only the first one after a    *)
(* start, begins with the removal of what lies above the head.             *)
(*                                                                         *)
(* Unlike the Meter chain this one may be reorganised, and the process     *)
(* remembers every block it has read (Pow in src/src/utils/pow-rpc.ts), a  *)
(* few of them before it needs them.  A read looks at what is remembered,  *)
(* asks the node for a hash, waits for the block, and remembers it: what   *)
(* an answer says was true when the hash was asked for, and it takes the   *)
(* place of whatever another read has left there meanwhile.  There are two *)
(* branches here, and a block is a height and a branch.                    *)
(*                                                                         *)
(* Left out: the fields of blocks and transactions, the cache of           *)
(* transactions, the limit of 4096 entries of the caches.                  *)
(***************************************************************************)
EXTENDS Integers, Sequences, FiniteSets

CONSTANTS
  MaxHeight,      \* the highest block considered
  LoopWindow,     \* LOOP_WINDOW: how many blocks a round imports at most
  PreloadWindow,  \* PRELOAD_WINDOW: how many blocks are read ahead
  Preload,        \* bound of the exploration: the reads ahead that are under way at once
  PowTx,          \* transactions
  TxOf,           \* those of a block, in order, by height and branch
  PowLimit        \* how often each fault may happen

Height == 0..MaxHeight
Branch == {0, 1}
PowFault == {"error", "null", "crash", "reorg"}

ASSUME PowAssumption ==
  /\ MaxHeight \in Nat
  /\ LoopWindow \in Nat \ {0}
  /\ PreloadWindow \in Nat
  /\ TxOf \in [1..MaxHeight -> [Branch -> Seq(PowTx)]]
  /\ PowLimit \in [PowFault -> Nat]

VARIABLES
  best,        \* the node's best height
  chain,       \* the branch its block of a height is on
  cache,       \* what the process remembers of the chain
  reading,     \* the reads ahead that have not been answered
  called,      \* the heights that were read for their own sake, which starts reads ahead
  lost,        \* where the process no longer remembers the block it stored: the head when it was
               \* restarted, and heights where one answer took the place of another
  powHead,     \* the number in the head of pow, -1 if there is none
  powBlocks,   \* the rows of pow_block
  powTxs,      \* the rows of pow_tx, by hash
  step,        \* what the process does next
  height,      \* num: the block at hand
  target,      \* tgtNum: the last block of the round
  fetched,     \* the branch of the block at hand, until it has its row
  before,      \* that of the block before it
  rest,        \* transactions of the block at hand that have no row yet
  powLeft      \* the faults that may still happen

node == <<best, chain>>
store == <<powHead, powBlocks, powTxs>>
remembered == <<cache, reading, called, lost>>
run == <<step, height, target, fetched, before, rest>>
powVars == <<node, remembered, store, run, powLeft>>

Unread == -1

NoRead == [height |-> -1, branch |-> 0]

PowRow == [height : 1..MaxHeight, branch : Branch, prev : Branch]

TxSet(h, b) == { TxOf[h][b][i] : i \in DOMAIN TxOf[h][b] }

PowTypeOK ==
  /\ best \in Height
  /\ chain \in [Height -> Branch]
  /\ cache \in [Height -> Branch \cup {Unread}]
  /\ powHead \in -1..MaxHeight
  /\ powBlocks \subseteq PowRow
  /\ powTxs \subseteq PowTx
  /\ reading \in [Preload -> [height : Height \cup {-1}, branch : Branch]]
  /\ called \subseteq Height /\ lost \subseteq -1..MaxHeight
  /\ step \in {"down", "idle", "clean", "drop", "fetch", "fetching", "read", "fetchingPrevious",
               "create", "txs"}
  /\ height \in 0..(MaxHeight + 1)
  /\ target \in Height
  /\ fetched \in Branch \cup {Unread} /\ before \in Branch \cup {Unread}
  /\ rest \in Seq(PowTx)
  /\ powLeft \in [PowFault -> Nat]

PowInit ==
  /\ best = 0 /\ chain = [h \in Height |-> 0]
  /\ cache = [h \in Height |-> Unread]
  /\ reading = [p \in Preload |-> NoRead] /\ called = {} /\ lost = {}
  /\ powHead = -1 /\ powBlocks = {} /\ powTxs = {}
  /\ step = "down" /\ height = 0 /\ target = 0
  /\ fetched = Unread /\ before = Unread /\ rest = << >>
  /\ powLeft = PowLimit

---------------------------------------------------------------------------
(* The node. *)

Mined ==
  /\ best < MaxHeight
  /\ best' = best + 1
  /\ UNCHANGED <<chain, remembered, store, run, powLeft>>

Spend(f) == powLeft[f] > 0 /\ powLeft' = [powLeft EXCEPT ![f] = @ - 1]

\* From some height on the other branch has become the chain.
Reorganised ==
  /\ Spend("reorg")
  /\ \E from \in 1..best :
       chain' = [h \in Height |-> IF h < from THEN chain[h] ELSE 1 - chain[h]]
  /\ UNCHANGED <<best, remembered, store, run>>

Known(h) == cache[h] # Unread

\* What getBlock returns: the block it remembers, or the one that is the node's now.
GetBlock(h) == IF Known(h) THEN cache[h] ELSE chain[h]

\* Every read by the loop is followed by reads of the next heights, one after the other, that nobody
\* waits for.
ReadAhead(p) ==
  /\ reading[p] = NoRead
  /\ \E n \in called : \E h \in (n + 1)..(n + PreloadWindow) :
       /\ h <= best /\ ~ Known(h)
       /\ \A k \in (n + 1)..(h - 1) : Known(k)
       /\ reading' = [reading EXCEPT ![p] = [height |-> h, branch |-> chain[h]]]
  /\ UNCHANGED <<node, cache, called, lost, store, run, powLeft>>

\* The answer is remembered, whatever is remembered of that height by then.
ReadLands(p) ==
  /\ reading[p] # NoRead
  /\ LET h == reading[p].height
         b == reading[p].branch
     IN /\ cache' = [cache EXCEPT ![h] = b]
        /\ lost' = IF cache[h] \in {Unread, b} THEN lost ELSE lost \cup {h}
  /\ reading' = [reading EXCEPT ![p] = NoRead]
  /\ UNCHANGED <<node, called, store, run, powLeft>>

---------------------------------------------------------------------------
(* The loop. *)

PowStart ==
  /\ step = "down"
  /\ step' = "idle"
  /\ UNCHANGED <<node, remembered, store, height, target, fetched, before, rest, powLeft>>

\* The sleep is over, the head is read.
Wake ==
  /\ step = "idle"
  /\ step' = "clean"
  /\ UNCHANGED <<node, remembered, store, height, target, fetched, before, rest, powLeft>>

\* The block that was being imported is left where it is.
BugFutureBlocks == { b \in powBlocks : b.height > powHead + 1 }

FutureBlocks == { b \in powBlocks : b.height > powHead }

\* Only the block goes.
BugDeleteTxs ==
  /\ step = "clean"
  /\ \E b \in FutureBlocks : height' = b.height
  /\ step' = "drop"
  /\ UNCHANGED <<node, remembered, store, target, fetched, before, rest, powLeft>>

\* The rows of the transactions of a block above the head are found through the block's row.
DeleteTxs ==
  /\ step = "clean"
  /\ \E b \in FutureBlocks :
       /\ powTxs' = powTxs \ TxSet(b.height, b.branch)
       /\ height' = b.height
  /\ step' = "drop"
  /\ UNCHANGED <<node, remembered, powHead, powBlocks, target, fetched, before, rest, powLeft>>

DeleteBlock ==
  /\ step = "drop"
  /\ powBlocks' = { b \in powBlocks : b.height # height }
  /\ step' = "clean"
  /\ UNCHANGED <<node, remembered, powHead, powTxs, height, target, fetched, before, rest, powLeft>>

\* Without a look at the best block.
BugRoundTarget == powHead + LoopWindow

RoundTarget == IF powHead + LoopWindow > best THEN best ELSE powHead + LoopWindow

NothingNew ==
  /\ step = "clean"
  /\ FutureBlocks = {}
  /\ powHead + 1 > RoundTarget
  /\ step' = "idle"
  /\ UNCHANGED <<node, remembered, store, height, target, fetched, before, rest, powLeft>>

\* One block too far.
BugFirstHeight == IF powHead = -1 THEN 0 ELSE powHead + 2

FirstHeight == powHead + 1

BeginPowRound ==
  /\ step = "clean"
  /\ FutureBlocks = {}
  /\ powHead + 1 <= RoundTarget
  /\ target' = RoundTarget
  /\ height' = FirstHeight
  /\ step' = "fetch"
  /\ UNCHANGED <<node, remembered, store, fetched, before, rest, powLeft>>

\* getBlockFromRPC.
FetchBlock ==
  /\ step = "fetch" /\ height <= target
  /\ fetched' = GetBlock(height)
  /\ IF Known(height) THEN step' = "read" /\ called' = called \cup {height}
                      ELSE step' = "fetching" /\ UNCHANGED called
  /\ UNCHANGED <<node, cache, reading, lost, store, height, target, before, rest, powLeft>>

BlockFetched ==
  /\ step = "fetching"
  /\ cache' = [cache EXCEPT ![height] = fetched]
  /\ called' = called \cup {height}
  /\ step' = "read"
  /\ UNCHANGED <<node, reading, lost, store, height, target, fetched, before, rest, powLeft>>

\* An error of the node is null here, and null is passed over.
NullBlock ==
  /\ Spend("null")
  /\ step = "fetching"
  /\ called' = called \cup {height}
  /\ height' = height + 1
  /\ step' = "fetch" /\ fetched' = Unread
  /\ UNCHANGED <<node, cache, reading, lost, store, target, before, rest>>

EndOfRound ==
  /\ step = "fetch" /\ height > target
  /\ step' = "idle"
  /\ UNCHANGED <<node, remembered, store, height, target, fetched, before, rest, powLeft>>

\* The genesis block has a head but no row.
GenesisBlock ==
  /\ step = "read" /\ height = 0
  /\ step' = "txs" /\ fetched' = Unread
  /\ UNCHANGED <<node, remembered, store, height, target, before, rest, powLeft>>

\* What the node says now.
BugPrevious == chain[height - 1]

Previous == GetBlock(height - 1)

\* The previous block is asked for by height, its hash takes the place of the one the block names.
FetchPrevious ==
  /\ step = "read" /\ height > 0
  /\ before' = Previous
  /\ IF Known(height - 1) THEN step' = "create" /\ called' = called \cup {height - 1}
                          ELSE step' = "fetchingPrevious" /\ UNCHANGED called
  /\ UNCHANGED <<node, cache, reading, lost, store, height, target, fetched, rest, powLeft>>

PreviousFetched ==
  /\ step = "fetchingPrevious"
  /\ cache' = [cache EXCEPT ![height - 1] = before]
  /\ called' = called \cup {height - 1}
  /\ step' = "create"
  /\ UNCHANGED <<node, reading, lost, store, height, target, fetched, before, rest, powLeft>>

\* The round is over.
Abandoned == step' = "idle" /\ fetched' = Unread /\ before' = Unread /\ rest' = << >>

\* The hash of null.
NullPrevious ==
  /\ Spend("null")
  /\ step = "fetchingPrevious"
  /\ called' = called \cup {height - 1}
  /\ Abandoned
  /\ UNCHANGED <<node, cache, reading, lost, store, height, target>>

\* Neither the hash nor the height may be there already.
CreateBlock ==
  /\ step = "create"
  /\ \A b \in powBlocks : b.height # height
  /\ powBlocks' = powBlocks \cup {[height |-> height, branch |-> fetched, prev |-> before]}
  /\ rest' = TxOf[height][fetched]
  /\ step' = "txs"
  /\ fetched' = Unread /\ before' = Unread
  /\ UNCHANGED <<node, remembered, powHead, powTxs, height, target, powLeft>>

CreateTx ==
  /\ step = "txs" /\ rest # << >>
  /\ Head(rest) \notin powTxs
  /\ powTxs' = powTxs \cup {Head(rest)}
  /\ rest' = Tail(rest)
  /\ UNCHANGED <<node, remembered, powHead, powBlocks, step, height, target, fetched, before, powLeft>>

Confirmed(tx) == \E h \in 1..best : tx \in TxSet(h, chain[h])

\* The hash is there already, or the node does not know the transaction of a branch it has left.
\* The round is over; the next one removes the block.
RefuseTx ==
  /\ step = "txs" /\ rest # << >>
  /\ \/ Head(rest) \in powTxs
     \/ ~ Confirmed(Head(rest))
  /\ Abandoned
  /\ UNCHANGED <<node, remembered, store, height, target, powLeft>>

\* Without a look at the transactions that are left.
BugAllStored == TRUE

AllStored == rest = << >>

SavePowHead ==
  /\ step = "txs" /\ AllStored
  /\ powHead' = height
  /\ height' = height + 1
  /\ step' = "fetch"
  /\ UNCHANGED <<node, remembered, powBlocks, powTxs, target, fetched, before, rest, powLeft>>

\* The catch clause: whatever went wrong in the database, or with the best block or a transaction,
\* a new round begins.
RoundFails ==
  /\ Spend("error")
  /\ step \in {"clean", "drop", "create", "txs"}
  /\ Abandoned
  /\ UNCHANGED <<node, remembered, store, height, target>>

PowCrash ==
  /\ Spend("crash")
  /\ step # "down"
  /\ step' = "down"
  /\ cache' = [h \in Height |-> Unread]
  /\ reading' = [p \in Preload |-> NoRead] /\ called' = {}
  /\ lost' = lost \cup {powHead}
  /\ height' = 0 /\ target' = 0
  /\ fetched' = Unread /\ before' = Unread /\ rest' = << >>
  /\ UNCHANGED <<node, store>>

PowProgram ==
  \/ PowStart \/ Wake \/ DeleteTxs \/ DeleteBlock \/ NothingNew \/ BeginPowRound
  \/ FetchBlock \/ BlockFetched \/ EndOfRound \/ GenesisBlock \/ FetchPrevious \/ PreviousFetched
  \/ CreateBlock \/ CreateTx \/ RefuseTx \/ SavePowHead

PowNext ==
  \/ PowProgram
  \/ \E p \in Preload : ReadAhead(p) \/ ReadLands(p)
  \/ Mined \/ Reorganised \/ NullBlock \/ NullPrevious \/ RoundFails \/ PowCrash

PowSpec == PowInit /\ [][PowNext]_powVars

---------------------------------------------------------------------------
(* What the import is for. *)

NoReorg == powLeft["reorg"] = PowLimit["reorg"]

\* Every transaction that has a row belongs to a block that has one, whatever was interrupted:
\* the block is created before its transactions and deleted after them, or else the cleanup would
\* never find them.
NoOrphanTx == \A tx \in powTxs : \E b \in powBlocks : tx \in TxSet(b.height, b.branch)

\* A stored block names the block stored below it as the previous one.  Across a reorganisation
\* that is so because both are taken from what the process remembers, by whatever mixture of reads
\* it came there, and fails only at heights where the process was restarted, or where a read ahead
\* that was under way during the reorganisation landed after the block had been read.
PreviousStored ==
  \A b, c \in powBlocks :
    c.height = b.height + 1 /\ c.prev # b.branch => ~ NoReorg /\ b.height \in lost

\* A height the head has passed has its row, except for one height per answer of the node that
\* was null; no crash, error or reorganisation leaves a gap.
GapsAreNulls ==
  Cardinality({ h \in 1..powHead : \A b \in powBlocks : b.height # h })
    <= PowLimit["null"] - powLeft["null"]

Complete(h) == h = 0 \/ \E b \in powBlocks : b.height = h /\ TxSet(h, b.branch) \subseteq powTxs

Import == INSTANCE AtomicImport WITH MaxBlock <- MaxHeight, tip <- powHead,
                                     visible <- { h \in 0..powHead : Complete(h) }

\* The promise to the readers, as long as the node's chain is not reorganised: a block appears
\* whole and stays.  Once a transaction is mined in two branches it can be refused, and the
\* cleanup then takes it away from the block it was stored with.
KeepsPromise ==
  Import!AbsInit /\ [][NoReorg' => Import!ImportBatch]_(Import!absVars)

\* A block the process remembers, and has not imported, is not the node's any more.
Stale == \E h \in Height : h > powHead /\ cache[h] \notin {Unread, chain[h]}

\* Once nothing fails any more the head comes to the node's best block, unless the process holds
\* on to a block the node has dropped: whose transactions the node may not know, round after
\* round, until somebody restarts the process.
PowCatchesUp == []<>(~ Stale) => <>[](powHead = best)
=============================================================================
