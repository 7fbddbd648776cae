------------------------------- MODULE PosSync -------------------------------
(***************************************************************************)
(* The PoS synchronisation process (src/src/cmd/pos.cmd.ts, class PosCMD)  *)
(* with the two write-back caches it owns (types/accountCache.ts and       *)
(* types/tokenBalanceCache.ts), the collections it fills and the chain     *)
(* node it reads.                                                          *)
(*                                                                         *)
(* The process turns a range of chain blocks into rows of a dozen MongoDB  *)
(* collections.  There is no transaction: collections are written one      *)
(* after the other and the `head' document is written last, so that after  *)
(* a crash or an error everything above the head can be thrown away        *)
(* (cleanUpIncompleteData) and imported again.  Balance rows are different *)
(* from all others: they are updated in place, so they cannot be thrown    *)
(* away and are set back to the value the chain node reports at the head.  *)
(*                                                                         *)
(* Abstractions.  A row is a record of its collection, its block number    *)
(* and an index; its other columns do not matter here.  A balance row      *)
(* carries one number (an account has four) and the number of the block of *)
(* its lastUpdate.  Handlers that write in place during block processing   *)
(* (contracts, buckets), the metric TX_MAX_COUNT and the owner counts of   *)
(* contracts are not part of this module.                                  *)
(***************************************************************************)
EXTENDS Integers, Sequences, FiniteSets

CONSTANTS
  MaxBlock,       \* the chain is explored up to this block number
  LoopWindow,     \* LOOP_WINDOW: how many blocks a round imports at most
  Row,            \* the rows the chain's blocks give rise to
  Account,        \* rows of the collection accounts
  TokenBalance,   \* rows of the collection tokenBalances
  Chain,          \* Chain[a][n]: the balance of a after block n, on the chain
  First,          \* First[a][n]: the part of block n's change that is applied first
  Touched,        \* Touched[a]: the blocks that change row a
  Prealloc,       \* the accounts genesis.ts lists for this network
  RebasingRow,    \* balances of tokens that emit rebasing events
  RebasingBlock,  \* the blocks that contain such an event
  InitHeads,      \* heads the database may have before the process first starts
  Ceiling,        \* bound of the exploration: no cached balance grows beyond it
  Limit           \* how many faults of each kind are explored

Block == 0..MaxBlock

BalanceRow == Account \cup TokenBalance

(***************************************************************************)
(* Operators named Bug... are variants of a definition that follows them,  *)
(* each with a mistake the code could have contained.  Nothing uses them;  *)
(* substituted for the definition, they make a property fail.              *)
(***************************************************************************)

\* The head is moved before the blocks of the batch are stored.
BugHeadBeforeBlock ==
  << "movement", "tx", "logEvent", "logTransfer", "committee", "txDigest", "bound", "unbound",
     "withdraw", "contract", "internalTx", "account", "tokenBalance", "head", "block", "rebase" >>

\* The blocks are stored before what they contain.
BugBlockFirst ==
  << "block", "movement", "tx", "logEvent", "logTransfer", "committee", "txDigest", "bound",
     "unbound", "withdraw", "contract", "internalTx", "account", "tokenBalance", "head", "rebase" >>

\* The head is moved before the balances are stored.
BugHeadBeforeBalances ==
  << "movement", "tx", "logEvent", "logTransfer", "committee", "txDigest", "bound", "unbound",
     "withdraw", "contract", "internalTx", "block", "head", "account", "tokenBalance", "rebase" >>

\* The order in which saveCacheToDB writes the collections.
SaveOrder == << "movement", "tx", "logEvent", "logTransfer", "committee",
                "txDigest", "bound", "unbound", "withdraw", "contract",
                "internalTx", "account", "tokenBalance", "block", "head",
                "rebase" >>

\* The cleanup forgets the committees.
BugCommitteesKept ==
  << "block", "tx", "logEvent", "logTransfer", "bound", "unbound", "txDigest", "movement",
     "contract", "internalTx", "account", "tokenBalance" >>

\* The order in which cleanUpIncompleteData visits them.
CleanOrder == << "block", "tx", "logEvent", "logTransfer", "committee",
                 "bound", "unbound", "txDigest", "movement", "contract",
                 "internalTx", "account", "tokenBalance" >>

\* The collections that hold one immutable row per thing seen in a block.
Collection == { "movement", "tx", "logEvent", "logTransfer", "committee",
                "txDigest", "bound", "unbound", "withdraw", "contract",
                "internalTx", "block" }

\* The number of a block is not unique either.
BugBlockNotUnique == Collection \ {"committee", "block"}

\* Every collection but committee has a unique index over its natural key.
Unique == Collection \ {"committee"}

FaultKind == {"error", "null", "crash", "late"}

BlockRow(n) == [coll |-> "block", num |-> n, id |-> 0]

ASSUME PosSyncAssumption ==
  /\ MaxBlock \in Nat
  /\ LoopWindow \in Nat \ {0}
  /\ Row \subseteq [coll : Collection, num : Block, id : Nat]
  /\ \A n \in Block : BlockRow(n) \in Row
  /\ \A r \in Row : r.coll = "block" => r = BlockRow(r.num)
  /\ Account \cap TokenBalance = {}
  /\ Chain \in [BalanceRow -> [Block -> Nat]]
  /\ First \in [BalanceRow -> [Block -> Int]]
  /\ Touched \in [BalanceRow -> SUBSET (1..MaxBlock)]
  /\ Prealloc \subseteq Account
  /\ RebasingRow \subseteq TokenBalance
  /\ RebasingBlock \subseteq Block
  /\ InitHeads \subseteq {-1, 0}
  /\ Ceiling \in Nat
  /\ \A a \in BalanceRow : \A n \in Block : Chain[a][n] < Ceiling
  /\ Limit \in [FaultKind -> Nat]

HasTx(n) == \E r \in Row : r.coll = "tx" /\ r.num = n

(***************************************************************************)
(* What the blocks of the chain have to do with the balances.              *)
(* processBlock comes to a balance only through a transaction of the block *)
(* (an event, a transfer, the fee, the sum of the rewards), and a row that *)
(* a block does not touch has the same balance after it, unless its token  *)
(* rebases.                                                                *)
(***************************************************************************)
ASSUME BalanceAssumption ==
  /\ \A a \in BalanceRow : \A n \in Touched[a] : HasTx(n)
  /\ \A a \in BalanceRow \ RebasingRow : \A n \in (1..MaxBlock) \ Touched[a] :
       Chain[a][n] = Chain[a][n - 1]

\* A network whose genesis accounts genesis.ts lists, as it does for the main and the test network:
\* nobody else owns anything at genesis.
GenesisListed == Prealloc # {} /\ \A a \in BalanceRow \ Prealloc : Chain[a][0] = 0

VARIABLES
  best,     \* the chain node's best block
  \* the database: it outlives the process
  head,     \* the number in the head document of "pos", -1 if there is none
  db,       \* how many copies of each row are stored; 2 stands for two or more
  ledger,   \* the balance rows; at = -1: there is no such row
  late,     \* rows whose insertion goes on although the call has been rejected
  lateSave, \* balance rows whose save goes on in the same way
  \* the process: it is lost in a crash
  cached,   \* how often each block is in the caches; 2 stands for two or more
  last,     \* the last element of blocksCache, -1 if it is empty
  copy,     \* the documents held by accountCache and tokenBalanceCache
  held,     \* the balance rows they hold a document for
  dirty,    \* those modified since they were last saved
  pc,       \* what the process is doing
  stage,    \* position in SaveOrder or CleanOrder
  num,      \* the loop variable of an import round
  endNum,   \* the last block of the round
  ff,       \* fast-forward: save once per round instead of once per block
  todo,     \* balance rows a loop has still to visit
  spent     \* the faults that have happened so far

store   == <<head, db, ledger, late, lateSave>>
cache   == <<cached, last, copy, held, dirty>>
control == <<pc, stage, num, endNum, ff, todo>>
vars    == <<best, store, cache, control, spent>>

NoRow == [bal |-> 0, at |-> -1]

TypeOK ==
  /\ best \in Block
  /\ head \in -1..MaxBlock
  /\ db \in [Row -> 0..2]
  /\ ledger \in [BalanceRow -> [bal : Int, at : -1..MaxBlock]]
  /\ late \subseteq Row
  /\ lateSave \subseteq BalanceRow
  /\ cached \in [Block -> 0..2]
  /\ last \in -1..MaxBlock
  /\ copy \in [BalanceRow -> [bal : Int, at : -1..MaxBlock]]
  /\ held \subseteq BalanceRow
  /\ dirty \subseteq held
  /\ pc \in {"down", "clean", "fix", "round", "genesis", "fetch", "process", "save"}
  /\ stage \in 1..Len(SaveOrder)
  /\ num \in 0..(MaxBlock + 1)
  /\ endNum \in Block
  /\ ff \in BOOLEAN
  /\ todo \subseteq BalanceRow
  /\ spent \in [FaultKind -> Nat]
-----------------------------------------------------------------------------
(* Helpers. *)

AtMost2(k) == IF k > 2 THEN 2 ELSE k

AnyCached == \E n \in Block : cached[n] > 0

\* The rows the current stage of saveCacheToDB has to insert into collection c.
Pending(c) == { r \in Row : r.coll = c /\ cached[r.num] > 0 }

\* An insertion that the unique index of c is bound to refuse.
Conflict(c) == /\ c \in Unique
               /\ \E r \in Pending(c) : cached[r.num] = 2 \/ db[r] > 0

\* The database after single insertions of the rows S; a unique index drops a second copy.
Landed(S) == [r \in Row |-> IF r \notin S THEN db[r]
                            ELSE IF r.coll \in Unique THEN AtMost2(IF db[r] > 0 THEN db[r] ELSE 1)
                            ELSE AtMost2(db[r] + 1)]

\* The balance rows of block n for which no document exists yet: setDefault creates them.
Missing(n) == { a \in BalanceRow : n \in Touched[a] /\ a \notin held /\ ledger[a].at = -1 }

\* The balance rows after creating S with a zero balance, last updated in block n.
Created(S, n) == [a \in BalanceRow |-> IF a \in S THEN [bal |-> 0, at |-> n] ELSE ledger[a]]

\* A negative balance is replaced by the chain's at the parent block.
BugSettleAtParent(a, n, v) == IF v < 0 THEN Chain[a][n - 1] ELSE v

\* AccountCache.fixAccount: a negative balance is replaced by the chain's at the end of the block.
Settle(a, n, v) == IF v < 0 THEN Chain[a][n] ELSE v

\* The rest of what block n changes in a.
Second(a, n) == Chain[a][n] - Chain[a][n - 1] - First[a][n]

\* The value of a in the cache after the plus and minus calls of block n.  A balance above
\* Ceiling arises only in a cache that counts the same block again after every failed round.
Apply(a, n, v) ==
  LET w == Settle(a, n, Settle(a, n, v + First[a][n]) + Second(a, n))
  IN IF w > Ceiling THEN Ceiling ELSE w

\* TokenBalanceCache.saveToDB deletes a token row that has come down to zero.
Written(a) == IF a \in TokenBalance /\ copy[a].bal <= 0 THEN NoRow ELSE copy[a]

\* The balance rows after the cached documents of S have been saved.
Saved(S) == [a \in BalanceRow |-> IF a \in S THEN Written(a) ELSE ledger[a]]

\* The balance rows of a token after handleRebasing has asked the node for their value at "best".
Rebased(S) == [a \in BalanceRow |-> IF a \in S /\ ledger[a].at # -1
                                    THEN [bal |-> Chain[a][best], at |-> ledger[a].at]
                                    ELSE ledger[a]]

\* The balance documents the current stage of saveCacheToDB has to write.
HeldOf(c) == held \cap (IF c = "account" THEN Account ELSE TokenBalance)

CanSpend(k) == spent[k] < Limit[k]

Spend(k) == spent' = [spent EXCEPT ![k] = @ + 1]

EmptyCache ==
  /\ cached' = [n \in Block |-> 0]
  /\ last' = -1
  /\ copy' = [a \in BalanceRow |-> NoRow]
  /\ held' = {}
  /\ dirty' = {}

Goto(label) == /\ pc' = label
               /\ stage' = 1
               /\ todo' = {}
-----------------------------------------------------------------------------
(* Initial states: a database without head, or with block 0 imported. *)

Init ==
  /\ head \in InitHeads
  /\ best \in { n \in Block : n >= head }
  /\ db = [r \in Row |-> IF r.num <= head THEN 1 ELSE 0]
  /\ ledger = [a \in BalanceRow |-> IF head = 0 /\ a \in Prealloc
                                    THEN [bal |-> Chain[a][0], at |-> 0] ELSE NoRow]
  /\ late = {} /\ lateSave = {}
  /\ cached = [n \in Block |-> 0] /\ last = -1
  /\ copy = [a \in BalanceRow |-> NoRow] /\ held = {} /\ dirty = {}
  /\ pc = "down" /\ stage = 1 /\ num = 0 /\ endNum = 0 /\ ff = TRUE /\ todo = {}
  /\ spent = [k \in FaultKind |-> 0]
-----------------------------------------------------------------------------
(* Startup and cleanUpIncompleteData. *)

\* Nothing is cleaned up at startup.
BugStartWithoutCleanUp ==
  /\ pc = "down"
  /\ Goto("round")
  /\ UNCHANGED <<best, store, cache, num, endNum, ff, spent>>

\* The process starts; without a head there is nothing to clean up.
Start ==
  /\ pc = "down"
  /\ Goto(IF head = -1 THEN "round" ELSE "clean")
  /\ UNCHANGED <<best, store, cache, num, endNum, ff, spent>>

\* deleteAfter with $gte for $gt.
BugDeleteFromHead ==
  /\ pc = "clean"
  /\ CleanOrder[stage] \in Collection
  /\ db' = [r \in Row |-> IF r.coll = CleanOrder[stage] /\ r.num >= head THEN 0 ELSE db[r]]
  /\ stage' = stage + 1
  /\ UNCHANGED <<best, head, ledger, late, lateSave, cache, pc, num, endNum, ff, todo, spent>>

\* deleteAfter(head) on the next collection.
CleanStage ==
  /\ pc = "clean"
  /\ CleanOrder[stage] \in Collection
  /\ db' = [r \in Row |-> IF r.coll = CleanOrder[stage] /\ r.num > head THEN 0 ELSE db[r]]
  /\ stage' = stage + 1
  /\ UNCHANGED <<best, head, ledger, late, lateSave, cache, pc, num, endNum, ff, todo, spent>>

\* Only negative balances are looked for.
BugFixNegativeOnly(c) ==
  { a \in (IF c = "account" THEN Account ELSE TokenBalance) : ledger[a].bal < 0 }

\* The rows updated above the head, and the rows with a negative balance.
ToFix(c) == { a \in (IF c = "account" THEN Account ELSE TokenBalance) :
                ledger[a].at > head \/ ledger[a].bal < 0 }

BeginFix ==
  /\ pc = "clean"
  /\ CleanOrder[stage] \in {"account", "tokenBalance"}
  /\ pc' = "fix"
  /\ todo' = ToFix(CleanOrder[stage])
  /\ UNCHANGED <<best, store, cache, stage, num, endNum, ff, spent>>

\* fixAccount, fixTokenBalance: nothing happens without the head's block, or without a difference.
FixRow(a) ==
  /\ pc = "fix"
  /\ a \in todo
  /\ todo' = todo \ {a}
  /\ ledger' = IF db[BlockRow(head)] > 0 /\ ledger[a].bal # Chain[a][head]
               THEN [ledger EXCEPT ![a] = [bal |-> Chain[a][head], at |-> head]]
               ELSE ledger
  /\ UNCHANGED <<best, head, db, late, lateSave, cache, pc, stage, num, endNum, ff, spent>>

EndFix ==
  /\ pc = "fix"
  /\ todo = {}
  /\ IF stage = Len(CleanOrder) THEN pc' = "round" /\ stage' = 1
                                ELSE pc' = "clean" /\ stage' = stage + 1
  /\ UNCHANGED <<best, store, cache, num, endNum, ff, todo, spent>>
-----------------------------------------------------------------------------
(* The import loop. *)

\* Without a head every round begins with the genesis accounts.
BeginGenesis ==
  /\ pc = "round"
  /\ head = -1
  /\ late = {} /\ lateSave = {}
  /\ pc' = "genesis"
  /\ todo' = Prealloc
  /\ UNCHANGED <<best, store, cache, stage, num, endNum, ff, spent>>

\* accountRepo.create and the save of the chain's balance.
GenesisAccount(a) ==
  /\ pc = "genesis"
  /\ a \in todo
  /\ ledger[a].at = -1
  /\ ledger' = [ledger EXCEPT ![a] = [bal |-> Chain[a][0], at |-> 0]]
  /\ todo' = todo \ {a}
  /\ UNCHANGED <<best, head, db, late, lateSave, cache, pc, stage, num, endNum, ff, spent>>

\* accountRepo.create meets a row an earlier, incomplete genesis left behind.
GenesisConflict(a) ==
  /\ pc = "genesis"
  /\ a \in todo
  /\ ledger[a].at # -1
  /\ Goto("round")
  /\ UNCHANGED <<best, store, cache, num, endNum, ff, spent>>

(***************************************************************************)
(* The range of the round.  A round that follows an error begins two       *)
(* minutes after it (RECOVERY_INTERVAL): rejected calls have landed.       *)
(***************************************************************************)
ReadyForRound == \/ pc = "round" /\ head # -1 /\ late = {} /\ lateSave = {}
                 \/ pc = "genesis" /\ todo = {}

\* The window is not cut at the best block.
BugRoundPastBest == head + LoopWindow

RoundEnd == IF head + LoopWindow > best THEN best ELSE head + LoopWindow

StartRound ==
  /\ ReadyForRound
  /\ RoundEnd > head
  /\ endNum' = RoundEnd
  /\ ff' = (RoundEnd < best)
  /\ num' = head + 1
  /\ Goto("fetch")
  /\ UNCHANGED <<best, store, cache, spent>>

\* Nothing to import: sleep and look again.
SkipRound ==
  /\ ReadyForRound
  /\ RoundEnd <= head
  /\ Goto("round")
  /\ UNCHANGED <<best, store, cache, num, endNum, ff, spent>>

\* The node answers with the block.
FetchBlock ==
  /\ pc = "fetch"
  /\ pc' = "process"
  /\ UNCHANGED <<best, store, cache, stage, num, endNum, ff, todo, spent>>

\* The end of the loop body without a save: `continue', or fast-forward mode.
NextNum ==
  /\ num' = num + 1
  /\ Goto(IF num < endNum THEN "fetch" ELSE IF ff THEN "save" ELSE "round")

\* The node answers with null: the loop goes on with the next number.
FetchNull ==
  /\ pc = "fetch"
  /\ CanSpend("null")
  /\ Spend("null")
  /\ NextNum
  /\ UNCHANGED <<best, store, cache, endNum, ff>>

(***************************************************************************)
(* processBlock: missing balance rows are created in the database at once, *)
(* everything else stays in the caches.                                    *)
(***************************************************************************)
ProcessBlock ==
  /\ pc = "process"
  /\ LET touched == { a \in BalanceRow : num \in Touched[a] }
         before(a) == IF a \in held THEN copy[a].bal ELSE ledger[a].bal
     IN /\ ledger' = Created(Missing(num), num)
        /\ copy' = [a \in BalanceRow |->
                      IF a \in touched THEN [bal |-> Apply(a, num, before(a)), at |-> num]
                                       ELSE copy[a]]
        /\ held' = held \cup touched
        /\ dirty' = dirty \cup touched
  /\ cached' = [cached EXCEPT ![num] = AtMost2(@ + 1)]
  /\ last' = num
  /\ IF ff THEN NextNum ELSE Goto("save") /\ num' = num
  /\ UNCHANGED <<best, head, db, late, lateSave, endNum, ff, spent>>
-----------------------------------------------------------------------------
(* saveCacheToDB. *)

\* bulkInsert of one collection (contracts: one insertion each).
InsertRows ==
  /\ pc = "save"
  /\ SaveOrder[stage] \in Collection
  /\ ~ Conflict(SaveOrder[stage])
  /\ db' = [r \in Row |-> IF r \in Pending(SaveOrder[stage])
                          THEN AtMost2(db[r] + cached[r.num]) ELSE db[r]]
  /\ stage' = stage + 1
  /\ UNCHANGED <<best, head, ledger, late, lateSave, cache, pc, num, endNum, ff, todo, spent>>

SaveBalances ==
  /\ pc = "save"
  /\ SaveOrder[stage] \in {"account", "tokenBalance"}
  /\ ledger' = Saved(dirty \cap HeldOf(SaveOrder[stage]))
  /\ dirty' = dirty \ HeldOf(SaveOrder[stage])
  /\ stage' = stage + 1
  /\ UNCHANGED <<best, head, db, late, lateSave, cached, last, copy, held,
                 pc, num, endNum, ff, todo, spent>>

\* updateHead, if there is a block to update it to.
UpdateHead ==
  /\ pc = "save"
  /\ SaveOrder[stage] = "head"
  /\ head' = IF AnyCached THEN last ELSE head
  /\ stage' = stage + 1
  /\ UNCHANGED <<best, db, ledger, late, lateSave, cache, pc, num, endNum, ff, todo, spent>>

\* handleRebasing, and cleanCache after it.
Rebase ==
  /\ pc = "save"
  /\ SaveOrder[stage] = "rebase"
  /\ ledger' = IF \E n \in RebasingBlock : cached[n] > 0 THEN Rebased(RebasingRow) ELSE ledger
  /\ EmptyCache
  /\ IF ff THEN Goto("round") /\ num' = num ELSE NextNum
  /\ UNCHANGED <<best, head, db, late, lateSave, endNum, ff, spent>>
-----------------------------------------------------------------------------
(* Failures. *)

(***************************************************************************)
(* What the database may look like when the current step is cut short:     *)
(* some of its writes have been made, in any order, or none.               *)
(***************************************************************************)
GenesisCutShort ==
  /\ pc = "genesis"
  /\ \E a \in todo : /\ ledger[a].at = -1
                     /\ ledger' = Created({a}, 0)
  /\ UNCHANGED db

ProcessCutShort ==
  /\ pc = "process"
  /\ \E S \in SUBSET Missing(num) : ledger' = Created(S, num)
  /\ UNCHANGED db

InsertCutShort ==
  /\ pc = "save"
  /\ SaveOrder[stage] \in Collection
  /\ \E S \in SUBSET Pending(SaveOrder[stage]) : db' = Landed(S)
  /\ UNCHANGED ledger

SaveCutShort ==
  /\ pc = "save"
  /\ SaveOrder[stage] \in {"account", "tokenBalance"}
  /\ \E S \in SUBSET (dirty \cap HeldOf(SaveOrder[stage])) : ledger' = Saved(S)
  /\ UNCHANGED db

RebaseCutShort ==
  /\ pc = "save"
  /\ SaveOrder[stage] = "rebase"
  /\ \E n \in RebasingBlock : cached[n] > 0
  /\ \E S \in SUBSET RebasingRow : ledger' = Rebased(S)
  /\ UNCHANGED db

CleanCutShort ==
  /\ pc = "clean"
  /\ CleanOrder[stage] \in Collection
  /\ \E S \in SUBSET { r \in Row : r.coll = CleanOrder[stage] /\ r.num > head } :
       db' = [r \in Row |-> IF r \in S THEN 0 ELSE db[r]]
  /\ UNCHANGED ledger

CutShort == \/ UNCHANGED <<db, ledger>>
            \/ GenesisCutShort \/ ProcessCutShort \/ InsertCutShort
            \/ SaveCutShort \/ RebaseCutShort \/ CleanCutShort

\* The documents of the current stage whose save has not been made by this step.
Unsaved == { a \in dirty : ~ /\ pc = "save"
                             /\ SaveOrder[stage] \in {"account", "tokenBalance"}
                             /\ a \in HeldOf(SaveOrder[stage])
                             /\ ledger'[a] = Written(a) }

(***************************************************************************)
(* A batch of writes is started at once and rejects at its first error:    *)
(* the others may still be made while the process is already cleaning up.  *)
(* Contracts are inserted one by one and leave nothing behind.             *)
(***************************************************************************)
InFlight == { r \in Row : /\ pc = "save"
                          /\ SaveOrder[stage] \in Collection \ {"contract"}
                          /\ r \in Pending(SaveOrder[stage])
                          /\ db'[r] = db[r] }

InFlightSaves == { a \in Unsaved : /\ pc = "save"
                                   /\ SaveOrder[stage] \in {"account", "tokenBalance"}
                                   /\ a \in HeldOf(SaveOrder[stage]) }

Stragglers(faults) ==
  \/ /\ UNCHANGED <<late, lateSave>>
     /\ spent' = faults
  \/ /\ CanSpend("late")
     /\ spent' = [faults EXCEPT !["late"] = @ + 1]
     /\ \E S \in (SUBSET InFlight) \ {{}} : late' = late \cup S
     /\ UNCHANGED lateSave
  \/ /\ CanSpend("late")
     /\ spent' = [faults EXCEPT !["late"] = @ + 1]
     /\ \E S \in (SUBSET InFlightSaves) \ {{}} : lateSave' = lateSave \cup S
     /\ UNCHANGED late

(***************************************************************************)
(* The catch clause of the loop: clean up if there is a head and begin a   *)
(* new round.  The caches keep what they hold.                             *)
(***************************************************************************)
Recover(faults) ==
  /\ CutShort
  /\ dirty' = Unsaved
  /\ Stragglers(faults)
  /\ Goto(IF head = -1 THEN "round" ELSE "clean")
  /\ UNCHANGED <<best, head, cached, last, copy, held, num, endNum, ff>>

\* A call to the chain node or to MongoDB fails in the loop.
StepFails ==
  /\ pc \in {"round", "genesis", "fetch", "save"}
  /\ CanSpend("error")
  /\ Recover([spent EXCEPT !["error"] = @ + 1])

\* A unique index refuses a row: no fault is needed for this one.
InsertConflict ==
  /\ pc = "save"
  /\ Conflict(SaveOrder[stage])
  /\ Recover(spent)

\* The process ends: its caches and the calls under way are gone.
Die ==
  /\ CutShort
  /\ EmptyCache
  /\ late' = {} /\ lateSave' = {}
  /\ Goto("down")
  /\ UNCHANGED <<best, head, num, endNum, ff>>

\* An error in processBlock, in the cleanup at startup or in the catch clause ends the process.
StepKills ==
  /\ pc \in {"clean", "fix", "process"}
  /\ CanSpend("error") /\ Spend("error")
  /\ Die

Crash ==
  /\ pc # "down"
  /\ CanSpend("crash") /\ Spend("crash")
  /\ Die

\* A straggler reaches the database.
Land(r) ==
  /\ r \in late
  /\ late' = late \ {r}
  /\ db' = Landed({r})
  /\ UNCHANGED <<best, head, ledger, lateSave, cache, control, spent>>

LandSave(a) ==
  /\ a \in lateSave
  /\ lateSave' = lateSave \ {a}
  /\ ledger' = Saved({a})
  /\ dirty' = dirty \ {a}
  /\ UNCHANGED <<best, head, db, late, cached, last, copy, held, control, spent>>

\* The chain node learns of a new block.
ChainGrows ==
  /\ best < MaxBlock
  /\ best' = best + 1
  /\ UNCHANGED <<store, cache, control, spent>>
-----------------------------------------------------------------------------
(* The specification. *)

CleanUp == \/ CleanStage
           \/ BeginFix
           \/ \E a \in BalanceRow : FixRow(a)
           \/ EndFix

Import == \/ BeginGenesis
          \/ \E a \in BalanceRow : GenesisAccount(a)
          \/ \E a \in BalanceRow : GenesisConflict(a)
          \/ StartRound
          \/ SkipRound
          \/ FetchBlock
          \/ ProcessBlock

SaveCache == \/ InsertRows
             \/ InsertConflict
             \/ SaveBalances
             \/ UpdateHead
             \/ Rebase

\* The process and the writes it has under way.
Program == Start \/ CleanUp \/ Import \/ SaveCache

Landing == \/ \E r \in Row : Land(r)
           \/ \E a \in BalanceRow : LandSave(a)

Fault == FetchNull \/ StepFails \/ StepKills \/ Crash

Next == Program \/ Landing \/ Fault \/ ChainGrows

Spec == Init /\ [][Next]_vars

(***************************************************************************)
(* The process is one thread that never waits for ever: every call it      *)
(* awaits returns or rejects, every sleep ends, and docker starts it again *)
(* when it has died (restart: unless-stopped).  Nothing is assumed of the  *)
(* chain node and of the faults.                                           *)
(***************************************************************************)
Fairness == WF_vars(Program) /\ WF_vars(Landing)

FairSpec == Spec /\ Fairness
-----------------------------------------------------------------------------
(* Properties. *)

Stored(n) == \A r \in Row : r.num = n => db[r] > 0

NoGap == spent["null"] = 0

NoStraggler == spent["late"] = 0

\* While the node answers every request, whatever crashes and errors occur and however the
\* interrupted writes fell, everything at or below the head is stored: the cleanup never
\* removes a committed row and the head never overtakes the collections written before it.
PrefixComplete == NoGap => \A n \in 0..head : Stored(n)

\* A block row is never seen without its transactions, logs, movements and the rest, not even
\* above the head: blocks are written last and removed first.
NoTornBlock == NoStraggler => \A n \in Block : db[BlockRow(n)] > 0 => Stored(n)

NoError == spent["error"] = 0

\* No row at or below the head is stored twice.  The committees have no unique index.  Theirs are
\* stored once as long as no error leaves a committed block in the caches; after one, if the block
\* of the committee has a transaction, which the unique index then refuses before it comes to the
\* committees.
StoredOnce ==
  \A r \in Row :
    r.num <= head /\ (r.coll = "committee" =>
                        NoError \/ ((NoGap \/ NoStraggler) /\ HasTx(r.num))) => db[r] <= 1

\* What a reader finds that does not go by the head: whole blocks, and below the head each row
\* once.
StoredWhole == NoTornBlock /\ StoredOnce

\* A negative balance is replaced by the one at the end of the block, and what follows in the
\* block is then counted a second time.  Balances are exact only where that cannot happen: no
\* block overdraws the balance on its way and, for a token row, which an interrupted save may
\* have deleted and the next import starts again from zero, no block goes down before going up.
OrderSafe(a) ==
  \A n \in Touched[a] : /\ Chain[a][n - 1] + First[a][n] >= 0
                        /\ a \in TokenBalance => First[a][n] >= 0 \/ Second(a, n) = 0

Tracked == { a \in BalanceRow \ RebasingRow : OrderSafe(a) }

\* The cleanup is through, and the caches are empty.
CleanedUp == head # -1 /\ ~ AnyCached /\ pc \in {"round", "fetch"}

\* A balance row not updated above the head has exactly the chain's balance at the head, at any
\* moment, after any number of interrupted imports and fixes; and once the cleanup is through, no
\* trace of an interrupted import is left in any row, whatever its lastUpdate says.  (A token row
\* may be missing: see CommitsExactBalances.)
LedgerExact ==
  NoGap => \A a \in Tracked :
    ledger[a].at \in 0..head \/ (CleanedUp /\ ledger[a].at # -1) => ledger[a].bal = Chain[a][head]

\* When the head moves, every balance is the chain's at the new head, a missing row counting as
\* zero: a token row deleted by a save that was then interrupted is right again by then.
CommitsExactBalances ==
  [][ NoGap /\ head' # head =>
        \A a \in Tracked : ledger[a].bal = Chain[a][head'] ]_vars

\* The head moves to the last of consecutive blocks, each of them processed exactly once since
\* the last save: what the caches kept across an error is never committed.
CommitsConsecutiveBlocks ==
  [][ NoGap /\ head' # head =>
        /\ head' > head
        /\ \A n \in Block : cached[n] = (IF n \in (head + 1)..head' THEN 1 ELSE 0) ]_vars

\* Rows above the head that the cleanup does not delete and a unique index keeps from being stored
\* again: a withdrawal whose import was interrupted after its insertion.
LeftForGood == { r \in Row : /\ r.num > head /\ db[r] > 0
                             /\ r.coll \in Unique /\ \A i \in DOMAIN CleanOrder : CleanOrder[i] # r.coll }

\* From a database with a head, and without an error in the loop, the process catches up with the
\* chain and stays there, whatever crashes, answers of null and late writes it meets on its way:
\* except if one of them strikes after a withdrawal has been inserted and before the head moves,
\* and leaves a row that every later round stumbles over (see CleanupRemovesAllDirtyRows).
CatchesUp ==
  head # -1 /\ [](spent["error"] = 0) /\ [](pc = "round" => LeftForGood = {}) => <>[](head = best)

(***************************************************************************)
(* The database as its readers see it through the head.                    *)
(***************************************************************************)
Visible == { n \in 0..head : Stored(n) }

Abstract == INSTANCE AtomicImport WITH tip <- head, visible <- Visible

\* To a reader that looks only at blocks the head has passed, the import is a sequence of
\* atomic steps: a committed block never changes again and never disappears.
ImplementsAtomicImport == Abstract!AbsSpec
-----------------------------------------------------------------------------
(* Statements of the code that the process does not live up to. *)

\* pos.cmd.ts:317 and :362: the cleanup removes the invalid, incomplete data above the head.
CleanupRemovesAllDirtyRows ==
  NoStraggler /\ pc = "round" /\ head # -1 => \A r \in Row : r.num > head => db[r] = 0

\* pos.cmd.ts:458: the loop sleeps after an error in the hope that the next round resolves it.
ErrorsResolve == <>[](head = best)
=============================================================================
