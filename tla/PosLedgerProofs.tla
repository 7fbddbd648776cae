---------------------------- MODULE PosLedgerProofs ----------------------------
(***************************************************************************)
(* The balances the PoS import stores are those of the chain at its head,  *)
(* for every chain, window size and number of faults but null answers.     *)
(***************************************************************************)
EXTENDS PosSyncProofs

\* The balance of a after block n; before the genesis block there is that of genesis.
ChainAt(a, n) == Chain[a][IF n = -1 THEN 0 ELSE n]

(***************************************************************************)
(* What may stand for the balance of a after block n: the balance itself,  *)
(* or, for a token whose row a cut-short save has deleted, less than it.   *)
(* The import then starts again from zero; it is right again in the block, *)
(* not after block w, in which the balance comes to zero.                  *)
(***************************************************************************)
Near(a, n, v, w) ==
  /\ 0 <= v /\ v <= ChainAt(a, n)
  /\ \/ v = ChainAt(a, n)
     \/ a \in TokenBalance /\ \E k \in Block : n < k /\ k <= w /\ Chain[a][k] = 0

\* A balance row a reader may find while the head is at h, and the last block of the next batch is w
\* or a later one: nothing is said of a row updated above the head, which the cleanup mends.
Sound(a, row, h, w) ==
  /\ row.at \in 0..h => row.bal = Chain[a][h]
  /\ row.at = -1 => row.bal = 0 /\ Near(a, h, 0, w)

\* The last block of the batch, and the least it can be while there is no batch: a batch is cut short
\* at the best block, and its blocks then saved one by one.
Reach == IF head + LoopWindow < best /\ ~ (Importing /\ ~ ff) THEN head + LoopWindow ELSE head + 1

\* The last block the caches reflect.
Progress == CASE pc \in {"fetch", "process"} -> num - 1
              [] pc = "save" -> last
              [] OTHER -> head

\* No failed round has left anything in the caches that counts: each block with a transaction has been
\* processed once in this batch.
Clean == \A n \in Block : HasTx(n) => cached[n] = (IF head < n /\ n <= Progress THEN 1 ELSE 0)
-----------------------------------------------------------------------------
(* Balances of a tracked row from block to block. *)

LEMMA ChainFacts ==
  ASSUME NEW a \in BalanceRow, NEW n \in Block
  PROVE  /\ Chain[a][n] \in Nat /\ Chain[a][n] < Ceiling /\ First[a][n] \in Int /\ Ceiling \in Nat
         /\ n \in Int /\ 0 \in Block /\ 0 <= n /\ n <= MaxBlock /\ MaxBlock \in Nat
  <1>1. Chain[a] \in [Block -> Nat] /\ First[a] \in [Block -> Int] /\ Ceiling \in Nat /\ MaxBlock \in Nat
    BY PosSyncAssumption
  <1>2. Chain[a][n] < Ceiling
    BY PosSyncAssumption
  <1>. QED  BY <1>1, <1>2 DEF Block

LEMMA TouchedFacts ==
  ASSUME NEW a \in BalanceRow, NEW n \in Touched[a]
  PROVE  n \in Block /\ n - 1 \in Block /\ n \in 1..MaxBlock /\ HasTx(n)
  <1>1. Touched[a] \subseteq 1..MaxBlock /\ MaxBlock \in Nat
    BY PosSyncAssumption
  <1>. QED  BY <1>1, BalanceAssumption DEF Block

\* The plus and minus calls of a block take the balance to that of the chain, or come nearer to it.
LEMMA NearApply ==
  ASSUME NEW a \in Tracked, NEW n \in Touched[a], NEW v \in Int, NEW w \in Int,
         Near(a, n - 1, v, w)
  PROVE  Near(a, n, Apply(a, n, v), w)
  <1>. DEFINE c == Chain[a][n - 1]
              d == Chain[a][n]
              f == First[a][n]
              s == Second(a, n)
              u == Settle(a, n, v + f)
              z == Settle(a, n, u + s)
  <1>1. a \in BalanceRow /\ OrderSafe(a)
    BY DEF Tracked
  <1>2. n \in Block /\ n - 1 \in Block /\ n \in 1..MaxBlock
    BY <1>1, TouchedFacts
  <1>3. /\ c \in Nat /\ d \in Nat /\ f \in Int /\ d < Ceiling /\ Ceiling \in Nat
        /\ n \in Int /\ n >= 1
    BY <1>1, <1>2, ChainFacts
  <1>4. c + f >= 0 /\ (a \in TokenBalance => f >= 0 \/ s = 0)
    BY <1>1 DEF OrderSafe
  <1>5. s = d - c - f
    BY DEF Second
  <1>6. 0 <= v /\ v <= c /\ (v = c \/ (a \in TokenBalance /\ \E k \in Block : n - 1 < k /\ k <= w /\ Chain[a][k] = 0))
    BY <1>2, <1>3 DEF Near, ChainAt
  <1>7. u = (IF v + f < 0 THEN d ELSE v + f) /\ z = (IF u + s < 0 THEN d ELSE u + s)
    BY DEF Settle
  <1>8. 0 <= z /\ z <= d /\ (v = c => z = d)
    <2>. HIDE DEF c, d, f, s, u, z
    <2>1. CASE v = c
      BY <1>3, <1>4, <1>5, <1>7, <2>1
    <2>2. CASE v # c
      <3>1. a \in TokenBalance
        BY <1>6, <2>2
      <3>2. CASE v + f < 0
        <4>1. s = 0
          BY <1>3, <1>4, <1>6, <3>1, <3>2
        <4>. QED  BY <1>3, <1>7, <2>2, <3>2, <4>1
      <3>3. CASE ~ (v + f < 0)
        BY <1>3, <1>5, <1>6, <1>7, <2>2, <3>3
      <3>. QED  BY <3>2, <3>3
    <2>. QED  BY <2>1, <2>2
  <1>9. Apply(a, n, v) = z
    <2>1. Apply(a, n, v) = IF z > Ceiling THEN Ceiling ELSE z
      BY DEF Apply
    <2>. HIDE DEF z, d
    <2>2. z \in Int /\ ~ (z > Ceiling)
      BY <1>3, <1>5, <1>7, <1>8
    <2>. QED  BY <2>1, <2>2
  <1>10. z = d \/ (a \in TokenBalance /\ \E k \in Block : n < k /\ k <= w /\ Chain[a][k] = 0)
    <2>. SUFFICES ASSUME z # d
                  PROVE  a \in TokenBalance /\ \E k \in Block : n < k /\ k <= w /\ Chain[a][k] = 0
      OBVIOUS
    <2>1. PICK k \in Block : n - 1 < k /\ k <= w /\ Chain[a][k] = 0
      BY <1>6, <1>8
    <2>2. k # n
      <3>. SUFFICES ASSUME k = n PROVE FALSE
        OBVIOUS
      <3>1. d = 0
        BY <2>1
      <3>. HIDE DEF z, d
      <3>. QED  BY <1>3, <1>5, <1>7, <1>8, <3>1
    <2>3. k \in Int
      BY <1>1, ChainFacts
    <2>4. n < k
      BY <1>3, <2>1, <2>2, <2>3
    <2>. QED  BY <1>6, <1>8, <2>1, <2>4
  <1>11. ChainAt(a, n) = d
    BY <1>3 DEF ChainAt
  <1>. QED  BY <1>8, <1>9, <1>10, <1>11 DEF Near

\* A block that does not touch the row leaves it as near as it was.
LEMMA NearSkip ==
  ASSUME NEW a \in Tracked, NEW n \in Block, n \notin Touched[a], NEW v \in Int, NEW w \in Int,
         Near(a, n - 1, v, w)
  PROVE  Near(a, n, v, w) /\ ChainAt(a, n) = ChainAt(a, n - 1)
  <1>1. a \in BalanceRow \ RebasingRow
    BY DEF Tracked
  <1>2. n \in Int /\ 0 <= n /\ n <= MaxBlock /\ MaxBlock \in Nat
    BY <1>1, ChainFacts
  <1>3. ChainAt(a, n) = ChainAt(a, n - 1)
    <2>1. CASE n = 0
      BY <1>2, <2>1 DEF ChainAt
    <2>2. CASE n # 0
      <3>1. n \in (1..MaxBlock) \ Touched[a] /\ n # -1 /\ n - 1 # -1
        BY <1>2, <2>2
      <3>. QED  BY <1>1, <3>1, BalanceAssumption DEF ChainAt
    <2>. QED  BY <2>1, <2>2
  <1>4. ASSUME NEW k \in Block, n - 1 < k, k <= w, Chain[a][k] = 0, v # ChainAt(a, n - 1)
        PROVE  n < k
    <2>1. k \in Int /\ Chain[a][k] \in Nat
      BY <1>1, ChainFacts
    <2>2. k # n
      <3>. SUFFICES ASSUME k = n PROVE FALSE
        OBVIOUS
      <3>1. ChainAt(a, n) = 0
        BY <1>2, <1>4 DEF ChainAt
      <3>. QED  BY <1>3, <1>4, <3>1 DEF Near
    <2>. QED  BY <1>2, <1>4, <2>1, <2>2
  <1>. QED  BY <1>3, <1>4 DEF Near

\* At the end of the batch near is exact.
LEMMA NearEnd ==
  ASSUME NEW a \in BalanceRow, NEW n \in Block, NEW v, Near(a, n, v, n)
  PROVE  v = Chain[a][n]
  <1>1. n \in Int /\ \A k \in Block : k \in Int
    BY ChainFacts
  <1>2. ~ \E k \in Block : n < k /\ k <= n
    BY <1>1
  <1>. QED  BY <1>1, <1>2, ChainFacts DEF Near, ChainAt

LEMMA NearFurther ==
  ASSUME NEW a \in BalanceRow, NEW n, NEW v, NEW w \in Int, NEW x \in Int, w <= x, Near(a, n, v, w)
  PROVE  Near(a, n, v, x)
  <1>1. \A k \in Block : k \in Int
    BY ChainFacts
  <1>. QED  BY <1>1 DEF Near
-----------------------------------------------------------------------------
(* The balance caches. *)

\* The caches hold a document for the rows the cached blocks touch, and what has been modified has
\* been modified above the head; it is saved before the head moves, or is under way when the save fails.
CacheInv ==
  /\ \A a \in BalanceRow : a \in held <=> \E n \in Touched[a] : cached[n] > 0
  /\ lateSave \subseteq dirty
  /\ \A a \in dirty : copy[a].at > head
  /\ pc = "save" /\ stage > 12 => dirty \cap Account = {}
  /\ pc = "save" /\ stage > 13 => dirty = {}

LEMMA ProcessCache ==
  ASSUME TypeInv, RefInv, HeldInv, CacheInv, ProcessBlock
  PROVE  CacheInv'
  <1>. DEFINE touched == { a \in BalanceRow : num \in Touched[a] }
  <1>1. /\ pc = "process" /\ num \in Block /\ num > head
        /\ cached \in [Block -> 0..2] /\ held \subseteq BalanceRow /\ dirty \subseteq held
    BY RangeFacts DEF ProcessBlock, TypeInv, TypeOK, ControlInv, RefInv, AboveInv
  <1>2. /\ held' = held \cup touched /\ dirty' = dirty \cup touched
        /\ cached' = [cached EXCEPT ![num] = AtMost2(@ + 1)]
        /\ \A a \in BalanceRow : copy'[a].at = IF a \in touched THEN num ELSE copy[a].at
        /\ head' = head /\ lateSave' = lateSave
    BY DEF ProcessBlock
  <1>3. pc' = "save" => stage' = 1
    BY DEF ProcessBlock, NextNum, Goto
  <1>4. lateSave = {}
    BY <1>1 DEF HeldInv, InRound
  <1>5. \A n \in Block : cached'[n] > 0 <=> (n = num \/ cached[n] > 0)
    BY <1>1, <1>2 DEF AtMost2
  <1>6. ASSUME NEW a \in BalanceRow
        PROVE  a \in held' <=> \E n \in Touched[a] : cached'[n] > 0
    <2>1. Touched[a] \subseteq Block
      BY TouchedFacts
    <2>2. a \in held <=> \E n \in Touched[a] : cached[n] > 0
      BY DEF CacheInv
    <2>. QED  BY <1>2, <1>5, <2>1, <2>2
  <1>7. \A a \in dirty' : copy'[a].at > head
    BY <1>1, <1>2 DEF CacheInv
  <1>. QED  BY <1>2, <1>3, <1>4, <1>6, <1>7 DEF CacheInv

LEMMA CacheStep ==
  ASSUME TypeInv, RefInv, HeldInv, CacheInv, [Next]_vars
  PROVE  CacheInv'
  <1>. USE DEF store, cache, control, Goto
  <1>0. stage \in 1..16 /\ dirty \subseteq held /\ held \subseteq BalanceRow
    BY RangeFacts DEF TypeInv, TypeOK
  <1>1. CASE ProcessBlock
    BY <1>1, ProcessCache
  <1>2. CASE InsertConflict \/ StepFails
    <2>1. PICK faults : Recover(faults)
      BY <1>2 DEF InsertConflict, StepFails
    <2>2. /\ dirty' = Unsaved /\ lateSave' \subseteq lateSave \cup InFlightSaves
          /\ UNCHANGED <<head, cached, copy, held>> /\ pc' # "save"
      BY <2>1 DEF Recover, Stragglers
    <2>3. InFlightSaves \subseteq Unsaved /\ Unsaved \subseteq dirty
      BY DEF InFlightSaves, Unsaved
    <2>4. lateSave \subseteq Unsaved
      BY DEF Unsaved, CacheInv, HeldInv, InRound
    <2>. QED  BY <2>2, <2>3, <2>4 DEF CacheInv
  <1>3. CASE StepKills \/ Crash \/ Rebase
    <2>1. /\ held' = {} /\ dirty' = {} /\ lateSave' = {} /\ \A n \in Block : cached'[n] = 0
      BY <1>3 DEF StepKills, Crash, Die, Rebase, EmptyCache, HeldInv, InRound
    <2>2. \A a \in BalanceRow : Touched[a] \subseteq Block
      BY TouchedFacts
    <2>. QED  BY <2>1, <2>2 DEF CacheInv
  <1>4. CASE SaveBalances
    <2>1. /\ stage \in {12, 13} /\ (stage = 12 => SaveOrder[stage] = "account")
          /\ (stage = 13 => SaveOrder[stage] = "tokenBalance")
      BY <1>0, <1>4, StageFacts DEF SaveBalances, SaveOrder
    <2>2. /\ dirty' = dirty \ HeldOf(SaveOrder[stage]) /\ stage' = stage + 1
          /\ UNCHANGED <<head, cached, copy, held, lateSave>> /\ lateSave = {}
          /\ pc = "save"
      BY <1>4 DEF SaveBalances, HeldInv, InRound
    <2>3. CASE stage = 12
      <3>1. dirty' \cap Account = {}
        BY <1>0, <2>1, <2>2, <2>3 DEF HeldOf
      <3>. QED  BY <2>2, <2>3, <3>1 DEF CacheInv
    <2>4. CASE stage = 13
      <3>1. dirty \cap Account = {}
        BY <2>2, <2>4 DEF CacheInv
      <3>2. dirty' = {}
        BY <1>0, <2>1, <2>2, <2>4, <3>1 DEF HeldOf, BalanceRow
      <3>. QED  BY <2>2, <2>4, <3>2 DEF CacheInv
    <2>. QED  BY <2>1, <2>3, <2>4
  <1>5. CASE UpdateHead
    <2>1. stage = 15 /\ pc = "save"
      BY <1>0, <1>5, StageFacts DEF UpdateHead
    <2>2. dirty = {}
      BY <2>1 DEF CacheInv
    <2>. QED  BY <1>5, <2>1, <2>2 DEF UpdateHead, CacheInv
  <1>6. CASE Landing
    <2>1. /\ UNCHANGED <<head, cached, copy, held, pc, stage>>
          /\ dirty' \subseteq dirty /\ lateSave' \subseteq dirty'
      BY <1>6 DEF Landing, Land, LandSave, CacheInv
    <2>. QED  BY <2>1 DEF CacheInv
  <1>7. CASE InsertRows
    <2>1. stage \in 1..11 \cup {14}
      BY <1>0, <1>7 DEF InsertRows, SaveOrder, Collection
    <2>. QED  BY <1>7, <2>1 DEF InsertRows, CacheInv
  <1>8. CASE ~ (\/ ProcessBlock \/ InsertConflict \/ StepFails \/ StepKills \/ Crash \/ Rebase
               \/ SaveBalances \/ UpdateHead \/ Landing \/ InsertRows)
    <2>1. /\ UNCHANGED <<head, cached, copy, held, dirty, lateSave>>
          /\ pc' = "save" => stage' = 1 \/ UNCHANGED <<pc, stage>>
      BY <1>8 DEF Next, Program, Start, CleanUp, CleanStage, BeginFix, FixRow, EndFix, Import,
         BeginGenesis, GenesisAccount, GenesisConflict, StartRound, SkipRound, FetchBlock, SaveCache,
         Fault, FetchNull, NextNum, ChainGrows, vars
    <2>. QED  BY <2>1 DEF CacheInv
  <1>. QED  BY <1>1, <1>2, <1>3, <1>4, <1>5, <1>6, <1>7, <1>8
-----------------------------------------------------------------------------
(* The batch. *)

\* The unique index of tx refuses what a failed round has left in the caches before the save comes to
\* the balances.
CleanInv == pc = "save" /\ stage \in 3..15 => Clean

LEMMA LastIsReach ==
  ASSUME TypeInv, GapFreeInv, WindowInv, pc = "save", stage <= 15
  PROVE  last = Reach /\ last \in Block /\ last > head
  <1>0. /\ head \in -1..MaxBlock /\ LoopWindow \in Nat /\ LoopWindow > 0 /\ best \in Int
        /\ ff \in BOOLEAN /\ MaxBlock \in Nat
    BY RangeFacts, BoundFacts DEF TypeInv, TypeOK
  <1>a. endNum \in 0..MaxBlock
    BY RangeFacts
  <1>1. last = (IF ff THEN endNum ELSE head + 1) /\ (ff => endNum = head + LoopWindow /\ endNum < best)
    BY DEF WindowInv, Importing
  <1>2. last \in Block
    BY DEF GapFreeInv, SaveInv
  <1>. QED  BY <1>0, <1>a, <1>1, <1>2 DEF Reach, Importing

LEMMA CleanStep ==
  ASSUME TypeInv, RefInv, GapFreeInv, WindowInv, CleanInv, [Next]_vars, ~ FetchNull
  PROVE  CleanInv'
  <1>. USE DEF store, cache, control, Goto
  <1>0. /\ stage \in 1..16 /\ head \in -1..MaxBlock /\ last \in -1..MaxBlock /\ cached \in [Block -> 0..2]
        /\ \A n \in Block : n \in Int
    BY RangeFacts
  <1>1. CASE InsertRows
    <2>1. /\ pc = "save" /\ pc' = "save" /\ stage' = stage + 1 /\ UNCHANGED <<head, cached, last>>
          /\ stage \in 1..14
      BY <1>0, <1>1, StageFacts DEF InsertRows
    <2>2. Clean => Clean'
      BY <2>1 DEF Clean, Progress
    <2>3. CASE stage = 2
      <3>. SUFFICES ASSUME NEW n \in Block, HasTx(n)
                    PROVE  cached[n] = (IF head < n /\ n <= last THEN 1 ELSE 0)
        BY <2>1, <2>2 DEF CleanInv, Clean, Progress
      <3>1. PICK r \in Row : r.coll = "tx" /\ r.num = n
        BY DEF HasTx
      <3>2. cached[n] > 0 => cached[n] # 2 /\ ~ (db[r] > 0)
        BY <1>1, <2>3, <3>1 DEF InsertRows, SaveOrder, Conflict, Unique, Collection, Pending
      <3>3. n <= head => db[r] > 0
        BY <3>1 DEF GapFreeInv, PrefixInv
      <3>4. cached[n] > 0 => n <= last
        <4>1. /\ ff \in BOOLEAN /\ LoopWindow \in Nat /\ last = (IF ff THEN endNum ELSE head + 1)
              /\ LoopWindow > 0
              /\ (ff => endNum = head + LoopWindow)
              /\ (~ ff => \A m \in Block : cached[m] > 0 => m <= head + 1)
              /\ cached[n] > 0 /\ n > head + 1 => n <= head + LoopWindow
          BY <2>1, <2>3, BoundFacts DEF WindowInv, Importing, TypeInv, TypeOK
        <4>. QED  BY <1>0, <4>1
      <3>5. head < n /\ n <= last => cached[n] > 0
        BY <2>1 DEF GapFreeInv, SaveInv
      <3>. QED  BY <1>0, <3>2, <3>3, <3>4, <3>5
    <2>4. CASE stage # 2
      BY <2>1, <2>2, <2>4 DEF CleanInv
    <2>. QED  BY <2>3, <2>4
  <1>2. CASE SaveBalances
    <2>1. /\ pc = "save" /\ pc' = "save" /\ stage' = stage + 1 /\ UNCHANGED <<head, cached, last>>
          /\ stage \in {12, 13}
      BY <1>0, <1>2 DEF SaveBalances, SaveOrder
    <2>. QED  BY <2>1 DEF CleanInv, Clean, Progress
  <1>3. CASE UpdateHead
    <2>1. stage' = 16
      BY <1>0, <1>3, StageFacts DEF UpdateHead
    <2>. QED  BY <2>1 DEF CleanInv
  <1>4. CASE StartRound \/ FetchBlock \/ ProcessBlock \/ Rebase
    <2>1. pc' = "save" => stage' = 1
      BY <1>4 DEF StartRound, FetchBlock, ProcessBlock, Rebase, NextNum
    <2>. QED  BY <2>1 DEF CleanInv
  <1>5. CASE ~ RoundStep
    <2>1. /\ pc' = "save" => UNCHANGED <<pc, stage, last>>
          /\ head' = head
      BY <1>5, OtherAside DEF Aside
    <2>2. pc' = "save" => cached' = cached
      <3>1. StepKills \/ Crash => pc' = "down"
        BY DEF StepKills, Crash, Die
      <3>2. InsertConflict \/ StepFails => pc' # "save"
        BY DEF InsertConflict, StepFails, Recover
      <3>. QED  BY <1>5, <3>1, <3>2 DEF RoundStep, Next, Program, Start, CleanUp, CleanStage, BeginFix,
                FixRow, EndFix, Import, BeginGenesis, GenesisAccount, GenesisConflict, SkipRound,
                SaveCache, Fault, Landing, Land, LandSave, ChainGrows, vars
    <2>. QED  BY <2>1, <2>2 DEF CleanInv, Clean, Progress
  <1>. QED  BY <1>1, <1>2, <1>3, <1>4, <1>5 DEF RoundStep

\* While the head stays where it is, batches only become longer.
LEMMA ReachGrows ==
  ASSUME TypeInv, [Next]_vars, head' = head, ~ FetchNull, ~ Rebase
  PROVE  Reach \in Int /\ Reach' \in Int /\ Reach <= Reach'
  <1>. USE DEF store, cache, control, Goto
  <1>0. /\ head \in -1..MaxBlock /\ LoopWindow \in Nat /\ LoopWindow > 0 /\ best \in Int
        /\ ff \in BOOLEAN /\ MaxBlock \in Nat /\ stage \in 1..16
    BY RangeFacts, BoundFacts DEF TypeInv, TypeOK
  <1>1. best' \in Int /\ best <= best'
    <2>1. CASE RoundStep
      BY <1>0, <2>1 DEF RoundStep, StartRound, FetchBlock, ProcessBlock, InsertRows, SaveBalances,
         UpdateHead, Rebase
    <2>2. CASE ~ RoundStep
      BY <1>0, <2>2, OtherAside DEF Aside
    <2>. QED  BY <2>1, <2>2
  <1>2. Importing' /\ ~ ff' /\ head + LoopWindow < best => Importing /\ ~ ff
    <2>. SUFFICES ASSUME Importing', ~ ff', head + LoopWindow < best
                  PROVE  Importing /\ ~ ff
      OBVIOUS
    <2>1. CASE StartRound
      <3>1. RoundEnd = head + LoopWindow
        BY <1>0 DEF RoundEnd
      <3>2. ff' = (RoundEnd < best)
        BY <2>1 DEF StartRound
      <3>. QED  BY <3>1, <3>2
    <2>2. CASE FetchBlock \/ ProcessBlock
      BY <2>2 DEF FetchBlock, ProcessBlock, Importing
    <2>3. CASE InsertRows \/ SaveBalances \/ UpdateHead
      BY <1>0, <2>3, StageFacts DEF InsertRows, SaveBalances, UpdateHead, Importing
    <2>4. CASE ~ RoundStep
      BY <2>4, OtherAside DEF Aside, Importing
    <2>. QED  BY <2>1, <2>2, <2>3, <2>4 DEF RoundStep
  <1>. QED  BY <1>0, <1>1, <1>2 DEF Reach
-----------------------------------------------------------------------------
(* The invariant. *)

\* A tracked row while a batch is processed and saved: its document, if there is one, is what the chain
\* says after the blocks processed so far, and so is the row once it has been saved; a row without a
\* document is the chain's at the head, and no block since has touched it.
Booked(a) ==
  IF a \in held
  THEN /\ Near(a, Progress, copy[a].bal, Reach)
       /\ a \notin dirty => pc = "save" /\ ledger[a] = Written(a)
  ELSE /\ Near(a, Progress, ledger[a].bal, Reach)
       /\ ChainAt(a, Progress) = ChainAt(a, head)
       /\ ledger[a].at # -1 => ledger[a].bal = ChainAt(a, head)

BookInv == Clean /\ Importing => \A a \in Tracked : Booked(a)

\* Behind updateHead every row is the chain's.
CommitInv == pc = "save" /\ stage = 16 => \A a \in Tracked : ledger[a].bal = Chain[a][head]

\* What is in the database, or on its way there.
SoundInv ==
  head # -1 \/ InRound =>
    \A a \in Tracked : /\ Sound(a, ledger[a], head, Reach)
                       /\ a \in lateSave => Sound(a, Written(a), head, Reach)

\* The rows the cleanup has come past.
Mended(a) == \/ pc = "round"
             \/ stage = 13 /\ a \in Account
             \/ pc = "fix" /\ a \in (IF stage = 12 THEN Account ELSE TokenBalance) \ todo

MendInv == Clean /\ head # -1 /\ pc \in {"round", "clean", "fix"} =>
             \A a \in Tracked : Mended(a) /\ ledger[a].at # -1 => ledger[a].bal = Chain[a][head]

\* Nothing has been written since the database was created but the accounts of the genesis.
Pristine ==
  /\ lateSave = {}
  /\ \A a \in BalanceRow : ledger[a] = IF pc = "genesis" /\ a \in Prealloc \ todo
                                       THEN [bal |-> Chain[a][0], at |-> 0] ELSE NoRow

GenesisInv == /\ pc = "genesis" => head = -1
              /\ head = -1 /\ pc \in {"down", "round", "genesis"} => Blocked \/ Pristine

LedgerInv == /\ BatchInv /\ HeldInv /\ FirstInv /\ CacheInv /\ GenesisInv
             /\ NoGap => CleanInv /\ SoundInv /\ MendInv /\ BookInv /\ CommitInv
-----------------------------------------------------------------------------
(* What a step may do to a row. *)

LEMMA RowFacts ==
  ASSUME TypeInv, NEW a \in BalanceRow
  PROVE  /\ ledger[a] \in BalanceDoc /\ ledger[a].bal \in Int /\ ledger[a].at \in -1..MaxBlock
         /\ copy[a] \in BalanceDoc /\ copy[a].bal \in Int /\ copy[a].at \in -1..MaxBlock
         /\ ledger \in [BalanceRow -> BalanceDoc]
  <1>1. ledger \in [BalanceRow -> BalanceDoc] /\ copy \in [BalanceRow -> BalanceDoc]
    BY DEF TypeInv, TypeOK, BalanceDoc
  <1>2. ledger[a] \in BalanceDoc /\ copy[a] \in BalanceDoc
    BY <1>1
  <1>. QED  BY <1>1, <1>2 DEF BalanceDoc

CreatedIn(a) == /\ pc = "process" /\ a \notin held /\ num \in Touched[a] /\ ledger[a].at = -1
                /\ ledger'[a] = [bal |-> 0, at |-> num]

SavedIn(a) == /\ pc = "save" /\ stage \in {12, 13} /\ a \in dirty /\ ledger'[a] = Written(a)

FixedIn(a) == /\ pc = "fix" /\ ledger'[a] = [bal |-> Chain[a][head], at |-> head]

LEMMA CutShortRow ==
  ASSUME TypeInv, CutShort, NEW a \in Tracked
  PROVE  ledger'[a] = ledger[a] \/ CreatedIn(a) \/ SavedIn(a) \/ pc = "genesis"
  <1>0. a \in BalanceRow /\ a \notin RebasingRow /\ stage \in 1..16
    BY RangeFacts DEF Tracked
  <1>1. CASE ProcessCutShort
    <2>1. PICK S \in SUBSET Missing(num) : ledger' = Created(S, num)
      BY <1>1 DEF ProcessCutShort
    <2>. QED  BY <1>0, <1>1, <2>1 DEF ProcessCutShort, Created, Missing, CreatedIn
  <1>2. CASE SaveCutShort
    <2>1. PICK S \in SUBSET (dirty \cap HeldOf(SaveOrder[stage])) : ledger' = Saved(S)
      BY <1>2 DEF SaveCutShort
    <2>2. stage \in {12, 13}
      BY <1>0, <1>2 DEF SaveCutShort, SaveOrder
    <2>. QED  BY <1>0, <1>2, <2>1, <2>2 DEF SaveCutShort, Saved, SavedIn
  <1>3. CASE RebaseCutShort
    BY <1>0, <1>3 DEF RebaseCutShort, Rebased
  <1>. QED  BY <1>1, <1>2, <1>3 DEF CutShort, GenesisCutShort, InsertCutShort, CleanCutShort

LEMMA RowStep ==
  ASSUME TypeInv, [Next]_vars, NEW a \in Tracked
  PROVE  \/ ledger'[a] = ledger[a]
         \/ CreatedIn(a) \/ SavedIn(a) \/ FixedIn(a) \/ pc = "genesis"
         \/ a \in lateSave /\ ledger'[a] = Written(a) /\ LandSave(a)
  <1>. USE DEF store, cache, control
  <1>0. /\ a \in BalanceRow /\ a \notin RebasingRow /\ stage \in 1..16
        /\ ledger \in [BalanceRow -> BalanceDoc]
    BY RangeFacts, RowFacts DEF Tracked
  <1>1. CASE InsertConflict \/ StepFails \/ StepKills \/ Crash
    BY <1>1, CutShortRow DEF InsertConflict, StepFails, StepKills, Crash, Recover, Die
  <1>2. CASE \E b \in BalanceRow : FixRow(b)
    BY <1>0, <1>2 DEF FixRow, FixedIn
  <1>3. CASE ProcessBlock
    BY <1>0, <1>3 DEF ProcessBlock, Created, Missing, CreatedIn
  <1>4. CASE SaveBalances
    <2>1. stage \in {12, 13}
      BY <1>0, <1>4 DEF SaveBalances, SaveOrder
    <2>. QED  BY <1>0, <1>4, <2>1 DEF SaveBalances, Saved, SavedIn
  <1>5. CASE Rebase
    BY <1>0, <1>5 DEF Rebase, Rebased
  <1>6. ASSUME NEW b \in BalanceRow, LandSave(b)
        PROVE  ledger'[a] = ledger[a] \/ (a \in lateSave /\ ledger'[a] = Written(a) /\ LandSave(a))
    BY <1>0, <1>6 DEF LandSave, Saved
  <1>7. CASE UNCHANGED ledger
    BY <1>7
  <1>8. \/ UNCHANGED ledger
        \/ InsertConflict \/ StepFails \/ StepKills \/ Crash \/ ProcessBlock \/ SaveBalances \/ Rebase
        \/ pc = "genesis"
        \/ \E b \in BalanceRow : FixRow(b) \/ LandSave(b)
    BY DEF Next, Program, Start, CleanUp, CleanStage, BeginFix, EndFix, Import, BeginGenesis,
       GenesisAccount, GenesisConflict, StartRound, SkipRound, FetchBlock, SaveCache, InsertRows,
       UpdateHead, Fault, FetchNull, Landing, Land, ChainGrows, vars
  <1>. QED  BY <1>1, <1>2, <1>3, <1>4, <1>5, <1>6, <1>7, <1>8

\* A save that is still under way has the document it had when its call was rejected.
LEMMA LateSaveStep ==
  ASSUME TypeInv, HeldInv, [Next]_vars, NEW a \in lateSave'
  PROVE  /\ copy'[a] = copy[a]
         /\ a \in lateSave \/ (pc = "save" /\ stage \in {12, 13} /\ a \in dirty)
  <1>. USE DEF store, cache, control
  <1>0. stage \in 1..16
    BY RangeFacts
  <1>1. CASE InsertConflict \/ StepFails
    <2>1. PICK faults : Recover(faults)
      BY <1>1 DEF InsertConflict, StepFails
    <2>2. copy' = copy /\ lateSave' \subseteq lateSave \cup InFlightSaves
      BY <2>1 DEF Recover, Stragglers
    <2>3. \A b \in InFlightSaves : pc = "save" /\ stage \in {12, 13} /\ b \in dirty
      BY <1>0 DEF InFlightSaves, Unsaved, SaveOrder
    <2>. QED  BY <2>2, <2>3
  <1>2. CASE StepKills \/ Crash
    BY <1>2 DEF StepKills, Crash, Die
  <1>3. CASE ProcessBlock \/ Rebase
    BY <1>3 DEF ProcessBlock, Rebase, HeldInv, InRound
  <1>4. CASE ~ (InsertConflict \/ StepFails \/ StepKills \/ Crash \/ ProcessBlock \/ Rebase)
    BY <1>4 DEF Next, Program, Start, CleanUp, CleanStage, BeginFix, FixRow, EndFix, Import,
       BeginGenesis, GenesisAccount, GenesisConflict, StartRound, SkipRound, FetchBlock, SaveCache,
       InsertRows, SaveBalances, UpdateHead, Fault, FetchNull, Landing, Land, LandSave, ChainGrows, vars
  <1>. QED  BY <1>1, <1>2, <1>3, <1>4
-----------------------------------------------------------------------------
(* Steps of a save. *)

\* What a save writes is the chain's at the end of the batch; a row it deletes has come to zero there.
LEMMA WrittenFacts ==
  ASSUME TypeInv, GapFreeInv, WindowInv, CacheInv, CleanInv, BookInv,
         pc = "save", stage \in 12..15, NEW a \in Tracked, a \in held
  PROVE  /\ Written(a).bal = Chain[a][last]
         /\ a \in dirty => Sound(a, Written(a), head, Reach)
  <1>0. a \in BalanceRow /\ stage <= 15 /\ stage \in 3..15 /\ head \in -1..MaxBlock /\ MaxBlock \in Nat
    BY RangeFacts DEF Tracked
  <1>1. last = Reach /\ last \in Block /\ last > head /\ Clean /\ Importing /\ Progress = last
    BY <1>0, LastIsReach DEF CleanInv, Importing, Progress
  <1>2. copy[a].bal = Chain[a][last] /\ copy[a].bal \in Nat
    <2>1. Near(a, last, copy[a].bal, last)
      BY <1>1 DEF BookInv, Booked
    <2>. QED  BY <1>0, <1>1, <2>1, NearEnd, ChainFacts
  <1>3. Written(a) = copy[a] \/ (Written(a) = NoRow /\ a \in TokenBalance /\ Chain[a][last] = 0)
    BY <1>2 DEF Written
  <1>4. ASSUME a \in dirty PROVE Sound(a, Written(a), head, Reach)
    <2>1. CASE Written(a) = copy[a]
      <3>1. copy[a].at > head /\ copy[a].at \in Int
        BY <1>0, <1>4, RowFacts DEF CacheInv
      <3>. QED  BY <1>0, <2>1, <3>1 DEF Sound
    <2>2. CASE Written(a) = NoRow /\ a \in TokenBalance /\ Chain[a][last] = 0
      <3>1. ChainAt(a, head) \in Nat
        <4>1. head \in Block \cup {-1} /\ 0 \in Block
          BY <1>0 DEF Block
        <4>2. a \in BalanceRow
          BY <1>0
        <4>. QED  BY <4>1, <4>2, ChainFacts DEF ChainAt
      <3>2. last <= Reach
        BY <1>0, <1>1, ChainFacts
      <3>3. Near(a, head, 0, Reach)
        BY <1>1, <2>2, <3>1, <3>2 DEF Near
      <3>. QED  BY <1>0, <2>2, <3>3 DEF Sound, NoRow
    <2>. QED  BY <1>3, <2>1, <2>2
  <1>. QED  BY <1>2, <1>3, <1>4 DEF NoRow

\* The head moves to where every balance is the chain's.
LEMMA CommitExact ==
  ASSUME LedgerInv, NoGap, UpdateHead
  PROVE  /\ head' = last /\ last \in Block /\ ledger' = ledger
         /\ \A a \in Tracked : ledger[a].bal = Chain[a][last]
  <1>. USE DEF store, cache, control
  <1>0. /\ TypeInv /\ RefInv /\ GapFreeInv /\ WindowInv /\ CacheInv /\ CleanInv /\ BookInv
    BY DEF LedgerInv, BatchInv
  <1>1. stage = 15 /\ pc = "save"
    <2>1. stage \in 1..16
      BY <1>0, RangeFacts
    <2>. QED  BY <2>1, StageFacts DEF UpdateHead
  <1>2. last = Reach /\ last \in Block /\ last > head /\ Clean /\ Importing /\ Progress = last
    BY <1>0, <1>1, LastIsReach DEF CleanInv, Importing, Progress
  <1>3. head' = last /\ ledger' = ledger
    BY <1>0, <1>1 DEF UpdateHead, AnyCached, GapFreeInv, SaveInv
  <1>4. ASSUME NEW a \in Tracked PROVE ledger[a].bal = Chain[a][last]
    <2>0. a \in BalanceRow /\ Booked(a)
      BY <1>0, <1>2 DEF Tracked, BookInv
    <2>1. CASE a \in held
      <3>1. dirty = {}
        BY <1>0, <1>1 DEF CacheInv
      <3>2. ledger[a] = Written(a)
        BY <2>0, <2>1, <3>1 DEF Booked
      <3>. QED  BY <1>0, <1>1, <2>1, <3>2, WrittenFacts
    <2>2. CASE a \notin held
      <3>1. Near(a, last, ledger[a].bal, last)
        BY <1>2, <2>0, <2>2 DEF Booked
      <3>. QED  BY <1>2, <2>0, <3>1, NearEnd
    <2>. QED  BY <2>1, <2>2
  <1>. QED  BY <1>2, <1>3, <1>4
-----------------------------------------------------------------------------
(* Before there is a head. *)

LEMMA PristineGenesis ==
  ASSUME TypeInv, FirstInv, Pristine, pc = "genesis", [Next]_vars, head = -1,
         pc' \in {"down", "round", "genesis"}
  PROVE  (Blocked \/ Pristine)'
  <1>. USE DEF store, cache, control, Goto
  <1>0. /\ todo \subseteq Prealloc /\ Prealloc \subseteq BalanceRow
        /\ ledger \in [BalanceRow -> BalanceDoc]
    BY PosSyncAssumption DEF FirstInv, BalanceRow, TypeInv, TypeOK, BalanceDoc
  <1>1. \A a \in Prealloc \ todo : ledger[a].at = 0
    BY <1>0 DEF Pristine
  <1>2. CASE \E a \in BalanceRow : GenesisAccount(a)
    BY <1>0, <1>2 DEF GenesisAccount, Pristine
  <1>3. CASE \E a \in BalanceRow : GenesisConflict(a)
    BY <1>0, <1>3 DEF GenesisConflict, Blocked
  <1>4. CASE StepFails \/ Crash
    <2>1. /\ CutShort /\ lateSave' = {} /\ pc' \in {"down", "round"}
      <3>1. CASE StepFails
        <4>1. PICK faults : Recover(faults)
          BY <3>1 DEF StepFails
        <4>2. lateSave' \subseteq lateSave \cup InFlightSaves /\ InFlightSaves = {}
          BY <4>1 DEF Recover, Stragglers, InFlightSaves, Pristine
        <4>. QED  BY <4>1, <4>2 DEF Recover, Pristine
      <3>2. CASE Crash
        BY <3>2 DEF Crash, Die
      <3>. QED  BY <1>4, <3>1, <3>2
    <2>2. CASE GenesisCutShort
      BY <1>0, <2>1, <2>2 DEF GenesisCutShort, Created, Blocked
    <2>3. CASE UNCHANGED ledger
      <3>1. CASE todo = Prealloc
        BY <2>1, <2>3, <3>1 DEF Pristine
      <3>2. CASE todo # Prealloc
        <4>1. PICK a \in Prealloc : a \notin todo
          BY <1>0, <3>2
        <4>2. ledger'[a].at = 0
          BY <1>1, <2>3, <4>1
        <4>. QED  BY <2>1, <4>1, <4>2 DEF Blocked
      <3>. QED  BY <3>1, <3>2
    <2>. QED  BY <2>1, <2>2, <2>3 DEF CutShort, ProcessCutShort, InsertCutShort, SaveCutShort,
              RebaseCutShort, CleanCutShort
  <1>5. CASE SkipRound
    <2>1. FALSE
      <3>1. best \in Nat /\ LoopWindow \in Nat /\ LoopWindow > 0
        BY BoundFacts DEF TypeInv
      <3>. QED  BY <1>5, <3>1 DEF SkipRound, RoundEnd
    <2>. QED  BY <2>1
  <1>6. CASE ChainGrows \/ UNCHANGED vars \/ Landing
    BY <1>6 DEF ChainGrows, vars, Landing, Land, LandSave, Pristine
  <1>. QED  BY <1>2, <1>3, <1>4, <1>5, <1>6
            DEF Next, Program, Start, CleanUp, CleanStage, BeginFix, FixRow, EndFix, Import,
            BeginGenesis, StartRound, FetchBlock, ProcessBlock, SaveCache, InsertRows, InsertConflict,
            SaveBalances, UpdateHead, Rebase, Fault, FetchNull, StepKills

LEMMA PristineElsewhere ==
  ASSUME TypeInv, Pristine, pc \in {"down", "round"}, [Next]_vars, head = -1,
         pc' \in {"down", "round", "genesis"}
  PROVE  (Blocked \/ Pristine)'
  <1>. USE DEF store, cache, control, Goto
  <1>1. CASE StepFails \/ Crash
    <2>1. lateSave' = {} /\ ledger' = ledger /\ pc' # "genesis"
      <3>1. CASE StepFails
        <4>1. PICK faults : Recover(faults)
          BY <3>1 DEF StepFails
        <4>2. lateSave' \subseteq lateSave \cup InFlightSaves /\ InFlightSaves = {}
          BY <4>1 DEF Recover, Stragglers, InFlightSaves, Pristine
        <4>. QED  BY <4>1, <4>2 DEF Recover, Pristine, CutShort, GenesisCutShort, ProcessCutShort,
                  InsertCutShort, SaveCutShort, RebaseCutShort, CleanCutShort
      <3>2. CASE Crash
        BY <3>2 DEF Crash, Die, CutShort, GenesisCutShort, ProcessCutShort,
           InsertCutShort, SaveCutShort, RebaseCutShort, CleanCutShort
      <3>. QED  BY <1>1, <3>1, <3>2
    <2>. QED  BY <2>1 DEF Pristine
  <1>2. CASE ~ (StepFails \/ Crash)
    <2>1. /\ UNCHANGED ledger /\ lateSave' = {}
          /\ pc' = "genesis" => todo' = Prealloc
      BY <1>2 DEF Next, Program, Start, CleanUp, CleanStage, BeginFix, FixRow, EndFix, Import,
         BeginGenesis, GenesisAccount, GenesisConflict, StartRound, SkipRound, FetchBlock, ProcessBlock,
         SaveCache, InsertRows, InsertConflict, SaveBalances, UpdateHead, Rebase, Fault, FetchNull,
         StepKills, Landing, Land, LandSave, ChainGrows, vars, Pristine
    <2>. QED  BY <2>1 DEF Pristine
  <1>. QED  BY <1>1, <1>2

LEMMA GenesisStep ==
  ASSUME Prealloc # {}, TypeInv, RefInv, HeldInv, FirstInv, GenesisInv, [Next]_vars
  PROVE  GenesisInv'
  <1>0. \A a \in Prealloc : ledger[a].at # -1 => ledger'[a].at # -1
    BY AccountsStay, PosSyncAssumption
  <1>1. pc' = "genesis" => head' = -1
    <2>. SUFFICES ASSUME pc' = "genesis" PROVE head' = -1
      OBVIOUS
    <2>1. ~ InRound
      BY EnterGenesis DEF InRound
    <2>2. head' = head
      BY <2>1, OutsideRound
    <2>3. CASE pc = "genesis"
      BY <2>2, <2>3 DEF GenesisInv
    <2>4. CASE pc # "genesis"
      <3>1. head = -1
        BY <2>4 DEF Next, Program, Start, CleanUp, CleanStage, BeginFix, FixRow, EndFix, Import,
           BeginGenesis, GenesisAccount, GenesisConflict, StartRound, SkipRound, FetchBlock,
           ProcessBlock, NextNum, SaveCache, InsertRows, InsertConflict, SaveBalances, UpdateHead,
           Rebase, Fault, FetchNull, StepFails, StepKills, Crash, Recover, Die, Goto, Landing, Land,
           LandSave, ChainGrows, vars, control
      <3>. QED  BY <2>2, <3>1
    <2>. QED  BY <2>3, <2>4
  <1>2. ASSUME head' = -1, pc' \in {"down", "round", "genesis"}
        PROVE  (Blocked \/ Pristine)'
    <2>1. head = -1 /\ pc \notin {"clean", "fix"}
      BY <1>2, HeadStays DEF TypeInv, ControlInv
    <2>2. CASE InRound
      <3>1. pc' # "genesis"
        BY <2>2, EnterGenesis DEF InRound
      <3>. QED  BY <1>0, <1>2, <2>1, <2>2, <3>1 DEF FirstInv, Blocked
    <2>3. CASE ~ InRound /\ Pristine
      <3>1. pc \in {"down", "round", "genesis"}
        BY <2>1, <2>3 DEF TypeInv, TypeOK, InRound
      <3>. QED  BY <1>2, <2>1, <2>3, <3>1, PristineGenesis, PristineElsewhere
    <2>4. CASE ~ InRound /\ Blocked
      <3>1. \E a \in Prealloc : ledger[a].at # -1
        BY <2>4 DEF Blocked, FirstInv
      <3>2. CASE pc' # "genesis"
        BY <1>0, <1>2, <3>1, <3>2 DEF Blocked
      <3>3. CASE pc' = "genesis"
        <4>1. \E a \in todo' : ledger[a].at # -1
          BY <2>4, <3>1, <3>3, EnterGenesis DEF Blocked
        <4>2. todo' \subseteq Prealloc
          BY <3>3, EnterGenesis DEF FirstInv
        <4>. QED  BY <1>0, <3>3, <4>1, <4>2 DEF Blocked
      <3>. QED  BY <3>2, <3>3
    <2>5. pc \in {"down", "round", "genesis"} \/ InRound
      BY <2>1 DEF TypeInv, TypeOK, InRound
    <2>. QED  BY <2>1, <2>2, <2>3, <2>4, <2>5 DEF GenesisInv
  <1>. QED  BY <1>1, <1>2 DEF GenesisInv
-----------------------------------------------------------------------------
(* The database. *)

\* What is the chain's is sound, and what was sound stays so while batches become longer.
LEMMA SoundExact ==
  ASSUME NEW a \in BalanceRow, NEW row \in BalanceDoc, NEW h \in Block, NEW w,
         row.bal = Chain[a][h], row.at = -1 => row.bal = 0
  PROVE  Sound(a, row, h, w)
  <1>1. h # -1 /\ Chain[a][h] \in Nat
    BY ChainFacts
  <1>. QED  BY <1>1 DEF Sound, Near, ChainAt

LEMMA SoundFurther ==
  ASSUME NEW a \in BalanceRow, NEW row, NEW h, NEW w \in Int, NEW x \in Int, w <= x, Sound(a, row, h, w)
  PROVE  Sound(a, row, h, x)
  BY NearFurther DEF Sound

\* The first round finds the accounts of the genesis and nothing else.
LEMMA FirstRound ==
  ASSUME TypeInv, GenesisInv, GenesisListed, pc = "genesis", todo = {}, NEW a \in BalanceRow
  PROVE  /\ ledger[a] = (IF a \in Prealloc THEN [bal |-> Chain[a][0], at |-> 0] ELSE NoRow)
         /\ ledger[a].bal = Chain[a][0] /\ Chain[a][0] \in Nat
         /\ lateSave = {} /\ head = -1
  <1>1. Pristine /\ head = -1
    BY DEF GenesisInv, Blocked
  <1>2. ledger[a] = (IF a \in Prealloc THEN [bal |-> Chain[a][0], at |-> 0] ELSE NoRow)
    BY <1>1 DEF Pristine
  <1>3. Chain[a][0] \in Nat
    BY ChainFacts, PosSyncAssumption DEF Block
  <1>4. a \notin Prealloc => Chain[a][0] = 0
    BY DEF GenesisListed
  <1>. QED  BY <1>1, <1>2, <1>3, <1>4 DEF NoRow, Pristine

LEMMA SoundStep ==
  ASSUME LedgerInv, GenesisListed, NoGap, NoGap', [Next]_vars, ~ FetchNull
  PROVE  SoundInv'
  <1>. USE DEF store, cache, control
  <1>0. /\ TypeInv /\ RefInv /\ GapFreeInv /\ WindowInv /\ CacheInv /\ CleanInv /\ BookInv /\ SoundInv
        /\ HeldInv /\ GenesisInv /\ CommitInv
    BY DEF LedgerInv, BatchInv
  <1>. SUFFICES ASSUME head' # -1 \/ InRound', NEW a \in Tracked
                PROVE  /\ Sound(a, ledger'[a], head', Reach')
                       /\ a \in lateSave' => Sound(a, Written(a)', head', Reach')
    BY DEF SoundInv
  <1>1. /\ a \in BalanceRow /\ a \notin RebasingRow /\ head \in -1..MaxBlock /\ MaxBlock \in Nat
        /\ stage \in 1..16 /\ Block = 0..MaxBlock
    BY <1>0, RangeFacts DEF Tracked
  <1>2. CASE UpdateHead
    <2>1. /\ head' = last /\ last \in Block /\ ledger'[a] = ledger[a] /\ ledger[a].bal = Chain[a][last]
      BY <1>2, CommitExact
    <2>2. ledger[a].at = -1 => ledger[a].bal = 0
      BY <1>0, <1>2 DEF SoundInv, UpdateHead, InRound, Sound
    <2>3. lateSave' = {}
      BY <1>0, <1>2 DEF UpdateHead, HeldInv, InRound
    <2>4. ledger[a] \in BalanceDoc
      BY <1>0, <1>1, RowFacts
    <2>. QED  BY <1>1, <2>1, <2>2, <2>3, <2>4, SoundExact
  <1>3. CASE Rebase
    <2>1. stage = 16 /\ pc = "save"
      BY <1>1, <1>3, StageFacts DEF Rebase
    <2>2. /\ head' = head /\ ledger'[a] = ledger[a] /\ lateSave' = {}
      BY <1>0, <1>1, <1>3 DEF Rebase, Rebased, HeldInv, InRound
    <2>3. ledger[a].bal = Chain[a][head]
      BY <1>0, <2>1 DEF CommitInv
    <2>4. head \in Block
      BY <1>0, <2>1 DEF GapFreeInv, SaveInv
    <2>5. (ledger[a].at = -1 => ledger[a].bal = 0) /\ ledger[a] \in BalanceDoc
      BY <1>0, <1>1, <2>1, RowFacts DEF SoundInv, InRound, Sound
    <2>. QED  BY <1>1, <2>2, <2>3, <2>4, <2>5, SoundExact
  <1>4. CASE ~ InRound /\ InRound' /\ head = -1
    <2>1. /\ pc = "genesis" /\ todo = {} /\ UNCHANGED <<head, ledger>>
      BY <1>0, <1>4, EnterRound DEF ReadyForRound
    <2>2. /\ ledger[a] = (IF a \in Prealloc THEN [bal |-> Chain[a][0], at |-> 0] ELSE NoRow)
          /\ ledger[a].bal = Chain[a][0] /\ Chain[a][0] \in Nat
          /\ lateSave = {}
      BY <1>0, <1>1, <2>1, FirstRound
    <2>3. lateSave' = {}
      BY <1>0, <1>4, <2>2, LateSaveStep DEF InRound
    <2>4. ledger[a].at = -1 => ledger[a].bal = 0
      BY <2>2 DEF NoRow
    <2>5. ledger[a].at \notin 0..head
      BY <1>4
    <2>. QED  BY <1>1, <1>4, <2>1, <2>2, <2>3, <2>4, <2>5 DEF Sound, Near, ChainAt
  <1>5. CASE ~ UpdateHead /\ ~ Rebase /\ ~ (~ InRound /\ InRound' /\ head = -1)
    <2>1. head' = head
      BY <1>0, <1>5, HeadMoves
    <2>2. head # -1 \/ InRound
      BY <1>5, <2>1
    <2>3. Reach \in Int /\ Reach' \in Int /\ Reach <= Reach'
      BY <1>0, <1>5, <2>1, ReachGrows
    <2>4. Sound(a, ledger[a], head, Reach) /\ (a \in lateSave => Sound(a, Written(a), head, Reach))
      BY <1>0, <2>2 DEF SoundInv
    <2>5. pc = "save" /\ stage \in {12, 13} /\ a \in dirty => Sound(a, Written(a), head, Reach)
      <3>1. dirty \subseteq held
        BY <1>0 DEF TypeInv, TypeOK
      <3>. QED  BY <1>0, <3>1, WrittenFacts
    <2>6. Sound(a, ledger'[a], head, Reach)
      <3>1. CASE CreatedIn(a)
        <4>1. num > head /\ num \in Int
          BY <1>0, <3>1, RangeFacts DEF CreatedIn, RefInv, AboveInv
        <4>. QED  BY <1>1, <3>1, <4>1 DEF CreatedIn, Sound
      <3>2. CASE FixedIn(a)
        <4>1. head # -1
          BY <1>0, <3>2 DEF FixedIn, TypeInv, ControlInv
        <4>. QED  BY <1>1, <3>2, <4>1 DEF FixedIn, Sound
      <3>3. pc # "genesis"
        BY <1>0, <2>2 DEF GenesisInv, InRound
      <3>. QED  BY <1>0, <2>4, <2>5, <3>1, <3>2, <3>3, RowStep DEF SavedIn
    <2>7. ASSUME a \in lateSave' PROVE Sound(a, Written(a)', head, Reach)
      <3>1. /\ copy'[a] = copy[a]
            /\ a \in lateSave \/ (pc = "save" /\ stage \in {12, 13} /\ a \in dirty)
        BY <1>0, <2>7, LateSaveStep
      <3>2. Written(a)' = Written(a)
        BY <3>1 DEF Written
      <3>. QED  BY <2>4, <2>5, <3>1, <3>2
    <2>. QED  BY <1>1, <2>1, <2>3, <2>6, <2>7, SoundFurther
  <1>. QED  BY <1>2, <1>3, <1>4, <1>5
-----------------------------------------------------------------------------
(* The cleanup. *)

\* A clean cache outside of a round is empty as far as balances go, so that nothing is under way.
LEMMA CleanOutside ==
  ASSUME TypeInv, CacheInv, Clean, ~ InRound
  PROVE  held = {} /\ lateSave = {} /\ \A n \in Block : HasTx(n) => cached[n] = 0
  <1>1. \A n \in Block : HasTx(n) => cached[n] = 0
    <2>1. Progress = head /\ head \in Int /\ \A n \in Block : n \in Int
      BY RangeFacts DEF Progress, InRound
    <2>. QED  BY <2>1 DEF Clean
  <1>2. \A a \in BalanceRow : a \notin held
    BY <1>1, TouchedFacts DEF CacheInv
  <1>. QED  BY <1>1, <1>2 DEF CacheInv, TypeInv, TypeOK

LEMMA MendStep ==
  ASSUME LedgerInv, NoGap, NoGap', [Next]_vars, ~ FetchNull
  PROVE  MendInv'
  <1>. USE DEF store, cache, control, Goto
  <1>0. /\ TypeInv /\ RefInv /\ GapFreeInv /\ CacheInv /\ SoundInv /\ MendInv /\ HeldInv /\ GenesisInv
        /\ CommitInv
    BY DEF LedgerInv, BatchInv
  <1>. SUFFICES ASSUME Clean', head' # -1, pc' \in {"round", "clean", "fix"},
                       NEW a \in Tracked, Mended(a)', ledger'[a].at # -1
                PROVE  ledger'[a].bal = Chain[a][head']
    BY DEF MendInv
  <1>1. /\ a \in BalanceRow /\ a \notin RebasingRow /\ head \in -1..MaxBlock /\ MaxBlock \in Nat
        /\ stage \in 1..16 /\ Block = 0..MaxBlock /\ ledger \in [BalanceRow -> BalanceDoc]
        /\ ledger[a].at \in -1..MaxBlock /\ ledger[a].bal \in Int
    BY <1>0, RangeFacts, RowFacts DEF Tracked
  <1>2. CASE Rebase
    <2>1. stage = 16 /\ pc = "save"
      BY <1>1, <1>2, StageFacts DEF Rebase
    <2>2. head' = head /\ ledger'[a] = ledger[a]
      BY <1>1, <1>2 DEF Rebase, Rebased
    <2>. QED  BY <1>0, <2>1, <2>2 DEF CommitInv
  <1>3. CASE InsertConflict \/ StepFails \/ Start
    <2>1. /\ pc' = "clean" /\ stage' = 1
      <3>1. head' = head /\ pc' = (IF head = -1 THEN "round" ELSE "clean") /\ stage' = 1
        BY <1>3 DEF InsertConflict, StepFails, Recover, Start
      <3>. QED  BY <3>1
    <2>. QED  BY <2>1 DEF Mended
  <1>4. CASE CleanStage
    <2>1. pc' = "clean" /\ stage' # 13
      BY <1>1, <1>4, StageFacts DEF CleanStage, CleanOrder, Collection
    <2>. QED  BY <2>1 DEF Mended
  <1>5. CASE BeginFix \/ (\E b \in BalanceRow : FixRow(b)) \/ EndFix \/ SkipRound \/ Landing \/ ChainGrows
               \/ UNCHANGED vars
    <2>1. /\ head' = head /\ cached' = cached
          /\ pc \in {"round", "clean", "fix"}
      <3>1. head' = head /\ cached' = cached /\ (pc \in {"round", "clean", "fix"} \/ pc' = pc \/ pc = "genesis")
        BY <1>5 DEF BeginFix, FixRow, EndFix, SkipRound, ReadyForRound, Landing, Land, LandSave, ChainGrows, vars
      <3>. QED  BY <1>0, <3>1 DEF GenesisInv
    <2>2. Clean /\ ~ InRound
      BY <2>1 DEF Clean, Progress, InRound
    <2>3. lateSave = {}
      BY <1>0, <2>2, CleanOutside
    <2>4. Mended(a) /\ ledger[a].at # -1 => ledger[a].bal = Chain[a][head]
      BY <1>0, <2>1, <2>2 DEF MendInv
    <2>5. CASE BeginFix
      <3>1. /\ pc = "clean" /\ pc' = "fix" /\ stage' = stage /\ ledger' = ledger
            /\ stage \in {12, 13} /\ todo' = ToFix(CleanOrder[stage])
            /\ CleanOrder[stage] = (IF stage = 12 THEN "account" ELSE "tokenBalance")
        <4>1. stage <= 13
          BY <1>0, <2>5, OrderFacts DEF BeginFix, TypeInv, ControlInv
        <4>. QED  BY <1>1, <2>5, <4>1, StageFacts DEF BeginFix, CleanOrder
      <3>2. CASE Mended(a)
        BY <2>1, <2>4, <3>1, <3>2
      <3>3. CASE ~ Mended(a)
        <4>1. a \in (IF stage = 12 THEN Account ELSE TokenBalance) /\ a \notin ToFix(CleanOrder[stage])
          BY <3>1, <3>3 DEF Mended
        <4>2. ~ (ledger[a].at > head)
          BY <3>1, <4>1 DEF ToFix
        <4>3. Sound(a, ledger[a], head, Reach)
          BY <1>0, <2>1 DEF SoundInv
        <4>. QED  BY <1>1, <2>1, <3>1, <4>2, <4>3 DEF Sound
      <3>. QED  BY <3>2, <3>3
    <2>6. CASE \E b \in BalanceRow : FixRow(b)
      <3>1. PICK b \in BalanceRow : FixRow(b)
        BY <2>6
      <3>2. CASE a = b
        <4>1. db[BlockRow(head)] > 0
          <5>1. BlockRow(head) \in Row /\ BlockRow(head).num = head
            BY <1>1, <2>1, PosSyncAssumption DEF BlockRow
          <5>. QED  BY <1>0, <1>1, <5>1 DEF GapFreeInv, PrefixInv
        <4>2. ledger' = (IF ledger[a].bal # Chain[a][head]
                         THEN [ledger EXCEPT ![a] = [bal |-> Chain[a][head], at |-> head]] ELSE ledger)
          BY <3>1, <3>2, <4>1 DEF FixRow
        <4>3. CASE ledger[a].bal # Chain[a][head]
          BY <1>1, <2>1, <4>2, <4>3
        <4>4. CASE ledger[a].bal = Chain[a][head]
          BY <2>1, <4>2, <4>4
        <4>. QED  BY <4>3, <4>4
      <3>3. CASE a # b
        <4>1. /\ ledger'[a] = ledger[a] /\ pc = "fix" /\ pc' = "fix" /\ stage' = stage
              /\ a \notin todo' => a \notin todo
          BY <1>1, <3>1, <3>3 DEF FixRow
        <4>2. Mended(a)
          BY <4>1 DEF Mended
        <4>. QED  BY <2>1, <2>4, <4>1, <4>2
      <3>. QED  BY <3>2, <3>3
    <2>7. CASE EndFix
      <3>1. /\ pc = "fix" /\ todo = {} /\ ledger' = ledger /\ stage \in {12, 13}
            /\ stage = 13 => pc' = "round"
            /\ stage # 13 => pc' = "clean" /\ stage' = stage + 1
        BY <1>0, <1>1, <2>7, OrderFacts DEF EndFix, TypeInv, ControlInv
      <3>2. Mended(a)
        <4>1. a \in Account \/ a \in TokenBalance
          BY <1>1 DEF BalanceRow
        <4>2. CASE stage = 13
          BY <3>1, <4>1, <4>2 DEF Mended
        <4>3. CASE stage = 12
          BY <3>1, <4>3 DEF Mended
        <4>. QED  BY <3>1, <4>2, <4>3
      <3>. QED  BY <2>1, <2>4, <3>1, <3>2
    <2>8. CASE SkipRound \/ Landing \/ ChainGrows \/ UNCHANGED vars
      <3>1. ledger' = ledger
        BY <2>3, <2>8 DEF SkipRound, Landing, Land, LandSave, ChainGrows, vars
      <3>2. UNCHANGED <<pc, stage, todo>> \/ pc = "round"
        BY <1>0, <2>1, <2>8 DEF SkipRound, ReadyForRound, Landing, Land, LandSave, ChainGrows, vars
      <3>3. Mended(a)
        BY <3>2 DEF Mended
      <3>. QED  BY <2>1, <2>4, <3>1, <3>3
    <2>. QED  BY <1>5, <2>5, <2>6, <2>7, <2>8
  <1>6. CASE \/ BeginGenesis \/ StartRound \/ FetchBlock \/ InsertRows \/ SaveBalances \/ UpdateHead
             \/ StepKills \/ Crash \/ \E b \in BalanceRow : GenesisAccount(b)
    <2>1. pc' \in {"genesis", "fetch", "process", "save", "down"}
      BY <1>6 DEF BeginGenesis, StartRound, FetchBlock, InsertRows, SaveBalances, UpdateHead,
         StepKills, Crash, Die, GenesisAccount
    <2>. QED  BY <2>1
  <1>7. CASE \E b \in BalanceRow : GenesisConflict(b)
    <2>1. head = -1 /\ head' = head
      BY <1>0, <1>7 DEF GenesisConflict, GenesisInv
    <2>. QED  BY <2>1
  <1>8. CASE ProcessBlock
    <2>1. num <= endNum /\ (ff \/ pc' = "save")
      BY <1>0, <1>8 DEF ProcessBlock, TypeInv, ControlInv
    <2>2. pc' \in {"fetch", "save"}
      BY <1>8, <2>1 DEF ProcessBlock, NextNum
    <2>. QED  BY <2>2
  <1>. QED  BY <1>2, <1>3, <1>4, <1>5, <1>6, <1>7, <1>8
            DEF Next, Program, CleanUp, Import, SaveCache, Fault
-----------------------------------------------------------------------------
(* The batch, block by block. *)

\* The round begins with no document and every row the chain's at the head, but for tokens a cut-short
\* save has deleted.
LEMMA BookStart ==
  ASSUME LedgerInv, GenesisListed, NoGap, [Next]_vars, StartRound, Clean', NEW a \in Tracked
  PROVE  Booked(a)'
  <1>. USE DEF store, cache, control, Goto
  <1>0. /\ TypeInv /\ CacheInv /\ SoundInv /\ MendInv /\ GenesisInv
    BY DEF LedgerInv, BatchInv
  <1>1. /\ a \in BalanceRow /\ head \in -1..MaxBlock /\ MaxBlock \in Nat /\ Block = 0..MaxBlock
        /\ ledger[a].at \in -1..MaxBlock
    BY <1>0, RangeFacts, RowFacts DEF Tracked
  <1>2. /\ pc \in {"round", "genesis"} /\ pc' = "fetch" /\ num' = head + 1
        /\ UNCHANGED <<head, ledger, held, cached, dirty, copy>>
    BY DEF StartRound, ReadyForRound
  <1>3. Progress' = head /\ Progress = head /\ ~ InRound
    BY <1>1, <1>2 DEF Progress, InRound
  <1>4. Clean
    BY <1>2, <1>3 DEF Clean
  <1>5. held = {}
    BY <1>0, <1>3, <1>4, CleanOutside
  <1>6. Reach \in Int /\ Reach' \in Int /\ Reach <= Reach'
    <2>1. ~ FetchNull /\ ~ Rebase
      BY <1>2 DEF FetchNull, Rebase
    <2>. QED  BY <1>0, <1>2, <2>1, ReachGrows
  <1>7. Near(a, head, ledger[a].bal, Reach') /\ (ledger[a].at # -1 => ledger[a].bal = ChainAt(a, head))
    <2>1. CASE pc = "genesis"
      <3>1. todo = {}
        BY <2>1 DEF StartRound, ReadyForRound
      <3>2. ledger[a].bal = Chain[a][0] /\ Chain[a][0] \in Nat /\ head = -1
        BY <1>0, <1>1, <2>1, <3>1, FirstRound
      <3>. QED  BY <3>2 DEF Near, ChainAt
    <2>2. CASE pc = "round"
      <3>1. head # -1 /\ head \in Block
        BY <1>1, <2>2 DEF StartRound, ReadyForRound
      <3>2. ChainAt(a, head) = Chain[a][head] /\ Chain[a][head] \in Nat
        BY <1>1, <3>1, ChainFacts DEF ChainAt
      <3>3. CASE ledger[a].at # -1
        <4>1. ledger[a].bal = Chain[a][head]
          BY <1>0, <1>4, <2>2, <3>1, <3>3 DEF MendInv, Mended
        <4>. QED  BY <3>2, <4>1 DEF Near
      <3>4. CASE ledger[a].at = -1
        <4>1. ledger[a].bal = 0 /\ Near(a, head, 0, Reach)
          BY <1>0, <3>1, <3>4 DEF SoundInv, Sound
        <4>. QED  BY <1>1, <1>6, <3>4, <4>1, NearFurther
      <3>. QED  BY <3>3, <3>4
    <2>. QED  BY <1>2, <2>1, <2>2
  <1>. QED  BY <1>2, <1>3, <1>5, <1>7 DEF Booked

\* What a block adds to the caches is clean only if they were clean before.
LEMMA CleanBefore ==
  ASSUME TypeInv, RefInv, ProcessBlock, Clean'
  PROVE  Clean /\ Progress' = num /\ Progress = num - 1
  <1>. USE DEF Goto
  <1>0. /\ cached \in [Block -> 0..2] /\ head \in -1..MaxBlock /\ MaxBlock \in Nat /\ num \in Block
        /\ pc = "process" /\ num > head /\ num <= endNum /\ \A n \in Block : n \in Int
    BY RangeFacts DEF ProcessBlock, TypeInv, TypeOK, ControlInv, RefInv, AboveInv
  <1>1. Progress' = num /\ Progress = num - 1
    <2>1. /\ last' = num /\ pc' \in {"fetch", "save"} /\ (pc' = "fetch" => num' = num + 1)
      BY <1>0 DEF ProcessBlock, NextNum
    <2>. QED  BY <1>0, <2>1 DEF Progress
  <1>2. /\ head' = head /\ cached' = [cached EXCEPT ![num] = AtMost2(@ + 1)]
    BY DEF ProcessBlock
  <1>3. ASSUME NEW n \in Block, HasTx(n)
        PROVE  cached[n] = (IF head < n /\ n <= Progress THEN 1 ELSE 0)
    <2>1. cached'[n] = (IF head < n /\ n <= num THEN 1 ELSE 0)
      BY <1>1, <1>2, <1>3 DEF Clean
    <2>2. CASE n = num
      <3>1. cached'[n] = AtMost2(cached[n] + 1) /\ cached[n] \in 0..2
        BY <1>0, <1>2, <2>2
      <3>2. cached[n] = 0
        BY <1>0, <2>1, <2>2, <3>1 DEF AtMost2
      <3>. QED  BY <1>0, <1>1, <2>2, <3>2
    <2>3. CASE n # num
      <3>1. cached'[n] = cached[n]
        BY <1>2, <2>3
      <3>. QED  BY <1>0, <1>1, <2>1, <2>3, <3>1
    <2>. QED  BY <2>2, <2>3
  <1>. QED  BY <1>1, <1>3 DEF Clean

LEMMA BookProcess ==
  ASSUME LedgerInv, NoGap, [Next]_vars, ProcessBlock, Clean', NEW a \in Tracked
  PROVE  Booked(a)'
  <1>. DEFINE touched == { b \in BalanceRow : num \in Touched[b] }
              before == IF a \in held THEN copy[a].bal ELSE ledger[a].bal
  <1>0. /\ TypeInv /\ RefInv /\ CacheInv /\ BookInv
    BY DEF LedgerInv, BatchInv
  <1>1. /\ a \in BalanceRow /\ num \in Block /\ pc = "process" /\ copy[a].bal \in Int /\ ledger[a].bal \in Int
    BY <1>0, RangeFacts, RowFacts DEF Tracked, ProcessBlock, TypeInv, ControlInv
  <1>2. Clean /\ Progress' = num /\ Progress = num - 1 /\ Importing
    BY <1>0, <1>1, CleanBefore DEF Importing
  <1>3. /\ held' = held \cup touched /\ dirty' = dirty \cup touched /\ head' = head
        /\ copy'[a] = (IF a \in touched THEN [bal |-> Apply(a, num, before), at |-> num] ELSE copy[a])
        /\ a \notin touched => ledger'[a] = ledger[a]
        /\ best' = best
    BY <1>1 DEF ProcessBlock, Created, Missing, store
  <1>4. Reach \in Int /\ Reach' \in Int /\ Reach <= Reach'
    <2>1. ~ FetchNull /\ ~ Rebase
      BY <1>1 DEF FetchNull, Rebase
    <2>. QED  BY <1>0, <1>3, <2>1, ReachGrows
  <1>5. Booked(a)
    BY <1>0, <1>2 DEF BookInv
  <1>6. Near(a, num - 1, before, Reach) /\ before \in Int
    BY <1>1, <1>2, <1>5 DEF Booked
  <1>7. CASE a \in touched
    <2>1. Near(a, num, Apply(a, num, before), Reach)
      <3>. HIDE DEF before
      <3>1. num \in Touched[a]
        BY <1>7
      <3>. QED  BY <1>4, <1>6, <3>1, NearApply
    <2>2. Near(a, num, Apply(a, num, before), Reach')
      <3>. HIDE DEF before
      <3>. QED  BY <1>1, <1>4, <2>1, NearFurther
    <2>. QED  BY <1>1, <1>2, <1>3, <1>7, <2>2 DEF Booked
  <1>8. CASE a \notin touched
    <2>1. Near(a, num, before, Reach) /\ ChainAt(a, num) = ChainAt(a, num - 1)
      <3>. HIDE DEF before
      <3>1. num \notin Touched[a]
        BY <1>1, <1>8
      <3>. QED  BY <1>1, <1>4, <1>6, <3>1, NearSkip
    <2>2. Near(a, num, before, Reach')
      <3>. HIDE DEF before
      <3>. QED  BY <1>1, <1>4, <2>1, NearFurther
    <2>3. CASE a \in held
      BY <1>1, <1>2, <1>3, <1>5, <1>8, <2>2, <2>3 DEF Booked
    <2>4. CASE a \notin held
      <3>1. /\ ChainAt(a, num - 1) = ChainAt(a, head)
            /\ ledger[a].at # -1 => ledger[a].bal = ChainAt(a, head)
        BY <1>2, <1>5, <2>4 DEF Booked
      <3>. QED  BY <1>2, <1>3, <1>8, <2>1, <2>2, <2>4, <3>1 DEF Booked
    <2>. QED  BY <2>3, <2>4
  <1>. QED  BY <1>7, <1>8

\* The next batch of a round that saves its blocks one by one.
LEMMA BookNextBatch ==
  ASSUME LedgerInv, NoGap, Rebase, Importing', NEW a \in Tracked
  PROVE  Booked(a)'
  <1>. USE DEF store, cache, control, Goto
  <1>0. /\ TypeInv /\ RefInv /\ GapFreeInv /\ CommitInv /\ SoundInv
    BY DEF LedgerInv, BatchInv
  <1>1. stage = 16 /\ pc = "save" /\ a \in BalanceRow /\ a \notin RebasingRow /\ num \in Int
    <2>1. stage \in 1..16 /\ num \in 0..(MaxBlock + 1) /\ MaxBlock \in Nat
      BY <1>0, RangeFacts
    <2>. QED  BY <2>1, StageFacts DEF Rebase, Tracked
  <1>2. /\ ledger'[a] = ledger[a] /\ head' = head /\ held' = {} /\ pc' = "fetch" /\ num' = num + 1
        /\ ~ ff
    BY <1>1 DEF Rebase, Rebased, EmptyCache, NextNum, Importing
  <1>3. head = num /\ head \in Block
    BY <1>0, <1>1, <1>2 DEF GapFreeInv, SaveInv
  <1>4. Progress' = head
    BY <1>1, <1>2, <1>3 DEF Progress
  <1>5. ledger[a].bal = ChainAt(a, head) /\ ChainAt(a, head) \in Nat
    <2>1. Chain[a][head] \in Nat /\ head # -1
      BY <1>1, <1>3, ChainFacts
    <2>. QED  BY <1>0, <1>1, <2>1 DEF CommitInv, ChainAt
  <1>. QED  BY <1>2, <1>4, <1>5 DEF Booked, Near

LEMMA BookSave ==
  ASSUME LedgerInv, NoGap, [Next]_vars, Clean, Importing, Importing',
         ~ (StartRound \/ ProcessBlock \/ Rebase \/ FetchNull \/ UpdateHead), NEW a \in Tracked
  PROVE  Booked(a)'
  <1>. USE DEF store, cache, control, Goto
  <1>0. /\ TypeInv /\ RefInv /\ CacheInv /\ BookInv /\ HeldInv
    BY DEF LedgerInv, BatchInv
  <1>1. /\ a \in BalanceRow /\ copy[a].bal \in Int /\ ledger[a].bal \in Int /\ num \in Int /\ last \in Int
        /\ head \in Int /\ MaxBlock \in Nat /\ stage \in 1..16
    BY <1>0, RangeFacts, RowFacts DEF Tracked
  <1>2. head' = head
    BY <1>0, HeadMoves
  <1>3. Reach \in Int /\ Reach' \in Int /\ Reach <= Reach'
    BY <1>0, <1>2, ReachGrows
  <1>4. lateSave = {}
    BY <1>0 DEF HeldInv, InRound, Importing
  <1>5. /\ UNCHANGED <<copy, held>> /\ Progress' = Progress
        /\ \/ UNCHANGED <<ledger, dirty>> /\ (pc = "save" => pc' = "save")
           \/ SaveBalances
    <2>1. CASE FetchBlock \/ InsertRows \/ SaveBalances
      BY <2>1 DEF FetchBlock, InsertRows, SaveBalances, Progress
    <2>2. CASE InsertConflict \/ StepFails \/ StepKills \/ Crash
      <3>1. pc' \notin {"fetch", "process", "save"}
        BY <2>2 DEF InsertConflict, StepFails, StepKills, Crash, Recover, Die
      <3>. QED  BY <3>1 DEF Importing
    <2>3. CASE ~ (FetchBlock \/ InsertRows \/ SaveBalances \/ InsertConflict \/ StepFails \/ StepKills \/ Crash)
      <3>1. UNCHANGED <<copy, held, ledger, dirty, pc, num, last>>
        BY <1>4, <2>3 DEF Next, Program, Start, CleanUp, CleanStage, BeginFix, FixRow, EndFix, Import,
           BeginGenesis, GenesisAccount, GenesisConflict, SkipRound, ReadyForRound, SaveCache, Fault,
           Landing, Land, LandSave, ChainGrows, vars, Importing
      <3>. QED  BY <1>2, <3>1 DEF Progress
    <2>. QED  BY <2>1, <2>2, <2>3
  <1>5a. pc = "save" => pc' = "save"
    BY <1>5 DEF SaveBalances
  <1>6. Booked(a)
    BY DEF BookInv, LedgerInv
  <1>7. \A n, v \in Int : Near(a, n, v, Reach) => Near(a, n, v, Reach')
    BY <1>1, <1>3, NearFurther
  <1>8. Progress \in Int
    BY <1>1 DEF Progress
  <1>9. CASE UNCHANGED <<ledger, dirty>>
    BY <1>1, <1>2, <1>5, <1>5a, <1>6, <1>7, <1>8, <1>9 DEF Booked, Written
  <1>10. CASE SaveBalances
    <2>1. /\ ledger'[a] = (IF a \in dirty \cap HeldOf(SaveOrder[stage]) THEN Written(a) ELSE ledger[a])
          /\ dirty' = dirty \ HeldOf(SaveOrder[stage]) /\ pc' = "save" /\ pc = "save"
      BY <1>1, <1>10 DEF SaveBalances, Saved
    <2>2. Written(a)' = Written(a)
      BY <1>5 DEF Written
    <2>3. dirty \subseteq held
      BY <1>0 DEF TypeInv, TypeOK
    <2>4. CASE a \in held
      <3>1. Near(a, Progress, copy[a].bal, Reach')
        BY <1>1, <1>6, <1>7, <1>8, <2>4 DEF Booked
      <3>2. a \notin dirty' => ledger'[a] = Written(a)
        BY <1>6, <2>1, <2>4 DEF Booked
      <3>. QED  BY <1>5, <2>1, <2>2, <2>4, <3>1, <3>2 DEF Booked
    <2>5. CASE a \notin held
      <3>1. ledger'[a] = ledger[a]
        BY <2>1, <2>3, <2>5
      <3>2. Near(a, Progress, ledger[a].bal, Reach')
        BY <1>1, <1>6, <1>7, <1>8, <2>5 DEF Booked
      <3>. QED  BY <1>2, <1>5, <1>6, <2>5, <3>1, <3>2 DEF Booked
    <2>. QED  BY <2>4, <2>5
  <1>. QED  BY <1>5, <1>9, <1>10

LEMMA BookStep ==
  ASSUME LedgerInv, GenesisListed, NoGap, NoGap', [Next]_vars, ~ FetchNull
  PROVE  BookInv'
  <1>. USE DEF store, cache, control, Goto
  <1>0. /\ TypeInv /\ RefInv /\ GapFreeInv
    BY DEF LedgerInv, BatchInv
  <1>. SUFFICES ASSUME Clean', Importing', NEW a \in Tracked
                PROVE  Booked(a)'
    BY DEF BookInv
  <1>1. CASE StartRound
    BY <1>1, BookStart
  <1>2. CASE ProcessBlock
    BY <1>2, BookProcess
  <1>3. CASE Rebase
    BY <1>3, BookNextBatch
  <1>4. CASE UpdateHead
    <2>1. stage' = 16 /\ pc' = "save"
      BY <1>0, <1>4, RangeFacts, StageFacts DEF UpdateHead
    <2>. QED  BY <2>1 DEF Importing
  <1>5. CASE ~ (StartRound \/ ProcessBlock \/ Rebase \/ UpdateHead)
    <2>1. /\ Importing /\ UNCHANGED <<cached, last, num>>
          /\ UNCHANGED pc \/ (pc = "fetch" /\ pc' = "process")
      <3>1. CASE FetchBlock \/ InsertRows \/ SaveBalances
        <4>1. stage \in 1..16
          BY <1>0, RangeFacts
        <4>. QED  BY <3>1, <4>1, StageFacts DEF FetchBlock, InsertRows, SaveBalances, Importing
      <3>2. CASE ~ RoundStep
        <4>1. UNCHANGED <<pc, stage, num, endNum, ff, last>>
          BY <1>0, <3>2, OtherAside DEF Aside, Importing
        <4>2. cached' = cached
          <5>1. StepKills \/ Crash => pc' = "down"
            BY DEF StepKills, Crash, Die
          <5>2. InsertConflict \/ StepFails => pc' \in {"round", "clean"}
            BY DEF InsertConflict, StepFails, Recover
          <5>. QED  BY <3>2, <5>1, <5>2 DEF RoundStep, Next, Program, Start, CleanUp, CleanStage, BeginFix,
                    FixRow, EndFix, Import, BeginGenesis, GenesisAccount, GenesisConflict, SkipRound,
                    SaveCache, Fault, Landing, Land, LandSave, ChainGrows, vars, Importing
        <4>. QED  BY <4>1, <4>2 DEF Importing
      <3>. QED  BY <1>5, <3>1, <3>2 DEF RoundStep
    <2>2. head' = head
      BY <1>0, <1>5, HeadMoves
    <2>3. Clean
      BY <2>1, <2>2 DEF Clean, Progress
    <2>. QED  BY <1>5, <2>1, <2>3, BookSave
  <1>. QED  BY <1>1, <1>2, <1>3, <1>4, <1>5

LEMMA CommitStep ==
  ASSUME LedgerInv, NoGap, [Next]_vars, ~ FetchNull
  PROVE  CommitInv'
  <1>. USE DEF Goto
  <1>0. /\ TypeInv /\ HeldInv /\ CommitInv /\ stage \in 1..16
    BY RangeFacts DEF LedgerInv, BatchInv
  <1>. SUFFICES ASSUME pc' = "save", stage' = 16, NEW a \in Tracked
                PROVE  ledger'[a].bal = Chain[a][head']
    BY DEF CommitInv
  <1>1. CASE UpdateHead
    BY <1>1, CommitExact
  <1>2. CASE InsertRows \/ SaveBalances
    <2>1. stage' = stage + 1 /\ stage <= 14
      BY <1>0, <1>2, StageFacts DEF InsertRows, SaveBalances
    <2>. QED  BY <1>0, <2>1
  <1>3. CASE StartRound \/ FetchBlock \/ ProcessBlock \/ Rebase
    BY <1>3 DEF StartRound, FetchBlock, ProcessBlock, Rebase, NextNum
  <1>4. CASE ~ RoundStep
    <2>1. pc = "save" /\ stage = 16 /\ head' = head
      BY <1>0, <1>4, OtherAside DEF Aside
    <2>2. lateSave = {}
      BY <1>0, <2>1 DEF HeldInv, InRound
    <2>3. ledger'[a] = ledger[a]
      BY <1>0, <2>1, <2>2, RowStep DEF CreatedIn, SavedIn, FixedIn
    <2>. QED  BY <1>0, <2>1, <2>3 DEF CommitInv
  <1>. QED  BY <1>1, <1>2, <1>3, <1>4 DEF RoundStep
-----------------------------------------------------------------------------
(* The theorems. *)

LEMMA InitLedger ==
  ASSUME GenesisListed, Init
  PROVE  LedgerInv
  <1>1. BatchInv /\ HeldInv /\ FirstInv
    BY InitStore DEF StoreInv
  <1>2. /\ pc = "down" /\ stage = 1 /\ held = {} /\ dirty = {} /\ lateSave = {}
        /\ \A n \in Block : cached[n] = 0
    BY DEF Init
  <1>3. CacheInv
    BY <1>2, TouchedFacts DEF CacheInv
  <1>4. GenesisInv
    BY <1>2 DEF Init, GenesisInv, Pristine
  <1>5. SoundInv
    <2>. SUFFICES ASSUME head # -1, NEW a \in Tracked
                  PROVE  Sound(a, ledger[a], head, Reach)
      BY <1>2 DEF SoundInv, InRound
    <2>1. head = 0 /\ head \in Block /\ a \in BalanceRow
      BY PosSyncAssumption DEF Init, Block, Tracked
    <2>2. ledger[a] = (IF a \in Prealloc THEN [bal |-> Chain[a][0], at |-> 0] ELSE NoRow)
      BY <2>1 DEF Init
    <2>3. /\ ledger[a].bal = Chain[a][head] /\ (ledger[a].at = -1 => ledger[a].bal = 0)
      BY <2>1, <2>2 DEF GenesisListed, NoRow
    <2>4. ledger[a] \in BalanceDoc
      BY <1>1, <2>1, RowFacts DEF BatchInv
    <2>. QED  BY <2>1, <2>3, <2>4, SoundExact
  <1>6. CleanInv /\ MendInv /\ BookInv /\ CommitInv
    BY <1>2 DEF CleanInv, MendInv, BookInv, Importing, CommitInv
  <1>. QED  BY <1>1, <1>3, <1>4, <1>5, <1>6 DEF LedgerInv

LEMMA StepLedger ==
  ASSUME GenesisListed, LedgerInv, [Next]_vars
  PROVE  LedgerInv'
  <1>1. /\ TypeInv /\ RefInv /\ BatchInv /\ HeldInv /\ FirstInv /\ CacheInv /\ GenesisInv
    BY DEF LedgerInv, BatchInv
  <1>2. BatchInv' /\ HeldInv' /\ FirstInv' /\ CacheInv' /\ GenesisInv'
    BY <1>1, StepBatch, HeldStep, FirstStep, CacheStep, GenesisStep DEF GenesisListed
  <1>3. ASSUME NoGap' PROVE (CleanInv /\ SoundInv /\ MendInv /\ BookInv /\ CommitInv)'
    <2>1. NoGap
      BY <1>1, <1>3, NoGapBefore
    <2>2. ~ FetchNull
      <3>. SUFFICES ASSUME FetchNull PROVE FALSE
        OBVIOUS
      <3>1. spent["null"] \in Nat /\ "null" \in FaultKind /\ spent \in [FaultKind -> Nat]
        BY <1>1 DEF TypeInv, TypeOK, FaultKind
      <3>2. spent'["null"] = spent["null"] + 1
        BY <3>1 DEF FetchNull, Spend
      <3>. QED  BY <1>3, <2>1, <3>1, <3>2 DEF NoGap
    <2>3. GapFreeInv /\ WindowInv /\ CleanInv
      BY <2>1 DEF LedgerInv, BatchInv
    <2>. QED  BY <1>1, <1>3, <2>1, <2>2, <2>3, CleanStep, SoundStep, MendStep, BookStep, CommitStep
  <1>. QED  BY <1>2, <1>3 DEF LedgerInv

\* The caches are empty: nothing of an interrupted batch is left in any row.
LEMMA CleanedUpExact ==
  ASSUME LedgerInv, NoGap, CleanedUp, NEW a \in Tracked, ledger[a].at # -1
  PROVE  ledger[a].bal = Chain[a][head]
  <1>0. /\ TypeInv /\ RefInv /\ GapFreeInv /\ CacheInv /\ MendInv /\ BookInv /\ a \in BalanceRow
    BY DEF LedgerInv, BatchInv, Tracked
  <1>1. /\ head \in Block /\ head # -1 /\ \A n \in Block : n \in 0..MaxBlock /\ cached[n] = 0
    BY <1>0, RangeFacts DEF CleanedUp, AnyCached
  <1>2. Progress = head
    <2>1. CASE pc = "fetch"
      <3>1. num > head /\ num <= endNum /\ endNum \in 0..MaxBlock /\ num \in Int /\ Block = 0..MaxBlock
            /\ head \in Int /\ MaxBlock \in Nat
        BY <1>0, <2>1, RangeFacts DEF RefInv, AboveInv, TypeInv, ControlInv
      <3>2. \A n \in Block : ~ (head < n /\ n < num)
        BY <1>0, <1>1, <2>1 DEF GapFreeInv, RoundInv
      <3>3. ~ (head + 1 < num)
        <4>. SUFFICES ASSUME head + 1 < num PROVE FALSE
          OBVIOUS
        <4>1. head + 1 \in Block
          BY <1>1, <3>1
        <4>. QED  BY <3>1, <3>2, <4>1
      <3>. QED  BY <2>1, <3>1, <3>3 DEF Progress
    <2>2. CASE pc = "round"
      BY <2>2 DEF Progress
    <2>. QED  BY <2>1, <2>2 DEF CleanedUp
  <1>3. Clean
    BY <1>1, <1>2, RangeFacts, <1>0 DEF Clean
  <1>4. CASE pc = "round"
    BY <1>0, <1>1, <1>3, <1>4 DEF MendInv, Mended
  <1>5. CASE pc = "fetch"
    <2>1. a \notin held
      BY <1>0, <1>1, TouchedFacts DEF CacheInv
    <2>2. ledger[a].bal = ChainAt(a, head)
      BY <1>0, <1>3, <1>5, <2>1 DEF BookInv, Importing, Booked
    <2>. QED  BY <1>1, <2>2 DEF ChainAt
  <1>. QED  BY <1>4, <1>5 DEF CleanedUp

\* On a network whose genesis accounts are listed and as long as the node does not answer null, a row
\* not updated above the head has the chain's balance at the head at every moment, and once a cleanup
\* is through and the caches are empty every row has: for every chain and window size, whatever
\* crashes, errors, half-made saves and late writes have occurred.
THEOREM BalancesOfTheHead ==
  ASSUME GenesisListed
  PROVE  Spec => []LedgerExact
  <1>1. Init => LedgerInv
    BY InitLedger
  <1>2. LedgerInv /\ [Next]_vars => LedgerInv'
    BY StepLedger
  <1>3. LedgerInv => LedgerExact
    <2>. SUFFICES ASSUME LedgerInv, NoGap, NEW a \in Tracked,
                         ledger[a].at \in 0..head \/ (CleanedUp /\ ledger[a].at # -1)
                  PROVE  ledger[a].bal = Chain[a][head]
      BY DEF LedgerExact
    <2>1. CASE ledger[a].at \in 0..head
      <3>1. head # -1
        BY <2>1
      <3>. QED  BY <2>1, <3>1 DEF LedgerInv, SoundInv, Sound
    <2>2. CASE CleanedUp /\ ledger[a].at # -1
      BY <2>2, CleanedUpExact
    <2>. QED  BY <2>1, <2>2
  <1>. QED  BY <1>1, <1>2, <1>3, PTL DEF Spec

\* When the head moves every balance is the chain's at the new head, although a failed round may have
\* left its documents in the caches, its zero rows and half of its balances in the database, and although
\* a token row it deleted is counted again from zero.
THEOREM BatchesExact ==
  ASSUME GenesisListed
  PROVE  Spec => CommitsExactBalances
  <1>1. Init => LedgerInv
    BY InitLedger
  <1>2. LedgerInv /\ [Next]_vars => LedgerInv'
    BY StepLedger
  <1>3. LedgerInv /\ [Next]_vars =>
          [ NoGap /\ head' # head => \A a \in Tracked : ledger[a].bal = Chain[a][head'] ]_vars
    <2>. SUFFICES ASSUME LedgerInv, [Next]_vars, NoGap, head' # head, NEW a \in Tracked
                  PROVE  ledger[a].bal = Chain[a][head']
      OBVIOUS
    <2>1. CASE UpdateHead
      BY <2>1, CommitExact
    <2>2. CASE ~ UpdateHead
      BY <2>2, HeadMoves DEF LedgerInv, BatchInv
    <2>. QED  BY <2>1, <2>2
  <1>. QED  BY <1>1, <1>2, <1>3, PTL DEF Spec, CommitsExactBalances
=============================================================================
