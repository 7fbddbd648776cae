---------------------------- MODULE PosSyncProofs ----------------------------
(***************************************************************************)
(* Theorems about PosSync, for every chain, every number of faults and     *)
(* every window size.                                                      *)
(***************************************************************************)
EXTENDS PosSync, TLAPS

\* Where the program counter restricts the other control variables.
ControlInv ==
  /\ pc \in {"clean", "fix"} => head # -1 /\ stage <= Len(CleanOrder)
  /\ pc = "fix" => stage > 11
  /\ pc \in {"fetch", "process"} => num <= endNum
  /\ pc = "save" /\ ~ ff => num <= endNum

\* Everything the head has passed is stored.
PrefixInv == \A r \in Row : r.num <= head => db[r] > 0

\* The blocks the current round has left behind are in the caches.
RoundInv == pc \in {"fetch", "process"} => \A n \in Block : head < n /\ n < num => cached[n] > 0

\* A save begins with every block from the head to the last one in the caches.
SaveInv == pc = "save" =>
             /\ last \in Block
             /\ cached[last] > 0
             /\ \A n \in Block : head < n /\ n <= last => cached[n] > 0
             /\ ~ ff => last = num
             /\ stage > 15 => head = last

\* The stages a save has completed have stored what the caches hold.
StageInv == pc = "save" =>
              \A i \in 1..(stage - 1) : \A r \in Row :
                r.coll = SaveOrder[i] /\ cached[r.num] > 0 => db[r] > 0

GapFreeInv == PrefixInv /\ RoundInv /\ SaveInv /\ StageInv

IInv == /\ TypeOK
        /\ ControlInv
        /\ NoGap => GapFreeInv
-----------------------------------------------------------------------------
(* Facts about the helpers. *)

LEMMA OrderFacts ==
  /\ Len(SaveOrder) = 16 /\ Len(CleanOrder) = 13
  /\ \A i \in 1..16 : SaveOrder[i] \in Collection => i <= 14
  /\ \A i \in 1..16 : SaveOrder[i] \in {"account", "tokenBalance"} => i <= 13
  /\ \A i \in 1..13 : CleanOrder[i] \in Collection => i <= 11
  /\ \A i \in 1..13 : CleanOrder[i] \in {"account", "tokenBalance"} => i \in {12, 13}
  /\ \A i \in 1..16 : SaveOrder[i] = "head" => i = 15
  /\ \A i \in 1..16 : SaveOrder[i] = "rebase" => i = 16
  /\ \A c \in Collection : \E i \in 1..14 : SaveOrder[i] = c
  BY DEF SaveOrder, CleanOrder, Collection

\* The same, for the stage the process is in.
LEMMA StageFacts ==
  ASSUME stage \in 1..16
  PROVE  /\ SaveOrder[stage] \in Collection => stage \in 1..14
         /\ SaveOrder[stage] \in {"account", "tokenBalance"} => stage \in 1..13
         /\ SaveOrder[stage] = "head" => stage = 15
         /\ SaveOrder[stage] = "rebase" => stage = 16
         /\ stage <= 13 /\ CleanOrder[stage] \in Collection => stage \in 1..11
         /\ stage <= 13 /\ CleanOrder[stage] \in {"account", "tokenBalance"} => stage \in {12, 13}
  BY OrderFacts

BalanceDoc == [bal : Int, at : -1..MaxBlock]

LEMMA AtMost2Fact ==
  ASSUME NEW k \in Nat
  PROVE  AtMost2(k) \in 0..2 /\ (k > 0 => AtMost2(k) > 0)
  BY DEF AtMost2

\* Single insertions keep what is there and store what they insert.
LEMMA LandedFact ==
  ASSUME TypeOK, NEW S \in SUBSET Row
  PROVE  /\ Landed(S) \in [Row -> 0..2]
         /\ \A r \in Row : db[r] > 0 => Landed(S)[r] > 0
  <1>1. ASSUME NEW r \in Row
        PROVE  db[r] \in 0..2 /\ db[r] \in Nat /\ db[r] + 1 \in Nat
    BY DEF TypeOK
  <1>2. ASSUME NEW r \in Row
        PROVE  Landed(S)[r] \in 0..2 /\ (db[r] > 0 => Landed(S)[r] > 0)
    BY <1>1 DEF Landed, AtMost2
  <1>. QED  BY <1>2 DEF Landed

LEMMA CreatedFact ==
  ASSUME TypeOK, NEW S \in SUBSET BalanceRow, NEW n \in Block
  PROVE  Created(S, n) \in [BalanceRow -> BalanceDoc]
  BY PosSyncAssumption DEF Created, TypeOK, Block, BalanceDoc

LEMMA SavedFact ==
  ASSUME TypeOK, NEW S \in SUBSET BalanceRow
  PROVE  Saved(S) \in [BalanceRow -> BalanceDoc]
  <1>1. ASSUME NEW a \in BalanceRow
        PROVE  Written(a) \in BalanceDoc
    BY <1>1, PosSyncAssumption DEF Written, NoRow, TypeOK, BalanceDoc
  <1>. QED  BY <1>1 DEF Saved, TypeOK, BalanceDoc

LEMMA RebasedFact ==
  ASSUME TypeOK, NEW S \in SUBSET BalanceRow
  PROVE  Rebased(S) \in [BalanceRow -> BalanceDoc]
  <1>1. ASSUME NEW a \in BalanceRow
        PROVE  Chain[a][best] \in Int /\ ledger[a] \in BalanceDoc
    BY <1>1, PosSyncAssumption DEF TypeOK, BalanceDoc
  <1>2. ASSUME NEW a \in BalanceRow
        PROVE  [bal |-> Chain[a][best], at |-> ledger[a].at] \in BalanceDoc
    BY <1>1, <1>2 DEF BalanceDoc
  <1>. QED  BY <1>1, <1>2 DEF Rebased

LEMMA ApplyFact ==
  ASSUME NEW a \in BalanceRow, NEW n \in 1..MaxBlock, NEW v \in Int
  PROVE  Apply(a, n, v) \in Int
  <1>1. Chain[a][n] \in Int /\ Chain[a][n - 1] \in Int /\ First[a][n] \in Int /\ Ceiling \in Int
    <2>1. n \in Block /\ n - 1 \in Block
      BY PosSyncAssumption DEF Block
    <2>2. Chain[a] \in [Block -> Nat] /\ First[a] \in [Block -> Int] /\ Ceiling \in Nat
      BY PosSyncAssumption
    <2>. QED  BY <2>1, <2>2
  <1>. QED  BY <1>1 DEF Apply, Settle, Second

\* A step cut short leaves well-typed collections and every committed row.
LEMMA CutShortFact ==
  ASSUME TypeOK, ControlInv, CutShort
  PROVE  /\ db' \in [Row -> 0..2]
         /\ ledger' \in [BalanceRow -> BalanceDoc]
         /\ \A r \in Row : r.num <= head /\ db[r] > 0 => db'[r] > 0
  <1>0. db \in [Row -> 0..2] /\ ledger \in [BalanceRow -> BalanceDoc]
    BY DEF TypeOK, BalanceDoc
  <1>1. CASE UNCHANGED <<db, ledger>>
    BY <1>0, <1>1
  <1>2. CASE GenesisCutShort
    <2>1. PICK a \in todo : ledger' = Created({a}, 0)
      BY <1>2 DEF GenesisCutShort
    <2>2. {a} \in SUBSET BalanceRow /\ 0 \in Block
      BY PosSyncAssumption DEF TypeOK, Block
    <2>. QED  BY <1>0, <1>2, <2>1, <2>2, CreatedFact DEF GenesisCutShort
  <1>3. CASE ProcessCutShort
    <2>1. PICK S \in SUBSET Missing(num) : ledger' = Created(S, num)
      BY <1>3 DEF ProcessCutShort
    <2>2. S \in SUBSET BalanceRow
      BY DEF Missing
    <2>3. num \in Block
      BY <1>3, PosSyncAssumption DEF ProcessCutShort, TypeOK, ControlInv, Block
    <2>. QED  BY <1>0, <1>3, <2>1, <2>2, <2>3, CreatedFact DEF ProcessCutShort
  <1>4. CASE InsertCutShort
    <2>1. PICK S \in SUBSET Pending(SaveOrder[stage]) : db' = Landed(S)
      BY <1>4 DEF InsertCutShort
    <2>2. S \in SUBSET Row
      BY DEF Pending
    <2>. QED  BY <1>0, <1>4, <2>1, <2>2, LandedFact DEF InsertCutShort
  <1>5. CASE SaveCutShort
    <2>1. PICK S \in SUBSET (dirty \cap HeldOf(SaveOrder[stage])) : ledger' = Saved(S)
      BY <1>5 DEF SaveCutShort
    <2>2. S \in SUBSET BalanceRow
      BY DEF TypeOK
    <2>. QED  BY <1>0, <1>5, <2>1, <2>2, SavedFact DEF SaveCutShort
  <1>6. CASE RebaseCutShort
    <2>1. PICK S \in SUBSET RebasingRow : ledger' = Rebased(S)
      BY <1>6 DEF RebaseCutShort
    <2>2. S \in SUBSET BalanceRow
      BY PosSyncAssumption DEF BalanceRow
    <2>. QED  BY <1>0, <1>6, <2>1, <2>2, RebasedFact DEF RebaseCutShort
  <1>7. CASE CleanCutShort
    <2>1. PICK S \in SUBSET { r \in Row : r.coll = CleanOrder[stage] /\ r.num > head } :
            db' = [r \in Row |-> IF r \in S THEN 0 ELSE db[r]]
      BY <1>7 DEF CleanCutShort
    <2>2. \A r \in Row : r \in S => r.num > head
      OBVIOUS
    <2>3. \A r \in Row : r.num \in Int /\ head \in Int
      BY PosSyncAssumption DEF TypeOK, Block
    <2>. QED  BY <1>0, <1>7, <2>1, <2>2, <2>3 DEF CleanCutShort
  <1>. QED  BY <1>1, <1>2, <1>3, <1>4, <1>5, <1>6, <1>7 DEF CutShort

-----------------------------------------------------------------------------
(* Type correctness. *)

TypeInv == TypeOK /\ ControlInv

LEMMA BoundFacts ==
  ASSUME TypeOK
  PROVE  /\ MaxBlock \in Nat /\ LoopWindow \in Nat /\ LoopWindow > 0
         /\ stage \in 1..16 /\ num \in 0..(MaxBlock + 1)
         /\ head \in -1..MaxBlock /\ best \in 0..MaxBlock
         /\ Block = 0..MaxBlock
  BY PosSyncAssumption, OrderFacts DEF TypeOK, Block

LEMMA InitTypeInv == Init => TypeInv
  <1>. SUFFICES ASSUME Init PROVE TypeInv
    OBVIOUS
  <1>1. MaxBlock \in Nat /\ InitHeads \subseteq {-1, 0} /\ Len(SaveOrder) = 16
    BY PosSyncAssumption, OrderFacts
  <1>2. ASSUME NEW a \in BalanceRow
        PROVE  /\ (IF head = 0 /\ a \in Prealloc THEN [bal |-> Chain[a][0], at |-> 0] ELSE NoRow)
                    \in BalanceDoc
               /\ NoRow \in BalanceDoc
    <2>1. Chain[a][0] \in Int
      BY <1>1, PosSyncAssumption DEF Block
    <2>. QED  BY <1>1, <2>1 DEF NoRow, BalanceDoc
  <1>3. ledger \in [BalanceRow -> BalanceDoc] /\ copy \in [BalanceRow -> BalanceDoc]
    BY <1>2 DEF Init
  <1>4. db \in [Row -> 0..2] /\ cached \in [Block -> 0..2] /\ spent \in [FaultKind -> Nat]
    BY DEF Init
  <1>5. head \in -1..MaxBlock /\ best \in Block /\ 0 \in Block
    BY <1>1 DEF Init, Block
  <1>. QED  BY <1>1, <1>3, <1>4, <1>5 DEF Init, TypeInv, TypeOK, ControlInv, BalanceDoc

\* The step of the process, and the ways a failure ends it.
LEMMA EmptyCacheFact ==
  ASSUME EmptyCache
  PROVE  /\ cached' \in [Block -> 0..2] /\ last' = -1
         /\ copy' \in [BalanceRow -> BalanceDoc]
         /\ held' = {} /\ dirty' = {}
  <1>. NoRow \in BalanceDoc
    BY PosSyncAssumption DEF NoRow, BalanceDoc
  <1>. QED  BY DEF EmptyCache

LEMMA SpendFact ==
  ASSUME TypeOK, NEW k \in FaultKind
  PROVE  [spent EXCEPT ![k] = @ + 1] \in [FaultKind -> Nat]
  BY DEF TypeOK

LEMMA StragglersFact ==
  ASSUME TypeOK, NEW faults \in [FaultKind -> Nat], Stragglers(faults)
  PROVE  /\ late' \subseteq Row /\ lateSave' \subseteq BalanceRow
         /\ spent' \in [FaultKind -> Nat]
         /\ spent'["null"] = faults["null"]
  <1>1. late \subseteq Row /\ lateSave \subseteq BalanceRow /\ dirty \subseteq BalanceRow
    BY DEF TypeOK
  <1>2. InFlight \subseteq Row /\ InFlightSaves \subseteq BalanceRow
    BY <1>1 DEF InFlight, InFlightSaves, Unsaved
  <1>3. "late" \in FaultKind /\ "null" \in FaultKind /\ "late" # "null"
    BY DEF FaultKind
  <1>4. spent' \in {faults, [faults EXCEPT !["late"] = @ + 1]}
    BY DEF Stragglers
  <1>5. late' \subseteq late \cup InFlight /\ lateSave' \subseteq lateSave \cup InFlightSaves
    BY DEF Stragglers
  <1>6. /\ [faults EXCEPT !["late"] = @ + 1] \in [FaultKind -> Nat]
        /\ [faults EXCEPT !["late"] = @ + 1]["null"] = faults["null"]
    BY <1>3
  <1>7. late' \subseteq Row /\ lateSave' \subseteq BalanceRow
    BY <1>1, <1>2, <1>5
  <1>8. spent' \in [FaultKind -> Nat] /\ spent'["null"] = faults["null"]
    BY <1>4, <1>6
  <1>. QED  BY <1>7, <1>8

LEMMA RecoverType ==
  ASSUME TypeInv, NEW faults \in [FaultKind -> Nat], Recover(faults)
  PROVE  TypeInv'
  <1>1. /\ db' \in [Row -> 0..2] /\ ledger' \in [BalanceRow -> BalanceDoc]
    BY CutShortFact DEF TypeInv, Recover
  <1>2. late' \subseteq Row /\ lateSave' \subseteq BalanceRow /\ spent' \in [FaultKind -> Nat]
    BY StragglersFact DEF TypeInv, Recover
  <1>3. dirty' \subseteq held'
    BY DEF TypeInv, TypeOK, Recover, Unsaved
  <1>4. /\ pc' = (IF head = -1 THEN "round" ELSE "clean") /\ stage' = 1 /\ todo' = {}
        /\ UNCHANGED <<best, head, cached, last, copy, held, num, endNum, ff>>
    BY DEF Recover, Goto
  <1>. QED  BY <1>1, <1>2, <1>3, <1>4, OrderFacts DEF TypeInv, TypeOK, ControlInv, BalanceDoc

LEMMA DieType ==
  ASSUME TypeInv, spent' \in [FaultKind -> Nat], Die
  PROVE  TypeInv'
  <1>1. /\ db' \in [Row -> 0..2] /\ ledger' \in [BalanceRow -> BalanceDoc]
    BY CutShortFact DEF TypeInv, Die
  <1>2. /\ cached' \in [Block -> 0..2] /\ last' = -1 /\ copy' \in [BalanceRow -> BalanceDoc]
        /\ held' = {} /\ dirty' = {}
    BY EmptyCacheFact DEF Die
  <1>3. /\ pc' = "down" /\ stage' = 1 /\ todo' = {} /\ late' = {} /\ lateSave' = {}
        /\ UNCHANGED <<best, head, num, endNum, ff>>
    BY DEF Die, Goto
  <1>4. -1 \in -1..MaxBlock /\ 1 \in 1..Len(SaveOrder)
    BY PosSyncAssumption, OrderFacts
  <1>5. TypeOK'
    BY <1>1, <1>2, <1>3, <1>4 DEF TypeInv, TypeOK, BalanceDoc
  <1>6. ControlInv'
    BY <1>3 DEF ControlInv
  <1>. QED  BY <1>5, <1>6 DEF TypeInv

LEMMA ProgramType ==
  ASSUME TypeInv, Program
  PROVE  TypeInv'
  <1>. USE DEF store, cache, control, Goto
  <1>t. /\ db \in [Row -> 0..2] /\ cached \in [Block -> 0..2]
        /\ ledger \in [BalanceRow -> BalanceDoc] /\ copy \in [BalanceRow -> BalanceDoc]
        /\ held \subseteq BalanceRow /\ dirty \subseteq held /\ todo \subseteq BalanceRow
        /\ TypeOK
    BY DEF TypeInv, TypeOK, BalanceDoc
  <1>0. /\ MaxBlock \in Nat /\ LoopWindow \in Nat /\ LoopWindow > 0
        /\ stage \in 1..16 /\ num \in 0..(MaxBlock + 1)
        /\ head \in -1..MaxBlock /\ best \in 0..MaxBlock
        /\ Block = 0..MaxBlock
    BY <1>t, BoundFacts
  <1>s. Len(SaveOrder) = 16 /\ Len(CleanOrder) = 13
    BY OrderFacts
  <1>1. CASE Start
    <2>8. TypeOK'
      BY <1>0, <1>1, <1>s DEF TypeInv, TypeOK, ControlInv, BalanceDoc, Start
    <2>9. ControlInv'
      BY <1>0, <1>1, <1>s DEF TypeInv, TypeOK, ControlInv, Start
    <2>. QED  BY <2>8, <2>9 DEF TypeInv
  <1>2. CASE CleanStage
    <2>1. stage \in 1..11
      <3>1. pc = "clean" /\ CleanOrder[stage] \in Collection
        BY <1>2 DEF CleanStage
      <3>2. stage <= 13
        BY <3>1, <1>s DEF TypeInv, ControlInv
      <3>. QED  BY <1>0, <3>1, <3>2, StageFacts
    <2>2. db' \in [Row -> 0..2]
      BY <1>t, <1>2 DEF CleanStage
    <2>8. TypeOK'
      BY <1>0, <1>2, <2>1, <2>2, <1>s DEF TypeInv, TypeOK, ControlInv, BalanceDoc, CleanStage
    <2>9. ControlInv'
      BY <1>0, <1>2, <2>1, <2>2, <1>s DEF TypeInv, TypeOK, ControlInv, CleanStage
    <2>. QED  BY <2>8, <2>9 DEF TypeInv
  <1>3. CASE BeginFix
    <2>1. stage \in {12, 13}
      <3>1. pc = "clean" /\ CleanOrder[stage] \in {"account", "tokenBalance"}
        BY <1>3 DEF BeginFix
      <3>2. stage <= 13
        BY <3>1, <1>s DEF TypeInv, ControlInv
      <3>. QED  BY <1>0, <3>1, <3>2, StageFacts
    <2>2. todo' \subseteq BalanceRow
      BY <1>3 DEF BeginFix, ToFix, BalanceRow
    <2>8. TypeOK'
      BY <1>0, <1>3, <2>1, <2>2, <1>s DEF TypeInv, TypeOK, ControlInv, BalanceDoc, BeginFix
    <2>9. ControlInv'
      BY <1>0, <1>3, <2>1, <2>2, <1>s DEF TypeInv, TypeOK, ControlInv, BeginFix
    <2>. QED  BY <2>8, <2>9 DEF TypeInv
  <1>4. ASSUME NEW a \in BalanceRow, FixRow(a)
        PROVE  TypeInv'
    <2>1. head \in Block /\ Chain[a][head] \in Int
      <3>1. head \in Block
        BY <1>0, <1>4 DEF FixRow, TypeInv, ControlInv
      <3>2. Chain[a] \in [Block -> Nat]
        BY PosSyncAssumption
      <3>. QED  BY <3>1, <3>2
    <2>2. ledger' \in [BalanceRow -> BalanceDoc]
      BY <1>t, <1>0, <1>4, <2>1 DEF FixRow, BalanceDoc
    <2>8. TypeOK'
      BY <1>0, <1>4, <2>2, <1>s DEF TypeInv, TypeOK, ControlInv, BalanceDoc, FixRow
    <2>9. ControlInv'
      BY <1>0, <1>4, <2>2, <1>s DEF TypeInv, TypeOK, ControlInv, FixRow
    <2>. QED  BY <2>8, <2>9 DEF TypeInv
  <1>5. CASE EndFix
    <2>8. TypeOK'
      BY <1>0, <1>5, <1>s DEF TypeInv, TypeOK, ControlInv, BalanceDoc, EndFix
    <2>9. ControlInv'
      BY <1>0, <1>5, <1>s DEF TypeInv, TypeOK, ControlInv, EndFix
    <2>. QED  BY <2>8, <2>9 DEF TypeInv
  <1>6. CASE BeginGenesis
    <2>1. Prealloc \subseteq BalanceRow
      BY PosSyncAssumption DEF BalanceRow
    <2>8. TypeOK'
      BY <1>0, <1>6, <2>1, <1>s DEF TypeInv, TypeOK, ControlInv, BalanceDoc, BeginGenesis
    <2>9. ControlInv'
      BY <1>0, <1>6, <2>1, <1>s DEF TypeInv, TypeOK, ControlInv, BeginGenesis
    <2>. QED  BY <2>8, <2>9 DEF TypeInv
  <1>7. ASSUME NEW a \in BalanceRow, GenesisAccount(a)
        PROVE  TypeInv'
    <2>1. 0 \in Block /\ Chain[a][0] \in Int
      BY <1>0, PosSyncAssumption
    <2>2. ledger' \in [BalanceRow -> BalanceDoc]
      BY <1>t, <1>0, <1>7, <2>1 DEF GenesisAccount, BalanceDoc
    <2>8. TypeOK'
      BY <1>0, <1>7, <2>2, <1>s DEF TypeInv, TypeOK, ControlInv, BalanceDoc, GenesisAccount
    <2>9. ControlInv'
      BY <1>0, <1>7, <2>2, <1>s DEF TypeInv, TypeOK, ControlInv, GenesisAccount
    <2>. QED  BY <2>8, <2>9 DEF TypeInv
  <1>8. ASSUME NEW a \in BalanceRow, GenesisConflict(a)
        PROVE  TypeInv'
    <2>8. TypeOK'
      BY <1>0, <1>8, <1>s DEF TypeInv, TypeOK, ControlInv, BalanceDoc, GenesisConflict
    <2>9. ControlInv'
      BY <1>0, <1>8, <1>s DEF TypeInv, TypeOK, ControlInv, GenesisConflict
    <2>. QED  BY <2>8, <2>9 DEF TypeInv
  <1>9. CASE StartRound
    <2>8. TypeOK'
      BY <1>0, <1>9, <1>s DEF TypeInv, TypeOK, ControlInv, BalanceDoc, StartRound, RoundEnd
    <2>9. ControlInv'
      BY <1>0, <1>9, <1>s DEF TypeInv, TypeOK, ControlInv, StartRound, RoundEnd
    <2>. QED  BY <2>8, <2>9 DEF TypeInv
  <1>10. CASE SkipRound
    <2>8. TypeOK'
      BY <1>0, <1>10, <1>s DEF TypeInv, TypeOK, ControlInv, BalanceDoc, SkipRound
    <2>9. ControlInv'
      BY <1>0, <1>10, <1>s DEF TypeInv, TypeOK, ControlInv, SkipRound
    <2>. QED  BY <2>8, <2>9 DEF TypeInv
  <1>11. CASE FetchBlock
    <2>8. TypeOK'
      BY <1>0, <1>11, <1>s DEF TypeInv, TypeOK, ControlInv, BalanceDoc, FetchBlock
    <2>9. ControlInv'
      BY <1>0, <1>11, <1>s DEF TypeInv, TypeOK, ControlInv, FetchBlock
    <2>. QED  BY <2>8, <2>9 DEF TypeInv
  <1>12. CASE ProcessBlock
    <2>1. num \in Block
      BY <1>0, <1>12, <1>t DEF ProcessBlock, TypeInv, TypeOK, ControlInv
    <2>2. ledger' \in [BalanceRow -> BalanceDoc]
      <3>1. Missing(num) \in SUBSET BalanceRow
        BY DEF Missing
      <3>. QED  BY <1>t, <1>12, <2>1, <3>1, CreatedFact DEF ProcessBlock
    <2>3. copy' \in [BalanceRow -> BalanceDoc]
      <3>1. ASSUME NEW a \in BalanceRow, num \in Touched[a]
            PROVE  [bal |-> Apply(a, num, IF a \in held THEN copy[a].bal ELSE ledger[a].bal),
                    at |-> num] \in BalanceDoc
        <4>1. num \in 1..MaxBlock
          BY <3>1, PosSyncAssumption
        <4>2. (IF a \in held THEN copy[a].bal ELSE ledger[a].bal) \in Int
          BY <1>t DEF BalanceDoc
        <4>3. Apply(a, num, IF a \in held THEN copy[a].bal ELSE ledger[a].bal) \in Int
          BY <4>1, <4>2, ApplyFact
        <4>. QED  BY <1>0, <2>1, <4>3 DEF BalanceDoc
      <3>. QED  BY <1>t, <1>12, <3>1 DEF ProcessBlock
    <2>4. cached' \in [Block -> 0..2]
      <3>1. cached[num] + 1 \in Nat
        BY <1>t, <2>1
      <3>2. AtMost2(cached[num] + 1) \in 0..2
        BY <3>1, AtMost2Fact
      <3>. QED  BY <1>t, <1>12, <2>1, <3>2 DEF ProcessBlock
    <2>5. /\ held' \subseteq BalanceRow /\ dirty' \subseteq held'
      BY <1>t, <1>12 DEF ProcessBlock
    <2>6. /\ num' \in 0..(MaxBlock + 1) /\ stage' = 1 /\ todo' = {} /\ last' = num
          /\ pc' \in {"fetch", "save", "round"}
          /\ pc' = "fetch" => num' <= endNum
          /\ pc' = "save" /\ ~ ff => num' <= endNum
      BY <1>0, <1>12, <2>1 DEF ProcessBlock, NextNum, TypeInv, TypeOK, ControlInv
    <2>7. UNCHANGED <<best, head, db, late, lateSave, endNum, ff, spent>>
      BY <1>12 DEF ProcessBlock
    <2>8. TypeOK'
      BY <1>0, <2>1, <2>2, <2>3, <2>4, <2>5, <2>6, <2>7, <1>s DEF TypeInv, TypeOK, ControlInv, BalanceDoc
    <2>9. ControlInv'
      BY <1>0, <2>1, <2>2, <2>3, <2>4, <2>5, <2>6, <2>7, <1>s DEF TypeInv, TypeOK, ControlInv
    <2>. QED  BY <2>8, <2>9 DEF TypeInv
  <1>13. CASE InsertRows
    <2>1. stage \in 1..14
      BY <1>0, <1>13, StageFacts DEF InsertRows
    <2>2. db' \in [Row -> 0..2]
      <3>1. ASSUME NEW r \in Row
            PROVE  AtMost2(db[r] + cached[r.num]) \in 0..2
        <4>1. r.num \in Block
          BY PosSyncAssumption
        <4>2. db[r] + cached[r.num] \in Nat
          BY <1>t, <4>1
        <4>. QED  BY <4>2, AtMost2Fact
      <3>. QED  BY <1>t, <1>13, <3>1 DEF InsertRows
    <2>8. TypeOK'
      BY <1>0, <1>13, <2>1, <2>2, <1>s DEF TypeInv, TypeOK, ControlInv, BalanceDoc, InsertRows
    <2>9. ControlInv'
      BY <1>0, <1>13, <2>1, <2>2, <1>s DEF TypeInv, TypeOK, ControlInv, InsertRows
    <2>. QED  BY <2>8, <2>9 DEF TypeInv
  <1>14. CASE InsertConflict
    <2>1. spent \in [FaultKind -> Nat] /\ Recover(spent)
      BY <1>14, <1>t DEF TypeOK, InsertConflict
    <2>. QED  BY <2>1, RecoverType
  <1>15. CASE SaveBalances
    <2>1. stage \in 1..13
      BY <1>0, <1>15, StageFacts DEF SaveBalances
    <2>2. ledger' \in [BalanceRow -> BalanceDoc]
      <3>1. dirty \cap HeldOf(SaveOrder[stage]) \in SUBSET BalanceRow
        BY <1>t
      <3>. QED  BY <1>15, <1>t, <3>1, SavedFact DEF SaveBalances
    <2>3. dirty' \subseteq held' /\ held' = held
      BY <1>15, <1>t DEF SaveBalances
    <2>8. TypeOK'
      <3>1. /\ stage' = stage + 1
            /\ UNCHANGED <<best, head, db, late, lateSave, cached, last, copy, held,
                           pc, num, endNum, ff, todo, spent>>
        BY <1>15 DEF SaveBalances
      <3>. QED  BY <1>0, <2>1, <2>2, <2>3, <1>s, <3>1 DEF TypeInv, TypeOK, BalanceDoc
    <2>9. ControlInv'
      BY <1>0, <1>15, <2>1, <2>2, <1>s DEF TypeInv, TypeOK, ControlInv, SaveBalances
    <2>. QED  BY <2>8, <2>9 DEF TypeInv
  <1>16. CASE UpdateHead
    <2>1. stage = 15
      BY <1>0, <1>16, StageFacts DEF UpdateHead
    <2>8. TypeOK'
      BY <1>0, <1>16, <2>1, <1>s DEF TypeInv, TypeOK, ControlInv, BalanceDoc, UpdateHead
    <2>9. ControlInv'
      BY <1>0, <1>16, <2>1, <1>s DEF TypeInv, TypeOK, ControlInv, UpdateHead
    <2>. QED  BY <2>8, <2>9 DEF TypeInv
  <1>17. CASE Rebase
    <2>1. ledger' \in [BalanceRow -> BalanceDoc]
      <3>1. RebasingRow \in SUBSET BalanceRow
        BY PosSyncAssumption DEF BalanceRow
      <3>. QED  BY <1>17, <1>t, <3>1, RebasedFact DEF Rebase
    <2>2. /\ cached' \in [Block -> 0..2] /\ last' = -1 /\ copy' \in [BalanceRow -> BalanceDoc]
          /\ held' = {} /\ dirty' = {}
      BY <1>17, EmptyCacheFact DEF Rebase
    <2>3. /\ num' \in 0..(MaxBlock + 1) /\ stage' = 1 /\ todo' = {}
          /\ pc' \in {"fetch", "round"}
          /\ pc' = "fetch" => num' <= endNum
      BY <1>0, <1>17 DEF Rebase, NextNum, TypeInv, TypeOK, ControlInv
    <2>8. TypeOK'
      BY <1>0, <1>17, <2>1, <2>2, <2>3, <1>s DEF TypeInv, TypeOK, ControlInv, BalanceDoc, Rebase
    <2>9. ControlInv'
      BY <1>0, <1>17, <2>1, <2>2, <2>3, <1>s DEF TypeInv, TypeOK, ControlInv, Rebase
    <2>. QED  BY <2>8, <2>9 DEF TypeInv
  <1>. QED  BY <1>1, <1>2, <1>3, <1>4, <1>5, <1>6, <1>7, <1>8, <1>9, <1>10, <1>11, <1>12,
                <1>13, <1>14, <1>15, <1>16, <1>17 DEF Program, CleanUp, Import, SaveCache

LEMMA OtherType ==
  ASSUME TypeInv, Landing \/ Fault \/ ChainGrows \/ UNCHANGED vars
  PROVE  TypeInv'
  <1>. USE DEF TypeInv, TypeOK, ControlInv, BalanceDoc, store, cache, control, Goto
  <1>0. /\ MaxBlock \in Nat /\ num \in 0..(MaxBlock + 1) /\ best \in 0..MaxBlock
        /\ Block = 0..MaxBlock
    BY BoundFacts
  <1>1. ASSUME NEW r \in Row, Land(r)
        PROVE  TypeInv'
    <2>1. db' \in [Row -> 0..2]
      <3>1. {r} \in SUBSET Row
        OBVIOUS
      <3>. QED  BY <1>1, <3>1, LandedFact DEF Land
    <2>. QED  BY <1>1, <2>1 DEF Land
  <1>2. ASSUME NEW a \in BalanceRow, LandSave(a)
        PROVE  TypeInv'
    <2>1. ledger' \in [BalanceRow -> BalanceDoc]
      <3>1. {a} \in SUBSET BalanceRow
        OBVIOUS
      <3>. QED  BY <1>2, <3>1, SavedFact DEF LandSave
    <2>. QED  BY <1>2, <2>1 DEF LandSave
  <1>3. CASE FetchNull
    <2>1. spent' \in [FaultKind -> Nat]
      BY <1>3, SpendFact DEF FetchNull, Spend, FaultKind
    <2>2. num \in Nat /\ endNum \in 0..MaxBlock /\ num <= endNum /\ 1 \in 1..Len(SaveOrder)
      BY <1>0, <1>3, OrderFacts DEF FetchNull
    <2>3. /\ num' = num + 1 /\ stage' = 1 /\ todo' = {}
          /\ pc' = IF num < endNum THEN "fetch" ELSE IF ff THEN "save" ELSE "round"
          /\ UNCHANGED <<best, head, db, ledger, late, lateSave, cached, last, copy, held, dirty,
                         endNum, ff>>
      BY <1>3 DEF FetchNull, NextNum
    <2>4. num' \in 0..(MaxBlock + 1)
      BY <1>0, <2>2, <2>3
    <2>. QED  BY <2>1, <2>2, <2>3, <2>4
  <1>4. CASE StepFails
    <2>1. [spent EXCEPT !["error"] = @ + 1] \in [FaultKind -> Nat]
      BY SpendFact DEF FaultKind
    <2>. QED  BY <1>4, <2>1, RecoverType DEF StepFails
  <1>5. CASE StepKills
    <2>1. spent' \in [FaultKind -> Nat]
      BY <1>5, SpendFact DEF StepKills, Spend, FaultKind
    <2>. QED  BY <1>5, <2>1, DieType DEF StepKills
  <1>6. CASE Crash
    <2>1. spent' \in [FaultKind -> Nat]
      BY <1>6, SpendFact DEF Crash, Spend, FaultKind
    <2>. QED  BY <1>6, <2>1, DieType DEF Crash
  <1>7. CASE ChainGrows
    BY <1>0, <1>7 DEF ChainGrows
  <1>8. CASE UNCHANGED vars
    BY <1>8 DEF vars
  <1>. QED  BY <1>1, <1>2, <1>3, <1>4, <1>5, <1>6, <1>7, <1>8 DEF Landing, Fault

\* The variables keep their types, and the control variables their ranges at every program
\* counter, for every chain and any number of faults.
THEOREM TypeCorrect == Spec => []TypeOK
  <1>1. Init => TypeInv
    BY InitTypeInv
  <1>2. TypeInv /\ [Next]_vars => TypeInv'
    BY ProgramType, OtherType DEF Next
  <1>3. TypeInv => TypeOK
    BY DEF TypeInv
  <1>. QED  BY <1>1, <1>2, <1>3, PTL DEF Spec

-----------------------------------------------------------------------------
(* Every block the head has passed is stored. *)

\* The values the steps below compute with.
LEMMA RangeFacts ==
  ASSUME TypeInv
  PROVE  /\ MaxBlock \in Nat /\ Block = 0..MaxBlock /\ MaxBlock + 1 \in Nat
         /\ stage \in 1..16 /\ num \in 0..(MaxBlock + 1) /\ head \in -1..MaxBlock
         /\ endNum \in 0..MaxBlock /\ last \in -1..MaxBlock
         /\ db \in [Row -> 0..2] /\ cached \in [Block -> 0..2]
         /\ \A r \in Row : r.num \in Block /\ r.coll \in Collection
  <1>1. /\ MaxBlock \in Nat /\ Block = 0..MaxBlock /\ TypeOK
    BY PosSyncAssumption DEF Block, TypeInv
  <1>2. /\ endNum \in 0..MaxBlock /\ last \in -1..MaxBlock
        /\ db \in [Row -> 0..2] /\ cached \in [Block -> 0..2]
    BY <1>1 DEF TypeOK
  <1>3. \A r \in Row : r.num \in Block /\ r.coll \in Collection
    BY PosSyncAssumption
  <1>. QED  BY <1>1, <1>2, <1>3, BoundFacts

LEMMA InitGapFree == Init => GapFreeInv
  <1>. SUFFICES ASSUME Init PROVE GapFreeInv
    OBVIOUS
  <1>1. PrefixInv
    BY DEF Init, PrefixInv
  <1>. QED  BY <1>1 DEF Init, GapFreeInv, RoundInv, SaveInv, StageInv

\* A step that leaves the import loop and keeps every committed row keeps the invariant.
LEMMA OutsideLoop ==
  ASSUME PrefixInv, head' = head, pc' \notin {"fetch", "process", "save"},
         \A r \in Row : r.num <= head /\ db[r] > 0 => db'[r] > 0
  PROVE  GapFreeInv'
  BY DEF GapFreeInv, PrefixInv, RoundInv, SaveInv, StageInv

LEMMA RecoverGapFree ==
  ASSUME TypeInv, PrefixInv, CutShort, head' = head, pc' \notin {"fetch", "process", "save"}
  PROVE  GapFreeInv'
  BY CutShortFact, OutsideLoop DEF TypeInv

LEMMA ProgramGapFree ==
  ASSUME TypeInv, GapFreeInv, Program
  PROVE  GapFreeInv'
  <1>. USE DEF store, cache, control, Goto
  <1>0. /\ MaxBlock \in Nat /\ Block = 0..MaxBlock
        /\ stage \in 1..16 /\ num \in 0..(MaxBlock + 1) /\ head \in -1..MaxBlock
        /\ endNum \in 0..MaxBlock /\ last \in -1..MaxBlock
        /\ db \in [Row -> 0..2] /\ cached \in [Block -> 0..2]
        /\ \A r \in Row : r.num \in Block /\ r.coll \in Collection
    BY RangeFacts
  <1>p. PrefixInv
    BY DEF GapFreeInv
  <1>1. CASE Start
    BY <1>1, <1>p, OutsideLoop DEF Start
  <1>2. CASE CleanStage
    <2>1. \A r \in Row : r.num <= head /\ db[r] > 0 => db'[r] > 0
      BY <1>0, <1>2 DEF CleanStage
    <2>. QED  BY <1>2, <1>p, <2>1, OutsideLoop DEF CleanStage
  <1>3. CASE BeginFix
    BY <1>3, <1>p, OutsideLoop DEF BeginFix
  <1>4. ASSUME NEW a \in BalanceRow, FixRow(a)
        PROVE  GapFreeInv'
    BY <1>4, <1>p, OutsideLoop DEF FixRow
  <1>5. CASE EndFix
    BY <1>5, <1>p, OutsideLoop DEF EndFix
  <1>6. CASE BeginGenesis
    BY <1>6, <1>p, OutsideLoop DEF BeginGenesis
  <1>7. ASSUME NEW a \in BalanceRow, GenesisAccount(a)
        PROVE  GapFreeInv'
    BY <1>7, <1>p, OutsideLoop DEF GenesisAccount
  <1>8. ASSUME NEW a \in BalanceRow, GenesisConflict(a)
        PROVE  GapFreeInv'
    BY <1>8, <1>p, OutsideLoop DEF GenesisConflict
  <1>9. CASE StartRound
    <2>1. /\ pc' = "fetch" /\ num' = head + 1
          /\ UNCHANGED <<head, db, cached>>
      BY <1>9 DEF StartRound
    <2>. QED  BY <1>0, <1>p, <2>1 DEF GapFreeInv, PrefixInv, RoundInv, SaveInv, StageInv
  <1>10. CASE SkipRound
    BY <1>10, <1>p, OutsideLoop DEF SkipRound
  <1>11. CASE FetchBlock
    BY <1>11 DEF FetchBlock, GapFreeInv, PrefixInv, RoundInv, SaveInv, StageInv
  <1>12. CASE ProcessBlock
    <2>1. /\ pc = "process" /\ num <= endNum
          /\ cached' = [cached EXCEPT ![num] = AtMost2(@ + 1)]
          /\ last' = num /\ stage' = 1
          /\ UNCHANGED <<head, db, ff>>
      BY <1>12 DEF ProcessBlock, NextNum, TypeInv, ControlInv
    <2>2. num \in Block /\ cached[num] + 1 \in Nat
      BY <1>0, <2>1
    <2>3. AtMost2(cached[num] + 1) > 0
      BY <1>0, <2>2, AtMost2Fact
    <2>4. \A n \in Block : (n = num \/ cached[n] > 0) => cached'[n] > 0
      BY <1>0, <2>1, <2>2, <2>3
    <2>5. \A n \in Block : head < n /\ n <= num => cached'[n] > 0
      BY <1>0, <2>1, <2>2, <2>4 DEF GapFreeInv, RoundInv
    <2>6. PrefixInv'
      BY <1>p, <2>1 DEF PrefixInv
    <2>7. RoundInv'
      <3>1. pc' = "fetch" => num' = num + 1
        BY <1>12 DEF ProcessBlock, NextNum
      <3>2. pc' # "process"
        BY <1>12 DEF ProcessBlock, NextNum
      <3>. QED  BY <1>0, <2>1, <2>5, <3>1, <3>2 DEF RoundInv
    <2>8. SaveInv'
      <3>1. pc' = "save" /\ ~ ff => num' = num
        BY <1>12 DEF ProcessBlock, NextNum
      <3>. QED  BY <2>1, <2>2, <2>4, <2>5, <3>1 DEF SaveInv
    <2>9. StageInv'
      BY <2>1 DEF StageInv
    <2>. QED  BY <2>6, <2>7, <2>8, <2>9 DEF GapFreeInv
  <1>13. CASE InsertRows
    <2>1. /\ pc = "save" /\ pc' = "save" /\ stage' = stage + 1 /\ stage \in 1..14
          /\ UNCHANGED <<head, cached, last, num, ff>>
      BY <1>0, <1>13, StageFacts DEF InsertRows
    <2>2. \A r \in Row : /\ db[r] > 0 => db'[r] > 0
                         /\ r.coll = SaveOrder[stage] /\ cached[r.num] > 0 => db'[r] > 0
      <3>1. ASSUME NEW r \in Row
            PROVE  /\ db[r] \in 0..2 /\ cached[r.num] \in 0..2
                   /\ db[r] + cached[r.num] \in Nat
        BY <1>0
      <3>. QED  BY <1>13, <3>1 DEF InsertRows, Pending, AtMost2
    <2>3. PrefixInv'
      BY <1>p, <2>1, <2>2 DEF PrefixInv
    <2>4. RoundInv' /\ SaveInv'
      BY <2>1 DEF RoundInv, SaveInv, GapFreeInv
    <2>5. StageInv'
      <3>1. ASSUME NEW i \in 1..(stage' - 1), i \notin 1..(stage - 1)
            PROVE  i = stage
        BY <2>1, <3>1
      <3>. QED  BY <2>1, <2>2, <3>1 DEF StageInv, GapFreeInv
    <2>. QED  BY <2>3, <2>4, <2>5 DEF GapFreeInv
  <1>14. CASE InsertConflict
    <2>1. CutShort /\ head' = head /\ pc' \notin {"fetch", "process", "save"}
      BY <1>14 DEF InsertConflict, Recover
    <2>. QED  BY <1>p, <2>1, RecoverGapFree
  <1>15. CASE SaveBalances
    <2>1. /\ pc = "save" /\ pc' = "save" /\ stage' = stage + 1 /\ stage \in 1..13
          /\ UNCHANGED <<head, db, cached, last, num, ff>>
          /\ SaveOrder[stage] \notin Collection
      BY <1>0, <1>15, StageFacts DEF SaveBalances, Collection
    <2>2. PrefixInv' /\ RoundInv' /\ SaveInv'
      BY <1>p, <2>1 DEF PrefixInv, RoundInv, SaveInv, GapFreeInv
    <2>3. StageInv'
      <3>1. ASSUME NEW i \in 1..(stage' - 1), i \notin 1..(stage - 1)
            PROVE  i = stage
        BY <2>1, <3>1
      <3>. QED  BY <1>0, <2>1, <3>1 DEF StageInv, GapFreeInv
    <2>. QED  BY <2>2, <2>3 DEF GapFreeInv
  <1>16. CASE UpdateHead
    <2>1. stage = 15
      BY <1>0, <1>16, StageFacts DEF UpdateHead
    <2>2. /\ pc = "save" /\ pc' = "save" /\ stage' = 16
          /\ UNCHANGED <<db, cached, last, num, ff>>
      BY <1>16, <2>1 DEF UpdateHead
    <2>3. /\ last \in Block /\ cached[last] > 0 /\ head' = last
          /\ ~ ff => last = num
          /\ \A n \in Block : head < n /\ n <= last => cached[n] > 0
      BY <1>16, <2>2 DEF UpdateHead, AnyCached, GapFreeInv, SaveInv
    <2>4. \A r \in Row : cached[r.num] > 0 => db[r] > 0
      <3>1. ASSUME NEW r \in Row, cached[r.num] > 0
            PROVE  db[r] > 0
        <4>1. PICK i \in 1..14 : SaveOrder[i] = r.coll
          BY <1>0, OrderFacts
        <4>2. i \in 1..(stage - 1)
          BY <2>1
        <4>. QED  BY <2>2, <3>1, <4>1, <4>2 DEF GapFreeInv, StageInv
      <3>. QED  BY <3>1
    <2>5. PrefixInv'
      <3>1. ASSUME NEW r \in Row, r.num <= head'
            PROVE  db'[r] > 0
        <4>1. CASE r.num <= head
          BY <1>p, <2>2, <4>1 DEF PrefixInv
        <4>2. CASE head < r.num
          BY <1>0, <2>2, <2>3, <2>4, <3>1, <4>2
        <4>. QED  BY <1>0, <4>1, <4>2
      <3>. QED  BY <3>1 DEF PrefixInv
    <2>6. RoundInv'
      BY <2>2 DEF RoundInv
    <2>7. SaveInv'
      BY <1>0, <2>2, <2>3 DEF SaveInv
    <2>8. StageInv'
      BY <2>2, <2>4 DEF StageInv
    <2>. QED  BY <2>5, <2>6, <2>7, <2>8 DEF GapFreeInv
  <1>17. CASE Rebase
    <2>1. stage = 16 /\ pc = "save"
      BY <1>0, <1>17, StageFacts DEF Rebase
    <2>2. UNCHANGED <<head, db>> /\ pc' \in {"fetch", "round"} /\ (pc' = "fetch" => ~ ff /\ num' = num + 1)
      BY <1>17, <2>1 DEF Rebase, NextNum, TypeInv, TypeOK
    <2>3. ~ ff => head = num
      BY <2>1 DEF GapFreeInv, SaveInv
    <2>4. PrefixInv'
      BY <1>p, <2>2 DEF PrefixInv
    <2>5. RoundInv'
      BY <1>0, <2>2, <2>3 DEF RoundInv
    <2>. QED  BY <2>2, <2>4, <2>5 DEF GapFreeInv, SaveInv, StageInv
  <1>. QED  BY <1>1, <1>2, <1>3, <1>4, <1>5, <1>6, <1>7, <1>8, <1>9, <1>10, <1>11, <1>12,
                <1>13, <1>14, <1>15, <1>16, <1>17 DEF Program, CleanUp, Import, SaveCache

LEMMA OtherGapFree ==
  ASSUME TypeInv, GapFreeInv, NoGap', Landing \/ Fault \/ ChainGrows \/ UNCHANGED vars
  PROVE  GapFreeInv'
  <1>. USE DEF store, cache, control, Goto
  <1>0. /\ db \in [Row -> 0..2] /\ TypeOK
        /\ PrefixInv /\ spent \in [FaultKind -> Nat]
    BY DEF TypeInv, TypeOK, GapFreeInv
  <1>1. ASSUME NEW r \in Row, Land(r)
        PROVE  GapFreeInv'
    <2>1. \A q \in Row : db[q] > 0 => db'[q] > 0
      <3>1. {r} \in SUBSET Row
        OBVIOUS
      <3>. QED  BY <1>0, <1>1, <3>1, LandedFact DEF Land
    <2>2. UNCHANGED <<head, cached, last, pc, stage, num, ff>>
      BY <1>1 DEF Land
    <2>. QED  BY <2>1, <2>2 DEF GapFreeInv, PrefixInv, RoundInv, SaveInv, StageInv
  <1>2. ASSUME NEW a \in BalanceRow, LandSave(a)
        PROVE  GapFreeInv'
    BY <1>2 DEF LandSave, GapFreeInv, PrefixInv, RoundInv, SaveInv, StageInv
  <1>3. CASE FetchNull
    <2>1. spent'["null"] = spent["null"] + 1 /\ spent["null"] \in Nat
      BY <1>0, <1>3 DEF FetchNull, Spend, FaultKind
    <2>. QED  BY <2>1 DEF NoGap
  <1>4. CASE StepFails
    <2>1. CutShort /\ head' = head /\ pc' \notin {"fetch", "process", "save"}
      BY <1>4 DEF StepFails, Recover
    <2>. QED  BY <1>0, <2>1, RecoverGapFree
  <1>5. CASE StepKills \/ Crash
    <2>1. CutShort /\ head' = head /\ pc' \notin {"fetch", "process", "save"}
      BY <1>5 DEF StepKills, Crash, Die
    <2>. QED  BY <1>0, <2>1, RecoverGapFree
  <1>6. CASE ChainGrows
    BY <1>6 DEF ChainGrows, GapFreeInv, PrefixInv, RoundInv, SaveInv, StageInv
  <1>7. CASE UNCHANGED vars
    BY <1>7 DEF vars, GapFreeInv, PrefixInv, RoundInv, SaveInv, StageInv
  <1>. QED  BY <1>1, <1>2, <1>3, <1>4, <1>5, <1>6, <1>7 DEF Landing, Fault

\* A null answer is never forgotten.
LEMMA NoGapBefore ==
  ASSUME TypeInv, [Next]_vars, NoGap'
  PROVE  NoGap
  <1>. USE DEF store, cache, control, Goto, NoGap
  <1>0. /\ spent \in [FaultKind -> Nat] /\ "null" \in FaultKind /\ "error" \in FaultKind
        /\ "crash" \in FaultKind /\ spent["null"] \in Nat
    BY DEF TypeInv, TypeOK, FaultKind
  <1>1. CASE Program
    <2>1. CASE InsertConflict
      <3>1. spent'["null"] = spent["null"]
        BY <1>0, <2>1, StragglersFact DEF InsertConflict, Recover, TypeInv
      <3>. QED  BY <3>1
    <2>2. CASE ~ InsertConflict
      <3>1. UNCHANGED spent
        BY <1>1, <2>2 DEF Program, CleanUp, Import, SaveCache, Start, CleanStage, BeginFix, FixRow,
          EndFix, BeginGenesis, GenesisAccount, GenesisConflict, StartRound, SkipRound, FetchBlock,
          ProcessBlock, InsertRows, SaveBalances, UpdateHead, Rebase
      <3>. QED  BY <3>1
    <2>. QED  BY <2>1, <2>2
  <1>2. CASE Landing \/ ChainGrows \/ UNCHANGED vars
    BY <1>2 DEF Landing, Land, LandSave, ChainGrows, vars
  <1>3. CASE FetchNull
    <2>1. spent'["null"] = spent["null"] + 1
      BY <1>0, <1>3 DEF FetchNull, Spend
    <2>. QED  BY <1>0, <2>1
  <1>4. CASE StepFails
    <2>1. [spent EXCEPT !["error"] = @ + 1] \in [FaultKind -> Nat]
      BY <1>0
    <2>2. spent'["null"] = [spent EXCEPT !["error"] = @ + 1]["null"]
      BY <1>4, <2>1, StragglersFact DEF StepFails, Recover, TypeInv
    <2>. QED  BY <1>0, <2>2
  <1>5. CASE StepKills \/ Crash
    BY <1>0, <1>5 DEF StepKills, Crash, Spend
  <1>. QED  BY <1>1, <1>2, <1>3, <1>4, <1>5 DEF Next, Fault

\* Without null answers, at every moment, every row of every block up to the head is stored:
\* for every chain, every window size and any number of crashes, errors and late writes.
THEOREM PrefixAlwaysComplete == Spec => []PrefixComplete
  <1>1. Init => IInv
    BY InitTypeInv, InitGapFree DEF IInv, TypeInv
  <1>2. IInv /\ [Next]_vars => IInv'
    <2>. SUFFICES ASSUME IInv, [Next]_vars PROVE IInv'
      OBVIOUS
    <2>1. TypeInv
      BY DEF IInv, TypeInv
    <2>2. TypeInv'
      BY <2>1, ProgramType, OtherType DEF Next
    <2>3. ASSUME NoGap' PROVE GapFreeInv'
      <3>1. GapFreeInv
        BY <2>1, <2>3, NoGapBefore DEF IInv
      <3>. QED  BY <2>1, <2>3, <3>1, ProgramGapFree, OtherGapFree DEF Next
    <2>. QED  BY <2>2, <2>3 DEF IInv, TypeInv
  <1>3. IInv => PrefixComplete
    <2>. SUFFICES ASSUME IInv, NoGap, NEW n \in 0..head, NEW r \in Row, r.num = n
                  PROVE  db[r] > 0
      BY DEF PrefixComplete, Stored
    <2>1. r.num <= head
      BY PosSyncAssumption DEF IInv, TypeOK, Block
    <2>. QED  BY <2>1 DEF IInv, GapFreeInv, PrefixInv
  <1>. QED  BY <1>1, <1>2, <1>3, PTL DEF Spec

-----------------------------------------------------------------------------
(***************************************************************************)
(* PosSync implements AtomicImport: for every chain, window size and       *)
(* number of faults, answers of null and late writes included.             *)
(***************************************************************************)

\* A cached block is beyond the head, or everything it contains is stored: after an error behind
\* updateHead the caches still hold what has been committed.
CachedInv == \A n \in Block : cached[n] > 0 /\ n <= head => Stored(n)

LastInv == AnyCached => last \in Block /\ cached[last] > 0

\* No round begins before the stragglers of the failed one have landed, and they add nothing to what
\* the head has passed.
LateInv ==
  /\ pc \in {"genesis", "fetch", "process", "save"} => late = {}
  /\ \A r \in late : r.num <= head => Stored(r.num)

\* Once the blocks are inserted none of the cached ones is committed yet: the unique index of block
\* would have refused it.
FreshInv == pc = "save" /\ stage = 15 => \A n \in Block : cached[n] > 0 => n > head

\* A round works above the head.
AboveInv ==
  /\ pc \in {"fetch", "process"} => num > head
  /\ pc = "save" /\ ~ ff => last = num /\ AnyCached
  /\ pc = "save" /\ ~ ff /\ stage > 15 => head = num

RefInv == CachedInv /\ LastInv /\ LateInv /\ FreshInv /\ AboveInv /\ StageInv

\* A step that changes nothing a reader could see: no committed row goes away, and the only rows that
\* come belong to a block that is whole already.
Keeps ==
  /\ head' = head
  /\ \A r \in Row : r.num <= head /\ db[r] > 0 => db'[r] > 0
  /\ \A r \in Row : r.num <= head /\ db'[r] > 0 => db[r] > 0 \/ Stored(r.num)
-----------------------------------------------------------------------------
LEMMA KeepsFact ==
  ASSUME TypeInv, Keeps
  PROVE  /\ \A n \in Block : n <= head => (Stored(n)' <=> Stored(n))
         /\ Visible' = Visible
  <1>1. ASSUME NEW n \in Block, n <= head
        PROVE  Stored(n)' <=> Stored(n)
    BY <1>1 DEF Keeps, Stored
  <1>2. head' = head /\ 0..head \subseteq Block /\ \A n \in 0..head : n <= head
    BY RangeFacts DEF Keeps
  <1>3. Visible' = Visible
    BY <1>1, <1>2 DEF Visible
  <1>. QED  BY <1>1, <1>3

\* Outside of a round only the caches and the stragglers matter.
LEMMA OutsideRef ==
  ASSUME TypeInv, RefInv, Keeps, pc' \notin {"genesis", "fetch", "process", "save"},
         UNCHANGED <<cached, last>> \/ ~ AnyCached',
         \A r \in late' : r \in late \/ (r \in Row /\ cached[r.num] > 0)
  PROVE  RefInv'
  <1>1. \A n \in Block : n <= head => (Stored(n)' <=> Stored(n))
    BY KeepsFact
  <1>2. CachedInv'
    BY <1>1 DEF RefInv, CachedInv, Keeps, AnyCached
  <1>3. LastInv'
    BY DEF RefInv, LastInv, AnyCached
  <1>4. LateInv'
    <2>. SUFFICES ASSUME NEW r \in late', r.num <= head
                  PROVE  Stored(r.num)'
      BY DEF LateInv, Keeps
    <2>1. r.num \in Block
      BY RangeFacts DEF TypeInv, TypeOK
    <2>2. Stored(r.num)
      BY <2>1 DEF RefInv, LateInv, CachedInv
    <2>. QED  BY <2>1, <2>2, <1>1
  <1>. QED  BY <1>2, <1>3, <1>4 DEF RefInv, FreshInv, AboveInv, StageInv

\* What a step cut short has written of cached blocks, a reader does not see.
LEMMA CutShortKeeps ==
  ASSUME TypeInv, RefInv, CutShort, head' = head
  PROVE  Keeps
  <1>1. \A r \in Row : r.num <= head /\ db[r] > 0 => db'[r] > 0
    BY CutShortFact DEF TypeInv
  <1>2. ASSUME NEW r \in Row, r.num <= head, db'[r] > 0
        PROVE  db[r] > 0 \/ Stored(r.num)
    <2>1. CASE InsertCutShort
      <3>1. PICK S \in SUBSET Pending(SaveOrder[stage]) : db' = Landed(S)
        BY <2>1 DEF InsertCutShort
      <3>2. CASE r \in S
        BY <3>2, <1>2, RangeFacts DEF Pending, RefInv, CachedInv
      <3>3. CASE r \notin S
        BY <3>1, <3>3, <1>2 DEF Landed
      <3>. QED  BY <3>2, <3>3
    <2>2. CASE CleanCutShort
      <3>1. PICK S \in SUBSET Row : db' = [q \in Row |-> IF q \in S THEN 0 ELSE db[q]]
        BY <2>2 DEF CleanCutShort
      <3>. QED  BY <3>1, <1>2
    <2>3. CASE db' = db
      BY <2>3, <1>2
    <2>. QED  BY <2>1, <2>2, <2>3
              DEF CutShort, GenesisCutShort, ProcessCutShort, SaveCutShort, RebaseCutShort
  <1>. QED  BY <1>1, <1>2 DEF Keeps

\* What goes on after the rejection is part of the caches.
LEMMA StragglersLate ==
  ASSUME NEW faults, Stragglers(faults)
  PROVE  \A r \in late' : r \in late \/ (r \in Row /\ cached[r.num] > 0)
  BY DEF Stragglers, InFlight, Pending

LEMMA RecoverRef ==
  ASSUME TypeInv, RefInv, NEW faults, Recover(faults)
  PROVE  Keeps /\ RefInv'
  <1>1. CutShort /\ head' = head /\ Stragglers(faults) /\ UNCHANGED <<cached, last>>
        /\ pc' \notin {"genesis", "fetch", "process", "save"}
    BY DEF Recover, Goto
  <1>2. Keeps
    BY <1>1, CutShortKeeps
  <1>. QED  BY <1>1, <1>2, StragglersLate, OutsideRef

LEMMA DieRef ==
  ASSUME TypeInv, RefInv, Die
  PROVE  Keeps /\ RefInv'
  <1>1. CutShort /\ head' = head /\ ~ AnyCached' /\ late' = {} /\ pc' = "down"
    BY DEF Die, Goto, EmptyCache, AnyCached, Block
  <1>2. Keeps
    BY <1>1, CutShortKeeps
  <1>. QED  BY <1>1, <1>2, OutsideRef

LEMMA InitRef == Init => RefInv /\ Abstract!AbsInit
  <1>. SUFFICES ASSUME Init PROVE RefInv /\ Abstract!AbsInit
    OBVIOUS
  <1>1. head \in {-1, 0} /\ 0..head \subseteq Block /\ head \in -1..MaxBlock
    BY PosSyncAssumption DEF Init, Block
  <1>2. \A n \in 0..head : Stored(n)
    BY DEF Init, Stored
  <1>3. Abstract!AbsInit
    BY <1>1, <1>2 DEF Abstract!AbsInit, Visible
  <1>. QED  BY <1>3 DEF Init, RefInv, CachedInv, LastInv, LateInv, FreshInv, AboveInv, StageInv, AnyCached
-----------------------------------------------------------------------------
(* The steps. *)

\* What a step is to a reader.
Seen == (head' = head /\ Visible' = Visible) \/ Abstract!ImportBatch

\* Rows inserted for cached blocks change nothing below the head.
LEMMA PendingKeeps ==
  ASSUME TypeInv, RefInv, head' = head, NEW S \in SUBSET Row,
         \A r \in S : r.num <= head => Stored(r.num),
         \A r \in Row : r \notin S => db'[r] = db[r],
         \A r \in Row : db[r] > 0 => db'[r] > 0
  PROVE  Keeps
  BY DEF Keeps

\* A step inside a round that inserts nothing: the parts about rows stay.
LEMMA SameRows ==
  ASSUME TypeInv, RefInv, UNCHANGED <<head, db>>, late' = late
  PROVE  /\ Seen
         /\ \A n \in Block : Stored(n)' <=> Stored(n)
         /\ \A r \in late : r.num <= head' => Stored(r.num)'
  <1>1. \A n \in Block : Stored(n)' <=> Stored(n)
    BY DEF Stored
  <1>2. Keeps
    BY DEF Keeps
  <1>3. Seen
    BY <1>2, KeepsFact DEF Seen, Keeps
  <1>4. \A r \in late : r.num \in Block
    BY RangeFacts DEF TypeInv, TypeOK
  <1>. QED  BY <1>1, <1>3, <1>4 DEF RefInv, LateInv

LEMMA RoundRef ==
  ASSUME TypeInv, RefInv, BeginGenesis \/ (\E a \in BalanceRow : GenesisAccount(a)) \/ StartRound
                          \/ FetchBlock \/ FetchNull
  PROVE  RefInv' /\ Seen
  <1>1. /\ UNCHANGED <<head, db, cached, last>> /\ late' = late /\ late = {}
        /\ pc' \in {"genesis", "fetch", "process", "save", "round"}
        /\ stage' \in Nat /\ (pc' = "save" => stage' = 1 /\ ff')
        /\ (pc' \in {"fetch", "process"} => num' > head)
    BY RangeFacts DEF BeginGenesis, GenesisAccount, StartRound, ReadyForRound, FetchBlock,
       FetchNull, NextNum, RefInv, LateInv, AboveInv, TypeInv, TypeOK, store, cache, control, Goto
  <1>2. Seen /\ \A n \in Block : Stored(n)' <=> Stored(n)
    BY <1>1, SameRows
  <1>3. CachedInv' /\ LastInv'
    BY <1>1, <1>2 DEF RefInv, CachedInv, LastInv, AnyCached
  <1>4. LateInv'
    BY <1>1 DEF LateInv
  <1>5. FreshInv'
    BY <1>1 DEF FreshInv
  <1>6. AboveInv'
    BY <1>1 DEF AboveInv
  <1>7. StageInv'
    <2>1. CASE pc' # "save"
      BY <2>1 DEF StageInv
    <2>2. CASE pc' = "save"
      <3>1. stage' = 1 /\ 1..(stage' - 1) = {}
        BY <1>1, <2>2
      <3>. QED  BY <3>1 DEF StageInv
    <2>. QED  BY <2>1, <2>2
  <1>. QED  BY <1>2, <1>3, <1>4, <1>5, <1>6, <1>7 DEF RefInv

LEMMA ProcessRef ==
  ASSUME TypeInv, RefInv, ProcessBlock
  PROVE  RefInv' /\ Seen
  <1>. USE DEF Goto
  <1>1. /\ pc = "process" /\ num <= endNum /\ num > head
        /\ cached' = [cached EXCEPT ![num] = AtMost2(@ + 1)]
        /\ last' = num /\ UNCHANGED <<head, db, late, ff>> /\ stage' = 1
        /\ pc' \in {"fetch", "save", "round"}
        /\ num' \in {num, num + 1} /\ (pc' = "fetch" => num' = num + 1)
        /\ (pc' = "save" /\ ~ ff => num' = num)
    BY DEF ProcessBlock, NextNum, TypeInv, ControlInv, RefInv, AboveInv
  <1>2. num \in Block /\ cached[num] + 1 \in Nat
    BY <1>1, RangeFacts
  <1>3. cached'[num] > 0 /\ \A n \in Block : n # num => cached'[n] = cached[n]
    BY <1>1, <1>2, RangeFacts, AtMost2Fact
  <1>4. Seen /\ \A n \in Block : Stored(n)' <=> Stored(n)
    BY <1>1, SameRows
  <1>5. head \in Int /\ \A n \in Block : n \in Int
    BY RangeFacts
  <1>6. CachedInv'
    BY <1>1, <1>3, <1>4, <1>5 DEF RefInv, CachedInv
  <1>7. LastInv'
    BY <1>1, <1>2, <1>3 DEF LastInv
  <1>8. LateInv'
    BY <1>1 DEF RefInv, LateInv
  <1>9. AboveInv'
    BY <1>1, <1>2, <1>3, <1>5 DEF AboveInv, AnyCached
  <1>10. FreshInv' /\ StageInv'
    BY <1>1 DEF FreshInv, StageInv
  <1>. QED  BY <1>4, <1>6, <1>7, <1>8, <1>9, <1>10 DEF RefInv

\* Once all collections are written, every cached block is stored.
LEMMA CachedStored ==
  ASSUME TypeInv, StageInv, pc = "save", stage >= 15
  PROVE  \A n \in Block : cached[n] > 0 => Stored(n)
  <1>. SUFFICES ASSUME NEW n \in Block, cached[n] > 0, NEW r \in Row, r.num = n
                PROVE  db[r] > 0
    BY DEF Stored
  <1>1. PICK i \in 1..14 : SaveOrder[i] = r.coll
    BY RangeFacts, OrderFacts
  <1>2. stage \in 1..16
    BY RangeFacts
  <1>3. i \in 1..(stage - 1)
    BY <1>2
  <1>. QED  BY <1>1, <1>3 DEF StageInv

LEMMA InsertRef ==
  ASSUME TypeInv, RefInv, InsertRows
  PROVE  RefInv' /\ Seen
  <1>1. /\ pc = "save" /\ pc' = "save" /\ stage' = stage + 1 /\ stage \in 1..14
        /\ UNCHANGED <<head, cached, last, num, ff>> /\ late' = late /\ late = {}
    BY RangeFacts, StageFacts DEF InsertRows, cache, RefInv, LateInv
  <1>2. \A r \in Row : /\ db[r] > 0 => db'[r] > 0
                       /\ r.coll = SaveOrder[stage] /\ cached[r.num] > 0 => db'[r] > 0
                       /\ r \notin Pending(SaveOrder[stage]) => db'[r] = db[r]
    <2>1. ASSUME NEW r \in Row
          PROVE  /\ db[r] \in 0..2 /\ cached[r.num] \in 0..2
                 /\ db[r] + cached[r.num] \in Nat
      BY RangeFacts
    <2>. QED  BY <2>1 DEF InsertRows, Pending, AtMost2
  <1>3. Keeps
    <2>1. Pending(SaveOrder[stage]) \in SUBSET Row
      BY DEF Pending
    <2>2. \A r \in Pending(SaveOrder[stage]) : r.num <= head => Stored(r.num)
      BY RangeFacts DEF Pending, RefInv, CachedInv
    <2>. QED  BY <1>1, <1>2, <2>1, <2>2, PendingKeeps
  <1>4. Seen /\ \A n \in Block : n <= head => (Stored(n)' <=> Stored(n))
    BY <1>1, <1>3, KeepsFact DEF Seen
  <1>5. CachedInv' /\ LastInv'
    BY <1>1, <1>4 DEF RefInv, CachedInv, LastInv, AnyCached
  <1>6. LateInv'
    BY <1>1 DEF LateInv
  <1>7. AboveInv'
    BY <1>1 DEF RefInv, AboveInv, AnyCached
  <1>8. StageInv'
    <2>1. ASSUME NEW i \in 1..(stage' - 1), i \notin 1..(stage - 1)
          PROVE  i = stage
      BY <1>1, <2>1
    <2>. QED  BY <1>1, <1>2, <2>1 DEF StageInv, RefInv
  <1>9. FreshInv'
    <2>. SUFFICES ASSUME stage' = 15, NEW n \in Block, cached[n] > 0, n <= head
                  PROVE  FALSE
      BY <1>1, RangeFacts DEF FreshInv
    <2>1. SaveOrder[stage] = "block"
      BY <1>1 DEF SaveOrder
    <2>2. BlockRow(n) \in Row /\ BlockRow(n).num = n /\ BlockRow(n).coll = "block"
      BY PosSyncAssumption DEF BlockRow
    <2>3. ~ (db[BlockRow(n)] > 0)
      BY <2>1, <2>2 DEF InsertRows, Conflict, Unique, Collection, Pending
    <2>4. Stored(n)
      BY DEF RefInv, CachedInv
    <2>. QED  BY <2>2, <2>3, <2>4 DEF Stored
  <1>. QED  BY <1>4, <1>5, <1>6, <1>7, <1>8, <1>9 DEF RefInv

LEMMA BalancesRef ==
  ASSUME TypeInv, RefInv, SaveBalances
  PROVE  RefInv' /\ Seen
  <1>1. /\ pc = "save" /\ pc' = "save" /\ stage' = stage + 1 /\ stage \in 1..13
        /\ UNCHANGED <<head, db, cached, last, num, ff>> /\ late' = late
        /\ SaveOrder[stage] \notin Collection
    BY RangeFacts, StageFacts DEF SaveBalances, Collection
  <1>2. Seen /\ \A n \in Block : Stored(n)' <=> Stored(n)
    BY <1>1, SameRows
  <1>3. CachedInv' /\ LastInv'
    BY <1>1, <1>2 DEF RefInv, CachedInv, LastInv, AnyCached
  <1>4. LateInv'
    BY <1>1 DEF RefInv, LateInv
  <1>5. FreshInv' /\ AboveInv'
    BY <1>1 DEF FreshInv, AboveInv, AnyCached, RefInv
  <1>6. StageInv'
    <2>1. ASSUME NEW i \in 1..(stage' - 1), i \notin 1..(stage - 1)
          PROVE  i = stage
      BY <1>1, <2>1
    <2>. QED  BY <1>1, <2>1, RangeFacts DEF StageInv, RefInv
  <1>. QED  BY <1>2, <1>3, <1>4, <1>5, <1>6 DEF RefInv

\* The one step a reader sees.
LEMMA HeadRef ==
  ASSUME TypeInv, RefInv, UpdateHead
  PROVE  RefInv' /\ Seen
  <1>1. stage = 15
    BY RangeFacts, StageFacts DEF UpdateHead
  <1>2. /\ pc = "save" /\ pc' = "save" /\ stage' = 16
        /\ UNCHANGED <<db, cached, last, num, ff>> /\ late' = late /\ late = {}
        /\ head' = IF AnyCached THEN last ELSE head
    BY <1>1 DEF UpdateHead, cache, RefInv, LateInv
  <1>3. \A n \in Block : /\ Stored(n)' <=> Stored(n)
                         /\ cached[n] > 0 => Stored(n) /\ n > head
    BY <1>1, <1>2, CachedStored DEF Stored, RefInv, FreshInv
  <1>4. CachedInv' /\ LastInv'
    BY <1>2, <1>3 DEF RefInv, CachedInv, LastInv, AnyCached
  <1>5. LateInv' /\ FreshInv'
    BY <1>2 DEF LateInv, FreshInv
  <1>6. AboveInv'
    BY <1>2 DEF RefInv, AboveInv, AnyCached
  <1>7. StageInv'
    <2>1. \A r \in Row : cached[r.num] > 0 => db[r] > 0
      BY <1>3, RangeFacts DEF Stored
    <2>. QED  BY <1>2, <2>1 DEF StageInv
  <1>8. Seen
    <2>1. CASE ~ AnyCached
      <3>1. Keeps
        BY <1>2, <2>1 DEF Keeps
      <3>. QED  BY <1>2, <2>1, <3>1, KeepsFact DEF Seen
    <2>2. CASE AnyCached
      <3>1. last \in Block /\ head' = last /\ last > head /\ Stored(last)
        BY <1>2, <1>3, <2>2 DEF RefInv, LastInv
      <3>2. /\ head \in -1..MaxBlock /\ MaxBlock \in Nat /\ Block = 0..MaxBlock
        BY RangeFacts
      <3>. DEFINE batch == { n \in (head + 1)..last : Stored(n) }
      <3>3. last \in (head + 1)..MaxBlock /\ batch \in SUBSET ((head + 1)..last) /\ last \in batch
        BY <3>1, <3>2
      <3>4. Visible' = Visible \cup batch
        <4>1. Visible' = { n \in 0..last : Stored(n) }
          BY <1>3, <3>1, <3>2 DEF Visible
        <4>2. 0..last = (0..head) \cup ((head + 1)..last)
          BY <3>1, <3>2
        <4>. QED  BY <4>1, <4>2 DEF Visible
      <3>. QED  BY <3>1, <3>3, <3>4 DEF Seen, Abstract!ImportBatch
    <2>. QED  BY <2>1, <2>2
  <1>. QED  BY <1>4, <1>5, <1>6, <1>7, <1>8 DEF RefInv

LEMMA RebaseRef ==
  ASSUME TypeInv, RefInv, Rebase
  PROVE  RefInv' /\ Seen
  <1>. USE DEF Goto
  <1>1. stage = 16 /\ pc = "save"
    BY RangeFacts, StageFacts DEF Rebase
  <1>2. /\ UNCHANGED <<head, db>> /\ late' = late /\ late = {}
        /\ pc' \in {"fetch", "round"} /\ (pc' = "fetch" => num' > head)
        /\ ~ AnyCached'
    BY <1>1, RangeFacts DEF Rebase, NextNum, EmptyCache, AnyCached, TypeInv, TypeOK, RefInv,
       LateInv, AboveInv
  <1>3. Seen
    BY <1>2, SameRows
  <1>4. CachedInv' /\ LastInv'
    BY <1>2 DEF CachedInv, LastInv, AnyCached
  <1>. QED  BY <1>2, <1>3, <1>4 DEF RefInv, LateInv, FreshInv, AboveInv, StageInv

\* A straggler that lands.
LEMMA LandRef ==
  ASSUME TypeInv, RefInv, NEW r \in Row, Land(r)
  PROVE  Keeps /\ RefInv'
  <1>. USE DEF cache, control
  <1>1. /\ r \in late /\ late' = late \ {r} /\ db' = Landed({r})
        /\ UNCHANGED <<head, cached, last, pc, stage, num, ff>>
    BY DEF Land
  <1>2. \A q \in Row : db[q] > 0 => db'[q] > 0
    BY <1>1, LandedFact DEF TypeInv
  <1>3. Keeps
    <2>1. \A q \in Row : q # r => db'[q] = db[q]
      BY <1>1 DEF Landed
    <2>2. r.num <= head => Stored(r.num)
      BY <1>1 DEF RefInv, LateInv
    <2>. QED  BY <1>1, <1>2, <2>1, <2>2, PendingKeeps
  <1>4. pc \notin {"genesis", "fetch", "process", "save"}
    BY <1>1 DEF RefInv, LateInv
  <1>. QED  BY <1>1, <1>3, <1>4, OutsideRef

\* Cleaning up takes away nothing a reader sees.
LEMMA CleanRef ==
  ASSUME TypeInv, RefInv, CleanUp \/ Start \/ SkipRound
                          \/ (\E a \in BalanceRow : GenesisConflict(a))
  PROVE  Keeps /\ RefInv'
  <1>. USE DEF store, cache, control, Goto
  <1>1. /\ UNCHANGED <<head, cached, last>> /\ late' = late
        /\ pc' \notin {"genesis", "fetch", "process", "save"}
    BY DEF CleanUp, Start, SkipRound, GenesisConflict, CleanStage, BeginFix, FixRow, EndFix
  <1>2. Keeps
    <2>1. CASE CleanStage
      <3>1. head \in Int /\ \A r \in Row : r.num \in Int
        BY RangeFacts
      <3>. QED  BY <1>1, <2>1, <3>1 DEF CleanStage, Keeps
    <2>2. CASE ~ CleanStage
      <3>1. UNCHANGED db
        BY <2>2 DEF CleanUp, Start, SkipRound, GenesisConflict, BeginFix, FixRow, EndFix
      <3>. QED  BY <1>1, <3>1 DEF Keeps
    <2>. QED  BY <2>1, <2>2
  <1>3. \A r \in late' : r \in late
    BY <1>1
  <1>. QED  BY <1>1, <1>2, <1>3, OutsideRef

LEMMA IdleRef ==
  ASSUME TypeInv, RefInv, ChainGrows \/ (\E a \in BalanceRow : LandSave(a)) \/ UNCHANGED vars
  PROVE  RefInv' /\ Seen
  <1>1. UNCHANGED <<head, db, late, cached, last, pc, stage, num, ff>>
    BY DEF ChainGrows, LandSave, vars, store, cache, control
  <1>2. /\ Seen
        /\ \A n \in Block : Stored(n)' <=> Stored(n)
        /\ \A r \in late : r.num <= head' => Stored(r.num)'
    BY <1>1, SameRows
  <1>3. CachedInv' /\ LastInv'
    BY <1>1, <1>2 DEF RefInv, CachedInv, LastInv, AnyCached
  <1>4. LateInv'
    BY <1>1, <1>2 DEF RefInv, LateInv
  <1>5. FreshInv' /\ AboveInv' /\ StageInv'
    BY <1>1 DEF RefInv, FreshInv, AboveInv, StageInv, AnyCached
  <1>. QED  BY <1>2, <1>3, <1>4, <1>5 DEF RefInv

LEMMA StepRef ==
  ASSUME TypeInv, RefInv, [Next]_vars
  PROVE  RefInv' /\ Seen
  <1>1. Keeps => Seen
    BY KeepsFact DEF Seen, Keeps
  <1>2. CASE CleanUp \/ Start \/ SkipRound \/ (\E a \in BalanceRow : GenesisConflict(a))
    BY <1>1, <1>2, CleanRef
  <1>3. CASE BeginGenesis \/ (\E a \in BalanceRow : GenesisAccount(a)) \/ StartRound \/ FetchBlock
             \/ FetchNull
    BY <1>3, RoundRef
  <1>4. CASE ProcessBlock \/ InsertRows \/ SaveBalances \/ UpdateHead \/ Rebase
    BY <1>4, ProcessRef, InsertRef, BalancesRef, HeadRef, RebaseRef
  <1>5. CASE InsertConflict \/ StepFails
    BY <1>1, <1>5, RecoverRef DEF InsertConflict, StepFails
  <1>6. CASE StepKills \/ Crash
    BY <1>1, <1>6, DieRef DEF StepKills, Crash
  <1>7. CASE \E r \in Row : Land(r)
    BY <1>1, <1>7, LandRef
  <1>8. CASE ChainGrows \/ (\E a \in BalanceRow : LandSave(a)) \/ UNCHANGED vars
    BY <1>8, IdleRef
  <1>. QED  BY <1>2, <1>3, <1>4, <1>5, <1>6, <1>7, <1>8
            DEF Next, Program, Import, SaveCache, Landing, Fault

\* To its readers the import is a sequence of atomic steps, for every chain and window and any number
\* of crashes, errors, null answers and late writes: each batch appears as a whole in the step in
\* which updateHead (pos.cmd.ts, saveCacheToDB) moves the head, and what has appeared stays.
THEOREM RefinesAtomicImport == Spec => ImplementsAtomicImport
  <1>1. Init => TypeInv /\ RefInv /\ Abstract!AbsInit
    BY InitTypeInv, InitRef
  <1>2. TypeInv /\ [Next]_vars => TypeInv'
    BY ProgramType, OtherType DEF Next
  <1>3. TypeInv /\ RefInv /\ [Next]_vars => RefInv' /\ [Abstract!ImportBatch]_(Abstract!absVars)
    BY StepRef DEF Seen, Abstract!absVars
  <1>. QED  BY <1>1, <1>2, <1>3, PTL DEF Spec, ImplementsAtomicImport, Abstract!AbsSpec
-----------------------------------------------------------------------------
(***************************************************************************)
(* What the import stores: batches of consecutive blocks, whole blocks,    *)
(* and each row once.                                                      *)
(***************************************************************************)

BlockStored(n) == db[BlockRow(n)] > 0

\* Once the blocks are inserted each cached one has been cached once: the unique index of block would
\* have refused the second copy.
OnceInv == pc = "save" /\ stage = 15 => \A n \in Block : cached[n] <= 1

\* The process is between the choice of a round and the move of the head.
Importing == pc \in {"fetch", "process"} \/ (pc = "save" /\ stage <= 15)

\* What an interrupted round leaves in the caches does not reach beyond the next one, which has the
\* same end as long as the head stays where it is: a round is cut short only at the best block, and
\* then its blocks are saved one by one.
WindowInv ==
  /\ \A n \in Block : cached[n] > 0 /\ n > head + 1 =>
                        n <= head + LoopWindow /\ head + LoopWindow < best
  /\ Importing /\ ff => endNum = head + LoopWindow /\ endNum < best
  /\ Importing /\ ~ ff => /\ pc # "save" => num = head + 1
                          /\ \A n \in Block : cached[n] > 0 => n <= head + 1
  /\ pc = "save" /\ stage <= 15 => last = (IF ff THEN endNum ELSE head + 1)

\* The steps of a round.
RoundStep == StartRound \/ FetchBlock \/ ProcessBlock \/ InsertRows \/ SaveBalances \/ UpdateHead
             \/ Rebase

\* What a step outside of the rounds leaves alone, the caches emptied or not.
Aside ==
  /\ head' = head
  /\ pc' \notin {"fetch", "process", "save"} \/ UNCHANGED <<pc, stage, num, endNum, ff, last>>
  /\ best' >= best /\ best' \in Int
  /\ cached' = cached \/ \A n \in Block : cached'[n] = 0
-----------------------------------------------------------------------------
LEMMA OtherAside ==
  ASSUME TypeInv, [Next]_vars, ~ RoundStep, ~ FetchNull
  PROVE  Aside
  <1>. USE DEF store, cache, control, Goto
  <1>0. best \in Int
    BY BoundFacts DEF TypeInv
  <1>1. CASE InsertConflict \/ StepFails
    BY <1>0, <1>1 DEF InsertConflict, StepFails, Recover, Aside
  <1>2. CASE StepKills \/ Crash
    BY <1>0, <1>2 DEF StepKills, Crash, Die, EmptyCache, Aside
  <1>3. CASE Start \/ CleanUp
    BY <1>0, <1>3 DEF Start, CleanUp, CleanStage, BeginFix, FixRow, EndFix, Aside
  <1>4. CASE \/ BeginGenesis \/ SkipRound
             \/ \E a \in BalanceRow : GenesisAccount(a) \/ GenesisConflict(a)
    BY <1>0, <1>4 DEF BeginGenesis, SkipRound, GenesisAccount, GenesisConflict, Aside
  <1>5. CASE Landing
    <2>1. UNCHANGED <<best, head, cached, last, pc, stage, num, endNum, ff>>
      BY <1>5 DEF Landing, Land, LandSave
    <2>. QED  BY <1>0, <2>1 DEF Aside
  <1>6. CASE ChainGrows
    BY <1>0, <1>6 DEF ChainGrows, Aside
  <1>7. CASE UNCHANGED vars
    BY <1>0, <1>7 DEF vars, Aside
  <1>. QED  BY <1>1, <1>2, <1>3, <1>4, <1>5, <1>6, <1>7
            DEF Next, Program, Import, SaveCache, Fault, RoundStep

LEMMA HeadMoves ==
  ASSUME TypeInv, [Next]_vars, ~ UpdateHead
  PROVE  head' = head
  <1>1. CASE RoundStep \/ FetchNull
    BY <1>1 DEF RoundStep, StartRound, FetchBlock, FetchNull, ProcessBlock, InsertRows, SaveBalances,
       Rebase, store
  <1>2. CASE ~ RoundStep /\ ~ FetchNull
    BY <1>2, OtherAside DEF Aside
  <1>. QED  BY <1>1, <1>2

LEMMA AsideWindow ==
  ASSUME TypeInv, WindowInv, Aside
  PROVE  WindowInv'
  <1>0. head \in Int /\ best \in Int /\ LoopWindow \in Int /\ \A n \in Block : n \in Int
    BY RangeFacts, BoundFacts DEF TypeInv
  <1>. QED  BY <1>0 DEF WindowInv, Importing, Aside

LEMMA RoundWindow ==
  ASSUME TypeInv, RefInv, GapFreeInv, WindowInv, RoundStep
  PROVE  WindowInv'
  <1>. USE DEF store, cache, control, Goto
  <1>0. /\ MaxBlock \in Nat /\ Block = 0..MaxBlock /\ LoopWindow \in Nat /\ LoopWindow > 0
        /\ stage \in 1..16 /\ num \in 0..(MaxBlock + 1) /\ head \in -1..MaxBlock
        /\ best \in 0..MaxBlock /\ endNum \in 0..MaxBlock /\ last \in -1..MaxBlock
        /\ ff \in BOOLEAN /\ cached \in [Block -> 0..2]
    BY RangeFacts, BoundFacts DEF TypeInv, TypeOK
  <1>1. CASE StartRound
    <2>1. /\ endNum' = RoundEnd /\ (ff' <=> RoundEnd < best) /\ num' = head + 1 /\ pc' = "fetch"
          /\ UNCHANGED <<best, head, cached>>
      BY <1>1 DEF StartRound
    <2>2. /\ ff' => RoundEnd = head + LoopWindow /\ RoundEnd < best
          /\ ~ ff' => ~ (head + LoopWindow < best)
      <3>1. CASE head + LoopWindow > best
        BY <1>0, <2>1, <3>1 DEF RoundEnd
      <3>2. CASE ~ (head + LoopWindow > best)
        BY <1>0, <2>1, <3>2 DEF RoundEnd
      <3>. QED  BY <3>1, <3>2
    <2>. QED  BY <1>0, <2>1, <2>2 DEF WindowInv, Importing
  <1>2. CASE FetchBlock
    BY <1>0, <1>2 DEF FetchBlock, WindowInv, Importing
  <1>3. CASE ProcessBlock
    <2>1. /\ pc = "process" /\ num <= endNum /\ num > head
          /\ cached' = [cached EXCEPT ![num] = AtMost2(@ + 1)] /\ last' = num
          /\ UNCHANGED <<best, head, endNum, ff>>
          /\ ff => /\ num' = num + 1
                   /\ pc' = (IF num < endNum THEN "fetch" ELSE "save")
          /\ ~ ff => num' = num /\ pc' = "save"
      BY <1>3 DEF ProcessBlock, NextNum, TypeInv, ControlInv, RefInv, AboveInv
    <2>2. \A n \in Block : n # num => cached'[n] = cached[n]
      BY <1>0, <2>1
    <2>3. CASE ff
      <3>1. endNum = head + LoopWindow /\ endNum < best
        BY <2>1, <2>3 DEF WindowInv, Importing
      <3>. QED  BY <1>0, <2>1, <2>2, <2>3, <3>1 DEF WindowInv, Importing
    <2>4. CASE ~ ff
      <3>1. num = head + 1 /\ \A n \in Block : cached[n] > 0 => n <= head + 1
        BY <2>1, <2>4 DEF WindowInv, Importing
      <3>. QED  BY <1>0, <2>1, <2>2, <2>4, <3>1 DEF WindowInv, Importing
    <2>. QED  BY <2>3, <2>4
  <1>4. CASE InsertRows \/ SaveBalances
    <2>1. /\ pc = "save" /\ pc' = "save" /\ stage' = stage + 1 /\ stage \in 1..14
          /\ UNCHANGED <<best, head, cached, last, num, endNum, ff>>
      BY <1>0, <1>4, StageFacts DEF InsertRows, SaveBalances
    <2>. QED  BY <1>0, <2>1 DEF WindowInv, Importing
  <1>5. CASE UpdateHead
    <2>1. stage = 15
      BY <1>0, <1>5, StageFacts DEF UpdateHead
    <2>2. /\ pc = "save" /\ pc' = "save" /\ stage' = 16 /\ head' = last
          /\ UNCHANGED <<best, cached, last, ff>>
      BY <1>5, <2>1 DEF UpdateHead, AnyCached, GapFreeInv, SaveInv
    <2>3. \A n \in Block : cached[n] > 0 => n <= last
      BY <1>0, <2>1, <2>2 DEF WindowInv, Importing
    <2>. QED  BY <1>0, <2>2, <2>3 DEF WindowInv, Importing
  <1>6. CASE Rebase
    <2>1. stage = 16 /\ pc = "save"
      BY <1>0, <1>6, StageFacts DEF Rebase
    <2>2. /\ \A n \in Block : cached'[n] = 0
          /\ UNCHANGED <<best, head, endNum, ff>>
          /\ ff => pc' = "round"
          /\ ~ ff => pc' \in {"fetch", "round"} /\ num' = num + 1
      BY <1>0, <1>6 DEF Rebase, EmptyCache, NextNum
    <2>3. ~ ff => head = num
      BY <2>1 DEF GapFreeInv, SaveInv
    <2>. QED  BY <1>0, <2>2, <2>3 DEF WindowInv, Importing
  <1>. QED  BY <1>1, <1>2, <1>3, <1>4, <1>5, <1>6 DEF RoundStep

\* The unique index of block.
LEMMA StepOnce ==
  ASSUME TypeInv, OnceInv, [Next]_vars
  PROVE  OnceInv'
  <1>. USE DEF store, cache, control, Goto
  <1>0. /\ stage \in 1..16 /\ cached \in [Block -> 0..2]
    BY RangeFacts
  <1>1. CASE InsertRows
    <2>. SUFFICES ASSUME stage' = 15, NEW n \in Block
                  PROVE  cached[n] <= 1
      BY <1>1 DEF InsertRows, OnceInv
    <2>1. stage = 14 /\ SaveOrder[stage] = "block"
      BY <1>0, <1>1 DEF InsertRows, SaveOrder
    <2>2. BlockRow(n) \in Row /\ BlockRow(n).num = n /\ BlockRow(n).coll = "block"
      BY PosSyncAssumption DEF BlockRow
    <2>3. ~ (cached[n] > 0 /\ cached[n] = 2)
      BY <1>1, <2>1, <2>2 DEF InsertRows, Conflict, Unique, Collection, Pending
    <2>. QED  BY <1>0, <2>3
  <1>2. CASE SaveBalances \/ UpdateHead
    BY <1>0, <1>2, StageFacts DEF SaveBalances, UpdateHead, OnceInv
  <1>3. CASE StartRound \/ FetchBlock \/ FetchNull \/ ProcessBlock \/ Rebase
    <2>1. pc' # "save" \/ stage' = 1
      BY <1>3 DEF StartRound, FetchBlock, FetchNull, ProcessBlock, Rebase, NextNum
    <2>. QED  BY <2>1 DEF OnceInv
  <1>4. CASE ~ RoundStep /\ ~ FetchNull
    BY <1>4, OtherAside DEF Aside, OnceInv
  <1>. QED  BY <1>1, <1>2, <1>3, <1>4 DEF RoundStep
-----------------------------------------------------------------------------
(* Consecutive blocks. *)

BatchInv == TypeInv /\ RefInv /\ OnceInv /\ (NoGap => GapFreeInv /\ WindowInv)

LEMMA InitBatch == Init => BatchInv
  <1>. SUFFICES ASSUME Init PROVE BatchInv
    OBVIOUS
  <1>1. WindowInv /\ OnceInv
    BY DEF Init, WindowInv, Importing, OnceInv
  <1>. QED  BY <1>1, InitTypeInv, InitRef, InitGapFree DEF BatchInv

LEMMA StepBatch ==
  ASSUME BatchInv, [Next]_vars
  PROVE  BatchInv'
  <1>1. TypeInv' /\ RefInv' /\ OnceInv'
    BY ProgramType, OtherType, StepRef, StepOnce DEF BatchInv, Next
  <1>2. ASSUME NoGap' PROVE GapFreeInv' /\ WindowInv'
    <2>1. NoGap /\ GapFreeInv /\ WindowInv
      BY <1>2, NoGapBefore DEF BatchInv
    <2>2. GapFreeInv'
      BY <1>2, <2>1, ProgramGapFree, OtherGapFree DEF BatchInv, Next
    <2>3. WindowInv'
      <3>1. CASE RoundStep
        BY <2>1, <3>1, RoundWindow DEF BatchInv
      <3>2. CASE FetchNull
        <4>1. spent["null"] \in Nat /\ "null" \in FaultKind /\ spent \in [FaultKind -> Nat]
          BY DEF BatchInv, TypeInv, TypeOK, FaultKind
        <4>2. spent'["null"] = spent["null"] + 1
          BY <3>2, <4>1 DEF FetchNull, Spend
        <4>. QED  BY <1>2, <4>1, <4>2 DEF NoGap
      <3>3. CASE ~ RoundStep /\ ~ FetchNull
        BY <2>1, <3>3, OtherAside, AsideWindow DEF BatchInv
      <3>. QED  BY <3>1, <3>2, <3>3
    <2>. QED  BY <2>2, <2>3
  <1>. QED  BY <1>1, <1>2 DEF BatchInv

\* Without null answers the head moves only to the last of consecutive blocks, each of them processed
\* exactly once since the last save: whatever an error has left in the caches is never committed.
THEOREM ConsecutiveBatches == Spec => CommitsConsecutiveBlocks
  <1>1. ASSUME BatchInv, [Next]_vars, NoGap, head' # head
        PROVE  /\ head' > head
               /\ \A n \in Block : cached[n] = (IF n \in (head + 1)..head' THEN 1 ELSE 0)
    <2>0. /\ Block = 0..MaxBlock /\ LoopWindow \in Nat /\ LoopWindow > 0 /\ stage \in 1..16
          /\ head \in -1..MaxBlock /\ endNum \in 0..MaxBlock /\ last \in -1..MaxBlock
          /\ MaxBlock \in Nat /\ cached \in [Block -> 0..2] /\ ff \in BOOLEAN
      BY <1>1, RangeFacts, BoundFacts DEF BatchInv, TypeInv, TypeOK
    <2>1. CASE UpdateHead
      <3>1. stage = 15 /\ pc = "save"
        BY <2>0, <2>1, StageFacts DEF UpdateHead
      <3>2. GapFreeInv /\ WindowInv /\ RefInv /\ OnceInv
        BY <1>1 DEF BatchInv
      <3>3. /\ last \in Block /\ cached[last] > 0 /\ head' = last
            /\ \A n \in Block : head < n /\ n <= last => cached[n] > 0
        BY <2>1, <3>1, <3>2 DEF UpdateHead, AnyCached, GapFreeInv, SaveInv
      <3>4. \A n \in Block : cached[n] > 0 => n > head /\ n <= last
        BY <2>0, <3>1, <3>2 DEF RefInv, FreshInv, WindowInv, Importing
      <3>5. \A n \in Block : cached[n] <= 1
        BY <3>1, <3>2 DEF OnceInv
      <3>. QED  BY <2>0, <3>3, <3>4, <3>5
    <2>2. CASE ~ UpdateHead
      <3>1. head' = head
        BY <1>1, <2>2, HeadMoves DEF BatchInv
      <3>. QED  BY <1>1, <3>1
    <2>. QED  BY <2>1, <2>2
  <1>2. Init => BatchInv
    BY InitBatch
  <1>3. BatchInv /\ [Next]_vars => BatchInv'
    BY StepBatch
  <1>4. BatchInv /\ [Next]_vars =>
          [ NoGap /\ head' # head =>
              /\ head' > head
              /\ \A n \in Block : cached[n] = (IF n \in (head + 1)..head' THEN 1 ELSE 0) ]_vars
    BY <1>1
  <1>. QED  BY <1>2, <1>3, <1>4, PTL DEF Spec, CommitsConsecutiveBlocks
-----------------------------------------------------------------------------
(* What a step may do to the rows. *)

Inserts ==
  /\ pc = "save" /\ SaveOrder[stage] \in Collection
  /\ \A r \in Row : /\ db'[r] = db[r] \/ r \in Pending(SaveOrder[stage])
                    /\ db[r] > 0 => db'[r] > 0
                    /\ r.coll \in Unique => db'[r] <= 1 \/ db'[r] = db[r]

Deletes ==
  /\ pc = "clean" /\ CleanOrder[stage] \in Collection
  /\ \A r \in Row : db'[r] = db[r] \/ (db'[r] = 0 /\ r.coll = CleanOrder[stage] /\ r.num > head)

Lands(r) ==
  /\ r \in late /\ late' = late \ {r}
  /\ UNCHANGED <<head, ledger, cached, last, copy, held, pc, stage, num, endNum, ff, todo, lateSave, spent>>
  /\ \A q \in Row : /\ q # r => db'[q] = db[q]
                    /\ db[q] > 0 => db'[q] > 0
                    /\ q.coll \in Unique => db'[q] <= 1 \/ db'[q] = db[q]

LEMMA LandedOnce ==
  ASSUME TypeInv, NEW S \in SUBSET Row, db' = Landed(S)
  PROVE  \A r \in Row : /\ r \notin S => db'[r] = db[r]
                        /\ db[r] > 0 => db'[r] > 0
                        /\ r.coll \in Unique => db'[r] <= 1 \/ db'[r] = db[r]
  <1>. SUFFICES ASSUME NEW r \in Row
                PROVE  /\ r \notin S => db'[r] = db[r]
                       /\ db[r] > 0 => db'[r] > 0
                       /\ r.coll \in Unique => db'[r] <= 1 \/ db'[r] = db[r]
    OBVIOUS
  <1>1. db[r] \in 0..2
    BY RangeFacts
  <1>. QED  BY <1>1 DEF Landed, AtMost2

LEMMA CutShortRows ==
  ASSUME TypeInv, CutShort
  PROVE  db' = db \/ Inserts \/ Deletes
  <1>1. CASE InsertCutShort
    <2>1. PICK S \in SUBSET Pending(SaveOrder[stage]) : db' = Landed(S)
      BY <1>1 DEF InsertCutShort
    <2>2. S \in SUBSET Row
      BY DEF Pending
    <2>. QED  BY <1>1, <2>1, <2>2, LandedOnce DEF InsertCutShort, Inserts
  <1>2. CASE CleanCutShort
    <2>1. PICK S \in SUBSET { r \in Row : r.coll = CleanOrder[stage] /\ r.num > head } :
            db' = [r \in Row |-> IF r \in S THEN 0 ELSE db[r]]
      BY <1>2 DEF CleanCutShort
    <2>2. \A r \in Row : db'[r] = db[r] \/ (db'[r] = 0 /\ r.coll = CleanOrder[stage] /\ r.num > head)
      BY <2>1
    <2>. QED  BY <1>2, <2>2 DEF CleanCutShort, Deletes
  <1>. QED  BY <1>1, <1>2 DEF CutShort, GenesisCutShort, ProcessCutShort, SaveCutShort, RebaseCutShort

LEMMA InsertedOnce ==
  ASSUME TypeInv, InsertRows
  PROVE  /\ Inserts
         /\ \A r \in Pending(SaveOrder[stage]) :
              /\ SaveOrder[stage] \in Unique => db[r] = 0 /\ cached[r.num] = 1
              /\ db'[r] = AtMost2(db[r] + cached[r.num])
  <1>0. \A r \in Row : /\ db[r] \in 0..2 /\ cached[r.num] \in 0..2
    BY RangeFacts
  <1>1. \A r \in Row : db'[r] = IF r \in Pending(SaveOrder[stage]) THEN AtMost2(db[r] + cached[r.num])
                                                                   ELSE db[r]
    BY DEF InsertRows
  <1>2. \A r \in Pending(SaveOrder[stage]) :
          /\ r \in Row /\ r.coll = SaveOrder[stage] /\ cached[r.num] > 0
          /\ SaveOrder[stage] \in Unique => db[r] = 0 /\ cached[r.num] = 1
    BY <1>0 DEF InsertRows, Conflict, Pending
  <1>3. \A r \in Row : /\ db[r] > 0 => db'[r] > 0
                       /\ r.coll \in Unique => db'[r] <= 1 \/ db'[r] = db[r]
    BY <1>0, <1>1, <1>2 DEF AtMost2
  <1>. QED  BY <1>1, <1>2, <1>3 DEF InsertRows, Inserts

LEMMA RowsStep ==
  ASSUME TypeInv, [Next]_vars
  PROVE  db' = db \/ Inserts \/ Deletes \/ \E r \in Row : Lands(r)
  <1>. USE DEF store, cache, control
  <1>1. CASE InsertConflict \/ StepFails \/ StepKills \/ Crash
    BY <1>1, CutShortRows DEF InsertConflict, StepFails, StepKills, Crash, Recover, Die
  <1>2. CASE InsertRows
    BY <1>2, InsertedOnce
  <1>3. CASE CleanStage
    <2>1. \A r \in Row : db'[r] = db[r] \/ (db'[r] = 0 /\ r.coll = CleanOrder[stage] /\ r.num > head)
      BY <1>3 DEF CleanStage
    <2>. QED  BY <1>3, <2>1 DEF CleanStage, Deletes
  <1>4. ASSUME NEW r \in Row, Land(r)
        PROVE  Lands(r)
    <2>1. {r} \in SUBSET Row /\ db' = Landed({r})
      BY <1>4 DEF Land
    <2>. QED  BY <1>4, <2>1, LandedOnce DEF Land, Lands
  <1>5. CASE ~ (InsertConflict \/ StepFails \/ StepKills \/ Crash \/ InsertRows \/ CleanStage
                \/ \E r \in Row : Land(r))
    <2>1. CASE CleanUp \/ Start \/ Import
      BY <1>5, <2>1 DEF CleanUp, Start, Import, BeginFix, FixRow, EndFix, BeginGenesis, GenesisAccount,
         GenesisConflict, StartRound, SkipRound, FetchBlock, ProcessBlock
    <2>2. CASE SaveCache \/ Fault
      BY <1>5, <2>2 DEF SaveCache, Fault, SaveBalances, UpdateHead, Rebase, FetchNull
    <2>3. CASE Landing \/ ChainGrows \/ UNCHANGED vars
      BY <1>5, <2>3 DEF Landing, LandSave, ChainGrows, vars
    <2>. QED  BY <2>1, <2>2, <2>3 DEF Next, Program
  <1>. QED  BY <1>1, <1>2, <1>3, <1>4, <1>5

\* Faults are counted and never forgotten.
LEMMA FaultsGrow ==
  ASSUME TypeInv, [Next]_vars, NEW k \in FaultKind
  PROVE  spent[k] <= spent'[k]
  <1>. USE DEF store, cache, control
  <1>0. /\ spent \in [FaultKind -> Nat] /\ spent[k] \in Nat
        /\ {"error", "null", "crash", "late"} = FaultKind
    BY DEF TypeInv, TypeOK, FaultKind
  <1>1. ASSUME NEW faults \in [FaultKind -> Nat], Stragglers(faults)
        PROVE  faults[k] <= spent'[k] /\ spent'[k] \in Nat
    <2>1. spent' \in {faults, [faults EXCEPT !["late"] = @ + 1]}
      BY <1>1 DEF Stragglers
    <2>. QED  BY <1>0, <2>1
  <1>2. CASE InsertConflict
    BY <1>0, <1>1, <1>2 DEF InsertConflict, Recover
  <1>3. CASE StepFails
    <2>. DEFINE faults == [spent EXCEPT !["error"] = @ + 1]
    <2>1. faults \in [FaultKind -> Nat] /\ Recover(faults)
      BY <1>0, <1>3 DEF StepFails
    <2>2. Stragglers(faults)
      BY <2>1 DEF Recover
    <2>3. faults[k] <= spent'[k] /\ spent'[k] \in Nat
      <3>. HIDE DEF faults
      <3>. QED  BY <1>1, <2>1, <2>2
    <2>4. faults[k] = spent[k] \/ faults[k] = spent[k] + 1
      BY <1>0
    <2>. HIDE DEF faults
    <2>. QED  BY <1>0, <2>3, <2>4
  <1>4. CASE StepKills \/ Crash \/ FetchNull
    BY <1>0, <1>4 DEF StepKills, Crash, FetchNull, Spend
  <1>5. CASE ~ (InsertConflict \/ StepFails \/ StepKills \/ Crash \/ FetchNull)
    <2>1. UNCHANGED spent
      <3>1. CASE CleanUp \/ Start \/ Import
        BY <3>1 DEF CleanUp, Start, Import, CleanStage, BeginFix, FixRow, EndFix, BeginGenesis,
           GenesisAccount, GenesisConflict, StartRound, SkipRound, FetchBlock, ProcessBlock
      <3>2. CASE SaveCache \/ Fault
        BY <1>5, <3>2 DEF SaveCache, Fault, InsertRows, SaveBalances, UpdateHead, Rebase
      <3>3. CASE Landing \/ ChainGrows \/ UNCHANGED vars
        BY <3>3 DEF Landing, Land, LandSave, ChainGrows, vars
      <3>. QED  BY <3>1, <3>2, <3>3 DEF Next, Program
    <2>. QED  BY <1>0, <2>1
  <1>. QED  BY <1>2, <1>3, <1>4, <1>5

\* What a step may add to the stragglers: a part of what the current stage had to insert, after a
\* failure that is counted.
Straggles ==
  /\ late' \subseteq late \cup InFlight
  /\ spent'["late"] > spent["late"]
  /\ pc = "save" /\ pc' \in {"clean", "round"}
  /\ UNCHANGED <<head, cached>>
  /\ spent'["error"] > spent["error"] \/ Conflict(SaveOrder[stage])

LEMMA LateStep ==
  ASSUME TypeInv, [Next]_vars
  PROVE  late' \subseteq late \/ Straggles
  <1>. USE DEF store, cache, control, Goto
  <1>0. spent \in [FaultKind -> Nat] /\ {"error", "null", "crash", "late"} = FaultKind
    BY DEF TypeInv, TypeOK, FaultKind
  <1>1. ASSUME NEW faults \in [FaultKind -> Nat], Recover(faults), ~ (late' \subseteq late)
        PROVE  /\ late' \subseteq late \cup InFlight /\ pc = "save"
               /\ spent' = [faults EXCEPT !["late"] = @ + 1]
               /\ pc' \in {"clean", "round"}
               /\ UNCHANGED <<head, cached>>
    BY <1>1 DEF Recover, Stragglers, InFlight
  <1>2. CASE InsertConflict
    <2>1. Recover(spent) /\ Conflict(SaveOrder[stage])
      BY <1>2 DEF InsertConflict
    <2>2. [spent EXCEPT !["late"] = @ + 1]["late"] = spent["late"] + 1 /\ spent["late"] \in Nat
      BY <1>0
    <2>. QED  BY <1>0, <1>1, <2>1, <2>2 DEF Straggles
  <1>3. CASE StepFails
    <2>. DEFINE faults == [spent EXCEPT !["error"] = @ + 1]
    <2>1. faults \in [FaultKind -> Nat] /\ Recover(faults)
      BY <1>0, <1>3 DEF StepFails
    <2>2. /\ [faults EXCEPT !["late"] = @ + 1]["late"] = spent["late"] + 1
          /\ [faults EXCEPT !["late"] = @ + 1]["error"] = spent["error"] + 1
          /\ spent["late"] \in Nat /\ spent["error"] \in Nat
      BY <1>0
    <2>. HIDE DEF faults
    <2>. SUFFICES ASSUME ~ (late' \subseteq late) PROVE Straggles
      OBVIOUS
    <2>3. /\ late' \subseteq late \cup InFlight /\ pc = "save"
          /\ spent' = [faults EXCEPT !["late"] = @ + 1]
          /\ pc' \in {"clean", "round"}
          /\ UNCHANGED <<head, cached>>
      BY <1>1, <2>1
    <2>4. spent'["late"] > spent["late"] /\ spent'["error"] > spent["error"]
      BY <2>2, <2>3
    <2>. QED  BY <2>3, <2>4 DEF Straggles
  <1>4. CASE ~ (InsertConflict \/ StepFails)
    <2>1. CASE CleanUp \/ Start \/ Import
      BY <2>1 DEF CleanUp, Start, Import, CleanStage, BeginFix, FixRow, EndFix, BeginGenesis,
         GenesisAccount, GenesisConflict, StartRound, SkipRound, FetchBlock, ProcessBlock
    <2>2. CASE SaveCache \/ Fault
      BY <1>4, <2>2 DEF SaveCache, Fault, InsertRows, SaveBalances, UpdateHead, Rebase, FetchNull,
         StepKills, Crash, Die
    <2>3. CASE Landing \/ ChainGrows \/ UNCHANGED vars
      BY <2>3 DEF Landing, Land, LandSave, ChainGrows, vars
    <2>. QED  BY <2>1, <2>2, <2>3 DEF Next, Program
  <1>. QED  BY <1>2, <1>3, <1>4
-----------------------------------------------------------------------------
(* Whole blocks. *)

\* Only the cleanup removes rows.
LEMMA RowsKept ==
  ASSUME TypeInv, [Next]_vars, pc # "clean"
  PROVE  \A r \in Row : db[r] > 0 => db'[r] > 0
  BY RowsStep DEF Inserts, Deletes, Lands

\* The cleanup moves forward one collection at a time.
LEMMA SweepStep ==
  ASSUME TypeInv, [Next]_vars, pc' \in {"clean", "fix"}, stage' > 1
  PROVE  /\ pc \in {"clean", "fix"} /\ UNCHANGED <<head, cached>>
         /\ stage' = stage \/ (stage' = stage + 1 /\ (CleanStage \/ stage > 11))
  <1>. USE DEF store, cache, control, Goto
  <1>1. CASE CleanUp
    BY <1>1 DEF CleanUp, CleanStage, BeginFix, FixRow, EndFix, TypeInv, ControlInv
  <1>2. CASE Start \/ Import \/ SaveCache \/ Fault
    BY <1>2 DEF Start, Import, BeginGenesis, GenesisAccount, GenesisConflict, StartRound, SkipRound,
       FetchBlock, ProcessBlock, NextNum, SaveCache, InsertRows, InsertConflict, SaveBalances,
       UpdateHead, Rebase, Fault, FetchNull, StepFails, StepKills, Crash, Recover, Die
  <1>3. CASE Landing \/ ChainGrows \/ UNCHANGED vars
    BY <1>3 DEF Landing, Land, LandSave, ChainGrows, vars
  <1>. QED  BY <1>1, <1>2, <1>3 DEF Next, Program

WholeInv == \A r \in Row : BlockStored(r.num) => db[r] > 0

\* Once the block rows have been removed, no block is left above the head.
SweepInv == pc \in {"clean", "fix"} /\ stage > 1 => \A n \in Block : BlockStored(n) => n <= head

TornInv == NoStraggler => late = {} /\ WholeInv /\ SweepInv

LEMMA StepTorn ==
  ASSUME TypeInv, RefInv, TornInv, [Next]_vars
  PROVE  TornInv'
  <1>. SUFFICES ASSUME NoStraggler'
                PROVE  (late = {} /\ WholeInv /\ SweepInv)'
    BY DEF TornInv
  <1>0. /\ stage \in 1..16 /\ head \in Int
        /\ \A r \in Row : /\ r.num \in Block /\ r.num \in Int /\ r.coll \in Collection
                          /\ BlockRow(r.num) \in Row /\ BlockRow(r.num).num = r.num
                          /\ BlockRow(r.num).coll = "block"
                          /\ r.coll = "block" => r = BlockRow(r.num)
    BY RangeFacts, BoundFacts, PosSyncAssumption DEF TypeInv, BlockRow
  <1>1. spent["late"] = 0 /\ NoStraggler
    <2>1. "late" \in FaultKind /\ spent["late"] \in Nat
      BY DEF FaultKind, TypeInv, TypeOK
    <2>2. spent["late"] <= spent'["late"]
      BY <2>1, FaultsGrow
    <2>. QED  BY <2>1, <2>2 DEF NoStraggler
  <1>2. late = {} /\ WholeInv /\ SweepInv
    BY <1>1 DEF TornInv
  <1>3. late' = {}
    BY <1>1, <1>2, LateStep DEF Straggles, NoStraggler
  <1>4. db' = db \/ Inserts \/ Deletes
    BY <1>2, RowsStep DEF Lands
  <1>5. WholeInv'
    <2>1. CASE db' = db
      BY <1>2, <2>1 DEF WholeInv, BlockStored
    <2>2. CASE Inserts
      <3>. SUFFICES ASSUME NEW r \in Row, db'[BlockRow(r.num)] > 0
                    PROVE  db'[r] > 0
        BY DEF WholeInv, BlockStored
      <3>1. CASE BlockStored(r.num)
        BY <1>2, <2>2, <3>1 DEF Inserts, WholeInv
      <3>2. CASE ~ BlockStored(r.num)
        <4>1. /\ BlockRow(r.num) \in Pending(SaveOrder[stage])
              /\ pc = "save" /\ SaveOrder[stage] = "block" /\ cached[r.num] > 0
          BY <1>0, <2>2, <3>2 DEF Inserts, BlockStored, Pending
        <4>2. stage = 14
          BY <1>0, <4>1 DEF SaveOrder
        <4>3. CASE r.coll = "block"
          BY <1>0, <4>3
        <4>4. CASE r.coll # "block"
          <5>1. PICK i \in 1..14 : SaveOrder[i] = r.coll
            BY <1>0, OrderFacts
          <5>2. i \in 1..(stage - 1)
            BY <4>1, <4>2, <4>4, <5>1
          <5>3. db[r] > 0
            BY <4>1, <5>1, <5>2 DEF RefInv, StageInv
          <5>. QED  BY <2>2, <5>3 DEF Inserts
        <4>. QED  BY <4>3, <4>4
      <3>. QED  BY <3>1, <3>2
    <2>3. CASE Deletes
      <3>. SUFFICES ASSUME NEW r \in Row, db'[BlockRow(r.num)] > 0
                    PROVE  db'[r] > 0
        BY DEF WholeInv, BlockStored
      <3>1. BlockStored(r.num) /\ db[r] > 0
        BY <1>0, <1>2, <2>3 DEF Deletes, BlockStored, WholeInv
      <3>2. ASSUME db'[r] # db[r] PROVE FALSE
        <4>1. pc = "clean" /\ r.coll = CleanOrder[stage] /\ r.num > head /\ db'[r] = 0
          BY <2>3, <3>2 DEF Deletes
        <4>2. CASE stage = 1
          BY <1>0, <4>1, <4>2 DEF CleanOrder
        <4>3. CASE stage > 1
          BY <1>0, <1>2, <3>1, <4>1, <4>3 DEF SweepInv
        <4>. QED  BY <1>0, <4>2, <4>3
      <3>. QED  BY <3>1, <3>2
    <2>. QED  BY <1>4, <2>1, <2>2, <2>3
  <1>6. SweepInv'
    <2>. SUFFICES ASSUME pc' \in {"clean", "fix"}, stage' > 1, NEW n \in Block, db'[BlockRow(n)] > 0
                  PROVE  n <= head'
      BY DEF SweepInv, BlockStored
    <2>0. n \in Int /\ BlockRow(n) \in Row /\ BlockRow(n).num = n /\ BlockRow(n).coll = "block"
      BY RangeFacts, BoundFacts, PosSyncAssumption DEF TypeInv, BlockRow
    <2>1. /\ pc \in {"clean", "fix"} /\ head' = head
          /\ stage' = stage \/ (stage' = stage + 1 /\ (CleanStage \/ stage > 11))
      BY SweepStep
    <2>2. BlockStored(n)
      BY <1>4, <2>0, <2>1 DEF Inserts, Deletes, BlockStored
    <2>3. CASE stage > 1
      BY <1>2, <2>1, <2>2, <2>3 DEF SweepInv
    <2>4. CASE stage = 1
      BY <1>0, <2>0, <2>1, <2>4 DEF CleanStage, CleanOrder
    <2>. QED  BY <1>0, <2>3, <2>4
  <1>. QED  BY <1>3, <1>5, <1>6

\* As long as no write comes late, a block row is never seen without what the block contains: whatever
\* crashes and errors cut a save or a cleanup short, and whatever the node answers.
THEOREM BlocksAreWhole == Spec => []NoTornBlock
  <1>. DEFINE Inv == TypeInv /\ RefInv /\ TornInv
  <1>1. Init => Inv
    <2>. SUFFICES ASSUME Init PROVE Inv
      OBVIOUS
    <2>1. TypeInv /\ RefInv
      BY InitTypeInv, InitRef
    <2>2. \A r \in Row : BlockRow(r.num) \in Row /\ BlockRow(r.num).num = r.num
      BY PosSyncAssumption DEF BlockRow
    <2>3. WholeInv /\ SweepInv
      BY <2>2 DEF Init, WholeInv, BlockStored, SweepInv
    <2>. QED  BY <2>1, <2>3 DEF Init, TornInv
  <1>2. Inv /\ [Next]_vars => Inv'
    BY ProgramType, OtherType, StepRef, StepTorn DEF Next
  <1>3. Inv => NoTornBlock
    BY DEF NoTornBlock, TornInv, WholeInv, BlockStored, Stored
  <1>. QED  BY <1>1, <1>2, <1>3, PTL DEF Spec
-----------------------------------------------------------------------------
(* Where the process can come from. *)

LEMMA EnterGenesis ==
  ASSUME [Next]_vars, pc' = "genesis"
  PROVE  \/ pc = "round" /\ todo' = Prealloc /\ UNCHANGED <<head, ledger>>
         \/ pc = "genesis" /\ todo' = todo
         \/ pc = "genesis" /\ \E a \in todo : /\ ledger[a].at = -1 /\ todo' = todo \ {a}
                                              /\ ledger' = [ledger EXCEPT ![a] = [bal |-> Chain[a][0], at |-> 0]]
  <1>. USE DEF store, cache, control, Goto
  <1>1. CASE Start \/ CleanUp \/ SaveCache \/ Fault
    BY <1>1 DEF Start, CleanUp, CleanStage, BeginFix, FixRow, EndFix, SaveCache, InsertRows,
       InsertConflict, SaveBalances, UpdateHead, Rebase, NextNum, Fault, FetchNull, StepFails,
       StepKills, Crash, Recover, Die
  <1>2. CASE Import
    BY <1>2 DEF Import, BeginGenesis, GenesisAccount, GenesisConflict, StartRound, SkipRound,
       FetchBlock, ProcessBlock, NextNum
  <1>3. CASE Landing \/ ChainGrows \/ UNCHANGED vars
    BY <1>3 DEF Landing, Land, LandSave, ChainGrows, vars
  <1>. QED  BY <1>1, <1>2, <1>3 DEF Next, Program

\* The part of a round that works on blocks.
InRound == pc \in {"fetch", "process", "save"}

LEMMA EnterRound ==
  ASSUME TypeInv, [Next]_vars, InRound', ~ InRound
  PROVE  ReadyForRound /\ pc' = "fetch" /\ UNCHANGED <<head, db, ledger, cached, late>>
  <1>. USE DEF store, cache, control, Goto, InRound
  <1>1. CASE RoundStep \/ FetchNull
    BY <1>1 DEF RoundStep, StartRound, FetchBlock, FetchNull, ProcessBlock, InsertRows,
       SaveBalances, UpdateHead, Rebase
  <1>2. CASE ~ RoundStep /\ ~ FetchNull
    BY <1>2, OtherAside DEF Aside
  <1>. QED  BY <1>1, <1>2

\* Within a round only the process itself moves on.
LEMMA OutsideRound ==
  ASSUME TypeInv, [Next]_vars, ~ InRound
  PROVE  head' = head /\ (cached' = cached \/ \A n \in Block : cached'[n] = 0)
  <1>1. CASE RoundStep \/ FetchNull
    BY <1>1 DEF RoundStep, StartRound, FetchBlock, FetchNull, ProcessBlock, InsertRows,
       SaveBalances, UpdateHead, Rebase, InRound, store, cache
  <1>2. CASE ~ RoundStep /\ ~ FetchNull
    BY <1>2, OtherAside DEF Aside
  <1>. QED  BY <1>1, <1>2

\* The head never goes back, nor away.
LEMMA HeadStays ==
  ASSUME TypeInv, RefInv, [Next]_vars, head' = -1
  PROVE  head = -1
  <1>1. CASE UpdateHead
    BY <1>1, RangeFacts DEF UpdateHead, RefInv, LastInv
  <1>2. CASE ~ UpdateHead
    BY <1>2, HeadMoves
  <1>. QED  BY <1>1, <1>2
-----------------------------------------------------------------------------
(* The accounts of the genesis: once there, they stay. *)

\* A cached document has been updated in a block.
HeldInv ==
  /\ \A a \in held : copy[a].at >= 0
  /\ lateSave \subseteq held
  /\ pc = "genesis" \/ InRound => lateSave = {}

LEMMA HeldStep ==
  ASSUME TypeInv, HeldInv, [Next]_vars
  PROVE  HeldInv'
  <1>. USE DEF store, cache, control, Goto, InRound
  <1>1. CASE ProcessBlock
    <2>1. num >= 0 /\ \A a \in BalanceRow : a \in held' =>
            \/ copy'[a].at = num
            \/ a \in held /\ copy'[a] = copy[a]
      BY <1>1, RangeFacts DEF ProcessBlock
    <2>2. held \subseteq BalanceRow /\ held' \subseteq BalanceRow
      BY <1>1 DEF ProcessBlock, TypeInv, TypeOK
    <2>3. lateSave' = {}
      BY <1>1 DEF ProcessBlock, HeldInv
    <2>. QED  BY <2>1, <2>2, <2>3 DEF HeldInv
  <1>2. CASE InsertConflict \/ StepFails
    <2>1. PICK faults : Recover(faults)
      BY <1>2 DEF InsertConflict, StepFails
    <2>2. lateSave' \subseteq lateSave \cup held /\ UNCHANGED <<copy, held>> /\ pc' \in {"round", "clean"}
      BY <2>1 DEF Recover, Stragglers, InFlightSaves, Unsaved, TypeInv, TypeOK
    <2>. QED  BY <2>2 DEF HeldInv
  <1>3. CASE StepKills \/ Crash \/ Rebase
    <2>1. held' = {} /\ lateSave' = {}
      BY <1>3 DEF StepKills, Crash, Die, Rebase, EmptyCache, HeldInv
    <2>. QED  BY <2>1 DEF HeldInv
  <1>4. CASE ~ (ProcessBlock \/ InsertConflict \/ StepFails \/ StepKills \/ Crash \/ Rebase)
    <2>1. UNCHANGED <<copy, held>> /\ lateSave' \subseteq lateSave
      BY <1>4 DEF Next, Program, Start, CleanUp, CleanStage, BeginFix, FixRow, EndFix, Import,
         BeginGenesis, GenesisAccount, GenesisConflict, StartRound, SkipRound, FetchBlock, SaveCache,
         InsertRows, SaveBalances, UpdateHead, Fault, FetchNull, Landing, Land, LandSave, ChainGrows, vars
    <2>2. ASSUME pc' = "genesis" \/ InRound'
          PROVE  lateSave = {}
      <3>1. CASE pc' = "genesis"
        <4>1. CASE pc = "genesis"
          BY <4>1 DEF HeldInv
        <4>2. CASE pc # "genesis"
          BY <1>4, <3>1, <4>2 DEF Next, Program, Start, CleanUp, CleanStage, BeginFix, FixRow, EndFix,
             Import, BeginGenesis, GenesisAccount, GenesisConflict, StartRound, SkipRound, FetchBlock,
             SaveCache, InsertRows, SaveBalances, UpdateHead, Fault, FetchNull, NextNum, Landing, Land,
             LandSave, ChainGrows, vars
        <4>. QED  BY <4>1, <4>2
      <3>2. CASE InRound'
        BY <3>2, EnterRound DEF ReadyForRound, HeldInv
      <3>. QED  BY <2>2, <3>1, <3>2
    <2>. QED  BY <2>1, <2>2 DEF HeldInv
  <1>. QED  BY <1>1, <1>2, <1>3, <1>4

LEMMA SavedStays ==
  ASSUME HeldInv, NEW S \in SUBSET held, NEW a \in Account, ledger[a].at # -1
  PROVE  Saved(S)[a].at # -1
  <1>1. a \in BalanceRow /\ a \notin TokenBalance
    BY PosSyncAssumption DEF BalanceRow
  <1>2. a \in S => copy[a].at # -1
    BY DEF HeldInv
  <1>. QED  BY <1>1, <1>2 DEF Saved, Written

LEMMA AccountsStay ==
  ASSUME TypeInv, HeldInv, [Next]_vars, NEW a \in Account, ledger[a].at # -1
  PROVE  ledger'[a].at # -1
  <1>. USE DEF store, cache, control
  <1>0. /\ a \in BalanceRow /\ a \notin TokenBalance
        /\ ledger \in [BalanceRow -> BalanceDoc] /\ head \in -1..MaxBlock
        /\ dirty \subseteq held /\ held \subseteq BalanceRow
    BY RangeFacts, PosSyncAssumption DEF BalanceRow, TypeInv, TypeOK, BalanceDoc
  <1>1. ASSUME CutShort PROVE ledger'[a].at # -1
    <2>1. CASE GenesisCutShort
      BY <1>0, <2>1 DEF GenesisCutShort, Created
    <2>2. CASE ProcessCutShort
      BY <1>0, <2>2 DEF ProcessCutShort, Created, Missing
    <2>3. CASE SaveCutShort
      <3>1. PICK S \in SUBSET (dirty \cap HeldOf(SaveOrder[stage])) : ledger' = Saved(S)
        BY <2>3 DEF SaveCutShort
      <3>2. S \in SUBSET held
        BY <1>0
      <3>. QED  BY <3>1, <3>2, SavedStays
    <2>4. CASE RebaseCutShort
      BY <1>0, <2>4 DEF RebaseCutShort, Rebased
    <2>5. CASE UNCHANGED ledger
      BY <2>5
    <2>. QED  BY <1>1, <2>1, <2>2, <2>3, <2>4, <2>5 DEF CutShort, InsertCutShort, CleanCutShort
  <1>2. CASE InsertConflict \/ StepFails \/ StepKills \/ Crash
    BY <1>1, <1>2 DEF InsertConflict, StepFails, StepKills, Crash, Recover, Die
  <1>3. ASSUME NEW b \in BalanceRow, FixRow(b) PROVE ledger'[a].at # -1
    <2>1. head # -1
      BY <1>3 DEF FixRow, TypeInv, ControlInv
    <2>. QED  BY <1>0, <1>3, <2>1 DEF FixRow
  <1>4. ASSUME NEW b \in BalanceRow, GenesisAccount(b) PROVE ledger'[a].at # -1
    BY <1>0, <1>4 DEF GenesisAccount
  <1>5. CASE ProcessBlock
    BY <1>0, <1>5 DEF ProcessBlock, Created, Missing
  <1>6. CASE SaveBalances
    <2>1. dirty \cap HeldOf(SaveOrder[stage]) \in SUBSET held
      BY <1>0
    <2>. QED  BY <1>6, <2>1, SavedStays DEF SaveBalances
  <1>7. CASE Rebase
    BY <1>0, <1>7 DEF Rebase, Rebased
  <1>8. ASSUME NEW b \in BalanceRow, LandSave(b) PROVE ledger'[a].at # -1
    <2>1. {b} \in SUBSET held
      BY <1>8 DEF LandSave, HeldInv
    <2>. QED  BY <1>8, <2>1, SavedStays DEF LandSave
  <1>9. CASE UNCHANGED ledger
    BY <1>9
  <1>10. \/ UNCHANGED ledger
         \/ InsertConflict \/ StepFails \/ StepKills \/ Crash \/ ProcessBlock \/ SaveBalances \/ Rebase
         \/ \E b \in BalanceRow : FixRow(b) \/ GenesisAccount(b) \/ LandSave(b)
    BY DEF Next, Program, Start, CleanUp, CleanStage, BeginFix, EndFix, Import, BeginGenesis,
       GenesisConflict, StartRound, SkipRound, FetchBlock, SaveCache, InsertRows, UpdateHead, Fault,
       FetchNull, Landing, Land, ChainGrows, vars
  <1>. QED  BY <1>2, <1>3, <1>4, <1>5, <1>6, <1>7, <1>8, <1>9, <1>10

Committee == { r \in Row : r.coll = "committee" }

\* An account left behind by an incomplete genesis stops every later one.
Blocked == \/ pc \in {"down", "round"} /\ \E a \in Prealloc : ledger[a].at # -1
           \/ pc = "genesis" /\ \E a \in todo : ledger[a].at # -1

\* No import has come as far as a committee.
Untouched == /\ late \cap Committee = {}
             /\ \A r \in Committee : db[r] = 0
             /\ \A n \in Block : cached[n] = 0

\* Without a head nothing is cleaned up, yet the first batch is not begun a second time: the accounts
\* of the genesis are there.
FirstInv ==
  /\ head = -1 /\ pc \in {"down", "round", "genesis"} => Blocked \/ Untouched
  /\ pc = "genesis" => todo \subseteq Prealloc /\ \A a \in Prealloc \ todo : ledger[a].at # -1
  /\ head = -1 /\ InRound => \A a \in Prealloc : ledger[a].at # -1

LEMMA FirstStep ==
  ASSUME Prealloc # {}, TypeInv, RefInv, HeldInv, FirstInv, [Next]_vars
  PROVE  FirstInv'
  <1>0. \A a \in Prealloc : ledger[a].at # -1 => ledger'[a].at # -1
    BY AccountsStay, PosSyncAssumption
  <1>1. ASSUME head' = -1, pc' \in {"down", "round", "genesis"}
        PROVE  (Blocked \/ Untouched)'
    <2>1. head = -1 /\ pc \notin {"clean", "fix"}
      BY <1>1, HeadStays DEF TypeInv, ControlInv
    <2>2. CASE InRound
      <3>1. pc' # "genesis"
        BY <2>2, EnterGenesis DEF InRound
      <3>. QED  BY <1>0, <1>1, <2>1, <2>2, <3>1 DEF FirstInv, Blocked
    <2>3. CASE ~ InRound /\ Untouched
      <3>1. \A n \in Block : cached'[n] = 0
        BY <2>3, OutsideRound DEF Untouched
      <3>2. late' \cap Committee = {}
        BY <2>3, LateStep DEF InRound, Straggles, Untouched
      <3>3. \A r \in Committee : db'[r] = 0
        BY <2>1, <2>3, RowsStep DEF Inserts, Deletes, Lands, InRound, Untouched, Committee
      <3>. QED  BY <3>1, <3>2, <3>3 DEF Untouched
    <2>4. CASE ~ InRound /\ Blocked
      <3>1. \E a \in Prealloc : ledger[a].at # -1
        BY <2>4 DEF Blocked, FirstInv
      <3>2. CASE pc' # "genesis"
        BY <1>0, <1>1, <3>1, <3>2 DEF Blocked
      <3>3. CASE pc' = "genesis"
        <4>1. \E a \in todo' : ledger[a].at # -1
          BY <2>4, <3>1, <3>3, EnterGenesis DEF Blocked
        <4>2. todo' \subseteq Prealloc
          BY <3>3, EnterGenesis DEF FirstInv
        <4>. QED  BY <1>0, <3>3, <4>1, <4>2 DEF Blocked
      <3>. QED  BY <3>2, <3>3
    <2>5. pc \in {"down", "round", "genesis"} \/ InRound
      BY <2>1 DEF TypeInv, TypeOK, InRound
    <2>. QED  BY <2>1, <2>2, <2>3, <2>4, <2>5 DEF FirstInv
  <1>2. ASSUME pc' = "genesis"
        PROVE  todo' \subseteq Prealloc /\ \A a \in Prealloc \ todo' : ledger'[a].at # -1
    <2>1. CASE pc = "round" /\ todo' = Prealloc
      BY <2>1
    <2>2. CASE pc = "genesis" /\ todo' = todo
      BY <1>0, <2>2 DEF FirstInv
    <2>3. CASE pc = "genesis" /\ \E a \in todo : todo' = todo \ {a}
                 /\ ledger' = [ledger EXCEPT ![a] = [bal |-> Chain[a][0], at |-> 0]]
      <3>1. PICK a \in todo : todo' = todo \ {a}
                 /\ ledger' = [ledger EXCEPT ![a] = [bal |-> Chain[a][0], at |-> 0]]
        BY <2>3
      <3>2. ledger'[a].at = 0
        <4>1. a \in BalanceRow /\ ledger \in [BalanceRow -> BalanceDoc]
          BY DEF TypeInv, TypeOK, BalanceDoc
        <4>. QED  BY <3>1, <4>1
      <3>. QED  BY <1>0, <2>3, <3>1, <3>2 DEF FirstInv
    <2>. QED  BY <1>2, <2>1, <2>2, <2>3, EnterGenesis
  <1>3. ASSUME head' = -1, InRound'
        PROVE  \A a \in Prealloc : ledger'[a].at # -1
    <2>1. head = -1
      BY <1>3, HeadStays
    <2>2. CASE InRound
      BY <1>0, <2>1, <2>2 DEF FirstInv
    <2>3. CASE ~ InRound
      <3>1. pc = "genesis" /\ todo = {}
        BY <1>3, <2>1, <2>3, EnterRound DEF ReadyForRound
      <3>. QED  BY <1>0, <3>1 DEF FirstInv
    <2>. QED  BY <2>2, <2>3
  <1>. QED  BY <1>1, <1>2, <1>3 DEF FirstInv
-----------------------------------------------------------------------------
(* The committees above the head. *)

\* The committee is not there, or it is there once, and the block after it.
Single(r) == db[r] = 0 \/ (db[r] = 1 /\ BlockStored(r.num))

\* Nothing has been inserted since the cleanup passed the committees, or all of it.
Settled == \/ pc \in {"round", "genesis"} /\ head # -1
           \/ pc \in {"fetch", "process"}
           \/ pc = "save" /\ stage \notin 6..14
           \/ pc \in {"clean", "fix"} /\ stage > 5

Swept ==
  /\ late \cap Committee = {}
  /\ Settled => \A r \in Committee : r.num > head => Single(r)
  /\ pc = "save" /\ stage \in 6..14 =>
       \A r \in Committee : r.num > head =>
         IF cached[r.num] = 0 THEN Single(r) ELSE BlockStored(r.num) \/ db[r] = cached[r.num]

\* The types the steps below go by.
LEMMA CommitteeFacts ==
  ASSUME TypeInv, NEW r \in Committee
  PROVE  /\ r \in Row /\ r.coll = "committee" /\ r.num \in Block /\ r.num \in Int
         /\ BlockRow(r.num) \in Row /\ BlockRow(r.num).num = r.num
         /\ BlockRow(r.num).coll = "block" /\ BlockRow(r.num) \notin Committee
         /\ db[r] \in 0..2 /\ db[BlockRow(r.num)] \in 0..2 /\ cached[r.num] \in 0..2
  <1>1. r \in Row /\ r.coll = "committee" /\ r.num \in Block /\ r.num \in Int
    BY RangeFacts DEF Committee
  <1>2. /\ BlockRow(r.num) \in Row /\ BlockRow(r.num).num = r.num /\ BlockRow(r.num).coll = "block"
    BY <1>1, PosSyncAssumption DEF BlockRow
  <1>. QED  BY <1>1, <1>2, RangeFacts DEF Committee

\* A step that leaves the committees and the head alone.
LEMMA SameCommittees ==
  ASSUME TypeInv, NEW r \in Committee, r.num > head => Single(r), head' = head,
         db'[r] = db[r], BlockStored(r.num) => BlockStored(r.num)'
  PROVE  r.num > head' => Single(r)'
  BY DEF Single

LEMMA SweptInsert ==
  ASSUME TypeInv, RefInv, Swept, InsertRows
  PROVE  Swept'
  <1>. USE DEF cache
  <1>0. /\ pc = "save" /\ pc' = "save" /\ stage' = stage + 1 /\ stage \in 1..14
        /\ UNCHANGED <<head, late, cached>>
    BY RangeFacts, StageFacts DEF InsertRows
  <1>1. ASSUME NEW r \in Committee, r.num > head
        PROVE  /\ stage' \notin 6..14 => Single(r)'
               /\ stage' \in 6..14 => IF cached[r.num] = 0 THEN Single(r)'
                                      ELSE BlockStored(r.num)' \/ db'[r] = cached[r.num]
    <2>. DEFINE b == BlockRow(r.num)
    <2>0. /\ r \in Row /\ r.coll = "committee" /\ b \in Row /\ b.coll = "block" /\ b.num = r.num
          /\ db[r] \in 0..2 /\ db[b] \in 0..2 /\ cached[r.num] \in 0..2
      BY CommitteeFacts
    <2>. HIDE DEF b
    <2>1. /\ r \in Pending(SaveOrder[stage]) <=> stage = 5 /\ cached[r.num] > 0
          /\ b \in Pending(SaveOrder[stage]) <=> stage = 14 /\ cached[r.num] > 0
      BY <1>0, <2>0 DEF Pending, SaveOrder
    <2>2. /\ db'[r] = IF stage = 5 /\ cached[r.num] > 0 THEN AtMost2(db[r] + cached[r.num]) ELSE db[r]
          /\ db'[b] = IF stage = 14 /\ cached[r.num] > 0 THEN AtMost2(db[b] + cached[r.num]) ELSE db[b]
      BY <2>0, <2>1 DEF InsertRows
    <2>3. Single(r)' <=> db'[r] = 0 \/ (db'[r] = 1 /\ db'[b] > 0)
      BY DEF Single, BlockStored, b
    <2>4. Single(r) <=> db[r] = 0 \/ (db[r] = 1 /\ db[b] > 0)
      BY DEF Single, BlockStored, b
    <2>5. (BlockStored(r.num) <=> db[b] > 0) /\ (BlockStored(r.num)' <=> db'[b] > 0)
      BY DEF BlockStored, b
    <2>6. CASE stage \in 1..4
      <3>1. Single(r)
        BY <1>0, <1>1, <2>6 DEF Swept, Settled
      <3>. QED  BY <1>0, <2>2, <2>3, <2>4, <2>6, <3>1
    <2>7. CASE stage = 5
      <3>1. Single(r)
        BY <1>0, <1>1, <2>7 DEF Swept, Settled
      <3>. QED  BY <1>0, <2>0, <2>2, <2>3, <2>4, <2>5, <2>7, <3>1 DEF AtMost2
    <2>8. CASE stage \in 6..14
      <3>1. IF cached[r.num] = 0 THEN Single(r) ELSE db[b] > 0 \/ db[r] = cached[r.num]
        BY <1>0, <1>1, <2>5, <2>8 DEF Swept
      <3>2. CASE stage # 14
        BY <1>0, <2>2, <2>3, <2>4, <2>5, <2>8, <3>1, <3>2
      <3>3. CASE stage = 14 /\ cached[r.num] = 0
        BY <1>0, <2>0, <2>2, <2>3, <2>4, <3>1, <3>3
      <3>4. CASE stage = 14 /\ cached[r.num] > 0
        <4>1. b \in Pending(SaveOrder[stage]) /\ SaveOrder[stage] \in Unique
          BY <2>1, <3>4 DEF SaveOrder, Unique, Collection
        <4>2. db[b] = 0 /\ cached[r.num] = 1
          BY <2>0, <4>1, InsertedOnce
        <4>. QED  BY <1>0, <2>0, <2>2, <2>3, <3>1, <3>4, <4>2 DEF AtMost2
      <3>. QED  BY <2>0, <3>2, <3>3, <3>4
    <2>. QED  BY <1>0, <2>6, <2>7, <2>8
  <1>. QED  BY <1>0, <1>1 DEF Swept, Settled

LEMMA SweptStep ==
  ASSUME TypeInv, RefInv, FirstInv, Swept, [Next]_vars, late' \cap Committee = {}
  PROVE  Swept'
  <1>. USE DEF store, cache, control, Goto
  <1>0. stage \in 1..16 /\ head \in -1..MaxBlock
    BY RangeFacts
  <1>1. CASE InsertRows
    BY <1>1, SweptInsert
  <1>2. CASE SaveBalances
    BY <1>0, <1>2, StageFacts DEF SaveBalances, Swept, Settled, SaveOrder, Single, BlockStored
  <1>3. CASE UpdateHead
    <2>1. stage = 15 /\ pc = "save" /\ pc' = "save" /\ stage' = 16 /\ UNCHANGED <<db, cached>>
      BY <1>0, <1>3, StageFacts DEF UpdateHead
    <2>2. head' >= head /\ head' \in Int
      <3>1. CASE AnyCached
        BY <1>0, <1>3, <2>1, <3>1, RangeFacts DEF UpdateHead, RefInv, LastInv, FreshInv
      <3>2. CASE ~ AnyCached
        BY <1>0, <1>3, <3>2 DEF UpdateHead
      <3>. QED  BY <3>1, <3>2
    <2>3. ASSUME NEW r \in Committee, r.num > head' PROVE Single(r)'
      <3>1. r.num > head
        BY <1>0, <2>2, <2>3, CommitteeFacts
      <3>. QED  BY <2>1, <3>1 DEF Swept, Settled, Single, BlockStored
    <2>. QED  BY <2>1, <2>3 DEF Swept
  <1>4. CASE FetchBlock \/ FetchNull \/ ProcessBlock \/ Rebase
    <2>1. /\ UNCHANGED <<head, db>> /\ Settled
          /\ pc' # "save" \/ stage' = 1
      BY <1>0, <1>4, StageFacts DEF FetchBlock, FetchNull, ProcessBlock, Rebase, NextNum, Settled
    <2>. QED  BY <2>1 DEF Swept, Single, BlockStored
  <1>5. CASE StartRound
    <2>1. UNCHANGED <<head, db>> /\ pc' = "fetch" /\ ReadyForRound
      BY <1>5 DEF StartRound
    <2>2. CASE head # -1
      BY <2>1, <2>2 DEF ReadyForRound, Swept, Settled, Single, BlockStored
    <2>3. CASE head = -1
      <3>1. pc = "genesis" /\ todo = {}
        BY <2>1, <2>3 DEF ReadyForRound
      <3>2. Untouched
        BY <2>3, <3>1 DEF FirstInv, Blocked
      <3>. QED  BY <2>1, <3>2 DEF Untouched, Swept, Single
    <2>. QED  BY <2>2, <2>3
  <1>6. CASE CleanStage
    <2>1. /\ pc = "clean" /\ pc' = "clean" /\ stage \in 1..11 /\ stage' = stage + 1 /\ head' = head
      BY <1>0, <1>6, StageFacts, OrderFacts DEF CleanStage, TypeInv, ControlInv
    <2>2. ASSUME stage' > 5, NEW r \in Committee, r.num > head PROVE Single(r)'
      <3>1. r \in Row /\ r.coll = "committee" /\ BlockRow(r.num) \in Row /\ BlockRow(r.num).coll = "block"
        BY CommitteeFacts
      <3>2. CASE stage = 5
        BY <1>6, <2>2, <3>1, <3>2 DEF CleanStage, CleanOrder, Single
      <3>3. CASE stage > 5
        <4>1. CleanOrder[stage] \notin {"committee", "block"}
          BY <2>1, <3>3 DEF CleanOrder
        <4>2. db'[r] = db[r] /\ db'[BlockRow(r.num)] = db[BlockRow(r.num)]
          BY <1>6, <3>1, <4>1 DEF CleanStage
        <4>. QED  BY <2>1, <2>2, <3>3, <4>2 DEF Swept, Settled, Single, BlockStored
      <3>. QED  BY <1>0, <2>1, <2>2, <3>2, <3>3
    <2>. QED  BY <2>1, <2>2 DEF Swept, Settled
  <1>7. CASE BeginFix \/ EndFix \/ \E a \in BalanceRow : FixRow(a)
    <2>1. /\ UNCHANGED <<head, db>> /\ head # -1 /\ pc' \in {"clean", "fix", "round"}
          /\ pc \in {"clean", "fix"} /\ stage > 5
      BY <1>0, <1>7, StageFacts, OrderFacts DEF BeginFix, EndFix, FixRow, TypeInv, ControlInv
    <2>. QED  BY <2>1 DEF Swept, Settled, Single, BlockStored
  <1>8. CASE \/ BeginGenesis \/ SkipRound
             \/ \E a \in BalanceRow : GenesisAccount(a) \/ GenesisConflict(a)
    <2>1. /\ UNCHANGED <<head, db>> /\ pc \in {"round", "genesis"} /\ pc' \in {"round", "genesis"}
      BY <1>8 DEF BeginGenesis, SkipRound, ReadyForRound, GenesisAccount, GenesisConflict
    <2>. QED  BY <2>1 DEF Swept, Settled, Single, BlockStored
  <1>9. CASE Start \/ InsertConflict \/ StepFails \/ StepKills \/ Crash
    <2>1. ~ Settled' /\ pc' # "save"
      BY <1>9 DEF Start, InsertConflict, StepFails, StepKills, Crash, Recover, Die, Settled
    <2>. QED  BY <2>1 DEF Swept
  <1>10. CASE Landing \/ ChainGrows \/ UNCHANGED vars
    <2>1. UNCHANGED <<head, cached, pc, stage>>
      BY <1>10 DEF Landing, Land, LandSave, ChainGrows, vars
    <2>2. db' = db \/ \E r \in Row : Lands(r)
      <3>1. CASE \E r \in Row : Land(r)
        <4>1. PICK r \in Row : Land(r)
          BY <3>1
        <4>2. {r} \in SUBSET Row /\ db' = Landed({r})
          BY <4>1 DEF Land
        <4>. QED  BY <4>1, <4>2, LandedOnce DEF Land, Lands
      <3>. QED  BY <1>10, <3>1 DEF Landing, LandSave, ChainGrows, vars
    <2>3. ASSUME NEW r \in Committee
          PROVE  db'[r] = db[r] /\ (BlockStored(r.num) => BlockStored(r.num)')
      BY <2>2, CommitteeFacts DEF Lands, Swept, Committee, BlockStored
    <2>. QED  BY <2>1, <2>3 DEF Swept, Settled, Single
  <1>. QED  BY <1>1, <1>2, <1>3, <1>4, <1>5, <1>6, <1>7, <1>8, <1>9, <1>10
            DEF Next, Program, CleanUp, Import, SaveCache, Fault
-----------------------------------------------------------------------------
(* Committees that come late. *)

LEMMA FaultsBefore ==
  ASSUME TypeInv, [Next]_vars
  PROVE  (NoError' => NoError) /\ (NoStraggler' => NoStraggler) /\ (NoGap' => NoGap)
  <1>1. {"error", "null", "crash", "late"} = FaultKind /\ spent \in [FaultKind -> Nat]
    BY DEF FaultKind, TypeInv, TypeOK
  <1>2. \A k \in {"error", "null", "late"} : spent[k] <= spent'[k] /\ spent[k] \in Nat
    BY <1>1, FaultsGrow
  <1>. QED  BY <1>2 DEF NoError, NoStraggler, NoGap

LEMMA LateCommittee ==
  ASSUME TypeInv, [Next]_vars, NEW r \in Committee, r \in late', r \notin late
  PROVE  /\ Straggles /\ stage = 5 /\ cached[r.num] > 0
         /\ ~ NoError' /\ ~ NoStraggler'
  <1>1. Straggles
    BY LateStep
  <1>2. r \in Pending(SaveOrder[stage])
    BY <1>1 DEF Straggles, InFlight
  <1>3. stage = 5 /\ cached[r.num] > 0
    <2>1. stage \in 1..16
      BY RangeFacts
    <2>2. SaveOrder[stage] = "committee" /\ cached[r.num] > 0
      BY <1>2 DEF Pending, Committee
    <2>. QED  BY <2>1, <2>2 DEF SaveOrder
  <1>4. ~ Conflict(SaveOrder[stage])
    BY <1>3 DEF SaveOrder, Conflict, Unique
  <1>5. spent["error"] \in Nat /\ spent["late"] \in Nat
    BY DEF TypeInv, TypeOK, FaultKind
  <1>. QED  BY <1>1, <1>3, <1>4, <1>5 DEF Straggles, NoError, NoStraggler

\* A block that is in the caches too often to get past the unique index of block: the save that would
\* commit its committee, or one before it, is refused.
Times(n) == IF pc = "save" \/ (pc \in {"fetch", "process"} /\ num > n) THEN 2 ELSE 1

Doomed == /\ pc # "down" /\ ~ (pc = "save" /\ stage = 16)
          /\ \E n \in Block : n = head + 1 /\ cached[n] >= Times(n)

LEMMA DoomedStep ==
  ASSUME TypeInv, RefInv, OnceInv, Doomed, [Next]_vars, ~ FetchNull
  PROVE  Doomed' \/ Swept'
  <1>. USE DEF store, cache, control, Goto
  <1>0. stage \in 1..16 /\ head \in -1..MaxBlock /\ num \in 0..(MaxBlock + 1) /\ MaxBlock \in Nat
        /\ Block = 0..MaxBlock /\ cached \in [Block -> 0..2]
    BY RangeFacts
  <1>1. PICK n \in Block : n = head + 1 /\ cached[n] >= Times(n)
    BY DEF Doomed
  <1>2. CASE StartRound
    BY <1>0, <1>1, <1>2 DEF StartRound, Doomed, Times
  <1>3. CASE FetchBlock
    BY <1>0, <1>1, <1>3 DEF FetchBlock, Doomed, Times
  <1>4. CASE ProcessBlock
    <2>1. /\ pc = "process" /\ num > head /\ num \in Block
          /\ cached' = [cached EXCEPT ![num] = AtMost2(@ + 1)] /\ head' = head
          /\ pc' # "down" /\ stage' = 1
      BY <1>0, <1>4 DEF ProcessBlock, NextNum, TypeInv, ControlInv, TypeOK, RefInv, AboveInv
    <2>2. cached'[n] >= 2
      <3>1. CASE num = n
        BY <1>0, <1>1, <2>1, <3>1 DEF Times, AtMost2
      <3>2. CASE num # n
        BY <1>0, <1>1, <2>1, <3>2 DEF Times
      <3>. QED  BY <3>1, <3>2
    <2>3. Times(n)' \in {1, 2}
      BY DEF Times
    <2>4. cached'[n] \in 0..2
      BY <1>0, <2>1, <2>2 DEF AtMost2
    <2>. QED  BY <1>1, <2>1, <2>2, <2>3, <2>4 DEF Doomed
  <1>5. CASE InsertRows \/ SaveBalances
    <2>1. pc = "save" /\ pc' = "save" /\ stage' # 16 /\ UNCHANGED <<head, cached>>
      BY <1>0, <1>5, StageFacts DEF InsertRows, SaveBalances
    <2>. QED  BY <1>1, <2>1 DEF Doomed, Times
  <1>6. CASE UpdateHead
    <2>1. stage = 15 /\ pc = "save"
      BY <1>0, <1>6, StageFacts DEF UpdateHead
    <2>. QED  BY <1>0, <1>1, <2>1 DEF OnceInv, Times
  <1>7. CASE Rebase
    BY <1>0, <1>7, StageFacts DEF Rebase, Doomed
  <1>8. CASE StepKills \/ Crash
    BY <1>8 DEF StepKills, Crash, Die, Swept, Settled
  <1>9. CASE InsertConflict \/ StepFails
    <2>1. pc' \in {"round", "clean"} /\ UNCHANGED <<head, cached>>
      BY <1>9 DEF InsertConflict, StepFails, Recover
    <2>2. Times(n)' = 1 /\ Times(n) \in {1, 2}
      BY <2>1 DEF Times
    <2>. QED  BY <1>0, <1>1, <2>1, <2>2 DEF Doomed
  <1>10. CASE CleanUp \/ BeginGenesis \/ SkipRound
              \/ \E a \in BalanceRow : GenesisAccount(a) \/ GenesisConflict(a)
    <2>1. /\ pc' \in {"clean", "fix", "round", "genesis"} /\ UNCHANGED <<head, cached>>
          /\ pc \notin {"fetch", "process", "save"}
      BY <1>10 DEF CleanUp, CleanStage, BeginFix, FixRow, EndFix, BeginGenesis, SkipRound,
         ReadyForRound, GenesisAccount, GenesisConflict
    <2>. QED  BY <1>1, <2>1 DEF Doomed, Times
  <1>11. CASE Landing \/ ChainGrows \/ UNCHANGED vars
    <2>1. UNCHANGED <<head, cached, pc, stage, num>>
      BY <1>11 DEF Landing, Land, LandSave, ChainGrows, vars
    <2>. QED  BY <2>1 DEF Doomed, Times
  <1>12. ~ Start
    BY DEF Start, Doomed
  <1>. QED  BY <1>2, <1>3, <1>4, <1>5, <1>6, <1>7, <1>8, <1>9, <1>10, <1>11, <1>12
            DEF Next, Program, Import, SaveCache, Fault

\* A committee that comes late belongs to a batch whose first block stays in the caches.
LEMMA LateDoomed ==
  ASSUME TypeInv, RefInv, GapFreeInv, WindowInv, [Next]_vars,
         NEW r \in Committee, r \in late', r \notin late
  PROVE  Doomed'
  <1>0. head \in -1..MaxBlock /\ MaxBlock \in Nat /\ Block = 0..MaxBlock /\ last \in -1..MaxBlock
        /\ cached \in [Block -> 0..2] /\ LoopWindow \in Nat /\ LoopWindow > 0 /\ ff \in BOOLEAN
    BY RangeFacts, BoundFacts DEF TypeInv, TypeOK
  <1>1. pc = "save" /\ stage = 5 /\ UNCHANGED <<head, cached>> /\ pc' \in {"clean", "round"}
    BY LateCommittee DEF Straggles
  <1>2. last > head
    BY <1>0, <1>1 DEF WindowInv, Importing
  <1>3. head + 1 \in Block /\ cached[head + 1] > 0
    BY <1>0, <1>1, <1>2 DEF GapFreeInv, SaveInv
  <1>4. cached'[head + 1] >= Times(head + 1)'
    BY <1>0, <1>1, <1>3 DEF Times
  <1>. QED  BY <1>1, <1>3, <1>4 DEF Doomed
-----------------------------------------------------------------------------
(* Committees at or below the head. *)

UniqueInv == \A r \in Row : r.coll \in Unique => db[r] <= 1

\* Without an error behind updateHead the caches hold nothing of what is committed.
AheadInv == ~ (pc = "save" /\ stage = 16) => \A n \in Block : cached[n] > 0 => n > head

\* What is committed and still cached does not get past the unique index of tx.
TxInv == pc = "save" /\ stage \in 3..15 => \A n \in Block : cached[n] > 0 /\ HasTx(n) => n > head

LateTx == \A r \in late : r.coll = "committee" /\ HasTx(r.num) => r.num > head

\* The committees StoredOnce speaks of.
Guarded(r) == NoError \/ ((NoGap \/ NoStraggler) /\ HasTx(r.num))

BelowInv == \A r \in Committee : r.num <= head /\ Guarded(r) => db[r] <= 1

LEMMA UniqueStep ==
  ASSUME TypeInv, UniqueInv, [Next]_vars
  PROVE  UniqueInv'
  <1>. SUFFICES ASSUME NEW r \in Row, r.coll \in Unique
                PROVE  db'[r] <= 1
    BY DEF UniqueInv
  <1>1. db[r] <= 1
    BY DEF UniqueInv
  <1>. QED  BY <1>1, RowsStep DEF Inserts, Deletes, Lands

LEMMA ErrorCounted ==
  ASSUME TypeInv, StepFails
  PROVE  ~ NoError'
  <1>. DEFINE faults == [spent EXCEPT !["error"] = @ + 1]
  <1>1. /\ {"error", "null", "crash", "late"} = FaultKind /\ spent \in [FaultKind -> Nat]
        /\ spent["error"] \in Nat
    BY DEF FaultKind, TypeInv, TypeOK
  <1>2. faults["error"] = spent["error"] + 1 /\ faults \in [FaultKind -> Nat] /\ Stragglers(faults)
    BY <1>1 DEF StepFails, Recover
  <1>. HIDE DEF faults
  <1>3. spent' = faults \/ spent' = [faults EXCEPT !["late"] = @ + 1]
    BY <1>2 DEF Stragglers
  <1>4. [faults EXCEPT !["late"] = @ + 1]["error"] = faults["error"]
    BY <1>1, <1>2
  <1>. QED  BY <1>1, <1>2, <1>3, <1>4 DEF NoError

LEMMA AheadStep ==
  ASSUME TypeInv, RefInv, AheadInv, NoError', [Next]_vars
  PROVE  AheadInv'
  <1>. USE DEF store, cache, control, Goto
  <1>0. /\ stage \in 1..16 /\ head \in -1..MaxBlock /\ cached \in [Block -> 0..2]
        /\ \A n \in Block : n \in Int
    BY RangeFacts
  <1>1. CASE UpdateHead
    <2>1. pc' = "save" /\ stage' = 16
      BY <1>0, <1>1, StageFacts DEF UpdateHead
    <2>. QED  BY <2>1 DEF AheadInv
  <1>2. CASE ProcessBlock
    <2>1. /\ pc = "process" /\ num > head /\ head' = head
          /\ \A n \in Block : n # num => cached'[n] = cached[n]
      BY <1>0, <1>2 DEF ProcessBlock, RefInv, AboveInv
    <2>. QED  BY <2>1 DEF AheadInv
  <1>3. CASE Rebase
    BY <1>0, <1>3 DEF Rebase, EmptyCache, AheadInv
  <1>4. CASE StartRound \/ FetchBlock \/ FetchNull
    BY <1>4 DEF StartRound, ReadyForRound, FetchBlock, FetchNull, AheadInv
  <1>5. CASE InsertRows \/ SaveBalances
    <2>1. pc = "save" /\ stage \in 1..14 /\ UNCHANGED <<head, cached>>
      BY <1>0, <1>5, StageFacts DEF InsertRows, SaveBalances
    <2>. QED  BY <2>1 DEF AheadInv
  <1>6. CASE ~ RoundStep /\ ~ FetchNull
    <2>1. /\ head' = head /\ (cached' = cached \/ \A n \in Block : cached'[n] = 0)
          /\ pc' \notin {"fetch", "process", "save"} \/ UNCHANGED <<pc, stage>>
      BY <1>6, OtherAside DEF Aside
    <2>2. CASE pc = "save" /\ stage = 16 /\ pc' # "save"
      <3>1. ~ Conflict(SaveOrder[stage]) /\ ~ StepFails
        BY <2>2, ErrorCounted DEF Conflict, SaveOrder, Unique, Collection
      <3>2. StepKills \/ Crash
        BY <1>6, <2>2, <3>1 DEF RoundStep, Next, Program, Start, CleanUp, CleanStage, BeginFix, FixRow,
           EndFix, Import, BeginGenesis, GenesisAccount, GenesisConflict, SkipRound, ReadyForRound,
           SaveCache, InsertConflict, Fault, Landing, Land, LandSave, ChainGrows, vars
      <3>3. \A n \in Block : cached'[n] = 0
        BY <3>2 DEF StepKills, Crash, Die, EmptyCache
      <3>. QED  BY <3>3 DEF AheadInv
    <2>3. CASE ~ (pc = "save" /\ stage = 16 /\ pc' # "save")
      BY <2>1, <2>3 DEF AheadInv
    <2>. QED  BY <2>2, <2>3
  <1>. QED  BY <1>1, <1>2, <1>3, <1>4, <1>5, <1>6 DEF RoundStep

LEMMA TxStep ==
  ASSUME TypeInv, RefInv, TxInv, [Next]_vars
  PROVE  TxInv'
  <1>. USE DEF store, cache, control, Goto
  <1>0. /\ stage \in 1..16 /\ head \in -1..MaxBlock /\ cached \in [Block -> 0..2]
        /\ \A n \in Block : n \in Int
    BY RangeFacts
  <1>1. CASE InsertRows \/ SaveBalances
    <2>1. /\ pc = "save" /\ stage' = stage + 1 /\ UNCHANGED <<head, cached>>
      BY <1>1 DEF InsertRows, SaveBalances
    <2>2. CASE stage = 2
      <3>1. InsertRows /\ SaveOrder[stage] = "tx"
        BY <1>1, <2>2 DEF SaveBalances, SaveOrder
      <3>2. ASSUME NEW n \in Block, cached[n] > 0, HasTx(n), n <= head
            PROVE  FALSE
        <4>1. PICK r \in Row : r.coll = "tx" /\ r.num = n
          BY <3>2 DEF HasTx
        <4>2. db[r] > 0
          BY <3>2, <4>1 DEF RefInv, CachedInv, Stored
        <4>. QED  BY <3>1, <3>2, <4>1, <4>2 DEF InsertRows, Conflict, Pending, Unique, Collection
      <3>. QED  BY <1>0, <2>1, <3>2 DEF TxInv, HasTx
    <2>3. CASE stage # 2
      BY <1>0, <2>1, <2>3 DEF TxInv, HasTx
    <2>. QED  BY <2>2, <2>3
  <1>2. CASE StartRound \/ FetchBlock \/ FetchNull \/ ProcessBlock \/ Rebase \/ UpdateHead
    <2>1. pc' # "save" \/ stage' \in {1, 16}
      BY <1>0, <1>2, StageFacts DEF StartRound, FetchBlock, FetchNull, ProcessBlock, Rebase, NextNum,
         UpdateHead
    <2>. QED  BY <2>1 DEF TxInv
  <1>3. CASE ~ RoundStep /\ ~ FetchNull
    BY <1>3, OtherAside DEF Aside, TxInv, HasTx
  <1>. QED  BY <1>1, <1>2, <1>3 DEF RoundStep

LEMMA LateTxStep ==
  ASSUME TypeInv, RefInv, TxInv, LateTx, [Next]_vars
  PROVE  LateTx'
  <1>. SUFFICES ASSUME NEW r \in late', r.coll = "committee", HasTx(r.num)
                PROVE  r.num > head'
    BY DEF LateTx, HasTx
  <1>1. CASE r \in late
    <2>1. pc # "save"
      BY <1>1 DEF RefInv, LateInv
    <2>2. head' = head
      BY <2>1, HeadMoves DEF UpdateHead
    <2>. QED  BY <1>1, <2>2 DEF LateTx
  <1>2. CASE r \notin late
    <2>1. r \in Committee
      BY <1>2, LateStep DEF Straggles, InFlight, TypeInv, TypeOK, Committee
    <2>2. Straggles /\ stage = 5 /\ cached[r.num] > 0
      BY <1>2, <2>1, LateCommittee
    <2>3. r.num \in Block
      BY <2>1, CommitteeFacts
    <2>. QED  BY <2>2, <2>3 DEF TxInv, Straggles
  <1>. QED  BY <1>1, <1>2
-----------------------------------------------------------------------------
(* Each row once. *)

CommitteeInv ==
  /\ NoError => Swept /\ AheadInv
  /\ NoStraggler => Swept
  /\ NoGap => Swept \/ Doomed

StoreInv == /\ BatchInv /\ HeldInv /\ FirstInv /\ CommitteeInv
            /\ TxInv /\ LateTx /\ UniqueInv /\ BelowInv

LEMMA InitStore == Init => StoreInv
  <1>. SUFFICES ASSUME Init PROVE StoreInv
    OBVIOUS
  <1>1. BatchInv
    BY InitBatch
  <1>2. /\ late = {} /\ held = {} /\ lateSave = {} /\ pc = "down"
        /\ \A n \in Block : cached[n] = 0
        /\ \A r \in Row : db[r] <= 1 /\ (head = -1 => db[r] = 0)
    <2>1. \A r \in Row : r.num \in 0..MaxBlock
      BY PosSyncAssumption DEF Block
    <2>. QED  BY <2>1 DEF Init
  <1>3. HeldInv /\ FirstInv /\ TxInv /\ LateTx /\ UniqueInv /\ BelowInv
    BY <1>2 DEF HeldInv, FirstInv, Untouched, TxInv, LateTx, UniqueInv, BelowInv, InRound, Committee
  <1>4. CommitteeInv
    BY <1>2 DEF CommitteeInv, Swept, Settled, AheadInv
  <1>. QED  BY <1>1, <1>3, <1>4 DEF StoreInv

LEMMA CommitteeStep ==
  ASSUME StoreInv, [Next]_vars
  PROVE  CommitteeInv'
  <1>0. TypeInv /\ RefInv /\ OnceInv /\ FirstInv
    BY DEF StoreInv, BatchInv
  <1>1. ASSUME Swept, NoError' \/ NoStraggler'
        PROVE  Swept'
    <2>1. late' \cap Committee = {}
      BY <1>0, <1>1, LateCommittee DEF Swept
    <2>. QED  BY <1>0, <1>1, <2>1, SweptStep
  <1>2. ASSUME NoError' PROVE Swept' /\ AheadInv'
    BY <1>0, <1>1, <1>2, FaultsBefore, AheadStep DEF StoreInv, CommitteeInv
  <1>3. ASSUME NoStraggler' PROVE Swept'
    BY <1>0, <1>1, <1>3, FaultsBefore DEF StoreInv, CommitteeInv
  <1>4. ASSUME NoGap' PROVE Swept' \/ Doomed'
    <2>1. NoGap /\ GapFreeInv /\ WindowInv /\ (Swept \/ Doomed)
      BY <1>0, <1>4, FaultsBefore DEF StoreInv, BatchInv, CommitteeInv
    <2>2. CASE Doomed
      <3>1. ~ FetchNull
        <4>1. spent["null"] \in Nat /\ "null" \in FaultKind /\ spent \in [FaultKind -> Nat]
          BY <1>0 DEF TypeInv, TypeOK, FaultKind
        <4>. QED  BY <1>4, <4>1 DEF FetchNull, Spend, NoGap
      <3>. QED  BY <1>0, <2>2, <3>1, DoomedStep
    <2>3. CASE Swept /\ late' \cap Committee = {}
      BY <1>0, <2>3, SweptStep
    <2>4. CASE Swept /\ late' \cap Committee # {}
      <3>1. PICK r \in Committee : r \in late' /\ r \notin late
        BY <2>4 DEF Swept
      <3>. QED  BY <1>0, <2>1, <3>1, LateDoomed
    <2>. QED  BY <2>1, <2>2, <2>3, <2>4
  <1>. QED  BY <1>2, <1>3, <1>4 DEF CommitteeInv

LEMMA BelowStep ==
  ASSUME StoreInv, [Next]_vars
  PROVE  BelowInv'
  <1>0. TypeInv /\ RefInv /\ OnceInv
    BY DEF StoreInv, BatchInv
  <1>. SUFFICES ASSUME NEW r \in Committee, r.num <= head', Guarded(r)'
                PROVE  db'[r] <= 1
    BY DEF BelowInv, Guarded, HasTx
  <1>1. Guarded(r)
    BY <1>0, FaultsBefore DEF Guarded, HasTx
  <1>2. /\ r \in Row /\ r.coll = "committee" /\ r.num \in Block /\ r.num \in Int
        /\ db[r] \in 0..2 /\ cached[r.num] \in 0..2 /\ head \in Int
    BY <1>0, CommitteeFacts, BoundFacts DEF TypeInv
  <1>3. CASE r.num <= head
    <2>1. db[r] <= 1
      BY <1>1, <1>3 DEF StoreInv, BelowInv
    <2>2. ~ (Inserts /\ r \in Pending(SaveOrder[stage]))
      <3>. SUFFICES ASSUME Inserts, r \in Pending(SaveOrder[stage])
                    PROVE  FALSE
        OBVIOUS
      <3>1. pc = "save" /\ SaveOrder[stage] = "committee" /\ cached[r.num] > 0
        BY <1>2 DEF Inserts, Pending
      <3>2. stage = 5
        <4>1. stage \in 1..16
          BY <1>0, RangeFacts
        <4>. QED  BY <3>1, <4>1 DEF SaveOrder
      <3>3. r.num > head
        BY <1>1, <1>2, <3>1, <3>2 DEF Guarded, StoreInv, CommitteeInv, AheadInv, TxInv
      <3>. QED  BY <1>2, <1>3, <3>3
    <2>3. r \notin late
      BY <1>1, <1>2, <1>3 DEF Guarded, StoreInv, CommitteeInv, Swept, LateTx
    <2>. QED  BY <1>0, <1>2, <2>1, <2>2, <2>3, RowsStep DEF Inserts, Deletes, Lands
  <1>4. CASE r.num > head
    <2>1. UpdateHead
      BY <1>0, <1>2, <1>4, HeadMoves
    <2>2. stage = 15 /\ pc = "save" /\ db' = db
      BY <1>0, <2>1, StageFacts, RangeFacts DEF UpdateHead
    <2>3. ~ Doomed
      <3>1. \A n \in Block : cached[n] <= 1 /\ Times(n) = 2 /\ cached[n] \in Int
        BY <1>0, <2>2, RangeFacts DEF OnceInv, Times
      <3>. QED  BY <3>1 DEF Doomed
    <2>4. Swept
      BY <1>1, <2>3 DEF Guarded, StoreInv, CommitteeInv
    <2>. QED  BY <1>2, <1>4, <2>2, <2>4 DEF Swept, Settled, Single
  <1>. QED  BY <1>2, <1>3, <1>4

\* Whatever crashes, errors, null answers and late writes occur, as far as StoredWhole goes: block rows
\* come with what the block contains, and no row at or below the head is stored twice, although a save
\* that was cut short is repeated, the cleanup is not atomic and committees have no unique index.  The
\* network has genesis accounts: without a head nothing is cleaned up, and it is those accounts that
\* keep an interrupted first batch from being begun again (processGenesis).
THEOREM RowsStoredWhole ==
  ASSUME Prealloc # {}
  PROVE  Spec => []StoredWhole
  <1>1. Init => StoreInv
    BY InitStore
  <1>2. StoreInv /\ [Next]_vars => StoreInv'
    <2>. SUFFICES ASSUME StoreInv, [Next]_vars PROVE StoreInv'
      OBVIOUS
    <2>1. TypeInv /\ RefInv /\ BatchInv
      BY DEF StoreInv, BatchInv
    <2>2. BatchInv'
      BY <2>1, StepBatch
    <2>3. HeldInv' /\ FirstInv' /\ TxInv' /\ LateTx' /\ UniqueInv'
      BY <2>1, HeldStep, FirstStep, TxStep, LateTxStep, UniqueStep DEF StoreInv
    <2>. QED  BY <2>2, <2>3, CommitteeStep, BelowStep DEF StoreInv
  <1>3. StoreInv => StoredOnce
    <2>. SUFFICES ASSUME StoreInv, NEW r \in Row, r.num <= head,
                         r.coll = "committee" => Guarded(r)
                  PROVE  db[r] <= 1
      BY DEF StoredOnce, Guarded, NoError
    <2>1. CASE r.coll = "committee"
      BY <2>1 DEF StoreInv, BelowInv, Committee
    <2>2. CASE r.coll # "committee"
      BY <2>2, PosSyncAssumption DEF StoreInv, UniqueInv, Unique
    <2>. QED  BY <2>1, <2>2
  <1>. QED  BY <1>1, <1>2, <1>3, BlocksAreWhole, PTL DEF Spec, StoredWhole
=============================================================================
