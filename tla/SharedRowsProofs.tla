-------------------------- MODULE SharedRowsProofs --------------------------
(***************************************************************************)
(* Proofs about SharedRows: type correctness, and that the rows that are   *)
(* changed in place are right whenever the head moves.                     *)
(*                                                                         *)
(* The invariant says what a row is between two moves of the head, when    *)
(* the events of a set X of positions have been handled since the last     *)
(* restart (Done) and those up to block Reach may have been, by a process  *)
(* that crashed.  A committee has its end as soon as any of them wrote it; *)
(* it is the same however often it is written.  The implementation of a    *)
(* contract may be ahead of X.  Then it need not be right, and Recovers    *)
(* says why it will be, with its predecessor: it is what X or a later part *)
(* of the batch leads to, or it changes in the rest of the batch.          *)
(*                                                                         *)
(* What is said about positions takes the chain, the sets and the bounds   *)
(* as parameters, so that it can be used before and after a step.          *)
(***************************************************************************)
EXTENDS SharedRows, WellFoundedInduction, TLAPS

\* Positions and entries of chain c.
PositionsOf(c) == UNION { {n} \X DOMAIN Script[c][n] : n \in 1..MaxBlock }

E(c, p) == Script[c][p[1]][p[2]]

\* The positions up to block n.
UpTo(c, n) == { p \in PositionsOf(c) : p[1] <= n }
-----------------------------------------------------------------------------
(* Positions. *)

LEMMA SmallestIn ==
  ASSUME NEW S \in SUBSET Nat, S # {}
  PROVE  \E n \in S : \A m \in S : n <= m
  <1>. DEFINE Less == OpToRel(<, Nat)
  <1>1. \E x \in S : \A y \in S : <<y, x>> \notin Less
    <2>1. IsWellFoundedOn(Less, Nat)
      BY NatLessThanWellFounded
    <2>. HIDE DEF Less
    <2>. QED  BY <2>1, WFMin
  <1>2. PICK n \in S : \A m \in S : <<m, n>> \notin Less
    BY <1>1
  <1>3. \A m \in S : ~ (m < n)
    BY <1>2 DEF OpToRel
  <1>. QED  BY <1>3

LEMMA LargestIn ==
  ASSUME NEW N \in Nat, NEW S \in SUBSET (0..N), S # {}
  PROVE  \E n \in S : \A m \in S : m <= n
  <1>. DEFINE T == { k \in Nat : N - k \in S }
  <1>1. T # {}
    <2>1. PICK s \in S : TRUE
      OBVIOUS
    <2>2. N - s \in Nat /\ N - (N - s) = s
      OBVIOUS
    <2>. QED  BY <2>1, <2>2
  <1>2. PICK k \in T : \A m \in T : k <= m
    <2>1. T \in SUBSET Nat
      OBVIOUS
    <2>. HIDE DEF T
    <2>. QED  BY <1>1, <2>1, SmallestIn
  <1>3. \A m \in S : m <= N - k
    <2>. SUFFICES ASSUME NEW m \in S PROVE m <= N - k
      OBVIOUS
    <2>1. m \in 0..N /\ N - m \in Nat /\ N - (N - m) = m
      OBVIOUS
    <2>2. k <= N - m
      BY <1>2, <2>1
    <2>. QED  BY <2>1, <2>2
  <1>. QED  BY <1>3

LEMMA PositionType ==
  ASSUME NEW c \in Chain, NEW p \in PositionsOf(c)
  PROVE  /\ p = <<p[1], p[2]>>
         /\ p[1] \in 1..MaxBlock /\ p[2] \in 1..Len(Script[c][p[1]]) /\ p[2] \in Nat /\ p[1] \in Nat
         /\ E(c, p) \in Entries
  <1>1. PICK n \in 1..MaxBlock : p \in {n} \X DOMAIN Script[c][n]
    BY DEF PositionsOf
  <1>2. Script[c][n] \in Seq(Entries)
    BY ChainAssumption
  <1>3. DOMAIN Script[c][n] = 1..Len(Script[c][n]) /\ Len(Script[c][n]) \in Nat
    BY <1>2
  <1>4. p[1] = n /\ p[2] \in 1..Len(Script[c][n]) /\ p = <<p[1], p[2]>>
    BY <1>1, <1>3
  <1>5. Script[c][n][p[2]] \in Entries
    BY <1>2, <1>4
  <1>6. MaxBlock \in Nat
    BY RowsAssumption
  <1>. QED  BY <1>3, <1>4, <1>5, <1>6 DEF E

LEMMA IsPosition ==
  ASSUME NEW c \in Chain, NEW n \in 1..MaxBlock, NEW i \in 1..Len(Script[c][n])
  PROVE  <<n, i>> \in PositionsOf(c)
  <1>1. Script[c][n] \in Seq(Entries)
    BY ChainAssumption
  <1>2. DOMAIN Script[c][n] = 1..Len(Script[c][n])
    BY <1>1
  <1>. QED  BY <1>2 DEF PositionsOf

\* A linear order.
LEMMA Order ==
  ASSUME NEW c \in Chain
  PROVE  /\ \A p, q \in PositionsOf(c) : p = q \/ Before(p, q) \/ Before(q, p)
         /\ \A p, q \in PositionsOf(c) : Before(p, q) => p # q /\ ~ Before(q, p)
         /\ \A p, q, r \in PositionsOf(c) : Before(p, q) /\ Before(q, r) => Before(p, r)
  <1>1. \A p \in PositionsOf(c) : p = <<p[1], p[2]>> /\ p[1] \in Nat /\ p[2] \in Nat
    BY PositionType
  <1>2. \A p, q \in PositionsOf(c) : p = q \/ Before(p, q) \/ Before(q, p)
    <2>. SUFFICES ASSUME NEW p \in PositionsOf(c), NEW q \in PositionsOf(c)
                  PROVE  p = q \/ Before(p, q) \/ Before(q, p)
      OBVIOUS
    <2>1. /\ p = <<p[1], p[2]>> /\ p[1] \in Nat /\ p[2] \in Nat
          /\ q = <<q[1], q[2]>> /\ q[1] \in Nat /\ q[2] \in Nat
      BY <1>1
    <2>2. p[1] = q[1] /\ p[2] = q[2] => p = q
      BY <2>1
    <2>. QED  BY <2>1, <2>2 DEF Before
  <1>3. \A p, q \in PositionsOf(c) : Before(p, q) => p # q /\ ~ Before(q, p)
    BY <1>1 DEF Before
  <1>4. \A p, q, r \in PositionsOf(c) : Before(p, q) /\ Before(q, r) => Before(p, r)
    BY <1>1 DEF Before
  <1>. QED  BY <1>2, <1>3, <1>4

\* What Last is.
LEMMA LastIs ==
  ASSUME NEW c \in Chain, NEW S \in SUBSET PositionsOf(c), S # {}
  PROVE  Last(S) \in S /\ \A q \in S \ {Last(S)} : Before(q, Last(S))
  <1>1. \A p \in S : /\ p = <<p[1], p[2]>> /\ p[1] \in Nat /\ p[2] \in Nat
                     /\ p[1] \in 0..MaxBlock /\ p[2] \in 0..Len(Script[c][p[1]])
    BY PositionType, RowsAssumption
  <1>2. PICK n \in { p[1] : p \in S } : \A m \in { p[1] : p \in S } : m <= n
    <2>1. { p[1] : p \in S } \subseteq 0..MaxBlock /\ { p[1] : p \in S } # {} /\ MaxBlock \in Nat
      BY <1>1, RowsAssumption
    <2>. QED  BY <2>1, LargestIn
  <1>. DEFINE Second == { p[2] : p \in { s \in S : s[1] = n } }
  <1>3. PICK i \in Second : \A j \in Second : j <= i
    <2>1. PICK p \in S : p[1] = n
      BY <1>2
    <2>2. n \in 1..MaxBlock
      BY <2>1, PositionType
    <2>3. Len(Script[c][n]) \in Nat
      BY <2>2, ChainAssumption
    <2>4. Second \subseteq 0..Len(Script[c][n]) /\ Second # {}
      BY <1>1, <2>1
    <2>. QED  BY <2>3, <2>4, LargestIn
  <1>4. PICK p \in S : p[1] = n /\ p[2] = i
    BY <1>3
  <1>5. \A q \in S \ {p} : Before(q, p)
    <2>. SUFFICES ASSUME NEW q \in S, q # p PROVE Before(q, p)
      OBVIOUS
    <2>1. q[1] <= n /\ (q[1] = n => q[2] <= i)
      BY <1>2, <1>3
    <2>2. q[1] # p[1] \/ q[2] # p[2]
      BY <1>1
    <2>. QED  BY <1>1, <1>4, <2>1, <2>2 DEF Before
  <1>. QED  BY <1>4, <1>5 DEF Last

LEMMA LastUnique ==
  ASSUME NEW c \in Chain, NEW S \in SUBSET PositionsOf(c), NEW p \in S, \A q \in S \ {p} : Before(q, p)
  PROVE  Last(S) = p
  BY LastIs, Order
-----------------------------------------------------------------------------
(* Types, and the blocks of a round. *)

Working == {"work", "asking", "answered", "found", "missing"}

Saving == {"save", "stuck"}

\* Where the process is, in a round that ends where it began to look.
RoundInv ==
  /\ pos \in Nat \ {0}
  /\ pc \notin {"down", "idle"} =>
       /\ head < num /\ num <= endNum /\ endNum <= best /\ endNum <= head + Window
       /\ fast => endNum = head + Window /\ endNum < best
       /\ ~ fast => num = head + 1
  /\ pc \in Saving => pos = 1 /\ (fast => num = endNum)
  /\ pc \in Working \ {"work"} => pos <= Len(Script[chain][num]) /\ Entry.kind = "bucket"
  /\ pc \in {"answered", "found", "missing"} => ids # << >>

TypeInv == TypeOK /\ RoundInv

LEMMA EntryFields ==
  ASSUME NEW e \in Entries
  PROVE  /\ e.kind \in {"create", "upgrade", "destruct", "committee", "bucket"}
         /\ e.kind \in ContractKinds => e.of \in Contract
         /\ e.kind = "upgrade" => e.impl \in Nat
         /\ e.kind = "committee" => e.epoch \in Epoch /\ e.end \in -1..MaxBlock
         /\ e.kind = "bucket" => e.ids \in Seq(Bucket)
  BY DEF Entries, ContractKinds

LEMMA ImplIsNat ==
  ASSUME chain \in Chain, NEW a \in Contract, NEW n \in Int
  PROVE  ImplAt(a, n) \in Nat
  <1>. SUFFICES ASSUME UpgradesAt(a, n) # {} PROVE At(Last(UpgradesAt(a, n))).impl \in Nat
    BY DEF ImplAt
  <1>1. UpgradesAt(a, n) \in SUBSET PositionsOf(chain)
    BY DEF UpgradesAt, HistoryOf, Of, Positions, PositionsOf
  <1>2. Last(UpgradesAt(a, n)) \in UpgradesAt(a, n)
    BY <1>1, LastIs
  <1>3. E(chain, Last(UpgradesAt(a, n))) \in Entries /\ E(chain, Last(UpgradesAt(a, n))).kind = "upgrade"
    <2>1. At(Last(UpgradesAt(a, n))).kind = "upgrade"
      BY <1>2 DEF UpgradesAt, Of
    <2>. QED  BY <1>1, <1>2, <2>1, PositionType DEF At, E
  <1>. QED  BY <1>3, EntryFields DEF At, E

\* The entry the process is at.
LEMMA EntryIs ==
  ASSUME TypeInv, pc \in Working, pos <= Len(Script[chain][num])
  PROVE  /\ <<num, pos>> \in PositionsOf(chain)
         /\ E(chain, <<num, pos>>) = Entry
         /\ Entry \in Entries
  <1>1. num \in 1..MaxBlock /\ chain \in Chain
    BY RowsAssumption DEF TypeInv, TypeOK, RoundInv, Working, Block
  <1>2. Script[chain][num] \in Seq(Entries)
    BY <1>1, ChainAssumption
  <1>3. pos \in 1..Len(Script[chain][num])
    BY <1>2 DEF TypeInv, RoundInv
  <1>4. <<num, pos>> \in PositionsOf(chain)
    BY <1>1, <1>3, IsPosition
  <1>5. E(chain, <<num, pos>>) = Entry
    BY DEF E, Entry
  <1>. QED  BY <1>1, <1>4, <1>5, PositionType

LEMMA NumType ==
  ASSUME TypeInv
  PROVE  /\ chain \in Chain
         /\ best \in Int /\ head \in Int /\ num \in Int /\ endNum \in Int /\ MaxBlock \in Int
         /\ 0 <= head /\ head <= best /\ best <= MaxBlock /\ 0 <= num /\ num <= MaxBlock
         /\ 0 <= endNum /\ endNum <= MaxBlock
         /\ Window \in Int /\ Window >= 1 /\ pos \in Int /\ pos >= 1
  BY RowsAssumption DEF TypeInv, TypeOK, RoundInv, Block

LEMMA RowTypes ==
  /\ NoContract \in ContractRow /\ NoCommittee \in CommitteeRow
  /\ \A row \in ContractRow, i \in Nat : Upgraded(row, i) \in ContractRow
  /\ \A row \in ContractRow : /\ [row EXCEPT !.status = "destructed"] \in ContractRow
                              /\ [row EXCEPT !.status = "redeployed"] \in ContractRow
  /\ \A row \in CommitteeRow, n \in -1..MaxBlock : [row EXCEPT !.end = n] \in CommitteeRow
  /\ \A n \in Block : [start |-> n, end |-> -1] \in CommitteeRow
  /\ \A n \in Block, i \in Nat : [status |-> "live", seen |-> n, impl |-> i, prev |-> 0] \in ContractRow
  <1>0. MaxBlock \in Nat
    BY RowsAssumption
  <1>. USE <1>0 DEF NoContract, ContractRow, NoCommittee, CommitteeRow, Block
  <1>1. NoContract \in ContractRow /\ NoCommittee \in CommitteeRow
    OBVIOUS
  <1>2. \A row \in ContractRow, i \in Nat : Upgraded(row, i) \in ContractRow
    BY DEF Upgraded
  <1>3. \A row \in ContractRow : /\ [row EXCEPT !.status = "destructed"] \in ContractRow
                                 /\ [row EXCEPT !.status = "redeployed"] \in ContractRow
    OBVIOUS
  <1>4. \A row \in CommitteeRow, n \in -1..MaxBlock : [row EXCEPT !.end = n] \in CommitteeRow
    OBVIOUS
  <1>5. \A n \in Block : [start |-> n, end |-> -1] \in CommitteeRow
    OBVIOUS
  <1>6. \A n \in Block, i \in Nat : [status |-> "live", seen |-> n, impl |-> i, prev |-> 0] \in ContractRow
    OBVIOUS
  <1>. HIDE DEF NoContract, ContractRow, NoCommittee, CommitteeRow
  <1>. QED  BY <1>1, <1>2, <1>3, <1>4, <1>5, <1>6

LEMMA VersionTypes ==
  ASSUME chain \in Chain, best \in Block
  PROVE  /\ BucketsAt(best) \in Versions
         /\ \A b \in Bucket : BucketAt[chain][b][best] \in Nat
  BY RowsAssumption DEF BucketsAt, Versions

\* The two halves of TypeInv: what is stored, and what the process is doing.
DataTyped ==
  /\ contract \in [Contract -> ContractRow] /\ contractsCache \in [Contract -> ContractRow]
  /\ committee \in [Epoch -> CommitteeRow] /\ committeesCache \in [Epoch -> CommitteeRow]
  /\ bucket \in Versions /\ stored \in Versions /\ known \in Versions /\ snapshot \in Versions
  /\ toSave \subseteq Contract
  /\ job \in {"down", "idle", "compared", "delete", "insert"}
  /\ spent \in [FaultKind -> Nat]

ControlTyped ==
  /\ chain \in Chain
  /\ best \in Block /\ head \in Block /\ head <= best
  /\ pc \in {"down", "idle", "work", "asking", "answered", "found", "missing", "save", "stuck"}
  /\ num \in Block /\ endNum \in Block /\ fast \in BOOLEAN
  /\ ids \in Seq(Bucket) /\ answer \in Nat
  /\ RoundInv

LEMMA Halves == TypeInv <=> DataTyped /\ ControlTyped
  BY DEF TypeInv, TypeOK, DataTyped, ControlTyped, RoundInv

LEMMA TypeInit ==
  ASSUME Init PROVE TypeInv
  <1>1. 0 \in Block /\ BucketsAt(0) \in Versions
    <2>1. 0 \in Block
      BY RowsAssumption DEF Block
    <2>2. chain \in Chain
      BY DEF Init
    <2>3. BucketAt[chain] \in [Bucket -> [Block -> Nat]]
      BY <2>2, RowsAssumption
    <2>4. \A b \in Bucket : BucketAt[chain][b][0] \in Nat
      BY <2>1, <2>3
    <2>. QED  BY <2>1, <2>4 DEF BucketsAt, Versions
  <1>2. DataTyped
    <2>1. spent = [k \in FaultKind |-> 0] /\ spent \in [FaultKind -> Nat]
      BY DEF Init
    <2>. QED  BY <1>1, <2>1, RowTypes DEF Init, DataTyped
  <1>3. ControlTyped
    <2>1. RoundInv
      BY DEF Init, RoundInv, Working, Saving
    <2>2. ids \in Seq(Bucket) /\ fast \in BOOLEAN /\ head <= best /\ answer \in Nat
      <3>1. ids = << >> /\ fast = FALSE /\ head = 0 /\ best = 0 /\ answer = 0
        BY DEF Init
      <3>2. << >> \in Seq(Bucket) /\ 0 <= 0
        OBVIOUS
      <3>. QED  BY <3>1, <3>2
    <2>3. chain \in Chain /\ best \in Block /\ head \in Block /\ num \in Block /\ endNum \in Block /\ pc = "down"
      BY <1>1 DEF Init
    <2>. QED  BY <2>1, <2>2, <2>3 DEF ControlTyped
  <1>. QED  BY <1>2, <1>3, Halves

LEMMA DataStep ==
  ASSUME TypeInv, [Next]_vars PROVE DataTyped'
  <1>. USE DEF posVars, metricVars, rows, round, caches, asking, DataTyped
  <1>0. DataTyped /\ ControlTyped
    BY Halves
  <1>1. CASE UNCHANGED vars
    BY <1>0, <1>1 DEF vars
  <1>2. CASE ChainGrows
    BY <1>0, <1>2 DEF ChainGrows
  <1>3. CASE Start
    BY <1>0, <1>3, RowTypes DEF Start
  <1>4. CASE BeginRound
    BY <1>0, <1>4 DEF BeginRound
  <1>5. ASSUME Handle PROVE DataTyped'
    <2>0. pc \in Working /\ pos <= Len(Script[chain][num])
      BY <1>5 DEF Handle, CreateContract, Upgrade, Destruct, NewCommittee, OpenBuckets, Handling, Working
    <2>1. Entry \in Entries
      BY <2>0, EntryIs
    <2>2. /\ Entry.kind \in ContractKinds => Entry.of \in Contract
          /\ Entry.kind = "upgrade" => Entry.impl \in Nat
          /\ Entry.kind = "committee" => Entry.epoch \in Epoch /\ Entry.end \in -1..MaxBlock
      BY <2>1, EntryFields
    <2>3. CASE CreateContract
      <3>1. chain \in Chain /\ best \in Int /\ num \in Block
        BY <1>0 DEF ControlTyped, Block
      <3>2. ImplAt(Entry.of, best) \in Nat /\ Entry.of \in Contract
        BY <2>2, <2>3, <3>1, ImplIsNat DEF CreateContract, Handling, ContractKinds
      <3>3. contractsCache' \in [Contract -> ContractRow]
        BY <1>0, <2>3, <3>1, <3>2, RowTypes DEF CreateContract
      <3>. QED  BY <1>0, <2>3, <3>3 DEF CreateContract, Handled
    <2>4. CASE Upgrade
      <3>1. Entry.of \in Contract /\ Entry.impl \in Nat
        BY <2>2, <2>4 DEF Upgrade, Handling, ContractKinds
      <3>2. /\ Upgraded(contract[Entry.of], Entry.impl) \in ContractRow
            /\ Upgraded(contractsCache[Entry.of], Entry.impl) \in ContractRow
        BY <1>0, <3>1, RowTypes
      <3>3. contract' \in [Contract -> ContractRow] /\ contractsCache' \in [Contract -> ContractRow]
        BY <1>0, <2>4, <3>1, <3>2 DEF Upgrade
      <3>. QED  BY <1>0, <2>4, <3>3 DEF Upgrade, Handled
    <2>5. CASE Destruct
      <3>1. Entry.of \in Contract
        BY <2>2, <2>5 DEF Destruct, Handling, ContractKinds
      <3>2. /\ [contract[Entry.of] EXCEPT !.status = "destructed"] \in ContractRow
            /\ [contractsCache[Entry.of] EXCEPT !.status = "destructed"] \in ContractRow
        BY <1>0, <3>1, RowTypes
      <3>3. contract' \in [Contract -> ContractRow] /\ contractsCache' \in [Contract -> ContractRow]
        BY <1>0, <2>5, <3>1, <3>2 DEF Destruct
      <3>. QED  BY <1>0, <2>5, <3>3 DEF Destruct, Handled
    <2>6. CASE NewCommittee
      <3>1. Entry.epoch \in Epoch /\ Entry.end \in -1..MaxBlock /\ Entry.epoch \in Nat /\ num \in Block
        BY <1>0, <2>2, <2>6, RowsAssumption DEF NewCommittee, Handling, ControlTyped
      <3>. DEFINE pushed == [committeesCache EXCEPT ![Entry.epoch] = [start |-> num, end |-> -1]]
                  k == Entry.epoch - 1
      <3>2. k + 1 = Entry.epoch
        BY <3>1
      <3>3. pushed \in [Epoch -> CommitteeRow]
        BY <1>0, <3>1, RowTypes
      <3>4. k \in Epoch => /\ [pushed[k] EXCEPT !.end = Entry.end] \in CommitteeRow
                           /\ [committee[k] EXCEPT !.end = Entry.end] \in CommitteeRow
        BY <1>0, <3>1, <3>3, RowTypes
      <3>5. \/ committeesCache' = pushed
            \/ k \in Epoch /\ committeesCache' = [pushed EXCEPT ![k].end = Entry.end]
        BY <2>6, <3>2 DEF NewCommittee, EndOfEpoch
      <3>6. \/ committee' = committee
            \/ k \in Epoch /\ committee' = [committee EXCEPT ![k].end = Entry.end]
        BY <2>6 DEF NewCommittee, EndOfEpoch
      <3>7. UNCHANGED <<contract, contractsCache, bucket, stored, known, snapshot, toSave, job, spent>>
        BY <2>6 DEF NewCommittee, Handled
      <3>8. committeesCache' \in [Epoch -> CommitteeRow] /\ committee' \in [Epoch -> CommitteeRow]
        <4>. HIDE DEF pushed, k
        <4>. QED  BY <1>0, <3>3, <3>4, <3>5, <3>6
      <3>. QED  BY <1>0, <3>7, <3>8
    <2>7. CASE OpenBuckets
      BY <1>0, <2>7 DEF OpenBuckets, Skip
    <2>. QED  BY <1>5, <2>3, <2>4, <2>5, <2>6, <2>7 DEF Handle
  <1>6. ASSUME Buckets PROVE DataTyped'
    <2>1. CASE CloseBuckets
      BY <1>0, <2>1 DEF CloseBuckets, Skip
    <2>2. CASE AskNode
      BY <1>0, <2>2 DEF AskNode, Skip
    <2>3. CASE FindBucket
      BY <1>0, <2>3 DEF FindBucket, Skip
    <2>4. CASE WriteBucket
      <3>1. answer \in Nat
        BY <1>0 DEF ControlTyped
      <3>2. bucket' = [bucket EXCEPT ![Head(ids)] = answer] \/ bucket' = bucket
        BY <2>4 DEF WriteBucket
      <3>3. spent' = spent \/ spent' = [spent EXCEPT !["late"] = @ + 1]
        BY <2>4 DEF WriteBucket, Spend
      <3>4. bucket' \in Versions /\ spent' \in [FaultKind -> Nat]
        BY <1>0, <3>1, <3>2, <3>3 DEF Versions
      <3>. QED  BY <1>0, <2>4, <3>4 DEF WriteBucket, Skip
    <2>. QED  BY <1>6, <2>1, <2>2, <2>3, <2>4 DEF Buckets
  <1>7. CASE EndOfBlock
    BY <1>0, <1>7 DEF EndOfBlock
  <1>8. ASSUME Save PROVE DataTyped'
    <2>1. CASE SaveCommittees
      BY <1>0, <2>1, RowTypes DEF SaveCommittees, WithCommittees
    <2>2. ASSUME NEW a \in Contract, SaveContract(a) PROVE DataTyped'
      <3>1. contract' \in [Contract -> ContractRow] /\ toSave' \subseteq Contract
        BY <1>0, <2>2, RowTypes DEF SaveContract
      <3>. QED  BY <1>0, <2>2, <3>1 DEF SaveContract
    <2>3. ASSUME NEW a \in Contract, ContractExisted(a) PROVE DataTyped'
      BY <1>0, <2>3 DEF ContractExisted
    <2>4. CASE SaveHead
      BY <1>0, <2>4, RowTypes DEF SaveHead, EmptyCaches
    <2>. QED  BY <1>8, <2>1, <2>2, <2>3, <2>4 DEF Save
  <1>9. CASE MetricStart \/ Compare \/ GetBuckets \/ DeleteAll \/ InsertAll \/ MetricFails
    <2>1. BucketsAt(best) \in Versions
      BY <1>0, VersionTypes DEF ControlTyped
    <2>2. \A S \in SUBSET Bucket : WithBuckets(S) \in Versions
      BY <1>0 DEF WithBuckets, Versions
    <2>3. bucket' \in Versions
      BY <1>0, <1>9, <2>2 DEF MetricStart, Compare, GetBuckets, DeleteAll, InsertAll, MetricFails, Versions
    <2>4. stored' \in Versions /\ known' \in Versions /\ snapshot' \in Versions
      BY <1>0, <1>9, <2>1 DEF MetricStart, Compare, GetBuckets, DeleteAll, InsertAll, MetricFails
    <2>5. job' \in {"down", "idle", "compared", "delete", "insert"} /\ spent' \in [FaultKind -> Nat]
      BY <1>0, <1>9 DEF MetricStart, Compare, GetBuckets, DeleteAll, InsertAll, MetricFails, Spend, FaultKind
    <2>6. UNCHANGED <<chain, best, posVars>>
      BY <1>9 DEF MetricStart, Compare, GetBuckets, DeleteAll, InsertAll, MetricFails
    <2>. QED  BY <1>0, <2>3, <2>4, <2>5, <2>6
  <1>10. CASE Swallowed
    <2>1. spent' \in [FaultKind -> Nat]
      BY <1>0, <1>10 DEF Swallowed, Spend, FaultKind
    <2>. QED  BY <1>0, <1>10, <2>1 DEF Swallowed, Handled, Skip
  <1>11. CASE Crash
    <2>1. spent' \in [FaultKind -> Nat]
      BY <1>0, <1>11 DEF Crash, Spend, FaultKind
    <2>2. contract' \in [Contract -> ContractRow] /\ committee' \in [Epoch -> CommitteeRow]
      BY <1>0, <1>11, RowTypes DEF Crash, CutShort, WithCommittees
    <2>. QED  BY <1>0, <1>11, <2>1, <2>2, RowTypes DEF Crash, EmptyCaches
  <1>. QED
    BY <1>1, <1>2, <1>3, <1>4, <1>5, <1>6, <1>7, <1>8, <1>9, <1>10, <1>11
    DEF Next, PosStep, MetricStep, Fault, Waiting

LEMMA ControlStep ==
  ASSUME TypeInv, [Next]_vars PROVE ControlTyped'
  <1>. USE DEF posVars, metricVars, rows, round, caches, asking, ControlTyped, RoundInv, Working, Saving
  <1>0. ControlTyped
    BY Halves
  <1>. USE <1>0
  <1>00. /\ best \in Int /\ head \in Int /\ num \in Int /\ endNum \in Int /\ MaxBlock \in Int
         /\ Window \in Int /\ Window >= 1
         /\ \A n : n \in Block <=> n \in Int /\ 0 <= n /\ n <= MaxBlock
    BY RowsAssumption DEF Block
  <1>1. CASE UNCHANGED vars
    BY <1>1 DEF vars, Entry
  <1>2. CASE ChainGrows
    <2>1. best' \in Block /\ head' <= best' /\ best' = best + 1
      BY <1>00, <1>2 DEF ChainGrows
    <2>2. UNCHANGED <<chain, head, pc, num, pos, endNum, fast, ids, answer>>
      BY <1>2 DEF ChainGrows
    <2>3. Entry' = Entry
      BY <2>2 DEF Entry
    <2>4. pc' \notin {"down", "idle"} => endNum' <= best' /\ (fast' => endNum' < best')
      BY <1>00, <2>1, <2>2
    <2>. QED  BY <2>1, <2>2, <2>3, <2>4
  <1>3. CASE Start
    BY <1>3 DEF Start
  <1>4. CASE BeginRound
    <2>1. RoundEnd \in Int /\ head < RoundEnd /\ RoundEnd <= best /\ RoundEnd <= head + Window
            /\ (RoundEnd < best => RoundEnd = head + Window)
      BY <1>00, <1>4 DEF BeginRound, RoundEnd
    <2>2. /\ endNum' = RoundEnd /\ num' = head + 1 /\ pos' = 1 /\ pc' = "work"
          /\ UNCHANGED <<chain, best, head, ids, answer>>
      BY <1>4 DEF BeginRound
    <2>3. fast' \in BOOLEAN /\ (fast' <=> RoundEnd < best)
      <3>1. fast' = (RoundEnd < best)
        BY <1>4 DEF BeginRound
      <3>2. (RoundEnd < best) \in BOOLEAN
        BY <1>00, <2>1
      <3>. HIDE DEF RoundEnd
      <3>. QED  BY <3>1, <3>2
    <2>. HIDE DEF RoundEnd
    <2>. QED  BY <1>00, <2>1, <2>2, <2>3
  <1>5. ASSUME Handle PROVE ControlTyped'
    <2>0. pc \in Working /\ pos <= Len(Script[chain][num]) /\ pc = "work"
      BY <1>5 DEF Handle, CreateContract, Upgrade, Destruct, NewCommittee, OpenBuckets, Handling
    <2>1. Entry \in Entries
      BY <2>0, EntryIs
    <2>2. CASE OpenBuckets
      <3>1. Entry.kind = "bucket" /\ Entry.ids \in Seq(Bucket)
        BY <2>1, <2>2, EntryFields DEF OpenBuckets, Handling
      <3>2. UNCHANGED <<chain, best, head, num, pos, endNum, fast, answer>> /\ pc' = "asking" /\ ids' = Entry.ids
        BY <2>2 DEF OpenBuckets, Skip
      <3>3. Entry' = Entry
        BY <3>2 DEF Entry
      <3>. QED  BY <2>0, <3>1, <3>2, <3>3
    <2>3. CASE CreateContract \/ Upgrade \/ Destruct \/ NewCommittee
      <3>1. UNCHANGED <<chain, best, head, num, pc, endNum, fast, ids, answer>> /\ pos' = pos + 1
        BY <2>3 DEF CreateContract, Upgrade, Destruct, NewCommittee, Handled
      <3>. QED  BY <2>0, <3>1
    <2>. QED  BY <1>5, <2>2, <2>3 DEF Handle
  <1>6. ASSUME Buckets PROVE ControlTyped'
    <2>0. << >> \in Seq(Bucket) /\ (ids # << >> => Head(ids) \in Bucket /\ Tail(ids) \in Seq(Bucket))
      OBVIOUS
    <2>1. ASSUME Leave, UNCHANGED <<chain, best, head, num, endNum, fast>>, pc \in Working PROVE ControlTyped'
      BY <2>0, <2>1 DEF Leave
    <2>2. CASE CloseBuckets
      BY <2>1, <2>2 DEF CloseBuckets, Skip
    <2>3. CASE AskNode
      <3>1. BucketAt[chain][Head(ids)][best] \in Nat
        BY <2>0, <2>3, VersionTypes DEF AskNode
      <3>2. UNCHANGED <<chain, best, head, num, endNum, fast>> /\ pc \in Working /\ ids # << >>
        BY <2>3 DEF AskNode, Skip
      <3>3. CASE pc' = "answered" /\ UNCHANGED <<ids, pos>> /\ answer' = BucketAt[chain][Head(ids)][best]
        <4>1. Entry' = Entry
          BY <3>2, <3>3 DEF Entry
        <4>2. pos <= Len(Script[chain][num]) /\ Entry.kind = "bucket"
          BY <2>3 DEF AskNode
        <4>. QED  BY <3>1, <3>2, <3>3, <4>1, <4>2
      <3>. QED  BY <2>1, <2>3, <3>2, <3>3 DEF AskNode
    <2>4. CASE FindBucket
      BY <2>4 DEF FindBucket, Skip, Entry
    <2>5. CASE WriteBucket
      <3>1. UNCHANGED <<chain, best, head, num, endNum, fast>> /\ pc \in {"found", "missing"} /\ ids # << >>
        BY <2>5 DEF WriteBucket, Skip
      <3>2. CASE ids' = Tail(ids) /\ answer' = 0 /\ pc' = "asking" /\ pos' = pos
        <4>1. Entry' = Entry
          BY <3>1, <3>2 DEF Entry
        <4>2. pos <= Len(Script[chain][num]) /\ Entry.kind = "bucket"
          BY <3>1
        <4>. QED  BY <2>0, <3>1, <3>2, <4>1, <4>2
      <3>. QED  BY <2>1, <2>5, <3>1, <3>2 DEF WriteBucket
    <2>. QED  BY <1>6, <2>2, <2>3, <2>4, <2>5 DEF Buckets
  <1>7. CASE EndOfBlock
    <2>1. /\ UNCHANGED <<chain, best, head, endNum, fast, ids, answer>> /\ pos' = 1 /\ pc = "work"
          /\ \/ fast /\ num < endNum /\ num' = num + 1 /\ pc' = pc
             \/ ~ (fast /\ num < endNum) /\ num' = num /\ pc' = "save"
      BY <1>7 DEF EndOfBlock
    <2>. QED  BY <1>00, <2>1
  <1>8. ASSUME Save PROVE ControlTyped'
    <2>1. CASE SaveCommittees
      BY <2>1 DEF SaveCommittees
    <2>2. ASSUME NEW a \in Contract, SaveContract(a) PROVE ControlTyped'
      BY <2>2 DEF SaveContract
    <2>3. ASSUME NEW a \in Contract, ContractExisted(a) PROVE ControlTyped'
      BY <2>3 DEF ContractExisted
    <2>4. CASE SaveHead
      <3>1. /\ UNCHANGED <<chain, best, endNum, fast, pos, ids, answer>> /\ pc = "save" /\ head' = num
            /\ \/ num = endNum /\ pc' = "idle" /\ num' = num
               \/ num # endNum /\ pc' = "work" /\ num' = num + 1
        BY <2>4 DEF SaveHead
      <3>. QED  BY <1>00, <3>1
    <2>. QED  BY <1>8, <2>1, <2>2, <2>3, <2>4 DEF Save
  <1>9. CASE MetricStart \/ Compare \/ GetBuckets \/ DeleteAll \/ InsertAll \/ MetricFails
    <2>1. UNCHANGED <<chain, best, posVars>>
      BY <1>9 DEF MetricStart, Compare, GetBuckets, DeleteAll, InsertAll, MetricFails
    <2>. QED  BY <2>1 DEF Entry
  <1>10. CASE Swallowed
    <2>1. CASE Handled /\ pc = "work" /\ UNCHANGED <<pc, caches, asking>>
      BY <2>1 DEF Handled
    <2>2. CASE pc = "asking" /\ Leave /\ UNCHANGED Skip
      BY <2>2 DEF Leave, Skip
    <2>. QED  BY <1>10, <2>1, <2>2 DEF Swallowed, Handling
  <1>11. CASE Crash
    BY <1>11 DEF Crash
  <1>. QED
    BY <1>1, <1>2, <1>3, <1>4, <1>5, <1>6, <1>7, <1>8, <1>9, <1>10, <1>11
    DEF Next, PosStep, MetricStep, Fault, Waiting

LEMMA TypeStep ==
  ASSUME TypeInv, [Next]_vars PROVE TypeInv'
  <1>1. DataTyped' /\ ControlTyped'
    BY DataStep, ControlStep
  <1>2. RoundInv' => pos' \in Nat
    BY DEF RoundInv
  <1>. QED  BY <1>1, <1>2 DEF TypeInv, TypeOK, DataTyped, ControlTyped

\* TypeOK: every variable has its type, the process is never at a block that the node does not have,
\* and the head never passes the best block.
THEOREM SharedTypeCorrect == Spec => []TypeOK
  <1>1. Init => TypeInv
    BY TypeInit
  <1>2. TypeInv /\ [Next]_vars => TypeInv'
    BY TypeStep
  <1>3. TypeInv => TypeOK
    BY DEF TypeInv
  <1>. QED  BY <1>1, <1>2, <1>3, PTL DEF Spec
-----------------------------------------------------------------------------
(* How far the process is. *)

\* What has been handled since the last restart, and all that is committed.
Done ==
  { p \in PositionsOf(chain) :
      \/ p[1] <= head
      \/ pc \in Working /\ (p[1] < num \/ (p[1] = num /\ p[2] < pos))
      \/ pc \in Saving /\ p[1] <= num }

\* The next head: nothing that is behind it was handled since the head moved, by this process or
\* by one that crashed.
Reach == IF pc \in {"down", "idle"}
         THEN IF head + Window < best THEN head + Window ELSE head + 1
         ELSE IF fast THEN endNum ELSE head + 1

\* X has everything that is before anything in it.
Cut(c, X) == /\ X \subseteq PositionsOf(c)
             /\ \A p \in X : \A q \in PositionsOf(c) : Before(q, p) => q \in X
-----------------------------------------------------------------------------
(* Committees. *)

Starts(c, k) == { p \in PositionsOf(c) : E(c, p).kind = "committee" /\ E(c, p).epoch = k }

\* The end in a row of epoch k is the one known from X.
Ended(c, k, X, row) == /\ \A q \in Starts(c, k + 1) : q \in X => row.end = E(c, q).end
                       /\ (\A q \in Starts(c, k + 1) : q \notin X) => row.end = -1

\* Row and cached row of epoch k.  The row of an epoch that began up to the head may have its end
\* early; above the head there are rows after a crash, and during a save.
CommitteeInv(k) ==
  /\ \A p \in Starts(chain, k) : p[1] <= head =>
       /\ committee[k].start = p[1] /\ committeesCache[k] = NoCommittee
       /\ \A q \in Starts(chain, k + 1) : q \in Done => committee[k].end = E(chain, q).end
  /\ committee[k] # NoCommittee =>
       \E p \in Starts(chain, k) : /\ committee[k].start = p[1]
                                   /\ pc # "down" => p \in Done
                                   /\ pc \in Working \cup {"idle"} => p[1] <= head
  /\ committee[k].end # -1 =>
       \E q \in Starts(chain, k + 1) : q[1] <= Reach /\ committee[k].end = E(chain, q).end
  /\ committeesCache[k] # NoCommittee =>
       /\ \E p \in Starts(chain, k) : p \in Done /\ p[1] > head /\ committeesCache[k].start = p[1]
       /\ Ended(chain, k, Done, committeesCache[k])
  /\ \A p \in Starts(chain, k) : p \in Done /\ p[1] > head =>
       /\ pc \in Working => committeesCache[k] # NoCommittee
       /\ pc \in Saving => \/ committeesCache[k] # NoCommittee
                           \/ committee[k].start = p[1] /\ Ended(chain, k, Done, committee[k])
-----------------------------------------------------------------------------
(* Contracts. *)

Creates(c, a, X) == { p \in X : E(c, p).kind = "create" /\ E(c, p).of = a }

Destructs(c, a, X) == { p \in X : E(c, p).kind = "destruct" /\ E(c, p).of = a }

Upgrades(c, a, X) == { p \in X : E(c, p).kind = "upgrade" /\ E(c, p).of = a }

History(c, a, X) == Creates(c, a, X) \cup Destructs(c, a, X) \cup Upgrades(c, a, X)

\* There is a contract at a after X, and its upgrades.
AliveIn(c, a, X) == \E p \in Creates(c, a, X) : \A d \in Destructs(c, a, X) : Before(d, p)

Ups(c, a, X) == { u \in Upgrades(c, a, X) : \A p \in Creates(c, a, X) : Before(p, u) }

IsLast(S, p) == p \in S /\ \A q \in S : q # p => Before(q, p)

\* The row has the implementation after X, and the one before that.
ImplRight(c, a, X, row) == \A u \in Ups(c, a, X) : IsLast(Ups(c, a, X), u) => row.impl = E(c, u).impl

PrevRight(c, a, X, row) ==
  \A w \in Ups(c, a, X) :
    /\ E(c, w).impl # row.impl
    /\ \A v \in Ups(c, a, X) : Before(w, v) => E(c, v).impl = row.impl
    => row.prev = E(c, w).impl

RightAs(c, a, X, row) == ImplRight(c, a, X, row) /\ PrevRight(c, a, X, row)

\* When the rest of Z has been handled, as X has, the row is right: it is right already, for some Y
\* that a process came to before it crashed; or its implementation will change, and then the one
\* before it is right too.
Recovers(c, a, X, Z, row) ==
  \/ \E Y \in SUBSET Z : Cut(c, Y) /\ X \subseteq Y /\ RightAs(c, a, Y, row)
  \/ \E u, v \in Upgrades(c, a, Z \ X) : E(c, u).impl # E(c, v).impl
  \/ ImplRight(c, a, X, row) /\ \E u \in Upgrades(c, a, Z \ X) : E(c, u).impl # row.impl

\* The implementation after block n, and one that was read before it was set.
ImplIn(c, a, n) == IF AliveIn(c, a, UpTo(c, n)) /\ Ups(c, a, UpTo(c, n)) # {}
                   THEN E(c, Last(Ups(c, a, UpTo(c, n)))).impl ELSE 0

Early(c, a, n, b, row) == row.impl = 0 \/ \E m \in n..b : row.impl = ImplIn(c, a, m)

IsLive(row) == row.status \in {"live", "redeployed"}

\* Between head h and the next head d.
Batch(c, h, d) == UpTo(c, d) \ UpTo(c, h)

\* A row that was there at head h, when X has been handled and b is the best block.
OldRow(c, a, h, d, X, b, row) ==
  LET alive == AliveIn(c, a, UpTo(c, h))
      created == Creates(c, a, Batch(c, h, d)) # {}
  IN /\ row.seen <= h
     /\ IsLive(row) => alive
     /\ alive /\ Destructs(c, a, Batch(c, h, d)) = {} => IsLive(row)
     /\ IsLive(row) => \A e \in Destructs(c, a, X) : e \in UpTo(c, h)
     /\ Exists(row) => History(c, a, UpTo(c, h)) # {}
     /\ ~ created /\ History(c, a, UpTo(c, h)) # {} => Exists(row)
     /\ ~ created /\ alive => Recovers(c, a, X, UpTo(c, d), row)
     /\ ~ created /\ alive /\ Ups(c, a, UpTo(c, d)) = {} => Early(c, a, h, b, row)

\* A row that was made in this round.
CachedRow(c, a, h, d, X, b, row) ==
  /\ row.status \in {"live", "destructed"}
  /\ row.status = "live" <=> AliveIn(c, a, X)
  /\ h < row.seen /\ row.seen <= d
  /\ RightAs(c, a, X, row)
  /\ Ups(c, a, X) = {} => Early(c, a, d, b, row)

\* The same, when it has been saved.
SavedRow(row, kept) ==
  /\ row.impl = kept.impl /\ row.prev = kept.prev /\ row.seen = kept.seen
  /\ Exists(row)
  /\ IsLive(row) <=> kept.status = "live"

IsSaved(a) == pc \in Saving /\ Cached(a) /\ a \notin toSave

\* A crash leaves rows that were saved, until they are removed.
Remains(a) == pc = "down" /\ contract[a].seen > head /\ Creates(chain, a, Batch(chain, head, Reach)) # {}

ContractInv(a) ==
  /\ Cached(a) <=> \E p \in Creates(chain, a, Done) : p \notin UpTo(chain, head)
  /\ Cached(a) => CachedRow(chain, a, head, Reach, Done, best, contractsCache[a])
  /\ pc \in Saving /\ a \in toSave => Cached(a)
  /\ IsSaved(a) => SavedRow(contract[a], contractsCache[a])
  /\ IsSaved(a) \/ Remains(a) \/ OldRow(chain, a, head, Reach, Done, best, contract[a])

Inv == /\ TypeInv
       /\ \A k \in Epoch : CommitteeInv(k)
       /\ NoneSwallowed => \A a \in Contract : Spaced(a) => ContractInv(a)
-----------------------------------------------------------------------------
(* How far a step takes the process. *)

LEMMA DoneFacts ==
  ASSUME TypeInv
  PROVE  /\ Cut(chain, Done)
         /\ UpTo(chain, head) \subseteq Done /\ Done \subseteq UpTo(chain, Reach)
         /\ Reach \in Int /\ head < Reach
         /\ \A p \in PositionsOf(chain) : p[1] \in Int /\ p[2] \in Int /\ 1 <= p[1]
         /\ pc \in {"down", "idle"} => Done = UpTo(chain, head)
         /\ pc \notin {"down", "idle"} => head < num /\ num <= Reach /\ Reach <= best
         /\ pc \in Saving => Done = UpTo(chain, num) /\ num = Reach
  <1>1. /\ best \in Int /\ head \in Int /\ num \in Int /\ endNum \in Int
        /\ Window \in Int /\ Window >= 1 /\ pos \in Int
    BY NumType
  <1>2. \A p \in PositionsOf(chain) : p[1] \in Int /\ p[2] \in Int /\ 1 <= p[1]
    BY NumType, PositionType
  <1>3. pc \in {"down", "idle"} \/ pc \in Working \/ pc \in Saving
    BY DEF TypeInv, TypeOK, Working, Saving
  <1>4. /\ Reach \in Int /\ head < Reach
        /\ pc \notin {"down", "idle"} => head < num /\ num <= Reach /\ Reach <= best
        /\ pc \in Saving => num = Reach
    BY <1>1 DEF Reach, TypeInv, RoundInv, Saving
  <1>5. pc \in {"down", "idle"} => Done = UpTo(chain, head)
    BY DEF Done, UpTo, Working, Saving
  <1>6. pc \in Saving => Done = UpTo(chain, num)
    BY <1>1, <1>2, <1>4 DEF Done, UpTo, Working, Saving
  <1>7. UpTo(chain, head) \subseteq Done
    BY DEF Done, UpTo
  <1>8. Done \subseteq UpTo(chain, Reach)
    BY <1>1, <1>2, <1>4 DEF Done, UpTo, Working, Saving
  <1>9. Cut(chain, Done)
    <2>. SUFFICES ASSUME NEW p \in Done, NEW q \in PositionsOf(chain), Before(q, p) PROVE q \in Done
      BY DEF Cut, Done
    <2>1. p \in PositionsOf(chain)
      BY DEF Done
    <2>2. p[1] \in Int /\ p[2] \in Int /\ q[1] \in Int /\ q[2] \in Int
      BY <1>2, <2>1
    <2>3. q[1] <= p[1] /\ (q[1] = p[1] => q[2] < p[2])
      BY <2>2 DEF Before
    <2>. QED  BY <1>1, <2>2, <2>3 DEF Done
  <1>. QED  BY <1>2, <1>4, <1>5, <1>6, <1>7, <1>8, <1>9

\* The chain stays, and the next head does not come closer.
LEMMA StepFacts ==
  ASSUME TypeInv, [Next]_vars
  PROVE  /\ chain' = chain
         /\ best \in Int /\ best' \in Int /\ best <= best'
         /\ ~ SaveHead => head' = head /\ Reach <= Reach' /\ Reach' \in Int
         /\ ~ SaveHead /\ pc \notin {"down", "idle"} /\ pc' \notin {"down", "idle"} => Reach' = Reach
  <1>. USE DEF posVars, metricVars, rows, round, caches, asking
  <1>1. /\ best \in Int /\ head \in Int /\ num \in Int /\ endNum \in Int
        /\ Window \in Int /\ Window >= 1
    BY NumType
  <1>2. CASE ChainGrows
    <2>1. best' = best + 1 /\ UNCHANGED <<chain, head, pc, fast, endNum>>
      BY <1>2 DEF ChainGrows
    <2>. QED  BY <1>1, <2>1 DEF Reach
  <1>3. CASE BeginRound
    <2>1. /\ endNum' = RoundEnd /\ UNCHANGED <<chain, best, head>> /\ pc = "idle" /\ pc' = "work"
          /\ RoundEnd > head
          /\ fast' = (RoundEnd < best)
      BY <1>3 DEF BeginRound
    <2>2. RoundEnd \in Int /\ (RoundEnd < best <=> head + Window < best)
            /\ (RoundEnd < best => RoundEnd = head + Window)
      BY <1>1 DEF RoundEnd
    <2>3. (RoundEnd < best) \in BOOLEAN
      BY <1>1, <2>2
    <2>4. fast' <=> head + Window < best
      <3>. HIDE DEF RoundEnd
      <3>. QED  BY <2>1, <2>2, <2>3
    <2>5. Reach = IF head + Window < best THEN head + Window ELSE head + 1
      BY <2>1 DEF Reach
    <2>6. Reach' = IF fast' THEN endNum' ELSE head + 1
      BY <2>1 DEF Reach
    <2>. QED  BY <1>1, <2>1, <2>2, <2>4, <2>5, <2>6
  <1>4. CASE SaveHead
    BY <1>1, <1>4 DEF SaveHead
  <1>5. CASE Crash
    <2>1. UNCHANGED <<chain, best, head>> /\ pc # "down" /\ pc' = "down"
      BY <1>5 DEF Crash
    <2>2. Reach' = IF head + Window < best THEN head + Window ELSE head + 1
      BY <2>1 DEF Reach
    <2>3. pc # "idle" => /\ fast => endNum = head + Window /\ endNum < best
                         /\ Reach = IF fast THEN endNum ELSE head + 1
      BY <2>1 DEF Reach, TypeInv, RoundInv
    <2>4. pc = "idle" => Reach = IF head + Window < best THEN head + Window ELSE head + 1
      BY DEF Reach
    <2>. QED  BY <1>1, <2>1, <2>2, <2>3, <2>4
  <1>6. CASE Start
    BY <1>1, <1>6 DEF Start, Reach
  <1>7. ASSUME /\ UNCHANGED <<chain, best, head, fast, endNum>>
               /\ pc' = pc \/ (pc \notin {"down", "idle"} /\ pc' \notin {"down", "idle"})
        PROVE  /\ chain' = chain /\ best' = best /\ best \in Int
               /\ head' = head /\ Reach <= Reach' /\ Reach' \in Int
               /\ pc \notin {"down", "idle"} /\ pc' \notin {"down", "idle"} => Reach' = Reach
    BY <1>1, <1>7 DEF Reach
  <1>8. CASE UNCHANGED vars
    BY <1>1, <1>7, <1>8 DEF vars
  <1>9. CASE Handle
    BY <1>1, <1>7, <1>9 DEF Handle, CreateContract, Upgrade, Destruct, NewCommittee, OpenBuckets, Handled, Handling, Skip
  <1>10. CASE Buckets
    BY <1>1, <1>7, <1>10 DEF Buckets, CloseBuckets, AskNode, FindBucket, WriteBucket, Leave, Skip
  <1>11. CASE EndOfBlock
    BY <1>1, <1>7, <1>11 DEF EndOfBlock
  <1>12. CASE SaveCommittees \/ \E a \in Contract : SaveContract(a) \/ ContractExisted(a)
    BY <1>1, <1>7, <1>12 DEF SaveCommittees, SaveContract, ContractExisted
  <1>13. CASE MetricStart \/ Compare \/ GetBuckets \/ DeleteAll \/ InsertAll \/ MetricFails
    BY <1>1, <1>7, <1>13 DEF MetricStart, Compare, GetBuckets, DeleteAll, InsertAll, MetricFails
  <1>14. CASE Swallowed
    BY <1>1, <1>7, <1>14 DEF Swallowed, Handled, Handling, Leave, Skip
  <1>. QED
    BY <1>1, <1>2, <1>3, <1>4, <1>5, <1>6, <1>8, <1>9, <1>10, <1>11, <1>12, <1>13, <1>14
    DEF Next, PosStep, MetricStep, Fault, Waiting, Save

\* An entry is handled: the next position is added.
LEMMA HandledDone ==
  ASSUME TypeInv, pc \in Working, pos <= Len(Script[chain][num]),
         UNCHANGED <<chain, head, num>>, pos' = pos + 1, pc' \in Working
  PROVE  /\ Done' = Done \cup {<<num, pos>>}
         /\ <<num, pos>> \in PositionsOf(chain) /\ <<num, pos>> \notin Done
         /\ E(chain, <<num, pos>>) = Entry
         /\ Cut(chain, Done \cup {<<num, pos>>})
         /\ \A p \in PositionsOf(chain) : Before(p, <<num, pos>>) <=> p \in Done
  <1>. DEFINE cur == <<num, pos>>
  <1>1. cur \in PositionsOf(chain) /\ E(chain, cur) = Entry
    BY EntryIs
  <1>2. head \in Int /\ num \in Int /\ pos \in Int /\ head < num /\ pc \notin Saving
    BY NumType DEF TypeInv, RoundInv, Working, Saving
  <1>3. \A p \in PositionsOf(chain) : p[1] \in Int /\ p[2] \in Int /\ p = <<p[1], p[2]>>
    BY NumType, PositionType
  <1>4. cur[1] = num /\ cur[2] = pos
    OBVIOUS
  <1>5. \A p \in PositionsOf(chain) : p = cur <=> p[1] = num /\ p[2] = pos
    BY <1>3
  <1>. HIDE DEF cur
  <1>6. \A p \in PositionsOf(chain) : Before(p, cur) <=> p \in Done
    BY <1>2, <1>3, <1>4 DEF Before, Done
  <1>7. \A p \in PositionsOf(chain) : p \in Done' <=> p \in Done \/ p = cur
    BY <1>2, <1>3, <1>5 DEF Done, Working, Saving
  <1>8. Done' = Done \cup {cur}
    BY <1>1, <1>7 DEF Done
  <1>9. cur \notin Done
    BY <1>1, <1>2, <1>4 DEF Done
  <1>10. Cut(chain, Done \cup {cur})
    BY <1>1, <1>6, DoneFacts DEF Cut
  <1>. QED  BY <1>1, <1>6, <1>8, <1>9, <1>10 DEF cur

LEMMA SameDone ==
  ASSUME UNCHANGED <<chain, head, num, pos>>,
         \/ pc' = pc
         \/ pc \in Working /\ pc' \in Working
         \/ pc \in Saving /\ pc' \in Saving
         \/ pc = "down" /\ pc' = "idle"
  PROVE  Done' = Done
  BY DEF Done, Working, Saving

LEMMA EndOfBlockDone ==
  ASSUME TypeInv, EndOfBlock
  PROVE  Done' = Done
  <1>1. /\ head \in Int /\ num \in Int /\ pos \in Int /\ head < num /\ pc = "work"
        /\ UNCHANGED <<chain, head>> /\ pos' = 1 /\ pos > Len(Script[chain][num])
        /\ \/ num' = num + 1 /\ pc' = "work"
           \/ num' = num /\ pc' = "save"
    BY NumType DEF EndOfBlock, TypeInv, RoundInv
  <1>2. \A p \in PositionsOf(chain) : /\ p[1] \in Int /\ p[2] \in Int /\ 1 <= p[2]
                                      /\ p[2] <= Len(Script[chain][p[1]])
                                      /\ Len(Script[chain][p[1]]) \in Int
    <2>. SUFFICES ASSUME NEW p \in PositionsOf(chain)
                  PROVE  /\ p[1] \in Int /\ p[2] \in Int /\ 1 <= p[2]
                         /\ p[2] <= Len(Script[chain][p[1]])
                         /\ Len(Script[chain][p[1]]) \in Int
      OBVIOUS
    <2>1. p[1] \in 1..MaxBlock /\ p[2] \in 1..Len(Script[chain][p[1]]) /\ p[2] \in Nat
      BY NumType, PositionType
    <2>2. Len(Script[chain][p[1]]) \in Nat
      BY <2>1, NumType, ChainAssumption
    <2>. QED  BY <2>1, <2>2
  <1>3. \A p \in PositionsOf(chain) : p[1] = num => p[2] < pos
    BY <1>1, <1>2
  <1>. QED  BY <1>1, <1>2, <1>3 DEF Done, Working, Saving

LEMMA BeginRoundDone ==
  ASSUME TypeInv, BeginRound
  PROVE  Done' = Done
  <1>1. head \in Int /\ UNCHANGED <<chain, head>> /\ num' = head + 1 /\ pos' = 1 /\ pc = "idle" /\ pc' = "work"
    BY NumType DEF BeginRound
  <1>2. \A p \in PositionsOf(chain) : p[1] \in Int /\ p[2] \in Int /\ 1 <= p[2]
    BY NumType, PositionType
  <1>. QED  BY <1>1, <1>2 DEF Done, Working, Saving

LEMMA SaveHeadDone ==
  ASSUME TypeInv, SaveHead
  PROVE  /\ Done' = Done /\ Done = UpTo(chain, num) /\ Done' = UpTo(chain', head')
         /\ num = Reach /\ Reach' \in Int /\ head' = num /\ num < Reach' /\ Reach' <= num + Window
         /\ chain' = chain /\ best' = best /\ pc' \in {"idle", "work"}
  <1>1. /\ head \in Int /\ num \in Int /\ head < num /\ pc = "save" /\ UNCHANGED <<chain, best, pos, fast, endNum>>
        /\ head' = num /\ pos = 1
        /\ \/ num' = num /\ pc' = "idle"
           \/ num' = num + 1 /\ pc' = "work"
    BY NumType DEF SaveHead, TypeInv, RoundInv, Saving, rows
  <1>2. \A p \in PositionsOf(chain) : p[1] \in Int /\ p[2] \in Int /\ 1 <= p[2]
    BY NumType, PositionType
  <1>3. Done = UpTo(chain, num) /\ num = Reach
    BY <1>1, DoneFacts DEF Saving
  <1>4. Done' = UpTo(chain, num)
    BY <1>1, <1>2 DEF Done, UpTo, Working, Saving
  <1>5. Reach' \in Int /\ num < Reach' /\ Reach' <= num + Window
    <2>1. CASE pc' = "idle"
      BY <1>1, <2>1, NumType DEF Reach
    <2>2. CASE pc' = "work"
      <3>1. ~ fast
        BY <1>1, <2>2, NumType DEF SaveHead, TypeInv, RoundInv, Saving
      <3>. QED  BY <1>1, <2>2, <3>1, NumType DEF Reach
    <2>. QED  BY <1>1, <2>1, <2>2
  <1>. QED  BY <1>1, <1>3, <1>4, <1>5
-----------------------------------------------------------------------------
(* Committees. *)

LEMMA StartFacts ==
  ASSUME NEW c \in Chain
  PROVE  /\ \A k : Starts(c, k) \subseteq PositionsOf(c)
         /\ \A k \in Epoch : \A p, q \in Starts(c, k) : p = q
         /\ \A k \in Epoch, j \in Epoch : \A p \in Starts(c, k) : \A q \in Starts(c, j) : k < j => Before(p, q)
         /\ \A k : \A p \in Starts(c, k) : k \in Epoch /\ E(c, p).end \in -1..MaxBlock
  <1>1. \A k : Starts(c, k) \subseteq PositionsOf(c)
    BY DEF Starts
  <1>2. \A p, q \in PositionsOf(c) : E(c, p).kind = "committee" /\ E(c, q).kind = "committee" /\ Before(p, q) =>
                              E(c, p).epoch < E(c, q).epoch
    BY ChainAssumption DEF PositionsOf, E
  <1>3. Epoch \subseteq Nat
    BY RowsAssumption
  <1>4. \A k \in Epoch : \A p, q \in Starts(c, k) : p = q
    BY <1>1, <1>2, <1>3, Order DEF Starts
  <1>5. \A k \in Epoch, j \in Epoch : \A p \in Starts(c, k) : \A q \in Starts(c, j) : k < j => Before(p, q)
    BY <1>1, <1>2, <1>3, Order DEF Starts
  <1>6. \A k : \A p \in Starts(c, k) : k \in Epoch /\ E(c, p).end \in -1..MaxBlock
    BY PositionType, EntryFields DEF Starts
  <1>. QED  BY <1>1, <1>4, <1>5, <1>6

\* A step that leaves the committees alone, and handles none.
LEMMA CommitteeSame ==
  ASSUME NEW k \in Epoch, CommitteeInv(k),
         UNCHANGED <<chain, head, committee, committeesCache>>,
         \A p \in PositionsOf(chain) : E(chain, p).kind = "committee" => (p \in Done' <=> p \in Done),
         Reach \in Int, Reach' \in Int, Reach <= Reach',
         \A p \in PositionsOf(chain) : p[1] \in Int,
         pc' # "down" => pc # "down",
         pc' \in Working \cup {"idle"} => pc \in Working \cup {"idle"},
         pc' \in Working => pc \in Working \/ Done \subseteq UpTo(chain, head),
         pc' \in Saving => pc \in Working \cup Saving, head \in Int
  PROVE  CommitteeInv(k)'
  <1>1. \A j, p : p \in Starts(chain, j) => p \in PositionsOf(chain) /\ (p \in Done' <=> p \in Done)
    BY DEF Starts
  <1>2. \A p \in PositionsOf(chain) : p \in UpTo(chain, head) => ~ (p[1] > head)
    BY DEF UpTo
  <1>3. \A j, row : Ended(chain, j, Done', row) <=> Ended(chain, j, Done, row)
    BY <1>1 DEF Ended
  <1>4. /\ \A p \in Starts(chain, k) : p[1] <= head =>
             /\ committee[k].start = p[1] /\ committeesCache[k] = NoCommittee
             /\ \A q \in Starts(chain, k + 1) : q \in Done' => committee[k].end = E(chain, q).end
        /\ committee[k] # NoCommittee =>
             \E p \in Starts(chain, k) : /\ committee[k].start = p[1]
                                         /\ pc' # "down" => p \in Done'
                                         /\ pc' \in Working \cup {"idle"} => p[1] <= head
    BY <1>1 DEF CommitteeInv
  <1>5. committee[k].end # -1 =>
             \E q \in Starts(chain, k + 1) : q[1] <= Reach' /\ committee[k].end = E(chain, q).end
    BY <1>1 DEF CommitteeInv
  <1>6. committeesCache[k] # NoCommittee =>
             /\ \E p \in Starts(chain, k) : p \in Done' /\ p[1] > head /\ committeesCache[k].start = p[1]
             /\ Ended(chain, k, Done', committeesCache[k])
    BY <1>1, <1>3 DEF CommitteeInv
  <1>7. \A p \in Starts(chain, k) : p \in Done' /\ p[1] > head =>
             /\ pc' \in Working => committeesCache[k] # NoCommittee
             /\ pc' \in Saving => \/ committeesCache[k] # NoCommittee
                                  \/ committee[k].start = p[1] /\ Ended(chain, k, Done', committee[k])
    BY <1>1, <1>2, <1>3 DEF CommitteeInv, Working, Saving
  <1>. QED  BY <1>4, <1>5, <1>6, <1>7 DEF CommitteeInv

(* The steps that write committees. *)

LEMMA NotNone ==
  \A row \in CommitteeRow : row.start # -1 => row # NoCommittee
  BY DEF CommitteeRow, NoCommittee

\* The start of epoch e: its row is new, and its predecessor gets its end.
LEMMA NewCommitteeStep ==
  ASSUME TypeInv, NewCommittee, \A k \in Epoch : CommitteeInv(k), NEW k \in Epoch
  PROVE  CommitteeInv(k)'
  <1>. DEFINE c == chain
              cur == <<num, pos>>
              e == Entry.epoch
              S == Starts(chain, k)
              T == Starts(chain, k + 1)
  <1>1. /\ pc = "work" /\ pos <= Len(Script[chain][num]) /\ Entry.kind = "committee"
        /\ UNCHANGED <<chain, head, num, pc, fast, endNum>> /\ pos' = pos + 1
        /\ EndOfEpoch(e - 1, Entry.end)
    BY DEF NewCommittee, Handling, Handled
  <1>2. /\ Done' = Done \cup {cur} /\ cur \in PositionsOf(c) /\ cur \notin Done /\ E(c, cur) = Entry
        /\ \A p \in PositionsOf(c) : Before(p, cur) <=> p \in Done
    BY <1>1, HandledDone DEF Working
  <1>3. e \in Epoch /\ e \in Int /\ e - 1 \in Int /\ (e - 1) + 1 = e /\ k \in Int /\ Entry.end \in -1..MaxBlock
    <2>1. Entry \in Entries
      BY <1>1, EntryIs DEF Working
    <2>2. e \in Epoch /\ Entry.end \in -1..MaxBlock
      BY <1>1, <2>1, EntryFields
    <2>3. e \in Nat /\ k \in Nat
      BY <2>2, RowsAssumption
    <2>. HIDE DEF e
    <2>. QED  BY <2>2, <2>3
  <1>4. c \in Chain /\ num \in Int /\ head \in Int /\ head < num /\ num <= Reach /\ Reach' = Reach /\ 1 <= num
    <2>1. Reach' = Reach
      BY <1>1 DEF Reach
    <2>. QED  BY <1>1, <2>1, NumType, DoneFacts
  <1>5. /\ committee \in [Epoch -> CommitteeRow] /\ committeesCache \in [Epoch -> CommitteeRow]
    BY DEF TypeInv, TypeOK
  <1>6. cur \in Starts(c, e) /\ (\A p \in Starts(c, e) : p = cur) /\ cur[1] = num
    <2>1. cur \in Starts(c, e)
      BY <1>1, <1>2 DEF Starts
    <2>. QED  BY <2>1, <1>3, <1>4, StartFacts
  <1>7. \A p \in Starts(c, e + 1) : p \notin Done /\ p # cur
    <2>. SUFFICES ASSUME NEW p \in Starts(c, e + 1) PROVE p \notin Done /\ p # cur
      OBVIOUS
    <2>1. p \in PositionsOf(c) /\ e + 1 \in Epoch /\ e < e + 1
      BY <1>3, <1>4, StartFacts
    <2>2. Before(cur, p)
      BY <1>3, <1>4, <1>6, <2>1, StartFacts
    <2>. QED  BY <1>2, <1>4, <2>1, <2>2, Order
  <1>8. \A j : \A p \in Starts(c, j) : /\ p \in PositionsOf(c) /\ (p \in Done' <=> p \in Done \/ p = cur)
                                       /\ p = cur => j = e
                                       /\ 1 <= p[1] /\ p[1] \in Int /\ j \in Epoch
    <2>. SUFFICES ASSUME NEW j, NEW p \in Starts(c, j)
                  PROVE  /\ p \in PositionsOf(c) /\ (p \in Done' <=> p \in Done \/ p = cur)
                         /\ p = cur => j = e
                         /\ 1 <= p[1] /\ p[1] \in Int /\ j \in Epoch
      OBVIOUS
    <2>1. p \in PositionsOf(c) /\ j \in Epoch
      BY <1>4, StartFacts
    <2>2. p = cur => j = e
      BY <1>2 DEF Starts
    <2>. QED  BY <1>2, <2>1, <2>2, DoneFacts
  <1>9. CommitteeInv(k)
    OBVIOUS
  <1>. DEFINE new == [start |-> num, end |-> -1]
              pushed == [committeesCache EXCEPT ![e] = new]
  <1>10. /\ committeesCache'[k] = IF k = e THEN new
                                  ELSE IF k = e - 1 /\ committeesCache[k] # NoCommittee
                                  THEN [committeesCache[k] EXCEPT !.end = Entry.end]
                                  ELSE committeesCache[k]
         /\ committee'[k] = IF /\ k = e - 1 /\ committeesCache[k] = NoCommittee
                               /\ committee[k] # NoCommittee
                            THEN [committee[k] EXCEPT !.end = Entry.end] ELSE committee[k]
    <2>1. pushed \in [Epoch -> CommitteeRow] /\ pushed[e] = new /\ (k # e => pushed[k] = committeesCache[k])
      BY <1>3, <1>4, <1>5, RowTypes DEF TypeInv, TypeOK
    <2>2. e - 1 # e
      BY <1>3
    <2>3. \/ /\ e - 1 \in Epoch /\ pushed[e - 1] # NoCommittee
             /\ committeesCache' = [pushed EXCEPT ![e - 1].end = Entry.end] /\ committee' = committee
          \/ /\ e - 1 \in Epoch /\ pushed[e - 1] = NoCommittee
             /\ committeesCache' = pushed
             /\ committee' = IF committee[e - 1] # NoCommittee THEN [committee EXCEPT ![e - 1].end = Entry.end]
                                                      ELSE committee
          \/ /\ e - 1 \notin Epoch
             /\ committeesCache' = pushed
             /\ committee' = committee
      BY <1>1, <1>3 DEF EndOfEpoch
    <2>. HIDE DEF pushed, new, e
    <2>4. CASE k = e - 1
      BY <1>5, <2>1, <2>2, <2>3, <2>4
    <2>5. CASE k # e - 1
      BY <1>5, <2>1, <2>2, <2>3, <2>5
    <2>. QED  BY <2>4, <2>5
  <1>11. /\ committee[k] \in CommitteeRow /\ committeesCache[k] \in CommitteeRow
    BY <1>5
  <1>. HIDE DEF cur, e, c
  <1>12. CASE k # e /\ k # e - 1
    <2>1. committeesCache'[k] = committeesCache[k] /\ committee'[k] = committee[k] /\ k + 1 # e
      BY <1>3, <1>10, <1>12
    <2>2. \A p \in S : p \in Done' <=> p \in Done
      BY <1>8, <1>12 DEF c
    <2>3. \A p \in T : p \in Done' <=> p \in Done
      BY <1>8, <2>1 DEF c
    <2>4. \A row : Ended(chain, k, Done', row) <=> Ended(chain, k, Done, row)
      BY <2>3 DEF Ended
    <2>. QED  BY <1>1, <1>4, <1>9, <2>1, <2>2, <2>3, <2>4 DEF CommitteeInv, Ended, Working, Saving
  <1>13. CASE k = e
    <2>1. committeesCache'[k] = new /\ committee'[k] = committee[k]
      BY <1>3, <1>10, <1>13
    <2>2. S = {cur} /\ cur \in Done' /\ cur[1] > head /\ cur[1] = num
      BY <1>2, <1>4, <1>6, <1>13 DEF c
    <2>3. \A q \in T : q \notin Done'
      BY <1>7, <1>8, <1>13 DEF c
    <2>4. new # NoCommittee /\ new.start = num /\ new.end = -1
      BY <1>4 DEF NoCommittee
    <2>5. committee[k] = NoCommittee
      BY <1>1, <1>4, <1>9, <2>2 DEF CommitteeInv, Working
    <2>6. committee[k].end = -1
      BY <2>5 DEF NoCommittee
    <2>. HIDE DEF new
    <2>. QED  BY <1>1, <1>4, <2>1, <2>2, <2>3, <2>4, <2>5, <2>6 DEF CommitteeInv, Ended, Working, Saving
  <1>14. CASE k = e - 1
    <2>1. k # e /\ k + 1 = e
      BY <1>3, <1>14
    <2>2. T = {cur} /\ cur \in Done' /\ cur[1] <= Reach' /\ E(chain, cur).end = Entry.end
      BY <1>2, <1>4, <1>6, <2>1 DEF c
    <2>3. \A p \in S : (p \in Done' <=> p \in Done) /\ 1 <= p[1] /\ p[1] \in Int
      BY <1>8, <2>1 DEF c
    <2>4. /\ committee'[k].start = committee[k].start
          /\ committeesCache'[k].start = committeesCache[k].start
          /\ committee'[k] # NoCommittee => committee[k] # NoCommittee
          /\ committeesCache'[k] # NoCommittee <=> committeesCache[k] # NoCommittee
          /\ committee'[k] = committee[k] \/ committee'[k].end = Entry.end
          /\ committeesCache[k] = NoCommittee /\ committee[k] # NoCommittee => committee'[k].end = Entry.end
          /\ committeesCache[k] # NoCommittee => committeesCache'[k].end = Entry.end
      <3>1. committeesCache[k] # NoCommittee =>
               \E p \in S : committeesCache[k].start = p[1]
        BY <1>9 DEF CommitteeInv
      <3>2. committeesCache[k] # NoCommittee => committeesCache[k].start # -1
        BY <2>3, <3>1
      <3>3. committeesCache[k] # NoCommittee =>
              /\ committeesCache'[k] = [committeesCache[k] EXCEPT !.end = Entry.end]
              /\ committeesCache'[k].start = committeesCache[k].start
              /\ committeesCache'[k].end = Entry.end
        BY <1>10, <1>11, <1>14, <2>1 DEF CommitteeRow
      <3>4. committeesCache'[k] # NoCommittee <=> committeesCache[k] # NoCommittee
        <4>1. committeesCache[k] = NoCommittee => committeesCache'[k] = NoCommittee
          BY <1>10, <2>1
        <4>2. NoCommittee.start = -1
          BY DEF NoCommittee
        <4>. QED  BY <3>2, <3>3, <4>1, <4>2
      <3>5. committeesCache[k] = NoCommittee => committeesCache'[k] = NoCommittee
        BY <1>10, <2>1
      <3>6. \/ committee'[k] = committee[k]
            \/ /\ committee[k] # NoCommittee
               /\ committee'[k] = [committee[k] EXCEPT !.end = Entry.end]
               /\ committee'[k].start = committee[k].start /\ committee'[k].end = Entry.end
        BY <1>10, <1>11 DEF CommitteeRow
      <3>7. committeesCache[k] = NoCommittee /\ committee[k] # NoCommittee =>
               committee'[k] = [committee[k] EXCEPT !.end = Entry.end] /\ committee'[k].end = Entry.end
        BY <1>10, <1>11, <1>14 DEF CommitteeRow
      <3>. QED  BY <3>3, <3>4, <3>5, <3>6, <3>7
    <2>5. \A p \in S : p[1] <= head => committee[k] # NoCommittee /\ committeesCache[k] = NoCommittee
      BY <1>9, <1>11, <2>3, NotNone DEF CommitteeInv
    <2>6. committeesCache'[k] = NoCommittee <=> committeesCache[k] = NoCommittee
      BY <2>4
    <2>7. \A p \in S : p[1] <= head =>
            /\ committee'[k].start = p[1] /\ committeesCache'[k] = NoCommittee
            /\ \A q \in T : q \in Done' => committee'[k].end = E(chain, q).end
      BY <1>9, <2>2, <2>4, <2>5, <2>6 DEF CommitteeInv
    <2>8. committee'[k] # NoCommittee =>
            \E p \in S : /\ committee'[k].start = p[1]
                         /\ pc' # "down" => p \in Done'
                         /\ pc' \in Working \cup {"idle"} => p[1] <= head
      BY <1>1, <1>9, <2>3, <2>4 DEF CommitteeInv
    <2>9. committee'[k].end # -1 => \E q \in T : q[1] <= Reach' /\ committee'[k].end = E(chain, q).end
      BY <1>4, <1>9, <2>2, <2>4 DEF CommitteeInv
    <2>10. committeesCache'[k] # NoCommittee =>
            /\ \E p \in S : p \in Done' /\ p[1] > head /\ committeesCache'[k].start = p[1]
            /\ Ended(chain, k, Done', committeesCache'[k])
      BY <1>9, <2>2, <2>3, <2>4 DEF CommitteeInv, Ended
    <2>11. \A p \in S : p \in Done' /\ p[1] > head => committeesCache'[k] # NoCommittee
      BY <1>1, <1>9, <2>3, <2>4 DEF CommitteeInv, Working
    <2>. QED  BY <1>1, <2>7, <2>8, <2>9, <2>10, <2>11 DEF CommitteeInv, Working, Saving, Ended
  <1>. QED  BY <1>12, <1>13, <1>14

LEMMA StartCommittees ==
  ASSUME TypeInv, Start, NEW k \in Epoch, CommitteeInv(k)
  PROVE  CommitteeInv(k)'
  <1>1. /\ pc = "down" /\ pc' = "idle" /\ UNCHANGED <<chain, head, num, pos, best, committeesCache>>
        /\ committee'[k] = IF committee[k].start > head THEN NoCommittee ELSE committee[k]
    BY DEF Start, round, caches
  <1>2. Done' = Done /\ Done = UpTo(chain, head) /\ Reach' = Reach
    BY <1>1, SameDone, DoneFacts DEF Reach
  <1>3. head \in Int /\ \A j : \A p \in Starts(chain, j) : p[1] \in Int /\ (p \in Done <=> p[1] <= head)
    BY <1>2, NumType, DoneFacts DEF Starts, UpTo
  <1>4. committeesCache[k] = NoCommittee
    BY <1>3 DEF CommitteeInv
  <1>5. NoCommittee.start = -1 /\ NoCommittee.end = -1
    BY DEF NoCommittee
  <1>6. CASE committee[k].start > head
    <2>1. committee'[k] = NoCommittee
      BY <1>1, <1>6
    <2>2. \A p \in Starts(chain, k) : ~ (p[1] <= head)
      BY <1>3, <1>6 DEF CommitteeInv
    <2>. QED  BY <1>1, <1>2, <1>3, <1>4, <1>5, <2>1, <2>2 DEF CommitteeInv, Working, Saving
  <1>7. CASE ~ (committee[k].start > head)
    <2>1. committee'[k] = committee[k]
      BY <1>1, <1>7
    <2>2. committee[k] # NoCommittee => \E p \in Starts(chain, k) : committee[k].start = p[1] /\ p[1] <= head
      BY <1>3, <1>7 DEF CommitteeInv
    <2>. QED  BY <1>1, <1>2, <1>3, <1>4, <2>1, <2>2 DEF CommitteeInv, Working, Saving
  <1>. QED  BY <1>6, <1>7

LEMMA SaveCommitteesStep ==
  ASSUME TypeInv, SaveCommittees, NEW k \in Epoch, CommitteeInv(k)
  PROVE  CommitteeInv(k)'
  <1>1. /\ pc = "save" /\ UNCHANGED <<chain, head, num, pos, best, pc, fast, endNum>>
        /\ committeesCache'[k] = NoCommittee
        /\ committee'[k] = IF committeesCache[k] # NoCommittee THEN committeesCache[k] ELSE committee[k]
    BY DEF SaveCommittees, round, WithCommittees, NewEpochs
  <1>2. Done' = Done /\ Done = UpTo(chain, num) /\ Reach' = Reach /\ num = Reach
    BY <1>1, SameDone, DoneFacts DEF Reach, Saving
  <1>3. /\ head \in Int /\ num \in Int
        /\ \A j : \A p \in Starts(chain, j) : p[1] \in Int /\ (p \in Done <=> p[1] <= num)
    BY <1>2, NumType, DoneFacts DEF Starts, UpTo
  <1>4. CASE committeesCache[k] = NoCommittee
    <2>1. committee'[k] = committee[k]
      BY <1>1, <1>4
    <2>. QED  BY <1>1, <1>2, <1>4, <2>1 DEF CommitteeInv, Working, Saving, Ended
  <1>5. CASE committeesCache[k] # NoCommittee
    <2>1. committee'[k] = committeesCache[k]
      BY <1>1, <1>5
    <2>2. PICK p \in Starts(chain, k) : p \in Done /\ p[1] > head /\ committeesCache[k].start = p[1]
      BY <1>5 DEF CommitteeInv
    <2>3. \A q \in Starts(chain, k) : q = p
      BY NumType, StartFacts
    <2>4. Ended(chain, k, Done, committee'[k])
      BY <1>5, <2>1 DEF CommitteeInv
    <2>5. committee'[k].end # -1 => \E q \in Starts(chain, k + 1) : q[1] <= Reach /\ committee'[k].end = E(chain, q).end
      BY <1>2, <1>3, <2>4 DEF Ended
    <2>6. ~ (p[1] <= head)
      BY <1>3, <2>2
    <2>. QED  BY <1>1, <1>2, <2>1, <2>2, <2>3, <2>4, <2>5, <2>6 DEF CommitteeInv, Working, Saving, Ended
  <1>. QED  BY <1>4, <1>5

\* When the head moves the committees are those of the chain.
LEMMA SaveHeadCommittees ==
  ASSUME TypeInv, SaveHead, NEW k \in Epoch, CommitteeInv(k)
  PROVE  CommitteeInv(k)' /\ committee[k] = CommitteeAt(k, head')
  <1>. DEFINE S == Starts(chain, k)
              T == Starts(chain, k + 1)
  <1>1. /\ Done' = Done /\ Done = UpTo(chain, num) /\ num = Reach /\ Reach' \in Int /\ head' = num
        /\ num < Reach' /\ chain' = chain /\ pc' \in {"idle", "work"}
    BY SaveHeadDone
  <1>2. /\ pc = "save" /\ committeesCache[k] = NoCommittee /\ committeesCache'[k] = NoCommittee
        /\ committee' = committee
    BY DEF SaveHead, NewEpochs, EmptyCaches, rows
  <1>3. /\ head \in Int /\ num \in Int /\ chain \in Chain /\ head < num
        /\ \A j : \A p \in Starts(chain, j) : /\ p[1] \in Int /\ 1 <= p[1] /\ (p \in Done <=> p[1] <= num)
                                              /\ p \in PositionsOf(chain)
    BY <1>1, <1>2, NumType, DoneFacts DEF Starts, UpTo
  <1>4. committee[k] \in CommitteeRow
    BY DEF TypeInv, TypeOK
  <1>5. \A p \in S : p[1] <= num => committee[k].start = p[1] /\ Ended(chain, k, Done, committee[k])
    <2>. SUFFICES ASSUME NEW p \in S, p[1] <= num
                  PROVE  committee[k].start = p[1] /\ Ended(chain, k, Done, committee[k])
      OBVIOUS
    <2>1. CASE p[1] > head
      BY <1>2, <1>3, <2>1 DEF CommitteeInv, Saving
    <2>2. CASE p[1] <= head
      <3>1. committee[k].start = p[1] /\ \A q \in T : q \in Done => committee[k].end = E(chain, q).end
        BY <2>2 DEF CommitteeInv
      <3>2. (\A q \in T : q \notin Done) => committee[k].end = -1
        BY <1>1, <1>3 DEF CommitteeInv
      <3>. QED  BY <3>1, <3>2 DEF Ended
    <2>. QED  BY <1>3, <2>1, <2>2
  <1>6. (\A p \in S : ~ (p[1] <= num)) => committee[k] = NoCommittee
    BY <1>2, <1>3 DEF CommitteeInv
  <1>7. \A p \in S : p[1] <= num => committee[k] # NoCommittee
    BY <1>3, <1>4, <1>5, NotNone
  <1>8. CommitteeInv(k)'
    <2>1. \A p \in S : p[1] <= num =>
             /\ committee[k].start = p[1]
             /\ \A q \in T : q \in Done => committee[k].end = E(chain, q).end
      BY <1>5 DEF Ended
    <2>2. committee[k] # NoCommittee => \E p \in S : committee[k].start = p[1] /\ p \in Done /\ p[1] <= num
      BY <1>2, <1>3 DEF CommitteeInv
    <2>3. committee[k].end # -1 => \E q \in T : q[1] <= Reach' /\ committee[k].end = E(chain, q).end
      BY <1>1, <1>3 DEF CommitteeInv
    <2>4. \A p \in S : ~ (p \in Done /\ p[1] > num)
      BY <1>3
    <2>. QED  BY <1>1, <1>2, <2>1, <2>2, <2>3, <2>4 DEF CommitteeInv, Working, Saving
  <1>9. committee[k] = CommitteeAt(k, num)
    <2>. DEFINE C == { p \in Of("committee", Positions) : p[1] <= num }
                start(j) == { p \in C : At(p).epoch = j }
    <2>1. \A j : start(j) = { p \in Starts(chain, j) : p[1] <= num }
      BY DEF Of, Positions, At, Starts, PositionsOf, E
    <2>2. CommitteeAt(k, num) = IF start(k) = {} THEN NoCommittee
                                ELSE [start |-> Last(start(k))[1],
                                      end |-> IF start(k + 1) = {} THEN -1 ELSE At(Last(start(k + 1))).end]
      BY DEF CommitteeAt
    <2>3. \A j \in Epoch : \A p \in start(j) : start(j) \subseteq PositionsOf(chain) /\ Last(start(j)) = p
      <3>. SUFFICES ASSUME NEW j \in Epoch, NEW p \in start(j)
                    PROVE  start(j) \subseteq PositionsOf(chain) /\ Last(start(j)) = p
        OBVIOUS
      <3>1. start(j) \subseteq PositionsOf(chain) /\ \A q \in start(j) : q = p
        BY <1>3, <2>1, StartFacts
      <3>. HIDE DEF start
      <3>. QED  BY <1>3, <3>1, LastUnique
    <2>4. \A j : start(j) # {} => j \in Epoch
      BY <1>3, <2>1, StartFacts
    <2>. HIDE DEF start, C
    <2>5. CASE start(k) = {}
      <3>1. \A p \in S : ~ (p[1] <= num)
        BY <2>1, <2>5
      <3>. QED  BY <1>6, <2>2, <2>5, <3>1
    <2>6. CASE start(k) # {}
      <3>1. PICK p \in start(k) : TRUE
        BY <2>6
      <3>2. p \in S /\ p[1] <= num /\ Last(start(k)) = p
        BY <2>1, <2>3, <3>1
      <3>3. committee[k].start = p[1] /\ Ended(chain, k, Done, committee[k])
        BY <1>5, <3>2
      <3>4. committee[k].end = IF start(k + 1) = {} THEN -1 ELSE At(Last(start(k + 1))).end
        <4>1. CASE start(k + 1) = {}
          BY <1>3, <2>1, <3>3, <4>1 DEF Ended
        <4>2. CASE start(k + 1) # {}
          <5>1. PICK q \in start(k + 1) : TRUE
            BY <4>2
          <5>2. Last(start(k + 1)) = q /\ q \in T /\ q[1] <= num
            BY <2>1, <2>3, <2>4, <4>2, <5>1
          <5>3. At(q).end = E(chain, q).end
            BY DEF At, E
          <5>4. committee[k].end = E(chain, q).end
            BY <1>3, <3>3, <5>2 DEF Ended
          <5>. QED  BY <4>2, <5>2, <5>3, <5>4
        <4>. QED  BY <4>1, <4>2
      <3>5. committee[k] = [start |-> committee[k].start, end |-> committee[k].end]
        BY <1>4 DEF CommitteeRow
      <3>. QED  BY <2>2, <2>6, <3>2, <3>3, <3>4, <3>5
    <2>. QED  BY <2>5, <2>6
  <1>10. committee[k] = CommitteeAt(k, head')
    BY <1>1, <1>9
  <1>. QED  BY <1>8, <1>10

LEMMA CrashCommittees ==
  ASSUME TypeInv, Crash, NEW k \in Epoch, CommitteeInv(k)
  PROVE  CommitteeInv(k)'
  <1>1. /\ pc # "down" /\ pc' = "down" /\ UNCHANGED <<chain, head, num, pos, best, endNum, fast>>
        /\ committeesCache'[k] = NoCommittee
    BY DEF Crash, round, EmptyCaches
  <1>2. \/ committee'[k] = committee[k]
        \/ committeesCache[k] # NoCommittee /\ committee'[k] = committeesCache[k]
    BY DEF Crash, CutShort, WithCommittees, NewEpochs
  <1>3. Done' = UpTo(chain, head) /\ UpTo(chain, head) \subseteq Done /\ Done \subseteq UpTo(chain, Reach)
    BY <1>1, DoneFacts DEF Done, UpTo, Working, Saving
  <1>4. Reach \in Int /\ Reach' \in Int /\ Reach <= Reach'
    <2>1. ~ SaveHead
      BY <1>1 DEF SaveHead
    <2>. QED  BY <2>1, DoneFacts, StepFacts DEF Next, Fault
  <1>5. /\ head \in Int /\ chain \in Chain
        /\ \A j : \A p \in Starts(chain, j) : p[1] \in Int /\ (p \in Done' => p \in Done)
             /\ (p \in Done => p[1] <= Reach) /\ (p \in Done' <=> p[1] <= head)
    BY <1>3, NumType, DoneFacts DEF Starts, UpTo
  <1>6. CASE committee'[k] = committee[k]
    <2>1. \A p \in Starts(chain, k) : p[1] <= head =>
             /\ committee'[k].start = p[1] /\ committeesCache'[k] = NoCommittee
             /\ \A q \in Starts(chain, k + 1) : q \in Done' => committee'[k].end = E(chain, q).end
      BY <1>1, <1>5, <1>6 DEF CommitteeInv
    <2>2. committee'[k] # NoCommittee => \E p \in Starts(chain, k) : committee'[k].start = p[1]
      BY <1>6 DEF CommitteeInv
    <2>3. committee'[k].end # -1 => \E q \in Starts(chain, k + 1) : q[1] <= Reach' /\ committee'[k].end = E(chain, q).end
      BY <1>4, <1>5, <1>6 DEF CommitteeInv
    <2>. QED  BY <1>1, <1>5, <2>1, <2>2, <2>3 DEF CommitteeInv, Working, Saving
  <1>7. CASE committeesCache[k] # NoCommittee /\ committee'[k] = committeesCache[k]
    <2>1. PICK p \in Starts(chain, k) : p \in Done /\ p[1] > head /\ committeesCache[k].start = p[1]
      BY <1>7 DEF CommitteeInv
    <2>2. Ended(chain, k, Done, committeesCache[k])
      BY <1>7 DEF CommitteeInv
    <2>3. \A q \in Starts(chain, k) : ~ (q[1] <= head)
      BY <1>5, <2>1, StartFacts
    <2>4. committee'[k].end # -1 => \E q \in Starts(chain, k + 1) : q[1] <= Reach' /\ committee'[k].end = E(chain, q).end
      BY <1>4, <1>5, <1>7, <2>2 DEF Ended
    <2>. QED  BY <1>1, <1>5, <1>7, <2>1, <2>3, <2>4 DEF CommitteeInv, Working, Saving
  <1>. QED  BY <1>2, <1>6, <1>7
-----------------------------------------------------------------------------
(* The steps that write neither contracts nor committees. *)

\* u is the entry behind X.
NextOf(c, X, u) == /\ u \in PositionsOf(c) /\ u \notin X
                   /\ \A p \in PositionsOf(c) : Before(p, u) <=> p \in X

Elsewhere ==
  \/ UNCHANGED vars
  \/ ChainGrows \/ BeginRound \/ OpenBuckets \/ Buckets \/ EndOfBlock
  \/ \E a \in Contract : ContractExisted(a)
  \/ MetricStep \/ MetricFails
  \/ Swallowed /\ pc = "asking"

LEMMA ElsewhereFacts ==
  ASSUME TypeInv, Elsewhere
  PROVE  /\ UNCHANGED <<chain, head, contract, committee, contractsCache, committeesCache>>
         /\ \A p \in PositionsOf(chain) : E(chain, p).kind # "bucket" => (p \in Done' <=> p \in Done)
         /\ \/ Done' = Done
            \/ /\ Done' = Done \cup {<<num, pos>>} /\ NextOf(chain, Done, <<num, pos>>)
               /\ E(chain, <<num, pos>>).kind = "bucket"
               /\ pc \in Working /\ pc' \in Working
         /\ \/ pc' = pc
            \/ pc \in Working /\ pc' \in Working
            \/ pc = "idle" /\ pc' = "work"
            \/ pc = "work" /\ pc' = "save"
            \/ pc = "save" /\ pc' = "stuck"
         /\ \/ toSave' = toSave /\ (pc' = "save" => pc = "save")
            \/ pc = "work" /\ pc' = "save" /\ toSave' = { a \in Contract : Cached(a) }
  <1>. USE DEF posVars, metricVars, rows, round, caches, asking
  <1>1. CASE UNCHANGED vars \/ ChainGrows \/ MetricStep \/ MetricFails
    <2>1. UNCHANGED <<chain, posVars>>
      BY <1>1 DEF vars, ChainGrows, MetricStep, MetricStart, Compare, GetBuckets, DeleteAll, InsertAll, MetricFails
    <2>. QED  BY <2>1, SameDone
  <1>2. CASE BeginRound
    BY <1>2, BeginRoundDone DEF BeginRound
  <1>3. CASE EndOfBlock
    <2>1. Done' = Done
      BY <1>3, EndOfBlockDone
    <2>2. /\ UNCHANGED <<chain, head, contract, committee, contractsCache, committeesCache>> /\ pc = "work"
          /\ \/ pc' = pc /\ toSave' = toSave
             \/ pc' = "save" /\ toSave' = { a \in Contract : Cached(a) }
      BY <1>3 DEF EndOfBlock
    <2>. QED  BY <2>1, <2>2
  <1>4. CASE \E a \in Contract : ContractExisted(a)
    BY <1>4, SameDone DEF ContractExisted, Saving
  <1>5. ASSUME Leave, UNCHANGED Skip, pc \in Working \ {"work"}
        PROVE  /\ UNCHANGED <<chain, head, contract, committee, contractsCache, committeesCache, toSave>>
               /\ \A p \in PositionsOf(chain) : E(chain, p).kind # "bucket" => (p \in Done' <=> p \in Done)
               /\ Done' = Done \cup {<<num, pos>>} /\ NextOf(chain, Done, <<num, pos>>)
               /\ E(chain, <<num, pos>>).kind = "bucket"
               /\ pc \in Working /\ pc' = "work"
    <2>1. /\ UNCHANGED <<chain, head, num, contract, committee, contractsCache, committeesCache, toSave>>
          /\ pos' = pos + 1 /\ pc' = "work"
      BY <1>5 DEF Leave, Skip
    <2>2. pos <= Len(Script[chain][num]) /\ Entry.kind = "bucket"
      BY <1>5 DEF TypeInv, RoundInv
    <2>3. /\ Done' = Done \cup {<<num, pos>>} /\ NextOf(chain, Done, <<num, pos>>)
          /\ E(chain, <<num, pos>>) = Entry
      BY <1>5, <2>1, <2>2, HandledDone DEF Working, NextOf
    <2>. QED  BY <1>5, <2>1, <2>2, <2>3
  <1>6. ASSUME UNCHANGED Skip, UNCHANGED pos, pc \in Working, pc' \in Working
        PROVE  /\ UNCHANGED <<chain, head, contract, committee, contractsCache, committeesCache, toSave>>
               /\ Done' = Done
    BY <1>6, SameDone DEF Skip
  <1>7. CASE OpenBuckets
    BY <1>6, <1>7 DEF OpenBuckets, Handling, Working
  <1>8. CASE Buckets
    <2>1. UNCHANGED Skip /\ pc \in Working \ {"work"}
      BY <1>8 DEF Buckets, CloseBuckets, AskNode, FindBucket, WriteBucket, Working
    <2>2. Leave \/ (UNCHANGED pos /\ pc' \in Working)
      BY <1>8 DEF Buckets, CloseBuckets, AskNode, FindBucket, WriteBucket, Working
    <2>. QED  BY <1>5, <1>6, <2>1, <2>2 DEF Working
  <1>9. CASE Swallowed /\ pc = "asking"
    <2>1. Leave /\ UNCHANGED Skip
      BY <1>9 DEF Swallowed, Handling
    <2>. QED  BY <1>5, <1>9, <2>1 DEF Working
  <1>. QED
    BY <1>1, <1>2, <1>3, <1>4, <1>7, <1>8, <1>9 DEF Elsewhere

\* Handlers of contracts, whether they succeed or not.
LEMMA ContractEntries ==
  ASSUME TypeInv, CreateContract \/ Upgrade \/ Destruct \/ (Swallowed /\ pc = "work")
  PROVE  /\ UNCHANGED <<chain, best, head, num, pc, fast, endNum, committee, committeesCache, toSave>> /\ pc = "work"
         /\ Entry.kind \in ContractKinds
         /\ Done' = Done \cup {<<num, pos>>}
         /\ <<num, pos>> \in PositionsOf(chain) /\ <<num, pos>> \notin Done
         /\ E(chain, <<num, pos>>) = Entry
         /\ Cut(chain, Done \cup {<<num, pos>>})
         /\ \A p \in PositionsOf(chain) : Before(p, <<num, pos>>) <=> p \in Done
         /\ Reach' = Reach
  <1>1. /\ UNCHANGED <<chain, best, head, num, pc, fast, endNum, committee, committeesCache, toSave>> /\ pc = "work"
        /\ Entry.kind \in ContractKinds /\ pos <= Len(Script[chain][num]) /\ pos' = pos + 1
    BY DEF CreateContract, Upgrade, Destruct, Swallowed, Handling, Handled, ContractKinds, rows, caches
  <1>2. Reach' = Reach
    BY <1>1 DEF Reach
  <1>. QED  BY <1>1, <1>2, HandledDone DEF Working

LEMMA CommitteeStep ==
  ASSUME TypeInv, [Next]_vars, \A k \in Epoch : CommitteeInv(k), NEW k \in Epoch
  PROVE  CommitteeInv(k)'
  <1>0. /\ Reach \in Int /\ head \in Int
        /\ \A p \in PositionsOf(chain) : p[1] \in Int
        /\ pc = "idle" => Done = UpTo(chain, head)
    BY NumType, DoneFacts
  <1>1. CASE Start
    BY <1>1, StartCommittees
  <1>2. CASE NewCommittee
    BY <1>2, NewCommitteeStep
  <1>3. CASE SaveCommittees
    BY <1>3, SaveCommitteesStep
  <1>4. CASE SaveHead
    BY <1>4, SaveHeadCommittees
  <1>5. CASE Crash
    BY <1>5, CrashCommittees
  <1>6. CASE Elsewhere /\ ~ SaveHead
    <2>1. Reach' \in Int /\ Reach <= Reach'
      BY <1>6, StepFacts
    <2>2. /\ UNCHANGED <<chain, head, committee, committeesCache>>
          /\ \A p \in PositionsOf(chain) : E(chain, p).kind # "bucket" => (p \in Done' <=> p \in Done)
          /\ \/ pc' = pc
             \/ pc \in Working /\ pc' \in Working
             \/ pc = "idle" /\ pc' = "work"
             \/ pc = "work" /\ pc' = "save"
             \/ pc = "save" /\ pc' = "stuck"
      BY <1>6, ElsewhereFacts
    <2>. QED  BY <1>0, <2>1, <2>2, CommitteeSame DEF Working, Saving
  <1>7. CASE CreateContract \/ Upgrade \/ Destruct \/ (Swallowed /\ pc = "work")
    <2>1. /\ UNCHANGED <<chain, head, pc, committee, committeesCache>> /\ Reach' = Reach
          /\ Entry.kind \in ContractKinds /\ pc = "work"
          /\ Done' = Done \cup {<<num, pos>>} /\ E(chain, <<num, pos>>) = Entry
      BY <1>7, ContractEntries
    <2>2. \A p \in PositionsOf(chain) : E(chain, p).kind = "committee" => (p \in Done' <=> p \in Done)
      BY <2>1 DEF ContractKinds
    <2>. QED  BY <1>0, <2>1, <2>2, CommitteeSame DEF Working, Saving
  <1>8. ASSUME NEW a \in Contract, SaveContract(a) PROVE CommitteeInv(k)'
    <2>1. /\ UNCHANGED <<chain, best, head, num, pos, fast, endNum, pc, committee, committeesCache>> /\ pc = "save"
      BY <1>8 DEF SaveContract, round, caches
    <2>2. Done' = Done /\ Reach' = Reach
      BY <2>1, SameDone DEF Reach
    <2>. QED  BY <1>0, <2>1, <2>2, CommitteeSame DEF Working, Saving
  <1>. QED
    <2>1. Swallowed => pc = "work" \/ pc = "asking"
      BY DEF Swallowed, Handling
    <2>. QED
      BY <2>1, <1>1, <1>2, <1>3, <1>4, <1>5, <1>6, <1>7, <1>8
      DEF Next, PosStep, MetricStep, Fault, Waiting, Save, Handle, Elsewhere
-----------------------------------------------------------------------------
(* The contracts at one address, entry by entry. *)

IsEntry(c, u, kind, a) == E(c, u).kind = kind /\ E(c, u).of = a

LEMMA Living ==
  ASSUME NEW c \in Chain, NEW a
  PROVE  LET P == PositionsOf(c)
         IN /\ \A p, q \in Creates(c, a, P) : Before(q, p) =>
                  \E d \in Destructs(c, a, P) : Before(d, p) /\ Before(q, d)
            /\ \A p \in Destructs(c, a, P) \cup Upgrades(c, a, P) : \E q \in Creates(c, a, P) :
                  Before(q, p) /\ \A d \in Destructs(c, a, P) : Before(d, p) => Before(d, q)
  <1>. DEFINE P == PositionsOf(c)
              Alive2(p) == \E q \in P : /\ Before(q, p) /\ E(c, q).kind = "create" /\ E(c, q).of = a
                                       /\ \A d \in P : E(c, d).kind = "destruct" /\ E(c, d).of = a /\ Before(d, p)
                                                         => Before(d, q)
  <1>1. \A p \in P : E(c, p).kind \in ContractKinds /\ E(c, p).of = a =>
                        (E(c, p).kind = "create" <=> ~ Alive2(p))
    <2>. DEFINE Q == UNION { {n} \X DOMAIN Script[c][n] : n \in 1..MaxBlock }
                F(p) == Script[c][p[1]][p[2]]
                Does(p, kind, x) == F(p).kind = kind /\ F(p).of = x
                Liv(p, x) == \E q \in Q : /\ Before(q, p) /\ Does(q, "create", x)
                                          /\ \A d \in Q : Does(d, "destruct", x) /\ Before(d, p) => Before(d, q)
    <2>1. \A p \in Q : F(p).kind \in ContractKinds => (F(p).kind = "create" <=> ~ Liv(p, F(p).of))
      BY ChainAssumption
    <2>2. P = Q /\ \A p : F(p) = E(c, p)
      BY DEF PositionsOf, E
    <2>3. \A p, x, kind : Does(p, kind, x) <=> E(c, p).kind = kind /\ E(c, p).of = x
      BY <2>2
    <2>. HIDE DEF P, Q, F
    <2>4. \A p \in P : E(c, p).kind \in ContractKinds => (E(c, p).kind = "create" <=> ~ Liv(p, E(c, p).of))
      BY <2>1, <2>2
    <2>. HIDE DEF Does
    <2>5. \A p : Liv(p, a) <=> Alive2(p)
      BY <2>2, <2>3
    <2>. HIDE DEF Liv, Alive2
    <2>. QED  BY <2>4, <2>5
  <1>2. \A p, q \in Creates(c, a, P) : Before(q, p) => \E d \in Destructs(c, a, P) : Before(d, p) /\ ~ Before(d, q)
    <2>. SUFFICES ASSUME NEW p \in Creates(c, a, P), NEW q \in Creates(c, a, P), Before(q, p)
                  PROVE  \E d \in Destructs(c, a, P) : Before(d, p) /\ ~ Before(d, q)
      OBVIOUS
    <2>1. p \in P /\ q \in P /\ ~ Alive2(p) /\ E(c, q).kind = "create" /\ E(c, q).of = a
      BY <1>1 DEF Creates, ContractKinds
    <2>. QED  BY <2>1 DEF Destructs
  <1>3. \A d \in Destructs(c, a, P) : \A q \in Creates(c, a, P) : d \in P /\ q \in P /\ d # q
    BY DEF Destructs, Creates
  <1>4. \A p \in Destructs(c, a, P) \cup Upgrades(c, a, P) : \E q \in Creates(c, a, P) :
                  Before(q, p) /\ \A d \in Destructs(c, a, P) : Before(d, p) => Before(d, q)
    <2>. SUFFICES ASSUME NEW p \in Destructs(c, a, P) \cup Upgrades(c, a, P)
                  PROVE  \E q \in Creates(c, a, P) :
                            Before(q, p) /\ \A d \in Destructs(c, a, P) : Before(d, p) => Before(d, q)
      OBVIOUS
    <2>1. Alive2(p)
      BY <1>1 DEF Destructs, Upgrades, ContractKinds
    <2>. QED  BY <2>1 DEF Creates, Destructs
  <1>5. \A p, q \in Creates(c, a, P) : Before(q, p) => \E d \in Destructs(c, a, P) : Before(d, p) /\ Before(q, d)
    BY <1>2, <1>3, Order
  <1>. QED  BY <1>4, <1>5

\* What each kind of entry does to the contract and its upgrades.
LEMMA NextCreate ==
  ASSUME NEW c \in Chain, NEW a, NEW X, Cut(c, X), NEW u, NextOf(c, X, u), IsEntry(c, u, "create", a)
  PROVE  /\ ~ AliveIn(c, a, X) /\ AliveIn(c, a, X \cup {u})
         /\ Ups(c, a, X \cup {u}) = {}
         /\ u \in Creates(c, a, X \cup {u})
  <1>1. u \in Creates(c, a, PositionsOf(c)) /\ u \in Creates(c, a, X \cup {u})
    BY DEF NextOf, IsEntry, Creates
  <1>2. ~ AliveIn(c, a, X)
    <2>. SUFFICES ASSUME NEW p \in Creates(c, a, X), \A d \in Destructs(c, a, X) : Before(d, p) PROVE FALSE
      BY DEF AliveIn
    <2>1. p \in Creates(c, a, PositionsOf(c)) /\ Before(p, u) /\ p \in PositionsOf(c)
      BY DEF Creates, Cut, NextOf
    <2>2. PICK d \in Destructs(c, a, PositionsOf(c)) : Before(d, u) /\ Before(p, d)
      BY <1>1, <2>1, Living
    <2>3. d \in Destructs(c, a, X) /\ d \in PositionsOf(c)
      BY <2>2 DEF Destructs, NextOf
    <2>. QED  BY <2>1, <2>2, <2>3, Order
  <1>3. AliveIn(c, a, X \cup {u})
    BY <1>1 DEF AliveIn, Destructs, NextOf, IsEntry, Cut
  <1>4. Ups(c, a, X \cup {u}) = {}
    <2>. SUFFICES ASSUME NEW w \in Upgrades(c, a, X \cup {u}), Before(u, w) PROVE FALSE
      BY <1>1 DEF Ups
    <2>1. w \in X /\ w \in PositionsOf(c) /\ Before(w, u) /\ u \in PositionsOf(c)
      BY DEF Upgrades, IsEntry, NextOf, Cut
    <2>. QED  BY <2>1, Order
  <1>. QED  BY <1>1, <1>2, <1>3, <1>4

LEMMA NextUpgrade ==
  ASSUME NEW c \in Chain, NEW a, NEW X, Cut(c, X), NEW u, NextOf(c, X, u), IsEntry(c, u, "upgrade", a)
  PROVE  /\ AliveIn(c, a, X) /\ AliveIn(c, a, X \cup {u})
         /\ Ups(c, a, X \cup {u}) = Ups(c, a, X) \cup {u}
         /\ Creates(c, a, X \cup {u}) = Creates(c, a, X)
         /\ Destructs(c, a, X \cup {u}) = Destructs(c, a, X)
  <1>1. Creates(c, a, X \cup {u}) = Creates(c, a, X) /\ Destructs(c, a, X \cup {u}) = Destructs(c, a, X)
    BY DEF Creates, Destructs, IsEntry
  <1>2. u \in Upgrades(c, a, PositionsOf(c))
    BY DEF Upgrades, NextOf, IsEntry
  <1>3. PICK q \in Creates(c, a, PositionsOf(c)) :
                  Before(q, u) /\ \A d \in Destructs(c, a, PositionsOf(c)) : Before(d, u) => Before(d, q)
    BY <1>2, Living
  <1>4. q \in Creates(c, a, X)
    BY <1>3 DEF Creates, NextOf
  <1>5. AliveIn(c, a, X)
    BY <1>3, <1>4 DEF AliveIn, Destructs, NextOf, Cut
  <1>6. Ups(c, a, X \cup {u}) = Ups(c, a, X) \cup {u}
    <2>1. \A p \in Creates(c, a, X) : Before(p, u)
      BY DEF Creates, NextOf, Cut
    <2>2. Upgrades(c, a, X \cup {u}) = Upgrades(c, a, X) \cup {u}
      BY DEF Upgrades, IsEntry
    <2>. QED  BY <1>1, <2>1, <2>2 DEF Ups
  <1>. QED  BY <1>1, <1>5, <1>6 DEF AliveIn

LEMMA NextDestruct ==
  ASSUME NEW c \in Chain, NEW a, NEW X, Cut(c, X), NEW u, NextOf(c, X, u), IsEntry(c, u, "destruct", a)
  PROVE  /\ AliveIn(c, a, X) /\ ~ AliveIn(c, a, X \cup {u})
         /\ Ups(c, a, X \cup {u}) = Ups(c, a, X)
         /\ Creates(c, a, X \cup {u}) = Creates(c, a, X)
         /\ u \in Destructs(c, a, X \cup {u})
  <1>1. Creates(c, a, X \cup {u}) = Creates(c, a, X) /\ Upgrades(c, a, X \cup {u}) = Upgrades(c, a, X)
        /\ u \in Destructs(c, a, X \cup {u})
    BY DEF Creates, Upgrades, Destructs, IsEntry
  <1>2. u \in Destructs(c, a, PositionsOf(c))
    BY DEF Destructs, NextOf, IsEntry
  <1>3. PICK q \in Creates(c, a, PositionsOf(c)) :
                  Before(q, u) /\ \A d \in Destructs(c, a, PositionsOf(c)) : Before(d, u) => Before(d, q)
    BY <1>2, Living
  <1>4. q \in Creates(c, a, X)
    BY <1>3 DEF Creates, NextOf
  <1>5. AliveIn(c, a, X)
    BY <1>3, <1>4 DEF AliveIn, Destructs, NextOf, Cut
  <1>6. ~ AliveIn(c, a, X \cup {u})
    <2>. SUFFICES ASSUME NEW p \in Creates(c, a, X), Before(u, p) PROVE FALSE
      BY <1>1 DEF AliveIn
    <2>1. p \in PositionsOf(c) /\ Before(p, u) /\ u \in PositionsOf(c)
      BY DEF Creates, Cut, NextOf
    <2>. QED  BY <2>1, Order
  <1>. QED  BY <1>1, <1>5, <1>6 DEF Ups

LEMMA NextOther ==
  ASSUME NEW c \in Chain, NEW a, NEW X, NEW u,
         ~ IsEntry(c, u, "create", a), ~ IsEntry(c, u, "upgrade", a), ~ IsEntry(c, u, "destruct", a)
  PROVE  /\ Creates(c, a, X \cup {u}) = Creates(c, a, X)
         /\ Destructs(c, a, X \cup {u}) = Destructs(c, a, X)
         /\ Upgrades(c, a, X \cup {u}) = Upgrades(c, a, X)
         /\ Ups(c, a, X \cup {u}) = Ups(c, a, X)
         /\ AliveIn(c, a, X \cup {u}) <=> AliveIn(c, a, X)
  <1>1. /\ Creates(c, a, X \cup {u}) = Creates(c, a, X)
        /\ Destructs(c, a, X \cup {u}) = Destructs(c, a, X)
        /\ Upgrades(c, a, X \cup {u}) = Upgrades(c, a, X)
    BY DEF Creates, Destructs, Upgrades, IsEntry
  <1>. QED  BY <1>1 DEF Ups, AliveIn
-----------------------------------------------------------------------------
(* Implementations. *)

LEMMA UpsSub ==
  ASSUME NEW c \in Chain, NEW a, NEW X \in SUBSET PositionsOf(c)
  PROVE  /\ Ups(c, a, X) \subseteq X /\ Ups(c, a, X) \subseteq PositionsOf(c)
         /\ Ups(c, a, X) # {} => \E l \in Ups(c, a, X) : IsLast(Ups(c, a, X), l)
  <1>1. Ups(c, a, X) \subseteq X
    BY DEF Ups, Upgrades
  <1>2. Ups(c, a, X) # {} => IsLast(Ups(c, a, X), Last(Ups(c, a, X)))
    BY <1>1, LastIs DEF IsLast
  <1>. QED  BY <1>1, <1>2 DEF IsLast

\* The row moves on to the implementation of u.
LEMMA Moves ==
  ASSUME NEW c \in Chain, NEW a, NEW X \in SUBSET PositionsOf(c), NEW u \in PositionsOf(c),
         \A w \in X : Before(w, u), Ups(c, a, X \cup {u}) = Ups(c, a, X) \cup {u},
         NEW row, NEW new
  PROVE  /\ new.impl = E(c, u).impl => ImplRight(c, a, X \cup {u}, new)
         /\ ImplRight(c, a, X, row) /\ row.impl # E(c, u).impl /\ new.impl = E(c, u).impl /\ new.prev = row.impl
              => RightAs(c, a, X \cup {u}, new)
         /\ RightAs(c, a, X, row) /\ row.impl = E(c, u).impl => RightAs(c, a, X \cup {u}, row)
  <1>. DEFINE U == Ups(c, a, X)
              V == Ups(c, a, X \cup {u})
  <1>1. /\ V = U \cup {u} /\ u \in PositionsOf(c) /\ U \subseteq X /\ U \subseteq PositionsOf(c)
        /\ \A w \in U : Before(w, u) /\ ~ Before(u, w) /\ w # u
        /\ ~ Before(u, u)
    BY UpsSub, Order
  <1>2. \A w \in V : IsLast(V, w) <=> w = u
    BY <1>1 DEF IsLast
  <1>3. new.impl = E(c, u).impl => ImplRight(c, a, X \cup {u}, new)
    BY <1>2 DEF ImplRight
  <1>4. ASSUME ImplRight(c, a, X, row), row.impl # E(c, u).impl, new.impl = E(c, u).impl, new.prev = row.impl
        PROVE  PrevRight(c, a, X \cup {u}, new)
    <2>. SUFFICES ASSUME NEW w \in V, E(c, w).impl # new.impl, \A v \in V : Before(w, v) => E(c, v).impl = new.impl
                  PROVE  new.prev = E(c, w).impl
      BY DEF PrevRight
    <2>1. w \in U
      BY <1>1, <1>4
    <2>2. PICK l \in U : IsLast(U, l)
      BY <2>1, UpsSub
    <2>3. row.impl = E(c, l).impl
      BY <1>4, <2>2 DEF ImplRight
    <2>4. l = w \/ Before(w, l)
      BY <2>1, <2>2 DEF IsLast
    <2>5. ~ Before(w, l)
      BY <1>1, <1>4, <2>2, <2>3
    <2>. QED  BY <1>4, <2>3, <2>4, <2>5
  <1>5. ASSUME RightAs(c, a, X, row), row.impl = E(c, u).impl
        PROVE  PrevRight(c, a, X \cup {u}, row)
    BY <1>1, <1>5 DEF PrevRight, RightAs
  <1>6. row.impl = E(c, u).impl => ImplRight(c, a, X \cup {u}, row)
    BY <1>2 DEF ImplRight
  <1>. QED  BY <1>3, <1>4, <1>5, <1>6 DEF RightAs

LEMMA UpgradedFacts ==
  ASSUME NEW row \in ContractRow, NEW i
  PROVE  /\ Upgraded(row, i).status = row.status /\ Upgraded(row, i).seen = row.seen
         /\ ~ Exists(row) \/ row.impl = i => Upgraded(row, i) = row
         /\ Exists(row) /\ row.impl # i => Upgraded(row, i).impl = i /\ Upgraded(row, i).prev = row.impl
         /\ Exists(row) => Upgraded(row, i).impl = i
  BY DEF Upgraded, ContractRow, Exists

\* An upgrade keeps a row on the way to being right.
LEMMA RecoversUpgrade ==
  ASSUME NEW c \in Chain, NEW a, NEW X, Cut(c, X), NEW u, NextOf(c, X, u), IsEntry(c, u, "upgrade", a),
         NEW Z \in SUBSET PositionsOf(c), u \in Z, X \subseteq Z, Cut(c, Z), Creates(c, a, Z) \subseteq X,
         NEW row \in ContractRow, Exists(row), Recovers(c, a, X, Z, row)
  PROVE  Recovers(c, a, X \cup {u}, Z, Upgraded(row, E(c, u).impl))
  <1>. DEFINE new == Upgraded(row, E(c, u).impl)
              W == X \cup {u}
  <1>1. /\ new.impl = E(c, u).impl
        /\ row.impl = E(c, u).impl => new = row
        /\ row.impl # E(c, u).impl => new.prev = row.impl
    BY UpgradedFacts
  <1>2. X \subseteq PositionsOf(c) /\ u \in PositionsOf(c) /\ Ups(c, a, W) = Ups(c, a, X) \cup {u}
        /\ \A w \in X : Before(w, u)
    BY NextUpgrade DEF Cut, NextOf
  <1>. SUFFICES Recovers(c, a, W, Z, new)
    OBVIOUS
  <1>. HIDE DEF new
  <1>3. ImplRight(c, a, W, new)
    BY <1>1, <1>2, Moves
  <1>4. Cut(c, W) /\ W \subseteq Z
    <2>. SUFFICES ASSUME NEW p \in W, NEW q \in PositionsOf(c), Before(q, p) PROVE q \in W
      BY <1>2 DEF Cut
    <2>. QED  BY DEF Cut, NextOf
  <1>5. u \in Upgrades(c, a, Z)
    BY DEF Upgrades, IsEntry
  <1>6. Upgrades(c, a, Z \ W) = Upgrades(c, a, Z \ X) \ {u}
    BY DEF Upgrades
  <1>7. ASSUME ImplRight(c, a, X, row), row.impl # E(c, u).impl PROVE Recovers(c, a, W, Z, new)
    <2>1. RightAs(c, a, W, new)
      BY <1>1, <1>2, <1>7, Moves
    <2>. QED  BY <1>4, <2>1 DEF Recovers
  <1>8. CASE \E Y \in SUBSET Z : Cut(c, Y) /\ X \subseteq Y /\ RightAs(c, a, Y, row)
    <2>1. PICK Y \in SUBSET Z : Cut(c, Y) /\ X \subseteq Y /\ RightAs(c, a, Y, row)
      BY <1>8
    <2>2. CASE u \notin Y
      <3>1. Y = X
        <4>. SUFFICES ASSUME NEW p \in Y, p \notin X PROVE FALSE
          BY <2>1
        <4>1. p \in PositionsOf(c) /\ p # u /\ ~ Before(p, u)
          BY <2>1, <2>2 DEF Cut, NextOf
        <4>2. Before(u, p)
          BY <1>2, <4>1, Order
        <4>. QED  BY <1>2, <2>1, <2>2, <4>2 DEF Cut
      <3>2. CASE row.impl = E(c, u).impl
        <4>1. RightAs(c, a, W, new)
          BY <1>1, <1>2, <2>1, <3>1, <3>2, Moves
        <4>. QED  BY <1>4, <4>1 DEF Recovers
      <3>3. CASE row.impl # E(c, u).impl
        BY <1>7, <2>1, <3>1, <3>3 DEF RightAs
      <3>. QED  BY <3>2, <3>3
    <2>3. CASE u \in Y
      <3>1. u \in Ups(c, a, Y)
        <4>1. u \in Upgrades(c, a, Y)
          BY <2>3 DEF Upgrades, IsEntry
        <4>2. \A p \in Creates(c, a, Y) : Before(p, u)
          BY <1>2 DEF Creates
        <4>. QED  BY <4>1, <4>2 DEF Ups
      <3>2. PICK l \in Ups(c, a, Y) : IsLast(Ups(c, a, Y), l)
        BY <2>1, <3>1, UpsSub DEF Cut
      <3>3. row.impl = E(c, l).impl
        BY <2>1, <3>2 DEF RightAs, ImplRight
      <3>4. CASE row.impl = E(c, u).impl
        <4>1. W \subseteq Y /\ new = row
          BY <1>1, <2>1, <2>3, <3>4
        <4>. QED  BY <2>1, <4>1 DEF Recovers
      <3>5. CASE row.impl # E(c, u).impl
        <4>1. l # u /\ Before(u, l)
          BY <3>1, <3>2, <3>3, <3>5 DEF IsLast
        <4>2. l \in Z /\ l \in PositionsOf(c) /\ l \in Upgrades(c, a, Z)
          BY <2>1, UpsSub DEF Ups, Upgrades, Cut
        <4>3. l \notin X
          BY <1>2, <4>1, <4>2, Order
        <4>4. l \in Upgrades(c, a, Z \ W) /\ E(c, l).impl # new.impl
          BY <1>1, <3>3, <3>5, <4>1, <4>2, <4>3 DEF Upgrades
        <4>. QED  BY <1>3, <4>4 DEF Recovers
      <3>. QED  BY <3>4, <3>5
    <2>. QED  BY <2>2, <2>3
  <1>9. CASE \E v, w \in Upgrades(c, a, Z \ X) : E(c, v).impl # E(c, w).impl
    <2>1. PICK v \in Upgrades(c, a, Z \ X), w \in Upgrades(c, a, Z \ X) : E(c, v).impl # E(c, w).impl
      BY <1>9
    <2>2. CASE v # u /\ w # u
      <3>1. v \in Upgrades(c, a, Z \ W) /\ w \in Upgrades(c, a, Z \ W)
        BY <1>6, <2>1, <2>2
      <3>. QED  BY <2>1, <3>1 DEF Recovers
    <2>3. CASE v = u \/ w = u
      <3>1. \E y \in Upgrades(c, a, Z \ W) : E(c, y).impl # new.impl
        BY <1>1, <1>6, <2>1, <2>3
      <3>. QED  BY <1>3, <3>1 DEF Recovers
    <2>. QED  BY <2>2, <2>3
  <1>10. CASE ImplRight(c, a, X, row) /\ \E v \in Upgrades(c, a, Z \ X) : E(c, v).impl # row.impl
    <2>1. CASE row.impl # E(c, u).impl
      BY <1>7, <1>10, <2>1
    <2>2. CASE row.impl = E(c, u).impl
      <3>1. PICK v \in Upgrades(c, a, Z \ X) : E(c, v).impl # row.impl
        BY <1>10
      <3>2. v \in Upgrades(c, a, Z \ W) /\ new = row
        BY <1>1, <1>6, <2>2, <3>1
      <3>. QED  BY <1>3, <3>1, <3>2 DEF Recovers
    <2>. QED  BY <2>1, <2>2
  <1>. QED  BY <1>8, <1>9, <1>10 DEF Recovers

\* So does an entry that is none.
LEMMA RecoversOther ==
  ASSUME NEW c \in Chain, NEW a, NEW X, Cut(c, X), NEW u, NextOf(c, X, u),
         ~ IsEntry(c, u, "create", a), ~ IsEntry(c, u, "upgrade", a),
         Ups(c, a, X \cup {u}) = Ups(c, a, X),
         NEW Z \in SUBSET PositionsOf(c), u \in Z, X \subseteq Z,
         NEW row, NEW new, new.impl = row.impl, new.prev = row.prev, Recovers(c, a, X, Z, row)
  PROVE  Recovers(c, a, X \cup {u}, Z, new)
  <1>. DEFINE W == X \cup {u}
  <1>1. X \subseteq PositionsOf(c) /\ u \in PositionsOf(c) /\ \A w \in X : Before(w, u)
    BY DEF Cut, NextOf
  <1>2. Cut(c, W) /\ W \subseteq Z
    <2>. SUFFICES ASSUME NEW p \in W, NEW q \in PositionsOf(c), Before(q, p) PROVE q \in W
      BY <1>1 DEF Cut
    <2>. QED  BY DEF Cut, NextOf
  <1>3. Upgrades(c, a, Z \ W) = Upgrades(c, a, Z \ X)
    BY DEF Upgrades, IsEntry
  <1>4. CASE \E Y \in SUBSET Z : Cut(c, Y) /\ X \subseteq Y /\ RightAs(c, a, Y, row)
    <2>1. PICK Y \in SUBSET Z : Cut(c, Y) /\ X \subseteq Y /\ RightAs(c, a, Y, row)
      BY <1>4
    <2>2. RightAs(c, a, Y, new)
      BY <2>1 DEF RightAs, ImplRight, PrevRight
    <2>3. CASE u \in Y
      BY <2>1, <2>2, <2>3 DEF Recovers
    <2>4. CASE u \notin Y
      <3>1. Y = X
        <4>. SUFFICES ASSUME NEW p \in Y, p \notin X PROVE FALSE
          BY <2>1
        <4>1. p \in PositionsOf(c) /\ p # u /\ ~ Before(p, u)
          BY <2>1, <2>4 DEF Cut, NextOf
        <4>2. Before(u, p)
          BY <1>1, <4>1, Order
        <4>. QED  BY <1>1, <2>1, <2>4, <4>2 DEF Cut
      <3>2. RightAs(c, a, W, new)
        BY <2>2, <3>1 DEF RightAs, ImplRight, PrevRight
      <3>. QED  BY <1>2, <3>2 DEF Recovers
    <2>. QED  BY <2>3, <2>4
  <1>5. CASE \E v, w \in Upgrades(c, a, Z \ X) : E(c, v).impl # E(c, w).impl
    BY <1>3, <1>5 DEF Recovers
  <1>6. CASE ImplRight(c, a, X, row) /\ \E v \in Upgrades(c, a, Z \ X) : E(c, v).impl # row.impl
    <2>1. ImplRight(c, a, W, new)
      BY <1>6 DEF ImplRight
    <2>. QED  BY <1>3, <1>6, <2>1 DEF Recovers
  <1>. QED  BY <1>4, <1>5, <1>6 DEF Recovers

\* A crash goes back to H, and the next head may move away.
LEMMA RecoversCrash ==
  ASSUME NEW c \in Chain, NEW a, NEW X \in SUBSET PositionsOf(c), NEW H \in SUBSET X,
         Creates(c, a, X) \subseteq H,
         NEW Z \in SUBSET PositionsOf(c), X \subseteq Z, NEW V, Z \subseteq V,
         NEW row, Recovers(c, a, X, Z, row)
  PROVE  Recovers(c, a, H, V, row)
  <1>1. Upgrades(c, a, Z \ X) \subseteq Upgrades(c, a, V \ H)
    BY DEF Upgrades
  <1>2. CASE \E Y \in SUBSET Z : Cut(c, Y) /\ X \subseteq Y /\ RightAs(c, a, Y, row)
    BY <1>2 DEF Recovers
  <1>3. CASE \E v, w \in Upgrades(c, a, Z \ X) : E(c, v).impl # E(c, w).impl
    BY <1>1, <1>3 DEF Recovers
  <1>4. CASE ImplRight(c, a, X, row) /\ \E v \in Upgrades(c, a, Z \ X) : E(c, v).impl # row.impl
    <2>1. PICK v \in Upgrades(c, a, Z \ X) : E(c, v).impl # row.impl
      BY <1>4
    <2>2. Creates(c, a, H) = Creates(c, a, X)
      BY DEF Creates
    <2>3. Ups(c, a, H) \subseteq Ups(c, a, X)
      BY <2>2 DEF Ups, Upgrades
    <2>4. CASE Ups(c, a, X) = Ups(c, a, H)
      <3>1. ImplRight(c, a, H, row)
        BY <1>4, <2>4 DEF ImplRight
      <3>. QED  BY <1>1, <2>1, <3>1 DEF Recovers
    <2>5. CASE Ups(c, a, X) # Ups(c, a, H)
      <3>1. PICK l \in Ups(c, a, X) : IsLast(Ups(c, a, X), l)
        BY <2>3, <2>5, UpsSub
      <3>2. row.impl = E(c, l).impl
        BY <1>4, <3>1 DEF ImplRight
      <3>3. PICK w \in Ups(c, a, X) : w \notin Ups(c, a, H)
        BY <2>3, <2>5
      <3>4. w \notin H
        BY <2>2, <3>3 DEF Ups, Upgrades
      <3>5. CASE l \notin H
        <4>1. l \in Upgrades(c, a, V \ H)
          BY <3>1, <3>5 DEF Ups, Upgrades
        <4>. QED  BY <1>1, <2>1, <3>2, <4>1 DEF Recovers
      <3>6. CASE l \in H
        <4>1. l \in Ups(c, a, H)
          BY <2>2, <3>1, <3>6 DEF Ups, Upgrades
        <4>2. \A q \in Ups(c, a, H) : q # l => Before(q, l)
          BY <2>3, <3>1 DEF IsLast
        <4>3. ImplRight(c, a, H, row)
          <5>. SUFFICES ASSUME NEW q \in Ups(c, a, H), IsLast(Ups(c, a, H), q) PROVE row.impl = E(c, q).impl
            BY DEF ImplRight
          <5>1. q = l
            BY <2>3, <4>1, <4>2, UpsSub, Order DEF IsLast
          <5>. QED  BY <3>2, <5>1
        <4>. QED  BY <1>1, <2>1, <4>3 DEF Recovers
      <3>. QED  BY <3>5, <3>6
    <2>. QED  BY <2>4, <2>5
  <1>. QED  BY <1>2, <1>3, <1>4 DEF Recovers
-----------------------------------------------------------------------------
(* The batches of a contract that is Spaced. *)

\* One creation in a batch, of the first contract if it is destroyed in it, else after the last was.
SpacedIn(c, a, h, d) ==
  /\ \A p, q \in Creates(c, a, Batch(c, h, d)) : p = q
  /\ \A p \in Creates(c, a, Batch(c, h, d)) : \A e \in Destructs(c, a, Batch(c, h, d)) :
        Before(p, e) => History(c, a, UpTo(c, h)) = {}
  /\ \A p \in Creates(c, a, Batch(c, h, d)) :
        AliveIn(c, a, UpTo(c, h)) => \E e \in Destructs(c, a, Batch(c, h, d)) : Before(e, p)

\* Spaced, of a chain.
SpacedOn(c, a) ==
  \A p \in Creates(c, a, PositionsOf(c)) :
    \A q \in Creates(c, a, PositionsOf(c)) \cup Destructs(c, a, PositionsOf(c)) :
      Before(p, q) /\ q[1] < p[1] + Window =>
        /\ E(c, q).kind # "create"
        /\ E(c, q).kind = "destruct" => \A r \in Creates(c, a, PositionsOf(c)) : ~ Before(r, p)

LEMMA SpacedSays ==
  ASSUME TypeInv, NEW a \in Contract, Spaced(a)
  PROVE  SpacedOn(chain, a)
  <1>. DEFINE P == PositionsOf(chain)
  <1>1. chain \in Chain /\ \A p \in P : p[1] \in Int /\ p[1] <= MaxBlock
    BY NumType, PositionType
  <1>2. \A p : At(p) = E(chain, p)
    BY DEF At, E
  <1>3. Positions = P
    BY DEF Positions, PositionsOf
  <1>4. /\ \A p : p \in CreationsOf(a) <=> p \in Creates(chain, a, P)
        /\ \A p \in Creates(chain, a, P) \cup Destructs(chain, a, P) : p \in HistoryOf(a, MaxBlock)
    BY <1>1, <1>2, <1>3 DEF CreationsOf, HistoryOf, Of, Creates, Destructs, ContractKinds
  <1>. QED  BY <1>2, <1>4 DEF Spaced, SpacedOn

LEMMA SpacedFacts ==
  ASSUME NEW c \in Chain, NEW a \in Contract, SpacedOn(c, a),
         NEW h \in Int, NEW d \in Int, d <= h + Window
  PROVE  SpacedIn(c, a, h, d)
  <1>. DEFINE P == PositionsOf(c)
              B == Batch(c, h, d)
              H == UpTo(c, h)
  <1>1. Window \in Int /\ \A p \in P : p[1] \in Int
    BY PositionType, RowsAssumption
  <1>3. \A p, q \in B : p \in P /\ q \in P /\ p \notin H /\ q[1] < p[1] + Window
    BY <1>1 DEF Batch, UpTo
  <1>4. \A p \in Creates(c, a, B) : p \in B /\ p \in P /\ p \in Creates(c, a, P) /\ E(c, p).kind = "create"
    BY <1>3 DEF Creates
  <1>5. \A p \in Destructs(c, a, B) : p \in B /\ p \in P /\ p \in Destructs(c, a, P)
                                           /\ E(c, p).kind = "destruct"
    BY <1>3 DEF Destructs
  <1>6. \A p \in Creates(c, a, P) : \A q \in Creates(c, a, P) \cup Destructs(c, a, P) :
           Before(p, q) /\ q[1] < p[1] + Window =>
             /\ E(c, q).kind # "create"
             /\ E(c, q).kind = "destruct" => \A r \in Creates(c, a, P) : ~ Before(r, p)
    BY DEF SpacedOn
  <1>7. \A p \in H, q \in P \ H : p \in P /\ Before(p, q)
    BY <1>1 DEF UpTo, Before
  <1>. HIDE DEF P, B, H
  <1>8. \A p, q \in Creates(c, a, B) : p = q
    BY <1>1, <1>3, <1>4, <1>6, Order DEF P
  <1>9. ASSUME NEW p \in Creates(c, a, B), NEW e \in Destructs(c, a, B), Before(p, e)
        PROVE  History(c, a, H) = {}
    <2>1. \A r \in Creates(c, a, P) : ~ Before(r, p)
      BY <1>3, <1>4, <1>5, <1>6, <1>9
    <2>. SUFFICES ASSUME NEW x \in History(c, a, H) PROVE FALSE
      OBVIOUS
    <2>2. x \in P /\ Before(x, p) /\ p \in P
      BY <1>3, <1>4, <1>7 DEF History, Creates, Destructs, Upgrades
    <2>3. x \in Creates(c, a, P) \/ x \in Destructs(c, a, P) \cup Upgrades(c, a, P)
      BY <2>2 DEF History, Creates, Destructs, Upgrades
    <2>4. CASE x \in Destructs(c, a, P) \cup Upgrades(c, a, P)
      <3>1. PICK q \in Creates(c, a, P) : Before(q, x)
        BY <1>1, <2>4, Living DEF P
      <3>2. q \in P
        BY <3>1 DEF Creates
      <3>. QED  BY <1>1, <2>1, <2>2, <3>1, <3>2, Order DEF P
    <2>. QED  BY <2>1, <2>2, <2>3, <2>4
  <1>10. ASSUME NEW p \in Creates(c, a, B), AliveIn(c, a, H)
         PROVE  \E e \in Destructs(c, a, B) : Before(e, p)
    <2>1. PICK q \in Creates(c, a, H) : \A e \in Destructs(c, a, H) : Before(e, q)
      BY <1>10 DEF AliveIn
    <2>2. q \in P /\ q \in Creates(c, a, P) /\ Before(q, p) /\ p \in P /\ q \in H
      BY <1>3, <1>4, <1>7 DEF Creates
    <2>3. PICK e \in Destructs(c, a, P) : Before(e, p) /\ Before(q, e)
      BY <1>1, <1>4, <2>2, Living DEF P
    <2>4. e \in P /\ e \notin H
      <3>1. e \in P
        BY <2>3 DEF Destructs
      <3>2. e \in H => e \in Destructs(c, a, H)
        BY <2>3 DEF Destructs
      <3>. QED  BY <1>1, <2>1, <2>2, <2>3, <3>1, <3>2, Order DEF P
    <2>5. e \in B
      <3>1. p \in B /\ e[1] \in Int /\ p[1] \in Int
        BY <1>1, <1>4, <2>4
      <3>2. e[1] <= p[1] /\ p[1] <= d
        BY <1>1, <2>3, <3>1 DEF B, Batch, UpTo, Before
      <3>. QED  BY <1>1, <2>4, <3>1, <3>2 DEF B, Batch, UpTo, P, H
    <2>. QED  BY <2>3, <2>5 DEF Destructs
  <1>. QED  BY <1>8, <1>9, <1>10 DEF SpacedIn, B, H

\* Where a contract's row may be looked at: X has been handled, between head h and the next head d.
Between(c, a, h, d, X) ==
  /\ c \in Chain /\ h \in Int /\ d \in Int /\ h < d
  /\ Cut(c, X) /\ UpTo(c, h) \subseteq X /\ X \subseteq UpTo(c, d)
  /\ SpacedIn(c, a, h, d)

LEMMA BetweenFacts ==
  ASSUME NEW c, NEW a, NEW h, NEW d, NEW X, Between(c, a, h, d, X)
  PROVE  /\ \A n \in Int : UpTo(c, n) \in SUBSET PositionsOf(c) /\ Cut(c, UpTo(c, n))
         /\ X \in SUBSET PositionsOf(c)
         /\ \A p \in UpTo(c, h) : \A q \in PositionsOf(c) : q \notin UpTo(c, h) => Before(p, q)
         /\ \A p \in X : p \notin UpTo(c, h) => p \in Batch(c, h, d)
         /\ \A p \in Batch(c, h, d) : p \notin UpTo(c, h) /\ p \in UpTo(c, d) /\ p \in PositionsOf(c)
  <1>1. c \in Chain /\ h \in Int /\ d \in Int
    BY DEF Between
  <1>2. \A p \in PositionsOf(c) : p[1] \in Int
    BY <1>1, PositionType
  <1>3. \A n \in Int : UpTo(c, n) \in SUBSET PositionsOf(c) /\ Cut(c, UpTo(c, n))
    BY <1>2 DEF UpTo, Cut, Before
  <1>4. \A p \in UpTo(c, h) : \A q \in PositionsOf(c) : q \notin UpTo(c, h) => Before(p, q)
    BY <1>1, <1>2 DEF UpTo, Before
  <1>5. X \in SUBSET PositionsOf(c)
    BY DEF Between, Cut
  <1>6. \A p \in X : p \notin UpTo(c, h) => p \in Batch(c, h, d)
    BY DEF Between, Batch
  <1>7. \A p \in Batch(c, h, d) : p \notin UpTo(c, h) /\ p \in UpTo(c, d) /\ p \in PositionsOf(c)
    BY DEF Batch, UpTo
  <1>. QED  BY <1>3, <1>4, <1>5, <1>6, <1>7
-----------------------------------------------------------------------------
(* Rows that were there when the head moved. *)

\* The next head moves away, or the node's best block.
LEMMA OldGrows ==
  ASSUME NEW c, NEW a, NEW h, NEW d, NEW X, Between(c, a, h, d, X), NEW row,
         NEW b \in Int, NEW b2 \in Int, b <= b2, NEW d2 \in Int, d <= d2,
         OldRow(c, a, h, d, X, b, row)
  PROVE  OldRow(c, a, h, d2, X, b2, row)
  <1>. DEFINE H == UpTo(c, h)
              Z == UpTo(c, d)
              V == UpTo(c, d2)
  <1>1. /\ H \subseteq Z /\ Z \subseteq V /\ X \subseteq Z /\ Z \in SUBSET PositionsOf(c) /\ V \in SUBSET PositionsOf(c)
        /\ X \in SUBSET PositionsOf(c)
        /\ h \in Int /\ d \in Int /\ c \in Chain
    <2>1. \A p \in PositionsOf(c) : p[1] \in Int
      BY PositionType DEF Between
    <2>. QED  BY <2>1, BetweenFacts DEF Between, UpTo
  <1>. HIDE DEF H, Z, V
  <1>2. /\ Creates(c, a, V \ H) = {} => Creates(c, a, Z \ H) = {}
        /\ Destructs(c, a, V \ H) = {} => Destructs(c, a, Z \ H) = {}
    BY <1>1 DEF Creates, Destructs
  <1>3. ASSUME Creates(c, a, V \ H) = {}, AliveIn(c, a, H), Recovers(c, a, X, Z, row)
        PROVE  Recovers(c, a, X, V, row)
    <2>1. CASE \E Y \in SUBSET Z : Cut(c, Y) /\ X \subseteq Y /\ RightAs(c, a, Y, row)
      BY <1>1, <2>1 DEF Recovers
    <2>2. Upgrades(c, a, Z \ X) \subseteq Upgrades(c, a, V \ X)
      BY <1>1 DEF Upgrades
    <2>. QED  BY <1>3, <2>1, <2>2 DEF Recovers
  <1>4. Creates(c, a, V \ H) = {} /\ Ups(c, a, V) = {} => Ups(c, a, Z) = {}
    <2>1. Creates(c, a, V \ H) = {} => Creates(c, a, V) \subseteq Creates(c, a, Z)
      BY <1>1 DEF Creates
    <2>2. Upgrades(c, a, Z) \subseteq Upgrades(c, a, V)
      BY <1>1 DEF Upgrades
    <2>. QED  BY <2>1, <2>2 DEF Ups
  <1>5. Early(c, a, h, b, row) => Early(c, a, h, b2, row)
    BY <1>1 DEF Early
  <1>. QED  BY <1>2, <1>3, <1>4, <1>5 DEF OldRow, Batch, H, Z, V

\* The next entry is no event of this contract.
LEMMA OldOther ==
  ASSUME NEW c, NEW a, NEW h, NEW d, NEW X, Between(c, a, h, d, X), NEW row, NEW b,
         NEW u, NextOf(c, X, u), u \in UpTo(c, d),
         ~ IsEntry(c, u, "create", a), ~ IsEntry(c, u, "upgrade", a), ~ IsEntry(c, u, "destruct", a),
         OldRow(c, a, h, d, X, b, row)
  PROVE  OldRow(c, a, h, d, X \cup {u}, b, row)
  <1>1. /\ Destructs(c, a, X \cup {u}) = Destructs(c, a, X) /\ Ups(c, a, X \cup {u}) = Ups(c, a, X)
        /\ c \in Chain /\ Cut(c, X) /\ X \subseteq UpTo(c, d) /\ UpTo(c, d) \in SUBSET PositionsOf(c)
    BY NextOther, BetweenFacts DEF Between
  <1>2. Recovers(c, a, X, UpTo(c, d), row) => Recovers(c, a, X \cup {u}, UpTo(c, d), row)
    BY <1>1, RecoversOther
  <1>. QED  BY <1>1, <1>2 DEF OldRow

\* A creation, which waits in the cache.
LEMMA OldCreate ==
  ASSUME NEW c, NEW a, NEW h, NEW d, NEW X, Between(c, a, h, d, X), NEW row, NEW b,
         NEW u, NextOf(c, X, u), u \in UpTo(c, d), IsEntry(c, u, "create", a),
         OldRow(c, a, h, d, X, b, row)
  PROVE  OldRow(c, a, h, d, X \cup {u}, b, row)
  <1>1. Destructs(c, a, X \cup {u}) = Destructs(c, a, X)
    BY DEF Destructs, IsEntry
  <1>2. u \in Creates(c, a, Batch(c, h, d))
    BY DEF NextOf, Between, Batch, Creates, IsEntry
  <1>. QED  BY <1>1, <1>2 DEF OldRow

\* An upgrade; only a contract of this batch may be left as it is.
LEMMA OldUpgrade ==
  ASSUME NEW c, NEW a, NEW h, NEW d, NEW X, Between(c, a, h, d, X), NEW row \in ContractRow, NEW b,
         NEW u, NextOf(c, X, u), u \in UpTo(c, d), IsEntry(c, u, "upgrade", a),
         OldRow(c, a, h, d, X, b, row),
         NEW new, \/ new = Upgraded(row, E(c, u).impl)
                  \/ new = row /\ Creates(c, a, Batch(c, h, d)) # {}
  PROVE  OldRow(c, a, h, d, X \cup {u}, b, new)
  <1>. DEFINE H == UpTo(c, h)
              Z == UpTo(c, d)
  <1>1. /\ c \in Chain /\ Cut(c, X) /\ H \subseteq X /\ X \subseteq Z /\ Z \in SUBSET PositionsOf(c) /\ Cut(c, Z)
        /\ u \in Z /\ u \notin H
    BY BetweenFacts DEF Between, NextOf
  <1>2. Destructs(c, a, X \cup {u}) = Destructs(c, a, X)
    BY DEF Destructs, IsEntry
  <1>3. new.seen = row.seen /\ (IsLive(new) <=> IsLive(row)) /\ (Exists(new) <=> Exists(row))
    BY UpgradedFacts DEF IsLive, Exists
  <1>4. ASSUME Creates(c, a, Batch(c, h, d)) = {}, AliveIn(c, a, H)
        PROVE  /\ Recovers(c, a, X \cup {u}, Z, new)
               /\ Ups(c, a, Z) # {}
    <2>1. Creates(c, a, Z) \subseteq X
      BY <1>1, <1>4 DEF Creates, Batch
    <2>2. Exists(row)
      BY <1>4 DEF OldRow, AliveIn, History
    <2>3. Recovers(c, a, X, Z, row)
      BY <1>4 DEF OldRow
    <2>4. Recovers(c, a, X \cup {u}, Z, new)
      <3>1. new = Upgraded(row, E(c, u).impl)
        BY <1>4
      <3>. HIDE DEF Z
      <3>. QED  BY <1>1, <2>1, <2>2, <2>3, <3>1, RecoversUpgrade
    <2>5. u \in Ups(c, a, Z)
      <3>1. u \in Upgrades(c, a, Z)
        BY <1>1 DEF Upgrades, IsEntry
      <3>2. \A p \in Creates(c, a, Z) : Before(p, u)
        BY <1>1, <2>1 DEF NextOf, Creates
      <3>. QED  BY <3>1, <3>2 DEF Ups
    <2>. QED  BY <2>4, <2>5
  <1>. QED  BY <1>2, <1>3, <1>4 DEF OldRow

\* A destruction; the row of a contract of this batch is left as it is.
LEMMA OldDestruct ==
  ASSUME NEW c, NEW a, NEW h, NEW d, NEW X, Between(c, a, h, d, X), NEW row \in ContractRow, NEW b,
         NEW u, NextOf(c, X, u), u \in UpTo(c, d), IsEntry(c, u, "destruct", a),
         OldRow(c, a, h, d, X, b, row),
         NEW new, \/ new = IF Exists(row) THEN [row EXCEPT !.status = "destructed"] ELSE row
                  \/ new = row /\ \E p \in Creates(c, a, X) : p \notin UpTo(c, h)
  PROVE  OldRow(c, a, h, d, X \cup {u}, b, new)
  <1>. DEFINE H == UpTo(c, h)
              Z == UpTo(c, d)
  <1>1. /\ c \in Chain /\ Cut(c, X) /\ H \subseteq X /\ X \subseteq Z /\ Z \in SUBSET PositionsOf(c)
        /\ u \in Z /\ u \notin H
    BY BetweenFacts DEF Between, NextOf
  <1>2. Ups(c, a, X \cup {u}) = Ups(c, a, X)
    BY <1>1, NextDestruct
  <1>3. u \in Destructs(c, a, Batch(c, h, d))
    BY <1>1 DEF Destructs, IsEntry, Batch
  <1>4. /\ new.seen = row.seen /\ new.impl = row.impl /\ new.prev = row.prev
        /\ Exists(new) <=> Exists(row)
        /\ new = row \/ ~ IsLive(new)
    BY DEF ContractRow, Exists, IsLive
  <1>5. ~ IsLive(new)
    <2>1. CASE new = IF Exists(row) THEN [row EXCEPT !.status = "destructed"] ELSE row
      BY <2>1 DEF ContractRow, Exists, IsLive
    <2>2. CASE new = row /\ \E p \in Creates(c, a, X) : p \notin UpTo(c, h)
      <3>1. PICK p \in Creates(c, a, X) : p \notin UpTo(c, h)
        BY <2>2
      <3>2. p \in Creates(c, a, Batch(c, h, d)) /\ Before(p, u)
        BY <1>1, <3>1, BetweenFacts DEF Creates, NextOf
      <3>3. History(c, a, H) = {}
        BY <1>3, <3>2 DEF Between, SpacedIn
      <3>4. ~ AliveIn(c, a, H)
        BY <3>3 DEF AliveIn, History
      <3>. QED  BY <2>2, <3>4 DEF OldRow
    <2>. QED  BY <2>1, <2>2
  <1>6. Recovers(c, a, X, Z, row) => Recovers(c, a, X \cup {u}, Z, new)
    <2>1. ~ IsEntry(c, u, "create", a) /\ ~ IsEntry(c, u, "upgrade", a)
      BY DEF IsEntry
    <2>. QED  BY <1>1, <1>2, <1>4, <2>1, RecoversOther
  <1>7. Early(c, a, h, b, row) => Early(c, a, h, b, new)
    BY <1>4 DEF Early
  <1>. QED  BY <1>3, <1>4, <1>5, <1>6, <1>7 DEF OldRow

\* A crash: the batch begins again.
LEMMA OldCrash ==
  ASSUME NEW c, NEW a, NEW h, NEW d, NEW X, Between(c, a, h, d, X), NEW row, NEW b,
         OldRow(c, a, h, d, X, b, row)
  PROVE  OldRow(c, a, h, d, UpTo(c, h), b, row)
  <1>. DEFINE H == UpTo(c, h)
              Z == UpTo(c, d)
  <1>1. /\ c \in Chain /\ X \in SUBSET PositionsOf(c) /\ H \in SUBSET X /\ X \subseteq Z /\ Z \in SUBSET PositionsOf(c)
    BY BetweenFacts DEF Between
  <1>2. Creates(c, a, Batch(c, h, d)) = {} => Creates(c, a, X) \subseteq H
    BY <1>1, BetweenFacts DEF Creates
  <1>3. Creates(c, a, Batch(c, h, d)) = {} /\ Recovers(c, a, X, Z, row) => Recovers(c, a, H, Z, row)
    BY <1>1, <1>2, RecoversCrash
  <1>4. \A e \in Destructs(c, a, H) : e \in H
    BY DEF Destructs
  <1>. QED  BY <1>3, <1>4 DEF OldRow

\* A row of a contract that is created in the batch may go.
LEMMA OldRemoved ==
  ASSUME NEW c, NEW a, NEW h, NEW d, NEW X, Between(c, a, h, d, X), NEW b, 0 <= h,
         Creates(c, a, Batch(c, h, d)) # {}
  PROVE  OldRow(c, a, h, d, X, b, NoContract)
  <1>1. ~ Exists(NoContract) /\ ~ IsLive(NoContract) /\ NoContract.seen <= h
    BY DEF Between, NoContract, Exists, IsLive
  <1>2. AliveIn(c, a, UpTo(c, h)) => Destructs(c, a, Batch(c, h, d)) # {}
    BY DEF Between, SpacedIn
  <1>. QED  BY <1>1, <1>2 DEF OldRow
-----------------------------------------------------------------------------
(* Rows that wait in the cache. *)

LEMMA CachedOther ==
  ASSUME NEW c, NEW a, NEW h, NEW d, NEW X, Between(c, a, h, d, X), NEW row, NEW b,
         NEW u,
         ~ IsEntry(c, u, "create", a), ~ IsEntry(c, u, "upgrade", a), ~ IsEntry(c, u, "destruct", a),
         CachedRow(c, a, h, d, X, b, row)
  PROVE  CachedRow(c, a, h, d, X \cup {u}, b, row)
  <1>1. Ups(c, a, X \cup {u}) = Ups(c, a, X) /\ (AliveIn(c, a, X \cup {u}) <=> AliveIn(c, a, X))
    BY NextOther DEF Between
  <1>. QED  BY <1>1 DEF CachedRow, RightAs, ImplRight, PrevRight

LEMMA CachedGrows ==
  ASSUME NEW c, NEW a, NEW h, NEW d \in Int, NEW X, NEW row, NEW b \in Int, NEW b2 \in Int, b <= b2,
         CachedRow(c, a, h, d, X, b, row)
  PROVE  CachedRow(c, a, h, d, X, b2, row)
  BY DEF CachedRow, Early

\* A creation: the implementation is read at block b.
LEMMA CachedCreate ==
  ASSUME NEW c, NEW a, NEW h, NEW d, NEW X, Between(c, a, h, d, X), NEW b \in Int, d <= b,
         NEW u, NextOf(c, X, u), u \in UpTo(c, d), IsEntry(c, u, "create", a),
         NEW n, h < n, n <= d
  PROVE  /\ CachedRow(c, a, h, d, X \cup {u}, b, [status |-> "live", seen |-> n, impl |-> ImplIn(c, a, b), prev |-> 0])
         /\ \A p \in Creates(c, a, X) : p \in UpTo(c, h)
         /\ \E p \in Creates(c, a, X \cup {u}) : p \notin UpTo(c, h)
  <1>1. /\ c \in Chain /\ Cut(c, X) /\ d \in Int /\ d \in d..b /\ b \in d..b
    BY DEF Between
  <1>2. AliveIn(c, a, X \cup {u}) /\ Ups(c, a, X \cup {u}) = {} /\ u \in Creates(c, a, X \cup {u})
    BY <1>1, NextCreate
  <1>3. RightAs(c, a, X \cup {u}, [status |-> "live", seen |-> n, impl |-> ImplIn(c, a, b), prev |-> 0])
    BY <1>2 DEF RightAs, ImplRight, PrevRight
  <1>4. u \notin UpTo(c, h) /\ u \in Creates(c, a, Batch(c, h, d))
    BY DEF NextOf, Between, Batch, Creates, IsEntry
  <1>5. \A p \in Creates(c, a, X) : p \in UpTo(c, h)
    <2>. SUFFICES ASSUME NEW p \in Creates(c, a, X), p \notin UpTo(c, h) PROVE FALSE
      OBVIOUS
    <2>1. p \in Creates(c, a, Batch(c, h, d)) /\ p # u
      BY BetweenFacts DEF Creates, NextOf
    <2>. QED  BY <1>4, <2>1 DEF Between, SpacedIn
  <1>6. Early(c, a, d, b, [status |-> "live", seen |-> n, impl |-> ImplIn(c, a, b), prev |-> 0])
    BY <1>1 DEF Early
  <1>. QED  BY <1>2, <1>3, <1>4, <1>5, <1>6 DEF CachedRow

LEMMA CachedUpgrade ==
  ASSUME NEW c, NEW a, NEW h, NEW d, NEW X, Between(c, a, h, d, X), NEW row \in ContractRow, NEW b,
         NEW u, NextOf(c, X, u), IsEntry(c, u, "upgrade", a),
         CachedRow(c, a, h, d, X, b, row)
  PROVE  CachedRow(c, a, h, d, X \cup {u}, b, Upgraded(row, E(c, u).impl))
  <1>. DEFINE new == Upgraded(row, E(c, u).impl)
  <1>1. /\ c \in Chain /\ Cut(c, X) /\ X \in SUBSET PositionsOf(c) /\ u \in PositionsOf(c) /\ \A w \in X : Before(w, u)
    BY DEF Between, Cut, NextOf
  <1>2. /\ AliveIn(c, a, X) /\ AliveIn(c, a, X \cup {u})
        /\ Ups(c, a, X \cup {u}) = Ups(c, a, X) \cup {u}
    <2>1. c \in Chain /\ Cut(c, X)
      BY <1>1
    <2>2. IsEntry(c, u, "upgrade", a) /\ NextOf(c, X, u)
      OBVIOUS
    <2>. QED  BY ONLY <2>1, <2>2, NextUpgrade
  <1>3. /\ new.status = row.status /\ new.seen = row.seen
        /\ row.impl = E(c, u).impl => new = row
        /\ row.impl # E(c, u).impl => new.impl = E(c, u).impl /\ new.prev = row.impl
    BY UpgradedFacts DEF CachedRow, Exists
  <1>4. RightAs(c, a, X, row)
    BY DEF CachedRow
  <1>. SUFFICES CachedRow(c, a, h, d, X \cup {u}, b, new)
    OBVIOUS
  <1>. HIDE DEF new
  <1>5. RightAs(c, a, X \cup {u}, new)
    <2>1. CASE row.impl = E(c, u).impl
      BY <1>1, <1>2, <1>3, <1>4, <2>1, Moves
    <2>2. CASE row.impl # E(c, u).impl
      BY <1>1, <1>2, <1>3, <1>4, <2>2, Moves DEF RightAs
    <2>. QED  BY <2>1, <2>2
  <1>. QED  BY <1>2, <1>3, <1>5 DEF CachedRow

LEMMA CachedDestruct ==
  ASSUME NEW c, NEW a, NEW h, NEW d, NEW X, Between(c, a, h, d, X), NEW row \in ContractRow, NEW b,
         NEW u, NextOf(c, X, u), IsEntry(c, u, "destruct", a),
         CachedRow(c, a, h, d, X, b, row)
  PROVE  CachedRow(c, a, h, d, X \cup {u}, b, [row EXCEPT !.status = "destructed"])
  <1>. DEFINE new == [row EXCEPT !.status = "destructed"]
  <1>1. ~ AliveIn(c, a, X \cup {u}) /\ Ups(c, a, X \cup {u}) = Ups(c, a, X)
    BY NextDestruct DEF Between
  <1>2. new.status = "destructed" /\ new.seen = row.seen /\ new.impl = row.impl /\ new.prev = row.prev
    BY DEF ContractRow
  <1>. SUFFICES CachedRow(c, a, h, d, X \cup {u}, b, new)
    OBVIOUS
  <1>. HIDE DEF new
  <1>3. RightAs(c, a, X \cup {u}, new)
    BY <1>1, <1>2 DEF CachedRow, RightAs, ImplRight, PrevRight
  <1>4. Ups(c, a, X) = {} => Early(c, a, d, b, new)
    BY <1>2 DEF CachedRow, Early
  <1>. QED  BY <1>1, <1>2, <1>3, <1>4 DEF CachedRow

\* The row that is saved over one that is destructed, or where there is none.
LEMMA SaveRow ==
  ASSUME NEW c, NEW a, NEW h, NEW d, NEW X, Between(c, a, h, d, X), NEW row, NEW b,
         NEW kept \in ContractRow, CachedRow(c, a, h, d, X, b, kept),
         \E p \in Creates(c, a, X) : p \notin UpTo(c, h),
         OldRow(c, a, h, d, X, b, row)
  PROVE  SavedRow(IF Exists(row) THEN [kept EXCEPT !.status = "redeployed"] ELSE kept, kept)
  <1>1. PICK p \in Creates(c, a, X) : p \notin UpTo(c, h)
    OBVIOUS
  <1>2. p \in X /\ X \in SUBSET PositionsOf(c) /\ p \in Creates(c, a, Batch(c, h, d)) /\ c \in Chain
    BY <1>1, BetweenFacts DEF Creates, Between
  <1>3. Exists(row) => kept.status = "live"
    <2>. SUFFICES ASSUME Exists(row), ~ AliveIn(c, a, X) PROVE FALSE
      BY DEF CachedRow
    <2>1. PICK e \in Destructs(c, a, X) : ~ Before(e, p)
      BY <1>1 DEF AliveIn
    <2>2. e \in X /\ e # p /\ e \in PositionsOf(c) /\ p \in PositionsOf(c)
      BY <1>1, <1>2, <2>1 DEF Destructs, Creates
    <2>3. Before(p, e)
      BY <1>2, <2>1, <2>2, Order
    <2>4. e \notin UpTo(c, h)
      BY <1>1, <2>1, <2>2, BetweenFacts
    <2>5. e \in Destructs(c, a, Batch(c, h, d))
      BY <2>1, <2>2, <2>4, BetweenFacts DEF Destructs
    <2>6. History(c, a, UpTo(c, h)) = {}
      BY <1>2, <2>3, <2>5 DEF Between, SpacedIn
    <2>. QED  BY <2>6 DEF OldRow
  <1>4. kept.status \in {"live", "destructed"}
    BY DEF CachedRow
  <1>. QED  BY <1>3, <1>4 DEF SavedRow, Exists, IsLive, ContractRow
-----------------------------------------------------------------------------
(* When the head moves. *)

\* The row is what the chain says at block n.
RowRight(c, a, n, b, row) ==
  /\ row.seen <= n
  /\ IsLive(row) <=> AliveIn(c, a, UpTo(c, n))
  /\ Exists(row) <=> History(c, a, UpTo(c, n)) # {}
  /\ AliveIn(c, a, UpTo(c, n)) => /\ RightAs(c, a, UpTo(c, n), row)
                                  /\ Ups(c, a, UpTo(c, n)) = {} => Early(c, a, n, b, row)

LEMMA OldRight ==
  ASSUME NEW c, NEW a, NEW h, NEW d, Between(c, a, h, d, UpTo(c, d)), NEW row \in ContractRow, NEW b \in Int,
         OldRow(c, a, h, d, UpTo(c, d), b, row),
         \A p \in Creates(c, a, UpTo(c, d)) : p \in UpTo(c, h)
  PROVE  RowRight(c, a, d, b, row)
  <1>. DEFINE H == UpTo(c, h)
              X == UpTo(c, d)
  <1>1. /\ c \in Chain /\ h \in Int /\ d \in Int /\ h < d /\ H \subseteq X /\ X \subseteq PositionsOf(c) /\ Cut(c, X)
        /\ \A p \in H : \A q \in PositionsOf(c) : q \notin H => Before(p, q)
        /\ \A p : p \in Batch(c, h, d) <=> p \in X /\ p \notin H
    BY BetweenFacts DEF Between, Batch
  <1>2. Creates(c, a, Batch(c, h, d)) = {} /\ Creates(c, a, X) = Creates(c, a, H)
    BY <1>1 DEF Creates
  <1>3. AliveIn(c, a, X) => AliveIn(c, a, H) /\ Destructs(c, a, Batch(c, h, d)) = {}
    <2>. SUFFICES ASSUME NEW p \in Creates(c, a, H), \A e \in Destructs(c, a, X) : Before(e, p)
                  PROVE  AliveIn(c, a, H) /\ Destructs(c, a, Batch(c, h, d)) = {}
      BY <1>2 DEF AliveIn
    <2>1. AliveIn(c, a, H)
      BY <1>1 DEF AliveIn, Destructs
    <2>2. ASSUME NEW e \in Destructs(c, a, Batch(c, h, d)) PROVE FALSE
      <3>1. e \in X /\ e \notin H /\ e \in Destructs(c, a, X) /\ p \in H
        BY <1>1, <2>2 DEF Destructs, Creates
      <3>2. Before(e, p) /\ Before(p, e) /\ e \in PositionsOf(c) /\ p \in PositionsOf(c)
        BY <1>1, <3>1
      <3>. QED  BY <1>1, <3>2, Order
    <2>. QED  BY <2>1, <2>2
  <1>4. IsLive(row) => AliveIn(c, a, X)
    <2>. SUFFICES ASSUME IsLive(row) PROVE AliveIn(c, a, X)
      OBVIOUS
    <2>1. PICK p \in Creates(c, a, H) : \A e \in Destructs(c, a, H) : Before(e, p)
      BY DEF OldRow, AliveIn
    <2>2. \A e \in Destructs(c, a, X) : e \in Destructs(c, a, H)
      BY DEF OldRow, Destructs
    <2>. QED  BY <1>2, <2>1, <2>2 DEF AliveIn
  <1>5. AliveIn(c, a, X) => IsLive(row)
    BY <1>3 DEF OldRow
  <1>6. Exists(row) <=> History(c, a, X) # {}
    <2>1. History(c, a, H) \subseteq History(c, a, X)
      BY <1>1 DEF History, Creates, Destructs, Upgrades
    <2>2. ASSUME NEW x \in History(c, a, X) PROVE History(c, a, H) # {}
      <3>1. CASE x \in Creates(c, a, X)
        BY <1>2, <3>1 DEF History
      <3>2. CASE x \notin Creates(c, a, X)
        <4>1. x \in X /\ x \in Destructs(c, a, PositionsOf(c)) \cup Upgrades(c, a, PositionsOf(c))
          BY <1>1, <2>2, <3>2 DEF History, Destructs, Upgrades
        <4>2. PICK q \in Creates(c, a, PositionsOf(c)) : Before(q, x)
          BY <1>1, <4>1, Living
        <4>3. q \in Creates(c, a, X)
          BY <1>1, <4>1, <4>2 DEF Creates, Cut
        <4>. QED  BY <1>2, <4>3 DEF History
      <3>. QED  BY <3>1, <3>2
    <2>. QED  BY <1>2, <2>1, <2>2 DEF OldRow
  <1>7. ASSUME AliveIn(c, a, X) PROVE RightAs(c, a, X, row)
    <2>1. Recovers(c, a, X, X, row)
      BY <1>2, <1>3, <1>7 DEF OldRow
    <2>2. Upgrades(c, a, X \ X) = {}
      BY DEF Upgrades
    <2>. HIDE DEF X
    <2>3. PICK Y \in SUBSET X : X \subseteq Y /\ RightAs(c, a, Y, row)
      BY <2>1, <2>2 DEF Recovers
    <2>4. Y = X
      BY <2>3
    <2>. QED  BY <2>3, <2>4
  <1>8. ASSUME AliveIn(c, a, X), Ups(c, a, X) = {} PROVE Early(c, a, d, b, row)
    <2>1. Early(c, a, h, b, row)
      BY <1>2, <1>3, <1>8 DEF OldRow
    <2>2. \A m \in Int : h <= m /\ m <= d => ImplIn(c, a, m) = 0
      <3>. SUFFICES ASSUME NEW m \in Int, h <= m, m <= d PROVE Ups(c, a, UpTo(c, m)) = {}
        BY DEF ImplIn
      <3>1. \A p \in PositionsOf(c) : p[1] \in Int
        BY <1>1, PositionType
      <3>2. H \subseteq UpTo(c, m) /\ UpTo(c, m) \subseteq X
        BY <1>1, <3>1 DEF UpTo
      <3>3. Creates(c, a, X) \subseteq Creates(c, a, UpTo(c, m))
        BY <1>2, <3>2 DEF Creates
      <3>4. Upgrades(c, a, UpTo(c, m)) \subseteq Upgrades(c, a, X)
        BY <3>2 DEF Upgrades
      <3>. QED  BY <1>8, <3>3, <3>4 DEF Ups
    <2>3. CASE row.impl = 0
      BY <2>3 DEF Early
    <2>4. CASE row.impl # 0
      <3>1. PICK m \in h..b : row.impl = ImplIn(c, a, m)
        BY <2>1, <2>4 DEF Early
      <3>2. m \in d..b
        BY <1>1, <2>2, <2>4, <3>1
      <3>. QED  BY <3>1, <3>2 DEF Early
    <2>. QED  BY <2>3, <2>4
  <1>9. row.seen <= d
    <2>1. row.seen <= h /\ row.seen \in Int
      BY RowsAssumption DEF OldRow, ContractRow
    <2>. QED  BY <1>1, <2>1
  <1>. QED  BY <1>4, <1>5, <1>6, <1>7, <1>8, <1>9 DEF RowRight

LEMMA SavedRight ==
  ASSUME NEW c, NEW a, NEW h, NEW d, NEW b, NEW row, NEW kept,
         CachedRow(c, a, h, d, UpTo(c, d), b, kept), SavedRow(row, kept),
         \E p \in Creates(c, a, UpTo(c, d)) : p \notin UpTo(c, h)
  PROVE  RowRight(c, a, d, b, row)
  <1>1. History(c, a, UpTo(c, d)) # {}
    BY DEF History
  <1>2. RightAs(c, a, UpTo(c, d), kept) => RightAs(c, a, UpTo(c, d), row)
    BY DEF SavedRow, RightAs, ImplRight, PrevRight
  <1>3. Early(c, a, d, b, kept) => Early(c, a, d, b, row)
    BY DEF SavedRow, Early
  <1>. QED  BY <1>1, <1>2, <1>3 DEF RowRight, CachedRow, SavedRow

LEMMA RightOld ==
  ASSUME NEW c, NEW a, NEW n, NEW d, Between(c, a, n, d, UpTo(c, n)), NEW row, NEW b,
         RowRight(c, a, n, b, row)
  PROVE  OldRow(c, a, n, d, UpTo(c, n), b, row)
  <1>. DEFINE H == UpTo(c, n)
              Z == UpTo(c, d)
  <1>1. /\ H \subseteq Z /\ Cut(c, H) /\ \A p : p \in Batch(c, n, d) <=> p \in Z /\ p \notin H
    BY DEF Between, Batch
  <1>2. RightAs(c, a, H, row) => Recovers(c, a, H, Z, row)
    BY <1>1 DEF Recovers
  <1>3. Creates(c, a, Batch(c, n, d)) = {} /\ Ups(c, a, Z) = {} => Ups(c, a, H) = {}
    <2>1. Creates(c, a, Batch(c, n, d)) = {} => Creates(c, a, Z) \subseteq Creates(c, a, H)
      BY <1>1 DEF Creates
    <2>2. Upgrades(c, a, H) \subseteq Upgrades(c, a, Z)
      BY <1>1 DEF Upgrades
    <2>. QED  BY <2>1, <2>2 DEF Ups
  <1>4. \A e \in Destructs(c, a, H) : e \in H
    BY DEF Destructs
  <1>. QED  BY <1>2, <1>3, <1>4 DEF OldRow, RowRight

\* What the module's operators on the chain say.
LEMMA ChainSays ==
  ASSUME chain \in Chain, NEW a \in Contract, NEW n \in Int
  PROVE  /\ HistoryOf(a, n) = History(chain, a, UpTo(chain, n))
         /\ Alive(a, n) <=> AliveIn(chain, a, UpTo(chain, n))
         /\ Alive(a, n) => UpgradesAt(a, n) = Ups(chain, a, UpTo(chain, n))
         /\ ImplAt(a, n) = ImplIn(chain, a, n)
  <1>. DEFINE H == HistoryOf(a, n)
              X == UpTo(chain, n)
              C == Creates(chain, a, X)
              P == PositionsOf(chain)
  <1>1. \A p : At(p) = E(chain, p)
    BY DEF At, E
  <1>2. /\ H = History(chain, a, X) /\ H \subseteq P /\ X \subseteq P
        /\ Of("create", H) = C /\ C \subseteq H
        /\ Of("upgrade", H) = Upgrades(chain, a, X)
        /\ Destructs(chain, a, X) = { p \in H : E(chain, p).kind = "destruct" }
        /\ Destructs(chain, a, X) \subseteq Destructs(chain, a, P) /\ C \subseteq Creates(chain, a, P)
        /\ Upgrades(chain, a, X) \subseteq Upgrades(chain, a, P)
        /\ \A p \in H : E(chain, p).kind \in ContractKinds
    <2>1. \A p : p \in HistoryOf(a, n) <=> p \in X /\ E(chain, p).kind \in ContractKinds /\ E(chain, p).of = a
      BY <1>1 DEF HistoryOf, Positions, PositionsOf, UpTo
    <2>2. X \subseteq P
      BY DEF UpTo
    <2>. QED
      BY <1>1, <2>1, <2>2 DEF History, Creates, Destructs, Upgrades, Of, ContractKinds
  <1>3. Cut(chain, X)
    <2>1. \A p \in P : p[1] \in Int
      BY PositionType
    <2>. QED  BY <2>1 DEF UpTo, Cut, Before
  <1>. DEFINE l == Last(H)
  <1>4. H # {} => l \in H /\ (\A q \in H \ {l} : Before(q, l)) /\ l \in P
    BY <1>2, LastIs
  <1>5. \A p, q \in P : Before(p, q) => p # q /\ ~ Before(q, p)
    BY Order
  <1>. HIDE DEF H, X, P, l
  <1>6. Alive(a, n) <=> H # {} /\ E(chain, l).kind # "destruct"
    BY <1>1 DEF Alive, H, l
  <1>7. Alive(a, n) => AliveIn(chain, a, X)
    <2>. SUFFICES ASSUME H # {}, E(chain, l).kind # "destruct" PROVE AliveIn(chain, a, X)
      BY <1>6
    <2>1. \A e \in Destructs(chain, a, X) : Before(e, l)
      BY <1>2, <1>4
    <2>2. CASE E(chain, l).kind = "create"
      <3>1. l \in C
        BY <1>2, <1>4, <2>2 DEF History, Creates, Destructs, Upgrades
      <3>. QED  BY <2>1, <3>1 DEF AliveIn
    <2>3. CASE E(chain, l).kind # "create"
      <3>1. l \in Upgrades(chain, a, X)
        BY <1>2, <1>4, <2>3 DEF History, Creates, Destructs, Upgrades
      <3>2. PICK q \in Creates(chain, a, P) :
               Before(q, l) /\ \A e \in Destructs(chain, a, P) : Before(e, l) => Before(e, q)
        BY <1>2, <3>1, Living DEF P
      <3>3. q \in C
        <4>1. l \in X
          BY <3>1 DEF Upgrades
        <4>. QED  BY <1>3, <3>2, <4>1 DEF Cut, Creates, P
      <3>. QED  BY <1>2, <2>1, <3>2, <3>3 DEF AliveIn
    <2>. QED  BY <2>2, <2>3
  <1>8. AliveIn(chain, a, X) => Alive(a, n)
    <2>. SUFFICES ASSUME NEW p \in C, \A e \in Destructs(chain, a, X) : Before(e, p) PROVE Alive(a, n)
      BY DEF AliveIn
    <2>1. p \in H /\ H # {} /\ E(chain, p).kind = "create" /\ p \in P
      BY <1>2 DEF Creates
    <2>2. E(chain, l).kind # "destruct"
      <3>. SUFFICES ASSUME E(chain, l).kind = "destruct" PROVE FALSE
        OBVIOUS
      <3>1. l \in Destructs(chain, a, X) /\ l # p
        BY <1>2, <1>4, <2>1
      <3>. QED  BY <1>4, <1>5, <2>1, <3>1
    <2>. QED  BY <1>6, <2>1, <2>2
  <1>9. Alive(a, n) => UpgradesAt(a, n) = Ups(chain, a, X)
    <2>. SUFFICES ASSUME AliveIn(chain, a, X) PROVE UpgradesAt(a, n) = Ups(chain, a, X)
      BY <1>7
    <2>1. C # {} /\ C \subseteq P
      BY <1>2 DEF AliveIn
    <2>. DEFINE m == Last(C)
    <2>2. m \in C /\ \A q \in C \ {m} : Before(q, m)
      BY <2>1, LastIs DEF P
    <2>3. UpgradesAt(a, n) = { u \in Upgrades(chain, a, X) : Before(m, u) }
      BY <1>2 DEF UpgradesAt, H
    <2>. HIDE DEF m
    <2>4. \A u \in Upgrades(chain, a, X) : u \in P /\ (Before(m, u) <=> \A q \in C : Before(q, u))
      <3>1. Upgrades(chain, a, X) \subseteq P
        BY <1>2 DEF Upgrades
      <3>. QED  BY <2>1, <2>2, <3>1, Order DEF P
    <2>. QED  BY <2>3, <2>4 DEF Ups
  <1>10. ImplAt(a, n) = ImplIn(chain, a, n)
    BY <1>1, <1>7, <1>8, <1>9 DEF ImplAt, ImplIn, X
  <1>. QED  BY <1>2, <1>7, <1>8, <1>9, <1>10 DEF H, X

LEMMA RightContract ==
  ASSUME chain \in Chain, best \in Int, NEW a \in Contract, NEW n \in Int, RowRight(chain, a, n, best, contract[a])
  PROVE  ContractRight(a, n)
  <1>. DEFINE U == Ups(chain, a, UpTo(chain, n))
              row == contract[a]
  <1>1. /\ Alive(a, n) <=> AliveIn(chain, a, UpTo(chain, n))
        /\ HistoryOf(a, n) = History(chain, a, UpTo(chain, n))
        /\ Alive(a, n) => UpgradesAt(a, n) = U
        /\ \A m \in Int : ImplAt(a, m) = ImplIn(chain, a, m)
    BY ChainSays
  <1>2. U \subseteq PositionsOf(chain)
    BY DEF Ups, Upgrades, UpTo
  <1>3. ASSUME Alive(a, n), U # {} PROVE row.impl = ImplAt(a, n)
    <2>1. IsLast(U, Last(U)) /\ Last(U) \in U
      BY <1>2, <1>3, LastIs DEF IsLast
    <2>2. row.impl = E(chain, Last(U)).impl
      BY <1>1, <1>3, <2>1 DEF RowRight, RightAs, ImplRight
    <2>. QED  BY <1>1, <1>3, <2>2 DEF ImplAt, At, E
  <1>4. ASSUME Alive(a, n), U = {}
        PROVE  row.impl = ImplAt(a, n) \/ \E m \in n..best : row.impl = ImplAt(a, m)
    <2>1. ImplAt(a, n) = 0
      BY <1>1, <1>4 DEF ImplAt
    <2>2. Early(chain, a, n, best, row)
      BY <1>1, <1>4 DEF RowRight
    <2>3. \A m \in n..best : ImplAt(a, m) = ImplIn(chain, a, m)
      BY <1>1
    <2>. QED  BY <2>1, <2>2, <2>3 DEF Early
  <1>5. ASSUME Alive(a, n), OthersAt(a, n) # {} PROVE row.prev = PrevAt(a, n)
    <2>. DEFINE O == OthersAt(a, n)
    <2>1. O = { u \in U : E(chain, u).impl # ImplAt(a, n) }
      BY <1>1, <1>5 DEF OthersAt, At, E
    <2>2. U # {}
      BY <1>5, <2>1
    <2>3. row.impl = ImplAt(a, n)
      BY <1>3, <1>5, <2>2
    <2>4. Last(O) \in O /\ \A q \in O \ {Last(O)} : Before(q, Last(O))
      BY <1>2, <1>5, <2>1, LastIs
    <2>. DEFINE w == Last(O)
    <2>. HIDE DEF O
    <2>5. w \in U /\ E(chain, w).impl # row.impl
      BY <2>1, <2>3, <2>4
    <2>6. \A v \in U : Before(w, v) => E(chain, v).impl = row.impl
      <3>. SUFFICES ASSUME NEW v \in U, Before(w, v), E(chain, v).impl # row.impl PROVE FALSE
        OBVIOUS
      <3>1. v \in O /\ v # w
        BY <1>2, <2>1, <2>3, <2>5, Order
      <3>. QED  BY <1>2, <2>4, <2>5, <3>1, Order
    <2>7. row.prev = E(chain, w).impl
      BY <1>1, <1>5, <2>5, <2>6 DEF RowRight, RightAs, PrevRight
    <2>. QED  BY <2>7 DEF PrevAt, At, E, O
  <1>. QED  BY <1>1, <1>3, <1>4, <1>5 DEF ContractRight, RowRight, IsLive
-----------------------------------------------------------------------------
(* The row of a contract, step by step. *)

LEMMA BetweenNow ==
  ASSUME TypeInv, NEW a \in Contract, Spaced(a)
  PROVE  Between(chain, a, head, Reach, Done)
  <1>1. /\ chain \in Chain /\ head \in Int /\ Reach \in Int /\ head < Reach /\ Reach <= head + Window
        /\ Cut(chain, Done) /\ UpTo(chain, head) \subseteq Done /\ Done \subseteq UpTo(chain, Reach)
    BY NumType, DoneFacts DEF Reach, TypeInv, RoundInv
  <1>2. SpacedIn(chain, a, head, Reach)
    BY <1>1, SpacedSays, SpacedFacts
  <1>. QED  BY <1>1, <1>2 DEF Between

\* The blocks up to the next head say no less when it moves away.
LEMMA BatchGrows ==
  ASSUME NEW c \in Chain, NEW a, NEW h, NEW d \in Int, NEW d2 \in Int, d <= d2,
         Creates(c, a, Batch(c, h, d)) # {}
  PROVE  Creates(c, a, Batch(c, h, d2)) # {}
  <1>1. \A p \in PositionsOf(c) : p[1] \in Int
    BY PositionType
  <1>2. Batch(c, h, d) \subseteq Batch(c, h, d2)
    BY <1>1 DEF Batch, UpTo
  <1>. QED  BY <1>2 DEF Creates

\* A step that leaves the row and the cache alone, and handles nothing.
LEMMA ContractSame ==
  ASSUME NEW a \in Contract, ContractInv(a), Between(chain, a, head, Reach, Done),
         UNCHANGED <<chain, head>>, contract'[a] = contract[a], contractsCache'[a] = contractsCache[a],
         Done' = Done, best \in Int, best' \in Int, best <= best', Reach' \in Int, Reach <= Reach',
         Cached(a) => Reach' = Reach,
         pc = "down" => pc' = "down",
         pc' \in Saving /\ a \in toSave' => Cached(a),
         IsSaved(a)' <=> IsSaved(a)
  PROVE  ContractInv(a)'
  <1>1. Cached(a)' <=> Cached(a)
    BY DEF Cached
  <1>2. Cached(a) => CachedRow(chain, a, head, Reach', Done, best', contractsCache[a])
    BY CachedGrows DEF ContractInv, Between
  <1>3. OldRow(chain, a, head, Reach, Done, best, contract[a])
          => OldRow(chain, a, head, Reach', Done, best', contract[a])
    BY OldGrows DEF Between
  <1>4. Remains(a) => Remains(a)'
    <2>1. chain \in Chain /\ Reach \in Int
      BY DEF Between
    <2>. QED  BY <2>1, BatchGrows DEF Remains
  <1>. QED  BY <1>1, <1>2, <1>3, <1>4 DEF ContractInv

\* A handler that is about something else.
LEMMA ContractOther ==
  ASSUME NEW a \in Contract, ContractInv(a), Between(chain, a, head, Reach, Done),
         UNCHANGED <<chain, head, best>>, contract'[a] = contract[a], contractsCache'[a] = contractsCache[a],
         Reach' = Reach, pc \in Working, pc' \in Working,
         NEW u, NextOf(chain, Done, u), u \in UpTo(chain, Reach), Done' = Done \cup {u},
         ~ IsEntry(chain, u, "create", a), ~ IsEntry(chain, u, "upgrade", a), ~ IsEntry(chain, u, "destruct", a)
  PROVE  ContractInv(a)'
  <1>1. pc \notin Saving /\ pc' \notin Saving /\ pc # "down" /\ ~ IsSaved(a) /\ ~ Remains(a) /\ ~ IsSaved(a)'
    BY DEF Working, Saving, IsSaved, Remains
  <1>2. (Cached(a)' <=> Cached(a)) /\ Creates(chain, a, Done') = Creates(chain, a, Done)
    BY NextOther DEF Cached, Between
  <1>3. Cached(a) => CachedRow(chain, a, head, Reach, Done', best, contractsCache[a])
    BY CachedOther DEF ContractInv
  <1>4. OldRow(chain, a, head, Reach, Done', best, contract[a])
    BY <1>1, OldOther DEF ContractInv
  <1>. QED  BY <1>1, <1>2, <1>3, <1>4 DEF ContractInv

\* Where the handlers of contracts are.
LEMMA EntryFacts ==
  ASSUME TypeInv, CreateContract \/ Upgrade \/ Destruct
  PROVE  /\ UNCHANGED <<chain, best, head, pc>> /\ pc = "work" /\ Reach' = Reach
         /\ Done' = Done \cup {<<num, pos>>} /\ NextOf(chain, Done, <<num, pos>>)
         /\ <<num, pos>> \in UpTo(chain, Reach)
         /\ E(chain, <<num, pos>>) = Entry /\ Entry.of \in Contract
         /\ best \in Int /\ head < num /\ num <= Reach /\ Reach <= best
  <1>1. /\ UNCHANGED <<chain, best, head, num, pc>> /\ pc = "work" /\ Reach' = Reach
        /\ Done' = Done \cup {<<num, pos>>} /\ NextOf(chain, Done, <<num, pos>>)
        /\ E(chain, <<num, pos>>) = Entry /\ Entry.kind \in ContractKinds
    BY ContractEntries DEF NextOf
  <1>2. best \in Int /\ head < num /\ num <= Reach /\ Reach <= best
    BY <1>1, NumType, DoneFacts
  <1>3. <<num, pos>> \in UpTo(chain, Reach)
    BY <1>1, <1>2 DEF NextOf, UpTo
  <1>4. Entry.of \in Contract
    BY <1>1, NumType, PositionType, EntryFields DEF NextOf
  <1>. QED  BY <1>1, <1>2, <1>3, <1>4

LEMMA CreateStep ==
  ASSUME TypeInv, CreateContract, NEW a \in Contract, ContractInv(a), Between(chain, a, head, Reach, Done)
  PROVE  ContractInv(a)'
  <1>. DEFINE u == <<num, pos>>
              row == [status |-> "live", seen |-> num, impl |-> ImplIn(chain, a, best), prev |-> 0]
  <1>1. /\ UNCHANGED <<chain, best, head, pc>> /\ pc = "work" /\ Reach' = Reach
        /\ Done' = Done \cup {u} /\ NextOf(chain, Done, u) /\ u \in UpTo(chain, Reach)
        /\ E(chain, u) = Entry /\ Entry.of \in Contract
        /\ best \in Int /\ head < num /\ num <= Reach /\ Reach <= best
    BY EntryFacts
  <1>2. /\ Entry.kind = "create" /\ UNCHANGED contract
        /\ contractsCache' = IF Cached(Entry.of) THEN contractsCache
                             ELSE [contractsCache EXCEPT ![Entry.of] =
                                     [status |-> "live", seen |-> num, impl |-> ImplAt(Entry.of, best), prev |-> 0]]
    BY DEF CreateContract, Handling, rows
  <1>. HIDE DEF u
  <1>3. CASE Entry.of # a
    <2>1. contractsCache'[a] = contractsCache[a]
      BY <1>1, <1>2, <1>3 DEF TypeInv, TypeOK
    <2>. QED  BY <1>1, <1>2, <1>3, <2>1, ContractOther DEF IsEntry, Working
  <1>4. CASE Entry.of = a
    <2>1. IsEntry(chain, u, "create", a)
      BY <1>1, <1>2, <1>4 DEF IsEntry
    <2>2. /\ CachedRow(chain, a, head, Reach, Done', best, row)
          /\ \A p \in Creates(chain, a, Done) : p \in UpTo(chain, head)
          /\ \E p \in Creates(chain, a, Done') : p \notin UpTo(chain, head)
      BY <1>1, <2>1, CachedCreate
    <2>3. ~ Cached(a)
      BY <2>2 DEF ContractInv
    <2>4. contractsCache'[a] = row
      <3>1. ImplAt(a, best) = ImplIn(chain, a, best)
        BY <1>1, NumType, ChainSays
      <3>. QED  BY <1>2, <1>4, <2>3, <3>1 DEF TypeInv, TypeOK
    <2>5. Cached(a)'
      BY <2>4 DEF Cached, NoContract
    <2>6. pc \notin Saving /\ pc' \notin Saving /\ ~ IsSaved(a) /\ ~ IsSaved(a)' /\ ~ Remains(a)
      BY <1>1 DEF Saving, IsSaved, Remains
    <2>7. OldRow(chain, a, head, Reach, Done', best, contract[a])
      BY <1>1, <2>1, <2>6, OldCreate DEF ContractInv
    <2>. QED  BY <1>1, <1>2, <2>2, <2>4, <2>5, <2>6, <2>7 DEF ContractInv
  <1>. QED  BY <1>3, <1>4

LEMMA UpgradeStep ==
  ASSUME TypeInv, Upgrade, NEW a \in Contract, ContractInv(a), Between(chain, a, head, Reach, Done)
  PROVE  ContractInv(a)'
  <1>. DEFINE u == <<num, pos>>
              hit == Cached(Entry.of) /\ contractsCache[Entry.of].impl # Entry.impl
  <1>1. /\ UNCHANGED <<chain, best, head, pc>> /\ pc = "work" /\ Reach' = Reach
        /\ Done' = Done \cup {u} /\ NextOf(chain, Done, u) /\ u \in UpTo(chain, Reach)
        /\ E(chain, u) = Entry /\ Entry.of \in Contract
    BY EntryFacts
  <1>2. /\ Entry.kind = "upgrade"
        /\ hit => /\ contractsCache' = [contractsCache EXCEPT ![Entry.of] = Upgraded(@, Entry.impl)]
                  /\ UNCHANGED contract
        /\ ~ hit => /\ contract' = [contract EXCEPT ![Entry.of] = Upgraded(@, Entry.impl)]
                    /\ UNCHANGED contractsCache
    BY DEF Upgrade, Handling
  <1>3. contract \in [Contract -> ContractRow] /\ contractsCache \in [Contract -> ContractRow]
    BY DEF TypeInv, TypeOK
  <1>. HIDE DEF u
  <1>4. CASE Entry.of # a
    <2>1. contract'[a] = contract[a] /\ contractsCache'[a] = contractsCache[a]
      BY <1>1, <1>2, <1>3, <1>4
    <2>. QED  BY <1>1, <1>2, <1>4, <2>1, ContractOther DEF IsEntry, Working
  <1>5. CASE Entry.of = a
    <2>1. IsEntry(chain, u, "upgrade", a)
      BY <1>1, <1>2, <1>5 DEF IsEntry
    <2>2. pc \notin Saving /\ pc' \notin Saving /\ ~ IsSaved(a) /\ ~ IsSaved(a)' /\ ~ Remains(a)
      BY <1>1 DEF Saving, IsSaved, Remains
    <2>3. Creates(chain, a, Done') = Creates(chain, a, Done)
      BY <1>1, <2>1 DEF Creates, IsEntry
    <2>4. Cached(a) => Exists(contractsCache[a]) /\ Creates(chain, a, Batch(chain, head, Reach)) # {}
      BY BetweenFacts DEF ContractInv, CachedRow, Exists, Creates
    <2>5. Cached(a) => /\ contractsCache'[a] = Upgraded(contractsCache[a], Entry.impl)
                       /\ contractsCache'[a].status = contractsCache[a].status
      <3>1. Cached(a) => contractsCache'[a] = Upgraded(contractsCache[a], Entry.impl)
        BY <1>2, <1>3, <1>5, <2>4, UpgradedFacts
      <3>. QED  BY <1>3, <3>1, UpgradedFacts
    <2>6. Cached(a)' <=> Cached(a)
      <3>1. Cached(a) => Cached(a)'
        BY <2>4, <2>5 DEF Cached, NoContract, Exists
      <3>. QED  BY <1>2, <1>5, <3>1 DEF Cached
    <2>7. Cached(a) => CachedRow(chain, a, head, Reach, Done', best, contractsCache'[a])
      BY <1>1, <1>3, <2>1, <2>5, CachedUpgrade DEF ContractInv
    <2>8. contract'[a] = Upgraded(contract[a], Entry.impl) \/ (contract'[a] = contract[a] /\ Cached(a))
      BY <1>2, <1>3, <1>5
    <2>9. OldRow(chain, a, head, Reach, Done', best, contract'[a])
      <3>1. OldRow(chain, a, head, Reach, Done, best, contract[a])
        BY <2>2 DEF ContractInv
      <3>. QED  BY <1>1, <1>3, <2>1, <2>4, <2>8, <3>1, OldUpgrade
    <2>. QED  BY <1>1, <2>2, <2>3, <2>6, <2>7, <2>9 DEF ContractInv
  <1>. QED  BY <1>4, <1>5

LEMMA DestructStep ==
  ASSUME TypeInv, Destruct, NEW a \in Contract, ContractInv(a), Between(chain, a, head, Reach, Done)
  PROVE  ContractInv(a)'
  <1>. DEFINE u == <<num, pos>>
  <1>1. /\ UNCHANGED <<chain, best, head, pc>> /\ pc = "work" /\ Reach' = Reach
        /\ Done' = Done \cup {u} /\ NextOf(chain, Done, u) /\ u \in UpTo(chain, Reach)
        /\ E(chain, u) = Entry /\ Entry.of \in Contract
    BY EntryFacts
  <1>2. /\ Entry.kind = "destruct"
        /\ \/ /\ Cached(Entry.of)
              /\ contractsCache' = [contractsCache EXCEPT ![Entry.of].status = "destructed"]
              /\ UNCHANGED contract
           \/ /\ ~ Cached(Entry.of)
              /\ contract' = IF Exists(contract[Entry.of]) THEN [contract EXCEPT ![Entry.of].status = "destructed"]
                                                           ELSE contract
              /\ UNCHANGED contractsCache
    BY DEF Destruct, Handling
  <1>3. contract \in [Contract -> ContractRow] /\ contractsCache \in [Contract -> ContractRow]
    BY DEF TypeInv, TypeOK
  <1>. HIDE DEF u
  <1>4. CASE Entry.of # a
    <2>1. contract'[a] = contract[a] /\ contractsCache'[a] = contractsCache[a]
      BY <1>1, <1>2, <1>3, <1>4
    <2>. QED  BY <1>1, <1>2, <1>4, <2>1, ContractOther DEF IsEntry, Working
  <1>5. CASE Entry.of = a
    <2>1. IsEntry(chain, u, "destruct", a)
      BY <1>1, <1>2, <1>5 DEF IsEntry
    <2>2. pc \notin Saving /\ pc' \notin Saving /\ ~ IsSaved(a) /\ ~ IsSaved(a)' /\ ~ Remains(a)
      BY <1>1 DEF Saving, IsSaved, Remains
    <2>3. Creates(chain, a, Done') = Creates(chain, a, Done)
      BY <1>1, <2>1 DEF Creates, IsEntry
    <2>4. Cached(a) => contractsCache'[a] = [contractsCache[a] EXCEPT !.status = "destructed"] /\ contract'[a] = contract[a]
      BY <1>2, <1>3, <1>5
    <2>5. ~ Cached(a) => /\ contract'[a] = IF Exists(contract[a]) THEN [contract[a] EXCEPT !.status = "destructed"]
                                                                 ELSE contract[a]
                         /\ contractsCache'[a] = contractsCache[a]
      BY <1>2, <1>3, <1>5
    <2>6. Cached(a)' <=> Cached(a)
      <3>1. Cached(a) => contractsCache'[a].status = "destructed"
        BY <1>3, <2>4 DEF ContractRow
      <3>2. NoContract.status = "none"
        BY DEF NoContract
      <3>. QED  BY <2>5, <3>1, <3>2 DEF Cached
    <2>7. Cached(a) => CachedRow(chain, a, head, Reach, Done', best, contractsCache'[a])
      BY <1>1, <1>3, <2>1, <2>4, CachedDestruct DEF ContractInv
    <2>8. OldRow(chain, a, head, Reach, Done', best, contract'[a])
      <3>1. /\ OldRow(chain, a, head, Reach, Done, best, contract[a])
            /\ Cached(a) => \E p \in Creates(chain, a, Done) : p \notin UpTo(chain, head)
        BY <2>2 DEF ContractInv
      <3>. QED  BY <1>1, <1>3, <2>1, <2>4, <2>5, <3>1, OldDestruct
    <2>. QED  BY <1>1, <2>2, <2>3, <2>6, <2>7, <2>8 DEF ContractInv
  <1>. QED  BY <1>4, <1>5

LEMMA StartStep ==
  ASSUME TypeInv, Start, NEW a \in Contract, ContractInv(a), Between(chain, a, head, Reach, Done)
  PROVE  ContractInv(a)'
  <1>1. /\ pc = "down" /\ pc' = "idle" /\ UNCHANGED <<chain, best, head, num, pos, contractsCache, toSave>>
        /\ contract'[a] = IF contract[a].seen > head THEN NoContract ELSE contract[a]
    BY DEF Start, round, caches
  <1>2. Done' = Done /\ Reach' = Reach
    BY <1>1, SameDone DEF Reach
  <1>3. ~ IsSaved(a) /\ ~ IsSaved(a)' /\ pc' \notin Saving /\ (Cached(a)' <=> Cached(a))
    BY <1>1 DEF IsSaved, Saving, Cached
  <1>4. 0 <= head /\ head \in Int /\ contract[a].seen \in Int
    BY NumType DEF TypeInv, TypeOK, ContractRow
  <1>5. CASE contract[a].seen > head
    <2>1. ~ OldRow(chain, a, head, Reach, Done, best, contract[a])
      BY <1>4, <1>5 DEF OldRow
    <2>2. Creates(chain, a, Batch(chain, head, Reach)) # {}
      BY <1>3, <2>1 DEF ContractInv, Remains
    <2>3. OldRow(chain, a, head, Reach, Done, best, NoContract)
      BY <1>4, <2>2, OldRemoved
    <2>. QED  BY <1>1, <1>2, <1>3, <1>5, <2>3 DEF ContractInv
  <1>6. CASE ~ (contract[a].seen > head)
    <2>1. OldRow(chain, a, head, Reach, Done, best, contract[a])
      BY <1>3, <1>6 DEF ContractInv, Remains
    <2>. QED  BY <1>1, <1>2, <1>3, <1>6, <2>1 DEF ContractInv
  <1>. QED  BY <1>5, <1>6

LEMMA SaveContractStep ==
  ASSUME TypeInv, NEW b \in Contract, SaveContract(b),
         NEW a \in Contract, ContractInv(a), Between(chain, a, head, Reach, Done)
  PROVE  ContractInv(a)'
  <1>1. /\ UNCHANGED <<chain, best, head, num, pos, endNum, fast, pc, contractsCache>> /\ pc = "save"
        /\ b \in toSave /\ toSave' = toSave \ {b}
        /\ contract' = [contract EXCEPT ![b] =
             IF Exists(contract[b]) THEN [contractsCache[b] EXCEPT !.status = "redeployed"] ELSE contractsCache[b]]
    BY DEF SaveContract, round, caches
  <1>2. Done' = Done /\ Reach' = Reach /\ best \in Int /\ Reach \in Int
    BY <1>1, NumType, DoneFacts, SameDone DEF Reach
  <1>3. /\ contract \in [Contract -> ContractRow] /\ contractsCache \in [Contract -> ContractRow]
        /\ pc \in Saving /\ pc' \in Saving /\ (Cached(a)' <=> Cached(a))
    BY <1>1 DEF TypeInv, TypeOK, Saving, Cached
  <1>4. CASE a # b
    <2>1. contract'[a] = contract[a] /\ (a \in toSave' <=> a \in toSave)
      BY <1>1, <1>3, <1>4
    <2>2. IsSaved(a)' <=> IsSaved(a)
      BY <1>3, <2>1 DEF IsSaved
    <2>3. pc' \in Saving /\ a \in toSave' => Cached(a)
      BY <1>3, <2>1 DEF ContractInv
    <2>. QED  BY <1>1, <1>2, <2>1, <2>2, <2>3, ContractSame
  <1>5. CASE a = b
    <2>. DEFINE row == contract[a]
                kept == contractsCache[a]
    <2>1. /\ contract'[a] = IF Exists(row) THEN [kept EXCEPT !.status = "redeployed"] ELSE kept
          /\ a \notin toSave' /\ Cached(a)
      BY <1>1, <1>3, <1>5 DEF ContractInv
    <2>2. ~ IsSaved(a) /\ ~ Remains(a) /\ IsSaved(a)'
      BY <1>1, <1>3, <1>5, <2>1 DEF IsSaved, Remains
    <2>3. /\ OldRow(chain, a, head, Reach, Done, best, row)
          /\ CachedRow(chain, a, head, Reach, Done, best, kept)
          /\ \E p \in Creates(chain, a, Done) : p \notin UpTo(chain, head)
      BY <2>1, <2>2 DEF ContractInv
    <2>4. kept \in ContractRow
      BY <1>3
    <2>. HIDE DEF row, kept
    <2>5. SavedRow(contract'[a], kept)
      BY <2>1, <2>3, <2>4, SaveRow
    <2>. QED  BY <1>1, <1>2, <1>3, <2>1, <2>2, <2>3, <2>5 DEF ContractInv, kept
  <1>. QED  BY <1>4, <1>5

\* When the head moves the row is right, and it is an old one for the next batch.
LEMMA SaveHeadStep ==
  ASSUME TypeInv, SaveHead, NEW a \in Contract, ContractInv(a), Spaced(a)
  PROVE  /\ RowRight(chain, a, num, best, contract[a])
         /\ ContractInv(a)'
  <1>1. /\ pc = "save" /\ toSave = {} /\ UNCHANGED <<chain, best, contract>> /\ contractsCache'[a] = NoContract
        /\ pc' \in {"idle", "work"} /\ pc \in Saving /\ pc' \notin Saving /\ head' = num
    BY DEF SaveHead, EmptyCaches, Saving, rows
  <1>2. /\ Done = UpTo(chain, num) /\ Done' = UpTo(chain, num) /\ num = Reach
        /\ Reach' \in Int /\ num < Reach' /\ Reach' <= num + Window
    BY <1>1, SaveHeadDone
  <1>3. Between(chain, a, head, num, UpTo(chain, num))
    BY <1>2, BetweenNow
  <1>4. /\ best \in Int /\ num \in Int /\ chain \in Chain /\ contract[a] \in ContractRow
        /\ ~ Remains(a) /\ (Cached(a) <=> IsSaved(a))
    BY <1>1, NumType DEF TypeInv, TypeOK, Remains, IsSaved
  <1>5. RowRight(chain, a, num, best, contract[a])
    <2>1. CASE Cached(a)
      <3>1. /\ CachedRow(chain, a, head, num, UpTo(chain, num), best, contractsCache[a])
            /\ SavedRow(contract[a], contractsCache[a])
            /\ \E p \in Creates(chain, a, UpTo(chain, num)) : p \notin UpTo(chain, head)
        BY <1>2, <1>4, <2>1 DEF ContractInv
      <3>. QED  BY <3>1, SavedRight
    <2>2. CASE ~ Cached(a)
      <3>1. /\ OldRow(chain, a, head, num, UpTo(chain, num), best, contract[a])
            /\ \A p \in Creates(chain, a, UpTo(chain, num)) : p \in UpTo(chain, head)
        BY <1>2, <1>4, <2>2 DEF ContractInv
      <3>. QED  BY <1>3, <1>4, <3>1, OldRight
    <2>. QED  BY <2>1, <2>2
  <1>6. OldRow(chain, a, num, Reach', UpTo(chain, num), best, contract[a])
    <2>1. SpacedIn(chain, a, num, Reach')
      BY <1>2, <1>4, SpacedSays, SpacedFacts
    <2>2. Cut(chain, UpTo(chain, num))
      BY <1>3 DEF Between
    <2>3. UpTo(chain, num) \subseteq UpTo(chain, Reach')
      <3>1. \A p \in PositionsOf(chain) : p[1] \in Int
        BY <1>4, PositionType
      <3>. QED  BY <1>2, <1>4, <3>1 DEF UpTo
    <2>4. Between(chain, a, num, Reach', UpTo(chain, num))
      BY <1>2, <1>4, <2>1, <2>2, <2>3 DEF Between
    <2>. QED  BY <1>5, <2>4, RightOld
  <1>7. /\ ~ Cached(a)' /\ ~ IsSaved(a)'
        /\ \A p \in Creates(chain, a, Done') : p \in UpTo(chain, num)
    BY <1>1, <1>2 DEF Cached, IsSaved, Creates
  <1>. QED  BY <1>1, <1>2, <1>5, <1>6, <1>7 DEF ContractInv

LEMMA CrashStep ==
  ASSUME TypeInv, Crash, NEW a \in Contract, ContractInv(a), Between(chain, a, head, Reach, Done)
  PROVE  ContractInv(a)'
  <1>. DEFINE H == UpTo(chain, head)
  <1>1. /\ pc # "down" /\ pc' = "down" /\ UNCHANGED <<chain, head, best, num, pos>>
        /\ contractsCache'[a] = NoContract /\ toSave' = {}
    BY DEF Crash, round, EmptyCaches
  <1>2. \/ contract'[a] = contract[a]
        \/ /\ pc = "save" /\ a \in toSave /\ contract'[a] = NoContract
    BY DEF Crash, CutShort, TypeInv, TypeOK
  <1>3. Done' = H
    BY <1>1 DEF Done, UpTo, Working, Saving
  <1>4. /\ Reach' \in Int /\ Reach <= Reach' /\ Reach \in Int /\ best \in Int /\ chain \in Chain
        /\ head \in Int /\ 0 <= head
    <2>1. ~ SaveHead
      BY <1>1 DEF SaveHead
    <2>2. [Next]_vars
      BY DEF Next, Fault
    <2>. QED  BY <2>1, <2>2, NumType, DoneFacts, StepFacts
  <1>5. Between(chain, a, head, Reach, H)
    BY BetweenFacts DEF Between
  <1>6. /\ ~ Cached(a)' /\ ~ IsSaved(a)' /\ pc' \notin Saving /\ ~ Remains(a)
        /\ \A p \in Creates(chain, a, Done') : p \in H
    BY <1>1, <1>3 DEF Cached, IsSaved, Saving, Creates, Remains
  <1>7. Cached(a) => Creates(chain, a, Batch(chain, head, Reach)) # {}
    BY BetweenFacts DEF ContractInv, Creates
  <1>8. ASSUME NEW row, OldRow(chain, a, head, Reach, H, best, row)
        PROVE  OldRow(chain, a, head, Reach', H, best, row)
    BY <1>4, <1>5, <1>8, OldGrows
  <1>9. Remains(a)' \/ OldRow(chain, a, head, Reach', H, best, contract'[a])
    <2>1. CASE contract'[a] = contract[a] /\ IsSaved(a)
      <3>1. contract[a].seen = contractsCache[a].seen /\ Cached(a) /\ head < contractsCache[a].seen
        BY <2>1 DEF ContractInv, SavedRow, CachedRow, IsSaved
      <3>2. Creates(chain, a, Batch(chain, head, Reach')) # {}
        BY <1>4, <1>7, <3>1, BatchGrows
      <3>3. contract[a].seen \in Int
        BY RowsAssumption DEF TypeInv, TypeOK, ContractRow
      <3>. QED  BY <1>1, <1>4, <2>1, <3>1, <3>2, <3>3 DEF Remains
    <2>2. CASE contract'[a] = contract[a] /\ ~ IsSaved(a)
      <3>1. OldRow(chain, a, head, Reach, Done, best, contract[a])
        BY <1>6, <2>2 DEF ContractInv
      <3>2. OldRow(chain, a, head, Reach, H, best, contract[a])
        BY <3>1, OldCrash
      <3>. QED  BY <1>8, <2>2, <3>2
    <2>3. CASE pc = "save" /\ a \in toSave /\ contract'[a] = NoContract
      <3>1. Cached(a)
        BY <2>3 DEF ContractInv, Saving
      <3>2. OldRow(chain, a, head, Reach, H, best, NoContract)
        BY <1>4, <1>5, <1>7, <3>1, OldRemoved
      <3>. QED  BY <1>8, <2>3, <3>2
    <2>. QED  BY <1>2, <2>1, <2>2, <2>3
  <1>. QED  BY <1>1, <1>3, <1>6, <1>9 DEF ContractInv

LEMMA ElsewhereStep ==
  ASSUME TypeInv, [Next]_vars, Elsewhere, ~ SaveHead,
         NEW a \in Contract, ContractInv(a), Between(chain, a, head, Reach, Done)
  PROVE  ContractInv(a)'
  <1>1. /\ UNCHANGED <<chain, head, contract, contractsCache>>
        /\ \/ Done' = Done
           \/ /\ Done' = Done \cup {<<num, pos>>} /\ NextOf(chain, Done, <<num, pos>>)
              /\ E(chain, <<num, pos>>).kind = "bucket"
              /\ pc \in Working /\ pc' \in Working
        /\ \/ pc' = pc
           \/ pc \in Working /\ pc' \in Working
           \/ pc = "idle" /\ pc' = "work"
           \/ pc = "work" /\ pc' = "save"
           \/ pc = "save" /\ pc' = "stuck"
        /\ \/ toSave' = toSave /\ (pc' = "save" => pc = "save")
           \/ pc = "work" /\ pc' = "save" /\ toSave' = { x \in Contract : Cached(x) }
    BY ElsewhereFacts
  <1>2. /\ best \in Int /\ best' \in Int /\ best <= best' /\ Reach' \in Int /\ Reach <= Reach'
        /\ pc \notin {"down", "idle"} /\ pc' \notin {"down", "idle"} => Reach' = Reach
    BY StepFacts
  <1>3. /\ pc \in {"down", "idle"} => Done = UpTo(chain, head)
        /\ pc \notin {"down", "idle"} => head < num /\ num <= Reach /\ Reach <= best
    BY DoneFacts
  <1>4. Cached(a) => pc \notin {"down", "idle"}
    BY <1>3 DEF ContractInv, Creates
  <1>5. pc' \in {"down", "idle"} => pc' = pc
    BY <1>1 DEF Working
  <1>6. CASE Done' = Done
    <2>1. Cached(a) => Reach' = Reach
      BY <1>2, <1>4, <1>5
    <2>2. pc = "down" => pc' = "down"
      BY <1>1 DEF Working
    <2>3. CASE toSave' = toSave /\ (pc' = "save" => pc = "save")
      <3>1. pc' \in Saving <=> pc \in Saving
        BY <1>1, <2>3 DEF Working, Saving
      <3>2. (pc' \in Saving /\ a \in toSave' => Cached(a)) /\ (IsSaved(a)' <=> IsSaved(a))
        BY <1>1, <2>3, <3>1 DEF ContractInv, IsSaved, Cached
      <3>. QED  BY <1>1, <1>2, <1>6, <2>1, <2>2, <3>2, ContractSame
    <2>4. CASE pc = "work" /\ pc' = "save" /\ toSave' = { x \in Contract : Cached(x) }
      <3>1. a \in toSave' <=> Cached(a)
        BY <2>4
      <3>2. IsSaved(a)' <=> IsSaved(a)
        BY <1>1, <2>4, <3>1 DEF IsSaved, Cached, Saving
      <3>. QED  BY <1>1, <1>2, <1>6, <2>1, <2>2, <3>1, <3>2, ContractSame
    <2>. QED  BY <1>1, <2>3, <2>4
  <1>7. CASE /\ Done' = Done \cup {<<num, pos>>} /\ NextOf(chain, Done, <<num, pos>>)
             /\ E(chain, <<num, pos>>).kind = "bucket"
             /\ pc \in Working /\ pc' \in Working
    <2>. DEFINE u == <<num, pos>>
    <2>1. pc \notin {"down", "idle"} /\ pc' \notin {"down", "idle"} /\ pc \notin Saving /\ pc' \notin Saving
          /\ pc # "down" /\ ~ IsSaved(a) /\ ~ IsSaved(a)' /\ ~ Remains(a)
      BY <1>7 DEF Working, Saving, IsSaved, Remains
    <2>2. Reach' = Reach
      BY <1>2, <2>1
    <2>3. u \in UpTo(chain, Reach)
      BY <1>3, <1>7, <2>1 DEF NextOf, UpTo
    <2>. HIDE DEF u
    <2>4. ~ IsEntry(chain, u, "create", a) /\ ~ IsEntry(chain, u, "upgrade", a) /\ ~ IsEntry(chain, u, "destruct", a)
      BY <1>7 DEF IsEntry, u
    <2>5. NextOf(chain, Done, u) /\ Done' = Done \cup {u}
      BY <1>7 DEF u
    <2>6. /\ Cached(a)' <=> Cached(a)
          /\ Creates(chain, a, Done') = Creates(chain, a, Done)
      BY <1>1, <2>4, <2>5, NextOther DEF Cached, Between
    <2>7. Cached(a) => CachedRow(chain, a, head, Reach, Done', best', contractsCache[a])
      <3>1. Cached(a) => CachedRow(chain, a, head, Reach, Done', best, contractsCache[a])
        BY <2>4, <2>5, CachedOther DEF ContractInv
      <3>. QED  BY <1>2, <3>1, CachedGrows DEF Between
    <2>8. OldRow(chain, a, head, Reach, Done', best', contract[a])
      <3>1. OldRow(chain, a, head, Reach, Done, best, contract[a])
        BY <2>1 DEF ContractInv
      <3>2. OldRow(chain, a, head, Reach, Done, best', contract[a])
        BY <1>2, <3>1, OldGrows DEF Between
      <3>. QED  BY <2>3, <2>4, <2>5, <3>2, OldOther
    <2>. QED  BY <1>1, <2>1, <2>2, <2>6, <2>7, <2>8 DEF ContractInv
  <1>. QED  BY <1>1, <1>6, <1>7

LEMMA CommitteeWrites ==
  ASSUME TypeInv, NewCommittee \/ SaveCommittees,
         NEW a \in Contract, ContractInv(a), Between(chain, a, head, Reach, Done)
  PROVE  ContractInv(a)'
  <1>1. CASE NewCommittee
    <2>. DEFINE u == <<num, pos>>
    <2>1. /\ UNCHANGED <<chain, best, head, num, pc, fast, endNum, contract, contractsCache>> /\ pc = "work"
          /\ pos <= Len(Script[chain][num]) /\ pos' = pos + 1 /\ Entry.kind = "committee"
      BY <1>1 DEF NewCommittee, Handling, Handled
    <2>2. /\ Done' = Done \cup {u} /\ NextOf(chain, Done, u) /\ E(chain, u) = Entry
      BY <2>1, HandledDone DEF Working, NextOf
    <2>3. Reach' = Reach
      BY <2>1 DEF Reach
    <2>4. u \in UpTo(chain, Reach)
      BY <2>1, <2>2, DoneFacts DEF NextOf, UpTo
    <2>. HIDE DEF u
    <2>5. ~ IsEntry(chain, u, "create", a) /\ ~ IsEntry(chain, u, "upgrade", a) /\ ~ IsEntry(chain, u, "destruct", a)
      BY <2>1, <2>2 DEF IsEntry
    <2>. QED  BY <2>1, <2>2, <2>3, <2>4, <2>5, ContractOther DEF Working
  <1>2. CASE SaveCommittees
    <2>1. UNCHANGED <<chain, best, head, num, pos, endNum, fast, pc, contract, contractsCache, toSave>>
      BY <1>2 DEF SaveCommittees, round
    <2>2. Done' = Done /\ Reach' = Reach /\ best \in Int /\ Reach \in Int
      BY <2>1, NumType, DoneFacts, SameDone DEF Reach
    <2>3. (pc' \in Saving /\ a \in toSave' => Cached(a)) /\ (IsSaved(a)' <=> IsSaved(a))
      BY <2>1 DEF ContractInv, IsSaved, Cached
    <2>. QED  BY <2>1, <2>2, <2>3, ContractSame
  <1>. QED  BY <1>1, <1>2

LEMMA ContractStep ==
  ASSUME TypeInv, [Next]_vars, NEW a \in Contract, NoneSwallowed', Spaced(a), ContractInv(a)
  PROVE  ContractInv(a)'
  <1>1. Between(chain, a, head, Reach, Done)
    BY BetweenNow
  <1>2. CASE Start
    BY <1>1, <1>2, StartStep
  <1>3. CASE CreateContract
    BY <1>1, <1>3, CreateStep
  <1>4. CASE Upgrade
    BY <1>1, <1>4, UpgradeStep
  <1>5. CASE Destruct
    BY <1>1, <1>5, DestructStep
  <1>6. CASE NewCommittee \/ SaveCommittees
    BY <1>1, <1>6, CommitteeWrites
  <1>7. ASSUME NEW b \in Contract, SaveContract(b) PROVE ContractInv(a)'
    BY <1>1, <1>7, SaveContractStep
  <1>8. CASE SaveHead
    BY <1>8, SaveHeadStep
  <1>9. CASE Crash
    BY <1>1, <1>9, CrashStep
  <1>10. CASE Elsewhere /\ ~ SaveHead
    BY <1>1, <1>10, ElsewhereStep
  <1>11. ~ Swallowed
    <2>. SUFFICES ASSUME Swallowed PROVE FALSE
      OBVIOUS
    <2>1. spent' = [spent EXCEPT !["swallow"] = @ + 1] /\ spent \in [FaultKind -> Nat]
      BY DEF Swallowed, Spend, TypeInv, TypeOK
    <2>2. spent'["swallow"] = spent["swallow"] + 1 /\ spent["swallow"] \in Nat
      BY <2>1 DEF FaultKind
    <2>. QED  BY <2>2 DEF NoneSwallowed
  <1>. QED
    BY <1>2, <1>3, <1>4, <1>5, <1>6, <1>7, <1>8, <1>9, <1>10, <1>11
    DEF Next, PosStep, MetricStep, Fault, Waiting, Save, Handle, Elsewhere
-----------------------------------------------------------------------------
(* The rows when the head moves. *)

\* No error is forgotten, and the chain stays the same.
LEMMA StillSpaced ==
  ASSUME TypeInv, [Next]_vars, NEW a \in Contract
  PROVE  /\ NoneSwallowed' => NoneSwallowed
         /\ Spaced(a)' <=> Spaced(a)
  <1>1. NoneSwallowed' => NoneSwallowed
    <2>1. spent \in [FaultKind -> Nat]
      BY DEF TypeInv, TypeOK
    <2>2. \/ spent' = spent
          \/ \E k \in FaultKind : spent' = [spent EXCEPT ![k] = @ + 1]
      BY DEF Next, vars, posVars, metricVars, ChainGrows, PosStep, Start, BeginRound, Handle, CreateContract, Upgrade,
             Destruct, NewCommittee, OpenBuckets, Buckets, CloseBuckets, AskNode, FindBucket, WriteBucket, EndOfBlock,
             Save, SaveCommittees, SaveContract, ContractExisted, SaveHead, MetricStep, MetricStart, Compare, GetBuckets,
             DeleteAll, InsertAll, Fault, Swallowed, Crash, MetricFails, Waiting, Spend, FaultKind
    <2>3. \A k \in FaultKind : spent["swallow"] <= [spent EXCEPT ![k] = @ + 1]["swallow"]
      BY <2>1 DEF FaultKind
    <2>. QED  BY <2>1, <2>2, <2>3 DEF NoneSwallowed, FaultKind
  <1>2. chain' = chain
    BY StepFacts
  <1>3. Spaced(a)' <=> Spaced(a)
    BY <1>2 DEF Spaced, CreationsOf, HistoryOf, Of, Positions, At
  <1>. QED  BY <1>1, <1>3

LEMMA InitInv ==
  ASSUME Init PROVE Inv
  <1>1. TypeInv
    BY TypeInit
  <1>2. /\ head = 0 /\ pc = "down" /\ toSave = {}
        /\ contract = [a \in Contract |-> NoContract] /\ contractsCache = [a \in Contract |-> NoContract]
        /\ committee = [k \in Epoch |-> NoCommittee] /\ committeesCache = [k \in Epoch |-> NoCommittee]
    BY DEF Init
  <1>3. /\ \A p \in PositionsOf(chain) : ~ (p[1] <= head)
        /\ Done = {} /\ UpTo(chain, head) = {}
    <2>1. \A p \in PositionsOf(chain) : p[1] \in Int /\ 1 <= p[1]
      BY <1>1, DoneFacts
    <2>. QED  BY <1>2, <2>1 DEF Done, UpTo, Working, Saving
  <1>4. ASSUME NEW k \in Epoch PROVE CommitteeInv(k)
    <2>1. committee[k] = NoCommittee /\ committeesCache[k] = NoCommittee /\ NoCommittee.end = -1
      BY <1>2 DEF NoCommittee
    <2>2. \A p \in Starts(chain, k) : p \in PositionsOf(chain)
      BY DEF Starts
    <2>. QED  BY <1>3, <2>1, <2>2 DEF CommitteeInv
  <1>5. ASSUME NEW a \in Contract PROVE ContractInv(a)
    <2>1. contract[a] = NoContract /\ ~ Cached(a) /\ ~ IsSaved(a) /\ pc \notin Saving
      BY <1>2 DEF Cached, IsSaved, Saving
    <2>2. /\ Creates(chain, a, {}) = {} /\ Destructs(chain, a, {}) = {} /\ History(chain, a, {}) = {}
          /\ ~ AliveIn(chain, a, {})
      BY DEF AliveIn, History, Creates, Destructs, Upgrades
    <2>3. NoContract.seen <= head /\ ~ IsLive(NoContract) /\ ~ Exists(NoContract)
      BY <1>2 DEF NoContract, IsLive, Exists
    <2>4. OldRow(chain, a, head, Reach, Done, best, NoContract)
      BY <1>3, <2>2, <2>3 DEF OldRow
    <2>. QED  BY <1>3, <2>1, <2>2, <2>4 DEF ContractInv
  <1>. QED  BY <1>1, <1>4, <1>5 DEF Inv

LEMMA InvStep ==
  ASSUME Inv, [Next]_vars PROVE Inv'
  <1>1. TypeInv /\ TypeInv'
    BY TypeStep DEF Inv
  <1>2. \A k \in Epoch : CommitteeInv(k)'
    BY CommitteeStep DEF Inv
  <1>3. ASSUME NoneSwallowed', NEW a \in Contract, Spaced(a)' PROVE ContractInv(a)'
    <2>1. NoneSwallowed /\ Spaced(a)
      BY <1>1, <1>3, StillSpaced
    <2>2. ContractInv(a)
      BY <2>1 DEF Inv
    <2>. QED  BY <1>1, <1>3, <2>1, <2>2, ContractStep
  <1>. QED  BY <1>1, <1>2, <1>3 DEF Inv

\* RowsExact: when the head moves, the row of every contract says whether there is a contract, which
\* implementation it delegates to and which was the one before, and every committee has its row with
\* its end, whatever crashes came in between: the updates in place of batches that were not committed
\* included.  For contracts, if no handler swallowed an error and none was created twice in a round.
THEOREM SharedRowsAreExact == Spec => RowsExact
  <1>1. Init => Inv
    BY InitInv
  <1>2. Inv /\ [Next]_vars => Inv'
    BY InvStep
  <1>3. ASSUME Inv, [Next]_vars, head' # head
        PROVE  /\ NoneSwallowed => \A a \in Contract : Spaced(a) => ContractRight(a, head')
               /\ \A k \in Epoch : committee[k] = CommitteeAt(k, head')
    <2>1. SaveHead /\ TypeInv
      BY <1>3, StepFacts DEF Inv
    <2>2. \A k \in Epoch : committee[k] = CommitteeAt(k, head')
      <3>. TAKE k \in Epoch
      <3>1. CommitteeInv(k)
        BY <1>3 DEF Inv
      <3>. QED  BY <2>1, <3>1, SaveHeadCommittees
    <2>3. ASSUME NoneSwallowed, NEW a \in Contract, Spaced(a) PROVE ContractRight(a, head')
      <3>1. ContractInv(a)
        BY <1>3, <2>3 DEF Inv
      <3>2. RowRight(chain, a, num, best, contract[a]) /\ head' = num
        BY <2>1, <2>3, <3>1, SaveHeadStep DEF SaveHead
      <3>3. chain \in Chain /\ best \in Int /\ num \in Int
        BY <2>1, NumType
      <3>. QED  BY <3>2, <3>3, RightContract
    <2>. QED  BY <2>2, <2>3
  <1>4. ASSUME Inv, [Next]_vars
        PROVE  [ head' # head =>
                   /\ NoneSwallowed => \A a \in Contract : Spaced(a) => ContractRight(a, head')
                   /\ \A k \in Epoch : committee[k] = CommitteeAt(k, head') ]_vars
    BY <1>3, <1>4
  <1>. QED  BY <1>1, <1>2, <1>4, PTL DEF Spec, RowsExact
=============================================================================
