---------------------------- MODULE NftSyncProofs ----------------------------
(***************************************************************************)
(* Theorems about NftSync, for every chain, every window size and any      *)
(* number of faults.                                                       *)
(***************************************************************************)
EXTENDS NftSync, FiniteSetTheorems, TLAPS

RowDoc == [value : Nat, num : -1..MaxBlock]

MintDoc == [owner : Holder, value : Nat, num : -1..MaxBlock]

UpdateDoc == [origin : Holder, owner : Holder, value : Nat, num : -1..MaxBlock]

\* The process works on a round.
Active == pc \in {"scan", "insert", "update"}
-----------------------------------------------------------------------------
(* Types. *)

LEMMA ConstantFacts ==
  /\ MaxBlock \in Nat /\ Window \in Nat /\ Window > 0 /\ Block = 0..MaxBlock /\ MaxValue \in Nat
  /\ Len(Kinds) = 4 /\ Zero \in Holder /\ NoOwner \notin Holder
  /\ Item721 \subseteq Item /\ Item1155 \subseteq Item
  BY NftAssumption DEF Block, Kinds, Holder, Item

LEMMA EventFacts ==
  ASSUME NEW e \in Event
  PROVE  /\ e.num \in 1..MaxBlock /\ e.num \in Int /\ e.num # -1 /\ e.num \in -1..MaxBlock
         /\ e.from \in Holder /\ e.to \in Holder /\ e.value \in Nat /\ e.value # 0
         /\ e.kind \in {"owner", "erc721", "single", "batch"}
         /\ e.kind = "owner" => e.item \in Contract
         /\ e.kind = "erc721" => e.item \in Item721 /\ e.item \in Item
         /\ e.kind \in {"single", "batch"} => e.item \in Item1155 /\ e.item \in Item
  <1>1. /\ e.num \in 1..MaxBlock /\ MaxBlock \in Nat /\ e.value \in Nat \ {0}
        /\ e.kind \in {"owner", "erc721", "single", "batch"}
        /\ e.from \in Holder /\ e.to \in Holder
        /\ e.kind = "owner" => e.item \in Contract
        /\ e.kind = "erc721" => e.item \in Item721
        /\ e.kind \in {"single", "batch"} => e.item \in Item1155
    BY NftAssumption
  <1>. QED  BY <1>1 DEF Item

LEMMA PlusFact ==
  ASSUME NEW a \in Nat, NEW b \in Nat
  PROVE  Plus(a, b) \in Nat
  BY ConstantFacts DEF Plus

LEMMA DocFact ==
  ASSUME TypeOK, NEW i \in Item, NEW o \in Holder
  PROVE  /\ Load(i, o) \in UpdateDoc /\ Doc(i, o) \in UpdateDoc
         /\ row[i][o] \in RowDoc /\ Key1155(i, o) \in Key
  <1>1. row[i][o] \in RowDoc
    BY DEF TypeOK, RowDoc
  <1>2. Key1155(i, o) \in Key
    BY DEF Key, Key1155
  <1>3. Load(i, o) \in UpdateDoc
    BY <1>1 DEF Load, UpdateDoc, RowDoc
  <1>4. updated[Key1155(i, o)] \in UpdateDoc
    BY <1>2 DEF TypeOK, UpdateDoc
  <1>. QED  BY <1>1, <1>2, <1>3, <1>4 DEF Doc

LEMMA ReceiveFact ==
  ASSUME TypeOK, NEW e \in Event, e.kind \in {"single", "batch"}, NEW n \in -1..MaxBlock
  PROVE  /\ ReceiveMinted(e, n) \in [Key -> MintDoc]
         /\ ReceiveUpdated(e) \in [Key -> UpdateDoc]
  <1>. DEFINE k == Key1155(e.item, e.to)
  <1>1. /\ k \in Key /\ e.to \in Holder /\ e.value \in Nat /\ Doc(e.item, e.to) \in UpdateDoc
    BY EventFacts, DocFact
  <1>2. minted \in [Key -> MintDoc] /\ updated \in [Key -> UpdateDoc]
    BY DEF TypeOK, MintDoc, UpdateDoc
  <1>3. minted[k].value \in Nat
    BY <1>1, <1>2 DEF MintDoc
  <1>4. Plus(minted[k].value, e.value) \in Nat
    BY <1>1, <1>3, PlusFact
  <1>5. [owner |-> e.to, value |-> Plus(minted[k].value, e.value), num |-> n] \in MintDoc
    BY <1>1, <1>4 DEF MintDoc
  <1>6. Doc(e.item, e.to).value \in Nat
    BY <1>1 DEF UpdateDoc
  <1>7. Plus(Doc(e.item, e.to).value, e.value) \in Nat
    BY <1>1, <1>6, PlusFact
  <1>8. [Doc(e.item, e.to) EXCEPT !.value = Plus(@, e.value)] \in UpdateDoc
    BY <1>1, <1>7 DEF UpdateDoc
  <1>9. ReceiveMinted(e, n) \in [Key -> MintDoc]
    BY <1>1, <1>2, <1>5 DEF ReceiveMinted, Set
  <1>10. ReceiveUpdated(e) \in [Key -> UpdateDoc]
    BY <1>1, <1>2, <1>8 DEF ReceiveUpdated, Set
  <1>. QED  BY <1>9, <1>10

\* What handling an event does to the tables.
LEMMA ScanType ==
  ASSUME TypeOK, NEW e \in Event, Scan(e)
  PROVE  /\ owner' \in [Contract -> Holder \cup {NoOwner}]
         /\ minted' \in [Key -> MintDoc] /\ updated' \in [Key -> UpdateDoc] /\ row' = row
  <1>. USE DEF table, cache
  <1>1. /\ minted \in [Key -> MintDoc] /\ updated \in [Key -> UpdateDoc]
        /\ owner \in [Contract -> Holder \cup {NoOwner}]
    BY DEF TypeOK, MintDoc, UpdateDoc
  <1>2. /\ e.to \in Holder /\ e.from \in Holder /\ e.value \in Nat /\ e.num \in -1..MaxBlock
        /\ 1 \in Nat /\ NoDoc \in UpdateDoc
    BY EventFacts, ConstantFacts DEF NoDoc, UpdateDoc
  <1>3. CASE TransferContract(e)
    BY <1>1, <1>2, <1>3, EventFacts DEF TransferContract, Set
  <1>4. CASE Mint721(e)
    <2>1. [owner |-> e.to, value |-> 1, num |-> e.num] \in MintDoc
      BY <1>2 DEF MintDoc
    <2>2. Key721(e.item) \in Key
      BY <1>4, EventFacts, ConstantFacts DEF Mint721, Key721, Key
    <2>. QED  BY <1>1, <1>4, <2>1, <2>2 DEF Mint721, Set
  <1>5. CASE Transfer721(e)
    <2>. DEFINE k == Key721(e.item)
    <2>1. k \in Key /\ e.item \in Item
      BY <1>5, EventFacts, ConstantFacts DEF Transfer721, Key721, Key
    <2>2. [minted EXCEPT ![k].owner = e.to] \in [Key -> MintDoc]
      BY <1>1, <1>2, <2>1 DEF MintDoc
    <2>3. [updated EXCEPT ![k].owner = e.to] \in [Key -> UpdateDoc]
      BY <1>1, <1>2, <2>1 DEF UpdateDoc
    <2>4. [Load(e.item, e.from) EXCEPT !.owner = e.to] \in UpdateDoc
      <3>1. Load(e.item, e.from) \in UpdateDoc
        BY <1>2, <2>1, DocFact
      <3>. QED  BY <1>2, <3>1 DEF UpdateDoc
    <2>. QED  BY <1>1, <1>5, <2>1, <2>2, <2>3, <2>4 DEF Transfer721, Set
  <1>6. CASE Mint1155(e)
    <2>. DEFINE k == Key1155(e.item, e.to)
    <2>1. k \in Key /\ Load(e.item, e.to) \in UpdateDoc
      BY <1>2, <1>6, EventFacts, DocFact DEF Mint1155
    <2>2. minted[k].value \in Nat /\ Load(e.item, e.to).value \in Nat
      BY <1>1, <2>1 DEF MintDoc, UpdateDoc
    <2>3. Plus(minted[k].value, e.value) \in Nat /\ Plus(Load(e.item, e.to).value, e.value) \in Nat
      BY <1>2, <2>2, PlusFact
    <2>4. [minted EXCEPT ![k].value = Plus(@, e.value)] \in [Key -> MintDoc]
      BY <1>1, <2>1, <2>3 DEF MintDoc
    <2>5. [Load(e.item, e.to) EXCEPT !.value = Plus(@, e.value)] \in UpdateDoc
      BY <2>1, <2>3 DEF UpdateDoc
    <2>6. [owner |-> e.to, value |-> e.value, num |-> e.num] \in MintDoc
      BY <1>2 DEF MintDoc
    <2>. QED  BY <1>1, <1>6, <2>1, <2>4, <2>5, <2>6 DEF Mint1155, Set
  <1>7. CASE HandOver(e)
    <2>. DEFINE k == Key1155(e.item, e.from)
    <2>1. k \in Key
      BY <1>2, <1>7, EventFacts, DocFact DEF HandOver, Transferring
    <2>2. [minted EXCEPT ![k].owner = e.to] \in [Key -> MintDoc]
      BY <1>1, <1>2, <2>1 DEF MintDoc
    <2>. QED  BY <1>1, <1>7, <2>2 DEF HandOver
  <1>8. CASE SplitMinted(e)
    <2>. DEFINE k == Key1155(e.item, e.from)
                R == ReceiveMinted(e, minted[k].num)
    <2>1. k \in Key /\ e.kind \in {"single", "batch"}
      BY <1>2, <1>8, EventFacts, DocFact DEF SplitMinted, Transferring
    <2>2. minted[k].num \in -1..MaxBlock /\ minted[k].value \in Nat /\ minted[k].value > e.value
      BY <1>1, <1>8, <2>1 DEF MintDoc, SplitMinted
    <2>3. R \in [Key -> MintDoc] /\ ReceiveUpdated(e) \in [Key -> UpdateDoc]
      BY <2>1, <2>2, ReceiveFact
    <2>4. ~ Replaced(e) => R[k] = minted[k]
      <3>1. CASE Stored(e.item, e.to)
        BY <3>1 DEF ReceiveMinted
      <3>2. CASE e.from # e.to
        <4>1. k # Key1155(e.item, e.to)
          BY <3>2 DEF Key1155
        <4>. QED  BY <1>1, <2>1, <4>1 DEF ReceiveMinted, Set
      <3>. QED  BY <3>1, <3>2 DEF Replaced
    <2>5. ~ Replaced(e) => [R EXCEPT ![k].value = @ - e.value] \in [Key -> MintDoc]
      <3>. HIDE DEF R, k
      <3>1. ~ Replaced(e) => R[k].value - e.value \in Nat
        BY <1>2, <2>2, <2>4
      <3>. QED  BY <2>1, <2>3, <3>1 DEF MintDoc
    <2>. QED  BY <1>1, <1>8, <2>3, <2>5 DEF SplitMinted
  <1>9. CASE UnknownSender(e)
    BY <1>1, <1>9 DEF UnknownSender
  <1>10. CASE GiveAll(e)
    <2>. DEFINE k == Key1155(e.item, e.from)
                doc == Doc(e.item, e.from)
    <2>1. e.kind \in {"single", "batch"} /\ doc \in UpdateDoc
      BY <1>2, <1>10, EventFacts, DocFact DEF GiveAll, Transferring
    <2>2. doc.num \in -1..MaxBlock
      BY <2>1 DEF UpdateDoc
    <2>3. ReceiveMinted(e, doc.num) \in [Key -> MintDoc] /\ ReceiveUpdated(e) \in [Key -> UpdateDoc]
      BY <2>1, <2>2, ReceiveFact
    <2>. QED  BY <1>1, <1>2, <1>10, <2>3 DEF GiveAll
  <1>11. CASE Split(e)
    <2>. DEFINE k == Key1155(e.item, e.from)
                doc == Doc(e.item, e.from)
    <2>1. e.kind \in {"single", "batch"} /\ doc \in UpdateDoc
      BY <1>2, <1>11, EventFacts, DocFact DEF Split, Transferring
    <2>2. doc.num \in -1..MaxBlock /\ doc.value \in Nat
      BY <2>1 DEF UpdateDoc
    <2>3. ReceiveMinted(e, doc.num) \in [Key -> MintDoc] /\ ReceiveUpdated(e) \in [Key -> UpdateDoc]
      BY <2>1, <2>2, ReceiveFact
    <2>4. [doc EXCEPT !.value = @ - e.value] \in UpdateDoc
      <3>1. doc.value > e.value
        BY <1>11 DEF Split
      <3>. HIDE DEF doc
      <3>2. doc.value - e.value \in Nat
        BY <1>2, <2>2, <3>1
      <3>. QED  BY <2>1, <3>2 DEF UpdateDoc
    <2>. QED  BY <1>1, <1>11, <2>3, <2>4 DEF Split
  <1>12. CASE NotEnoughBalance(e)
    BY <1>1, <1>12 DEF NotEnoughBalance
  <1>13. row' = row
    BY DEF Scan, TransferContract, Mint721, Transfer721, Mint1155, HandOver, SplitMinted,
       UnknownSender, GiveAll, Split, NotEnoughBalance
  <1>. QED  BY <1>3, <1>4, <1>5, <1>6, <1>7, <1>8, <1>9, <1>10, <1>11, <1>12, <1>13 DEF Scan

LEMMA WithRowsType ==
  ASSUME TypeOK, NEW S \in SUBSET MintedKeys
  PROVE  WithRows(S) \in [Item -> [Holder -> RowDoc]]
  <1>. SUFFICES ASSUME NEW i \in Item, NEW o \in Holder
                PROVE  WithRows(S)[i][o] \in RowDoc
    BY DEF WithRows
  <1>. DEFINE K == { k \in S : Slot(k) = <<i, o>> }
              c == CHOOSE k \in K : TRUE
  <1>1. WithRows(S)[i][o] = IF K = {} THEN row[i][o] ELSE [value |-> minted[c].value, num |-> minted[c].num]
    BY DEF WithRows
  <1>2. row[i][o] \in RowDoc
    BY DocFact
  <1>3. ASSUME K # {} PROVE [value |-> minted[c].value, num |-> minted[c].num] \in RowDoc
    <2>1. c \in Key
      BY <1>3 DEF MintedKeys
    <2>2. minted[c] \in MintDoc
      BY <2>1 DEF TypeOK, MintDoc
    <2>. QED  BY <2>2 DEF MintDoc, RowDoc
  <1>. QED  BY <1>1, <1>2, <1>3

LEMMA SavedType ==
  ASSUME TypeOK, NEW k \in Key
  PROVE  /\ k[1] \in Item /\ updated[k] \in UpdateDoc /\ row[k[1]] \in [Holder -> RowDoc]
         /\ Saved(k[1], updated[k]) \in [Holder -> RowDoc]
  <1>1. /\ k[1] \in Item /\ updated[k] \in UpdateDoc /\ row \in [Item -> [Holder -> RowDoc]]
    BY DEF TypeOK, UpdateDoc, RowDoc, Key
  <1>2. row[k[1]] \in [Holder -> RowDoc] /\ NoRow \in RowDoc
    BY <1>1, ConstantFacts DEF NoRow, RowDoc
  <1>3. [value |-> updated[k].value, num |-> updated[k].num] \in RowDoc
    BY <1>1 DEF UpdateDoc, RowDoc
  <1>. QED  BY <1>1, <1>2, <1>3 DEF Saved

LEMMA CutShortType ==
  ASSUME TypeOK, CutShort
  PROVE  row' \in [Item -> [Holder -> RowDoc]]
  <1>1. row \in [Item -> [Holder -> RowDoc]]
    BY DEF TypeOK, RowDoc
  <1>. QED  BY <1>1, WithRowsType DEF CutShort

\* A round ends beyond the head, at the importer's head at most.
LEMMA RoundEndFact ==
  ASSUME AbsTypeOK, head \in -1..MaxBlock
  PROVE  /\ RoundEnd \in Int /\ RoundEnd <= tip /\ RoundEnd <= head + Window
         /\ head < RoundEnd => RoundEnd \in Block
         /\ head <= tip => head <= RoundEnd
  BY ConstantFacts DEF AbsTypeOK, RoundEnd

LEMMA SpendFact ==
  ASSUME TypeOK, NEW k \in FaultKind, Spend(k)
  PROVE  /\ spent' \in [Mishap -> Nat] /\ spent'[k] = spent[k] + 1 /\ spent[k] \in Nat
         /\ \A j \in Mishap \ {k} : spent'[j] = spent[j]
  <1>1. spent \in [Mishap -> Nat] /\ k \in Mishap
    BY DEF TypeOK, Mishap
  <1>. QED  BY <1>1 DEF Spend

\* What the importer's step does.
LEMMA ImportFact ==
  ASSUME AbsTypeOK, ImportBatch
  PROVE  /\ AbsTypeOK' /\ tip < tip' /\ tip \in Int /\ tip' \in Int
         /\ \A n \in Int : n <= tip => (n \in visible' <=> n \in visible)
  <1>0. PICK n \in (tip + 1)..MaxBlock :
          \E batch \in SUBSET ((tip + 1)..n) : tip' = n /\ visible' = visible \cup batch
    BY DEF ImportBatch
  <1>1. PICK batch \in SUBSET ((tip + 1)..n) : tip' = n /\ visible' = visible \cup batch
    BY <1>0
  <1>2. tip \in -1..MaxBlock /\ visible \subseteq 0..tip /\ MaxBlock \in Nat
    BY ConstantFacts DEF AbsTypeOK
  <1>3. AbsTypeOK'
    <2>1. tip' \in -1..MaxBlock
      BY <1>1, <1>2
    <2>2. visible' \subseteq 0..tip'
      BY <1>1, <1>2
    <2>. QED  BY <2>1, <2>2 DEF AbsTypeOK
  <1>. QED  BY <1>1, <1>2, <1>3

LEMMA InitType == Init => TypeOK
  <1>. SUFFICES ASSUME Init PROVE TypeOK
    OBVIOUS
  <1>1. /\ NoRow \in RowDoc /\ NoEntry \in MintDoc /\ NoDoc \in UpdateDoc
        /\ Master \in [Contract -> Holder \cup {NoOwner}]
    BY ConstantFacts, NftAssumption DEF NoRow, RowDoc, NoEntry, MintDoc, NoDoc, UpdateDoc, Holder
  <1>2. AbsTypeOK
    BY DEF Init, AbsInit, AbsTypeOK
  <1>. QED  BY <1>1, <1>2, ConstantFacts DEF Init, TypeOK, RowDoc, MintDoc, UpdateDoc

LEMMA StepType ==
  ASSUME TypeOK, [Next]_vars
  PROVE  TypeOK'
  <1>. USE DEF table, cache, control
  <1>0. /\ AbsTypeOK /\ head \in -1..MaxBlock /\ row \in [Item -> [Holder -> RowDoc]]
        /\ owner \in [Contract -> Holder \cup {NoOwner}]
        /\ pc \in {"down", "idle", "scan", "insert", "update"} /\ endNum \in Block /\ stage \in 1..4
        /\ done \subseteq Event /\ minted \in [Key -> MintDoc] /\ updated \in [Key -> UpdateDoc]
        /\ todo \subseteq Key /\ spent \in [Mishap -> Nat]
    BY ConstantFacts DEF TypeOK, RowDoc, MintDoc, UpdateDoc
  <1>. SUFFICES /\ AbsTypeOK' /\ head' \in -1..MaxBlock /\ row' \in [Item -> [Holder -> RowDoc]]
                /\ owner' \in [Contract -> Holder \cup {NoOwner}]
                /\ pc' \in {"down", "idle", "scan", "insert", "update"} /\ endNum' \in Block
                /\ stage' \in 1..4 /\ done' \subseteq Event
                /\ minted' \in [Key -> MintDoc] /\ updated' \in [Key -> UpdateDoc]
                /\ todo' \subseteq Key /\ spent' \in [Mishap -> Nat]
    BY ConstantFacts DEF TypeOK, RowDoc, MintDoc, UpdateDoc
  <1>1. UNCHANGED <<tip, visible>> => AbsTypeOK'
    BY <1>0 DEF AbsTypeOK
  <1>2. NoRow \in RowDoc /\ NoEntry \in MintDoc /\ NoDoc \in UpdateDoc /\ MaxBlock \in Nat
    BY ConstantFacts DEF NoRow, RowDoc, NoEntry, MintDoc, NoDoc, UpdateDoc
  <1>2a. EmptyCache => minted' \in [Key -> MintDoc] /\ updated' \in [Key -> UpdateDoc]
    BY <1>2 DEF EmptyCache
  <1>3. CASE Start
    <2>1. row' \in [Item -> [Holder -> RowDoc]]
      BY <1>0, <1>2, <1>3 DEF Start
    <2>. QED  BY <1>0, <1>1, <1>3, <2>1 DEF Start
  <1>4. CASE BeginRound
    <2>1. endNum' \in Block
      BY <1>0, <1>4, RoundEndFact DEF BeginRound
    <2>. QED  BY <1>0, <1>1, <1>4, <2>1 DEF BeginRound
  <1>5. CASE NothingToDo \/ UNCHANGED vars
    BY <1>0, <1>1, <1>5 DEF NothingToDo, vars
  <1>6. ASSUME NEW e \in Event, Scan(e)
        PROVE  /\ UNCHANGED <<tip, visible, head, endNum, stage, todo>>
               /\ pc' \in {pc, "idle"} /\ done' \in {done, done \cup {e}}
               /\ spent' \in [Mishap -> Nat]
    <2>1. CASE NotEnoughBalance(e)
      <3>1. [spent EXCEPT !["short"] = 1] \in [Mishap -> Nat]
        BY <1>0 DEF Mishap
      <3>. QED  BY <2>1, <3>1 DEF NotEnoughBalance
    <2>2. CASE ~ NotEnoughBalance(e)
      BY <1>0, <1>6, <2>2 DEF Scan, TransferContract, Mint721, Transfer721, Mint1155, HandOver,
         SplitMinted, UnknownSender, GiveAll, Split, Handled
    <2>. QED  BY <2>1, <2>2
  <1>7. CASE \E e \in Event : Scan(e)
    <2>1. PICK e \in Event : Scan(e)
      BY <1>7
    <2>. QED  BY <1>0, <1>1, <1>6, <2>1, ScanType
  <1>8. CASE NextKind
    <2>1. stage' \in 1..4
      BY <1>0, <1>8, ConstantFacts DEF NextKind
    <2>. QED  BY <1>0, <1>1, <1>8, <2>1 DEF NextKind
  <1>9. CASE InsertMinted \/ InsertRefused
    <2>1. row' \in [Item -> [Holder -> RowDoc]]
      <3>1. PICK S \in SUBSET MintedKeys : row' = WithRows(S)
        BY <1>9 DEF InsertMinted, InsertRefused
      <3>. QED  BY <3>1, WithRowsType
    <2>2. spent' \in [Mishap -> Nat] /\ todo' \subseteq Key
      BY <1>0, <1>9 DEF InsertMinted, InsertRefused, Mishap
    <2>. QED  BY <1>0, <1>1, <1>9, <2>1, <2>2 DEF InsertMinted, InsertRefused
  <1>10. ASSUME NEW k \in Key, SaveRow(k)
         PROVE  row' \in [Item -> [Holder -> RowDoc]] /\ updated' \in [Key -> UpdateDoc]
    <2>1. row' \in [Item -> [Holder -> RowDoc]]
      BY <1>0, <1>10, SavedType DEF SaveRow, Set
    <2>2. updated[k] \in UpdateDoc
      BY <1>0
    <2>3. [updated EXCEPT ![k].origin = updated[k].owner] \in [Key -> UpdateDoc]
      BY <1>0, <2>2 DEF UpdateDoc
    <2>. QED  BY <1>0, <1>10, <2>1, <2>3 DEF SaveRow
  <1>11. CASE \E k \in Key : SaveRow(k)
    BY <1>0, <1>1, <1>10, <1>11 DEF SaveRow
  <1>12. CASE UpdateHead
    <2>1. head' \in -1..MaxBlock
      BY <1>0, <1>2, <1>12 DEF UpdateHead, Block
    <2>. QED  BY <1>0, <1>1, <1>2a, <1>12, <2>1 DEF UpdateHead
  <1>13. CASE EmptyEndBlock
    BY <1>0, <1>1, <1>13 DEF EmptyEndBlock
  <1>14. CASE CallFails \/ Crash
    <2>1. spent' \in [Mishap -> Nat]
      <3>1. PICK k \in FaultKind : Spend(k)
        BY <1>14 DEF CallFails, Crash, FaultKind
      <3>. QED  BY <3>1, SpendFact
    <2>2. row' \in [Item -> [Holder -> RowDoc]]
      BY <1>14, CutShortType DEF CallFails, Crash
    <2>. QED  BY <1>0, <1>1, <1>2a, <1>14, <2>1, <2>2 DEF CallFails, Crash
  <1>15. CASE \E k \in Key : SaveSwallowed(k)
    <2>1. spent' \in [Mishap -> Nat]
      BY <1>15, SpendFact DEF SaveSwallowed, FaultKind
    <2>. QED  BY <1>0, <1>1, <1>15, <2>1 DEF SaveSwallowed
  <1>16. CASE PosImport
    <2>1. AbsTypeOK'
      BY <1>0, <1>16, ImportFact DEF PosImport
    <2>. QED  BY <1>0, <1>16, <2>1 DEF PosImport
  <1>. QED  BY <1>3, <1>4, <1>5, <1>7, <1>8, <1>9, <1>11, <1>12, <1>13, <1>14, <1>15, <1>16
            DEF Next, Program, Save, Fault

\* The cache's documents, the rows and what remains of a round have their types: in particular no holding
\* goes below zero, although transfers are read more than once.
THEOREM TypeCorrect == Spec => []TypeOK
  <1>1. Init => TypeOK
    BY InitType
  <1>2. TypeOK /\ [Next]_vars => TypeOK'
    BY StepType
  <1>. QED  BY <1>1, <1>2, PTL DEF Spec
-----------------------------------------------------------------------------
(* The events of a round. *)

\* The round lies between the head and the importer's head; it handles the events of a kind in the order
\* of their blocks, one kind after the other, and saves when all are handled.
ScanInv ==
  /\ head <= tip
  /\ Active => /\ head < endNum /\ endNum <= RoundEnd
               /\ \A e \in done : InRound(e)
               /\ \A e, f \in Event : e.kind = f.kind /\ f \in done /\ e.num < f.num /\ InRound(e) => e \in done
  /\ pc = "scan" => \A e \in Event : \A i \in 1..(stage - 1) : InRound(e) /\ e.kind = Kinds[i] => e \in done
  /\ pc \in {"insert", "update"} => \A e \in Event : InRound(e) => e \in done

NumFacts == /\ head \in Int /\ tip \in Int /\ endNum \in Int /\ stage \in 1..4 /\ head >= -1 /\ tip >= -1
            /\ \A e \in Event : e.num \in Int /\ e.num >= 1

LEMMA Numbers ==
  ASSUME TypeOK
  PROVE  NumFacts
  BY ConstantFacts, EventFacts DEF TypeOK, AbsTypeOK, Block, NumFacts

\* What a step is that neither begins nor ends a round nor handles an event.
Aside ==
  /\ UNCHANGED <<tip, visible, head, endNum, done>>
  /\ \/ pc' \in {"idle", "down"}
     \/ pc' = pc /\ stage' = stage
     \/ pc = "insert" /\ pc' = "update" /\ stage' = stage

LEMMA StepAside ==
  ASSUME [Next]_vars
  PROVE  \/ BeginRound \/ NextKind \/ UpdateHead \/ PosImport \/ Aside
         \/ \E e \in Event : Scan(e) /\ Due(e) /\ Handled(e)
  <1>. USE DEF table, cache, control
  <1>1. ASSUME NEW e \in Event, Scan(e)
        PROVE  (Due(e) /\ Handled(e)) \/ Aside
    BY <1>1 DEF Scan, TransferContract, Mint721, Transfer721, Mint1155, HandOver, SplitMinted,
       UnknownSender, GiveAll, Split, NotEnoughBalance, Transferring, Aside
  <1>2. CASE Start \/ NothingToDo \/ InsertMinted \/ InsertRefused \/ EmptyEndBlock \/ CallFails \/ Crash
             \/ UNCHANGED vars
    BY <1>2 DEF Start, NothingToDo, InsertMinted, InsertRefused, EmptyEndBlock, CallFails, Crash, vars, Aside
  <1>3. CASE \E k \in Key : SaveRow(k) \/ SaveSwallowed(k)
    BY <1>3 DEF SaveRow, SaveSwallowed, Aside
  <1>. QED  BY <1>1, <1>2, <1>3 DEF Next, Program, Save, Fault

\* The importer goes on beyond the round.
LEMMA ImportRound ==
  ASSUME TypeOK, head <= tip, PosImport
  PROVE  /\ tip < tip' /\ UNCHANGED <<head, endNum, pc, stage, done>> /\ RoundEnd <= RoundEnd'
         /\ endNum <= tip => \A e \in Event : InRound(e)' <=> InRound(e)
  <1>1. /\ tip < tip' /\ tip' \in Int /\ \A n \in Int : n <= tip => (n \in visible' <=> n \in visible)
        /\ UNCHANGED <<head, endNum, pc, stage, done>>
    BY ImportFact DEF PosImport, TypeOK, control
  <1>2. NumFacts /\ Window \in Int
    BY Numbers, ConstantFacts
  <1>3. RoundEnd <= RoundEnd'
    BY <1>1, <1>2 DEF RoundEnd, NumFacts
  <1>4. ASSUME endNum <= tip, NEW e \in Event PROVE InRound(e)' <=> InRound(e)
    BY <1>1, <1>2, <1>4 DEF InRound, NumFacts
  <1>. QED  BY <1>1, <1>3, <1>4

LEMMA StepScan ==
  ASSUME TypeOK, ScanInv, [Next]_vars
  PROVE  ScanInv'
  <1>0. NumFacts /\ RoundEnd \in Int /\ RoundEnd <= tip
    BY Numbers, RoundEndFact DEF TypeOK
  <1>1. CASE BeginRound
    <2>1. /\ endNum' = RoundEnd /\ head < RoundEnd /\ pc' = "scan" /\ stage' = 1 /\ done' = {}
          /\ UNCHANGED <<tip, visible, head>>
      BY <1>1 DEF BeginRound
    <2>2. RoundEnd' = RoundEnd
      BY <2>1 DEF RoundEnd
    <2>. QED  BY <1>0, <2>1, <2>2 DEF ScanInv, Active
  <1>2. CASE NextKind
    <2>1. /\ UNCHANGED <<tip, visible, head, endNum, done>> /\ pc = "scan"
          /\ \A e \in Event : e.kind = Kinds[stage] /\ InRound(e) => e \in done
          /\ IF stage = 4 THEN pc' = "insert" /\ stage' = stage ELSE pc' = "scan" /\ stage' = stage + 1
      BY <1>2, ConstantFacts DEF NextKind
    <2>2. RoundEnd' = RoundEnd /\ \A e \in Event : InRound(e)' <=> InRound(e)
      BY <2>1 DEF RoundEnd, InRound
    <2>3. \A e \in Event : \A i \in 1..stage : InRound(e) /\ e.kind = Kinds[i] => e \in done
      BY <1>0, <2>1 DEF ScanInv, NumFacts
    <2>4. stage = 4 => \A e \in Event : InRound(e) => e \in done
      <3>1. \A e \in Event : \E i \in 1..4 : e.kind = Kinds[i]
        BY EventFacts DEF Kinds
      <3>. QED  BY <2>3, <3>1
    <2>5. /\ head <= tip /\ head < endNum /\ endNum <= RoundEnd /\ \A e \in done : InRound(e)
          /\ \A e, f \in Event : e.kind = f.kind /\ f \in done /\ e.num < f.num /\ InRound(e) => e \in done
      BY <2>1 DEF ScanInv, Active
    <2>6. done \subseteq Event
      BY DEF TypeOK
    <2>7. CASE stage = 4
      BY <2>1, <2>2, <2>4, <2>5, <2>6, <2>7 DEF ScanInv
    <2>8. CASE stage # 4
      <3>1. stage' - 1 = stage /\ pc' = "scan"
        BY <1>0, <2>1, <2>8 DEF NumFacts
      <3>. QED  BY <2>1, <2>2, <2>3, <2>5, <2>6, <3>1 DEF ScanInv
    <2>. QED  BY <2>7, <2>8
  <1>3. CASE UpdateHead
    <2>1. head' = endNum /\ tip' = tip /\ pc' = "idle" /\ pc = "update"
      BY <1>3 DEF UpdateHead
    <2>. QED  BY <1>0, <2>1 DEF ScanInv, Active, NumFacts
  <1>4. CASE PosImport
    <2>1. /\ tip < tip' /\ UNCHANGED <<head, endNum, pc, stage, done>> /\ RoundEnd <= RoundEnd'
          /\ endNum <= tip => \A e \in Event : InRound(e)' <=> InRound(e)
      BY <1>4, ImportRound DEF ScanInv
    <2>2. tip' \in Int /\ RoundEnd' \in Int
      <3>1. AbsTypeOK' /\ tip' \in Int
        BY <1>4, ImportFact DEF PosImport, TypeOK
      <3>. QED  BY <1>0, <2>1, <3>1, ConstantFacts DEF RoundEnd, NumFacts
    <2>3. head' <= tip'
      BY <1>0, <2>1, <2>2 DEF ScanInv, NumFacts
    <2>4. CASE Active
      <3>1. endNum <= tip /\ done \subseteq Event
        BY <1>0, <2>4 DEF ScanInv, NumFacts, TypeOK
      <3>2. endNum' <= RoundEnd' /\ Active'
        BY <1>0, <2>1, <2>2, <2>4 DEF ScanInv, NumFacts, Active
      <3>. QED  BY <2>1, <2>3, <2>4, <3>1, <3>2 DEF ScanInv
    <2>5. CASE ~ Active
      BY <2>1, <2>3, <2>5 DEF ScanInv, Active
    <2>. QED  BY <2>4, <2>5
  <1>5. CASE Aside
    <2>1. RoundEnd' = RoundEnd /\ \A e \in Event : InRound(e)' <=> InRound(e)
      BY <1>5 DEF Aside, RoundEnd, InRound
    <2>2. done \subseteq Event
      BY DEF TypeOK
    <2>. QED  BY <1>5, <2>1, <2>2 DEF ScanInv, Aside, Active
  <1>6. CASE \E e \in Event : Due(e) /\ Handled(e)
    <2>1. PICK e \in Event : Due(e) /\ Handled(e)
      BY <1>6
    <2>2. /\ done' = done \cup {e} /\ UNCHANGED <<tip, visible, head, pc, endNum, stage>>
          /\ pc = "scan" /\ InRound(e)
          /\ \A f \in Event : f.kind = e.kind /\ f.num < e.num /\ f \notin done => ~ InRound(f)
      BY <2>1 DEF Handled, Due
    <2>3. RoundEnd' = RoundEnd /\ \A f \in Event : InRound(f)' <=> InRound(f)
      BY <2>2 DEF RoundEnd, InRound
    <2>4. done \subseteq Event
      BY DEF TypeOK
    <2>. QED  BY <2>2, <2>3, <2>4 DEF ScanInv, Active
  <1>. QED  BY <1>1, <1>2, <1>3, <1>4, <1>5, <1>6, StepAside

LEMMA InitScan == Init => ScanInv
  <1>1. Init => head <= tip
    BY ConstantFacts DEF Init, AbsInit
  <1>. QED  BY <1>1 DEF Init, ScanInv, Active

LEMMA HeadMoves ==
  ASSUME [Next]_vars, ~ UpdateHead
  PROVE  head' = head
  BY StepAside DEF BeginRound, NextKind, PosImport, Aside, Handled

\* The head passes a block only when every event of it has been handled in the round that ends: whatever
\* failed before, however far the importer has come meanwhile.
THEOREM NothingSkipped == Spec => NoEventSkipped
  <1>1. Init => TypeOK /\ ScanInv
    BY InitType, InitScan
  <1>2. TypeOK /\ ScanInv /\ [Next]_vars => TypeOK' /\ ScanInv'
    BY StepType, StepScan
  <1>3. TypeOK /\ ScanInv /\ [Next]_vars =>
          [ head' # head =>
              \A e \in Event : e.num \in visible /\ head < e.num /\ e.num <= head' => e \in done ]_vars
    <2>. SUFFICES ASSUME TypeOK, ScanInv, [Next]_vars, head' # head,
                         NEW e \in Event, e.num \in visible, head < e.num, e.num <= head'
                  PROVE  e \in done
      OBVIOUS
    <2>1. UpdateHead
      BY HeadMoves
    <2>2. head' = endNum /\ pc = "update"
      BY <2>1 DEF UpdateHead
    <2>. QED  BY <2>2 DEF ScanInv, InRound
  <1>. QED  BY <1>1, <1>2, <1>3, PTL DEF Spec, NoEventSkipped
-----------------------------------------------------------------------------
(* How far an item has come. *)

\* The last block a round may have come to since the head was moved.
Scanned == IF Active THEN endNum ELSE RoundEnd

Within(m) == m \in Int /\ head <= m /\ m <= Scanned

\* The state of item i may be that after block m: of the events handled in this round, none is later.
Reached(i, m) == Within(m) /\ (Active => \A e \in done : e.item = i => e.num <= m)

\* The items all of whose events are read in the order of their blocks.
Uniform == Contract \cup Item721 \cup Tame

LEMMA UniformFacts == Contract \subseteq Uniform /\ Item721 \subseteq Uniform /\ Tame \subseteq Uniform
  BY DEF Uniform

\* Their events are of one kind.
LEMMA OneKind ==
  ASSUME NEW e \in Event, NEW f \in Event, e.item = f.item, e.item \in Uniform
  PROVE  e.kind = f.kind
  <1>1. CASE e.item \in Contract \cup Item721
    BY <1>1, EventFacts, NftAssumption DEF Item
  <1>2. CASE e.item \in Tame
    BY <1>2 DEF Tame
  <1>. QED  BY <1>1, <1>2 DEF Uniform

\* While nothing is missing, an item that is behind an event due is right before it.
LEMMA DueEvent ==
  ASSUME TypeOK, ScanInv, NoGap, NEW e \in Event, Due(e), e.item \in Uniform
  PROVE  /\ \A f \in done : f.item = e.item => f.num <= e.num
         /\ \A m : Reached(e.item, m) /\ m < e.num => EventsOf(e.item, m) = EventsOf(e.item, e.num - 1)
  <1>0. /\ NumFacts /\ Active /\ pc = "scan" /\ InRound(e) /\ e \notin done /\ done \subseteq Event
        /\ \A f \in Event : f.kind = e.kind /\ f.num < e.num /\ f \notin done => ~ InRound(f)
        /\ endNum <= tip
    BY Numbers, RoundEndFact DEF Due, Active, TypeOK, ScanInv, NumFacts
  <1>1. ASSUME NEW f \in done, f.item = e.item PROVE f.num <= e.num
    BY <1>0, <1>1, OneKind DEF ScanInv, NumFacts
  <1>2. ASSUME NEW m, Reached(e.item, m), m < e.num
        PROVE  EventsOf(e.item, m) = EventsOf(e.item, e.num - 1)
    <2>1. m \in Int /\ head <= m
      BY <1>2 DEF Reached, Within
    <2>2. ASSUME NEW f \in Event, f.item = e.item, f.num <= e.num - 1 PROVE f.num <= m
      <3>. SUFFICES ASSUME ~ (f.num <= m) PROVE FALSE
        OBVIOUS
      <3>1. f.num < e.num /\ m < f.num /\ f.num \in Int
        BY <1>0, <2>1, <2>2 DEF NumFacts
      <3>2. InRound(f)
        <4>1. f.num \in 0..tip
          BY <1>0, <3>1, <2>1 DEF NumFacts, InRound
        <4>. QED  BY <1>0, <2>1, <3>1, <4>1 DEF NumFacts, InRound, NoGap
      <3>3. f \in done
        BY <1>0, <2>2, <3>1, <3>2, OneKind
      <3>. QED  BY <1>0, <1>2, <2>2, <3>3 DEF Reached
    <2>3. \A f \in Event : f.num <= m => f.num <= e.num - 1
      BY <1>0, <1>2, <2>1 DEF NumFacts
    <2>. QED  BY <2>2, <2>3 DEF EventsOf
  <1>. QED  BY <1>1, <1>2

\* Handling an event: the item is right after it, or has been further already.
LEMMA ReachEvent ==
  ASSUME TypeOK, ScanInv, NoGap, NEW e \in Event, Due(e), Handled(e), NEW i \in Uniform
  PROVE  /\ e.item = i => Reached(i, e.num)'
         /\ \A m : Reached(i, m) /\ (e.item = i => e.num <= m) => Reached(i, m)'
  <1>0. /\ NumFacts /\ pc = "scan" /\ InRound(e) /\ done \subseteq Event
        /\ UNCHANGED <<head, pc, endNum>> /\ done' = done \cup {e} /\ Scanned = endNum /\ Scanned' = endNum
        /\ Active /\ Active'
    BY Numbers DEF Due, Handled, TypeOK, Scanned, Active
  <1>1. ASSUME e.item = i PROVE Reached(i, e.num)'
    BY <1>0, <1>1, DueEvent DEF Reached, Within, InRound, NumFacts
  <1>2. ASSUME NEW m, Reached(i, m), e.item = i => e.num <= m PROVE Reached(i, m)'
    BY <1>0, <1>2 DEF Reached, Within
  <1>. QED  BY <1>1, <1>2

\* A round covers what the head and the importer's head leave it, whatever comes between.
LEMMA WithinAside ==
  ASSUME TypeOK, ScanInv, BeginRound \/ NextKind \/ PosImport \/ Aside, NEW m, Within(m)
  PROVE  Within(m)'
  <1>0. NumFacts /\ RoundEnd \in Int /\ m \in Int /\ head <= m /\ m <= Scanned
    BY Numbers, RoundEndFact DEF Within, TypeOK
  <1>1. CASE BeginRound
    <2>1. /\ endNum' = RoundEnd /\ pc = "idle" /\ pc' = "scan" /\ done' = {} /\ head' = head
      BY <1>1 DEF BeginRound
    <2>. QED  BY <1>0, <2>1 DEF Within, Scanned, Active
  <1>2. CASE NextKind
    <2>1. /\ UNCHANGED <<endNum, done, head>> /\ Active /\ Active'
      BY <1>2 DEF NextKind, Active
    <2>. QED  BY <1>0, <2>1 DEF Within, Scanned
  <1>3. CASE PosImport
    <2>1. /\ UNCHANGED <<head, endNum, pc, done>> /\ RoundEnd <= RoundEnd'
      BY <1>3, ImportRound DEF ScanInv
    <2>2. RoundEnd' \in Int
      BY <1>0, <1>3, <2>1, ImportFact, ConstantFacts DEF PosImport, TypeOK, RoundEnd, NumFacts
    <2>. QED  BY <1>0, <2>1, <2>2 DEF Within, Scanned, Active, NumFacts
  <1>4. CASE Aside
    <2>1. /\ UNCHANGED <<head, tip, endNum, done>> /\ RoundEnd' = RoundEnd
          /\ Active' => Active /\ (Active => endNum <= RoundEnd)
      BY <1>4 DEF Aside, RoundEnd, Active, ScanInv
    <2>2. Active => endNum <= RoundEnd
      BY DEF ScanInv
    <2>. QED  BY <1>0, <2>1, <2>2 DEF Within, Scanned, NumFacts
  <1>. QED  BY <1>1, <1>2, <1>3, <1>4

\* A step that handles no event leaves an item where it is.
LEMMA ReachAside ==
  ASSUME TypeOK, ScanInv, BeginRound \/ NextKind \/ PosImport \/ Aside, NEW i, NEW m, Reached(i, m)
  PROVE  Reached(i, m)'
  <1>1. Within(m)'
    BY WithinAside DEF Reached
  <1>2. Active' => done' = {} \/ (Active /\ done' = done)
    BY DEF BeginRound, NextKind, PosImport, Aside, Active, control
  <1>. QED  BY <1>1, <1>2 DEF Reached

\* A round that is ready to move the head has come to its end for every item.
LEMMA RoundComplete ==
  ASSUME TypeOK, ScanInv, NoGap, UpdateHead, NEW i
  PROVE  /\ head' = endNum /\ Reached(i, endNum)' /\ endNum \in Int
         /\ \A m : Reached(i, m) => EventsOf(i, m) = EventsOf(i, endNum)
  <1>0. /\ NumFacts /\ RoundEnd \in Int /\ RoundEnd <= tip /\ head < endNum /\ endNum <= RoundEnd
        /\ pc = "update" /\ pc' = "idle" /\ head' = endNum /\ tip' = tip /\ endNum' = endNum
        /\ \A e \in Event : InRound(e) => e \in done
        /\ Window \in Int /\ Window > 0
    BY Numbers, RoundEndFact, ConstantFacts DEF UpdateHead, TypeOK, ScanInv, Active
  <1>1. Reached(i, endNum)'
    <2>1. RoundEnd' \in Int /\ endNum <= RoundEnd'
      BY <1>0 DEF RoundEnd, NumFacts
    <2>. QED  BY <1>0, <2>1 DEF Reached, Within, Scanned, Active, NumFacts
  <1>2. ASSUME NEW m, Reached(i, m) PROVE EventsOf(i, m) = EventsOf(i, endNum)
    <2>1. m \in Int /\ head <= m /\ m <= endNum /\ \A e \in done : e.item = i => e.num <= m
      BY <1>0, <1>2 DEF Reached, Within, Scanned, Active
    <2>2. ASSUME NEW e \in Event, e.item = i, e.num <= endNum PROVE e.num <= m
      <3>. SUFFICES ASSUME m < e.num PROVE FALSE
        BY <1>0, <2>1 DEF NumFacts
      <3>1. e.num \in 0..tip /\ head < e.num
        BY <1>0, <2>1, <2>2 DEF NumFacts
      <3>. QED  BY <1>0, <2>1, <2>2, <3>1 DEF InRound, NoGap, NumFacts
    <2>3. \A e \in Event : e.num <= m => e.num <= endNum
      BY <1>0, <2>1 DEF NumFacts
    <2>. QED  BY <2>2, <2>3 DEF EventsOf
  <1>. QED  BY <1>0, <1>1, <1>2 DEF NumFacts

\* What the importer has left out it does not come back to.
LEMMA NoGapBefore ==
  ASSUME TypeOK, [Next]_vars, NoGap'
  PROVE  NoGap
  <1>1. CASE PosImport
    <2>1. /\ tip \in Int /\ tip < tip' /\ tip' \in Int /\ visible \subseteq 0..tip
          /\ \A n \in Int : n <= tip => (n \in visible' <=> n \in visible)
      BY <1>1, ImportFact DEF PosImport, TypeOK, AbsTypeOK
    <2>2. \A n \in 0..tip : n \in visible
      BY <2>1 DEF NoGap
    <2>. QED  BY <2>1, <2>2 DEF NoGap
  <1>2. CASE ~ PosImport
    <2>1. UNCHANGED <<tip, visible>>
      BY <1>2, StepAside DEF BeginRound, NextKind, UpdateHead, Aside, Handled
    <2>. QED  BY <2>1 DEF NoGap
  <1>. QED  BY <1>1, <1>2
-----------------------------------------------------------------------------
(* The owners of contracts. *)

\* Whom the row of a contract names after block n.
At(c, n) == IF EventsOf(c, n) = {} THEN Master[c] ELSE OwnerAt(c, n)

Tracked == { c \in Contract : Ordered(c) /\ Chained(c) /\ FromMaster(c) }

\* While nothing is missing, a contract has the owner of some block the round may have come to.
OwnerInv == NoGap => \A c \in Tracked : \E m \in Int : Reached(c, m) /\ owner[c] = At(c, m)

\* The events of an item in the order of their blocks, if each block has one.
LEMMA OwnerAtEvent ==
  ASSUME NEW e \in Event, Ordered(e.item)
  PROVE  OwnerAt(e.item, e.num) = e.to /\ EventsOf(e.item, e.num) # {}
  <1>. DEFINE E == EventsOf(e.item, e.num)
              c == CHOOSE f \in E : \A g \in E : g.num <= f.num
  <1>1. e \in E /\ \A g \in E : g.num <= e.num
    BY EventFacts DEF EventsOf
  <1>2. c \in E /\ \A g \in E : g.num <= c.num
    BY <1>1
  <1>3. c \in Event /\ c.item = e.item /\ c.num <= e.num /\ e.num <= c.num
    BY <1>1, <1>2 DEF EventsOf
  <1>4. c.num = e.num
    BY <1>3, EventFacts
  <1>5. c = e
    BY <1>3, <1>4 DEF Ordered
  <1>. QED  BY <1>1, <1>5 DEF OwnerAt

\* Before the first event due of an item there is none.
LEMMA FirstEvent ==
  ASSUME NEW e \in Event, EventsOf(e.item, e.num - 1) = {}, NEW f \in Event, f.item = e.item
  PROVE  e.num <= f.num
  <1>1. e.num \in Int /\ f.num \in Int
    BY EventFacts
  <1>2. ~ (f.num <= e.num - 1)
    BY DEF EventsOf
  <1>. QED  BY <1>1, <1>2

OwnerHere(c) == \E m \in Int : Reached(c, m) /\ owner[c] = At(c, m)

LEMMA TransferOwner ==
  ASSUME TypeOK, ScanInv, NoGap, NEW e \in Event, TransferContract(e), NEW c \in Tracked, OwnerHere(c)
  PROVE  OwnerHere(c)'
  <1>1. /\ Due(e) /\ Handled(e) /\ e.kind = "owner" /\ e.item \in Contract
        /\ owner' = IF owner[e.item] \in {NoOwner, e.from} THEN Set(owner, e.item, e.to) ELSE owner
    BY EventFacts DEF TransferContract
  <1>2. /\ c \in Contract /\ Ordered(c) /\ Chained(c) /\ FromMaster(c)
        /\ owner \in [Contract -> Holder \cup {NoOwner}] /\ e.num \in Int
        /\ e.from \in Holder /\ e.to \in Holder
    BY EventFacts DEF Tracked, TypeOK
  <1>3. PICK m \in Int : Reached(c, m) /\ owner[c] = At(c, m)
    BY DEF OwnerHere
  <1>4. CASE e.item # c
    <2>1. owner'[c] = owner[c]
      BY <1>1, <1>2, <1>4 DEF Set
    <2>2. Reached(c, m)'
      BY <1>1, <1>2, <1>3, <1>4, ReachEvent, UniformFacts
    <2>. QED  BY <1>3, <2>1, <2>2 DEF OwnerHere
  <1>5. CASE e.item = c
    <2>1. Reached(c, e.num)' /\ (e.num <= m => Reached(c, m)')
      BY <1>1, <1>2, <1>3, <1>5, ReachEvent, UniformFacts
    <2>2. At(c, e.num) = e.to
      BY <1>2, <1>5, OwnerAtEvent DEF At
    <2>3. CASE owner'[c] = e.to
      BY <1>2, <2>1, <2>2, <2>3 DEF OwnerHere
    <2>4. CASE owner'[c] # e.to
      <3>1. owner[c] \notin {NoOwner, e.from} /\ owner' = owner
        BY <1>1, <1>2, <1>5, <2>4 DEF Set
      <3>2. CASE e.num <= m
        BY <1>3, <2>1, <3>1, <3>2 DEF OwnerHere
      <3>3. CASE m < e.num
        <4>1. EventsOf(c, m) = EventsOf(c, e.num - 1)
          BY <1>1, <1>2, <1>3, <1>5, <3>3, DueEvent, UniformFacts
        <4>2. CASE EventsOf(c, m) # {}
          <5>1. e.from = OwnerAt(c, e.num - 1)
            BY <1>2, <1>5, <4>1, <4>2 DEF Chained
          <5>2. OwnerAt(c, m) = OwnerAt(c, e.num - 1)
            BY <4>1 DEF OwnerAt
          <5>. QED  BY <1>3, <3>1, <4>2, <5>1, <5>2 DEF At
        <4>3. CASE EventsOf(c, m) = {}
          <5>1. owner[c] = Master[c]
            BY <1>3, <4>3 DEF At
          <5>2. PICK f \in EventsOf(c, MaxBlock) :
                  Master[c] \in {f.from, f.to} /\ \A g \in EventsOf(c, MaxBlock) : f.num <= g.num
            BY <1>2, <3>1, <5>1 DEF FromMaster
          <5>3. f \in Event /\ f.item = c /\ e \in EventsOf(c, MaxBlock)
            BY <1>5, <5>2, EventFacts DEF EventsOf
          <5>4. f.num = e.num
            BY <1>5, <4>1, <4>3, <5>2, <5>3, FirstEvent, EventFacts
          <5>5. f = e
            BY <1>2, <1>5, <5>3, <5>4 DEF Ordered
          <5>. QED  BY <2>4, <3>1, <5>1, <5>2, <5>5
        <4>. QED  BY <4>2, <4>3
      <3>. QED  BY <1>2, <1>3, <3>2, <3>3
    <2>. QED  BY <2>3, <2>4
  <1>. QED  BY <1>4, <1>5

LEMMA OwnerKept ==
  ASSUME [Next]_vars, \A e \in Event : ~ TransferContract(e)
  PROVE  owner' = owner
  <1>. USE DEF table, cache
  <1>1. ASSUME NEW e \in Event, Scan(e) PROVE owner' = owner
    BY <1>1 DEF Scan, Mint721, Transfer721, Mint1155, HandOver, SplitMinted,
       UnknownSender, GiveAll, Split, NotEnoughBalance
  <1>2. CASE Start \/ BeginRound \/ NothingToDo \/ NextKind \/ InsertMinted \/ InsertRefused \/ UpdateHead
             \/ EmptyEndBlock \/ CallFails \/ Crash \/ PosImport \/ UNCHANGED vars
    BY <1>2 DEF Start, BeginRound, NothingToDo, NextKind, InsertMinted, InsertRefused, UpdateHead,
       EmptyEndBlock, CallFails, Crash, PosImport, vars
  <1>3. CASE \E k \in Key : SaveRow(k) \/ SaveSwallowed(k)
    BY <1>3 DEF SaveRow, SaveSwallowed
  <1>. QED  BY <1>1, <1>2, <1>3 DEF Next, Program, Save, Fault

LEMMA StepOwner ==
  ASSUME TypeOK, ScanInv, OwnerInv, [Next]_vars
  PROVE  OwnerInv'
  <1>. SUFFICES ASSUME NoGap', NEW c \in Tracked
                PROVE  OwnerHere(c)'
    BY DEF OwnerInv, OwnerHere, Tracked
  <1>1. NoGap /\ OwnerHere(c) /\ c \in Contract
    BY NoGapBefore DEF OwnerInv, OwnerHere, Tracked
  <1>2. CASE \E e \in Event : TransferContract(e)
    BY <1>1, <1>2, TransferOwner
  <1>3. CASE \A e \in Event : ~ TransferContract(e)
    <2>1. owner' = owner
      BY <1>3, OwnerKept
    <2>2. PICK m \in Int : Reached(c, m) /\ owner[c] = At(c, m)
      BY <1>1 DEF OwnerHere
    <2>3. CASE BeginRound \/ NextKind \/ PosImport \/ Aside
      BY <2>1, <2>2, <2>3, ReachAside DEF OwnerHere
    <2>4. CASE UpdateHead
      <3>1. Reached(c, endNum)' /\ endNum \in Int /\ endNum' = endNum /\ EventsOf(c, m) = EventsOf(c, endNum)
        BY <1>1, <2>2, <2>4, RoundComplete DEF UpdateHead
      <3>2. At(c, endNum) = At(c, m)
        BY <3>1 DEF At, OwnerAt
      <3>. QED  BY <2>1, <2>2, <3>1, <3>2 DEF OwnerHere
    <2>5. CASE \E e \in Event : Scan(e) /\ Due(e) /\ Handled(e)
      <3>1. PICK e \in Event : Scan(e) /\ Due(e) /\ Handled(e)
        BY <2>5
      <3>2. CASE e.item # c
        <4>1. Reached(c, m)'
          BY <1>1, <2>2, <3>1, <3>2, ReachEvent, UniformFacts
        <4>. QED  BY <2>1, <2>2, <4>1 DEF OwnerHere
      <3>3. CASE e.item = c
        <4>1. e.kind = "owner"
          BY <1>1, <3>3, EventFacts, NftAssumption DEF Item
        <4>. QED  BY <1>3, <3>1, <4>1 DEF Scan, Mint721, Transfer721, Mint1155, HandOver, SplitMinted,
               UnknownSender, GiveAll, Split, NotEnoughBalance, Transferring
      <3>. QED  BY <3>2, <3>3
    <2>. QED  BY <2>3, <2>4, <2>5, StepAside
  <1>. QED  BY <1>2, <1>3
-----------------------------------------------------------------------------
(* The owners of ERC-721 tokens. *)

\* The rows of token i are those of block m.
RowIs(i, m) ==
  /\ \A o \in Holder : Stored(i, o) => o = OwnerAt(i, m)
  /\ OwnerAt(i, m) \in Owner => Stored(i, OwnerAt(i, m))

NoRowOf(i) == \A o \in Holder : ~ Stored(i, o)

\* A document is still to be saved.
Pending(k) == IsUpdated(k) /\ (pc = "update" => k \in todo)

\* Cache and rows together are what token i is after block m.
CacheIs(i, m) ==
  LET k == Key721(i)
  IN /\ IsUpdated(k) => ~ IsMinted(k) /\ updated[k].owner = OwnerAt(i, m)
     /\ IsMinted(k) => minted[k].owner = OwnerAt(i, m)
     /\ IF Pending(k) THEN Stored(i, updated[k].origin)
        ELSE IF IsMinted(k) /\ pc # "update" THEN NoRowOf(i) ELSE RowIs(i, m)

\* The creation data of a token, wherever it is kept, is that of its mint.
MintInv ==
  \A i \in Item721 :
    /\ IsMinted(Key721(i)) => \E e \in MintsOf(i) : e.num = minted[Key721(i)].num
    /\ IsUpdated(Key721(i)) => \E e \in MintsOf(i) : e.num = updated[Key721(i)].num
    /\ \A o \in Holder : Stored(i, o) => \E e \in MintsOf(i) : e.num = row[i][o].num

CacheInv ==
  /\ \A k \in Key : k[1] \in Item721 /\ (IsMinted(k) \/ IsUpdated(k)) => k = Key721(k[1])
  /\ pc = "down" => \A k \in Key : ~ IsMinted(k) /\ ~ IsUpdated(k)
  /\ pc = "update" => \A k \in todo : IsUpdated(k)

\* Handling an event leaves the other ERC-721 tokens alone.
LEMMA ScanElsewhere ==
  ASSUME TypeOK, NEW e \in Event, Scan(e), NEW k \in Key, k[1] \in Item721,
         ~ (e.kind = "erc721" /\ k = Key721(e.item))
  PROVE  minted'[k] = minted[k] /\ updated'[k] = updated[k]
  <1>. USE DEF cache
  <1>1. minted \in [Key -> MintDoc] /\ updated \in [Key -> UpdateDoc]
    BY DEF TypeOK, MintDoc, UpdateDoc
  <1>2. e.kind \in {"single", "batch"} => e.item # k[1]
    BY EventFacts, NftAssumption
  <1>3. \A o : e.kind \in {"single", "batch"} => Key1155(e.item, o) # k
    BY <1>2 DEF Key1155
  <1>4. CASE e.kind = "owner"
    BY <1>4 DEF Scan, TransferContract, Mint721, Transfer721, Mint1155, HandOver, SplitMinted,
       UnknownSender, GiveAll, Split, NotEnoughBalance, Transferring
  <1>5. CASE e.kind = "erc721"
    <2>1. k # Key721(e.item) /\ (Mint721(e) \/ Transfer721(e))
      BY <1>5 DEF Scan, TransferContract, Mint1155, HandOver, SplitMinted,
         UnknownSender, GiveAll, Split, NotEnoughBalance, Transferring
    <2>. QED  BY <1>1, <2>1 DEF Mint721, Transfer721, Set
  <1>6. CASE e.kind \in {"single", "batch"}
    <2>1. \A n : ReceiveMinted(e, n)[k] = minted[k]
      BY <1>1, <1>3, <1>6 DEF ReceiveMinted, Set
    <2>2. ReceiveUpdated(e)[k] = updated[k]
      BY <1>1, <1>3, <1>6 DEF ReceiveUpdated, Set
    <2>3. CASE Mint1155(e)
      BY <1>1, <1>3, <1>6, <2>3 DEF Mint1155, Set
    <2>4. CASE HandOver(e)
      BY <1>1, <1>3, <1>6, <2>4 DEF HandOver
    <2>5. CASE SplitMinted(e)
      BY <1>1, <1>3, <1>6, <2>1, <2>2, <2>5 DEF SplitMinted
    <2>6. CASE GiveAll(e)
      BY <1>1, <1>3, <1>6, <2>1, <2>2, <2>6 DEF GiveAll
    <2>7. CASE Split(e)
      BY <1>1, <1>3, <1>6, <2>1, <2>2, <2>7 DEF Split
    <2>8. CASE UnknownSender(e) \/ NotEnoughBalance(e)
      BY <2>8 DEF UnknownSender, NotEnoughBalance
    <2>. QED  BY <1>6, <2>3, <2>4, <2>5, <2>6, <2>7, <2>8 DEF Scan, TransferContract, Mint721, Transfer721
  <1>. QED  BY <1>4, <1>5, <1>6, EventFacts

\* The rows of a token after an insertion.
LEMMA InsertedRow ==
  ASSUME TypeOK, CacheInv, NEW S \in SUBSET MintedKeys, NEW i \in Item721, NEW o \in Holder,
         NEW k, k = Key721(i)
  PROVE  WithRows(S)[i][o] = IF k \in S /\ minted[k].owner = o
                             THEN [value |-> minted[k].value, num |-> minted[k].num] ELSE row[i][o]
  <1>. DEFINE K == { j \in S : Slot(j) = <<i, o>> }
  <1>1. i \in Item /\ k \in Key /\ k[1] = i
    BY ConstantFacts DEF Key721, Key
  <1>2. WithRows(S)[i][o] = IF K = {} THEN row[i][o]
                            ELSE [value |-> minted[CHOOSE j \in K : TRUE].value,
                                  num |-> minted[CHOOSE j \in K : TRUE].num]
    BY <1>1 DEF WithRows
  <1>3. \A j \in S : j \in Key /\ IsMinted(j)
    BY DEF MintedKeys
  <1>4. \A j \in K : j = k /\ minted[k].owner = o
    BY <1>3 DEF Slot, CacheInv
  <1>5. k \in S /\ minted[k].owner = o => k \in K
    BY <1>1 DEF Slot
  <1>6. k \in K => (CHOOSE j \in K : TRUE) = k
    BY <1>4
  <1>. QED  BY <1>2, <1>4, <1>5, <1>6

\* A document that is saved is that of an ERC-721 token's only key.
LEMMA SavedKey ==
  ASSUME CacheInv, NEW k \in Key, pc = "update", k \in todo, k[1] \in Item721
  PROVE  k = Key721(k[1]) /\ IsUpdated(k)
  BY DEF CacheInv

LEMMA StepCache ==
  ASSUME TypeOK, CacheInv, [Next]_vars
  PROVE  CacheInv'
  <1>. USE DEF table, cache, control
  <1>0. minted \in [Key -> MintDoc] /\ updated \in [Key -> UpdateDoc]
    BY DEF TypeOK, MintDoc, UpdateDoc
  <1>1. ASSUME NEW e \in Event, Scan(e) PROVE CacheInv'
    <2>1. pc' \notin {"down", "update"}
      BY <1>1 DEF Scan, TransferContract, Mint721, Transfer721, Mint1155, HandOver, SplitMinted,
         UnknownSender, GiveAll, Split, NotEnoughBalance, Transferring, Due, Handled
    <2>2. ASSUME NEW k \in Key, k[1] \in Item721, (IsMinted(k) \/ IsUpdated(k))'
          PROVE  k = Key721(k[1])
      <3>1. CASE e.kind = "erc721" /\ k = Key721(e.item)
        BY <3>1 DEF Key721
      <3>2. CASE ~ (e.kind = "erc721" /\ k = Key721(e.item))
        <4>1. minted'[k] = minted[k] /\ updated'[k] = updated[k]
          BY <1>1, <2>2, <3>2, ScanElsewhere
        <4>. QED  BY <2>2, <4>1 DEF CacheInv, IsMinted, IsUpdated
      <3>. QED  BY <3>1, <3>2
    <2>. QED  BY <2>1, <2>2 DEF CacheInv
  <1>2. CASE UpdateHead \/ Crash
    <2>1. EmptyCache /\ pc' \in {"idle", "down"}
      BY <1>2 DEF UpdateHead, Crash
    <2>2. \A k \in Key : (~ IsMinted(k) /\ ~ IsUpdated(k))'
      BY <2>1 DEF EmptyCache, IsMinted, IsUpdated, NoEntry, NoDoc
    <2>. QED  BY <2>1, <2>2 DEF CacheInv
  <1>3. ASSUME NEW k \in Key, SaveRow(k) PROVE CacheInv'
    <2>1. minted' = minted /\ pc = "update" /\ pc' = "update" /\ todo' \subseteq todo
          /\ updated' \in {updated, [updated EXCEPT ![k].origin = updated[k].owner]}
      BY <1>3 DEF SaveRow
    <2>2. \A j \in Key : updated'[j].num = updated[j].num
      BY <1>0, <2>1 DEF UpdateDoc
    <2>3. \A j \in Key : IsUpdated(j)' <=> IsUpdated(j)
      BY <2>2 DEF IsUpdated
    <2>4. todo \subseteq Key
      BY DEF TypeOK
    <2>. QED  BY <2>1, <2>3, <2>4 DEF CacheInv, IsMinted
  <1>4. CASE InsertMinted
    BY <1>4 DEF InsertMinted, CacheInv, IsMinted, IsUpdated
  <1>5. CASE Start \/ BeginRound \/ NextKind \/ InsertRefused \/ EmptyEndBlock \/ CallFails
    <2>1. UNCHANGED <<minted, updated>> /\ pc' \notin {"down", "update"}
      BY <1>5 DEF Start, BeginRound, NextKind, InsertRefused, EmptyEndBlock, CallFails
    <2>. QED  BY <2>1 DEF CacheInv, IsMinted, IsUpdated
  <1>6. CASE NothingToDo \/ PosImport \/ UNCHANGED vars \/ \E k \in Key : SaveSwallowed(k)
    <2>1. UNCHANGED <<minted, updated, pc>> /\ todo' \subseteq todo
      BY <1>6 DEF NothingToDo, PosImport, vars, SaveSwallowed
    <2>. QED  BY <2>1 DEF CacheInv, IsMinted, IsUpdated
  <1>. QED  BY <1>1, <1>2, <1>3, <1>4, <1>5, <1>6 DEF Next, Program, Save, Fault

LEMMA InsertedMint ==
  ASSUME TypeOK, CacheInv, MintInv, NEW S \in SUBSET MintedKeys, row' = WithRows(S), NEW i \in Item721, NEW o \in Holder,
         Stored(i, o)'
  PROVE  \E e \in MintsOf(i) : e.num = row'[i][o].num
  <1>. DEFINE k == Key721(i)
  <1>1. row'[i][o] = IF k \in S /\ minted[k].owner = o
                     THEN [value |-> minted[k].value, num |-> minted[k].num] ELSE row[i][o]
    BY InsertedRow
  <1>2. CASE k \in S /\ minted[k].owner = o
    <2>1. IsMinted(k) /\ row'[i][o].num = minted[k].num
      BY <1>1, <1>2 DEF MintedKeys
    <2>. QED  BY <2>1 DEF MintInv
  <1>3. CASE ~ (k \in S /\ minted[k].owner = o)
    <2>1. row'[i][o] = row[i][o]
      BY <1>1, <1>3
    <2>. QED  BY <2>1 DEF MintInv, Stored
  <1>. QED  BY <1>2, <1>3

LEMMA StepMint ==
  ASSUME TypeOK, CacheInv, MintInv, [Next]_vars
  PROVE  MintInv'
  <1>. USE DEF table, cache, control
  <1>0. minted \in [Key -> MintDoc] /\ updated \in [Key -> UpdateDoc] /\ row \in [Item -> [Holder -> RowDoc]]
    BY DEF TypeOK, MintDoc, UpdateDoc, RowDoc
  <1>. SUFFICES ASSUME NEW i \in Item721
                PROVE  /\ IsMinted(Key721(i))' => \E e \in MintsOf(i) : e.num = minted'[Key721(i)].num
                       /\ IsUpdated(Key721(i))' => \E e \in MintsOf(i) : e.num = updated'[Key721(i)].num
                       /\ \A o \in Holder : Stored(i, o)' => \E e \in MintsOf(i) : e.num = row'[i][o].num
    BY DEF MintInv
  <1>. DEFINE k == Key721(i)
  <1>1. i \in Item /\ k \in Key /\ k[1] = i
    BY ConstantFacts DEF Key721, Key
  <1>2. /\ IsMinted(k) => \E e \in MintsOf(i) : e.num = minted[k].num
        /\ IsUpdated(k) => \E e \in MintsOf(i) : e.num = updated[k].num
        /\ \A o \in Holder : Stored(i, o) => \E e \in MintsOf(i) : e.num = row[i][o].num
    BY DEF MintInv
  <1>3. ASSUME row'[i] = row[i]
        PROVE  \A o \in Holder : Stored(i, o)' => \E e \in MintsOf(i) : e.num = row'[i][o].num
    BY <1>2, <1>3 DEF Stored
  <1>4. ASSUME (minted'[k] = minted[k] /\ updated'[k] = updated[k]) \/ EmptyCache
        PROVE  /\ IsMinted(k)' => \E e \in MintsOf(i) : e.num = minted'[k].num
               /\ IsUpdated(k)' => \E e \in MintsOf(i) : e.num = updated'[k].num
    <2>1. CASE EmptyCache
      BY <1>1, <2>1 DEF EmptyCache, NoEntry, NoDoc, IsMinted, IsUpdated
    <2>2. CASE minted'[k] = minted[k] /\ updated'[k] = updated[k]
      BY <1>2, <2>2 DEF IsMinted, IsUpdated
    <2>. QED  BY <1>4, <2>1, <2>2
  <1>5. ASSUME NEW e \in Event, Scan(e)
        PROVE  /\ IsMinted(k)' => \E f \in MintsOf(i) : f.num = minted'[k].num
               /\ IsUpdated(k)' => \E f \in MintsOf(i) : f.num = updated'[k].num
               /\ row' = row
    <2>1. row' = row
      BY <1>5, ScanType
    <2>2. CASE ~ (e.kind = "erc721" /\ e.item = i)
      <3>1. ~ (e.kind = "erc721" /\ k = Key721(e.item))
        BY <2>2 DEF Key721
      <3>. QED  BY <1>1, <1>4, <1>5, <2>1, <3>1, ScanElsewhere
    <2>3. CASE e.kind = "erc721" /\ e.item = i
      <3>1. CASE Mint721(e)
        <4>1. updated' = updated /\ (minted' = minted \/ minted'[k].num = e.num)
          BY <1>0, <1>1, <2>3, <3>1 DEF Mint721, Set
        <4>2. e \in MintsOf(i)
          BY <2>3, <3>1 DEF Mint721, MintsOf
        <4>. QED  BY <1>2, <2>1, <4>1, <4>2 DEF IsMinted, IsUpdated
      <3>2. CASE Transfer721(e)
        <4>1. e.from \in Holder
          BY EventFacts
        <4>2. minted'[k].num = minted[k].num
          BY <1>0, <1>1, <2>3, <3>2 DEF Transfer721, MintDoc
        <4>3. \/ updated'[k].num = updated[k].num
              \/ Stored(i, e.from) /\ updated'[k].num = row[i][e.from].num
          BY <1>0, <1>1, <2>3, <3>2 DEF Transfer721, UpdateDoc, Set, Load
        <4>. QED  BY <1>2, <2>1, <4>1, <4>2, <4>3 DEF IsMinted, IsUpdated
      <3>. QED  BY <1>5, <2>3, <3>1, <3>2 DEF Scan, TransferContract, Mint1155, HandOver, SplitMinted,
             UnknownSender, GiveAll, Split, NotEnoughBalance, Transferring
    <2>. QED  BY <2>2, <2>3
  <1>6. CASE Start
    <2>1. UNCHANGED <<minted, updated>> /\ \A o \in Holder : row'[i][o] \in {NoRow, row[i][o]}
      BY <1>1, <1>6 DEF Start
    <2>. QED  BY <1>2, <2>1 DEF IsMinted, IsUpdated, Stored, NoRow
  <1>7. CASE InsertMinted \/ InsertRefused \/ CallFails \/ Crash
    <2>1. (UNCHANGED <<minted, updated>> \/ EmptyCache) /\ (row' = row \/ \E S \in SUBSET MintedKeys : row' = WithRows(S))
      BY <1>7 DEF InsertMinted, InsertRefused, CallFails, Crash, CutShort
    <2>. QED  BY <1>2, <1>3, <1>4, <2>1, InsertedMint
  <1>8. ASSUME NEW j \in Key, SaveRow(j)
        PROVE  /\ IsMinted(k)' => \E f \in MintsOf(i) : f.num = minted'[k].num
               /\ IsUpdated(k)' => \E f \in MintsOf(i) : f.num = updated'[k].num
               /\ \A o \in Holder : Stored(i, o)' => \E f \in MintsOf(i) : f.num = row'[i][o].num
    <2>1. /\ minted' = minted /\ pc = "update" /\ j \in todo /\ row' = Set(row, j[1], Saved(j[1], updated[j]))
          /\ updated' \in {updated, [updated EXCEPT ![j].origin = updated[j].owner]}
      BY <1>8 DEF SaveRow
    <2>2. updated'[k].num = updated[k].num
      BY <1>0, <1>1, <2>1 DEF UpdateDoc
    <2>3. CASE j[1] # i
      <3>1. row'[i] = row[i]
        BY <1>0, <1>1, <2>1, <2>3 DEF Set
      <3>. QED  BY <1>2, <1>3, <2>1, <2>2, <3>1 DEF IsMinted, IsUpdated
    <2>4. CASE j[1] = i
      <3>1. j = k /\ IsUpdated(k)
        BY <2>1, <2>4, SavedKey
      <3>2. row'[i] = Saved(i, updated[k])
        BY <1>0, <1>1, <2>1, <3>1 DEF Set
      <3>3. row[i] \in [Holder -> RowDoc]
        BY <1>0, <1>1
      <3>4. \A o \in Holder : row'[i][o] \in {NoRow, row[i][o]} \/ row'[i][o].num = updated[k].num
        BY <3>2, <3>3 DEF Saved
      <3>. QED  BY <1>2, <2>1, <2>2, <3>1, <3>4 DEF IsMinted, IsUpdated, Stored, NoRow
    <2>. QED  BY <2>3, <2>4
  <1>9. CASE BeginRound \/ NothingToDo \/ NextKind \/ UpdateHead \/ EmptyEndBlock \/ PosImport \/ UNCHANGED vars
             \/ \E j \in Key : SaveSwallowed(j)
    <2>1. row' = row /\ (UNCHANGED <<minted, updated>> \/ EmptyCache)
      BY <1>9 DEF BeginRound, NothingToDo, NextKind, UpdateHead, EmptyEndBlock, PosImport, vars, SaveSwallowed
    <2>. QED  BY <1>3, <1>4, <2>1
  <1>. QED  BY <1>3, <1>5, <1>6, <1>7, <1>8, <1>9 DEF Next, Program, Save, Fault

\* The rows of a followed token are those of a block between the head and the end of the round, and with
\* what the cache holds they are what the events handled so far make of it.
TokenInv ==
  NoGap /\ NoSaveFailed =>
    \A i \in Followed :
      /\ \E n \in Int : Within(n) /\ RowIs(i, n)
      /\ \E m \in Int : Reached(i, m) /\ CacheIs(i, m)

TokenHere(i) ==
  /\ \E n \in Int : Within(n) /\ RowIs(i, n)
  /\ \E m \in Int : Reached(i, m) /\ CacheIs(i, m)

LEMMA FollowedFacts ==
  ASSUME NEW i \in Followed
  PROVE  /\ i \in Item721 /\ i \in Item /\ Ordered(i) /\ Chained(i) /\ \A e, f \in MintsOf(i) : e = f
         /\ Key721(i) \in Key /\ Key721(i)[1] = i
  BY ConstantFacts DEF Followed, Key721, Key

\* What no failed save means for the step.
LEMMA NoSaveFailedBefore ==
  ASSUME TypeOK, [Next]_vars, NoSaveFailed'
  PROVE  /\ NoSaveFailed /\ ~ InsertRefused /\ (CallFails => pc = "scan")
         /\ \A k \in Key : ~ SaveSwallowed(k)
  <1>. USE DEF NoSaveFailed, NoCallFailed, table, cache, control
  <1>1. spent \in [Mishap -> Nat] /\ {"swallow", "saveError", "refused", "short"} \subseteq Mishap
        /\ FaultKind \subseteq Mishap /\ {"swallow", "saveError", "error", "crash", "saveCrash"} \subseteq FaultKind
    BY DEF TypeOK, Mishap, FaultKind
  <1>2. \A k \in Mishap : spent[k] \in Nat
    BY <1>1
  <1>3. ASSUME NEW k \in Key PROVE ~ SaveSwallowed(k)
    <2>. SUFFICES ASSUME SaveSwallowed(k) PROVE FALSE
      OBVIOUS
    <2>1. spent'["swallow"] = spent["swallow"] + 1
      BY <1>1 DEF SaveSwallowed, Spend
    <2>. QED  BY <1>1, <1>2, <2>1
  <1>4. ~ InsertRefused
    BY <1>1 DEF InsertRefused
  <1>5. ASSUME CallFails PROVE pc = "scan" /\ NoSaveFailed
    <2>1. CASE pc = "scan"
      <3>1. spent' = [spent EXCEPT !["error"] = @ + 1]
        BY <1>5, <2>1 DEF CallFails, Spend
      <3>. QED  BY <1>1, <2>1, <3>1
    <2>2. CASE pc # "scan"
      <3>1. spent'["saveError"] = spent["saveError"] + 1
        BY <1>1, <1>5, <2>2 DEF CallFails, Spend
      <3>. QED  BY <1>1, <1>2, <3>1
    <2>. QED  BY <2>1, <2>2
  <1>6. ASSUME Crash PROVE NoSaveFailed
    <2>1. \E k \in {"saveCrash", "crash"} : spent' = [spent EXCEPT ![k] = @ + 1]
      BY <1>6 DEF Crash, Spend
    <2>. QED  BY <1>1, <2>1
  <1>7. ASSUME NEW e \in Event, Scan(e) PROVE NoSaveFailed
    <2>1. spent' = spent \/ spent' = [spent EXCEPT !["short"] = 1]
      BY <1>7 DEF Scan, TransferContract, Mint721, Transfer721, Mint1155, HandOver, SplitMinted,
         UnknownSender, GiveAll, Split, NotEnoughBalance, Handled
    <2>. QED  BY <1>1, <2>1
  <1>8. ASSUME \/ Start \/ BeginRound \/ NothingToDo \/ NextKind \/ InsertMinted \/ UpdateHead
               \/ EmptyEndBlock \/ PosImport \/ UNCHANGED vars \/ \E k \in Key : SaveRow(k)
        PROVE  NoSaveFailed
    <2>1. spent' = spent
      BY <1>8 DEF Start, BeginRound, NothingToDo, NextKind, InsertMinted, UpdateHead,
         EmptyEndBlock, PosImport, vars, SaveRow
    <2>. QED  BY <2>1, <1>1
  <1>9. NoSaveFailed
    BY <1>3, <1>4, <1>5, <1>6, <1>7, <1>8 DEF Next, Program, Save, Fault
  <1>. QED  BY <1>3, <1>4, <1>5, <1>9

\* A step that leaves the rows, or the cache as well, of a token as they are.
LEMMA RowSame ==
  ASSUME NEW i, NEW m, row'[i] = row[i], RowIs(i, m)
  PROVE  RowIs(i, m)'
  BY DEF RowIs, Stored

LEMMA CacheSame ==
  ASSUME NEW i, NEW m, row'[i] = row[i], minted'[Key721(i)] = minted[Key721(i)],
         updated'[Key721(i)] = updated[Key721(i)],
         pc' = "update" <=> pc = "update", pc = "update" => todo' = todo, CacheIs(i, m)
  PROVE  CacheIs(i, m)'
  <1>1. RowIs(i, m) => RowIs(i, m)'
    BY RowSame
  <1>2. NoRowOf(i)' <=> NoRowOf(i)
    BY DEF NoRowOf, Stored
  <1>3. Pending(Key721(i))' <=> Pending(Key721(i))
    BY DEF Pending, IsUpdated
  <1>. QED  BY <1>1, <1>2, <1>3 DEF CacheIs, IsMinted, IsUpdated, Stored

\* With an empty cache the rows are all there is.
LEMMA Restarted ==
  ASSUME NEW i \in Followed, (~ IsMinted(Key721(i)) /\ ~ IsUpdated(Key721(i)))', ~ Active',
         NEW n \in Int, Within(n)', RowIs(i, n)'
  PROVE  TokenHere(i)'
  <1>1. Reached(i, n)'
    BY DEF Reached
  <1>2. CacheIs(i, n)'
    BY DEF CacheIs, Pending
  <1>. QED  BY <1>1, <1>2 DEF TokenHere

\* An event of the token.
LEMMA TokenEvent ==
  ASSUME TypeOK, ScanInv, CacheInv, NoGap, NEW i \in Followed, TokenHere(i),
         NEW e \in Event, Scan(e), e.item = i
  PROVE  TokenHere(i)'
  <1>. USE DEF table, cache, control
  <1>. DEFINE k == Key721(i)
  <1>0. /\ i \in Item721 /\ i \in Item /\ Ordered(i) /\ Chained(i) /\ k \in Key
        /\ minted \in [Key -> MintDoc] /\ updated \in [Key -> UpdateDoc] /\ e.num \in Int /\ e.num # -1
        /\ e.from \in Holder /\ e.to \in Holder
    BY FollowedFacts, EventFacts DEF TypeOK, MintDoc, UpdateDoc
  <1>1. e.kind = "erc721"
    BY <1>0, EventFacts, NftAssumption DEF Item
  <1>2. (Mint721(e) \/ Transfer721(e)) /\ Due(e) /\ Handled(e)
    BY <1>1 DEF Scan, TransferContract, Mint721, Transfer721, Mint1155, HandOver, SplitMinted,
       UnknownSender, GiveAll, Split, NotEnoughBalance, Transferring
  <1>3. row' = row /\ pc = "scan" /\ pc' = "scan" /\ UNCHANGED <<head, endNum>>
    BY <1>2 DEF Mint721, Transfer721, Due, Handled
  <1>4. PICK n \in Int : Within(n) /\ RowIs(i, n)
    BY DEF TokenHere
  <1>5. Within(n)' /\ RowIs(i, n)'
    BY <1>3, <1>4, RowSame DEF Within, Scanned, Active
  <1>6. PICK m \in Int : Reached(i, m) /\ CacheIs(i, m)
    BY DEF TokenHere
  <1>7. Reached(i, e.num)' /\ (e.num <= m => Reached(i, m)')
    BY <1>0, <1>2, <1>6, ReachEvent, UniformFacts
  <1>8. OwnerAt(i, e.num) = e.to
    BY <1>0, OwnerAtEvent
  <1>9. m < e.num => EventsOf(i, m) = EventsOf(i, e.num - 1)
    BY <1>0, <1>2, <1>6, DueEvent, UniformFacts
  <1>10. m < e.num /\ EventsOf(i, m) = {} => \A f \in Event : f.item = i => e.num <= f.num
    BY <1>9, FirstEvent
  <1>11. ASSUME CacheIs(i, e.num)' PROVE TokenHere(i)'
    BY <1>0, <1>5, <1>7, <1>11 DEF TokenHere
  <1>12. ASSUME UNCHANGED <<minted, updated>>, e.num <= m PROVE TokenHere(i)'
    <2>1. CacheIs(i, m)'
      BY <1>3, <1>6, <1>12, CacheSame
    <2>. QED  BY <1>5, <1>7, <1>12, <2>1 DEF TokenHere
  <1>13. Pending(k) <=> IsUpdated(k)
    BY <1>3 DEF Pending
  <1>14. Pending(k)' <=> IsUpdated(k)'
    BY <1>3 DEF Pending
  <1>15. CASE Mint721(e)
    <2>1. e.from = Zero /\ e \in MintsOf(i) /\ updated' = updated
          /\ minted' = IF IsMinted(k) \/ \E o \in Holder : Stored(i, o)
                       THEN minted ELSE Set(minted, k, [owner |-> e.to, value |-> 1, num |-> e.num])
      BY <1>15 DEF Mint721, MintsOf
    <2>2. CASE IsMinted(k) \/ \E o \in Holder : Stored(i, o)
      <3>1. ASSUME m < e.num PROVE FALSE
        <4>1. EventsOf(i, m) = {}
          <5>. SUFFICES ASSUME NEW f \in EventsOf(i, m) PROVE FALSE
            OBVIOUS
          <5>1. f \in Event /\ f.item = i /\ f.num <= m /\ f.num \in Int
            BY EventFacts DEF EventsOf
          <5>2. PICK g \in MintsOf(i) : g.num <= f.num
            BY <1>0, <5>1 DEF Chained
          <5>3. g = e
            BY <2>1, FollowedFacts
          <5>. QED  BY <1>0, <3>1, <5>1, <5>2, <5>3
        <4>2. OwnerAt(i, m) = NoOwner
          BY <4>1 DEF OwnerAt
        <4>3. NoOwner \notin Holder
          BY ConstantFacts
        <4>4. minted[k].owner \in Holder /\ updated[k].owner \in Holder
          BY <1>0 DEF MintDoc, UpdateDoc
        <4>. QED  BY <1>6, <1>13, <2>2, <4>2, <4>3, <4>4 DEF CacheIs, RowIs
      <3>. QED  BY <1>0, <1>12, <2>1, <2>2, <3>1
    <2>3. CASE ~ (IsMinted(k) \/ \E o \in Holder : Stored(i, o))
      <3>1. minted'[k] = [owner |-> e.to, value |-> 1, num |-> e.num]
        BY <1>0, <2>1, <2>3 DEF Set
      <3>2. ~ IsUpdated(k) /\ NoRowOf(i)
        <4>1. updated[k].origin \in Holder
          BY <1>0 DEF UpdateDoc
        <4>. QED  BY <1>6, <1>13, <2>3, <4>1 DEF CacheIs, NoRowOf
      <3>3. ~ IsUpdated(k)' /\ NoRowOf(i)' /\ IsMinted(k)' /\ minted'[k].owner = OwnerAt(i, e.num)
        BY <1>0, <1>3, <1>8, <2>1, <3>1, <3>2 DEF IsUpdated, IsMinted, NoRowOf, Stored
      <3>. QED  BY <1>3, <1>11, <1>14, <3>3 DEF CacheIs
    <2>. QED  BY <2>2, <2>3
  <1>16. CASE Transfer721(e)
    <2>1. e.from # Zero
      BY <1>16 DEF Transfer721
    <2>2. CASE IsUpdated(k)
      <3>1. minted' = minted /\ updated' = [updated EXCEPT ![k].owner = e.to]
        BY <1>16, <2>2 DEF Transfer721
      <3>2. updated'[k].owner = e.to /\ updated'[k].origin = updated[k].origin /\ updated'[k].num = updated[k].num
        BY <1>0, <3>1 DEF UpdateDoc
      <3>3. IsUpdated(k)' /\ ~ IsMinted(k)' /\ Stored(i, updated[k].origin)'
        BY <1>3, <1>6, <1>13, <2>2, <3>1, <3>2 DEF CacheIs, IsUpdated, IsMinted, Stored
      <3>. QED  BY <1>8, <1>11, <1>14, <3>2, <3>3 DEF CacheIs, Stored
    <2>3. CASE ~ IsUpdated(k) /\ IsMinted(k)
      <3>1. updated' = updated /\ minted' = [minted EXCEPT ![k].owner = e.to]
        BY <1>16, <2>3 DEF Transfer721
      <3>2. minted'[k].owner = e.to /\ minted'[k].num = minted[k].num
        BY <1>0, <3>1 DEF MintDoc
      <3>3. ~ IsUpdated(k)' /\ IsMinted(k)' /\ NoRowOf(i)'
        BY <1>3, <1>6, <1>13, <2>3, <3>1, <3>2 DEF CacheIs, IsUpdated, IsMinted, NoRowOf, Stored
      <3>. QED  BY <1>3, <1>8, <1>11, <1>14, <3>2, <3>3 DEF CacheIs
    <2>4. CASE ~ IsUpdated(k) /\ ~ IsMinted(k)
      <3>1. minted' = minted /\ updated' = IF Stored(i, e.from)
                                           THEN Set(updated, k, [Load(i, e.from) EXCEPT !.owner = e.to]) ELSE updated
        BY <1>16, <2>4 DEF Transfer721
      <3>2. RowIs(i, m)
        BY <1>6, <1>13, <2>4 DEF CacheIs
      <3>3. CASE Stored(i, e.from)
        <4>1. updated'[k] = [Load(i, e.from) EXCEPT !.owner = e.to]
          BY <1>0, <3>1, <3>3 DEF Set
        <4>2. updated'[k].owner = e.to /\ updated'[k].origin = e.from /\ updated'[k].num = row[i][e.from].num
          BY <4>1 DEF Load
        <4>3. IsUpdated(k)' /\ ~ IsMinted(k)' /\ Stored(i, e.from)'
          BY <1>3, <2>4, <3>1, <3>3, <4>2 DEF IsUpdated, IsMinted, Stored
        <4>. QED  BY <1>8, <1>11, <1>14, <4>2, <4>3 DEF CacheIs, Stored
      <3>4. CASE ~ Stored(i, e.from)
        <4>1. ASSUME m < e.num PROVE FALSE
          <5>1. CASE EventsOf(i, m) = {}
            <6>1. PICK f \in MintsOf(i) : f.num <= e.num
              BY <1>0 DEF Chained
            <6>2. f \in Event /\ f.item = i /\ f.from = Zero /\ f.num \in Int
              BY EventFacts DEF MintsOf
            <6>3. f.num = e.num
              BY <1>0, <1>10, <4>1, <5>1, <6>1, <6>2
            <6>. QED  BY <1>0, <2>1, <6>2, <6>3 DEF Ordered
          <5>2. CASE EventsOf(i, m) # {}
            <6>1. e.from = OwnerAt(i, e.num - 1)
              BY <1>0, <1>9, <4>1, <5>2 DEF Chained
            <6>2. OwnerAt(i, m) = e.from
              BY <1>9, <4>1, <6>1 DEF OwnerAt
            <6>3. e.from \in Owner
              BY <1>0, <2>1 DEF Holder
            <6>. QED  BY <3>2, <3>4, <6>2, <6>3 DEF RowIs
          <5>. QED  BY <5>1, <5>2
        <4>. QED  BY <1>0, <1>12, <3>1, <3>4, <4>1
      <3>. QED  BY <3>3, <3>4
    <2>. QED  BY <2>2, <2>3, <2>4
  <1>. QED  BY <1>2, <1>15, <1>16

LEMMA WithinScan ==
  ASSUME NEW e \in Event, Due(e), Handled(e), NEW m, Within(m)
  PROVE  Within(m)'
  BY DEF Due, Handled, Within, Scanned, Active

\* Steps that touch neither the rows nor the cache of the token.
LEMMA TokenAside ==
  ASSUME TypeOK, ScanInv, NoGap, NEW i \in Followed, TokenHere(i),
         BeginRound \/ NextKind \/ PosImport \/ Aside \/ \E e \in Event : Due(e) /\ Handled(e) /\ e.item # i,
         row'[i] = row[i], minted'[Key721(i)] = minted[Key721(i)], updated'[Key721(i)] = updated[Key721(i)],
         pc' = "update" <=> pc = "update", pc = "update" => todo' = todo
  PROVE  TokenHere(i)'
  <1>1. PICK n \in Int : Within(n) /\ RowIs(i, n)
    BY DEF TokenHere
  <1>2. PICK m \in Int : Reached(i, m) /\ CacheIs(i, m)
    BY DEF TokenHere
  <1>3. RowIs(i, n)' /\ CacheIs(i, m)'
    BY <1>1, <1>2, RowSame, CacheSame
  <1>4. Within(n)' /\ Reached(i, m)'
    <2>1. CASE BeginRound \/ NextKind \/ PosImport \/ Aside
      BY <1>1, <1>2, <2>1, WithinAside, ReachAside
    <2>2. CASE \E e \in Event : Due(e) /\ Handled(e) /\ e.item # i
      BY <1>1, <1>2, <2>2, WithinScan, ReachEvent, UniformFacts, FollowedFacts
    <2>. QED  BY <2>1, <2>2
  <1>. QED  BY <1>3, <1>4 DEF TokenHere

\* The new rows, or some of them, are inserted.
LEMMA TokenInserted ==
  ASSUME TypeOK, CacheInv, pc = "insert", NEW i \in Followed, NEW m, CacheIs(i, m),
         NEW S \in SUBSET MintedKeys, row' = WithRows(S), Key721(i) \in S
  PROVE  RowIs(i, m)'
  <1>. DEFINE k == Key721(i)
  <1>1. k \in Key /\ i \in Item721 /\ IsMinted(k) /\ ~ IsUpdated(k) /\ NoRowOf(i) /\ minted[k].owner = OwnerAt(i, m)
    BY FollowedFacts DEF MintedKeys, CacheIs, Pending
  <1>2. \A o \in Holder : Stored(i, o)' <=> o = OwnerAt(i, m)
    <2>1. ASSUME NEW o \in Holder
          PROVE  row'[i][o] = IF k \in S /\ minted[k].owner = o
                              THEN [value |-> minted[k].value, num |-> minted[k].num] ELSE row[i][o]
      BY <1>1, InsertedRow
    <2>. QED  BY <1>1, <2>1 DEF Stored, IsMinted, NoRowOf
  <1>. QED  BY <1>2 DEF RowIs, Holder

LEMMA NotInserted ==
  ASSUME TypeOK, CacheInv, NEW i \in Followed, NEW S \in SUBSET MintedKeys, row' = WithRows(S)
  PROVE  Key721(i) \notin S => row'[i] = row[i]
  <1>. DEFINE k == Key721(i)
  <1>1. i \in Item721 /\ i \in Item
    BY FollowedFacts
  <1>2. ASSUME NEW o \in Holder
        PROVE  row'[i][o] = IF k \in S /\ minted[k].owner = o
                            THEN [value |-> minted[k].value, num |-> minted[k].num] ELSE row[i][o]
    BY <1>1, InsertedRow
  <1>3. row[i] \in [Holder -> RowDoc]
    BY <1>1 DEF TypeOK, RowDoc
  <1>4. row'[i] \in [Holder -> RowDoc]
    BY <1>1, WithRowsType
  <1>. QED  BY <1>2, <1>3, <1>4

LEMMA TokenInsert ==
  ASSUME TypeOK, ScanInv, CacheInv, NEW i \in Followed, TokenHere(i), InsertMinted
  PROVE  TokenHere(i)'
  <1>. DEFINE k == Key721(i)
  <1>1. /\ pc = "insert" /\ pc' = "update" /\ UNCHANGED <<minted, updated>> /\ row' = WithRows(MintedKeys)
        /\ todo' = { j \in Key : IsUpdated(j) } /\ Aside
    BY DEF InsertMinted, Aside, cache
  <1>2. PICK m \in Int : Reached(i, m) /\ CacheIs(i, m)
    BY DEF TokenHere
  <1>3. Reached(i, m)' /\ Within(m)'
    BY <1>1, <1>2, ReachAside, WithinAside DEF Reached
  <1>4. k \in Key
    BY FollowedFacts
  <1>5. CASE IsMinted(k)
    <2>1. k \in MintedKeys /\ ~ IsUpdated(k)
      BY <1>2, <1>4, <1>5 DEF MintedKeys, CacheIs
    <2>2. RowIs(i, m)'
      BY <1>1, <1>2, <2>1, TokenInserted
    <2>3. CacheIs(i, m)'
      BY <1>1, <1>2, <1>5, <2>1, <2>2 DEF CacheIs, Pending, IsUpdated, IsMinted
    <2>. QED  BY <1>3, <2>2, <2>3 DEF TokenHere
  <1>6. CASE ~ IsMinted(k)
    <2>1. row'[i] = row[i]
      BY <1>1, <1>6, NotInserted DEF MintedKeys
    <2>2. PICK n \in Int : Within(n) /\ RowIs(i, n)
      BY DEF TokenHere
    <2>3. Within(n)' /\ RowIs(i, n)'
      BY <1>1, <2>1, <2>2, WithinAside, RowSame
    <2>4. CASE IsUpdated(k)
      <3>1. Pending(k) /\ Pending(k)'
        BY <1>1, <1>4, <2>4 DEF Pending, IsUpdated
      <3>2. CacheIs(i, m)'
        BY <1>1, <1>2, <1>6, <2>1, <2>4, <3>1 DEF CacheIs, IsMinted, IsUpdated, Stored
      <3>. QED  BY <1>3, <2>3, <3>2 DEF TokenHere
    <2>5. CASE ~ IsUpdated(k)
      <3>1. ~ Pending(k) /\ ~ Pending(k)' /\ ~ IsUpdated(k)' /\ ~ IsMinted(k)'
        BY <1>1, <1>6, <2>5 DEF Pending, IsUpdated, IsMinted
      <3>2. RowIs(i, m)'
        BY <1>2, <1>6, <2>1, <3>1, RowSame DEF CacheIs
      <3>3. CacheIs(i, m)'
        BY <3>1, <3>2 DEF CacheIs
      <3>. QED  BY <1>3, <2>3, <3>3 DEF TokenHere
    <2>. QED  BY <2>4, <2>5
  <1>. QED  BY <1>5, <1>6

\* A document is saved: the row goes to the owner of the last event.
LEMMA TokenSave ==
  ASSUME TypeOK, ScanInv, CacheInv, NEW i \in Followed, TokenHere(i), NEW j \in Key, SaveRow(j)
  PROVE  TokenHere(i)'
  <1>. DEFINE k == Key721(i)
  <1>0. /\ minted \in [Key -> MintDoc] /\ updated \in [Key -> UpdateDoc] /\ row \in [Item -> [Holder -> RowDoc]]
        /\ k \in Key /\ k[1] = i /\ i \in Item /\ i \in Item721 /\ Zero \notin Owner
    BY FollowedFacts, NftAssumption DEF TypeOK, MintDoc, UpdateDoc, RowDoc
  <1>1. /\ pc = "update" /\ pc' = "update" /\ minted' = minted /\ j \in todo /\ todo' = todo \ {j}
        /\ row' = Set(row, j[1], Saved(j[1], updated[j]))
        /\ updated' = IF updated[j].owner # Zero /\ Savable(j[1], updated[j])
                      THEN [updated EXCEPT ![j].origin = updated[j].owner] ELSE updated
        /\ Aside
    BY DEF SaveRow, Aside
  <1>2. PICK m \in Int : Reached(i, m) /\ CacheIs(i, m)
    BY DEF TokenHere
  <1>3. PICK n \in Int : Within(n) /\ RowIs(i, n)
    BY DEF TokenHere
  <1>4. Reached(i, m)' /\ Within(m)' /\ Within(n)'
    BY <1>1, <1>2, <1>3, ReachAside, WithinAside DEF Reached
  <1>5. CASE j[1] # i
    <2>1. row'[i] = row[i] /\ updated'[k] = updated[k] /\ j # k
      BY <1>0, <1>1, <1>5 DEF Set
    <2>2. RowIs(i, n)' /\ (RowIs(i, m) => RowIs(i, m)')
      BY <1>3, <2>1, RowSame
    <2>3. Pending(k)' <=> Pending(k)
      BY <1>1, <2>1 DEF Pending, IsUpdated
    <2>4. CacheIs(i, m)'
      BY <1>1, <1>2, <2>1, <2>2, <2>3 DEF CacheIs, IsMinted, IsUpdated, Stored
    <2>. QED  BY <1>4, <2>2, <2>4 DEF TokenHere
  <1>6. CASE j[1] = i
    <2>1. j = k /\ IsUpdated(k) /\ Pending(k)
      BY <1>1, <1>0, <1>6, SavedKey DEF Pending
    <2>2. ~ IsMinted(k) /\ updated[k].owner = OwnerAt(i, m) /\ Stored(i, updated[k].origin)
      BY <1>2, <2>1 DEF CacheIs
    <2>. DEFINE d == updated[k]
    <2>3. d.owner \in Holder /\ d.origin \in Holder /\ d.num # -1 /\ row[i] \in [Holder -> RowDoc]
      BY <1>0, <2>1 DEF UpdateDoc, IsUpdated
    <2>4. \A o \in Holder : Stored(i, o) => o = d.origin
      BY <1>3, <2>2, <2>3 DEF RowIs
    <2>5. Savable(i, d)
      BY <2>2, <2>3, <2>4 DEF Savable
    <2>6. row'[i] = IF d.owner = Zero THEN [row[i] EXCEPT ![d.origin] = NoRow]
                    ELSE [row[i] EXCEPT ![d.origin] = NoRow, ![d.owner] = [value |-> d.value, num |-> d.num]]
      BY <1>0, <1>1, <2>1, <2>5 DEF Set, Saved
    <2>7. RowIs(i, m)'
      <3>1. CASE d.owner = Zero
        <4>1. \A o \in Holder : ~ Stored(i, o)'
          BY <2>3, <2>4, <2>6, <3>1 DEF Stored, NoRow
        <4>. QED  BY <1>0, <2>2, <3>1, <4>1 DEF RowIs
      <3>2. CASE d.owner # Zero
        <4>1. \A o \in Holder : Stored(i, o)' <=> o = d.owner
          BY <2>3, <2>4, <2>6, <3>2 DEF Stored, NoRow
        <4>. QED  BY <2>2, <2>3, <4>1 DEF RowIs
      <3>. QED  BY <3>1, <3>2
    <2>8. updated'[k].num = updated[k].num /\ updated'[k].owner = updated[k].owner
      BY <1>0, <1>1, <2>1 DEF UpdateDoc
    <2>9. ~ Pending(k)' /\ ~ IsMinted(k)'
      BY <1>1, <2>1, <2>2 DEF Pending, IsMinted
    <2>10. CacheIs(i, m)'
      BY <1>1, <2>2, <2>7, <2>8, <2>9 DEF CacheIs
    <2>. QED  BY <1>4, <2>7, <2>10 DEF TokenHere
  <1>. QED  BY <1>5, <1>6

\* The process begins with an empty cache: of a token minted above the head no row is left, those of the
\* others are what they were.
LEMMA TokenStart ==
  ASSUME TypeOK, ScanInv, CacheInv, MintInv, NEW i \in Followed, TokenHere(i), Start
  PROVE  TokenHere(i)'
  <1>. DEFINE k == Key721(i)
  <1>1. /\ pc = "down" /\ pc' = "idle" /\ UNCHANGED <<minted, updated, head, tip, endNum>>
        /\ row' = [j \in Item |-> [o \in Holder |-> IF head # -1 /\ row[j][o].num > head THEN NoRow ELSE row[j][o]]]
    BY DEF Start, cache
  <1>2. k \in Key /\ i \in Item721 /\ i \in Item /\ Chained(i) /\ \A e, f \in MintsOf(i) : e = f
    BY FollowedFacts
  <1>3. NumFacts /\ row[i] \in [Holder -> RowDoc]
    BY <1>2, Numbers DEF TypeOK, RowDoc
  <1>4. (~ IsMinted(k) /\ ~ IsUpdated(k))' /\ ~ Active'
    BY <1>1, <1>2 DEF CacheInv, IsMinted, IsUpdated, Active
  <1>5. PICK n \in Int : Within(n) /\ RowIs(i, n)
    BY DEF TokenHere
  <1>6. \A m : Within(m) => Within(m)'
    BY <1>1 DEF Within, Scanned, Active, RoundEnd
  <1>7. row'[i] = [o \in Holder |-> IF head # -1 /\ row[i][o].num > head THEN NoRow ELSE row[i][o]]
    BY <1>1, <1>2
  <1>8. CASE \E f \in MintsOf(i) : head # -1 /\ f.num > head
    <2>1. PICK f \in MintsOf(i) : head # -1 /\ f.num > head
      BY <1>8
    <2>2. \A o \in Holder : Stored(i, o) => row[i][o].num = f.num
      BY <1>2, <2>1 DEF MintInv
    <2>3. \A o \in Holder : ~ Stored(i, o)'
      BY <1>7, <2>1, <2>2 DEF Stored, NoRow
    <2>4. EventsOf(i, head) = {}
      <3>. SUFFICES ASSUME NEW e \in Event, e.item = i, e.num <= head PROVE FALSE
        BY DEF EventsOf
      <3>1. PICK g \in MintsOf(i) : g.num <= e.num
        BY <1>2 DEF Chained
      <3>2. g = f /\ f.num \in Int /\ e.num \in Int
        BY <1>2, <2>1, EventFacts DEF MintsOf
      <3>. QED  BY <1>3, <2>1, <3>1, <3>2 DEF NumFacts
    <2>5. OwnerAt(i, head) = NoOwner /\ NoOwner \notin Holder
      BY <2>4, ConstantFacts DEF OwnerAt
    <2>6. RowIs(i, head)'
      <3>1. head' = head
        BY <1>1
      <3>. QED  BY <2>3, <2>5, <3>1 DEF RowIs, Holder
    <2>7. Within(head) /\ head \in Int
      <3>1. head <= tip /\ RoundEnd \in Int /\ RoundEnd >= head
        BY <1>3, RoundEndFact DEF TypeOK, ScanInv, NumFacts
      <3>. QED  BY <1>1, <1>3, <3>1 DEF Within, Scanned, Active, NumFacts
    <2>8. PICK h \in Int : h = head
      BY <2>7
    <2>9. Within(h)' /\ RowIs(i, h)'
      <3>1. head' = h
        BY <1>1, <2>8
      <3>. QED  BY <1>6, <2>6, <2>7, <2>8, <3>1
    <2>. QED  BY <1>4, <2>9, Restarted
  <1>9. CASE ~ \E f \in MintsOf(i) : head # -1 /\ f.num > head
    <2>1. \A o \in Holder : Stored(i, o) => ~ (head # -1 /\ row[i][o].num > head)
      BY <1>2, <1>9 DEF MintInv, Stored
    <2>2. \A o \in Holder : Stored(i, o)' <=> Stored(i, o)
      BY <1>7, <2>1 DEF Stored, NoRow
    <2>3. RowIs(i, n)'
      BY <1>5, <2>2 DEF RowIs, Holder
    <2>. QED  BY <1>4, <1>5, <1>6, <2>3, Restarted
  <1>. QED  BY <1>8, <1>9

\* The process ends: what has been inserted of the new rows is that of the last event handled.
LEMMA TokenCrash ==
  ASSUME TypeOK, ScanInv, CacheInv, NEW i \in Followed, TokenHere(i), Crash
  PROVE  TokenHere(i)'
  <1>. DEFINE k == Key721(i)
  <1>1. EmptyCache /\ pc' = "down" /\ CutShort /\ Aside
    BY DEF Crash, Aside
  <1>2. (~ IsMinted(k) /\ ~ IsUpdated(k))' /\ ~ Active'
    BY <1>1, FollowedFacts DEF EmptyCache, NoEntry, NoDoc, IsMinted, IsUpdated, Active
  <1>3. PICK n \in Int : Within(n) /\ RowIs(i, n)
    BY DEF TokenHere
  <1>4. CASE row'[i] = row[i]
    <2>1. Within(n)' /\ RowIs(i, n)'
      BY <1>1, <1>3, <1>4, WithinAside, RowSame
    <2>. QED  BY <1>2, <2>1, Restarted
  <1>5. CASE row'[i] # row[i]
    <2>1. PICK S \in SUBSET MintedKeys : row' = WithRows(S) /\ pc = "insert"
      BY <1>1, <1>5 DEF CutShort
    <2>2. k \in S
      BY <1>5, <2>1, NotInserted
    <2>3. PICK m \in Int : Reached(i, m) /\ CacheIs(i, m)
      BY DEF TokenHere
    <2>4. RowIs(i, m)'
      BY <2>1, <2>2, <2>3, TokenInserted
    <2>5. Within(m)'
      BY <1>1, <2>3, WithinAside DEF Reached
    <2>. QED  BY <1>2, <2>4, <2>5, Restarted
  <1>. QED  BY <1>4, <1>5

\* The head moves: the rows are those of the last block of the round.
LEMMA RoundSaved ==
  ASSUME TypeOK, ScanInv, CacheInv, NoGap, NEW i \in Followed, TokenHere(i), UpdateHead
  PROVE  RowIs(i, endNum)
  <1>1. pc = "update" /\ todo = {}
    BY DEF UpdateHead
  <1>2. PICK m \in Int : Reached(i, m) /\ CacheIs(i, m)
    BY DEF TokenHere
  <1>3. RowIs(i, m)
    BY <1>1, <1>2 DEF CacheIs, Pending
  <1>4. EventsOf(i, m) = EventsOf(i, endNum)
    BY <1>2, RoundComplete
  <1>. QED  BY <1>3, <1>4 DEF RowIs, OwnerAt

LEMMA TokenHead ==
  ASSUME TypeOK, ScanInv, CacheInv, NoGap, NEW i \in Followed, TokenHere(i), UpdateHead
  PROVE  TokenHere(i)'
  <1>1. EmptyCache /\ pc' = "idle" /\ row' = row /\ endNum' = endNum
    BY DEF UpdateHead, table
  <1>2. (~ IsMinted(Key721(i)) /\ ~ IsUpdated(Key721(i)))' /\ ~ Active'
    BY <1>1, FollowedFacts DEF EmptyCache, NoEntry, NoDoc, IsMinted, IsUpdated, Active
  <1>3. PICK n \in Int : n = endNum
    BY RoundComplete
  <1>4. Within(n)'
    BY <1>1, <1>3, RoundComplete DEF Reached
  <1>5. RowIs(i, n)'
    BY <1>1, <1>3, RoundSaved, RowSame
  <1>. QED  BY <1>2, <1>4, <1>5, Restarted

LEMMA StepToken ==
  ASSUME TypeOK, ScanInv, CacheInv, MintInv, TokenInv, [Next]_vars
  PROVE  TokenInv'
  <1>. USE DEF table, cache, control
  <1>. SUFFICES ASSUME NoGap', NoSaveFailed', NEW i \in Followed
                PROVE  TokenHere(i)'
    BY DEF TokenInv, TokenHere, Followed
  <1>1. NoGap /\ NoSaveFailed /\ ~ InsertRefused /\ (CallFails => pc = "scan") /\ \A k \in Key : ~ SaveSwallowed(k)
    BY NoGapBefore, NoSaveFailedBefore
  <1>2. TokenHere(i)
    BY <1>1 DEF TokenInv, TokenHere
  <1>3. i \in Item /\ i \in Item721 /\ Key721(i) \in Key /\ Key721(i)[1] = i
    BY FollowedFacts
  <1>4. ASSUME NEW e \in Event, Scan(e) PROVE TokenHere(i)'
    <2>1. CASE e.item = i
      BY <1>1, <1>2, <1>4, <2>1, TokenEvent
    <2>2. CASE e.item # i
      <3>1. minted'[Key721(i)] = minted[Key721(i)] /\ updated'[Key721(i)] = updated[Key721(i)] /\ row' = row
        BY <1>3, <1>4, <2>2, ScanElsewhere, ScanType DEF Key721
      <3>2. /\ Aside \/ (Due(e) /\ Handled(e))
            /\ pc # "update" /\ pc' # "update"
        BY <1>4 DEF Scan, TransferContract, Mint721, Transfer721, Mint1155, HandOver, SplitMinted,
           UnknownSender, GiveAll, Split, NotEnoughBalance, Transferring, Due, Handled, Aside
      <3>. QED  BY <1>1, <1>2, <2>2, <3>1, <3>2, TokenAside
    <2>. QED  BY <2>1, <2>2
  <1>5. CASE BeginRound \/ NothingToDo \/ NextKind \/ CallFails \/ PosImport \/ UNCHANGED vars
    <2>1. UNCHANGED <<row, minted, updated>>
      BY <1>1, <1>5 DEF BeginRound, NothingToDo, NextKind, CallFails, CutShort, PosImport, vars
    <2>2. (pc' = "update" <=> pc = "update") /\ todo' = todo
      BY <1>1, <1>5 DEF BeginRound, NothingToDo, NextKind, CallFails, PosImport, vars
    <2>3. BeginRound \/ NextKind \/ PosImport \/ Aside
      BY <1>5 DEF NothingToDo, CallFails, vars, Aside
    <2>. QED  BY <1>1, <1>2, <2>1, <2>2, <2>3, TokenAside
  <1>6. ~ EmptyEndBlock
    <2>1. pc = "update" => endNum \in 0..tip
      BY Numbers, RoundEndFact DEF TypeOK, ScanInv, Active, NumFacts
    <2>. QED  BY <1>1, <2>1 DEF EmptyEndBlock, NoGap
  <1>7. CASE Start
    BY <1>2, <1>7, TokenStart
  <1>8. CASE Crash
    BY <1>2, <1>8, TokenCrash
  <1>9. CASE UpdateHead
    BY <1>1, <1>2, <1>9, TokenHead
  <1>10. CASE InsertMinted
    BY <1>2, <1>10, TokenInsert
  <1>11. CASE \E k \in Key : SaveRow(k)
    BY <1>2, <1>11, TokenSave
  <1>. QED  BY <1>1, <1>4, <1>5, <1>6, <1>7, <1>8, <1>9, <1>10, <1>11 DEF Next, Program, Save, Fault

LEMMA InitOwners == Init => OwnerInv /\ CacheInv /\ MintInv /\ TokenInv
  <1>. SUFFICES ASSUME Init PROVE OwnerInv /\ CacheInv /\ MintInv /\ TokenInv
    OBVIOUS
  <1>1. TypeOK /\ ScanInv /\ head = -1 /\ ~ Active /\ owner = Master
    BY InitType, InitScan DEF Init, Active
  <1>2. NumFacts /\ RoundEnd \in Int /\ -1 <= RoundEnd
    BY <1>1, Numbers, RoundEndFact DEF TypeOK, ScanInv, NumFacts
  <1>3. Within(-1) /\ \A i : Reached(i, -1)
    BY <1>1, <1>2 DEF Within, Reached, Scanned
  <1>4. \A i : EventsOf(i, -1) = {}
    BY <1>2 DEF EventsOf, NumFacts
  <1>5. \A k \in Key : ~ IsMinted(k) /\ ~ IsUpdated(k)
    BY DEF Init, IsMinted, IsUpdated, NoEntry, NoDoc
  <1>6. \A i \in Item : \A o \in Holder : ~ Stored(i, o)
    BY DEF Init, Stored, NoRow
  <1>7. OwnerInv
    BY <1>1, <1>3, <1>4 DEF OwnerInv, At, Tracked
  <1>8. CacheInv
    BY <1>5 DEF CacheInv, Init
  <1>9. \A i \in Item721 : i \in Item /\ Key721(i) \in Key
    BY ConstantFacts DEF Key721, Key
  <1>10. MintInv
    BY <1>5, <1>6, <1>9 DEF MintInv
  <1>11. ASSUME NEW i \in Followed
         PROVE  (\E n \in Int : Within(n) /\ RowIs(i, n)) /\ (\E m \in Int : Reached(i, m) /\ CacheIs(i, m))
    <2>1. OwnerAt(i, -1) = NoOwner /\ NoOwner \notin Holder /\ i \in Item /\ Key721(i) \in Key
      BY <1>4, ConstantFacts, FollowedFacts DEF OwnerAt
    <2>2. RowIs(i, -1)
      BY <1>6, <2>1 DEF RowIs, Holder
    <2>3. CacheIs(i, -1)
      BY <1>5, <2>1, <2>2 DEF CacheIs, Pending
    <2>. QED  BY <1>3, <2>2, <2>3
  <1>12. TokenInv
    BY <1>11 DEF TokenInv
  <1>. QED  BY <1>7, <1>8, <1>10, <1>12

OwnersInv == TypeOK /\ ScanInv /\ OwnerInv /\ CacheInv /\ MintInv /\ TokenInv

\* When the head of the NFT import moves, the followed ERC-721 tokens and the contracts have the owners
\* the chain gives them at the new head: for every chain, every window, and any number of crashes and of
\* errors while events are read, wherever they interrupt a round.
THEOREM OwnersOfTheChain == Spec => OwnersExact
  <1>1. Init => OwnersInv
    BY InitType, InitScan, InitOwners DEF OwnersInv
  <1>2. OwnersInv /\ [Next]_vars => OwnersInv'
    BY StepType, StepScan, StepOwner, StepCache, StepMint, StepToken DEF OwnersInv
  <1>3. OwnersInv /\ [Next]_vars =>
          [ head' # head /\ NoGap => (NoSaveFailed => TokenOwnersAt(head')) /\ ContractOwnersAt(head') ]_vars
    <2>. SUFFICES ASSUME OwnersInv, [Next]_vars, head' # head, NoGap
                  PROVE  (NoSaveFailed => TokenOwnersAt(head')) /\ ContractOwnersAt(head')
      OBVIOUS
    <2>1. UpdateHead /\ head' = endNum
      BY HeadMoves DEF UpdateHead
    <2>2. ASSUME NoSaveFailed, NEW i \in Followed PROVE HoldersOf(i) = {OwnerAt(i, head')} \cap Owner
      <3>1. RowIs(i, endNum)
        BY <2>1, <2>2, RoundSaved DEF OwnersInv, TokenInv, TokenHere
      <3>. QED  BY <2>1, <3>1 DEF HoldersOf, RowIs, Holder
    <2>3. ASSUME NEW c \in Tracked, EventsOf(c, head') # {} PROVE owner[c] = OwnerAt(c, head')
      <3>1. PICK m \in Int : Reached(c, m) /\ owner[c] = At(c, m)
        BY DEF OwnersInv, OwnerInv
      <3>2. EventsOf(c, m) = EventsOf(c, endNum)
        BY <2>1, <3>1, RoundComplete DEF OwnersInv
      <3>. QED  BY <2>1, <2>3, <3>1, <3>2 DEF At, OwnerAt
    <2>. QED  BY <2>2, <2>3 DEF TokenOwnersAt, ContractOwnersAt, Tracked
  <1>. QED  BY <1>1, <1>2, <1>3, PTL DEF Spec, OwnersExact
-----------------------------------------------------------------------------
(* Sums of the values of events. *)

\* Induction, over a set of numbers.
LEMMA NaturalsAll ==
  ASSUME NEW T \in SUBSET Nat, 0 \in T, \A n \in T : n + 1 \in T
  PROVE  T = Nat
  <1>. DEFINE U == Nat \ T
              Less == OpToRel(<, Nat)
  <1>. SUFFICES ASSUME U # {} PROVE FALSE
    OBVIOUS
  <1>1. \E x \in U : \A y \in U : <<y, x>> \notin Less
    <2>1. U \subseteq Nat /\ IsWellFoundedOn(Less, Nat)
      BY NatLessThanWellFounded
    <2>. HIDE DEF U, Less
    <2>. QED  BY <2>1, WFMin
  <1>2. PICK n \in U : \A m \in U : <<m, n>> \notin Less
    BY <1>1
  <1>3. n - 1 \in Nat /\ n - 1 \in U
    <2>1. n \in Nat /\ n \notin T /\ n # 0
      OBVIOUS
    <2>2. n - 1 \in Nat /\ (n - 1) + 1 = n
      BY <2>1
    <2>3. n - 1 \notin T
      BY <2>1, <2>2
    <2>. QED  BY <2>2, <2>3
  <1>4. <<n - 1, n>> \in Less
    BY <1>3 DEF OpToRel
  <1>. QED  BY <1>2, <1>3, <1>4

\* The event the fold of the library takes out of a set first.
One(s) == CHOOSE e \in s : TRUE

\* What the fold of the library does to a set.
Adds(g, s) == g[s] = IF s = {} THEN 0 ELSE One(s).value + g[s \ {One(s)}]

Small(S, n) == { s \in SUBSET S : Cardinality(s) <= n }

LEMMA OneLess ==
  ASSUME NEW s, IsFiniteSet(s), s # {}
  PROVE  /\ One(s) \in s /\ Cardinality(s) \in Nat /\ Cardinality(s \ {One(s)}) = Cardinality(s) - 1
         /\ IsFiniteSet(s \ {One(s)}) /\ Cardinality(s \ {One(s)}) \in Nat /\ Cardinality(s) # 0
  <1>1. One(s) \in s
    BY DEF One
  <1>2. Cardinality(s) \in Nat
    BY FS_CardinalityType
  <1>3. Cardinality(s \ {One(s)}) = Cardinality(s) - 1 /\ IsFiniteSet(s \ {One(s)})
    BY <1>1, FS_RemoveElement
  <1>4. Cardinality(s \ {One(s)}) \in Nat
    BY <1>3, FS_CardinalityType
  <1>. QED  BY <1>1, <1>2, <1>3, <1>4

LEMMA SmallFacts ==
  ASSUME NEW S, IsFiniteSet(S), NEW n \in Nat
  PROVE  /\ \A s \in Small(S, n) : s \in SUBSET S /\ IsFiniteSet(s) /\ Cardinality(s) \in Nat
         /\ Small(S, n) \subseteq Small(S, n + 1) /\ Small(S, 0) = {{}}
         /\ \A s \in Small(S, n + 1) : s # {} => One(s) \in s /\ s \ {One(s)} \in Small(S, n)
  <1>1. ASSUME NEW s \in SUBSET S PROVE IsFiniteSet(s) /\ Cardinality(s) \in Nat
    <2>1. IsFiniteSet(s)
      BY FS_Subset
    <2>. QED  BY <2>1, FS_CardinalityType
  <1>2. \A s \in Small(S, n) : s \in SUBSET S /\ IsFiniteSet(s) /\ Cardinality(s) \in Nat
    BY <1>1 DEF Small
  <1>3. Small(S, n) \subseteq Small(S, n + 1)
    BY <1>1 DEF Small
  <1>4. Small(S, 0) = {{}}
    <2>1. {} \in Small(S, 0)
      BY FS_EmptySet DEF Small
    <2>2. ASSUME NEW s \in Small(S, 0), s # {} PROVE FALSE
      <3>1. s \in SUBSET S /\ Cardinality(s) <= 0
        BY DEF Small
      <3>2. Cardinality(s) \in Nat /\ Cardinality(s) # 0
        BY <1>1, <2>2, <3>1, OneLess
      <3>. QED  BY <3>1, <3>2
    <2>. QED  BY <2>1, <2>2
  <1>5. ASSUME NEW s \in Small(S, n + 1), s # {} PROVE One(s) \in s /\ s \ {One(s)} \in Small(S, n)
    <2>1. s \in SUBSET S /\ Cardinality(s) <= n + 1 /\ IsFiniteSet(s)
      BY <1>1 DEF Small
    <2>2. /\ One(s) \in s /\ Cardinality(s) \in Nat /\ Cardinality(s \ {One(s)}) = Cardinality(s) - 1
      BY <1>5, <2>1, OneLess
    <2>. QED  BY <2>1, <2>2 DEF Small
  <1>. QED  BY <1>2, <1>3, <1>4, <1>5

\* The function the library's definition chooses exists.
LEMMA FoldExists ==
  ASSUME NEW S \in SUBSET Event, IsFiniteSet(S)
  PROVE  \E g : g = [s \in SUBSET S |-> IF s = {} THEN 0 ELSE One(s).value + g[s \ {One(s)}]]
  <1>. DEFINE T == { n \in Nat : \E g \in [Small(S, n) -> Nat] : \A s \in Small(S, n) : Adds(g, s) }
  <1>1. 0 \in T
    <2>. DEFINE g == [s \in Small(S, 0) |-> 0]
    <2>1. \A s \in Small(S, 0) : s = {}
      BY SmallFacts
    <2>2. g \in [Small(S, 0) -> Nat] /\ \A s \in Small(S, 0) : Adds(g, s)
      BY <2>1 DEF Adds
    <2>. QED  BY <2>2
  <1>2. ASSUME NEW n \in T PROVE n + 1 \in T
    <2>0. n \in Nat
      OBVIOUS
    <2>1. PICK g \in [Small(S, n) -> Nat] : \A s \in Small(S, n) : Adds(g, s)
      OBVIOUS
    <2>. DEFINE h == [s \in Small(S, n + 1) |->
                        IF s = {} THEN 0 ELSE One(s).value + g[s \ {One(s)}]]
    <2>2. \A s \in Small(S, n + 1) : s # {} => One(s) \in s /\ s \subseteq S /\ s \ {One(s)} \in Small(S, n)
      BY <2>0, SmallFacts
    <2>3. h \in [Small(S, n + 1) -> Nat]
      <3>. SUFFICES ASSUME NEW s \in Small(S, n + 1), s # {}
                    PROVE  One(s).value + g[s \ {One(s)}] \in Nat
        OBVIOUS
      <3>1. One(s) \in Event /\ s \ {One(s)} \in Small(S, n)
        BY <2>2
      <3>. QED  BY <3>1, EventFacts
    <2>4. ASSUME NEW s \in Small(S, n) PROVE h[s] = g[s]
      <3>1. s \in Small(S, n + 1)
        BY <2>0, SmallFacts
      <3>. QED  BY <2>1, <3>1 DEF Adds
    <2>5. ASSUME NEW s \in Small(S, n + 1) PROVE Adds(h, s)
      <3>1. s # {} => h[s \ {One(s)}] = g[s \ {One(s)}]
        BY <2>2, <2>4
      <3>2. h[s] = IF s = {} THEN 0 ELSE One(s).value + g[s \ {One(s)}]
        OBVIOUS
      <3>. HIDE DEF h
      <3>. QED  BY <3>1, <3>2 DEF Adds
    <2>. HIDE DEF h
    <2>. QED  BY <2>0, <2>3, <2>5
  <1>3. T = Nat
    <2>1. T \in SUBSET Nat
      OBVIOUS
    <2>. HIDE DEF T
    <2>. QED  BY <1>1, <1>2, <2>1, NaturalsAll
  <1>4. Cardinality(S) \in Nat
    BY FS_CardinalityType
  <1>5. PICK g \in [Small(S, Cardinality(S)) -> Nat] : \A s \in Small(S, Cardinality(S)) : Adds(g, s)
    BY <1>3, <1>4
  <1>6. Small(S, Cardinality(S)) = SUBSET S
    BY FS_Subset DEF Small
  <1>7. g = [s \in SUBSET S |-> IF s = {} THEN 0 ELSE One(s).value + g[s \ {One(s)}]]
    BY <1>5, <1>6 DEF Adds
  <1>. QED  BY <1>7

\* The sum over a set is the value of one of those functions.
LEMMA TotalFold ==
  ASSUME NEW S \in SUBSET Event, IsFiniteSet(S)
  PROVE  \E g : Total(S) = g[S] /\ \A s \in SUBSET S : Adds(g, s)
  <1>. DEFINE Def(g) == g = [s \in SUBSET S |-> IF s = {} THEN 0 ELSE One(s).value + g[s \ {One(s)}]]
              g == CHOOSE f : Def(f)
  <1>1. Total(S) = g[S]
    BY DEF Total, MapThenSumSet, MapThenFoldSet, One
  <1>2. Def(g)
    <2>1. \E f : Def(f)
      BY FoldExists
    <2>. HIDE DEF Def
    <2>. QED  BY <2>1
  <1>. HIDE DEF g
  <1>3. \A s \in SUBSET S : Adds(g, s)
    BY <1>2 DEF Adds
  <1>. QED  BY <1>1, <1>3

\* Two of them agree where both are defined.
LEMMA FoldsAgree ==
  ASSUME NEW S \in SUBSET Event, IsFiniteSet(S), NEW g, \A s \in SUBSET S : Adds(g, s),
         NEW R \in SUBSET Event, NEW h, \A s \in SUBSET R : Adds(h, s), S \subseteq R
  PROVE  g[S] = h[S] /\ g[S] \in Nat
  <1>. DEFINE T == { n \in Nat : \A s \in Small(S, n) : g[s] = h[s] /\ g[s] \in Nat }
  <1>1. 0 \in T
    <2>1. Small(S, 0) = {{}} /\ {} \in SUBSET S /\ {} \in SUBSET R
      BY SmallFacts
    <2>2. Adds(g, {}) /\ Adds(h, {})
      BY <2>1
    <2>3. g[{}] = 0
      BY <2>2 DEF Adds
    <2>4. h[{}] = 0
      BY <2>2 DEF Adds
    <2>5. ASSUME NEW s \in Small(S, 0) PROVE g[s] = h[s] /\ g[s] \in Nat
      <3>1. s = {}
        BY <2>1
      <3>. QED  BY <2>3, <2>4, <3>1
    <2>. QED  BY <2>5
  <1>2. ASSUME NEW n \in T PROVE n + 1 \in T
    <2>0. n \in Nat
      OBVIOUS
    <2>. SUFFICES ASSUME NEW s \in Small(S, n + 1) PROVE g[s] = h[s] /\ g[s] \in Nat
      BY <2>0
    <2>1. s \in SUBSET S /\ s \in SUBSET R /\ Adds(g, s) /\ Adds(h, s)
      BY DEF Small
    <2>2. CASE s = {}
      BY <2>1, <2>2 DEF Adds
    <2>3. CASE s # {}
      <3>1. One(s) \in s /\ s \ {One(s)} \in Small(S, n)
        BY <2>0, <2>3, SmallFacts
      <3>2. One(s).value \in Nat
        BY <2>1, <3>1, EventFacts
      <3>3. g[s \ {One(s)}] = h[s \ {One(s)}] /\ g[s \ {One(s)}] \in Nat
        BY <3>1
      <3>. QED  BY <2>1, <2>3, <3>2, <3>3 DEF Adds
    <2>. QED  BY <2>2, <2>3
  <1>3. T = Nat
    <2>1. T \in SUBSET Nat
      OBVIOUS
    <2>. HIDE DEF T
    <2>. QED  BY <1>1, <1>2, <2>1, NaturalsAll
  <1>4. Cardinality(S) \in Nat /\ S \in Small(S, Cardinality(S))
    BY FS_CardinalityType DEF Small
  <1>. QED  BY <1>3, <1>4

\* The sum, an event at a time: in the order of the library's fold.
LEMMA TotalStep ==
  ASSUME NEW S \in SUBSET Event, IsFiniteSet(S)
  PROVE  /\ Total(S) \in Nat
         /\ S = {} => Total(S) = 0
         /\ S # {} => Total(S) = One(S).value + Total(S \ {One(S)})
  <1>1. PICK g : Total(S) = g[S] /\ \A s \in SUBSET S : Adds(g, s)
    BY TotalFold
  <1>2. Adds(g, S)
    BY <1>1
  <1>3. Total(S) \in Nat
    BY <1>1, FoldsAgree
  <1>4. ASSUME S # {} PROVE Total(S) = One(S).value + Total(S \ {One(S)})
    <2>. DEFINE R == S \ {One(S)}
    <2>1. IsFiniteSet(R) /\ R \in SUBSET Event /\ R \subseteq S
      BY <1>4, OneLess
    <2>2. PICK h : Total(R) = h[R] /\ \A s \in SUBSET R : Adds(h, s)
      BY <2>1, TotalFold
    <2>3. h[R] = g[R]
      BY <1>1, <2>1, <2>2, FoldsAgree
    <2>. QED  BY <1>1, <1>2, <1>4, <2>2, <2>3 DEF Adds
  <1>. QED  BY <1>1, <1>2, <1>3, <1>4 DEF Adds

\* And in any order.
LEMMA TotalAdd ==
  ASSUME NEW S \in SUBSET Event, IsFiniteSet(S), NEW e \in Event, e \notin S
  PROVE  Total(S \cup {e}) = Total(S) + e.value
  <1>. DEFINE P(n) == \A R \in SUBSET Event : \A f \in Event :
                        IsFiniteSet(R) /\ Cardinality(R) = n /\ f \notin R => Total(R \cup {f}) = Total(R) + f.value
              T == { n \in Nat : P(n) }
  <1>0. ASSUME NEW R \in SUBSET Event, IsFiniteSet(R), NEW f \in Event, f \notin R,
               LET x == One(R \cup {f}) IN x # f => Total((R \ {x}) \cup {f}) = Total(R \ {x}) + f.value
                                                    /\ Total((R \ {x}) \cup {x}) = Total(R \ {x}) + x.value
        PROVE  Total(R \cup {f}) = Total(R) + f.value
    <2>. DEFINE Q == R \cup {f}
                x == One(Q)
    <2>1. Q \in SUBSET Event /\ IsFiniteSet(Q) /\ Q # {}
      BY <1>0, FS_AddElement
    <2>2. x \in Q /\ Total(Q) = x.value + Total(Q \ {x})
      <3>. HIDE DEF Q
      <3>. QED  BY <2>1, TotalStep, OneLess
    <2>3. CASE x = f
      <3>1. Q \ {x} = R
        BY <1>0, <2>3
      <3>2. Total(R) \in Nat /\ f.value \in Nat
        BY <1>0, TotalStep, EventFacts
      <3>3. Total(Q) = f.value + Total(R)
        BY <2>2, <2>3, <3>1
      <3>. HIDE DEF Q
      <3>4. Total(Q) = Total(R) + f.value
        BY <3>2, <3>3
      <3>. QED  BY <3>4 DEF Q
    <2>4. CASE x # f
      <3>1. x \in R /\ x \in Event /\ Q \ {x} = (R \ {x}) \cup {f} /\ (R \ {x}) \cup {x} = R
        BY <2>2, <2>4
      <3>2. Total(Q \ {x}) = Total(R \ {x}) + f.value /\ Total(R) = Total(R \ {x}) + x.value
        BY <1>0, <2>4, <3>1
      <3>3. IsFiniteSet(R \ {x})
        BY <1>0, FS_Subset
      <3>4. Total(R \ {x}) \in Nat /\ f.value \in Nat /\ x.value \in Nat
        <4>. HIDE DEF x
        <4>. QED  BY <3>1, <3>3, TotalStep, EventFacts
      <3>. QED  BY <2>2, <3>2, <3>4
    <2>. QED  BY <2>3, <2>4
  <1>1. 0 \in T
    <2>. SUFFICES ASSUME NEW R \in SUBSET Event, NEW f \in Event, IsFiniteSet(R), Cardinality(R) = 0, f \notin R
                  PROVE  Total(R \cup {f}) = Total(R) + f.value
      OBVIOUS
    <2>1. R = {}
      BY FS_EmptySet
    <2>2. One(R \cup {f}) = f
      BY <2>1 DEF One
    <2>. QED  BY <1>0, <2>2
  <1>2. ASSUME NEW n \in T PROVE n + 1 \in T
    <2>. SUFFICES ASSUME NEW R \in SUBSET Event, NEW f \in Event, IsFiniteSet(R), Cardinality(R) = n + 1, f \notin R
                  PROVE  Total(R \cup {f}) = Total(R) + f.value
      OBVIOUS
    <2>. DEFINE x == One(R \cup {f})
    <2>1. ASSUME x # f
          PROVE  Total((R \ {x}) \cup {f}) = Total(R \ {x}) + f.value /\ Total((R \ {x}) \cup {x}) = Total(R \ {x}) + x.value
      <3>1. x \in R
        <4>1. IsFiniteSet(R \cup {f}) /\ R \cup {f} # {}
          BY FS_AddElement
        <4>2. x \in R \cup {f}
          BY <4>1, OneLess
        <4>. QED  BY <2>1, <4>2
      <3>. HIDE DEF x
      <3>2. IsFiniteSet(R \ {x}) /\ Cardinality(R \ {x}) = n
        <4>1. IsFiniteSet(R \ {x}) /\ Cardinality(R \ {x}) = Cardinality(R) - 1
          BY <3>1, FS_RemoveElement
        <4>2. n \in Nat
          OBVIOUS
        <4>. QED  BY <4>1, <4>2
      <3>3. P(n)
        OBVIOUS
      <3>. HIDE DEF T
      <3>4. R \ {x} \in SUBSET Event /\ x \in Event /\ f \notin R \ {x} /\ x \notin R \ {x}
        BY <3>1
      <3>. QED  BY <3>2, <3>3, <3>4
    <2>. QED  BY <1>0, <2>1
  <1>3. T = Nat
    <2>1. T \in SUBSET Nat
      OBVIOUS
    <2>. HIDE DEF T
    <2>. QED  BY <1>1, <1>2, <2>1, NaturalsAll
  <1>4. Cardinality(S) \in T
    BY <1>3, FS_CardinalityType
  <1>. QED  BY <1>4
-----------------------------------------------------------------------------
(* The holdings of ERC-1155 tokens. *)

LEMMA TameFacts ==
  ASSUME NEW i \in Tame
  PROVE  /\ i \in Item1155 /\ i \in Item /\ i \in Uniform /\ Ordered(i)
         /\ \A e \in Event : e.item = i => e.kind \in {"single", "batch"}
         /\ \A e \in Event : e.item = i /\ e.from # Zero => HeldAt(i, e.from, e.num) > 0
         /\ \A e \in Event : e.item = i => e.from # e.to
         /\ \A o \in Holder : Key1155(i, o) \in Key
         /\ Owner \subseteq Holder /\ Zero \in Holder /\ Zero \notin Owner /\ Holder \subseteq Owner \cup {Zero}
  <1>1. /\ i \in Item1155 /\ i \in Item /\ i \in Uniform /\ Ordered(i)
        /\ \A e \in Event : e.item = i /\ e.from # Zero => HeldAt(i, e.from, e.num) > 0
        /\ \A e \in Event : e.item = i => e.from # e.to
    BY ConstantFacts, UniformFacts DEF Tame
  <1>2. \A e \in Event : e.item = i => e.kind \in {"single", "batch"}
    BY <1>1, EventFacts, NftAssumption DEF Item
  <1>. QED  BY <1>1, <1>2, NftAssumption DEF Key1155, Key, Holder

\* What o has been given, and has given away, after block n.
Given(i, o, n) == { e \in EventsOf(i, n) : e.to = o }

GivenAway(i, o, n) == { e \in EventsOf(i, n) : e.from = o }

LEMMA EventSets ==
  ASSUME NEW S \in SUBSET Event
  PROVE  IsFiniteSet(S) /\ Total(S) \in Nat
  <1>1. IsFiniteSet(S)
    BY RoomAssumption, FS_Subset
  <1>. QED  BY <1>1, TotalStep

LEMMA HeldDef ==
  ASSUME NEW i, NEW o, NEW n
  PROVE  /\ HeldAt(i, o, n) = Total(Given(i, o, n)) - Total(GivenAway(i, o, n))
         /\ Total(Given(i, o, n)) \in Nat /\ Total(GivenAway(i, o, n)) \in Nat /\ HeldAt(i, o, n) \in Int
  <1>1. Given(i, o, n) \in SUBSET Event /\ GivenAway(i, o, n) \in SUBSET Event
    BY DEF Given, GivenAway, EventsOf
  <1>2. Total(Given(i, o, n)) \in Nat /\ Total(GivenAway(i, o, n)) \in Nat
    BY <1>1, EventSets
  <1>3. HeldAt(i, o, n) = Total(Given(i, o, n)) - Total(GivenAway(i, o, n))
    BY DEF HeldAt, Given, GivenAway
  <1>. QED  BY <1>2, <1>3

LEMMA HeldSame ==
  ASSUME NEW i, NEW m, NEW n, EventsOf(i, m) = EventsOf(i, n)
  PROVE  \A o : HeldAt(i, o, m) = HeldAt(i, o, n)
  BY DEF HeldAt

\* An event adds to one holding and takes from another.
LEMMA HeldEvent ==
  ASSUME NEW e \in Event, Ordered(e.item), NEW o
  PROVE  HeldAt(e.item, o, e.num) = HeldAt(e.item, o, e.num - 1)
                                    + (IF e.to = o THEN e.value ELSE 0) - (IF e.from = o THEN e.value ELSE 0)
  <1>. DEFINE i == e.item
              n == e.num - 1
              G == Given(i, o, n)
              A == GivenAway(i, o, n)
  <1>0. \A f \in Event : f.num \in Int /\ f.value \in Nat
    BY EventFacts
  <1>1. e \notin EventsOf(i, n) /\ EventsOf(i, e.num) = EventsOf(i, n) \cup {e}
    <2>1. \A f \in Event : f.item = i => (f.num <= e.num <=> f.num <= n \/ f = e)
      BY <1>0 DEF Ordered
    <2>. QED  BY <1>0, <2>1 DEF EventsOf
  <1>2. /\ Given(i, o, e.num) = IF e.to = o THEN G \cup {e} ELSE G
        /\ GivenAway(i, o, e.num) = IF e.from = o THEN A \cup {e} ELSE A
        /\ e \notin G /\ e \notin A
    BY <1>1 DEF Given, GivenAway
  <1>3. G \in SUBSET Event /\ A \in SUBSET Event
    BY DEF Given, GivenAway, EventsOf
  <1>. HIDE DEF G, A
  <1>4. Total(G \cup {e}) = Total(G) + e.value /\ Total(A \cup {e}) = Total(A) + e.value
    BY <1>2, <1>3, EventSets, TotalAdd
  <1>5. Total(G) \in Nat /\ Total(A) \in Nat /\ e.value \in Nat
    BY <1>0, <1>3, EventSets
  <1>6. HeldAt(i, o, n) = Total(G) - Total(A)
    BY HeldDef DEF G, A
  <1>7. Total(Given(i, o, e.num)) = IF e.to = o THEN Total(G) + e.value ELSE Total(G)
    BY <1>2, <1>4
  <1>8. Total(GivenAway(i, o, e.num)) = IF e.from = o THEN Total(A) + e.value ELSE Total(A)
    BY <1>2, <1>4
  <1>9. HeldAt(i, o, e.num) = Total(Given(i, o, e.num)) - Total(GivenAway(i, o, e.num))
    BY HeldDef
  <1>. QED  BY <1>5, <1>6, <1>7, <1>8, <1>9

\* A mint of a tame token finds nothing.
LEMMA BeforeMint ==
  ASSUME NEW e \in Event, e.item \in Tame, e.from = Zero
  PROVE  HeldAt(e.item, e.to, e.num - 1) <= 0
  <1>1. \A f \in EventsOf(e.item, e.num) : f.to = e.to => f = e
    BY DEF Tame, MintsOf
  <1>2. Given(e.item, e.to, e.num - 1) = {}
    <2>1. e.num \in Int /\ \A f \in Event : f.num \in Int
      BY EventFacts
    <2>. QED  BY <1>1, <2>1 DEF Given, EventsOf
  <1>3. Total({}) = 0
    BY FS_EmptySet, TotalStep
  <1>. QED  BY <1>2, <1>3, HeldDef

\* Before the first block there is nothing.
LEMMA HeldAtFirst ==
  ASSUME NEW i, NEW o, NEW n \in Int, n < 1
  PROVE  HeldAt(i, o, n) = 0
  <1>1. \A f \in Event : f.num \in Int /\ f.num >= 1
    BY EventFacts, ConstantFacts
  <1>2. Given(i, o, n) = {} /\ GivenAway(i, o, n) = {}
    BY <1>1 DEF Given, GivenAway, EventsOf
  <1>3. Total({}) = 0
    BY FS_EmptySet, TotalStep
  <1>. QED  BY <1>2, <1>3, HeldDef
-----------------------------------------------------------------------------
(* What the cache and the rows of a tame token are. *)

\* The block token i has come to: that of its last event handled in this round.
Come(i, m) == Reached(i, m) /\ (m = head \/ (Active /\ \E e \in done : e.item = i /\ e.num = m))

\* What the process takes o to hold: from the cache, if it is there.
Current(i, o) ==
  LET k == Key1155(i, o)
  IN IF Pending(k) THEN updated[k].value
     ELSE IF IsMinted(k) /\ pc # "update" THEN minted[k].value ELSE row[i][o].value

\* No token of a tame item changes hands as a whole; the cache is empty between rounds.
Names(i, o) ==
  LET k == Key1155(i, o)
  IN /\ IsMinted(k) => minted[k].owner = o
     /\ IsUpdated(k) => updated[k].owner = o /\ updated[k].origin = o
     /\ ~ Active => ~ IsMinted(k) /\ ~ IsUpdated(k)

\* A holding is in one place of the cache at most, and never empty.
Entries(i, o) ==
  LET k == Key1155(i, o)
  IN /\ IsMinted(k) => ~ IsUpdated(k) /\ minted[k].value > 0 /\ minted[k].num <= endNum
     /\ IsMinted(k) /\ pc # "update" => ~ Stored(i, o)
     /\ Pending(k) => Stored(i, o) /\ updated[k].value > 0 /\ updated[k].num <= endNum
     /\ ~ IsMinted(k) => minted[k].value = 0
     /\ Stored(i, o) => row[i][o].value > 0 /\ row[i][o].num <= (IF pc = "update" THEN endNum ELSE head)
     /\ ~ Stored(i, o) => row[i][o].value = 0

HoldHere(i) ==
  /\ \A o \in Holder : Names(i, o)
  /\ \A o \in Owner : Entries(i, o)
  /\ pc # "update" => \A o \in Owner : row[i][o].value = HeldAt(i, o, head)
  /\ \E m \in Int : Come(i, m) /\ \A o \in Owner : Current(i, o) = HeldAt(i, o, m)

\* While nothing is missing and every round is read and saved once, cache and rows together hold what the
\* events handled so far give, and the rows alone what the head gives, until they are saved.
HoldInv == NoGap /\ ReadOnce => \A i \in Tame : HoldHere(i)

LEMMA TableTypes ==
  ASSUME TypeOK
  PROVE  /\ minted \in [Key -> MintDoc] /\ updated \in [Key -> UpdateDoc] /\ row \in [Item -> [Holder -> RowDoc]]
         /\ \A k \in Key : minted[k] \in MintDoc /\ updated[k] \in UpdateDoc
                           /\ minted[k].value \in Nat /\ updated[k].value \in Nat
                           /\ minted[k].num \in Int /\ updated[k].num \in Int
         /\ \A i \in Item : \A o \in Holder : row[i][o] \in RowDoc /\ row[i][o].value \in Nat /\ row[i][o].num \in Int
  <1>1. minted \in [Key -> MintDoc] /\ updated \in [Key -> UpdateDoc] /\ row \in [Item -> [Holder -> RowDoc]]
    BY DEF TypeOK, MintDoc, UpdateDoc, RowDoc
  <1>2. -1..MaxBlock \subseteq Int
    BY ConstantFacts
  <1>. QED  BY <1>1, <1>2 DEF MintDoc, UpdateDoc, RowDoc

\* Reading once excludes the steps that break a round off while the cache stays.
LEMMA ReadOnceBefore ==
  ASSUME TypeOK, [Next]_vars, ReadOnce'
  PROVE  /\ ReadOnce /\ ~ InsertRefused /\ ~ CallFails /\ (Crash => pc \notin {"insert", "update"})
         /\ (\A k \in Key : ~ SaveSwallowed(k)) /\ (\A e \in Event : ~ NotEnoughBalance(e))
  <1>. USE DEF ReadOnce, NothingFails, NoCallFailed, table, cache, control
  <1>1. spent \in [Mishap -> Nat] /\ {"swallow", "saveError", "refused", "short", "saveCrash", "error", "crash"} \subseteq Mishap
    BY DEF TypeOK, Mishap, FaultKind
  <1>2. \A k \in Mishap : spent[k] \in Nat
    BY <1>1
  <1>3. ASSUME NEW k \in Key PROVE ~ SaveSwallowed(k)
    <2>. SUFFICES ASSUME SaveSwallowed(k) PROVE FALSE
      OBVIOUS
    <2>1. spent'["swallow"] = spent["swallow"] + 1
      BY <1>1 DEF SaveSwallowed, Spend
    <2>. QED  BY <1>1, <1>2, <2>1
  <1>4. ~ InsertRefused
    BY <1>1 DEF InsertRefused
  <1>5. ~ CallFails
    <2>. SUFFICES ASSUME CallFails PROVE FALSE
      OBVIOUS
    <2>1. \E k \in {"error", "saveError"} : spent' = [spent EXCEPT ![k] = @ + 1]
      BY DEF CallFails, Spend
    <2>2. \E k \in {"error", "saveError"} : spent'[k] = spent[k] + 1
      BY <1>1, <2>1
    <2>. QED  BY <1>1, <1>2, <2>2
  <1>6. ASSUME Crash PROVE ReadOnce /\ pc \notin {"insert", "update"}
    <2>1. CASE pc \in {"insert", "update"}
      <3>1. spent'["saveCrash"] = spent["saveCrash"] + 1
        BY <1>1, <1>6, <2>1 DEF Crash, Spend
      <3>. QED  BY <1>1, <1>2, <3>1
    <2>2. CASE pc \notin {"insert", "update"}
      <3>1. spent' = [spent EXCEPT !["crash"] = @ + 1]
        BY <1>6, <2>2 DEF Crash, Spend
      <3>. QED  BY <1>1, <2>2, <3>1
    <2>. QED  BY <2>1, <2>2
  <1>7. ASSUME NEW e \in Event PROVE ~ NotEnoughBalance(e)
    BY <1>1 DEF NotEnoughBalance
  <1>8. ASSUME NEW e \in Event, Scan(e) PROVE ReadOnce
    <2>1. spent' = spent
      BY <1>7, <1>8 DEF Scan, TransferContract, Mint721, Transfer721, Mint1155, HandOver, SplitMinted,
         UnknownSender, GiveAll, Split, Handled
    <2>. QED  BY <1>1, <2>1
  <1>9. ASSUME \/ Start \/ BeginRound \/ NothingToDo \/ NextKind \/ InsertMinted \/ UpdateHead
               \/ EmptyEndBlock \/ PosImport \/ UNCHANGED vars \/ \E k \in Key : SaveRow(k)
        PROVE  ReadOnce
    <2>1. spent' = spent
      BY <1>9 DEF Start, BeginRound, NothingToDo, NextKind, InsertMinted, UpdateHead,
         EmptyEndBlock, PosImport, vars, SaveRow
    <2>. QED  BY <2>1, <1>1
  <1>10. ReadOnce
    BY <1>3, <1>4, <1>5, <1>6, <1>8, <1>9 DEF Next, Program, Save, Fault
  <1>. QED  BY <1>3, <1>4, <1>5, <1>6, <1>7, <1>10
-----------------------------------------------------------------------------
(* An event of a tame token. *)

\* What a step that handles an event leaves alone.
Scanning == /\ pc = "scan" /\ head < endNum
            /\ UNCHANGED <<row, pc, head, endNum>>

LEMMA DocHeld ==
  ASSUME TypeOK, pc = "scan", head < endNum, NEW i \in Tame, HoldHere(i), NEW o \in Owner
  PROVE  /\ Known(i, o) => /\ Doc(i, o).owner = o /\ Doc(i, o).origin = o /\ Doc(i, o).value = Current(i, o)
                           /\ Current(i, o) > 0 /\ Doc(i, o).num <= endNum /\ Doc(i, o).num # -1
                           /\ Stored(i, o) /\ ~ IsMinted(Key1155(i, o))
         /\ ~ Known(i, o) /\ ~ IsMinted(Key1155(i, o)) => Current(i, o) = 0
         /\ IsMinted(Key1155(i, o)) => Current(i, o) = minted[Key1155(i, o)].value /\ Current(i, o) > 0
         /\ Current(i, o) \in Nat
  <1>. DEFINE k == Key1155(i, o)
  <1>0. i \in Item /\ o \in Holder /\ k \in Key /\ head \in Int /\ endNum \in Int
    BY TameFacts, Numbers DEF NumFacts
  <1>1. Names(i, o) /\ Entries(i, o)
    BY <1>0 DEF HoldHere
  <1>2. row[i][o].value \in Nat /\ row[i][o].num \in Int /\ minted[k].value \in Nat /\ updated[k].value \in Nat
    BY <1>0, TableTypes
  <1>3. CASE IsUpdated(k)
    <2>1. Pending(k) /\ Doc(i, o) = updated[k]
      BY <1>3 DEF Pending, Doc
    <2>. QED  BY <1>1, <1>2, <1>3, <2>1 DEF Names, Entries, Known, Current, IsUpdated
  <1>4. CASE ~ IsUpdated(k)
    <2>1. ~ Pending(k) /\ Doc(i, o) = Load(i, o)
      BY <1>4 DEF Pending, Doc
    <2>2. Current(i, o) = IF IsMinted(k) THEN minted[k].value ELSE row[i][o].value
      BY <2>1 DEF Current
    <2>3. Load(i, o).owner = o /\ Load(i, o).origin = o /\ Load(i, o).value = row[i][o].value
          /\ Load(i, o).num = row[i][o].num
      BY DEF Load
    <2>4. Stored(i, o) => row[i][o].num <= endNum /\ row[i][o].value > 0 /\ row[i][o].num # -1 /\ ~ IsMinted(k)
      BY <1>0, <1>1, <1>2 DEF Entries, Stored
    <2>5. ~ Stored(i, o) => row[i][o].value = 0
      BY <1>1 DEF Entries
    <2>6. Known(i, o) <=> Stored(i, o)
      BY <1>4 DEF Known
    <2>7. IsMinted(k) => minted[k].value > 0
      BY <1>1 DEF Entries
    <2>. QED  BY <1>2, <2>1, <2>2, <2>3, <2>4, <2>5, <2>6, <2>7
  <1>. QED  BY <1>3, <1>4

\* Somebody whom the event does not concern.
LEMMA KeySame ==
  ASSUME Scanning, NEW i, NEW o, minted'[Key1155(i, o)] = minted[Key1155(i, o)],
         updated'[Key1155(i, o)] = updated[Key1155(i, o)]
  PROVE  /\ Names(i, o) => Names(i, o)'
         /\ Entries(i, o) => Entries(i, o)'
         /\ Current(i, o)' = Current(i, o)
  <1>. DEFINE k == Key1155(i, o)
  <1>1. (IsMinted(k)' <=> IsMinted(k)) /\ (IsUpdated(k)' <=> IsUpdated(k)) /\ (Stored(i, o)' <=> Stored(i, o))
    BY DEF Scanning, IsMinted, IsUpdated, Stored
  <1>2. (Pending(k)' <=> Pending(k)) /\ (Active' <=> Active)
    BY <1>1 DEF Scanning, Pending, Active
  <1>3. Names(i, o) => Names(i, o)'
    BY <1>1, <1>2 DEF Names
  <1>4. Entries(i, o) => Entries(i, o)'
    BY <1>1, <1>2 DEF Entries, Scanning
  <1>5. Current(i, o)' = Current(i, o)
    BY <1>1, <1>2 DEF Current, Scanning
  <1>. QED  BY <1>3, <1>4, <1>5

\* The receiver.
LEMMA Received ==
  ASSUME TypeOK, NEW e \in Event, e.item \in Tame, HoldHere(e.item), Scanning,
         NEW n \in -1..MaxBlock, n # -1, n <= endNum,
         minted'[Key1155(e.item, e.to)] = ReceiveMinted(e, n)[Key1155(e.item, e.to)],
         updated'[Key1155(e.item, e.to)] = ReceiveUpdated(e)[Key1155(e.item, e.to)]
  PROVE  /\ Names(e.item, e.to)'
         /\ e.to \in Owner /\ Current(e.item, e.to) + e.value <= MaxValue =>
              Entries(e.item, e.to)' /\ Current(e.item, e.to)' = Current(e.item, e.to) + e.value
  <1>. DEFINE i == e.item
              o == e.to
              k == Key1155(i, o)
  <1>0. /\ i \in Tame /\ i \in Item /\ o \in Holder /\ k \in Key /\ head \in Int /\ endNum \in Int /\ n \in Int
        /\ e.value \in Nat /\ e.value # 0 /\ MaxValue \in Nat /\ pc = "scan"
    BY TameFacts, EventFacts, Numbers, ConstantFacts DEF NumFacts, Scanning
  <1>1. /\ minted \in [Key -> MintDoc] /\ updated \in [Key -> UpdateDoc] /\ minted[k].value \in Nat
        /\ Doc(i, o) \in UpdateDoc
    BY <1>0, TableTypes, DocFact
  <1>2. Names(i, o)
    BY <1>0 DEF HoldHere
  <1>3. (Stored(i, o)' <=> Stored(i, o)) /\ Active /\ Active'
    BY DEF Scanning, Stored, Active
  <1>4. CASE Stored(i, o)
    <2>1. minted'[k] = minted[k] /\ updated'[k] = [Doc(i, o) EXCEPT !.value = Plus(@, e.value)]
      BY <1>0, <1>1, <1>4 DEF ReceiveMinted, ReceiveUpdated, Set
    <2>2. /\ updated'[k].owner = Doc(i, o).owner /\ updated'[k].origin = Doc(i, o).origin
          /\ updated'[k].num = Doc(i, o).num /\ updated'[k].value = Plus(Doc(i, o).value, e.value)
      BY <1>1, <2>1 DEF UpdateDoc
    <2>3. Doc(i, o).owner = o /\ Doc(i, o).origin = o
      BY <1>2 DEF Names, Doc, Load
    <2>4. Names(i, o)'
      BY <1>2, <1>3, <2>1, <2>2, <2>3 DEF Names, IsMinted, IsUpdated
    <2>5. ASSUME o \in Owner, Current(i, o) + e.value <= MaxValue
          PROVE  Entries(i, o)' /\ Current(i, o)' = Current(i, o) + e.value
      <3>1. Entries(i, o) /\ Known(i, o)
        BY <1>0, <1>4, <2>5 DEF HoldHere, Known
      <3>2. /\ Doc(i, o).value = Current(i, o) /\ Doc(i, o).num <= endNum /\ Doc(i, o).num # -1 /\ Current(i, o) \in Nat
            /\ ~ IsMinted(k)
        BY <1>0, <2>5, <3>1, DocHeld DEF Scanning
      <3>3. updated'[k].value = Current(i, o) + e.value /\ updated'[k].num <= endNum /\ updated'[k].num # -1
        BY <1>0, <2>2, <2>5, <3>2 DEF Plus
      <3>4. IsUpdated(k)' /\ Pending(k)' /\ ~ IsMinted(k)'
        BY <1>0, <2>1, <3>2, <3>3 DEF IsUpdated, Pending, IsMinted, Scanning
      <3>5. Current(i, o)' = Current(i, o) + e.value
        BY <3>3, <3>4 DEF Current
      <3>6. Entries(i, o)'
        <4>1. minted'[k].value = 0
          BY <2>1, <3>1, <3>2 DEF Entries
        <4>2. Stored(i, o)' /\ row' = row /\ head' = head /\ endNum' = endNum /\ pc' = pc
          BY <1>3, <1>4 DEF Scanning
        <4>3. row[i][o].value > 0 /\ row[i][o].num <= head
          BY <1>0, <1>4, <3>1 DEF Entries
        <4>4. updated'[k].value > 0
          BY <1>0, <3>2, <3>3
        <4>. QED  BY <1>0, <3>3, <3>4, <4>1, <4>2, <4>3, <4>4 DEF Entries
      <3>. QED  BY <3>5, <3>6
    <2>. QED  BY <2>4, <2>5
  <1>5. CASE ~ Stored(i, o)
    <2>1. /\ updated'[k] = updated[k]
          /\ minted'[k] = [owner |-> o, value |-> Plus(minted[k].value, e.value), num |-> n]
      BY <1>0, <1>1, <1>5 DEF ReceiveMinted, ReceiveUpdated, Set
    <2>2. minted'[k].owner = o /\ minted'[k].value = Plus(minted[k].value, e.value) /\ minted'[k].num = n
      BY <2>1
    <2>3. Names(i, o)'
      BY <1>2, <1>3, <2>1, <2>2 DEF Names, IsUpdated
    <2>4. ASSUME o \in Owner, Current(i, o) + e.value <= MaxValue
          PROVE  Entries(i, o)' /\ Current(i, o)' = Current(i, o) + e.value
      <3>1. Entries(i, o)
        BY <1>0, <2>4 DEF HoldHere
      <3>2. ~ IsUpdated(k) /\ ~ Pending(k)
        BY <1>0, <1>5, <3>1 DEF Entries, Pending
      <3>3. Current(i, o) = minted[k].value
        BY <1>0, <1>5, <3>1, <3>2 DEF Current, Entries
      <3>4. minted'[k].value = Current(i, o) + e.value /\ minted'[k].value > 0
        BY <1>0, <1>1, <2>2, <2>4, <3>3 DEF Plus
      <3>5. IsMinted(k)' /\ ~ IsUpdated(k)' /\ ~ Pending(k)'
        BY <2>1, <2>2, <3>2 DEF IsMinted, IsUpdated, Pending
      <3>6. ~ Stored(i, o)' /\ row' = row /\ head' = head /\ endNum' = endNum /\ pc' = pc
        BY <1>3, <1>5 DEF Scanning
      <3>7. row[i][o].value = 0
        BY <1>5, <3>1 DEF Entries
      <3>8. Current(i, o)' = Current(i, o) + e.value
        BY <1>0, <3>4, <3>5, <3>6 DEF Current
      <3>9. Entries(i, o)'
        BY <1>0, <2>2, <3>4, <3>5, <3>6, <3>7 DEF Entries
      <3>. QED  BY <3>8, <3>9
    <2>. QED  BY <2>3, <2>4
  <1>. QED  BY <1>4, <1>5

\* The sender keeps a part, in the cache entry it had or in a document loaded from its row.
LEMMA Sent ==
  ASSUME TypeOK, NEW e \in Event, e.item \in Tame, HoldHere(e.item), Scanning, e.from \in Owner,
         Current(e.item, e.from) > e.value, NEW k, k = Key1155(e.item, e.from),
         \/ /\ IsMinted(k)
            /\ minted'[k] = [minted[k] EXCEPT !.value = @ - e.value] /\ updated'[k] = updated[k]
         \/ /\ ~ IsMinted(k) /\ Known(e.item, e.from)
            /\ updated'[k] = [Doc(e.item, e.from) EXCEPT !.value = @ - e.value] /\ minted'[k] = minted[k]
  PROVE  /\ Names(e.item, e.from)' /\ Entries(e.item, e.from)'
         /\ Current(e.item, e.from)' = Current(e.item, e.from) - e.value
  <1>. DEFINE i == e.item
              o == e.from
  <1>0. /\ i \in Tame /\ i \in Item /\ o \in Holder /\ k \in Key /\ head \in Int /\ endNum \in Int
        /\ e.value \in Nat /\ e.value # 0 /\ pc = "scan" /\ pc' = "scan"
    BY TameFacts, EventFacts, Numbers DEF NumFacts, Scanning
  <1>1. /\ minted[k] \in MintDoc /\ updated[k] \in UpdateDoc /\ minted[k].value \in Nat
        /\ Doc(i, o) \in UpdateDoc
    BY <1>0, TableTypes, DocFact
  <1>2. Names(i, o) /\ Entries(i, o)
    BY <1>0 DEF HoldHere
  <1>3. (Stored(i, o)' <=> Stored(i, o)) /\ Active /\ Active' /\ row' = row /\ head' = head /\ endNum' = endNum
    BY DEF Scanning, Stored, Active
  <1>4. Current(i, o) \in Nat
    BY <1>0, DocHeld DEF Scanning
  <1>5. CASE IsMinted(k)
    <2>1. /\ minted'[k].owner = minted[k].owner /\ minted'[k].num = minted[k].num
          /\ minted'[k].value = minted[k].value - e.value /\ updated'[k] = updated[k]
      BY <1>1, <1>5 DEF MintDoc
    <2>2. Current(i, o) = minted[k].value
      BY <1>0, <1>5, DocHeld DEF Scanning
    <2>3. IsMinted(k)' /\ ~ IsUpdated(k)' /\ ~ IsUpdated(k) /\ ~ Pending(k)'
      BY <1>2, <1>5, <2>1 DEF Entries, IsMinted, IsUpdated, Pending
    <2>4. Names(i, o)'
      BY <1>2, <1>3, <1>5, <2>1, <2>3 DEF Names
    <2>5. minted'[k].value > 0
      BY <1>0, <1>1, <2>1, <2>2
    <2>6. Entries(i, o)'
      BY <1>0, <1>2, <1>3, <1>5, <2>1, <2>3, <2>5 DEF Entries
    <2>7. Current(i, o)' = Current(i, o) - e.value
      BY <1>0, <2>1, <2>2, <2>3 DEF Current
    <2>. QED  BY <2>4, <2>6, <2>7
  <1>6. CASE ~ IsMinted(k)
    <2>1. /\ updated'[k].owner = Doc(i, o).owner /\ updated'[k].origin = Doc(i, o).origin
          /\ updated'[k].num = Doc(i, o).num /\ updated'[k].value = Doc(i, o).value - e.value
          /\ minted'[k] = minted[k] /\ Known(i, o)
      BY <1>1, <1>6 DEF UpdateDoc
    <2>2. /\ Doc(i, o).owner = o /\ Doc(i, o).origin = o /\ Doc(i, o).value = Current(i, o)
          /\ Doc(i, o).num <= endNum /\ Doc(i, o).num # -1 /\ Stored(i, o)
      BY <1>0, <2>1, DocHeld DEF Scanning
    <2>3. ~ IsMinted(k)' /\ IsUpdated(k)' /\ Pending(k)'
      BY <1>0, <1>6, <2>1, <2>2 DEF IsMinted, IsUpdated, Pending
    <2>4. Names(i, o)'
      BY <1>3, <2>1, <2>2, <2>3 DEF Names
    <2>5. updated'[k].value = Current(i, o) - e.value /\ updated'[k].value > 0
      BY <1>0, <1>4, <2>1, <2>2
    <2>6. Current(i, o)' = Current(i, o) - e.value
      BY <2>3, <2>5 DEF Current
    <2>7. row[i][o].value > 0 /\ row[i][o].num <= head /\ minted[k].value = 0
      BY <1>0, <1>2, <1>6, <2>2 DEF Entries
    <2>8. Entries(i, o)'
      BY <1>0, <1>3, <2>1, <2>2, <2>3, <2>5, <2>7 DEF Entries
    <2>. QED  BY <2>4, <2>6, <2>8
  <1>. QED  BY <1>5, <1>6

\* Before an event of token i, it is right before it; the event's sum fits.
LEMMA EventDue ==
  ASSUME TypeOK, ScanInv, NoGap, NEW e \in Event, e.item \in Tame, Due(e), Handled(e), NEW m \in Int, Come(e.item, m)
  PROVE  /\ EventsOf(e.item, m) = EventsOf(e.item, e.num - 1)
         /\ Come(e.item, e.num)' /\ e.num \in Int
         /\ \A o \in Owner : HeldAt(e.item, o, e.num) <= MaxValue
  <1>0. /\ NumFacts /\ pc = "scan" /\ InRound(e) /\ e \notin done /\ done \subseteq Event
        /\ UNCHANGED <<head, pc, endNum>> /\ done' = done \cup {e} /\ Active /\ Active'
        /\ e.item \in Uniform /\ Ordered(e.item)
    BY Numbers, TameFacts DEF Due, Handled, TypeOK, Active
  <1>1. \A f \in done : f.item = e.item => f.num <= e.num
    BY <1>0, DueEvent
  <1>2. m < e.num
    <2>1. \A f \in done : f.item = e.item => f.num # e.num
      BY <1>0 DEF Ordered
    <2>2. head < e.num
      BY <1>0 DEF InRound
    <2>. QED  BY <1>0, <1>1, <2>1, <2>2 DEF Come, NumFacts
  <1>3. EventsOf(e.item, m) = EventsOf(e.item, e.num - 1)
    BY <1>0, <1>2, DueEvent DEF Come
  <1>4. Come(e.item, e.num)'
    <2>1. Reached(e.item, e.num)'
      BY <1>0, ReachEvent
    <2>. QED  BY <1>0, <2>1 DEF Come
  <1>5. \A o \in Owner : HeldAt(e.item, o, e.num) <= MaxValue
    <2>1. e.num \in Block
      BY EventFacts, ConstantFacts
    <2>. QED  BY <2>1, RoomAssumption
  <1>. QED  BY <1>0, <1>3, <1>4, <1>5 DEF NumFacts

LEMMA HoldEvent ==
  ASSUME TypeOK, ScanInv, NoGap, NEW e \in Event, Scan(e), ~ NotEnoughBalance(e), e.item \in Tame, HoldHere(e.item)
  PROVE  HoldHere(e.item)'
  <1>. USE DEF table, cache
  <1>. DEFINE i == e.item
              kf == Key1155(i, e.from)
              kt == Key1155(i, e.to)
              Change(o) == (IF e.to = o THEN e.value ELSE 0) - (IF e.from = o THEN e.value ELSE 0)
  <1>0. /\ i \in Item1155 /\ i \in Item /\ i \in Uniform /\ Ordered(i) /\ e.kind \in {"single", "batch"}
        /\ e.value \in Nat /\ e.value # 0 /\ e.num \in -1..MaxBlock /\ e.num # -1
        /\ e.from \in Holder /\ e.to \in Holder /\ e.from # e.to
        /\ Zero \notin Owner /\ Owner \subseteq Holder /\ Holder \subseteq Owner \cup {Zero}
        /\ \A o \in Holder : Key1155(i, o) \in Key
    BY TameFacts, EventFacts
  <1>1. /\ Mint1155(e) \/ HandOver(e) \/ SplitMinted(e) \/ UnknownSender(e) \/ GiveAll(e) \/ Split(e)
        /\ Due(e) /\ Handled(e) /\ row' = row
    BY <1>0, ScanType DEF Scan, TransferContract, Mint721, Transfer721, Mint1155, HandOver, SplitMinted,
         UnknownSender, GiveAll, Split, Transferring
  <1>2. /\ Scanning /\ Active /\ Active' /\ e.num <= endNum /\ head \in Int /\ endNum \in Int
    BY <1>1, Numbers DEF Due, Handled, Scanning, Active, ScanInv, InRound, NumFacts
  <1>3. PICK m \in Int : Come(i, m) /\ \A o \in Owner : Current(i, o) = HeldAt(i, o, m)
    BY DEF HoldHere
  <1>4. /\ EventsOf(i, m) = EventsOf(i, e.num - 1) /\ Come(i, e.num)' /\ e.num \in Int
        /\ \A o \in Owner : HeldAt(i, o, e.num) <= MaxValue
    BY <1>1, <1>3, EventDue
  <1>5. ASSUME NEW o \in Owner
        PROVE  /\ HeldAt(i, o, e.num) = Current(i, o) + Change(o) /\ HeldAt(i, o, e.num) <= MaxValue
               /\ Current(i, o) \in Nat
    <2>1. HeldAt(i, o, e.num - 1) = Current(i, o)
      BY <1>3, <1>4, HeldSame
    <2>2. HeldAt(i, o, e.num) = HeldAt(i, o, e.num - 1)
                                + (IF e.to = o THEN e.value ELSE 0) - (IF e.from = o THEN e.value ELSE 0)
      BY <1>0, HeldEvent
    <2>3. Current(i, o) \in Nat
      BY <1>2, DocHeld DEF Scanning
    <2>. QED  BY <1>0, <1>4, <2>1, <2>2, <2>3
  <1>6. e.to \in Owner => Current(i, e.to) + e.value <= MaxValue
    BY <1>0, <1>5
  <1>7. e.from \in Owner => Current(i, e.from) > e.value
    <2>1. ASSUME e.from \in Owner PROVE HeldAt(i, e.from, e.num) > 0
      BY <1>0, <2>1, TameFacts
    <2>. QED  BY <1>0, <1>5, <2>1
  <1>8. /\ minted \in [Key -> MintDoc] /\ updated \in [Key -> UpdateDoc] /\ kt \in Key /\ kf \in Key /\ kt # kf
        /\ \A o \in Holder : o # e.to => Key1155(i, o) # kt
        /\ \A o \in Holder : o # e.from => Key1155(i, o) # kf
    BY <1>0, TableTypes DEF Key1155
  <1>. HIDE DEF Change
  <1>9. ASSUME \A o \in Holder : Names(i, o)',
               \A o \in Owner : Entries(i, o)' /\ Current(i, o)' = Current(i, o) + Change(o)
        PROVE  HoldHere(i)'
    <2>1. pc' = "scan" /\ head' = head /\ row' = row
      BY <1>2 DEF Scanning
    <2>2. \A o \in Owner : row[i][o].value = HeldAt(i, o, head)
      BY <1>2 DEF HoldHere, Scanning
    <2>3. \A o \in Owner : row'[i][o].value = HeldAt(i, o, head')
      BY <2>1, <2>2
    <2>4. \A o \in Owner : Current(i, o)' = HeldAt(i, o, e.num)
      BY <1>5, <1>9
    <2>5. PICK n \in Int : n = e.num
      BY <1>4
    <2>6. Come(i, n)' /\ \A o \in Owner : Current(i, o)' = HeldAt(i, o, n)
      BY <1>4, <2>4, <2>5
    <2>. QED  BY <1>9, <2>3, <2>6 DEF HoldHere
  <1>10. ASSUME NEW o \in Holder, o # e.to, minted'[Key1155(i, o)] = minted[Key1155(i, o)],
                updated'[Key1155(i, o)] = updated[Key1155(i, o)], o # e.from \/ o = Zero
         PROVE  /\ Names(i, o)'
                /\ o \in Owner => Entries(i, o)' /\ Current(i, o)' = Current(i, o) + Change(o)
    <2>1. Names(i, o) /\ (o \in Owner => Entries(i, o))
      BY <1>0 DEF HoldHere
    <2>2. Names(i, o)' /\ (o \in Owner => Entries(i, o)') /\ Current(i, o)' = Current(i, o)
      BY <1>2, <1>10, <2>1, KeySame
    <2>3. o \in Owner => Change(o) = 0 /\ Current(i, o) \in Nat
      BY <1>0, <1>5, <1>10 DEF Change
    <2>. QED  BY <2>2, <2>3
  <1>11. CASE Mint1155(e)
    <2>1. e.from = Zero /\ e.to \in Owner
      BY <1>0, <1>11 DEF Mint1155
    <2>2. Current(i, e.to) = 0
      <3>1. HeldAt(i, e.to, e.num - 1) <= 0
        BY <2>1, BeforeMint
      <3>2. HeldAt(i, e.to, e.num - 1) = Current(i, e.to)
        BY <1>3, <1>4, <2>1, HeldSame
      <3>. QED  BY <1>5, <2>1, <3>1, <3>2
    <2>3. ~ Known(i, e.to) /\ ~ IsMinted(kt)
      BY <1>2, <2>1, <2>2, DocHeld DEF Scanning
    <2>4. ~ Stored(i, e.to) /\ minted[kt].value = 0
      BY <2>1, <2>3 DEF Known, HoldHere, Entries
    <2>5. /\ minted' = Set(minted, kt, [owner |-> e.to, value |-> e.value, num |-> e.num]) /\ updated' = updated
      BY <1>11, <2>3, <2>4 DEF Mint1155
    <2>6. e.value <= MaxValue
      BY <1>0, <1>6, <2>1, <2>2
    <2>7. Plus(0, e.value) = e.value
      BY <1>0, <2>6, ConstantFacts DEF Plus
    <2>8. minted'[kt] = ReceiveMinted(e, e.num)[kt] /\ updated'[kt] = ReceiveUpdated(e)[kt]
      BY <1>8, <2>4, <2>5, <2>7 DEF ReceiveMinted, ReceiveUpdated, Set
    <2>9. Names(i, e.to)' /\ Entries(i, e.to)' /\ Current(i, e.to)' = Current(i, e.to) + e.value
      BY <1>0, <1>2, <1>6, <2>1, <2>8, Received
    <2>10. Change(e.to) = e.value
      BY <1>0 DEF Change
    <2>11. ASSUME NEW o \in Holder, o # e.to
           PROVE  Names(i, o)' /\ (o \in Owner => Entries(i, o)' /\ Current(i, o)' = Current(i, o) + Change(o))
      <3>1. minted'[Key1155(i, o)] = minted[Key1155(i, o)] /\ updated'[Key1155(i, o)] = updated[Key1155(i, o)]
        BY <1>0, <1>8, <2>5, <2>11 DEF Set
      <3>. QED  BY <1>10, <2>1, <2>11, <3>1
    <2>. QED  BY <1>0, <1>9, <2>1, <2>9, <2>10, <2>11
  <1>12. ASSUME Transferring(e), NEW n \in -1..MaxBlock, n # -1, n <= endNum,
                \A j \in Key : j # kf => minted'[j] = ReceiveMinted(e, n)[j] /\ updated'[j] = ReceiveUpdated(e)[j],
                \/ IsMinted(kf) /\ minted'[kf] = [minted[kf] EXCEPT !.value = @ - e.value] /\ updated'[kf] = updated[kf]
                \/ /\ ~ IsMinted(kf) /\ Known(i, e.from)
                   /\ updated'[kf] = [Doc(i, e.from) EXCEPT !.value = @ - e.value] /\ minted'[kf] = minted[kf]
         PROVE  HoldHere(i)'
    <2>1. e.from \in Owner
      BY <1>0, <1>12 DEF Transferring
    <2>2. Names(i, e.from)' /\ Entries(i, e.from)' /\ Current(i, e.from)' = Current(i, e.from) - e.value
      BY <1>2, <1>7, <1>12, <2>1, Sent
    <2>3. minted'[kt] = ReceiveMinted(e, n)[kt] /\ updated'[kt] = ReceiveUpdated(e)[kt]
      BY <1>8, <1>12
    <2>4. /\ Names(i, e.to)'
          /\ e.to \in Owner => Entries(i, e.to)' /\ Current(i, e.to)' = Current(i, e.to) + e.value
      BY <1>2, <1>6, <1>12, <2>3, Received
    <2>5. ASSUME NEW o \in Holder, o # e.to, o # e.from
          PROVE  Names(i, o)' /\ (o \in Owner => Entries(i, o)' /\ Current(i, o)' = Current(i, o) + Change(o))
      <3>1. Key1155(i, o) \in Key /\ Key1155(i, o) # kf /\ Key1155(i, o) # kt
        BY <1>0, <1>8, <2>5
      <3>2. ReceiveMinted(e, n)[Key1155(i, o)] = minted[Key1155(i, o)]
            /\ ReceiveUpdated(e)[Key1155(i, o)] = updated[Key1155(i, o)]
        BY <1>8, <3>1 DEF ReceiveMinted, ReceiveUpdated, Set
      <3>. QED  BY <1>10, <1>12, <2>5, <3>1, <3>2
    <2>6. Change(e.to) = e.value /\ Change(e.from) = 0 - e.value
      BY <1>0 DEF Change
    <2>7. Current(i, e.from)' = Current(i, e.from) + Change(e.from)
      BY <1>0, <1>5, <2>1, <2>2, <2>6
    <2>. QED  BY <1>0, <1>9, <2>1, <2>2, <2>4, <2>5, <2>6, <2>7
  <1>13. CASE SplitMinted(e)
    <2>1. /\ Transferring(e) /\ IsMinted(kf) /\ updated' = ReceiveUpdated(e)
          /\ minted' = [ReceiveMinted(e, minted[kf].num) EXCEPT ![kf].value = @ - e.value]
      BY <1>0, <1>13 DEF SplitMinted, Replaced
    <2>2. minted[kf].num \in -1..MaxBlock /\ minted[kf].num # -1 /\ minted[kf].num <= endNum
      <3>1. e.from \in Owner
        BY <1>0, <2>1 DEF Transferring
      <3>. QED  BY <1>8, <2>1, <3>1 DEF MintDoc, IsMinted, HoldHere, Entries
    <2>3. ReceiveMinted(e, minted[kf].num) \in [Key -> MintDoc] /\ ReceiveUpdated(e) \in [Key -> UpdateDoc]
      BY <1>0, <2>2, ReceiveFact
    <2>4. ReceiveMinted(e, minted[kf].num)[kf] = minted[kf] /\ ReceiveUpdated(e)[kf] = updated[kf]
      BY <1>8 DEF ReceiveMinted, ReceiveUpdated, Set
    <2>5. \A j \in Key : j # kf => minted'[j] = ReceiveMinted(e, minted[kf].num)[j] /\ updated'[j] = ReceiveUpdated(e)[j]
      BY <1>8, <2>1, <2>3
    <2>6. minted'[kf] = [minted[kf] EXCEPT !.value = @ - e.value] /\ updated'[kf] = updated[kf]
      BY <1>8, <2>1, <2>3, <2>4
    <2>. QED  BY <1>12, <2>1, <2>2, <2>5, <2>6
  <1>14. CASE Split(e)
    <2>1. /\ Transferring(e) /\ ~ IsMinted(kf) /\ Known(i, e.from) /\ minted' = ReceiveMinted(e, Doc(i, e.from).num)
          /\ updated' = [ReceiveUpdated(e) EXCEPT ![kf] = [Doc(i, e.from) EXCEPT !.value = @ - e.value]]
      BY <1>0, <1>14 DEF Split, SameDoc
    <2>2. Doc(i, e.from).num \in -1..MaxBlock /\ Doc(i, e.from).num # -1 /\ Doc(i, e.from).num <= endNum
      <3>1. e.from \in Owner /\ Doc(i, e.from) \in UpdateDoc
        BY <1>0, <2>1, DocFact DEF Transferring
      <3>. QED  BY <1>2, <2>1, <3>1, DocHeld DEF UpdateDoc, Scanning
    <2>3. ReceiveMinted(e, Doc(i, e.from).num) \in [Key -> MintDoc] /\ ReceiveUpdated(e) \in [Key -> UpdateDoc]
      BY <1>0, <2>2, ReceiveFact
    <2>4. ReceiveMinted(e, Doc(i, e.from).num)[kf] = minted[kf]
      BY <1>8 DEF ReceiveMinted, Set
    <2>5. \A j \in Key : j # kf => minted'[j] = ReceiveMinted(e, Doc(i, e.from).num)[j] /\ updated'[j] = ReceiveUpdated(e)[j]
      BY <1>8, <2>1, <2>3
    <2>6. minted'[kf] = minted[kf] /\ updated'[kf] = [Doc(i, e.from) EXCEPT !.value = @ - e.value]
      BY <1>8, <2>1, <2>3, <2>4
    <2>. QED  BY <1>12, <2>1, <2>2, <2>5, <2>6
  <1>15. ASSUME HandOver(e) \/ UnknownSender(e) \/ GiveAll(e) PROVE FALSE
    <2>1. e.from \in Owner
      BY <1>0, <1>15 DEF HandOver, UnknownSender, GiveAll, Transferring
    <2>2. Current(i, e.from) > e.value
      BY <1>7, <2>1
    <2>3. CASE HandOver(e)
      BY <1>0, <1>2, <2>1, <2>2, <2>3, DocHeld DEF HandOver, Scanning
    <2>4. CASE UnknownSender(e)
      BY <1>0, <1>2, <2>1, <2>2, <2>4, DocHeld DEF UnknownSender, Scanning
    <2>5. CASE GiveAll(e)
      BY <1>0, <1>2, <2>1, <2>2, <2>5, DocHeld DEF GiveAll, Scanning
    <2>. QED  BY <1>15, <2>3, <2>4, <2>5
  <1>. QED  BY <1>1, <1>11, <1>13, <1>14, <1>15
-----------------------------------------------------------------------------
(* The other steps. *)

\* Between rounds, with an empty cache, the rows are all there is.
LEMMA HoldIdle ==
  ASSUME NEW i \in Tame, (~ Active)', (head \in Int /\ head <= RoundEnd)',
         \A o \in Holder : (~ IsMinted(Key1155(i, o)) /\ ~ IsUpdated(Key1155(i, o)))',
         \A o \in Owner : /\ minted'[Key1155(i, o)].value = 0
                          /\ Stored(i, o)' => row'[i][o].value > 0 /\ row'[i][o].num <= head'
                          /\ ~ Stored(i, o)' => row'[i][o].value = 0
                          /\ row'[i][o].value = HeldAt(i, o, head')
  PROVE  HoldHere(i)'
  <1>0. Owner \subseteq Holder /\ pc' # "update"
    BY TameFacts DEF Active
  <1>1. \A o \in Holder : Names(i, o)'
    BY DEF Names
  <1>2. \A o \in Owner : ~ Pending(Key1155(i, o))'
    BY <1>0 DEF Pending
  <1>3. \A o \in Owner : Entries(i, o)'
    BY <1>0, <1>2 DEF Entries
  <1>4. \A o \in Owner : Current(i, o)' = row'[i][o].value
    BY <1>0, <1>2 DEF Current
  <1>5. PICK m \in Int : m = head'
    OBVIOUS
  <1>6. Come(i, m)'
    <2>1. Within(m)'
      BY <1>5 DEF Within, Scanned
    <2>2. Reached(i, m)'
      BY <2>1 DEF Reached
    <2>. QED  BY <1>5, <2>2 DEF Come
  <1>7. \A o \in Owner : Current(i, o)' = HeldAt(i, o, m)
    BY <1>4, <1>5
  <1>. QED  BY <1>0, <1>1, <1>3, <1>6, <1>7 DEF HoldHere

\* A step that touches neither the rows nor the cache of the token.
LEMMA HoldAside ==
  ASSUME TypeOK, ScanInv, NoGap, NEW i \in Tame, HoldHere(i),
         BeginRound \/ NextKind \/ PosImport \/ NothingToDo \/ UNCHANGED vars
           \/ \E e \in Event : Due(e) /\ Handled(e) /\ e.item # i,
         row'[i] = row[i],
         \A o \in Holder : /\ minted'[Key1155(i, o)] = minted[Key1155(i, o)]
                           /\ updated'[Key1155(i, o)] = updated[Key1155(i, o)]
  PROVE  HoldHere(i)'
  <1>. USE DEF table, cache, control
  <1>0. Owner \subseteq Holder /\ i \in Uniform
    BY TameFacts
  <1>1. /\ pc' = "update" <=> pc = "update"
        /\ todo' = todo /\ head' = head
        /\ Active => Active' /\ endNum' = endNum
        /\ Active' /\ ~ Active => BeginRound
    BY DEF BeginRound, NextKind, PosImport, NothingToDo, vars, Due, Handled, Active
  <1>2. \A o \in Holder : /\ IsMinted(Key1155(i, o))' <=> IsMinted(Key1155(i, o))
                          /\ IsUpdated(Key1155(i, o))' <=> IsUpdated(Key1155(i, o))
                          /\ Pending(Key1155(i, o))' <=> Pending(Key1155(i, o))
    BY <1>1 DEF IsMinted, IsUpdated, Pending
  <1>3. \A o \in Holder : Names(i, o) => Names(i, o)'
    BY <1>1, <1>2 DEF Names
  <1>4. \A o \in Holder : Stored(i, o)' <=> Stored(i, o)
    BY DEF Stored
  <1>5. ASSUME NEW o \in Owner PROVE Entries(i, o)'
    <2>1. Entries(i, o) /\ Names(i, o) /\ o \in Holder
      BY <1>0 DEF HoldHere
    <2>2. pc = "update" => endNum' = endNum
      BY <1>1 DEF Active
    <2>3. IsMinted(Key1155(i, o)) \/ IsUpdated(Key1155(i, o)) => endNum' = endNum
      BY <1>1, <2>1 DEF Names
    <2>4. Pending(Key1155(i, o)) => IsUpdated(Key1155(i, o))
      BY DEF Pending
    <2>. QED  BY <1>1, <1>2, <1>4, <2>1, <2>2, <2>3, <2>4 DEF Entries
  <1>6. \A o \in Owner : Current(i, o)' = Current(i, o)
    BY <1>0, <1>1, <1>2 DEF Current
  <1>7. PICK m \in Int : Come(i, m) /\ \A o \in Owner : Current(i, o) = HeldAt(i, o, m)
    BY DEF HoldHere
  <1>8. Reached(i, m)'
    <2>1. CASE BeginRound \/ NextKind \/ PosImport
      BY <1>7, <2>1, ReachAside DEF Come
    <2>2. CASE NothingToDo \/ UNCHANGED vars
      <3>1. Aside
        BY <2>2 DEF NothingToDo, vars, Aside
      <3>. QED  BY <1>7, <3>1, ReachAside DEF Come
    <2>3. CASE \E e \in Event : Due(e) /\ Handled(e) /\ e.item # i
      BY <1>0, <1>7, <2>3, ReachEvent DEF Come
    <2>. QED  BY <2>1, <2>2, <2>3
  <1>9. Come(i, m)'
    <2>1. Active => done \subseteq done'
      BY DEF BeginRound, NextKind, PosImport, NothingToDo, vars, Handled, Active
    <2>2. CASE m = head
      <3>1. m = head'
        BY <1>1, <2>2
      <3>. QED  BY <1>8, <3>1 DEF Come
    <2>3. CASE Active /\ \E e \in done : e.item = i /\ e.num = m
      <3>1. Active' /\ \E e \in done' : e.item = i /\ e.num = m
        BY <1>1, <2>1, <2>3
      <3>. QED  BY <1>8, <3>1 DEF Come
    <2>. QED  BY <1>7, <2>2, <2>3 DEF Come
  <1>10. pc' # "update" => \A o \in Owner : row'[i][o].value = HeldAt(i, o, head')
    BY <1>1 DEF HoldHere
  <1>. QED  BY <1>0, <1>3, <1>5, <1>6, <1>7, <1>9, <1>10 DEF HoldHere

\* An empty cache.
LEMMA EmptyKeys ==
  ASSUME EmptyCache
  PROVE  \A k \in Key : (~ IsMinted(k))' /\ (~ IsUpdated(k))' /\ minted'[k].value = 0
  BY DEF EmptyCache, IsMinted, IsUpdated, NoEntry, NoDoc

\* Nothing has been inserted when the process ends, and what it read is read again.
LEMMA HoldCrash ==
  ASSUME TypeOK, ScanInv, NEW i \in Tame, HoldHere(i), Crash, pc \notin {"insert", "update"}
  PROVE  HoldHere(i)'
  <1>1. /\ EmptyCache /\ pc' = "down" /\ row' = row /\ UNCHANGED <<head, tip>> /\ pc # "update"
    BY DEF Crash, CutShort
  <1>2. /\ \A o \in Holder : Key1155(i, o) \in Key
        /\ Owner \subseteq Holder /\ NumFacts /\ RoundEnd \in Int /\ RoundEnd >= head
    BY TameFacts, Numbers, RoundEndFact DEF TypeOK, ScanInv, NumFacts
  <1>3. (~ Active)' /\ (head \in Int /\ head <= RoundEnd)'
    BY <1>1, <1>2 DEF Active, RoundEnd, NumFacts
  <1>4. \A o \in Owner : Entries(i, o) /\ row[i][o].value = HeldAt(i, o, head) /\ (Stored(i, o)' <=> Stored(i, o))
    BY <1>1 DEF HoldHere, Stored
  <1>5. \A o \in Owner : /\ Stored(i, o)' => row'[i][o].value > 0 /\ row'[i][o].num <= head'
                         /\ ~ Stored(i, o)' => row'[i][o].value = 0
                         /\ row'[i][o].value = HeldAt(i, o, head')
    BY <1>1, <1>4 DEF Entries
  <1>6. \A k \in Key : (~ IsMinted(k))' /\ (~ IsUpdated(k))' /\ minted'[k].value = 0
    BY <1>1, EmptyKeys
  <1>. QED  BY <1>2, <1>3, <1>5, <1>6, HoldIdle

\* No row has been created above the head.
LEMMA HoldStart ==
  ASSUME TypeOK, ScanInv, NEW i \in Tame, HoldHere(i), Start
  PROVE  HoldHere(i)'
  <1>1. /\ pc = "down" /\ pc' = "idle" /\ UNCHANGED <<head, tip, minted, updated>>
        /\ row' = [j \in Item |-> [o \in Holder |-> IF head # -1 /\ row[j][o].num > head THEN NoRow ELSE row[j][o]]]
    BY DEF Start, cache
  <1>2. /\ i \in Item /\ Owner \subseteq Holder /\ NumFacts /\ RoundEnd \in Int /\ RoundEnd >= head
        /\ \A o \in Holder : row[i][o].num \in Int /\ row[i][o].value \in Nat
    BY TameFacts, Numbers, RoundEndFact, TableTypes DEF TypeOK, ScanInv, NumFacts
  <1>3. (~ Active)' /\ (head \in Int /\ head <= RoundEnd)' /\ ~ Active
    BY <1>1, <1>2 DEF Active, RoundEnd, NumFacts
  <1>4. ASSUME NEW o \in Owner
        PROVE  /\ minted'[Key1155(i, o)].value = 0
               /\ Stored(i, o)' => row'[i][o].value > 0 /\ row'[i][o].num <= head'
               /\ ~ Stored(i, o)' => row'[i][o].value = 0
               /\ row'[i][o].value = HeldAt(i, o, head')
    <2>1. Entries(i, o) /\ Names(i, o) /\ row[i][o].value = HeldAt(i, o, head)
      BY <1>1, <1>2 DEF HoldHere
    <2>2. Stored(i, o) => row[i][o].num <= head
      BY <1>1, <2>1 DEF Entries
    <2>3. ~ Stored(i, o) => row[i][o].num = -1
      BY DEF Stored
    <2>4. ~ (head # -1 /\ row[i][o].num > head)
      BY <1>2, <2>2, <2>3 DEF NumFacts
    <2>5. row'[i][o] = row[i][o]
      BY <1>1, <1>2, <2>4
    <2>6. Stored(i, o)' <=> Stored(i, o)
      BY <2>5 DEF Stored
    <2>7. minted'[Key1155(i, o)].value = 0
      BY <1>1, <1>3, <2>1 DEF Names, Entries
    <2>. QED  BY <1>1, <2>1, <2>5, <2>6, <2>7 DEF Entries
  <1>5. \A o \in Holder : (~ IsMinted(Key1155(i, o)) /\ ~ IsUpdated(Key1155(i, o)))'
    BY <1>1, <1>3 DEF HoldHere, Names, IsMinted, IsUpdated
  <1>. QED  BY <1>3, <1>4, <1>5, HoldIdle

\* The round is saved: the rows are those of its last block.
LEMMA HoldSaved ==
  ASSUME TypeOK, ScanInv, NoGap, NEW i \in Tame, HoldHere(i), UpdateHead, NEW o \in Owner
  PROVE  row[i][o].value = HeldAt(i, o, endNum)
  <1>1. pc = "update" /\ todo = {}
    BY DEF UpdateHead
  <1>2. PICK m \in Int : Come(i, m) /\ \A q \in Owner : Current(i, q) = HeldAt(i, q, m)
    BY DEF HoldHere
  <1>3. Current(i, o) = row[i][o].value
    BY <1>1 DEF Current, Pending
  <1>4. EventsOf(i, m) = EventsOf(i, endNum)
    BY <1>2, RoundComplete DEF Come
  <1>5. HeldAt(i, o, m) = HeldAt(i, o, endNum)
    BY <1>4, HeldSame
  <1>. QED  BY <1>2, <1>3, <1>5

LEMMA HoldHead ==
  ASSUME TypeOK, ScanInv, NoGap, NEW i \in Tame, HoldHere(i), UpdateHead
  PROVE  HoldHere(i)'
  <1>1. /\ EmptyCache /\ pc = "update" /\ pc' = "idle" /\ row' = row /\ head' = endNum /\ tip' = tip
    BY DEF UpdateHead, table
  <1>2. /\ \A o \in Holder : Key1155(i, o) \in Key
        /\ Owner \subseteq Holder /\ NumFacts /\ Window \in Int /\ Window > 0 /\ endNum <= RoundEnd /\ RoundEnd <= tip
        /\ RoundEnd \in Int
    <2>1. RoundEnd \in Int /\ RoundEnd <= tip
      BY RoundEndFact DEF TypeOK
    <2>2. endNum <= RoundEnd
      BY <1>1 DEF ScanInv, Active
    <2>. QED  BY <2>1, <2>2, TameFacts, Numbers, ConstantFacts
  <1>3. (~ Active)' /\ (head \in Int /\ head <= RoundEnd)'
    BY <1>1, <1>2 DEF Active, RoundEnd, NumFacts
  <1>4. \A o \in Owner : Entries(i, o) /\ row[i][o].value = HeldAt(i, o, endNum) /\ (Stored(i, o)' <=> Stored(i, o))
    BY <1>1, HoldSaved DEF HoldHere, Stored
  <1>5. \A o \in Owner : /\ Stored(i, o)' => row'[i][o].value > 0 /\ row'[i][o].num <= head'
                         /\ ~ Stored(i, o)' => row'[i][o].value = 0
                         /\ row'[i][o].value = HeldAt(i, o, head')
    BY <1>1, <1>4 DEF Entries
  <1>6. \A k \in Key : (~ IsMinted(k))' /\ (~ IsUpdated(k))' /\ minted'[k].value = 0
    BY <1>1, EmptyKeys
  <1>. QED  BY <1>2, <1>3, <1>5, <1>6, HoldIdle

\* The new rows are inserted: each at its own holder's place.
LEMMA InsertedHolding ==
  ASSUME TypeOK, NEW i \in Tame, \A o \in Holder : Names(i, o), NEW o \in Owner
  PROVE  WithRows(MintedKeys)[i][o] = IF IsMinted(Key1155(i, o))
                                      THEN [value |-> minted[Key1155(i, o)].value, num |-> minted[Key1155(i, o)].num]
                                      ELSE row[i][o]
  <1>. DEFINE k == Key1155(i, o)
              K == { j \in MintedKeys : Slot(j) = <<i, o>> }
  <1>1. i \in Item /\ o \in Holder /\ k \in Key /\ k[1] = i
    BY TameFacts DEF Key1155
  <1>2. WithRows(MintedKeys)[i][o] = IF K = {} THEN row[i][o]
                                     ELSE [value |-> minted[CHOOSE j \in K : TRUE].value,
                                           num |-> minted[CHOOSE j \in K : TRUE].num]
    BY <1>1 DEF WithRows
  <1>3. ASSUME NEW j \in K PROVE j = k /\ IsMinted(k)
    <2>1. j \in Key /\ IsMinted(j) /\ j[1] = i /\ minted[j].owner = o
      BY DEF MintedKeys, Slot
    <2>2. PICK q \in Holder : j = Key1155(i, q)
      BY <2>1 DEF Key, Key1155
    <2>. QED  BY <2>1, <2>2 DEF Names
  <1>4. IsMinted(k) => k \in K
    BY <1>1 DEF MintedKeys, Slot, Names
  <1>5. IsMinted(k) => (CHOOSE j \in K : TRUE) = k
    BY <1>3, <1>4
  <1>. QED  BY <1>2, <1>3, <1>4, <1>5

LEMMA HoldInsert ==
  ASSUME TypeOK, ScanInv, NEW i \in Tame, HoldHere(i), InsertMinted
  PROVE  HoldHere(i)'
  <1>1. /\ pc = "insert" /\ pc' = "update" /\ UNCHANGED <<minted, updated, head, endNum, done>> /\ row' = WithRows(MintedKeys)
        /\ todo' = { j \in Key : IsUpdated(j) } /\ Aside
    BY DEF InsertMinted, Aside, cache
  <1>2. /\ i \in Item /\ Owner \subseteq Holder /\ head \in Int /\ endNum \in Int /\ head < endNum /\ Active /\ Active'
        /\ \A o \in Holder : Key1155(i, o) \in Key
    BY <1>1, TameFacts, Numbers DEF ScanInv, Active, NumFacts
  <1>3. PICK m \in Int : Come(i, m) /\ \A o \in Owner : Current(i, o) = HeldAt(i, o, m)
    BY DEF HoldHere
  <1>4. Come(i, m)'
    <2>1. Reached(i, m)'
      BY <1>1, <1>3, ReachAside DEF Come
    <2>. QED  BY <1>1, <1>2, <1>3, <2>1 DEF Come
  <1>5. \A o \in Holder : /\ IsMinted(Key1155(i, o))' <=> IsMinted(Key1155(i, o))
                          /\ IsUpdated(Key1155(i, o))' <=> IsUpdated(Key1155(i, o))
                          /\ Pending(Key1155(i, o))' <=> Pending(Key1155(i, o))
    BY <1>1, <1>2 DEF IsMinted, IsUpdated, Pending
  <1>6. \A o \in Holder : Names(i, o)'
    BY <1>1, <1>2, <1>5 DEF HoldHere, Names
  <1>7. ASSUME NEW o \in Owner
        PROVE  Entries(i, o)' /\ Current(i, o)' = Current(i, o)
    <2>. DEFINE k == Key1155(i, o)
    <2>1. /\ row'[i][o] = IF IsMinted(k) THEN [value |-> minted[k].value, num |-> minted[k].num] ELSE row[i][o]
          /\ Entries(i, o) /\ o \in Holder /\ k \in Key
      BY <1>1, <1>2, InsertedHolding DEF HoldHere
    <2>2. row[i][o].num \in Int /\ row[i][o].value \in Nat /\ minted[k].num \in Int /\ minted[k].value \in Nat
      BY <1>2, <2>1, TableTypes
    <2>3. CASE IsMinted(k)
      <3>1. row'[i][o].value = minted[k].value /\ row'[i][o].num = minted[k].num /\ Stored(i, o)'
        BY <2>1, <2>3 DEF Stored, IsMinted
      <3>2. ~ Pending(k) /\ ~ Pending(k)'
        BY <1>2, <1>5, <2>1, <2>3 DEF Entries, Pending
      <3>3. Current(i, o)' = Current(i, o)
        BY <1>1, <2>3, <3>1, <3>2 DEF Current
      <3>4. Entries(i, o)'
        BY <1>1, <1>2, <1>5, <2>1, <2>3, <3>1, <3>2 DEF Entries
      <3>. QED  BY <3>3, <3>4
    <2>4. CASE ~ IsMinted(k)
      <3>1. row'[i][o] = row[i][o] /\ (Stored(i, o)' <=> Stored(i, o)) /\ ~ IsMinted(k)'
        BY <1>2, <1>5, <2>1, <2>4 DEF Stored
      <3>2. Current(i, o)' = Current(i, o)
        BY <1>1, <1>2, <1>5, <2>4, <3>1 DEF Current
      <3>3. Stored(i, o) => row[i][o].num <= endNum
        BY <1>1, <1>2, <2>1, <2>2 DEF Entries
      <3>4. Entries(i, o)'
        BY <1>1, <1>2, <1>5, <2>1, <2>4, <3>1, <3>3 DEF Entries
      <3>. QED  BY <3>2, <3>4
    <2>. QED  BY <2>3, <2>4
  <1>8. \A o \in Owner : Current(i, o)' = HeldAt(i, o, m)
    BY <1>3, <1>7
  <1>. QED  BY <1>1, <1>4, <1>6, <1>7, <1>8 DEF HoldHere

\* A document is saved into the row it came from.
LEMMA HoldSave ==
  ASSUME TypeOK, ScanInv, CacheInv, NEW i \in Tame, HoldHere(i), NEW j \in Key, SaveRow(j)
  PROVE  HoldHere(i)'
  <1>1. /\ pc = "update" /\ pc' = "update" /\ minted' = minted /\ j \in todo /\ todo' = todo \ {j}
        /\ row' = Set(row, j[1], Saved(j[1], updated[j]))
        /\ updated' = IF updated[j].owner # Zero /\ Savable(j[1], updated[j])
                      THEN [updated EXCEPT ![j].origin = updated[j].owner] ELSE updated
        /\ UNCHANGED <<head, endNum, done>> /\ Aside
    BY DEF SaveRow, Aside
  <1>2. /\ i \in Item /\ Owner \subseteq Holder /\ head \in Int /\ endNum \in Int /\ Active /\ Active'
        /\ \A o \in Holder : Key1155(i, o) \in Key
        /\ minted \in [Key -> MintDoc] /\ updated \in [Key -> UpdateDoc] /\ row \in [Item -> [Holder -> RowDoc]]
        /\ IsUpdated(j) /\ updated[j] \in UpdateDoc /\ Zero \notin Owner
    BY <1>1, TameFacts, Numbers, TableTypes DEF CacheInv, Active, NumFacts
  <1>3. PICK m \in Int : Come(i, m) /\ \A o \in Owner : Current(i, o) = HeldAt(i, o, m)
    BY DEF HoldHere
  <1>4. Come(i, m)'
    <2>1. Reached(i, m)'
      BY <1>1, <1>3, ReachAside DEF Come
    <2>. QED  BY <1>1, <1>2, <1>3, <2>1 DEF Come
  <1>5. ASSUME NEW o \in Holder, j = Key1155(i, o) PROVE updated[j].owner = o /\ updated[j].origin = o
    BY <1>2, <1>5 DEF HoldHere, Names
  <1>6. ASSUME NEW o \in Holder
        PROVE  /\ updated'[Key1155(i, o)] = updated[Key1155(i, o)]
               /\ IsMinted(Key1155(i, o))' <=> IsMinted(Key1155(i, o))
               /\ IsUpdated(Key1155(i, o))' <=> IsUpdated(Key1155(i, o))
               /\ Pending(Key1155(i, o))' <=> Pending(Key1155(i, o)) /\ j # Key1155(i, o)
    <2>. DEFINE k == Key1155(i, o)
    <2>1. updated'[k] = updated[k]
      <3>1. CASE j # k
        BY <1>1, <1>2, <3>1
      <3>2. CASE j = k
        <4>1. [updated[j] EXCEPT !.origin = updated[j].owner] = updated[j]
          BY <1>2, <1>5, <3>2 DEF UpdateDoc
        <4>. QED  BY <1>1, <1>2, <3>2, <4>1
      <3>. QED  BY <3>1, <3>2
    <2>. QED  BY <1>1, <2>1 DEF IsMinted, IsUpdated, Pending
  <1>7. \A o \in Holder : Names(i, o)'
    BY <1>1, <1>2, <1>6 DEF HoldHere, Names
  <1>8. ASSUME NEW o \in Owner, j # Key1155(i, o) PROVE row'[i][o] = row[i][o]
    <2>1. CASE j[1] # i
      BY <1>1, <1>2, <2>1 DEF Set
    <2>2. CASE j[1] = i
      <3>1. PICK q \in Holder : j = Key1155(i, q)
        BY <2>2 DEF Key, Key1155
      <3>2. updated[j].owner = q /\ updated[j].origin = q /\ q # o /\ o \in Holder
        BY <1>2, <1>5, <1>8, <3>1
      <3>3. Saved(i, updated[j])[o] = row[i][o]
        BY <1>2, <3>2 DEF Saved
      <3>. QED  BY <1>1, <1>2, <2>2, <3>3 DEF Set
    <2>. QED  BY <2>1, <2>2
  <1>9. ASSUME NEW o \in Owner PROVE Entries(i, o)' /\ Current(i, o)' = Current(i, o)
    <2>. DEFINE k == Key1155(i, o)
    <2>1. Entries(i, o) /\ o \in Holder /\ k \in Key /\ o # Zero
      BY <1>2 DEF HoldHere
    <2>2. CASE j = k
      <3>1. Pending(k) /\ ~ Pending(k)' /\ j[1] = i /\ ~ IsMinted(k)
        BY <1>1, <1>2, <1>6, <2>1, <2>2 DEF Pending, Key1155, Entries
      <3>2. Stored(i, o) /\ updated[k].value > 0 /\ updated[k].num <= endNum
        BY <2>1, <3>1 DEF Entries
      <3>3. updated[k].owner = o /\ updated[k].origin = o
        BY <1>5, <2>1, <2>2
      <3>4. Savable(i, updated[k])
        BY <3>2, <3>3 DEF Savable
      <3>5. Saved(i, updated[k]) = [row[i] EXCEPT ![o] = NoRow, ![o] = [value |-> updated[k].value, num |-> updated[k].num]]
        BY <2>1, <3>3, <3>4 DEF Saved
      <3>6. Saved(i, updated[k])[o] = [value |-> updated[k].value, num |-> updated[k].num]
        BY <1>2, <2>1, <3>5
      <3>7. row'[i][o] = [value |-> updated[k].value, num |-> updated[k].num]
        BY <1>1, <1>2, <2>2, <3>1, <3>6 DEF Set
      <3>8. row'[i][o].value = updated[k].value /\ row'[i][o].num = updated[k].num /\ updated[k].num # -1
        BY <1>2, <2>2, <3>7 DEF IsUpdated
      <3>9. Stored(i, o)' /\ ~ IsMinted(k)' /\ minted'[k] = minted[k]
        BY <1>1, <1>6, <2>1, <3>1, <3>8 DEF Stored
      <3>10. Current(i, o)' = Current(i, o)
        BY <1>1, <3>1, <3>8, <3>9 DEF Current
      <3>11. Entries(i, o)'
        BY <1>1, <2>1, <3>1, <3>2, <3>8, <3>9 DEF Entries
      <3>. QED  BY <3>10, <3>11
    <2>3. CASE j # k
      <3>1. row'[i][o] = row[i][o] /\ (Stored(i, o)' <=> Stored(i, o)) /\ updated'[k] = updated[k] /\ minted'[k] = minted[k]
        BY <1>1, <1>6, <1>8, <2>1, <2>3 DEF Stored
      <3>2. /\ IsMinted(k)' <=> IsMinted(k)
            /\ IsUpdated(k)' <=> IsUpdated(k)
            /\ Pending(k)' <=> Pending(k)
        BY <1>1, <3>1, <2>1, <2>3 DEF IsMinted, IsUpdated, Pending
      <3>3. Current(i, o)' = Current(i, o)
        BY <1>1, <3>1, <3>2 DEF Current
      <3>4. Entries(i, o)'
        BY <1>1, <2>1, <3>1, <3>2 DEF Entries
      <3>. QED  BY <3>3, <3>4
    <2>. QED  BY <2>2, <2>3
  <1>10. \A o \in Owner : Current(i, o)' = HeldAt(i, o, m)
    BY <1>3, <1>9
  <1>. QED  BY <1>1, <1>4, <1>7, <1>9, <1>10 DEF HoldHere

\* Handling an event leaves the other ERC-1155 tokens alone.
LEMMA HoldElsewhere ==
  ASSUME TypeOK, NEW e \in Event, Scan(e), NEW k \in Key, k[1] \in Item1155, k[1] # e.item
  PROVE  minted'[k] = minted[k] /\ updated'[k] = updated[k]
  <1>. USE DEF cache
  <1>1. minted \in [Key -> MintDoc] /\ updated \in [Key -> UpdateDoc]
    BY TableTypes
  <1>2. k # Key721(e.item) /\ \A o : Key1155(e.item, o) # k
    BY DEF Key721, Key1155
  <1>3. \A n : ReceiveMinted(e, n)[k] = minted[k]
    BY <1>1, <1>2 DEF ReceiveMinted, Set
  <1>4. ReceiveUpdated(e)[k] = updated[k]
    BY <1>1, <1>2 DEF ReceiveUpdated, Set
  <1>5. CASE TransferContract(e) \/ UnknownSender(e) \/ NotEnoughBalance(e)
    BY <1>5 DEF TransferContract, UnknownSender, NotEnoughBalance
  <1>6. CASE Mint721(e)
    BY <1>1, <1>2, <1>6 DEF Mint721, Set
  <1>7. CASE Transfer721(e)
    BY <1>1, <1>2, <1>7 DEF Transfer721, Set
  <1>8. CASE Mint1155(e)
    BY <1>1, <1>2, <1>8 DEF Mint1155, Set
  <1>9. CASE HandOver(e)
    BY <1>1, <1>2, <1>9 DEF HandOver
  <1>10. CASE SplitMinted(e)
    BY <1>1, <1>2, <1>3, <1>4, <1>10 DEF SplitMinted
  <1>11. CASE GiveAll(e)
    BY <1>1, <1>2, <1>3, <1>4, <1>11 DEF GiveAll
  <1>12. CASE Split(e)
    BY <1>1, <1>2, <1>3, <1>4, <1>12 DEF Split
  <1>. QED  BY <1>5, <1>6, <1>7, <1>8, <1>9, <1>10, <1>11, <1>12 DEF Scan

LEMMA StepHold ==
  ASSUME TypeOK, ScanInv, CacheInv, HoldInv, [Next]_vars
  PROVE  HoldInv'
  <1>. USE DEF table, cache, control
  <1>. SUFFICES ASSUME NoGap', ReadOnce', NEW i \in Tame
                PROVE  HoldHere(i)'
    BY DEF HoldInv
  <1>1. /\ NoGap /\ ReadOnce /\ ~ InsertRefused /\ ~ CallFails /\ (Crash => pc \notin {"insert", "update"})
        /\ (\A k \in Key : ~ SaveSwallowed(k)) /\ (\A e \in Event : ~ NotEnoughBalance(e))
    BY NoGapBefore, ReadOnceBefore
  <1>2. HoldHere(i)
    BY <1>1 DEF HoldInv
  <1>3. i \in Item1155 /\ \A o \in Holder : Key1155(i, o) \in Key /\ Key1155(i, o)[1] = i
    BY TameFacts DEF Key1155
  <1>4. ASSUME NEW e \in Event, Scan(e) PROVE HoldHere(i)'
    <2>1. CASE e.item = i
      BY <1>1, <1>2, <1>4, <2>1, HoldEvent
    <2>2. CASE e.item # i
      <3>1. /\ row' = row
            /\ \A o \in Holder : /\ minted'[Key1155(i, o)] = minted[Key1155(i, o)]
                                 /\ updated'[Key1155(i, o)] = updated[Key1155(i, o)]
        BY <1>3, <1>4, <2>2, HoldElsewhere, ScanType
      <3>2. Due(e) /\ Handled(e)
        BY <1>1, <1>4 DEF Scan, TransferContract, Mint721, Transfer721, Mint1155, HandOver, SplitMinted,
           UnknownSender, GiveAll, Split, Transferring
      <3>. QED  BY <1>1, <1>2, <2>2, <3>1, <3>2, HoldAside
    <2>. QED  BY <2>1, <2>2
  <1>5. CASE BeginRound \/ NothingToDo \/ NextKind \/ PosImport \/ UNCHANGED vars
    <2>1. UNCHANGED <<row, minted, updated>>
      BY <1>5 DEF BeginRound, NothingToDo, NextKind, PosImport, vars
    <2>. QED  BY <1>1, <1>2, <1>5, <2>1, HoldAside
  <1>6. ~ EmptyEndBlock
    <2>1. pc = "update" => endNum \in 0..tip
      BY Numbers, RoundEndFact DEF TypeOK, ScanInv, Active, NumFacts
    <2>. QED  BY <1>1, <2>1 DEF EmptyEndBlock, NoGap
  <1>7. CASE Start
    BY <1>2, <1>7, HoldStart
  <1>8. CASE Crash
    BY <1>1, <1>2, <1>8, HoldCrash
  <1>9. CASE UpdateHead
    BY <1>1, <1>2, <1>9, HoldHead
  <1>10. CASE InsertMinted
    BY <1>2, <1>10, HoldInsert
  <1>11. CASE \E k \in Key : SaveRow(k)
    BY <1>2, <1>11, HoldSave
  <1>. QED  BY <1>1, <1>4, <1>5, <1>6, <1>7, <1>8, <1>9, <1>10, <1>11 DEF Next, Program, Save, Fault

LEMMA InitHold == Init => HoldInv
  <1>. SUFFICES ASSUME Init, NEW i \in Tame PROVE HoldHere(i)
    BY DEF HoldInv
  <1>1. TypeOK /\ ScanInv /\ head = -1 /\ pc = "down"
    BY InitType, InitScan DEF Init
  <1>2. /\ NumFacts /\ RoundEnd \in Int /\ -1 <= RoundEnd /\ i \in Item /\ Owner \subseteq Holder /\ ~ Active
        /\ \A o \in Holder : Key1155(i, o) \in Key
    BY <1>1, Numbers, RoundEndFact, TameFacts DEF TypeOK, ScanInv, NumFacts, Active
  <1>3. \A k \in Key : ~ IsMinted(k) /\ ~ IsUpdated(k) /\ minted[k].value = 0
    BY DEF Init, IsMinted, IsUpdated, NoEntry, NoDoc
  <1>4. \A o \in Holder : ~ Stored(i, o) /\ row[i][o].value = 0
    BY <1>2 DEF Init, Stored, NoRow
  <1>5. \A o \in Owner : HeldAt(i, o, -1) = 0
    BY HeldAtFirst
  <1>6. \A o \in Holder : Names(i, o) /\ ~ Pending(Key1155(i, o))
    BY <1>2, <1>3 DEF Names, Pending
  <1>7. \A o \in Owner : Entries(i, o)
    BY <1>2, <1>3, <1>4, <1>6 DEF Entries
  <1>8. \A o \in Owner : Current(i, o) = HeldAt(i, o, -1)
    BY <1>2, <1>3, <1>4, <1>5, <1>6 DEF Current
  <1>9. Come(i, -1)
    BY <1>1, <1>2 DEF Come, Reached, Within, Scanned
  <1>. QED  BY <1>1, <1>2, <1>4, <1>5, <1>6, <1>7, <1>8, <1>9 DEF HoldHere

HoldingsInv == TypeOK /\ ScanInv /\ CacheInv /\ HoldInv

\* When the head of the NFT import moves, everybody holds of a tame ERC-1155 token what the chain's events
\* up to the new head add up to, if every round was read and saved in one go: for every chain, every window,
\* any number of crashes while events are read, and however the importer goes on meanwhile.
THEOREM HoldingsOfTheChain == Spec => HoldingsExact
  <1>1. Init => HoldingsInv
    BY InitType, InitScan, InitOwners, InitHold DEF HoldingsInv
  <1>2. HoldingsInv /\ [Next]_vars => HoldingsInv'
    BY StepType, StepScan, StepCache, StepHold DEF HoldingsInv
  <1>3. HoldingsInv /\ [Next]_vars =>
          [ head' # head /\ ReadOnce /\ NoGap =>
              \A i \in Tame : \A o \in Owner : row[i][o].value = HeldAt(i, o, head') ]_vars
    <2>. SUFFICES ASSUME HoldingsInv, [Next]_vars, head' # head, ReadOnce, NoGap, NEW i \in Tame, NEW o \in Owner
                  PROVE  row[i][o].value = HeldAt(i, o, head')
      OBVIOUS
    <2>1. UpdateHead /\ head' = endNum
      BY HeadMoves DEF UpdateHead
    <2>2. row[i][o].value = HeldAt(i, o, endNum)
      BY <2>1, HoldSaved DEF HoldingsInv, HoldInv
    <2>. QED  BY <2>1, <2>2
  <1>. QED  BY <1>1, <1>2, <1>3, PTL DEF Spec, HoldingsExact
=============================================================================
