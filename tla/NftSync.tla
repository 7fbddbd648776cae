------------------------------- MODULE NftSync -------------------------------
(***************************************************************************)
(* The NFT import (src/src/cmd/nft.cmd.ts, class NFTCMD) and its cache     *)
(* (src/src/types/nftCache.ts).  It follows the head of the PoS import,    *)
(* reads the transfer events of a range of blocks, one kind of event after *)
(* the other, and keeps who owns how much of which token.                  *)
(*                                                                         *)
(* Rows are updated in place.  After a crash the process deletes the rows  *)
(* created above its head; a row that was created earlier and updated      *)
(* since stays as it is, and the events of the range are applied to it a   *)
(* second time.  After an error nothing is deleted and the cache is kept.  *)
(*                                                                         *)
(* The importer is the environment, as AtomicImport.  An element of a      *)
(* batch counts as an event.  Metadata, media and the counts on the        *)
(* contract's row are left out.                                            *)
(***************************************************************************)
EXTENDS AtomicImport, Sequences, FiniteSetsExt

CONSTANTS
  Window,      \* LOOP_WINDOW: how far a round goes
  Contract,    \* contracts with an owner (EIP-173)
  Item721,     \* the tokens of ERC-721 contracts
  Item1155,    \* the tokens of ERC-1155 contracts
  Owner,       \* addresses
  NoOwner,     \* no owner has been recorded
  Master,      \* the owner in a contract's row when the import of blocks writes it
  Zero,        \* the zero address: mints come from it, burns go to it
  Event,       \* the events of the chain
  MaxValue,    \* where additions stop: a round that is read again and again adds every time
  Limit,       \* how many faults of each kind are explored
  MaxFaults    \* and how many in all

Item == Item721 \cup Item1155

Holder == Owner \cup {Zero}

\* The order in which a round visits the events.
Kinds == << "owner", "erc721", "single", "batch" >>

FaultKind == {"error", "saveError", "crash", "saveCrash", "swallow"}

\* What is remembered of a behaviour: the faults, and whether an insertion has been refused, or a
\* holder has been found short of what the event takes from it.
Mishap == FaultKind \cup {"refused", "short"}

ASSUME NftAssumption ==
  /\ MaxBlock \in Nat
  /\ Window \in Nat \ {0}
  /\ Item721 \cap Item1155 = {} /\ Contract \cap Item = {}
  /\ Zero \notin Owner /\ NoOwner \notin Holder
  /\ Master \in [Contract -> Owner \cup {NoOwner}]
  /\ \A e \in Event :
       /\ e.num \in 1..MaxBlock
       /\ e.kind \in {"owner", "erc721", "single", "batch"}
       /\ e.from \in Holder /\ e.to \in Holder
       /\ e.value \in Nat \ {0}
       /\ e.kind = "owner" => e.item \in Contract
       /\ e.kind = "erc721" => e.item \in Item721 /\ e.value = 1
       /\ e.kind \in {"single", "batch"} => e.item \in Item1155
  /\ Limit \in [FaultKind -> Nat]
  /\ MaxFaults \in Nat
  /\ MaxValue \in Nat

VARIABLES
  \* the database
  head,     \* the number in the head document of "nft", -1 if there is none
  row,      \* row[i][o]: what o holds of i, and the block that created the row
  owner,    \* the owner in a contract's row, or NoOwner
  \* the process
  pc,       \* what it is doing
  endNum,   \* the last block of the round
  stage,    \* position in Kinds
  done,     \* the events of this round that have been handled
  minted,   \* NFTCache.minted: rows to create
  updated,  \* NFTCache.updated: documents to save; `origin' is the owner in the stored row
  todo,     \* the documents of `updated' that are still to be saved
  spent     \* the mishaps so far

table   == <<row, owner>>
cache   == <<minted, updated>>
control == <<pc, endNum, stage, done, todo>>
vars    == <<tip, visible, head, table, cache, control, spent>>

Key == Item \X Holder

Key721(i) == <<i, Zero>>

Key1155(i, o) == <<i, o>>

NoRow == [value |-> 0, num |-> -1]

NoEntry == [owner |-> Zero, value |-> 0, num |-> -1]

NoDoc == [origin |-> Zero, owner |-> Zero, value |-> 0, num |-> -1]

TypeOK ==
  /\ AbsTypeOK
  /\ head \in -1..MaxBlock
  /\ row \in [Item -> [Holder -> [value : Nat, num : -1..MaxBlock]]]
  /\ owner \in [Contract -> Holder \cup {NoOwner}]
  /\ pc \in {"down", "idle", "scan", "insert", "update"}
  /\ endNum \in Block
  /\ stage \in 1..Len(Kinds)
  /\ done \subseteq Event
  /\ minted \in [Key -> [owner : Holder, value : Nat, num : -1..MaxBlock]]
  /\ updated \in [Key -> [origin : Holder, owner : Holder, value : Nat, num : -1..MaxBlock]]
  /\ todo \subseteq Key
  /\ spent \in [Mishap -> Nat]
-----------------------------------------------------------------------------
(* Helpers. *)

IsMinted(k) == minted[k].num # -1

IsUpdated(k) == updated[k].num # -1

Stored(i, o) == row[i][o].num # -1

\* findByIDWithOwner: a document with the stored values.
Load(i, o) == [origin |-> o, owner |-> o, value |-> row[i][o].value, num |-> row[i][o].num]

\* The document of a row, from the cache if it is there.
Doc(i, o) == IF IsUpdated(Key1155(i, o)) THEN updated[Key1155(i, o)] ELSE Load(i, o)

Known(i, o) == IsUpdated(Key1155(i, o)) \/ Stored(i, o)

Plus(a, b) == IF a + b > MaxValue THEN MaxValue ELSE a + b

Set(f, k, x) == [f EXCEPT ![k] = x]

CanSpend(k) == /\ spent[k] < Limit[k]
               /\ MapThenSumSet(LAMBDA f : spent[f], FaultKind) < MaxFaults

Spend(k) == spent' = [spent EXCEPT ![k] = @ + 1]

EmptyCache == /\ minted' = [k \in Key |-> NoEntry]
              /\ updated' = [k \in Key |-> NoDoc]

\* The last block is left to the next round.
BugInRound(e) == e.num \in visible /\ head < e.num /\ e.num < endNum

\* findByTopic0InBlockRangeSortAsc, for all kinds together.
InRound(e) == e.num \in visible /\ head < e.num /\ e.num <= endNum

\* The next event of the current kind.  Events of one block come in no particular order.
Due(e) ==
  /\ pc = "scan"
  /\ e.kind = Kinds[stage]
  /\ e \notin done
  /\ InRound(e)
  /\ \A f \in Event : f.kind = e.kind /\ f.num < e.num /\ f \notin done => ~ InRound(f)

Handled(e) ==
  /\ done' = done \cup {e}
  /\ UNCHANGED <<tip, visible, head, pc, endNum, stage, todo, spent>>
-----------------------------------------------------------------------------
Init ==
  /\ AbsInit
  /\ head = -1
  /\ row = [i \in Item |-> [o \in Holder |-> NoRow]]
  /\ owner = Master
  /\ pc = "down" /\ endNum = 0 /\ stage = 1 /\ done = {} /\ todo = {}
  /\ minted = [k \in Key |-> NoEntry]
  /\ updated = [k \in Key |-> NoDoc]
  /\ spent = [k \in Mishap |-> 0]

\* cleanUpIncompleteData, only here: rows created above the head are deleted.
Start ==
  /\ pc = "down"
  /\ row' = [i \in Item |-> [o \in Holder |->
               IF head # -1 /\ row[i][o].num > head THEN NoRow ELSE row[i][o]]]
  /\ pc' = "idle"
  /\ UNCHANGED <<tip, visible, head, owner, cache, endNum, stage, done, todo, spent>>

\* Without the look at the other head.
BugRoundEnd == head + Window

\* Only whole windows are read.
BugWholeWindow == IF head + Window > tip THEN head ELSE head + Window

RoundEnd == IF head + Window > tip THEN tip ELSE head + Window

BeginRound ==
  /\ pc = "idle"
  /\ RoundEnd > head
  /\ endNum' = RoundEnd
  /\ pc' = "scan"
  /\ stage' = 1
  /\ done' = {}
  /\ UNCHANGED <<tip, visible, head, table, cache, todo, spent>>

\* Nothing to do: the loop goes on without a pause.
NothingToDo ==
  /\ pc = "idle"
  /\ RoundEnd <= head
  /\ UNCHANGED vars

\* scanEIP173InRange: the contract's row is saved at once, if the event fits it.
TransferContract(e) ==
  /\ e.kind = "owner"
  /\ Due(e)
  /\ owner' = IF owner[e.item] \in {NoOwner, e.from} THEN Set(owner, e.item, e.to) ELSE owner
  /\ Handled(e)
  /\ UNCHANGED <<row, cache>>

\* scanERC721InRange and mint721: a token that exists is not minted again.
Mint721(e) ==
  /\ e.kind = "erc721" /\ e.from = Zero
  /\ Due(e)
  /\ minted' = IF IsMinted(Key721(e.item)) \/ \E o \in Holder : Stored(e.item, o)
               THEN minted
               ELSE Set(minted, Key721(e.item), [owner |-> e.to, value |-> 1, num |-> e.num])
  /\ Handled(e)
  /\ UNCHANGED <<table, updated>>

\* The database is asked first.
BugTransfer721(e) ==
  /\ e.kind = "erc721" /\ e.from # Zero
  /\ Due(e)
  /\ LET k == Key721(e.item)
     IN \/ /\ Stored(e.item, e.from)
           /\ updated' = Set(updated, k, [Load(e.item, e.from) EXCEPT !.owner = e.to])
           /\ UNCHANGED minted
        \/ /\ ~ Stored(e.item, e.from)
           /\ minted' = IF IsMinted(k) THEN [minted EXCEPT ![k].owner = e.to] ELSE minted
           /\ UNCHANGED updated
  /\ Handled(e)
  /\ UNCHANGED table

\* transfer721: the cached token, wherever it is; else the row of the sender, if there is one.
Transfer721(e) ==
  /\ e.kind = "erc721" /\ e.from # Zero
  /\ Due(e)
  /\ LET k == Key721(e.item)
     IN \/ /\ IsUpdated(k)
           /\ updated' = [updated EXCEPT ![k].owner = e.to]
           /\ UNCHANGED minted
        \/ /\ ~ IsUpdated(k) /\ IsMinted(k)
           /\ minted' = [minted EXCEPT ![k].owner = e.to]
           /\ UNCHANGED updated
        \/ /\ ~ IsUpdated(k) /\ ~ IsMinted(k)
           /\ updated' = IF Stored(e.item, e.from)
                         THEN Set(updated, k, [Load(e.item, e.from) EXCEPT !.owner = e.to])
                         ELSE updated
           /\ UNCHANGED minted
  /\ Handled(e)
  /\ UNCHANGED table

\* mint1155: a row in the database replaces whatever `updated' held for it.
Mint1155(e) ==
  /\ e.kind \in {"single", "batch"} /\ e.from = Zero
  /\ Due(e)
  /\ LET k == Key1155(e.item, e.to)
     IN \/ /\ IsMinted(k)
           /\ minted' = [minted EXCEPT ![k].value = Plus(@, e.value)]
           /\ UNCHANGED updated
        \/ /\ ~ IsMinted(k) /\ Stored(e.item, e.to)
           /\ updated' = Set(updated, k, [Load(e.item, e.to) EXCEPT !.value = Plus(@, e.value)])
           /\ UNCHANGED minted
        \/ /\ ~ IsMinted(k) /\ ~ Stored(e.item, e.to)
           /\ minted' = Set(minted, k, [owner |-> e.to, value |-> e.value, num |-> e.num])
           /\ UNCHANGED updated
  /\ Handled(e)
  /\ UNCHANGED table
-----------------------------------------------------------------------------
(* transfer1155. *)

\* What the receiver has been minted in this round is forgotten.
BugReceiveMinted(e, block) ==
  IF Stored(e.item, e.to) THEN minted
  ELSE Set(minted, Key1155(e.item, e.to), [owner |-> e.to, value |-> e.value, num |-> block])

\* A receiver without a row gets one, with the creation data of the sender's.
ReceiveMinted(e, block) ==
  IF Stored(e.item, e.to) THEN minted
  ELSE LET k == Key1155(e.item, e.to)
       IN Set(minted, k, [owner |-> e.to, value |-> Plus(minted[k].value, e.value), num |-> block])

\* A receiver with a row gets the value added to it.
ReceiveUpdated(e) ==
  IF Stored(e.item, e.to)
  THEN Set(updated, Key1155(e.item, e.to), [Doc(e.item, e.to) EXCEPT !.value = Plus(@, e.value)])
  ELSE updated

Transferring(e) == /\ e.kind \in {"single", "batch"} /\ e.from # Zero
                   /\ Due(e)

\* The sender was minted in this round and gives everything away: the new row changes hands.
HandOver(e) ==
  /\ Transferring(e)
  /\ LET k == Key1155(e.item, e.from)
     IN /\ IsMinted(k)
        /\ minted[k].value = e.value
        /\ minted' = [minted EXCEPT ![k].owner = e.to]
  /\ Handled(e)
  /\ UNCHANGED <<table, updated>>

\* What the receiver has been minted replaces the entry it was minted into before: the value is
\* taken from the entry that is gone, if the sender is the receiver.
Replaced(e) == e.from = e.to /\ ~ Stored(e.item, e.to)

\* The sender was minted in this round and keeps a part.
SplitMinted(e) ==
  /\ Transferring(e)
  /\ LET k == Key1155(e.item, e.from)
     IN /\ IsMinted(k)
        /\ minted[k].value > e.value
        /\ minted' = IF Replaced(e) THEN ReceiveMinted(e, minted[k].num)
                     ELSE [ReceiveMinted(e, minted[k].num) EXCEPT ![k].value = @ - e.value]
        /\ updated' = ReceiveUpdated(e)
  /\ Handled(e)
  /\ UNCHANGED table

\* The sender has no row.
UnknownSender(e) ==
  /\ Transferring(e)
  /\ ~ IsMinted(Key1155(e.item, e.from))
  /\ ~ Known(e.item, e.from)
  /\ Handled(e)
  /\ UNCHANGED <<table, cache>>

\* The sender has a row and gives everything away: the row is left as it is in the database.
GiveAll(e) ==
  /\ Transferring(e)
  /\ LET k == Key1155(e.item, e.from)
         doc == Doc(e.item, e.from)
     IN /\ ~ IsMinted(k) /\ Known(e.item, e.from)
        /\ doc.value = e.value
        /\ minted' = ReceiveMinted(e, doc.num)
        /\ updated' = [ReceiveUpdated(e) EXCEPT ![k] = NoDoc]
  /\ Handled(e)
  /\ UNCHANGED table

\* Both ends of the transfer are one document of the cache, to which the value is added before it
\* is taken away.  (If that has yet to be read it is read twice, and the copy from which the value
\* is taken is the one that stays.)
SameDoc(e) == e.from = e.to /\ IsUpdated(Key1155(e.item, e.from)) /\ Stored(e.item, e.to)

\* The sender has a row and keeps a part.
Split(e) ==
  /\ Transferring(e)
  /\ LET k == Key1155(e.item, e.from)
         doc == Doc(e.item, e.from)
     IN /\ ~ IsMinted(k) /\ Known(e.item, e.from)
        /\ doc.value > e.value
        /\ minted' = ReceiveMinted(e, doc.num)
        /\ updated' = IF SameDoc(e) THEN updated
                      ELSE [ReceiveUpdated(e) EXCEPT ![k] = [doc EXCEPT !.value = @ - e.value]]
  /\ Handled(e)
  /\ UNCHANGED table

\* NotEnoughBalance: the loop begins again in five minutes, with the cache as it is.
NotEnoughBalance(e) ==
  /\ Transferring(e)
  /\ LET k == Key1155(e.item, e.from)
     IN \/ IsMinted(k) /\ minted[k].value < e.value
        \/ ~ IsMinted(k) /\ Known(e.item, e.from) /\ Doc(e.item, e.from).value < e.value
  /\ pc' = "idle"
  /\ spent' = [spent EXCEPT !["short"] = 1]
  /\ UNCHANGED <<tip, visible, head, table, cache, endNum, stage, done, todo>>
-----------------------------------------------------------------------------
(* saveToDB and updateHead. *)

NextKind ==
  /\ pc = "scan"
  /\ \A e \in Event : e.kind = Kinds[stage] /\ e \notin done => ~ InRound(e)
  /\ IF stage = Len(Kinds) THEN pc' = "insert" /\ stage' = stage
                           ELSE pc' = pc /\ stage' = stage + 1
  /\ UNCHANGED <<tip, visible, head, table, cache, endNum, done, todo, spent>>

MintedKeys == { k \in Key : IsMinted(k) }

\* The unique index of nft: address, tokenId and owner.
Slot(k) == <<k[1], minted[k].owner>>

\* Sets of new rows the index accepts together.
Insertable(S) == /\ \A k \in S : ~ Stored(k[1], minted[k].owner)
                 /\ \A j, k \in S : Slot(j) = Slot(k) => j = k

\* The rows after the insertion of those of S.
WithRows(S) ==
  [i \in Item |-> [o \in Holder |->
     LET K == { k \in S : Slot(k) = <<i, o>> }
     IN IF K = {} THEN row[i][o]
        ELSE LET k == CHOOSE k \in K : TRUE
             IN [value |-> minted[k].value, num |-> minted[k].num]]]

InsertMinted ==
  /\ pc = "insert"
  /\ Insertable(MintedKeys)
  /\ row' = WithRows(MintedKeys)
  /\ pc' = "update"
  /\ todo' = { k \in Key : IsUpdated(k) }
  /\ UNCHANGED <<tip, visible, head, owner, cache, endNum, stage, done, spent>>

\* The index refuses a row; the others are in place when the next round begins.
InsertRefused ==
  /\ pc = "insert"
  /\ ~ Insertable(MintedKeys)
  /\ \E S \in SUBSET MintedKeys :
       /\ Insertable(S)
       /\ \A k \in MintedKeys \ S : ~ Insertable(S \cup {k})
       /\ row' = WithRows(S)
  /\ pc' = "idle"
  /\ spent' = [spent EXCEPT !["refused"] = 1]
  /\ UNCHANGED <<tip, visible, head, owner, cache, endNum, stage, done, todo>>

\* The save of a document works only if its row is there and its new place is free.
Savable(i, d) == /\ Stored(i, d.origin)
                 /\ d.owner = d.origin \/ ~ Stored(i, d.owner)

\* A token of a burnt item stays with its last owner.
BugSaved(i, d) ==
  IF Savable(i, d) /\ d.owner # Zero
  THEN [row[i] EXCEPT ![d.origin] = NoRow, ![d.owner] = [value |-> d.value, num |-> d.num]]
  ELSE row[i]

\* The rows of an item after deleteOne or save of a document.
Saved(i, d) ==
  IF d.owner = Zero THEN [row[i] EXCEPT ![d.origin] = NoRow]
  ELSE IF Savable(i, d)
       THEN [row[i] EXCEPT ![d.origin] = NoRow, ![d.owner] = [value |-> d.value, num |-> d.num]]
       ELSE row[i]

\* One document of `updated'; the pool does not report the saves that fail.
SaveRow(k) ==
  /\ pc = "update"
  /\ k \in todo
  /\ row' = Set(row, k[1], Saved(k[1], updated[k]))
  /\ updated' = IF updated[k].owner # Zero /\ Savable(k[1], updated[k])
                THEN [updated EXCEPT ![k].origin = updated[k].owner] ELSE updated
  /\ todo' = todo \ {k}
  /\ UNCHANGED <<tip, visible, head, owner, minted, pc, endNum, stage, done, spent>>

UpdateHead ==
  /\ pc = "update"
  /\ todo = {}
  /\ endNum \in visible
  /\ head' = endNum
  /\ EmptyCache
  /\ pc' = "idle"
  /\ UNCHANGED <<tip, visible, table, endNum, stage, done, todo, spent>>

\* The importer has no block of that number: everything has been saved, and the loop fails.
EmptyEndBlock ==
  /\ pc = "update"
  /\ todo = {}
  /\ endNum \notin visible
  /\ pc' = "idle"
  /\ UNCHANGED <<tip, visible, head, table, cache, endNum, stage, done, todo, spent>>
-----------------------------------------------------------------------------
(* Failures. *)

\* Some of the new rows have been inserted when the step is cut short.
CutShort == IF pc = "insert"
            THEN \E S \in SUBSET MintedKeys : Insertable(S) /\ row' = WithRows(S)
            ELSE row' = row

\* A call fails: the catch clause sleeps and begins a new round.
CallFails ==
  /\ \/ pc \in {"scan", "insert"}
     \/ pc = "update" /\ todo = {}
  /\ LET kind == IF pc = "scan" THEN "error" ELSE "saveError"
     IN CanSpend(kind) /\ Spend(kind)
  /\ CutShort
  /\ pc' = "idle"
  /\ UNCHANGED <<tip, visible, head, owner, cache, endNum, stage, done, todo>>

\* A save that fails is taken for one that worked.
SaveSwallowed(k) ==
  /\ pc = "update"
  /\ k \in todo
  /\ CanSpend("swallow") /\ Spend("swallow")
  /\ todo' = todo \ {k}
  /\ UNCHANGED <<tip, visible, head, table, cache, pc, endNum, stage, done>>

Crash ==
  /\ pc # "down"
  /\ LET kind == IF pc \in {"insert", "update"} THEN "saveCrash" ELSE "crash"
     IN CanSpend(kind) /\ Spend(kind)
  /\ CutShort
  /\ EmptyCache
  /\ pc' = "down"
  /\ todo' = {}
  /\ UNCHANGED <<tip, visible, head, owner, endNum, stage, done>>

PosImport == /\ ImportBatch
             /\ UNCHANGED <<head, table, cache, control, spent>>
-----------------------------------------------------------------------------
(* The specification. *)

Scan(e) == \/ TransferContract(e) \/ Mint721(e) \/ Transfer721(e) \/ Mint1155(e)
           \/ HandOver(e) \/ SplitMinted(e) \/ UnknownSender(e) \/ GiveAll(e) \/ Split(e)
           \/ NotEnoughBalance(e)

Save == InsertMinted \/ InsertRefused \/ (\E k \in Key : SaveRow(k)) \/ UpdateHead \/ EmptyEndBlock

Program == Start \/ BeginRound \/ NothingToDo \/ (\E e \in Event : Scan(e)) \/ NextKind \/ Save

Fault == CallFails \/ (\E k \in Key : SaveSwallowed(k)) \/ Crash

Next == Program \/ Fault \/ PosImport

Spec == Init /\ [][Next]_vars

\* The process is one thread, every call ends, docker restarts it; nothing is assumed of the rest.
FairSpec == Spec /\ WF_vars(Program)
-----------------------------------------------------------------------------
(* The chain. *)

EventsOf(i, n) == { e \in Event : e.item = i /\ e.num <= n }

\* Who owns an ERC-721 token, or a contract, after block n.
OwnerAt(i, n) ==
  LET E == EventsOf(i, n)
  IN IF E = {} THEN NoOwner ELSE (CHOOSE e \in E : \A f \in E : f.num <= e.num).to

Total(E) == MapThenSumSet(LAMBDA e : e.value, E)

\* What o holds of an ERC-1155 token after block n.
HeldAt(i, o, n) == Total({ e \in EventsOf(i, n) : e.to = o }) - Total({ e \in EventsOf(i, n) : e.from = o })

\* The order of an item's events is lost if two of them are in one block.
Ordered(i) == \A e, f \in Event : e.item = i /\ f.item = i /\ e.num = f.num => e = f

\* The first transfer of a contract's ownership comes from its master or goes to it; a contract
\* that a factory hands over to somebody else is never followed.
FromMaster(c) ==
  \/ Master[c] = NoOwner
  \/ \E e \in EventsOf(c, MaxBlock) :
       /\ Master[c] \in {e.from, e.to}
       /\ \A f \in EventsOf(c, MaxBlock) : e.num <= f.num

MintsOf(i) == { e \in Event : e.item = i /\ e.from = Zero }

\* An event names the owner before it, and a token begins with its mint.
Chained(i) ==
  \A e \in Event : e.item = i =>
    /\ EventsOf(i, e.num - 1) # {} => e.from = OwnerAt(i, e.num - 1)
    /\ i \in Item721 => \E f \in MintsOf(i) : f.num <= e.num

\* Items whose owner the code can follow: minted once.  A token minted again after a burn is taken
\* for one that exists.
Followed == { i \in Item721 : Ordered(i) /\ Chained(i) /\ \A e, f \in MintsOf(i) : e = f }

(***************************************************************************)
(* The ERC-1155 tokens whose holdings the code can follow: singles and     *)
(* batches, which are read one after the other, do not mix; nobody gives   *)
(* everything away, or anything to himself, which the code books as a gift *)
(* or as a loss; and a mint is the first thing its receiver gets.          *)
(***************************************************************************)
Tame == { i \in Item1155 :
            /\ Ordered(i)
            /\ \A e, f \in Event : e.item = i /\ f.item = i => e.kind = f.kind
            /\ \A e \in Event : e.item = i /\ e.from # Zero => HeldAt(i, e.from, e.num) > 0
            /\ \A e \in Event : e.item = i => e.from # e.to
            /\ \A e \in MintsOf(i) : \A f \in EventsOf(i, e.num) : f.to = e.to => f = e }

\* The events are finitely many, and MaxValue stops nothing that is read once.
ASSUME RoomAssumption ==
  /\ IsFiniteSet(Event)
  /\ \A i \in Tame : \A o \in Owner : \A n \in Block : HeldAt(i, o, n) <= MaxValue
-----------------------------------------------------------------------------
(* Properties. *)

NoGap == visible = 0..tip

\* No call failed while the process was saving.
NoCallFailed == spent["swallow"] = 0 /\ spent["saveError"] = 0

\* Every save that was begun came to its end, or to that of the process.  (The rows of a refused
\* insertion that are in place stay, and the cache they came from goes on changing: a later round
\* may insert the same token for another owner.)
NoSaveFailed == NoCallFailed /\ spent["refused"] = 0

NothingFails == NoCallFailed /\ spent["saveCrash"] = 0 /\ spent["error"] = 0

\* What is in the cache is what one reading of the events leaves there, and it was saved once.
ReadOnce == NothingFails /\ spent["refused"] = 0 /\ spent["short"] = 0

HoldersOf(i) == { o \in Owner : Stored(i, o) }

\* The head moves only when every event of the blocks it passes has been handled in this very
\* round, whatever the importer, errors and crashes did since the last time.
NoEventSkipped ==
  [][ head' # head => \A e \in Event : e.num \in visible /\ head < e.num /\ e.num <= head' => e \in done ]_vars

\* Every followed ERC-721 token has exactly the owner it has on the chain at block n.
TokenOwnersAt(n) == \A i \in Followed : HoldersOf(i) = {OwnerAt(i, n)} \cap Owner

\* The same for the owners of contracts, which are written while events are still being read.
ContractOwnersAt(n) ==
  \A c \in Contract : Ordered(c) /\ Chained(c) /\ FromMaster(c) /\ EventsOf(c, n) # {} =>
    owner[c] = OwnerAt(c, n)

\* When the head moves, tokens and contracts have the owners of the chain at the new head, even
\* if the same transfers were applied to a row before, once or several times, by attempts that
\* ended in a crash or an error: the row's owner decides where a replay sets in.
OwnersExact ==
  [][ head' # head /\ NoGap => (NoSaveFailed => TokenOwnersAt(head')) /\ ContractOwnersAt(head') ]_vars

\* When the head moves, the holdings of the tame ERC-1155 tokens are those of the chain, if no
\* attempt to save them was interrupted: additions cannot be recognised when they are replayed.
\* Nothing is said of a token that somebody transferred to himself, which the code accepts and
\* gets wrong, nor of one that somebody gave away as a whole: see Tame.
HoldingsExact ==
  [][ head' # head /\ ReadOnce /\ NoGap =>
        \A i \in Tame : \A o \in Owner : row[i][o].value = HeldAt(i, o, head') ]_vars

\* If no call fails and no save is interrupted, the process comes to the head of the importer and
\* stays there.  (Not for every chain: see RoundResolves.)
FollowsImport == []NothingFails => <>[](NoGap => head = tip)
-----------------------------------------------------------------------------
(* Statements of the code that the process does not live up to. *)

\* nft.cmd.ts:117: the loop sleeps after an error in the hope that the next round resolves it.
RoundResolves == <>[](NoGap => head = tip)
=============================================================================
