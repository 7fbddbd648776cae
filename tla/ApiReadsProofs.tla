--------------------------- MODULE ApiReadsProofs ---------------------------
(***************************************************************************)
(* Proofs about ApiReads: type correctness, that no part of an answer is   *)
(* missing below the head, and that a client that walks through a list     *)
(* misses nothing.                                                         *)
(*                                                                         *)
(* What is used of the handlers is HandlerSound, shown for each of them    *)
(* once.  AnswerInv says which rows are stored: all up to the head but for *)
(* a contract that is being replaced, above it none before those it refers *)
(* to, and of the program behind the import all up to its own head and no  *)
(* summary without its rewards, but during a cleanup.  WalkInv says how    *)
(* many rows are before one that the client has not received yet.          *)
(***************************************************************************)
EXTENDS ApiReads, FiniteSetTheorems, TLAPS

USE DEF Contracts, Committees

\* The orders of the lists.
Sorts == {"newest", "block", "tx", "oldest", "tokenId", "any"}

\* Row r of a list refers to p.
Refers(r, p) ==
  /\ p \in Row
  /\ \/ p.in \in ToSet(SaveOrder) /\ (<<r.in, p.in>> \in SavedFirst => p.block <= r.block)
     \/ r.in = "epochRewardSummary" /\ p.in = "epochReward" /\ p.block = r.block

QuerySound(q) ==
  /\ DOMAIN q = {"count", "joined", "list", "kept", "sort", "unwind"}
  /\ q.list \subseteq Row /\ q.count \subseteq Row
  /\ q.sort \in Sorts
  /\ q.unwind \in BOOLEAN /\ q.joined \in BOOLEAN

\* What a handler looks up for a row, below the head, is there if the row is, and stays there.
LeavesNone(h) == \A r \in h.query.list : \A p \in h.needs[r] \cup h.parts[r] :
                   p.in \in ToSet(SaveOrder) \ {"contract"} /\ p.block <= r.block

\* What the proofs use of a handler.
HandlerSound(h) ==
  /\ DOMAIN h = {"query", "total", "first", "needs", "parts", "leavesOut", "whenEnded"}
  /\ QuerySound(h.query)
  /\ \A r \in h.query.list : \A p \in h.needs[r] \cup h.parts[r] : Refers(r, p)
  /\ h.total \in {"before", "after", "short", "page", "one"}
  /\ h.first \subseteq Row
  /\ h.leavesOut /\ ~ h.query.joined /\ h.total # "one" => LeavesNone(h)
  /\ h.leavesOut \in BOOLEAN /\ h.whenEnded \in BOOLEAN
-----------------------------------------------------------------------------
(* The handlers. *)

LEMMA SaveFacts ==
  /\ ToSet(SaveOrder) = {"movement", "tx", "logEvent", "committee", "txDigest", "contract", "internalTx", "block"}
  /\ \A i \in 1..8 : SaveOrder[i] \in ToSet(SaveOrder)
  <1>1. DOMAIN SaveOrder = 1..8
    BY DEF SaveOrder
  <1>2. ToSet(SaveOrder) = { SaveOrder[j] : j \in 1..8 }
    BY <1>1 DEF ToSet
  <1>3. /\ SaveOrder[1] = "movement" /\ SaveOrder[2] = "tx" /\ SaveOrder[3] = "logEvent"
        /\ SaveOrder[4] = "committee" /\ SaveOrder[5] = "txDigest" /\ SaveOrder[6] = "contract"
        /\ SaveOrder[7] = "internalTx" /\ SaveOrder[8] = "block"
    BY DEF SaveOrder
  <1>4. 1..8 = {1, 2, 3, 4, 5, 6, 7, 8}
    OBVIOUS
  <1>5. ToSet(SaveOrder) = {SaveOrder[1], SaveOrder[2], SaveOrder[3], SaveOrder[4],
                            SaveOrder[5], SaveOrder[6], SaveOrder[7], SaveOrder[8]}
    BY <1>2, <1>4
  <1>. QED  BY <1>2, <1>3, <1>5

\* What a row of a list refers to.

LEMMA ContractOfRefers == \A r \in Row : r.in # "internalTx" => \A p \in ContractOf(r) : Refers(r, p)
  BY SaveFacts, RowAssumption DEF Refers, SavedFirst, In, ContractOf

LEMMA PartiesOfRefers == \A r \in Row : \A p \in PartiesOf(r) : Refers(r, p)
  BY SaveFacts, RowAssumption DEF Refers, SavedFirst, In, PartiesOf

LEMMA TxOfRefers == \A r \in Row : \A p \in TxOf(r) : Refers(r, p)
  BY SaveFacts, RowAssumption DEF Refers, SavedFirst, In, TxOf

LEMMA DigestsRefers == \A r \in Row : \A p \in Digests(r) : Refers(r, p)
  BY SaveFacts, RowAssumption DEF Refers, SavedFirst, In, Digests

LEMMA TxsOfRefers == \A r \in Row : \A p \in TxsOf(r) : Refers(r, p)
  BY SaveFacts, RowAssumption DEF Refers, SavedFirst, In, TxsOf

LEMMA CoinbaseRefers == \A r \in Row : \A p \in Coinbase(r) : Refers(r, p)
  BY SaveFacts, RowAssumption DEF Refers, SavedFirst, In, TxsOf, Coinbase

LEMMA JailedAtRefers == \A r \in Row : \A p \in JailedAt(r) : Refers(r, p)
  BY SaveFacts, RowAssumption DEF Refers, SavedFirst, In, JailedAt, BlockAt

LEMMA NextBlockRefers == \A r \in Row : \A p \in NextBlock(r) : Refers(r, p)
  BY SaveFacts, RowAssumption DEF Refers, SavedFirst, In, NextBlock, BlockAt

LEMMA EndBlockRefers == \A r \in Row : \A p \in EndBlock(r) : Refers(r, p)
  BY SaveFacts, RowAssumption DEF Refers, SavedFirst, In, EndBlock

LEMMA BlocksOfRefers == \A r \in Row : \A p \in BlocksOf(r) : Refers(r, p)
  BY SaveFacts, RowAssumption DEF Refers, SavedFirst, In, BlocksOf

LEMMA CoinbaseBeforeRefers == \A r \in Row : r.in = "committee" => \A p \in CoinbaseBefore(r) : Refers(r, p)
  BY SaveFacts, RowAssumption DEF Refers, SavedFirst, In, CoinbaseBefore, BlockAt, Coinbase, TxsOf

LEMMA RewardsRefers == \A r \in Row : r.in = "epochRewardSummary" => \A p \in Rewards(r) : Refers(r, p)
  BY SaveFacts, RowAssumption DEF Refers, SavedFirst, In, Rewards

\* Those a row is not shown without are of its own block or of one before.
LEMMA LeaveFacts ==
  ASSUME NEW r \in Row
  PROVE  /\ \A p \in Digests(r) : p.in \in ToSet(SaveOrder) \ {"contract"} /\ p.block <= r.block
         /\ \A p \in CoinbaseBefore(r) : p.in \in ToSet(SaveOrder) \ {"contract"} /\ p.block <= r.block
  <1>. USE SaveFacts, RowAssumption DEF In
  <1>1. \A p \in Digests(r) : p.in \in ToSet(SaveOrder) \ {"contract"} /\ p.block <= r.block
    BY DEF Digests
  <1>2. \A p \in CoinbaseBefore(r) : p.in \in ToSet(SaveOrder) \ {"contract"} /\ p.block <= r.block
    BY DEF CoinbaseBefore, BlockAt, Coinbase, TxsOf
  <1>. QED  BY <1>1, <1>2

LEMMA TokenFacts == \A t : NFTHolders(t) \subseteq Token("nft", t) /\ ContractAt(t) \subseteq Row
  BY DEF NFTHolders, Firsts, ContractAt, In, Token

\* Every handler is sound.
LEMMA HandlersSound == \A h \in Handlers : HandlerSound(h)
  <1>. USE DEF HandlerSound, QuerySound, LeavesNone, Query, None, Sorts, In, Of, Kind, Token, Pages, One, Latest,
               Download, First, Needs, Parts, LeavesOut, WhenEnded
  <1>1. HandlerSound(getTopMTRAccounts)
    BY DEF getTopMTRAccounts, TopAccounts
  <1>2. HandlerSound(getTopMTRGAccounts)
    BY DEF getTopMTRGAccounts, TopAccounts
  <1>3. HandlerSound(getAccount)
    BY PartiesOfRefers DEF getAccount
  <1>4. HandlerSound(getTxsByAccount)
    BY PartiesOfRefers DEF getTxsByAccount, TxDigestsByAccount, TxDigestsPaginate
  <1>5. HandlerSound(getBidsByAccount)
    BY DEF getBidsByAccount, BidsByAddress, BidsPaginate
  <1>6. HandlerSound(getTokenHoldersByAccount)
    BY TokenFacts DEF getTokenHoldersByAccount, HoldersByTokenAddress
  <1>7. HandlerSound(getNFTHoldersByAccount)
    <2>1. \A t : \A r \in NFTHolders(t) : r \in Row
      BY TokenFacts DEF Token, In
    <2>. HIDE DEF Token, In, Of, Kind
    <2>. QED  BY <2>1, TokenFacts DEF getNFTHoldersByAccount, NFTsByAddressGroupByHolder
  <1>8. HandlerSound(getTokensByAccount)
    BY ContractOfRefers DEF getTokensByAccount, TokensByAddress
  <1>9. HandlerSound(getERC20TokensByAccount)
    BY ContractOfRefers, LeaveFacts DEF getERC20TokensByAccount, ERC20ByAddress, PageThenType,
           TokensByAddress
  <1>10. HandlerSound(getNFTsByAccount)
    BY ContractOfRefers DEF getNFTsByAccount, NFTsByOwnerGroupByToken, Firsts
  <1>11. HandlerSound(getNFTTokensByAccount)
    BY ContractOfRefers, LeaveFacts DEF getNFTTokensByAccount, NFTByAddress, PageThenType,
           TokensByAddress, NFTKinds
  <1>12. HandlerSound(getTransfersByAccount)
    BY PartiesOfRefers, TokenFacts DEF getTransfersByAccount, MovementsByTokenAddress,
           MovementsPaginate
  <1>13. HandlerSound(getERC20TxsByAccount)
    BY ContractOfRefers, PartiesOfRefers, TxOfRefers DEF getERC20TxsByAccount, ERC20TxsByAccount,
           ERC20TxsByAddress, TxAndParties
  <1>14. HandlerSound(getERC721TxsByAccount)
    BY ContractOfRefers DEF getERC721TxsByAccount, ERC721TxsByAccount, ERC721TxsByAddress
  <1>15. HandlerSound(getERC1155TxsByAccount)
    BY ContractOfRefers DEF getERC1155TxsByAccount, ERC1155TxsByAccount, ERC1155TxsByAddress
  <1>16. HandlerSound(getNFTTxsByAccount)
    BY TxOfRefers, TokenFacts DEF getNFTTxsByAccount, NFTTxsByAccount, NFTTxsByAddress, NFTKinds
  <1>17. HandlerSound(getNFTTxsByTokenAddrTokenId)
    BY DEF getNFTTxsByTokenAddrTokenId, MovementsByTokenAddrTokenId, MovementsPaginate, NFTKinds
  <1>18. HandlerSound(getBucketsByAccount)
    BY DEF getBucketsByAccount, BucketsByAccount
  <1>19. HandlerSound(getProposedByAccount)
    BY DEF getProposedByAccount, BlocksByBeneficiary, BlocksPaginate
  <1>20. HandlerSound(getDelegatorsByAccount)
    BY DEF getDelegatorsByAccount, BucketsByAccount
  <1>21. HandlerSound(getInternalTxs)
    BY PartiesOfRefers DEF getInternalTxs, InternalTxsByAddress
  <1>22. HandlerSound(getEvents)
    BY TxOfRefers DEF getEvents, EventsByAddress
  <1>23. HandlerSound(getRecent)
    BY DigestsRefers, LeaveFacts DEF getRecent, TxsAll
  <1>24. HandlerSound(getTxByHash)
    BY PartiesOfRefers DEF getTxByHash
  <1>25. HandlerSound(TxAlone)
    BY DEF TxAlone
  <1>26. HandlerSound(getBlockByRevision)
    BY TxsOfRefers DEF getBlockByRevision
  <1>27. HandlerSound(getBlockTxs)
    BY TxsOfRefers DEF getBlockTxs
  <1>28. HandlerSound(getRecentBlocks)
    BY DEF getRecentBlocks, BlocksAll, BlocksPaginate
  <1>29. HandlerSound(getRecentEpochs)
    BY EndBlockRefers DEF getRecentEpochs, CommitteesAll
  <1>30. HandlerSound(getMembersByEpoch)
    BY DEF getMembersByEpoch
  <1>31. HandlerSound(getStatsByEpoch)
    BY BlocksOfRefers DEF getStatsByEpoch
  <1>32. HandlerSound(getEpochDetail)
    BY EndBlockRefers DEF getEpochDetail
  <1>33. HandlerSound(getPowRewards)
    BY CoinbaseBeforeRefers, LeaveFacts DEF getPowRewards, CommitteesAll
  <1>34. HandlerSound(getPowRewardsByEpoch)
    BY CoinbaseRefers, LeaveFacts DEF getPowRewardsByEpoch
  <1>35. HandlerSound(getCandidates)
    BY DEF getCandidates, ValidatorsByFilter
  <1>36. HandlerSound(getDelegates)
    BY DEF getDelegates, ValidatorsByFilter
  <1>37. HandlerSound(getJailed)
    BY JailedAtRefers DEF getJailed, ValidatorsByFilter
  <1>38. HandlerSound(getEpochRewards)
    BY DEF getEpochRewards, EpochRewardSummaries
  <1>39. HandlerSound(getEpochRewardByEpoch)
    BY RewardsRefers DEF getEpochRewardByEpoch
  <1>40. HandlerSound(getCommitteeData)
    BY NextBlockRefers DEF getCommitteeData, KBlocks, BlocksPaginate
  <1>41. HandlerSound(getTokensInCollection)
    <2>1. \A t : \A r \in NFTHolders(t) : r \in Row
      BY TokenFacts DEF Token, In
    <2>. QED  BY <2>1, TokenFacts DEF getTokensInCollection, NFTsByAddress
  <1>42. HandlerSound(getTokenDetail)
    BY TokenFacts DEF getTokenDetail
  <1>43. HandlerSound(getNFTCollectionsInRange)
    BY DEF getNFTCollectionsInRange, NFTContractsInRange, InRange, NFTKinds
  <1>44. HandlerSound(getNFTTokensInRange)
    BY DEF getNFTTokensInRange, NFTsInRange, InRange
  <1>45. HandlerSound(getNFTTransfersInRange)
    BY DEF getNFTTransfersInRange, NFTMovementsInRange, InRange, NFTKinds
  <1>46. HandlerSound(downloadTransfer)
    BY TokenFacts DEF downloadTransfer, MovementsByTokenAddressInRange, MovementsPaginate, InRange
  <1>47. HandlerSound(downloadTxs)
    BY DEF downloadTxs, TxDigestsByAccountInRange, TxDigestsPaginate, InRange
  <1>48. HandlerSound(downloadErc20Txs)
    BY ContractOfRefers DEF downloadErc20Txs, ERC20TxsByAccountInRange, InRange, ERC20TxsByAddress
  <1>49. HandlerSound(downloadNftTxs)
    BY TokenFacts DEF downloadNftTxs, NFTTxsByAccountInRange, InRange, NFTTxsByAddress, NFTKinds
  <1>50. HandlerSound(getEventsOnAddressInRange)
    BY DEF getEventsOnAddressInRange, EventsOnAddressInRange, InRange
  <1>51. HandlerSound(getEventsByFilter)
    BY DEF getEventsByFilter, EventsByFilter
  <1>52. HandlerSound(getPastAuctions)
    BY DEF getPastAuctions, AuctionsPast
  <1>53. HandlerSound(getAuctionByID)
    BY DEF getAuctionByID
  <1>54. HandlerSound(getAuctionBids)
    BY DEF getAuctionBids, BidsByAuctionID, BidsPaginate
  <1>55. HandlerSound(getUserbidsByAuctionID)
    BY DEF getUserbidsByAuctionID, UserbidsByAuctionID, BidsPaginate
  <1>56. HandlerSound(getAutobidsByEpoch)
    BY DEF getAutobidsByEpoch, AutobidsByEpoch, BidsPaginate
  <1>. HIDE DEF HandlerSound
  <1>. QED  BY <1>1, <1>2, <1>3, <1>4, <1>5, <1>6, <1>7, <1>8, <1>9, <1>10, <1>11, <1>12, <1>13,
               <1>14, <1>15, <1>16, <1>17, <1>18, <1>19, <1>20, <1>21, <1>22, <1>23, <1>24, <1>25,
               <1>26, <1>27, <1>28, <1>29, <1>30, <1>31, <1>32, <1>33, <1>34, <1>35, <1>36, <1>37,
               <1>38, <1>39, <1>40, <1>41, <1>42, <1>43, <1>44, <1>45, <1>46, <1>47, <1>48, <1>49,
               <1>50, <1>51, <1>52, <1>53, <1>54, <1>55, <1>56 DEF Handlers
-----------------------------------------------------------------------------
(* What is stored. *)

HandlerInv == handler \in Handlers /\ rows = Relevant(handler)

\* What the head has reached is there, but for a contract that is being replaced.
PrefixInv ==
  \A r \in rows : r.in \in ToSet(SaveOrder) /\ r.block <= head => InStore(r) \/ CreatedAgain(r, head)

\* Above the head, a row is behind those that are saved before it.
Ordered ==
  \A r \in db, p \in rows :
    <<r.in, p.in>> \in SavedFirst /\ head < p.block /\ p.block <= r.block => p \in db \/ Known(p)

\* A cleanup begins with all rows in order, and deletes some of them.
OrderInv == task # "clean" \/ (step # "new" /\ ~ disturbed) => Ordered

\* No row is of a block above the batch, or above the head when there is no batch.
BatchInv ==
  \A r \in db : r.in \in ToSet(CleanOrder) =>
    /\ task = "idle" => r.block <= head
    /\ task \in {"process", "save"} => r.block <= upTo

\* What the program behind the import has reached is there.
ReviewedInv == \A r \in rows : r.in \in Followers /\ r.block <= reviewed => r \in db

\* A summary is behind the rewards of its block.
RewardsFirst ==
  \A s \in db, w \in rows :
    s.in = "epochRewardSummary" /\ w.in = "epochReward" /\ w.block <= s.block => w \in db

\* This program's cleanup, too, begins with all rows in order.
RewardInv == follower # "clean" \/ (step # "new" /\ ~ disturbed) => RewardsFirst

ReadInv ==
  /\ asked <= head
  /\ task \in {"process", "save"} => head < upTo
  /\ step = "new" => torn = {} /\ page = 1
  /\ step = "read" /\ ~ disturbed => found \subseteq db

AnswerInv ==
  /\ TypeOK /\ HandlerInv /\ PrefixInv /\ BatchInv /\ OrderInv
  /\ ReviewedInv /\ RewardInv /\ ReadInv /\ AnswersWhole

LEMMA RowFacts ==
  ASSUME HandlerInv
  PROVE  /\ rows \subseteq Row /\ IsFiniteSet(rows) /\ HandlerSound(handler)
         /\ Q.list \subseteq rows /\ Q.count \subseteq rows /\ handler.first \subseteq rows
         /\ \A r \in Q.list : handler.needs[r] \cup handler.parts[r] \cup ContractOf(r) \subseteq rows
         /\ \A r \in rows : r.in = "contract" => ContractOf(r) \subseteq rows
         /\ \A r \in rows : r.block \in Nat /\ r.tx \in Nat /\ r.pos \in Nat
  <1>1. HandlerSound(handler) /\ rows = Relevant(handler)
    BY HandlersSound DEF HandlerInv
  <1>2. \A r \in Q.list : handler.needs[r] \cup handler.parts[r] \cup ContractOf(r) \subseteq Row
    BY <1>1 DEF HandlerSound, Refers, ContractOf, In, Q
  <1>3. rows \subseteq Row
    BY <1>1, <1>2 DEF Relevant, Touched, HandlerSound, QuerySound, Q, In
  <1>4. IsFiniteSet(rows)
    BY <1>3, RowAssumption, FS_Subset
  <1>5. /\ Q.list \subseteq rows /\ Q.count \subseteq rows /\ handler.first \subseteq rows
        /\ \A r \in Q.list : handler.needs[r] \cup handler.parts[r] \cup ContractOf(r) \subseteq rows
    BY <1>1 DEF Relevant, Touched, Q
  <1>7. ASSUME NEW r \in rows, r.in = "contract", NEW c \in ContractOf(r) PROVE c \in rows
    <2>1. PICK d \in Touched(handler) : d.in = "contract" /\ d.token = r.token
      BY <1>1, <1>7 DEF Relevant, ContractOf
    <2>2. c \in Contracts /\ c \in ContractOf(d)
      BY <2>1, <1>7 DEF ContractOf
    <2>. QED  BY <1>1, <2>1, <2>2 DEF Relevant
  <1>6. \A r \in rows : r.block \in Nat /\ r.tx \in Nat /\ r.pos \in Nat
    BY <1>3, RowAssumption
  <1>. QED  BY <1>1, <1>3, <1>4, <1>5, <1>6, <1>7

LEMMA SizeFact ==
  ASSUME HandlerInv, NEW S, S \subseteq rows, NEW T, T \subseteq S
  PROVE  /\ IsFiniteSet(S) /\ Cardinality(S) \in Nat /\ IsFiniteSet(T) /\ Cardinality(T) \in Nat
         /\ Cardinality(T) <= Cardinality(S) /\ (T # S => Cardinality(T) < Cardinality(S))
  <1>1. IsFiniteSet(S)
    BY RowFacts, FS_Subset
  <1>2. IsFiniteSet(T) /\ Cardinality(T) <= Cardinality(S) /\ (Cardinality(S) = Cardinality(T) => S = T)
    BY <1>1, FS_Subset
  <1>3. Cardinality(S) \in Nat /\ Cardinality(T) \in Nat
    BY <1>1, <1>2, FS_CardinalityType
  <1>. QED  BY <1>1, <1>2, <1>3
-----------------------------------------------------------------------------
(* The type invariant. *)

LEMMA PageFact ==
  ASSUME HandlerInv, db \subseteq rows, NEW P \in PossiblePages
  PROVE  P \subseteq Q.list \cap db /\ Cardinality(P) <= PageSize /\ PageSize \in Nat \ {0}
  <1>1. PageSize \in Nat \ {0}
    BY ApiAssumption DEF PageSize
  <1>2. PICK S \in SUBSET Listed : P \in kSubset(Least(PageSize, Cardinality(Listed \ S)), Listed \ S)
    BY DEF PossiblePages, kSubset
  <1>3. P \subseteq Listed /\ Cardinality(P) = Least(PageSize, Cardinality(Listed \ S))
    BY <1>2 DEF kSubset
  <1>4. Listed \subseteq Q.list \cap db
    BY DEF Listed
  <1>5. Cardinality(Listed \ S) \in Nat
    BY <1>4, SizeFact
  <1>. QED  BY <1>1, <1>3, <1>4, <1>5 DEF Least

LEMMA LackFact ==
  ASSUME HandlerInv, NEW r \in Q.list, NEW p \in Lacks(r)
  PROVE  p \in rows /\ ~ InStore(p) /\ Refers(r, p) /\ p \in handler.needs[r] \cup handler.parts[r]
  BY RowFacts DEF Lacks, HandlerSound, Q

LEMMA InitFacts == Init => AnswerInv
  <1>. SUFFICES ASSUME Init PROVE AnswerInv
    OBVIOUS
  <1>1. HandlerInv
    BY DEF Init, HandlerInv
  <1>2. MaxBlock \in Nat \ {0} /\ MaxCrash \in Nat
    BY ApiAssumption
  <1>3. Cardinality(found) <= PageSize
    BY ApiAssumption, FS_EmptySet DEF Init, PageSize
  <1>4. TypeOK
    <2>1. head \in 1..MaxBlock /\ upTo \in 1..MaxBlock /\ crashes \in 0..MaxCrash /\ asked \in 0..MaxBlock
          /\ follower \in {"on", "clean"} /\ reviewed \in 0..MaxBlock
      BY <1>2 DEF Init
    <2>2. db \subseteq rows /\ ended \subseteq Committees
      BY DEF Init
    <2>3. found \subseteq Q.list /\ got \subseteq Q.list \cap Q.kept /\ since \subseteq Q.list \cap Q.kept
      BY DEF Init
    <2>4. page \in Nat \ {0} /\ total \in Nat /\ grew \in Nat
      BY DEF Init
    <2>7. disturbed \in BOOLEAN
      BY DEF Init
    <2>5. \A rp \in torn : rp[1] \in Q.list /\ rp[2] \in rows
      BY DEF Init
    <2>6. task = "idle" /\ step = "new"
      BY DEF Init
    <2>. QED  BY <1>3, <2>1, <2>2, <2>3, <2>4, <2>5, <2>6, <2>7 DEF TypeOK
  <1>5. PrefixInv
    <2>. SUFFICES ASSUME NEW r \in rows, r.in \in ToSet(SaveOrder), r.block <= head PROVE r \in db
      BY DEF PrefixInv, InStore
    <2>1. r.block = 1
      BY <1>1, RowFacts, RowAssumption DEF Init
    <2>2. r.in \notin Followers \cup Refreshed
      BY SaveFacts DEF Followers, Refreshed
    <2>. QED  BY <2>1, <2>2 DEF Init, Stored
  <1>6. Ordered /\ BatchInv
    <2>1. \A r \in db : r.block = 1 /\ head = 1 /\ upTo = 1
      BY DEF Init, Stored
    <2>. QED  BY <1>1, <2>1, RowFacts DEF Ordered, BatchInv
  <1>7. RewardsFirst
    BY DEF Init, Stored, RewardsFirst, Followers
  <1>8. ReviewedInv
    <2>. SUFFICES ASSUME NEW r \in rows, r.in \in Followers PROVE ~ (r.block <= 0)
      BY DEF Init, ReviewedInv
    <2>. QED  BY <1>1, RowFacts, RowAssumption
  <1>. QED
    BY <1>1, <1>4, <1>5, <1>6, <1>7, <1>8 DEF AnswerInv, OrderInv, RewardInv, ReadInv, Init, AnswersWhole

\* No step changes what the client asks for.
LEMMA SameHandler ==
  ASSUME [Next]_vars
  PROVE  handler' = handler /\ rows' = rows
  BY DEF Next, ImportNext, OthersNext, FollowerNext, ClientNext, StartCleanUp, CleanRow, EndCleanUp, BeginBatch,
         CreateRow, BeginSave, SaveRow, ReplaceContract, SaveHead, Crash, FollowerRestarts, FollowerCleaned,
         FollowerWrites, FollowerCleans, Reviewed, RefreshInsert, RefreshDelete, InsertOnly, DeleteOnly, Begin,
         LookFirst, CountRows, FindRows, ReadParts, CountAfter, vars, clientVars

\* What the import and the other programs do to the rows.
Environment == ImportNext \/ OthersNext

LEMMA EnvironmentFact ==
  ASSUME Environment
  PROVE  /\ UNCHANGED clientVars
         /\ \/ UNCHANGED <<db, disturbed, grew>>
            \/ \E r \in rows \ db : Insert(r) /\ UNCHANGED disturbed
            \/ \E r \in db : Delete(r) /\ UNCHANGED grew
  BY DEF Environment, ImportNext, OthersNext, FollowerNext, StartCleanUp, CleanRow, EndCleanUp, BeginBatch,
         CreateRow, BeginSave, SaveRow, ReplaceContract, ToSave, SaveHead, Crash, FollowerRestarts, FollowerCleaned,
         FollowerWrites, FollowerCleans, Reviewed, RefreshInsert, RefreshDelete, InsertOnly, DeleteOnly, Dirty,
         Unreviewed, Unsaved, Earliest

ImportOK ==
  /\ head \in 1..MaxBlock /\ upTo \in 1..MaxBlock
  /\ task \in {"down", "clean", "idle", "process", "save"}
  /\ ended \subseteq Committees
  /\ crashes \in 0..MaxCrash
  /\ follower \in {"on", "clean"} /\ reviewed \in 0..MaxBlock

LEMMA ImportStep ==
  ASSUME TypeOK, Next
  PROVE  ImportOK'
  <1>. USE DEF ImportOK
  <1>1. ImportOK /\ MaxBlock \in Nat /\ MaxCrash \in Nat
    BY ApiAssumption DEF TypeOK
  <1>2. CASE ClientNext
    <2>1. UNCHANGED <<importVars, followerVars>>
      BY <1>2 DEF ClientNext, Begin, LookFirst, CountRows, FindRows, ReadParts, CountAfter, Theirs
    <2>. QED  BY <1>1, <2>1 DEF importVars, followerVars
  <1>3. ASSUME NEW r \in rows, FollowerWrites(r) \/ FollowerCleans(r) \/ RefreshInsert(r) \/ RefreshDelete(r)
        PROVE  ImportOK'
    <2>1. UNCHANGED <<importVars, followerVars>>
      BY <1>3 DEF FollowerWrites, FollowerCleans, RefreshInsert, RefreshDelete
    <2>. QED  BY <1>1, <2>1 DEF importVars, followerVars
  <1>9. CASE FollowerRestarts
    BY <1>1, <1>9 DEF FollowerRestarts
  <1>10. CASE FollowerCleaned
    BY <1>1, <1>10 DEF FollowerCleaned, importVars
  <1>11. ASSUME NEW n \in 1..MaxBlock, Reviewed(n) PROVE ImportOK'
    BY <1>1, <1>11 DEF Reviewed, importVars
  <1>4. CASE StartCleanUp \/ EndCleanUp \/ BeginSave
    BY <1>1, <1>4 DEF StartCleanUp, EndCleanUp, BeginSave, followerVars
  <1>5. CASE SaveHead
    BY <1>1, <1>5 DEF SaveHead, followerVars
  <1>6. CASE Crash
    BY <1>1, <1>6 DEF Crash, followerVars
  <1>7. ASSUME NEW r \in rows, CleanRow(r) \/ CreateRow(r) \/ SaveRow(r) \/ ReplaceContract(r) PROVE ImportOK'
    <2>1. UNCHANGED <<importVars, followerVars>>
      BY <1>7 DEF CleanRow, CreateRow, SaveRow, ReplaceContract
    <2>. QED  BY <1>1, <2>1 DEF importVars, followerVars
  <1>8. ASSUME NEW n \in 1..MaxBlock, BeginBatch(n) PROVE ImportOK'
    BY <1>1, <1>8 DEF BeginBatch, followerVars
  <1>. QED
    BY <1>2, <1>3, <1>4, <1>5, <1>6, <1>7, <1>8, <1>9, <1>10, <1>11 DEF Next, ImportNext, OthersNext, FollowerNext

LEMMA EnvironmentType ==
  ASSUME TypeOK, Environment
  PROVE  TypeOK'
  <1>1. ImportOK'
    BY ImportStep DEF Next, Environment
  <1>2. UNCHANGED clientVars
    BY EnvironmentFact
  <1>3. db' \subseteq rows
    BY EnvironmentFact DEF TypeOK, Insert, Delete
  <1>4. disturbed' \in BOOLEAN
    <2>1. UNCHANGED disturbed \/ disturbed' = TRUE
      BY EnvironmentFact DEF Delete
    <2>. QED  BY <2>1 DEF TypeOK
  <1>5. grew' \in Nat
    BY EnvironmentFact DEF TypeOK, Insert
  <1>6. Q' = Q /\ PageSize' = PageSize
    BY <1>2 DEF clientVars, Q, PageSize
  <1>. QED  BY <1>1, <1>2, <1>3, <1>4, <1>5, <1>6 DEF TypeOK, ImportOK, clientVars, answerVars

LEMMA ClientType ==
  ASSUME TypeOK, HandlerInv, ClientNext
  PROVE  TypeOK'
  <1>. USE DEF TypeOK
  <1>1. ImportOK'
    BY ImportStep DEF Next
  <1>2. db' = db /\ handler' = handler /\ rows' = rows
    BY SameHandler DEF Next, ClientNext, Begin, LookFirst, CountRows, FindRows, ReadParts, CountAfter, Theirs
  <1>3. Q' = Q /\ PageSize' = PageSize
    BY <1>2 DEF Q, PageSize
  <1>4. Cardinality(Counted) \in Nat
    BY RowFacts, SizeFact DEF Counted
  <1>. SUFFICES /\ step' \in {"new", "first", "count", "find", "read", "recount", "done"}
                /\ page' \in Nat \ {0} /\ total' \in Nat /\ grew' \in Nat
                /\ found' \subseteq Q.list /\ Cardinality(found') <= PageSize
                /\ got' \subseteq Q.list \cap Q.kept /\ since' \subseteq Q.list \cap Q.kept
                /\ \A rp \in torn' : rp[1] \in Q.list /\ rp[2] \in rows
                /\ asked' \in 0..MaxBlock
                /\ disturbed' \in BOOLEAN
    BY <1>1, <1>2, <1>3 DEF ImportOK
  <1>5. CASE Begin
    <2>1. disturbed' \in BOOLEAN
      BY <1>5 DEF Begin
    <2>. QED  BY <1>5, <2>1 DEF Begin, Shown, Listed
  <1>6. CASE LookFirst
    BY <1>6 DEF LookFirst, answerVars
  <1>7. CASE CountRows
    BY <1>4, <1>7 DEF CountRows
  <1>8. ASSUME NEW P \in PossiblePages, FindRows(P)
        PROVE  /\ step' = "read" /\ found' = P /\ asked' \in 0..MaxBlock /\ torn' = {}
               /\ found' \subseteq Q.list /\ Cardinality(found') <= PageSize
               /\ UNCHANGED <<page, total, got, since, disturbed, grew>>
    BY <1>8, PageFact, ApiAssumption DEF FindRows
  <1>9. CASE ReadParts
    <2>1. Cardinality(found') <= PageSize
      BY <1>9, FS_EmptySet, ApiAssumption DEF ReadParts, PageSize
    <2>2. \A rp \in torn' : rp[1] \in Q.list /\ rp[2] \in rows
      BY <1>9, LackFact DEF ReadParts
    <2>3. got' \subseteq Q.list \cap Q.kept
      BY <1>9 DEF ReadParts
    <2>4. /\ step' \in {"first", "recount", "done"} /\ page' \in {page, page + 1} /\ found' = {}
          /\ UNCHANGED <<total, since, asked, disturbed, grew>>
      BY <1>9 DEF ReadParts
    <2>. QED  BY <2>1, <2>2, <2>3, <2>4
  <1>10. CASE CountAfter
    BY <1>4, <1>10 DEF CountAfter
  <1>. QED
    <2>1. CASE \E P \in PossiblePages : FindRows(P)
      BY <1>8, <2>1
    <2>. QED  BY <1>5, <1>6, <1>7, <1>9, <1>10, <2>1 DEF ClientNext
-----------------------------------------------------------------------------
(* What the steps do. *)

\* What is stored of a collection that a step deletes nothing of stays, and so does what it is looked up by.
LEMMA StaysFact ==
  ASSUME NEW p, NEW s, p.in # s.in, db' = db \ {s}
  PROVE  /\ p \in db => p \in db'
         /\ p.in = "contract" => \A c \in ContractOf(p) : c \in db => c \in db'
         /\ InStore(p) => InStore(p)'
  <1>1. p.in = "contract" => \A c \in ContractOf(p) : c.in = "contract"
    BY DEF ContractOf, In
  <1>. QED  BY <1>1 DEF InStore

\* What the import deletes.
LEMMA ImportDeletes ==
  ASSUME TypeOK, HandlerInv, NEW r \in rows
  PROVE  /\ CleanRow(r) => /\ r \in db /\ head < r.block /\ r.in \in ToSet(CleanOrder) /\ db' = db \ {r}
                           /\ disturbed' = TRUE /\ task' = "clean" /\ head' = head /\ upTo' = upTo
                           /\ UNCHANGED <<step, follower, reviewed>>
         /\ ReplaceContract(r) =>
              \E c \in ContractOf(r) \cap db :
                /\ db' = db \ {c} /\ ~ (head < c.block) /\ r \notin db /\ r.in = "contract" /\ c.in = "contract"
                /\ head < r.block /\ disturbed' = TRUE /\ task = "save" /\ UNCHANGED importVars
                /\ UNCHANGED <<step, follower, reviewed>>
  <1>1. ASSUME CleanRow(r)
        PROVE  /\ r \in db /\ head < r.block /\ r.in \in ToSet(CleanOrder) /\ db' = db \ {r}
               /\ disturbed' = TRUE /\ task' = "clean" /\ head' = head /\ upTo' = upTo
               /\ UNCHANGED <<step, follower, reviewed>>
    BY <1>1 DEF CleanRow, Earliest, Dirty, Delete, DeleteOnly, importVars, followerVars, clientVars
  <1>2. ASSUME ReplaceContract(r)
        PROVE  \E c \in ContractOf(r) \cap db :
                /\ db' = db \ {c} /\ ~ (head < c.block) /\ r \notin db /\ r.in = "contract" /\ c.in = "contract"
                /\ head < r.block /\ disturbed' = TRUE /\ task = "save" /\ UNCHANGED importVars
                /\ UNCHANGED <<step, follower, reviewed>>
    <2>1. PICK c \in ContractOf(r) \cap db : Delete(c)
      BY <1>2 DEF ReplaceContract
    <2>2. r \in Unsaved(ToSet(SaveOrder)) /\ r.in = "contract" /\ task = "save"
          /\ UNCHANGED <<importVars, follower, reviewed, step>>
      BY <1>2 DEF ReplaceContract, ToSave, Earliest, followerVars, DeleteOnly, clientVars
    <2>3. ~ (head < c.block) /\ c.in = "contract" /\ r \notin db /\ head < r.block
      BY <2>2 DEF Unsaved, Known, ContractOf, In
    <2>. QED  BY <2>1, <2>2, <2>3 DEF Delete
  <1>. QED  BY <1>1, <1>2

\* What the other programs delete.
LEMMA OthersDelete ==
  ASSUME NEW r \in rows
  PROVE  /\ FollowerCleans(r) => /\ r \in db /\ reviewed < r.block /\ r.in \in Followers
                                 /\ db' = db \ {r} /\ disturbed' = TRUE /\ follower' = "clean"
                                 /\ UNCHANGED <<importVars, reviewed, step>>
         /\ RefreshDelete(r) => /\ r \in db /\ r.in \in Refreshed /\ db' = db \ {r} /\ disturbed' = TRUE
                                /\ UNCHANGED <<importVars, follower, reviewed, step>>
  BY DEF FollowerCleans, RefreshDelete, Earliest, Unreviewed, Delete, DeleteOnly, followerVars, clientVars

\* What is inserted.
LEMMA AllInsert ==
  ASSUME NEW r \in rows, CreateRow(r) \/ SaveRow(r) \/ FollowerWrites(r) \/ RefreshInsert(r)
  PROVE  /\ r \notin db /\ db' = db \cup {r}
         /\ UNCHANGED <<importVars, follower, reviewed, step, disturbed>>
         /\ CreateRow(r) \/ SaveRow(r) => r.block <= upTo /\ task \in {"process", "save"}
         /\ CreateRow(r) => r.in \in InPlace
         /\ SaveRow(r) => r.in \in ToSet(SaveOrder)
         /\ FollowerWrites(r) => r.in \in Followers /\ follower = "on"
         /\ RefreshInsert(r) => r.in \in Refreshed
  BY DEF CreateRow, SaveRow, ToSave, FollowerWrites, RefreshInsert, Insert, InsertOnly, Unsaved, Earliest,
         followerVars, clientVars

\* The steps that insert and delete nothing.
Turns ==
  \/ StartCleanUp \/ EndCleanUp \/ BeginSave \/ SaveHead \/ Crash
  \/ \E n \in 1..MaxBlock : BeginBatch(n)
  \/ FollowerRestarts \/ FollowerCleaned \/ \E n \in 1..MaxBlock : Reviewed(n)

LEMMA TurnsFact ==
  /\ Turns => UNCHANGED <<db, step, disturbed>>
  /\ Turns /\ ~ SaveHead => head' = head
  /\ Turns => \/ follower' = follower \/ follower = "on" \/ FollowerCleaned
  /\ Turns => \/ reviewed' = reviewed \/ \E n \in 1..MaxBlock : Reviewed(n)
  /\ Turns => \/ UNCHANGED <<task, upTo>> \/ StartCleanUp \/ EndCleanUp \/ BeginSave \/ SaveHead \/ Crash
              \/ \E n \in 1..MaxBlock : BeginBatch(n)
  BY DEF Turns, StartCleanUp, EndCleanUp, BeginSave, SaveHead, Crash, BeginBatch, FollowerRestarts,
         FollowerCleaned, Reviewed, followerVars, clientVars, importVars

LEMMA ClientLeaves ==
  ASSUME ClientNext
  PROVE  /\ UNCHANGED <<db, importVars, follower, reviewed>>
         /\ \/ Begin
            \/ step # "new" /\ UNCHANGED disturbed
  BY DEF ClientNext, Begin, LookFirst, CountRows, FindRows, ReadParts, CountAfter, Theirs, followerVars

LEMMA AllSteps ==
  ASSUME [Next]_vars
  PROVE  \/ Turns
         \/ \E r \in rows : CleanRow(r) \/ ReplaceContract(r) \/ FollowerCleans(r) \/ RefreshDelete(r)
         \/ \E r \in rows : CreateRow(r) \/ SaveRow(r) \/ FollowerWrites(r) \/ RefreshInsert(r)
         \/ ClientNext
         \/ UNCHANGED vars
  BY DEF Next, ImportNext, OthersNext, FollowerNext, Turns

LEMMA OrderFacts ==
  /\ \A r, p : <<r, p>> \in SavedFirst =>
       /\ r \in {"logEvent", "block", "internalTx"} /\ p \in {"tx", "contract"}
       /\ r \in ToSet(CleanOrder) /\ p \in ToSet(SaveOrder)
       /\ r \notin InPlace \cup Followers \cup Refreshed /\ p \notin Followers \cup Refreshed
  /\ "contract" \in ToSet(CleanOrder) /\ ToSet(CleanOrder) = ToSet(SaveOrder)
  /\ ToSet(SaveOrder) \cap (InPlace \cup Followers \cup Refreshed) = {}
  /\ Followers \cap Refreshed = {}
  <1>1. ToSet(CleanOrder) = {"block", "tx", "logEvent", "committee", "txDigest", "movement", "contract",
                             "internalTx"}
    <2>1. DOMAIN CleanOrder = 1..8
      BY DEF CleanOrder
    <2>2. /\ CleanOrder[1] = "block" /\ CleanOrder[2] = "tx" /\ CleanOrder[3] = "logEvent"
          /\ CleanOrder[4] = "committee" /\ CleanOrder[5] = "txDigest" /\ CleanOrder[6] = "movement"
          /\ CleanOrder[7] = "contract" /\ CleanOrder[8] = "internalTx"
      BY DEF CleanOrder
    <2>3. 1..8 = {1, 2, 3, 4, 5, 6, 7, 8}
      OBVIOUS
    <2>4. ToSet(CleanOrder) = { CleanOrder[j] : j \in {1, 2, 3, 4, 5, 6, 7, 8} }
      BY <2>1, <2>3 DEF ToSet
    <2>. QED  BY <2>2, <2>4
  <1>2. ToSet(CleanOrder) = ToSet(SaveOrder)
    BY <1>1, SaveFacts
  <1>3. ToSet(SaveOrder) \cap (InPlace \cup Followers \cup Refreshed) = {} /\ Followers \cap Refreshed = {}
    BY SaveFacts DEF InPlace, Followers, Refreshed
  <1>4. \A r, p : <<r, p>> \in SavedFirst => r \in {"logEvent", "block", "internalTx"} /\ p \in {"tx", "contract"}
    BY DEF SavedFirst
  <1>. QED  BY <1>1, <1>2, <1>3, <1>4, SaveFacts
-----------------------------------------------------------------------------
(* What is stored up to the head, and in which order above it. *)

\* The head only moves past blocks that are saved.  No row of a block it has reached is deleted but a
\* contract, when another is about to be saved at its address, and what the other programs delete of theirs.
LEMMA PrefixStep ==
  ASSUME TypeOK, HandlerInv, PrefixInv, [Next]_vars
  PROVE  PrefixInv'
  <1>. SUFFICES ASSUME NEW r \in rows, r.in \in ToSet(SaveOrder), r.block <= head'
                PROVE  InStore(r)' \/ CreatedAgain(r, head')
    BY SameHandler DEF PrefixInv, CreatedAgain
  <1>0. r.block \in Nat /\ head \in Nat /\ upTo \in Nat /\ head <= MaxBlock
    BY RowFacts, ApiAssumption DEF TypeOK
  <1>1. ASSUME head' = head, db \subseteq db' PROVE InStore(r)' \/ CreatedAgain(r, head')
    BY <1>1 DEF PrefixInv, InStore
  <1>2. CASE SaveHead
    <2>1. db' = db /\ head' = upTo /\ Unsaved(ToSet(SaveOrder)) = {}
      BY <1>2 DEF SaveHead
    <2>2. ASSUME NEW p \in rows, p.in \in ToSet(SaveOrder), head < p.block, p.block <= upTo
          PROVE  InStore(p)
      BY <2>1, <2>2 DEF Unsaved, Known, InStore
    <2>3. CASE head < r.block
      BY <2>1, <2>2, <2>3 DEF InStore
    <2>4. CASE ~ (head < r.block) /\ ~ InStore(r)
      <3>1. CreatedAgain(r, head)
        BY <1>0, <2>4 DEF PrefixInv
      <3>2. PICK c \in ContractOf(r) : r.in = "contract" /\ c.block > r.block /\ c.block > head
        BY <3>1 DEF CreatedAgain
      <3>3. c \in rows /\ c.in = "contract" /\ ContractOf(c) = ContractOf(r)
        BY <3>2, RowFacts DEF ContractOf, In
      <3>4. c.block \in Nat
        BY <3>3, RowFacts
      <3>5. CASE c.block <= upTo
        <4>1. InStore(c)
          BY <2>2, <3>2, <3>3, <3>4, <3>5, SaveFacts, <1>0
        <4>2. InStore(r)
          BY <3>2, <3>3, <4>1 DEF InStore
        <4>. QED  BY <2>4, <4>2
      <3>6. CASE ~ (c.block <= upTo)
        BY <1>0, <2>1, <3>2, <3>4, <3>6 DEF CreatedAgain
      <3>. QED  BY <3>5, <3>6
    <2>5. CASE InStore(r)
      BY <2>1, <2>5 DEF InStore
    <2>. QED  BY <2>3, <2>4, <2>5
  <1>3. ASSUME NEW s \in rows, CleanRow(s) PROVE InStore(r)' \/ CreatedAgain(r, head')
    <2>1. head < s.block /\ head' = head /\ db' = db \ {s}
      BY <1>3, ImportDeletes
    <2>2. s.block \in Nat
      BY RowFacts
    <2>3. ASSUME InStore(r), ~ InStore(r)' PROVE CreatedAgain(r, head)
      <3>1. r \notin db
        BY <1>0, <2>1, <2>2, <2>3 DEF InStore
      <3>2. r.in = "contract" /\ s \in ContractOf(r)
        BY <2>1, <2>3, <3>1 DEF InStore
      <3>. QED  BY <1>0, <2>1, <2>2, <3>2 DEF CreatedAgain
    <2>. QED  BY <1>0, <2>1, <2>3 DEF PrefixInv
  <1>4. ASSUME NEW s \in rows, ReplaceContract(s) PROVE InStore(r)' \/ CreatedAgain(r, head')
    <2>1. PICK c \in ContractOf(s) \cap db :
            db' = db \ {c} /\ s.in = "contract" /\ c.in = "contract" /\ head < s.block /\ head' = head
      BY <1>4, ImportDeletes DEF importVars
    <2>2. s.block \in Nat /\ s \in Row
      BY RowFacts
    <2>3. ASSUME InStore(r), ~ InStore(r)' PROVE CreatedAgain(r, head)
      <3>1. r = c \/ (r.in = "contract" /\ c \in ContractOf(r))
        BY <2>1, <2>3 DEF InStore
      <3>2. s \in ContractOf(r) /\ r.in = "contract"
        BY <2>1, <2>2, <3>1 DEF ContractOf, In
      <3>. QED  BY <1>0, <2>1, <2>2, <3>2 DEF CreatedAgain
    <2>. QED  BY <1>0, <2>1, <2>3 DEF PrefixInv
  <1>5. ASSUME NEW s \in rows, FollowerCleans(s) \/ RefreshDelete(s) PROVE InStore(r)' \/ CreatedAgain(r, head')
    <2>1. s.in \in Followers \cup Refreshed /\ head' = head /\ db' = db \ {s}
      BY <1>5, OthersDelete DEF importVars
    <2>2. r.in # s.in
      BY <2>1, OrderFacts
    <2>. QED  BY <1>0, <2>1, <2>2, StaysFact DEF PrefixInv
  <1>6. CASE ClientNext
    BY <1>1, <1>6, ClientLeaves DEF importVars
  <1>7. ASSUME NEW s \in rows, CreateRow(s) \/ SaveRow(s) \/ FollowerWrites(s) \/ RefreshInsert(s)
        PROVE  InStore(r)' \/ CreatedAgain(r, head')
    <2>1. head' = head /\ db \subseteq db'
      BY <1>7, AllInsert DEF importVars
    <2>. QED  BY <1>1, <2>1
  <1>8. CASE Turns /\ ~ SaveHead
    BY <1>1, <1>8, TurnsFact
  <1>9. CASE UNCHANGED vars
    BY <1>1, <1>9 DEF vars, importVars
  <1>. QED  BY <1>2, <1>3, <1>4, <1>5, <1>6, <1>7, <1>8, <1>9, AllSteps

\* Rows are saved up to the end of the batch, and a cleanup leaves none above the head.
LEMMA BatchStep ==
  ASSUME TypeOK, HandlerInv, BatchInv, [Next]_vars
  PROVE  BatchInv'
  <1>. SUFFICES ASSUME NEW r \in db', r.in \in ToSet(CleanOrder)
                PROVE  /\ task' = "idle" => r.block <= head'
                       /\ task' \in {"process", "save"} => r.block <= upTo'
    BY DEF BatchInv
  <1>1. ASSUME r \in db, UNCHANGED <<task, head, upTo>>
        PROVE  /\ task' = "idle" => r.block <= head'
               /\ task' \in {"process", "save"} => r.block <= upTo'
    BY <1>1 DEF BatchInv
  <1>2. CASE Turns
    <2>1. r \in db /\ r \in rows
      BY <1>2, TurnsFact DEF TypeOK
    <2>2. r.block \in Nat /\ head \in Nat /\ upTo \in Nat
      BY <2>1, RowFacts DEF TypeOK
    <2>3. CASE EndCleanUp
      BY <2>1, <2>2, <2>3 DEF EndCleanUp, Dirty
    <2>4. CASE SaveHead \/ BeginSave \/ StartCleanUp \/ Crash
      BY <2>1, <2>4 DEF SaveHead, BeginSave, StartCleanUp, Crash, BatchInv
    <2>5. ASSUME NEW n \in 1..MaxBlock, BeginBatch(n)
          PROVE  task' = "process" /\ r.block <= upTo'
      <3>1. r.block <= head /\ head < n /\ upTo' = n /\ n \in Nat /\ task' = "process"
        BY <2>1, <2>5 DEF BeginBatch, BatchInv
      <3>. QED  BY <2>2, <3>1
    <2>6. CASE UNCHANGED <<task, upTo>> /\ ~ SaveHead
      BY <1>1, <1>2, <2>1, <2>6, TurnsFact
    <2>. QED  BY <1>2, <2>3, <2>4, <2>5, <2>6, TurnsFact
  <1>3. ASSUME NEW s \in rows, CleanRow(s) \/ ReplaceContract(s) \/ FollowerCleans(s) \/ RefreshDelete(s)
        PROVE  \/ task' = "clean"
               \/ r \in db /\ UNCHANGED <<task, head, upTo>>
    BY <1>3, ImportDeletes, OthersDelete DEF importVars
  <1>4. ASSUME NEW s \in rows, CreateRow(s) \/ SaveRow(s) \/ FollowerWrites(s) \/ RefreshInsert(s)
        PROVE  /\ task' = "idle" => r.block <= head'
               /\ task' \in {"process", "save"} => r.block <= upTo'
    <2>1. /\ db' = db \cup {s} /\ UNCHANGED <<task, head, upTo>>
          /\ s.in \in InPlace \cup Followers \cup Refreshed \/ (s.block <= upTo /\ task = "save")
      BY <1>4, AllInsert DEF importVars, SaveRow
    <2>2. r \in db \/ (r.block <= upTo /\ task = "save")
      BY <2>1, OrderFacts
    <2>. QED  BY <1>1, <2>1, <2>2
  <1>5. CASE ClientNext \/ UNCHANGED vars
    BY <1>1, <1>5, ClientLeaves DEF importVars, vars
  <1>. QED  BY <1>1, <1>2, <1>3, <1>4, <1>5, AllSteps

\* The program behind the import deletes nothing it has reached.
LEMMA ReviewedStep ==
  ASSUME TypeOK, HandlerInv, ReviewedInv, [Next]_vars
  PROVE  ReviewedInv'
  <1>. SUFFICES ASSUME NEW r \in rows, r.in \in Followers, r.block <= reviewed' PROVE r \in db'
    BY SameHandler DEF ReviewedInv
  <1>1. ASSUME reviewed' = reviewed, db \subseteq db' PROVE r \in db'
    BY <1>1 DEF ReviewedInv
  <1>2. CASE Turns
    <2>1. ASSUME NEW n \in 1..MaxBlock, Reviewed(n) PROVE r \in db'
      BY <2>1 DEF Reviewed
    <2>. QED  BY <1>1, <1>2, <2>1, TurnsFact
  <1>3. ASSUME NEW s \in rows, CleanRow(s) \/ ReplaceContract(s) PROVE r \in db'
    <2>1. reviewed' = reviewed /\ \E c : db' = db \ {c} /\ c.in \in ToSet(CleanOrder)
      BY <1>3, ImportDeletes, OrderFacts
    <2>. QED  BY <2>1, OrderFacts DEF ReviewedInv
  <1>4. ASSUME NEW s \in rows, FollowerCleans(s) PROVE r \in db'
    <2>1. reviewed < s.block /\ db' = db \ {s} /\ reviewed' = reviewed
      BY <1>4, OthersDelete
    <2>2. reviewed \in Nat /\ s.block \in Nat
      BY RowFacts DEF TypeOK
    <2>. QED  BY <2>1, <2>2 DEF ReviewedInv
  <1>5. ASSUME NEW s \in rows, RefreshDelete(s) PROVE r \in db'
    BY <1>5, OthersDelete, OrderFacts DEF ReviewedInv
  <1>6. ASSUME NEW s \in rows, CreateRow(s) \/ SaveRow(s) \/ FollowerWrites(s) \/ RefreshInsert(s)
        PROVE  r \in db'
    <2>1. reviewed' = reviewed /\ db \subseteq db'
      BY <1>6, AllInsert
    <2>. QED  BY <1>1, <2>1
  <1>7. CASE ClientNext \/ UNCHANGED vars
    BY <1>1, <1>7, ClientLeaves DEF vars, followerVars
  <1>. QED  BY <1>2, <1>3, <1>4, <1>5, <1>6, <1>7, AllSteps

\* A summary is written after the rewards of its block, and a cleanup that goes on since before the walk
\* deletes rewards whose summary is still there.
LEMMA RewardStep ==
  ASSUME TypeOK, HandlerInv, ReviewedInv, RewardInv, [Next]_vars
  PROVE  RewardInv'
  <1>. DEFINE Pair(s, w) == s.in = "epochRewardSummary" /\ w.in = "epochReward" /\ w.block <= s.block
              Still == follower # "clean" \/ (step # "new" /\ ~ disturbed)
  <1>. SUFFICES ASSUME Still', NEW s \in db', NEW w \in rows, Pair(s, w) PROVE w \in db'
    BY SameHandler DEF RewardInv, RewardsFirst
  <1>1. ASSUME db' = db, Still PROVE w \in db'
    BY <1>1 DEF RewardInv, RewardsFirst
  <1>2. ASSUME NEW r \in db, db' = db \ {r}, r.in # "epochReward", Still PROVE w \in db'
    BY <1>2 DEF RewardInv, RewardsFirst
  <1>3. ASSUME NEW r \in rows \ db, db' = db \cup {r}, r.in # "epochRewardSummary", Still PROVE w \in db'
    BY <1>3 DEF RewardInv, RewardsFirst
  <1>4. ASSUME NEW r \in rows, CreateRow(r) \/ SaveRow(r) \/ RefreshInsert(r)
        PROVE  w \in db'
    <2>1. r \in rows \ db /\ db' = db \cup {r} /\ Still
      BY <1>4, AllInsert
    <2>2. r.in # "epochRewardSummary"
      BY <1>4, AllInsert, OrderFacts DEF InPlace, Followers, Refreshed
    <2>. QED  BY <1>3, <2>1, <2>2
  <1>5. ASSUME NEW r \in rows, CleanRow(r) \/ ReplaceContract(r) \/ RefreshDelete(r)
        PROVE  w \in db'
    <2>1. "epochReward" \notin ToSet(CleanOrder) \cup Refreshed
      BY OrderFacts DEF Followers
    <2>2. ASSUME follower # "clean", NEW c, db' = db \ {c}, c.in # "epochReward" PROVE w \in db'
      BY <2>2 DEF RewardInv, RewardsFirst
    <2>3. follower' = follower /\ disturbed'
      BY <1>5, ImportDeletes, OthersDelete
    <2>4. \E c : db' = db \ {c} /\ c.in # "epochReward"
      BY <1>5, <2>1, ImportDeletes, OthersDelete, OrderFacts
    <2>. QED  BY <2>2, <2>3, <2>4
  <1>6. ASSUME NEW r \in rows, FollowerWrites(r) PROVE w \in db'
    <2>1. r \in rows \ db /\ db' = db \cup {r} /\ Still
      BY <1>6, AllInsert
    <2>2. CASE s # r
      BY <2>1, <2>2 DEF RewardInv, RewardsFirst
    <2>3. CASE s = r /\ w \notin db
      <3>1. w.in \in Followers /\ r.in = "epochRewardSummary"
        BY <2>3 DEF Followers
      <3>2. w.block > r.block
        BY <1>6, <2>3, <3>1 DEF FollowerWrites
      <3>. QED  BY <2>3, <3>2, RowFacts
    <2>. QED  BY <2>1, <2>2, <2>3
  <1>7. ASSUME NEW r \in rows, FollowerCleans(r) PROVE FALSE
    BY <1>7, OthersDelete
  <1>8. CASE FollowerCleaned
    <2>1. db' = db /\ Unreviewed = {}
      BY <1>8 DEF FollowerCleaned
    <2>2. s \in rows /\ s.in \in Followers /\ w.in \in Followers
      BY <2>1 DEF TypeOK, Followers
    <2>3. s.block \in Nat /\ w.block \in Nat /\ reviewed \in Nat
      BY <2>2, RowFacts DEF TypeOK
    <2>4. s.block <= reviewed
      BY <2>1, <2>2, <2>3 DEF Unreviewed
    <2>. QED  BY <2>1, <2>2, <2>3, <2>4 DEF ReviewedInv
  <1>9. CASE Turns /\ ~ FollowerCleaned
    BY <1>1, <1>9, TurnsFact
  <1>10. CASE ClientNext
    <2>1. db' = db /\ follower' = follower
      BY <1>10, ClientLeaves
    <2>2. CASE Begin
      <3>1. disturbed' <=> task = "clean" \/ follower = "clean"
        BY <2>2 DEF Begin
      <3>. QED  BY <1>1, <2>1, <3>1
    <2>3. CASE step # "new" /\ UNCHANGED disturbed
      BY <1>1, <2>1, <2>3
    <2>. QED  BY <1>10, <2>2, <2>3, ClientLeaves
  <1>11. CASE UNCHANGED vars
    BY <1>1, <1>11 DEF vars, followerVars, clientVars
  <1>. HIDE DEF Pair, Still
  <1>. QED  BY <1>4, <1>5, <1>6, <1>7, <1>8, <1>9, <1>10, <1>11, AllSteps

\* The rows of a batch are saved collection by collection, and a cleanup that goes on since before the
\* walk deletes what a crash has left incomplete.
LEMMA OrderStep ==
  ASSUME TypeOK, HandlerInv, BatchInv, OrderInv, [Next]_vars
  PROVE  OrderInv'
  <1>. DEFINE InOrder == task # "clean" \/ (step # "new" /\ ~ disturbed)
  <1>. SUFFICES ASSUME InOrder', NEW r \in db', NEW p \in rows, <<r.in, p.in>> \in SavedFirst,
                       head' < p.block, p.block <= r.block
                PROVE  p \in db' \/ Known(p)'
    BY SameHandler DEF OrderInv, Ordered
  <1>0. /\ r.in \in ToSet(CleanOrder) /\ p.in \in ToSet(SaveOrder)
        /\ p.in \in {"tx", "contract"} /\ r \in rows
        /\ {p.block, r.block, head, upTo} \subseteq Nat
        /\ r.in \notin InPlace \cup Followers \cup Refreshed
    <2>1. r \in rows
      BY AllSteps, ClientLeaves, AllInsert, TurnsFact, ImportDeletes, OthersDelete DEF TypeOK, vars
    <2>. QED  BY <2>1, OrderFacts, RowFacts DEF TypeOK
  <1>1. ASSUME r \in db, head' = head, db \subseteq db', InOrder PROVE p \in db' \/ Known(p)'
    BY <1>1 DEF OrderInv, Ordered, Known
  <1>2. ASSUME NEW s \in rows, CreateRow(s) \/ FollowerWrites(s) \/ RefreshInsert(s)
        PROVE  p \in db' \/ Known(p)'
    <2>1. db' = db \cup {s} /\ head' = head /\ InOrder
      BY <1>2, AllInsert DEF importVars
    <2>2. r # s
      BY <1>0, <1>2, AllInsert
    <2>. QED  BY <1>1, <2>1, <2>2
  <1>3. ASSUME NEW s \in rows, SaveRow(s) PROVE p \in db' \/ Known(p)'
    <2>1. db' = db \cup {s} /\ head' = head /\ InOrder /\ s.block <= upTo
      BY <1>3, AllInsert DEF importVars
    <2>2. CASE r # s
      BY <1>1, <2>1, <2>2
    <2>3. CASE r = s /\ p \notin db /\ ~ Known(p)
      <3>1. s \in Earliest(Unsaved(ToSet(SaveOrder)), SaveOrder)
        BY <1>3 DEF SaveRow, ToSave
      <3>2. p \in Unsaved(ToSet(SaveOrder))
        BY <1>0, <2>1, <2>3 DEF Unsaved
      <3>3. PICK i \in DOMAIN SaveOrder :
              /\ SaveOrder[i] = r.in
              /\ \A x \in Unsaved(ToSet(SaveOrder)), j \in 1..(i - 1) : x.in # SaveOrder[j]
        BY <2>3, <3>1 DEF Earliest
      <3>4. DOMAIN SaveOrder = 1..8 /\ SaveOrder[2] = "tx" /\ SaveOrder[6] = "contract"
            /\ SaveOrder[1] = "movement" /\ SaveOrder[3] = "logEvent" /\ SaveOrder[4] = "committee"
            /\ SaveOrder[5] = "txDigest" /\ SaveOrder[7] = "internalTx" /\ SaveOrder[8] = "block"
        BY DEF SaveOrder
      <3>5. \A j \in 1..(i - 1) : p.in # SaveOrder[j]
        BY <3>2, <3>3
      <3>6. \/ i \in {3, 8} /\ p.in = "tx"
            \/ i = 7 /\ p.in = "contract"
        <4>1. i \in {1, 2, 3, 4, 5, 6, 7, 8}
          BY <3>4
        <4>. QED  BY <3>3, <3>4, <4>1 DEF SavedFirst
      <3>7. CASE i \in {3, 8} /\ p.in = "tx"
        <4>1. 2 \in 1..(i - 1)
          BY <3>7
        <4>. QED  BY <3>4, <3>5, <3>7, <4>1
      <3>8. CASE i = 7 /\ p.in = "contract"
        <4>1. 6 \in 1..(i - 1)
          BY <3>8
        <4>. QED  BY <3>4, <3>5, <3>8, <4>1
      <3>. QED  BY <3>6, <3>7, <3>8
    <2>. QED  BY <2>1, <2>2, <2>3 DEF Known
  <1>4. ASSUME NEW s \in rows, CleanRow(s) PROVE FALSE
    BY <1>4, ImportDeletes
  <1>5. ASSUME NEW s \in rows, ReplaceContract(s) PROVE p \in db' \/ Known(p)'
    <2>1. PICK c \in ContractOf(s) \cap db :
            db' = db \ {c} /\ ~ (head < c.block) /\ head' = head /\ task = "save"
      BY <1>5, ImportDeletes DEF importVars
    <2>2. p \in db \/ Known(p)
      BY <2>1 DEF OrderInv, Ordered
    <2>. QED  BY <2>1, <2>2 DEF Known
  <1>6. ASSUME NEW s \in rows, FollowerCleans(s) \/ RefreshDelete(s) PROVE p \in db' \/ Known(p)'
    <2>1. db' = db \ {s} /\ s.in \in Followers \cup Refreshed /\ disturbed' /\ UNCHANGED importVars
      BY <1>6, OthersDelete
    <2>2. p.in # s.in
      BY <1>0, <2>1, OrderFacts
    <2>3. p \in db \/ Known(p)
      BY <2>1 DEF OrderInv, Ordered, importVars
    <2>. QED  BY <2>1, <2>2, <2>3, StaysFact DEF Known, importVars
  <1>7. CASE EndCleanUp
    <2>1. db' = db /\ Dirty = {} /\ head' = head
      BY <1>7 DEF EndCleanUp
    <2>2. r.block <= head
      BY <1>0, <2>1 DEF Dirty
    <2>. QED  BY <1>0, <2>1, <2>2
  <1>8. CASE SaveHead
    <2>1. db' = db /\ head' = upTo /\ task = "save"
      BY <1>8 DEF SaveHead
    <2>2. r.block <= upTo
      BY <1>0, <2>1 DEF BatchInv
    <2>. QED  BY <1>0, <2>1, <2>2
  <1>9. CASE Turns /\ ~ EndCleanUp /\ ~ SaveHead
    <2>1. db' = db /\ UNCHANGED <<step, disturbed>> /\ head' = head
      BY <1>9, TurnsFact
    <2>2. InOrder
      <3>1. CASE StartCleanUp \/ BeginSave \/ Crash \/ \E n \in 1..MaxBlock : BeginBatch(n)
        BY <3>1 DEF StartCleanUp, BeginSave, Crash, BeginBatch
      <3>2. CASE UNCHANGED <<task, upTo>>
        BY <2>1, <3>2
      <3>. QED  BY <1>9, <3>1, <3>2, TurnsFact
    <2>. QED  BY <1>1, <2>1, <2>2
  <1>10. CASE ClientNext
    <2>1. db' = db /\ head' = head /\ task' = task
      BY <1>10, ClientLeaves DEF importVars
    <2>2. CASE Begin
      <3>1. disturbed' <=> task = "clean" \/ follower = "clean"
        BY <2>2 DEF Begin
      <3>. QED  BY <1>1, <2>1, <3>1
    <2>3. CASE step # "new" /\ UNCHANGED disturbed
      BY <1>1, <2>1, <2>3
    <2>. QED  BY <1>10, <2>2, <2>3, ClientLeaves
  <1>11. CASE UNCHANGED vars
    BY <1>1, <1>11 DEF vars, importVars, clientVars
  <1>. HIDE DEF InOrder
  <1>. QED  BY <1>2, <1>3, <1>4, <1>5, <1>6, <1>7, <1>8, <1>9, <1>10, <1>11, AllSteps
-----------------------------------------------------------------------------
(* What is missing in an answer. *)

\* Neither head goes back.
LEMMA HeadStep ==
  ASSUME TypeOK, ReadInv, [Next]_vars
  PROVE  /\ head <= head' /\ head' \in Nat
         /\ task' \in {"process", "save"} => head' < upTo'
  <1>0. {head, upTo, asked} \subseteq Nat
    BY DEF TypeOK
  <1>1. CASE SaveHead \/ \E n \in 1..MaxBlock : BeginBatch(n)
    BY <1>0, <1>1 DEF SaveHead, BeginBatch, ReadInv
  <1>2. CASE StartCleanUp \/ EndCleanUp \/ BeginSave \/ Crash
    BY <1>0, <1>2 DEF StartCleanUp, EndCleanUp, BeginSave, Crash, ReadInv
  <1>3. CASE UNCHANGED <<head, task, upTo>>
    BY <1>0, <1>3 DEF ReadInv
  <1>4. ASSUME NEW r \in rows,
               \/ CleanRow(r) \/ ReplaceContract(r) \/ FollowerCleans(r) \/ RefreshDelete(r)
               \/ CreateRow(r) \/ SaveRow(r) \/ FollowerWrites(r) \/ RefreshInsert(r)
        PROVE  UNCHANGED <<head, task, upTo>>
    BY <1>4 DEF CleanRow, ReplaceContract, FollowerCleans, RefreshDelete, CreateRow, SaveRow, FollowerWrites,
                RefreshInsert, importVars
  <1>5. CASE ClientNext \/ UNCHANGED vars
    BY <1>3, <1>5, ClientLeaves DEF importVars, vars
  <1>. QED  BY <1>1, <1>2, <1>3, <1>4, <1>5, AllSteps, TurnsFact

LEMMA ReadStep ==
  ASSUME TypeOK, HandlerInv, ReadInv, [Next]_vars
  PROVE  ReadInv'
  <1>0. {head, upTo, asked} \subseteq Nat
    BY DEF TypeOK
  <1>1. /\ head <= head' /\ head' \in Nat
        /\ task' \in {"process", "save"} => head' < upTo'
    BY HeadStep
  <1>2. asked' = asked \/ asked' = head
    BY EnvironmentFact
       DEF Next, Environment, clientVars, answerVars, vars, ClientNext, Begin, LookFirst, CountRows, FindRows,
           ReadParts, CountAfter
  <1>3. step' = "new" => UNCHANGED <<step, torn, page>>
    BY EnvironmentFact
       DEF Next, Environment, clientVars, answerVars, vars, ClientNext, Begin, LookFirst, CountRows, FindRows,
           ReadParts, CountAfter
  <1>4. step' = "read" /\ ~ disturbed' => found' \subseteq db'
    <2>1. CASE ClientNext
      BY <2>1, PageFact
         DEF ClientNext, Begin, LookFirst, CountRows, FindRows, ReadParts, CountAfter, Theirs, TypeOK
    <2>2. CASE Environment
      BY <2>2, EnvironmentFact DEF Insert, Delete, clientVars, answerVars, ReadInv
    <2>3. CASE UNCHANGED vars
      BY <2>3 DEF vars, clientVars, answerVars, ReadInv
    <2>. QED  BY <2>1, <2>2, <2>3 DEF Next, Environment
  <1>. QED  BY <1>0, <1>1, <1>2, <1>3, <1>4 DEF ReadInv

LEMMA WholeStep ==
  ASSUME AnswerInv, [Next]_vars
  PROVE  AnswersWhole'
  <1>. USE DEF AnswersWhole
  <1>0. /\ TypeOK /\ HandlerInv /\ PrefixInv /\ OrderInv /\ RewardInv /\ ReadInv /\ AnswersWhole
        /\ head \in Nat /\ asked \in Nat /\ asked <= head
    BY DEF AnswerInv, TypeOK, ReadInv
  <1>1. CASE torn' = torn /\ asked' = asked /\ (disturbed => disturbed')
    BY <1>0, <1>1 DEF CreatedAgain
  <1>2. CASE torn' = {}
    BY <1>2
  <1>3. CASE ReadParts
    <2>1. /\ torn' = UNION { { <<r, p>> : p \in Lacks(r) } : r \in found }
          /\ asked' = asked /\ disturbed' = disturbed /\ step = "read"
      BY <1>3 DEF ReadParts
    <2>2. ASSUME NEW r \in found, NEW p \in Lacks(r), ~ disturbed
          PROVE  \/ p.block > asked /\ <<r.in, p.in>> \notin SavedFirst
                 \/ CreatedAgain(p, asked)
      <3>1. r \in Q.list /\ r \in db /\ r \in rows
        BY <1>0, <2>1, <2>2 DEF TypeOK, ReadInv
      <3>2. p \in rows /\ ~ InStore(p) /\ Refers(r, p)
        BY <1>0, <3>1, LackFact
      <3>3. Ordered /\ RewardsFirst
        BY <1>0, <2>1, <2>2 DEF OrderInv, RewardInv
      <3>4. p.block \in Nat /\ r.block \in Nat
        BY <1>0, <3>1, <3>2, RowFacts
      <3>5. CASE p.in \in ToSet(SaveOrder) /\ p.block <= head
        <4>1. CreatedAgain(p, head)
          BY <1>0, <3>2, <3>5 DEF PrefixInv
        <4>2. PICK c \in ContractOf(p) : p.in = "contract" /\ c.block > p.block /\ c.block > head
          BY <4>1 DEF CreatedAgain
        <4>3. c.block \in Nat
          BY <1>0, <3>2, <4>2, RowFacts
        <4>. QED  BY <1>0, <4>2, <4>3 DEF CreatedAgain
      <3>6. CASE /\ ~ (p.block <= head) /\ p.in \in ToSet(SaveOrder)
                 /\ <<r.in, p.in>> \in SavedFirst => p.block <= r.block
        <4>1. <<r.in, p.in>> \notin SavedFirst
          <5>. SUFFICES ASSUME <<r.in, p.in>> \in SavedFirst PROVE FALSE
            OBVIOUS
          <5>1. p \in db \/ Known(p)
            BY <1>0, <3>1, <3>2, <3>3, <3>4, <3>6 DEF Ordered
          <5>. QED  BY <3>2, <5>1 DEF InStore, Known
        <4>. QED  BY <1>0, <3>4, <3>6, <4>1
      <3>7. CASE r.in = "epochRewardSummary" /\ p.in = "epochReward" /\ p.block = r.block
        <4>1. p \in db
          BY <3>1, <3>2, <3>3, <3>4, <3>7 DEF RewardsFirst
        <4>. QED  BY <3>2, <4>1 DEF InStore
      <3>. QED  BY <3>2, <3>5, <3>6, <3>7 DEF Refers
    <2>. SUFFICES ASSUME NEW rp \in torn', ~ disturbed
                  PROVE  \/ rp[2].block > asked /\ <<rp[1].in, rp[2].in>> \notin SavedFirst
                         \/ CreatedAgain(rp[2], asked)
      BY <2>1 DEF CreatedAgain
    <2>3. PICK r \in found : rp \in { <<r, p>> : p \in Lacks(r) }
      BY <2>1
    <2>4. PICK p \in Lacks(r) : rp = <<r, p>>
      BY <2>3
    <2>. QED  BY <2>2, <2>4
  <1>4. CASE Environment
    <2>1. torn' = torn /\ asked' = asked
      BY <1>4, EnvironmentFact DEF clientVars, answerVars
    <2>2. disturbed' = disturbed \/ disturbed' = TRUE
      BY <1>4, EnvironmentFact DEF Delete
    <2>. QED  BY <1>1, <2>1, <2>2
  <1>5. CASE Begin
    BY <1>0, <1>2, <1>5 DEF Begin, ReadInv
  <1>6. CASE LookFirst \/ CountRows \/ CountAfter \/ UNCHANGED vars
    <2>1. torn' = torn /\ asked' = asked /\ (disturbed => disturbed')
      BY <1>6 DEF LookFirst, CountRows, CountAfter, vars, clientVars, answerVars
    <2>. QED  BY <1>1, <2>1
  <1>7. CASE \E P \in PossiblePages : FindRows(P)
    BY <1>2, <1>7 DEF FindRows
  <1>. QED  BY <1>3, <1>4, <1>5, <1>6, <1>7 DEF Next, ClientNext, Environment

LEMMA AnswerStep == AnswerInv /\ [Next]_vars => AnswerInv'
  <1>. SUFFICES ASSUME AnswerInv, [Next]_vars PROVE AnswerInv'
    OBVIOUS
  <1>1. /\ TypeOK /\ HandlerInv /\ PrefixInv /\ BatchInv /\ OrderInv
        /\ ReviewedInv /\ RewardInv /\ ReadInv
    BY DEF AnswerInv
  <1>2. TypeOK'
    <2>1. CASE UNCHANGED vars
      BY <1>1, <2>1 DEF TypeOK, vars, importVars, followerVars, clientVars, answerVars, Q, PageSize
    <2>. QED  BY <1>1, <2>1, ClientType, EnvironmentType DEF Next, Environment
  <1>3. HandlerInv'
    BY <1>1, SameHandler DEF HandlerInv
  <1>. QED
    BY <1>1, <1>2, <1>3, PrefixStep, BatchStep, OrderStep, ReviewedStep, RewardStep, ReadStep, WholeStep
       DEF AnswerInv

LEMMA AnswerInvariant == Spec => []AnswerInv
  BY InitFacts, AnswerStep, PTL DEF Spec

\* The state keeps its shape: the client holds rows of the list it walks through, a page is never
\* longer than it may be, and the import never goes past the chain, for every chain, import and
\* handler.
THEOREM ApiTypeCorrect == Spec => []TypeOK
  BY AnswerInvariant, PTL DEF AnswerInv

\* Of a block the head has reached, no part of an answer is missing, and what the save order puts
\* into the database first is there with every row that refers to it: but for a contract that makes
\* room for the one created at its address above the head, and unless rows have been deleted since
\* the client began, or were being deleted when it did, by a cleanup of the import or of the program
\* behind it, or by a refresh.  For every chain, import and handler.
THEOREM NothingTorn == Spec => []AnswersWhole
  BY AnswerInvariant, PTL DEF AnswerInv
-----------------------------------------------------------------------------
(* The walk through the pages. *)

\* The rows that were there when the walk began, have their place, and have not been received.
Missed == { r \in since \ got : ~ Tied(r) }

\* The rows of the list before one of them.
Before(r) == { s \in Listed : Precedes(Q.sort, s, r) }

\* The rows on the pages up to this one.
Walked == page * PageSize

\* A row that is missed so far is on a page that has not been asked for: as many rows as the earlier
\* pages hold are before it.  The answer's count is of all rows, but for those inserted since.
WalkParts ==
  /\ since \subseteq Shown /\ \A r \in since : r.block <= head
  /\ step \in {"first", "count", "find", "read"} => \A r \in Missed : Cardinality(Before(r)) >= Offset
  /\ step = "find" /\ handler.total = "before" => Cardinality(Q.list \cap db) <= total + grew
  /\ step = "read" => \A r \in Missed \ found : Cardinality(Before(r)) >= Walked
  /\ step = "recount" => \A r \in Missed : Cardinality(Before(r)) >= Walked
  /\ step = "read" /\ handler.total = "before" /\ Missed \ found # {} =>
       Cardinality(Missed \ found) + Walked <= total + grew
  /\ step = "read" /\ handler.total = "short" /\ Cardinality(found) < PageSize => Missed \ found = {}
  /\ step = "done" => Cardinality(Missed) <= grew

WalkOn == step # "new" /\ ~ disturbed /\ CountFits

WalkInv == WalkOn => WalkParts

LEMMA OffsetFact ==
  ASSUME TypeOK
  PROVE  /\ PageSize \in Nat \ {0} /\ Offset \in Nat /\ Walked \in Nat /\ Walked = Offset + PageSize
         /\ page = 1 => Offset = 0
         /\ page' = page + 1 /\ handler' = handler => Offset' = Walked
  <1>1. PageSize \in Nat \ {0} /\ page \in Nat \ {0}
    BY ApiAssumption DEF PageSize, TypeOK
  <1>2. \A a, b \in Nat : a # 0 => (a - 1) * b \in Nat /\ a * b \in Nat /\ a * b = (a - 1) * b + b
    OBVIOUS
  <1>3. page = 1 => Offset = 0
    BY <1>1 DEF Offset
  <1>4. ASSUME page' = page + 1, handler' = handler PROVE Offset' = Walked
    <2>1. PageSize' = PageSize /\ page' - 1 = page
      BY <1>1, <1>4 DEF PageSize
    <2>. QED  BY <2>1 DEF Offset, Walked
  <1>. QED  BY <1>1, <1>2, <1>3, <1>4 DEF Offset, Walked

LEMMA SetFact ==
  ASSUME TypeOK, HandlerInv
  PROVE  /\ Listed \subseteq Q.list \cap db /\ Q.list \cap db \subseteq rows /\ db \subseteq rows
         /\ since \subseteq Q.list \cap Q.kept /\ Missed \subseteq since \ got /\ Missed \subseteq rows
         /\ \A r : Before(r) \subseteq Listed
         /\ \A r : Cardinality(Before(r)) \in Nat
         /\ IsFiniteSet(Missed) /\ Cardinality(Missed) \in Nat
  <1>1. /\ Listed \subseteq Q.list \cap db /\ Q.list \cap db \subseteq rows /\ db \subseteq rows
        /\ since \subseteq Q.list \cap Q.kept /\ Missed \subseteq since \ got /\ Missed \subseteq rows
    BY RowFacts DEF Listed, TypeOK, Missed
  <1>2. \A r : Before(r) \subseteq Listed
    BY DEF Before
  <1>3. \A r : Cardinality(Before(r)) \in Nat
    BY <1>1, <1>2, SizeFact
  <1>4. IsFiniteSet(Missed) /\ Cardinality(Missed) \in Nat
    BY <1>1, SizeFact
  <1>. QED  BY <1>1, <1>2, <1>3, <1>4

LEMMA ShownFact ==
  ASSUME WalkParts, NEW r \in since
  PROVE  r \in Listed /\ r \in db /\ r \in Q.list /\ r.block <= head
  BY DEF WalkParts, Shown, Listed

LEMMA SortFact ==
  ASSUME HandlerInv, NEW r \in rows
  PROVE  ~ Precedes(Q.sort, r, r)
  <1>1. Q.sort \in Sorts
    BY RowFacts DEF HandlerSound, QuerySound, Q
  <1>2. r.block \in Nat /\ r.tx \in Nat /\ r.pos \in Nat
    BY RowFacts
  <1>3. ~ (r.block > r.block) /\ ~ (r.block < r.block) /\ ~ (r.tx > r.tx) /\ ~ (r.pos > r.pos) /\ ~ (r.pos < r.pos)
    BY <1>2
  <1>4. ASSUME NEW sort \in Sorts PROVE ~ Precedes(sort, r, r)
    <2>1. CASE sort = "newest"
      BY <1>3, <2>1 DEF Precedes
    <2>2. CASE sort = "block"
      BY <1>3, <2>2 DEF Precedes
    <2>3. CASE sort = "tx"
      BY <1>3, <2>3 DEF Precedes
    <2>4. CASE sort = "oldest"
      BY <1>3, <2>4 DEF Precedes
    <2>5. CASE sort = "tokenId"
      BY <1>3, <2>5 DEF Precedes
    <2>6. CASE sort = "any"
      BY <2>6 DEF Precedes
    <2>. QED  BY <2>1, <2>2, <2>3, <2>4, <2>5, <2>6 DEF Sorts
  <1>. QED  BY <1>1, <1>4

\* A page and the rows skipped for it.
Skips(S, P) ==
  /\ S \in kSubset(Least(Offset, Cardinality(Listed)), Listed)
  /\ P \in kSubset(Least(PageSize, Cardinality(Listed \ S)), Listed \ S)
  /\ \A a \in S, b \in Listed \ S : ~ Precedes(Q.sort, b, a)
  /\ \A a \in P, b \in (Listed \ S) \ P : ~ Precedes(Q.sort, b, a)

LEMMA SkipFact ==
  ASSUME NEW P \in PossiblePages
  PROVE  \E S : Skips(S, P)
  <1>1. PICK S \in kSubset(Least(Offset, Cardinality(Listed)), Listed) :
          P \in LET rest == Listed \ S
                IN { X \in kSubset(Least(PageSize, Cardinality(rest)), rest) :
                       /\ \A a \in S, b \in rest : ~ Precedes(Q.sort, b, a)
                       /\ \A a \in X, b \in rest \ X : ~ Precedes(Q.sort, b, a) }
    BY DEF PossiblePages
  <1>. QED  BY <1>1 DEF Skips

\* Of rows that have their places, one that is not skipped and not on the page is behind all that are.
LEMMA PageOrder ==
  ASSUME AnswerInv, NEW S, NEW P, Skips(S, P),
         NEW r \in since \ P, r \in Listed, ~ Tied(r), Cardinality(Before(r)) >= Offset
  PROVE  /\ r \notin S /\ Cardinality(Before(r)) >= Walked /\ Cardinality(P) = PageSize
         /\ S \cup P \subseteq Listed /\ Cardinality(S \cup P) = Walked /\ IsFiniteSet(S \cup P)
  <1>0. TypeOK /\ HandlerInv
    BY DEF AnswerInv
  <1>1. r \in Listed /\ r \in rows
    BY <1>0, SetFact
  <1>3. /\ S \in kSubset(Least(Offset, Cardinality(Listed)), Listed)
        /\ P \in kSubset(Least(PageSize, Cardinality(Listed \ S)), Listed \ S)
        /\ \A a \in S, b \in Listed \ S : ~ Precedes(Q.sort, b, a)
        /\ \A a \in P, b \in (Listed \ S) \ P : ~ Precedes(Q.sort, b, a)
    BY DEF Skips
  <1>4. /\ S \subseteq Listed /\ Cardinality(S) = Least(Offset, Cardinality(Listed))
        /\ P \subseteq Listed \ S /\ Cardinality(P) = Least(PageSize, Cardinality(Listed \ S))
    BY <1>3 DEF kSubset
  <1>5. Listed \subseteq rows /\ Listed \subseteq Q.list \cap db
    BY <1>0, SetFact
  <1>6. \A s \in Listed : s # r => Precedes(Q.sort, r, s) \/ Precedes(Q.sort, s, r)
    BY <1>5 DEF Tied
  <1>7. /\ IsFiniteSet(S) /\ IsFiniteSet(P) /\ IsFiniteSet(Listed \ S)
        /\ {Cardinality(S), Cardinality(P), Cardinality(Listed), Cardinality(Listed \ S)} \subseteq Nat
    BY <1>0, <1>4, <1>5, SizeFact
  <1>8. PageSize \in Nat \ {0} /\ Offset \in Nat /\ Walked = Offset + PageSize
    BY <1>0, OffsetFact
  <1>9. r \notin S
    <2>. SUFFICES ASSUME r \in S PROVE FALSE
      OBVIOUS
    <2>1. Before(r) \subseteq S
      BY <1>3 DEF Before
    <2>2. Before(r) # S
      BY <1>0, <1>1, SortFact DEF Before
    <2>3. Cardinality(Before(r)) < Cardinality(S) /\ Cardinality(Before(r)) \in Nat
      BY <1>0, <1>4, <1>5, <2>1, <2>2, SizeFact
    <2>. QED  BY <1>4, <1>7, <1>8, <2>3 DEF Least
  <1>10. Cardinality(S) = Offset
    <2>1. Cardinality(S) # Cardinality(Listed)
      BY <1>0, <1>1, <1>4, <1>5, <1>9, SizeFact
    <2>. QED  BY <1>4, <1>7, <1>8, <2>1 DEF Least
  <1>11. Cardinality(P) = PageSize
    <2>1. Cardinality(P) # Cardinality(Listed \ S)
      <3>1. Listed \ S \subseteq rows /\ P # Listed \ S
        BY <1>1, <1>5, <1>9
      <3>2. Cardinality(P) < Cardinality(Listed \ S)
        BY <1>0, <1>4, <3>1, SizeFact
      <3>. QED  BY <1>7, <3>2
    <2>. QED  BY <1>4, <1>7, <1>8, <2>1 DEF Least
  <1>12. Cardinality(S \cup P) = Walked /\ IsFiniteSet(S \cup P)
    <2>1. S \cap P = {}
      BY <1>4
    <2>2. /\ IsFiniteSet(S \cup P)
          /\ Cardinality(S \cup P) = Cardinality(S) + Cardinality(P) - Cardinality({})
      BY <1>7, <2>1, FS_Union
    <2>. QED  BY <1>8, <1>10, <1>11, <2>2, FS_EmptySet
  <1>13. \A s \in S \cup P : Precedes(Q.sort, s, r)
    BY <1>1, <1>3, <1>4, <1>6, <1>9
  <1>14. S \cup P \subseteq Before(r) /\ Before(r) \subseteq rows
    BY <1>4, <1>5, <1>13 DEF Before
  <1>15. Cardinality(Before(r)) >= Walked
    <2>1. Cardinality(S \cup P) <= Cardinality(Before(r)) /\ Cardinality(Before(r)) \in Nat
      BY <1>0, <1>14, SizeFact
    <2>. QED  BY <1>8, <1>12, <2>1
  <1>. QED  BY <1>4, <1>9, <1>11, <1>12, <1>15

\* What the other programs insert is counted, and only adds to the rows before another.
LEMMA WalkEnvironment ==
  ASSUME AnswerInv, WalkInv, Environment
  PROVE  WalkInv'
  <1>. SUFFICES ASSUME WalkOn' PROVE WalkParts'
    BY DEF WalkInv
  <1>0. TypeOK /\ HandlerInv /\ ReadInv
    BY DEF AnswerInv
  <1>1. UNCHANGED <<handler, step, page, total, found, got, since>>
    BY EnvironmentFact DEF clientVars, answerVars
  <1>2. ~ disturbed' /\ ~ disturbed
    <2>1. disturbed' = disturbed \/ disturbed' = TRUE
      BY EnvironmentFact DEF Delete
    <2>. QED  BY <2>1 DEF WalkOn
  <1>3. \/ UNCHANGED <<db, grew>>
        \/ \E r \in rows \ db : db' = db \cup {r}
             /\ grew' = IF step = "find" /\ r \in Q.list THEN grew + 1 ELSE grew
    BY <1>2, EnvironmentFact DEF Insert, Delete
  <1>4. Q' = Q /\ PageSize' = PageSize /\ Offset' = Offset /\ Walked' = Walked
    BY <1>1 DEF Q, PageSize, Offset, Walked
  <1>5. WalkParts
    BY <1>1, <1>2, <1>4 DEF WalkInv, WalkOn, CountFits
  <1>6. db \subseteq db' /\ db' \subseteq rows
    BY <1>0, <1>3 DEF TypeOK
  <1>7. Missed' \subseteq Missed
    <2>. SUFFICES ASSUME NEW r \in since, Tied(r) PROVE Tied(r)'
      BY <1>1 DEF Missed
    <2>. QED  BY <1>4, <1>6 DEF Tied
  <1>8. \A r : Cardinality(Before(r)') \in Nat /\ Cardinality(Before(r)) <= Cardinality(Before(r)')
    <2>. SUFFICES ASSUME NEW r PROVE Cardinality(Before(r)') \in Nat /\ Cardinality(Before(r)) <= Cardinality(Before(r)')
      OBVIOUS
    <2>1. Listed \subseteq Listed' /\ Listed' \subseteq rows
      BY <1>0, <1>4, <1>6, RowFacts DEF Listed
    <2>2. Before(r) \subseteq Before(r)' /\ Before(r)' \subseteq rows
      BY <1>4, <2>1 DEF Before
    <2>. QED  BY <1>0, <2>2, SizeFact
  <1>9. \A r : Cardinality(Before(r)) \in Nat
    BY <1>0, SetFact
  <1>10. /\ Offset \in Nat /\ Walked \in Nat /\ PageSize \in Nat
         /\ total \in Nat /\ grew \in Nat /\ grew' \in Nat /\ grew <= grew'
    BY <1>0, <1>3, OffsetFact DEF TypeOK
  <1>11. since' \subseteq Shown' /\ \A r \in since' : r.block <= head'
    <2>1. \A r \in since : r.block \in Nat
      BY <1>0, SetFact, RowFacts
    <2>2. head <= head' /\ head \in Nat /\ head' \in Nat
      BY <1>0, HeadStep DEF Next, Environment, TypeOK
    <2>3. Shown \subseteq Shown'
      <3>1. Listed \subseteq Listed'
        BY <1>4, <1>6 DEF Listed
      <3>. QED  BY <1>1, <1>6, <3>1 DEF Shown
    <2>. QED  BY <1>1, <1>5, <2>1, <2>2, <2>3 DEF WalkParts
  <1>12. step \in {"first", "count", "find", "read"} => \A r \in Missed' : Cardinality(Before(r)') >= Offset
    BY <1>5, <1>7, <1>8, <1>9, <1>10 DEF WalkParts
  <1>13. step = "find" /\ handler.total = "before" => Cardinality(Q.list \cap db') <= total + grew'
    <2>. SUFFICES ASSUME step = "find", handler.total = "before"
                  PROVE  Cardinality(Q.list \cap db') <= total + grew'
      OBVIOUS
    <2>1. Cardinality(Q.list \cap db) <= total + grew /\ IsFiniteSet(Q.list \cap db)
          /\ Cardinality(Q.list \cap db) \in Nat
      BY <1>0, <1>5, SetFact, SizeFact DEF WalkParts
    <2>2. ASSUME NEW r \in rows \ db, db' = db \cup {r}, r \in Q.list, grew' = grew + 1
          PROVE  Cardinality(Q.list \cap db') <= total + grew'
      <3>1. Q.list \cap db' = (Q.list \cap db) \cup {r} /\ r \notin Q.list \cap db
        BY <2>2
      <3>2. Cardinality(Q.list \cap db') = Cardinality(Q.list \cap db) + 1
        BY <2>1, <3>1, FS_AddElement
      <3>. QED  BY <1>10, <2>1, <2>2, <3>2
    <2>3. ASSUME NEW r \in rows \ db, db' = db \cup {r}, r \notin Q.list, grew' = grew
          PROVE  Cardinality(Q.list \cap db') <= total + grew'
      <3>1. Q.list \cap db' = Q.list \cap db
        BY <2>3
      <3>. QED  BY <2>1, <2>3, <3>1
    <2>. QED  BY <1>3, <2>1, <2>2, <2>3
  <1>14. step = "read" => \A r \in Missed' \ found : Cardinality(Before(r)') >= Walked
    BY <1>5, <1>7, <1>8, <1>9, <1>10 DEF WalkParts
  <1>15. step = "recount" => \A r \in Missed' : Cardinality(Before(r)') >= Walked
    BY <1>5, <1>7, <1>8, <1>9, <1>10 DEF WalkParts
  <1>16. /\ Cardinality(Missed') <= Cardinality(Missed) /\ Cardinality(Missed' \ found) <= Cardinality(Missed \ found)
         /\ {Cardinality(Missed'), Cardinality(Missed), Cardinality(Missed' \ found), Cardinality(Missed \ found)}
              \subseteq Nat
    <2>1. Missed \subseteq rows /\ Missed \ found \subseteq rows /\ Missed' \ found \subseteq Missed \ found
      BY <1>0, <1>7, SetFact
    <2>. QED  BY <1>0, <1>7, <2>1, SizeFact
  <1>17. step = "read" /\ handler.total = "before" /\ Missed' \ found # {} =>
           Cardinality(Missed' \ found) + Walked <= total + grew'
    <2>. SUFFICES ASSUME step = "read", handler.total = "before", Missed' \ found # {}
                  PROVE  Cardinality(Missed' \ found) + Walked <= total + grew'
      OBVIOUS
    <2>1. Cardinality(Missed \ found) + Walked <= total + grew
      BY <1>5, <1>7 DEF WalkParts
    <2>. QED  BY <1>10, <1>16, <2>1
  <1>18. step = "read" /\ handler.total = "short" /\ Cardinality(found) < PageSize => Missed' \ found = {}
    BY <1>5, <1>7 DEF WalkParts
  <1>19. step = "done" => Cardinality(Missed') <= grew'
    BY <1>5, <1>10, <1>16 DEF WalkParts
  <1>. QED
    BY <1>1, <1>4, <1>11, <1>12, <1>13, <1>14, <1>15, <1>17, <1>18, <1>19 DEF WalkParts

\* What a step of the client leaves as it is.
LEMMA ClientFact ==
  ASSUME ClientNext
  PROVE  /\ UNCHANGED <<handler, rows, db, head>>
         /\ Q' = Q /\ PageSize' = PageSize /\ Listed' = Listed /\ Shown' = Shown
         /\ \A r : Before(r)' = Before(r)
         /\ \A r : Tied(r)' <=> Tied(r)
         /\ CountFits' <=> CountFits
  <1>1. UNCHANGED <<handler, rows, db, head>>
    BY DEF ClientNext, Begin, LookFirst, CountRows, FindRows, ReadParts, CountAfter, Theirs, importVars
  <1>2. Q' = Q /\ PageSize' = PageSize
    BY <1>1 DEF Q, PageSize
  <1>3. Listed' = Listed /\ Shown' = Shown
    BY <1>1, <1>2 DEF Listed, Shown
  <1>4. \A r : Before(r)' = Before(r)
    BY <1>2, <1>3 DEF Before
  <1>5. \A r : Tied(r)' <=> Tied(r)
    BY <1>1, <1>2 DEF Tied
  <1>6. CountFits' <=> CountFits
    BY <1>1, <1>2 DEF CountFits
  <1>. QED  BY <1>1, <1>2, <1>3, <1>4, <1>5, <1>6

LEMMA WalkBegin ==
  ASSUME AnswerInv, Begin
  PROVE  WalkInv'
  <1>. SUFFICES ASSUME WalkOn' PROVE WalkParts'
    BY DEF WalkInv
  <1>0. TypeOK /\ HandlerInv /\ ReadInv
    BY DEF AnswerInv
  <1>1. page = 1 /\ Offset = 0
    BY <1>0, OffsetFact DEF Begin, ReadInv
  <1>2. Offset' = Offset
    BY DEF Begin, Offset, PageSize
  <1>3. \A r : Cardinality(Before(r)') \in Nat
    BY <1>0, SetFact, ClientFact DEF ClientNext
  <1>4. since' \subseteq Shown' /\ \A r \in since' : r.block <= head'
    BY ClientFact DEF ClientNext, Begin
  <1>. QED  BY <1>1, <1>2, <1>3, <1>4 DEF Begin, WalkParts

\* Without the contract it asks about the client is shown nothing.
LEMMA WalkFirst ==
  ASSUME AnswerInv, WalkInv, LookFirst
  PROVE  WalkInv'
  <1>. SUFFICES ASSUME WalkOn' PROVE WalkParts'
    BY DEF WalkInv
  <1>0. TypeOK /\ HandlerInv /\ PrefixInv
    BY DEF AnswerInv
  <1>1. /\ UNCHANGED <<page, found, got, since, total, disturbed, grew>> /\ step = "first"
        /\ step' \in {"count", "done"}
    BY DEF LookFirst, answerVars
  <1>2. UNCHANGED <<handler, rows, db, head>> /\ (CountFits' <=> CountFits) /\ PageSize' = PageSize /\ Shown' = Shown
        /\ (\A r : Before(r)' = Before(r)) /\ (\A r : Tied(r)' <=> Tied(r))
    BY ClientFact DEF ClientNext
  <1>3. WalkParts
    BY <1>1, <1>2 DEF WalkInv, WalkOn
  <1>4. Missed' = Missed /\ Offset' = Offset
    BY <1>1, <1>2 DEF Missed, Offset
  <1>5. step' = "done" => Cardinality(Missed) <= grew
    <2>0. Missed = {} => Cardinality(Missed) <= grew
      BY <1>0, FS_EmptySet DEF TypeOK
    <2>. SUFFICES ASSUME handler.first # {}, handler.first \cap db = {} PROVE Missed = {}
      BY <2>0 DEF LookFirst
    <2>. QED  BY <1>3 DEF WalkParts, Shown, Missed
  <1>. QED  BY <1>1, <1>2, <1>3, <1>4, <1>5 DEF WalkParts

LEMMA WalkCount ==
  ASSUME AnswerInv, WalkInv, CountRows
  PROVE  WalkInv'
  <1>. SUFFICES ASSUME WalkOn' PROVE WalkParts'
    BY DEF WalkInv
  <1>0. TypeOK /\ HandlerInv
    BY DEF AnswerInv
  <1>1. /\ UNCHANGED <<page, found, got, since, disturbed>> /\ step = "count" /\ step' = "find" /\ grew' = 0
    BY DEF CountRows
  <1>2. UNCHANGED <<handler, rows, db, head>> /\ (CountFits' <=> CountFits) /\ Q' = Q /\ PageSize' = PageSize /\ Shown' = Shown
        /\ (\A r : Before(r)' = Before(r)) /\ (\A r : Tied(r)' <=> Tied(r))
    BY ClientFact DEF ClientNext
  <1>3. WalkParts /\ CountFits
    BY <1>1, <1>2 DEF WalkInv, WalkOn
  <1>4. Missed' = Missed /\ Offset' = Offset
    BY <1>1, <1>2 DEF Missed, Offset
  <1>5. handler.total = "before" => Cardinality(Q.list \cap db) <= total' + grew'
    <2>1. Q.list \cap db \subseteq Counted
      BY <1>3 DEF CountFits, Counted
    <2>2. Counted \subseteq rows
      BY <1>0, RowFacts DEF Counted
    <2>3. Cardinality(Q.list \cap db) <= Cardinality(Counted) /\ Cardinality(Counted) \in Nat
      BY <1>0, <2>1, <2>2, SizeFact
    <2>. QED  BY <1>1, <2>3 DEF CountRows
  <1>. QED  BY <1>1, <1>2, <1>3, <1>4, <1>5 DEF WalkParts

LEMMA WalkFind ==
  ASSUME AnswerInv, WalkInv, NEW P \in PossiblePages, FindRows(P)
  PROVE  WalkInv'
  <1>. SUFFICES ASSUME WalkOn' PROVE WalkParts'
    BY DEF WalkInv
  <1>0. TypeOK /\ HandlerInv
    BY DEF AnswerInv
  <1>1. /\ UNCHANGED <<page, total, got, since, disturbed, grew>> /\ step = "find" /\ step' = "read" /\ found' = P
    BY DEF FindRows
  <1>2. UNCHANGED <<handler, rows, db, head>> /\ (CountFits' <=> CountFits) /\ Q' = Q /\ PageSize' = PageSize /\ Shown' = Shown
        /\ (\A r : Before(r)' = Before(r)) /\ (\A r : Tied(r)' <=> Tied(r))
    BY ClientFact DEF ClientNext
  <1>3. WalkParts
    BY <1>1, <1>2 DEF WalkInv, WalkOn
  <1>4. Missed' = Missed /\ Offset' = Offset /\ Walked' = Walked
    BY <1>1, <1>2 DEF Missed, Offset, Walked
  <1>5. \A r \in Missed \ P :
          /\ r \in since \ P /\ r \in Listed /\ ~ Tied(r) /\ Cardinality(Before(r)) >= Offset
    BY <1>1, <1>3, ShownFact DEF WalkParts, Missed
  <1>6. PICK S : Skips(S, P)
    BY SkipFact
  <1>7. \A r \in Missed \ P :
          /\ r \notin S /\ Cardinality(Before(r)) >= Walked /\ Cardinality(P) = PageSize
          /\ S \cup P \subseteq Listed /\ Cardinality(S \cup P) = Walked /\ IsFiniteSet(S \cup P)
    BY <1>5, <1>6, PageOrder
  <1>9. ASSUME handler.total = "before", Missed \ P # {}
        PROVE  Cardinality(Missed \ P) + Walked <= total + grew
    <2>1. S \cup P \subseteq Listed /\ Cardinality(S \cup P) = Walked /\ IsFiniteSet(S \cup P)
      BY <1>7, <1>9
    <2>2. (S \cup P) \cap (Missed \ P) = {}
      BY <1>7
    <2>3. IsFiniteSet(Missed \ P) /\ Cardinality(Missed \ P) \in Nat
      BY <1>0, SetFact, FS_Subset, FS_CardinalityType
    <2>4. Cardinality((S \cup P) \cup (Missed \ P)) = Walked + Cardinality(Missed \ P)
      <3>1. Cardinality((S \cup P) \cup (Missed \ P))
              = Cardinality(S \cup P) + Cardinality(Missed \ P) - Cardinality({})
        BY <2>1, <2>2, <2>3, FS_Union
      <3>2. Walked \in Nat
        BY <1>0, OffsetFact
      <3>. QED  BY <2>1, <2>3, <3>1, <3>2, FS_EmptySet
    <2>5. (S \cup P) \cup (Missed \ P) \subseteq Q.list \cap db
      BY <1>0, <1>5, <2>1, SetFact
    <2>6. /\ Cardinality((S \cup P) \cup (Missed \ P)) <= Cardinality(Q.list \cap db)
          /\ Cardinality(Q.list \cap db) \in Nat
      BY <1>0, <2>5, SetFact, SizeFact
    <2>7. Cardinality(Q.list \cap db) <= total + grew
      BY <1>1, <1>3, <1>9 DEF WalkParts
    <2>8. total \in Nat /\ grew \in Nat /\ Walked \in Nat
      BY <1>0, OffsetFact DEF TypeOK
    <2>. QED  BY <2>3, <2>4, <2>6, <2>7, <2>8
  <1>8. handler.total = "short" /\ Cardinality(P) < PageSize => Missed \ P = {}
    <2>1. PageSize \in Nat
      BY <1>0, OffsetFact
    <2>. QED  BY <1>7, <2>1
  <1>. QED  BY <1>1, <1>2, <1>3, <1>4, <1>7, <1>8, <1>9 DEF WalkParts

\* A handler keeps what it has found, since no part of a row below the head is missing.
LEMMA WalkRead ==
  ASSUME AnswerInv, WalkInv, ReadParts
  PROVE  WalkInv'
  <1>. SUFFICES ASSUME WalkOn' PROVE WalkParts'
    BY DEF WalkInv
  <1>0. TypeOK /\ HandlerInv /\ PrefixInv
    BY DEF AnswerInv
  <1>1. UNCHANGED <<total, since, disturbed, grew>> /\ step = "read"
    BY DEF ReadParts
  <1>2. UNCHANGED <<handler, rows, db, head>> /\ (CountFits' <=> CountFits) /\ Q' = Q /\ PageSize' = PageSize /\ Shown' = Shown
        /\ (\A r : Before(r)' = Before(r)) /\ (\A r : Tied(r)' <=> Tied(r))
    BY ClientFact DEF ClientNext
  <1>3. WalkParts /\ CountFits
    BY <1>1, <1>2 DEF WalkInv, WalkOn
  <1>4. since' \subseteq Shown' /\ \A r \in since' : r.block <= head'
    BY <1>1, <1>2, <1>3 DEF WalkParts
  <1>5. CASE \E r \in found : Fails(r)
    <2>1. step' = "first" /\ page' = page /\ got' = got
      BY <1>5 DEF ReadParts
    <2>2. Missed' = Missed /\ Offset' = Offset
      BY <1>1, <1>2, <2>1 DEF Missed, Offset
    <2>3. \A r \in Missed : Cardinality(Before(r)) >= Offset
      BY <1>1, <1>3 DEF WalkParts
    <2>. QED  BY <1>2, <1>4, <2>1, <2>2, <2>3 DEF WalkParts
  <1>6. CASE ~ \E r \in found : Fails(r)
    <2>1. got' = got \cup { r \in found \cap Q.kept : handler.leavesOut => Lacks(r) = {} }
      BY <1>6 DEF ReadParts
    <2>2. Missed' \subseteq Missed \ found
      <3>. SUFFICES ASSUME NEW r \in since \cap found, handler.leavesOut PROVE Lacks(r) = {}
        <4>1. since \subseteq Q.kept
          BY <1>0, SetFact
        <4>. QED  BY <1>1, <1>2, <2>1, <4>1 DEF Missed
      <3>1. r \in Q.list /\ r \in rows /\ r.block <= head
        BY <1>0, <1>3, ShownFact, SetFact
      <3>2. LeavesNone(handler)
        BY <1>0, <1>3, RowFacts DEF HandlerSound, CountFits, Q
      <3>. SUFFICES ASSUME NEW p \in Lacks(r) PROVE FALSE
        OBVIOUS
      <3>3. p \in rows /\ ~ InStore(p) /\ p \in handler.needs[r] \cup handler.parts[r]
        BY <1>0, <3>1, LackFact
      <3>4. p.in \in ToSet(SaveOrder) \ {"contract"} /\ p.block <= r.block
        BY <3>1, <3>2, <3>3 DEF LeavesNone, Q
      <3>5. p.block <= head
        BY <1>0, <3>1, <3>3, <3>4, RowFacts DEF TypeOK
      <3>. QED  BY <1>0, <3>3, <3>4, <3>5 DEF PrefixInv, CreatedAgain
    <2>3. \A r \in Missed' : Cardinality(Before(r)) >= Walked
      BY <1>1, <1>3, <2>2 DEF WalkParts
    <2>4. handler.total \in {"before", "after", "short"}
      BY <1>0, <1>3, RowFacts DEF HandlerSound, CountFits
    <2>5. CASE handler.total = "after"
      <3>1. step' = "recount" /\ page' = page
        BY <1>6, <2>5 DEF ReadParts
      <3>2. Walked' = Walked
        BY <1>2, <3>1 DEF Walked
      <3>. QED  BY <1>2, <1>4, <2>3, <3>1, <3>2 DEF WalkParts
    <2>6. CASE handler.total # "after" /\ ~ AtEnd
      <3>1. step' = "first" /\ page' = page + 1
        BY <1>6, <2>6 DEF ReadParts
      <3>2. Offset' = Walked
        BY <1>0, <1>2, <3>1, OffsetFact
      <3>. QED  BY <1>2, <1>4, <2>3, <3>1, <3>2 DEF WalkParts
    <2>7. CASE handler.total # "after" /\ AtEnd
      <3>1. step' = "done"
        BY <1>6, <2>7 DEF ReadParts
      <3>2. Cardinality(Missed \ found) <= grew
        <4>0. grew \in Nat
          BY <1>0 DEF TypeOK
        <4>1. ASSUME Missed \ found = {} PROVE Cardinality(Missed \ found) <= grew
          <5>1. Cardinality(Missed \ found) = 0
            BY <4>1, FS_EmptySet
          <5>. QED  BY <4>0, <5>1
        <4>2. CASE handler.total = "short"
          BY <1>1, <1>3, <2>7, <4>1, <4>2 DEF AtEnd, WalkParts
        <4>3. CASE handler.total = "before"
          <5>. SUFFICES ASSUME Missed \ found # {} PROVE Cardinality(Missed \ found) <= grew
            BY <4>1
          <5>1. Cardinality(Missed \ found) + Walked <= total + grew
            BY <1>1, <1>3, <4>3 DEF WalkParts
          <5>2. Walked >= total
            BY <2>7, <4>3 DEF AtEnd, Walked
          <5>3. {Cardinality(Missed \ found), Walked, total, grew} \subseteq Nat
            BY <1>0, OffsetFact, SetFact, FS_Subset, FS_CardinalityType DEF TypeOK
          <5>. QED  BY <5>1, <5>2, <5>3
        <4>. QED  BY <2>4, <2>7, <4>2, <4>3
      <3>3. Cardinality(Missed') <= grew'
        <4>1. Missed \ found \subseteq rows /\ grew \in Nat
          BY <1>0, SetFact DEF TypeOK
        <4>2. /\ Cardinality(Missed') <= Cardinality(Missed \ found)
              /\ Cardinality(Missed') \in Nat /\ Cardinality(Missed \ found) \in Nat
          BY <1>0, <2>2, <4>1, SizeFact
        <4>. QED  BY <1>1, <3>2, <4>1, <4>2
      <3>. QED  BY <1>4, <3>1, <3>3 DEF WalkParts
    <2>. QED  BY <2>5, <2>6, <2>7
  <1>. QED  BY <1>5, <1>6

LEMMA WalkRecount ==
  ASSUME AnswerInv, WalkInv, CountAfter
  PROVE  WalkInv'
  <1>. SUFFICES ASSUME WalkOn' PROVE WalkParts'
    BY DEF WalkInv
  <1>0. TypeOK /\ HandlerInv
    BY DEF AnswerInv
  <1>1. UNCHANGED <<found, since, got, disturbed, grew>> /\ step = "recount"
    BY DEF CountAfter
  <1>2. UNCHANGED <<handler, rows, db, head>> /\ (CountFits' <=> CountFits) /\ Q' = Q /\ PageSize' = PageSize /\ Shown' = Shown
        /\ (\A r : Before(r)' = Before(r)) /\ (\A r : Tied(r)' <=> Tied(r))
    BY ClientFact DEF ClientNext
  <1>3. WalkParts /\ CountFits
    BY <1>1, <1>2 DEF WalkInv, WalkOn
  <1>4. Missed' = Missed
    BY <1>1, <1>2 DEF Missed
  <1>5. since' \subseteq Shown' /\ \A r \in since' : r.block <= head'
    BY <1>1, <1>2, <1>3 DEF WalkParts
  <1>6. \A r \in Missed : Cardinality(Before(r)) >= Walked
    BY <1>1, <1>3 DEF WalkParts
  <1>7. CASE Walked < Cardinality(Counted)
    <2>1. Walked \in Nat /\ Cardinality(Counted) \in Nat
      BY <1>0, OffsetFact, RowFacts, SizeFact DEF Counted
    <2>2. step' = "first" /\ page' = page + 1
      BY <1>7, <2>1 DEF CountAfter, Walked
    <2>3. Offset' = Walked
      BY <1>0, <1>2, <2>2, OffsetFact
    <2>. QED  BY <1>2, <1>4, <1>5, <1>6, <2>2, <2>3 DEF WalkParts
  <1>8. CASE ~ (Walked < Cardinality(Counted))
    <2>0. Walked \in Nat /\ Cardinality(Counted) \in Nat
      BY <1>0, OffsetFact, RowFacts, SizeFact DEF Counted
    <2>1. step' = "done"
      BY <1>8, <2>0 DEF CountAfter, Walked
    <2>2. Missed = {}
      <3>. SUFFICES ASSUME NEW r \in Missed PROVE FALSE
        OBVIOUS
      <3>1. r \in Q.list \cap db /\ r \in rows /\ r \in Listed
        BY <1>0, <1>3, ShownFact, SetFact
      <3>2. r \notin Before(r)
        BY <1>0, <3>1, SortFact DEF Before
      <3>3. Before(r) \subseteq Counted /\ Before(r) # Counted /\ Counted \subseteq rows
        BY <1>0, <1>3, <3>1, <3>2, SetFact, RowFacts DEF CountFits, Counted
      <3>4. Cardinality(Before(r)) < Cardinality(Counted) /\ Cardinality(Before(r)) \in Nat
        BY <1>0, <3>3, SizeFact
      <3>. QED  BY <1>6, <1>8, <2>0, <3>4
    <2>3. Cardinality(Missed') <= grew'
      BY <1>0, <1>1, <1>4, <2>2, FS_EmptySet DEF TypeOK
    <2>. QED  BY <1>5, <2>1, <2>3 DEF WalkParts
  <1>. QED  BY <1>7, <1>8

LEMMA WalkStep == AnswerInv /\ WalkInv /\ [Next]_vars => WalkInv'
  <1>. SUFFICES ASSUME AnswerInv, WalkInv, [Next]_vars PROVE WalkInv'
    OBVIOUS
  <1>1. CASE UNCHANGED vars
    BY <1>1 DEF vars, importVars, clientVars, answerVars, WalkInv, WalkOn, WalkParts, CountFits, Missed, Before,
                Tied, Listed, Shown, Offset, Walked, PageSize, Q
  <1>. QED
    BY <1>1, WalkEnvironment, WalkBegin, WalkFirst, WalkCount, WalkFind, WalkRead, WalkRecount
       DEF Next, Environment, ClientNext

\* Walking through the pages of a list while the import and the other programs go on, a client misses no
\* row below the head that it would have been shown when it began and that the sort puts in its place, but
\* for as many as were inserted after the last count, if nothing was deleted meanwhile; for every chain,
\* handler, sort and page size.
THEOREM WalkMissesNothing == Spec => []NothingMissed
  <1>1. Init => WalkInv
    BY DEF Init, WalkInv, WalkOn
  <1>2. Spec => []WalkInv
    BY <1>1, WalkStep, AnswerInvariant, PTL DEF Spec
  <1>3. WalkInv => NothingMissed
    BY DEF WalkInv, WalkOn, WalkParts, NothingMissed, Missed
  <1>. QED  BY <1>2, <1>3, PTL
=============================================================================
