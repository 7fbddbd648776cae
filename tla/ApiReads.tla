------------------------------ MODULE ApiReads ------------------------------
(***************************************************************************)
(* The REST API (src/src/api): what a client sees that walks through the   *)
(* pages of a list, or asks for one thing, while the other programs write. *)
(*                                                                         *)
(* A handler reads the collections directly, one query after the other:    *)
(* it counts, finds a page, and looks up other rows for those it found.    *)
(* It does not look at the heads.  Between any two queries the import      *)
(* inserts rows, one at a time and collection by collection, crashes,      *)
(* cleans up, or puts a contract in the place of one that has destroyed    *)
(* itself; the programs behind it add theirs, and delete what they have    *)
(* not finished when they are restarted; and the metric process replaces   *)
(* the collections it owns.                                                *)
(*                                                                         *)
(* A row says in which collection it is, its place on the chain (block, tx *)
(* and pos, which for some is the token id or the epoch), its kind, the    *)
(* accounts it is about, and the address of the token or contract, or the  *)
(* id of the auction, it belongs to.  Its contents, and how an answer is   *)
(* formatted, are left out.                                                *)
(***************************************************************************)
EXTENDS Integers, SequencesExt

CONSTANTS
  Row,         \* the rows of the whole chain
  MaxBlock, Window,
  MaxCrash,    \* crashes of the import and restarts of the program behind it
  Limit,       \* rows per page
  Me,          \* the account the client asks about
  Coin, Art,   \* an ERC-20 token and an NFT contract
  AuctionID,   \* an auction
  From, To     \* a range of blocks

ASSUME ApiAssumption ==
  /\ {MaxBlock, Window, Limit} \subseteq Nat \ {0}
  /\ MaxCrash \in Nat
  /\ \A r \in Row : DOMAIN r = {"in", "block", "tx", "pos", "kind", "of", "token"}

In(c) == { r \in Row : r.in = c }

Contracts == In("contract")

Committees == In("committee")

\* Rows created while a block is processed, before anything of the batch is saved.  The cleanup
\* corrects them, and does not delete them.
InPlace == {"account", "tokenBalance"}

\* Blocks before their transactions.
BugSaveOrder == << "movement", "block", "tx", "logEvent", "committee", "txDigest", "contract",
                   "internalTx" >>

\* The order in which saveCacheToDB fills the collections, before it writes the head.
SaveOrder == << "movement", "tx", "logEvent", "committee", "txDigest", "contract", "internalTx",
                "block" >>

\* The order in which cleanUpIncompleteData empties them.
CleanOrder == << "block", "tx", "logEvent", "committee", "txDigest", "movement", "contract",
                 "internalTx" >>

\* Collections the programs behind the head write, block by block; of one block, rewards before
\* their summary.
Followers == {"nft", "bid", "auction", "epochReward", "epochRewardSummary"}

\* The order in which cleanUpIncompleteData of the script engine empties its collections; the NFT
\* import's deletes nfts alone.
FollowerCleanOrder == << "auction", "bid", "epochReward", "epochRewardSummary", "nft" >>

\* Collections the metric process deletes and fills again.
Refreshed == {"bucket", "validator"}

\* The rows of S in the earliest collection of the order that has any.
Earliest(S, order) ==
  { r \in S : \E i \in DOMAIN order : /\ order[i] = r.in
                                      /\ \A s \in S, j \in 1..(i - 1) : s.in # order[j] }
-----------------------------------------------------------------------------
(***************************************************************************)
(* Queries: the rows counted, those listed and in which order, and those   *)
(* kept of a page.  A count may be "joined" with the contracts of the      *)
(* rows, or the list ("unwind"): a row without its contract is left out.   *)
(***************************************************************************)

Query(S, sort) == [count |-> S, joined |-> FALSE,
                   list |-> S, kept |-> S, sort |-> sort, unwind |-> FALSE]

Of(c, a) == { r \in In(c) : a \in r.of }

Token(c, t) == { r \in In(c) : r.token = t }

Kind(S, K) == { r \in S : r.kind \in K }

InRange(S) == { r \in S : From <= r.block /\ r.block <= To }

NFTKinds == {"ERC721", "ERC1155"}

\* The contract of a row's token, the contracts among its accounts, its transaction, a block.
ContractOf(r) == { c \in Contracts : c.token = r.token }

PartiesOf(r) == { c \in Contracts : c.token \in r.of /\ c.block <= r.block }

TxOf(r) == { t \in In("tx") : t.block = r.block /\ t.tx = r.tx }

BlockAt(n) == { b \in In("block") : b.block = n }

\* The rows that are considered: none that is saved is of the genesis block, and an epoch's rewards are
\* of the block of its summary.
ASSUME RowAssumption ==
  /\ IsFiniteSet(Row)
  /\ \A r \in Row : {r.block, r.tx, r.pos} \subseteq Nat
  /\ \A r \in Row : r.in \in ToSet(SaveOrder) \cup Followers => r.block # 0
  /\ \A s \in In("epochRewardSummary"), w \in In("epochReward") : w.pos = s.pos => w.block = s.block

(* movement.repo.ts: by _id, newest first; or sorted by block in the handler's process. *)

MovementsPaginate(S) == Query(S, "newest")

MovementsByTokenAddrTokenId == MovementsPaginate(Kind(Token("movement", Art), NFTKinds))

MovementsByTokenAddress(t) == MovementsPaginate(Token("movement", t))

MovementsByTokenAddressInRange(t) == MovementsPaginate(InRange(Token("movement", t)))

ERC20TxsByAddress(a) == Kind(Of("movement", a), {"ERC20"})

ERC721TxsByAddress(a) == Kind(Of("movement", a), {"ERC721"})

ERC1155TxsByAddress(a) == Kind(Of("movement", a), {"ERC1155"})

NFTTxsByAddress(a) == Kind(Of("movement", a), NFTKinds)

ERC20TxsByAccount(a) == Query(ERC20TxsByAddress(a), "block")

ERC721TxsByAccount(a) == Query(ERC721TxsByAddress(a), "block")

ERC1155TxsByAccount(a) == Query(ERC1155TxsByAddress(a), "block")

\* A movement without its contract is no row of the list, but it is counted.
NFTTxsByAccount(a) == [Query(NFTTxsByAddress(a), "block") EXCEPT !.unwind = TRUE]

\* All are counted, those in the range are listed.
ERC20TxsByAccountInRange(a) ==
  [Query(InRange(ERC20TxsByAddress(a)), "block") EXCEPT !.count = ERC20TxsByAddress(a)]

NFTTxsByAccountInRange(a) ==
  [Query(InRange(NFTTxsByAddress(a)), "block")
     EXCEPT !.count = NFTTxsByAddress(a), !.unwind = TRUE]

NFTMovementsInRange == Query(InRange(Kind(In("movement"), NFTKinds)), "any")

(* tokenBalance.repo.ts: sorted by balances, which change, or not at all. *)

HoldersByTokenAddress(t) == Query(Token("tokenBalance", t), "any")

TokensByAddress(a) == Query(Of("tokenBalance", a), "any")

\* The page is taken before the token's contract is joined and its type looked at, the count after.
PageThenType(a, kinds) ==
  LET typed == { r \in Of("tokenBalance", a) : \E c \in ContractOf(r) : c.kind \in kinds }
  IN [TokensByAddress(a) EXCEPT !.count = typed, !.joined = TRUE, !.kept = typed]

ERC20ByAddress(a) == PageThenType(a, {"ERC20"})

NFTByAddress(a) == PageThenType(a, NFTKinds)

(* nft.repo.ts.  A group is represented by its row with the smallest token id. *)

Firsts(S, Same(_, _)) == { r \in S : \A s \in S : Same(r, s) => r.pos <= s.pos }

NFTHolders(t) == Firsts(Token("nft", t), LAMBDA r, s : r.of = s.of)

NFTsByAddressGroupByHolder(t) == Query(NFTHolders(t), "any")

\* Holders are counted, tokens are listed.
NFTsByAddress(t) == [Query(Token("nft", t), "tokenId") EXCEPT !.count = NFTHolders(t)]

NFTsByOwnerGroupByToken(a) == Query(Firsts(Of("nft", a), LAMBDA r, s : r.token = s.token), "any")

NFTsInRange == Query(InRange(In("nft")), "any")

(* The other repositories. *)

TxDigestsPaginate(S) == Query(S, "block")

TxDigestsByAccount(a) == TxDigestsPaginate(Of("txDigest", a))

TxDigestsByAccountInRange(a) == TxDigestsPaginate(InRange(Of("txDigest", a)))

TxsAll == Query(In("tx"), "block")

InternalTxsByAddress(a) == Query(Of("internalTx", a), "tx")

EventsByAddress(t) == Query(Token("logEvent", t), "block")

EventsByFilter(t) == Query({ r \in Token("logEvent", t) : r.block > From }, "oldest")

EventsOnAddressInRange(t) == Query(InRange(Token("logEvent", t)), "any")

\* By timestamp, which is one per block.
BlocksPaginate(S) == Query(S, "block")

BlocksAll == BlocksPaginate(In("block"))

KBlocks == BlocksPaginate(Kind(In("block"), {"K"}))

BlocksByBeneficiary(a) == BlocksPaginate(Of("block", a))

\* By epoch, and so by the block it starts with.
CommitteesAll == Query(Committees, "block")

NFTContractsInRange == Query(InRange(Kind(Contracts, NFTKinds)), "any")

BidsPaginate(S) == Query(S, "any")

\* The autobids of an epoch, as its name says; the query asks for bids by users.
AutobidsByEpoch(e) == BidsPaginate({ r \in In("bid") : r.pos = e /\ r.kind = "userbid" })

UserbidsByAuctionID(id) == BidsPaginate(Kind(Token("bid", id), {"userbid"}))

BidsByAuctionID(id) == BidsPaginate(Token("bid", id))

BidsByAddress(a) == BidsPaginate(Of("bid", a))

AuctionsPast == Query(Kind(In("auction"), {"past"}), "block")

EpochRewardSummaries == Query(In("epochRewardSummary"), "block")

BucketsByAccount(a) == Query(Of("bucket", a), "block")

TopAccounts == Query(In("account"), "any")

ValidatorsByFilter(K) == Query(Kind(In("validator"), K), "any")
-----------------------------------------------------------------------------
(***************************************************************************)
(* Handlers.  "first" are rows looked up before the list, without which    *)
(* the answer is empty; "needs" are looked up for a row of the page, and   *)
(* the handler throws if it finds none of them; without "parts" a row is   *)
(* incomplete, or left out of the answer.  Both may be looked up only for  *)
(* a committee that has ended.  "total" is how the client learns where the *)
(* list ends: by a count before the page or after it, by the number of     *)
(* rows on this page, by a page that is not full, or not at all because it *)
(* asked for one row.                                                      *)
(***************************************************************************)
None(q) == [r \in q.list |-> {}]

Pages(q) == [query |-> q, total |-> "before", first |-> {}, needs |-> None(q), parts |-> None(q),
             leavesOut |-> FALSE, whenEnded |-> FALSE]

Latest(q) == [Pages(q) EXCEPT !.total = "one"]

One(S) == Latest(Query(S, "any"))

Download(q) == [Pages(q) EXCEPT !.total = "short"]

First(h, S) == [h EXCEPT !.first = S]

Needs(h, Op(_)) == [h EXCEPT !.needs = [r \in h.query.list |-> Op(r)]]

Parts(h, Op(_)) == [h EXCEPT !.parts = [r \in h.query.list |-> Op(r)]]

LeavesOut(h) == [h EXCEPT !.leavesOut = TRUE]

WhenEnded(h) == [h EXCEPT !.whenEnded = TRUE]

ContractAt(t) == { c \in Contracts : c.token = t }

TxAndParties(r) == TxOf(r) \cup PartiesOf(r)

(* account.controller.ts *)

getTopMTRAccounts == Pages(TopAccounts)

getTopMTRGAccounts == Pages(TopAccounts)

getAccount == Parts(One(Of("account", Me)), PartiesOf)

getTxsByAccount == Parts(Pages(TxDigestsByAccount(Me)), PartiesOf)

getBidsByAccount == Pages(BidsByAddress(Me))

\* Of an ERC-20 token, and of an NFT contract.
getTokenHoldersByAccount == First(Pages(HoldersByTokenAddress(Coin)), ContractAt(Coin))

getNFTHoldersByAccount == First(Pages(NFTsByAddressGroupByHolder(Art)), ContractAt(Art))

getTokensByAccount == Needs(Pages(TokensByAddress(Me)), ContractOf)

getERC20TokensByAccount == LeavesOut(Parts(Pages(ERC20ByAddress(Me)), ContractOf))

getNFTsByAccount == Needs(Pages(NFTsByOwnerGroupByToken(Me)), ContractOf)

getNFTTokensByAccount == LeavesOut(Parts(Pages(NFTByAddress(Me)), ContractOf))

getTransfersByAccount ==
  Parts(First(Pages(MovementsByTokenAddress(Coin)), ContractAt(Coin)), PartiesOf)

getERC20TxsByAccount == Parts(Needs(Pages(ERC20TxsByAccount(Me)), ContractOf), TxAndParties)

getERC721TxsByAccount == Needs(Pages(ERC721TxsByAccount(Me)), ContractOf)

getERC1155TxsByAccount == Needs(Pages(ERC1155TxsByAccount(Me)), ContractOf)

getNFTTxsByAccount == Parts(Pages(NFTTxsByAccount(Me)), TxOf)

getNFTTxsByTokenAddrTokenId == Pages(MovementsByTokenAddrTokenId)

getBucketsByAccount == [Pages(BucketsByAccount(Me)) EXCEPT !.total = "after"]

getProposedByAccount == Pages(BlocksByBeneficiary(Me))

\* The page is one of buckets; the answer has their owner, who is the account asked about.
getDelegatorsByAccount == [Pages(BucketsByAccount(Me)) EXCEPT !.total = "page"]

getInternalTxs == Parts(Pages(InternalTxsByAddress(Me)), PartiesOf)

getEvents == Parts(Pages(EventsByAddress(Coin)), TxOf)

(* tx.controller.ts.  The handlers that only format a transaction are alike. *)

Digests(t) == { d \in In("txDigest") : d.block = t.block /\ d.tx = t.tx }

getRecent == LeavesOut(Parts(Pages(TxsAll), Digests))

getTxByHash == Parts(One(In("tx")), PartiesOf)

TxAlone == One(In("tx"))

(* block.controller.ts *)

TxsOf(b) == { t \in In("tx") : t.block = b.block }

getBlockByRevision == Parts(One(In("block")), TxsOf)

getBlockTxs == Parts(One(In("block")), TxsOf)

getRecentBlocks == Pages(BlocksAll)

(* epoch.controller.ts *)

After(c) == { d \in Committees : d.pos > c.pos }

EndBlock(c) == { b \in In("block") : \E d \in After(c) : d.pos = c.pos + 1 /\ b.block = d.block - 1 }

BlocksOf(c) == { b \in In("block") : c.block <= b.block /\ \A d \in After(c) : b.block < d.block }

getRecentEpochs == WhenEnded(Parts(Pages(CommitteesAll), EndBlock))

getMembersByEpoch == One(Committees)

getStatsByEpoch == Needs(One(Committees), BlocksOf)

getEpochDetail == WhenEnded(Needs(One(Committees), EndBlock))

(* pow.controller.ts.  The coinbase transaction of a K block carries the rewards. *)

Coinbase(b) == { t \in TxsOf(b) : t.tx = 1 }

CoinbaseBefore(c) ==
  UNION { BlockAt(b.block) \cup Coinbase(b) : b \in BlockAt(c.block - 1) }

getPowRewards ==
  LET rewarded == { c \in Committees : CoinbaseBefore(c) # {} }
  IN LeavesOut(Parts(Pages([CommitteesAll EXCEPT !.kept = rewarded]), CoinbaseBefore))

getPowRewardsByEpoch == LeavesOut(Parts(One(Kind(In("block"), {"K"})), Coinbase))

(* validator.controller.ts and metric.controller.ts *)

getCandidates == Pages(ValidatorsByFilter({"candidate", "delegate"}))

getDelegates == Pages(ValidatorsByFilter({"delegate"}))

JailedAt(v) == BlockAt(v.block)

getJailed == Needs(Pages(ValidatorsByFilter({"jailed"})), JailedAt)

getEpochRewards == Pages(EpochRewardSummaries)

Rewards(s) == { w \in In("epochReward") : w.pos = s.pos }

getEpochRewardByEpoch == Parts(One(In("epochRewardSummary")), Rewards)

NextBlock(b) == BlockAt(b.block + 1)

getCommitteeData == Parts(Latest(KBlocks), NextBlock)

(* nft.controller.ts *)

getTokensInCollection == First(Pages(NFTsByAddress(Art)), ContractAt(Art))

\* The token first, then its contract: without either the answer is empty.
getTokenDetail == First(One(Token("nft", Art)), ContractAt(Art))

getNFTCollectionsInRange == Pages(NFTContractsInRange)

getNFTTokensInRange == Pages(NFTsInRange)

getNFTTransfersInRange == Pages(NFTMovementsInRange)

(* download.controller.ts: no count is returned. *)

downloadTransfer == First(Download(MovementsByTokenAddressInRange(Coin)), ContractAt(Coin))

downloadTxs == Download(TxDigestsByAccountInRange(Me))

downloadErc20Txs == Needs(Download(ERC20TxsByAccountInRange(Me)), ContractOf)

downloadNftTxs == Download(NFTTxsByAccountInRange(Me))

(* event.controller.ts and auction.controller.ts *)

getEventsOnAddressInRange == Pages(EventsOnAddressInRange(Coin))

getEventsByFilter == Pages(EventsByFilter(Coin))

getPastAuctions == Pages(AuctionsPast)

getAuctionByID == One(Token("auction", AuctionID))

getAuctionBids == Pages(BidsByAuctionID(AuctionID))

getUserbidsByAuctionID == Pages(UserbidsByAuctionID(AuctionID))

getAutobidsByEpoch == Pages(AutobidsByEpoch(1))

\* The rows a handler may touch.
Touched(h) ==
  h.query.list \cup h.query.count \cup h.first
    \cup UNION { h.needs[r] \cup h.parts[r] \cup ContractOf(r) : r \in h.query.list }

\* A contract may be created again at the address of one that has destroyed itself.
Relevant(h) ==
  Touched(h) \cup { c \in Contracts : \E d \in Touched(h) : d.in = "contract" /\ c \in ContractOf(d) }

\* What a client may ask for: handlers that do the same are one.
Handlers ==
  { getTopMTRAccounts, getTopMTRGAccounts, getAccount, getTxsByAccount, getBidsByAccount,
    getTokenHoldersByAccount, getNFTHoldersByAccount, getTokensByAccount, getERC20TokensByAccount,
    getNFTsByAccount, getNFTTokensByAccount, getTransfersByAccount, getERC20TxsByAccount,
    getERC721TxsByAccount, getERC1155TxsByAccount, getNFTTxsByAccount,
    getNFTTxsByTokenAddrTokenId, getBucketsByAccount, getProposedByAccount,
    getDelegatorsByAccount, getInternalTxs, getEvents, getRecent, getTxByHash, TxAlone,
    getBlockByRevision, getBlockTxs, getRecentBlocks, getRecentEpochs, getMembersByEpoch,
    getStatsByEpoch, getEpochDetail, getPowRewards, getPowRewardsByEpoch, getCandidates,
    getDelegates, getJailed, getEpochRewards, getEpochRewardByEpoch, getCommitteeData,
    getTokensInCollection, getTokenDetail, getNFTCollectionsInRange, getNFTTokensInRange,
    getNFTTransfersInRange, downloadTransfer, downloadTxs, downloadErc20Txs, downloadNftTxs,
    getEventsOnAddressInRange, getEventsByFilter, getPastAuctions, getAuctionByID, getAuctionBids,
    getUserbidsByAuctionID, getAutobidsByEpoch }
-----------------------------------------------------------------------------
VARIABLES
  head,        \* the last block imported
  task,        \* of the import: "down", "clean", "idle", "process", "save"
  upTo,        \* the last block of its batch
  db,          \* the rows stored
  ended,       \* the committees whose end block is set
  crashes,
  follower,    \* the program behind the import whose rows the client may see: "on", "clean"
  reviewed,    \* its head
  handler,     \* what the client asks for
  rows,        \* the rows its handler may touch
  step,        \* "new", "first", "count", "find", "read", "recount", "done"
  page, total, \* the page asked for, and the number of rows the client was told
  found,       \* the rows of the page
  got,         \* the rows the client has received
  since,       \* the rows up to the head the client would have been shown when it began
  torn,        \* rows of the last answer with a part that was not found
  asked,       \* the head when the page was found
  disturbed,   \* rows have been deleted since the client began, or were being deleted when it did
  grew         \* rows of the list inserted since they were counted, until one is deleted

importVars == <<head, task, upTo, ended, crashes>>
followerVars == <<follower, reviewed>>
answerVars == <<page, total, found, got, since, torn, asked>>
clientVars == <<handler, rows, step, answerVars>>
vars == <<importVars, followerVars, db, clientVars, disturbed, grew>>

Q == handler.query

\* A row is stored.
Insert(r) ==
  /\ db' = db \cup {r}
  /\ grew' = IF step = "find" /\ r \in Q.list /\ ~disturbed THEN grew + 1 ELSE grew

Delete(r) ==
  /\ db' = db \ {r}
  /\ disturbed' = TRUE

InsertOnly == UNCHANGED <<clientVars, disturbed>>

DeleteOnly == UNCHANGED <<clientVars, grew>>

(* The import. *)

\* The batch has a contract for this address already: handleContractCreation ignores another.
Known(r) == r.in = "contract" /\ \E c \in ContractOf(r) \cap db : head < c.block

Unsaved(S) == { r \in rows \ db : /\ head < r.block /\ r.block <= upTo
                                      /\ r.in \in S
                                      /\ ~Known(r) }

Dirty == { r \in db : head < r.block /\ r.in \in ToSet(CleanOrder) }

StartCleanUp ==
  /\ task = "down"
  /\ task' = "clean"
  /\ UNCHANGED <<head, upTo, ended, crashes, db, followerVars, clientVars, disturbed, grew>>

CleanRow(r) ==
  /\ task = "clean"
  /\ r \in Earliest(Dirty, CleanOrder)
  /\ Delete(r)
  /\ DeleteOnly
  /\ UNCHANGED <<importVars, followerVars>>

EndCleanUp ==
  /\ task = "clean"
  /\ Dirty = {}
  /\ task' = "idle"
  /\ UNCHANGED <<head, upTo, ended, crashes, db, followerVars, clientVars, disturbed, grew>>

\* A batch of blocks.  A committee ends when its successor is met: the end block is set in
\* place, or saved with it when both are of the batch.
BeginBatch(n) ==
  /\ task = "idle"
  /\ head < n /\ n <= head + Window /\ n <= MaxBlock
  /\ task' = "process"
  /\ upTo' = n
  /\ ended' = ended \cup { c \in Committees : \E d \in After(c) : d.block <= n }
  /\ UNCHANGED <<head, crashes, db, followerVars, clientVars, disturbed, grew>>

\* A new account or token balance is created when it is first touched.
CreateRow(r) ==
  /\ task = "process"
  /\ r \in Unsaved(InPlace)
  /\ Insert(r)
  /\ InsertOnly
  /\ UNCHANGED <<importVars, followerVars>>

BeginSave ==
  /\ task = "process"
  /\ Unsaved(InPlace) = {}
  /\ task' = "save"
  /\ UNCHANGED <<head, upTo, ended, crashes, db, followerVars, clientVars, disturbed, grew>>

\* The next row to be saved: of the contracts the batch creates at an address, the first.
ToSave(r) ==
  /\ r \in Earliest(Unsaved(ToSet(SaveOrder)), SaveOrder)
  /\ r.in = "contract" =>
       \A c \in ContractOf(r) :
         head < c.block => r.block < c.block \/ (r.block = c.block /\ r.tx <= c.tx)

SaveRow(r) ==
  /\ task = "save"
  /\ ToSave(r)
  /\ r.in = "contract" => ContractOf(r) \cap db = {}
  /\ Insert(r)
  /\ InsertOnly
  /\ UNCHANGED <<importVars, followerVars>>

\* A contract at whose address one is stored: that has destroyed itself, and is deleted first.
ReplaceContract(r) ==
  /\ task = "save"
  /\ ToSave(r)
  /\ r.in = "contract"
  /\ \E c \in ContractOf(r) \cap db : Delete(c)
  /\ DeleteOnly
  /\ UNCHANGED <<importVars, followerVars>>

SaveHead ==
  /\ task = "save"
  /\ Unsaved(ToSet(SaveOrder)) = {}
  /\ task' = "idle"
  /\ head' = upTo
  /\ UNCHANGED <<upTo, ended, crashes, db, followerVars, clientVars, disturbed, grew>>

\* A crash during the cleanup leaves it to be begun again.
Crash ==
  /\ task \in {"process", "save"}
  /\ crashes < MaxCrash
  /\ task' = "down"
  /\ crashes' = crashes + 1
  /\ UNCHANGED <<head, upTo, ended, db, followerVars, clientVars, disturbed, grew>>

(* The other programs. *)

FollowerWrites(r) ==
  /\ follower = "on"
  /\ r \in rows \ db
  /\ r.in \in Followers
  /\ reviewed < r.block /\ r.block <= head
  /\ \A s \in rows \ db :
       s.in \in Followers => /\ s.block >= r.block
                             /\ (r.in = "epochRewardSummary" /\ s.in = "epochReward")
                                  => s.block > r.block
  /\ Insert(r)
  /\ InsertOnly
  /\ UNCHANGED <<importVars, followerVars>>

\* The program saves its head when it has handled the blocks up to it.
Reviewed(n) ==
  /\ follower = "on"
  /\ reviewed < n /\ n <= head
  /\ \A r \in rows : r.in \in Followers /\ r.block <= n => r \in db
  /\ reviewed' = n
  /\ UNCHANGED <<importVars, follower, db, clientVars, disturbed, grew>>

\* It is stopped wherever it is, and restarted.
FollowerRestarts ==
  /\ follower = "on"
  /\ crashes < MaxCrash
  /\ follower' = "clean"
  /\ crashes' = crashes + 1
  /\ UNCHANGED <<head, task, upTo, ended, reviewed, db, clientVars, disturbed, grew>>

Unreviewed == { r \in db : r.in \in Followers /\ reviewed < r.block }

FollowerCleans(r) ==
  /\ follower = "clean"
  /\ r \in Earliest(Unreviewed, FollowerCleanOrder)
  /\ Delete(r)
  /\ DeleteOnly
  /\ UNCHANGED <<importVars, followerVars>>

FollowerCleaned ==
  /\ follower = "clean"
  /\ Unreviewed = {}
  /\ follower' = "on"
  /\ UNCHANGED <<importVars, reviewed, db, clientVars, disturbed, grew>>

\* They follow the chain, not the import.
RefreshInsert(r) ==
  /\ r \in rows \ db
  /\ r.in \in Refreshed
  /\ Insert(r)
  /\ InsertOnly
  /\ UNCHANGED <<importVars, followerVars>>

RefreshDelete(r) ==
  /\ r \in db
  /\ r.in \in Refreshed
  /\ Delete(r)
  /\ DeleteOnly
  /\ UNCHANGED <<importVars, followerVars>>
-----------------------------------------------------------------------------
(* The client. *)

Theirs == UNCHANGED <<importVars, followerVars, db>>

\* The order of a list.
Precedes(sort, r, s) ==
  CASE sort = "newest"  -> \/ r.block > s.block
                           \/ r.block = s.block /\ r.tx > s.tx
                           \/ r.block = s.block /\ r.tx = s.tx /\ r.pos > s.pos
    [] sort = "block"   -> r.block > s.block
    [] sort = "tx"      -> r.block > s.block \/ (r.block = s.block /\ r.tx > s.tx)
    [] sort = "oldest"  -> r.block < s.block
    [] sort = "tokenId" -> r.pos < s.pos
    [] sort = "any"     -> FALSE

Least(a, b) == IF a < b THEN a ELSE b

PageSize == IF handler.total = "one" THEN 1 ELSE Limit

\* The page number as the query has it.
BugOffset == page * PageSize

Offset == (page - 1) * PageSize

\* What the query finds: a row is no row of the list if it is joined with a contract it lacks.
Listed == { r \in Q.list \cap db : Q.unwind => ContractOf(r) \cap db # {} }

\* One row too many, in any order.
BugPages == kSubset(Least(PageSize + 1, Cardinality(Listed)), Listed)

\* The database orders rows that the sort does not as it likes, in each query anew.
PossiblePages ==
  LET skipped == Least(Offset, Cardinality(Listed))
      InOrder(A, B) == \A r \in A, s \in B : ~Precedes(Q.sort, s, r)
  IN UNION { LET rest == Listed \ S
             IN { P \in kSubset(Least(PageSize, Cardinality(rest)), rest) :
                    InOrder(S, rest) /\ InOrder(P, rest \ P) }
             : S \in kSubset(skipped, Listed) }

\* Without the rows it looks up first, a handler shows nothing.
Shown == IF handler.first # {} /\ handler.first \cap db = {} THEN {} ELSE Listed

Begin ==
  /\ step = "new"
  /\ since' = { r \in Shown \cap Q.kept : r.block <= head }
  /\ disturbed' = (task = "clean" \/ follower = "clean")
  /\ step' = "first"
  /\ Theirs
  /\ UNCHANGED <<handler, rows, page, total, found, got, torn, asked, grew>>

LookFirst ==
  /\ step = "first"
  /\ step' = IF handler.first # {} /\ handler.first \cap db = {} THEN "done" ELSE "count"
  /\ Theirs
  /\ UNCHANGED <<handler, rows, answerVars, disturbed, grew>>

Counted == { r \in Q.count \cap db : Q.joined => ContractOf(r) \cap db # {} }

CountRows ==
  /\ step = "count"
  /\ total' = CASE handler.total = "before" -> Cardinality(Counted)
                [] OTHER -> total
  /\ step' = "find"
  /\ grew' = 0
  /\ Theirs
  /\ UNCHANGED <<handler, rows, page, found, got, since, torn, asked, disturbed>>

FindRows(P) ==
  /\ step = "find"
  /\ found' = P
  /\ asked' = head
  /\ torn' = {}
  /\ step' = "read"
  /\ Theirs
  /\ UNCHANGED <<handler, rows, page, total, got, since, disturbed, grew>>

LooksUp(r) == handler.whenEnded => r \in ended

Fails(r) ==
  /\ LooksUp(r)
  /\ handler.needs[r] # {}
  /\ handler.needs[r] \cap db = {}

\* A contract is looked up by its address.
InStore(p) == p \in db \/ (p.in = "contract" /\ ContractOf(p) \cap db # {})

\* The parts a row lacks.  A committee that has not ended has no end block to look up.
Lacks(r) ==
  IF ~LooksUp(r) THEN {}
  ELSE { p \in handler.parts[r] \cup IF Fails(r) THEN handler.needs[r] ELSE {} : ~InStore(p) }

AtEnd ==
  CASE handler.total = "one"   -> TRUE
    [] handler.total = "short" -> Cardinality(found) < PageSize
    [] handler.total = "page"  -> page * PageSize >= Least(1, Cardinality(found))
    [] OTHER                   -> page * PageSize >= total

\* The other rows are looked up.  If the handler throws, the client asks for the page again.
ReadParts ==
  /\ step = "read"
  /\ torn' = UNION { { <<r, p>> : p \in Lacks(r) } : r \in found }
  /\ IF \E r \in found : Fails(r)
     THEN /\ step' = "first"
          /\ UNCHANGED <<page, got>>
     ELSE /\ got' = got \cup { r \in found \cap Q.kept : handler.leavesOut => Lacks(r) = {} }
          /\ IF handler.total = "after"
             THEN step' = "recount" /\ UNCHANGED page
             ELSE IF AtEnd THEN step' = "done" /\ UNCHANGED page
             ELSE step' = "first" /\ page' = page + 1
  /\ found' = {}
  /\ Theirs
  /\ UNCHANGED <<handler, rows, total, since, asked, disturbed, grew>>

\* getBucketsByAccount counts after it has found.
CountAfter ==
  /\ step = "recount"
  /\ total' = Cardinality(Counted)
  /\ IF page * PageSize >= total'
     THEN step' = "done" /\ UNCHANGED page
     ELSE step' = "first" /\ page' = page + 1
  /\ Theirs
  /\ UNCHANGED <<handler, rows, found, got, since, torn, asked, disturbed, grew>>
-----------------------------------------------------------------------------
(* The first block has been imported. *)

Stored(r) == r.block = 1 /\ r.in \notin Followers \cup Refreshed

Init ==
  /\ head = 1 /\ task = "idle" /\ upTo = 1
  /\ crashes = 0
  /\ follower = "on" /\ reviewed = 0
  /\ handler \in Handlers
  /\ rows = Relevant(handler)
  /\ db = { r \in rows : Stored(r) }
  /\ ended = { c \in Committees : \E d \in After(c) : d.block = 1 }
  /\ step = "new" /\ page = 1 /\ total = 0
  /\ found = {} /\ got = {} /\ since = {} /\ torn = {} /\ asked = 0
  /\ disturbed = FALSE /\ grew = 0

ImportNext ==
  \/ StartCleanUp \/ EndCleanUp \/ BeginSave \/ SaveHead \/ Crash
  \/ \E r \in rows : CleanRow(r) \/ CreateRow(r) \/ SaveRow(r) \/ ReplaceContract(r)
  \/ \E n \in 1..MaxBlock : BeginBatch(n)

FollowerNext ==
  \/ FollowerRestarts \/ FollowerCleaned
  \/ \E r \in rows : FollowerWrites(r) \/ FollowerCleans(r)
  \/ \E n \in 1..MaxBlock : Reviewed(n)

OthersNext == FollowerNext \/ \E r \in rows : RefreshInsert(r) \/ RefreshDelete(r)

ClientNext ==
  \/ Begin \/ LookFirst \/ CountRows \/ ReadParts \/ CountAfter
  \/ \E P \in PossiblePages : FindRows(P)

Next == ImportNext \/ OthersNext \/ ClientNext

Spec == Init /\ [][Next]_vars
-----------------------------------------------------------------------------
\* A client's pages stay in the list, and are never longer than it asked for.
TypeOK ==
  /\ head \in 1..MaxBlock /\ upTo \in 1..MaxBlock
  /\ task \in {"down", "clean", "idle", "process", "save"}
  /\ db \subseteq rows /\ ended \subseteq Committees
  /\ crashes \in 0..MaxCrash
  /\ follower \in {"on", "clean"} /\ reviewed \in 0..MaxBlock
  /\ step \in {"new", "first", "count", "find", "read", "recount", "done"}
  /\ page \in Nat \ {0} /\ total \in Nat
  /\ found \subseteq Q.list /\ Cardinality(found) <= PageSize
  /\ got \subseteq Q.list \cap Q.kept /\ since \subseteq Q.list \cap Q.kept
  /\ \A rp \in torn : rp[1] \in Q.list /\ rp[2] \in rows
  /\ asked \in 0..MaxBlock
  /\ disturbed \in BOOLEAN /\ grew \in Nat

\* Another row of the list is neither before this one nor after it.
Tied(r) ==
  \E s \in (Q.list \cap db) \ {r} : ~Precedes(Q.sort, r, s) /\ ~Precedes(Q.sort, s, r)

\* The client walks, and can tell where the list ends: every row listed is counted.
CountFits == Q.list \subseteq Q.count /\ ~Q.joined /\ handler.total \notin {"page", "one"}

\* Walking through the pages of a list while blocks are imported loses no row that the client would
\* have been shown when the walk began and that the sort puts in its place, but for as many as were
\* inserted after the last count, if nothing was deleted meanwhile: new rows push old ones to later
\* pages, which are asked for because each answer counts anew.
NothingMissed ==
  step = "done" /\ CountFits /\ ~disturbed
    => Cardinality({ r \in since \ got : ~Tied(r) }) <= grew

\* rows the save order puts into the database before the row that refers to them.
SavedFirst == { <<"logEvent", "tx">>, <<"block", "tx">>, <<"internalTx", "contract">> }

\* At the address of this contract another is created after block n.
CreatedAgain(p, n) ==
  p.in = "contract" /\ \E c \in ContractOf(p) : c.block > p.block /\ c.block > n

\* A row is only returned without the rows it refers to (the fee's transaction, the contract of a
\* party, the end block of an epoch, the rewards of a summary), and a handler only throws for want
\* of them, while those rows belong to blocks above the head and are saved after it; or while a
\* contract that has destroyed itself makes room for the one created at its address above the head,
\* which a crash can make long; or if rows have been deleted since the client began, or were being
\* deleted when it did: by the cleanup of the import, by that of the script engine, which deletes
\* rewards before their summaries though the head has reached their blocks, or by the metric
\* process.  Otherwise nothing is missing of a block the head has reached.
AnswersWhole ==
  \A rp \in torn :
    \/ disturbed
    \/ rp[2].block > asked /\ <<rp[1].in, rp[2].in>> \notin SavedFirst
    \/ CreatedAgain(rp[2], asked)
=============================================================================
