# TLA+ models of scan-service

scan-service copies the Meter blockchain into MongoDB and serves it over a REST API. Several
programs write the database at the same time, each a separate operating-system process that
docker restarts whenever it ends (`docker-compose.mainnet.yml`, `restart: unless-stopped`; the rebase
sender is in no compose file), and none of them uses transactions. What makes the data right is the *order* of the writes, the
`head` documents, and what each program does with the remains of its predecessor when it starts.
There are no tests in the repository. This directory holds TLA+ models of that machinery.

Paths below are relative to `src/src/` of the repository.

## 1. The system

| Part | State it keeps | Operations | Hard behaviour |
|---|---|---|---|
| PoS import, `cmd/pos.cmd.ts` | a dozen collections, head `pos`; caches of one round | start, cleanup, round, process block, save caches, move head, rebasing | crash between any two writes; error with caches half full; stragglers of a rejected bulk insert; skipped blocks |
| Balance caches, `types/accountCache.ts`, `types/tokenBalanceCache.ts` | documents of accounts and token balances, updated in place | plus, minus, bound, unbound, fix a negative balance, save, delete when empty | balances of a block that is never committed; counting twice |
| Block reviewer, `cmd/blockReviewer.ts` | its own head | follow the head of `pos`, hand over each block with a transaction | reads while the importer writes and cleans; retry without cleanup |
| Script engine, `cmd/scriptEngine.cmd.ts` | auctions, bids, summaries, rewards | auction start, bid, end; governing; candidates | crash between a bid and the totals of its auction |
| NFT import, `cmd/nft.cmd.ts`, `types/nftCache.ts` | NFT rows, owners of contracts, its own head; rows minted and updated in a round | scan a range for mints and transfers, save, move head | cleanup by creation block only; cache kept after an error; events in another order than on the chain |
| Rebase sender, `cmd/blockListener.ts`, `cmd/rebase.cmd.ts` | its own head, created at that of `pos` | send two transactions after an auction's end | sent twice, or never |
| PoW import, `cmd/pow.cmd.ts`, `utils/pow-rpc.ts` | PoW blocks and transactions, head `pow`; blocks remembered and read ahead | clean up before every round, import one block | skipped blocks; a reorganised chain against the memory |
| Metrics, `cmd/metric.cmd.ts`, `types/metricCache.ts` | metrics, validators, ranks, buckets, supply, alerts; the values it believes are stored | periodic jobs, one after the other in a turn | overwriting what the PoS process has updated since; a memory ahead of the database; an error ends the turn of all jobs |
| Log traverser and rows of a transaction, `utils/log-traverser.ts`, `processTx` in `cmd/pos.cmd.ts` | none | movements, digests, internal transactions, order of logs | keys that clash under a unique index; a trace that does not fit |
| REST API, `api/` | none | lists in pages; one thing, completed from other collections | reads between two writes; a list that changes while a client walks through it |
| Scripts, `integrity-scripts/`, `script/` | none | repairs and reports, run by hand | the import goes on beside them; an end half-way and a second run; the edges of ranges |

Interaction. The programs share nothing but the database. A reader takes a block for complete
when a *head* has passed it: the reviewers, the NFT import and the rebase sender read the head of
`pos`; the API reads whatever the collections hold. Nodes of the chain are asked over HTTP; a call
returns the value, returns `null`, or throws.

What makes each part correct:

* PoS import: everything at or below the head is stored, once, and never changes; balances are
  those of the chain at the head whenever the head moves; after a crash the next start gets rid of
  everything above the head; the process catches up.
* Reviewer and script engine: every block with a transaction is reviewed, in order; the effects of
  a review are there exactly once, across crashes and retries; bids end with their auction.
* Rows of a transaction: every log becomes one row in each collection it belongs to, no two with
  the same key.
* NFT import: no event is passed over; the owner of a token after a round is the chain's.
* PoW import: no transaction without its block, no gap but for a null answer.
* Rebase sender: every auction answered, once per life of the process at most.
* REST API: a client that walks through a list gets what was there when it began; an answer about a
  block the head has reached lacks nothing.
* Repair scripts: what they look at is right when they end, and what was right stays so.
* Metrics: the bucket collection, which two processes write, comes to rest at the chain's buckets;
  validators, ranks and the total supply come to rest at the chain's; no alert is posted twice.

`PROJECT.json` lists the components, and under `hazards` the places in the code where these can go
wrong.

## 2. Modules

| Module | Content |
|---|---|
| `AtomicImport` | the promise of an importer to its readers: a batch of blocks becomes visible together with the head, in one step, for ever |
| `PosSync`, `MCPosSync` | the PoS import with its balance caches, its database and its faults; small chains |
| `PosSyncProofs` | the inductive invariant of `PosSync`, type correctness, the prefix theorem, and that it implements `AtomicImport`; what a save commits, that blocks are seen whole, and that rows are stored once |
| `PosLedgerProofs` | balances are those of the chain |
| `SharedRows`, `MCSharedRows` | contracts, committees and buckets: rows written in place, or by two processes |
| `SharedRowsProofs` | type correctness; rows of contracts and committees are those of the chain when the head moves |
| `TxRows` | what one transaction becomes: rows, keys, order of its logs (operators only) |
| `BlockLedger`, `MCBlockLedger` | what a block does to the four balances of an account and to token balances, and who gets the fees; a pool of transactions |
| `BlockReviewer` | the loop of the programs that follow the head of `pos`, above `AtomicImport` |
| `ScriptEngine`, `MCScriptEngine` | the block reviewer that keeps auctions, bids and rewards: its operations write by write, its cleanup and faults |
| `ScriptEngineProofs` | the reviewer passes over no block; type correctness; rewards are given once; auctions and bids are those of the chain |
| `NftSync`, `MCNftSync` | the NFT import and its cache, above `AtomicImport` |
| `NftSyncProofs` | type correctness, no event is skipped, owners and holdings are those of the chain |
| `RebaseSender` | the older loop of `blockListener.ts` and the rebase sender, above `AtomicImport` |
| `PowSync` | the PoW import behind a node whose chain may be reorganised |
| `MetricJobs` | the loop of the metric process and its jobs but for the buckets, with the memory that decides what it writes |
| `ServiceProofs` | of these three: the head of rebase and how many rebases it sends; the database of the PoW import, and that it implements `AtomicImport`; type correctness of the metric process, and no alert twice |
| `MCServices` | small chains for `RebaseSender`, `PowSync` and `MetricJobs`, put together with those of `MCBlockLedger` in one run |
| `ApiReads` | the lists and handlers of the REST API, and a client that walks through one while the other programs write |
| `ApiReadsProofs` | a walk misses nothing, no part of an answer below the head is missing, type correctness |
| `Repairs` | the scripts that mend rows, beside the import |
| `RepairsProofs` | scripts mend what they look at and make nothing worse; type correctness |
| `MCReadAndRepair` | small chains for `ApiReads` and `Repairs`, put together in one run |

What composes with what: `BlockReviewer` (with `ScriptEngine` above it), `NftSync` and
`RebaseSender` extend `AtomicImport`, and take its step `ImportBatch` between any two steps of their
own; `PosSync` and `PowSync` are shown to implement it (`Abstract`, `Import`: the head, and the blocks
at or below it whose rows are all stored). So what holds behind `AtomicImport` holds behind the
importer. `SharedRows` composes the PoS process and the staking job of the metric process over the
bucket collection. `BlockLedger` uses the operators of `TxRows` on every transaction.

### PosSync

**Database.** `db[r]` is the number of copies of row `r`; a row is a collection, a block number and
an index. `ledger[a]` is a balance row, with the block of its `lastUpdate`. `head` is the head
document. These outlive the process.

**Process.** `cached[n]` says how often block `n` is in the caches (blocks, transactions, logs and
all others are pushed together by `processBlock`), `copy`, `held`, `dirty` are the documents of the
two balance caches, `pc`, `stage`, `num`, `endNum`, `ff`, `todo` the position in the program. A
crash loses them.

**Actions.** `Start`, `CleanStage`, `BeginFix`, `FixRow`, `EndFix` are `cleanUpIncompleteData`,
which visits the collections in `CleanOrder`. `BeginGenesis`, `GenesisAccount`, `GenesisConflict`
are `processGenesis`. `StartRound`, `SkipRound`, `FetchBlock`, `FetchNull`, `ProcessBlock` are the
loop, with its two modes: save after every block, or (`ff`) once per round. `InsertRows`,
`SaveBalances`, `UpdateHead`, `Rebase` are `saveCacheToDB`, in `SaveOrder`. `StepFails` is any call
that fails in the loop: part of the writes of the current step have been made (`CutShort`), the
catch clause cleans up, the caches stay. `InsertConflict` is the same without a fault: a unique
index refuses a row. `StepKills` is an error where the code ends the process, `Crash` ends it
anywhere. `Land`, `LandSave` are writes that a rejected `Model.create(array)` or `Promise.all` had
under way: both start all their writes at once and reject at the first error.

**Abstractions.** One number per balance row, where an account has four (see `BlockLedger`), with at
most two changes per block (`First` and the rest); a block that changes a balance also has a
transaction, and nothing but `Touched` changes one (`BalanceAssumption`, a fact about the chain; a
rebasing balance may move by itself). `GenesisListed` says that the network is one whose genesis
accounts `const/genesis.ts` lists; only theorems about the whole database need it. Contracts, buckets and the ends of committees are written in place while a block is
processed: they are in `SharedRows`. Who gets the fees is in `BlockLedger`; here it is part of what
`Chain` says. The metric TX_MAX_COUNT and the total supply and counters of ERC20 contracts are in
no module. A new round waits until the stragglers of a failed one have landed, because it starts
two minutes later (`RECOVERY_INTERVAL`). Database calls are atomic per document, as in MongoDB.

**Bounds.** `Limit` is the number of faults of each kind; `Ceiling` stops a cached balance that is
counted again in each of infinitely many failing rounds; copies are counted up to two.

### SharedRows

Three collections that the other writes of a batch say nothing about. The chain is a constant:
`Script[c][n]` lists what block `n` of chain `c` does to contracts, committees and buckets in the
order `processBlock` sees it, `BucketAt` and `ImplAt` are what the node answers *at the best block*,
which may be ahead of the block being processed. `ChainAssumption` says what a chain may do: a contract is
created where there is none and upgraded or destroyed while it is there, and the epochs go up.

`CreateContract`, `Upgrade`, `Destruct` are the handlers of `processTx`: new contracts go to the cache,
upgrades and self-destructs also change the stored row at once. `NewCommittee` caches the committee of
an epoch and `EndOfEpoch` ends the stored one before it. `OpenBuckets`, `AskNode`, `FindBucket`,
`WriteBucket`, `CloseBuckets` handle a bucket event, one bucket at a time, so that the node's answer
and the row may be older than the write; `Leave` is the catch clause that skips the remaining
buckets. `SaveCommittees`, `SaveContract`, `ContractExisted`, `SaveHead` are the part of
`saveCacheToDB` these rows need. `Start` is the cleanup: it deletes by the block of creation, and
nothing undoes what was changed in place. `Swallowed` is an error the handlers catch themselves.

The staking job is `Compare`, `GetBuckets`, `DeleteAll`, `InsertAll`: the memory of `MetricCache` is
compared with the node's buckets and changed; if they differ the whole collection is deleted and
inserted again. `MetricFails` is its catch clause, `stored` the row of the metric, from which
`MetricStart` fills the memory. Other errors of the PoS loop are in `PosSync`.

### TxRows and BlockLedger

A transaction is modelled by its *execution*: for each clause a tree of calls, which emit logs and
make further calls. `Run` is the sequence of its logs in the order of execution. What the code gets
to see is derived from it: a receipt with events and transfers apart from each other (`Events`,
`Transfers`), and a trace without the logs (`Calls`). `TxRows` then says what `processTx` makes of
these: movements, logs, digests, bound and unbound rows, internal transactions, all by the key of
their unique index (`Keys`), and the order of a clause's logs (`LogOrder`), in which `Traverse` is the
generator of `log-traverser.ts` with its exceptions as a value (`thrown`). `Tracer` is the variable
of `getTxOutputs` that a clause without a trace of its own finds as an earlier clause left it. A
trace may be missing for any clause (`lost`). Contents of rows that no key is made of are left out.

`BlockLedger` runs over whole chains. `TxOps` lists what a transaction does to balances in the order
of the code: all movements, then wrapped MTR, then bound and unbound events, then the fee. `Do`
executes such a list with `Minus`, `Plus`, `Bound`, `Unbound`, each with its guards (the zero address,
amounts that are not positive, a token that may become negative and stay so), and `Fix`, which
replaces *all* balances of the account by those of the end of the block. `ReadBeneficiary` is
`updateTxFeeBeneficiary`: at the head, once per round, and without an answer the old one stays;
after a round in fast-forward mode it is forgotten. `EndBlock` pays the reward.

`late` and `drift` are not in the code: they say how wrong a balance is. A cell that was fixed in a
block is wrong by what the block did to it afterwards (`late`), until it is fixed again; a reward paid
to the wrong account is wrong there and missing elsewhere. `Chain` is what the node says, from the
executions alone. Faults are in `PosSync`; here the caches are never lost.

### BlockReviewer and ScriptEngine

`BlockReviewer` extends `AtomicImport`: the reviewer and the importer share the head and the blocks,
and the importer's step (`PosImport`, the action `ImportBatch`) happens between any two steps of the
reviewer. `PosSync` is checked to implement `AtomicImport`, so what holds behind the one holds
behind the other; the exceptions of `NoGap` are there too, because `ImportBatch` may leave blocks
out. `head` is the reviewer's own head document; `num`, `endNum`, `blk` are the variables of `loop`.
`BeginReview`, `SkipReview`, `NextBlock`, `NothingToProcess`, `EmptyEndBlock` are its branches,
`Reviewed` what follows `processBlock`, `Retry` the catch clause, `QuitWithoutGenesis` the exit of
`beforeStart`.

`ScriptEngine` is `processBlock`. The chain is a constant: `Script[n]` lists the script engine
operations of block `n`, `BidInfo[b]` says what the chain knows of a bid. What `processTx` asks the
node at a revision is a function of these (`AuctionTxs`, `NewAutobids`, `SummaryTxs`).
`AuctionAssumption` says what the program takes for granted of that chain, when it asks for *the* present
auction (`findPresent`, `getPresentAuctionByRevision`): an auction starts in one block and ends in a later one, and has ended
before the next starts, if need be in the same block; a bid is placed in one block, behind the start of its auction,
and autobids by the governing operation of theirs. TLC evaluates it for the chain of the runs, and only the proofs
about auctions and bids use it.

| Operation | Actions, in order |
|---|---|
| auction start | `StartAuction` |
| bid | `CreateBid`, `AddToTotals` |
| governing | `RefreshAuction`; `Autobid`, `RewardAutobid` for each new autobid; `AutobidsDone`; `RewardValidator` for each validator; `SaveValidatorReward`, `SaveEpochSummary` |
| auction end | `AlreadyEnded`, or `EndSummary`; `FindBid`, `CloseBid` for each bid of the summary; `EndAuction` |

Every action makes at most one write, so that `Crash` and `CallFails` can come between any two.
`CleanUp` is `cleanUpIncompleteData`, one `deleteAfter` at a time. `Refused` says when an operation
throws by itself: a second row under a unique key, or no auction that is pending. The loops over
bids and validators take their elements in any order.

Left out: the collection `known`, prices, reverted transactions, auctions without a price. A block
has at most one governing operation, so its number stands for the epoch. `auctionSummary` is cleaned
by `startHeight`, which is taken to be the block of the start transaction, like
`auctionStartHeight`.

`UniqueEpochReward` says whether MongoDB has the unique index that `model/epochReward.ts:18` asks
for. With it no governing block can be reviewed (run `ScriptRewards`). A database that already
holds several rewards of an epoch, as `integrity-scripts/adjust-epoch-rewards.ts` expects, cannot
build it; the passing run is about that case.

### NftSync

`row[i][o]` is what `o` holds of item `i` with the block its row was created in, `owner[c]` the owner
of a contract; `minted` and `updated` are the two maps of `NFTCache`, `done` the events of the round
that have been handled. A round reads four kinds of events one after the other (`Kinds`), each
sorted by block only, so that within a block, and between kinds, the model takes them in any order
the code allows. An element of a batch is an event of its own. A transfer may be to its own sender. For ERC-1155 the
code then reads sender and receiver as if they were two: `Replaced` is the minted entry that a copy of itself replaces,
`SameDoc` the document that is both, and if it has yet to be read, it is read twice and only the one that gives is
kept. `InsertMinted` (or `InsertRefused`, by the
unique index of `model/nft.ts`), one `SaveRow` for each updated document and `UpdateHead` are the save.
Five faults: a failed read (`error`), a save that fails half-way (`saveError`), a crash, a crash
during the save, and a failed save whose error is swallowed (`swallow`). Metadata and the counts on the
contract's row are left out.

### RebaseSender

The loop of `TxBlockListener`: the head is *created* at the importer's head, the local best block is
one below it, a round looks at most `Window` blocks ahead, and an error outside `processTx` ends the
process (`Stop`). No compose file of the repository deploys this process, so nothing is known to start it
again: `StartRebase` may happen and need not. `RebaseLoop` is the process while it runs. `SendRebase`, `SendSync` are the two transactions;
`SendFails` is an error of `sendTransaction`, which may or may not have reached the chain, and which
the code logs and forgets. `TooLate` is the guard that leaves an auction alone if the importer is
more than 100 blocks ahead (`FarBehind`).

### PowSync

The node has two branches (`chain[h]` says which one it follows at height `h`), so a block is a height
and a branch. `cache` is the memory of `utils/pow-rpc.ts`. `getBlock` looks into it (`Known`), asks the
node for a hash and a block, and sets it when the answer comes, whatever is in it by then. So a read of the
loop is two steps, `FetchBlock` and `BlockFetched`, or for the block before it `FetchPrevious` and `PreviousFetched`, one if the
block is remembered. The reads ahead that every call of `getBlockFromRPC` starts are two steps as well, `ReadAhead` and
`ReadLands`; nobody awaits them, so the one may be before a reorganisation of the node's chain
and the other long after it (`reading` holds what is under way, `called` the heights from which reads ahead
started). A block belongs to the branch it was on when its hash was asked for. `lost` is not in the
code: it notes the heights at which the memory no longer holds the block that was stored.

Every round starts with the deletion of what lies above the head
(`DeleteTxs`, `DeleteBlock`), then come these reads, `CreateBlock`, `CreateTx` for each transaction,
`SavePowHead`. `NullBlock` is the `continue`, `NullPrevious` the error that the hash of null is, `RefuseTx` a
transaction the node no longer knows or the unique index refuses, `RoundFails` the catch clause. Left out: the memory of transactions, the limit
of 4096 entries of the memory, the fields of blocks.

### MetricJobs

`memory` is the map of `MetricCache`, `kept` the rows it believes to match, `writing` the prices that
were sent to the database and that nobody waits for. A turn of the loop runs the jobs that are due
(`tick`, `Period`, `Day`), in the order of `Jobs`; `After` goes on to the next. An error of a job ends
the turn (`TurnFails`) unless the job swallows it (`NoPrice`, `PointsFail`, `AdjustFails`); a rejected
write of a price ends the process (`PriceFails`), since no one catches it.

| Job | Actions |
|---|---|
| figures and prices | `NoteFigure`; `NotePrice`, `PriceLands` |
| alerts | `AlertIfNetworkHalt`, `CheckRpc`, then `Post`: recorded first, posted afterwards |
| ranks | `ReadAccounts`, `RankAccounts` for each coin, from the rows that were read |
| validators | `NoteList` for three lists, `Decide`, `DeleteValidators`, `InsertValidators` |
| slashing | `NoteStats`, `EmptyPoints`, `SavePoints` |
| total supply | `ReadSupply`, `Adjust`, `SaveSupply` |

`Update` changes the memory before the database, and both before the lists are acted upon, so that
what an error or a crash cuts short is no news afterwards (`Noted`, `Cut`). `AskSupply` and
`ImportNext` are the PoS import as far as it writes what these jobs write: it asks the node for the
supply when a token is minted and stores the answer later. `Valid` is the enumeration of networks in
the schema of alerts: the alert that the chain has halted names `MainNet`, which is not in it, so it is
refused and never sent. `Worlds` says what the node answers at each block and which faults may happen.
Left out: the sums of the circulation, ranks of the tokens that are listed by name, probes, and the
verification of contracts, which the loop does not call.

### ApiReads

A row of the database is a place on the chain, a kind, and whom or what it is about. The first half of
the module are the paginated queries of the repositories and the handlers of the controllers, one
definition each with the name of the method. A query (`Query`) says which rows it counts and which it
lists, how it sorts them, and what it drops after the page has been taken; a handler (`Pages`) says what
it looks up before the list and for each row of it, whether it throws when that is not there
(`Needs`), leaves the row out (`LeavesOut`) or answers without (`Parts`), and how the client learns where
the list ends (`total`). The second half runs one of them: `Begin`, `LookFirst`, `CountRows`, `FindRows`,
`ReadParts`, `CountAfter` are the steps of a request between which others may write, and the client
asks for the next page until there is none. Rows the sort does not tell apart come in any order
(`PossiblePages`).

The writers are reduced to the order in which rows appear and disappear: `BeginBatch`, `CreateRow`,
`BeginSave`, `SaveRow`, `SaveHead` are a round of the PoS import (in `SaveOrder`), `Crash`,
`StartCleanUp`, `CleanRow`, `EndCleanUp` its recovery (in `CleanOrder`). A contract may be created again at the
address of one that has destroyed itself: `ReplaceContract` deletes the old row before `SaveRow` inserts the new
one (the self-destruct is taken to be recorded; if not, the save throws, see `SharedRows`), and of two in a batch the
second is ignored (`Known`). `FollowerWrites` and `Reviewed` are the programs behind
the head, which write rows and then their own head; `FollowerRestarts`, `FollowerCleans`, `FollowerCleaned` are their
cleanup after a restart, rewards before summaries (in `FollowerCleanOrder`), of blocks the PoS head has reached
long ago. `RefreshInsert` and `RefreshDelete` are the metric process. `PosSync` says why the import may be
taken like this.

Left out: contents and formatting of answers, decoding of events, figures computed from rows; reading
several parts of one row is a single step.

### Repairs

A script is a record: how it walks (in ranges, over everything, or again until there is nothing), which
items it finds, what it asks for and of which block, what happens after an error, how it writes. Each
of the scripts is one definition named after its file; what it means is in the actions: `BeginScript`
reads the head, `Clear` deletes what a script builds anew, `NextRange` finds the items of a range
(`RangeEnd`, `Searched`, `Found`), `Ask` reads or computes a value and `SaveItem` writes it, with anything
in between; `InsertRange` is a bulk insert that a unique index may cut short. `SkipItem`, `ScriptStops`,
`ScriptReturns`, `ScriptCrash` are the ways in which something is left out, `RunAgain` starts over.
Beside it `ChainEndMoves` and `ImportsNext`: the import adds to amounts, and replaces settings when an
event says so. An item is damaged in one of three ways at first: not there, wrong, or out of date.

Left out: how a value is computed or decoded, concurrency within a range (items do not depend on each
other), everything printed.

## 3. Runs

| Run | Question | Result |
|---|---|---|
| `PosCommit` | do readers ever see a torn, doubled, vanishing or missing block, and does the import get back to the best block after crashes? | no: `PrefixComplete`, `StoredWhole`, `CommitsConsecutiveBlocks`, and the process implements `AtomicImport`; yes, if there was a head and no withdrawal was left behind: `CatchesUp` |
| `PosLedger` | are balances exact although they are overwritten in place? | yes, for the rows of `Tracked`: `LedgerExact`, `CommitsExactBalances` |
| `PosWithdraw` | does the cleanup remove everything above the head? | no: withdraws stay |
| `PosError` | does an error in the loop resolve itself? | no: the caches keep the failed round, every later save is refused |
| `ScriptReview` | is every block reviewed, and are auctions, bids and rewards those of the chain, after crashes and errors? | yes, as far as `BidsRecorded`, `EndedAuctionsExact`, `RewardsOnce`, `NoBlockSkipped`, `FollowsImport` say |
| `ScriptLostBid` | is a bid that was missed added when its auction ends? | no: a crash at the end of the auction loses it |
| `ScriptRewards` | can a governing block be reviewed with the unique index in place? | no: its second reward is refused |
| `SharedRows` | are rows that are changed before their batch is committed right when it is, and do two processes agree on the buckets? | yes, as far as `RowsExact`, `ImportGoesOn`, `BucketsSettle` say |
| `NftFollow` | are all events applied, and are owners and holdings those of the chain? | yes: `NoEventSkipped`, `OwnersExact`, `HoldingsExact`, `FollowsImport`, under the conditions below |
| `NftStuck` | does sleeping after an error resolve it? | no: rows the unique index refuses stay in the cache |
| `Services` | PoW import: is every stored row part of a stored block, without gaps, and visible in one step? | `NoOrphanTx`, `PreviousStored`, `GapsAreNulls`, `KeepsPromise`, `Recovers` |
| | Rebase sender: is every auction answered, how often, and is a block passed over? | `AuctionAnswered`, `RebasesBounded`, `NoBlockPassed`, `Recovers` |
| | Metrics: do validators, ranks, supply and prices become right after errors and crashes, and is an alert posted once? | `MetricRecovers`, `AlertsOnce` |
| | Rows of a block: do two rows ever have one key, are logs in order, are balances right? | `LogsKept`, `BalancesExplained` |
| `ReadAndRepair` | does a client that walks through a list miss a row, and what may an answer lack? | `NothingMissed`, `AnswersWhole` |
| | what does a repair script mend, and may it do harm? | `RepairsHold` |

`PosCommit`: blocks 0..3, rounds of two, so that a round in each mode and one of both kinds follow
each other; rows on both sides of the balances in `SaveOrder`, one collection without a unique
index; two crashes (one during the recovery from the other), an error, a null answer, a straggler;
a withdrawal, which the cleanup forgets; two transactions and two committees, since a committee has no unique index of its own and is stored
once only because the block or a transaction is refused first; starting with and without a head. 169 000 distinct states. `PosLedger`: blocks 0..4, an account that
is paid and pays, one that overdraws its balance inside a block, a token balance that rises and
falls to zero (its row is deleted) and rises again, a rebasing one. 412 000 states. Each fault is a
constant bound and each is needed at least once to reach the cases the invariants are about; a
second crash is the largest number at which new situations arise, since a cleanup makes the third
like the second.

`ScriptReview`: blocks 0..5, window 3, an importer that starts anywhere and leaves out any blocks, a
user's bid, an autobid of an ordinary epoch and one placed in the block that ends the auction, two
validators, two crashes (one during the cleanup after the other) and an error. 75 000 states. The
number of steps of an operation, not the number of auctions, is what makes new situations; a second
auction is there for the bids that could be booked on the wrong one. The properties say what they
leave out: the totals of a *pending* auction are not in them, because a bid reviewed twice is counted
twice until a governing operation (count and receipts) or the end (totals by type) sets them right;
nor is a bid the process first sees at the end of its auction (`ScriptLostBid`); `RewardsOnce` and
`FollowsImport` are about crashes only, since an error in the loop may block it for ever: the retry
meets the rows of the first attempt. A bid operation in the block that also ends its auction is not in the chain of this
run: after a crash between the end and the head its bid would be refused, no auction being present.

`SharedRows`: blocks 0..3, window 2, three chains: a proxy that is upgraded while epochs end (also to and fro, and
to what it is already), a contract that is destroyed and created again (and one that does so within a round), and
buckets that are merged while the staking job runs. Two crashes and one of each other fault. 369 000 states.

`NftFollow`: blocks 1..3, window 2, two contracts whose owners change, an ERC-721 token that goes to and
fro and one that is burnt, two ERC-1155 tokens of which one stays within what the code gets right;
at most two faults, at most one of each kind, since two faults are what it takes to be interrupted
while recovering (a refused insertion and a holder found short are noted in `spent`, too); holdings stop at `MaxValue = 4` (a round that fails for ever adds for ever).
A holder of the other gives a part to himself, and a contract is handed over to its own owner. 358 000 states. `NftStuck` is the same without any fault.

`Services` is one run for four models that share nothing: a behaviour is of one of them, chosen at the
beginning. Rebase sender: blocks 0..4, window 2, auctions that end in two of three blocks with a
transaction, `FarBehind = 1`, two ends of the process, one failed sending. PoW import: heights up to
3, two branches with different transactions, one of which is in both, one block read ahead and one such
read under way at a time (`Preload`, which is enough for an answer from before a reorganisation to land after
the loop's own read; the theorems hold for any number), one crash, error, null answer and reorganisation. Ledger: 49 chains of three blocks, each made of one of
seven transactions that move money in their own way (payments, binding, unbinding and paying with
it, wrapping, a system token, a contract that passes on what it gets), twice, and of others:
rewards, a reverted transaction, a factory with NFTs and a proxy, a native call with a failure
inside, a traced clause before one that is not; window 2, so that both modes occur; the beneficiary
changes once, and the node may once not say who it is. Metrics: two blocks, two validators, two
accounts; six worlds, each with the faults that matter to what changes in it: lists of validators that
change with an error, a missing answer and a crash, balances and a supply that change with both an
error and a crash, prices with an error, alerts with a crash; a day of two turns, in which the jobs
with a longer period run every other time. 206 000 states in all. The transactions, not
the length of the chain, are what makes new cases: three blocks are enough for a round of two after
one of one, with a fix in the first and a fix of the same account later.

`ReadAndRepair` is one run for two models that share nothing. Reading: all 56 kinds of request; three
blocks, imported one or two at a time, with one crash, of the import or of the program behind it; two rows per page, and lists of up to four rows,
so that there are rows on the page before and after the one that moves; a block with two transactions,
a contract created in the last block, one that is created again in the second and in the third, an epoch that ends with the second. Repairs: all scripts with a
behaviour of its own; blocks 0..4 in ranges of two, so that ranges end before, at and after the head;
three items of which one is of the unusual sort, amounts that rise and fall, settings that are changed
and changed back; one error or interruption, and any number of runs. 477 000 states.

What the properties leave out:

* `PrefixComplete` and the balance properties of `PosSync` assume that the node never answered
  `null` for a block (`NoGap`): `continue` skips it and a later block moves the head. `StoredWhole`
  has two parts, blocks that are whole (without a straggler) and rows that are stored once. `OrderSafe` names the balances that are exact at all there.
* `BalancesExplained` is about the others too. A balance that becomes negative inside a block is
  replaced, together with the other three of the account, by its value at the *end* of the block, and
  what the rest of the block does is counted twice; the property says that this, and rewards in the
  wrong place, is *all* that is ever wrong, and that a reward is in the wrong place only if the
  beneficiary has changed since the beginning of the round or the node did not answer then.
* `LogsKept` is for chains in which no reward goes from the zero address to the address of its own
  clause. It promises the order of execution only where a trace can tell it: a call that
  moves value must be answered by an event of a contract that is not running already (`Loud`). For all
  others, and without a trace, every log is listed once and in the order of its kind.
* `RowsExact`, as far as it is about contracts, and `ImportGoesOn` assume that no handler swallowed an error, the former also that a
  contract is not created twice within one round, nor created again and destroyed in it (`Spaced`). Before its first
  upgrade a contract may show an implementation that the chain sets later, since `handleContractCreation`
  reads the slot at the best block; the one before is promised when there was another. `BucketsSettle` assumes
  that no answer of the node was late and that the metric process did not stop between changing its
  memory and the collection.
* `OwnersExact` is for tokens minted once with one event per block (`Followed`), and for contracts whose
  first owner event concerns the address that created them (`FromMaster`), if each event names the owner
  before it (`Chained`); for tokens, also, for saves that did not fail and insertions that were not
  refused. The last exception is real: while the proof was made, TLC found a chain in which an
  insertion is refused because of an ERC-1155 hand-over when the row of an ERC-721 token is already in,
  the cached token changes hands in the rounds that follow, a later transfer frees the index, and the
  token gets a second row. `HoldingsExact` is for ERC-1155 tokens that are minted before they are spent, whose holders never give everything
  away, and never give anything to themselves (`Tame`: the standard allows both, and the code gets the holding wrong), and for ranges that were read and saved once (`ReadOnce`): additions cannot be
  recognised when they are replayed.
* `PreviousStored` leaves out, once there has been a reorganisation, the heights in `lost`: the head at which the
  process was restarted, and those where the answer to one read took the place of another's in the memory, as that of
  a read ahead may do that was under way during the reorganisation. There the next block names a previous one that is
  not the stored one. `KeepsPromise` for the steps before a reorganisation; `Recovers`, of the PoW import, for a memory
  that does not hold a block the node has dropped for ever (`Stale`).
* `MetricRecovers` needs, for the validators, one more change of the lists after the last fault (`ToBeSeen`): until there
  is one, validators stay as an error has left them.
* `AuctionAnswered` is for auctions after the block the head was created at, no error while sending
  and an importer that is not far ahead. `Recovers`, of the rebase sender, and `FollowsImport` need an importer that
  leaves no gap: the end of a round is looked up as a block. `Recovers`, of the rebase sender, is also conditional on
  somebody starting that process again whenever it has ended (`RebaseFollows`).

* `NothingMissed` is about lists whose count is that of the list (`CountFits`): the tokens of an account
  are paged before their type is looked at, those of a collection are counted by holder, delegators by
  the rows of the page. It does not speak of rows the sort leaves in no order (`Tied`), which may change
  places between two pages, nor of a walk during which rows were deleted. `AnswersWhole` leaves out
  blocks above the head, unless what is looked up is saved before what refers to it; answers given after a row was
  deleted since the client began, and clients that begin during a cleanup: that of the script engine deletes the
  rewards of an epoch before its summary, and the head has reached both; and a contract at whose address another is
  created above the head (`CreatedAgain`): its row is deleted before the new one is inserted, and after a crash
  between the two there is none until the batch is imported again.
* `RepairsHold` names the blocks no script looks at (`LooksAt`): that of the head if a range would start
  there, and, where a query asks for blocks *below* the end of a range, the last of each range. It
  promises nothing about amounts and settings while the import moves (`Disturbed`: what was asked for
  at the best block is added again by an import that is behind), about rows that are deleted first
  while the script has not come to its end, or about holdings, of which the last range is kept
  (`Spoils`). An owner that is not on the way of its events is left alone.

**Fairness.** Weak fairness of each program as a whole (`Program`, `PosStep`, `MetricStep`,
`PowProgram`, `MetricProgram`): each is one asynchronous function that always awaits something that
ends, and docker starts it again. Of the rebase process only `RebaseLoop` is fair, what it does while it runs: it is
in no compose file, and that it is started again is a premise of `RebaseFollows`, not a fairness. The reads ahead of the PoW
import have none: they may never be answered. `WF(Landing)` in `PosSync` and `WF(PriceLands)` in `MetricJobs`: a write that has been sent ends.
`WF(Importing)`: the PoS import goes on behind the metric process. Nothing
is assumed of the node's progress, of the importer behind `AtomicImport`, or of faults, which are
bounded in number instead. `CatchesUp` is stated without errors in the loop (an error is `PosError`); without
a crash, a null or a late write that leaves the row of a withdrawal above the head, which no cleanup deletes and whose second insertion the unique
index refuses in every later round (`LeftForGood`; the row itself is `PosWithdraw`); and for a
database with a head: a crash in the very first batch, before there is one, leaves rows that no
cleanup touches.

**Findings.** Where the code does not do what one of its comments, log lines or schemas says, a run
shows a counterexample (`PosWithdraw`, `PosError`, `ScriptLostBid`, `ScriptRewards`,
`NftStuck`); `findings` in `PROJECT.json` quotes both sides.

## 4. Theorems

`PosSyncProofs` proves, for every chain, window, set of rows and number of faults:

* `TypeCorrect`: `Spec => []TypeOK`;
* `PrefixAlwaysComplete`: `Spec => []PrefixComplete`.

The second needs `IInv`, the conjunction of the type invariant, `ControlInv` (what each value of
`pc` says about `stage`, `num` and `endNum`) and, while no answer was null, four parts:
`PrefixInv` (rows at or below the head are stored), `RoundInv` (in a round, the caches hold every
block from the head to the loop variable), `SaveInv` (the same during a save, up to the block the
save ends with; once `head` has been written it is that block) and `StageInv` (the collections a
save has already written hold the rows of every cached block). The only interesting step is
`UpdateHead`: by `StageInv` all collections before `head` in `SaveOrder` hold the cached blocks, and
by `SaveInv` those reach back to the old head. The proofs use `PosSyncAssumption` only. `IInv` itself was first checked with TLC.

`PosSyncProofs` goes on with what a save commits and what stays in the database.

* `ConsecutiveBatches` (`CommitsConsecutiveBlocks`). A failed round leaves its blocks in the caches and
  the next round caches them again. `OnceInv`: behind the insertion of the blocks each has been cached
  once, since the unique index of `block` would have refused the second copy. `WindowInv`: what an
  interrupted round left does not reach beyond the end of the next one, which is the same block as long
  as the head stays where it is. So the batch is exactly what lies between the two heads.
* `BlocksAreWhole` (`NoTornBlock`): a block row is never seen without the rest of the block, as long as no
  write comes late. `WholeInv` is a fact about the order of a save, `SweepInv` about the order of a
  cleanup, which deletes the blocks first.
* `RowsStoredWhole` (`StoredWhole`): at or below the head each row is stored once. Where an index is unique
  (`UniqueInv`) there is nothing to it. A committee has no unique index; a second copy would have to
  be inserted by a save that repeats a committed or half-saved block, and such a save is refused before
  it comes to the committees (`TxInv`, `Doomed`: by the index of `block` or `tx`), while a committee above the
  head is deleted or belongs to a block that is repeated after the cleanup (`Single`, `Settled`,
  `Swept`). The theorem assumes that there are genesis accounts (`Prealloc # {}`): without a head nothing is
  cleaned up, and what keeps an interrupted first batch from being begun again is that `processGenesis`
  then finds its accounts (`FirstInv`). The conditions in `StoredOnce` were found with this proof: after an error
  *behind* `updateHead`, the committee of a block without a transaction may be stored twice.

`PosLedgerProofs` proves `BalancesOfTheHead` (`[]LedgerExact`) and `BatchesExact` (`CommitsExactBalances`) for the
networks of `GenesisListed`. The invariant, `LedgerInv`, follows a balance through three places: its row, its
document in the cache, and a save that is under way. `Clean` says that no failed round counts in the
caches any more: if one does, the save that would write the balances is refused by the index of `tx`
(`CleanInv`), so nothing need be said of them. In a clean batch a document is what the chain says after
`Progress`, and a row without one has not been touched since the head (`Booked`); `Sound` says what a
row may be while the head is at `h` and the next batch reaches `w`: exact if it was updated at or below
`h`, and otherwise something the cleanup will replace, which looks for `lastUpdate` above the head; after
the cleanup has passed it, it is `Mended`. The exception is a token row, deleted by a save that was cut short
when its balance came to zero: the next import counts from zero, so it is *below* the chain's balance
until the block in which it comes to zero again (`Near`), which is in the next batch as well, because that
reaches at least as far (`Reach`). `GenesisInv` is the start: without a head only the listed accounts are
known. Both theorems need the balances of all others to be zero at genesis, otherwise a row created on
first use would begin at the wrong amount: `processGenesis` writes nothing for them.

`ScriptEngineProofs` proves `EveryBlockReviewed`: `Spec => NoBlockSkipped`, for every chain, window,
script, number of faults, and for every order in which the importer commits its batches (with gaps,
too). The head of the reviewer and the importer's step meet in two facts, which with the type
invariant make the invariant `RInv`: a round never reaches beyond what the importer had committed
when it began, so that what is committed later lies behind the round (`RoundInv`), and the block
under review is the first with a transaction after the head (`NextInv`). Without the first, a block
could be stored between the head and the block under review. That proof uses
`BlockReviewerAssumption` only; that no block contains a transaction before block 1 is needed because
`localBestNum` is 0, not -1, before the first import.

It also proves `TypeCorrect` and `RewardsGivenOnce` (`[]RewardsOnce`). The type invariant says that the totals of an
auction are numbers, which is a fact about a sum over a finite set of bids: the library's fold is a
function defined by recursion over sets, and the induction is done by hand, with the minimality of the
cardinality of a counterexample, since the theorems of the library cannot be instantiated. `RewInv` is
about attempts: a governing operation that is refused half-way has given some rewards, and the next
attempt would give them again. It does not come to that, for whatever refused the first (`Sticks`: a row that
is there already, an auction that is not, the one reward of the epoch) refuses every later one, until the
process ends and the cleanup deletes the rewards of the block (`Cleaned`). So the head passes a governing
block only in an attempt that began with no reward of it in place, and ended with all.

`AuctionsOfTheChain` (`[]EndedAuctionsExact`) and `BidsOfTheChain` (`[]BidsRecorded`) add `AuctionAssumption`, and are
about an importer that leaves no gap, as the properties are: then all blocks with a transaction before the one under
review have been passed (`AllBehind`), and what belongs to them is out of the cleanup's reach. A block may
have been tried before, so that rows above the head are there which the present attempt has not written. The invariants
therefore say, for each row, that it was written only when everything before was done (`Behind`), and what
is there once the head is behind: an auction exists, is no longer pending, has the totals of its summary
(`AuctionIs`); an auction exists only if those before it are over (`InTurn`), from which it follows that one is present at
most (`PresentOne`). Totals that an interrupted attempt added twice do not matter, since the end of the auction
replaces them: no later step touches an auction that is over, because `AddToTotals` and `EndSummary` look for a pending one
and `RefreshAuction` for one the chain holds after the block. For a bid that the process learns of before its auction ends (`Timely`),
`BidIs` says that a row has the number and the auction of the chain (`ItsAuction`: the present auction is
the bid's own) and is closed if the auction is over, `BidAt` which bids the operations done so far have recorded and
the end of the auction has closed. In particular the end of an auction never creates such a bid, in a block that
is not its own. `NoBidMissing`, about the bids placed in the last block of an auction, is false (run `ScriptLostBid`).

`NftSyncProofs` proves `TypeCorrect`, `NothingSkipped` (`NoEventSkipped`) and `OwnersOfTheChain` (`OwnersExact`) for every
chain, window and number of faults. `ScanInv` is the bookkeeping of a round: handled events are in the
round, in the order of blocks for each kind, and all of a kind are handled before the next. For the
owners, `Reached(i, m)` says that item `i` may be in the state of the chain after block `m`: `m` is between
the head and the end of the round, and none of the events handled in this round is later. A contract has
the owner of such a block (`OwnerInv`), which is all it needs: an event due either names the present
owner, and the contract moves to its block, or is behind `m` already and changes nothing, or is behind and
repeats a hand-over, which puts the contract back to that block, from where the rest of the range brings it forward
again. A token is in two places. Its *rows* are those of some block between the head and the end of
the round, at every moment: that is what a crash leaves. Its rows *and the cache* are those of a block
`Reached` (`CacheIs`): a document of `updated` that is still to be saved names the row it came from; a token in
`minted` has no row. `MintInv` (the creation block of a row, wherever it is, is that of the mint) is what
makes the cleanup harmless: it deletes all rows of a token or none. With these an insertion never
finds a followed token's place taken, and a save finds its row.

`HoldingsOfTheChain` (`[]`-form of `HoldingsExact`) is about tokens held in shares, for which each event adds to one
holding and takes from another, none of them a transfer to its own sender. `HoldInv` follows the sum: while every round is read and saved once, an
owner's holding, in the cache if the token was touched and in the row if not, is what the events handled
so far give and take (`Given`), the rows that the cache has not been saved to are those of the head, and a save
moves one to the other. Sums over finite sets of events are the library's folds; that a sum over a larger set
is the sum over the smaller one and the new event is shown by hand, as for the bids above.
`RoomAssumption` says that there are finitely many events and that the model's bound on values cuts off nothing
that is read once.

`PosSyncProofs` also proves `RefinesAtomicImport`: `Spec => ImplementsAtomicImport`, for every number of
crashes, errors, null answers and late writes. This is what connects `PosSync` with the models of the
programs that read. Every step but `UpdateHead` hides behind a stutter: it takes no row away from the
blocks at or below the head, and adds one there only to a block that is whole already (`Keeps`).
`UpdateHead` is one `ImportBatch`: `StageInv` says that the rows of all cached blocks are stored, and
`FreshInv` that none of these blocks was visible before, so that nothing but the batch appears. That
rests on the unique index of the collection of blocks, which refuses a second copy of a committed
block, and with it the whole save (`InsertConflict`), also when an error behind the head has left
committed blocks in the caches (`CachedInv`). `LateInv` is about stragglers: none is under way when a
round begins, and those of a failed round belong to blocks above the head or to whole ones.

`ServiceProofs` holds the theorems of three small processes. Of `PowSync` it proves, for every chain of two branches, window and number of faults, `NoOrphans`
(`[]NoOrphanTx`), `PreviousIsStored` (`[]PreviousStored`), and `PromiseKept` (`KeepsPromise`) for chains
in which no transaction is in two blocks. The invariant of the first is `OInv`: one row per height,
the transactions still to come belong to the block at hand, those of a block about to be deleted are
gone. `PInv` says what the process remembers: while there is no reorganisation everything is on the branch it
began with, what is on its way included (`StandsStill`); in any case a stored block is remembered as it was stored,
or its height is in `lost` (`Remembers`), and so the block at hand names what is stored below it (`Linked`). An
answer that lands after another either says the same or adds its height to `lost`. `PromiseKept` adds to them
`AheadInv` (a row above the head is that of the block at hand) and `WholeInv` (while no block moves to
another branch, every block the head has passed has all its transactions); their conjunction is `KInv`.
`EveryGapIsANull` (`[]GapsAreNulls`) counts: the heights the head or the round has passed without a row are no more
than the answers of null so far (`GapInv`).

Of `RebaseSender` it proves `EveryBlockReached` (`NoBlockPassed`), `BackOnce` (the head goes back only
from where it was created, and by one) and `BoundedRebases` (`[]RebasesBounded`), for every window,
every chain and every importer that keeps the promise of `AtomicImport`. `LInv` relates the head, the
place it was created at and the end of a round; `CInv` counts: an auction that was not `Reached` since
the process last stopped has one rebase fewer than the bound. `EveryAuctionAnswered` (`[]AuctionAnswered`) is the
other side: a block is passed with its rebase sent or with an error caught.

Of `MetricJobs` it proves `MetricTypeCorrect` and `NoAlertTwice` (`[]AlertsOnce`). An alert is recorded before
it is posted, and `PostInv` says what that gives: an alert about to be posted has just been recorded and was
never posted, and every posted one is recorded. A crash between the two loses the alert and never repeats it.

`SharedRowsProofs` proves `SharedTypeCorrect` (`[]TypeOK`) and `SharedRowsAreExact` (`RowsExact`), for every chain
that `ChainAssumption` admits, every window, and any number of crashes. The rows in question are changed while a
block is processed; a crash forgets that and nothing is set back, so the attempts of several processes lie on top of each
other in a row. `Done` is the set of positions handled since the last restart, `Reach` the next head: it never comes
closer, and no attempt goes beyond it, since a process in fast-forward saves at the end of a full window and any other
after one block. `Inv` says what a row is in between; TLC checked it on the run's instance and on chains made at random
before it was proved.

* `CommitteeInv`: the end of a committee is what the block of its successor says, whoever writes it. So the row of an epoch
  has its end or will get the same end again, as long as the successor is not behind `Reach`; a row of an epoch above the
  head is there only after a crash, and the cleanup deletes it.
* `ContractInv`: a contract created in the round waits in the cache, where `CachedRow` is exact. Its row, if an older contract
  left one, is `OldRow`: alive only if it was alive at the head and is not destroyed in what is done, so that the save that replaces it
  finds it destructed. After a crash in the save the row of the new contract may be there (`Remains`), until the cleanup deletes
  it together with what was known of the old one; that is harmless because the batch creates the contract again (`OldRemoved`).
* `Recovers` is the part that is not obvious. An upgrade shifts the two implementations only if the row
  names another one, so that doing the upgrades of a batch twice is not the same as doing them once: after a crash the row is ahead
  of the batch and the first upgrades may move it back. It ends right in each of three cases: it is what a part `Y` of the batch leads to
  that has all of `Done` in it; or two upgrades to different implementations are still to be done, and the last
  such pair sets both columns; or the present implementation is right and will change, and then the previous one will be right too.
  `RecoversUpgrade`, `RecoversOther` and `RecoversCrash` show that the three cases together are kept.
* When the head moves nothing is due, and `RightContract` says that the row is then what the module's operators on the
  chain give (`Alive`, `ImplAt`, `PrevAt`).

The proof gave the property its exact form: the previous implementation of a contract that was never at another is not
promised, and `ImplAt` at a later block is, before the first upgrade.

`ApiReadsProofs` proves `ApiTypeCorrect` (`[]TypeOK`), `NothingTorn` (`[]AnswersWhole`) and `WalkMissesNothing`
(`[]NothingMissed`), for every chain, window, page size and handler. `RowAssumption` says which rows are
considered: finitely many; no saved row is of the genesis block; the rewards of an epoch are of the block of its summary. What
the proofs know of the handlers is `HandlerSound`, shown for each of them (`HandlersSound`): what a row of
its list refers to, and that a handler which leaves incomplete rows out looks only for rows that are not younger.

* `NothingTorn` rests on `AnswerInv`. `PrefixInv`: what belongs to blocks the head has reached is stored, a contract
  under its address, unless another is created there above the head.
  `OrderInv`: above it, a row that is there has the rows that are saved before it (`Ordered`), which a cleanup may
  break and nothing else, and a client that begins later finds in order again. `RewardInv`: the same for a summary and its
  rewards (`RewardsFirst`) and the cleanup of the program that writes them, which deletes nothing its own head has reached
  (`ReviewedInv`). Whatever a page shows, what it lacks is above the head or was in the way of one of these.
* `WalkMissesNothing` rests on `WalkInv`. New rows push old ones to later pages. So a row that was there when
  the walk began and has not been received has at least as many rows before it as the pages asked for so
  far hold (`Offset`, `Walked`): rows before it are only added, while nothing is deleted. The step that matters is that
  the database may order what the sort leaves open anew in each query (`PageOrder`): a row with its own
  place in the order cannot be among the rows skipped, and if it is not on the page either, the
  skipped rows and the page, which is then full, are all before it. At the end the count decides: it was
  of all rows, but for those inserted since (`grew`), and what is missed lies behind all pages walked.

`RepairsProofs` proves `RepairTypeCorrect` (`[]RepairTypeOK`) and `RepairsAreSound` (`[]RepairsHold`), for every chain,
step width, set of items, damage and number of failures. `Sane`
is what the proofs know of the scripts, shown for each of them (`ScriptFacts`). The invariant, `Inv`, was checked
with TLC on chains made at random before it was proved.

* `WalkInv`: ranges begin at multiples of the step. With the theorem that a remainder determines where
  the last range begins (`RestIs`, `NextRest`) it gives what `LooksAt` says of the blocks that are never looked at: at the
  end nothing `LooksAt` names is ahead (`NotAhead`).
* `ProgressInv`, for scripts that go item by item: what can be mended is ahead (`Due`), in hand (`InHand`)
  or right, and what is ahead is as it was when the script began (`Untouched`), so that the query finds it
  when its range comes (`MendsFound`). `ItemInv` says that values about to be saved are right, also when
  the import has moved an item since it was read, as long as that does not matter (`Disturbed`).
* `EventInv`, for those that follow events: of any two events the earlier one is written first, whatever
  range it is in, and between two of them (`Between`) an item is what the last one said, or what the last one of
  all will say (`Carried`).
* `TallyInv`, for `restoreHoldings`, which computes what an account has gained in a range from the events in it. If all
  events of an item are in one range, blocks with the same quotient (`SameRange`), `Gained` is what is right
  at the head (`TallyRight`). `Gained` is the library's fold over a set of blocks, latest last; its value is found by
  induction over the blocks (`HeldSoFar`), done by hand as for the holdings above.
* `NoHarm` then has little left to it but the items deleted first and `ReplaceInv`, about digests
  deleted one by one.

The proof corrected `Mends`: whether `restoreERC20Balance` may leave a zero out is decided by the balance
at the block it began with, not at the present one; whether all events of an item are in one range is
settled then, too (`InOneRange`).

Only model-checked: the ledger of a
block and the rows of a transaction (`BlockLedger`, `TxRows`: built from recursive operators, which the
prover does not take); and everything temporal (liveness and ENABLED are out of the prover's reach).

## 5. What is left

The candidates of the script engine (`known`) and the prices of auctions.

Not modelled, and why:

* Of the REST API (`api/`): formatting, decoding of events, statistics; the handlers for metrics, search,
  account book and verification, and the controllers for tokens, buckets, contracts, known accounts,
  movements, swaps and Twitter, which read the same lists or one collection.
  `importFromSourcify` (`known.controller.ts`) is its only write.
* The figures of `cmd/metric.cmd.ts` one by one: `figure` stands for all that are asked for, remembered and
  stored alike. TX_MAX_COUNT, which two processes add to, has no property that holds (see `hazards`).
* Metadata and media of NFTs (`types/nftCache.ts`): downloads that change nothing else.
* `withdraw`, `minusNFT`, `plusNFT` of the balance caches: no caller.
* Of `script/` and `integrity-scripts/`: programs that only read or print; `import-bids.ts`, which goes
  from one fixed block to another and stays at a block whose auction has nothing new; the two revert
  scripts, which delete while the services are stopped (`revert-to-height.ts` expects a head `account`
  that no program creates); `pos-cmd-range.ts` and its like, which drive `PosCMD` by hand; `adjust-epoch-*`,
  whose writes are commented out; `restore-owner-on-contract.ts`, which changes the case of addresses.
* `api/typechain/`: generated. Schemas and constants: data, except for the unique indexes, which are
  where rows meet.

Generated code, data and formatting make up most of the lines that are left; the programs that keep
the database, the reads of the API and the repairs are modelled.
