----------------------------- MODULE SharedRows -----------------------------
(***************************************************************************)
(* Rows that are written in place, before the batch they belong to is      *)
(* committed, or by two processes: contracts and committees                *)
(* (src/src/cmd/pos.cmd.ts, while a block is processed), and buckets,      *)
(* which PosCMD updates from events and the staking job of the metric      *)
(* process (src/src/cmd/metric.cmd.ts) replaces as a whole.                *)
(*                                                                         *)
(* After a crash the import deletes the contracts and committees that were *)
(* first seen above its head.  A row that existed before and was updated   *)
(* in place stays as it is, and the events of the batch are applied to it  *)
(* again.  Bucket rows are never set back.                                 *)
(*                                                                         *)
(* The other rows of a batch, and what an error in the loop does to the    *)
(* caches, are in PosSync: here the process crashes, or an error is        *)
(* swallowed by one of the event handlers.                                 *)
(***************************************************************************)
EXTENDS Integers, Sequences, FiniteSetsExt

CONSTANTS
  MaxBlock,    \* the highest block number of the chain considered
  Window,      \* LOOP_WINDOW
  Contract,    \* addresses at which contracts are created
  Epoch,       \* epochs with a committee, as numbers
  Bucket,      \* staking buckets
  Chain,       \* the chains considered
  Script,      \* Script[c][n]: what block n of chain c does, in the order processBlock sees it
  BucketAt,    \* BucketAt[c][b][n]: the version of bucket b after block n, 0 if there is none
  Limit        \* how many faults of each kind are explored

Block == 0..MaxBlock

FaultKind == {"crash", "swallow", "late", "metricCrash", "metricError"}

ASSUME RowsAssumption ==
  /\ MaxBlock \in Nat
  /\ Window \in Nat \ {0}
  /\ Epoch \subseteq Nat
  /\ DOMAIN Script = Chain
  /\ \A c \in Chain : DOMAIN Script[c] = 1..MaxBlock
  /\ BucketAt \in [Chain -> [Bucket -> [Block -> Nat]]]
  /\ Limit \in [FaultKind -> Nat]

VARIABLES
  chain,       \* which chain it is, for ever
  best,        \* the number of its best block
  \* the database
  head,        \* the head of "pos"
  contract,    \* contract rows
  committee,   \* committee rows
  bucket,      \* bucket[b]: the version in the row, 0 if there is no row
  stored,      \* the buckets in the metric's row: what MetricCache remembers after a restart
  \* the PoS process
  pc,          \* what it is doing
  num, pos,    \* the block it is at, and the next entry of its script
  endNum,      \* the last block of the round
  fast,        \* fast-forward: one save at the end of the round
  contractsCache, committeesCache,
  toSave,      \* contracts of the cache that are still to be saved
  ids, answer, \* buckets an event asks for, and what the node answered for the first
  \* the metric process
  job,         \* what the staking job is doing
  known,       \* MetricCache.map: the buckets it believes are stored
  snapshot,    \* the buckets it is about to store
  spent        \* the faults so far

rows   == <<contract, committee, bucket>>
round  == <<num, pos, endNum, fast>>
caches == <<contractsCache, committeesCache>>
asking == <<ids, answer>>
posVars    == <<head, contract, committee, pc, round, caches, toSave, asking>>
metricVars == <<stored, job, known, snapshot>>
vars == <<chain, best, posVars, bucket, metricVars, spent>>

Versions == [Bucket -> Nat]

NoContract == [status |-> "none", seen |-> -1, impl |-> 0, prev |-> 0]

ContractRow == [status : {"none", "live", "destructed", "redeployed"},
                seen : -1..MaxBlock, impl : Nat, prev : Nat]

NoCommittee == [start |-> -1, end |-> -1]

CommitteeRow == [start : -1..MaxBlock, end : -1..MaxBlock]

TypeOK ==
  /\ chain \in Chain
  /\ best \in Block /\ head \in Block
  /\ head <= best
  /\ contract \in [Contract -> ContractRow]
  /\ committee \in [Epoch -> CommitteeRow]
  /\ bucket \in Versions /\ stored \in Versions /\ known \in Versions /\ snapshot \in Versions
  /\ pc \in {"down", "idle", "work", "asking", "answered", "found", "missing", "save", "stuck"}
  /\ num \in Block /\ endNum \in Block /\ fast \in BOOLEAN
  /\ pos \in Nat
  /\ contractsCache \in [Contract -> ContractRow]
  /\ committeesCache \in [Epoch -> CommitteeRow]
  /\ toSave \subseteq Contract
  /\ ids \in Seq(Bucket) /\ answer \in Nat
  /\ job \in {"down", "idle", "compared", "delete", "insert"}
  /\ spent \in [FaultKind -> Nat]
-----------------------------------------------------------------------------
(* The chain. *)

\* Positions in the script: a block and an entry in it.
Positions == UNION { {n} \X DOMAIN Script[chain][n] : n \in 1..MaxBlock }

At(p) == Script[chain][p[1]][p[2]]

Before(p, q) == \/ p[1] < q[1]
                \/ p[1] = q[1] /\ p[2] < q[2]

Last(P) == CHOOSE p \in P : \A q \in P \ {p} : Before(q, p)

ContractKinds == {"create", "upgrade", "destruct"}

\* What happens to the contracts at address a up to block n.
HistoryOf(a, n) == { p \in Positions : p[1] <= n /\ At(p).kind \in ContractKinds /\ At(p).of = a }

Of(kind, P) == { p \in P : At(p).kind = kind }

\* The upgrades of the contract that is alive at a after block n.
UpgradesAt(a, n) ==
  LET H == HistoryOf(a, n)
  IN { u \in Of("upgrade", H) : Before(Last(Of("create", H)), u) }

Alive(a, n) == LET H == HistoryOf(a, n) IN H # {} /\ At(Last(H)).kind # "destruct"

\* getStorage of the implementation slot after block n.
ImplAt(a, n) == IF Alive(a, n) /\ UpgradesAt(a, n) # {} THEN At(Last(UpgradesAt(a, n))).impl ELSE 0

\* Upgrades from another implementation than the last, and the one before it.
OthersAt(a, n) == { u \in UpgradesAt(a, n) : At(u).impl # ImplAt(a, n) }

PrevAt(a, n) == At(Last(OthersAt(a, n))).impl

\* What a block may do.  A contract is created where there is none, upgraded and destroyed while it is
\* there, and the epochs follow each other.
Entries ==
  [kind : {"create", "destruct"}, of : Contract] \cup [kind : {"upgrade"}, of : Contract, impl : Nat]
    \cup [kind : {"committee"}, epoch : Epoch, end : -1..MaxBlock] \cup [kind : {"bucket"}, ids : Seq(Bucket)]

ASSUME ChainAssumption ==
  \A c \in Chain :
    /\ \A n \in 1..MaxBlock : Script[c][n] \in Seq(Entries)
    /\ LET P == UNION { {n} \X DOMAIN Script[c][n] : n \in 1..MaxBlock }
           E(p) == Script[c][p[1]][p[2]]
           Does(p, kind, a) == E(p).kind = kind /\ E(p).of = a
           Living(p, a) == \E q \in P : /\ Before(q, p) /\ Does(q, "create", a)
                                        /\ \A d \in P : Does(d, "destruct", a) /\ Before(d, p) => Before(d, q)
       IN /\ \A p \in P : E(p).kind \in ContractKinds =>
                           (E(p).kind = "create" <=> ~ Living(p, E(p).of))
          /\ \A p, q \in P : E(p).kind = "committee" /\ E(q).kind = "committee" /\ Before(p, q) =>
                              E(p).epoch < E(q).epoch

BucketsAt(n) == [b \in Bucket |-> BucketAt[chain][b][n]]
-----------------------------------------------------------------------------
CanSpend(k) == spent[k] < Limit[k]

Spend(k) == spent' = [spent EXCEPT ![k] = @ + 1]

Cached(a) == contractsCache[a] # NoContract

EmptyCaches == /\ contractsCache' = [a \in Contract |-> NoContract]
               /\ committeesCache' = [k \in Epoch |-> NoCommittee]

\* The entry of the script the process is at.
Entry == Script[chain][num][pos]

Handling(kind) == pc = "work" /\ pos <= Len(Script[chain][num]) /\ Entry.kind = kind

\* The handler is through with its entry.
Handled == /\ pos' = pos + 1
           /\ UNCHANGED <<chain, best, head, num, endNum, fast, toSave, metricVars>>
-----------------------------------------------------------------------------
Init ==
  /\ chain \in Chain /\ best = 0 /\ head = 0
  /\ contract = [a \in Contract |-> NoContract]
  /\ committee = [k \in Epoch |-> NoCommittee]
  /\ bucket = BucketsAt(0) /\ stored = BucketsAt(0)
  /\ pc = "down" /\ num = 0 /\ pos = 1 /\ endNum = 0 /\ fast = FALSE
  /\ contractsCache = [a \in Contract |-> NoContract]
  /\ committeesCache = [k \in Epoch |-> NoCommittee]
  /\ toSave = {} /\ ids = << >> /\ answer = 0
  /\ job = "down" /\ known = BucketsAt(0) /\ snapshot = BucketsAt(0)
  /\ spent = [k \in FaultKind |-> 0]

ChainGrows ==
  /\ best < MaxBlock
  /\ best' = best + 1
  /\ UNCHANGED <<chain, posVars, bucket, metricVars, spent>>

\* cleanUpIncompleteData
Start ==
  /\ pc = "down"
  /\ contract' = [a \in Contract |-> IF contract[a].seen > head THEN NoContract ELSE contract[a]]
  /\ committee' = [k \in Epoch |-> IF committee[k].start > head THEN NoCommittee ELSE committee[k]]
  /\ pc' = "idle"
  /\ UNCHANGED <<chain, best, head, bucket, round, caches, toSave, asking, metricVars, spent>>

\* Without the look at the chain.
BugRoundEnd == head + Window

RoundEnd == IF head + Window > best THEN best ELSE head + Window

BeginRound ==
  /\ pc = "idle"
  /\ RoundEnd > head
  /\ endNum' = RoundEnd
  /\ fast' = (RoundEnd < best)
  /\ num' = head + 1 /\ pos' = 1
  /\ pc' = "work"
  /\ UNCHANGED <<chain, best, head, rows, caches, toSave, asking, metricVars, spent>>
-----------------------------------------------------------------------------
(* Contracts. *)

\* handleContractCreation: the slots are read at the best block, not at this one.
CreateContract ==
  /\ Handling("create")
  /\ LET a == Entry.of
     IN contractsCache' = IF Cached(a) THEN contractsCache
                          ELSE [contractsCache EXCEPT ![a] =
                                  [status |-> "live", seen |-> num, impl |-> ImplAt(a, best), prev |-> 0]]
  /\ Handled
  /\ UNCHANGED <<rows, pc, committeesCache, asking, spent>>

Exists(c) == c.status # "none"

\* The two implementations move on although nothing has changed.
BugUpgraded(c, impl) == IF ~ Exists(c) THEN c ELSE [c EXCEPT !.prev = c.impl, !.impl = impl]

Upgraded(c, impl) ==
  IF ~ Exists(c) \/ c.impl = impl THEN c ELSE [c EXCEPT !.prev = c.impl, !.impl = impl]

\* handleERC1967Events, Upgraded: the database is looked at even if the cache is up to date.
Upgrade ==
  /\ Handling("upgrade")
  /\ LET a == Entry.of
         hit == Cached(a) /\ contractsCache[a].impl # Entry.impl
     IN IF hit THEN /\ contractsCache' = [contractsCache EXCEPT ![a] = Upgraded(@, Entry.impl)]
                    /\ UNCHANGED contract
               ELSE /\ contract' = [contract EXCEPT ![a] = Upgraded(@, Entry.impl)]
                    /\ UNCHANGED contractsCache
  /\ Handled
  /\ UNCHANGED <<committee, bucket, pc, committeesCache, asking, spent>>

\* Only contracts of this batch are marked.
BugDestruct ==
  /\ Handling("destruct")
  /\ LET a == Entry.of
     IN contractsCache' = IF Cached(a) THEN [contractsCache EXCEPT ![a].status = "destructed"]
                          ELSE contractsCache
  /\ Handled
  /\ UNCHANGED <<rows, pc, committeesCache, asking, spent>>

\* handleSelfdestruct
Destruct ==
  /\ Handling("destruct")
  /\ LET a == Entry.of
     IN \/ /\ Cached(a)
           /\ contractsCache' = [contractsCache EXCEPT ![a].status = "destructed"]
           /\ UNCHANGED contract
        \/ /\ ~ Cached(a)
           /\ contract' = IF Exists(contract[a]) THEN [contract EXCEPT ![a].status = "destructed"]
                                                 ELSE contract
           /\ UNCHANGED contractsCache
  /\ Handled
  /\ UNCHANGED <<committee, bucket, pc, committeesCache, asking, spent>>
-----------------------------------------------------------------------------
(* Committees: the new one waits in the cache, its predecessor's end is written wherever it is. *)

\* The end is only written to the database.
BugEndOfEpoch(k, end) ==
  /\ committee' = IF k \in Epoch /\ committee[k] # NoCommittee
                  THEN [committee EXCEPT ![k].end = end] ELSE committee
  /\ committeesCache' = [committeesCache EXCEPT ![k + 1] = [start |-> num, end |-> -1]]

\* updateCommitteeEndBlock, after the committee of epoch k + 1 was pushed.
EndOfEpoch(k, end) ==
  LET pushed == [committeesCache EXCEPT ![k + 1] = [start |-> num, end |-> -1]]
  IN \/ /\ k \in Epoch /\ pushed[k] # NoCommittee
        /\ committeesCache' = [pushed EXCEPT ![k].end = end]
        /\ UNCHANGED committee
     \/ /\ k \in Epoch /\ pushed[k] = NoCommittee
        /\ committeesCache' = pushed
        /\ committee' = IF committee[k] # NoCommittee THEN [committee EXCEPT ![k].end = end]
                                                      ELSE committee
     \/ /\ k \notin Epoch
        /\ committeesCache' = pushed
        /\ UNCHANGED committee

NewCommittee ==
  /\ Handling("committee")
  /\ EndOfEpoch(Entry.epoch - 1, Entry.end)
  /\ Handled
  /\ UNCHANGED <<contract, bucket, pc, contractsCache, asking, spent>>
-----------------------------------------------------------------------------
(* Buckets: handleNativeBucketEvent. *)

Skip == <<chain, best, head, contract, committee, num, endNum, fast, caches, toSave, metricVars>>

OpenBuckets ==
  /\ Handling("bucket")
  /\ ids' = Entry.ids
  /\ pc' = "asking"
  /\ UNCHANGED <<Skip, bucket, pos, answer, spent>>

\* The handler ends, after its last bucket or at an error, which it swallows.
Leave == /\ pc' = "work" /\ pos' = pos + 1
         /\ ids' = << >> /\ answer' = 0

CloseBuckets ==
  /\ pc = "asking" /\ ids = << >>
  /\ Leave
  /\ UNCHANGED <<Skip, bucket, spent>>

\* getBucketByID, at the best block; a bucket that is gone there makes the handler throw.
AskNode ==
  /\ pc = "asking" /\ ids # << >>
  /\ LET v == BucketAt[chain][Head(ids)][best]
     IN IF v = 0 THEN Leave ELSE answer' = v /\ pc' = "answered" /\ UNCHANGED <<ids, pos>>
  /\ UNCHANGED <<Skip, bucket, spent>>

FindBucket ==
  /\ pc = "answered"
  /\ pc' = IF bucket[Head(ids)] # 0 THEN "found" ELSE "missing"
  /\ UNCHANGED <<Skip, bucket, pos, asking, spent>>

\* save or create: refused if the row has gone or come in the meantime.
WriteBucket ==
  /\ pc \in {"found", "missing"}
  /\ LET b == Head(ids)
     IN /\ IF (bucket[b] # 0) = (pc = "found")
           THEN /\ bucket' = [bucket EXCEPT ![b] = answer]
                /\ ids' = Tail(ids) /\ answer' = 0 /\ pc' = "asking" /\ pos' = pos
           ELSE Leave /\ UNCHANGED bucket
        /\ IF answer = BucketAt[chain][b][best] THEN UNCHANGED spent
                                         ELSE CanSpend("late") /\ Spend("late")
  /\ UNCHANGED Skip
-----------------------------------------------------------------------------
(* The end of a block and saveCacheToDB. *)

EndOfBlock ==
  /\ pc = "work" /\ pos > Len(Script[chain][num])
  /\ pos' = 1
  /\ IF fast /\ num < endNum
     THEN num' = num + 1 /\ UNCHANGED <<pc, toSave>>
     ELSE /\ pc' = "save" /\ toSave' = { a \in Contract : Cached(a) }
          /\ UNCHANGED num
  /\ UNCHANGED <<chain, best, head, rows, endNum, fast, caches, asking, metricVars, spent>>

\* Rows after the cached committees of K have been inserted.
WithCommittees(K) == [k \in Epoch |-> IF k \in K THEN committeesCache[k] ELSE committee[k]]

NewEpochs == { k \in Epoch : committeesCache[k] # NoCommittee }

SaveCommittees ==
  /\ pc = "save" /\ NewEpochs # {}
  /\ committee' = WithCommittees(NewEpochs)
  /\ committeesCache' = [k \in Epoch |-> NoCommittee]
  /\ UNCHANGED <<chain, best, head, contract, bucket, pc, round, contractsCache, toSave, asking, metricVars, spent>>

\* A contract that destroyed itself makes room for its successor.
SaveContract(a) ==
  /\ pc = "save" /\ NewEpochs = {}
  /\ a \in toSave
  /\ contract[a].status \in {"none", "destructed"}
  /\ contract' = [contract EXCEPT ![a] =
       IF Exists(contract[a]) THEN [contractsCache[a] EXCEPT !.status = "redeployed"] ELSE contractsCache[a]]
  /\ toSave' = toSave \ {a}
  /\ UNCHANGED <<chain, best, head, committee, bucket, pc, round, caches, asking, metricVars, spent>>

\* contract ... existed: an error in the loop, which it does not get over (see PosSync).
ContractExisted(a) ==
  /\ pc = "save" /\ NewEpochs = {}
  /\ a \in toSave
  /\ contract[a].status \in {"live", "redeployed"}
  /\ pc' = "stuck"
  /\ UNCHANGED <<chain, best, head, rows, round, caches, toSave, asking, metricVars, spent>>

\* The block, the head and cleanCache; without fast-forward the next block of the round follows.
SaveHead ==
  /\ pc = "save" /\ NewEpochs = {} /\ toSave = {}
  /\ head' = num
  /\ EmptyCaches
  /\ IF num = endNum THEN pc' = "idle" /\ num' = num ELSE pc' = "work" /\ num' = num + 1
  /\ UNCHANGED <<chain, best, rows, pos, endNum, fast, toSave, asking, metricVars, spent>>
-----------------------------------------------------------------------------
(* Failures of the PoS process. *)

\* The database or the node fails a handler that swallows errors.
Swallowed ==
  /\ CanSpend("swallow") /\ Spend("swallow")
  /\ \/ /\ Handling("destruct") \/ Handling("upgrade")
        /\ ~ Cached(Entry.of)
        /\ Handled
        /\ UNCHANGED <<pc, caches, asking>>
     \/ /\ pc = "asking" /\ ids # << >>
        /\ Leave
        /\ UNCHANGED Skip
  /\ UNCHANGED rows

\* What a crash in the middle of a save leaves behind.
CutShort ==
  \/ UNCHANGED <<contract, committee>>
  \/ /\ pc = "save" /\ NewEpochs # {}
     /\ \E K \in SUBSET NewEpochs \ {NewEpochs} : committee' = WithCommittees(K)
     /\ UNCHANGED contract
  \/ /\ pc = "save" /\ NewEpochs = {}
     /\ \E a \in toSave : /\ contract[a].status = "destructed"
                          /\ contract' = [contract EXCEPT ![a] = NoContract]
     /\ UNCHANGED committee

Crash ==
  /\ pc # "down"
  /\ CanSpend("crash") /\ Spend("crash")
  /\ CutShort
  /\ EmptyCaches
  /\ toSave' = {} /\ ids' = << >> /\ answer' = 0
  /\ pc' = "down"
  /\ UNCHANGED <<chain, best, head, bucket, round, metricVars>>
-----------------------------------------------------------------------------
(* The staking job of the metric process: updateStakingInfo, as far as buckets go. *)

\* MetricCache.init: the memory is what was stored last.
MetricStart ==
  /\ job = "down"
  /\ known' = stored
  /\ job' = "idle"
  /\ UNCHANGED <<chain, best, posVars, bucket, stored, snapshot, spent>>

\* getBuckets and MetricCache.update: the memory and its row change before the collection does.
Compare ==
  /\ job = "idle"
  /\ known # BucketsAt(best)
  /\ known' = BucketsAt(best)
  /\ stored' = BucketsAt(best)
  /\ job' = "compared"
  /\ UNCHANGED <<chain, best, posVars, bucket, snapshot, spent>>

\* The second getBuckets.
GetBuckets ==
  /\ job = "compared"
  /\ snapshot' = BucketsAt(best)
  /\ job' = "delete"
  /\ UNCHANGED <<chain, best, posVars, bucket, stored, known, spent>>

\* The rows that are there stay.
BugDeleteAll ==
  /\ job = "delete"
  /\ job' = "insert"
  /\ UNCHANGED <<chain, best, posVars, bucket, stored, known, snapshot, spent>>

DeleteAll ==
  /\ job = "delete"
  /\ bucket' = [b \in Bucket |-> 0]
  /\ job' = "insert"
  /\ UNCHANGED <<chain, best, posVars, stored, known, snapshot, spent>>

\* Buckets of S inserted, except those the unique index refuses.
WithBuckets(S) == [b \in Bucket |-> IF b \in S /\ bucket[b] = 0 THEN snapshot[b] ELSE bucket[b]]

\* bulkInsert: if a row is refused the loop catches the error; the others are in place.
InsertAll ==
  /\ job = "insert"
  /\ bucket' = WithBuckets(Bucket)
  /\ job' = "idle"
  /\ UNCHANGED <<chain, best, posVars, stored, known, snapshot, spent>>

\* An error ends this turn of the loop; a crash ends the process.
MetricFails ==
  /\ job \notin {"down", "idle"}
  /\ IF job = "insert" THEN \E S \in SUBSET Bucket : bucket' = WithBuckets(S) ELSE UNCHANGED bucket
  /\ \/ CanSpend("metricError") /\ Spend("metricError") /\ job' = "idle"
     \/ CanSpend("metricCrash") /\ Spend("metricCrash") /\ job' = "down"
  /\ UNCHANGED <<chain, best, posVars, stored, known, snapshot>>
-----------------------------------------------------------------------------
(* The specification. *)

Handle == CreateContract \/ Upgrade \/ Destruct \/ NewCommittee \/ OpenBuckets

Buckets == CloseBuckets \/ AskNode \/ FindBucket \/ WriteBucket

Save == \/ SaveCommittees
        \/ \E a \in Contract : SaveContract(a) \/ ContractExisted(a)
        \/ SaveHead

PosStep == Start \/ BeginRound \/ Handle \/ Buckets \/ EndOfBlock \/ Save

MetricStep == MetricStart \/ Compare \/ GetBuckets \/ DeleteAll \/ InsertAll

Fault == Swallowed \/ Crash \/ MetricFails

\* The whole chain has been imported, and the job has nothing to do.
Waiting == /\ pc \in {"idle", "stuck"} /\ job = "idle" /\ best = MaxBlock
           /\ UNCHANGED vars

Next == ChainGrows \/ PosStep \/ MetricStep \/ Fault \/ Waiting

Spec == Init /\ [][Next]_vars

\* Two processes that docker restarts; every call ends.  Nothing is assumed of the chain.
FairSpec == Spec /\ WF_vars(PosStep) /\ WF_vars(MetricStep)
-----------------------------------------------------------------------------
(* Properties. *)

NoneSwallowed == spent["swallow"] = 0

CreationsOf(a) == Of("create", HistoryOf(a, MaxBlock))

\* A contract is not created twice in the blocks of one round, nor created again and destroyed in
\* them: the second creation is "already known", and the destruction is overwritten by ReDeployed.
Spaced(a) ==
  \A p \in CreationsOf(a) : \A q \in HistoryOf(a, MaxBlock) :
     Before(p, q) /\ q[1] < p[1] + Window =>
       /\ At(q).kind # "create"
       /\ At(q).kind = "destruct" => \A r \in CreationsOf(a) : ~ Before(r, p)

\* The row of a contract is what the chain says at block n.  Before the first upgrade it may show an
\* implementation that is set later, since the slot is read at the best block.
ContractRight(a, n) ==
  /\ Alive(a, n) <=> contract[a].status \in {"live", "redeployed"}
  /\ Exists(contract[a]) <=> HistoryOf(a, n) # {}
  /\ Alive(a, n) => \/ contract[a].impl = ImplAt(a, n)
                    \/ UpgradesAt(a, n) = {} /\ \E m \in n..best : contract[a].impl = ImplAt(a, m)
  /\ Alive(a, n) /\ OthersAt(a, n) # {} => contract[a].prev = PrevAt(a, n)

\* The committees known at block n, and when each of them ended.
CommitteeAt(k, n) ==
  LET C == { p \in Of("committee", Positions) : p[1] <= n }
      start(j) == { p \in C : At(p).epoch = j }
  IN IF start(k) = {} THEN NoCommittee
     ELSE [start |-> Last(start(k))[1],
           end |-> IF start(k + 1) = {} THEN -1 ELSE At(Last(start(k + 1))).end]

\* When the head moves, rows that were changed in place, before the batch was committed and perhaps
\* several times, are right.  The row of a contract says whether it is alive, which implementation
\* it delegates to, and which was the one before; every committee has its row, ended exactly if its
\* successor is known.
RowsExact ==
  [][ head' # head =>
        /\ NoneSwallowed => \A a \in Contract : Spaced(a) => ContractRight(a, head')
        /\ \A k \in Epoch : committee[k] = CommitteeAt(k, head') ]_vars

\* If no error is swallowed the import comes to the best block: no contract it meets is one that
\* it believes alive.
ImportGoesOn == [](NoneSwallowed) => <>[](head = best)

\* The collection of buckets becomes the chain's, removed buckets included, although two processes
\* write it, unless an answer is written after the chain has moved on, or the metric process stops
\* between noticing a change and storing it.
BucketsSettle ==
  [](spent["late"] = 0 /\ spent["metricError"] = 0 /\ spent["metricCrash"] = 0)
    => <>[](bucket = BucketsAt(best))
=============================================================================
