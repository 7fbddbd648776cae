----------------------------- MODULE MetricJobs -----------------------------
(***************************************************************************)
(* The metric process (src/src/cmd/metric.cmd.ts): a loop that sleeps,     *)
(* counts its turns, and in every turn runs those of its jobs that are     *)
(* due, one after the other.  An error ends the turn, and with it the jobs *)
(* after the one that failed, which then wait for their period to come     *)
(* round again.                                                            *)
(*                                                                         *)
(* What the process remembers of the chain (MetricCache) decides what it   *)
(* writes: a value that has not changed is not stored again, and the       *)
(* validators are only replaced when one of three lists has changed.  The  *)
(* memory changes before anything is stored.                               *)
(*                                                                         *)
(* The PoS import goes on meanwhile: it writes the balances that are       *)
(* ranked, and the total supply of a token that is minted.                 *)
(*                                                                         *)
(* The buckets, which the staking job replaces as well, are in SharedRows. *)
(* Left out: the verification of contracts, which the loop does not call.  *)
(***************************************************************************)
EXTENDS Integers, Sequences, FiniteSetsExt

CONSTANTS
  MaxClock,     \* the last block of the chain considered
  Validator,
  Ranked,       \* accounts
  Worlds,       \* the worlds considered, see MetricAssumption
  Day,          \* every24h: the turns after which the count starts again
  Period        \* how many turns lie between two runs of a job

Clock == 0..MaxClock
Lists == {"candidates", "jailed", "delegates"}
Key == Lists \cup {"stats", "figure", "price"}
Coin == {"mtr", "mtrg"}
MetricFault == {"error", "null", "crash"}

\* The jobs in the order of a turn, each by its first step.
Jobs == <<"figure", "halt", "rpc", "price", "ranks", "candidates", "slashing", "supply">>

ASSUME MetricAssumption ==
  /\ MaxClock \in Nat
  /\ Day \in Nat \ {0}
  /\ IsFiniteSet(Ranked)
  /\ Period \in [Range(Jobs) -> Nat \ {0}]
  /\ \A w \in DOMAIN Worlds :
       /\ Worlds[w].answer["stats"] \in [Clock -> [Validator -> Nat]]  \* what is said at each block
       /\ \A k \in Lists : Worlds[w].answer[k] \in [Clock -> SUBSET Validator]
       /\ \A k \in {"figure", "price"} : Worlds[w].answer[k] \in [Clock -> Nat]
       /\ Worlds[w].total \in [Clock -> [Coin -> [Ranked -> Int]]]  \* balances, -1: no account
       /\ Worlds[w].supply \in [Clock -> Nat]                       \* of a token, in total
       /\ Worlds[w].ill \in BOOLEAN                                 \* blocks and endpoints may fail
       /\ Worlds[w].limit \in [MetricFault -> Nat]                  \* how often each fault may happen

VARIABLES
  world,       \* which one it is, for ever
  now,         \* the best block of the chain
  halted,      \* no block for more than two minutes
  \* the PoS process
  importedTo,  \* its head
  minted,      \* the supply it has asked for, NotAsked if it has not
  \* the database
  kept,        \* the metric rows
  validators,  \* the validator rows
  rank,        \* rank[c][a]
  supplyRow,   \* the total supply in the contract's row
  alerts,      \* the alert rows
  \* the metric process
  task,        \* its next step
  tick,        \* index
  memory,      \* MetricCache.map
  due, missing,  \* of the lists: one was updated, one was not answered
  sorted,      \* the head at which the accounts to rank were read
  read, wanted,  \* the supply in the row that was read, and the chain's
  writing,     \* prices on their way to the database
  message,     \* the alert at hand
  \* the rest of the world
  posts,       \* how often an alert was posted
  faultsLeft

importer == <<importedTo, minted>>
chainVars == <<world, now, halted>>
staking == <<validators, due, missing>>
ranking == <<rank, sorted>>
supplies == <<supplyRow, read, wanted>>
alarm == <<alerts, message, posts>>
metrics == <<kept, memory, writing>>
metricVars == <<chainVars, importer, staking, ranking, supplies, alarm, metrics, task, tick, faultsLeft>>

Answer == Worlds[world].answer
Total == Worlds[world].total
Supply == Worlds[world].supply

NotAsked == -1
NoRow == [status |-> "none", points |-> 0]
NoMessage == [network |-> "none", about |-> "none", number |-> 0]
Unranked == Cardinality(Ranked) + 1     \* 99999999

ValidatorRow == [status : {"none", "CANDIDATE", "DELEGATE", "JAILED"}, points : Nat]
Message == [network : {"mainnet", "MainNet"}, about : {"rpc", "halt"}, number : Clock]

\* METRIC_DEFS: the defaults.
Default == [k \in Key |-> CASE k \in Lists -> {}
                            [] k = "stats" -> [v \in Validator |-> 0]
                            [] OTHER       -> 0]

IsMemory(m) == /\ DOMAIN m = Key
               /\ \A k \in Lists : m[k] \subseteq Validator
               /\ m["stats"] \in [Validator -> Nat]
               /\ m["figure"] \in Nat /\ m["price"] \in Nat

MetricTypeOK ==
  /\ world \in DOMAIN Worlds
  /\ now \in Clock /\ halted \in BOOLEAN
  /\ importedTo \in 0..now /\ minted \in {NotAsked} \cup Nat
  /\ IsMemory(kept) /\ IsMemory(memory)
  /\ validators \in [Validator -> ValidatorRow]
  /\ rank \in [Coin -> [Ranked -> 1..Unranked]]
  /\ supplyRow \in Nat /\ read \in Nat /\ wanted \in Nat
  /\ alerts \subseteq Message /\ message \in Message \cup {NoMessage}
  /\ task \in {"down", "asleep", "jailed", "delegates", "decide", "delete", "insert", "empty",
               "points", "mtr", "mtrg", "adjust", "save", "post"} \cup Range(Jobs)
  /\ tick \in 0..(Day - 1)
  /\ due \in BOOLEAN /\ missing \in BOOLEAN
  /\ sorted \in Clock
  /\ writing \in Seq(Nat)
  /\ posts \in [Message -> Nat]
  /\ faultsLeft \in [MetricFault -> Nat]

\* A database the import has begun to fill, and a metric process that was never started.
MetricInit ==
  /\ world \in DOMAIN Worlds
  /\ now = 0 /\ halted = FALSE
  /\ importedTo = 0 /\ minted = NotAsked
  /\ kept = Default /\ memory = Default
  /\ validators = [v \in Validator |-> NoRow]
  /\ rank = [c \in Coin |-> [a \in Ranked |-> Unranked]]
  /\ supplyRow = Supply[0] /\ read = 0 /\ wanted = 0
  /\ alerts = {} /\ message = NoMessage
  /\ task = "down" /\ tick = 0
  /\ due = FALSE /\ missing = FALSE /\ sorted = 0
  /\ writing = << >>
  /\ posts = [m \in Message |-> 0]
  /\ faultsLeft = Worlds[world].limit
---------------------------------------------------------------------------
(* The chain, and the import as far as it touches what is written here. *)

ChainMoves ==
  /\ now < MaxClock
  /\ now' = now + 1
  /\ halted' = FALSE
  /\ UNCHANGED world
  /\ UNCHANGED <<importer, staking, ranking, supplies, alarm, metrics, task, tick, faultsLeft>>

TwoMinutesPass ==
  /\ Worlds[world].ill /\ ~ halted
  /\ halted' = TRUE
  /\ UNCHANGED <<world, now, importer, staking, ranking, supplies, alarm, metrics, task, tick, faultsLeft>>

Mints(n) == Supply[n] # Supply[n - 1]

\* A mint is among the movements: the node is asked, at its best block.
AskSupply ==
  /\ importedTo < now /\ minted = NotAsked
  /\ Mints(importedTo + 1)
  /\ minted' = Supply[now]
  /\ UNCHANGED <<chainVars, importedTo, staking, ranking, supplies, alarm, metrics, task, tick, faultsLeft>>

\* The contract's row first, then the accounts and the head.
ImportNext ==
  /\ importedTo < now
  /\ Mints(importedTo + 1) => minted # NotAsked
  /\ supplyRow' = IF minted = NotAsked THEN supplyRow ELSE minted
  /\ minted' = NotAsked
  /\ importedTo' = importedTo + 1
  /\ UNCHANGED <<chainVars, staking, ranking, read, wanted, alarm, metrics, task, tick, faultsLeft>>
---------------------------------------------------------------------------
(* The loop. *)

Fail(f) == faultsLeft[f] > 0 /\ faultsLeft' = [faultsLeft EXCEPT ![f] = @ - 1]

\* MetricCache.init.
MetricStart ==
  /\ task = "down"
  /\ memory' = kept
  /\ task' = "asleep" /\ tick' = 0
  /\ UNCHANGED <<chainVars, importer, staking, ranking, supplies, alarm, kept, writing, faultsLeft>>

\* Jobs of this turn from the i-th on.
DueFrom(i) == { j \in DOMAIN Jobs : j >= i /\ tick % Period[Jobs[j]] = 0 }

Turn(i) == IF DueFrom(i) = {} THEN task' = "asleep" /\ tick' = (tick + 1) % Day
                              ELSE task' = Jobs[Min(DueFrom(i))] /\ tick' = tick

\* The job is through: the next one that is due, or the end of the turn.
After(job) == Turn(1 + CHOOSE i \in DOMAIN Jobs : Jobs[i] = job)

Go(step) == task' = step /\ tick' = tick

Wakes ==
  /\ task = "asleep"
  /\ Turn(1)
  /\ UNCHANGED <<chainVars, importer, staking, ranking, supplies, alarm, metrics, faultsLeft>>

\* MetricCache.update
Update(k, v) ==
  /\ memory' = [memory EXCEPT ![k] = v]
  /\ kept' = IF v = memory[k] THEN kept ELSE [kept EXCEPT ![k] = v]

Updated(k) == Answer[k][now] # memory[k]
---------------------------------------------------------------------------
(* Figures that are asked for and remembered, each on its own. *)

NoteFigure ==
  /\ task = "figure"
  /\ Update("figure", Answer["figure"][now])
  /\ After("figure")
  /\ UNCHANGED <<chainVars, importer, staking, ranking, supplies, alarm, writing, faultsLeft>>

\* Nobody waits for the write of a price.
NotePrice ==
  /\ task = "price"
  /\ memory' = [memory EXCEPT !["price"] = Answer["price"][now]]
  /\ writing' = IF Updated("price") THEN Append(writing, Answer["price"][now]) ELSE writing
  /\ After("price")
  /\ UNCHANGED <<chainVars, importer, staking, ranking, supplies, alarm, kept, faultsLeft>>

\* The error is swallowed.
NoPrice ==
  /\ task = "price"
  /\ Fail("error")
  /\ After("price")
  /\ UNCHANGED <<chainVars, importer, staking, ranking, supplies, alarm, metrics>>

PriceLands ==
  /\ writing # << >>
  /\ kept' = [kept EXCEPT !["price"] = Head(writing)]
  /\ writing' = Tail(writing)
  /\ UNCHANGED <<chainVars, importer, staking, ranking, supplies, alarm, memory, task, tick, faultsLeft>>
---------------------------------------------------------------------------
(* Alerts. *)

\* The schema's enumeration of networks, which has no `MainNet', the name Network[...] has.
Valid(m) == m.network \in {"mainnet", "testnet", "devnet"}

\* Posted without being recorded.
BugSendAlert(job, m) ==
  IF m \notin alerts /\ Valid(m)
  THEN /\ message' = m
       /\ Go("post")
       /\ UNCHANGED <<alerts, posts>>
  ELSE After(job) /\ UNCHANGED alarm

\* checkOrSendAlert: an alert that the database refuses is not sent, and the error is swallowed.
SendAlert(job, m) ==
  IF m \notin alerts /\ Valid(m)
  THEN /\ alerts' = alerts \cup {m} /\ message' = m
       /\ Go("post")
       /\ UNCHANGED posts
  ELSE After(job) /\ UNCHANGED alarm

AlertIfNetworkHalt ==
  /\ task = "halt"
  /\ IF importedTo = now /\ halted
     THEN SendAlert("halt", [network |-> "MainNet", about |-> "halt", number |-> importedTo])
     ELSE After("halt") /\ UNCHANGED alarm
  /\ UNCHANGED <<chainVars, importer, staking, ranking, supplies, metrics, faultsLeft>>

\* An endpoint that gives no number (0), or no block for the number that it gives.
CheckRpc ==
  /\ task = "rpc"
  /\ \/ After("rpc") /\ UNCHANGED alarm
     \/ /\ Worlds[world].ill
        /\ \E n \in {0, now} : SendAlert("rpc", [network |-> "mainnet", about |-> "rpc", number |-> n])
  /\ UNCHANGED <<chainVars, importer, staking, ranking, supplies, metrics, faultsLeft>>

\* postToSlackChannel has its own try: it may also not have been posted.
Post ==
  /\ task = "post"
  /\ \E k \in {0, 1} : posts' = [posts EXCEPT ![message] = @ + k]
  /\ message' = NoMessage
  /\ After(message.about)
  /\ UNCHANGED <<chainVars, importer, staking, ranking, supplies, alerts, metrics, faultsLeft>>
---------------------------------------------------------------------------
(* Ranks. *)

\* findAll: the sums for the circulation and both orders are made of these rows.
ReadAccounts ==
  /\ task = "ranks"
  /\ sorted' = importedTo
  /\ Go("mtr")
  /\ UNCHANGED <<chainVars, importer, staking, rank, supplies, alarm, metrics, faultsLeft>>

\* The poorest first.
BugOrders(c) ==
  LET rows == { a \in Ranked : Total[sorted][c][a] # -1 }
  IN { at \in [rows -> 1..Cardinality(rows)] :
         \A a, b \in rows : a # b => at[a] # at[b]
                             /\ (Total[sorted][c][a] > Total[sorted][c][b] => at[a] > at[b]) }

\* The accounts with a rank, richer ones before poorer ones, equal ones in any order.
Orders(c) ==
  LET rows == { a \in Ranked : Total[sorted][c][a] # -1 }
  IN { at \in [rows -> 1..Cardinality(rows)] :
         \A a, b \in rows : a # b => at[a] # at[b]
                             /\ (Total[sorted][c][a] > Total[sorted][c][b] => at[a] < at[b]) }

\* updateMTRRank and updateMTRGRank, for the first n of the order.
WithRanks(c, at, n) ==
  [rank EXCEPT ![c] = [a \in Ranked |-> IF a \in DOMAIN at /\ at[a] <= n THEN at[a] ELSE @[a]]]

RankAccounts ==
  /\ task \in Coin
  /\ \E at \in Orders(task) : rank' = WithRanks(task, at, Cardinality(Ranked))
  /\ IF task = "mtr" THEN Go("mtrg") ELSE After("ranks")
  /\ UNCHANGED <<chainVars, importer, staking, sorted, supplies, alarm, metrics, faultsLeft>>
---------------------------------------------------------------------------
(* Validators: updateStakingInfo and updateSlashingInfo. *)

AfterList == [candidates |-> "jailed", jailed |-> "delegates", delegates |-> "decide"]

\* Only the last list counts.
BugNoteList ==
  /\ task \in Lists
  /\ Update(task, Answer[task][now])
  /\ due' = Updated(task)
  /\ Go(AfterList[task])
  /\ UNCHANGED <<chainVars, importer, validators, missing, ranking, supplies, alarm, writing, faultsLeft>>

NoteList ==
  /\ task \in Lists
  /\ Update(task, Answer[task][now])
  /\ due' = (due \/ Updated(task))
  /\ Go(AfterList[task])
  /\ UNCHANGED <<chainVars, importer, validators, missing, ranking, supplies, alarm, writing, faultsLeft>>

NullList ==
  /\ task \in Lists
  /\ Fail("null")
  /\ missing' = TRUE
  /\ Go(AfterList[task])
  /\ UNCHANGED <<chainVars, importer, validators, due, ranking, supplies, alarm, metrics>>

ToRefresh == due /\ ~ missing

Decide ==
  /\ task = "decide"
  /\ IF ToRefresh THEN Go("delete") ELSE After("candidates")
  /\ due' = FALSE /\ missing' = FALSE
  /\ UNCHANGED <<chainVars, importer, validators, ranking, supplies, alarm, metrics, faultsLeft>>

DeleteValidators ==
  /\ task = "delete"
  /\ validators' = [v \in Validator |-> NoRow]
  /\ Go("insert")
  /\ UNCHANGED <<chainVars, importer, due, missing, ranking, supplies, alarm, metrics, faultsLeft>>

Status(v, m) == IF v \in m["jailed"] THEN "JAILED"
                ELSE IF v \in m["delegates"] THEN "DELEGATE" ELSE "CANDIDATE"

\* The rows that three lists and the statistics make: a delegate or a jailed validator that is no
\* candidate has none.
RowsOf(m) ==
  [v \in Validator |-> IF v \in m["candidates"] THEN [status |-> Status(v, m), points |-> m["stats"][v]]
                                               ELSE NoRow]

\* The lists as they were read, the statistics as they are remembered.
InsertValidators ==
  /\ task = "insert"
  /\ validators' = RowsOf(memory)
  /\ After("candidates")
  /\ UNCHANGED <<chainVars, importer, due, missing, ranking, supplies, alarm, metrics, faultsLeft>>

NoteStats ==
  /\ task = "slashing"
  /\ Update("stats", Answer["stats"][now])
  /\ IF Updated("stats") THEN Go("empty") ELSE After("slashing")
  /\ UNCHANGED <<chainVars, importer, staking, ranking, supplies, alarm, writing, faultsLeft>>

NullStats ==
  /\ task = "slashing"
  /\ Fail("null")
  /\ After("slashing")
  /\ UNCHANGED <<chainVars, importer, staking, ranking, supplies, alarm, metrics>>

\* emptyPenaltyPoints: those of the jailed stay until their row is saved.
EmptyPoints ==
  /\ task = "empty"
  /\ validators' = [v \in Validator |-> IF validators[v].status \in {"CANDIDATE", "DELEGATE"}
                                        THEN [validators[v] EXCEPT !.points = 0] ELSE validators[v]]
  /\ Go("points")
  /\ UNCHANGED <<chainVars, importer, due, missing, ranking, supplies, alarm, metrics, faultsLeft>>

WithPoints(V) == [v \in Validator |-> IF v \in V /\ validators[v] # NoRow
                                     THEN [validators[v] EXCEPT !.points = memory["stats"][v]]
                                     ELSE validators[v]]

SavePoints ==
  /\ task = "points"
  /\ validators' = WithPoints(Validator)
  /\ After("slashing")
  /\ UNCHANGED <<chainVars, importer, due, missing, ranking, supplies, alarm, metrics, faultsLeft>>

\* `could not update penalty points': the error is swallowed.
PointsFail ==
  /\ task \in {"empty", "points"}
  /\ Fail("error")
  /\ \E V \in SUBSET Validator :
       validators' = IF task = "points" THEN WithPoints(V) ELSE validators
  /\ After("slashing")
  /\ UNCHANGED <<chainVars, importer, due, missing, ranking, supplies, alarm, metrics>>
---------------------------------------------------------------------------
(* The total supply: adjustTotalSupply, for one token. *)

ReadSupply ==
  /\ task = "supply"
  /\ read' = supplyRow
  /\ Go("adjust")
  /\ UNCHANGED <<chainVars, importer, staking, ranking, supplyRow, wanted, alarm, metrics, faultsLeft>>

Adjust ==
  /\ task = "adjust"
  /\ wanted' = Supply[now]
  /\ IF read # Supply[now] THEN Go("save") ELSE After("supply")
  /\ UNCHANGED <<chainVars, importer, staking, ranking, supplyRow, read, alarm, metrics, faultsLeft>>

SaveSupply ==
  /\ task = "save"
  /\ supplyRow' = wanted
  /\ After("supply")
  /\ UNCHANGED <<chainVars, importer, staking, ranking, read, wanted, alarm, metrics, faultsLeft>>

\* `ignore error'
AdjustFails ==
  /\ task \in {"adjust", "save"}
  /\ Fail("error")
  /\ After("supply")
  /\ UNCHANGED <<chainVars, importer, staking, ranking, supplies, alarm, metrics>>
---------------------------------------------------------------------------
(* Failures. *)

\* What a step leaves behind that is cut short.
Cut ==
  \/ UNCHANGED <<validators, rank>>
  \/ /\ task = "insert"
     /\ \E V \in SUBSET Validator :
          validators' = [v \in Validator |-> IF v \in V THEN RowsOf(memory)[v] ELSE NoRow]
     /\ UNCHANGED rank
  \/ /\ task \in Coin
     /\ \E at \in Orders(task), n \in 1..Cardinality(Ranked) : rank' = WithRanks(task, at, n)
     /\ UNCHANGED validators

\* What is remembered although it is not stored.
Noted ==
  \/ UNCHANGED memory
  \/ /\ task \in Lists \cup {"figure"}
     /\ memory' = [memory EXCEPT ![task] = Answer[task][now]]
  \/ /\ task = "slashing"
     /\ memory' = [memory EXCEPT !["stats"] = Answer["stats"][now]]

\* The catch clause of the loop and its finally clause: the turn is over.
TurnFails ==
  /\ task \notin {"down", "asleep", "post", "price", "empty", "points", "adjust", "save"}
  /\ Fail("error")
  /\ Cut /\ Noted
  /\ task' = "asleep" /\ tick' = (tick + 1) % Day
  /\ due' = FALSE /\ missing' = FALSE
  /\ UNCHANGED <<chainVars, importer, sorted, supplies, alarm, kept, writing>>

EndsProcess ==
  /\ task' = "down" /\ tick' = 0
  /\ due' = FALSE /\ missing' = FALSE
  /\ writing' = << >> /\ message' = NoMessage
  /\ UNCHANGED <<chainVars, importer, sorted, supplies, alerts, posts, kept, memory>>

\* A write nobody waits for is rejected, and nobody catches that.
PriceFails ==
  /\ writing # << >>
  /\ Fail("error")
  /\ Cut
  /\ EndsProcess

MetricCrash ==
  /\ task # "down"
  /\ Fail("crash")
  /\ Cut
  /\ EndsProcess
---------------------------------------------------------------------------
(* The specification. *)

MetricProgram ==
  \/ MetricStart \/ Wakes
  \/ NoteFigure \/ NotePrice
  \/ AlertIfNetworkHalt \/ CheckRpc \/ Post
  \/ ReadAccounts \/ RankAccounts
  \/ NoteList \/ Decide \/ DeleteValidators \/ InsertValidators
  \/ NoteStats \/ EmptyPoints \/ SavePoints
  \/ ReadSupply \/ Adjust \/ SaveSupply

Importing == AskSupply \/ ImportNext

MetricNext ==
  \/ MetricProgram \/ PriceLands \/ Importing
  \/ ChainMoves \/ TwoMinutesPass
  \/ NullList \/ NullStats \/ NoPrice \/ PointsFail \/ AdjustFails
  \/ TurnFails \/ PriceFails \/ MetricCrash

MetricSpec == MetricInit /\ [][MetricNext]_metricVars
---------------------------------------------------------------------------
(* What the process is for. *)

NoFaultLeft == \A f \in MetricFault : faultsLeft[f] = 0

Answers == [k \in Key |-> Answer[k][now]]

\* A list has changed that the process has not seen yet, and nothing is going to fail any more.
ToBeSeen == /\ NoFaultLeft /\ task = "asleep" /\ now = MaxClock
            /\ \E k \in Lists : memory[k] # Answer[k][now]

\* The validators become those the chain has, with the status of the strongest of the lists they
\* are on and their penalty points, whatever was lost before, as soon as one more change of the
\* lists is seen.  Without one, what an error has cut short stays as it is: the lists that were
\* noted before the error are no news any more.
ValidatorsSettle == <>ToBeSeen => <>[](validators = RowsOf(Answers))

\* Ranks as they should be: one for each account, higher for those who have more.
RanksRight ==
  \A c \in Coin : \A a, b \in { x \in Ranked : Total[now][c][x] # -1 } :
    /\ rank[c][a] < Unranked
    /\ a # b => rank[c][a] # rank[c][b]
    /\ Total[now][c][a] > Total[now][c][b] => rank[c][a] < rank[c][b]

\* Ranks, total supply and price become right and stay so: although both processes write the supply,
\* each from what it has read some time before, although ranking may stop in the middle, and
\* although a price that is remembered may never be stored, since that ends the process.
RowsSettle == <>[](RanksRight /\ supplyRow = Supply[now] /\ kept["price"] = Answer["price"][now])

\* No alert is posted twice, whatever stops the process: it is recorded before it is posted.
AlertsOnce == \A m \in Message : posts[m] <= 1 /\ (posts[m] = 1 => m \in alerts)
=============================================================================
