------------------------------ MODULE Repairs ------------------------------
(***************************************************************************)
(* The scripts an operator runs by hand to mend the database               *)
(* (src/integrity-scripts and two of src/script).  They read the head of   *)
(* pos once, walk through the chain in ranges or through a collection, and *)
(* write what the node or other rows say.  Nothing stops the import        *)
(* meanwhile, and a script that ends early is run again from the start.    *)
(*                                                                         *)
(* An item is what a script mends: a row, or one field of a row.  It is    *)
(* named by the block it comes from.  Some never change ("fixed"), some    *)
(* are kept up by adding to them ("amount"), some are replaced by events   *)
(* ("setting").  How a value is computed or decoded is left out, and so is *)
(* the concurrency of the promise pools: items do not depend on each other.*)
(***************************************************************************)
EXTENDS Integers, SequencesExt

CONSTANTS
  LastNum,       \* the last block of the chain considered
  RangeStep,     \* how many blocks a script looks at at once
  LateStart,     \* where two scripts start
  Item,          \* items, by the blocks they come from
  Odd,           \* items of the unusual sort, where a script knows two
  Amount,        \* Amount[i][n]: an amount at block n
  Setting,       \* Setting[i][n]
  Troubles       \* how often something may fail

Num == 0..LastNum

ASSUME RepairAssumption ==
  /\ LastNum \in Nat /\ RangeStep \in Nat \ {0} /\ Troubles \in Nat
  /\ LateStart \in Num
  /\ Item \subseteq Num \ {0} /\ Odd \subseteq Item
  /\ Amount \in [Item -> [Num -> Nat]] /\ Setting \in [Item -> [Num -> Nat]]

\* A field that is not there, or NaN.
Missing == -1

\* How far a wrong value is off.
Off == 5

\* What an item should be when block n is the last.
Right(kind, i, n) ==
  IF n < i THEN Missing
  ELSE CASE kind = "fixed"   -> 1
         [] kind = "amount"  -> Amount[i][n]
         [] kind = "setting" -> Setting[i][n]
-----------------------------------------------------------------------------
(***************************************************************************)
(* The scripts.  "open": the query leaves the last block of a range out.   *)
(* "finds": all items, those that have a row, or those that are missing.   *)
(* "asks": the node's best block, the block of the head, or the rows and   *)
(* events of the item's own block.  "fails": after an error an item is     *)
(* skipped, or the script stops, or ends as if it were done.  "clears":    *)
(* items deleted before the walk.                                          *)
(***************************************************************************)

\* for (let i = 0; i < best; i += step) over what is stored.
Ranges == [walk |-> "ranges", from |-> 0, open |-> FALSE, kind |-> "fixed", finds |-> "all",
           asks |-> "rows", fails |-> {}, write |-> "set", clears |-> {}, of |-> "pos",
           imported |-> TRUE, keepsZero |-> FALSE, mistakes |-> FALSE]

Whole(s) == [s EXCEPT !.walk = "whole"]

Open(s) == [s EXCEPT !.open = TRUE]

Finds(s, f) == [s EXCEPT !.finds = f]

Lacking(s) == Finds(s, "missing")

Amounts(s, block) == [s EXCEPT !.kind = "amount", !.asks = block]

Skips(s) == [s EXCEPT !.fails = @ \cup {"skip"}]

Throws(s) == [s EXCEPT !.fails = @ \cup {"stop"}]

Writes(s, how) == [s EXCEPT !.write = how]

Clears(s, items) == [s EXCEPT !.clears = items]

\* Rows of the NFT import, which has a head of its own behind that of pos.
OfNFTs(s) == [s EXCEPT !.of = "nft"]

Late(s) == [s EXCEPT !.from = LateStart]

adjustERC1155Balance == OfNFTs(Throws(Amounts(Finds(Open(Ranges), "stored"), "best")))

restoreNFTValue == OfNFTs(Skips(Amounts(Finds(Open(Ranges), "stored"), "head")))

adjustBalances == Skips(Amounts(Whole(Ranges), "head"))

adjustTokenBalances == Skips(Amounts(Lacking(Whole(Ranges)), "best"))

\* A zero is not written over the balance of an account that holds NFTs of the token.
restoreERC20Balance == [Skips(Amounts(Whole(Ranges), "best")) EXCEPT !.keepsZero = TRUE]

\* The import asks for the supply again whenever tokens are minted or burnt.
adjustTotalSupply == [adjustBalances EXCEPT !.kind = "setting", !.asks = "best"]

restoreERC20TotalSupply == Throws([Whole(Ranges) EXCEPT !.kind = "setting", !.asks = "head"])

correctCodeMatch == Throws(Lacking(Whole(Ranges)))

fixNaNMovements == Throws(Skips(Lacking(Late(Ranges))))

fixInvalidMovements == Skips(Lacking(Whole(Ranges)))

\* The owner is set when a contract is created, and by this script.
fixOwner ==
  [Throws(Writes(Ranges, "follow")) EXCEPT !.kind = "setting", !.imported = FALSE]

restoreERC1967 == [Throws(Writes(Ranges, "apply")) EXCEPT !.kind = "setting"]

restoreERC1167 == Ranges

restoreERC1155Images == OfNFTs(Throws(Skips(Open(Ranges))))

restoreNFTInfo == OfNFTs(Skips(Lacking(Open(Ranges))))

\* A missing digest here is one of two for the same parties: the other is deleted before the sum
\* is saved.
mergeDuplicateTxDigest == Writes(Lacking(Open(Ranges)), "hide")

restoreTxDigest == Writes(Ranges, "replace")

restoreTxIndex == Skips(Lacking(Open(Ranges)))

\* Movements of batches are written as movements of ERC-20 tokens; one that cannot be decoded
\* ends the script.
restoreERC1155 ==
  [Skips(Clears(Ranges, Item)) EXCEPT !.mistakes = TRUE, !.fails = @ \cup {"end"}]

restoreERC721 == Skips(Clears(Ranges, Item))

\* The same scripts write what an account holds.
restoreHoldings == Writes(Amounts(Ranges, "rows"), "tally")

\* Movements of ERC-721 tokens are deleted, those of system contracts are corrected.
restoreSyscontract == Skips(Clears(Lacking(Ranges), Odd))

restoreCandidate == Throws(Ranges)

\* Flags without a code hash are taken back first.
restoreCodeHash == Lacking(Whole(Ranges))

restoreDeployStatus == Open(Ranges)

restoreInternalTxs == Writes(Ranges, "insert")

\* Up to a block that is written in the script.
restoreLogs == [Ranges EXCEPT !.of = "fixed"]

restoreMovementCount == Skips(Lacking(Ranges))

restoreOutputs == Skips(Lacking(Late(Ranges)))

restoreRank == Lacking(Ranges)

\* By the blocks of the verified contracts.
restoreRelatedVerify == Lacking(Open(Ranges))

restoreVerified == Lacking(Open(Ranges))

\* Contracts are saved before the traces that made them known.
restoreTraces == Throws(Skips(Lacking(Ranges)))

\* The error is saved, by which the query tells what is missing, and then the traces.
restoreVMError == Throws(Writes(Lacking(Open(Ranges)), "hide"))

restoreDomainName == Throws(Lacking(Whole(Ranges)))

fillTokenInTxOutput == Throws(Lacking(Whole(Ranges)))

\* Found again, twenty at a time, until there are none.
fillPowBlocks == [Throws(Lacking(Ranges)) EXCEPT !.walk = "repeat"]

\* Scripts that do the same are one.
RepairScripts ==
  { adjustERC1155Balance, restoreNFTValue, adjustBalances, adjustTokenBalances,
    restoreERC20Balance, adjustTotalSupply, restoreERC20TotalSupply, correctCodeMatch,
    fixNaNMovements, fixInvalidMovements, fixOwner, restoreERC1967, restoreERC1167,
    restoreERC1155Images, restoreNFTInfo, mergeDuplicateTxDigest, restoreTxDigest,
    restoreTxIndex, restoreERC1155, restoreERC721, restoreHoldings, restoreSyscontract,
    restoreCandidate, restoreCodeHash, restoreDeployStatus, restoreInternalTxs, restoreLogs,
    restoreMovementCount, restoreOutputs, restoreRank, restoreRelatedVerify, restoreVerified,
    restoreTraces, restoreVMError, restoreDomainName, fillTokenInTxOutput, fillPowBlocks }
-----------------------------------------------------------------------------
VARIABLES
  script,      \* the one that runs
  written,     \* the head of the import that writes the items
  chainEnd,    \* the node's best block
  stage,       \* "off", "clear", "walk", "done", "failed"
  until,       \* best: the head of pos the script has read
  from,        \* i: where the next range starts
  todo,        \* the items found, with the value read and, for events, the block: [item, seen, at]
  doing,       \* the one at hand, and the value to save: at most one
  row,         \* what is stored
  begun,       \* "written" when the script began
  before,      \* "row" then
  skipped,     \* the script has left something out
  beside,      \* the import has moved since, or the node was ahead of it
  troubles     \* what has failed so far

walkVars == <<until, from, todo, doing>>
pastVars == <<begun, before>>
repairVars == <<script, written, chainEnd, stage, walkVars, row, pastVars, skipped, beside, troubles>>

Running == stage \in {"clear", "walk"}

RightAt(i, n) == Right(script.kind, i, n)

\* The blocks at which a value changes.
Changes(i, lo, hi) ==
  { n \in lo..hi : i <= n /\ (n = i \/ RightAt(i, n) # RightAt(i, n - 1)) }

\* Events of an item: its creation is one only where amounts are tallied.
EventsOf(i, lo, hi) ==
  IF script.write = "tally" THEN Changes(i, lo, hi) ELSE Changes(i, lo, hi) \ {i}

ByEvents == script.write \in {"follow", "apply"}

(* The import and the chain. *)

ChainEndMoves ==
  /\ chainEnd < LastNum
  /\ chainEnd' = chainEnd + 1
  /\ UNCHANGED <<script, written, stage, walkVars, row, pastVars, skipped, beside, troubles>>

Imported(i, n) ==
  CASE n = i -> RightAt(i, n)
    [] n > i /\ script.kind = "amount" /\ script.imported /\ row[i] # Missing ->
         row[i] + RightAt(i, n) - RightAt(i, n - 1)
    [] n > i /\ script.kind = "setting" /\ script.imported /\ n \in Changes(i, n, n) -> RightAt(i, n)
    [] OTHER -> row[i]

ImportsNext ==
  /\ written < chainEnd
  /\ written' = written + 1
  /\ row' = [i \in Item |-> Imported(i, written + 1)]
  /\ beside' = (beside \/ Running)
  /\ UNCHANGED <<script, chainEnd, stage, walkVars, pastVars, skipped, troubles>>

(* The script. *)

\* The head of pos, or the block written in the script.
HeadRead(b) ==
  CASE script.of = "pos"   -> b = written
    [] script.of = "nft"   -> written <= b /\ b <= chainEnd
    [] script.of = "fixed" -> TRUE

BeginScript(b) ==
  /\ stage = "off"
  /\ HeadRead(b)
  /\ stage' = "clear"
  /\ until' = b /\ from' = script.from
  /\ begun' = written /\ before' = row
  /\ skipped' = FALSE
  /\ beside' = (script.asks = "head" /\ b # written)
  /\ UNCHANGED <<script, written, chainEnd, todo, doing, row, troubles>>

\* deleteByToken, where there is one.
Clear ==
  /\ stage = "clear"
  /\ stage' = "walk"
  /\ row' = [i \in Item |-> IF i \in script.clears THEN Missing ELSE row[i]]
  /\ UNCHANGED <<script, written, chainEnd, walkVars, pastVars, skipped, beside, troubles>>

\* The last block of a range, as the loops compute it.
RangeEnd == IF from + RangeStep - 1 > until THEN until ELSE from + RangeStep - 1

\* All queries leave out the end of the range.
BugSearched(n) == script.walk # "ranges" \/ (from <= n /\ n < RangeEnd)

Searched(n) ==
  \/ script.walk # "ranges"
  \/ from <= n /\ n <= RangeEnd /\ (script.open => n # RangeEnd)

IsFound(i) ==
  CASE script.finds = "all"     -> script.clears # {} \/ i <= written
    [] script.finds = "stored"  -> row[i] # 0
    [] script.finds = "missing" -> row[i] = Missing /\ i \notin script.clears

Found ==
  { [item |-> p[1], seen |-> row[p[1]], at |-> p[2]] :
    p \in { q \in Item \X Num :
      /\ q[1] <= written /\ q[2] <= written
      /\ Searched(q[2])
      /\ IsFound(q[1])
      /\ IF ByEvents \/ script.write = "tally"
         THEN q[2] \in EventsOf(q[1], 0, LastNum)
         ELSE q[2] = q[1] } }

MoreToWalk == IF script.walk = "repeat" THEN Found # {} ELSE from < until

NextRange ==
  /\ stage = "walk" /\ todo = {} /\ doing = {}
  /\ MoreToWalk
  /\ todo' = Found
  /\ from' = IF script.walk = "ranges" THEN from + RangeStep ELSE until
  /\ UNCHANGED <<script, written, chainEnd, stage, until, doing, row, pastVars, skipped, beside,
                 troubles>>

EndScript ==
  /\ stage = "walk" /\ todo = {} /\ doing = {}
  /\ ~MoreToWalk
  /\ stage' = "done"
  /\ UNCHANGED <<script, written, chainEnd, walkVars, row, pastVars, skipped, beside, troubles>>

\* Events newest first.
BugIsNext(t) == t \in todo /\ \A u \in todo : t.at > u.at \/ (t.at = u.at /\ t.item <= u.item)

\* Events in the order of the chain, other items as they are found.
IsNext(t) ==
  /\ t \in todo
  /\ \A u \in todo : t.at < u.at \/ (t.at = u.at /\ t.item <= u.item)

\* What an account has gained in this range, event by event: the auditor is a new one in each, and
\* knows no token it has not seen arrive.
Gained(i) ==
  LET lo == from - RangeStep
      hi == Min({from - 1, until})
      Change(n) == RightAt(i, n) - (IF n = i THEN 0 ELSE RightAt(i, n - 1))
  IN MapThenFoldSet(LAMBDA change, held : Max({0, held + change}), 0, Change, Max, EventsOf(i, lo, hi))

ValueFor(t) ==
  CASE script.write = "tally"                       -> Gained(t.item)
    [] ByEvents                                     -> RightAt(t.item, t.at)
    [] script.mistakes /\ t.item \in Odd            -> RightAt(t.item, until) + Off
    [] script.asks = "head"                         -> RightAt(t.item, until)
    [] script.asks = "best"                         -> RightAt(t.item, chainEnd)
    [] OTHER                                        -> RightAt(t.item, written)

\* What is stored before the value is: the digests are deleted, or the first of two writes makes
\* the item look as if nothing were missing.
FirstWrite(i) ==
  CASE script.write = "replace" -> Missing
    [] script.write = "hide"    -> RightAt(i, written) + Off
    [] OTHER                    -> row[i]

\* The contract of an event is read when its turn comes.
Ask(t) ==
  /\ stage = "walk" /\ doing = {} /\ script.write # "insert"
  /\ IsNext(t)
  /\ todo' = todo \ {t}
  /\ doing' = { [item |-> t.item, at |-> t.at, value |-> ValueFor(t),
                 seen |-> IF ByEvents THEN row[t.item] ELSE t.seen] }
  /\ row' = [row EXCEPT ![t.item] = FirstWrite(t.item)]
  /\ beside' = (beside \/ (script.asks = "best" /\ chainEnd # written))
  /\ UNCHANGED <<script, written, chainEnd, stage, until, from, pastVars, skipped, troubles>>

\* An owner is only followed from the one before.
Writable(d) ==
  CASE script.write = "follow" -> d.seen \in {Missing, RightAt(d.item, d.at - 1)}
    [] script.keepsZero        -> d.seen # d.value /\ ~(d.value = 0 /\ d.item \in Odd)
    [] OTHER                   -> script.write # "set" \/ d.seen # d.value

SaveItem(d) ==
  /\ d \in doing
  /\ doing' = {}
  /\ row' = IF Writable(d) THEN [row EXCEPT ![d.item] = d.value] ELSE row
  /\ UNCHANGED <<script, written, chainEnd, stage, until, from, todo, pastVars, skipped, beside,
                 troubles>>

\* The rows of a range at once.  If one of them is there the database refuses it, and some of
\* the others get in.
InsertRange(S) ==
  LET items == { t.item : t \in todo }
      lacking == { i \in items : row[i] = Missing }
  IN /\ stage = "walk" /\ script.write = "insert" /\ todo # {}
     /\ S \subseteq lacking
     /\ lacking = items => S = items
     /\ row' = [i \in Item |-> IF i \in S THEN RightAt(i, written) ELSE row[i]]
     /\ todo' = {}
     /\ stage' = IF lacking = items THEN "walk" ELSE "failed"
     /\ UNCHANGED <<script, written, chainEnd, until, from, doing, pastVars, skipped, beside,
                    troubles>>

HasTrouble ==
  /\ troubles < Troubles
  /\ troubles' = troubles + 1
  /\ UNCHANGED <<script, written, chainEnd, until, from, row, pastVars, beside>>

\* An item is left as it is.
SkipItem(t) ==
  /\ stage = "walk" /\ doing = {} /\ "skip" \in script.fails
  /\ IsNext(t)
  /\ HasTrouble
  /\ todo' = todo \ {t}
  /\ skipped' = TRUE
  /\ UNCHANGED <<stage, doing>>

Stopped(s) ==
  /\ HasTrouble
  /\ stage' = s
  /\ todo' = {} /\ doing' = {}
  /\ skipped' = TRUE

AtItem == stage = "walk" /\ todo # {} /\ doing = {}

ScriptStops == AtItem /\ "stop" \in script.fails /\ Stopped("failed")

ScriptReturns == AtItem /\ "end" \in script.fails /\ Stopped("done")

ScriptCrash == Running /\ Stopped("failed")

\* A script may be run any number of times.
RunAgain ==
  /\ stage \in {"failed", "done"}
  /\ stage' = "off"
  /\ UNCHANGED <<script, written, chainEnd, walkVars, row, pastVars, skipped, beside, troubles>>
-----------------------------------------------------------------------------
\* How an item may be when the script is started: right, not there, off, or as it was at first.
Damaged(i, n) == {Missing, RightAt(i, n) + Off, RightAt(i, i)}

RepairInit ==
  /\ script \in RepairScripts
  /\ written \in { n \in Num : n < LastNum /\ n + 2 >= LastNum }
  /\ chainEnd = written
  /\ \/ row = [i \in Item |-> IF i <= written THEN Missing ELSE RightAt(i, written)]
     \/ \E i \in Item : \E v \in Damaged(i, written) :
          /\ i <= written
          /\ row = [[j \in Item |-> RightAt(j, written)] EXCEPT ![i] = v]
  /\ stage = "off" /\ until = 0 /\ from = 0 /\ todo = {} /\ doing = {}
  /\ begun = written /\ before = row
  /\ skipped = FALSE /\ beside = FALSE /\ troubles = 0

RepairNext ==
  \/ ChainEndMoves \/ ImportsNext
  \/ Clear \/ NextRange \/ EndScript \/ ScriptStops \/ ScriptReturns \/ ScriptCrash \/ RunAgain
  \/ \E b \in Num : BeginScript(b)
  \/ \E t \in todo : Ask(t) \/ SkipItem(t)
  \/ \E d \in doing : SaveItem(d)
  \/ \E S \in SUBSET Item : InsertRange(S)

RepairSpec == RepairInit /\ [][RepairNext]_repairVars
-----------------------------------------------------------------------------
\* A script looks at nothing it has not found, and works on one item at a time.
RepairTypeOK ==
  /\ script \in RepairScripts
  /\ written \in Num /\ chainEnd \in written..LastNum
  /\ stage \in {"off", "clear", "walk", "done", "failed"}
  /\ until \in Num /\ from \in 0..(LastNum + RangeStep)
  /\ \A t \in todo : t.item \in Item /\ t.at \in t.item..written /\ t.seen \in Int
  /\ \A d \in doing : d.item \in Item /\ d.at \in d.item..written /\ d.value \in Int
  /\ Cardinality(doing) <= 1
  /\ row \in [Item -> Int] /\ before \in [Item -> Int] /\ begun \in Num
  /\ skipped \in BOOLEAN /\ beside \in BOOLEAN /\ troubles \in 0..Troubles

\* The blocks a script looks at, once it has ended: not the one of the head, if a range would
\* start there, and not the last of a range, if the query is open.
LooksAt(n) ==
  script.walk = "ranges" =>
    /\ script.from <= n /\ n <= until
    /\ n = until => (until - script.from) % RangeStep # 0 /\ ~script.open
    /\ script.open => (n - script.from) % RangeStep # RangeStep - 1

\* All events of an item are in one range.
InOneRange(i) ==
  \A m, n \in EventsOf(i, 0, begun) : m \div RangeStep = n \div RangeStep

\* What an item is when it is as it should be: an owner is as of the head, since the import does
\* not follow it.
Goal(i) == RightAt(i, IF script.imported THEN written ELSE Max({begun, i}))

\* A script that can mend the item, as it was.
Mends(i) ==
  /\ i <= begun
  /\ IF ByEvents \/ script.write = "tally"
     THEN EventsOf(i, 0, begun) # {} /\ \A n \in EventsOf(i, 0, begun) : LooksAt(n)
     ELSE LooksAt(i)
  /\ script.write = "tally" => InOneRange(i)
  /\ script.write = "follow" => before[i] \in {Missing, RightAt(i, i), RightAt(i, begun)}
  /\ script.finds = "missing" => before[i] = Missing
  /\ script.finds = "stored" => before[i] # 0
  /\ script.keepsZero => ~(i \in Odd /\ RightAt(i, begun) = 0)
  /\ i \in Odd => ~script.mistakes /\ script.clears # Odd

\* The import has changed what the script works on, and that matters: amounts and settings of
\* another block are written, and what was deleted is not all written again.
Disturbed == beside /\ (script.kind # "fixed" \/ script.clears # {})

\* When a script has ended without leaving anything out, everything it can mend is right, unless
\* it works on amounts or settings and the import has moved beside it.
Repaired ==
  stage = "done" /\ ~skipped /\ ~Disturbed => \A i \in Item : Mends(i) => row[i] = Goal(i)

\* The item was right when the script began, or was imported after it.
Sound(i) == i > begun \/ before[i] = RightAt(i, begun)

\* What a script may spoil: items it deletes first, or that it saves in two steps, until it has
\* come round to them; what it tallies.
Spoils(i) ==
  \/ i \in script.clears /\ ~(stage = "done" /\ ~skipped /\ Mends(i))
  \/ script.write \in {"replace", "follow", "apply"} /\ stage # "done"
  \/ ByEvents /\ \E n \in EventsOf(i, 0, begun) : ~LooksAt(n)
  \/ script.write = "tally"

\* No script makes a right item wrong, whatever fails and wherever it stops, but for those named
\* in Spoils; one that fills in fields that do not change may run beside the import.
NoHarm == \A i \in Item : i <= written /\ Sound(i) /\ ~Disturbed /\ ~Spoils(i) => row[i] = Goal(i)

RepairsHold == Repaired /\ NoHarm
=============================================================================
