--------------------------- MODULE RepairsProofs ---------------------------
(***************************************************************************)
(* The repair scripts mend what they look at and make nothing worse, for   *)
(* every chain, every step width, every damage and every number of         *)
(* failures.  Behind a walk nothing is left: an item is either still ahead *)
(* of the script, or in its hands, or right.  Scripts that follow events   *)
(* are about the order of the events: between two of them an item is what  *)
(* the last one said.                                                      *)
(***************************************************************************)
EXTENDS Repairs, WellFoundedInduction, FiniteSetTheorems, TLAPS

\* What the proofs know of the scripts: which ways of looking, asking, writing and failing go together.
Sane(s) ==
  /\ s.walk \in {"ranges", "whole", "repeat"} /\ s.from \in Num
  /\ s.kind \in {"fixed", "amount", "setting"} /\ s.finds \in {"all", "stored", "missing"}
  /\ s.open \in BOOLEAN /\ s.imported \in BOOLEAN /\ s.keepsZero \in BOOLEAN /\ s.mistakes \in BOOLEAN
  /\ s.of \in {"pos", "nft", "fixed"} /\ s.asks \in {"rows", "head", "best"}
  /\ s.write \in {"set", "insert", "hide", "replace", "follow", "apply", "tally"}
  /\ s.clears \in {{}, Item, Odd}
  /\ s.walk # "ranges" => s.from = 0 /\ s.of = "pos" /\ s.write = "set" /\ s.clears = {}
  /\ s.walk = "repeat" => s.kind = "fixed" /\ s.finds = "missing"
  /\ s.write # "set" => ~s.keepsZero /\ ~s.mistakes /\ s.clears = {} /\ s.walk = "ranges"
  /\ s.write \in {"insert", "hide", "replace"} => s.kind = "fixed"
  /\ s.write \in {"insert", "replace"} => s.finds = "all"
  /\ s.write = "replace" => s.fails = {}
  /\ s.write = "hide" => s.finds = "missing"
  /\ s.write \in {"follow", "apply"} =>
       /\ s.kind = "setting" /\ s.from = 0 /\ ~s.open /\ s.of = "pos" /\ s.finds = "all"
       /\ s.fails = {"stop"} /\ s.asks = "rows"
  /\ s.write = "tally" =>
       /\ s.kind = "amount" /\ s.from = 0 /\ ~s.open /\ s.of = "pos" /\ s.finds = "all"
       /\ s.fails = {} /\ s.asks = "rows"
  /\ ~s.imported => s.write = "follow"
  /\ IF s.kind = "fixed" THEN s.asks = "rows" ELSE s.clears = {}
  /\ s.kind # "fixed" /\ s.write = "set" => s.asks \in {"head", "best"}
  /\ s.mistakes => s.clears = Item /\ s.asks = "rows"
  /\ s.finds = "missing" => s.clears \in {{}, Odd}
  /\ s.finds = "stored" => s.clears = {}

LEMMA ScriptFacts ==
  \A s \in RepairScripts : Sane(s)
  <1>1. /\ Sane(adjustERC1155Balance) /\ Sane(restoreNFTValue) /\ Sane(adjustBalances)
        /\ Sane(adjustTokenBalances) /\ Sane(restoreERC20Balance) /\ Sane(adjustTotalSupply)
        /\ Sane(restoreERC20TotalSupply) /\ Sane(correctCodeMatch) /\ Sane(fixNaNMovements)
        /\ Sane(fixInvalidMovements) /\ Sane(fixOwner) /\ Sane(restoreERC1967)
        /\ Sane(restoreERC1167) /\ Sane(restoreERC1155Images) /\ Sane(restoreNFTInfo)
        /\ Sane(mergeDuplicateTxDigest) /\ Sane(restoreTxDigest) /\ Sane(restoreTxIndex)
        /\ Sane(restoreERC1155) /\ Sane(restoreERC721) /\ Sane(restoreHoldings)
        /\ Sane(restoreSyscontract) /\ Sane(restoreCandidate) /\ Sane(restoreCodeHash)
        /\ Sane(restoreDeployStatus) /\ Sane(restoreInternalTxs) /\ Sane(restoreLogs)
        /\ Sane(restoreMovementCount) /\ Sane(restoreOutputs) /\ Sane(restoreRank)
        /\ Sane(restoreRelatedVerify) /\ Sane(restoreVerified) /\ Sane(restoreTraces)
        /\ Sane(restoreVMError) /\ Sane(restoreDomainName) /\ Sane(fillTokenInTxOutput)
        /\ Sane(fillPowBlocks)
    <2>. USE RepairAssumption
         DEF Sane, Num, Ranges, Whole, Open, Finds, Lacking, Amounts, Skips, Throws, Writes, Clears,
             OfNFTs, Late
    <2>1. Sane(adjustERC1155Balance)
      BY DEF adjustERC1155Balance
    <2>2. Sane(restoreNFTValue)
      BY DEF restoreNFTValue
    <2>3. Sane(adjustBalances)
      BY DEF adjustBalances
    <2>4. Sane(adjustTokenBalances)
      BY DEF adjustTokenBalances
    <2>5. Sane(restoreERC20Balance)
      BY DEF restoreERC20Balance
    <2>6. Sane(adjustTotalSupply)
      BY DEF adjustTotalSupply, adjustBalances
    <2>7. Sane(restoreERC20TotalSupply)
      BY DEF restoreERC20TotalSupply
    <2>8. Sane(correctCodeMatch)
      BY DEF correctCodeMatch
    <2>9. Sane(fixNaNMovements)
      BY DEF fixNaNMovements
    <2>10. Sane(fixInvalidMovements)
      BY DEF fixInvalidMovements
    <2>11. Sane(fixOwner)
      BY DEF fixOwner
    <2>12. Sane(restoreERC1967)
      BY DEF restoreERC1967
    <2>13. Sane(restoreERC1167)
      BY DEF restoreERC1167
    <2>14. Sane(restoreERC1155Images)
      BY DEF restoreERC1155Images
    <2>15. Sane(restoreNFTInfo)
      BY DEF restoreNFTInfo
    <2>16. Sane(mergeDuplicateTxDigest)
      BY DEF mergeDuplicateTxDigest
    <2>17. Sane(restoreTxDigest)
      BY DEF restoreTxDigest
    <2>18. Sane(restoreTxIndex)
      BY DEF restoreTxIndex
    <2>19. Sane(restoreERC1155)
      BY DEF restoreERC1155
    <2>20. Sane(restoreERC721)
      BY DEF restoreERC721
    <2>21. Sane(restoreHoldings)
      BY DEF restoreHoldings
    <2>22. Sane(restoreSyscontract)
      BY DEF restoreSyscontract
    <2>23. Sane(restoreCandidate)
      BY DEF restoreCandidate
    <2>24. Sane(restoreCodeHash)
      BY DEF restoreCodeHash
    <2>25. Sane(restoreDeployStatus)
      BY DEF restoreDeployStatus
    <2>26. Sane(restoreInternalTxs)
      BY DEF restoreInternalTxs
    <2>27. Sane(restoreLogs)
      BY DEF restoreLogs
    <2>28. Sane(restoreMovementCount)
      BY DEF restoreMovementCount
    <2>29. Sane(restoreOutputs)
      BY DEF restoreOutputs
    <2>30. Sane(restoreRank)
      BY DEF restoreRank
    <2>31. Sane(restoreRelatedVerify)
      BY DEF restoreRelatedVerify
    <2>32. Sane(restoreVerified)
      BY DEF restoreVerified
    <2>33. Sane(restoreTraces)
      BY DEF restoreTraces
    <2>34. Sane(restoreVMError)
      BY DEF restoreVMError
    <2>35. Sane(restoreDomainName)
      BY DEF restoreDomainName
    <2>36. Sane(fillTokenInTxOutput)
      BY DEF fillTokenInTxOutput
    <2>37. Sane(fillPowBlocks)
      BY DEF fillPowBlocks
    <2>. HIDE DEF Sane
    <2>. QED  BY <2>1, <2>2, <2>3, <2>4, <2>5, <2>6, <2>7, <2>8, <2>9, <2>10, <2>11, <2>12,
                 <2>13, <2>14, <2>15, <2>16, <2>17, <2>18, <2>19, <2>20, <2>21, <2>22, <2>23, <2>24,
                 <2>25, <2>26, <2>27, <2>28, <2>29, <2>30, <2>31, <2>32, <2>33, <2>34, <2>35, <2>36,
                 <2>37
  <1>. QED  BY <1>1 DEF RepairScripts
-----------------------------------------------------------------------------
\* Scripts that write items one by one, not what the events of an item say.
ByItems == script.write \notin {"follow", "apply", "tally"}

\* The script has begun, and is not known to have failed.
Under == stage \in {"clear", "walk", "done"}

\* Nothing is in the hands of a script that is not walking; it works on one item at a time.
RestInv ==
  /\ stage # "walk" => todo = {} /\ doing = {}
  /\ begun <= written
  /\ doing = {} \/ \E d \in doing : doing = {d}
  /\ script.write = "insert" => doing = {}
  /\ todo \subseteq [item : Item, seen : Int, at : Num]
  /\ doing \subseteq [item : Item, at : Num, value : Int, seen : Int]

\* How far the script and the import are, and that ranges begin at multiples of the step.
WalkInv ==
  /\ Under /\ script.of = "pos" => until = begun
  /\ Under /\ script.asks = "head" /\ ~beside => until = begun
  /\ Running /\ ~beside => written = begun
  /\ Under /\ script.walk = "ranges" => script.from <= from /\ (from - script.from) % RangeStep = 0
  /\ Under /\ script.walk # "ranges" => from \in {0, until}
  /\ stage = "clear" => from = script.from

\* The script has not come to the item.
Due(i) ==
  CASE script.walk = "ranges" -> from <= i
    [] script.walk = "whole"  -> from < until
    [] script.walk = "repeat" -> row[i] = Missing

\* Found, and not written yet.
InHand(i) == (\E t \in todo : t.item = i) \/ (\E d \in doing : d.item = i)

\* What a script that goes item by item has in hand is what it found; while nothing disturbs it, the
\* value it is about to save is right.
ItemInv ==
  ByItems /\ Running =>
    /\ \A t \in todo : t.at = t.item /\ (script.finds = "missing" => t.seen = Missing)
    /\ \A t, u \in todo : t.item = u.item => t = u
    /\ \A t \in todo, d \in doing : t.item # d.item
    /\ \A d \in doing : d.item <= written
    /\ script.walk # "repeat" => \A i \in Item : InHand(i) => ~Due(i)
    /\ ~Disturbed =>
         /\ \A t \in todo : t.seen = row[t.item]
         /\ \A d \in doing :
              /\ script.write = "set" => d.seen = row[d.item]
              /\ ~(script.mistakes /\ d.item \in Odd) => d.value = RightAt(d.item, written)

\* What the script has not come to is as it was.
Untouched(i) ==
  i <= begun /\ (stage = "clear" \/ (script.walk # "repeat" /\ Due(i) /\ i \notin script.clears))
    => row[i] = before[i]

\* Every item the script can mend is ahead, in hand, or right.
ProgressInv ==
  ByItems /\ Running /\ ~Disturbed =>
    \A i \in Item :
      /\ Untouched(i)
      /\ stage = "walk" /\ ~skipped /\ Mends(i) => Due(i) \/ InHand(i) \/ row[i] = Goal(i)

\* A sound item whose digest is deleted before it is saved: it is in hand or right.
ReplaceInv ==
  script.write = "replace" /\ Under =>
    \A i \in Item : i <= written /\ Sound(i) => row[i] = Goal(i) \/ \E d \in doing : d.item = i

\* The events of an item when the script began.
Known(i) == EventsOf(i, 0, begun)

\* An event the script has not written.
Waits(i, n) ==
  \/ from <= n
  \/ \E t \in todo : t.item = i /\ t.at = n
  \/ \E d \in doing : d.item = i /\ d.at = n

\* What the script that follows owners can bring forward.
FollowsOn(i) == script.write = "follow" => before[i] \in {Missing, RightAt(i, i), RightAt(i, begun)}

\* Where the script is between two events.
Between(i, n) == \A m \in Known(i) : m <= n <=> ~Waits(i, m)

\* The item is as the events up to n have made it, or as the last event of all will.
Carried(i, n) ==
  \/ row[i] \in {RightAt(i, n), RightAt(i, begun)}
  \/ row[i] = before[i] /\ \A m \in Known(i) : n < m

\* Events are written in the order of the chain, so that an item follows its own.
EventInv ==
  ByEvents /\ Running /\ ~Disturbed =>
    /\ \A t \in todo : t.at \in Known(t.item) /\ t.at < from
    /\ \A t, u \in todo : t.item = u.item /\ t.at = u.at => t = u
    /\ \A d \in doing :
         /\ d.at \in Known(d.item) /\ d.at < from
         /\ d.value = RightAt(d.item, d.at) /\ d.seen = row[d.item]
         /\ \A t \in todo : d.at <= t.at /\ (t.item = d.item => t.at # d.at)
    /\ \A i, j \in Item : \A n \in Known(i), m \in Known(j) : n < m /\ Waits(i, n) => Waits(j, m)
    /\ \A i \in Item : \A n \in 0..begun : i <= begun /\ FollowsOn(i) /\ Between(i, n) => Carried(i, n)

\* What can be tallied has an event ahead, or is in hand, or right.
TallyInv ==
  script.write = "tally" /\ Running /\ ~beside =>
    /\ \A t \in todo : t.at \in Known(t.item) /\ from <= t.at + RangeStep /\ t.at < from
    /\ \A d \in doing : Mends(d.item) => d.value = RightAt(d.item, begun)
    /\ \A i \in Item : Mends(i) =>
         (\E n \in Known(i) : from <= n) \/ InHand(i) \/ row[i] = RightAt(i, begun)

\* The inductive invariant.
Inv ==
  /\ RepairTypeOK /\ RestInv /\ WalkInv /\ ItemInv /\ ProgressInv /\ ReplaceInv /\ EventInv
  /\ TallyInv /\ RepairsHold
-----------------------------------------------------------------------------
(* The values items should have. *)

LEMMA SmallestIn ==
  ASSUME NEW S \in SUBSET Nat, S # {}
  PROVE  \E n \in S : \A m \in S : n <= m
  <1>. DEFINE Less == OpToRel(<, Nat)
  <1>1. \E x \in S : \A y \in S : <<y, x>> \notin Less
    <2>1. IsWellFoundedOn(Less, Nat)
      BY NatLessThanWellFounded
    <2>. HIDE DEF Less
    <2>. QED  BY <2>1, WFMin
  <1>2. PICK n \in S : \A m \in S : <<m, n>> \notin Less
    BY <1>1
  <1>3. \A m \in S : ~ (m < n)
    BY <1>2 DEF OpToRel
  <1>. QED  BY <1>3

LEMMA MaxOfTwo ==
  ASSUME NEW a \in Int, NEW b \in Int
  PROVE  Max({a, b}) = IF a < b THEN b ELSE a
  <1>. DEFINE m == IF a < b THEN b ELSE a
  <1>1. m \in {a, b} /\ \A y \in {a, b} : m >= y
    OBVIOUS
  <1>2. \A x \in {a, b} : (\A y \in {a, b} : x >= y) => x = m
    OBVIOUS
  <1>. HIDE DEF m
  <1>3. Max({a, b}) = m
    BY <1>1, <1>2 DEF Max
  <1>. QED  BY <1>3 DEF m

LEMMA ItemFact ==
  ASSUME NEW i \in Item
  PROVE  i \in Nat /\ 1 <= i /\ i <= LastNum /\ i \in Num /\ LastNum \in Nat
  BY RepairAssumption DEF Num

LEMMA RightFact ==
  ASSUME script \in RepairScripts, NEW i \in Item, NEW n \in Num
  PROVE  /\ RightAt(i, n) \in Int
         /\ n < i => RightAt(i, n) = Missing
         /\ i <= n => RightAt(i, n) \in Nat /\ RightAt(i, n) # Missing
         /\ i <= n /\ script.kind = "fixed" => RightAt(i, n) = 1
  <1>1. script.kind \in {"fixed", "amount", "setting"}
    BY ScriptFacts DEF Sane
  <1>2. n \in Int /\ i \in Int
    BY ItemFact DEF Num
  <1>3. Amount[i][n] \in Nat /\ Setting[i][n] \in Nat
    <2>1. Amount[i] \in [Num -> Nat] /\ Setting[i] \in [Num -> Nat]
      BY RepairAssumption
    <2>. QED  BY <2>1
  <1>4. CASE n < i
    BY <1>2, <1>4 DEF RightAt, Right, Missing
  <1>5. CASE i <= n
    <2>1. ~ (n < i)
      BY <1>2, <1>5
    <2>2. CASE script.kind = "fixed"
      BY <2>1, <2>2 DEF RightAt, Right, Missing
    <2>3. CASE script.kind = "amount"
      BY <2>1, <2>3, <1>3 DEF RightAt, Right, Missing
    <2>4. CASE script.kind = "setting"
      BY <2>1, <2>4, <1>3 DEF RightAt, Right, Missing
    <2>. QED  BY <1>1, <2>1, <2>2, <2>3, <2>4
  <1>. QED  BY <1>2, <1>4, <1>5

\* The events a script follows.
LEMMA EventFact ==
  ASSUME script.write # "tally", NEW i \in Item, NEW b \in Num, NEW n
  PROVE  n \in EventsOf(i, 0, b) <=> n \in 0..b /\ i < n /\ RightAt(i, n) # RightAt(i, n - 1)
  <1>1. i \in Int /\ b \in Int
    BY ItemFact DEF Num
  <1>. QED  BY <1>1 DEF EventsOf, Changes

\* Nothing changes between two events.
LEMMA NoEvent ==
  ASSUME script.write # "tally", script \in RepairScripts, NEW i \in Item, NEW b \in Num,
         NEW e \in Num, NEW n \in e..b, i <= e, \A m \in EventsOf(i, 0, b) : ~ (e < m /\ m <= n)
  PROVE  RightAt(i, n) = RightAt(i, e)
  <1>. DEFINE S == { m \in e..n : RightAt(i, m) # RightAt(i, e) }
  <1>0. e \in Nat /\ b \in Nat /\ n \in Nat /\ e <= n /\ n <= b /\ i \in Nat
    BY ItemFact DEF Num
  <1>1. SUFFICES ASSUME S # {} PROVE FALSE
    BY <1>0
  <1>2. PICK k \in S : \A m \in S : k <= m
    <2>1. S \in SUBSET Nat
      BY <1>0
    <2>. HIDE DEF S
    <2>. QED  BY <1>1, <2>1, SmallestIn
  <1>3. k \in e..n /\ RightAt(i, k) # RightAt(i, e) /\ k # e
    BY <1>2
  <1>4. k - 1 \in e..n /\ ~ (k <= k - 1)
    BY <1>0, <1>3
  <1>5. RightAt(i, k - 1) = RightAt(i, e)
    BY <1>2, <1>4
  <1>6. k \in 0..b /\ i < k /\ e < k /\ k <= n
    BY <1>0, <1>3
  <1>7. k \in EventsOf(i, 0, b)
    BY <1>3, <1>5, <1>6, EventFact
  <1>. QED  BY <1>6, <1>7
-----------------------------------------------------------------------------
(* What a script that tallies gains, event by event. *)

Change(i, n) == RightAt(i, n) - (IF n = i THEN 0 ELSE RightAt(i, n - 1))

\* What the fold does to a set of events: the last one comes last.
Keeps(g, i, s) == g[s] = IF s = {} THEN 0 ELSE Max({0, g[s \ {Max(s)}] + Change(i, Max(s))})

UpTo(S, m) == { x \in S : x <= m }

\* Induction, over a set of numbers.
LEMMA NaturalsAll ==
  ASSUME NEW T \in SUBSET Nat, 0 \in T, \A n \in T : n + 1 \in T
  PROVE  T = Nat
  <1>. DEFINE U == Nat \ T
  <1>. SUFFICES ASSUME U # {} PROVE FALSE
    OBVIOUS
  <1>1. PICK n \in U : \A m \in U : n <= m
    <2>1. U \in SUBSET Nat
      OBVIOUS
    <2>. HIDE DEF U
    <2>. QED  BY <2>1, SmallestIn
  <1>2. n \in Nat /\ n \notin T /\ n # 0
    OBVIOUS
  <1>3. n - 1 \in Nat /\ (n - 1) + 1 = n /\ ~(n <= n - 1)
    BY <1>2
  <1>4. n - 1 \notin T
    BY <1>2, <1>3
  <1>5. n - 1 \in U
    BY <1>3, <1>4
  <1>. QED  BY <1>1, <1>3, <1>5

LEMMA LargestIn ==
  ASSUME NEW S \in SUBSET Nat, S # {}, NEW b \in Nat, \A x \in S : x <= b
  PROVE  Max(S) \in S /\ \A x \in S : x <= Max(S)
  <1>. DEFINE U == { b - x : x \in S }
  <1>1. PICK u \in U : \A v \in U : u <= v
    <2>1. \A x \in S : b - x \in Nat
      OBVIOUS
    <2>2. U \in SUBSET Nat /\ U # {}
      BY <2>1
    <2>. HIDE DEF U
    <2>. QED  BY <2>2, SmallestIn
  <1>2. PICK n \in S : u = b - n
    BY <1>1
  <1>3. \A x \in S : n >= x
    <2>. SUFFICES ASSUME NEW x \in S PROVE n >= x
      OBVIOUS
    <2>1. b - x \in U
      OBVIOUS
    <2>2. b - n <= b - x
      BY <1>1, <1>2, <2>1
    <2>. QED  BY <2>2
  <1>4. Max(S) \in S /\ \A x \in S : Max(S) >= x
    BY <1>3 DEF Max
  <1>. QED  BY <1>4

LEMMA NextUpTo ==
  ASSUME NEW S \in SUBSET Nat, NEW m \in Nat
  PROVE  /\ m + 1 \notin S => UpTo(S, m + 1) = UpTo(S, m)
         /\ m + 1 \in S => /\ UpTo(S, m + 1) # {} /\ Max(UpTo(S, m + 1)) = m + 1
                           /\ UpTo(S, m + 1) \ {m + 1} = UpTo(S, m)
  <1>0. \A x \in S : x \in Nat /\ (x <= m + 1 <=> x <= m \/ x = m + 1) /\ (x = m + 1 => ~(x <= m))
    OBVIOUS
  <1>1. m + 1 \notin S => UpTo(S, m + 1) = UpTo(S, m)
    BY <1>0 DEF UpTo
  <1>2. ASSUME m + 1 \in S
        PROVE  /\ UpTo(S, m + 1) # {} /\ Max(UpTo(S, m + 1)) = m + 1
               /\ UpTo(S, m + 1) \ {m + 1} = UpTo(S, m)
    <2>1. /\ UpTo(S, m + 1) \in SUBSET Nat /\ m + 1 \in UpTo(S, m + 1)
          /\ \A x \in UpTo(S, m + 1) : x <= m + 1
      BY <1>0, <1>2 DEF UpTo
    <2>2. Max(UpTo(S, m + 1)) \in UpTo(S, m + 1) /\ \A x \in UpTo(S, m + 1) : x <= Max(UpTo(S, m + 1))
      BY <2>1, LargestIn
    <2>3. Max(UpTo(S, m + 1)) = m + 1
      BY <2>1, <2>2
    <2>4. UpTo(S, m + 1) \ {m + 1} = UpTo(S, m)
      BY <1>0 DEF UpTo
    <2>. QED  BY <2>1, <2>3, <2>4
  <1>. QED  BY <1>1, <1>2

LEMMA ChangeInt ==
  ASSUME script \in RepairScripts, NEW i \in Item, NEW n \in i..LastNum
  PROVE  /\ Change(i, n) \in Int
         /\ n = i => Change(i, n) = RightAt(i, n)
         /\ n # i => n - 1 \in i..LastNum /\ Change(i, n) = RightAt(i, n) - RightAt(i, n - 1)
  <1>1. i \in Nat /\ 1 <= i /\ LastNum \in Nat
    BY ItemFact
  <1>2. n \in Num /\ n - 1 \in Num
    BY <1>1 DEF Num
  <1>3. RightAt(i, n) \in Int /\ RightAt(i, n - 1) \in Int
    BY <1>2, RightFact
  <1>. QED  BY <1>1, <1>3 DEF Change

LEMMA MaxWithZero ==
  ASSUME NEW x \in Int
  PROVE  Max({0, x}) \in Nat /\ (x \in Nat => Max({0, x}) = x)
  <1>1. Max({0, x}) = IF 0 < x THEN x ELSE 0
    BY MaxOfTwo
  <1>. QED  BY <1>1

\* The function the library's definition chooses exists.
LEMMA FoldExists ==
  ASSUME script \in RepairScripts, NEW i \in Item, NEW S \in SUBSET (i..LastNum)
  PROVE  \E g : g = [s \in SUBSET S |->
                       IF s = {} THEN 0 ELSE Max({0, g[s \ {Max(s)}] + Change(i, Max(s))})]
  <1>. DEFINE Below(n) == SUBSET UpTo(S, n)
              T == { n \in Nat : \E g \in [Below(n) -> Nat] : \A s \in Below(n) : Keeps(g, i, s) }
  <1>0. S \in SUBSET Nat /\ LastNum \in Nat /\ i \in Nat /\ 1 <= i
    BY ItemFact
  <1>1. 0 \in T
    <2>. DEFINE g == [s \in Below(0) |-> 0]
    <2>1. \A s \in Below(0) : s = {}
      BY <1>0 DEF UpTo
    <2>2. g \in [Below(0) -> Nat] /\ \A s \in Below(0) : Keeps(g, i, s)
      BY <2>1 DEF Keeps
    <2>. QED  BY <2>2
  <1>2. ASSUME NEW n \in T PROVE n + 1 \in T
    <2>0. n \in Nat
      OBVIOUS
    <2>1. PICK g \in [Below(n) -> Nat] : \A s \in Below(n) : Keeps(g, i, s)
      OBVIOUS
    <2>. DEFINE h == [s \in Below(n + 1) |->
                        IF s = {} THEN 0 ELSE Max({0, g[s \ {Max(s)}] + Change(i, Max(s))})]
    <2>2. ASSUME NEW s \in Below(n + 1), s # {}
          PROVE  Max(s) \in i..LastNum /\ s \ {Max(s)} \in Below(n)
      <3>1. s \in SUBSET Nat /\ n + 1 \in Nat /\ \A x \in s : x <= n + 1 /\ x \in S
        BY <1>0, <2>0 DEF UpTo
      <3>2. Max(s) \in s /\ \A x \in s : x <= Max(s)
        BY <2>2, <3>1, LargestIn
      <3>3. \A x \in s \ {Max(s)} : x <= n /\ x \in S
        <4>. SUFFICES ASSUME NEW x \in s, x # Max(s) PROVE x <= n /\ x \in S
          OBVIOUS
        <4>1. x \in Nat /\ Max(s) \in Nat /\ x <= Max(s) /\ Max(s) <= n + 1 /\ x \in S
          BY <3>1, <3>2
        <4>. QED  BY <2>0, <4>1
      <3>. QED  BY <3>1, <3>2, <3>3 DEF UpTo
    <2>3. h \in [Below(n + 1) -> Nat]
      <3>. SUFFICES ASSUME NEW s \in Below(n + 1), s # {}
                    PROVE  Max({0, g[s \ {Max(s)}] + Change(i, Max(s))}) \in Nat
        OBVIOUS
      <3>1. g[s \ {Max(s)}] \in Nat
        BY <2>2
      <3>2. \A k \in i..LastNum : Change(i, k) \in Int
        BY ChangeInt
      <3>3. Change(i, Max(s)) \in Int
        BY <2>2, <3>2
      <3>4. g[s \ {Max(s)}] + Change(i, Max(s)) \in Int
        BY <3>1, <3>3
      <3>. QED  BY <3>4, MaxWithZero
    <2>4. ASSUME NEW s \in Below(n) PROVE h[s] = g[s]
      <3>1. s \in Below(n + 1)
        BY <1>0, <2>0 DEF UpTo
      <3>. QED  BY <2>1, <3>1 DEF Keeps
    <2>5. ASSUME NEW s \in Below(n + 1) PROVE Keeps(h, i, s)
      <3>1. s # {} => h[s \ {Max(s)}] = g[s \ {Max(s)}]
        BY <2>2, <2>4
      <3>2. h[s] = IF s = {} THEN 0 ELSE Max({0, g[s \ {Max(s)}] + Change(i, Max(s))})
        OBVIOUS
      <3>. HIDE DEF h
      <3>. QED  BY <3>1, <3>2 DEF Keeps
    <2>. HIDE DEF h
    <2>. QED  BY <2>0, <2>3, <2>5
  <1>3. T = Nat
    <2>1. T \in SUBSET Nat
      OBVIOUS
    <2>. HIDE DEF T
    <2>. QED  BY <1>1, <1>2, <2>1, NaturalsAll
  <1>4. PICK g \in [Below(LastNum) -> Nat] : \A s \in Below(LastNum) : Keeps(g, i, s)
    BY <1>0, <1>3
  <1>5. Below(LastNum) = SUBSET S
    <2>1. \A x \in S : x <= LastNum
      BY <1>0
    <2>. QED  BY <2>1 DEF UpTo
  <1>6. g = [s \in SUBSET S |-> IF s = {} THEN 0 ELSE Max({0, g[s \ {Max(s)}] + Change(i, Max(s))})]
    BY <1>4, <1>5 DEF Keeps
  <1>. QED  BY <1>6

\* The events of the range behind the script.
InRange(i) == EventsOf(i, from - RangeStep, Min({from - 1, until}))

LEMMA GainedFold ==
  ASSUME script \in RepairScripts, NEW i \in Item, InRange(i) \in SUBSET (i..LastNum)
  PROVE  \E g : Gained(i) = g[InRange(i)] /\ \A s \in SUBSET InRange(i) : Keeps(g, i, s)
  <1>. DEFINE S == InRange(i)
              Def(g) == g = [s \in SUBSET S |->
                               IF s = {} THEN 0 ELSE Max({0, g[s \ {Max(s)}] + Change(i, Max(s))})]
              g == CHOOSE f : Def(f)
  <1>1. Gained(i) = g[S]
    BY DEF Gained, MapThenFoldSet, Change, InRange
  <1>2. Def(g)
    <2>1. \E f : Def(f)
      BY FoldExists
    <2>. HIDE DEF Def
    <2>. QED  BY <2>1
  <1>. HIDE DEF g
  <1>3. \A s \in SUBSET S : Keeps(g, i, s)
    BY <1>2 DEF Keeps
  <1>. QED  BY <1>1, <1>3

\* A script holds a number at any time, and what is right then if no event is missing.
LEMMA HeldSoFar ==
  ASSUME script \in RepairScripts, NEW i \in Item, NEW S \in SUBSET (i..LastNum),
         NEW g, \A s \in SUBSET S : Keeps(g, i, s)
  PROVE  \A m \in Nat : /\ g[UpTo(S, m)] \in Nat
                        /\ m \in Num /\ S \cap (0..m) = Changes(i, 0, m) =>
                             g[UpTo(S, m)] = IF m < i THEN 0 ELSE RightAt(i, m)
  <1>. DEFINE Full(m) == m \in Num /\ S \cap (0..m) = Changes(i, 0, m)
              T == { m \in Nat : /\ g[UpTo(S, m)] \in Nat
                                 /\ Full(m) => g[UpTo(S, m)] = IF m < i THEN 0 ELSE RightAt(i, m) }
  <1>0. S \in SUBSET Nat /\ LastNum \in Nat /\ i \in Nat /\ 1 <= i
    BY ItemFact
  <1>1. 0 \in T
    <2>1. UpTo(S, 0) = {}
      <3>1. \A x \in S : ~(x <= 0)
        BY <1>0
      <3>. QED  BY <3>1 DEF UpTo
    <2>2. Keeps(g, i, {})
      OBVIOUS
    <2>3. g[{}] = 0
      BY <2>2 DEF Keeps
    <2>. QED  BY <1>0, <2>1, <2>3
  <1>2. ASSUME NEW m \in T PROVE m + 1 \in T
    <2>. DEFINE n == m + 1
                held == g[UpTo(S, m)]
    <2>0. m \in Nat /\ n \in Nat /\ n - 1 = m
      OBVIOUS
    <2>1. held \in Nat
      OBVIOUS
    <2>2. ASSUME Full(n) PROVE Full(m) /\ n \in Num /\ (n \in S <=> n \in Changes(i, 0, n))
      <3>1. n \in Num /\ m \in Num
        BY <1>0, <2>0, <2>2 DEF Num
      <3>2. Changes(i, 0, m) = Changes(i, 0, n) \cap (0..m)
        BY <2>0 DEF Changes
      <3>3. S \cap (0..m) = (S \cap (0..n)) \cap (0..m)
        BY <2>0
      <3>. QED  BY <2>0, <2>2, <3>1, <3>2, <3>3 DEF Changes
    <2>3. Full(m) => held = IF m < i THEN 0 ELSE RightAt(i, m)
      OBVIOUS
    <2>4. n \in Changes(i, 0, n) <=> i <= n /\ (n = i \/ RightAt(i, n) # RightAt(i, m))
      BY <1>0, <2>0 DEF Changes
    <2>5. n \in Num /\ i <= n => RightAt(i, n) \in Nat
      BY RightFact
    <2>6. CASE n \notin S
      <3>1. UpTo(S, n) = UpTo(S, m)
        BY <1>0, <2>0, <2>6, NextUpTo
      <3>2. ASSUME Full(n) PROVE held = IF n < i THEN 0 ELSE RightAt(i, n)
        <4>1. Full(m) /\ ~(i <= n /\ (n = i \/ RightAt(i, n) # RightAt(i, m)))
          BY <2>2, <2>4, <2>6, <3>2
        <4>. HIDE DEF Full, held
        <4>. QED  BY <1>0, <2>0, <2>3, <4>1
      <3>. HIDE DEF Full
      <3>. QED  BY <2>0, <2>1, <3>1, <3>2
    <2>7. CASE n \in S
      <3>1. UpTo(S, n) # {} /\ Max(UpTo(S, n)) = n /\ UpTo(S, n) \ {n} = UpTo(S, m)
        BY <1>0, <2>0, <2>7, NextUpTo
      <3>2. Keeps(g, i, UpTo(S, n))
        BY DEF UpTo
      <3>3. g[UpTo(S, n)] = Max({0, held + Change(i, n)})
        BY <3>1, <3>2 DEF Keeps
      <3>4. /\ Change(i, n) \in Int /\ n \in i..LastNum
            /\ n = i => Change(i, n) = RightAt(i, n)
            /\ n # i => Change(i, n) = RightAt(i, n) - RightAt(i, m)
        BY <2>0, <2>7, ChangeInt
      <3>5. g[UpTo(S, n)] \in Nat
        BY <2>1, <3>3, <3>4, MaxWithZero
      <3>6. ASSUME Full(n) PROVE g[UpTo(S, n)] = IF n < i THEN 0 ELSE RightAt(i, n)
        <4>1. Full(m) /\ RightAt(i, n) \in Nat
          BY <2>2, <2>5, <3>4, <3>6
        <4>2. held + Change(i, n) = RightAt(i, n)
          <5>1. CASE n = i
            <6>1. held = 0
              BY <1>0, <2>0, <2>3, <4>1, <5>1
            <6>. QED  BY <3>4, <4>1, <5>1, <6>1
          <5>2. CASE n # i
            <6>1. held = RightAt(i, m)
              BY <1>0, <2>0, <2>3, <3>4, <4>1, <5>2
            <6>. QED  BY <2>1, <3>4, <4>1, <5>2, <6>1
          <5>. QED  BY <5>1, <5>2
        <4>3. g[UpTo(S, n)] = RightAt(i, n)
          BY <3>3, <4>1, <4>2, MaxWithZero
        <4>. QED  BY <1>0, <3>4, <4>3
      <3>. HIDE DEF Full
      <3>. QED  BY <2>0, <3>5, <3>6
    <2>. QED  BY <2>6, <2>7
  <1>3. T = Nat
    <2>1. T \in SUBSET Nat
      OBVIOUS
    <2>. HIDE DEF T
    <2>. QED  BY <1>1, <1>2, <2>1, NaturalsAll
  <1>. QED  BY <1>3

LEMMA InRangeFact ==
  ASSUME RepairTypeOK, NEW i \in Item
  PROVE  /\ InRange(i) \in SUBSET (i..LastNum) /\ UpTo(InRange(i), LastNum) = InRange(i)
         /\ script.write = "tally" => \A n : n \in InRange(i) <=> /\ n \in Changes(i, 0, until)
                                                                   /\ from <= n + RangeStep
                                                                   /\ n < from
  <1>1. i \in Nat /\ 1 <= i /\ LastNum \in Nat /\ from \in Nat /\ until \in 0..LastNum /\ RangeStep \in Nat
    BY ItemFact, RepairAssumption DEF RepairTypeOK, Num
  <1>. DEFINE hi == Min({from - 1, until})
  <1>2. hi = IF from - 1 < until THEN from - 1 ELSE until
    <2>1. from - 1 \in Int /\ until \in Int
      BY <1>1
    <2>. DEFINE m == IF from - 1 < until THEN from - 1 ELSE until
    <2>2. m \in {from - 1, until} /\ \A y \in {from - 1, until} : m <= y
      BY <2>1
    <2>3. \A x \in {from - 1, until} : (\A y \in {from - 1, until} : x <= y) => x = m
      BY <2>1
    <2>. HIDE DEF m
    <2>4. hi = m
      BY <2>2, <2>3 DEF Min
    <2>. QED  BY <2>4 DEF m
  <1>. HIDE DEF hi
  <1>3. \A n : n \in Changes(i, from - RangeStep, hi) <=>
                 n \in Changes(i, 0, until) /\ from <= n + RangeStep /\ n < from
    BY <1>1, <1>2 DEF Changes
  <1>4. InRange(i) \subseteq Changes(i, from - RangeStep, hi)
        /\ (script.write = "tally" => InRange(i) = Changes(i, from - RangeStep, hi))
    BY DEF InRange, EventsOf, hi
  <1>5. Changes(i, from - RangeStep, hi) \subseteq i..LastNum
    BY <1>1, <1>2 DEF Changes
  <1>. QED  BY <1>1, <1>3, <1>4, <1>5 DEF UpTo

LEMMA GainedInt ==
  ASSUME RepairTypeOK, NEW i \in Item
  PROVE  Gained(i) \in Nat
  <1>1. script \in RepairScripts /\ LastNum \in Nat
    BY RepairAssumption DEF RepairTypeOK
  <1>2. InRange(i) \in SUBSET (i..LastNum) /\ UpTo(InRange(i), LastNum) = InRange(i)
    BY InRangeFact
  <1>3. PICK g : Gained(i) = g[InRange(i)] /\ \A s \in SUBSET InRange(i) : Keeps(g, i, s)
    BY <1>1, <1>2, GainedFold
  <1>4. g[UpTo(InRange(i), LastNum)] \in Nat
    BY <1>1, <1>2, <1>3, HeldSoFar
  <1>. QED  BY <1>2, <1>3, <1>4

\* If all events are in one range.
LEMMA GainedRight ==
  ASSUME RepairTypeOK, script.write = "tally", NEW i \in Item, i <= until,
         InRange(i) = Changes(i, 0, until)
  PROVE  Gained(i) = RightAt(i, until)
  <1>1. script \in RepairScripts /\ until \in Num /\ until \in Nat /\ i \in Nat
    BY ItemFact, RepairAssumption DEF RepairTypeOK, Num
  <1>2. InRange(i) \in SUBSET (i..LastNum)
    BY InRangeFact
  <1>3. PICK g : Gained(i) = g[InRange(i)] /\ \A s \in SUBSET InRange(i) : Keeps(g, i, s)
    BY <1>1, <1>2, GainedFold
  <1>4. UpTo(InRange(i), until) = InRange(i) /\ InRange(i) \cap (0..until) = Changes(i, 0, until)
    BY <1>1 DEF UpTo, Changes
  <1>5. g[UpTo(InRange(i), until)] = IF until < i THEN 0 ELSE RightAt(i, until)
    BY <1>1, <1>2, <1>3, <1>4, HeldSoFar
  <1>. QED  BY <1>1, <1>3, <1>4, <1>5
-----------------------------------------------------------------------------
(* Type correctness. *)

LEMMA FoundFact ==
  ASSUME NEW t \in Found
  PROVE  /\ t = [item |-> t.item, seen |-> row[t.item], at |-> t.at]
         /\ t.item \in Item /\ t.at \in Num /\ t.seen = row[t.item]
         /\ t.item <= written /\ t.at <= written
         /\ Searched(t.at) /\ IsFound(t.item)
         /\ IF ByEvents \/ script.write = "tally"
            THEN t.at \in EventsOf(t.item, 0, LastNum)
            ELSE t.at = t.item
  BY DEF Found

LEMMA IsFoundIn ==
  ASSUME NEW i \in Item, NEW n \in Num, i <= written, n <= written, Searched(n), IsFound(i),
         IF ByEvents \/ script.write = "tally" THEN n \in EventsOf(i, 0, LastNum) ELSE n = i
  PROVE  [item |-> i, seen |-> row[i], at |-> n] \in Found
  <1>. DEFINE p == <<i, n>>
  <1>1. p \in Item \X Num /\ p[1] = i /\ p[2] = n
    OBVIOUS
  <1>. HIDE DEF p
  <1>. QED  BY <1>1 DEF Found

LEMMA ValueFact ==
  ASSUME RepairTypeOK, RestInv, NEW t \in todo
  PROVE  /\ t.item \in Item /\ t.at \in Num /\ t.seen \in Int /\ t.at \in t.item..written
         /\ written \in Num /\ chainEnd \in Num /\ until \in Num
         /\ ValueFor(t) \in Int
         /\ ByEvents => ValueFor(t) = RightAt(t.item, t.at)
         /\ script.write = "tally" => ValueFor(t) = Gained(t.item)
         /\ ~ByEvents /\ script.kind = "fixed" /\ ~(script.mistakes /\ t.item \in Odd) =>
              ValueFor(t) = RightAt(t.item, written)
         /\ script.kind # "fixed" /\ ByItems =>
              \/ script.asks = "head" /\ ValueFor(t) = RightAt(t.item, until)
              \/ script.asks = "best" /\ ValueFor(t) = RightAt(t.item, chainEnd)
  <1>1. t.item \in Item /\ t.at \in Num /\ t.seen \in Int /\ t.at \in t.item..written
    BY DEF RestInv, RepairTypeOK
  <1>2. written \in Num /\ chainEnd \in Num /\ until \in Num
    BY RepairAssumption DEF RepairTypeOK, Num
  <1>3. /\ RightAt(t.item, t.at) \in Int /\ RightAt(t.item, until) \in Int
        /\ RightAt(t.item, chainEnd) \in Int /\ RightAt(t.item, written) \in Int
        /\ RightAt(t.item, until) + Off \in Int
    BY <1>1, <1>2, RightFact DEF RepairTypeOK, Off
  <1>4. Sane(script)
    BY ScriptFacts DEF RepairTypeOK
  <1>8. CASE script.write = "tally"
    <2>1. ValueFor(t) = Gained(t.item) /\ Gained(t.item) \in Nat
      <3>1. ~script.mistakes /\ script.asks = "rows" /\ ~ByEvents
        BY <1>4, <1>8 DEF Sane, ByEvents
      <3>. QED  BY <1>1, <1>8, <3>1, GainedInt DEF ValueFor
    <2>2. ~ByEvents /\ ~ByItems /\ script.kind # "fixed"
      BY <1>4, <1>8 DEF Sane, ByEvents, ByItems
    <2>. QED  BY <1>1, <1>2, <2>1, <2>2
  <1>5. CASE ByEvents
    <2>1. ~script.mistakes /\ script.asks = "rows"
      BY <1>4, <1>5 DEF Sane, ByEvents
    <2>3. script.write # "tally" /\ ~ByItems
      BY <1>5 DEF ByEvents, ByItems
    <2>2. ValueFor(t) = RightAt(t.item, t.at)
      BY <1>5, <2>1, <2>3 DEF ValueFor
    <2>. QED  BY <1>1, <1>2, <1>3, <1>5, <2>2, <2>3
  <1>6. CASE ByItems /\ script.mistakes /\ t.item \in Odd
    <2>0. script.write # "tally" /\ ~ByEvents
      BY <1>6 DEF ByItems, ByEvents
    <2>1. ValueFor(t) = RightAt(t.item, until) + Off
      <3>1. script.asks = "rows"
        BY <1>4, <1>6 DEF Sane
      <3>. QED  BY <1>6, <2>0, <3>1 DEF ValueFor
    <2>2. script.kind = "fixed"
      BY <1>4, <1>1, <1>6 DEF Sane
    <2>. QED  BY <1>1, <1>2, <1>3, <1>6, <2>0, <2>1, <2>2
  <1>7. CASE ByItems /\ ~(script.mistakes /\ t.item \in Odd)
    <2>0. script.write # "tally" /\ ~ByEvents
      BY <1>7 DEF ByItems, ByEvents
    <2>1. script.kind = "fixed" => script.asks = "rows"
      BY <1>4 DEF Sane
    <2>2. CASE script.asks = "head"
      BY <1>1, <1>2, <1>3, <1>7, <2>0, <2>1, <2>2 DEF ValueFor
    <2>3. CASE script.asks = "best"
      BY <1>1, <1>2, <1>3, <1>7, <2>0, <2>1, <2>3 DEF ValueFor
    <2>4. CASE script.asks \notin {"head", "best"}
      <3>1. ValueFor(t) = RightAt(t.item, written)
        BY <1>7, <2>0, <2>4 DEF ValueFor
      <3>2. script.kind = "fixed"
        BY <1>4, <1>7, <2>4 DEF Sane, ByItems
      <3>. QED  BY <1>1, <1>2, <1>3, <1>7, <2>0, <3>1, <3>2
    <2>. QED  BY <2>2, <2>3, <2>4
  <1>. QED  BY <1>5, <1>6, <1>7, <1>8 DEF ByItems, ByEvents

LEMMA ConstantFact ==
  /\ LastNum \in Nat /\ RangeStep \in Nat \ {0} /\ RangeStep >= 1 /\ Troubles \in Nat
  /\ Num = 0..LastNum /\ LateStart \in Num /\ Num \subseteq Nat
  BY RepairAssumption DEF Num

LEMMA ImportedInt ==
  ASSUME RepairTypeOK, NEW i \in Item, written + 1 \in Num
  PROVE  Imported(i, written + 1) \in Int
  <1>. DEFINE n == written + 1
  <1>1. n \in Num /\ n - 1 \in Num /\ i \in Int /\ row[i] \in Int
    BY ConstantFact, ItemFact DEF RepairTypeOK
  <1>2. script \in RepairScripts
    BY DEF RepairTypeOK
  <1>3. RightAt(i, n) \in Int /\ RightAt(i, n - 1) \in Int
    BY <1>1, <1>2, RightFact
  <1>. HIDE DEF n
  <1>4. Imported(i, n) \in Int
    BY <1>1, <1>3 DEF Imported
  <1>. QED  BY <1>4 DEF n

LEMMA TypeInit ==
  ASSUME RepairInit
  PROVE  RepairTypeOK /\ RestInv
  <1>1. script \in RepairScripts /\ written \in Num
    BY DEF RepairInit
  <1>2. \A i \in Item : \A n \in Num : RightAt(i, n) \in Int
    BY <1>1, RightFact
  <1>3. \A i \in Item : \A v \in Damaged(i, written) : v \in Int
    <2>. SUFFICES ASSUME NEW i \in Item, NEW v \in Damaged(i, written) PROVE v \in Int
      OBVIOUS
    <2>1. RightAt(i, written) \in Int /\ RightAt(i, i) \in Int
      BY <1>1, <1>2, ItemFact
    <2>. QED  BY <2>1 DEF Damaged, Off, Missing
  <1>4. row \in [Item -> Int]
    <2>1. CASE row = [i \in Item |-> IF i <= written THEN Missing ELSE RightAt(i, written)]
      BY <1>1, <1>2, <2>1 DEF Missing
    <2>2. CASE \E i \in Item : \E v \in Damaged(i, written) :
                 row = [[j \in Item |-> RightAt(j, written)] EXCEPT ![i] = v]
      BY <1>1, <1>2, <1>3, <2>2
    <2>. QED  BY <2>1, <2>2 DEF RepairInit
  <1>5. Cardinality({}) = 0
    BY FS_EmptySet
  <1>6. chainEnd \in written..LastNum /\ until \in Num /\ from \in 0..(LastNum + RangeStep) /\ troubles \in 0..Troubles
    BY <1>1, ConstantFact DEF RepairInit
  <1>7. /\ stage = "off" /\ todo = {} /\ doing = {} /\ begun = written /\ before = row
        /\ skipped = FALSE /\ beside = FALSE
    BY DEF RepairInit
  <1>8. RepairTypeOK
    <2>1. Cardinality(doing) <= 1 /\ before \in [Item -> Int] /\ begun \in Num
      BY <1>1, <1>4, <1>5, <1>7
    <2>2. skipped \in BOOLEAN /\ beside \in BOOLEAN
      BY <1>7
    <2>3. /\ \A t \in todo : t.item \in Item /\ t.at \in t.item..written /\ t.seen \in Int
          /\ \A d \in doing : d.item \in Item /\ d.at \in d.item..written /\ d.value \in Int
      BY <1>7
    <2>4. stage \in {"off", "clear", "walk", "done", "failed"}
      BY <1>7
    <2>. QED  BY <1>1, <1>4, <1>6, <2>1, <2>2, <2>3, <2>4 DEF RepairTypeOK
  <1>9. RestInv
    BY <1>1, <1>7, ConstantFact DEF RestInv
  <1>. QED  BY <1>8, <1>9

LEMMA TypeStep ==
  ASSUME RepairTypeOK, RestInv, RepairNext
  PROVE  RepairTypeOK' /\ RestInv'
  <1>. USE ConstantFact
  <1>0. Sane(script)
    BY ScriptFacts DEF RepairTypeOK
  <1>1. CASE ChainEndMoves
    BY <1>1 DEF ChainEndMoves, walkVars, pastVars, RepairTypeOK, RestInv
  <1>2. CASE ImportsNext
    <2>1. written + 1 \in Num
      BY <1>2 DEF ImportsNext, RepairTypeOK
    <2>2. row' \in [Item -> Int]
      BY <1>2, <2>1, ImportedInt DEF ImportsNext
    <2>3. /\ script' \in RepairScripts /\ written' \in Num /\ chainEnd' \in written'..LastNum
          /\ beside' \in BOOLEAN /\ begun' <= written'
      BY <1>2, <2>1 DEF ImportsNext, RepairTypeOK, RestInv, pastVars
    <2>4. /\ \A t \in todo' : t.item \in Item /\ t.at \in t.item..written' /\ t.seen \in Int
          /\ \A d \in doing' : d.item \in Item /\ d.at \in d.item..written' /\ d.value \in Int
      <3>1. written' = written + 1 /\ todo' = todo /\ doing' = doing /\ \A i \in Item : i \in Int
        BY <1>2, ItemFact DEF ImportsNext, walkVars
      <3>. QED  BY <3>1 DEF RepairTypeOK
    <2>. QED  BY <1>2, <2>2, <2>3, <2>4 DEF ImportsNext, RepairTypeOK, RestInv, walkVars, pastVars
  <1>3. CASE Clear
    <2>1. row' \in [Item -> Int]
      BY <1>3 DEF Clear, RepairTypeOK, Missing
    <2>. QED  BY <1>3, <2>1 DEF Clear, RepairTypeOK, RestInv, walkVars, pastVars
  <1>4. CASE NextRange
    <2>1. from' \in 0..(LastNum + RangeStep)
      <3>1. from \in Nat /\ until \in Nat /\ until <= LastNum
        BY DEF RepairTypeOK
      <3>2. CASE script.walk = "ranges"
        BY <1>4, <3>1, <3>2 DEF NextRange, MoreToWalk
      <3>3. CASE script.walk # "ranges"
        BY <1>4, <3>1, <3>3 DEF NextRange
      <3>. QED  BY <3>2, <3>3
    <2>2. todo' = Found /\ doing' = {} /\ doing = {}
      BY <1>4 DEF NextRange
    <2>3. \A t \in Found : /\ t \in [item : Item, seen : Int, at : Num]
                           /\ t.item \in Item /\ t.at \in t.item..written /\ t.seen \in Int
      <3>. SUFFICES ASSUME NEW t \in Found
                    PROVE  /\ t \in [item : Item, seen : Int, at : Num]
                           /\ t.item \in Item /\ t.at \in t.item..written /\ t.seen \in Int
        OBVIOUS
      <3>1. /\ t = [item |-> t.item, seen |-> row[t.item], at |-> t.at]
            /\ t.item \in Item /\ t.at \in Num /\ t.seen = row[t.item]
            /\ t.item <= written /\ t.at <= written
        BY FoundFact
      <3>2. row[t.item] \in Int /\ t.item \in Nat /\ written \in Nat
        BY <3>1, ItemFact DEF RepairTypeOK
      <3>3. t.item <= t.at
        <4>1. CASE ByEvents
          <5>1. /\ t.at \in EventsOf(t.item, 0, LastNum) /\ LastNum \in Num
                /\ script.write # "tally"
            BY <4>1, FoundFact DEF ByEvents
          <5>. QED  BY <3>1, <3>2, <5>1, EventFact
        <4>2. CASE script.write = "tally"
          <5>1. t.at \in EventsOf(t.item, 0, LastNum)
            BY <4>2, FoundFact
          <5>. QED  BY <4>2, <5>1 DEF EventsOf, Changes
        <4>3. CASE ByItems
          BY <3>2, <4>3, FoundFact DEF ByItems, ByEvents
        <4>. QED  BY <4>1, <4>2, <4>3 DEF ByItems, ByEvents
      <3>. QED  BY <3>1, <3>2, <3>3
    <2>4. Cardinality({}) = 0
      BY FS_EmptySet
    <2>5. todo' \subseteq [item : Item, seen : Int, at : Num]
      BY <2>2, <2>3
    <2>. QED  BY <1>4, <2>1, <2>2, <2>3, <2>4, <2>5 DEF NextRange, RepairTypeOK, RestInv, pastVars
  <1>5. CASE EndScript
    BY <1>5 DEF EndScript, RepairTypeOK, RestInv, walkVars, pastVars
  <1>6. CASE ScriptStops \/ ScriptReturns \/ ScriptCrash
    <2>1. Cardinality({}) = 0
      BY FS_EmptySet
    <2>2. HasTrouble /\ todo' = {} /\ doing' = {} /\ stage' \in {"failed", "done"} /\ skipped' = TRUE
      BY <1>6 DEF ScriptStops, ScriptReturns, ScriptCrash, Stopped
    <2>. QED  BY <2>1, <2>2 DEF HasTrouble, RepairTypeOK, RestInv, pastVars
  <1>7. CASE RunAgain
    BY <1>7 DEF RunAgain, RepairTypeOK, RestInv, walkVars, pastVars
  <1>8. ASSUME NEW b \in Num, BeginScript(b) PROVE RepairTypeOK' /\ RestInv'
    <2>1. script.from \in 0..(LastNum + RangeStep)
      BY <1>0 DEF Sane
    <2>2. written \in Int /\ script' = script
      BY <1>8 DEF BeginScript, RepairTypeOK
    <2>3. stage = "off" /\ stage' = "clear" /\ todo' = todo /\ doing' = doing /\ todo = {} /\ doing = {}
      BY <1>8 DEF BeginScript, RestInv
    <2>4. beside' \in BOOLEAN
      <3>1. beside' = (script.asks = "head" /\ b # written)
        BY <1>8 DEF BeginScript
      <3>. QED  BY <3>1
    <2>5. /\ until' = b /\ from' = script.from /\ begun' = written /\ before' = row
          /\ skipped' = FALSE
          /\ written' = written /\ chainEnd' = chainEnd /\ row' = row /\ troubles' = troubles
      BY <1>8 DEF BeginScript
    <2>6. RepairTypeOK'
      BY <2>1, <2>2, <2>3, <2>4, <2>5 DEF RepairTypeOK
    <2>. QED  BY <2>2, <2>3, <2>5, <2>6 DEF RestInv
  <1>9. ASSUME NEW t \in todo, Ask(t) PROVE RepairTypeOK' /\ RestInv'
    <2>. DEFINE d == [item |-> t.item, at |-> t.at, value |-> ValueFor(t),
                      seen |-> IF ByEvents THEN row[t.item] ELSE t.seen]
    <2>1. doing' = {d} /\ todo' = todo \ {t} /\ row' = [row EXCEPT ![t.item] = FirstWrite(t.item)]
      BY <1>9 DEF Ask
    <2>2. /\ t.item \in Item /\ t.at \in Num /\ t.seen \in Int /\ t.at \in t.item..written
          /\ ValueFor(t) \in Int
      BY ValueFact
    <2>3. d \in [item : Item, at : Num, value : Int, seen : Int] /\ d.at \in d.item..written
      <3>1. row[t.item] \in Int
        BY <2>2 DEF RepairTypeOK
      <3>. QED  BY <2>2, <3>1
    <2>4. Cardinality({d}) = 1
      BY FS_Singleton
    <2>5. row' \in [Item -> Int]
      <3>1. row[t.item] \in Int /\ RightAt(t.item, written) + Off \in Int /\ Missing \in Int
        <4>1. RightAt(t.item, written) \in Int
          BY <2>2, RightFact DEF RepairTypeOK
        <4>. QED  BY <2>2, <4>1 DEF Off, Missing, RepairTypeOK
      <3>2. FirstWrite(t.item) \in Int
        BY <3>1 DEF FirstWrite
      <3>. QED  BY <2>1, <3>2 DEF RepairTypeOK
    <2>. HIDE DEF d
    <2>6. stage' = stage /\ beside' \in BOOLEAN
      BY <1>9 DEF Ask, RepairTypeOK
    <2>7. stage = "walk"
      BY <1>9 DEF Ask
    <2>8. /\ script' = script /\ written' = written /\ chainEnd' = chainEnd /\ until' = until
          /\ from' = from
          /\ begun' = begun /\ before' = before /\ skipped' = skipped /\ troubles' = troubles
          /\ script.write # "insert"
      BY <1>9 DEF Ask, pastVars
    <2>9. \A u \in todo' : u \in todo
      BY <2>1
    <2>10. RepairTypeOK'
      BY <2>1, <2>3, <2>4, <2>5, <2>6, <2>7, <2>8, <2>9 DEF RepairTypeOK
    <2>11. RestInv'
      BY <2>1, <2>3, <2>6, <2>7, <2>8, <2>9 DEF RestInv
    <2>. QED  BY <2>10, <2>11
  <1>10. ASSUME NEW t \in todo, SkipItem(t) PROVE RepairTypeOK' /\ RestInv'
    BY <1>10 DEF SkipItem, HasTrouble, RepairTypeOK, RestInv, pastVars
  <1>11. ASSUME NEW d \in doing, SaveItem(d) PROVE RepairTypeOK' /\ RestInv'
    <2>1. Cardinality({}) = 0
      BY FS_EmptySet
    <2>2. row' \in [Item -> Int]
      <3>1. d.value \in Int /\ row \in [Item -> Int]
        BY DEF RepairTypeOK
      <3>. QED  BY <1>11, <3>1 DEF SaveItem
    <2>. QED  BY <1>11, <2>1, <2>2 DEF SaveItem, RepairTypeOK, RestInv, pastVars
  <1>12. ASSUME NEW S \in SUBSET Item, InsertRange(S) PROVE RepairTypeOK' /\ RestInv'
    <2>1. row' \in [Item -> Int]
      <3>1. \A i \in Item : RightAt(i, written) \in Int /\ row[i] \in Int
        BY RightFact DEF RepairTypeOK
      <3>2. row' = [i \in Item |-> IF i \in S THEN RightAt(i, written) ELSE row[i]]
        BY <1>12 DEF InsertRange
      <3>. QED  BY <3>1, <3>2
    <2>2. todo' = {} /\ stage' \in {"walk", "failed"} /\ stage = "walk" /\ doing' = doing
      BY <1>12 DEF InsertRange
    <2>3. doing = {}
      BY <1>12 DEF InsertRange, RestInv
    <2>. QED  BY <1>12, <2>1, <2>2, <2>3 DEF InsertRange, RepairTypeOK, RestInv, pastVars
  <1>. QED  BY <1>1, <1>2, <1>3, <1>4, <1>5, <1>6, <1>7, <1>8, <1>9, <1>10, <1>11, <1>12 DEF RepairNext
-----------------------------------------------------------------------------
(* The blocks the script has been at. *)

\* Division.
LEMMA MoreTimes ==
  ASSUME NEW S \in Nat \ {0}, NEW u \in Int, NEW v \in Int, u < v
  PROVE  S * u + S <= S * v
  <1>. DEFINE d == v - u
  <1>1. d \in Int /\ d >= 1 /\ v = u + d
    OBVIOUS
  <1>. HIDE DEF d
  <1>2. S * v = S * u + S * d
    BY <1>1, Z3
  <1>3. S * d >= S
    BY <1>1, Z3
  <1>4. S * u \in Int /\ S * v \in Int /\ S * d \in Int
    BY <1>1
  <1>. QED  BY <1>2, <1>3, <1>4

LEMMA Division ==
  ASSUME NEW S \in Nat \ {0}, NEW z \in Int
  PROVE  z % S \in 0..(S - 1) /\ z \div S \in Int /\ z = S * (z \div S) + (z % S)
  <1>1. z % S \in 0..(S - 1)
    OBVIOUS
  <1>2. z \div S \in Int
    OBVIOUS
  <1>3. z = S * (z \div S) + (z % S)
    BY Z3
  <1>. QED  BY <1>1, <1>2, <1>3

LEMMA SameRest ==
  ASSUME NEW S \in Nat \ {0}, NEW p \in Int, NEW q \in Int, NEW r \in 0..(S - 1), NEW s \in 0..(S - 1),
         S * p + r = S * q + s
  PROVE  r = s
  <1>1. S * p \in Int /\ S * q \in Int
    OBVIOUS
  <1>2. CASE p > q
    BY <1>1, <1>2, MoreTimes
  <1>3. CASE p < q
    BY <1>1, <1>3, MoreTimes
  <1>4. CASE p = q
    BY <1>1, <1>4
  <1>. QED  BY <1>2, <1>3, <1>4

LEMMA RestIs ==
  ASSUME NEW S \in Nat \ {0}, NEW x \in Int, x % S = 0, NEW r \in 0..(S - 1)
  PROVE  (x + r) % S = r
  <1>. DEFINE y == x + r
  <1>1. y \in Int
    OBVIOUS
  <1>2. \A z \in Int : z % S \in 0..(S - 1) /\ z \div S \in Int /\ z = S * (z \div S) + (z % S)
    BY Division
  <1>. DEFINE p == x \div S
              q == y \div S
  <1>3. p \in Int /\ x = S * p + 0
    BY <1>2
  <1>4. q \in Int /\ y % S \in 0..(S - 1) /\ y = S * q + (y % S)
    BY <1>1, <1>2
  <1>. HIDE DEF p, q
  <1>5. S * p \in Int /\ S * q \in Int
    BY <1>3, <1>4
  <1>6. S * p + r = S * q + (y % S)
    BY <1>3, <1>4, <1>5
  <1>7. r = y % S
    BY <1>3, <1>4, <1>6, SameRest
  <1>. QED  BY <1>7

LEMMA NextRest ==
  ASSUME NEW S \in Nat \ {0}, NEW x \in Int, x % S = 0
  PROVE  (x + S) % S = 0
  <1>1. (x + (S - 1)) % S = S - 1
    BY RestIs
  <1>2. x + S \in Int /\ (x + S) % S \in 0..(S - 1)
    OBVIOUS
  <1>. DEFINE p == x \div S
              q == (x + S) \div S
  <1>3. p \in Int /\ q \in Int
    OBVIOUS
  <1>4. x = S * p + (x % S)
    BY Z3
  <1>5. x + S = S * q + ((x + S) % S)
    BY <1>2, Z3
  <1>. HIDE DEF p, q
  <1>6. S * (p + 1) = S * p + S
    BY <1>3, Z3
  <1>7. S * p \in Int /\ S * q \in Int /\ p + 1 \in Int /\ 0 \in 0..(S - 1)
    BY <1>3
  <1>8. S * (p + 1) + 0 = S * q + ((x + S) % S)
    BY <1>4, <1>5, <1>6, <1>7
  <1>9. 0 = (x + S) % S
    BY <1>2, <1>3, <1>7, <1>8, SameRest
  <1>. QED  BY <1>9

LEMMA WalkStep ==
  ASSUME RepairTypeOK, RestInv, WalkInv, RepairNext
  PROVE  WalkInv'
  <1>. USE ConstantFact
  <1>0. Sane(script)
    BY ScriptFacts DEF RepairTypeOK
  <1>1. CASE ChainEndMoves
    BY <1>1 DEF ChainEndMoves, walkVars, pastVars, WalkInv, Under, Running
  <1>2. CASE ImportsNext
    BY <1>2 DEF ImportsNext, walkVars, pastVars, WalkInv, Under, Running
  <1>3. CASE Clear
    BY <1>3 DEF Clear, walkVars, pastVars, WalkInv, Under, Running
  <1>4. CASE NextRange
    <2>1. /\ script' = script /\ written' = written /\ stage' = stage /\ stage = "walk"
          /\ until' = until
          /\ begun' = begun /\ beside' = beside
      BY <1>4 DEF NextRange, pastVars
    <2>2. script.walk = "ranges" => script.from <= from' /\ (from' - script.from) % RangeStep = 0
      <3>. SUFFICES ASSUME script.walk = "ranges"
                    PROVE  script.from <= from' /\ (from' - script.from) % RangeStep = 0
        OBVIOUS
      <3>. DEFINE x == from - script.from
      <3>1. from' = from + RangeStep /\ from \in Int /\ script.from \in Int
        BY <1>0, <1>4 DEF NextRange, RepairTypeOK, Sane
      <3>2. x \in Int /\ x % RangeStep = 0 /\ script.from <= from
        BY <2>1, <3>1 DEF WalkInv, Under
      <3>3. from' - script.from = x + RangeStep
        BY <3>1
      <3>. HIDE DEF x
      <3>4. (x + RangeStep) % RangeStep = 0
        BY <3>2, NextRest
      <3>. QED  BY <3>1, <3>2, <3>3, <3>4
    <2>3. script.walk # "ranges" => from' = until
      BY <1>4 DEF NextRange
    <2>. QED  BY <2>1, <2>2, <2>3 DEF WalkInv, Under, Running
  <1>5. CASE EndScript
    BY <1>5 DEF EndScript, walkVars, pastVars, WalkInv, Under, Running
  <1>6. CASE ScriptStops \/ ScriptReturns \/ ScriptCrash
    <2>1. Running /\ HasTrouble /\ stage' \in {"failed", "done"}
      BY <1>6 DEF ScriptStops, ScriptReturns, ScriptCrash, Stopped, AtItem, Running
    <2>. QED  BY <2>1 DEF HasTrouble, pastVars, WalkInv, Under, Running
  <1>7. CASE RunAgain
    BY <1>7 DEF RunAgain, walkVars, pastVars, WalkInv, Under, Running
  <1>8. ASSUME NEW b \in Num, BeginScript(b) PROVE WalkInv'
    <2>1. /\ script' = script /\ written' = written /\ stage' = "clear" /\ until' = b
          /\ from' = script.from
          /\ begun' = written /\ (~beside' /\ script.asks = "head" => b = written)
          /\ script.of = "pos" => b = written
      BY <1>8 DEF BeginScript, HeadRead
    <2>2. script.from \in Nat /\ (script.from - script.from) % RangeStep = 0
      BY <1>0 DEF Sane
    <2>3. script.walk # "ranges" => script.from = 0
      BY <1>0 DEF Sane
    <2>. QED  BY <2>1, <2>2, <2>3 DEF WalkInv, Under, Running
  <1>9. ASSUME NEW t \in todo, Ask(t) PROVE WalkInv'
    BY <1>9 DEF Ask, pastVars, WalkInv, Under, Running
  <1>10. ASSUME NEW t \in todo, SkipItem(t) PROVE WalkInv'
    BY <1>10 DEF SkipItem, HasTrouble, pastVars, WalkInv, Under, Running
  <1>11. ASSUME NEW d \in doing, SaveItem(d) PROVE WalkInv'
    BY <1>11 DEF SaveItem, pastVars, WalkInv, Under, Running
  <1>12. ASSUME NEW S \in SUBSET Item, InsertRange(S) PROVE WalkInv'
    <2>1. /\ script' = script /\ written' = written /\ stage = "walk" /\ stage' \in {"walk", "failed"}
          /\ until' = until /\ from' = from /\ begun' = begun /\ beside' = beside
      BY <1>12 DEF InsertRange, pastVars
    <2>. QED  BY <2>1 DEF WalkInv, Under, Running
  <1>. QED  BY <1>1, <1>2, <1>3, <1>4, <1>5, <1>6, <1>7, <1>8, <1>9, <1>10, <1>11, <1>12 DEF RepairNext
-----------------------------------------------------------------------------
(* What the import does to items. *)

LEMMA GoalFact ==
  ASSUME RepairTypeOK, RestInv, NEW i \in Item, i <= written
  PROVE  /\ script.imported => Goal(i) = RightAt(i, written)
         /\ ~script.imported => Goal(i) = IF i <= begun THEN RightAt(i, begun) ELSE RightAt(i, i)
         /\ script.kind = "fixed" => script.imported /\ Goal(i) = 1
         /\ Goal(i) \in Int
  <1>1. i \in Int /\ begun \in Int /\ written \in Num /\ begun \in Num /\ script \in RepairScripts /\ i \in Num
    BY ConstantFact, ItemFact DEF RepairTypeOK
  <1>2. script.imported => Goal(i) = RightAt(i, written)
    BY DEF Goal
  <1>3. ~script.imported => Goal(i) = IF i <= begun THEN RightAt(i, begun) ELSE RightAt(i, i)
    <2>1. Max({begun, i}) = IF i <= begun THEN begun ELSE i
      BY <1>1, MaxOfTwo
    <2>. QED  BY <2>1 DEF Goal
  <1>4. script.kind = "fixed" => script.imported
    BY <1>1, ScriptFacts DEF Sane
  <1>5. /\ RightAt(i, written) \in Int /\ RightAt(i, begun) \in Int /\ RightAt(i, i) \in Int
        /\ script.kind = "fixed" => RightAt(i, written) = 1
    BY <1>1, RightFact
  <1>. QED  BY <1>2, <1>3, <1>4, <1>5

LEMMA ImportFact ==
  ASSUME RepairTypeOK, RestInv, ImportsNext
  PROVE  /\ written' = written + 1 /\ written' \in Num
         /\ \A i \in Item : i <= written /\ row[i] = Goal(i) => row'[i] = Goal(i)'
         /\ \A i \in Item : i = written' => row'[i] = Goal(i)'
         /\ \A i \in Item : i <= written /\ script.kind = "fixed" => row'[i] = row[i]
  <1>. DEFINE n == written + 1
  <1>1. /\ n \in Num /\ written \in Num /\ n - 1 = written /\ n \in Int /\ begun \in Int
        /\ begun <= written
        /\ begun \in Num /\ written \in Int /\ n = written + 1
    BY ConstantFact DEF ImportsNext, RepairTypeOK, RestInv
  <1>2. /\ script' = script /\ begun' = begun /\ written' = n
        /\ \A i \in Item : row'[i] = Imported(i, n)
    BY DEF ImportsNext, pastVars
  <1>3. script \in RepairScripts /\ Sane(script)
    BY ScriptFacts DEF RepairTypeOK
  <1>4. ASSUME NEW i \in Item
        PROVE  /\ Goal(i)' = RightAt(i, IF script.imported THEN n ELSE Max({begun, i}))
               /\ i \in Int /\ Max({begun, i}) = IF i <= begun THEN begun ELSE i
    BY <1>1, <1>2, ItemFact, MaxOfTwo DEF Goal, RightAt
  <1>. HIDE DEF n
  <1>5. ASSUME NEW i \in Item, i <= written, row[i] = Goal(i) PROVE row'[i] = Goal(i)'
    <2>2. n # i /\ n > i /\ i \in Int
      BY <1>1, <1>5, ItemFact
    <2>1. /\ RightAt(i, n) \in Nat /\ RightAt(i, n - 1) \in Nat /\ RightAt(i, n - 1) # Missing
          /\ script.kind = "fixed" => RightAt(i, n) = 1 /\ RightAt(i, n - 1) = 1
      BY <1>1, <1>3, <1>5, <2>2, RightFact
    <2>3. CASE script.imported
      <3>1. row[i] = RightAt(i, n - 1) /\ Goal(i)' = RightAt(i, n)
        BY <1>1, <1>4, <1>5, <2>3 DEF Goal
      <3>2. CASE script.kind = "amount"
        BY <1>2, <2>1, <2>2, <2>3, <3>1, <3>2 DEF Imported
      <3>3. CASE script.kind = "setting"
        <4>1. n \in Changes(i, n, n) <=> RightAt(i, n) # RightAt(i, n - 1)
          BY <1>1, <2>2 DEF Changes
        <4>2. CASE n \in Changes(i, n, n)
          BY <1>2, <2>2, <2>3, <3>1, <3>3, <4>2 DEF Imported
        <4>3. CASE n \notin Changes(i, n, n)
          BY <1>2, <2>2, <2>3, <3>1, <3>3, <4>1, <4>3 DEF Imported
        <4>. QED  BY <4>2, <4>3
      <3>4. CASE script.kind = "fixed"
        BY <1>2, <2>1, <2>2, <2>3, <3>1, <3>4 DEF Imported
      <3>. QED  BY <1>3, <3>2, <3>3, <3>4 DEF Sane
    <2>4. CASE ~script.imported
      <3>1. row'[i] = row[i]
        BY <1>2, <2>2, <2>4 DEF Imported
      <3>. QED  BY <1>4, <1>5, <2>4, <3>1 DEF Goal
    <2>. QED  BY <2>3, <2>4
  <1>6. ASSUME NEW i \in Item, i = n PROVE row'[i] = Goal(i)'
    <2>1. row'[i] = RightAt(i, n)
      BY <1>2, <1>6, <1>1 DEF Imported
    <2>2. Max({begun, i}) = n
      BY <1>1, <1>6, MaxOfTwo
    <2>3. Goal(i)' = RightAt(i, IF script.imported THEN n ELSE Max({begun, i}))
      BY <1>4
    <2>4. Goal(i)' = RightAt(i, n)
      BY <2>2, <2>3
    <2>. QED  BY <2>1, <2>4
  <1>7. ASSUME NEW i \in Item, i <= written, script.kind = "fixed" PROVE row'[i] = row[i]
    <2>1. n # i
      BY <1>1, <1>4, <1>7
    <2>. QED  BY <1>2, <1>7, <2>1 DEF Imported
  <1>. QED  BY <1>1, <1>2, <1>5, <1>6, <1>7 DEF n
-----------------------------------------------------------------------------
(* Items found and items at hand. *)

\* Nothing has happened beside the script, if nothing does in the step.
LEMMA StillCalm ==
  ASSUME RepairTypeOK, RepairNext, Running, ~Disturbed'
  PROVE  ~Disturbed
  <1>1. script' = script
    BY DEF RepairNext, ChainEndMoves, ImportsNext, Clear, NextRange, EndScript, ScriptStops,
       ScriptReturns,
           ScriptCrash, Stopped, HasTrouble, RunAgain, BeginScript, Ask, SkipItem, SaveItem, InsertRange
  <1>2. beside => beside'
    BY DEF RepairNext, ChainEndMoves, ImportsNext, Clear, NextRange, EndScript, ScriptStops,
       ScriptReturns,
           ScriptCrash, Stopped, HasTrouble, RunAgain, BeginScript, Ask, SkipItem, SaveItem, InsertRange, Running
  <1>. QED  BY <1>1, <1>2 DEF Disturbed

\* The value of an item that is at hand.
LEMMA ValueRight ==
  ASSUME RepairTypeOK, RestInv, WalkInv, ByItems, NEW t \in todo, Ask(t), ~Disturbed',
         ~(script.mistakes /\ t.item \in Odd)
  PROVE  ValueFor(t) = RightAt(t.item, written)
  <1>1. script.write # "tally" /\ ~ByEvents /\ Running
    BY DEF ByItems, ByEvents, Ask, Running
  <1>2. CASE script.kind = "fixed"
    BY <1>1, <1>2, ValueFact
  <1>3. CASE script.kind # "fixed"
    <2>1. ~beside' /\ (beside' <=> (beside \/ (script.asks = "best" /\ chainEnd # written))) /\ script' = script
      BY <1>3 DEF Ask, Disturbed
    <2>2. CASE script.asks = "head" /\ ValueFor(t) = RightAt(t.item, until)
      <3>1. until = begun /\ written = begun
        BY <1>1, <2>1, <2>2 DEF WalkInv, Under, Running
      <3>. QED  BY <2>2, <3>1
    <2>3. CASE script.asks = "best" /\ ValueFor(t) = RightAt(t.item, chainEnd)
      BY <2>1, <2>3
    <2>. QED  BY <1>1, <1>3, <2>2, <2>3, ValueFact
  <1>. QED  BY <1>2, <1>3

LEMMA ItemStep ==
  ASSUME RepairTypeOK, RestInv, WalkInv, ItemInv, script.write # "tally", RepairNext
  PROVE  ItemInv'
  <1>. USE ConstantFact
  <1>0. Sane(script) /\ script \in RepairScripts
    BY ScriptFacts DEF RepairTypeOK
  <1>a. /\ row \in [Item -> Int] /\ written \in Nat /\ \A i \in Item : i \in Nat
        /\ \A t \in todo : t.item \in Item /\ t.at \in t.item..written
        /\ \A d \in doing : d.item \in Item
    BY ItemFact DEF RepairTypeOK
  <1>1. CASE ChainEndMoves
    <2>1. /\ script' = script /\ written' = written /\ stage' = stage /\ until' = until
          /\ from' = from
          /\ todo' = todo /\ doing' = doing /\ row' = row /\ beside' = beside
      BY <1>1 DEF ChainEndMoves, walkVars, pastVars
    <2>. QED  BY <2>1 DEF ItemInv, ByItems, Running, InHand, Due, Disturbed, RightAt
  <1>2. CASE ImportsNext
    <2>1. /\ script' = script /\ stage' = stage /\ until' = until /\ from' = from
          /\ written' = written + 1
          /\ todo' = todo /\ doing' = doing /\ (beside' <=> (beside \/ Running))
      BY <1>2 DEF ImportsNext, walkVars, pastVars
    <2>. SUFFICES ASSUME ByItems, Running PROVE ItemInv'
      BY <2>1 DEF ItemInv, ByItems, Running
    <2>2. /\ \A t \in todo : t.at = t.item /\ (script.finds = "missing" => t.seen = Missing)
          /\ \A t, u \in todo : t.item = u.item => t = u
          /\ \A t \in todo, d \in doing : t.item # d.item
          /\ \A d \in doing : d.item <= written'
      BY <1>a, <2>1 DEF ItemInv
    <2>3. script.walk # "repeat" => \A i \in Item : InHand(i)' => ~Due(i)'
      <3>. SUFFICES ASSUME script.walk # "repeat", NEW i \in Item, InHand(i)' PROVE ~Due(i)'
        OBVIOUS
      <3>1. InHand(i)
        BY <2>1 DEF InHand
      <3>2. ~Due(i)
        BY <3>1 DEF ItemInv
      <3>. QED  BY <1>0, <2>1, <3>2 DEF Due, Sane
    <2>4. ASSUME ~Disturbed'
          PROVE  /\ \A t \in todo : t.seen = row'[t.item]
                 /\ \A d \in doing :
                      /\ script.write = "set" => d.seen = row'[d.item]
                      /\ ~(script.mistakes /\ d.item \in Odd) => d.value = RightAt(d.item, written)'
      <3>1. ~Disturbed /\ script.kind = "fixed"
        BY <2>1, <2>4, StillCalm DEF Disturbed
      <3>2. \A i \in Item : i <= written => row'[i] = row[i]
        BY <1>2, <3>1, ImportFact
      <3>3. \A t \in todo : t.item \in Item /\ t.item <= written /\ t.seen = row[t.item]
        BY <1>a, <3>1 DEF ItemInv
      <3>4. \A d \in doing : d.item \in Item /\ d.item <= written
        BY <1>a DEF ItemInv
      <3>5. \A i \in Item : i <= written => RightAt(i, written) = 1 /\ RightAt(i, written)' = 1
        <4>. SUFFICES ASSUME NEW i \in Item, i <= written
                      PROVE  RightAt(i, written) = 1 /\ RightAt(i, written)' = 1
          OBVIOUS
        <4>1. written \in Num /\ written + 1 \in Num
          BY <1>2, ImportFact DEF RepairTypeOK
        <4>2. RightAt(i, written) = 1 /\ RightAt(i, written + 1) = 1
          BY <1>0, <1>a, <3>1, <4>1, RightFact
        <4>. QED  BY <2>1, <4>2 DEF RightAt
      <3>6. \A d \in doing :
              /\ script.write = "set" => d.seen = row[d.item]
              /\ ~(script.mistakes /\ d.item \in Odd) => d.value = RightAt(d.item, written)
        BY <3>1 DEF ItemInv
      <3>. QED  BY <3>2, <3>3, <3>4, <3>5, <3>6
    <2>. QED  BY <2>1, <2>2, <2>3, <2>4 DEF ItemInv
  <1>3. CASE Clear
    <2>1. todo' = {} /\ doing' = {} /\ script' = script
      BY <1>3 DEF Clear, RestInv, walkVars
    <2>. QED  BY <2>1 DEF ItemInv, InHand
  <1>4. CASE NextRange
    <2>1. /\ script' = script /\ stage' = stage /\ stage = "walk" /\ until' = until
          /\ written' = written
          /\ todo' = Found /\ doing' = {} /\ row' = row /\ beside' = beside
          /\ from' = IF script.walk = "ranges" THEN from + RangeStep ELSE until
      BY <1>4 DEF NextRange, pastVars
    <2>. SUFFICES ASSUME ByItems PROVE ItemInv'
      BY <2>1 DEF ItemInv, ByItems
    <2>2. ~ByEvents /\ script.write # "tally"
      BY DEF ByItems, ByEvents
    <2>3. \A t \in Found : /\ t.at = t.item /\ t.seen = row[t.item] /\ t.item \in Item
                           /\ t = [item |-> t.item, seen |-> row[t.item], at |-> t.item]
                           /\ Searched(t.item) /\ IsFound(t.item)
      BY <2>2, FoundFact
    <2>4. script.finds = "missing" => \A t \in Found : t.seen = Missing
      BY <2>3 DEF IsFound
    <2>5. script.walk # "repeat" => \A i \in Item : InHand(i)' => ~Due(i)'
      <3>. SUFFICES ASSUME script.walk # "repeat", NEW i \in Item, InHand(i)' PROVE ~Due(i)'
        OBVIOUS
      <3>1. Searched(i) /\ i \in Nat
        BY <1>a, <2>1, <2>3 DEF InHand
      <3>2. from \in Nat /\ until \in Nat
        BY DEF RepairTypeOK
      <3>3. CASE script.walk = "ranges"
        <4>1. i <= RangeEnd
          BY <3>1, <3>3 DEF Searched
        <4>2. i < from'
          BY <2>1, <3>1, <3>2, <3>3, <4>1 DEF RangeEnd
        <4>. QED  BY <2>1, <3>1, <3>2, <3>3, <4>2 DEF Due
      <3>4. CASE script.walk = "whole"
        BY <2>1, <3>2, <3>4 DEF Due
      <3>. QED  BY <1>0, <3>3, <3>4 DEF Sane
    <2>6. \A t, u \in Found : t.item = u.item => t = u
      BY <2>3
    <2>. QED  BY <2>1, <2>3, <2>4, <2>5, <2>6 DEF ItemInv
  <1>5. CASE EndScript
    BY <1>5 DEF EndScript, ItemInv, Running
  <1>6. CASE ScriptStops \/ ScriptReturns \/ ScriptCrash
    <2>1. stage' \in {"failed", "done"}
      BY <1>6 DEF ScriptStops, ScriptReturns, ScriptCrash, Stopped
    <2>. QED  BY <2>1 DEF ItemInv, Running
  <1>7. CASE RunAgain
    BY <1>7 DEF RunAgain, ItemInv, Running
  <1>8. ASSUME NEW b \in Num, BeginScript(b) PROVE ItemInv'
    <2>1. todo' = {} /\ doing' = {}
      BY <1>8 DEF BeginScript, RestInv
    <2>. QED  BY <2>1 DEF ItemInv, InHand
  <1>9. ASSUME NEW t \in todo, Ask(t) PROVE ItemInv'
    <2>. DEFINE d == [item |-> t.item, at |-> t.at, value |-> ValueFor(t),
                      seen |-> IF ByEvents THEN row[t.item] ELSE t.seen]
    <2>1. /\ script' = script /\ stage' = stage /\ stage = "walk" /\ until' = until
          /\ written' = written
          /\ from' = from /\ todo' = todo \ {t} /\ doing' = {d}
          /\ row' = [row EXCEPT ![t.item] = FirstWrite(t.item)]
      BY <1>9 DEF Ask, pastVars
    <2>. SUFFICES ASSUME ByItems PROVE ItemInv'
      BY <2>1 DEF ItemInv, ByItems
    <2>2. Running /\ Running' /\ ~ByEvents /\ script.write # "tally"
      BY <2>1 DEF Running, ByItems, ByEvents
    <2>3. /\ \A u \in todo : u.at = u.item /\ (script.finds = "missing" => u.seen = Missing)
          /\ \A u, v \in todo : u.item = v.item => u = v
      BY <2>2 DEF ItemInv
    <2>4. \A u \in todo' : u \in todo /\ u.item # t.item
      BY <2>1, <2>3
    <2>5. d.item = t.item /\ d.value = ValueFor(t) /\ d.seen = t.seen
      BY <2>2
    <2>. HIDE DEF d
    <2>6. d.item \in Item /\ d.item <= written
      BY <1>a, <2>5
    <2>7. script.walk # "repeat" => \A i \in Item : InHand(i)' => ~Due(i)'
      <3>. SUFFICES ASSUME script.walk # "repeat", NEW i \in Item, InHand(i)' PROVE ~Due(i)'
        OBVIOUS
      <3>1. InHand(i)
        BY <2>1, <2>4, <2>5 DEF InHand
      <3>2. ~Due(i)
        BY <2>2, <3>1 DEF ItemInv
      <3>. QED  BY <1>0, <2>1, <3>2 DEF Due, Sane
    <2>8. ASSUME ~Disturbed'
          PROVE  /\ \A u \in todo' : u.seen = row'[u.item]
                 /\ script.write = "set" => d.seen = row'[d.item]
                 /\ ~(script.mistakes /\ d.item \in Odd) => d.value = RightAt(d.item, written)
      <3>1. ~Disturbed
        BY <2>2, <2>8, StillCalm
      <3>2. \A u \in todo : u.seen = row[u.item]
        BY <2>2, <3>1 DEF ItemInv
      <3>3. \A u \in todo' : row'[u.item] = row[u.item]
        BY <1>a, <2>1, <2>4
      <3>4. script.write = "set" => row'[t.item] = row[t.item]
        BY <1>a, <2>1 DEF FirstWrite
      <3>5. ~(script.mistakes /\ t.item \in Odd) => ValueFor(t) = RightAt(t.item, written)
        BY <1>9, <2>8, ValueRight
      <3>. QED  BY <2>4, <2>5, <3>2, <3>3, <3>4, <3>5
    <2>9. RightAt(d.item, written)' = RightAt(d.item, written)
      BY <2>1 DEF RightAt, d
    <2>. QED  BY <2>1, <2>3, <2>4, <2>5, <2>6, <2>7, <2>8, <2>9 DEF ItemInv, RightAt
  <1>10. ASSUME NEW t \in todo, SkipItem(t) PROVE ItemInv'
    <2>1. /\ script' = script /\ stage' = stage /\ stage = "walk" /\ until' = until
          /\ written' = written
          /\ from' = from /\ todo' = todo \ {t} /\ doing' = {} /\ doing = {} /\ row' = row
          /\ beside' = beside
      BY <1>10 DEF SkipItem, HasTrouble, pastVars
    <2>. SUFFICES ASSUME ByItems PROVE ItemInv'
      BY <2>1 DEF ItemInv, ByItems
    <2>2. script.walk # "repeat" => \A i \in Item : InHand(i)' => ~Due(i)'
      <3>. SUFFICES ASSUME script.walk # "repeat", NEW i \in Item, InHand(i)' PROVE ~Due(i)'
        OBVIOUS
      <3>1. InHand(i)
        BY <2>1 DEF InHand
      <3>2. ~Due(i)
        BY <2>1, <3>1 DEF ItemInv, Running
      <3>. QED  BY <1>0, <2>1, <3>2 DEF Due, Sane
    <2>. QED  BY <2>1, <2>2 DEF ItemInv, Running, Disturbed
  <1>11. ASSUME NEW d \in doing, SaveItem(d) PROVE ItemInv'
    <2>1. /\ script' = script /\ stage' = stage /\ until' = until /\ written' = written
          /\ from' = from /\ todo' = todo /\ doing' = {} /\ beside' = beside
          /\ row' = IF Writable(d) THEN [row EXCEPT ![d.item] = d.value] ELSE row
      BY <1>11 DEF SaveItem, pastVars
    <2>. SUFFICES ASSUME ByItems, Running PROVE ItemInv'
      BY <2>1 DEF ItemInv, ByItems, Running
    <2>2. \A t \in todo : t.item # d.item /\ row'[t.item] = row[t.item]
      BY <1>a, <2>1 DEF ItemInv
    <2>3. script.walk # "repeat" => \A i \in Item : InHand(i)' => ~Due(i)'
      <3>. SUFFICES ASSUME script.walk # "repeat", NEW i \in Item, InHand(i)' PROVE ~Due(i)'
        OBVIOUS
      <3>1. InHand(i)
        BY <2>1 DEF InHand
      <3>2. ~Due(i)
        BY <2>1, <3>1 DEF ItemInv, Running
      <3>. QED  BY <1>0, <2>1, <3>2 DEF Due, Sane
    <2>. QED  BY <2>1, <2>2, <2>3 DEF ItemInv, Disturbed
  <1>12. ASSUME NEW S \in SUBSET Item, InsertRange(S) PROVE ItemInv'
    <2>1. todo' = {} /\ doing' = {}
      BY <1>12 DEF InsertRange, RestInv
    <2>. QED  BY <2>1 DEF ItemInv, InHand
  <1>. QED  BY <1>1, <1>2, <1>3, <1>4, <1>5, <1>6, <1>7, <1>8, <1>9, <1>10, <1>11, <1>12 DEF RepairNext
-----------------------------------------------------------------------------
(* Every item that can be mended is ahead, at hand or right. *)

\* What a script can mend is settled when it begins.
LEMMA SameMends ==
  ASSUME script' = script, until' = until, begun' = begun, before' = before
  PROVE  \A i \in Item : /\ Mends(i)' <=> Mends(i)
                         /\ Sound(i)' <=> Sound(i)
                         /\ \A n : RightAt(i, n)' = RightAt(i, n)
                         /\ written' = written => Goal(i)' = Goal(i)
  <1>1. \A i, n : RightAt(i, n)' = RightAt(i, n)
    BY DEF RightAt
  <1>2. \A n : LooksAt(n)' <=> LooksAt(n)
    BY DEF LooksAt
  <1>3. \A i : EventsOf(i, 0, begun)' = EventsOf(i, 0, begun)
    BY DEF EventsOf, Changes, RightAt
  <1>4. ByEvents' <=> ByEvents
    BY DEF ByEvents
  <1>5. ASSUME NEW i \in Item PROVE Mends(i)' <=> Mends(i)
    BY <1>1, <1>2, <1>3, <1>4 DEF Mends, InOneRange
  <1>6. ASSUME NEW i \in Item PROVE Sound(i)' <=> Sound(i)
    BY <1>1 DEF Sound
  <1>7. ASSUME NEW i \in Item, written' = written PROVE Goal(i)' = Goal(i)
    BY <1>7 DEF Goal, RightAt
  <1>. QED  BY <1>1, <1>5, <1>6, <1>7

\* An item the script can mend and has not come to is found when it does.
LEMMA MendsFound ==
  ASSUME RepairTypeOK, RestInv, WalkInv, ByItems, stage = "walk", NEW i \in Item, Mends(i),
         Untouched(i),
         script.walk # "repeat", Due(i), script.walk = "ranges" => i < from + RangeStep
  PROVE  [item |-> i, seen |-> row[i], at |-> i] \in Found
  <1>. USE ConstantFact
  <1>0. Sane(script) /\ i \in Nat /\ i \in Num /\ from \in Nat /\ until \in Nat /\ written \in Nat
        /\ begun <= written /\ i <= begun /\ i <= written /\ begun \in Nat
    BY ScriptFacts, ItemFact DEF RepairTypeOK, RestInv, Mends
  <1>1. ~ByEvents /\ script.write # "tally" /\ LooksAt(i)
    BY DEF ByItems, ByEvents, Mends
  <1>2. Searched(i)
    <2>1. CASE script.walk # "ranges"
      BY <2>1 DEF Searched
    <2>2. CASE script.walk = "ranges"
      <3>1. from <= i /\ i < from + RangeStep /\ i <= until
        BY <1>1, <2>2 DEF Due, LooksAt
      <3>2. i <= RangeEnd
        BY <1>0, <3>1 DEF RangeEnd
      <3>3. ASSUME script.open, i = RangeEnd PROVE FALSE
        <4>1. i # until
          BY <1>1, <2>2, <3>3 DEF LooksAt
        <4>2. i = from + RangeStep - 1
          BY <1>0, <3>3, <4>1 DEF RangeEnd
        <4>. DEFINE x == from - script.from
        <4>3. x \in Int /\ x % RangeStep = 0
          BY <1>0, <2>2 DEF Sane, WalkInv, Under
        <4>4. i - script.from = x + (RangeStep - 1) /\ RangeStep - 1 \in 0..(RangeStep - 1)
          BY <1>0, <4>2 DEF Sane
        <4>. HIDE DEF x
        <4>5. (x + (RangeStep - 1)) % RangeStep = RangeStep - 1
          BY <4>3, <4>4, RestIs
        <4>. QED  BY <1>1, <2>2, <3>3, <4>4, <4>5 DEF LooksAt
      <3>. QED  BY <3>1, <3>2, <3>3 DEF Searched
    <2>. QED  BY <2>1, <2>2
  <1>3. i \notin script.clears => row[i] = before[i]
    BY <1>0 DEF Untouched
  <1>4. IsFound(i)
    <2>1. CASE script.finds = "all"
      BY <1>0, <2>1 DEF IsFound
    <2>2. CASE script.finds = "stored"
      <3>1. script.clears = {} /\ before[i] # 0
        BY <1>0, <2>2 DEF Sane, Mends
      <3>. QED  BY <1>3, <2>2, <3>1 DEF IsFound
    <2>3. CASE script.finds = "missing"
      <3>1. script.clears \in {{}, Odd} /\ before[i] = Missing /\ (i \in Odd => script.clears # Odd)
        BY <1>0, <2>3 DEF Sane, Mends
      <3>2. i \notin script.clears
        BY <3>1
      <3>. QED  BY <1>3, <2>3, <3>1, <3>2 DEF IsFound
    <2>. QED  BY <1>0, <2>1, <2>2, <2>3 DEF Sane
  <1>. QED  BY <1>0, <1>1, <1>2, <1>4, IsFoundIn

\* What is written, or left, is what it should be.
LEMMA SavedRight ==
  ASSUME RepairTypeOK, RestInv, WalkInv, ItemInv, ByItems, Running, ~Disturbed,
         NEW d \in doing, SaveItem(d), ~(script.mistakes /\ d.item \in Odd)
  PROVE  /\ d.item \in Item /\ d.item <= written
         /\ d.value = Goal(d.item)
         /\ Writable(d) => row'[d.item] = Goal(d.item)
         /\ Mends(d.item) => row'[d.item] = Goal(d.item)
  <1>. DEFINE i == d.item
  <1>. USE ConstantFact
  <1>1. i \in Item /\ i <= written /\ Sane(script) /\ script \in RepairScripts /\ row \in [Item -> Int]
        /\ written \in Num
    BY ScriptFacts DEF ItemInv, RepairTypeOK
  <1>2. d.value = RightAt(i, written) /\ (script.write = "set" => d.seen = row[i])
    BY DEF ItemInv
  <1>. HIDE DEF i
  <1>3. script.imported
    BY <1>1 DEF Sane, ByItems
  <1>4. d.value = Goal(i)
    BY <1>1, <1>2, <1>3, GoalFact
  <1>5. row' = IF Writable(d) THEN [row EXCEPT ![i] = d.value] ELSE row
    BY DEF SaveItem, i
  <1>6. Writable(d) => row'[i] = Goal(i)
    BY <1>1, <1>4, <1>5
  <1>7. ASSUME Mends(i), ~Writable(d) PROVE row'[i] = Goal(i)
    <2>1. script.write # "follow"
      BY DEF ByItems
    <2>2. ASSUME script.keepsZero, d.value = 0, i \in Odd PROVE FALSE
      <3>1. RightAt(i, begun) # 0
        BY <1>7, <2>2 DEF Mends
      <3>2. CASE script.kind = "fixed"
        <4>1. RightAt(i, written) = 1
          BY <1>1, <3>2, RightFact
        <4>2. d.value = 1
          BY <1>2, <4>1
        <4>. QED  BY <2>2, <4>2
      <3>3. CASE script.kind # "fixed"
        BY <1>2, <2>2, <3>1, <3>3 DEF Disturbed, WalkInv
      <3>. QED  BY <3>2, <3>3
    <2>3. CASE script.keepsZero
      <3>1. ~(d.seen # d.value /\ ~(d.value = 0 /\ i \in Odd))
        BY <1>7, <2>1, <2>3 DEF Writable, i
      <3>2. script.write = "set" /\ d.seen = d.value
        BY <1>1, <2>2, <2>3, <3>1 DEF Sane
      <3>. QED  BY <1>2, <1>4, <1>5, <1>7, <3>2
    <2>4. CASE ~script.keepsZero
      <3>1. script.write = "set" /\ d.seen = d.value
        BY <1>7, <2>1, <2>4 DEF Writable
      <3>. QED  BY <1>2, <1>4, <1>5, <1>7, <3>1
    <2>. QED  BY <2>3, <2>4
  <1>. QED  BY <1>1, <1>4, <1>6, <1>7 DEF i

LEMMA ProgressStep ==
  ASSUME RepairTypeOK, RestInv, WalkInv, ItemInv, ProgressInv, script.write # "tally", RepairNext
  PROVE  ProgressInv'
  <1>. USE ConstantFact
  <1>0. Sane(script) /\ script \in RepairScripts /\ script' = script
    <2>1. script' = script
      BY DEF RepairNext, ChainEndMoves, ImportsNext, Clear, NextRange, EndScript, ScriptStops,
         ScriptReturns,
           ScriptCrash, Stopped, HasTrouble, RunAgain, BeginScript, Ask, SkipItem, SaveItem, InsertRange
    <2>. QED  BY <2>1, ScriptFacts DEF RepairTypeOK
  <1>a. /\ row \in [Item -> Int] /\ written \in Nat /\ begun \in Nat /\ begun <= written
        /\ from \in Nat /\ until \in Nat
        /\ \A i \in Item : i \in Nat /\ i >= 1
        /\ \A t \in todo : t.item \in Item /\ t.at \in t.item..written
        /\ \A d \in doing : d.item \in Item
    BY ItemFact DEF RepairTypeOK, RestInv
  <1>. SUFFICES ASSUME ByItems, Running', ~Disturbed', NEW i \in Item
                PROVE  /\ Untouched(i)'
                       /\ stage' = "walk" /\ ~skipped' /\ Mends(i)' => (Due(i) \/ InHand(i) \/ row[i] = Goal(i))'
    BY <1>0 DEF ProgressInv, ByItems
  <1>. DEFINE Fine == /\ Untouched(i)'
                      /\ stage' = "walk" /\ ~skipped' /\ Mends(i)' => (Due(i) \/ InHand(i) \/ row[i] = Goal(i))'
  <1>b. ASSUME Running
        PROVE  /\ ~Disturbed /\ Untouched(i)
               /\ stage = "walk" /\ ~skipped /\ Mends(i) => Due(i) \/ InHand(i) \/ row[i] = Goal(i)
               /\ InHand(i) /\ script.walk # "repeat" => ~Due(i)
    <2>1. ~Disturbed
      BY <1>b, StillCalm
    <2>. QED  BY <1>b, <2>1 DEF ProgressInv, ItemInv
  <1>c. script.imported
    BY <1>0 DEF Sane, ByItems
  <1>1. CASE ChainEndMoves
    <2>1. /\ written' = written /\ stage' = stage /\ until' = until /\ from' = from /\ begun' = begun
          /\ before' = before /\ skipped' = skipped /\ todo' = todo /\ doing' = doing /\ row' = row
      BY <1>1 DEF ChainEndMoves, walkVars, pastVars
    <2>2. Running /\ (Mends(i)' <=> Mends(i)) /\ Goal(i)' = Goal(i)
      BY <1>0, <2>1, SameMends DEF Running
    <2>. QED  BY <1>0, <1>b, <2>1, <2>2 DEF Untouched, InHand, Due
  <1>2. CASE ImportsNext
    <2>1. /\ stage' = stage /\ until' = until /\ from' = from /\ begun' = begun /\ before' = before
          /\ skipped' = skipped /\ todo' = todo /\ doing' = doing /\ (beside' <=> (beside \/ Running))
      BY <1>2 DEF ImportsNext, walkVars, pastVars
    <2>2. Running /\ (Mends(i)' <=> Mends(i)) /\ script.kind = "fixed"
      BY <1>0, <2>1, SameMends DEF Running, Disturbed
    <2>3. i <= begun => row'[i] = row[i]
      BY <1>2, <1>a, <2>2, ImportFact
    <2>4. i <= begun /\ row[i] = Goal(i) => row'[i] = Goal(i)'
      BY <1>2, <1>a, <2>2, ImportFact
    <2>5. Mends(i) => i <= begun
      BY DEF Mends
    <2>6. script.walk # "repeat" => (Due(i)' <=> Due(i))
      BY <1>0, <2>1 DEF Due, Sane
    <2>7. script.walk = "repeat" => (Due(i)' <=> row'[i] = Missing) /\ (Due(i) <=> row[i] = Missing)
      BY <1>0 DEF Due
    <2>8. InHand(i)' <=> InHand(i)
      BY <2>1 DEF InHand
    <2>. QED  BY <1>0, <1>b, <2>1, <2>2, <2>3, <2>4, <2>5, <2>6, <2>7, <2>8 DEF Untouched
  <1>3. CASE Clear
    <2>1. /\ written' = written /\ stage = "clear" /\ stage' = "walk" /\ until' = until
          /\ from' = from
          /\ begun' = begun /\ before' = before /\ skipped' = skipped
          /\ row'[i] = IF i \in script.clears THEN Missing ELSE row[i]
      BY <1>3 DEF Clear, walkVars, pastVars
    <2>2. Running /\ (Mends(i)' <=> Mends(i)) /\ from = script.from
      BY <1>0, <2>1, SameMends DEF Running, WalkInv
    <2>3. i <= begun => row[i] = before[i]
      BY <1>b, <2>1, <2>2 DEF Untouched
    <2>4. ASSUME Mends(i) PROVE Due(i)'
      <3>1. i <= begun /\ LooksAt(i) /\ (script.finds = "missing" => before[i] = Missing)
        BY <2>4 DEF Mends, ByItems, ByEvents
      <3>2. CASE script.walk = "ranges"
        BY <1>0, <2>1, <2>2, <3>1, <3>2 DEF Due, LooksAt
      <3>3. CASE script.walk = "whole"
        <4>1. from = 0 /\ until = begun
          BY <1>0, <2>1, <2>2, <3>3 DEF Sane, WalkInv, Under
        <4>. QED  BY <1>0, <1>a, <2>1, <3>1, <3>3, <4>1 DEF Due
      <3>4. CASE script.walk = "repeat"
        BY <1>0, <2>1, <2>3, <3>1, <3>4 DEF Sane, Due
      <3>. QED  BY <1>0, <3>2, <3>3, <3>4 DEF Sane
    <2>. QED  BY <1>0, <2>1, <2>2, <2>3, <2>4 DEF Untouched
  <1>4. CASE NextRange
    <2>1. /\ stage' = stage /\ stage = "walk" /\ until' = until /\ written' = written
          /\ todo' = Found /\ doing' = {} /\ todo = {} /\ doing = {} /\ row' = row
          /\ skipped' = skipped
          /\ from' = (IF script.walk = "ranges" THEN from + RangeStep ELSE until)
          /\ begun' = begun /\ before' = before
      BY <1>4 DEF NextRange, pastVars
    <2>2. Running /\ (Mends(i)' <=> Mends(i)) /\ Goal(i)' = Goal(i)
      BY <1>0, <2>1, SameMends DEF Running
    <2>3. script.walk # "repeat" /\ Due(i)' => Due(i)
      <3>1. CASE script.walk = "ranges"
        BY <1>0, <1>a, <2>1, <3>1 DEF Due
      <3>2. CASE script.walk = "whole"
        BY <1>0, <1>a, <2>1, <3>2 DEF Due
      <3>. QED  BY <1>0, <3>1, <3>2 DEF Sane
    <2>4. Untouched(i)'
      BY <1>0, <1>b, <2>1, <2>2, <2>3 DEF Untouched
    <2>5. ASSUME ~skipped, Mends(i), Due(i), ~Due(i)' PROVE InHand(i)'
      <3>1. script.walk # "repeat"
        BY <1>0, <2>1, <2>5 DEF Due
      <3>2. script.walk = "ranges" => i < from + RangeStep
        BY <1>0, <1>a, <2>1, <2>5 DEF Due
      <3>3. [item |-> i, seen |-> row[i], at |-> i] \in Found
        BY <1>b, <2>1, <2>2, <2>5, <3>1, <3>2, MendsFound
      <3>. QED  BY <2>1, <3>3 DEF InHand
    <2>6. ~InHand(i)
      BY <2>1 DEF InHand
    <2>. QED  BY <1>b, <2>1, <2>2, <2>4, <2>5, <2>6
  <1>5. CASE EndScript
    BY <1>5 DEF EndScript, Running
  <1>6. CASE ScriptStops \/ ScriptReturns \/ ScriptCrash
    <2>1. stage' \in {"failed", "done"}
      BY <1>6 DEF ScriptStops, ScriptReturns, ScriptCrash, Stopped
    <2>. QED  BY <2>1 DEF Running
  <1>7. CASE RunAgain
    BY <1>7 DEF RunAgain, Running
  <1>8. ASSUME NEW b \in Num, BeginScript(b) PROVE Fine
    BY <1>8 DEF BeginScript, Untouched
  <1>9. ASSUME NEW t \in todo, Ask(t) PROVE Fine
    <2>. DEFINE d == [item |-> t.item, at |-> t.at, value |-> ValueFor(t),
                      seen |-> IF ByEvents THEN row[t.item] ELSE t.seen]
    <2>1. /\ stage' = stage /\ stage = "walk" /\ until' = until /\ written' = written
          /\ from' = from /\ todo' = todo \ {t} /\ doing' = {d} /\ doing = {} /\ skipped' = skipped
          /\ begun' = begun /\ before' = before
          /\ row' = [row EXCEPT ![t.item] = FirstWrite(t.item)]
      BY <1>9 DEF Ask, pastVars
    <2>2. Running /\ (Mends(i)' <=> Mends(i)) /\ Goal(i)' = Goal(i)
      BY <1>0, <2>1, SameMends DEF Running
    <2>3. CASE i = t.item
      <3>1. InHand(i) /\ InHand(i)'
        BY <2>1, <2>3 DEF InHand
      <3>2. script.walk # "repeat" => ~Due(i)'
        BY <1>0, <1>b, <2>1, <2>2, <3>1 DEF Due, Sane
      <3>. QED  BY <1>0, <2>1, <3>1, <3>2 DEF Untouched
    <2>4. CASE i # t.item
      <3>1. row'[i] = row[i]
        BY <1>a, <2>1, <2>4
      <3>2. InHand(i) => InHand(i)'
        BY <2>1, <2>4 DEF InHand
      <3>3. Due(i)' <=> Due(i)
        BY <1>0, <2>1, <3>1 DEF Due, Sane
      <3>. QED  BY <1>0, <1>b, <2>1, <2>2, <3>1, <3>2, <3>3 DEF Untouched
    <2>. QED  BY <2>3, <2>4
  <1>10. ASSUME NEW t \in todo, SkipItem(t) PROVE Fine
    <2>1. /\ stage' = stage /\ stage = "walk" /\ until' = until /\ from' = from /\ skipped' = TRUE
          /\ begun' = begun /\ before' = before /\ row' = row
      BY <1>10 DEF SkipItem, HasTrouble, pastVars
    <2>2. Running
      BY <2>1 DEF Running
    <2>3. Due(i)' <=> Due(i)
      BY <1>0, <2>1 DEF Due, Sane
    <2>. QED  BY <1>0, <1>b, <2>1, <2>2, <2>3 DEF Untouched
  <1>11. ASSUME NEW d \in doing, SaveItem(d) PROVE Fine
    <2>1. /\ stage' = stage /\ until' = until /\ written' = written /\ skipped' = skipped
          /\ begun' = begun /\ before' = before
          /\ from' = from /\ todo' = todo /\ doing' = {} /\ doing = {d}
          /\ row' = IF Writable(d) THEN [row EXCEPT ![d.item] = d.value] ELSE row
      BY <1>11 DEF SaveItem, pastVars, RestInv
    <2>2. Running /\ (Mends(i)' <=> Mends(i)) /\ Goal(i)' = Goal(i) /\ stage = "walk"
      BY <1>0, <2>1, SameMends DEF Running, RestInv
    <2>3. CASE i = d.item
      <3>1. InHand(i)
        BY <2>1, <2>3 DEF InHand
      <3>2. script.walk # "repeat" => ~Due(i)'
        BY <1>0, <1>b, <2>1, <2>2, <3>1 DEF Due, Sane
      <3>3. ASSUME Mends(i) PROVE row'[i] = Goal(i)'
        <4>1. ~(script.mistakes /\ i \in Odd)
          BY <3>3 DEF Mends
        <4>. QED  BY <1>11, <1>b, <2>2, <2>3, <3>3, <4>1, SavedRight
      <3>. QED  BY <1>0, <2>1, <2>2, <3>2, <3>3 DEF Untouched
    <2>4. CASE i # d.item
      <3>1. row'[i] = row[i]
        BY <1>a, <2>1, <2>4
      <3>2. InHand(i) => InHand(i)'
        BY <2>1, <2>4 DEF InHand
      <3>3. Due(i)' <=> Due(i)
        BY <1>0, <2>1, <3>1 DEF Due, Sane
      <3>. QED  BY <1>0, <1>b, <2>1, <2>2, <3>1, <3>2, <3>3 DEF Untouched
    <2>. QED  BY <2>3, <2>4
  <1>12. ASSUME NEW S \in SUBSET Item, InsertRange(S) PROVE Fine
    <2>. DEFINE items == { t.item : t \in todo }
    <2>1. /\ stage = "walk" /\ until' = until /\ written' = written /\ skipped' = skipped
          /\ begun' = begun /\ before' = before /\ script.write = "insert"
          /\ from' = from /\ todo' = {} /\ doing' = doing /\ doing = {} /\ S \subseteq items
          /\ row'[i] = IF i \in S THEN RightAt(i, written) ELSE row[i]
          /\ stage' = "walk" => S = items
      BY <1>12 DEF InsertRange, pastVars, RestInv
    <2>2. Running /\ (Mends(i)' <=> Mends(i)) /\ Goal(i)' = Goal(i)
      BY <1>0, <2>1, SameMends DEF Running
    <2>3. stage' = "walk"
      BY <1>12 DEF InsertRange, Running
    <2>4. InHand(i) <=> i \in S
      BY <2>1, <2>3 DEF InHand
    <2>5. script.walk = "ranges" /\ (Due(i)' <=> Due(i))
      BY <1>0, <2>1 DEF Due, Sane
    <2>6. CASE i \in S
      <3>1. i <= written
        BY <1>a, <2>1, <2>6
      <3>2. row'[i] = Goal(i)'
        BY <1>c, <2>1, <2>2, <2>6, <3>1, GoalFact
      <3>. QED  BY <1>b, <2>2, <2>3, <2>4, <2>5, <2>6, <3>2 DEF Untouched
    <2>7. CASE i \notin S
      BY <1>0, <1>b, <2>1, <2>2, <2>3, <2>4, <2>5, <2>7 DEF Untouched
    <2>. QED  BY <2>6, <2>7
  <1>. QED
    BY <1>1, <1>2, <1>3, <1>4, <1>5, <1>6, <1>7, <1>8, <1>9, <1>10, <1>11, <1>12 DEF RepairNext
-----------------------------------------------------------------------------
(* Rows that are written anew, and rows that follow events. *)

LEMMA ScriptStays ==
  ASSUME RepairNext
  PROVE  script' = script
  BY DEF RepairNext, ChainEndMoves, ImportsNext, Clear, NextRange, EndScript, ScriptStops,
     ScriptReturns,
         ScriptCrash, Stopped, HasTrouble, RunAgain, BeginScript, Ask, SkipItem, SaveItem, InsertRange

LEMMA ReplaceStep ==
  ASSUME RepairTypeOK, RestInv, WalkInv, ItemInv, ReplaceInv, script.write # "tally", RepairNext
  PROVE  ReplaceInv'
  <1>. USE ConstantFact
  <1>0. script' = script /\ Sane(script)
    BY ScriptStays, ScriptFacts DEF RepairTypeOK
  <1>. SUFFICES ASSUME script.write = "replace", Under', NEW i \in Item, i <= written', Sound(i)'
                PROVE  (row[i] = Goal(i) \/ \E d \in doing : d.item = i)'
    BY <1>0 DEF ReplaceInv
  <1>. DEFINE Fine == (row[i] = Goal(i) \/ \E d \in doing : d.item = i)'
  <1>a. /\ ByItems /\ script.kind = "fixed" /\ script.fails = {} /\ script.clears = {}
        /\ script.imported
        /\ ~script.mistakes /\ ~Disturbed
    BY <1>0 DEF ByItems, Sane, Disturbed
  <1>b. Under /\ i <= written /\ Sound(i) => row[i] = Goal(i) \/ \E d \in doing : d.item = i
    BY DEF ReplaceInv
  <1>c. row \in [Item -> Int] /\ \A t \in todo : t.item \in Item
    BY DEF RepairTypeOK
  <1>1. CASE ChainEndMoves \/ NextRange \/ EndScript
    <2>1. /\ written' = written /\ until' = until /\ begun' = begun /\ before' = before
          /\ doing' = doing
          /\ row' = row /\ Under
      BY <1>1 DEF ChainEndMoves, NextRange, EndScript, walkVars, pastVars, Under
    <2>. QED  BY <1>0, <1>b, <2>1, SameMends
  <1>2. CASE ImportsNext
    <2>1. /\ until' = until /\ begun' = begun /\ before' = before /\ doing' = doing /\ stage' = stage
      BY <1>2 DEF ImportsNext, walkVars, pastVars
    <2>2. Under /\ Sound(i) /\ i \in Int /\ written \in Int
      BY <1>0, <2>1, SameMends, ItemFact DEF Under, RepairTypeOK
    <2>3. CASE i <= written
      <3>1. row[i] = Goal(i) => row'[i] = Goal(i)'
        BY <1>2, <2>3, ImportFact
      <3>. QED  BY <1>b, <2>1, <2>2, <2>3, <3>1
    <2>4. CASE i > written
      <3>1. i = written'
        BY <1>2, <2>2, <2>4, ImportFact
      <3>. QED  BY <1>2, <3>1, ImportFact
    <2>. QED  BY <2>2, <2>3, <2>4
  <1>3. CASE Clear
    <2>1. /\ written' = written /\ until' = until /\ begun' = begun /\ before' = before
          /\ doing' = doing
          /\ row'[i] = row[i] /\ Under
      BY <1>3, <1>a DEF Clear, walkVars, pastVars, Under
    <2>. QED  BY <1>0, <1>b, <2>1, SameMends
  <1>4. CASE ScriptStops \/ ScriptReturns \/ ScriptCrash
    BY <1>4, <1>a DEF ScriptStops, ScriptReturns, ScriptCrash, Stopped, Under
  <1>5. CASE RunAgain
    BY <1>5 DEF RunAgain, Under
  <1>6. ASSUME NEW b \in Num, BeginScript(b) PROVE Fine
    <2>1. begun' = written /\ before' = row /\ row' = row /\ written' = written
      BY <1>6 DEF BeginScript
    <2>2. row[i] = RightAt(i, written) /\ i \in Int /\ written \in Int
      <3>1. i \in Int /\ written \in Int
        BY ItemFact DEF RepairTypeOK
      <3>. QED  BY <1>0, <2>1, <3>1 DEF Sound, RightAt
    <2>3. Goal(i)' = RightAt(i, written)
      BY <1>0, <1>a, <2>1 DEF Goal, RightAt
    <2>. QED  BY <2>1, <2>2, <2>3
  <1>7. ASSUME NEW t \in todo, Ask(t) PROVE Fine
    <2>1. /\ written' = written /\ until' = until /\ begun' = begun /\ before' = before
          /\ doing = {} /\ Under
          /\ row' = [row EXCEPT ![t.item] = FirstWrite(t.item)] /\ \E d \in doing' : d.item = t.item
      BY <1>7 DEF Ask, pastVars, Under
    <2>2. i # t.item => row'[i] = row[i]
      BY <1>c, <2>1
    <2>. QED  BY <1>0, <1>b, <2>1, <2>2, SameMends
  <1>8. ASSUME NEW t \in todo, SkipItem(t) PROVE Fine
    BY <1>8, <1>a DEF SkipItem
  <1>9. ASSUME NEW d \in doing, SaveItem(d) PROVE Fine
    <2>1. /\ written' = written /\ until' = until /\ begun' = begun /\ before' = before
          /\ stage = "walk"
          /\ doing = {d} /\ row' = IF Writable(d) THEN [row EXCEPT ![d.item] = d.value] ELSE row
      BY <1>9 DEF SaveItem, pastVars, RestInv
    <2>2. Running /\ Under /\ Writable(d)
      BY <1>0, <1>a, <2>1 DEF Running, Under, Writable, Sane
    <2>3. row'[d.item] = Goal(d.item)
      BY <1>9, <1>a, <2>2, SavedRight
    <2>4. i # d.item => row'[i] = row[i]
      BY <1>c, <2>1
    <2>5. Goal(i)' = Goal(i) /\ Sound(i)
      BY <1>0, <2>1, SameMends
    <2>. QED  BY <1>b, <2>1, <2>2, <2>3, <2>4, <2>5
  <1>10. ASSUME NEW S \in SUBSET Item, InsertRange(S) PROVE Fine
    BY <1>10 DEF InsertRange
  <1>. QED  BY <1>1, <1>2, <1>3, <1>4, <1>5, <1>6, <1>7, <1>8, <1>9, <1>10 DEF RepairNext

\* What a script that follows events meets while nothing happens beside it.
LEMMA EventScript ==
  ASSUME RepairTypeOK, RestInv, WalkInv, ByEvents, Running, ~Disturbed
  PROVE  /\ script.write # "tally" /\ script.kind = "setting" /\ script.from = 0 /\ ~script.open
         /\ script.finds = "all" /\ script.fails = {"stop"} /\ script.clears = {}
         /\ script.walk = "ranges"
         /\ ~beside /\ written = begun /\ until = begun /\ begun \in Num
         /\ script \in RepairScripts
         /\ script.write \in {"follow", "apply"} /\ ~script.keepsZero
  <1>1. Sane(script) /\ script \in RepairScripts
    BY ScriptFacts DEF RepairTypeOK
  <1>2. /\ script.write # "tally" /\ script.kind = "setting" /\ script.from = 0 /\ ~script.open
        /\ script.finds = "all" /\ script.fails = {"stop"} /\ script.clears = {}
        /\ script.walk = "ranges"
        /\ script.of = "pos" /\ script.write \in {"follow", "apply"} /\ ~script.keepsZero
    BY <1>1 DEF Sane, ByEvents
  <1>3. ~beside
    BY <1>2 DEF Disturbed
  <1>. QED  BY <1>1, <1>2, <1>3 DEF WalkInv, Running, Under, RepairTypeOK

LEMMA EventIs ==
  ASSUME RepairTypeOK, script.write # "tally", NEW i \in Item, NEW m \in Known(i)
  PROVE  m \in Nat /\ m <= begun /\ i < m /\ RightAt(i, m) # RightAt(i, m - 1)
  <1>1. m \in 0..begun /\ i < m /\ RightAt(i, m) # RightAt(i, m - 1) /\ begun \in Nat
    BY EventFact, ConstantFact DEF Known, RepairTypeOK
  <1>. QED  BY <1>1

\* An event is written.
LEMMA EventSaved ==
  ASSUME RepairTypeOK, RestInv, WalkInv, EventInv, ByEvents, Running, ~Disturbed,
         NEW d \in doing, SaveItem(d),
         NEW n \in 0..begun, d.item <= begun, FollowsOn(d.item), Between(d.item, n)'
  PROVE  Carried(d.item, n)'
  <1>. DEFINE i == d.item
              e == d.at
  <1>. USE ConstantFact
  <1>0. /\ script.write # "tally" /\ script \in RepairScripts /\ begun \in Num /\ begun \in Nat
        /\ ~script.keepsZero /\ script.write \in {"follow", "apply"} /\ script' = script
    BY EventScript, ScriptStays DEF SaveItem
  <1>1. /\ i \in Item /\ i \in Nat /\ e \in Known(i) /\ e < from /\ e \in Nat /\ i < e
        /\ e <= begun /\ from \in Nat
        /\ d.value = RightAt(i, e) /\ d.seen = row[i]
        /\ \A t \in todo : e <= t.at /\ (t.item = i => t.at # e)
        /\ e - 1 \in 0..begun /\ e \in Num /\ i \in Num /\ e - 1 \in Num
    <2>1. i \in Item /\ e \in Known(i) /\ e < from /\ from \in Nat
      BY DEF RepairTypeOK, EventInv
    <2>2. e \in Nat /\ e <= begun /\ i < e /\ i \in Nat /\ i \in Num
      BY <1>0, <2>1, EventIs, ItemFact
    <2>. QED  BY <1>0, <2>1, <2>2 DEF EventInv
  <1>2. /\ doing = {d} /\ doing' = {} /\ todo' = todo /\ from' = from /\ begun' = begun
        /\ before' = before
        /\ row' = IF Writable(d) THEN [row EXCEPT ![i] = d.value] ELSE row
        /\ \A t \in todo : t.at \in Nat
    <2>1. \A t \in todo : t.at \in Nat
      BY DEF RestInv
    <2>. QED  BY <2>1 DEF SaveItem, pastVars, RestInv
  <1>3. Known(i)' = Known(i) /\ \A m : RightAt(i, m)' = RightAt(i, m)
    BY <1>0, <1>2 DEF Known, EventsOf, Changes, RightAt
  <1>4. Waits(i, e) /\ ~Waits(i, e)' /\ \A m : m # e => (Waits(i, m)' <=> Waits(i, m))
    BY <1>1, <1>2 DEF Waits
  <1>5. \A m \in Known(i) : m \in Nat /\ (m <= n <=> ~Waits(i, m)')
    <2>1. \A m \in Known(i) : m <= n <=> ~Waits(i, m)'
      BY <1>3 DEF Between
    <2>. QED  BY <1>0, <1>1, <2>1, EventIs
  <1>6. e <= n /\ n \in Nat /\ n \in Num /\ n <= begun
    BY <1>0, <1>1, <1>4, <1>5
  <1>7. \A m \in Known(i) : e < m => Waits(i, m)
    BY <1>1, <1>4 DEF EventInv
  <1>8. Between(i, e - 1)
    <2>. SUFFICES ASSUME NEW m \in Known(i) PROVE m <= e - 1 <=> ~Waits(i, m)
      BY DEF Between
    <2>1. m \in Nat /\ (m <= n <=> ~Waits(i, m)')
      BY <1>5
    <2>2. CASE m < e
      BY <1>1, <1>4, <1>6, <2>1, <2>2
    <2>3. CASE m >= e
      BY <1>1, <1>4, <1>7, <2>1, <2>3
    <2>. QED  BY <1>1, <2>1, <2>2, <2>3
  <1>9. Carried(i, e - 1)
    BY <1>1, <1>8 DEF EventInv
  <1>10. \A m \in Known(i) : ~(e < m /\ m <= n)
    BY <1>1, <1>4, <1>5, <1>7
  <1>. HIDE DEF i, e
  <1>11. RightAt(i, n) = RightAt(i, e)
    <2>1. n \in e..begun /\ i <= e
      BY <1>1, <1>6
    <2>. QED  BY <1>0, <1>1, <1>6, <1>10, <2>1, NoEvent DEF Known
  <1>12. CASE Writable(d)
    <2>1. row'[i] = RightAt(i, n)
      BY <1>1, <1>2, <1>11, <1>12 DEF RepairTypeOK
    <2>. QED  BY <1>3, <2>1 DEF Carried, i
  <1>13. CASE ~Writable(d)
    <2>1. row'[i] = row[i]
      BY <1>2, <1>13
    <2>2. script.write = "follow" /\ row[i] # Missing /\ row[i] # RightAt(i, e - 1)
      BY <1>0, <1>1, <1>13 DEF Writable, i, e
    <2>3. row[i] = RightAt(i, begun)
      <3>1. CASE row[i] \in {RightAt(i, e - 1), RightAt(i, begun)}
        BY <2>2, <3>1
      <3>2. CASE row[i] = before[i] /\ \A m \in Known(i) : e - 1 < m
        <4>1. row[i] \in {Missing, RightAt(i, i), RightAt(i, begun)}
          BY <2>2, <3>2 DEF FollowsOn, i
        <4>2. RightAt(i, e - 1) = RightAt(i, i)
          <5>1. e - 1 \in i..begun /\ i <= i
            BY <1>1, <1>0
          <5>2. \A m \in Known(i) : ~(i < m /\ m <= e - 1)
            BY <1>1, <1>5, <3>2
          <5>. QED  BY <1>0, <1>1, <5>1, <5>2, NoEvent DEF Known
        <4>. QED  BY <2>2, <4>1, <4>2
      <3>. QED  BY <1>9, <3>1, <3>2 DEF Carried
    <2>. QED  BY <1>2, <1>3, <2>1, <2>3 DEF Carried, i
  <1>. QED  BY <1>12, <1>13

\* Nothing of an event changes when its script and the start of the script stay.
LEMMA SameEvents ==
  ASSUME script' = script, begun' = begun, before' = before
  PROVE  /\ \A i : Known(i)' = Known(i)
         /\ \A i, n : RightAt(i, n)' = RightAt(i, n)
         /\ \A i : FollowsOn(i)' <=> FollowsOn(i)
  <1>1. \A i, n : RightAt(i, n)' = RightAt(i, n)
    BY DEF RightAt
  <1>2. \A i : Known(i)' = Known(i)
    BY DEF Known, EventsOf, Changes, RightAt
  <1>. QED  BY <1>1, <1>2 DEF FollowsOn

\* What waits is the same, and so is what is stored.
LEMMA SameWaits ==
  ASSUME RepairTypeOK, RestInv, WalkInv, EventInv, ByEvents, Running, ~Disturbed,
         script' = script, begun' = begun, before' = before, row' = row,
         \A i \in Item : \A m \in Known(i) : Waits(i, m)' <=> Waits(i, m)
  PROVE  /\ \A i, j \in Item : \A n \in Known(i)', m \in Known(j)' : n < m /\ Waits(i, n)' => Waits(j, m)'
         /\ \A i \in Item : \A n \in 0..begun' :
              i <= begun' /\ FollowsOn(i)' /\ Between(i, n)' => Carried(i, n)'
  <1>1. /\ \A i : Known(i)' = Known(i)
        /\ \A i, n : RightAt(i, n)' = RightAt(i, n)
        /\ \A i : FollowsOn(i)' <=> FollowsOn(i)
    BY SameEvents
  <1>2. \A i, j \in Item : \A n \in Known(i)', m \in Known(j)' : n < m /\ Waits(i, n)' => Waits(j, m)'
    BY <1>1 DEF EventInv
  <1>3. ASSUME NEW i \in Item, NEW n \in 0..begun, i <= begun, FollowsOn(i), Between(i, n)'
        PROVE  Carried(i, n)'
    <2>1. Between(i, n)
      BY <1>1, <1>3 DEF Between
    <2>2. Carried(i, n)
      BY <1>3, <2>1 DEF EventInv
    <2>. QED  BY <1>1, <2>2 DEF Carried
  <1>. QED  BY <1>1, <1>2, <1>3

LEMMA EventStep ==
  ASSUME RepairTypeOK, RestInv, WalkInv, EventInv, script.write # "tally", RepairNext
  PROVE  EventInv'
  <1>. USE ConstantFact
  <1>. DEFINE Fine ==
         /\ \A t \in todo : t.at \in Known(t.item) /\ t.at < from
         /\ \A t, u \in todo : t.item = u.item /\ t.at = u.at => t = u
         /\ \A d \in doing :
              /\ d.at \in Known(d.item) /\ d.at < from
              /\ d.value = RightAt(d.item, d.at) /\ d.seen = row[d.item]
              /\ \A t \in todo : d.at <= t.at /\ (t.item = d.item => t.at # d.at)
         /\ \A i, j \in Item : \A n \in Known(i), m \in Known(j) : n < m /\ Waits(i, n) => Waits(j, m)
         /\ \A i \in Item : \A n \in 0..begun : i <= begun /\ FollowsOn(i) /\ Between(i, n) => Carried(i, n)
  <1>0. script' = script
    BY ScriptStays
  <1>. SUFFICES ASSUME ByEvents, Running', ~Disturbed' PROVE Fine'
    BY <1>0 DEF EventInv, ByEvents
  <1>a. ASSUME Running
        PROVE  /\ ~Disturbed /\ Fine
               /\ script.write # "tally" /\ script.kind = "setting" /\ script.from = 0 /\ ~script.open
               /\ script.finds = "all" /\ script.fails = {"stop"} /\ script.clears = {}
               /\ script.walk = "ranges" /\ ~beside /\ written = begun /\ until = begun
               /\ begun \in Num
               /\ script.write \in {"follow", "apply"}
    <2>1. ~Disturbed
      BY <1>a, StillCalm
    <2>2. Fine
      BY <1>a, <2>1 DEF EventInv
    <2>. QED  BY <1>a, <2>1, <2>2, EventScript
  <1>b. row \in [Item -> Int] /\ from \in Nat /\ \A t \in todo : t.item \in Item /\ t.at \in Nat
    BY DEF RepairTypeOK, RestInv
  <1>1. CASE ChainEndMoves
    <2>1. /\ begun' = begun /\ before' = before /\ row' = row /\ from' = from /\ todo' = todo
          /\ doing' = doing
          /\ Running
      BY <1>1 DEF ChainEndMoves, walkVars, pastVars, Running
    <2>2. \A i, m : Waits(i, m)' <=> Waits(i, m)
      BY <2>1 DEF Waits
    <2>. QED  BY <1>0, <1>a, <2>1, <2>2, SameEvents, SameWaits
  <1>2. CASE ImportsNext
    <2>1. Running /\ beside'
      BY <1>2 DEF ImportsNext, Running
    <2>. QED  BY <1>0, <1>a, <2>1 DEF Disturbed
  <1>3. CASE Clear
    <2>1. /\ begun' = begun /\ before' = before /\ from' = from /\ todo' = {} /\ doing' = {}
          /\ todo = {} /\ doing = {} /\ Running
          /\ row' = [i \in Item |-> IF i \in script.clears THEN Missing ELSE row[i]]
      BY <1>3 DEF Clear, walkVars, pastVars, Running, RestInv
    <2>2. row' = row
      BY <1>a, <1>b, <2>1
    <2>3. \A i, m : Waits(i, m)' <=> Waits(i, m)
      BY <2>1 DEF Waits
    <2>. QED  BY <1>0, <1>a, <2>1, <2>2, <2>3, SameWaits
  <1>4. CASE NextRange
    <2>1. /\ begun' = begun /\ before' = before /\ from' = from + RangeStep /\ todo' = Found
          /\ doing' = {}
          /\ todo = {} /\ doing = {} /\ Running /\ row' = row
      BY <1>4, <1>a DEF NextRange, pastVars, Running
    <2>2. from < until
      BY <1>4, <1>a, <2>1 DEF NextRange, MoreToWalk
    <2>3. written \in Nat /\ until = written /\ begun = written /\ written \in Num
      BY <1>a, <2>1
    <2>4. RangeEnd \in Nat /\ RangeEnd <= written /\ RangeEnd < from + RangeStep
          /\ (RangeEnd = written \/ RangeEnd = from + RangeStep - 1)
      BY <1>b, <2>2, <2>3 DEF RangeEnd
    <2>5. \A t \in Found : /\ t = [item |-> t.item, seen |-> row[t.item], at |-> t.at]
                           /\ t.item \in Item /\ t.at \in Known(t.item) /\ t.at < from'
      <3>. SUFFICES ASSUME NEW t \in Found
                    PROVE  /\ t = [item |-> t.item, seen |-> row[t.item], at |-> t.at]
                           /\ t.item \in Item /\ t.at \in Known(t.item) /\ t.at < from'
        OBVIOUS
      <3>1. /\ t = [item |-> t.item, seen |-> row[t.item], at |-> t.at]
            /\ t.item \in Item /\ t.at \in Num /\ t.at <= written /\ Searched(t.at)
            /\ t.at \in EventsOf(t.item, 0, LastNum)
        BY FoundFact
      <3>2. t.at <= RangeEnd
        BY <1>a, <2>1, <3>1 DEF Searched
      <3>3. t.at \in Known(t.item)
        <4>1. LastNum \in Num
          OBVIOUS
        <4>2. t.at \in 0..LastNum /\ t.item < t.at /\ RightAt(t.item, t.at) # RightAt(t.item, t.at - 1)
          BY <3>1, <4>1, EventFact
        <4>3. t.at \in 0..begun
          BY <2>3, <3>1, <4>2
        <4>. QED  BY <2>3, <3>1, <4>2, <4>3, EventFact DEF Known
      <3>. QED  BY <1>b, <2>1, <2>4, <3>1, <3>2, <3>3
    <2>6. \A i \in Item : \A m \in Known(i) : Waits(i, m)' <=> Waits(i, m)
      <3>. SUFFICES ASSUME NEW i \in Item, NEW m \in Known(i) PROVE Waits(i, m)' <=> Waits(i, m)
        OBVIOUS
      <3>1. m \in Nat /\ m <= begun /\ i < m /\ i \in Nat /\ m \in Num /\ m \in 0..LastNum
            /\ RightAt(i, m) # RightAt(i, m - 1)
        BY <1>a, <2>1, EventIs, ItemFact
      <3>2. CASE m < from
        <4>1. ~Waits(i, m)
          BY <1>b, <2>1, <3>1, <3>2 DEF Waits
        <4>2. \A t \in Found : t.at >= from
          BY <1>a, <2>1, FoundFact DEF Searched
        <4>3. ~(from' <= m)
          BY <1>b, <2>1, <3>1, <3>2
        <4>4. ~Waits(i, m)'
          BY <1>b, <2>1, <3>1, <3>2, <4>2, <4>3 DEF Waits
        <4>. QED  BY <4>1, <4>4
      <3>3. CASE from <= m /\ m <= RangeEnd
        <4>1. m \in EventsOf(i, 0, LastNum)
          BY <3>1, EventFact
        <4>2. Searched(m)
          BY <1>a, <2>1, <3>3 DEF Searched
        <4>3. i <= written /\ m <= written
          BY <2>3, <3>1
        <4>a. IsFound(i)
          BY <1>a, <2>1, <4>3 DEF IsFound
        <4>4. [item |-> i, seen |-> row[i], at |-> m] \in Found
          BY <3>1, <4>1, <4>2, <4>3, <4>a, IsFoundIn
        <4>5. Waits(i, m)'
          BY <2>1, <4>4 DEF Waits
        <4>. QED  BY <3>3, <4>5 DEF Waits
      <3>4. CASE m > RangeEnd
        <4>1. from' <= m /\ from <= m
          BY <1>b, <2>1, <2>3, <2>4, <3>1, <3>4
        <4>. QED  BY <4>1 DEF Waits
      <3>. QED  BY <1>b, <2>4, <3>1, <3>2, <3>3, <3>4
    <2>7. \A t, u \in Found : t.item = u.item /\ t.at = u.at => t = u
      BY <2>5
    <2>8. \A t \in todo' : t.at \in Known(t.item)' /\ t.at < from'
      BY <1>0, <2>1, <2>5, SameEvents
    <2>. QED  BY <1>0, <1>a, <2>1, <2>6, <2>7, <2>8, SameWaits
  <1>5. CASE EndScript
    BY <1>5 DEF EndScript, Running
  <1>6. CASE ScriptStops \/ ScriptReturns \/ ScriptCrash
    <2>1. stage' \in {"failed", "done"}
      BY <1>6 DEF ScriptStops, ScriptReturns, ScriptCrash, Stopped
    <2>. QED  BY <2>1 DEF Running
  <1>7. CASE RunAgain
    BY <1>7 DEF RunAgain, Running
  <1>8. ASSUME NEW b \in Num, BeginScript(b) PROVE Fine'
    <2>1. /\ todo' = {} /\ doing' = {} /\ from' = script.from /\ begun' = written /\ before' = row
          /\ row' = row
          /\ script.from = 0 /\ written \in Num
      <3>1. script.from = 0
        BY ScriptFacts DEF RepairTypeOK, Sane, ByEvents
      <3>. QED  BY <1>8, <3>1 DEF BeginScript, RestInv, RepairTypeOK
    <2>2. \A i \in Item : \A m \in Known(i)' : m \in Nat /\ Waits(i, m)'
      <3>1. \A i \in Item : \A m \in EventsOf(i, 0, written) : m \in Nat
        BY <2>1, EventFact
      <3>2. \A i : Known(i)' = EventsOf(i, 0, written)
        BY <1>0, <2>1 DEF Known, EventsOf, Changes, RightAt
      <3>. QED  BY <2>1, <3>1, <3>2 DEF Waits
    <2>3. ASSUME NEW i \in Item, NEW n \in 0..begun', Between(i, n)' PROVE Carried(i, n)'
      <3>1. \A m \in Known(i)' : ~(m <= n)
        BY <2>2, <2>3 DEF Between
      <3>2. \A m \in Known(i)' : n < m
        BY <2>1, <2>2, <3>1
      <3>. QED  BY <2>1, <3>2 DEF Carried
    <2>. QED  BY <2>1, <2>2, <2>3
  <1>9. ASSUME NEW t \in todo, Ask(t) PROVE Fine'
    <2>. DEFINE d == [item |-> t.item, at |-> t.at, value |-> ValueFor(t),
                      seen |-> IF ByEvents THEN row[t.item] ELSE t.seen]
    <2>1. /\ begun' = begun /\ before' = before /\ from' = from /\ todo' = todo \ {t} /\ doing' = {d}
          /\ doing = {} /\ Running /\ row' = [row EXCEPT ![t.item] = FirstWrite(t.item)] /\ IsNext(t)
      BY <1>9 DEF Ask, pastVars, Running
    <2>2. FirstWrite(t.item) = row[t.item]
      BY <1>a, <2>1 DEF FirstWrite
    <2>3. row' = row
      BY <1>b, <2>1, <2>2
    <2>4. d.item = t.item /\ d.at = t.at /\ d.seen = row[t.item] /\ d.value = RightAt(t.item, t.at)
      BY ValueFact
    <2>. HIDE DEF d
    <2>5. /\ \A u \in todo : u.at \in Known(u.item) /\ u.at < from
          /\ \A u, v \in todo : u.item = v.item /\ u.at = v.at => u = v
      BY <1>a, <2>1
    <2>6. \A u \in todo' : u \in todo /\ t.at <= u.at /\ (u.item = t.item => u.at # t.at)
      <3>1. \A u \in todo : t.at <= u.at
        BY <1>b, <2>1 DEF IsNext
      <3>. QED  BY <2>1, <2>5, <3>1
    <2>7. \A i, m : Waits(i, m)' <=> Waits(i, m)
      BY <2>1, <2>4 DEF Waits
    <2>8. /\ \A i : Known(i)' = Known(i)
          /\ \A i, n : RightAt(i, n)' = RightAt(i, n)
      BY <1>0, <2>1, SameEvents
    <2>9. /\ \A i, j \in Item : \A n \in Known(i)', m \in Known(j)' : n < m /\ Waits(i, n)' => Waits(j, m)'
          /\ \A i \in Item : \A n \in 0..begun' :
               i <= begun' /\ FollowsOn(i)' /\ Between(i, n)' => Carried(i, n)'
      BY <1>0, <1>a, <2>1, <2>3, <2>7, SameWaits
    <2>10. \A u \in todo' : u.at \in Known(u.item)' /\ u.at < from'
      BY <2>1, <2>5, <2>6, <2>8
    <2>11. \A u, v \in todo' : u.item = v.item /\ u.at = v.at => u = v
      BY <2>5, <2>6
    <2>12. \A x \in doing' :
             /\ x.at \in Known(x.item)' /\ x.at < from'
             /\ x.value = RightAt(x.item, x.at)' /\ x.seen = row'[x.item]
             /\ \A u \in todo' : x.at <= u.at /\ (u.item = x.item => u.at # x.at)
      BY <2>1, <2>3, <2>4, <2>5, <2>6, <2>8
    <2>. QED  BY <2>9, <2>10, <2>11, <2>12
  <1>10. ASSUME NEW t \in todo, SkipItem(t) PROVE Fine'
    <2>1. Running
      BY <1>10 DEF SkipItem, Running
    <2>. QED  BY <1>10, <1>a, <2>1 DEF SkipItem
  <1>11. ASSUME NEW d \in doing, SaveItem(d) PROVE Fine'
    <2>1. /\ begun' = begun /\ before' = before /\ from' = from /\ todo' = todo /\ doing' = {}
          /\ doing = {d}
          /\ Running /\ row' = IF Writable(d) THEN [row EXCEPT ![d.item] = d.value] ELSE row
      BY <1>11 DEF SaveItem, pastVars, Running, RestInv
    <2>2. /\ \A i : Known(i)' = Known(i)
          /\ \A i, n : RightAt(i, n)' = RightAt(i, n)
          /\ \A i : FollowsOn(i)' <=> FollowsOn(i)
      BY <1>0, <2>1, SameEvents
    <2>3. /\ d.item \in Item /\ d.at \in Known(d.item) /\ d.at < from /\ d.at \in Nat
          /\ \A t \in todo : d.at <= t.at /\ (t.item = d.item => t.at # d.at)
      <3>1. d.item \in Item
        BY DEF RepairTypeOK
      <3>. QED  BY <1>a, <2>1, <3>1, EventIs
    <2>4. \A i, m : i # d.item \/ m # d.at => (Waits(i, m)' <=> Waits(i, m))
      BY <2>1 DEF Waits
    <2>5. ASSUME NEW i \in Item, NEW j \in Item, NEW n \in Known(i), NEW m \in Known(j), n < m, Waits(i, n)'
          PROVE  Waits(j, m)'
      <3>1. n \in Nat /\ m \in Nat
        BY <1>a, <2>1, EventIs
      <3>2. Waits(i, n)
        BY <2>1, <2>5 DEF Waits
      <3>3. Waits(j, m)
        BY <1>a, <2>1, <2>5, <3>2
      <3>4. ~(j = d.item /\ m = d.at)
        <4>. SUFFICES ASSUME m = d.at PROVE FALSE
          OBVIOUS
        <4>1. CASE from <= n
          BY <1>b, <2>3, <2>5, <3>1, <4>1
        <4>2. CASE \E t \in todo : t.item = i /\ t.at = n
          BY <2>3, <2>5, <3>1, <4>2
        <4>. QED  BY <2>1, <2>5, <4>1, <4>2 DEF Waits
      <3>. QED  BY <2>4, <3>3, <3>4
    <2>6. ASSUME NEW i \in Item, NEW n \in 0..begun, i <= begun, FollowsOn(i), Between(i, n)'
          PROVE  Carried(i, n)'
      <3>1. CASE i = d.item
        BY <1>11, <1>a, <2>1, <2>6, <3>1, EventSaved
      <3>2. CASE i # d.item
        <4>1. row'[i] = row[i]
          BY <1>b, <2>1, <2>3, <3>2
        <4>2. Between(i, n)
          BY <2>2, <2>4, <2>6, <3>2 DEF Between
        <4>3. Carried(i, n)
          BY <1>a, <2>1, <2>6, <4>2
        <4>. QED  BY <2>1, <2>2, <4>1, <4>3 DEF Carried
      <3>. QED  BY <3>1, <3>2
    <2>. QED  BY <1>a, <2>1, <2>2, <2>5, <2>6
  <1>12. ASSUME NEW S \in SUBSET Item, InsertRange(S) PROVE Fine'
    BY <1>12 DEF InsertRange, ByEvents
  <1>. QED  BY <1>1, <1>2, <1>3, <1>4, <1>5, <1>6, <1>7, <1>8, <1>9, <1>10, <1>11, <1>12 DEF RepairNext
-----------------------------------------------------------------------------
(* Holdings. *)

\* Blocks with the same quotient are in the same range.
LEMMA SameRange ==
  ASSUME NEW S \in Nat \ {0}, NEW x \in Int, x % S = 0, NEW m \in Int, NEW n \in Int,
         m \div S = n \div S, x <= n + S, n < x
  PROVE  x <= m + S /\ m < x
  <1>1. \A z \in Int : z % S \in 0..(S - 1) /\ z \div S \in Int /\ z = S * (z \div S) + (z % S)
    BY Division
  <1>. DEFINE q == x \div S
              d == n \div S
              r == n % S
              t == m % S
  <1>2. q \in Int /\ d \in Int /\ r \in 0..(S - 1) /\ t \in 0..(S - 1)
    BY <1>1
  <1>3. x = S * q + 0 /\ n = S * d + r /\ m = S * d + t
    BY <1>1
  <1>. HIDE DEF q, d, r, t
  <1>4. S * q \in Int /\ S * d \in Int
    BY <1>2
  <1>5. d < q
    <2>1. CASE d = q
      BY <1>2, <1>3, <1>4, <2>1
    <2>2. CASE q < d
      BY <1>2, <1>3, <1>4, <2>2, MoreTimes
    <2>. QED  BY <1>2, <2>1, <2>2
  <1>6. S * d + S <= S * q
    BY <1>2, <1>5, MoreTimes
  <1>7. S * q <= S * d + S
    <2>1. CASE d + 1 < q
      <3>1. S * (d + 1) = S * d + S
        BY <1>2, Z3
      <3>2. S * (d + 1) + S <= S * q
        BY <1>2, <2>1, MoreTimes
      <3>. QED  BY <1>2, <1>3, <1>4, <3>1, <3>2
    <2>2. CASE d + 1 = q
      <3>1. S * (d + 1) = S * d + S
        BY <1>2, Z3
      <3>. QED  BY <1>4, <2>2, <3>1
    <2>. QED  BY <1>2, <1>5, <2>1, <2>2
  <1>. QED  BY <1>2, <1>3, <1>4, <1>6, <1>7

\* The value of an item all events of which are in the range at hand.
LEMMA TallyRight ==
  ASSUME RepairTypeOK, RestInv, WalkInv, TallyInv, script.write = "tally", stage = "walk", ~beside,
         NEW t \in todo, Mends(t.item)
  PROVE  Gained(t.item) = RightAt(t.item, begun)
  <1>. USE ConstantFact
  <1>. DEFINE i == t.item
  <1>0. i \in Item /\ Sane(script) /\ Running /\ Under /\ from \in Nat
    BY ScriptFacts DEF RestInv, RepairTypeOK, Running, Under
  <1>1. until = begun /\ from % RangeStep = 0 /\ i <= until
    <2>1. script.of = "pos" /\ script.from = 0 /\ script.walk = "ranges"
      BY <1>0 DEF Sane
    <2>2. until = begun /\ (from - 0) % RangeStep = 0
      BY <1>0, <2>1 DEF WalkInv
    <2>3. from - 0 = from
      BY <1>0
    <2>. QED  BY <2>2, <2>3 DEF Mends
  <1>2. t.at \in Known(i) /\ from <= t.at + RangeStep /\ t.at < from
    BY <1>0 DEF TallyInv
  <1>3. \A m, n \in Known(i) : m \div RangeStep = n \div RangeStep
    BY DEF Mends, InOneRange, Known
  <1>4. Known(i) = Changes(i, 0, until)
    BY <1>1 DEF Known, EventsOf
  <1>. HIDE DEF i
  <1>5. \A n \in Known(i) : n \in Int
    BY <1>4 DEF Changes
  <1>6. \A m \in Known(i) : from <= m + RangeStep /\ m < from
    <2>. SUFFICES ASSUME NEW m \in Known(i) PROVE from <= m + RangeStep /\ m < from
      OBVIOUS
    <2>1. m \in Int /\ t.at \in Int /\ m \div RangeStep = t.at \div RangeStep /\ from \in Int
      BY <1>0, <1>2, <1>3, <1>5
    <2>. QED  BY <1>1, <1>2, <2>1, SameRange
  <1>7. InRange(i) = Changes(i, 0, until)
    BY <1>0, <1>4, <1>6, InRangeFact
  <1>8. Gained(i) = RightAt(i, until)
    BY <1>0, <1>1, <1>7, GainedRight
  <1>. QED  BY <1>1, <1>8 DEF i

LEMMA TallyStep ==
  ASSUME RepairTypeOK, RestInv, WalkInv, TallyInv, RepairNext
  PROVE  TallyInv'
  <1>. USE ConstantFact
  <1>0. script' = script /\ Sane(script)
    BY ScriptFacts, ScriptStays DEF RepairTypeOK
  <1>. SUFFICES ASSUME script.write = "tally", Running', ~beside' PROVE TallyInv'
    BY <1>0 DEF TallyInv
  <1>a. /\ script.kind = "amount" /\ script.from = 0 /\ ~script.open /\ script.of = "pos"
        /\ script.finds = "all" /\ script.fails = {} /\ script.asks = "rows" /\ script.clears = {}
        /\ script.walk = "ranges" /\ ~ByEvents
    BY <1>0 DEF Sane, ByEvents
  <1>b. ASSUME UNCHANGED <<until, begun, before>>, NEW i \in Item
        PROVE  (Mends(i)' <=> Mends(i)) /\ Known(i)' = Known(i) /\ RightAt(i, begun)' = RightAt(i, begun)
    <2>1. (Mends(i)' <=> Mends(i)) /\ \A n : RightAt(i, n)' = RightAt(i, n)
      BY <1>0, <1>b, SameMends
    <2>2. Known(i)' = Known(i)
      BY <1>0, <1>b, SameEvents
    <2>. QED  BY <1>b, <2>1, <2>2
  <1>c. /\ \A t \in todo : t.item \in Item
        /\ \A d \in doing : d.item \in Item
        /\ from \in Nat /\ row \in [Item -> Int]
    BY DEF RestInv, RepairTypeOK
  <1>1. CASE ChainEndMoves
    <2>1. UNCHANGED <<until, begun, before, from, todo, doing, row, stage, beside>>
      BY <1>1 DEF ChainEndMoves, walkVars, pastVars
    <2>. QED  BY <1>b, <1>c, <2>1 DEF TallyInv, InHand, Running
  <1>2. CASE ImportsNext
    BY <1>2 DEF ImportsNext, Running
  <1>3. CASE Clear
    <2>1. /\ UNCHANGED <<until, begun, before, from, todo, doing, beside>> /\ Running
          /\ \A i \in Item : row'[i] = row[i]
      BY <1>3, <1>a DEF Clear, walkVars, pastVars, Running
    <2>. QED  BY <1>b, <1>c, <2>1 DEF TallyInv, InHand
  <1>4. CASE NextRange
    <2>1. /\ UNCHANGED <<until, begun, before, row, beside>> /\ Running /\ stage = "walk" /\ todo = {}
          /\ todo' = Found /\ doing' = {} /\ doing = {} /\ from' = from + RangeStep
      BY <1>4, <1>a DEF NextRange, pastVars, Running
    <2>2. written = begun /\ until = begun /\ written \in Num /\ until \in Nat
      BY <1>a, <2>1 DEF WalkInv, Under, RepairTypeOK
    <2>3. \A i \in Item : \A n : n \in Known(i) <=>
                                   n \in EventsOf(i, 0, LastNum) /\ n <= written /\ n \in Num
      BY <2>2 DEF Known, EventsOf, Changes
    <2>4. ASSUME NEW t \in Found
          PROVE  t.item \in Item /\ t.at \in Known(t.item) /\ from <= t.at /\ t.at < from + RangeStep
      <3>1. /\ t.item \in Item /\ t.at \in Num /\ t.at <= written /\ Searched(t.at)
            /\ t.at \in EventsOf(t.item, 0, LastNum)
        BY FoundFact
      <3>2. from <= t.at /\ t.at <= RangeEnd
        BY <1>a, <3>1 DEF Searched
      <3>3. t.at < from + RangeStep
        BY <1>c, <2>2, <3>1, <3>2 DEF RangeEnd
      <3>. QED  BY <2>3, <3>1, <3>2, <3>3
    <2>5. ASSUME NEW i \in Item, NEW n \in Known(i), Mends(i), from <= n, n < from + RangeStep
          PROVE  InHand(i)'
      <3>1. n \in Num /\ n <= written /\ n \in EventsOf(i, 0, LastNum) /\ i <= written
        BY <2>2, <2>3, <2>5 DEF Mends
      <3>2. n <= until
        BY <2>2, <3>1
      <3>3. Searched(n) /\ IsFound(i)
        BY <1>a, <1>c, <2>2, <2>5, <3>1, <3>2 DEF Searched, RangeEnd, IsFound
      <3>4. [item |-> i, seen |-> row[i], at |-> n] \in Found
        BY <3>1, <3>3, IsFoundIn
      <3>. QED  BY <2>1, <3>4 DEF InHand
    <2>6. \A t \in todo' : t.at \in Known(t.item)' /\ from' <= t.at + RangeStep /\ t.at < from'
      <3>. SUFFICES ASSUME NEW t \in Found
                    PROVE  t.at \in Known(t.item)' /\ from' <= t.at + RangeStep /\ t.at < from'
        BY <2>1
      <3>1. t.item \in Item /\ t.at \in Known(t.item) /\ from <= t.at /\ t.at < from + RangeStep
        BY <2>4
      <3>2. t.at \in Nat
        BY <2>3, <3>1
      <3>. QED  BY <1>b, <1>c, <2>1, <3>1, <3>2
    <2>7. ASSUME NEW i \in Item, Mends(i)'
          PROVE  (\E n \in Known(i)' : from' <= n) \/ InHand(i)' \/ row'[i] = RightAt(i, begun)'
      <3>1. Mends(i) /\ Known(i)' = Known(i) /\ RightAt(i, begun)' = RightAt(i, begun)
        BY <1>b, <2>1, <2>7
      <3>2. (\E n \in Known(i) : from <= n) \/ row[i] = RightAt(i, begun)
        BY <2>1, <3>1 DEF TallyInv, InHand
      <3>3. ASSUME NEW n \in Known(i), from <= n
            PROVE  (\E m \in Known(i) : from' <= m) \/ InHand(i)'
        <4>1. n \in Nat
          BY <2>3
        <4>2. CASE n < from + RangeStep
          BY <2>5, <3>1, <3>3, <4>2
        <4>3. CASE from + RangeStep <= n
          BY <2>1, <4>3
        <4>. QED  BY <1>c, <4>1, <4>2, <4>3
      <3>. QED  BY <2>1, <3>1, <3>2, <3>3
    <2>. QED  BY <2>1, <2>6, <2>7 DEF TallyInv
  <1>5. CASE EndScript \/ RunAgain
    BY <1>5 DEF EndScript, RunAgain, Running
  <1>6. CASE ScriptStops \/ ScriptReturns \/ ScriptCrash
    <2>1. stage' \in {"failed", "done"}
      BY <1>6 DEF ScriptStops, ScriptReturns, ScriptCrash, Stopped
    <2>. QED  BY <2>1 DEF Running
  <1>7. ASSUME NEW b \in Num, BeginScript(b) PROVE TallyInv'
    <2>1. todo' = {} /\ doing' = {} /\ from' = 0
      BY <1>7, <1>a DEF BeginScript, RestInv
    <2>2. ASSUME NEW i \in Item, Mends(i)' PROVE \E n \in Known(i)' : from' <= n
      <3>1. EventsOf(i, 0, begun)' # {}
        BY <1>0, <2>2 DEF Mends
      <3>2. PICK n : n \in EventsOf(i, 0, begun)'
        BY <3>1
      <3>3. n \in Known(i)' /\ n \in 0..begun'
        BY <3>2 DEF Known, EventsOf, Changes
      <3>. QED  BY <2>1, <3>3
    <2>. QED  BY <2>1, <2>2 DEF TallyInv
  <1>8. ASSUME NEW t \in todo, Ask(t) PROVE TallyInv'
    <2>1. /\ UNCHANGED <<until, begun, before, from>> /\ Running /\ stage = "walk" /\ ~beside
          /\ todo' = todo \ {t} /\ doing = {}
          /\ row' = [row EXCEPT ![t.item] = FirstWrite(t.item)]
          /\ doing' = { [item |-> t.item, at |-> t.at, value |-> ValueFor(t),
                          seen |-> IF ByEvents THEN row[t.item] ELSE t.seen] }
      BY <1>8 DEF Ask, pastVars, Running
    <2>2. \A i \in Item : row'[i] = row[i]
      BY <1>c, <2>1 DEF FirstWrite
    <2>3. Mends(t.item) => ValueFor(t) = RightAt(t.item, begun)
      BY <2>1, ValueFact, TallyRight
    <2>4. \A d \in doing' : d.item = t.item /\ d.value = ValueFor(t)
      BY <2>1
    <2>5. \E d \in doing' : d.item = t.item
      BY <2>1
    <2>6. \A d \in doing' : Mends(d.item)' => d.value = RightAt(d.item, begun)'
      <3>1. (Mends(t.item)' <=> Mends(t.item)) /\ RightAt(t.item, begun)' = RightAt(t.item, begun)
        BY <1>b, <1>c, <2>1
      <3>. SUFFICES ASSUME NEW d \in doing', Mends(d.item)' PROVE d.value = RightAt(d.item, begun)'
        OBVIOUS
      <3>2. d.item = t.item /\ d.value = ValueFor(t)
        BY <2>4
      <3>3. Mends(t.item)'
        BY <3>2
      <3>. QED  BY <2>3, <3>1, <3>2, <3>3
    <2>7. \A u \in todo' : u.at \in Known(u.item)' /\ from' <= u.at + RangeStep /\ u.at < from'
      BY <1>b, <1>c, <2>1 DEF TallyInv
    <2>8. \A i \in Item : InHand(i) => InHand(i)'
      BY <2>1, <2>5 DEF InHand
    <2>9. \A i \in Item : Mends(i)' =>
            (\E n \in Known(i)' : from' <= n) \/ InHand(i)' \/ row'[i] = RightAt(i, begun)'
      BY <1>b, <2>1, <2>2, <2>8 DEF TallyInv
    <2>. QED  BY <2>6, <2>7, <2>9 DEF TallyInv
  <1>9. ASSUME NEW t \in todo, SkipItem(t) PROVE FALSE
    BY <1>9, <1>a DEF SkipItem
  <1>10. ASSUME NEW d \in doing, SaveItem(d) PROVE TallyInv'
    <2>1. /\ UNCHANGED <<until, begun, before, from, todo>> /\ Running /\ ~beside
          /\ doing' = {} /\ doing = {d} /\ row' = [row EXCEPT ![d.item] = d.value]
      <3>1. Writable(d)
        BY <1>0 DEF Writable, Sane
      <3>. QED  BY <1>10, <3>1 DEF SaveItem, pastVars, Running, RestInv
    <2>2. d.item \in Item /\ (Mends(d.item) => d.value = RightAt(d.item, begun))
      BY <1>c, <2>1 DEF TallyInv
    <2>3. ASSUME NEW i \in Item, Mends(i)
          PROVE  (\E n \in Known(i) : from <= n) \/ InHand(i)' \/ row'[i] = RightAt(i, begun)
      <3>1. CASE i = d.item
        BY <1>c, <2>1, <2>2, <2>3, <3>1
      <3>2. CASE i # d.item
        BY <1>c, <2>1, <2>2, <2>3, <3>2 DEF TallyInv, InHand
      <3>. QED  BY <3>1, <3>2
    <2>4. \A t \in todo' : t.at \in Known(t.item)' /\ from' <= t.at + RangeStep /\ t.at < from'
      BY <1>b, <1>c, <2>1 DEF TallyInv
    <2>5. \A i \in Item : Mends(i)' =>
            (\E n \in Known(i)' : from' <= n) \/ InHand(i)' \/ row'[i] = RightAt(i, begun)'
      BY <1>b, <2>1, <2>3
    <2>. QED  BY <2>1, <2>4, <2>5 DEF TallyInv
  <1>11. ASSUME NEW S \in SUBSET Item, InsertRange(S) PROVE FALSE
    BY <1>11 DEF InsertRange
  <1>. QED  BY <1>1, <1>2, <1>3, <1>4, <1>5, <1>6, <1>7, <1>8, <1>9, <1>10, <1>11 DEF RepairNext
-----------------------------------------------------------------------------
(* The end of a script. *)

\* A script that has ended has been at all blocks it looks at.
LEMMA NotAhead ==
  ASSUME RepairTypeOK, WalkInv, Running, script.walk = "ranges", ~(from < until),
         NEW n \in Nat, LooksAt(n)
  PROVE  n < from
  <1>. USE ConstantFact
  <1>1. from \in Nat /\ until \in Nat /\ script.from \in Nat
    BY ScriptFacts DEF RepairTypeOK, Sane
  <1>2. n <= until /\ (n = until => (until - script.from) % RangeStep # 0)
    BY DEF LooksAt
  <1>3. (from - script.from) % RangeStep = 0
    BY DEF WalkInv, Running, Under
  <1>4. from <= n => until = from /\ n = until
    BY <1>1, <1>2
  <1>. QED  BY <1>1, <1>2, <1>3, <1>4

\* What can be mended is right at the end.
LEMMA ItemsOver ==
  ASSUME RepairTypeOK, RestInv, WalkInv, ProgressInv, ByItems, EndScript, ~skipped, ~Disturbed,
         NEW i \in Item, Mends(i)
  PROVE  row[i] = Goal(i)
  <1>. USE ConstantFact
  <1>0. Sane(script) /\ i \in Nat /\ i \in Num /\ i <= begun /\ begun <= written /\ begun \in Nat /\ written \in Nat
    BY ScriptFacts, ItemFact DEF RepairTypeOK, RestInv, Mends
  <1>1. stage = "walk" /\ Running /\ todo = {} /\ doing = {} /\ ~MoreToWalk
    BY DEF EndScript, Running
  <1>2. Due(i) \/ row[i] = Goal(i)
    BY <1>1 DEF ProgressInv, InHand
  <1>3. ASSUME Due(i) PROVE FALSE
    <2>1. LooksAt(i) /\ ~ByEvents /\ script.write # "tally"
      BY DEF Mends, ByItems, ByEvents
    <2>2. CASE script.walk = "ranges"
      <3>1. i < from
        BY <1>0, <1>1, <2>1, <2>2, NotAhead DEF MoreToWalk
      <3>. QED  BY <1>0, <1>3, <2>2, <3>1 DEF Due, RepairTypeOK
    <2>3. CASE script.walk = "whole"
      BY <1>1, <1>3, <2>3 DEF Due, MoreToWalk
    <2>4. CASE script.walk = "repeat"
      <3>1. row[i] = Missing /\ script.clears = {} /\ script.finds = "missing"
        BY <1>0, <1>3, <2>4 DEF Due, Sane
      <3>2. Searched(i) /\ IsFound(i)
        BY <2>4, <3>1 DEF Searched, IsFound
      <3>3. [item |-> i, seen |-> row[i], at |-> i] \in Found
        BY <1>0, <2>1, <3>2, IsFoundIn
      <3>. QED  BY <1>1, <2>4, <3>3 DEF MoreToWalk
    <2>. QED  BY <1>0, <2>2, <2>3, <2>4 DEF Sane
  <1>. QED  BY <1>2, <1>3

\* So is what follows events that were all looked at.
LEMMA EventsOver ==
  ASSUME RepairTypeOK, RestInv, WalkInv, EventInv, ByEvents, EndScript, ~Disturbed,
         NEW i \in Item, i <= begun, FollowsOn(i), \A m \in Known(i) : LooksAt(m)
  PROVE  row[i] = Goal(i) \/ (row[i] = before[i] /\ Known(i) = {} /\ Goal(i) = RightAt(i, begun))
  <1>. USE ConstantFact
  <1>1. stage = "walk" /\ Running /\ todo = {} /\ doing = {} /\ ~MoreToWalk
    BY DEF EndScript, Running
  <1>2. script.write # "tally" /\ script.walk = "ranges" /\ written = begun /\ begun \in Num /\ begun \in Nat
    BY <1>1, EventScript
  <1>3. \A m \in Known(i) : m \in Nat /\ m <= begun /\ ~(begun < m)
    BY <1>2, EventIs
  <1>4. Between(i, begun)
    <2>. SUFFICES ASSUME NEW m \in Known(i) PROVE m <= begun <=> ~Waits(i, m)
      BY DEF Between
    <2>1. m < from
      BY <1>1, <1>2, <1>3, NotAhead DEF MoreToWalk
    <2>. QED  BY <1>1, <1>3, <2>1 DEF Waits, RepairTypeOK
  <1>5. Carried(i, begun)
    BY <1>1, <1>2, <1>4 DEF EventInv
  <1>6. Goal(i) = RightAt(i, begun)
    BY <1>2, GoalFact
  <1>. QED  BY <1>3, <1>5, <1>6 DEF Carried

\* So is what was tallied.
LEMMA TallyOver ==
  ASSUME RepairTypeOK, RestInv, WalkInv, TallyInv, script.write = "tally", EndScript, ~Disturbed,
         NEW i \in Item, Mends(i)
  PROVE  row[i] = Goal(i)
  <1>. USE ConstantFact
  <1>0. Sane(script) /\ i <= begun /\ begun <= written
    BY ScriptFacts DEF RepairTypeOK, RestInv, Mends
  <1>1. stage = "walk" /\ Running /\ todo = {} /\ doing = {} /\ ~MoreToWalk
    BY DEF EndScript, Running
  <1>2. ~beside /\ script.walk = "ranges" /\ script.imported
    BY <1>0 DEF Sane, Disturbed
  <1>3. written = begun
    BY <1>1, <1>2 DEF WalkInv
  <1>4. \A n \in Known(i) : n \in Nat /\ LooksAt(n) /\ from \in Nat
    BY DEF Mends, Known, EventsOf, Changes, RepairTypeOK
  <1>5. \A n \in Known(i) : ~(from <= n)
    <2>. SUFFICES ASSUME NEW n \in Known(i) PROVE ~(from <= n)
      OBVIOUS
    <2>1. n < from
      BY <1>1, <1>2, <1>4, NotAhead DEF MoreToWalk
    <2>. QED  BY <1>4, <2>1
  <1>6. row[i] = RightAt(i, begun)
    BY <1>1, <1>2, <1>5 DEF TallyInv, InHand
  <1>. QED  BY <1>0, <1>2, <1>3, <1>6 DEF Goal

LEMMA RepairedStep ==
  ASSUME RepairTypeOK, RestInv, WalkInv, ProgressInv, EventInv, TallyInv, Repaired, RepairNext
  PROVE  Repaired'
  <1>. USE ConstantFact
  <1>0. script' = script
    BY ScriptStays
  <1>. SUFFICES ASSUME stage' = "done", ~skipped', ~Disturbed', NEW i \in Item, Mends(i)'
                PROVE  row'[i] = Goal(i)'
    BY DEF Repaired
  <1>. DEFINE Fine == row'[i] = Goal(i)'
  <1>1. CASE ChainEndMoves
    <2>1. /\ written' = written /\ until' = until /\ begun' = begun /\ before' = before /\ row' = row
          /\ stage' = stage /\ skipped' = skipped /\ beside' = beside
      BY <1>1 DEF ChainEndMoves, walkVars, pastVars
    <2>2. Mends(i) /\ Goal(i)' = Goal(i) /\ ~Disturbed
      BY <1>0, <2>1, SameMends DEF Disturbed
    <2>. QED  BY <2>1, <2>2 DEF Repaired
  <1>2. CASE ImportsNext
    <2>1. /\ until' = until /\ begun' = begun /\ before' = before
          /\ stage' = stage /\ skipped' = skipped /\ (beside => beside')
      BY <1>2 DEF ImportsNext, walkVars, pastVars
    <2>2. Mends(i) /\ ~Disturbed
      BY <1>0, <2>1, SameMends DEF Disturbed
    <2>3. row[i] = Goal(i)
      BY <2>1, <2>2 DEF Repaired
    <2>4. i <= written
      BY <2>2, ItemFact DEF Mends, RestInv, RepairTypeOK
    <2>. QED  BY <1>2, <2>3, <2>4, ImportFact
  <1>3. CASE EndScript
    <2>1. /\ written' = written /\ until' = until /\ begun' = begun /\ before' = before /\ row' = row
          /\ skipped' = skipped /\ beside' = beside
      BY <1>3 DEF EndScript, walkVars, pastVars
    <2>2. Mends(i) /\ Goal(i)' = Goal(i) /\ ~Disturbed
      BY <1>0, <2>1, SameMends DEF Disturbed
    <2>3. CASE ByItems
      BY <1>3, <2>1, <2>2, <2>3, ItemsOver
    <2>4. CASE ByEvents
      <3>1. /\ i <= begun /\ Known(i) # {} /\ (\A m \in Known(i) : LooksAt(m)) /\ FollowsOn(i)
        BY <2>2, <2>4 DEF Mends, Known, FollowsOn
      <3>. QED  BY <1>3, <2>1, <2>2, <2>4, <3>1, EventsOver
    <2>5. CASE script.write = "tally"
      BY <1>3, <2>1, <2>2, <2>5, TallyOver
    <2>. QED  BY <2>3, <2>4, <2>5 DEF ByItems, ByEvents
  <1>4. CASE ScriptStops \/ ScriptReturns \/ ScriptCrash
    BY <1>4 DEF ScriptStops, ScriptReturns, ScriptCrash, Stopped
  <1>5. CASE Clear \/ NextRange \/ RunAgain
    BY <1>5 DEF Clear, NextRange, RunAgain
  <1>6. CASE \E b \in Num : BeginScript(b)
    BY <1>6 DEF BeginScript
  <1>7. CASE \E t \in todo : Ask(t) \/ SkipItem(t)
    BY <1>7 DEF Ask, SkipItem
  <1>8. ASSUME NEW d \in doing, SaveItem(d) PROVE FALSE
    BY <1>8 DEF SaveItem, RestInv
  <1>9. ASSUME NEW S \in SUBSET Item, InsertRange(S) PROVE FALSE
    BY <1>9 DEF InsertRange
  <1>. QED  BY <1>1, <1>2, <1>3, <1>4, <1>5, <1>6, <1>7, <1>8, <1>9 DEF RepairNext

LEMMA HarmlessStep ==
  ASSUME RepairTypeOK, RestInv, WalkInv, ItemInv, NoHarm, RepairNext,
         script.write \in {"set", "insert", "hide"},
         NEW i \in Item, i <= written', Sound(i)', ~Disturbed', i \notin script.clears
  PROVE  row'[i] = Goal(i)'
  <1>. USE ConstantFact
  <1>0. script' = script /\ Sane(script) /\ script \in RepairScripts
    BY ScriptStays, ScriptFacts DEF RepairTypeOK
  <1>. DEFINE Fine == row'[i] = Goal(i)'
  <1>a. /\ ByItems /\ script.imported /\ script.write # "tally" /\ ~Spoils(i)
        /\ ~(script.mistakes /\ i \in Odd)
    <2>1. ByItems /\ script.imported /\ script.write # "tally" /\ ~(script.mistakes /\ i \in Odd)
      BY <1>0 DEF ByItems, Sane
    <2>2. ~Spoils(i)
      BY DEF Spoils, ByEvents
    <2>. QED  BY <2>1, <2>2
  <1>b. ASSUME until' = until, begun' = begun, before' = before, beside' = beside, written' = written
        PROVE  row[i] = Goal(i) /\ Goal(i)' = Goal(i) /\ ~Disturbed /\ i <= written /\ Sound(i)
    <2>1. Sound(i) /\ Goal(i)' = Goal(i) /\ ~Disturbed
      BY <1>0, <1>a, <1>b, SameMends DEF Disturbed
    <2>. QED  BY <1>a, <1>b, <2>1 DEF NoHarm
  <1>c. row \in [Item -> Int] /\ i \in Int /\ written \in Int /\ written \in Num
        /\ \A t \in todo : t.item \in Item
    BY ItemFact DEF RepairTypeOK
  <1>1. CASE ChainEndMoves \/ NextRange \/ EndScript \/ RunAgain
    <2>1. /\ until' = until /\ begun' = begun /\ before' = before /\ beside' = beside
          /\ written' = written /\ row' = row
      BY <1>1 DEF ChainEndMoves, NextRange, EndScript, RunAgain, walkVars, pastVars
    <2>. QED  BY <1>b, <2>1
  <1>2. CASE ImportsNext
    <2>1. /\ until' = until /\ begun' = begun /\ before' = before /\ (beside => beside')
      BY <1>2 DEF ImportsNext, walkVars, pastVars
    <2>2. Sound(i) /\ ~Disturbed
      BY <1>0, <1>a, <2>1, SameMends DEF Disturbed
    <2>3. CASE i <= written
      <3>1. row[i] = Goal(i)
        BY <1>a, <2>2, <2>3 DEF NoHarm
      <3>. QED  BY <1>2, <2>3, <3>1, ImportFact
    <2>4. CASE i > written
      <3>1. i = written'
        BY <1>2, <1>c, <2>4, ImportFact
      <3>. QED  BY <1>2, <3>1, ImportFact
    <2>. QED  BY <1>c, <2>3, <2>4
  <1>3. CASE Clear
    <2>1. until' = until /\ begun' = begun /\ before' = before /\ beside' = beside /\ written' = written
          /\ row'[i] = row[i]
      BY <1>3 DEF Clear, walkVars, pastVars
    <2>. QED  BY <1>b, <2>1
  <1>4. CASE ScriptStops \/ ScriptReturns \/ ScriptCrash
    <2>1. /\ until' = until /\ begun' = begun /\ before' = before /\ beside' = beside
          /\ written' = written /\ row' = row
      BY <1>4 DEF ScriptStops, ScriptReturns, ScriptCrash, Stopped, HasTrouble, pastVars
    <2>. QED  BY <1>b, <2>1
  <1>5. ASSUME NEW b \in Num, BeginScript(b) PROVE Fine
    <2>1. begun' = written /\ before' = row /\ row' = row /\ written' = written
      BY <1>5 DEF BeginScript
    <2>2. row[i] = RightAt(i, written)
      BY <1>0, <1>c, <2>1 DEF Sound, RightAt
    <2>3. Goal(i)' = RightAt(i, written)
      BY <1>0, <1>a, <2>1 DEF Goal, RightAt
    <2>. QED  BY <2>1, <2>2, <2>3
  <1>6. ASSUME NEW t \in todo, Ask(t) PROVE Fine
    <2>1. /\ until' = until /\ begun' = begun /\ before' = before /\ written' = written
          /\ stage = "walk"
          /\ row' = [row EXCEPT ![t.item] = FirstWrite(t.item)]
      BY <1>6 DEF Ask, pastVars
    <2>2. Running /\ ~Disturbed /\ Sound(i) /\ Goal(i)' = Goal(i)
      BY <1>0, <1>a, <2>1, SameMends, StillCalm DEF Running
    <2>3. row[i] = Goal(i)
      BY <1>a, <2>1, <2>2 DEF NoHarm
    <2>4. CASE i # t.item
      BY <1>c, <2>1, <2>2, <2>3, <2>4
    <2>5. CASE i = t.item /\ script.write # "hide"
      <3>1. FirstWrite(i) = row[i]
        BY <2>5 DEF FirstWrite
      <3>. QED  BY <1>c, <2>1, <2>2, <2>3, <2>5, <3>1
    <2>6. CASE i = t.item /\ script.write = "hide"
      <3>1. row[i] = Missing
        BY <1>0, <1>a, <2>2, <2>6 DEF ItemInv, Sane
      <3>2. Goal(i) = 1
        BY <1>0, <2>1, <2>6, GoalFact DEF Sane
      <3>3. Missing # 1
        BY DEF Missing
      <3>. QED  BY <2>3, <3>1, <3>2, <3>3
    <2>. QED  BY <2>4, <2>5, <2>6
  <1>7. ASSUME NEW t \in todo, SkipItem(t) PROVE Fine
    <2>1. /\ until' = until /\ begun' = begun /\ before' = before /\ beside' = beside
          /\ written' = written /\ row' = row
      BY <1>7 DEF SkipItem, HasTrouble, pastVars
    <2>. QED  BY <1>b, <2>1
  <1>8. ASSUME NEW d \in doing, SaveItem(d) PROVE Fine
    <2>1. /\ until' = until /\ begun' = begun /\ before' = before /\ beside' = beside
          /\ written' = written
          /\ stage = "walk" /\ row' = IF Writable(d) THEN [row EXCEPT ![d.item] = d.value] ELSE row
      BY <1>8 DEF SaveItem, pastVars, RestInv
    <2>2. row[i] = Goal(i) /\ Goal(i)' = Goal(i) /\ ~Disturbed /\ Running
      BY <1>b, <2>1 DEF Running
    <2>3. CASE i # d.item \/ ~Writable(d)
      BY <1>c, <2>1, <2>2, <2>3 DEF RepairTypeOK
    <2>4. CASE i = d.item /\ Writable(d)
      BY <1>8, <1>a, <2>2, <2>4, SavedRight
    <2>. QED  BY <2>3, <2>4
  <1>9. ASSUME NEW S \in SUBSET Item, InsertRange(S) PROVE Fine
    <2>1. /\ until' = until /\ begun' = begun /\ before' = before /\ beside' = beside
          /\ written' = written
          /\ row'[i] = IF i \in S THEN RightAt(i, written) ELSE row[i]
      BY <1>9 DEF InsertRange, pastVars
    <2>2. row[i] = Goal(i) /\ Goal(i)' = Goal(i) /\ i <= written
      BY <1>b, <2>1
    <2>3. Goal(i) = RightAt(i, written)
      BY <1>a, <2>2, GoalFact
    <2>. QED  BY <2>1, <2>2, <2>3
  <1>. QED  BY <1>1, <1>2, <1>3, <1>4, <1>5, <1>6, <1>7, <1>8, <1>9 DEF RepairNext

LEMMA FollowedStep ==
  ASSUME RepairTypeOK, RestInv, WalkInv, EventInv, NoHarm, RepairNext, ByEvents,
         NEW i \in Item, i <= written', Sound(i)', ~Disturbed', ~Spoils(i)'
  PROVE  row'[i] = Goal(i)'
  <1>. USE ConstantFact
  <1>0. /\ script' = script /\ script.write \in {"follow", "apply"} /\ script.write # "tally"
        /\ script.clears = {} /\ script.fails = {"stop"}
    BY ScriptStays, ScriptFacts DEF RepairTypeOK, Sane, ByEvents
  <1>1. /\ stage' = "done" /\ \A m \in Known(i)' : LooksAt(m)'
    BY <1>0 DEF Spoils, Known, ByEvents
  <1>2. i \in Int /\ written \in Int /\ begun <= written /\ begun \in Int
    BY ItemFact DEF RepairTypeOK, RestInv
  <1>3. ASSUME until' = until, begun' = begun, before' = before, beside => beside'
        PROVE  /\ Sound(i) /\ ~Disturbed /\ (\A m \in Known(i) : LooksAt(m))
               /\ stage = "done" => ~Spoils(i)
               /\ written' = written => Goal(i)' = Goal(i)
    <2>1. Sound(i) /\ ~Disturbed /\ (written' = written => Goal(i)' = Goal(i))
      BY <1>0, <1>3, SameMends DEF Disturbed
    <2>2. \A m : LooksAt(m)' <=> LooksAt(m)
      BY <1>0, <1>3 DEF LooksAt
    <2>3. \A m \in Known(i) : LooksAt(m)
      BY <1>0, <1>1, <1>3, <2>2, SameEvents
    <2>4. stage = "done" => ~Spoils(i)
      BY <1>0, <2>3 DEF Spoils, Known
    <2>. QED  BY <2>1, <2>3, <2>4
  <1>4. CASE ChainEndMoves
    <2>1. /\ until' = until /\ begun' = begun /\ before' = before /\ beside' = beside
          /\ written' = written /\ row' = row
          /\ stage' = stage
      BY <1>4 DEF ChainEndMoves, walkVars, pastVars
    <2>. QED  BY <1>1, <1>3, <2>1 DEF NoHarm
  <1>5. CASE ImportsNext
    <2>1. /\ until' = until /\ begun' = begun /\ before' = before /\ (beside => beside') /\ stage' = stage
      BY <1>5 DEF ImportsNext, walkVars, pastVars
    <2>2. CASE i <= written
      <3>1. row[i] = Goal(i)
        BY <1>1, <1>3, <2>1, <2>2 DEF NoHarm
      <3>. QED  BY <1>5, <2>2, <3>1, ImportFact
    <2>3. CASE i > written
      <3>1. i = written'
        BY <1>5, <1>2, <2>3, ImportFact
      <3>. QED  BY <1>5, <3>1, ImportFact
    <2>. QED  BY <1>2, <2>2, <2>3
  <1>6. CASE EndScript
    <2>1. /\ until' = until /\ begun' = begun /\ before' = before /\ beside' = beside
          /\ written' = written /\ row' = row
          /\ stage = "walk"
      BY <1>6 DEF EndScript, walkVars, pastVars
    <2>2. Sound(i) /\ ~Disturbed /\ (\A m \in Known(i) : LooksAt(m)) /\ Goal(i)' = Goal(i)
      BY <1>3, <2>1
    <2>3. i <= begun
      <3>1. written = begun
        BY <2>1, <2>2, EventScript DEF Running
      <3>. QED  BY <2>1, <3>1
    <2>4. before[i] = RightAt(i, begun)
      BY <1>2, <2>2, <2>3 DEF Sound
    <2>5. FollowsOn(i)
      BY <2>4 DEF FollowsOn
    <2>. QED  BY <1>6, <2>1, <2>2, <2>3, <2>4, <2>5, EventsOver
  <1>7. CASE ScriptStops \/ ScriptReturns \/ ScriptCrash
    BY <1>0, <1>1, <1>7 DEF ScriptStops, ScriptReturns, ScriptCrash, Stopped
  <1>8. CASE Clear \/ NextRange \/ RunAgain
    BY <1>1, <1>8 DEF Clear, NextRange, RunAgain
  <1>9. CASE \E b \in Num : BeginScript(b)
    BY <1>1, <1>9 DEF BeginScript
  <1>10. CASE \E t \in todo : Ask(t) \/ SkipItem(t)
    BY <1>1, <1>10 DEF Ask, SkipItem
  <1>11. ASSUME NEW d \in doing, SaveItem(d) PROVE FALSE
    BY <1>1, <1>11 DEF SaveItem, RestInv
  <1>12. ASSUME NEW S \in SUBSET Item, InsertRange(S) PROVE FALSE
    BY <1>0, <1>12 DEF InsertRange
  <1>. QED  BY <1>4, <1>5, <1>6, <1>7, <1>8, <1>9, <1>10, <1>11, <1>12 DEF RepairNext

LEMMA NoHarmStep ==
  ASSUME RepairTypeOK, RestInv, WalkInv, ItemInv, ReplaceInv, EventInv, NoHarm, RepairNext,
         Repaired'
  PROVE  NoHarm'
  <1>0. script' = script /\ Sane(script)
    BY ScriptStays, ScriptFacts DEF RepairTypeOK
  <1>. SUFFICES ASSUME NEW i \in Item, i <= written', Sound(i)', ~Disturbed', ~Spoils(i)'
                PROVE  row'[i] = Goal(i)'
    BY DEF NoHarm
  <1>1. CASE ByEvents
    BY <1>1, FollowedStep
  <1>2. CASE script.write = "replace"
    <2>1. ReplaceInv' /\ RestInv'
      BY <1>2, TypeStep, ReplaceStep
    <2>2. stage' = "done"
      BY <1>0, <1>2 DEF Spoils
    <2>3. doing' = {} /\ Under'
      BY <2>1, <2>2 DEF RestInv, Under
    <2>. QED  BY <1>0, <1>2, <2>1, <2>3 DEF ReplaceInv
  <1>3. CASE script.write \in {"set", "insert", "hide"}
    <2>1. CASE i \in script.clears
      <3>1. stage' = "done" /\ ~skipped' /\ Mends(i)'
        BY <1>0, <2>1 DEF Spoils
      <3>. QED  BY <3>1 DEF Repaired
    <2>2. CASE i \notin script.clears
      BY <1>3, <2>2, HarmlessStep
    <2>. QED  BY <2>1, <2>2
  <1>4. CASE script.write = "tally"
    BY <1>0, <1>4 DEF Spoils
  <1>. QED  BY <1>0, <1>1, <1>2, <1>3, <1>4 DEF Sane, ByEvents
-----------------------------------------------------------------------------
(* The theorems. *)

LEMMA InvInit ==
  ASSUME RepairInit
  PROVE  Inv
  <1>. USE ConstantFact
  <1>1. RepairTypeOK /\ RestInv
    BY TypeInit
  <1>2. stage = "off" /\ begun = written /\ before = row /\ ~beside
    BY DEF RepairInit
  <1>3. WalkInv /\ ItemInv /\ ProgressInv /\ ReplaceInv /\ EventInv /\ TallyInv
    BY <1>2 DEF WalkInv, ItemInv, ProgressInv, ReplaceInv, EventInv, TallyInv, Under, Running
  <1>4. Repaired
    BY <1>2 DEF Repaired
  <1>5. ASSUME NEW i \in Item, i <= written, Sound(i) PROVE row[i] = Goal(i)
    <2>1. i \in Int /\ written \in Int
      BY <1>1, ItemFact DEF RepairTypeOK
    <2>2. row[i] = RightAt(i, written)
      BY <1>2, <1>5, <2>1 DEF Sound
    <2>. QED  BY <1>1, <1>2, <1>5, <2>2, GoalFact
  <1>6. NoHarm
    BY <1>5 DEF NoHarm
  <1>. QED  BY <1>1, <1>3, <1>4, <1>6 DEF Inv, RepairsHold

LEMMA InvStep ==
  ASSUME Inv, [RepairNext]_repairVars
  PROVE  Inv'
  <1>1. CASE RepairNext
    <2>1. /\ RepairTypeOK /\ RestInv /\ WalkInv /\ ItemInv /\ ProgressInv /\ ReplaceInv
          /\ EventInv /\ TallyInv /\ Repaired /\ NoHarm
      BY DEF Inv, RepairsHold
    <2>2. RepairTypeOK' /\ RestInv'
      BY <1>1, <2>1, TypeStep
    <2>3. WalkInv' /\ TallyInv'
      BY <1>1, <2>1, WalkStep, TallyStep
    <2>4. ItemInv' /\ ProgressInv' /\ ReplaceInv' /\ EventInv'
      <3>1. CASE script.write = "tally"
        <4>1. script' = script
          BY <1>1, <2>1, ScriptStays
        <4>. QED  BY <3>1, <4>1 DEF ItemInv, ProgressInv, ReplaceInv, EventInv, ByItems, ByEvents
      <3>2. CASE script.write # "tally"
        BY <1>1, <2>1, <3>2, ItemStep, ProgressStep, ReplaceStep, EventStep
      <3>. QED  BY <3>1, <3>2
    <2>5. Repaired'
      BY <1>1, <2>1, RepairedStep
    <2>6. NoHarm'
      BY <1>1, <2>1, <2>5, NoHarmStep
    <2>. QED  BY <2>2, <2>3, <2>4, <2>5, <2>6 DEF Inv, RepairsHold
  <1>2. CASE UNCHANGED repairVars
    <2>1. /\ UNCHANGED <<script, written, chainEnd, stage, until, from, todo, doing, row, begun, before>>
          /\ UNCHANGED <<skipped, beside, troubles>>
      BY <1>2 DEF repairVars, walkVars, pastVars
    <2>2. RepairTypeOK'
      BY <2>1 DEF Inv, RepairTypeOK
    <2>3. RestInv' /\ WalkInv'
      BY <2>1 DEF Inv, RestInv, WalkInv, Under, Running
    <2>4. \A i \in Item : /\ Mends(i)' <=> Mends(i)
                          /\ Sound(i)' <=> Sound(i)
                          /\ \A n : RightAt(i, n)' = RightAt(i, n)
                          /\ Goal(i)' = Goal(i)
                          /\ Spoils(i)' <=> Spoils(i)
                          /\ FollowsOn(i)' <=> FollowsOn(i)
                          /\ Untouched(i)' <=> Untouched(i)
                          /\ Due(i)' <=> Due(i)
                          /\ InHand(i)' <=> InHand(i)
      <3>. SUFFICES ASSUME NEW i \in Item
                    PROVE  /\ Mends(i)' <=> Mends(i)
                           /\ Sound(i)' <=> Sound(i)
                           /\ \A n : RightAt(i, n)' = RightAt(i, n)
                           /\ Goal(i)' = Goal(i)
                           /\ Spoils(i)' <=> Spoils(i)
                           /\ FollowsOn(i)' <=> FollowsOn(i)
                           /\ Untouched(i)' <=> Untouched(i)
                           /\ Due(i)' <=> Due(i)
                           /\ InHand(i)' <=> InHand(i)
        OBVIOUS
      <3>1. /\ Mends(i)' <=> Mends(i)
            /\ Sound(i)' <=> Sound(i)
            /\ \A n : RightAt(i, n)' = RightAt(i, n)
            /\ Goal(i)' = Goal(i)
        BY <2>1, SameMends
      <3>2. (Due(i)' <=> Due(i)) /\ (InHand(i)' <=> InHand(i))
        BY <2>1 DEF Due, InHand
      <3>3. Untouched(i)' <=> Untouched(i)
        BY <2>1, <3>2 DEF Untouched
      <3>4. FollowsOn(i)' <=> FollowsOn(i)
        BY <2>1, SameEvents
      <3>5. Spoils(i)' <=> Spoils(i)
        <4>1. \A n : LooksAt(n)' <=> LooksAt(n)
          BY <2>1 DEF LooksAt
        <4>2. EventsOf(i, 0, begun)' = EventsOf(i, 0, begun)
          BY <2>1 DEF EventsOf, Changes, RightAt
        <4>. QED  BY <2>1, <3>1, <4>1, <4>2 DEF Spoils, ByEvents
      <3>. QED  BY <3>1, <3>2, <3>3, <3>4, <3>5
    <2>5. ItemInv'
      BY <2>1, <2>4 DEF Inv, ItemInv, ByItems, Running, Disturbed, RightAt
    <2>6. ProgressInv' /\ ReplaceInv'
      BY <2>1, <2>4 DEF Inv, ProgressInv, ReplaceInv, ByItems, Running, Disturbed, Under
    <2>7. RepairsHold'
      BY <2>1, <2>4 DEF Inv, RepairsHold, Repaired, NoHarm, Disturbed
    <2>8. EventInv'
      <3>1. \A i : Known(i)' = Known(i)
        BY <2>1, SameEvents
      <3>2. \A i, n : RightAt(i, n)' = RightAt(i, n) /\ (Waits(i, n)' <=> Waits(i, n))
        BY <2>1 DEF RightAt, Waits
      <3>3. \A i, n : (Between(i, n)' <=> Between(i, n)) /\ (Carried(i, n)' <=> Carried(i, n))
        BY <2>1, <3>1, <3>2 DEF Between, Carried
      <3>. QED  BY <2>1, <2>4, <3>1, <3>2, <3>3 DEF Inv, EventInv, ByEvents, Running, Disturbed
    <2>9. TallyInv'
      <3>1. \A i : Known(i)' = Known(i)
        BY <2>1, SameEvents
      <3>2. \A t \in todo : t.item \in Item
        BY DEF Inv, RestInv
      <3>3. \A d \in doing : d.item \in Item
        BY DEF Inv, RestInv
      <3>. QED  BY <2>1, <2>4, <3>1, <3>2, <3>3 DEF Inv, TallyInv, Running
    <2>. QED  BY <2>2, <2>3, <2>5, <2>6, <2>7, <2>8, <2>9 DEF Inv
  <1>. QED  BY <1>1, <1>2

\* Types: a script looks at nothing it has not found, and works on one item at a time.
THEOREM RepairTypeCorrect == RepairSpec => []RepairTypeOK
  <1>1. RepairInit => Inv
    BY InvInit
  <1>2. Inv /\ [RepairNext]_repairVars => Inv'
    BY InvStep
  <1>3. Inv => RepairTypeOK
    BY DEF Inv
  <1>. QED  BY <1>1, <1>2, <1>3, PTL DEF RepairSpec

\* The repairs: a script that has ended without leaving anything out has mended all it can mend, and
\* no script makes a right item wrong, whatever fails and wherever it stops.
THEOREM RepairsAreSound == RepairSpec => []RepairsHold
  <1>1. RepairInit => Inv
    BY InvInit
  <1>2. Inv /\ [RepairNext]_repairVars => Inv'
    BY InvStep
  <1>3. Inv => RepairsHold
    BY DEF Inv
  <1>. QED  BY <1>1, <1>2, <1>3, PTL DEF RepairSpec
=============================================================================
