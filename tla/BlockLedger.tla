---------------------------- MODULE BlockLedger ----------------------------
(***************************************************************************)
(* What PosCMD.processBlock and processTx (src/src/cmd/pos.cmd.ts) do to   *)
(* the four balances of an account (src/src/types/accountCache.ts) and to  *)
(* token balances (src/src/types/tokenBalanceCache.ts), and whom they give *)
(* the fees of a block.  The order in which a block is processed is not    *)
(* the order in which it was executed: the movements of a transaction come *)
(* first, then its bound and unbound events, then its fee, and the reward  *)
(* when the block ends.  A balance that becomes negative on this way is    *)
(* asked of the node, which answers with that at the end of the block.     *)
(*                                                                         *)
(* PosSync has the same balances as one number, with the faults: here is   *)
(* no crash, and the caches and the database are one.                      *)
(***************************************************************************)
EXTENDS TxRows

CONSTANTS
  Holder,        \* addresses that hold something
  TokenContract, \* contracts of ERC20 tokens
  Wmtr,          \* the one that wraps MTR
  Stories,       \* the chains considered: [start, blocks, payee, miner], see ChainAssumption
  LastBlock,     \* the highest block number of a chain
  LedgerWindow,  \* LOOP_WINDOW
  NoAnswers      \* how often the node may answer null when asked for the beneficiary

AccountColumn == {"MTR", "MTRG", "boundMTR", "boundMTRG"}

Column == AccountColumn \cup TokenContract

Cell == Holder \X Column

BoundColumn == [MTR |-> "boundMTR", MTRG |-> "boundMTRG"]

ASSUME LedgerAssumption ==
  /\ LastBlock \in Nat /\ LedgerWindow \in Nat \ {0} /\ NoAnswers \in Nat
  /\ ZeroAddress \in Holder /\ Wmtr \in TokenContract
  /\ \A s \in DOMAIN Stories :
       /\ Stories[s].start \in [Cell -> Nat]          \* the balances after block 0
       /\ DOMAIN Stories[s].blocks = 1..LastBlock     \* the transactions of each block
       /\ Stories[s].payee \in [0..LastBlock -> Holder]  \* the parameter of the chain after each block
       /\ Stories[s].miner \in Holder \ {ZeroAddress} \* the beneficiary in the header of each block

VARIABLES
  story,       \* which chain it is, for ever
  mined,       \* the number of its best block
  imported,    \* the head of pos
  phase,       \* what the process is doing
  block, txAt, \* where it is in the chain
  last,        \* the last block of the round
  bulk,        \* fast-forward: one save for the round
  beneficiary, \* beneficiaryCache
  readAt,      \* the head at which it was asked for last
  answered,    \* and whether the node answered then
  noAnswers,   \* how often it did not
  bal,         \* the balances
  late,        \* cells set by the node in this block, and what has been added to them since
  drift,       \* how wrong each cell is
  unsaved      \* the keys of the rows in the caches

position == <<phase, block, txAt, last, bulk>>
payment == <<beneficiary, readAt, answered, noAnswers>>
balances == <<bal, late, drift>>
ledgerVars == <<story, mined, imported, position, payment, balances, unsaved>>

Blocks == Stories[story].blocks

NoKeys == [movement |-> << >>, logEvent |-> << >>, logTransfer |-> << >>, txDigest |-> << >>,
           internalTx |-> << >>, bound |-> << >>, unbound |-> << >>]

LedgerTypeOK ==
  /\ story \in DOMAIN Stories
  /\ mined \in 0..LastBlock /\ imported \in 0..mined
  /\ phase \in {"idle", "read", "process"}
  /\ block \in 0..LastBlock /\ txAt \in Nat /\ last \in 0..LastBlock /\ bulk \in BOOLEAN
  /\ beneficiary \in Holder /\ readAt \in 0..LastBlock /\ answered \in BOOLEAN
  /\ noAnswers \in 0..NoAnswers
  /\ bal \in [Cell -> Int] /\ drift \in [Cell -> Int]
  /\ DOMAIN late \subseteq Cell

LedgerInit ==
  /\ story \in DOMAIN Stories
  /\ mined \in 0..LastBlock /\ imported = 0
  /\ phase = "idle" /\ block = 0 /\ txAt = 0 /\ last = 0 /\ bulk = FALSE
  /\ beneficiary = ZeroAddress /\ readAt = 0 /\ answered = TRUE /\ noAnswers = 0
  /\ bal = Stories[story].start /\ late = << >> /\ drift = [c \in Cell |-> 0]
  /\ unsaved = NoKeys

---------------------------------------------------------------------------
(* The chain. *)

Sum(s) == FoldLeft(+, 0, s)

Flow(l, column, cell) ==
  (IF cell = <<l.to, column>> THEN l.amount ELSE 0) - (IF cell = <<l.from, column>> THEN l.amount ELSE 0)

TokenColumn(address) ==
  CASE address = MtrToken -> "MTR" [] address = MtrgToken -> "MTRG" [] OTHER -> address

\* What a log says about a balance.
Delta(l, cell) ==
  CASE l.kind = "transfer" -> Flow(l, l.token, cell)
    [] l.kind = "ERC20" -> Flow(l, TokenColumn(l.address), cell)
    [] l.kind = "deposit" -> IF cell = <<l.from, Wmtr>> THEN l.amount ELSE 0
    [] l.kind = "withdrawal" -> IF cell = <<l.from, Wmtr>> THEN - l.amount ELSE 0
    [] l.kind = "bound" -> IF cell = <<l.from, l.token>> THEN - l.amount
                           ELSE IF cell = <<l.from, BoundColumn[l.token]>> THEN l.amount ELSE 0
    [] l.kind = "unbound" -> IF cell = <<l.from, l.token>> THEN l.amount
                             ELSE IF cell = <<l.from, BoundColumn[l.token]>> THEN - l.amount ELSE 0
    [] OTHER -> 0

TxDelta(tx, cell) ==
  (IF cell = <<tx.payer, "MTR">> THEN - tx.paid ELSE 0)
  + Sum([c \in DOMAIN Outputs(tx) |-> LET L == Run(tx.runs[c]) IN Sum([i \in DOMAIN L |-> Delta(L[i], cell)])])

\* The script engine earns nothing.
Reward(txs) == Sum([i \in DOMAIN txs |-> IF txs[i].origin = ZeroAddress THEN 0 ELSE txs[i].reward])

\* Whom the chain pays for block n of a story.
Payee(s, n) == LET p == Stories[s].payee[n - 1] IN IF p = ZeroAddress THEN Stories[s].miner ELSE p

\* The balances at the end of each block.
Chain == [s \in DOMAIN Stories |->
  LET B == Stories[s].blocks
      balance[n \in 0..LastBlock] ==
        IF n = 0 THEN Stories[s].start
        ELSE [cell \in Cell |-> balance[n - 1][cell] + Sum([i \in DOMAIN B[n] |-> TxDelta(B[n][i], cell)])
                                + (IF cell = <<Payee(s, n), "MTR">> THEN Reward(B[n]) ELSE 0)]
  IN balance]

\* An account is never in debt, save for that nobody has.
ASSUME ChainAssumption ==
  \A s \in DOMAIN Stories, n \in 0..LastBlock, cell \in Cell : cell[1] # ZeroAddress => Chain[s][n][cell] >= 0

LedgerGrows ==
  /\ mined < LastBlock
  /\ mined' = mined + 1
  /\ UNCHANGED <<story, imported, position, payment, balances, unsaved>>

---------------------------------------------------------------------------
(* The balance caches.  A state s has the balances and what was added late. *)

Put(s, cell, d) ==
  [s EXCEPT !.bal[cell] = @ + d,
            !.late = [c \in DOMAIN @ |-> IF c = cell THEN @[c] + d ELSE @[c]]]

\* A document: the account with all its columns, or the balance of one token.
Document(cell) == IF cell[2] \in AccountColumn THEN {cell[1]} \X AccountColumn ELSE {cell}

\* The node is asked for the state at the head.
BugFix(s, cell, n) ==
  [bal  |-> [c \in Cell |-> IF c \in Document(cell) THEN Chain[story][imported][c] ELSE s.bal[c]],
   late |-> [c \in DOMAIN s.late \cup Document(cell) |-> IF c \in Document(cell) THEN 0 ELSE s.late[c]]]

\* fixAccount, fixTokenBalance: what the node says of block n.
Fix(s, cell, n) ==
  [bal  |-> [c \in Cell |-> IF c \in Document(cell) THEN Chain[story][n][c] ELSE s.bal[c]],
   late |-> [c \in DOMAIN s.late \cup Document(cell) |-> IF c \in Document(cell) THEN 0 ELSE s.late[c]]]

Checked(s, cell, n) == IF s.bal[cell] < 0 THEN Fix(s, cell, n) ELSE s

Minus(s, o, n) ==
  IF o.who = ZeroAddress \/ o.amount <= 0 THEN s
  ELSE Checked(Put(s, <<o.who, o.column>>, - o.amount), <<o.who, o.column>>, n)

Plus(s, o, n) ==
  IF o.amount <= 0 \/ (o.who = ZeroAddress /\ o.column \in TokenContract) THEN s
  ELSE Checked(Put(s, <<o.who, o.column>>, o.amount), <<o.who, o.column>>, n)

\* MTR may become negative and stay so.
Bound(s, o, n) ==
  LET t == Put(Put(s, <<o.who, o.column>>, - o.amount), <<o.who, BoundColumn[o.column]>>, o.amount)
  IN IF o.column = "MTRG" THEN Checked(t, <<o.who, "MTRG">>, n) ELSE t

Unbound(s, o, n) ==
  LET t == Put(Put(s, <<o.who, o.column>>, o.amount), <<o.who, BoundColumn[o.column]>>, - o.amount)
  IN IF o.column = "MTRG" THEN Checked(t, <<o.who, "boundMTRG">>, n) ELSE t

Op(op, who, column, amount) == [op |-> op, who |-> who, column |-> column, amount |-> amount]

Moves(column, m) == << Op("minus", m.from, column, m.amount), Op("plus", m.to, column, m.amount) >>

\* updateMovements; no balances of NFTs.
MovementOps(m) ==
  CASE m.token \in {"MTR", "MTRG"} -> Moves(m.token, m)
    [] m.token = "ERC20" -> Moves(TokenColumn(m.address), m)
    [] OTHER -> << >>

\* updateWMTR; the transfer of MTR that comes with it is among the movements.
WmtrOps(tx) ==
  LET Wrapped(l) == l.kind \in {"deposit", "withdrawal"} /\ l.address = Wmtr
      E == FlattenSeq([c \in DOMAIN Outputs(tx) |-> SelectSeq(Events(tx.runs[c]), Wrapped)])
  IN [i \in DOMAIN E |-> Op(IF E[i].kind = "deposit" THEN "plus" ELSE "minus", E[i].from, Wmtr, E[i].amount)]

\* handleBound, handleUnbound, in the order of the events.
BoundOps(tx) ==
  LET E == FlattenSeq([c \in DOMAIN Outputs(tx) |->
             SelectSeq(Events(tx.runs[c]), LAMBDA l : l.kind \in {"bound", "unbound"})])
  IN [i \in DOMAIN E |-> Op(E[i].kind, E[i].from, E[i].token, E[i].amount)]

FeeOps(tx) == << Op("minus", tx.payer, "MTR", tx.paid) >>

TxOps(tx) ==
  LET M == Movements(tx)
  IN FlattenSeq([i \in DOMAIN M |-> MovementOps(M[i])]) \o WmtrOps(tx) \o BoundOps(tx) \o FeeOps(tx)

Do(s, o, n) == CASE o.op = "minus"   -> Minus(s, o, n)
                 [] o.op = "plus"    -> Plus(s, o, n)
                 [] o.op = "bound"   -> Bound(s, o, n)
                 [] o.op = "unbound" -> Unbound(s, o, n)

DoAll(ops) == FoldLeft(LAMBDA s, o : Do(s, o, block), [bal |-> bal, late |-> late], ops)

---------------------------------------------------------------------------
(* The loop. *)

\* updateTxFeeBeneficiary: at the head.  Without an answer the old one stays.
ReadBeneficiary ==
  /\ phase = "idle"
  /\ readAt' = imported
  /\ \/ /\ beneficiary' = Stories[story].payee[imported]
        /\ answered' = TRUE
        /\ UNCHANGED noAnswers
     \/ /\ noAnswers < NoAnswers
        /\ noAnswers' = noAnswers + 1
        /\ answered' = FALSE
        /\ UNCHANGED beneficiary
  /\ phase' = "read"
  /\ UNCHANGED <<story, mined, imported, block, txAt, last, bulk, balances, unsaved>>

NoNewBlock ==
  /\ phase = "read"
  /\ mined = imported
  /\ phase' = "idle"
  /\ UNCHANGED <<story, mined, imported, block, txAt, last, bulk, payment, balances, unsaved>>

BeginImport ==
  /\ phase = "read"
  /\ imported < mined
  /\ last' = Min({mined, imported + LedgerWindow})
  /\ bulk' = (imported + LedgerWindow < mined)
  /\ block' = imported + 1
  /\ txAt' = 1
  /\ phase' = "process"
  /\ UNCHANGED <<story, mined, imported, payment, balances, unsaved>>

\* The keys of a transaction, behind the block and the place of the transaction in it.
Tagged(keys) == [i \in DOMAIN keys |-> <<block, txAt, keys[i]>>]

\* Its traces may be missing for any of its clauses.
ProcessNextTx ==
  /\ phase = "process"
  /\ txAt <= Len(Blocks[block])
  /\ LET tx == Blocks[block][txAt]
         s == DoAll(TxOps(tx))
     IN /\ \E lost \in { {}, DOMAIN tx.clauses } :
             unsaved' = [k \in DOMAIN unsaved |-> unsaved[k] \o Tagged(Keys(tx, lost)[k])]
        /\ bal' = s.bal /\ late' = s.late
  /\ txAt' = txAt + 1
  /\ UNCHANGED <<story, mined, imported, phase, block, last, bulk, payment, drift>>

Paid == IF beneficiary = ZeroAddress THEN Stories[story].miner ELSE beneficiary

RewardOps ==
  IF Reward(Blocks[block]) = 0 THEN << >> ELSE << Op("plus", Paid, "MTR", Reward(Blocks[block])) >>

\* What was added late stays wrong, and so does a reward in the wrong place.
DriftAfter(s) ==
  [c \in Cell |->
     IF c \in DOMAIN s.late THEN s.late[c]
     ELSE drift[c] + (IF c = <<Paid, "MTR">> THEN Reward(Blocks[block]) ELSE 0)
                   - (IF c = <<Payee(story, block), "MTR">> THEN Reward(Blocks[block]) ELSE 0)]

\* The reward, and the rest of the round: saved block by block, or at its end.
EndBlock ==
  /\ phase = "process"
  /\ txAt > Len(Blocks[block])
  /\ LET s == DoAll(RewardOps)
     IN /\ bal' = s.bal /\ late' = << >> /\ drift' = DriftAfter(s)
  /\ IF bulk /\ block < last
     THEN UNCHANGED <<imported, unsaved>>
     ELSE imported' = block /\ unsaved' = NoKeys
  /\ IF block < last
     THEN phase' = "process" /\ block' = block + 1 /\ txAt' = 1
     ELSE phase' = "idle" /\ UNCHANGED <<block, txAt>>
  /\ beneficiary' = IF bulk /\ block = last THEN ZeroAddress ELSE beneficiary
  /\ UNCHANGED <<story, mined, last, bulk, readAt, answered, noAnswers>>

LedgerProgram == ReadBeneficiary \/ NoNewBlock \/ BeginImport \/ ProcessNextTx \/ EndBlock

LedgerNext == LedgerProgram \/ LedgerGrows

LedgerSpec == LedgerInit /\ [][LedgerNext]_ledgerVars

---------------------------------------------------------------------------
(* What it is for. *)

BetweenBlocks == phase # "process" \/ txAt = 1

\* After each block a balance is that of the chain, but for what the same block did to it after
\* the node was asked, in the last block in which it was, and for rewards in the wrong place
\* since.  That of an account that was never overdrawn on the way is exact in all four columns.
BalancesTracked ==
  BetweenBlocks =>
    LET n == IF phase = "process" THEN block - 1 ELSE imported
    IN \A c \in Cell : c[1] # ZeroAddress => bal[c] = Chain[story][n][c] + drift[c]

\* The fees of a block go to the account the chain pays, unless that has changed since the
\* beginning of the round, or the node did not answer then.
FeesInPlace ==
  phase = "process" /\ answered =>
    \/ Paid = Payee(story, block)
    \/ \E n \in (readAt + 1)..(block - 1) : Stories[story].payee[n] # Stories[story].payee[n - 1]

\* Nothing is wrong in an account or token row that these two do not account for, although the
\* order in which a block is processed is not that in which it was executed.
BalancesExplained == BalancesTracked /\ FeesInPlace

\* No two rows of a batch have the same key.
NoClash == \A k \in DOMAIN unsaved : NoRepeats(unsaved[k])

\* Every log of a clause is listed once and in the order of its kind; with the trace, in the order of
\* execution, as far as a trace can tell.
LogsOrdered ==
  phase = "process" /\ txAt <= Len(Blocks[block]) =>
    LET tx == Blocks[block][txAt]
    IN \A c \in DOMAIN Outputs(tx), lost \in SUBSET DOMAIN tx.clauses :
         /\ ListsAll(LogOrder(tx, lost, c), Events(tx.runs[c]), Transfers(tx.runs[c]))
         /\ c \in Traces(tx, lost) /\ Loud(tx.runs[c], {}) => LogOrder(tx, lost, c) = Executed(tx.runs[c])

\* Whatever the traces and whatever a transaction does, no unique index refuses one of its rows,
\* which would stop the import for ever, and none of its logs is lost, repeated or out of order.
LogsKept == NoClash /\ LogsOrdered
=============================================================================
