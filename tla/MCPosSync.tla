------------------------------ MODULE MCPosSync ------------------------------
(***************************************************************************)
(* Small chains for PosSync: three or four blocks above genesis and rounds *)
(* of at most two, so that both modes of the loop occur.                   *)
(***************************************************************************)
EXTENDS PosSync, TLC

R(c, n, i) == [coll |-> c, num |-> n, id |-> i]

MCBlocks == { R("block", n, 0) : n \in Block }

\* Rows on both sides of the balances in SaveOrder, two committees, one in a block with a
\* transaction, one in a block without, and a withdrawal of a bucket.
MCRow == MCBlocks \cup { R("tx", 1, 0), R("tx", 3, 0), R("committee", 1, 0), R("committee", 2, 0),
                         R("withdraw", 3, 0) }

\* The same chain with a withdrawal of a bucket in block 2.
MCRowWithdraw == MCBlocks \cup { R("tx", n, 0) : n \in 1..MaxBlock } \cup { R("withdraw", 2, 0) }

\* A table of values for blocks 0, 1, 2, ...
Values(s) == [n \in Block |-> s[n + 1]]

CONSTANTS payer,   \* a genesis account that pays fees and is credited in block 3
          dip,     \* a genesis account that spends in block 1 before it has been credited there
          token,   \* a token balance that goes up and down and comes to zero in block 3
          rebased  \* a balance of a rebasing token

Change == payer :> Values(<<5, 4, 4, 6, 6>>) @@ dip :> Values(<<2, 1, 1, 1, 1>>)
            @@ token :> Values(<<0, 5, 8, 0, 3>>) @@ rebased :> Values(<<0, 3, 4, 5, 5>>)

Early == payer :> Values(<<0, -1, 0, 3, 0>>) @@ dip :> Values(<<0, -3, 0, 0, 0>>)
           @@ token :> Values(<<0, 5, 4, -8, 3>>) @@ rebased :> Values(<<0, 3, 0, 0, 0>>)

InBlocks == payer :> {1, 3} @@ dip :> {1} @@ token :> 1..4 @@ rebased :> {1}

MCChain == [a \in BalanceRow |-> Change[a]]

MCFirst == [a \in BalanceRow |-> Early[a]]

MCTouched == [a \in BalanceRow |-> InBlocks[a] \cap Block]

Faults(error, null, crash, straggler) ==
  [error |-> error, null |-> null, crash |-> crash, late |-> straggler]

\* All rows and every fault, two crashes: the run about rows and heads.
CommitLimit == Faults(1, 1, 2, 1)

\* The run about balances: what happens after a null answer is another matter.
LedgerLimit == Faults(1, 0, 2, 1)


OneCrash == Faults(0, 0, 1, 0)

OneError == Faults(1, 0, 0, 0)

MCRowPlain == MCBlocks \cup { R("tx", n, 0) : n \in 1..MaxBlock }

ASSUME GenesisListed

FreshOrSynced == {-1, 0}

Synced == {0}
=============================================================================
