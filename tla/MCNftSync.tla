------------------------------ MODULE MCNftSync ------------------------------
(* Small chains for NftSync. *)
EXTENDS NftSync, TLC

CONSTANTS
  market,        \* a contract whose owner changes
  vault,         \* a contract whose row has no owner at first
  cat, dog,      \* ERC-721 tokens
  coin,          \* an ERC-1155 token that stays within what the code gets right
  gem,           \* one that does not
  ann, bob       \* holders

E(n, k, i, f, t, v) == [num |-> n, kind |-> k, item |-> i, from |-> f, to |-> t, value |-> v]

OwnershipEvents == { E(1, "owner", market, Zero, ann, 1), E(2, "owner", market, ann, bob, 1),
                     E(3, "owner", market, bob, ann, 1), E(2, "owner", vault, Zero, bob, 1),
                     E(3, "owner", vault, bob, bob, 1) }

MCMaster == (market :> ann @@ vault :> NoOwner)

NoMaster == << >>

\* One token goes back and forth, one is burnt.
Events721 == { E(1, "erc721", cat, Zero, ann, 1), E(2, "erc721", cat, ann, bob, 1),
               E(3, "erc721", cat, bob, ann, 1),
               E(2, "erc721", dog, Zero, ann, 1), E(3, "erc721", dog, ann, Zero, 1) }

\* Parts of a holding are sent to and fro.
CoinEvents == { E(1, "batch", coin, Zero, ann, 3), E(2, "batch", coin, ann, bob, 1),
                E(3, "batch", coin, ann, bob, 1) }

\* A holding that is minted in parts, of which one is sent to its own holder, and then given away.
GemEvents == { E(1, "single", gem, Zero, ann, 1), E(2, "single", gem, Zero, ann, 1),
               E(2, "single", gem, ann, ann, 1), E(2, "single", gem, bob, ann, 1),
               E(3, "single", gem, ann, bob, 2) }

MCEvent == OwnershipEvents \cup Events721 \cup CoinEvents \cup GemEvents

\* Two holders of one token, minted together, one of whom gives everything to the other.
StuckEvent == { E(1, "single", gem, Zero, ann, 1), E(1, "single", gem, Zero, bob, 1),
                E(2, "single", gem, ann, bob, 1) }

EveryFault == [k \in FaultKind |-> 1]

NoFault == [k \in FaultKind |-> 0]
=============================================================================
