------------------------- MODULE MCReadAndRepair -------------------------
(***************************************************************************)
(* Small instances of ApiReads and Repairs, for which the import is what   *)
(* happens beside them.  They share no state: a behaviour is of one of     *)
(* them.                                                                   *)
(*                                                                         *)
(* For ApiReads: three blocks, the second of them a K block, after which  *)
(* a new epoch begins; an ERC-20 token and an ERC-1155 contract from the   *)
(* first block, the latter destroyed and created again in the second and   *)
(* the third, an NFT contract created in the third; the client's account   *)
(* is a party to a transfer of each in every block that has one, and of    *)
(* two in one block.                                                       *)
(***************************************************************************)
EXTENDS ApiReads, Repairs, TLC

VARIABLE actor    \* the one the behaviour is of

R(in, block, tx, pos, kind, of, token) ==
  [in |-> in, block |-> block, tx |-> tx, pos |-> pos, kind |-> kind, of |-> of, token |-> token]

MCRow ==
  { R("block", n, 0, 0, IF n = 2 THEN "K" ELSE "M", {"me"}, "none") : n \in 1..3 }
  \cup { R("tx", n, 1, 0, "tx", {"me", "coin"}, "none") : n \in 1..3 }
  \cup { R("tx", 3, 2, 0, "tx", {"art"}, "none") }
  \cup { R("txDigest", n, 1, 0, "tx", {"me", "coin"}, "none") : n \in 1..3 }
  \cup { R("txDigest", 3, 2, 0, "tx", {"me", "art"}, "none") }
  \cup { R("movement", n, 1, 0, "ERC20", {"me", "art"}, "coin") : n \in 1..3 }
  \cup { R("movement", 1, 1, 1, "ERC20", {"me"}, "coin"),
         R("movement", 1, 1, 2, "ERC1155", {"me"}, "multi"),
         R("movement", 2, 1, 2, "ERC1155", {"me"}, "multi"),
         R("movement", 3, 2, 1, "ERC721", {"me"}, "art"),
         R("movement", 3, 2, 2, "ERC721", {"me"}, "art") }
  \cup { R("contract", 1, 1, 0, "ERC20", {}, "coin"),
         R("contract", 1, 1, 0, "ERC1155", {}, "multi"),
         R("contract", 2, 2, 0, "ERC1155", {}, "multi"),
         R("contract", 3, 1, 0, "ERC1155", {}, "multi"),
         R("contract", 3, 2, 0, "ERC721", {}, "art") }
  \cup { R("internalTx", n, 1, 0, "call", {"me", "art"}, "none") : n \in 1..3 }
  \cup { R("logEvent", n, 1, 0, "event", {}, "coin") : n \in 1..3 }
  \cup { R("committee", 1, 0, 1, "none", {}, "none"),
         R("committee", 3, 0, 2, "none", {}, "none") }
  \cup { R("account", 1, 0, 0, "none", {"me"}, "none"),
         R("account", 2, 0, 0, "none", {"other"}, "none") }
  \cup { R("tokenBalance", 1, 0, 0, "none", {"me"}, "coin"),
         R("tokenBalance", 2, 0, 0, "none", {"other"}, "coin"),
         R("tokenBalance", 1, 0, 0, "none", {"me"}, "multi"),
         R("tokenBalance", 3, 0, 0, "none", {"me"}, "art") }
  \cup { R("nft", 3, 2, 1, "ERC721", {"me"}, "art"),
         R("nft", 3, 2, 2, "ERC721", {"other"}, "art"),
         R("nft", 1, 1, 2, "ERC1155", {"me"}, "multi") }
  \cup { R("auction", 1, 0, 0, "past", {}, "auction"),
         R("auction", 2, 0, 0, "past", {}, "later") }
  \cup { R("bid", 1, 0, 1, "userbid", {"me"}, "auction"),
         R("bid", 2, 0, 1, "autobid", {"me"}, "auction") }
  \cup { R("epochReward", 2, 0, 1, "autobid", {}, "none"),
         R("epochReward", 2, 0, 1, "transfer", {}, "none"),
         R("epochRewardSummary", 1, 0, 0, "none", {}, "none"),
         R("epochRewardSummary", 2, 0, 1, "none", {}, "none") }
  \cup { R("bucket", n, 0, 0, "none", {"me"}, "none") : n \in 1..3 }
  \cup { R("validator", n, 0, 0, "jailed", {}, "none") : n \in 1..2 }
  \cup { R("validator", 0, 0, 0, "delegate", {}, "none") }

ByNum(s) == [n \in Num |-> s[n + 1]]

\* An amount that grows, one that comes and goes, one that grows at the end; a setting that is
\* changed, changed back and changed again, one that stays, one that changes at the end.
MCAmount == 1 :> ByNum(<< 0, 1, 1, 2, 2 >>) @@ 2 :> ByNum(<< 0, 0, 1, 0, 0 >>)
              @@ 3 :> ByNum(<< 0, 0, 0, 1, 3 >>)

MCSetting == 1 :> ByNum(<< 0, 1, 2, 1, 3 >>) @@ 2 :> ByNum(<< 0, 0, 1, 1, 1 >>)
               @@ 3 :> ByNum(<< 0, 0, 0, 1, 2 >>)

\* Any state of the one that does not run will do.
MCInit ==
  /\ actor \in {"client", "script"}
  /\ Init
  /\ actor # "client" => handler = TxAlone
  /\ RepairInit
  /\ actor # "script" => /\ script = restoreRank /\ written = LastNum - 1
                        /\ row = [i \in Item |-> RightAt(i, written)]

Sees(C) == { r.in : r \in rows } \cap C # {}

\* The import, or the program behind it, is left where it is when the client sees none of its rows.
Read ==
  /\ actor = "client" /\ Next
  /\ { r.in : r \in rows } \subseteq Refreshed => UNCHANGED importVars
  /\ ~Sees(Followers) => UNCHANGED followerVars
  /\ UNCHANGED <<repairVars, actor>>

Repair == actor = "script" /\ RepairNext /\ UNCHANGED <<vars, actor>>

MCSpec == MCInit /\ [][Read \/ Repair]_<<vars, repairVars, actor>>

MCTypeOK == TypeOK /\ RepairTypeOK
=============================================================================
