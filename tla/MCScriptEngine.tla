--------------------------- MODULE MCScriptEngine ---------------------------
(***************************************************************************)
(* A chain with one auction from start to end and the beginning of the     *)
(* next: a bid by a user, an autobid of an ordinary epoch, and one placed  *)
(* in the very block that ends the auction.                                *)
(***************************************************************************)
EXTENDS ScriptEngine, TLC

CONSTANTS first, second,        \* auctions
          user, auto, lastMinute, \* bids
          validator, other      \* validators

Start(a) == [op |-> "start", auction |-> a]
End_(a)  == [op |-> "end", auction |-> a]
Place(b) == [op |-> "bid", bid |-> b]
Governing == [op |-> "governing"]

MCScript == [n \in Block |->
  CASE n = 1 -> << Start(first) >>
    [] n = 2 -> << Place(user) >>
    [] n = 3 -> << Governing >>
    [] n = 4 -> << Governing, End_(first), Start(second) >>
    [] OTHER -> << >>]

MCBidInfo ==
  user :> [auction |-> first, type |-> "userbid", amount |-> 1, num |-> 2]
  @@ auto :> [auction |-> first, type |-> "autobid", amount |-> 2, num |-> 3]
  @@ lastMinute :> [auction |-> first, type |-> "autobid", amount |-> 4, num |-> 4]

MCTxBlock == 1..4

TwoCrashesOneError == [crash |-> 2, error |-> 1]

OneCrash == [crash |-> 1, error |-> 0]

NoFault == [crash |-> 0, error |-> 0]
=============================================================================
