--------------------------- MODULE MCBlockLedger ---------------------------
(* Small chains for BlockLedger, made of one transaction of each kind that is processed in a *)
(* way of its own.  No reward goes from the zero address to the clause's own address: its     *)
(* digest would be that of the clause.                                                         *)
EXTENDS BlockLedger

Call(type, from, to, value, does) ==
  [type |-> type, from |-> from, to |-> to, self |-> from, token |-> "MTR", value |-> value,
   failed |-> FALSE, does |-> does]

Failing(call) == [call EXCEPT !.failed = TRUE]

Log(kind, from, to, token, amount) ==
  [type |-> "LOG", kind |-> kind, from |-> from, to |-> to, token |-> token, amount |-> amount]

Send(from, to, amount) == [type |-> "SEND", from |-> from, to |-> to, token |-> "MTR", value |-> amount]

Clause(kind, to) == [kind |-> kind, to |-> to]

UserTx(clauses, runs) ==
  [origin |-> "a", payer |-> "a", paid |-> 1, reward |-> 1, reverted |-> FALSE,
   clauses |-> clauses, runs |-> runs]

One(clause, run) == UserTx(<< clause >>, << run >>)

Script(does) == Call("SCRIPT", "a", "script", 0, does)

Pay(amount) == [Call("CALL", "a", "b", amount, << >>) EXCEPT !.token = "MTRG"]

onePayment == One(Clause("plain", "b"), Pay(1))

bindMtrg == One(Clause("script", "script"), Script(<< Log("bound", "a", "a", "MTRG", 1) >>))

bindMtr == One(Clause("script", "script"),
               Script(<< Log("bound", "a", "a", "MTR", 2), Log("unbound", "a", "a", "MTR", 1) >>))

\* Pays what it has just unbound.
unbindAndPay == UserTx(<< Clause("script", "script"), Clause("plain", "b") >>,
                       << Script(<< Log("unbound", "a", "a", "MTRG", 3) >>), Pay(3) >>)

\* Passes on what it has just wrapped.
wrapAndSend == UserTx(<< Clause("call", "wmtr"), Clause("call", "wmtr") >>,
  << Call("CALL", "a", "wmtr", 2, << Log("deposit", "a", "a", "none", 2) >>),
     Call("CALL", "a", "wmtr", 0, << Log("ERC20", "a", "b", "none", 2) >>) >>)

\* The contract is paid with an event of the system contract and pays with a transfer.
relay == One(Clause("call", "k"),
  Call("CALL", "a", "k", 0, << Call("CALL", "k", "mtrToken", 0, << Log("ERC20", "a", "k", "none", 2) >>),
                               Call("CALL", "k", "b", 2, << >>) >>))

\* The contract sends first and emits after.
unwrap == One(Clause("call", "wmtr"),
  Call("CALL", "a", "wmtr", 0, << Call("CALL", "wmtr", "a", 1, << >>),
                                  Log("withdrawal", "a", "a", "none", 1) >>))

\* Staking rewards in two clauses, to one account twice.
rewards == [UserTx(<< Clause("script", "script"), Clause("script", "script") >>,
                   << Script(<< Send("fund", "v", 1), Send("fund", "a", 1), Send("fund", "v", 1) >>),
                      Script(<< Send("fund", "v", 1), Log("unbound", "a", "a", "MTRG", 1) >>) >>)
            EXCEPT !.origin = "zero", !.payer = "zero", !.paid = 0, !.reward = 0]

reverted == [One(Clause("call", "k"), Failing(Call("CALL", "a", "k", 1, << Call("CALL", "k", "b", 0, << >>) >>)))
             EXCEPT !.reverted = TRUE]

\* A contract with money, made by another; NFTs; a proxy; a static call.
factory == One(Clause("call", "k"),
  Call("CALL", "a", "k", 1,
    << Log("ERC721", "a", "b", "none", 1),
       Call("CREATE2", "k", "n", 1, << Log("ERC1155", "a", "b", "none", 1) >>),
       Call("STATICCALL", "k", "n", 0, << Call("CALL", "n", "b", 0, << >>) >>),
       Call("DELEGATECALL", "k", "n", 0, << Log("other", "a", "a", "none", 0) >>),
       Log("other", "a", "a", "none", 0) >>))

\* A call of the prototype contract for k; a payment that fails inside.
native == One(Clause("call", "proto"),
  [Call("CALL", "a", "proto", 0, << Log("other", "a", "a", "none", 0),
                                    Failing(Call("CALL", "k", "b", 1, << >>)),
                                    Call("CALL", "k", "n", 0, << Log("other", "a", "a", "none", 0) >>),
                                    Call("CALL", "k", "b", 0, << >>) >>)
   EXCEPT !.self = "k"])

\* The second clause has no trace of its own.
mixed == UserTx(<< Clause("call", "k"), Clause("script", "script") >>,
  << Call("CALL", "a", "k", 1, << Log("other", "a", "a", "none", 0) >>),
     Script(<< Log("bound", "a", "a", "MTR", 1), Send("fund", "a", 1) >>) >>)

Ledger == << onePayment, bindMtrg, bindMtr, unbindAndPay, wrapAndSend, relay, unwrap >>

Others == << rewards, reverted, factory, native, mixed >>

\* The beneficiary: named at first, then nobody, or the other way round.
Payees == << [n \in 0..3 |-> IF n < 2 THEN "v" ELSE "zero"], [n \in 0..3 |-> IF n < 1 THEN "zero" ELSE "v"] >>

Wealth == [cell \in {"zero", "a", "b", "v", "k", "fund", "wmtr", "n"} \X {"MTR", "MTRG", "boundMTR", "boundMTRG", "wmtr"} |->
  CASE cell = <<"a", "MTRG">> -> 3
    [] cell[1] = "a" -> 20
    [] cell \in { <<"fund", "MTR">>, <<"wmtr", "MTR">> } -> 20
    [] OTHER -> 0]

MCStories ==
  [i \in (1..7) \X (1..7) |->
     [start |-> Wealth, payee |-> Payees[(i[2] % 2) + 1], miner |-> "b",
      blocks |-> << << Ledger[i[1]] >>, << Ledger[i[2]], Others[((i[1] + i[2]) % 5) + 1] >>,
                    << (IF i[1] < i[2] THEN unbindAndPay ELSE rewards) >> >>]]
=============================================================================
