----------------------------- MODULE MCServices -----------------------------
(* Small chains for RebaseSender, PowSync and MetricJobs, and those of MCBlockLedger.  The four  *)
(* share no state and no chain, so nothing is gained by interleaving them: a behaviour is of one *)
(* of them.                                                                                      *)
EXTENDS RebaseSender, PowSync, MetricJobs, MCBlockLedger, TLC

CONSTANTS
  pay, fee, tip1, change,     \* transactions of the proof-of-work chain
  val1, val2, rich, poor      \* validators and accounts of the metric process

VARIABLE service    \* the one that runs

\* pay is mined at height 1, or at height 2 of the other branch.
MCTxOf == << << << pay >>, << fee >> >>, << << change >>, << pay, tip1 >> >>, << << tip1 >>, << >> >> >>

Branches(s) == [b \in {0, 1} |-> s[b + 1]]

MCTxOfBranch == [h \in 1..3 |-> Branches(MCTxOf[h])]

MCPowLimit == [f \in PowFault |-> 1]

\* Nothing happens on this chain.
Quiet == [candidates |-> << {}, {} >>, jailed |-> << {}, {} >>, delegates |-> << {}, {} >>,
          stats |-> << val1 :> 0 @@ val2 :> 0, val1 :> 0 @@ val2 :> 0 >>,
          figure |-> << 0, 0 >>, price |-> << 0, 0 >>]

Evolving == [Quiet EXCEPT
  !.candidates = << {val1}, {val1, val2} >>,
  !.delegates = << {val1}, {val1, val2} >>,
  !.jailed = << {}, {val2} >>,
  !.stats = << val1 :> 1 @@ val2 :> 0, val1 :> 0 @@ val2 :> 2 >>]

Trading == [Quiet EXCEPT !.figure = << 0, 1 >>, !.price = << 1, 2 >>]

Of(x, y) == rich :> x @@ poor :> y

NoFortune == << [mtr |-> Of(0, -1), mtrg |-> Of(0, -1)], [mtr |-> Of(0, -1), mtrg |-> Of(0, -1)] >>

\* They change places, and poor only appears as an account of MTRG at block 1.
Fortunes == << [mtr |-> Of(3, 2), mtrg |-> Of(1, -1)], [mtr |-> Of(2, 3), mtrg |-> Of(1, 1)] >>

\* Blocks are numbered from 0.
ByBlock(s) == [n \in Clock |-> s[n + 1]]

OneWorld(answer, total, supply) ==
  [answer |-> [k \in Key |-> ByBlock(answer[k])], total |-> ByBlock(total), supply |-> ByBlock(supply)]

Faulty(w, ill, e, n, c) ==
  [answer |-> w.answer, total |-> w.total, supply |-> w.supply,
   ill |-> ill, limit |-> [error |-> e, null |-> n, crash |-> c]]

\* Each fault where it matters: validators with each of them, ranks and supply with an error and a
\* crash, prices with an error, alerts with a crash.
MCWorlds ==
  LET Staking == OneWorld(Evolving, NoFortune, << 0, 0 >>)
  IN << Faulty(Staking, FALSE, 1, 0, 0),
        Faulty(Staking, FALSE, 0, 1, 0),
        Faulty(Staking, FALSE, 0, 0, 1),
        Faulty(OneWorld(Quiet, Fortunes, << 1, 2 >>), FALSE, 1, 0, 1),
        Faulty(OneWorld(Trading, NoFortune, << 0, 0 >>), FALSE, 1, 0, 0),
        Faulty(OneWorld(Quiet, NoFortune, << 0, 0 >>), TRUE, 0, 0, 1) >>

\* Ranks and supply are not for every turn.
MCPeriod == [j \in Range(Jobs) |-> IF j \in {"ranks", "supply"} THEN 2 ELSE 1]

vars == <<rebaseVars, powVars, ledgerVars, metricVars, service>>

\* Any state of those that do not run will do.
Init ==
  /\ service \in {"rebase", "pow", "ledger", "metric"}
  /\ RebaseInit /\ PowInit /\ LedgerInit /\ MetricInit
  /\ service # "rebase" => tip = -1
  /\ service # "ledger" => story = <<1, 1>> /\ mined = 0
  /\ service # "metric" => world = 1

Rebase == service = "rebase" /\ RebaseNext /\ UNCHANGED <<powVars, ledgerVars, metricVars, service>>

Pow == service = "pow" /\ PowNext /\ UNCHANGED <<rebaseVars, ledgerVars, metricVars, service>>

OneByOne == service = "ledger" /\ LedgerNext /\ UNCHANGED <<rebaseVars, powVars, metricVars, service>>

Measure == service = "metric" /\ MetricNext /\ UNCHANGED <<rebaseVars, powVars, ledgerVars, service>>

\* The loops never stop for long, docker starts the proof-of-work import and the metric process
\* again when they end (restart: unless-stopped), and a write that was sent to the database arrives.
\* Nobody is assumed to start the rebase process, which no compose file knows.
Fairness == /\ WF_rebaseVars(service = "rebase" /\ RebaseLoop)
            /\ WF_powVars(service = "pow" /\ PowProgram)
            /\ WF_metricVars(service = "metric" /\ MetricProgram)
            /\ WF_metricVars(service = "metric" /\ Importing)
            /\ WF_metricVars(service = "metric" /\ PriceLands)

FairSpec == Init /\ [][Rebase \/ Pow \/ OneByOne \/ Measure]_vars /\ Fairness

TypeOK == RebaseTypeOK /\ PowTypeOK /\ LedgerTypeOK /\ MetricTypeOK

\* PowCatchesUp of PowSync and RebaseFollows of RebaseSender, where they run: the import of the
\* proof-of-work chain recovers from every fault without help, and the head of the rebase process
\* follows the importer's as long as somebody starts that process again whenever it has ended.
Recovers == /\ service = "pow" => PowCatchesUp
            /\ service = "rebase" => RebaseFollows

\* ValidatorsSettle and RowsSettle of MetricJobs, where that service runs: what an error, a missing
\* answer or a crash has left behind is right again: validators after one more change of the lists,
\* ranks, supply and price by themselves.
MetricRecovers == service = "metric" => ValidatorsSettle /\ RowsSettle
=============================================================================
