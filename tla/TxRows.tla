------------------------------- MODULE TxRows -------------------------------
(***************************************************************************)
(* What PosCMD.processTx (src/src/cmd/pos.cmd.ts) makes of one transaction *)
(* of the chain: the rows it puts into its caches, under the keys of their *)
(* unique indexes, and the order in which it lists the logs of a clause    *)
(* (src/src/utils/log-traverser.ts).  No state: BlockLedger processes the  *)
(* transactions of a block one after the other.                            *)
(*                                                                         *)
(* A transaction carries its execution: for each clause a tree of calls,   *)
(* in which a call does things in order - it emits logs and makes further  *)
(* calls.  What the node answers is derived from the tree: the receipt     *)
(* with its events and transfers, each in the order of execution but apart *)
(* from each other, and the trace, which is the tree without the logs.     *)
(***************************************************************************)
EXTENDS Integers, SequencesExt, FiniteSetsExt

CONSTANTS
  ZeroAddress,
  MtrToken, MtrgToken,   \* the system contracts that stand for the two coins
  Prototype              \* PrototypeAddress: acts on the account named in its input

---------------------------------------------------------------------------
(* The execution of a clause. *)

Creates == {"CREATE", "CREATE2"}

\* The account whose code runs, as the events name it.
Here(t) == CASE t.type \in {"CALLCODE", "DELEGATECALL"} -> t.from
             [] t.type = "CALL" /\ t.to = Prototype    -> t.self
             [] OTHER                                  -> t.to

Transfer(t) == [log |-> "transfer", kind |-> "transfer", address |-> t.to,
                from |-> t.from, to |-> t.to, token |-> t.token, amount |-> t.value]

\* The event $Master(newMaster) of a new contract.
Master(t) == [log |-> "event", kind |-> "master", address |-> t.to,
              from |-> t.from, to |-> t.to, token |-> "none", amount |-> 0]

Event(t, e) == [log |-> "event", kind |-> e.kind, address |-> Here(t),
                from |-> e.from, to |-> e.to, token |-> e.token, amount |-> e.amount]

\* The logs of a call in the order of execution.  A call that fails leaves none, a static call
\* cannot emit any.
RECURSIVE Run(_)
Run(t) ==
  IF t.type = "STATICCALL" \/ t.failed THEN << >>
  ELSE (IF t.value > 0 THEN << Transfer(t) >> ELSE << >>)
       \o (IF t.type \in Creates THEN << Master(t) >> ELSE << >>)
       \o FlattenSeq([i \in DOMAIN t.does |->
            CASE t.does[i].type = "LOG"  -> << Event(t, t.does[i]) >>
              [] t.does[i].type = "SEND" -> << Transfer(t.does[i]) >>
              [] OTHER                   -> Run(t.does[i])])

IsEvent(l) == l.log = "event"

Events(t) == SelectSeq(Run(t), IsEvent)

Transfers(t) == SelectSeq(Run(t), LAMBDA l : ~ IsEvent(l))

\* The calls a trace shows below a call.
Calls(t) == SelectSeq(t.does, LAMBDA d : d.type \notin {"LOG", "SEND"})

\* The receipt: a reverted transaction has no outputs.
Outputs(tx) == IF tx.reverted THEN << >> ELSE tx.runs

---------------------------------------------------------------------------
(* Rows.  log is the place among the events or among the transfers of the clause. *)

TransferRow(c, i, l) == [clause |-> c, log |-> i, token |-> l.token, address |-> ZeroAddress,
                         from |-> l.from, to |-> l.to, amount |-> l.amount]

MovementKind == {"ERC20", "ERC721", "ERC1155"}

EventRow(c, i, l) == [clause |-> c, log |-> i, token |-> l.kind, address |-> l.address,
                      from |-> l.from, to |-> l.to, amount |-> l.amount]

\* The rows of a clause: its transfers, then its events that move a token.
ClauseMovements(c, t) ==
  LET T == Transfers(t)
      E == Events(t)
  IN [i \in DOMAIN T |-> TransferRow(c, i, T[i])]
     \o SelectSeq([i \in DOMAIN E |-> EventRow(c, i, E[i])], LAMBDA m : m.token \in MovementKind)

Movements(tx) == FlattenSeq([c \in DOMAIN Outputs(tx) |-> ClauseMovements(c, tx.runs[c])])

LogKeys(tx, log) ==
  FlattenSeq([c \in DOMAIN Outputs(tx) |->
    LET L == SelectSeq(Run(tx.runs[c]), LAMBDA l : l.log = log) IN [i \in DOMAIN L |-> <<c, i>>]])

\* Bound and unbound events, by their place among all events of the clause.
BoundRows(tx, kind) ==
  FlattenSeq([c \in DOMAIN Outputs(tx) |->
    LET E == Events(tx.runs[c])
    IN SelectSeq([i \in DOMAIN E |-> [clause |-> c, log |-> i, kind |-> E[i].kind, owner |-> E[i].from,
                                      token |-> E[i].token, amount |-> E[i].amount]],
                 LAMBDA r : r.kind = kind)])

Traceable(clause) == clause.kind = "call"

\* A clause is traced if it has data that is not for the script engine; those of a reverted
\* transaction are, up to the one that failed.  The node may give no answer, for the clauses of lost.
Traces(tx, lost) ==
  { c \in DOMAIN tx.clauses \ lost :
      IF tx.reverted THEN \A d \in 1..(c - 1) : tx.runs[d].failed => d \in lost
      ELSE Traceable(tx.clauses[c]) }

\* The calls of a trace, with the path to each of them.  The code goes breadth first.
RECURSIVE InternalCalls(_, _)
InternalCalls(t, suffix) ==
  << [type |-> t.type, suffix |-> suffix] >>
  \o FlattenSeq([i \in DOMAIN Calls(t) |-> InternalCalls(Calls(t)[i], Append(suffix, i))])

InternalTxs(tx, lost) ==
  FlattenSeq([c \in DOMAIN tx.clauses |->
    IF c \notin Traces(tx, lost) THEN << >>
    ELSE LET N == SelectSeq(InternalCalls(tx.runs[c], << 0 >>), LAMBDA n : n.type \in {"CALL", "CREATE", "CREATE2"})
         IN [i \in DOMAIN N |-> [clause |-> c, name |-> N[i]]]])

\* A transfer of the script engine in a K-block: the staking rewards.
IsReward(tx, c) == ~ tx.reverted /\ tx.origin = ZeroAddress /\ tx.clauses[c].kind = "script"

Rewards(tx) == UNION { { [from |-> l.from, to |-> l.to, clause |-> c] : l \in ToSet(Transfers(tx.runs[c])) }
                       : c \in { d \in DOMAIN Outputs(tx) : IsReward(tx, d) } }

\* A digest for each reward instead of one for each pair of accounts.
BugRewardDigests(tx) ==
  FlattenSeq([c \in DOMAIN Outputs(tx) |->
    IF ~ IsReward(tx, c) THEN << >>
    ELSE LET T == Transfers(tx.runs[c])
         IN [i \in DOMAIN T |-> [from |-> T[i].from, to |-> T[i].to, clauses |-> {c}]]])

\* The digests of the rewards of one pair are merged, over all clauses.
RewardDigests(tx) ==
  SetToSeq({ [from |-> p[1], to |-> p[2],
              clauses |-> { r.clause : r \in { q \in Rewards(tx) : <<q.from, q.to>> = p } }]
             : p \in { <<r.from, r.to>> : r \in Rewards(tx) } })

\* The ids that are to keep the two kinds of digest apart never meet: that of a direct digest
\* includes the clause, that of a reward does not.
Digests(tx) ==
  [c \in DOMAIN tx.clauses |-> [from |-> tx.origin, to |-> tx.clauses[c].to, clauses |-> {c}]]
  \o RewardDigests(tx)

\* The unique index is on an array: a digest has one entry in it for each of its clauses.
DigestKeys(d) == SetToSeq({ <<d.from, d.to, c>> : c \in d.clauses })

\* What every unique index gets to see of a transaction.
Keys(tx, lost) ==
  LET M == Movements(tx)
      D == Digests(tx)
      B == BoundRows(tx, "bound")
      U == BoundRows(tx, "unbound")
      Key(r) == <<r.clause, r.log>>
  IN [movement    |-> [i \in DOMAIN M |-> <<M[i].clause, M[i].log, M[i].token>>],
      logEvent    |-> LogKeys(tx, "event"),
      logTransfer |-> LogKeys(tx, "transfer"),
      txDigest    |-> FlattenSeq([i \in DOMAIN D |-> DigestKeys(D[i])]),
      internalTx  |-> InternalTxs(tx, lost),
      bound       |-> [i \in DOMAIN B |-> Key(B[i])],
      unbound     |-> [i \in DOMAIN U |-> Key(U[i])]]

---------------------------------------------------------------------------
(* The order of logs: newIterator walks the trace and takes events and transfers as it goes. *)

\* What has been taken, and in which order.
Nothing == [events |-> 0, transfers |-> 0, out |-> << >>, thrown |-> FALSE]

TakeEvent(s) == [s EXCEPT !.events = @ + 1, !.out = Append(@, <<"event", s.events + 1>>)]

TakeTransfer(s) == [s EXCEPT !.transfers = @ + 1, !.out = Append(@, <<"transfer", s.transfers + 1>>)]

Throw(s) == [s EXCEPT !.thrown = TRUE]

\* All the events that come next and are of this contract.
RECURSIVE TakeEventsOf(_, _, _)
TakeEventsOf(contract, E, s) ==
  IF ~ s.thrown /\ s.events < Len(E) /\ E[s.events + 1].address = contract
  THEN TakeEventsOf(contract, E, TakeEvent(s))
  ELSE s

TakeValue(t, T, s) ==
  IF t.value = 0 THEN s
  ELSE IF s.transfers < Len(T) /\ T[s.transfers + 1].from = t.from /\ T[s.transfers + 1].to = t.to
          /\ T[s.transfers + 1].amount = t.value
       THEN TakeTransfer(s)
       ELSE Throw(s)

TakeMaster(t, E, s) ==
  IF s.thrown THEN s
  ELSE IF s.events < Len(E) /\ E[s.events + 1].address = t.to /\ E[s.events + 1].kind = "master"
          /\ E[s.events + 1].from = t.from
       THEN TakeEvent(s)
       ELSE Throw(s)

RECURSIVE Traverse(_, _, _, _)
Traverse(t, E, T, s) ==
  IF s.thrown \/ (s.events = Len(E) /\ s.transfers = Len(T)) THEN s
  ELSE IF t.type = "STATICCALL" THEN s
  ELSE LET entered == CASE t.type \in Creates -> TakeMaster(t, E, TakeValue(t, T, s))
                        [] t.type = "CALL"    -> TakeValue(t, T, s)
                        [] t.type \in {"CALLCODE", "DELEGATECALL"} -> s
                        [] OTHER              -> Throw(s)
       IN FoldLeft(LAMBDA acc, call : TakeEventsOf(Here(t), E, Traverse(call, E, T, acc)),
                   TakeEventsOf(Here(t), E, entered), Calls(t))

InOrder(kind, n) == [i \in 1..n |-> <<kind, i>>]

\* What the iterator has given so far is kept although it could not go on.
BugMerged(trace, E, T) == Traverse(trace, E, T, Nothing).out

\* When the trace does not fit, the transfers and then the events.
Merged(trace, E, T) ==
  LET s == Traverse(trace, E, T, Nothing)
  IN IF s.thrown \/ s.events < Len(E) \/ s.transfers < Len(T)
     THEN InOrder("transfer", Len(T)) \o InOrder("event", Len(E))
     ELSE s.out

NoTrace == [type |-> "none", does |-> << >>]

\* tracer is declared once for all clauses: a clause without a trace meets that of an earlier one.
Tracer(tx, lost, c) ==
  LET G == { d \in Traces(tx, lost) : d <= c }
  IN IF G = {} THEN NoTrace ELSE tx.runs[Max(G)]

\* overallIndex: the place of an entry in this sequence.
LogOrder(tx, lost, c) ==
  LET E == Events(tx.runs[c])
      T == Transfers(tx.runs[c])
  IN IF E # << >> /\ T # << >> THEN Merged(Tracer(tx, lost, c), E, T)
     ELSE InOrder("event", Len(E)) \o InOrder("transfer", Len(T))

---------------------------------------------------------------------------
(* What the rows should be. *)

NoRepeats(s) == Cardinality(ToSet(s)) = Len(s)

\* Every log is listed once, events in their order and transfers in theirs.
ListsAll(order, E, T) ==
  /\ SelectSeq(order, LAMBDA l : l[1] = "event") = InOrder("event", Len(E))
  /\ SelectSeq(order, LAMBDA l : l[1] = "transfer") = InOrder("transfer", Len(T))
  /\ Len(order) = Len(E) + Len(T)

\* The order of execution.
Executed(t) ==
  LET L == Run(t)
      Nth(i) == Cardinality({ j \in 1..i : IsEvent(L[j]) = IsEvent(L[i]) })
  IN [i \in DOMAIN L |-> <<L[i].log, Nth(i)>>]

\* A call that moves value is answered by an event of an account that has not been running yet.
RECURSIVE Loud(_, _)
Loud(t, above) ==
  /\ ~ t.failed
  /\ \A i \in DOMAIN Calls(t) :
       LET call == Calls(t)[i]
           running == above \cup {Here(t)}
       IN /\ call.type \in Creates \cup {"CALL"} /\ call.value > 0 =>
               Len(Run(call)) > 1 /\ IsEvent(Run(call)[2]) /\ Run(call)[2].address \notin running
          /\ Loud(call, running)
=============================================================================
