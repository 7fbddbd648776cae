\* The rebase sender and the proof-of-work import with every fault, the loop of the metric process
\* with a fault, and the ledger of a block, each on its own.
CONSTANTS
  MaxBlock = 4
  Window = 2
  TxBlock = {1, 2, 4}
  AuctionEnd = {2, 4}
  FarBehind = 1
  Stops = 2
  SendErrors = 1
  pay = pay
  fee = fee
  tip1 = tip1
  change = change
  MaxHeight = 3
  LoopWindow = 2
  PreloadWindow = 1
  Preload = {1}
  PowTx = {pay, fee, tip1, change}
  TxOf <- MCTxOfBranch
  PowLimit <- MCPowLimit
  ZeroAddress = "zero"
  MtrToken = "mtrToken"
  MtrgToken = "mtrgToken"
  Prototype = "proto"
  Holder = {"zero", "a", "b", "v", "k", "fund", "wmtr", "n"}
  TokenContract = {"wmtr"}
  Wmtr = "wmtr"
  Stories <- MCStories
  LastBlock = 3
  LedgerWindow = 2
  NoAnswers = 1
  val1 = val1
  val2 = val2
  rich = rich
  poor = poor
  MaxClock = 1
  Validator = {val1, val2}
  Ranked = {rich, poor}
  Worlds <- MCWorlds
  Day = 2
  Period <- MCPeriod
SPECIFICATION FairSpec
INVARIANTS TypeOK RebasesBounded AuctionAnswered NoOrphanTx PreviousStored GapsAreNulls BalancesExplained LogsKept AlertsOnce
PROPERTIES NoBlockPassed KeepsPromise Recovers MetricRecovers
