SPECIFICATION Spec
CONSTANTS
  None = None
  Cash = Cash
  Settlement = Settlement
  corp = corp
  corp2 = corp2
  card = card
  card2 = card2
  t1 = t1
  t2 = t2
  t3 = t3
  m1 = m1
  i1 = i1
  i2 = i2
  h1 = h1
  h2 = h2
  Wallets = {corp}
  TransferIDs = {t1, t2, t3}
  Merchants = {m1}
  Ledgers = {"usd"}
  LedgerID = "usd"
  Preexisting <- FreeOrTaken
  TicksPerSecond = 1
  MaxNow = 0
  CacheSize = 2
  Instances = {i1, i2}
  Handlers = {h1, h2}
  Home <- TwoInstances
  Requests <- MoneyRequests
  RiskLimits = {2}
  AuthTimeouts = {1}
  ClockSkew <- SameClocks
  Uint32Range = 256
  MaxLate = 1
  Watched <- NoRequests
INVARIANTS
  TypeOK
  SystemAccountsReady
  FundsConserved
  CashCoversWithdrawals
  RejectionIsFinal
  SuccessIsCommitted
  SuccessStands
PROPERTIES
  KeepsPromise
