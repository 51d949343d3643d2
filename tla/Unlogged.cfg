SPECIFICATION Spec
CONSTANTS
  None = None
  Cash = Cash
  Settlement = Settlement
  corp = corp
  corp2 = corp2
  card = card
  card2 = card2
  t1 = t1
  t2 = t2
  t3 = t3
  m1 = m1
  i1 = i1
  i2 = i2
  h1 = h1
  h2 = h2
  Wallets = {corp, card}
  TransferIDs = {t1, t2}
  Merchants = {m1}
  Ledgers = {"usd"}
  LedgerID = "usd"
  Preexisting <- FundedHolder
  TicksPerSecond = 1
  MaxNow = 1
  CacheSize = 0
  Instances = {i1}
  Handlers = {h1, h2}
  Home <- OneInstance
  Requests <- IncrementRequests
  RiskLimits = {2}
  AuthTimeouts = {2}
  ClockSkew <- SameClocks
  Uint32Range = 256
  MaxLate = 0
  Watched <- NoRequests
SYMMETRY HandlerSymmetry
INVARIANTS
  AttemptsAreLogged
