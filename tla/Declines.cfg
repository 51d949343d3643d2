SPECIFICATION Spec
CONSTANTS
  None = None
  Cash = Cash
  Settlement = Settlement
  corp = corp
  corp2 = corp2
  card = card
  card2 = card2
  t1 = t1
  t2 = t2
  t3 = t3
  m1 = m1
  i1 = i1
  i2 = i2
  h1 = h1
  h2 = h2
  Wallets = {corp, card}
  TransferIDs = {t1, t2, t3}
  Merchants = {m1}
  Ledgers = {"usd"}
  LedgerID = "usd"
  Preexisting <- RichHolder
  TicksPerSecond = 1
  MaxNow = 2
  CacheSize = 0
  Instances = {i1}
  Handlers = {h1, h2}
  Home <- OneInstance
  Requests <- DeclineRequests
  RiskLimits = {1}
  AuthTimeouts = {2}
  ClockSkew <- FastClocks
  Uint32Range = 256
  MaxLate = 1
  Watched <- DeclineRequests
SYMMETRY HandlerSymmetry
INVARIANTS
  HoldsWithinRiskLimit
PROPERTIES
  DeclineSettles
