SPECIFICATION Spec
SYMMETRY SyncSymmetry
CONSTANTS
  NoFile = NoFile
  NoBidder = NoBidder
  Unanswered = Unanswered
  Failed = Failed
  Seed <- MCSeed
  Parties <- MCParties
  LastStatus <- MCLastStatus
  ChainStart <- MCChainStart
  Wallets = {"w1", "w2"}
  Claimants = {"w2"}
  Syncs = {s1, s2}
  RpcFaults = TRUE
  MaxFaults = 1
  MaxAudit = 2
  AuctionLoans = {}
  Bidders = {}
  LowerCase <- MCLowerCase
  Views = {}
  MaxMillis = 0
  MaxFetches = 0
  MaxAuctions = 0
INVARIANTS
  TypeOK
  NothingDangling
  NodesTruthful
PROPERTIES
  SyncCollects
CHECK_DEADLOCK FALSE
