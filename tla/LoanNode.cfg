SPECIFICATION FairSpec
CONSTANTS
  NoFile = NoFile
  NoBidder = NoBidder
  Unanswered = Unanswered
  Failed = Failed
  Seed <- MCSeed
  Parties <- MCNodeParties
  LastStatus <- MCLastStatus
  ChainStart <- MCNodeChainStart
  Wallets = {"w1", "w2"}
  Claimants = {}
  Syncs = {s1}
  RpcFaults = FALSE
  MaxFaults = 0
  MaxAudit = 2
  AuctionLoans = {}
  Bidders = {}
  LowerCase <- MCLowerCase
  Views = {}
  MaxMillis = 0
  MaxFetches = 0
  MaxAuctions = 0
PROPERTIES
  LoanNodesTrackVault
CHECK_DEADLOCK FALSE
