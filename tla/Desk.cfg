SPECIFICATION FairSpec
CONSTANTS
  NoFile = NoFile
  NoBidder = NoBidder
  Unanswered = Unanswered
  Failed = Failed
  Seed <- MCSeed
  Parties <- MCDeskParties
  LastStatus <- MCLastStatus
  ChainStart <- MCDeskChainStart
  Wallets = {"w1"}
  Claimants = {}
  Syncs = {}
  RpcFaults = FALSE
  MaxFaults = 1
  MaxAudit = 2
  AuctionLoans = {1}
  Bidders = {"0xB1"}
  LowerCase <- MCLowerCase
  Views = {"view"}
  MaxMillis = 1
  MaxFetches = 2
  MaxAuctions = 2
INVARIANTS
  AuctionsAgree
  NothingUnsaved
  QuietViewsCurrent
PROPERTIES
  KeepsSaleBook
  WritesAreSaved
CHECK_DEADLOCK FALSE
