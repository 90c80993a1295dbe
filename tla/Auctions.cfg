SPECIFICATION FairSpec
CONSTANTS
  Users = {u1, u2, u3}
  Rejecting = {u3}
  Contracts = {"AUCTION"}
  NoBidder = NoBidder
  Owner = Owner
  LoanIds = {1, 2}
  Principals = {1}
  Reserves = {0, 20}
  Durations = {1}
  Bids = {0, 19, 20, 21}
  InitialWallet = 41
  MaxTime = 3
  MaxAuctions = 2
CHECK_DEADLOCK FALSE
INVARIANTS
  TypeOK
  AuctionMoneyAccounted
  OneAuctionPerLoan
  NobodyHeldUp
PROPERTIES
  KeepsAuctionHouse
  AuctionsEnd
  PriceFinalAfterEnd
