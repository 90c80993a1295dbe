------------------------- MODULE DebtAuctionProofs -------------------------
(***************************************************************************)
(* Theorems about DebtAuctionManager, for every set of accounts, every     *)
(* input and every bound.                                                  *)
(***************************************************************************)
EXTENDS DebtAuctionManager, SequenceTheorems, SumTheorems, TLAPS

Account == Users \cup Contracts

\* A payment the payer can afford leaves every account with a natural balance.
LEMMA TransferType ==
  ASSUME NEW bal \in [Account -> Nat], NEW from \in Account, NEW to \in Account,
         NEW amount \in Nat, CanTransfer(bal, from, to, amount)
  PROVE  Transfer(bal, from, to, amount) \in [Account -> Nat]
BY DEF Transfer, CanTransfer

LEMMA AuctionTypes ==
  ASSUME TypeOK
  PROVE  /\ now \in Nat /\ balance \in [Account -> Nat] /\ "AUCTION" \in Account
         /\ auctions \in Seq(DebtAuction) /\ Len(auctions) \in Nat
         /\ DOMAIN auctions = 1 .. Len(auctions)
         /\ \A id \in DOMAIN auctions : auctions[id] \in DebtAuction
BY AuctionInputs, ElementOfSeq, LenProperties DEF TypeOK, ChainTypeOK, Account
-----------------------------------------------------------------------------
(* What transactions do.                                                   *)

\* What an auction was created with; nothing changes it.
SameAuction(a, c) ==
  /\ a.loanId = c.loanId /\ a.lender = c.lender
  /\ a.reservePrice = c.reservePrice /\ a.endTime = c.endTime

\* A change of auction id alone.
Update(id, bid, bidder, status) ==
  /\ auctions' \in Seq(DebtAuction)
  /\ DOMAIN auctions' = DOMAIN auctions /\ Len(auctions') = Len(auctions)
  /\ \A i \in DOMAIN auctions \ {id} : auctions'[i] = auctions[i]
  /\ SameAuction(auctions'[id], auctions[id])
  /\ auctions'[id].highestBid = bid /\ auctions'[id].highestBidder = bidder
  /\ auctions'[id].status = status

LEMMA UpdateEffect ==
  ASSUME TypeOK, NEW id \in DOMAIN auctions, NEW bid \in Nat,
         NEW bidder \in Users \cup {NoBidder}, NEW status \in AuctionStatus,
         auctions' = [auctions EXCEPT ![id] = [auctions[id] EXCEPT
                        !.highestBid = bid, !.highestBidder = bidder, !.status = status]]
  PROVE  Update(id, bid, bidder, status)
<1> DEFINE new == [auctions[id] EXCEPT
                     !.highestBid = bid, !.highestBidder = bidder, !.status = status]
<1>1. /\ auctions \in Seq(DebtAuction) /\ auctions[id] \in DebtAuction
      /\ id \in 1 .. Len(auctions)
  BY AuctionTypes
<1>2. new \in DebtAuction
  BY <1>1 DEF DebtAuction
<1>3. /\ SameAuction(new, auctions[id]) /\ new.highestBid = bid
      /\ new.highestBidder = bidder /\ new.status = status
  BY <1>1 DEF DebtAuction, SameAuction
<1> HIDE DEF new
<1>4. auctions' = [auctions EXCEPT ![id] = new]
  BY DEF new
<1>5. /\ auctions' \in Seq(DebtAuction) /\ Len(auctions') = Len(auctions)
      /\ auctions'[id] = new
      /\ \A i \in DOMAIN auctions \ {id} : auctions'[i] = auctions[i]
  BY <1>1, <1>2, <1>4, ExceptSeq, LenProperties
<1>6. DOMAIN auctions' = DOMAIN auctions
  BY <1>4
<1> QED
  BY <1>3, <1>5, <1>6 DEF Update

NewAuction(loanId, lender, reserve, duration) ==
  [loanId |-> loanId, lender |-> lender, reservePrice |-> reserve,
   highestBid |-> 0, highestBidder |-> NoBidder,
   endTime |-> now + duration, status |-> "ACTIVE"]

Created(loanId, lender, reserve, duration) ==
  /\ auctions' \in Seq(DebtAuction)
  /\ Len(auctions') = Len(auctions) + 1
  /\ DOMAIN auctions' = DOMAIN auctions \cup {Len(auctions) + 1}
  /\ Len(auctions) + 1 \notin DOMAIN auctions
  /\ \A i \in DOMAIN auctions : auctions'[i] = auctions[i]
  /\ auctions'[Len(auctions) + 1] = NewAuction(loanId, lender, reserve, duration)
  /\ Auctionable(loanId)
  /\ loanToAuction' = [loanToAuction EXCEPT ![loanId] = Len(auctions) + 1]
  /\ UNCHANGED <<now, balance>>

LEMMA CreateEffect ==
  ASSUME TypeOK, NEW loanId \in LoanIds, NEW lender \in Users, NEW principal \in Nat,
         NEW reserve \in Nat, NEW duration \in Nat,
         CreateAuction(Owner, loanId, lender, principal, reserve, duration)
  PROVE  Created(loanId, lender, reserve, duration)
<1> DEFINE new == NewAuction(loanId, lender, reserve, duration)
<1>1. new \in DebtAuction
  BY AuctionTypes DEF NewAuction, DebtAuction, AuctionStatus
<1>2. /\ auctions' = Append(auctions, new) /\ Auctionable(loanId)
      /\ loanToAuction' = [loanToAuction EXCEPT ![loanId] = Len(auctions) + 1]
      /\ UNCHANGED <<now, balance>>
  BY DEF CreateAuction, NewAuction
<1> HIDE DEF new
<1>3. /\ auctions' \in Seq(DebtAuction) /\ Len(auctions') = Len(auctions) + 1
      /\ \A i \in 1 .. Len(auctions) : auctions'[i] = auctions[i]
      /\ auctions'[Len(auctions) + 1] = new
  BY <1>1, <1>2, AuctionTypes, AppendProperties
<1>4. DOMAIN auctions' = 1 .. Len(auctions) + 1
  BY <1>3, LenProperties
<1> QED
  BY <1>2, <1>3, <1>4, AuctionTypes DEF new, Created

\* A bid takes the lead of a running auction that has not ended, for at least
\* the minimum bid.
LEMMA BidEffect ==
  ASSUME TypeOK, NEW bidder \in Users, NEW id \in DOMAIN auctions, NEW value \in Nat,
         PlaceBid(bidder, id, value)
  PROVE  /\ Update(id, value, bidder, "ACTIVE")
         /\ auctions[id].status = "ACTIVE" /\ now <= auctions[id].endTime
         /\ value >= MinBid(auctions[id])
         /\ balance' \in [Account -> Nat]
         /\ UNCHANGED <<now, loanToAuction>>
<1>1. /\ auctions[id] \in DebtAuction /\ auctions \in Seq(DebtAuction)
      /\ balance \in [Account -> Nat] /\ "AUCTION" \in Account
  BY AuctionTypes
<1>2. /\ auctions[id].status = "ACTIVE" /\ now <= auctions[id].endTime
      /\ value >= MinBid(auctions[id]) /\ CanTransfer(balance, bidder, "AUCTION", value)
      /\ UNCHANGED <<now, loanToAuction>>
  BY DEF PlaceBid
<1>3. auctions' = [auctions EXCEPT ![id] = [auctions[id] EXCEPT
                     !.highestBid = value, !.highestBidder = bidder, !.status = "ACTIVE"]]
  BY <1>1, <1>2 DEF PlaceBid, DebtAuction
<1>4. Update(id, value, bidder, "ACTIVE")
  BY <1>3, UpdateEffect DEF AuctionStatus
<1>5. balance' \in [Account -> Nat]
  <2> DEFINE received == Transfer(balance, bidder, "AUCTION", value)
             previous == auctions[id].highestBidder
             bid == auctions[id].highestBid
  <2>1. received \in [Account -> Nat]
    BY <1>1, <1>2, TransferType DEF Account
  <2>2. bid \in Nat /\ (previous # NoBidder => previous \in Account)
    BY <1>1 DEF DebtAuction, Account
  <2>3. \/ balance' = received
        \/ /\ previous # NoBidder /\ CanTransfer(received, "AUCTION", previous, bid)
           /\ balance' = Transfer(received, "AUCTION", previous, bid)
    BY DEF PlaceBid
  <2> HIDE DEF received, previous, bid
  <2> QED
    BY <1>1, <2>1, <2>2, <2>3, TransferType
<1> QED
  BY <1>2, <1>4, <1>5

\* A settlement ends a running auction after its end, sold or unsold.
LEMMA SettleEffect ==
  ASSUME TypeOK, NEW id \in DOMAIN auctions, SettleAuction(id)
  PROVE  /\ \E status \in {"SETTLED", "CANCELLED"} :
              /\ status = "SETTLED" <=> auctions[id].highestBidder # NoBidder
              /\ Update(id, auctions[id].highestBid, auctions[id].highestBidder, status)
         /\ auctions[id].status = "ACTIVE" /\ now > auctions[id].endTime
         /\ balance' \in [Account -> Nat]
         /\ UNCHANGED <<now, loanToAuction>>
<1>1. /\ auctions[id] \in DebtAuction /\ auctions \in Seq(DebtAuction)
      /\ balance \in [Account -> Nat] /\ "AUCTION" \in Account
  BY AuctionTypes
<1>2. /\ auctions[id].status = "ACTIVE" /\ now > auctions[id].endTime
      /\ UNCHANGED <<now, loanToAuction>>
  BY DEF SettleAuction
<1>3. /\ auctions[id].highestBid \in Nat /\ auctions[id].lender \in Account
      /\ auctions[id].highestBidder \in Users \cup {NoBidder}
  BY <1>1 DEF DebtAuction, Account
<1>4. ASSUME NEW status \in AuctionStatus,
             auctions' = [auctions EXCEPT ![id].status = status]
      PROVE  Update(id, auctions[id].highestBid, auctions[id].highestBidder, status)
  <2>1. auctions' = [auctions EXCEPT ![id] = [auctions[id] EXCEPT
                       !.highestBid = auctions[id].highestBid,
                       !.highestBidder = auctions[id].highestBidder, !.status = status]]
    BY <1>1, <1>4 DEF DebtAuction
  <2> QED
    BY <1>3, <2>1, UpdateEffect
<1>5. CASE auctions[id].highestBidder # NoBidder
  <2>1. /\ auctions' = [auctions EXCEPT ![id].status = "SETTLED"]
        /\ CanTransfer(balance, "AUCTION", auctions[id].lender, auctions[id].highestBid)
        /\ balance' = Transfer(balance, "AUCTION", auctions[id].lender, auctions[id].highestBid)
    BY <1>5 DEF SettleAuction
  <2>2. balance' \in [Account -> Nat]
    BY <1>1, <1>3, <2>1, TransferType
  <2> QED
    BY <1>2, <1>4, <1>5, <2>1, <2>2 DEF AuctionStatus
<1>6. CASE auctions[id].highestBidder = NoBidder
  <2>1. auctions' = [auctions EXCEPT ![id].status = "CANCELLED"] /\ UNCHANGED balance
    BY <1>6 DEF SettleAuction
  <2> QED
    BY <1>1, <1>2, <1>4, <1>6, <2>1 DEF AuctionStatus
<1> QED
  BY <1>5, <1>6

\* Every step is one of the above, or leaves the auctions alone.
LEMMA StepKinds ==
  ASSUME [Next]_vars
  PROVE  \/ PassTime \/ UNCHANGED vars
         \/ \E loanId \in LoanIds, lender \in Users, principal, reserve, duration \in Nat :
              CreateAuction(Owner, loanId, lender, principal, reserve, duration)
         \/ \E bidder \in Users, id \in DOMAIN auctions, value \in Nat :
              PlaceBid(bidder, id, value)
         \/ \E id \in DOMAIN auctions : SettleAuction(id)
BY AuctionInputs DEF Next
-----------------------------------------------------------------------------
(* Type correctness.                                                       *)

LEMMA InitType == Init => TypeOK
<1> SUFFICES ASSUME Init PROVE TypeOK
  OBVIOUS
<1>1. ChainTypeOK
  BY AuctionInputs DEF Init, ChainTypeOK
<1>2. auctions \in Seq(DebtAuction) /\ auctions = <<>> /\ Len(auctions) = 0
  BY EmptySeq DEF Init
<1> QED
  BY <1>1, <1>2 DEF Init, TypeOK

LEMMA NextType == TypeOK /\ [Next]_vars => TypeOK'
<1> SUFFICES ASSUME TypeOK, [Next]_vars PROVE TypeOK'
  OBVIOUS
<1>0. /\ loanToAuction \in [LoanIds -> Nat] /\ Len(auctions) \in Nat /\ now \in Nat
      /\ \A loan \in LoanIds : loanToAuction[loan] \in 0 .. Len(auctions)
  BY AuctionTypes DEF TypeOK
<1>1. CASE PassTime \/ UNCHANGED vars
  BY <1>1 DEF PassTime, Tick, vars, TypeOK, ChainTypeOK
<1>2. ASSUME NEW loanId \in LoanIds, NEW lender \in Users, NEW principal \in Nat,
             NEW reserve \in Nat, NEW duration \in Nat,
             CreateAuction(Owner, loanId, lender, principal, reserve, duration)
      PROVE  TypeOK'
  <2>1. Created(loanId, lender, reserve, duration)
    BY <1>2, CreateEffect
  <2>2. /\ loanToAuction' \in [LoanIds -> Nat]
        /\ \A loan \in LoanIds : loanToAuction'[loan] \in 0 .. Len(auctions')
    BY <1>0, <2>1 DEF Created
  <2> QED
    BY <2>1, <2>2 DEF Created, TypeOK, ChainTypeOK
<1>3. ASSUME NEW bidder \in Users, NEW id \in DOMAIN auctions, NEW value \in Nat,
             PlaceBid(bidder, id, value)
      PROVE  TypeOK'
  BY <1>0, <1>3, BidEffect DEF Update, TypeOK, ChainTypeOK, Account
<1>4. ASSUME NEW id \in DOMAIN auctions, SettleAuction(id)
      PROVE  TypeOK'
  BY <1>0, <1>4, SettleEffect DEF Update, TypeOK, ChainTypeOK, Account
<1> QED
  BY <1>1, <1>2, <1>3, <1>4, StepKinds

\* Every variable keeps its type: no balance ever becomes negative, and
\* loanToAuction only ever names auctions that exist.
THEOREM TypeCorrect == Spec => []TypeOK
BY InitType, NextType, PTL DEF Spec
-----------------------------------------------------------------------------
(* One running auction per loan.                                           *)

\* The inductive form of OneAuctionPerLoan: the auction a loan maps to is its
\* latest, and only that one may be running.
LatestOnly ==
  /\ \A loan \in LoanIds :
       loanToAuction[loan] # 0 =>
         /\ loanToAuction[loan] \in DOMAIN auctions
         /\ auctions[loanToAuction[loan]].loanId = loan
  /\ \A id \in DOMAIN auctions :
       /\ loanToAuction[auctions[id].loanId] # 0
       /\ id <= loanToAuction[auctions[id].loanId]
       /\ auctions[id].status = "ACTIVE" => id = loanToAuction[auctions[id].loanId]

LEMMA LatestInit == Init => LatestOnly
<1> SUFFICES ASSUME Init PROVE LatestOnly
  OBVIOUS
<1>1. DOMAIN auctions = {}
  BY DEF Init
<1> QED
  BY <1>1 DEF Init, LatestOnly

LEMMA LatestNext == TypeOK /\ LatestOnly /\ [Next]_vars => LatestOnly'
<1> SUFFICES ASSUME TypeOK, LatestOnly, [Next]_vars PROVE LatestOnly'
  OBVIOUS
<1>0. /\ loanToAuction \in [LoanIds -> Nat] /\ Len(auctions) \in Nat
      /\ DOMAIN auctions = 1 .. Len(auctions)
      /\ \A id \in DOMAIN auctions : auctions[id].loanId \in LoanIds
  BY AuctionTypes DEF TypeOK, DebtAuction
<1>1. CASE PassTime \/ UNCHANGED vars
  BY <1>1 DEF PassTime, vars, LatestOnly
<1>2. ASSUME NEW loanId \in LoanIds, NEW lender \in Users, NEW principal \in Nat,
             NEW reserve \in Nat, NEW duration \in Nat,
             CreateAuction(Owner, loanId, lender, principal, reserve, duration)
      PROVE  LatestOnly'
  <2> DEFINE n == Len(auctions) + 1
  <2>1. /\ DOMAIN auctions' = DOMAIN auctions \cup {n} /\ n \notin DOMAIN auctions
        /\ \A i \in DOMAIN auctions : auctions'[i] = auctions[i] /\ i < n
        /\ auctions'[n].loanId = loanId /\ n \in Nat \ {0}
        /\ Auctionable(loanId)
        /\ loanToAuction'[loanId] = n
        /\ \A loan \in LoanIds \ {loanId} : loanToAuction'[loan] = loanToAuction[loan]
    <3>1. Created(loanId, lender, reserve, duration)
      BY <1>2, CreateEffect
    <3> QED
      BY <1>0, <3>1 DEF Created, NewAuction
  <2> HIDE DEF n
  <2>2. \A i \in DOMAIN auctions : auctions[i].loanId = loanId => auctions[i].status # "ACTIVE"
    BY <2>1 DEF LatestOnly, Auctionable
  <2>3. ASSUME NEW loan \in LoanIds, loanToAuction'[loan] # 0
        PROVE  /\ loanToAuction'[loan] \in DOMAIN auctions'
               /\ auctions'[loanToAuction'[loan]].loanId = loan
    BY <2>1, <2>3 DEF LatestOnly
  <2>4. ASSUME NEW id \in DOMAIN auctions'
        PROVE  /\ loanToAuction'[auctions'[id].loanId] # 0
               /\ id <= loanToAuction'[auctions'[id].loanId]
               /\ auctions'[id].status = "ACTIVE" => id = loanToAuction'[auctions'[id].loanId]
    <3>1. CASE id = n
      BY <2>1, <3>1
    <3>2. CASE id \in DOMAIN auctions /\ auctions[id].loanId = loanId
      BY <1>0, <2>1, <2>2, <3>2
    <3>3. CASE id \in DOMAIN auctions /\ auctions[id].loanId # loanId
      BY <1>0, <2>1, <3>3 DEF LatestOnly
    <3> QED
      BY <2>1, <2>4, <3>1, <3>2, <3>3
  <2> QED
    BY <2>3, <2>4 DEF LatestOnly
<1>3. ASSUME NEW id \in DOMAIN auctions, NEW bid, NEW bidder, NEW status,
             auctions[id].status = "ACTIVE", Update(id, bid, bidder, status),
             UNCHANGED loanToAuction
      PROVE  LatestOnly'
  BY <1>0, <1>3 DEF LatestOnly, Update, SameAuction
<1> QED
  BY <1>1, <1>2, <1>3, StepKinds, BidEffect, SettleEffect

\* A loan is never in two running auctions.
THEOREM OneAuction == Spec => []OneAuctionPerLoan
<1>1. TypeOK /\ LatestOnly => OneAuctionPerLoan
  BY AuctionTypes DEF TypeOK, LatestOnly, OneAuctionPerLoan, Running
<1> QED
  BY <1>1, LatestInit, LatestNext, TypeCorrect, PTL DEF Spec
-----------------------------------------------------------------------------
(* Prices.                                                                 *)

\* The minimum bid is at least the highest one.
LEMMA MinBidHigher ==
  ASSUME NEW auction \in DebtAuction
  PROVE  /\ MinBid(auction) \in Nat
         /\ MinBid(auction) >= auction.highestBid
         /\ auction.highestBid = 0 => MinBid(auction) = auction.reservePrice
<1>1. auction.highestBid \in Nat /\ auction.reservePrice \in Nat
  BY DEF DebtAuction
<1>2. (auction.highestBid * 5) \div 100 \in Nat
  BY <1>1
<1>3. CASE auction.highestBid = 0
  BY <1>1, <1>3 DEF MinBid
<1>4. CASE auction.highestBid # 0
  <2>1. MinBid(auction) = auction.highestBid + (auction.highestBid * 5) \div 100
    BY <1>4 DEF MinBid
  <2> QED
    BY <1>1, <1>2, <1>4, <2>1
<1> QED
  BY <1>3, <1>4

\* A debt is never sold below its reserve, nor without a buyer: an auction that
\* ended is SETTLED if it had a bid and CANCELLED if it had none.
SoldAtReserve ==
  \A id \in DOMAIN auctions :
    LET auction == auctions[id] IN
    /\ auction.highestBidder # NoBidder => auction.highestBid >= auction.reservePrice
    /\ auction.status = "SETTLED" => auction.highestBidder # NoBidder
    /\ auction.status = "CANCELLED" => auction.highestBidder = NoBidder

\* An auction without a bidder has no bid either.
NoBidWithoutBidder ==
  \A id \in DOMAIN auctions :
    auctions[id].highestBidder = NoBidder => auctions[id].highestBid = 0

LEMMA ReserveInit == Init => SoldAtReserve /\ NoBidWithoutBidder
<1> SUFFICES ASSUME Init PROVE SoldAtReserve /\ NoBidWithoutBidder
  OBVIOUS
<1>1. DOMAIN auctions = {}
  BY DEF Init
<1> QED
  BY <1>1 DEF SoldAtReserve, NoBidWithoutBidder

LEMMA ReserveNext ==
  TypeOK /\ SoldAtReserve /\ NoBidWithoutBidder /\ [Next]_vars
    => SoldAtReserve' /\ NoBidWithoutBidder'
<1> SUFFICES ASSUME TypeOK, SoldAtReserve, NoBidWithoutBidder, [Next]_vars
             PROVE  SoldAtReserve' /\ NoBidWithoutBidder'
  OBVIOUS
<1>1. CASE PassTime \/ UNCHANGED vars
  BY <1>1 DEF PassTime, vars, SoldAtReserve, NoBidWithoutBidder
<1>2. ASSUME NEW loanId \in LoanIds, NEW lender \in Users, NEW principal \in Nat,
             NEW reserve \in Nat, NEW duration \in Nat,
             CreateAuction(Owner, loanId, lender, principal, reserve, duration)
      PROVE  SoldAtReserve' /\ NoBidWithoutBidder'
  <2>1. Created(loanId, lender, reserve, duration)
    BY <1>2, CreateEffect
  <2> QED
    BY <2>1 DEF Created, NewAuction, SoldAtReserve, NoBidWithoutBidder
<1>3. ASSUME NEW bidder \in Users, NEW id \in DOMAIN auctions, NEW value \in Nat,
             PlaceBid(bidder, id, value)
      PROVE  SoldAtReserve' /\ NoBidWithoutBidder'
  <2>1. /\ Update(id, value, bidder, "ACTIVE") /\ value >= MinBid(auctions[id])
        /\ auctions[id] \in DebtAuction
    BY <1>3, BidEffect, AuctionTypes
  <2>2. value >= auctions[id].reservePrice
    <3>1. /\ auctions[id].highestBid \in Nat /\ auctions[id].reservePrice \in Nat
          /\ MinBid(auctions[id]) \in Nat /\ MinBid(auctions[id]) >= auctions[id].highestBid
          /\ auctions[id].highestBid = 0 => MinBid(auctions[id]) = auctions[id].reservePrice
      BY <2>1, MinBidHigher DEF DebtAuction
    <3>2. auctions[id].highestBid # 0 => auctions[id].highestBid >= auctions[id].reservePrice
      BY DEF SoldAtReserve, NoBidWithoutBidder
    <3> QED
      BY <2>1, <3>1, <3>2
  <2>3. bidder # NoBidder
    BY AuctionInputs
  <2> QED
    BY <2>1, <2>2, <2>3 DEF Update, SameAuction, SoldAtReserve, NoBidWithoutBidder
<1>4. ASSUME NEW id \in DOMAIN auctions, SettleAuction(id)
      PROVE  SoldAtReserve' /\ NoBidWithoutBidder'
  <2>1. PICK status \in {"SETTLED", "CANCELLED"} :
               /\ status = "SETTLED" <=> auctions[id].highestBidder # NoBidder
               /\ Update(id, auctions[id].highestBid, auctions[id].highestBidder, status)
    BY <1>4, SettleEffect
  <2> QED
    BY <2>1 DEF Update, SameAuction, SoldAtReserve, NoBidWithoutBidder
<1> QED
  BY <1>1, <1>2, <1>3, <1>4, StepKinds

\* A debt is never sold below its reserve, nor without a buyer.
THEOREM NeverBelowReserve == Spec => []SoldAtReserve
BY ReserveInit, ReserveNext, TypeCorrect, PTL DEF Spec

\* An auction's winner and price are final at its end, and an auction that was
\* settled or cancelled never changes again.
THEOREM PriceIsFinal == Spec => PriceFinalAfterEnd
<1> DEFINE Final ==
      \A id \in DOMAIN auctions :
        LET before == auctions[id]
            after  == auctions'[id]
        IN  /\ after.highestBid >= before.highestBid
            /\ now > before.endTime => /\ after.highestBid = before.highestBid
                                       /\ after.highestBidder = before.highestBidder
            /\ before.status # "ACTIVE" => after = before
<1>1. TypeOK /\ [Next]_vars => [Final]_vars
  <2> SUFFICES ASSUME TypeOK, [Next]_vars PROVE Final
    OBVIOUS
  <2>0. /\ now \in Nat
        /\ \A id \in DOMAIN auctions : /\ auctions[id].highestBid \in Nat
                                       /\ auctions[id].endTime \in Nat
    BY AuctionTypes DEF DebtAuction
  <2>1. CASE \A id \in DOMAIN auctions : auctions'[id] = auctions[id]
    BY <2>0, <2>1
  <2>2. CASE PassTime \/ UNCHANGED vars
    BY <2>1, <2>2 DEF PassTime, vars
  <2>3. ASSUME NEW loanId \in LoanIds, NEW lender \in Users, NEW principal \in Nat,
               NEW reserve \in Nat, NEW duration \in Nat,
               CreateAuction(Owner, loanId, lender, principal, reserve, duration)
        PROVE  Final
    <3>1. \A id \in DOMAIN auctions : auctions'[id] = auctions[id]
      BY <2>3, CreateEffect DEF Created
    <3> QED
      BY <2>1, <3>1
  <2>4. ASSUME NEW bidder \in Users, NEW i \in DOMAIN auctions, NEW value \in Nat,
               PlaceBid(bidder, i, value)
        PROVE  Final
    <3>1. /\ Update(i, value, bidder, "ACTIVE") /\ auctions[i].status = "ACTIVE"
          /\ now <= auctions[i].endTime /\ value >= MinBid(auctions[i])
          /\ MinBid(auctions[i]) \in Nat /\ MinBid(auctions[i]) >= auctions[i].highestBid
      BY <2>4, BidEffect, AuctionTypes, MinBidHigher
    <3>2. value >= auctions[i].highestBid /\ ~(now > auctions[i].endTime)
      BY <2>0, <3>1
    <3> QED
      BY <2>0, <3>1, <3>2 DEF Update
  <2>5. ASSUME NEW i \in DOMAIN auctions, SettleAuction(i)
        PROVE  Final
    <3>1. /\ auctions[i].status = "ACTIVE"
          /\ \E status : Update(i, auctions[i].highestBid, auctions[i].highestBidder, status)
      BY <2>5, SettleEffect
    <3> QED
      BY <2>0, <3>1 DEF Update
  <2> QED
    BY <2>2, <2>3, <2>4, <2>5, StepKinds
<1> QED
  BY <1>1, TypeCorrect, PTL DEF Spec, PriceFinalAfterEnd
-----------------------------------------------------------------------------
(* Money.                                                                  *)

LEMMA TransferEffect ==
  ASSUME NEW bal \in [Account -> Nat], NEW from \in Account, NEW to \in Account,
         from # to, NEW amount \in Nat
  PROVE  \A a \in Account :
           Transfer(bal, from, to, amount)[a] =
             IF a = from THEN bal[a] - amount
             ELSE IF a = to THEN bal[a] + amount ELSE bal[a]
BY DEF Transfer

Leading(u) == {id \in Running \cup Settled : auctions[id].highestBidder = u}
SoldBy(u) == {id \in Settled : auctions[id].lender = u}

\* What one auction adds to each of the sums.
Held(a) == IF a.status = "ACTIVE" THEN a.highestBid ELSE 0
Stake(u, a) ==
  IF a.status \in {"ACTIVE", "SETTLED"} /\ a.highestBidder = u THEN a.highestBid ELSE 0
Proceeds(u, a) == IF a.status = "SETTLED" /\ a.lender = u THEN a.highestBid ELSE 0

\* Auctions are finitely many, and their bids are numbers.
LEMMA BidsOf ==
  ASSUME NEW as \in Seq(DebtAuction), NEW S, S \subseteq DOMAIN as
  PROVE  IsFiniteSet(S) /\ \A y \in S : as[y].highestBid \in Int
<1>1. IsFiniteSet(S)
  BY FinitePositions
<1>2. \A y \in S : as[y] \in DebtAuction
  BY ElementOfSeq, LenProperties
<1>3. \A r \in DebtAuction : r.highestBid \in Int
  BY DEF DebtAuction
<1> QED
  BY <1>1, <1>2, <1>3

\* Auction i may change or be new; no other does.
Changes(i) ==
  /\ DOMAIN auctions' = DOMAIN auctions \cup {i}
  /\ \A j \in DOMAIN auctions \ {i} : auctions'[j] = auctions[j]

LEMMA BidSumChange ==
  ASSUME TypeOK, TypeOK', NEW i, Changes(i),
         NEW S, S \subseteq DOMAIN auctions, NEW T, T \subseteq DOMAIN auctions',
         S \ {i} = T \ {i}
  PROVE  SumFunctionOnSet(HighestBids', T) =
           SumFunctionOnSet(HighestBids, S) - Share(HighestBids, S, i)
             + Share(HighestBids', T, i)
<1>1. IsFiniteSet(S) /\ \A y \in S : HighestBids[y] \in Int
  BY BidsOf DEF HighestBids, TypeOK
<1>2. IsFiniteSet(T) /\ \A y \in T : HighestBids'[y] \in Int
  BY BidsOf DEF HighestBids, TypeOK
<1>3. \A y \in S \ {i} : HighestBids'[y] = HighestBids[y]
  BY DEF HighestBids, Changes
<1> DEFINE f == HighestBids
           g == HighestBids'
<1> HIDE DEF f, g
<1> QED
  BY <1>1, <1>2, <1>3, SumChange DEF f, g

\* Running auctions hold a bid; leading or sold ones are staked by their bidder;
\* sold ones brought their lender the bid.
HeldBids == SumFunctionOnSet(HighestBids, Running)
Staked(u) == SumFunctionOnSet(HighestBids, Leading(u))
Brought(u) == SumFunctionOnSet(HighestBids, SoldBy(u))

LEMMA MoneyChange ==
  ASSUME TypeOK, TypeOK', NEW i, Changes(i)
  PROVE  /\ HeldBids \in Int /\ HeldBids' \in Int
         /\ HeldBids' = HeldBids - Share(HighestBids, Running, i)
                          + Share(HighestBids', Running', i)
         /\ \A u \in Users :
              /\ Staked(u) \in Int /\ Brought(u) \in Int
              /\ Staked(u)' = Staked(u) - Share(HighestBids, Leading(u), i)
                                + Share(HighestBids', Leading(u)', i)
              /\ Brought(u)' = Brought(u) - Share(HighestBids, SoldBy(u), i)
                                 + Share(HighestBids', SoldBy(u)', i)
<1>1. /\ Running \subseteq DOMAIN auctions /\ Running' \subseteq DOMAIN auctions'
      /\ Running \ {i} = Running' \ {i}
  BY DEF Running, Changes
<1>2. ASSUME NEW S, S \subseteq DOMAIN auctions
      PROVE  SumFunctionOnSet(HighestBids, S) \in Int
  BY <1>2, BidsOf, SumType DEF TypeOK, HighestBids
<1>3. ASSUME NEW S, S \subseteq DOMAIN auctions'
      PROVE  SumFunctionOnSet(HighestBids', S) \in Int
  BY <1>3, BidsOf, SumType DEF TypeOK, HighestBids
<1>4. ASSUME NEW u \in Users
      PROVE  /\ Leading(u) \subseteq DOMAIN auctions /\ Leading(u)' \subseteq DOMAIN auctions'
             /\ Leading(u) \ {i} = Leading(u)' \ {i}
             /\ SoldBy(u) \subseteq DOMAIN auctions /\ SoldBy(u)' \subseteq DOMAIN auctions'
             /\ SoldBy(u) \ {i} = SoldBy(u)' \ {i}
  BY DEF Leading, SoldBy, Running, Settled, Changes
<1>5. HeldBids' = HeldBids - Share(HighestBids, Running, i) + Share(HighestBids', Running', i)
  BY <1>1, BidSumChange DEF HeldBids
<1>6. ASSUME NEW u \in Users
      PROVE  /\ Staked(u)' = Staked(u) - Share(HighestBids, Leading(u), i)
                               + Share(HighestBids', Leading(u)', i)
             /\ Brought(u)' = Brought(u) - Share(HighestBids, SoldBy(u), i)
                                + Share(HighestBids', SoldBy(u)', i)
  BY <1>4, BidSumChange DEF Staked, Brought
<1> QED
  BY <1>1, <1>2, <1>3, <1>4, <1>5, <1>6 DEF HeldBids, Staked, Brought

LEMMA Shares ==
  ASSUME NEW i
  PROVE  /\ i \in DOMAIN auctions =>
              /\ Share(HighestBids, Running, i) = Held(auctions[i])
              /\ \A u : /\ Share(HighestBids, Leading(u), i) = Stake(u, auctions[i])
                        /\ Share(HighestBids, SoldBy(u), i) = Proceeds(u, auctions[i])
         /\ i \notin DOMAIN auctions =>
              /\ Share(HighestBids, Running, i) = 0
              /\ \A u : /\ Share(HighestBids, Leading(u), i) = 0
                        /\ Share(HighestBids, SoldBy(u), i) = 0
BY DEF Share, HighestBids, Running, Settled, Leading, SoldBy, Held, Stake, Proceeds

LEMMA SharesNext ==
  ASSUME NEW i, i \in DOMAIN auctions'
  PROVE  /\ Share(HighestBids', Running', i) = Held(auctions'[i])
         /\ \A u : /\ Share(HighestBids', Leading(u)', i) = Stake(u, auctions'[i])
                   /\ Share(HighestBids', SoldBy(u)', i) = Proceeds(u, auctions'[i])
BY DEF Share, HighestBids, Running, Settled, Leading, SoldBy, Held, Stake, Proceeds

\* What a bid moves: its value comes in, the bid it replaces goes back.
LEMMA BidMoney ==
  ASSUME TypeOK, NEW bidder \in Users, NEW id \in DOMAIN auctions, NEW value \in Nat,
         PlaceBid(bidder, id, value)
  PROVE  LET previous == auctions[id].highestBidder
             refund == IF previous = NoBidder THEN 0 ELSE auctions[id].highestBid
         IN  /\ balance'["AUCTION"] = balance["AUCTION"] + value - refund
             /\ \A u \in Users :
                  balance'[u] = balance[u] - (IF u = bidder THEN value ELSE 0)
                                           + (IF u = previous THEN refund ELSE 0)
<1> DEFINE received == Transfer(balance, bidder, "AUCTION", value)
           previous == auctions[id].highestBidder
           bid == auctions[id].highestBid
<1>1. /\ balance \in [Account -> Nat] /\ bidder \in Account /\ "AUCTION" \in Account
      /\ bid \in Nat /\ previous \in Users \cup {NoBidder}
      /\ "AUCTION" \notin Users /\ NoBidder \notin Users
      /\ \A u \in Users : u \in Account /\ u # "AUCTION"
  BY AuctionTypes, AuctionInputs, Accounts DEF DebtAuction, Account
<1>2. /\ CanTransfer(balance, bidder, "AUCTION", value)
      /\ previous = NoBidder => balance' = received
      /\ previous # NoBidder => balance' = Transfer(received, "AUCTION", previous, bid)
  BY DEF PlaceBid
<1>3. received \in [Account -> Nat]
  BY <1>1, <1>2, TransferType
<1>4. \A a \in Account :
        received[a] = IF a = bidder THEN balance[a] - value
                      ELSE IF a = "AUCTION" THEN balance[a] + value ELSE balance[a]
  BY <1>1, TransferEffect
<1> HIDE DEF received, previous, bid
<1>5. CASE previous = NoBidder
  BY <1>1, <1>2, <1>4, <1>5 DEF previous
<1>6. CASE previous # NoBidder
  <2>1. previous \in Account /\ previous # "AUCTION"
    BY <1>1, <1>6
  <2>2. \A a \in Account :
          balance'[a] = IF a = "AUCTION" THEN received[a] - bid
                        ELSE IF a = previous THEN received[a] + bid ELSE received[a]
    BY <1>1, <1>2, <1>3, <1>6, <2>1, TransferEffect
  <2>3. balance'["AUCTION"] = balance["AUCTION"] + value - bid
    BY <1>1, <1>4, <2>2
  <2>4. ASSUME NEW u \in Users
        PROVE  balance'[u] = balance[u] - (IF u = bidder THEN value ELSE 0)
                                        + (IF u = previous THEN bid ELSE 0)
    BY <1>1, <1>4, <2>2
  <2> QED
    BY <1>6, <2>3, <2>4 DEF previous, bid
<1> QED
  BY <1>5, <1>6

\* What a settlement moves: the bid, if there is one, to the lender.
LEMMA SettleMoney ==
  ASSUME TypeOK, NEW id \in DOMAIN auctions, SettleAuction(id)
  PROVE  LET sold == auctions[id].highestBidder # NoBidder
             bid == auctions[id].highestBid
         IN  /\ balance'["AUCTION"] = balance["AUCTION"] - (IF sold THEN bid ELSE 0)
             /\ \A u \in Users :
                  balance'[u] = balance[u]
                    + (IF sold /\ u = auctions[id].lender THEN bid ELSE 0)
<1> DEFINE lender == auctions[id].lender
           bid == auctions[id].highestBid
<1>1. /\ balance \in [Account -> Nat] /\ "AUCTION" \in Account /\ lender \in Account
      /\ lender # "AUCTION" /\ bid \in Nat
      /\ \A u \in Users : u \in Account /\ u # "AUCTION"
  BY AuctionTypes, AuctionInputs, Accounts DEF DebtAuction, Account
<1>2. /\ auctions[id].highestBidder = NoBidder => balance' = balance
      /\ auctions[id].highestBidder # NoBidder =>
           balance' = Transfer(balance, "AUCTION", lender, bid)
  BY DEF SettleAuction
<1> HIDE DEF lender, bid
<1>3. CASE auctions[id].highestBidder = NoBidder
  BY <1>1, <1>2, <1>3
<1>4. CASE auctions[id].highestBidder # NoBidder
  <2>1. \A a \in Account :
          balance'[a] = IF a = "AUCTION" THEN balance[a] - bid
                        ELSE IF a = lender THEN balance[a] + bid ELSE balance[a]
    BY <1>1, <1>2, <1>4, TransferEffect
  <2> QED
    BY <1>1, <1>4, <2>1 DEF lender, bid
<1> QED
  BY <1>3, <1>4

\* The accounts, with the sums named.
Accounted ==
  /\ balance["AUCTION"] = HeldBids
  /\ \A u \in Users : balance[u] = InitialWallet - Staked(u) + Brought(u)

LEMMA AccountedIs == AuctionMoneyAccounted <=> Accounted
BY DEF AuctionMoneyAccounted, Accounted, HeldBids, Staked, Brought, Leading, SoldBy

LEMMA AccountedInit == Init => Accounted
<1> SUFFICES ASSUME Init PROVE Accounted
  OBVIOUS
<1>1. DOMAIN auctions = {}
  BY DEF Init
<1>2. Running = {} /\ \A u \in Users : Leading(u) = {} /\ SoldBy(u) = {}
  BY <1>1 DEF Running, Settled, Leading, SoldBy
<1>3. HeldBids = 0 /\ \A u \in Users : Staked(u) = 0 /\ Brought(u) = 0
  BY <1>2, SumEmpty, Zenon DEF HeldBids, Staked, Brought
<1>4. balance["AUCTION"] = 0 /\ \A u \in Users : balance[u] = InitialWallet
  BY AuctionInputs, Accounts DEF Init
<1> QED
  BY <1>3, <1>4, AuctionInputs DEF Accounted

LEMMA AccountedNext ==
  TypeOK /\ NoBidWithoutBidder /\ Accounted /\ [Next]_vars => Accounted'
<1> SUFFICES ASSUME TypeOK, NoBidWithoutBidder, Accounted, [Next]_vars PROVE Accounted'
  OBVIOUS
<1>0. TypeOK' /\ balance \in [Account -> Nat]
  BY NextType, AuctionTypes
<1>1. CASE PassTime \/ UNCHANGED vars
  <2>1. UNCHANGED <<balance, auctions>>
    BY <1>1 DEF PassTime, vars
  <2> QED
    BY <2>1 DEF Accounted, HeldBids, Staked, Brought, HighestBids, Running, Settled,
                Leading, SoldBy
<1>2. ASSUME NEW loanId \in LoanIds, NEW lender \in Users, NEW principal \in Nat,
             NEW reserve \in Nat, NEW duration \in Nat,
             CreateAuction(Owner, loanId, lender, principal, reserve, duration)
      PROVE  Accounted'
  <2> DEFINE n == Len(auctions) + 1
  <2>1. /\ Changes(n) /\ n \notin DOMAIN auctions /\ n \in DOMAIN auctions'
        /\ auctions'[n] = NewAuction(loanId, lender, reserve, duration)
        /\ UNCHANGED balance
    <3>1. Created(loanId, lender, reserve, duration)
      BY <1>2, CreateEffect
    <3> QED
      BY <3>1 DEF Created, Changes
  <2> HIDE DEF n
  <2>2. /\ Held(auctions'[n]) = 0
        /\ \A u \in Users : Stake(u, auctions'[n]) = 0 /\ Proceeds(u, auctions'[n]) = 0
    BY <2>1 DEF Held, Stake, Proceeds, NewAuction
  <2>3. /\ HeldBids' = HeldBids
        /\ \A u \in Users : Staked(u)' = Staked(u) /\ Brought(u)' = Brought(u)
    BY <1>0, <2>1, <2>2, MoneyChange, Shares, SharesNext
  <2> QED
    BY <2>1, <2>3 DEF Accounted
<1>3. ASSUME NEW bidder \in Users, NEW id \in DOMAIN auctions, NEW value \in Nat,
             PlaceBid(bidder, id, value)
      PROVE  Accounted'
  <2> DEFINE previous == auctions[id].highestBidder
             bid == auctions[id].highestBid
             refund == IF previous = NoBidder THEN 0 ELSE bid
  <2>1. /\ Update(id, value, bidder, "ACTIVE") /\ auctions[id].status = "ACTIVE"
        /\ Changes(id) /\ id \in DOMAIN auctions'
    <3>1. Update(id, value, bidder, "ACTIVE") /\ auctions[id].status = "ACTIVE"
      BY <1>3, BidEffect
    <3>2. Changes(id) /\ id \in DOMAIN auctions'
      BY <3>1 DEF Update, Changes
    <3> QED
      BY <3>1, <3>2
  <2>2. /\ bid \in Nat /\ (previous = NoBidder => bid = 0) /\ NoBidder \notin Users
    BY AuctionTypes, AuctionInputs DEF DebtAuction, NoBidWithoutBidder
  <2>3. /\ balance'["AUCTION"] = balance["AUCTION"] + value - refund
        /\ \A u \in Users :
             balance'[u] = balance[u] - (IF u = bidder THEN value ELSE 0)
                                      + (IF u = previous THEN refund ELSE 0)
    BY <1>3, BidMoney
  <2>4. /\ Held(auctions[id]) = bid /\ Held(auctions'[id]) = value
        /\ \A u \in Users :
             /\ Stake(u, auctions[id]) = (IF u = previous THEN bid ELSE 0)
             /\ Stake(u, auctions'[id]) = (IF u = bidder THEN value ELSE 0)
             /\ Proceeds(u, auctions[id]) = 0 /\ Proceeds(u, auctions'[id]) = 0
    BY <2>1 DEF Update, Held, Stake, Proceeds
  <2> HIDE DEF previous, bid
  <2>5. /\ HeldBids' = HeldBids - bid + value /\ HeldBids \in Int
        /\ \A u \in Users :
             /\ Staked(u)' = Staked(u) - (IF u = previous THEN bid ELSE 0)
                                       + (IF u = bidder THEN value ELSE 0)
             /\ Brought(u)' = Brought(u) /\ Staked(u) \in Int /\ Brought(u) \in Int
    BY <1>0, <2>1, <2>4, MoneyChange, Shares, SharesNext
  <2>6. refund = bid
    BY <2>2
  <2>7. balance'["AUCTION"] = HeldBids'
    BY <2>2, <2>3, <2>5, <2>6 DEF Accounted
  <2>8. ASSUME NEW u \in Users
        PROVE  balance'[u] = InitialWallet - Staked(u)' + Brought(u)'
    BY <2>2, <2>3, <2>5, <2>6, AuctionInputs DEF Accounted
  <2> QED
    BY <2>7, <2>8 DEF Accounted
<1>4. ASSUME NEW id \in DOMAIN auctions, SettleAuction(id)
      PROVE  Accounted'
  <2> DEFINE sold == auctions[id].highestBidder # NoBidder
             bid == auctions[id].highestBid
             won == IF sold THEN bid ELSE 0
  <2>1. PICK status \in {"SETTLED", "CANCELLED"} :
               /\ status = "SETTLED" <=> sold
               /\ Update(id, bid, auctions[id].highestBidder, status)
    BY <1>4, SettleEffect
  <2>2. /\ auctions[id].status = "ACTIVE" /\ Changes(id) /\ id \in DOMAIN auctions'
    BY <1>4, <2>1, SettleEffect DEF Update, Changes
  <2>3. /\ bid \in Nat /\ won = bid /\ auctions[id].highestBidder \in Users \cup {NoBidder}
        /\ NoBidder \notin Users
    BY AuctionTypes, AuctionInputs DEF DebtAuction, NoBidWithoutBidder
  <2>4. /\ balance'["AUCTION"] = balance["AUCTION"] - won
        /\ \A u \in Users :
             balance'[u] = balance[u] + (IF sold /\ u = auctions[id].lender THEN bid ELSE 0)
    BY <1>4, SettleMoney
  <2>5. /\ Held(auctions[id]) = bid /\ Held(auctions'[id]) = 0
        /\ \A u \in Users :
             /\ Stake(u, auctions'[id]) = Stake(u, auctions[id])
             /\ Proceeds(u, auctions[id]) = 0
             /\ Proceeds(u, auctions'[id]) =
                  (IF sold /\ u = auctions[id].lender THEN bid ELSE 0)
    BY <2>1, <2>2, <2>3 DEF Update, SameAuction, Held, Stake, Proceeds
  <2> HIDE DEF sold, bid
  <2>6. /\ HeldBids' = HeldBids - bid /\ HeldBids \in Int
        /\ \A u \in Users :
             /\ Staked(u)' = Staked(u) - Stake(u, auctions[id]) + Stake(u, auctions[id])
             /\ Brought(u)' = Brought(u)
                  + (IF sold /\ u = auctions[id].lender THEN bid ELSE 0)
             /\ Staked(u) \in Int /\ Brought(u) \in Int
    BY <1>0, <2>2, <2>3, <2>5, MoneyChange, Shares, SharesNext
  <2>7. \A u \in Users : Stake(u, auctions[id]) \in Int
    BY <2>3 DEF Stake, bid
  <2>8. balance'["AUCTION"] = HeldBids'
    BY <2>3, <2>4, <2>6 DEF Accounted
  <2>9. ASSUME NEW u \in Users
        PROVE  balance'[u] = InitialWallet - Staked(u)' + Brought(u)'
    BY <2>3, <2>4, <2>6, <2>7, AuctionInputs DEF Accounted
  <2> QED
    BY <2>8, <2>9 DEF Accounted
<1> QED
  BY <1>1, <1>2, <1>3, <1>4, StepKinds

\* The contract holds the bids of its running auctions and nothing else, and
\* whoever was outbid has its money back, through any number of auctions.
THEOREM MoneyIsAccounted == Spec => []AuctionMoneyAccounted
BY AccountedIs, AccountedInit, AccountedNext, ReserveInit, ReserveNext, TypeCorrect, PTL DEF Spec
-----------------------------------------------------------------------------
(* The guards behind NobodyHeldUp, whose ENABLED the provers cannot expand: *)
(* a step is a guard and an assignment to every variable, and the guard     *)
(* holds whenever the property says that the step is possible.              *)

CanBid(bidder, id, value) ==
  LET auction == auctions[id]
  IN  /\ auction.status = "ACTIVE" /\ now <= auction.endTime
      /\ CanTransfer(balance, bidder, "AUCTION", value)
      /\ value >= MinBid(auction)
      /\ auction.highestBidder # NoBidder =>
           CanTransfer(Transfer(balance, bidder, "AUCTION", value), "AUCTION",
                       auction.highestBidder, auction.highestBid)

CanSettle(id) ==
  LET auction == auctions[id]
  IN  /\ auction.status = "ACTIVE" /\ now > auction.endTime
      /\ auction.highestBidder # NoBidder =>
           CanTransfer(balance, "AUCTION", auction.lender, auction.highestBid)

LEMMA BidIsGuarded ==
  ASSUME NEW bidder, NEW id, NEW value, CanBid(bidder, id, value),
         LET received == Transfer(balance, bidder, "AUCTION", value)
             previous == auctions[id].highestBidder
         IN  balance' = IF previous = NoBidder THEN received
                        ELSE Transfer(received, "AUCTION", previous, auctions[id].highestBid),
         auctions' = [auctions EXCEPT ![id].highestBid = value,
                                      ![id].highestBidder = bidder],
         UNCHANGED <<now, loanToAuction>>
  PROVE  PlaceBid(bidder, id, value)
BY DEF CanBid, PlaceBid

LEMMA SettlementIsGuarded ==
  ASSUME NEW id, CanSettle(id),
         LET auction == auctions[id]
             sold == auction.highestBidder # NoBidder
         IN  /\ auctions' = [auctions EXCEPT ![id].status =
                               IF sold THEN "SETTLED" ELSE "CANCELLED"]
             /\ balance' = IF sold
                           THEN Transfer(balance, "AUCTION", auction.lender, auction.highestBid)
                           ELSE balance,
         UNCHANGED <<now, loanToAuction>>
  PROVE  SettleAuction(id)
<1>1. CASE auctions[id].highestBidder # NoBidder
  BY <1>1 DEF CanSettle, SettleAuction
<1>2. CASE auctions[id].highestBidder = NoBidder
  BY <1>2 DEF CanSettle, SettleAuction
<1> QED
  BY <1>1, <1>2

NobodyRefused ==
  \A id \in Running :
    LET auction == auctions[id] IN
    /\ now <= auction.endTime /\ auction.highestBidder \notin Rejecting =>
         \A u \in Users : balance[u] >= MinBid(auction) => CanBid(u, id, MinBid(auction))
    /\ now > auction.endTime /\ auction.lender \notin Rejecting => CanSettle(id)

\* One running auction's bid is no more than the contract holds.
LEMMA BackedBid ==
  ASSUME TypeOK, Accounted, NEW id \in Running
  PROVE  auctions[id].highestBid <= balance["AUCTION"]
<1> DEFINE S == Running
<1>1. auctions \in Seq(DebtAuction) /\ S \subseteq DOMAIN auctions /\ id \in S
  BY DEF TypeOK, Running
<1> HIDE DEF S
<1>2. IsFiniteSet(S) /\ \A y \in S : HighestBids[y] \in Nat
  <2>1. IsFiniteSet(S)
    BY <1>1, FinitePositions
  <2>2. \A y \in DOMAIN auctions : auctions[y].highestBid \in Nat
    BY AuctionTypes DEF DebtAuction
  <2> QED
    BY <1>1, <2>1, <2>2 DEF HighestBids
<1>3. HighestBids[id] <= SumFunctionOnSet(HighestBids, S)
  BY <1>1, <1>2, SumCovers
<1> QED
  BY <1>1, <1>3 DEF Accounted, HeldBids, HighestBids, S

LEMMA NeverRefused == TypeOK /\ Accounted => NobodyRefused
<1> SUFFICES ASSUME TypeOK, Accounted, NEW id \in Running
             PROVE  LET auction == auctions[id] IN
                    /\ now <= auction.endTime /\ auction.highestBidder \notin Rejecting =>
                         \A u \in Users : balance[u] >= MinBid(auction) =>
                                            CanBid(u, id, MinBid(auction))
                    /\ now > auction.endTime /\ auction.lender \notin Rejecting => CanSettle(id)
  BY DEF NobodyRefused
<1> DEFINE auction == auctions[id]
           bid == auction.highestBid
<1>1. /\ auction.status = "ACTIVE" /\ auction \in DebtAuction
      /\ bid \in Nat /\ MinBid(auction) \in Nat /\ bid <= balance["AUCTION"]
      /\ balance \in [Account -> Nat] /\ balance["AUCTION"] \in Nat
      /\ "AUCTION" \in Account /\ "AUCTION" \notin Users /\ "AUCTION" \notin Rejecting
  <2>1. auction.status = "ACTIVE" /\ auction \in DebtAuction
    BY AuctionTypes DEF Running
  <2>2. bid \in Nat /\ MinBid(auction) \in Nat
    BY <2>1, MinBidHigher DEF DebtAuction
  <2> QED
    BY <2>1, <2>2, BackedBid, AuctionTypes, AuctionInputs, Accounts
<1>2. ASSUME now <= auction.endTime, auction.highestBidder \notin Rejecting,
             NEW u \in Users, balance[u] >= MinBid(auction)
      PROVE  CanBid(u, id, MinBid(auction))
  <2> DEFINE received == Transfer(balance, u, "AUCTION", MinBid(auction))
  <2>1. u \in Account /\ u # "AUCTION" /\ balance[u] \in Nat
    BY <1>1 DEF Account
  <2>2. \A a \in Account :
          received[a] = IF a = u THEN balance[a] - MinBid(auction)
                        ELSE IF a = "AUCTION" THEN balance[a] + MinBid(auction) ELSE balance[a]
    BY <1>1, <2>1, TransferEffect
  <2>3. received["AUCTION"] = balance["AUCTION"] + MinBid(auction)
    BY <1>1, <2>1, <2>2
  <2>4. PICK m \in Nat : m = MinBid(auction)
    BY <1>1
  <2> HIDE DEF received, bid
  <2>5. bid <= received["AUCTION"] /\ m <= balance[u] /\ m >= m
    BY <1>1, <1>2, <2>1, <2>3, <2>4
  <2> QED
    BY <1>1, <1>2, <2>4, <2>5 DEF CanBid, CanTransfer, received, bid
<1>3. ASSUME now > auction.endTime, auction.lender \notin Rejecting PROVE CanSettle(id)
  BY <1>1, <1>3 DEF CanSettle, CanTransfer
<1> QED
  BY <1>2, <1>3

\* Neither a bid nor a settlement is ever refused for the money or the state of
\* this or another auction: with the two lemmas above this is NobodyHeldUp but
\* for the meaning of ENABLED.
THEOREM NobodyIsRefused == Spec => []NobodyRefused
BY NeverRefused, AccountedInit, AccountedNext, ReserveInit, ReserveNext, TypeCorrect, PTL
   DEF Spec
-----------------------------------------------------------------------------
(* The contract implements AuctionHouse.                                   *)

\* The refinement mapping of DebtAuctionManager's House, by name.
Lots == [id \in DOMAIN auctions |-> Lot(auctions[id])]
Funds == [u \in Users |-> balance[u]]

LEMMA LotsNow ==
  /\ DOMAIN Lots = DOMAIN auctions
  /\ \A id \in DOMAIN auctions : Lots[id] = Lot(auctions[id])
BY DEF Lots

\* The lots after a step that takes no time.
LEMMA LotsNext ==
  ASSUME now' = now
  PROVE  /\ DOMAIN Lots' = DOMAIN auctions'
         /\ \A id \in DOMAIN auctions' : Lots'[id] = Lot(auctions'[id])
BY DEF Lots, Lot, LotPhase

\* A sequence with one more item is the shorter one with it appended.
LEMMA OneMore ==
  ASSUME NEW n \in Nat, NEW f, NEW g, NEW x,
         f = [i \in 1 .. n |-> f[i]], g = [i \in 1 .. n + 1 |-> g[i]],
         \A i \in 1 .. n : g[i] = f[i], g[n + 1] = x
  PROVE  g = Append(f, x)
<1> DEFINE S == {g[i] : i \in 1 .. n + 1}
<1>0. n + 1 \in 1 .. n + 1 /\ \A i \in 1 .. n : i \in 1 .. n + 1
  OBVIOUS
<1>1. /\ x \in S /\ \A i \in 1 .. n : f[i] \in S
      /\ \A i \in 1 .. n + 1 : g[i] \in S
  BY <1>0
<1>2. f \in [1 .. n -> S] /\ g \in [1 .. n + 1 -> S] /\ n + 1 \in Nat
  BY <1>1
<1> HIDE DEF S
<1>5. f \in Seq(S) /\ g \in Seq(S)
  BY <1>2, SeqDef
<1>3. Len(f) = n /\ Len(g) = n + 1
  BY <1>2, <1>5, LenProperties
<1>4. /\ Append(f, x) \in Seq(S) /\ Len(Append(f, x)) = n + 1
      /\ \A i \in 1 .. n + 1 : Append(f, x)[i] = g[i]
  <2>1. /\ Append(f, x) \in Seq(S) /\ Len(Append(f, x)) = n + 1
        /\ \A i \in 1 .. n : Append(f, x)[i] = f[i]
        /\ Append(f, x)[n + 1] = x
    BY <1>1, <1>3, <1>5, AppendProperties
  <2>2. \A i \in 1 .. n + 1 : i \in 1 .. n \/ i = n + 1
    OBVIOUS
  <2> QED
    BY <2>1, <2>2
<1> QED
  BY <1>3, <1>4, <1>5, SeqEqual

LEMMA HouseInit == Init => House!Init
<1> SUFFICES ASSUME Init PROVE Lots = <<>> /\ Funds = [u \in Users |-> InitialWallet]
  BY DEF House!Init, Lots, Funds
<1>1. auctions = <<>> /\ DOMAIN auctions = {}
  BY DEF Init
<1>2. Lots = <<>>
  BY <1>1 DEF Lots
<1>3. Funds = [u \in Users |-> InitialWallet]
  BY DEF Init, Funds
<1> QED
  BY <1>2, <1>3

LEMMA HouseOffer ==
  ASSUME TypeOK, LatestOnly, NEW loanId \in LoanIds, NEW lender \in Users,
         NEW principal \in Principals, NEW reserve \in Reserves, NEW duration \in Durations,
         CreateAuction(Owner, loanId, lender, principal, reserve, duration)
  PROVE  House!Next
<1> DEFINE n == Len(auctions)
           new == [debt |-> loanId, seller |-> lender, reserve |-> reserve,
                   price |-> 0, leader |-> NoBidder, phase |-> "OPEN"]
<1>0. reserve \in Nat /\ duration \in Nat /\ principal \in Nat
  BY AuctionInputs
<1>1. Created(loanId, lender, reserve, duration)
  BY <1>0, CreateEffect
<1>2. /\ n \in Nat /\ now \in Nat /\ DOMAIN auctions = 1 .. n
      /\ DOMAIN auctions' = 1 .. n + 1
      /\ \A i \in 1 .. n : auctions'[i] = auctions[i]
      /\ auctions'[n + 1] = NewAuction(loanId, lender, reserve, duration)
      /\ now' = now /\ balance' = balance
  <2>1. n \in Nat /\ now \in Nat /\ DOMAIN auctions = 1 .. n
    BY AuctionTypes
  <2>2. /\ DOMAIN auctions' = DOMAIN auctions \cup {n + 1}
        /\ \A i \in DOMAIN auctions : auctions'[i] = auctions[i]
        /\ auctions'[n + 1] = NewAuction(loanId, lender, reserve, duration)
        /\ now' = now /\ balance' = balance
    BY <1>1 DEF Created
  <2> QED
    BY <2>1, <2>2
<1>3. Lots' = Append(Lots, new)
  <2>0. n + 1 \in 1 .. n + 1 /\ \A i \in 1 .. n : i \in 1 .. n + 1
    BY <1>2
  <2>1. \A i \in 1 .. n : Lots'[i] = Lots[i]
    BY <1>2, <2>0, LotsNow, LotsNext
  <2>2. Lots'[n + 1] = new
    <3>1. Lots'[n + 1] = Lot(NewAuction(loanId, lender, reserve, duration))
      BY <1>2, <2>0, LotsNext
    <3>2. now <= now + duration
      BY <1>0, <1>2
    <3> QED
      BY <3>1, <3>2 DEF Lot, LotPhase, NewAuction
  <2>3. Lots = [i \in 1 .. n |-> Lots[i]] /\ Lots' = [i \in 1 .. n + 1 |-> Lots'[i]]
    BY <1>2 DEF Lots
  <2> HIDE DEF new, n
  <2> QED
    BY <1>2, <2>1, <2>2, <2>3, OneMore
<1>4. Funds' = Funds
  BY <1>2 DEF Funds
<1>5. ASSUME NEW id \in DOMAIN Lots, Lots[id].phase \in {"OPEN", "CLOSED"}
      PROVE  Lots[id].debt # loanId
  <2>1. id \in DOMAIN auctions /\ auctions[id] \in DebtAuction
    BY <1>5, AuctionTypes DEF Lots
  <2>2. auctions[id].status = "ACTIVE"
    BY <1>5, <2>1 DEF Lots, Lot, LotPhase
  <2>3. id = loanToAuction[auctions[id].loanId] /\ loanToAuction[auctions[id].loanId] # 0
    BY <2>1, <2>2 DEF LatestOnly
  <2>4. auctions[id].loanId # loanId
    BY <1>1, <2>2, <2>3 DEF Created, Auctionable
  <2> QED
    BY <2>1, <2>4 DEF Lots, Lot
<1>6. House!Offer(loanId, lender, reserve)
  BY <1>3, <1>4, <1>5 DEF House!Offer, House!InPhase, Lots, Funds
<1> QED
  BY <1>6 DEF House!Next

\* An accepted bid meets the reserve, whether or not there was one before.
LEMMA BidMeetsReserve ==
  ASSUME TypeOK, SoldAtReserve, NoBidWithoutBidder, NEW id \in DOMAIN auctions,
         NEW value \in Nat, value >= MinBid(auctions[id])
  PROVE  value >= auctions[id].reservePrice /\ value >= auctions[id].highestBid
<1>1. auctions[id] \in DebtAuction
  BY AuctionTypes
<1>2. /\ auctions[id].highestBid \in Nat /\ auctions[id].reservePrice \in Nat
      /\ MinBid(auctions[id]) \in Nat /\ MinBid(auctions[id]) >= auctions[id].highestBid
      /\ auctions[id].highestBid = 0 => MinBid(auctions[id]) = auctions[id].reservePrice
  BY <1>1, MinBidHigher DEF DebtAuction
<1>3. auctions[id].highestBid # 0 => auctions[id].highestBid >= auctions[id].reservePrice
  BY DEF SoldAtReserve, NoBidWithoutBidder
<1> QED
  BY <1>2, <1>3

\* A change of one auction is a change of one lot.
LEMMA OneLot ==
  ASSUME TypeOK, NEW id \in DOMAIN auctions, NEW bid, NEW bidder, NEW status,
         Update(id, bid, bidder, status), now' = now
  PROVE  /\ DOMAIN Lots' = DOMAIN Lots /\ id \in DOMAIN Lots
         /\ \A i \in DOMAIN Lots \ {id} : Lots'[i] = Lots[i]
         /\ Lots[id] = Lot(auctions[id])
         /\ Lots'[id] = [debt |-> auctions[id].loanId, seller |-> auctions[id].lender,
                         reserve |-> auctions[id].reservePrice, price |-> bid,
                         leader |-> bidder, phase |-> LotPhase(auctions'[id])]
         /\ Lots' = [i \in DOMAIN Lots |-> Lots'[i]]
         /\ Lots = [i \in DOMAIN Lots |-> Lots[i]]
<1>1. DOMAIN Lots = DOMAIN auctions /\ DOMAIN Lots' = DOMAIN auctions
  BY DEF Update, Lots
<1>2. \A i \in DOMAIN auctions \ {id} : Lots'[i] = Lots[i]
  BY DEF Update, Lots, Lot, LotPhase
<1>3. Lots'[id] = [debt |-> auctions[id].loanId, seller |-> auctions[id].lender,
                   reserve |-> auctions[id].reservePrice, price |-> bid,
                   leader |-> bidder, phase |-> LotPhase(auctions'[id])]
  BY DEF Update, Lots, Lot, SameAuction, LotPhase
<1> QED
  BY <1>1, <1>2, <1>3 DEF Lots

LEMMA HouseBid ==
  ASSUME TypeOK, SoldAtReserve, NoBidWithoutBidder, NEW bidder \in Users,
         NEW id \in DOMAIN auctions, NEW value \in Bids, PlaceBid(bidder, id, value)
  PROVE  House!Next
<1> DEFINE a == auctions[id]
<1>1. /\ value \in Nat /\ a \in DebtAuction /\ a.status = "ACTIVE" /\ now <= a.endTime
      /\ Update(id, value, bidder, "ACTIVE") /\ now' = now
      /\ value >= a.reservePrice /\ value >= a.highestBid
  <2>1. value \in Nat
    BY AuctionInputs
  <2> QED
    BY <2>1, AuctionTypes, BidEffect, BidMeetsReserve
<1>2. /\ id \in DOMAIN Lots /\ Lots[id].phase = "OPEN"
      /\ Lots[id].price = a.highestBid /\ Lots[id].reserve = a.reservePrice
      /\ Lots[id].leader = a.highestBidder
      /\ Lots' = [Lots EXCEPT ![id].price = value, ![id].leader = bidder]
  <2>1. LotPhase(a) = "OPEN" /\ LotPhase(auctions'[id]) = "OPEN"
    BY <1>1 DEF Update, SameAuction, LotPhase
  <2>2. /\ DOMAIN Lots' = DOMAIN Lots /\ id \in DOMAIN Lots
        /\ \A i \in DOMAIN Lots \ {id} : Lots'[i] = Lots[i]
        /\ Lots[id] = Lot(a)
        /\ Lots'[id] = [debt |-> a.loanId, seller |-> a.lender, reserve |-> a.reservePrice,
                        price |-> value, leader |-> bidder, phase |-> "OPEN"]
        /\ Lots' = [i \in DOMAIN Lots |-> Lots'[i]]
        /\ Lots = [i \in DOMAIN Lots |-> Lots[i]]
    BY <1>1, <2>1, OneLot
  <2>3. Lots[id] = [debt |-> a.loanId, seller |-> a.lender, reserve |-> a.reservePrice,
                    price |-> a.highestBid, leader |-> a.highestBidder, phase |-> "OPEN"]
    BY <2>1, <2>2 DEF Lot
  <2> DEFINE raised == [Lots EXCEPT ![id].price = value]
  <2>4. /\ DOMAIN raised = DOMAIN Lots /\ \A i \in DOMAIN Lots \ {id} : raised[i] = Lots[i]
        /\ raised[id] = [debt |-> a.loanId, seller |-> a.lender, reserve |-> a.reservePrice,
                         price |-> value, leader |-> a.highestBidder, phase |-> "OPEN"]
    BY <2>2, <2>3
  <2> HIDE DEF raised
  <2>5. Lots' = [raised EXCEPT ![id].leader = bidder]
    BY <2>2, <2>4
  <2> QED
    BY <2>2, <2>3, <2>5 DEF raised
<1>3. value <= balance[bidder]
  BY DEF PlaceBid, CanTransfer
<1>4. \A u \in Users :
        balance'[u] = balance[u] - (IF u = bidder THEN value ELSE 0)
                                 + (IF u = a.highestBidder THEN a.highestBid ELSE 0)
  <2>1. NoBidder \notin Users
    BY AuctionInputs
  <2>2. \A u \in Users :
          balance'[u] = balance[u] - (IF u = bidder THEN value ELSE 0)
            + (IF u = a.highestBidder
               THEN IF a.highestBidder = NoBidder THEN 0 ELSE a.highestBid ELSE 0)
    BY <1>1, BidMoney
  <2> QED
    BY <2>1, <2>2
<1>5. Funds' = [u \in Users |-> Funds[u] - (IF u = bidder THEN value ELSE 0)
                  + (IF u = Lots[id].leader THEN Lots[id].price ELSE 0)]
  BY <1>2, <1>4 DEF Funds
<1>6. House!Bid(bidder, id, value)
  BY <1>1, <1>2, <1>3, <1>5 DEF House!Bid, Lots, Funds
<1> QED
  BY <1>6 DEF House!Next, Lots

LEMMA HouseClose ==
  ASSUME TypeOK, PassTime
  PROVE  House!Next
<1> DEFINE ids == {id \in DOMAIN auctions :
                     auctions[id].status = "ACTIVE" /\ now <= auctions[id].endTime
                                                   /\ now' > auctions[id].endTime}
<1>1. /\ now \in Nat /\ now' = now + 1 /\ auctions' = auctions /\ balance' = balance
      /\ \A id \in DOMAIN auctions : auctions[id] \in DebtAuction
  BY AuctionTypes DEF PassTime, Tick
<1>2. /\ DOMAIN Lots = DOMAIN auctions /\ Funds' = Funds
      /\ \A id \in DOMAIN auctions : Lots[id] = Lot(auctions[id])
      /\ Lots' = [id \in DOMAIN auctions |-> Lots'[id]]
      /\ \A id \in DOMAIN auctions :
           Lots'[id] = [Lot(auctions[id]) EXCEPT !.phase = LotPhase(auctions[id])']
  BY <1>1 DEF Lots, Lot, Funds
<1>3. ids \subseteq House!InPhase({"OPEN"})
  <2>1. \A id \in ids : Lots[id].phase = "OPEN" /\ id \in DOMAIN Lots
    BY <1>2 DEF Lot, LotPhase
  <2> QED
    BY <2>1 DEF House!InPhase, Lots
<1>4. ASSUME NEW id \in DOMAIN auctions
      PROVE  Lots'[id] = IF id \in ids THEN [Lots[id] EXCEPT !.phase = "CLOSED"] ELSE Lots[id]
  <2> DEFINE a == auctions[id]
             before == LotPhase(a)
             after == LotPhase(a)'
  <2>1. a \in DebtAuction /\ a.endTime \in Nat /\ a.status \in AuctionStatus
    BY <1>1 DEF DebtAuction
  <2>2. /\ a.status = "ACTIVE" => before = IF now <= a.endTime THEN "OPEN" ELSE "CLOSED"
        /\ a.status = "ACTIVE" => after = IF now' <= a.endTime THEN "OPEN" ELSE "CLOSED"
        /\ a.status # "ACTIVE" => after = before
    BY <1>1, <2>1 DEF LotPhase, AuctionStatus
  <2>3. after = IF id \in ids THEN "CLOSED" ELSE before
    BY <1>1, <2>1, <2>2
  <2>4. Lots[id] = Lot(a) /\ Lots'[id] = [Lot(a) EXCEPT !.phase = after]
    BY <1>2
  <2>5. [Lot(a) EXCEPT !.phase = before] = Lot(a)
    BY DEF Lot
  <2> HIDE DEF ids, before, after, a
  <2> QED
    BY <2>3, <2>4, <2>5
<1>5. House!Close(ids)
  <2> HIDE DEF ids
  <2>1. Lots' = [id \in DOMAIN Lots |->
                   IF id \in ids THEN [Lots[id] EXCEPT !.phase = "CLOSED"] ELSE Lots[id]]
    BY <1>2, <1>4
  <2> QED
    BY <1>2, <2>1 DEF House!Close, Lots, Funds
<1> HIDE DEF ids
<1> QED
  BY <1>3, <1>5 DEF House!Next

LEMMA HouseSettle ==
  ASSUME TypeOK, SoldAtReserve, NEW id \in DOMAIN auctions, SettleAuction(id)
  PROVE  House!Next
<1> DEFINE a == auctions[id]
<1>1. /\ a \in DebtAuction /\ a.status = "ACTIVE" /\ now > a.endTime /\ now' = now
      /\ now \in Nat /\ a.endTime \in Nat
  BY AuctionTypes, SettleEffect DEF DebtAuction
<1>2. PICK status \in {"SETTLED", "CANCELLED"} :
             /\ status = "SETTLED" <=> a.highestBidder # NoBidder
             /\ Update(id, a.highestBid, a.highestBidder, status)
  BY SettleEffect
<1> DEFINE outcome == IF status = "SETTLED" THEN "SOLD" ELSE "UNSOLD"
<1>3. /\ id \in DOMAIN Lots /\ Lots[id] = Lot(a) /\ Lots[id].phase = "CLOSED"
      /\ Lots' = [Lots EXCEPT ![id].phase = outcome]
  <2>1. LotPhase(a) = "CLOSED" /\ LotPhase(auctions'[id]) = outcome
    BY <1>1, <1>2 DEF Update, LotPhase
  <2>2. /\ DOMAIN Lots' = DOMAIN Lots /\ id \in DOMAIN Lots
        /\ \A i \in DOMAIN Lots \ {id} : Lots'[i] = Lots[i]
        /\ Lots[id] = Lot(a)
        /\ Lots'[id] = [debt |-> a.loanId, seller |-> a.lender, reserve |-> a.reservePrice,
                        price |-> a.highestBid, leader |-> a.highestBidder, phase |-> outcome]
        /\ Lots' = [i \in DOMAIN Lots |-> Lots'[i]]
        /\ Lots = [i \in DOMAIN Lots |-> Lots[i]]
    BY <1>1, <1>2, <2>1, OneLot
  <2> HIDE DEF outcome
  <2>3. Lots'[id] = [Lots[id] EXCEPT !.phase = outcome]
    BY <2>2 DEF Lot
  <2>4. Lots[id].phase = "CLOSED"
    BY <2>1, <2>2 DEF Lot
  <2> QED
    BY <2>2, <2>3, <2>4
<1>4. /\ Lots[id].leader = a.highestBidder /\ Lots[id].price = a.highestBid
      /\ Lots[id].seller = a.lender /\ Lots[id].reserve = a.reservePrice
  BY <1>3 DEF Lot
<1>5. \A u \in Users :
        balance'[u] = balance[u]
          + (IF a.highestBidder # NoBidder /\ u = a.lender THEN a.highestBid ELSE 0)
  BY SettleMoney
<1>6. /\ balance \in [Account -> Nat] /\ a.lender \in Users /\ a.highestBid \in Nat
      /\ \A u \in Users : u \in Account
  BY <1>1, AuctionTypes DEF DebtAuction, Account
<1>7. CASE a.highestBidder # NoBidder
  <2>1. a.highestBid >= a.reservePrice
    BY <1>7 DEF SoldAtReserve
  <2>2. Funds' = [Funds EXCEPT ![a.lender] = @ + a.highestBid]
    BY <1>5, <1>6, <1>7 DEF Funds
  <2>3. House!Sell(id)
    BY <1>2, <1>3, <1>4, <1>7, <2>1, <2>2 DEF House!Sell, Lots, Funds
  <2> QED
    BY <2>3 DEF House!Next, Lots
<1>8. CASE a.highestBidder = NoBidder
  <2>1. Funds' = Funds
    BY <1>5, <1>6, <1>8 DEF Funds
  <2>2. House!PassIn(id)
    BY <1>2, <1>3, <1>4, <1>8, <2>1 DEF House!PassIn, Lots, Funds
  <2> QED
    BY <2>2 DEF House!Next, Lots
<1> QED
  BY <1>7, <1>8

LEMMA HouseNext ==
  TypeOK /\ LatestOnly /\ SoldAtReserve /\ NoBidWithoutBidder /\ [Next]_vars
    => [House!Next]_(House!houseVars)
<1> SUFFICES ASSUME TypeOK, LatestOnly, SoldAtReserve, NoBidWithoutBidder, [Next]_vars
             PROVE  House!Next \/ UNCHANGED House!houseVars
  OBVIOUS
<1>1. CASE UNCHANGED vars
  <2>1. Lots' = Lots /\ Funds' = Funds
    BY <1>1 DEF vars, Lots, Lot, LotPhase, Funds
  <2> QED
    BY <2>1 DEF House!houseVars, Lots, Funds
<1>2. CASE PassTime
  BY <1>2, HouseClose
<1>3. ASSUME NEW loanId \in LoanIds, NEW lender \in Users, NEW principal \in Principals,
             NEW reserve \in Reserves, NEW duration \in Durations,
             CreateAuction(Owner, loanId, lender, principal, reserve, duration)
      PROVE  House!Next
  BY <1>3, HouseOffer
<1>4. ASSUME NEW bidder \in Users, NEW id \in DOMAIN auctions, NEW value \in Bids,
             PlaceBid(bidder, id, value)
      PROVE  House!Next
  BY <1>4, HouseBid
<1>5. ASSUME NEW id \in DOMAIN auctions, SettleAuction(id) PROVE House!Next
  BY <1>5, HouseSettle
<1> QED
  BY <1>1, <1>2, <1>3, <1>4, <1>5 DEF Next

\* The contract is an honest auction house: every transaction offers, bids for,
\* sells or passes in one lot, the clock closes lots, and nothing else happens to
\* a lot or to anybody's money.
THEOREM ImplementsAuctionHouse == Spec => KeepsAuctionHouse
<1>1. Spec => House!Init
  BY HouseInit DEF Spec
<1>2. Spec => [][House!Next]_(House!houseVars)
  BY HouseNext, LatestInit, LatestNext, ReserveInit, ReserveNext, TypeCorrect, PTL DEF Spec
<1> QED
  BY <1>1, <1>2 DEF KeepsAuctionHouse, House!Spec
=============================================================================
