------------------------- MODULE DebtAuctionManager -------------------------
(***************************************************************************)
(* contracts/core/DebtAuctionManager.sol: ascending auctions of debt. The  *)
(* contract holds the highest bid of every active auction, pays a bid back *)
(* when a higher one replaces it and pays the last one to the lender.      *)
(* createAuction is for the owner or the vault, and the vault never calls  *)
(* it; it takes whatever loan, lender and reserve it is given. Ids count   *)
(* from 1, so the mapping is a sequence; a loan without auction maps to 0. *)
(***************************************************************************)
EXTENDS Chain, Sequences, Functions

CONSTANTS
  LoanIds, Principals, Reserves, Durations,  \* what auctions are created with
  Bids,            \* amounts sent with a bid
  InitialWallet,   \* what every account starts with
  NoBidder,        \* the zero address
  Owner            \* may create auctions

CONSTANTS MaxTime, MaxAuctions  \* bounds that keep an instance finite

ASSUME AuctionInputs ==
  /\ "AUCTION" \in Contracts /\ NoBidder \notin Users
  /\ Principals \subseteq Nat /\ Reserves \subseteq Nat
  /\ Durations \subseteq Nat /\ Bids \subseteq Nat
  /\ InitialWallet \in Nat

VARIABLES auctions, loanToAuction

vars == <<now, balance, auctions, loanToAuction>>

AuctionStatus == {"ACTIVE", "SETTLED", "CANCELLED"}

DebtAuction ==
  [loanId : LoanIds, lender : Users, reservePrice : Nat, highestBid : Nat,
   highestBidder : Users \cup {NoBidder}, endTime : Nat, status : AuctionStatus]

TypeOK ==
  /\ ChainTypeOK
  /\ auctions \in Seq(DebtAuction)
  /\ loanToAuction \in [LoanIds -> Nat]
  /\ \A loan \in LoanIds : loanToAuction[loan] \in 0 .. Len(auctions)

Init ==
  /\ now = 0
  /\ balance = [a \in Users \cup Contracts |-> IF a \in Users THEN InitialWallet ELSE 0]
  /\ auctions = <<>>
  /\ loanToAuction = [loan \in LoanIds |-> 0]
-----------------------------------------------------------------------------
\* Faulty variant: a running auction does not stop a second one.
AuctionableAgain(loanId) == TRUE

Auctionable(loanId) ==
  loanToAuction[loanId] # 0 =>
    auctions[loanToAuction[loanId]].status # "ACTIVE"

\* Faulty variant: the mapping gets the id the counter has moved on to.
CreateAtNextId(caller, loanId, lender, principal, reserve, duration) ==
  /\ caller = Owner
  /\ principal # 0 /\ duration # 0
  /\ Auctionable(loanId)
  /\ auctions' = Append(auctions,
       [loanId |-> loanId, lender |-> lender, reservePrice |-> reserve,
        highestBid |-> 0, highestBidder |-> NoBidder,
        endTime |-> now + duration, status |-> "ACTIVE"])
  /\ loanToAuction' = [loanToAuction EXCEPT ![loanId] = Len(auctions) + 2]
  /\ UNCHANGED <<now, balance>>

CreateAuction(caller, loanId, lender, principal, reserve, duration) ==
  /\ caller = Owner
  /\ principal # 0 /\ duration # 0
  /\ Auctionable(loanId)
  /\ auctions' = Append(auctions,
       [loanId |-> loanId, lender |-> lender, reservePrice |-> reserve,
        highestBid |-> 0, highestBidder |-> NoBidder,
        endTime |-> now + duration, status |-> "ACTIVE"])
  /\ loanToAuction' = [loanToAuction EXCEPT ![loanId] = Len(auctions) + 1]
  /\ UNCHANGED <<now, balance>>

\* Faulty variant: the first bid is not held to the reserve.
MinBidWithoutReserve(auction) ==
  auction.highestBid + (auction.highestBid * 5) \div 100

\* Five per cent more than the highest bid, rounded down: a bid below 20 is
\* outbid by its equal.
MinBid(auction) ==
  IF auction.highestBid = 0 THEN auction.reservePrice
  ELSE auction.highestBid + (auction.highestBid * 5) \div 100

\* Faulty variants: the bid is written down first, so that the previous bidder
\* gets the new amount back; the auction never closes to bids.
BidBeforeRefund(bidder, id, value) ==
  LET auction  == auctions[id]
      received == Transfer(balance, bidder, "AUCTION", value)
      previous == auction.highestBidder
  IN  /\ auction.status = "ACTIVE" /\ now <= auction.endTime
      /\ CanTransfer(balance, bidder, "AUCTION", value) /\ value >= MinBid(auction)
      /\ auctions' = [auctions EXCEPT ![id].highestBid = value,
                                      ![id].highestBidder = bidder]
      /\ IF previous = NoBidder THEN balance' = received
         ELSE /\ CanTransfer(received, "AUCTION", previous, value)
              /\ balance' = Transfer(received, "AUCTION", previous, value)
      /\ UNCHANGED <<now, loanToAuction>>

BidAnyTime(bidder, id, value) ==
  LET auction  == auctions[id]
      received == Transfer(balance, bidder, "AUCTION", value)
      previous == auction.highestBidder
  IN  /\ CanTransfer(balance, bidder, "AUCTION", value) /\ value >= MinBid(auction)
      /\ auctions' = [auctions EXCEPT ![id].highestBid = value,
                                      ![id].highestBidder = bidder]
      /\ IF previous = NoBidder THEN balance' = received
         ELSE /\ CanTransfer(received, "AUCTION", previous, auction.highestBid)
              /\ balance' = Transfer(received, "AUCTION", previous, auction.highestBid)
      /\ UNCHANGED <<now, loanToAuction>>

\* The bid arrives, the bid it replaces is paid back - even one of zero - and
\* only then the new bid is written down.
PlaceBid(bidder, id, value) ==
  LET auction  == auctions[id]
      received == Transfer(balance, bidder, "AUCTION", value)
      previous == auction.highestBidder
  IN  /\ auction.status = "ACTIVE"
      /\ now <= auction.endTime
      /\ CanTransfer(balance, bidder, "AUCTION", value)
      /\ value >= MinBid(auction)
      /\ IF previous = NoBidder
         THEN balance' = received
         ELSE /\ CanTransfer(received, "AUCTION", previous, auction.highestBid)
              /\ balance' = Transfer(received, "AUCTION", previous, auction.highestBid)
      /\ auctions' = [auctions EXCEPT ![id].highestBid = value,
                                      ![id].highestBidder = bidder]
      /\ UNCHANGED <<now, loanToAuction>>

\* Faulty variant: an auction without bids cannot be settled.
SettleWithBids(id) ==
  LET auction == auctions[id]
  IN  /\ auction.status = "ACTIVE" /\ now > auction.endTime
      /\ auction.highestBidder # NoBidder
      /\ auctions' = [auctions EXCEPT ![id].status = "SETTLED"]
      /\ CanTransfer(balance, "AUCTION", auction.lender, auction.highestBid)
      /\ balance' = Transfer(balance, "AUCTION", auction.lender, auction.highestBid)
      /\ UNCHANGED <<now, loanToAuction>>

\* Anyone may settle an auction that has ended.
SettleAuction(id) ==
  LET auction == auctions[id]
  IN  /\ auction.status = "ACTIVE"
      /\ now > auction.endTime
      /\ IF auction.highestBidder # NoBidder
         THEN /\ auctions' = [auctions EXCEPT ![id].status = "SETTLED"]
              /\ CanTransfer(balance, "AUCTION", auction.lender, auction.highestBid)
              /\ balance' = Transfer(balance, "AUCTION", auction.lender, auction.highestBid)
         ELSE /\ auctions' = [auctions EXCEPT ![id].status = "CANCELLED"]
              /\ UNCHANGED balance
      /\ UNCHANGED <<now, loanToAuction>>

PassTime ==
  /\ now < MaxTime
  /\ Tick
  /\ UNCHANGED <<balance, auctions, loanToAuction>>

Next ==
  \/ PassTime
  \/ \E loanId \in LoanIds, lender \in Users, principal \in Principals,
        reserve \in Reserves, duration \in Durations :
       /\ Len(auctions) < MaxAuctions
       /\ CreateAuction(Owner, loanId, lender, principal, reserve, duration)
  \/ \E bidder \in Users, id \in DOMAIN auctions, value \in Bids : PlaceBid(bidder, id, value)
  \/ \E id \in DOMAIN auctions : SettleAuction(id)

Spec == Init /\ [][Next]_vars
-----------------------------------------------------------------------------
(* Safety.                                                                 *)

Running == {id \in DOMAIN auctions : auctions[id].status = "ACTIVE"}
Settled == {id \in DOMAIN auctions : auctions[id].status = "SETTLED"}
HighestBids == [id \in DOMAIN auctions |-> auctions[id].highestBid]

\* The contract holds exactly the highest bids of the running auctions, and
\* nobody else's money: every account has what it started with, less the bids
\* with which it leads or has won, plus what it was paid as a lender. A bidder
\* who was outbid is back where it was.
AuctionMoneyAccounted ==
  /\ balance["AUCTION"] = SumFunctionOnSet(HighestBids, Running)
  /\ \A u \in Users :
       balance[u] = InitialWallet
         - SumFunctionOnSet(HighestBids,
             {id \in Running \cup Settled : auctions[id].highestBidder = u})
         + SumFunctionOnSet(HighestBids, {id \in Settled : auctions[id].lender = u})

\* A loan is never in two running auctions, and loanToAuction names its latest.
OneAuctionPerLoan ==
  /\ \A i, j \in Running : auctions[i].loanId = auctions[j].loanId => i = j
  /\ \A loan \in LoanIds :
       LET ids == {id \in DOMAIN auctions : auctions[id].loanId = loan}
       IN  IF ids = {} THEN loanToAuction[loan] = 0
           ELSE /\ loanToAuction[loan] \in ids
                /\ \A id \in ids : id <= loanToAuction[loan]

\* While nobody refuses to be paid, neither a bid nor a settlement can be held
\* up by the money or the state of this or of another auction: whoever has the
\* minimum bid can take the lead until the end, and after it anyone can settle.
NobodyHeldUp ==
  \A id \in Running :
    LET auction == auctions[id] IN
    /\ now <= auction.endTime /\ auction.highestBidder \notin Rejecting =>
         \A u \in Users : balance[u] >= MinBid(auction) =>
                            ENABLED PlaceBid(u, id, MinBid(auction))
    /\ now > auction.endTime /\ auction.lender \notin Rejecting =>
         ENABLED SettleAuction(id)

\* After its end an auction's winner and price are final, and a settled or
\* cancelled one never changes again; until then the price does not fall.
PriceFinalAfterEnd ==
  [][\A id \in DOMAIN auctions :
       LET before == auctions[id]
           after  == auctions'[id]
       IN  /\ after.highestBid >= before.highestBid
           /\ now > before.endTime => /\ after.highestBid = before.highestBid
                                      /\ after.highestBidder = before.highestBidder
           /\ before.status # "ACTIVE" => after = before]_vars

\* An auction seen as a lot: it closes when its end passes, settled or not, and
\* its escrow is nobody's to see.
LotPhase(auction) ==
  IF auction.status = "ACTIVE"
  THEN IF now <= auction.endTime THEN "OPEN" ELSE "CLOSED"
  ELSE IF auction.status = "SETTLED" THEN "SOLD" ELSE "UNSOLD"

Lot(auction) ==
  [debt |-> auction.loanId, seller |-> auction.lender, reserve |-> auction.reservePrice,
   price |-> auction.highestBid, leader |-> auction.highestBidder, phase |-> LotPhase(auction)]

House == INSTANCE AuctionHouse WITH
  Parties <- Users, NoOne <- NoBidder, Debts <- LoanIds, Amounts <- Bids,
  InitialFunds <- InitialWallet,
  lots <- [id \in DOMAIN auctions |-> Lot(auctions[id])],
  funds <- [u \in Users |-> balance[u]]

\* The contract, with its clock, its escrow and its loanToAuction, is an honest
\* auction house: no bid lands after the end, none is lost between two leaders,
\* and only a lot that closed is sold, to its leader, for at least the reserve.
KeepsAuctionHouse == House!Spec
-----------------------------------------------------------------------------
(* Liveness, if time passes and somebody - the lender, who is paid - asks  *)
(* for the settlement.                                                     *)

FairSpec ==
  /\ Spec
  /\ WF_vars(PassTime)
  /\ \A id \in 1 .. MaxAuctions : WF_vars(id \in DOMAIN auctions /\ SettleAuction(id))

\* Every auction ends (in an instance: every one whose end comes before time's),
\* unless its lender refuses the money it won.
AuctionsEnd ==
  \A id \in 1 .. MaxAuctions :
    (/\ id \in Running
     /\ auctions[id].endTime < MaxTime
     /\ auctions[id].lender \notin Rejecting) ~> (id \in DOMAIN auctions \ Running)
=============================================================================
