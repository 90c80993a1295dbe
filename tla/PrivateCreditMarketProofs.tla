--------------------- MODULE PrivateCreditMarketProofs ---------------------
(***************************************************************************)
(* What requests, offers and loans have to do with one another, for every  *)
(* set of accounts, every input and every bound; that the contracts keep   *)
(* the promise of LoanBook; and where the money is, which accounts for the *)
(* escrow, for every wallet and for what a settlement has to pay out.      *)
(***************************************************************************)
EXTENDS PrivateCreditLoanProofs

-----------------------------------------------------------------------------
(* What transactions do to requests and offers.                            *)

\* Everything of a request, and of an offer, but its status.
SameRequest(q, p) ==
  /\ q.borrower = p.borrower /\ q.amount = p.amount
  /\ q.maxAprBps = p.maxAprBps /\ q.maxDuration = p.maxDuration

SameOffer(q, p) ==
  /\ q.requestId = p.requestId /\ q.lender = p.lender /\ q.aprBps = p.aprBps
  /\ q.duration = p.duration /\ q.requiredCollateral = p.requiredCollateral

SetRequest(r, status) ==
  /\ DOMAIN requests' = DOMAIN requests
  /\ \A i \in DOMAIN requests : SameRequest(requests'[i], requests[i])
  /\ \A i \in DOMAIN requests \ {r} : requests'[i].status = requests[i].status
  /\ requests'[r].status = status

\* An offer that stops being pending gives up its deposit.
SetOffer(o, status) ==
  /\ DOMAIN offers' = DOMAIN offers
  /\ \A i \in DOMAIN offers : SameOffer(offers'[i], offers[i])
  /\ \A i \in DOMAIN offers \ {o} : /\ offers'[i].status = offers[i].status
                                    /\ offerDeposits'[i] = offerDeposits[i]
  /\ offers'[o].status = status /\ offerDeposits'[o] = 0

LEMMA MarketTypes ==
  ASSUME TypeOK
  PROVE  /\ requests \in Seq(BorrowRequest) /\ offers \in Seq(LenderOffer)
         /\ offerDeposits \in Seq(Nat) /\ Len(offerDeposits) = Len(offers)
         /\ Len(requests) \in Nat /\ Len(offers) \in Nat
         /\ DOMAIN requests = 1 .. Len(requests) /\ DOMAIN offers = 1 .. Len(offers)
         /\ DOMAIN offerDeposits = 1 .. Len(offers)
         /\ \A r \in DOMAIN requests : requests[r] \in BorrowRequest
         /\ \A o \in DOMAIN offers : /\ offers[o] \in LenderOffer
                                     /\ offers[o].requestId \in DOMAIN requests
BY SeqItem, LenProperties DEF TypeOK, MarketTypeOK

LEMMA SetRequestEffect ==
  ASSUME TypeOK, NEW r \in DOMAIN requests, NEW status \in RequestStatus,
         requests' = [requests EXCEPT ![r].status = status]
  PROVE  SetRequest(r, status)
<1>1. requests \in Seq(BorrowRequest) /\ requests[r] \in BorrowRequest
  BY MarketTypes
<1>2. requests' = [requests EXCEPT ![r] = [requests[r] EXCEPT !.status = status]]
  BY <1>1
<1>3. /\ DOMAIN requests' = DOMAIN requests
      /\ \A i \in DOMAIN requests \ {r} : requests'[i] = requests[i]
      /\ requests'[r] = [requests[r] EXCEPT !.status = status]
  BY <1>1, <1>2
<1> QED
  BY <1>1, <1>3 DEF SetRequest, SameRequest, BorrowRequest

LEMMA SetOfferEffect ==
  ASSUME TypeOK, NEW o \in DOMAIN offers, NEW status \in OfferStatus,
         offers' = [offers EXCEPT ![o].status = status],
         offerDeposits' = [offerDeposits EXCEPT ![o] = 0]
  PROVE  SetOffer(o, status)
<1>1. /\ offers \in Seq(LenderOffer) /\ offers[o] \in LenderOffer
      /\ offerDeposits \in Seq(Nat) /\ DOMAIN offerDeposits = DOMAIN offers
  BY MarketTypes
<1>2. offers' = [offers EXCEPT ![o] = [offers[o] EXCEPT !.status = status]]
  BY <1>1
<1>3. /\ DOMAIN offers' = DOMAIN offers
      /\ \A i \in DOMAIN offers \ {o} : offers'[i] = offers[i]
      /\ offers'[o] = [offers[o] EXCEPT !.status = status]
  BY <1>1, <1>2
<1>4. /\ offerDeposits'[o] = 0
      /\ \A i \in DOMAIN offers \ {o} : offerDeposits'[i] = offerDeposits[i]
  BY <1>1
<1> QED
  BY <1>1, <1>3, <1>4 DEF SetOffer, SameOffer, LenderOffer

\* Publishing adds one item at the end and changes no other.
LEMMA CreateRequestEffect ==
  ASSUME TypeOK, NEW b \in Users, NEW amount \in Nat, NEW apr \in Nat, NEW duration \in Nat,
         CreateBorrowRequest(b, amount, apr, duration)
  PROVE  /\ DOMAIN requests' = DOMAIN requests \cup {Len(requests) + 1}
         /\ Len(requests) + 1 \notin DOMAIN requests
         /\ \A i \in DOMAIN requests : requests'[i] = requests[i]
         /\ requests'[Len(requests) + 1].status = "OPEN"
         /\ UNCHANGED <<offers, offerDeposits>>
<1>1. [borrower |-> b, amount |-> amount, maxAprBps |-> apr,
       maxDuration |-> duration, status |-> "OPEN"] \in BorrowRequest
  BY DEF BorrowRequest, RequestStatus
<1>2. /\ requests' = Append(requests, [borrower |-> b, amount |-> amount, maxAprBps |-> apr,
                                       maxDuration |-> duration, status |-> "OPEN"])
      /\ UNCHANGED <<offers, offerDeposits>>
  BY DEF CreateBorrowRequest
<1>3. /\ Len(requests') = Len(requests) + 1 /\ requests' \in Seq(BorrowRequest)
      /\ \A i \in 1 .. Len(requests) : requests'[i] = requests[i]
      /\ requests'[Len(requests) + 1] = [borrower |-> b, amount |-> amount, maxAprBps |-> apr,
                                       maxDuration |-> duration, status |-> "OPEN"]
  BY <1>1, <1>2, MarketTypes, AppendProperties
<1>4. DOMAIN requests' = 1 .. Len(requests) + 1
  BY <1>3, LenProperties
<1> QED
  BY <1>2, <1>3, <1>4, MarketTypes

NewOffer(r, lender, apr, duration, collateral) ==
  [requestId |-> r, lender |-> lender, aprBps |-> apr, duration |-> duration,
   requiredCollateral |-> collateral, status |-> "PENDING"]

Offered(r, lender, apr, duration, collateral) ==
  /\ DOMAIN offers' = DOMAIN offers \cup {Len(offers) + 1}
  /\ Len(offers) + 1 \notin DOMAIN offers
  /\ \A i \in DOMAIN offers : offers'[i] = offers[i] /\ offerDeposits'[i] = offerDeposits[i]
  /\ offers'[Len(offers) + 1] = NewOffer(r, lender, apr, duration, collateral)
  /\ offerDeposits'[Len(offers) + 1] = requests[r].amount
  /\ requests[r].borrower # lender /\ WithinRequest(r, apr, duration)
  /\ UNCHANGED requests

LEMMA CreateOfferEffect ==
  ASSUME TypeOK, NEW lender \in Users, NEW r \in DOMAIN requests, NEW apr \in Nat,
         NEW duration \in Nat, NEW collateral \in Nat,
         CreateLenderOffer(lender, r, apr, duration, collateral, requests[r].amount)
  PROVE  Offered(r, lender, apr, duration, collateral)
<1> DEFINE new == NewOffer(r, lender, apr, duration, collateral)
<1>1. new \in LenderOffer /\ requests[r].amount \in Nat
  BY MarketTypes DEF NewOffer, LenderOffer, OfferStatus, BorrowRequest
<1>2. /\ offers' = Append(offers, new) /\ UNCHANGED requests
      /\ offerDeposits' = Append(offerDeposits, requests[r].amount)
      /\ requests[r].borrower # lender /\ WithinRequest(r, apr, duration)
  BY DEF CreateLenderOffer, NewOffer
<1> HIDE DEF new
<1>3. /\ Len(offers') = Len(offers) + 1 /\ offers' \in Seq(LenderOffer)
      /\ \A i \in 1 .. Len(offers) : offers'[i] = offers[i]
      /\ offers'[Len(offers) + 1] = new
  BY <1>1, <1>2, MarketTypes, AppendProperties
<1>4. /\ \A i \in 1 .. Len(offers) : offerDeposits'[i] = offerDeposits[i]
      /\ offerDeposits'[Len(offers) + 1] = requests[r].amount
  BY <1>1, <1>2, MarketTypes, AppendProperties
<1>5. DOMAIN offers' = 1 .. Len(offers) + 1
  BY <1>3, LenProperties
<1> QED
  BY <1>2, <1>3, <1>4, <1>5, MarketTypes DEF new, Offered

\* Accepting settles one request and one offer at once.
LEMMA AcceptMarketEffect ==
  ASSUME TypeOK, NEW b \in Users, NEW o \in DOMAIN offers, Accept(b, o)
  PROVE  /\ offers[o].requestId \in DOMAIN requests
         /\ requests[offers[o].requestId].borrower = b
         /\ requests[offers[o].requestId].status = "OPEN"
         /\ offers[o].status = "PENDING"
         /\ SetRequest(offers[o].requestId, "FUNDED")
         /\ SetOffer(o, "ACCEPTED")
<1>1. /\ offers[o].requestId \in DOMAIN requests
      /\ requests[offers[o].requestId].borrower = b
      /\ requests[offers[o].requestId].status = "OPEN"
      /\ offers[o].status = "PENDING"
      /\ requests' = [requests EXCEPT ![offers[o].requestId].status = "FUNDED"]
      /\ offers' = [offers EXCEPT ![o].status = "ACCEPTED"]
      /\ offerDeposits' = [offerDeposits EXCEPT ![o] = 0]
  BY MarketTypes DEF Accept, AcceptOffer, Acceptable
<1>2. "FUNDED" \in RequestStatus /\ "ACCEPTED" \in OfferStatus
  BY DEF RequestStatus, OfferStatus
<1>3. SetRequest(offers[o].requestId, "FUNDED")
  BY <1>1, <1>2, SetRequestEffect
<1>4. SetOffer(o, "ACCEPTED")
  BY <1>1, <1>2, SetOfferEffect
<1> QED
  BY <1>1, <1>3, <1>4

LEMMA CancelEffect ==
  ASSUME TypeOK, NEW b, NEW r \in DOMAIN requests, CancelBorrowRequest(b, r)
  PROVE  /\ requests[r].status = "OPEN" /\ SetRequest(r, "CANCELLED")
         /\ UNCHANGED <<offers, offerDeposits>>
<1>1. "CANCELLED" \in RequestStatus
  BY DEF RequestStatus
<1> QED
  BY <1>1, SetRequestEffect DEF CancelBorrowRequest

LEMMA WithdrawEffect ==
  ASSUME TypeOK, NEW lender, NEW o \in DOMAIN offers, WithdrawOffer(lender, o)
  PROVE  offers[o].status = "PENDING" /\ SetOffer(o, "WITHDRAWN") /\ UNCHANGED requests
<1>1. "WITHDRAWN" \in OfferStatus
  BY DEF OfferStatus
<1> QED
  BY <1>1, SetOfferEffect DEF WithdrawOffer

LEMMA QuietMarket ==
  ASSUME TypeOK, [Next]_vars, ~Trade, \A b \in Users, o \in DOMAIN offers : ~Accept(b, o)
  PROVE  UNCHANGED marketVars
BY StepKinds, RepayInFullEffect, RepayInPartEffect, DefaultEffect
   DEF PassTime, Administer, vars
-----------------------------------------------------------------------------
(* Requests are funded by one offer.                                       *)

\* The parts of FundedByOneOffer.
FundedHasOffer ==
  \A r \in DOMAIN requests :
    requests[r].status = "FUNDED" <=>
      \E o \in DOMAIN offers : offers[o].status = "ACCEPTED" /\ offers[o].requestId = r
OneAccepted ==
  \A o, p \in DOMAIN offers :
    /\ offers[o].status = "ACCEPTED" /\ offers[p].status = "ACCEPTED"
    /\ offers[o].requestId = offers[p].requestId
    => o = p
PendingHoldDeposit ==
  \A o \in DOMAIN offers :
    offerDeposits[o] = IF offers[o].status = "PENDING"
                       THEN requests[offers[o].requestId].amount ELSE 0

LEMMA FundingParts ==
  FundedByOneOffer <=> FundedHasOffer /\ OneAccepted /\ PendingHoldDeposit
BY DEF FundedByOneOffer, FundedHasOffer, OneAccepted, PendingHoldDeposit, OffersAt

LEMMA FundingInit == Init => FundedByOneOffer
<1> SUFFICES ASSUME Init PROVE FundedByOneOffer
  OBVIOUS
<1>1. DOMAIN requests = {} /\ DOMAIN offers = {}
  BY DEF Init, MarketInit
<1> QED
  BY <1>1 DEF FundedByOneOffer, OffersAt

LEMMA FundingNext == TypeOK /\ FundedByOneOffer /\ [Next]_vars => FundedByOneOffer'
<1> SUFFICES ASSUME TypeOK, FundedByOneOffer, [Next]_vars
             PROVE  FundedHasOffer' /\ OneAccepted' /\ PendingHoldDeposit'
  BY FundingParts, PTL
<1>0. FundedHasOffer /\ OneAccepted /\ PendingHoldDeposit
  BY FundingParts
<1>1. CASE UNCHANGED marketVars
  BY <1>0, <1>1 DEF marketVars, FundedHasOffer, OneAccepted, PendingHoldDeposit
<1>2. ASSUME NEW b \in Users, NEW amount \in Nat, NEW apr \in Nat, NEW duration \in Nat,
             CreateBorrowRequest(b, amount, apr, duration)
      PROVE  FundedHasOffer' /\ OneAccepted' /\ PendingHoldDeposit'
  <2>1. /\ DOMAIN requests' = DOMAIN requests \cup {Len(requests) + 1}
        /\ Len(requests) + 1 \notin DOMAIN requests
        /\ \A i \in DOMAIN requests : requests'[i] = requests[i]
        /\ requests'[Len(requests) + 1].status = "OPEN"
        /\ UNCHANGED <<offers, offerDeposits>>
        /\ \A o \in DOMAIN offers : offers[o].requestId \in DOMAIN requests
    BY <1>2, CreateRequestEffect, MarketTypes
  <2> QED
    BY <1>0, <2>1 DEF FundedHasOffer, OneAccepted, PendingHoldDeposit
<1>3. ASSUME NEW b \in Users, NEW r \in DOMAIN requests, CancelBorrowRequest(b, r)
      PROVE  FundedHasOffer' /\ OneAccepted' /\ PendingHoldDeposit'
  <2>1. /\ requests[r].status = "OPEN" /\ SetRequest(r, "CANCELLED")
        /\ UNCHANGED <<offers, offerDeposits>>
        /\ \A o \in DOMAIN offers : offers[o].requestId \in DOMAIN requests
    BY <1>3, CancelEffect, MarketTypes
  <2> QED
    BY <1>0, <2>1
    DEF FundedHasOffer, OneAccepted, PendingHoldDeposit, SetRequest, SameRequest
<1>4. ASSUME NEW lender \in Users, NEW r \in DOMAIN requests, NEW apr \in Nat,
             NEW duration \in Nat, NEW collateral \in Nat,
             CreateLenderOffer(lender, r, apr, duration, collateral, requests[r].amount)
      PROVE  FundedHasOffer' /\ OneAccepted' /\ PendingHoldDeposit'
  <2>1. Offered(r, lender, apr, duration, collateral)
    BY <1>4, CreateOfferEffect
  <2> QED
    BY <1>0, <2>1 DEF FundedHasOffer, OneAccepted, PendingHoldDeposit, Offered, NewOffer
<1>5. ASSUME NEW lender \in Users, NEW o \in DOMAIN offers, WithdrawOffer(lender, o)
      PROVE  FundedHasOffer' /\ OneAccepted' /\ PendingHoldDeposit'
  <2>1. offers[o].status = "PENDING" /\ SetOffer(o, "WITHDRAWN") /\ UNCHANGED requests
    BY <1>5, WithdrawEffect
  <2> QED
    BY <1>0, <2>1 DEF FundedHasOffer, OneAccepted, PendingHoldDeposit, SetOffer, SameOffer
<1>6. CASE Trade
  BY <1>2, <1>3, <1>4, <1>5, <1>6, Inputs DEF Trade
<1>7. ASSUME NEW b \in Users, NEW o \in DOMAIN offers, Accept(b, o)
      PROVE  FundedHasOffer' /\ OneAccepted' /\ PendingHoldDeposit'
  <2>1. /\ offers[o].requestId \in DOMAIN requests
        /\ requests[offers[o].requestId].status = "OPEN"
        /\ offers[o].status = "PENDING"
        /\ SetRequest(offers[o].requestId, "FUNDED") /\ SetOffer(o, "ACCEPTED")
        /\ \A p \in DOMAIN offers : offers[p].requestId \in DOMAIN requests
    BY <1>7, AcceptMarketEffect, MarketTypes
  <2>2. ~ \E p \in DOMAIN offers :
           offers[p].status = "ACCEPTED" /\ offers[p].requestId = offers[o].requestId
    BY <1>0, <2>1 DEF FundedHasOffer
  <2>3. FundedHasOffer'
    BY <1>0, <2>1 DEF FundedHasOffer, SetOffer, SameOffer, SetRequest, SameRequest
  <2>4. OneAccepted'
    BY <1>0, <2>1, <2>2 DEF OneAccepted, SetOffer, SameOffer
  <2>5. PendingHoldDeposit'
    BY <1>0, <2>1 DEF PendingHoldDeposit, SetOffer, SameOffer, SetRequest, SameRequest
  <2> QED
    BY <2>3, <2>4, <2>5
<1> QED
  BY <1>1, <1>6, <1>7, QuietMarket

\* A request is funded by exactly one offer, and only pending offers hold a
\* deposit, whatever order acceptances, withdrawals and cancellations take.
THEOREM FundingIsSound == Spec => []FundedByOneOffer
BY FundingInit, FundingNext, TypeCorrect, PTL DEF Spec
-----------------------------------------------------------------------------
(* Loans carry out offers.                                                 *)

\* Every offer keeps to the request it answers.
OffersWithinRequests ==
  \A o \in DOMAIN offers :
    LET offer   == offers[o]
        request == requests[offer.requestId]
    IN  /\ offer.lender # request.borrower
        /\ offer.aprBps <= request.maxAprBps /\ offer.duration <= request.maxDuration

LEMMA WithinInit == Init => OffersWithinRequests
<1> SUFFICES ASSUME Init PROVE OffersWithinRequests
  OBVIOUS
<1>1. DOMAIN offers = {}
  BY DEF Init, MarketInit
<1> QED
  BY <1>1 DEF OffersWithinRequests

LEMMA WithinNext == TypeOK /\ OffersWithinRequests /\ [Next]_vars => OffersWithinRequests'
<1> SUFFICES ASSUME TypeOK, OffersWithinRequests, [Next]_vars PROVE OffersWithinRequests'
  OBVIOUS
<1>0. \A o \in DOMAIN offers : offers[o].requestId \in DOMAIN requests
  BY MarketTypes
<1>1. CASE UNCHANGED marketVars
  BY <1>1 DEF marketVars, OffersWithinRequests
<1>2. ASSUME NEW b \in Users, NEW amount \in Nat, NEW apr \in Nat, NEW duration \in Nat,
             CreateBorrowRequest(b, amount, apr, duration)
      PROVE  OffersWithinRequests'
  <2>1. /\ \A i \in DOMAIN requests : requests'[i] = requests[i]
        /\ UNCHANGED offers
    BY <1>2, CreateRequestEffect
  <2> QED
    BY <1>0, <2>1 DEF OffersWithinRequests
<1>3. ASSUME NEW b \in Users, NEW r \in DOMAIN requests, CancelBorrowRequest(b, r)
      PROVE  OffersWithinRequests'
  <2>1. SetRequest(r, "CANCELLED") /\ UNCHANGED offers
    BY <1>3, CancelEffect
  <2> QED
    BY <1>0, <2>1 DEF OffersWithinRequests, SetRequest, SameRequest
<1>4. ASSUME NEW lender \in Users, NEW r \in DOMAIN requests, NEW apr \in Nat,
             NEW duration \in Nat, NEW collateral \in Nat,
             CreateLenderOffer(lender, r, apr, duration, collateral, requests[r].amount)
      PROVE  OffersWithinRequests'
  <2>1. Offered(r, lender, apr, duration, collateral)
    BY <1>4, CreateOfferEffect
  <2> QED
    BY <1>0, <2>1 DEF OffersWithinRequests, Offered, NewOffer, WithinRequest
<1>5. ASSUME NEW lender \in Users, NEW o \in DOMAIN offers, WithdrawOffer(lender, o)
      PROVE  OffersWithinRequests'
  <2>1. SetOffer(o, "WITHDRAWN") /\ UNCHANGED requests
    BY <1>5, WithdrawEffect
  <2> QED
    BY <1>0, <2>1 DEF OffersWithinRequests, SetOffer, SameOffer
<1>6. CASE Trade
  BY <1>2, <1>3, <1>4, <1>5, <1>6, Inputs DEF Trade
<1>7. ASSUME NEW b \in Users, NEW o \in DOMAIN offers, Accept(b, o)
      PROVE  OffersWithinRequests'
  <2>1. SetRequest(offers[o].requestId, "FUNDED") /\ SetOffer(o, "ACCEPTED")
    BY <1>7, AcceptMarketEffect
  <2> QED
    BY <1>0, <2>1 DEF OffersWithinRequests, SetOffer, SameOffer, SetRequest, SameRequest
<1> QED
  BY <1>1, <1>6, <1>7, QuietMarket

LEMMA BijectionParts ==
  ASSUME NEW S, NEW T, NEW f
  PROVE  f \in Bijection(S, T) <=>
           /\ f \in [S -> T]
           /\ \A x, y \in S : f[x] = f[y] => x = y
           /\ \A t \in T : \E x \in S : f[x] = t
BY DEF Bijection, Injection, Surjection, IsInjective

LEMMA CarriedInit == Init => LoansCarryOutOffers
<1> SUFFICES ASSUME Init PROVE LoansCarryOutOffers
  OBVIOUS
<1>1. DOMAIN loans = {} /\ OffersAt("ACCEPTED") = {}
  BY DEF Init, VaultInit, MarketInit, OffersAt
<1>2. \E f : f \in Bijection({}, {})
  <2>1. [id \in {} |-> 0] \in [{} -> {}]
    OBVIOUS
  <2> QED
    BY <2>1, BijectionParts
<1> QED
  BY <1>1, <1>2 DEF LoansCarryOutOffers

\* Agreements are carried out by the same loans as long as nothing but
\* statuses, repayments and items without a loan change.
LEMMA StillCarried ==
  ASSUME LoansCarryOutOffers,
         DOMAIN loans' = DOMAIN loans,
         \A id \in DOMAIN loans : SameTerms(loans'[id], loans[id]),
         OffersAt("ACCEPTED")' = OffersAt("ACCEPTED"),
         \A o \in OffersAt("ACCEPTED") :
           /\ SameOffer(offers'[o], offers[o])
           /\ SameRequest(requests'[offers[o].requestId], requests[offers[o].requestId])
  PROVE  LoansCarryOutOffers'
<1>1. PICK match \in Bijection(DOMAIN loans, OffersAt("ACCEPTED")) :
             \A id \in DOMAIN loans : CarriesOut(id, match[id])
  BY DEF LoansCarryOutOffers
<1>2. ASSUME NEW id \in DOMAIN loans PROVE CarriesOut(id, match[id])'
  <2>1. match[id] \in OffersAt("ACCEPTED") /\ CarriesOut(id, match[id])
    BY <1>1 DEF Bijection, Injection
  <2> QED
    BY <2>1 DEF CarriesOut, SameTerms, SameOffer, SameRequest
<1> QED
  BY <1>1, <1>2 DEF LoansCarryOutOffers

LEMMA SameIsSame ==
  ASSUME NEW x
  PROVE  SameTerms(x, x) /\ SameOffer(x, x) /\ SameRequest(x, x)
BY DEF SameTerms, SameOffer, SameRequest

\* An accepted offer and its loan extend the match.
LEMMA CarriedByAccept ==
  ASSUME TypeOK, FundedByOneOffer, OffersWithinRequests, LoansCarryOutOffers,
         NEW b \in Users, NEW o \in DOMAIN offers, Accept(b, o)
  PROVE  LoansCarryOutOffers'
<1> DEFINE n == Len(loans) + 1
           r == offers[o].requestId
<1>1. /\ DOMAIN loans' = DOMAIN loans \cup {n} /\ n \notin DOMAIN loans
      /\ \A i \in DOMAIN loans : loans'[i] = loans[i]
      /\ loans'[n] = NewLoan(b, o)
  <2>1. /\ DOMAIN loans = 1 .. Len(loans) /\ DOMAIN loans' = 1 .. Len(loans) + 1
        /\ Len(loans) \in Nat /\ loans'[Len(loans) + 1] = NewLoan(b, o)
        /\ \A i \in DOMAIN loans : loans'[i] = loans[i]
    BY AcceptEffect
  <2> QED
    BY <2>1
<1>2. /\ r \in DOMAIN requests /\ requests[r].borrower = b /\ offers[o].status = "PENDING"
      /\ SetRequest(r, "FUNDED") /\ SetOffer(o, "ACCEPTED")
      /\ \A p \in DOMAIN offers : offers[p].requestId \in DOMAIN requests
  BY AcceptMarketEffect, MarketTypes
<1>3. PICK A : A = OffersAt("ACCEPTED")
  OBVIOUS
<1>4. OffersAt("ACCEPTED")' = A \cup {o} /\ o \notin A /\ A \subseteq DOMAIN offers
  BY <1>2, <1>3 DEF OffersAt, SetOffer
<1>5. PICK match \in Bijection(DOMAIN loans, A) :
             \A id \in DOMAIN loans : CarriesOut(id, match[id])
  BY <1>3 DEF LoansCarryOutOffers
<1>6. /\ match \in [DOMAIN loans -> A]
      /\ \A i, j \in DOMAIN loans : match[i] = match[j] => i = j
      /\ \A a \in A : \E i \in DOMAIN loans : match[i] = a
  BY <1>5, BijectionParts
<1> HIDE DEF n
<1>7. PICK more \in [DOMAIN loans \cup {n} -> A \cup {o}] :
             more[n] = o /\ \A i \in DOMAIN loans : more[i] = match[i]
  <2> DEFINE f == [i \in DOMAIN loans \cup {n} |-> IF i = n THEN o ELSE match[i]]
  <2>1. f \in [DOMAIN loans \cup {n} -> A \cup {o}]
    BY <1>1, <1>6
  <2>2. f[n] = o /\ \A i \in DOMAIN loans : f[i] = match[i]
    BY <1>1
  <2> QED
    BY <2>1, <2>2
<1>8. more \in Bijection(DOMAIN loans \cup {n}, A \cup {o})
  <2>1. \A i, j \in DOMAIN loans \cup {n} : more[i] = more[j] => i = j
    BY <1>1, <1>4, <1>6, <1>7
  <2>2. \A a \in A \cup {o} : \E i \in DOMAIN loans \cup {n} : more[i] = a
    BY <1>1, <1>6, <1>7
  <2> QED
    BY <1>7, <2>1, <2>2, BijectionParts
<1>9. ASSUME NEW id \in DOMAIN loans' PROVE CarriesOut(id, more[id])'
  <2>1. CASE id # n
    <3>1. /\ id \in DOMAIN loans /\ more[id] = match[id] /\ match[id] \in DOMAIN offers
          /\ CarriesOut(id, match[id]) /\ loans'[id] = loans[id]
      BY <1>1, <1>4, <1>5, <1>6, <1>7, <1>9, <2>1
    <3>2. /\ SameOffer(offers'[match[id]], offers[match[id]])
          /\ SameRequest(requests'[offers[match[id]].requestId],
                         requests[offers[match[id]].requestId])
      BY <1>2, <3>1 DEF SetRequest, SetOffer
    <3> QED
      BY <3>1, <3>2 DEF CarriesOut, SameOffer, SameRequest
  <2>2. CASE id = n
    <3>1. more[id] = o /\ loans'[id] = NewLoan(b, o)
      BY <1>1, <1>7, <2>2
    <3>2. SameOffer(offers'[o], offers[o]) /\ SameRequest(requests'[r], requests[r])
      BY <1>2 DEF SetRequest, SetOffer
    <3>3. offerDeposits[o] = requests[r].amount
      BY <1>2 DEF FundedByOneOffer
    <3>4. /\ offers[o].lender # b /\ offers[o].aprBps <= requests[r].maxAprBps
          /\ offers[o].duration <= requests[r].maxDuration
      BY <1>2 DEF OffersWithinRequests
    <3> QED
      BY <1>2, <3>1, <3>2, <3>3, <3>4 DEF CarriesOut, NewLoan, SameOffer, SameRequest
  <2> QED
    BY <2>1, <2>2
<1> QED
  BY <1>1, <1>4, <1>8, <1>9 DEF LoansCarryOutOffers

LEMMA CarriedNext ==
  /\ TypeOK /\ FundedByOneOffer /\ OffersWithinRequests /\ LoansCarryOutOffers
  /\ [Next]_vars
  => LoansCarryOutOffers'
<1> SUFFICES ASSUME TypeOK, FundedByOneOffer, OffersWithinRequests, LoansCarryOutOffers,
                    [Next]_vars
             PROVE  LoansCarryOutOffers'
  OBVIOUS
<1>0. /\ \A o \in DOMAIN offers : offers[o].requestId \in DOMAIN requests
      /\ OffersAt("ACCEPTED") \subseteq DOMAIN offers
  BY MarketTypes DEF OffersAt
<1>1. CASE Trade
  <2>1. UNCHANGED loans
    BY <1>1 DEF Trade
  <2>2. ASSUME NEW b \in Users, NEW amount \in Nat, NEW apr \in Nat, NEW duration \in Nat,
               CreateBorrowRequest(b, amount, apr, duration)
        PROVE  LoansCarryOutOffers'
    <3>1. /\ \A i \in DOMAIN requests : requests'[i] = requests[i]
          /\ UNCHANGED offers
      BY <2>2, CreateRequestEffect
    <3>2. OffersAt("ACCEPTED")' = OffersAt("ACCEPTED")
      BY <3>1 DEF OffersAt
    <3> QED
      BY <1>0, <2>1, <3>1, <3>2, SameIsSame, StillCarried
  <2>3. ASSUME NEW b \in Users, NEW r \in DOMAIN requests, CancelBorrowRequest(b, r)
        PROVE  LoansCarryOutOffers'
    <3>1. SetRequest(r, "CANCELLED") /\ UNCHANGED offers
      BY <2>3, CancelEffect
    <3>2. OffersAt("ACCEPTED")' = OffersAt("ACCEPTED")
      BY <3>1 DEF OffersAt
    <3> QED
      BY <1>0, <2>1, <3>1, <3>2, SameIsSame, StillCarried DEF SetRequest
  <2>4. ASSUME NEW lender \in Users, NEW r \in DOMAIN requests, NEW apr \in Nat,
               NEW duration \in Nat, NEW collateral \in Nat,
               CreateLenderOffer(lender, r, apr, duration, collateral, requests[r].amount)
        PROVE  LoansCarryOutOffers'
    <3>1. Offered(r, lender, apr, duration, collateral)
      BY <2>4, CreateOfferEffect
    <3>2. OffersAt("ACCEPTED")' = OffersAt("ACCEPTED")
      BY <3>1 DEF OffersAt, Offered, NewOffer
    <3>3. UNCHANGED requests /\ \A o \in DOMAIN offers : offers'[o] = offers[o]
      BY <3>1 DEF Offered
    <3> QED
      BY <1>0, <2>1, <3>2, <3>3, SameIsSame, StillCarried
  <2>5. ASSUME NEW lender \in Users, NEW o \in DOMAIN offers, WithdrawOffer(lender, o)
        PROVE  LoansCarryOutOffers'
    <3>1. /\ offers[o].status = "PENDING" /\ SetOffer(o, "WITHDRAWN") /\ UNCHANGED requests
      BY <2>5, WithdrawEffect
    <3>2. OffersAt("ACCEPTED")' = OffersAt("ACCEPTED")
      BY <3>1 DEF OffersAt, SetOffer
    <3> QED
      BY <1>0, <2>1, <3>1, <3>2, SameIsSame, StillCarried DEF SetOffer
  <2> QED
    BY <1>1, <2>2, <2>3, <2>4, <2>5, Inputs DEF Trade
<1>2. ASSUME NEW b \in Users, NEW o \in DOMAIN offers, Accept(b, o)
      PROVE  LoansCarryOutOffers'
  BY <1>2, CarriedByAccept
<1>3. CASE ~Trade /\ \A b \in Users, o \in DOMAIN offers : ~Accept(b, o)
  <2>1. UNCHANGED <<requests, offers>>
    BY <1>3, QuietMarket DEF marketVars
  <2>2. OffersAt("ACCEPTED")' = OffersAt("ACCEPTED")
    BY <2>1 DEF OffersAt
  <2>3. DOMAIN loans' = DOMAIN loans /\ \A i \in DOMAIN loans : SameTerms(loans'[i], loans[i])
    <3>1. ASSUME NEW id \in DOMAIN loans, NEW repaid, NEW status, Update(id, repaid, status)
          PROVE  DOMAIN loans' = DOMAIN loans
                 /\ \A i \in DOMAIN loans : SameTerms(loans'[i], loans[i])
      BY <3>1, SameIsSame DEF Update
    <3>2. CASE UNCHANGED loans
      BY <3>2, SameIsSame
    <3> QED
      BY <1>3, <3>1, <3>2, StepKinds, QuietSteps, RepayInFullEffect, RepayInPartEffect,
         DefaultEffect
  <2> QED
    BY <1>0, <2>1, <2>2, <2>3, SameIsSame, StillCarried
<1> QED
  BY <1>1, <1>2, <1>3

\* Every loan carries out one accepted offer on the agreed terms, and every
\* accepted offer has its loan.
THEOREM LoansAreAgreed == Spec => []LoansCarryOutOffers
BY CarriedInit, CarriedNext, WithinInit, WithinNext, FundingInit, FundingNext, TypeCorrect, PTL
   DEF Spec
-----------------------------------------------------------------------------
(* The contracts implement LoanBook.                                       *)

\* The refinement mapping of PrivateCredit's Book, by name.
Entry(id) ==
  [borrower |-> loans[id].borrower, lender |-> loans[id].lender,
   principal |-> loans[id].principal,
   phase |-> IF loans[id].status = "ACTIVE" THEN "OPEN" ELSE records[id].outcome]
Entries == [id \in DOMAIN loans |-> Entry(id)]
Exposure == [b \in Users |-> TotalConsumedCapacity(b)]

LEMMA BookInit == Init => Book!Init
<1> SUFFICES ASSUME Init PROVE Entries = <<>> /\ Exposure = [b \in Users |-> 0]
  BY DEF Book!Init, Entries, Entry, Exposure
<1>1. loans = <<>> /\ DOMAIN loans = {}
  BY DEF Init, VaultInit
<1>2. Entries = <<>>
  BY <1>1 DEF Entries
<1>3. Exposure = [b \in Users |-> 0]
  BY DEF Init, CapacityInit, Exposure, TotalConsumedCapacity
<1> QED
  BY <1>2, <1>3

LEMMA BookAccept ==
  ASSUME TypeOK, ExposureBounded, OffersWithinRequests,
         NEW b \in Users, NEW o \in DOMAIN offers, Accept(b, o)
  PROVE  Book!Next
<1>0. PICK l, p : l = offers[o].lender /\ p = offerDeposits[o]
  OBVIOUS
<1> DEFINE new == [borrower |-> b, lender |-> l, principal |-> p, phase |-> "OPEN"]
<1>1. b # l /\ l \in Users
  <2>1. requests[offers[o].requestId].borrower = b /\ offers[o] \in LenderOffer
    BY AcceptMarketEffect, MarketTypes
  <2> QED
    BY <1>0, <2>1 DEF OffersWithinRequests, LenderOffer
<1>2. /\ p \in Nat \ {0} /\ ReserveCapacity(b, p) /\ UNCHANGED records
      /\ Len(loans) \in Nat /\ DOMAIN loans = 1 .. Len(loans)
      /\ DOMAIN loans' = 1 .. Len(loans) + 1
      /\ \A i \in DOMAIN loans : loans'[i] = loans[i]
      /\ loans'[Len(loans) + 1] = NewLoan(b, o)
  BY <1>0, AcceptEffect DEF repaymentVars
<1>3. Entries' = Append(Entries, new)
  <2>1. \A i \in DOMAIN loans : Entries'[i] = Entries[i]
    BY <1>2 DEF Entries, Entry
  <2>2. Entries'[Len(loans) + 1] = new
    BY <1>0, <1>2 DEF Entries, Entry, NewLoan
  <2>3. /\ DOMAIN Entries = 1 .. Len(loans) /\ DOMAIN Entries' = 1 .. Len(loans) + 1
        /\ Entries = [i \in 1 .. Len(loans) |-> Entries[i]]
        /\ Entries' = [i \in 1 .. Len(loans) + 1 |-> Entries'[i]]
    BY <1>2 DEF Entries
  <2> DEFINE S == {Entries'[i] : i \in 1 .. Len(loans) + 1}
  <2> HIDE DEF new
  <2>4. new \in S /\ \A i \in 1 .. Len(loans) : Entries[i] \in S
    BY <1>2, <2>1, <2>2
  <2>5. Entries \in Seq(S) /\ Entries' \in Seq(S)
    BY <1>2, <2>3, <2>4
  <2> HIDE DEF S
  <2>6. Len(Entries) = Len(loans) /\ Len(Entries') = Len(loans) + 1
    BY <1>2, <2>3, <2>5, LenProperties
  <2>7. /\ Append(Entries, new) \in Seq(S) /\ Len(Append(Entries, new)) = Len(loans) + 1
        /\ \A i \in 1 .. Len(loans) + 1 : Append(Entries, new)[i] = Entries'[i]
    BY <1>2, <2>1, <2>2, <2>4, <2>5, <2>6, AppendProperties
  <2> QED
    BY <2>5, <2>6, <2>7, SeqEqual
<1>4. /\ Exposure' = [Exposure EXCEPT ![b] = @ + p]
      /\ Exposure[b] + p <= LOW_RISK_MAX_CREDIT
  <2>1. /\ TotalConsumedCapacity(b)' = TotalConsumedCapacity(b) + p
        /\ TotalConsumedCapacity(b)' <= eligibilities[b].maxActiveCredit
        /\ \A u \in Users \ {b} : TotalConsumedCapacity(u)' = TotalConsumedCapacity(u)
    BY <1>2, ReserveWithinTerms
  <2>2. /\ eligibilities[b].maxActiveCredit \in Nat /\ eligibilities[b].riskTier \in RiskTier
        /\ eligibilities[b].maxActiveCredit <= TierMaxCredit[eligibilities[b].riskTier]
        /\ TotalConsumedCapacity(b) \in Nat
    BY DEF TypeOK, RegistryTypeOK, CapacityTypeOK, Eligibility, ExposureBounded,
           TotalConsumedCapacity
  <2>3. eligibilities[b].maxActiveCredit <= LOW_RISK_MAX_CREDIT
    BY <2>2, TierLimits, CreditLimits
  <2>4. TotalConsumedCapacity(b) + p <= LOW_RISK_MAX_CREDIT
    BY <1>2, <2>1, <2>2, <2>3, CreditLimits
  <2> QED
    BY <2>1, <2>4 DEF Exposure
<1>5. p \in 1 .. LOW_RISK_MAX_CREDIT
  <2>1. Exposure[b] \in Nat
    BY DEF TypeOK, CapacityTypeOK, Exposure, TotalConsumedCapacity
  <2> QED
    BY <1>2, <1>4, <2>1, CreditLimits
<1>6. Book!Open(b, l, p)
  BY <1>1, <1>2, <1>3, <1>4 DEF Book!Open, Entries, Entry, Exposure
<1> QED
  BY <1>1, <1>5, <1>6 DEF Book!Next

\* A loan that ends changes its entry's phase, and no other entry.
LEMMA EndedEntry ==
  ASSUME HistoryMatchesLoans, NEW id \in DOMAIN loans, loans[id].status = "ACTIVE",
         NEW repaid, NEW status, status # "ACTIVE", Update(id, repaid, status),
         NEW amount, NEW outcome, RecordRepayment(id, loans[id].borrower, amount, outcome)
  PROVE  Entries[id].phase = "OPEN" /\ Entries' = [Entries EXCEPT ![id].phase = outcome]
<1>1. /\ DOMAIN loans' = DOMAIN loans
      /\ \A i \in DOMAIN loans \ {id} : loans'[i] = loans[i]
      /\ SameTerms(loans'[id], loans[id]) /\ loans'[id].status = status
  BY DEF Update
<1>2. /\ \A i \in DOMAIN loans \ {id} : loans[i].status # "ACTIVE" => records'[i] = records[i]
      /\ records'[id].outcome = outcome
  BY DEF RecordRepayment, HistoryMatchesLoans, LoansOf
<1>3. \A i \in DOMAIN loans \ {id} : Entries'[i] = Entries[i]
  BY <1>1, <1>2 DEF Entries, Entry
<1>4. Entries'[id] = [Entries[id] EXCEPT !.phase = outcome]
  BY <1>1, <1>2 DEF Entries, Entry, SameTerms
<1>5. /\ Entries' = [i \in DOMAIN loans |-> Entries'[i]]
      /\ Entries = [i \in DOMAIN loans |-> Entries[i]]
  BY <1>1 DEF Entries
<1>6. Entries[id].phase = "OPEN"
  BY DEF Entries, Entry
<1>7. Entries' = [Entries EXCEPT ![id].phase = outcome]
  BY <1>3, <1>4, <1>5
<1> QED
  BY <1>6, <1>7

LEMMA BookRepay ==
  ASSUME TypeOK, HistoryMatchesLoans, NEW b \in Users, NEW id \in DOMAIN loans,
         NEW value \in Nat, Repay(b, id, value), RepayInFull(id, value)
  PROVE  Book!Next
<1>1. /\ loans[id] \in Loan /\ loans[id].status = "ACTIVE"
      /\ Update(id, loans[id].repaidAmount + TotalOwed(loans[id]), "REPAID")
      /\ ReleaseCapacity(loans[id].borrower, loans[id].principal)
      /\ RecordRepayment(id, loans[id].borrower, TotalOwed(loans[id]),
           IF now <= DueTime(loans[id]) THEN "ON_TIME" ELSE "LATE")
  BY RepayInFullEffect
<1>2. PICK outcome \in {"ON_TIME", "LATE"} :
             RecordRepayment(id, loans[id].borrower, TotalOwed(loans[id]), outcome)
  BY <1>1
<1>3. Entries[id].phase = "OPEN" /\ Entries' = [Entries EXCEPT ![id].phase = outcome]
  BY <1>1, <1>2, EndedEntry
<1>4. Exposure' = [Exposure EXCEPT ![Entries[id].borrower] = @ - Entries[id].principal]
  BY <1>1 DEF TypeOK, CapacityTypeOK, Loan, ReleaseCapacity, Exposure, Entries, Entry,
              TotalConsumedCapacity
<1>5. Book!Repay(id, outcome)
  BY <1>3, <1>4 DEF Book!Repay, Entries, Entry, Exposure
<1> QED
  BY <1>5 DEF Book!Next, Entries, Entry

LEMMA BookDefault ==
  ASSUME TypeOK, HistoryMatchesLoans, NEW id \in DOMAIN loans, Default(id)
  PROVE  Book!Next
<1>1. /\ loans[id] \in Loan /\ loans[id].status = "ACTIVE"
      /\ Update(id, loans[id].repaidAmount, "DEFAULTED")
      /\ LockDefaultedCapacity(loans[id].borrower, loans[id].principal)
      /\ RecordRepayment(id, loans[id].borrower, 0, "DEFAULT")
  BY DefaultEffect
<1>2. Entries[id].phase = "OPEN" /\ Entries' = [Entries EXCEPT ![id].phase = "DEFAULT"]
  BY <1>1, EndedEntry
<1>3. Exposure' = Exposure
  BY <1>1 DEF TypeOK, CapacityTypeOK, Loan, LockDefaultedCapacity, Exposure,
              TotalConsumedCapacity
<1>4. Book!Default(id)
  BY <1>2, <1>3 DEF Book!Default, Entries, Entry, Exposure
<1> QED
  BY <1>4 DEF Book!Next, Entries, Entry

\* Everything else leaves the book as it is.
LEMMA BookQuiet ==
  ASSUME TypeOK, \/ UNCHANGED <<loans, capacityVars, repaymentVars>>
                 \/ \E b \in Users, id \in DOMAIN loans, value \in Nat :
                       Repay(b, id, value) /\ RepayInPart(id, value)
  PROVE  UNCHANGED <<Entries, Exposure>>
<1>1. CASE UNCHANGED <<loans, capacityVars, repaymentVars>>
  BY <1>1 DEF capacityVars, repaymentVars, Entries, Entry, Exposure, TotalConsumedCapacity
<1>2. ASSUME NEW b \in Users, NEW id \in DOMAIN loans, NEW value \in Nat,
             Repay(b, id, value), RepayInPart(id, value)
      PROVE  UNCHANGED <<Entries, Exposure>>
  <2>1. /\ loans[id].status = "ACTIVE" /\ Update(id, loans[id].repaidAmount + value, "ACTIVE")
        /\ UNCHANGED <<usedCapacity, defaultedLockedCapacity, records>>
    BY <1>2, RepayInPartEffect DEF capacityVars, repaymentVars
  <2>2. \A i \in DOMAIN loans : Entry(i)' = Entry(i)
    BY <2>1 DEF Update, SameTerms, Entry
  <2> QED
    BY <2>1, <2>2 DEF Update, Entries, Exposure, TotalConsumedCapacity
<1> QED
  BY <1>1, <1>2

\* The lending contracts keep LoanBook's promise: every transaction opens one
\* loan within the limit, ends one, or leaves the book alone.
THEOREM ImplementsLoanBook == Spec => KeepsLoanBook
<1>1. TypeOK /\ ExposureBounded /\ OffersWithinRequests /\ HistoryMatchesLoans /\ [Next]_vars
        => [Book!Next]_(Book!bookVars)
  <2> SUFFICES ASSUME TypeOK, ExposureBounded, OffersWithinRequests, HistoryMatchesLoans,
                      [Next]_vars
               PROVE  Book!Next \/ UNCHANGED <<Entries, Exposure>>
    BY DEF Book!bookVars, Entries, Entry, Exposure
  <2> QED
    BY StepKinds, QuietSteps, BookAccept, BookRepay, BookDefault, BookQuiet
<1> QED
  BY <1>1, BookInit, TypeCorrect, ExposureIsBounded, HistoryIsTrue, WithinInit, WithinNext, PTL
  DEF Spec, KeepsLoanBook, Book!Spec
-----------------------------------------------------------------------------
(* Money.                                                                  *)

\* A payment moves its amount from one account to another.
LEMMA MovedType ==
  ASSUME NEW bal \in [Account -> Int], NEW from \in Account, NEW to \in Account,
         NEW amount \in Int
  PROVE  Transfer(bal, from, to, amount) \in [Account -> Int]
BY DEF Transfer

LEMMA Moved ==
  ASSUME NEW bal \in [Account -> Int], NEW from \in Account, NEW to \in Account,
         from # to, NEW amount \in Int
  PROVE  \A a \in Account :
           Transfer(bal, from, to, amount)[a] =
             IF a = from THEN bal[a] - amount
             ELSE IF a = to THEN bal[a] + amount ELSE bal[a]
BY DEF Transfer

LEMMA AccountFacts ==
  ASSUME TypeOK
  PROVE  /\ balance \in [Account -> Int]
         /\ \A u \in Users : balance[u] \in Nat
         /\ balance["MARKETPLACE"] \in Nat /\ balance["VAULT"] \in Nat
         /\ "MARKETPLACE" \in Account /\ "VAULT" \in Account
         /\ \A u \in Users : u \in Account /\ u # "MARKETPLACE" /\ u # "VAULT"
BY Accounts, Holders DEF Account, TypeOK, ChainTypeOK

\* An acceptance: the deposit goes to the borrower, the collateral to the vault.
LEMMA AcceptMoney ==
  ASSUME TypeOK, NEW b \in Users, NEW o \in DOMAIN offers, Accept(b, o)
  PROVE  LET deposit == offerDeposits[o]
             collateral == offers[o].requiredCollateral
         IN  /\ balance'["MARKETPLACE"] = balance["MARKETPLACE"] - deposit
             /\ balance'["VAULT"] = balance["VAULT"] + collateral
             /\ \A u \in Users :
                  balance'[u] = balance[u] + (IF u = b THEN deposit - collateral ELSE 0)
<1>0. PICK p, c : p = offerDeposits[o] /\ c = offers[o].requiredCollateral
  OBVIOUS
<1> DEFINE paid == Transfer(balance, b, "MARKETPLACE", c)
           sent == Transfer(paid, "MARKETPLACE", "VAULT", p + c)
<1>1. /\ p \in Nat /\ c \in Nat /\ c \in Int /\ p \in Int /\ p + c \in Int
      /\ balance \in [Account -> Int] /\ b \in Account
      /\ "MARKETPLACE" \in Account /\ "VAULT" \in Account
      /\ b # "MARKETPLACE" /\ "VAULT" # b /\ "MARKETPLACE" # "VAULT"
  <2>1. p \in Nat /\ c \in Nat
    BY <1>0, AcceptEffect
  <2> QED
    BY <2>1, AccountFacts
<1>2. balance' = Transfer(sent, "VAULT", b, p)
  BY <1>0 DEF Accept, AcceptOffer, OriginateLoan
<1>3. /\ paid \in [Account -> Int]
      /\ \A a \in Account : paid[a] = IF a = b THEN balance[a] - c
                                      ELSE IF a = "MARKETPLACE" THEN balance[a] + c
                                      ELSE balance[a]
  <2>1. paid \in [Account -> Int]
    BY <1>1, MovedType
  <2>2. \A a \in Account : paid[a] = IF a = b THEN balance[a] - c
                                    ELSE IF a = "MARKETPLACE" THEN balance[a] + c
                                    ELSE balance[a]
    BY <1>1, Moved
  <2> QED
    BY <2>1, <2>2
<1> HIDE DEF paid
<1>4. /\ sent \in [Account -> Int]
      /\ \A a \in Account : sent[a] = IF a = "MARKETPLACE" THEN paid[a] - (p + c)
                                      ELSE IF a = "VAULT" THEN paid[a] + (p + c)
                                      ELSE paid[a]
  <2>1. sent \in [Account -> Int]
    BY <1>1, <1>3, MovedType
  <2>2. \A a \in Account : sent[a] = IF a = "MARKETPLACE" THEN paid[a] - (p + c)
                                    ELSE IF a = "VAULT" THEN paid[a] + (p + c)
                                    ELSE paid[a]
    BY <1>1, <1>3, Moved
  <2> QED
    BY <2>1, <2>2
<1> HIDE DEF sent
<1>5. \A a \in Account : balance'[a] = IF a = "VAULT" THEN sent[a] - p
                                       ELSE IF a = b THEN sent[a] + p ELSE sent[a]
  BY <1>1, <1>2, <1>4, Moved
<1>6. /\ balance'["MARKETPLACE"] = balance["MARKETPLACE"] - p
      /\ balance'["VAULT"] = balance["VAULT"] + c
  BY <1>1, <1>3, <1>4, <1>5, AccountFacts
<1>7. \A u \in Users : balance'[u] = balance[u] + (IF u = b THEN p - c ELSE 0)
  BY <1>1, <1>3, <1>4, <1>5, AccountFacts
<1> QED
  BY <1>0, <1>6, <1>7

\* A full repayment: the borrower is out of what it owed, whatever it sent, and
\* has its collateral back.
LEMMA RepayInFullMoney ==
  ASSUME TypeOK, NEW b \in Users, NEW id \in DOMAIN loans, NEW value \in Nat,
         Repay(b, id, value), RepayInFull(id, value)
  PROVE  LET owed == TotalOwed(loans[id])
             collateral == loans[id].collateralAmount
         IN  /\ balance'["MARKETPLACE"] = balance["MARKETPLACE"]
             /\ balance'["VAULT"] = balance["VAULT"] - collateral
             /\ \A u \in Users :
                  balance'[u] = balance[u]
                    + (IF u = loans[id].borrower THEN collateral - owed ELSE 0)
                    + (IF u = loans[id].lender THEN owed ELSE 0)
<1>0. PICK owed, c, l : /\ owed = TotalOwed(loans[id]) /\ c = loans[id].collateralAmount
                        /\ l = loans[id].lender
  OBVIOUS
<1> DEFINE received == Transfer(balance, b, "VAULT", value)
           returned == Transfer(received, "VAULT", b, c)
           paid == Transfer(returned, "VAULT", l, owed)
<1>1. /\ owed \in Int /\ c \in Int /\ value \in Int /\ value - owed \in Int
      /\ loans[id].borrower = b /\ l \in Account /\ b \in Account /\ "VAULT" \in Account
      /\ b # "VAULT" /\ "VAULT" # b /\ "VAULT" # l /\ balance \in [Account -> Int]
      /\ l \in Users
  <2>1. owed \in Nat /\ c \in Nat /\ l \in Users /\ loans[id].borrower = b
    BY <1>0, RepayInFullEffect DEF Loan, Repay, RepayLoan
  <2> QED
    BY <2>1, AccountFacts
<1>2. balance' = Transfer(paid, "VAULT", b, value - owed)
  BY <1>0, <1>1 DEF RepayInFull
<1>3. /\ received \in [Account -> Int]
      /\ \A a \in Account : received[a] = IF a = b THEN balance[a] - value
                                          ELSE IF a = "VAULT" THEN balance[a] + value
                                          ELSE balance[a]
  <2>1. received \in [Account -> Int]
    BY <1>1, MovedType
  <2>2. \A a \in Account : received[a] = IF a = b THEN balance[a] - value
                                        ELSE IF a = "VAULT" THEN balance[a] + value
                                        ELSE balance[a]
    BY <1>1, Moved
  <2> QED
    BY <2>1, <2>2
<1> HIDE DEF received
<1>4. /\ returned \in [Account -> Int]
      /\ \A a \in Account : returned[a] = IF a = "VAULT" THEN received[a] - c
                                          ELSE IF a = b THEN received[a] + c
                                          ELSE received[a]
  <2>1. returned \in [Account -> Int]
    BY <1>1, <1>3, MovedType
  <2>2. \A a \in Account : returned[a] = IF a = "VAULT" THEN received[a] - c
                                        ELSE IF a = b THEN received[a] + c
                                        ELSE received[a]
    BY <1>1, <1>3, Moved
  <2> QED
    BY <2>1, <2>2
<1> HIDE DEF returned
<1>5. /\ paid \in [Account -> Int]
      /\ \A a \in Account : paid[a] = IF a = "VAULT" THEN returned[a] - owed
                                      ELSE IF a = l THEN returned[a] + owed
                                      ELSE returned[a]
  <2>1. paid \in [Account -> Int]
    BY <1>1, <1>4, MovedType
  <2>2. \A a \in Account : paid[a] = IF a = "VAULT" THEN returned[a] - owed
                                    ELSE IF a = l THEN returned[a] + owed
                                    ELSE returned[a]
    BY <1>1, <1>4, Moved
  <2> QED
    BY <2>1, <2>2
<1> HIDE DEF paid
<1>6. \A a \in Account : balance'[a] = IF a = "VAULT" THEN paid[a] - (value - owed)
                                       ELSE IF a = b THEN paid[a] + (value - owed)
                                       ELSE paid[a]
  BY <1>1, <1>2, <1>5, Moved
<1>7. /\ balance'["MARKETPLACE"] = balance["MARKETPLACE"]
      /\ balance'["VAULT"] = balance["VAULT"] - c
  BY <1>1, <1>3, <1>4, <1>5, <1>6, AccountFacts
<1>8. ASSUME NEW u \in Users
      PROVE  balance'[u] = balance[u] + (IF u = b THEN c - owed ELSE 0)
                                      + (IF u = l THEN owed ELSE 0)
  BY <1>1, <1>3, <1>4, <1>5, <1>6, AccountFacts
<1> QED
  BY <1>0, <1>1, <1>7, <1>8

\* A partial repayment passes through the vault.
LEMMA RepayInPartMoney ==
  ASSUME TypeOK, NEW b \in Users, NEW id \in DOMAIN loans, NEW value \in Nat,
         Repay(b, id, value), RepayInPart(id, value)
  PROVE  /\ balance'["MARKETPLACE"] = balance["MARKETPLACE"]
         /\ balance'["VAULT"] = balance["VAULT"]
         /\ \A u \in Users :
              balance'[u] = balance[u] - (IF u = loans[id].borrower THEN value ELSE 0)
                                       + (IF u = loans[id].lender THEN value ELSE 0)
<1>0. PICK l : l = loans[id].lender
  OBVIOUS
<1> DEFINE received == Transfer(balance, b, "VAULT", value)
<1>1. /\ loans[id].borrower = b /\ l \in Account /\ b \in Account /\ "VAULT" \in Account
      /\ b # "VAULT" /\ "VAULT" # l /\ balance \in [Account -> Int] /\ value \in Int
      /\ l \in Users
  <2>1. l \in Users /\ loans[id].borrower = b
    BY <1>0, RepayInPartEffect DEF Loan, Repay, RepayLoan
  <2> QED
    BY <2>1, AccountFacts
<1>2. balance' = Transfer(received, "VAULT", l, value)
  BY <1>0, <1>1 DEF RepayInPart
<1>3. /\ received \in [Account -> Int]
      /\ \A a \in Account : received[a] = IF a = b THEN balance[a] - value
                                          ELSE IF a = "VAULT" THEN balance[a] + value
                                          ELSE balance[a]
  <2>1. received \in [Account -> Int]
    BY <1>1, MovedType
  <2>2. \A a \in Account : received[a] = IF a = b THEN balance[a] - value
                                        ELSE IF a = "VAULT" THEN balance[a] + value
                                        ELSE balance[a]
    BY <1>1, Moved
  <2> QED
    BY <2>1, <2>2
<1> HIDE DEF received
<1>4. \A a \in Account : balance'[a] = IF a = "VAULT" THEN received[a] - value
                                       ELSE IF a = l THEN received[a] + value
                                       ELSE received[a]
  BY <1>1, <1>2, <1>3, Moved
<1> QED
  BY <1>0, <1>1, <1>3, <1>4, AccountFacts

\* A default: the collateral goes to the lender.
LEMMA DefaultMoney ==
  ASSUME TypeOK, NEW id \in DOMAIN loans, Default(id)
  PROVE  LET collateral == loans[id].collateralAmount
         IN  /\ balance'["MARKETPLACE"] = balance["MARKETPLACE"]
             /\ balance'["VAULT"] = balance["VAULT"] - collateral
             /\ \A u \in Users :
                  balance'[u] = balance[u] + (IF u = loans[id].lender THEN collateral ELSE 0)
<1>0. PICK l, c : l = loans[id].lender /\ c = loans[id].collateralAmount
  OBVIOUS
<1>1. /\ l \in Users /\ l \in Account /\ c \in Int /\ "VAULT" \in Account /\ "VAULT" # l
      /\ balance \in [Account -> Int]
  <2>1. l \in Users /\ c \in Nat
    BY <1>0, DefaultEffect DEF Loan
  <2> QED
    BY <2>1, AccountFacts
<1>2. balance' = Transfer(balance, "VAULT", l, c)
  BY <1>0 DEF Default, DeclareDefault
<1>3. \A a \in Account : balance'[a] = IF a = "VAULT" THEN balance[a] - c
                                       ELSE IF a = l THEN balance[a] + c ELSE balance[a]
  BY <1>1, <1>2, Moved
<1> QED
  BY <1>0, <1>1, <1>3, AccountFacts

\* Offers: a deposit comes in with the offer and goes back with its withdrawal.
LEMMA DepositMoney ==
  ASSUME TypeOK, NEW lender \in Users, NEW amount \in Nat,
         balance' = Transfer(balance, lender, "MARKETPLACE", amount)
  PROVE  /\ balance'["MARKETPLACE"] = balance["MARKETPLACE"] + amount
         /\ balance'["VAULT"] = balance["VAULT"]
         /\ \A u \in Users : balance'[u] = balance[u] - (IF u = lender THEN amount ELSE 0)
<1>1. /\ balance \in [Account -> Int] /\ lender \in Account /\ amount \in Int
      /\ "MARKETPLACE" \in Account /\ lender # "MARKETPLACE"
  BY AccountFacts
<1>2. \A a \in Account : balance'[a] = IF a = lender THEN balance[a] - amount
                                       ELSE IF a = "MARKETPLACE" THEN balance[a] + amount
                                       ELSE balance[a]
  BY <1>1, Moved
<1> QED
  BY <1>1, <1>2, AccountFacts

LEMMA RefundMoney ==
  ASSUME TypeOK, NEW lender \in Users, NEW amount \in Nat,
         balance' = Transfer(balance, "MARKETPLACE", lender, amount)
  PROVE  /\ balance'["MARKETPLACE"] = balance["MARKETPLACE"] - amount
         /\ balance'["VAULT"] = balance["VAULT"]
         /\ \A u \in Users : balance'[u] = balance[u] + (IF u = lender THEN amount ELSE 0)
<1>1. /\ balance \in [Account -> Int] /\ lender \in Account /\ amount \in Int
      /\ "MARKETPLACE" \in Account /\ "MARKETPLACE" # lender
  BY AccountFacts
<1>2. \A a \in Account : balance'[a] = IF a = "MARKETPLACE" THEN balance[a] - amount
                                       ELSE IF a = lender THEN balance[a] + amount
                                       ELSE balance[a]
  BY <1>1, Moved
<1> QED
  BY <1>1, <1>2, AccountFacts
-----------------------------------------------------------------------------
(* What the money is held for.                                             *)

\* The deposits of pending offers, of all of them and of one lender's.
PendingOf(u) == {o \in OffersAt("PENDING") : offers[o].lender = u}
Deposits == Sum(offerDeposits, OffersAt("PENDING"))
Deposited(u) == Sum(offerDeposits, PendingOf(u))

\* The collateral behind active loans.
Secured == Sum(Collateral, LoansOf("ACTIVE"))

\* What its loans have brought an account so far, as lender and as borrower.
Gained(u) ==
  Sum(Outstanding, Borrowed(u)) - Sum(Collateral, Borrowed(u) \ LoansOf("REPAID"))
    - Sum(Outstanding, Lent(u)) + Sum(Collateral, Lent(u) \cap LoansOf("DEFAULTED"))

\* What one loan adds to each.
Secures(l) == IF l.status = "ACTIVE" THEN l.collateralAmount ELSE 0
Debt(l) == l.principal - l.repaidAmount
AsBorrower(u, l) ==
  IF l.borrower = u
  THEN Debt(l) - (IF l.status = "REPAID" THEN 0 ELSE l.collateralAmount) ELSE 0
AsLender(u, l) ==
  IF l.lender = u
  THEN (IF l.status = "DEFAULTED" THEN l.collateralAmount ELSE 0) - Debt(l) ELSE 0

LEMMA GainedTypes ==
  ASSUME TypeOK, NEW u
  PROVE  /\ Secured \in Int /\ Gained(u) \in Int
         /\ Sum(Outstanding, Borrowed(u)) \in Int
         /\ Sum(Collateral, Borrowed(u) \ LoansOf("REPAID")) \in Int
         /\ Sum(Outstanding, Lent(u)) \in Int
         /\ Sum(Collateral, Lent(u) \cap LoansOf("DEFAULTED")) \in Int
<1>1. loans \in Seq(Loan)
  BY DEF TypeOK, VaultTypeOK
<1>2. ASSUME NEW S, S \subseteq DOMAIN loans
      PROVE  Sum(Collateral, S) \in Int /\ Sum(Outstanding, S) \in Int
  <2>1. Sum(Collateral, S) \in Nat
    BY <1>1, <1>2, LoanSums DEF Collateral
  <2>2. Sum(Outstanding, S) \in Int
    BY <1>1, <1>2, LoanSums, Zenon DEF Outstanding
  <2> QED
    BY <2>1, <2>2
<1>3. /\ Borrowed(u) \subseteq DOMAIN loans /\ Lent(u) \subseteq DOMAIN loans
      /\ LoansOf("ACTIVE") \subseteq DOMAIN loans
  BY DEF Borrowed, Lent, LoansOf
<1>4. /\ Secured \in Int
      /\ Sum(Outstanding, Borrowed(u)) \in Int
      /\ Sum(Collateral, Borrowed(u) \ LoansOf("REPAID")) \in Int
      /\ Sum(Outstanding, Lent(u)) \in Int
      /\ Sum(Collateral, Lent(u) \cap LoansOf("DEFAULTED")) \in Int
  <2>1. /\ Borrowed(u) \ LoansOf("REPAID") \subseteq DOMAIN loans
        /\ Lent(u) \cap LoansOf("DEFAULTED") \subseteq DOMAIN loans
    BY <1>3
  <2> QED
    BY <1>2, <1>3, <2>1 DEF Secured
<1> QED
  BY <1>4 DEF Gained

\* How the sums move when loan i does: by what it adds after and before, where
\* a loan that is not there yet adds nothing.
LEMMA GainedChange ==
  ASSUME TypeOK, TypeOK', NEW i, Touches(i), i \in DOMAIN loans', NEW u
  PROVE  LET secures == IF i \in DOMAIN loans THEN Secures(loans[i]) ELSE 0
             gains == IF i \in DOMAIN loans
                      THEN AsBorrower(u, loans[i]) + AsLender(u, loans[i]) ELSE 0
         IN  /\ Secured' = Secured - secures + Secures(loans'[i])
             /\ Gained(u)' = Gained(u) - gains
                               + (AsBorrower(u, loans'[i]) + AsLender(u, loans'[i]))
<1> DEFINE Pledging == Borrowed(u) \ LoansOf("REPAID")
           Seizing == Lent(u) \cap LoansOf("DEFAULTED")
           Old(n) == IF i \in DOMAIN loans THEN n ELSE 0
           c == loans[i].collateralAmount
           d == loans'[i].collateralAmount
<1>1. /\ LoansOf("ACTIVE") \subseteq DOMAIN loans /\ LoansOf("ACTIVE")' \subseteq DOMAIN loans'
      /\ LoansOf("ACTIVE") \ {i} = LoansOf("ACTIVE")' \ {i}
      /\ Borrowed(u) \subseteq DOMAIN loans /\ Borrowed(u)' \subseteq DOMAIN loans'
      /\ Borrowed(u) \ {i} = Borrowed(u)' \ {i}
      /\ Lent(u) \subseteq DOMAIN loans /\ Lent(u)' \subseteq DOMAIN loans'
      /\ Lent(u) \ {i} = Lent(u)' \ {i}
  BY DEF Borrowed, Lent, LoansOf, Touches
<1>2. /\ Pledging \subseteq DOMAIN loans /\ Pledging' \subseteq DOMAIN loans'
      /\ Pledging \ {i} = Pledging' \ {i}
      /\ Seizing \subseteq DOMAIN loans /\ Seizing' \subseteq DOMAIN loans'
      /\ Seizing \ {i} = Seizing' \ {i}
  BY DEF Borrowed, Lent, LoansOf, Touches
<1>3. /\ Share(Collateral, LoansOf("ACTIVE"), i) = Old(Secures(loans[i]))
      /\ Share(Collateral', LoansOf("ACTIVE")', i) = Secures(loans'[i])
  BY DEF Share, Collateral, LoansOf, Secures
<1>4. /\ Share(Outstanding, Borrowed(u), i) =
           Old(IF loans[i].borrower = u THEN Debt(loans[i]) ELSE 0)
      /\ Share(Outstanding', Borrowed(u)', i) =
           (IF loans'[i].borrower = u THEN Debt(loans'[i]) ELSE 0)
      /\ Share(Outstanding, Lent(u), i) =
           Old(IF loans[i].lender = u THEN Debt(loans[i]) ELSE 0)
      /\ Share(Outstanding', Lent(u)', i) =
           (IF loans'[i].lender = u THEN Debt(loans'[i]) ELSE 0)
  BY DEF Share, Outstanding, Borrowed, Lent, Debt
<1>5. /\ Share(Collateral, Pledging, i) =
           Old(IF loans[i].borrower = u /\ loans[i].status # "REPAID" THEN c ELSE 0)
      /\ Share(Collateral', Pledging', i) =
           (IF loans'[i].borrower = u /\ loans'[i].status # "REPAID" THEN d ELSE 0)
      /\ Share(Collateral, Seizing, i) =
           Old(IF loans[i].lender = u /\ loans[i].status = "DEFAULTED" THEN c ELSE 0)
      /\ Share(Collateral', Seizing', i) =
           (IF loans'[i].lender = u /\ loans'[i].status = "DEFAULTED" THEN d ELSE 0)
  BY DEF Share, Collateral, Borrowed, Lent, LoansOf
<1>6. Secured' = Secured - Old(Secures(loans[i])) + Secures(loans'[i])
  <2>1. Sum(Collateral', LoansOf("ACTIVE")') =
          Sum(Collateral, LoansOf("ACTIVE")) - Share(Collateral, LoansOf("ACTIVE"), i)
            + Share(Collateral', LoansOf("ACTIVE")', i)
    BY <1>1, LoanSumChange
  <2> QED
    BY <1>3, <2>1 DEF Secured
<1>7. /\ Sum(Outstanding', Borrowed(u)') =
           Sum(Outstanding, Borrowed(u)) - Share(Outstanding, Borrowed(u), i)
             + Share(Outstanding', Borrowed(u)', i)
      /\ Sum(Outstanding', Lent(u)') =
           Sum(Outstanding, Lent(u)) - Share(Outstanding, Lent(u), i)
             + Share(Outstanding', Lent(u)', i)
  BY <1>1, LoanSumChange
<1>8. /\ Sum(Collateral', Pledging') =
           Sum(Collateral, Pledging) - Share(Collateral, Pledging, i)
             + Share(Collateral', Pledging', i)
      /\ Sum(Collateral', Seizing') =
           Sum(Collateral, Seizing) - Share(Collateral, Seizing, i)
             + Share(Collateral', Seizing', i)
  BY <1>2, LoanSumChange
<1>9. /\ i \in DOMAIN loans => loans[i] \in Loan
      /\ loans'[i] \in Loan
  BY SeqItem DEF TypeOK, VaultTypeOK
<1>10. /\ i \in DOMAIN loans => c \in Int /\ Debt(loans[i]) \in Int
       /\ d \in Int /\ Debt(loans'[i]) \in Int
  BY <1>9 DEF Loan, Debt
<1>11. Gained(u)' = Gained(u) - Old(AsBorrower(u, loans[i]) + AsLender(u, loans[i]))
                      + (AsBorrower(u, loans'[i]) + AsLender(u, loans'[i]))
  <2>1. /\ Gained(u) = Sum(Outstanding, Borrowed(u)) - Sum(Collateral, Pledging)
                         - Sum(Outstanding, Lent(u)) + Sum(Collateral, Seizing)
        /\ Gained(u)' = Sum(Outstanding', Borrowed(u)') - Sum(Collateral', Pledging')
                          - Sum(Outstanding', Lent(u)') + Sum(Collateral', Seizing')
    BY DEF Gained
  <2>2. /\ Sum(Outstanding, Borrowed(u)) \in Int /\ Sum(Collateral, Pledging) \in Int
        /\ Sum(Outstanding, Lent(u)) \in Int /\ Sum(Collateral, Seizing) \in Int
    BY GainedTypes
  <2> HIDE DEF Pledging, Seizing, c, d
  <2>3. /\ AsBorrower(u, loans'[i]) =
             (IF loans'[i].borrower = u THEN Debt(loans'[i]) ELSE 0)
             - (IF loans'[i].borrower = u /\ loans'[i].status # "REPAID" THEN d ELSE 0)
        /\ AsLender(u, loans'[i]) =
             (IF loans'[i].lender = u /\ loans'[i].status = "DEFAULTED" THEN d ELSE 0)
             - (IF loans'[i].lender = u THEN Debt(loans'[i]) ELSE 0)
    BY <1>10 DEF AsBorrower, AsLender, d
  <2>4. CASE i \in DOMAIN loans
    <3>1. /\ AsBorrower(u, loans[i]) =
               (IF loans[i].borrower = u THEN Debt(loans[i]) ELSE 0)
               - (IF loans[i].borrower = u /\ loans[i].status # "REPAID" THEN c ELSE 0)
          /\ AsLender(u, loans[i]) =
               (IF loans[i].lender = u /\ loans[i].status = "DEFAULTED" THEN c ELSE 0)
               - (IF loans[i].lender = u THEN Debt(loans[i]) ELSE 0)
      BY <1>10, <2>4 DEF AsBorrower, AsLender, c
    <3> QED
      BY <1>4, <1>5, <1>7, <1>8, <1>10, <2>1, <2>2, <2>3, <2>4, <3>1
  <2>5. CASE i \notin DOMAIN loans
    BY <1>4, <1>5, <1>7, <1>8, <1>10, <2>1, <2>2, <2>3, <2>5
  <2> QED
    BY <2>4, <2>5
<1> QED
  BY <1>6, <1>11

\* Offer o may change or be new; no other does.
OfferTouches(o) ==
  /\ DOMAIN offers' = DOMAIN offers \cup {o}
  /\ \A p \in DOMAIN offers \ {o} :
       /\ offers'[p].lender = offers[p].lender /\ offers'[p].status = offers[p].status
       /\ offerDeposits'[p] = offerDeposits[p]

LEMMA DepositChange ==
  ASSUME TypeOK, TypeOK', NEW o, OfferTouches(o), NEW u
  PROVE  /\ Deposits \in Int /\ Deposited(u) \in Int
         /\ Deposits' = Deposits - Share(offerDeposits, OffersAt("PENDING"), o)
                          + Share(offerDeposits', OffersAt("PENDING")', o)
         /\ Deposited(u)' = Deposited(u) - Share(offerDeposits, PendingOf(u), o)
                              + Share(offerDeposits', PendingOf(u)', o)
<1> DEFINE P == OffersAt("PENDING")
           Q == PendingOf(u)
<1>1. /\ P \subseteq DOMAIN offers /\ P' \subseteq DOMAIN offers' /\ P \ {o} = P' \ {o}
      /\ Q \subseteq DOMAIN offers /\ Q' \subseteq DOMAIN offers' /\ Q \ {o} = Q' \ {o}
      /\ \A y \in P \ {o} : offerDeposits'[y] = offerDeposits[y]
      /\ \A y \in Q \ {o} : offerDeposits'[y] = offerDeposits[y]
  BY DEF OffersAt, PendingOf, OfferTouches
<1>2. /\ DOMAIN offerDeposits = DOMAIN offers /\ offerDeposits \in Seq(Nat)
      /\ DOMAIN offerDeposits' = DOMAIN offers' /\ offerDeposits' \in Seq(Nat)
  BY LenProperties DEF TypeOK, MarketTypeOK
<1> HIDE DEF P, Q
<1>3. /\ IsFiniteSet(P) /\ IsFiniteSet(Q) /\ IsFiniteSet(P') /\ IsFiniteSet(Q')
  BY <1>1, <1>2, FinitePositions
<1>4. /\ \A y \in P : offerDeposits[y] \in Int
      /\ \A y \in Q : offerDeposits[y] \in Int
      /\ \A y \in P' : offerDeposits'[y] \in Int
      /\ \A y \in Q' : offerDeposits'[y] \in Int
  <2>1. /\ \A y \in DOMAIN offers : offerDeposits[y] \in Nat
        /\ \A y \in DOMAIN offers' : offerDeposits'[y] \in Nat
    BY <1>2, SeqItem
  <2> QED
    BY <1>1, <2>1
<1>5. /\ Sum(offerDeposits, P) \in Int /\ Sum(offerDeposits, Q) \in Int
  BY <1>3, <1>4, SumType DEF Sum
<1>6. Sum(offerDeposits', P') =
        Sum(offerDeposits, P) - Share(offerDeposits, P, o) + Share(offerDeposits', P', o)
  BY <1>1, <1>3, <1>4, SumChange DEF Sum
<1>7. Sum(offerDeposits', Q') =
        Sum(offerDeposits, Q) - Share(offerDeposits, Q, o) + Share(offerDeposits', Q', o)
  BY <1>1, <1>3, <1>4, SumChange DEF Sum
<1> QED
  BY <1>5, <1>6, <1>7 DEF P, Q, Deposits, Deposited
-----------------------------------------------------------------------------
(* The two money invariants, with the sums named.                          *)

Solvent ==
  /\ balance["MARKETPLACE"] = Deposits
  /\ balance["VAULT"] = Secured
  /\ \A u \in Users : balance[u] = InitialWallet - Deposited(u) + Gained(u)

LEMMA DepositTypes ==
  ASSUME TypeOK, NEW u
  PROVE  Deposits \in Int /\ Deposited(u) \in Int
<1> DEFINE P == OffersAt("PENDING")
           Q == PendingOf(u)
<1>1. /\ offerDeposits \in Seq(Nat) /\ P \subseteq DOMAIN offerDeposits
      /\ Q \subseteq DOMAIN offerDeposits
  BY MarketTypes DEF OffersAt, PendingOf
<1> HIDE DEF P, Q
<1>2. IsFiniteSet(P) /\ IsFiniteSet(Q)
  BY <1>1, FinitePositions
<1>3. /\ \A y \in P : offerDeposits[y] \in Int
      /\ \A y \in Q : offerDeposits[y] \in Int
  <2>1. \A y \in DOMAIN offerDeposits : offerDeposits[y] \in Nat
    BY <1>1, SeqItem
  <2> QED
    BY <1>1, <2>1
<1>4. Sum(offerDeposits, P) \in Int /\ Sum(offerDeposits, Q) \in Int
  BY <1>2, <1>3, SumType DEF Sum
<1> QED
  BY <1>4 DEF P, Q, Deposits, Deposited

LEMMA SolventIs == TypeOK => (EscrowCovered /\ WalletsMatchBooks <=> Solvent)
<1> SUFFICES ASSUME TypeOK PROVE EscrowCovered /\ WalletsMatchBooks <=> Solvent
  OBVIOUS
<1>1. EscrowCovered <=> balance["MARKETPLACE"] = Deposits /\ balance["VAULT"] = Secured
  BY DEF EscrowCovered, Deposits, Secured
<1>2. ASSUME NEW u \in Users
      PROVE  InitialWallet
               - Sum(offerDeposits, {o \in OffersAt("PENDING") : offers[o].lender = u})
               - Sum(Outstanding, Lent(u))
               + Sum(Collateral, Lent(u) \cap LoansOf("DEFAULTED"))
               + Sum(Outstanding, Borrowed(u))
               - Sum(Collateral, Borrowed(u) \ LoansOf("REPAID"))
             = InitialWallet - Deposited(u) + Gained(u)
  <2>1. Deposited(u) = Sum(offerDeposits, {o \in OffersAt("PENDING") : offers[o].lender = u})
    BY DEF Deposited, PendingOf
  <2>2. /\ Deposited(u) \in Int /\ InitialWallet \in Int
        /\ Sum(Outstanding, Borrowed(u)) \in Int
        /\ Sum(Collateral, Borrowed(u) \ LoansOf("REPAID")) \in Int
        /\ Sum(Outstanding, Lent(u)) \in Int
        /\ Sum(Collateral, Lent(u) \cap LoansOf("DEFAULTED")) \in Int
    BY DepositTypes, GainedTypes, Inputs
  <2> QED
    BY <2>1, <2>2 DEF Gained
<1>3. WalletsMatchBooks <=>
        \A u \in Users : balance[u] = InitialWallet - Deposited(u) + Gained(u)
  BY <1>2, Zenon DEF WalletsMatchBooks
<1> QED
  BY <1>1, <1>3 DEF Solvent

LEMMA SolventInit == Init => Solvent
<1> SUFFICES ASSUME Init PROVE Solvent
  OBVIOUS
<1>1. DOMAIN loans = {} /\ DOMAIN offers = {}
  BY DEF Init, VaultInit, MarketInit
<1>2. /\ OffersAt("PENDING") = {} /\ LoansOf("ACTIVE") = {}
      /\ \A u : /\ PendingOf(u) = {} /\ Borrowed(u) = {} /\ Lent(u) = {}
                /\ Borrowed(u) \ LoansOf("REPAID") = {}
                /\ Lent(u) \cap LoansOf("DEFAULTED") = {}
  BY <1>1 DEF OffersAt, PendingOf, LoansOf, Borrowed, Lent
<1>3. /\ Deposits = 0 /\ Secured = 0
      /\ \A u : /\ Deposited(u) = 0
                /\ Sum(Outstanding, Borrowed(u)) = 0 /\ Sum(Outstanding, Lent(u)) = 0
                /\ Sum(Collateral, Borrowed(u) \ LoansOf("REPAID")) = 0
                /\ Sum(Collateral, Lent(u) \cap LoansOf("DEFAULTED")) = 0
  BY <1>2, SumEmpty, Zenon DEF Deposits, Deposited, Secured, Sum
<1>4. \A u : Gained(u) = 0
  BY <1>3 DEF Gained
<1>5. /\ balance["MARKETPLACE"] = 0 /\ balance["VAULT"] = 0
      /\ \A u \in Users : balance[u] = InitialWallet
  BY Accounts, Holders DEF Init
<1> QED
  BY <1>3, <1>4, <1>5, Inputs DEF Solvent

\* What leaves the offers and the loans alone, and moves no money.
LEMMA SolventQuiet ==
  ASSUME Solvent, UNCHANGED <<balance, loans, offers, offerDeposits>>
  PROVE  Solvent'
BY DEF Solvent, Deposits, Deposited, PendingOf, OffersAt, Secured, Gained, Borrowed, Lent,
       LoansOf, Collateral, Outstanding

LEMMA SameLoans ==
  ASSUME UNCHANGED loans
  PROVE  Secured' = Secured /\ \A u : Gained(u)' = Gained(u)
BY DEF Secured, Gained, Borrowed, Lent, LoansOf, Collateral, Outstanding

LEMMA SameOffers ==
  ASSUME UNCHANGED <<offers, offerDeposits>>
  PROVE  Deposits' = Deposits /\ \A u : Deposited(u)' = Deposited(u)
BY DEF Deposits, Deposited, PendingOf, OffersAt

\* An offer that is settled takes its deposit out of the sums.
LEMMA SettledOffer ==
  ASSUME TypeOK, TypeOK', NEW o \in DOMAIN offers, offers[o].status = "PENDING",
         NEW status, status # "PENDING", SetOffer(o, status), NEW u
  PROVE  /\ Deposits' = Deposits - offerDeposits[o]
         /\ Deposited(u)' =
              Deposited(u) - (IF u = offers[o].lender THEN offerDeposits[o] ELSE 0)
         /\ offerDeposits[o] \in Nat /\ Deposits \in Int /\ Deposited(u) \in Int
<1>1. OfferTouches(o)
  BY DEF SetOffer, SameOffer, OfferTouches
<1>2. /\ Share(offerDeposits, OffersAt("PENDING"), o) = offerDeposits[o]
      /\ Share(offerDeposits, PendingOf(u), o) =
           (IF u = offers[o].lender THEN offerDeposits[o] ELSE 0)
  BY DEF Share, OffersAt, PendingOf
<1>3. /\ Share(offerDeposits', OffersAt("PENDING")', o) = 0
      /\ Share(offerDeposits', PendingOf(u)', o) = 0
  BY DEF Share, OffersAt, PendingOf, SetOffer
<1>4. offerDeposits[o] \in Nat
  BY MarketTypes, SeqItem
<1>5. /\ Deposits \in Int /\ Deposited(u) \in Int
      /\ Deposits' = Deposits - Share(offerDeposits, OffersAt("PENDING"), o)
                       + Share(offerDeposits', OffersAt("PENDING")', o)
      /\ Deposited(u)' = Deposited(u) - Share(offerDeposits, PendingOf(u), o)
                           + Share(offerDeposits', PendingOf(u)', o)
  BY <1>1, DepositChange
<1> QED
  BY <1>2, <1>3, <1>4, <1>5

\* A new offer adds its deposit to them.
LEMMA NewDeposit ==
  ASSUME TypeOK, TypeOK', NEW r \in DOMAIN requests, NEW lender, NEW apr, NEW duration,
         NEW collateral, Offered(r, lender, apr, duration, collateral), NEW u
  PROVE  /\ Deposits' = Deposits + requests[r].amount
         /\ Deposited(u)' =
              Deposited(u) + (IF u = lender THEN requests[r].amount ELSE 0)
         /\ requests[r].amount \in Nat /\ Deposits \in Int /\ Deposited(u) \in Int
<1> DEFINE n == Len(offers) + 1
<1>0. /\ DOMAIN offers' = DOMAIN offers \cup {n} /\ n \notin DOMAIN offers
      /\ \A p \in DOMAIN offers : offers'[p] = offers[p] /\ offerDeposits'[p] = offerDeposits[p]
      /\ offers'[n] = NewOffer(r, lender, apr, duration, collateral)
      /\ offerDeposits'[n] = requests[r].amount
  BY DEF Offered
<1> HIDE DEF n
<1>1. OfferTouches(n)
  BY <1>0 DEF OfferTouches
<1>2. /\ Share(offerDeposits, OffersAt("PENDING"), n) = 0
      /\ Share(offerDeposits, PendingOf(u), n) = 0
  BY <1>0 DEF Share, OffersAt, PendingOf
<1>3. /\ Share(offerDeposits', OffersAt("PENDING")', n) = requests[r].amount
      /\ Share(offerDeposits', PendingOf(u)', n) =
           (IF u = lender THEN requests[r].amount ELSE 0)
  BY <1>0 DEF Share, OffersAt, PendingOf, NewOffer
<1>4. requests[r].amount \in Nat
  BY MarketTypes DEF BorrowRequest
<1>5. /\ Deposits \in Int /\ Deposited(u) \in Int
      /\ Deposits' = Deposits - Share(offerDeposits, OffersAt("PENDING"), n)
                       + Share(offerDeposits', OffersAt("PENDING")', n)
      /\ Deposited(u)' = Deposited(u) - Share(offerDeposits, PendingOf(u), n)
                           + Share(offerDeposits', PendingOf(u)', n)
  BY <1>1, DepositChange
<1> QED
  BY <1>2, <1>3, <1>4, <1>5

\* A loan that changes or ends moves the sums by the difference it makes.
LEMMA ChangedLoan ==
  ASSUME TypeOK, TypeOK', NEW id \in DOMAIN loans, NEW repaid \in Int, NEW status,
         loans[id].status = "ACTIVE", Update(id, repaid, status), NEW u
  PROVE  LET loan == loans[id]
             paid == repaid - loan.repaidAmount
             c == loan.collateralAmount
         IN  /\ Secured' = Secured - (IF status = "ACTIVE" THEN 0 ELSE c)
             /\ Gained(u)' =
                  Gained(u)
                  + (IF u = loan.borrower THEN (IF status = "REPAID" THEN c ELSE 0) - paid ELSE 0)
                  + (IF u = loan.lender THEN (IF status = "DEFAULTED" THEN c ELSE 0) + paid ELSE 0)
             /\ Secured \in Int /\ Gained(u) \in Int
             /\ c \in Nat /\ loan.repaidAmount \in Nat
<1> DEFINE loan == loans[id]
           new == loans'[id]
           paid == repaid - loan.repaidAmount
           c == loan.collateralAmount
<1>1. /\ loan.principal \in Nat /\ loan.repaidAmount \in Nat /\ c \in Nat
  <2>1. loan \in Loan
    BY SeqItem DEF TypeOK, VaultTypeOK
  <2> QED
    BY <2>1 DEF Loan
<1>2. Touches(id) /\ id \in DOMAIN loans'
  BY UpdateTouches
<1>3. /\ new.borrower = loan.borrower /\ new.lender = loan.lender
      /\ new.principal = loan.principal /\ new.collateralAmount = c
      /\ new.repaidAmount = repaid /\ new.status = status
  BY DEF Update, SameTerms
<1>4. /\ Secures(loan) = c /\ Secures(new) = (IF status = "ACTIVE" THEN c ELSE 0)
      /\ Debt(new) = Debt(loan) - paid /\ Debt(loan) \in Int
  BY <1>1, <1>3 DEF Secures, Debt
<1>5. /\ AsBorrower(u, loan) = (IF u = loan.borrower THEN Debt(loan) - c ELSE 0)
      /\ AsBorrower(u, new) =
           (IF u = loan.borrower
            THEN Debt(loan) - paid - (IF status = "REPAID" THEN 0 ELSE c) ELSE 0)
      /\ AsLender(u, loan) = (IF u = loan.lender THEN 0 - Debt(loan) ELSE 0)
      /\ AsLender(u, new) =
           (IF u = loan.lender
            THEN (IF status = "DEFAULTED" THEN c ELSE 0) - (Debt(loan) - paid) ELSE 0)
  BY <1>3, <1>4 DEF AsBorrower, AsLender
<1>6. /\ Secured' = Secured - Secures(loan) + Secures(new)
      /\ Gained(u)' = Gained(u) - (AsBorrower(u, loan) + AsLender(u, loan))
                        + (AsBorrower(u, new) + AsLender(u, new))
      /\ Secured \in Int /\ Gained(u) \in Int
  BY <1>2, GainedChange, GainedTypes
<1>7. paid \in Int
  BY <1>1
<1> HIDE DEF loan, new, paid, c
<1>8. Secured' = Secured - (IF status = "ACTIVE" THEN 0 ELSE c)
  BY <1>1, <1>4, <1>6
<1>9. Gained(u)' =
        Gained(u)
        + (IF u = loan.borrower THEN (IF status = "REPAID" THEN c ELSE 0) - paid ELSE 0)
        + (IF u = loan.lender THEN (IF status = "DEFAULTED" THEN c ELSE 0) + paid ELSE 0)
  BY <1>1, <1>4, <1>5, <1>6, <1>7
<1> QED
  BY <1>1, <1>6, <1>8, <1>9 DEF loan, paid, c

\* A new loan adds its collateral to the vault's, and to its parties what they
\* owe and are owed.
LEMMA GrantedLoan ==
  ASSUME TypeOK, TypeOK', NEW b \in Users, NEW o \in DOMAIN offers, Accept(b, o), NEW u
  PROVE  LET p == offerDeposits[o]
             c == offers[o].requiredCollateral
         IN  /\ Secured' = Secured + c
             /\ Gained(u)' = Gained(u) + (IF u = b THEN p - c ELSE 0)
                               - (IF u = offers[o].lender THEN p ELSE 0)
             /\ Secured \in Int /\ Gained(u) \in Int /\ p \in Nat /\ c \in Nat
<1> DEFINE p == offerDeposits[o]
           c == offers[o].requiredCollateral
<1>1. p \in Nat /\ c \in Nat
  BY AcceptEffect
<1>2. PICK n : /\ Touches(n) /\ n \notin DOMAIN loans /\ n \in DOMAIN loans'
               /\ loans'[n] = NewLoan(b, o)
  BY AcceptTouches
<1>3. /\ Secures(loans'[n]) = c
      /\ AsBorrower(u, loans'[n]) = (IF u = b THEN p - c ELSE 0)
      /\ AsLender(u, loans'[n]) = (IF u = offers[o].lender THEN 0 - p ELSE 0)
  BY <1>1, <1>2 DEF NewLoan, Secures, AsBorrower, AsLender, Debt
<1>4. /\ Secured' = Secured + Secures(loans'[n])
      /\ Gained(u)' = Gained(u) + (AsBorrower(u, loans'[n]) + AsLender(u, loans'[n]))
      /\ Secured \in Int /\ Gained(u) \in Int
  <2>1. Secured \in Int /\ Gained(u) \in Int
    BY GainedTypes
  <2> QED
    BY <1>1, <1>2, <1>3, <2>1, GainedChange
<1> HIDE DEF p, c
<1>5. /\ Secured' = Secured + c
      /\ Gained(u)' = Gained(u) + (IF u = b THEN p - c ELSE 0)
                        - (IF u = offers[o].lender THEN p ELSE 0)
  BY <1>1, <1>3, <1>4
<1> QED
  BY <1>1, <1>4, <1>5 DEF p, c

LEMMA SolventNext == TypeOK /\ Solvent /\ [Next]_vars => Solvent'
<1> SUFFICES ASSUME TypeOK, Solvent, [Next]_vars PROVE Solvent'
  OBVIOUS
<1>0. /\ TypeOK' /\ InitialWallet \in Int
      /\ balance["MARKETPLACE"] \in Int /\ balance["VAULT"] \in Int
      /\ balance["MARKETPLACE"] = Deposits /\ balance["VAULT"] = Secured
      /\ \A u \in Users : /\ balance[u] = InitialWallet - Deposited(u) + Gained(u)
                          /\ balance[u] \in Int
  BY NextType, AccountFacts, Inputs DEF Solvent
<1>1. CASE PassTime \/ Administer \/ UNCHANGED vars
  <2>1. UNCHANGED <<balance, loans, offers, offerDeposits>>
    BY <1>1 DEF PassTime, Administer, vars, marketVars
  <2> QED
    BY <2>1, SolventQuiet
<1>2. CASE Trade
  <2>0. /\ UNCHANGED loans
        /\ Secured' = Secured /\ \A u : Gained(u)' = Gained(u)
    BY <1>2, SameLoans DEF Trade
  <2>1. ASSUME UNCHANGED <<balance, offers, offerDeposits>> PROVE Solvent'
    BY <2>0, <2>1, SolventQuiet
  <2>2. ASSUME NEW lender \in Users, NEW r \in DOMAIN requests, NEW apr \in Nat,
               NEW duration \in Nat, NEW collateral \in Nat,
               CreateLenderOffer(lender, r, apr, duration, collateral, requests[r].amount)
        PROVE  Solvent'
    <3>1. Offered(r, lender, apr, duration, collateral)
      BY <2>2, CreateOfferEffect
    <3>2. requests[r].amount \in Nat
      BY MarketTypes DEF BorrowRequest
    <3>3. balance' = Transfer(balance, lender, "MARKETPLACE", requests[r].amount)
      BY <2>2 DEF CreateLenderOffer
    <3>4. PICK n \in Nat : n = requests[r].amount
      BY <3>2
    <3>5. /\ balance'["MARKETPLACE"] = balance["MARKETPLACE"] + n
          /\ balance'["VAULT"] = balance["VAULT"]
          /\ \A u \in Users : balance'[u] = balance[u] - (IF u = lender THEN n ELSE 0)
      BY <3>3, <3>4, DepositMoney
    <3>6. \A u : /\ Deposits' = Deposits + n
                 /\ Deposited(u)' = Deposited(u) + (IF u = lender THEN n ELSE 0)
      BY <1>0, <3>1, <3>4, NewDeposit
    <3>7. ASSUME NEW u \in Users
          PROVE  balance'[u] = InitialWallet - Deposited(u)' + Gained(u)'
      <4>1. Deposited(u) \in Int /\ Gained(u) \in Int
        BY DepositTypes, GainedTypes
      <4> QED
        BY <1>0, <2>0, <3>5, <3>6, <4>1
    <3> QED
      BY <1>0, <2>0, <3>5, <3>6, <3>7 DEF Solvent
  <2>3. ASSUME NEW lender \in Users, NEW o \in DOMAIN offers, WithdrawOffer(lender, o)
        PROVE  Solvent'
    <3>1. /\ offers[o].status = "PENDING" /\ SetOffer(o, "WITHDRAWN")
          /\ offers[o].lender = lender /\ "WITHDRAWN" # "PENDING"
      BY <2>3, WithdrawEffect DEF WithdrawOffer
    <3>2. balance' = Transfer(balance, "MARKETPLACE", lender, offerDeposits[o])
      BY <2>3 DEF WithdrawOffer
    <3>3. \A u : /\ Deposits' = Deposits - offerDeposits[o]
                 /\ Deposited(u)' = Deposited(u) - (IF u = lender THEN offerDeposits[o] ELSE 0)
                 /\ offerDeposits[o] \in Nat
      BY <1>0, <3>1, SettledOffer
    <3>4. PICK n \in Nat : n = offerDeposits[o]
      BY <3>3
    <3>5. /\ balance'["MARKETPLACE"] = balance["MARKETPLACE"] - n
          /\ balance'["VAULT"] = balance["VAULT"]
          /\ \A u \in Users : balance'[u] = balance[u] + (IF u = lender THEN n ELSE 0)
      BY <3>2, <3>4, RefundMoney
    <3>6. ASSUME NEW u \in Users
          PROVE  balance'[u] = InitialWallet - Deposited(u)' + Gained(u)'
      <4>1. Deposited(u) \in Int /\ Gained(u) \in Int
        BY DepositTypes, GainedTypes
      <4> QED
        BY <1>0, <2>0, <3>3, <3>4, <3>5, <4>1
    <3>7. balance'["MARKETPLACE"] = Deposits'
      BY <1>0, <3>3, <3>4, <3>5
    <3> QED
      BY <1>0, <2>0, <3>5, <3>6, <3>7 DEF Solvent
  <2>4. ASSUME NEW b, NEW r, \/ \E a, apr, d : CreateBorrowRequest(b, a, apr, d)
                             \/ CancelBorrowRequest(b, r)
        PROVE  UNCHANGED <<balance, offers, offerDeposits>>
    BY <2>4 DEF CreateBorrowRequest, CancelBorrowRequest
  <2> QED
    BY <1>2, <2>1, <2>2, <2>3, <2>4, Inputs DEF Trade
<1>3. ASSUME NEW b \in Users, NEW o \in DOMAIN offers, Accept(b, o)
      PROVE  Solvent'
  <2>0. PICK p, c, l : /\ p = offerDeposits[o] /\ c = offers[o].requiredCollateral
                       /\ l = offers[o].lender
    OBVIOUS
  <2>1. /\ balance'["MARKETPLACE"] = balance["MARKETPLACE"] - p
        /\ balance'["VAULT"] = balance["VAULT"] + c
        /\ \A u \in Users : balance'[u] = balance[u] + (IF u = b THEN p - c ELSE 0)
    BY <1>3, <2>0, AcceptMoney
  <2>2. offers[o].status = "PENDING" /\ SetOffer(o, "ACCEPTED")
    BY <1>3, AcceptMarketEffect
  <2>3. ASSUME NEW u
        PROVE  /\ Deposits' = Deposits - p
               /\ Deposited(u)' = Deposited(u) - (IF u = l THEN p ELSE 0)
               /\ Deposited(u) \in Int
    BY <1>0, <2>0, <2>2, SettledOffer
  <2>4. ASSUME NEW u
        PROVE  /\ Secured' = Secured + c
               /\ Gained(u)' = Gained(u) + (IF u = b THEN p - c ELSE 0) - (IF u = l THEN p ELSE 0)
               /\ Gained(u) \in Int /\ p \in Nat /\ c \in Nat
    BY <1>0, <1>3, <2>0, GrantedLoan
  <2>5. ASSUME NEW u \in Users
        PROVE  balance'[u] = InitialWallet - Deposited(u)' + Gained(u)'
    BY <1>0, <2>1, <2>3, <2>4
  <2>6. balance'["MARKETPLACE"] = Deposits' /\ balance'["VAULT"] = Secured'
    BY <1>0, <2>1, <2>3, <2>4
  <2> QED
    BY <2>5, <2>6 DEF Solvent
<1>4. ASSUME NEW b \in Users, NEW id \in DOMAIN loans, NEW value \in Nat,
             Repay(b, id, value), RepayInFull(id, value)
      PROVE  Solvent'
  <2>0. PICK owed, c, repaid, x, y :
               /\ owed = TotalOwed(loans[id]) /\ c = loans[id].collateralAmount
               /\ repaid = loans[id].repaidAmount
               /\ x = loans[id].borrower /\ y = loans[id].lender
    OBVIOUS
  <2>1. /\ owed \in Nat /\ loans[id].status = "ACTIVE" /\ Update(id, repaid + owed, "REPAID")
        /\ UNCHANGED <<offers, offerDeposits>> /\ repaid \in Nat
    BY <1>4, <2>0, RepayInFullEffect DEF marketVars, Loan
  <2>2. /\ balance'["MARKETPLACE"] = balance["MARKETPLACE"]
        /\ balance'["VAULT"] = balance["VAULT"] - c
        /\ \A u \in Users : balance'[u] = balance[u] + (IF u = x THEN c - owed ELSE 0)
                                                     + (IF u = y THEN owed ELSE 0)
    BY <1>4, <2>0, RepayInFullMoney
  <2>3. Deposits' = Deposits /\ \A u : Deposited(u)' = Deposited(u)
    BY <2>1, SameOffers
  <2>4. ASSUME NEW u
        PROVE  /\ Secured' = Secured - c
               /\ Gained(u)' = Gained(u) + (IF u = x THEN c - owed ELSE 0)
                                         + (IF u = y THEN owed ELSE 0)
               /\ Gained(u) \in Int /\ c \in Nat
    <3>1. repaid + owed \in Int /\ (repaid + owed) - repaid = owed
      BY <2>1
    <3>2. PICK m \in Int : m = repaid + owed
      BY <3>1
    <3>3. /\ Secured' = Secured - c
          /\ Gained(u)' = Gained(u) + (IF u = x THEN c - (m - repaid) ELSE 0)
                                    + (IF u = y THEN 0 + (m - repaid) ELSE 0)
          /\ Secured \in Int /\ Gained(u) \in Int /\ c \in Nat
      <4>1. Update(id, m, "REPAID")
        BY <2>1, <3>2
      <4> QED
        BY <1>0, <2>0, <2>1, <4>1, ChangedLoan
    <3> QED
      BY <2>1, <3>1, <3>2, <3>3
  <2>5. ASSUME NEW u \in Users
        PROVE  balance'[u] = InitialWallet - Deposited(u)' + Gained(u)'
    <3>1. Deposited(u) \in Int
      BY DepositTypes
    <3> QED
      BY <1>0, <2>1, <2>2, <2>3, <2>4, <3>1
  <2>6. balance'["MARKETPLACE"] = Deposits' /\ balance'["VAULT"] = Secured'
    BY <1>0, <2>2, <2>3, <2>4
  <2> QED
    BY <2>5, <2>6 DEF Solvent
<1>5. ASSUME NEW b \in Users, NEW id \in DOMAIN loans, NEW value \in Nat,
             Repay(b, id, value), RepayInPart(id, value)
      PROVE  Solvent'
  <2>0. PICK c, repaid, x, y :
               /\ c = loans[id].collateralAmount /\ repaid = loans[id].repaidAmount
               /\ x = loans[id].borrower /\ y = loans[id].lender
    OBVIOUS
  <2>1. /\ loans[id].status = "ACTIVE" /\ Update(id, repaid + value, "ACTIVE")
        /\ UNCHANGED <<offers, offerDeposits>> /\ repaid \in Nat
    BY <1>5, <2>0, RepayInPartEffect DEF marketVars, Loan
  <2>2. /\ balance'["MARKETPLACE"] = balance["MARKETPLACE"]
        /\ balance'["VAULT"] = balance["VAULT"]
        /\ \A u \in Users : balance'[u] = balance[u] - (IF u = x THEN value ELSE 0)
                                                     + (IF u = y THEN value ELSE 0)
    BY <1>5, <2>0, RepayInPartMoney
  <2>3. Deposits' = Deposits /\ \A u : Deposited(u)' = Deposited(u)
    BY <2>1, SameOffers
  <2>4. ASSUME NEW u
        PROVE  /\ Secured' = Secured
               /\ Gained(u)' = Gained(u) - (IF u = x THEN value ELSE 0)
                                         + (IF u = y THEN value ELSE 0)
               /\ Gained(u) \in Int
    <3>1. repaid + value \in Int /\ (repaid + value) - repaid = value
      BY <2>1
    <3>2. PICK m \in Int : m = repaid + value
      BY <3>1
    <3>3. /\ Secured' = Secured - 0
          /\ Gained(u)' = Gained(u) + (IF u = x THEN 0 - (m - repaid) ELSE 0)
                                    + (IF u = y THEN 0 + (m - repaid) ELSE 0)
          /\ Secured \in Int /\ Gained(u) \in Int
      <4>1. Update(id, m, "ACTIVE")
        BY <2>1, <3>2
      <4> QED
        BY <1>0, <2>0, <2>1, <4>1, ChangedLoan
    <3> QED
      BY <2>1, <3>1, <3>2, <3>3
  <2>5. ASSUME NEW u \in Users
        PROVE  balance'[u] = InitialWallet - Deposited(u)' + Gained(u)'
    <3>1. Deposited(u) \in Int
      BY DepositTypes
    <3> QED
      BY <1>0, <2>2, <2>3, <2>4, <3>1
  <2>6. balance'["MARKETPLACE"] = Deposits' /\ balance'["VAULT"] = Secured'
    BY <1>0, <2>2, <2>3, <2>4
  <2> QED
    BY <2>5, <2>6 DEF Solvent
<1>6. ASSUME NEW id \in DOMAIN loans, Default(id)
      PROVE  Solvent'
  <2>0. PICK c, repaid, y :
               /\ c = loans[id].collateralAmount /\ repaid = loans[id].repaidAmount
               /\ y = loans[id].lender
    OBVIOUS
  <2>1. /\ loans[id].status = "ACTIVE" /\ Update(id, repaid, "DEFAULTED")
        /\ UNCHANGED <<offers, offerDeposits>> /\ repaid \in Nat
    BY <1>6, <2>0, DefaultEffect DEF marketVars, Loan
  <2>2. /\ balance'["MARKETPLACE"] = balance["MARKETPLACE"]
        /\ balance'["VAULT"] = balance["VAULT"] - c
        /\ \A u \in Users : balance'[u] = balance[u] + (IF u = y THEN c ELSE 0)
    BY <1>6, <2>0, DefaultMoney
  <2>3. Deposits' = Deposits /\ \A u : Deposited(u)' = Deposited(u)
    BY <2>1, SameOffers
  <2>4. ASSUME NEW u
        PROVE  /\ Secured' = Secured - c
               /\ Gained(u)' = Gained(u) + (IF u = y THEN c ELSE 0)
               /\ Gained(u) \in Int /\ c \in Nat
    <3>1. /\ Secured' = Secured - c
          /\ Gained(u)' = Gained(u)
               + (IF u = loans[id].borrower THEN 0 - (repaid - repaid) ELSE 0)
               + (IF u = y THEN c + (repaid - repaid) ELSE 0)
          /\ Secured \in Int /\ Gained(u) \in Int /\ c \in Nat
      BY <1>0, <2>0, <2>1, ChangedLoan
    <3> QED
      BY <2>1, <3>1
  <2>5. ASSUME NEW u \in Users
        PROVE  balance'[u] = InitialWallet - Deposited(u)' + Gained(u)'
    <3>1. Deposited(u) \in Int
      BY DepositTypes
    <3> QED
      BY <1>0, <2>2, <2>3, <2>4, <3>1
  <2>6. balance'["MARKETPLACE"] = Deposits' /\ balance'["VAULT"] = Secured'
    BY <1>0, <2>2, <2>3, <2>4
  <2> QED
    BY <2>5, <2>6 DEF Solvent
<1> QED
  BY <1>1, <1>2, <1>3, <1>4, <1>5, <1>6, StepKinds

\* The marketplace can always return every pending deposit and the vault every
\* active loan's collateral, and neither keeps a remainder.
THEOREM EscrowIsCovered == Spec => []EscrowCovered
BY SolventIs, SolventInit, SolventNext, TypeCorrect, PTL DEF Spec

\* Nobody's money goes astray: every balance follows from the books.
THEOREM WalletsAreBooked == Spec => []WalletsMatchBooks
BY SolventIs, SolventInit, SolventNext, TypeCorrect, PTL DEF Spec
-----------------------------------------------------------------------------
(* The guards behind ExitsStayOpen, whose ENABLED the provers cannot       *)
(* expand: a step is a guard and an assignment to every variable, and the  *)
(* guard holds whenever the property says that the step is possible.       *)

CanDefault(id) ==
  LET loan == loans[id]
  IN  /\ loan.status = "ACTIVE" /\ PastGrace(loan)
      /\ loan.principal # 0 /\ loan.principal <= usedCapacity[loan.borrower]
      /\ CanTransfer(balance, "VAULT", loan.lender, loan.collateralAmount)
      /\ id \notin DOMAIN records

CanRepay(id) ==
  LET loan     == loans[id]
      owed     == TotalOwed(loan)
      received == Transfer(balance, loan.borrower, "VAULT", owed)
      returned == Transfer(received, "VAULT", loan.borrower, loan.collateralAmount)
  IN  /\ loan.status = "ACTIVE" /\ owed # 0 /\ owed <= balance[loan.borrower]
      /\ loan.principal # 0 /\ loan.principal <= usedCapacity[loan.borrower]
      /\ CanTransfer(received, "VAULT", loan.borrower, loan.collateralAmount)
      /\ CanTransfer(returned, "VAULT", loan.lender, owed)
      /\ id \notin DOMAIN records

\* What loan id's end writes into the history.
Recorded(id, amount, outcome) ==
  /\ records' = [i \in DOMAIN records \cup {id} |->
       IF i = id
       THEN [borrower |-> loans[id].borrower, amount |-> amount,
             timestamp |-> now, outcome |-> outcome]
       ELSE records[i]]
  /\ borrowerRepayments' =
       [borrowerRepayments EXCEPT ![loans[id].borrower] = Append(@, id)]

LEMMA DefaultIsGuarded ==
  ASSUME NEW id, CanDefault(id),
         loans' = [loans EXCEPT ![id].status = "DEFAULTED"],
         usedCapacity' = [usedCapacity EXCEPT ![loans[id].borrower] = @ - loans[id].principal],
         defaultedLockedCapacity' =
           [defaultedLockedCapacity EXCEPT ![loans[id].borrower] = @ + loans[id].principal],
         balance' = Transfer(balance, "VAULT", loans[id].lender, loans[id].collateralAmount),
         Recorded(id, 0, "DEFAULT"),
         UNCHANGED <<now, registryVars, marketVars>>
  PROVE  Default(id)
BY DEF CanDefault, Recorded, Default, DeclareDefault, LockDefaultedCapacity, RecordRepayment

LEMMA RepayIsGuarded ==
  ASSUME TypeOK, NEW id \in DOMAIN loans, CanRepay(id),
         LET loan     == loans[id]
             owed     == TotalOwed(loan)
             received == Transfer(balance, loan.borrower, "VAULT", owed)
             returned == Transfer(received, "VAULT", loan.borrower, loan.collateralAmount)
             paid     == Transfer(returned, "VAULT", loan.lender, owed)
         IN  /\ loans' = [loans EXCEPT ![id].repaidAmount = @ + owed,
                                       ![id].status = "REPAID"]
             /\ usedCapacity' = [usedCapacity EXCEPT ![loan.borrower] = @ - loan.principal]
             /\ balance' = Transfer(paid, "VAULT", loan.borrower, 0)
             /\ Recorded(id, owed, IF now <= DueTime(loan) THEN "ON_TIME" ELSE "LATE")
             /\ UNCHANGED <<now, registryVars, defaultedLockedCapacity, marketVars>>
  PROVE  Repay(loans[id].borrower, id, TotalOwed(loans[id]))
<1> DEFINE owed == TotalOwed(loans[id])
<1>1. owed \in Nat /\ owed - owed = 0 /\ ~(owed - owed > 0) /\ owed >= owed
  <2>1. loans[id] \in Loan /\ now \in Nat
    BY SeqItem DEF TypeOK, VaultTypeOK, ChainTypeOK
  <2>2. owed \in Nat
    BY <2>1, OwedType
  <2> HIDE DEF owed
  <2> QED
    BY <2>2
<1>2. RepayInFull(id, owed)
  BY <1>1 DEF CanRepay, Recorded, RepayInFull, ReleaseCapacity, RecordRepayment
<1> QED
  BY <1>2 DEF Repay, RepayLoan, CanRepay

\* Every loan is of something, and was paid out to its borrower, who therefore
\* accepts payments.
LoansPaidOut ==
  \A id \in DOMAIN loans : loans[id].principal # 0 /\ loans[id].borrower \notin Rejecting

LEMMA PaidOutInit == Init => LoansPaidOut
<1> SUFFICES ASSUME Init PROVE LoansPaidOut
  OBVIOUS
<1>1. DOMAIN loans = {}
  BY DEF Init, VaultInit
<1> QED
  BY <1>1 DEF LoansPaidOut

LEMMA PaidOutNext == TypeOK /\ LoansPaidOut /\ [Next]_vars => LoansPaidOut'
<1> SUFFICES ASSUME TypeOK, LoansPaidOut, [Next]_vars PROVE LoansPaidOut'
  OBVIOUS
<1>1. ASSUME NEW b \in Users, NEW o \in DOMAIN offers, Accept(b, o) PROVE LoansPaidOut'
  <2>1. /\ DOMAIN loans' = 1 .. Len(loans) + 1 /\ DOMAIN loans = 1 .. Len(loans)
        /\ Len(loans) \in Nat /\ \A i \in DOMAIN loans : loans'[i] = loans[i]
        /\ loans'[Len(loans) + 1] = NewLoan(b, o) /\ offerDeposits[o] # 0
    BY <1>1, AcceptEffect
  <2>2. b \notin Rejecting
    BY <1>1 DEF Accept, AcceptOffer, OriginateLoan, CanTransfer
  <2> QED
    BY <2>1, <2>2 DEF LoansPaidOut, NewLoan
<1>2. ASSUME NEW id \in DOMAIN loans, NEW repaid, NEW status, Update(id, repaid, status)
      PROVE  LoansPaidOut'
  BY <1>2 DEF LoansPaidOut, Update, SameTerms
<1>3. CASE UNCHANGED loans
  BY <1>3 DEF LoansPaidOut
<1> QED
  BY <1>1, <1>2, <1>3, StepKinds, QuietSteps, RepayInFullEffect, RepayInPartEffect,
     DefaultEffect

\* One loan's part of a sum is no more than the sum.
LEMMA BackedLoans ==
  ASSUME TypeOK, Solvent, Counts, NEW id \in LoansOf("ACTIVE")
  PROVE  /\ loans[id].principal <= usedCapacity[loans[id].borrower]
         /\ loans[id].collateralAmount <= balance["VAULT"]
<1> DEFINE b == loans[id].borrower
           S == Borrowed(b) \cap LoansOf("ACTIVE")
           T == LoansOf("ACTIVE")
<1>1. /\ loans \in Seq(Loan) /\ S \subseteq DOMAIN loans /\ T \subseteq DOMAIN loans
      /\ id \in S /\ id \in T /\ id \in DOMAIN loans
  BY DEF TypeOK, VaultTypeOK, Borrowed, LoansOf
<1>2. b \in Users
  <2>1. loans[id] \in Loan
    BY <1>1, SeqItem
  <2> QED
    BY <2>1 DEF Loan
<1> HIDE DEF b, S, T
<1>3. /\ IsFiniteSet(S) /\ IsFiniteSet(T)
      /\ \A y \in S : Principals[y] \in Nat
      /\ \A y \in T : Collateral[y] \in Nat
  <2>1. /\ IsFiniteSet(S) /\ \A y \in S : loans[y].principal \in Nat
        /\ IsFiniteSet(T) /\ \A y \in T : loans[y].collateralAmount \in Nat
    BY <1>1, LoanNumbers
  <2> QED
    BY <1>1, <2>1 DEF Principals, Collateral
<1>4. Principals[id] <= Sum(Principals, S) /\ Collateral[id] <= Sum(Collateral, T)
  BY <1>1, <1>3, SumCovers DEF Sum
<1>5. usedCapacity[b] = Sum(Principals, S) /\ balance["VAULT"] = Sum(Collateral, T)
  BY <1>2 DEF Counts, Drawn, Solvent, Secured, S, T
<1> QED
  BY <1>1, <1>4, <1>5 DEF Principals, Collateral, b

LEMMA BackedOffers ==
  ASSUME TypeOK, Solvent, NEW o \in OffersAt("PENDING")
  PROVE  offerDeposits[o] <= balance["MARKETPLACE"]
<1> DEFINE P == OffersAt("PENDING")
<1>1. offerDeposits \in Seq(Nat) /\ P \subseteq DOMAIN offerDeposits /\ o \in P
  BY MarketTypes DEF OffersAt
<1> HIDE DEF P
<1>2. IsFiniteSet(P) /\ \A y \in P : offerDeposits[y] \in Nat
  <2>1. \A y \in DOMAIN offerDeposits : offerDeposits[y] \in Nat
    BY <1>1, SeqItem
  <2> QED
    BY <1>1, <2>1, FinitePositions
<1>3. offerDeposits[o] <= Sum(offerDeposits, P)
  BY <1>1, <1>2, SumCovers DEF Sum
<1> QED
  BY <1>3 DEF Solvent, Deposits, P

ExitsNeverRefused ==
  /\ \A id \in LoansOf("ACTIVE") :
       LET loan == loans[id] IN
       /\ PastGrace(loan) /\ loan.lender \notin Rejecting => CanDefault(id)
       /\ balance[loan.borrower] >= TotalOwed(loan) /\ loan.lender \notin Rejecting
            => CanRepay(id)
  /\ \A o \in OffersAt("PENDING") :
       offers[o].lender \notin Rejecting =>
         CanTransfer(balance, "MARKETPLACE", offers[o].lender, offerDeposits[o])

LEMMA NeverRefused ==
  /\ TypeOK /\ Solvent /\ Counts /\ LoansPaidOut /\ HistoryMatchesLoans /\ ActiveLoansOwe
  => ExitsNeverRefused
<1> SUFFICES ASSUME TypeOK, Solvent, Counts, LoansPaidOut, HistoryMatchesLoans,
                    ActiveLoansOwe
             PROVE  ExitsNeverRefused
  OBVIOUS
<1>1. ASSUME NEW id \in LoansOf("ACTIVE")
      PROVE  LET loan == loans[id] IN
             /\ PastGrace(loan) /\ loan.lender \notin Rejecting => CanDefault(id)
             /\ balance[loan.borrower] >= TotalOwed(loan) /\ loan.lender \notin Rejecting
                  => CanRepay(id)
  <2> DEFINE loan == loans[id]
             b == loan.borrower
             c == loan.collateralAmount
             owed == TotalOwed(loan)
             received == Transfer(balance, b, "VAULT", owed)
             returned == Transfer(received, "VAULT", b, c)
  <2>1. id \in DOMAIN loans /\ loan.status = "ACTIVE" /\ loan \in Loan /\ now \in Nat
    BY SeqItem DEF LoansOf, TypeOK, VaultTypeOK, ChainTypeOK
  <2>2. /\ loan.principal # 0 /\ loan.principal <= usedCapacity[b] /\ b \notin Rejecting
        /\ c <= balance["VAULT"] /\ id \notin DOMAIN records /\ owed > 0
    BY <2>1, BackedLoans DEF LoansPaidOut, HistoryMatchesLoans, ActiveLoansOwe
  <2>3. /\ b \in Account /\ "VAULT" \in Account /\ b # "VAULT" /\ "VAULT" # b
        /\ balance \in [Account -> Int] /\ balance["VAULT"] \in Int /\ balance[b] \in Int
        /\ c \in Int /\ c \in Nat /\ owed \in Int
    <3>1. b \in Users /\ c \in Nat
      BY <2>1 DEF Loan
    <3>2. owed \in Nat
      BY <2>1, OwedType
    <3> QED
      BY <3>1, <3>2, AccountFacts
  <2>4. received \in [Account -> Int] /\ received["VAULT"] = balance["VAULT"] + owed
    <3>1. received \in [Account -> Int]
      BY <2>3, MovedType
    <3>2. \A a \in Account : received[a] = IF a = b THEN balance[a] - owed
                                         ELSE IF a = "VAULT" THEN balance[a] + owed
                                         ELSE balance[a]
      BY <2>3, Moved
    <3> QED
      BY <2>3, <3>1, <3>2
  <2> HIDE DEF received
  <2>5. returned["VAULT"] = received["VAULT"] - c
    <3>1. \A a \in Account : returned[a] = IF a = "VAULT" THEN received[a] - c
                                         ELSE IF a = b THEN received[a] + c
                                         ELSE received[a]
      BY <2>3, <2>4, Moved
    <3> QED
      BY <2>3, <3>1
  <2> HIDE DEF returned, owed, c
  <2>6. c <= received["VAULT"] /\ owed <= returned["VAULT"] /\ owed # 0
    BY <2>2, <2>3, <2>4, <2>5
  <2>7. PastGrace(loan) /\ loan.lender \notin Rejecting => CanDefault(id)
    BY <2>1, <2>2 DEF CanDefault, CanTransfer, c
  <2>8. ASSUME balance[b] >= owed, loan.lender \notin Rejecting PROVE CanRepay(id)
    <3>1. owed <= balance[b]
      BY <2>3, <2>8
    <3> QED
      BY <2>1, <2>2, <2>6, <2>8, <3>1
      DEF CanRepay, CanTransfer, c, owed, received, returned
  <2> QED
    BY <2>7, <2>8 DEF owed
<1>2. ASSUME NEW o \in OffersAt("PENDING"), offers[o].lender \notin Rejecting
      PROVE  CanTransfer(balance, "MARKETPLACE", offers[o].lender, offerDeposits[o])
  BY <1>2, BackedOffers DEF CanTransfer
<1> QED
  BY <1>1, <1>2 DEF ExitsNeverRefused

\* No guard of the transactions that end a loan or take an offer back ever
\* fails for bookkeeping or money: with the two lemmas above this is
\* ExitsStayOpen but for the meaning of ENABLED.
THEOREM ExitsAreNeverRefused == Spec => []ExitsNeverRefused
BY NeverRefused, SolventInit, SolventNext, CountsInit, CountsNext, PaidOutInit, PaidOutNext,
   HistoryIsTrue, ActiveLoansStillOwe, TypeCorrect, PTL DEF Spec
=============================================================================
