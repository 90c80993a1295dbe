---------------------------- MODULE AuctionHouse ----------------------------
(***************************************************************************)
(* What the auction contract promises, said without a clock, a mapping, an *)
(* escrow account or a settlement that fails: a house sells lots, one at a *)
(* time for each debt. While a lot is open its price never falls and       *)
(* starts no lower than the reserve; whoever leads has paid the price, and *)
(* has it back the moment somebody else does. Once closed, a lot is sold   *)
(* to the leader, whose money the seller gets, or goes unsold.             *)
(***************************************************************************)
EXTENDS Integers, Sequences

CONSTANTS Parties, NoOne, Debts, Reserves, Amounts, InitialFunds

VARIABLES
  lots,  \* in the order they were offered
  funds  \* what each party has in hand

houseVars == <<lots, funds>>

Init == lots = <<>> /\ funds = [p \in Parties |-> InitialFunds]

InPhase(phases) == {id \in DOMAIN lots : lots[id].phase \in phases}

Offer(debt, seller, reserve) ==
  /\ \A id \in InPhase({"OPEN", "CLOSED"}) : lots[id].debt # debt
  /\ lots' = Append(lots, [debt |-> debt, seller |-> seller, reserve |-> reserve,
                           price |-> 0, leader |-> NoOne, phase |-> "OPEN"])
  /\ UNCHANGED funds

\* The new leader must have the amount before the old one's - perhaps its own -
\* is returned.
Bid(bidder, id, amount) ==
  LET lot == lots[id] IN
  /\ lot.phase = "OPEN"
  /\ amount >= lot.reserve /\ amount >= lot.price /\ amount <= funds[bidder]
  /\ lots' = [lots EXCEPT ![id].price = amount, ![id].leader = bidder]
  /\ funds' = [p \in Parties |->
       funds[p] - (IF p = bidder THEN amount ELSE 0)
                + (IF p = lot.leader THEN lot.price ELSE 0)]

\* Any number of lots may close at the same moment, and none opens again.
Close(ids) ==
  /\ lots' = [id \in DOMAIN lots |->
                IF id \in ids THEN [lots[id] EXCEPT !.phase = "CLOSED"] ELSE lots[id]]
  /\ UNCHANGED funds

Sell(id) ==
  LET lot == lots[id] IN
  /\ lot.phase = "CLOSED" /\ lot.leader # NoOne /\ lot.price >= lot.reserve
  /\ lots' = [lots EXCEPT ![id].phase = "SOLD"]
  /\ funds' = [funds EXCEPT ![lot.seller] = @ + lot.price]

PassIn(id) ==
  /\ lots[id].phase = "CLOSED" /\ lots[id].leader = NoOne
  /\ lots' = [lots EXCEPT ![id].phase = "UNSOLD"]
  /\ UNCHANGED funds

Next ==
  \/ \E debt \in Debts, seller \in Parties, reserve \in Reserves :
       Offer(debt, seller, reserve)
  \/ \E bidder \in Parties, id \in DOMAIN lots, amount \in Amounts : Bid(bidder, id, amount)
  \/ \E ids \in SUBSET InPhase({"OPEN"}) : Close(ids)
  \/ \E id \in DOMAIN lots : Sell(id) \/ PassIn(id)

Spec == Init /\ [][Next]_houseVars
=============================================================================
