------------------------------ MODULE SaleBook ------------------------------
(***************************************************************************)
(* What the off-chain auctions promise, said without handlers, timers, a   *)
(* file that is written in two steps, or a flush that fails: a book of     *)
(* things for sale and a copy of it. The first who bids has bought. Now    *)
(* and then the whole book is copied; the book may be lost at any time,    *)
(* and is then, entry for entry, what the copy says.                       *)
(***************************************************************************)
CONSTANTS Ids, Bidders

VARIABLES
  book,  \* thing for sale -> who bought it: nobody or one bidder
  copy   \* the book as it was last copied

bookVars == <<book, copy>>

Init == book = [id \in {} |-> {}] /\ copy = book

\* Announcing again what is still for sale changes nothing.
Announce(id) ==
  /\ id \in DOMAIN book => book[id] = {}
  /\ book' = [i \in DOMAIN book \cup {id} |-> IF i = id THEN {} ELSE book[i]]
  /\ UNCHANGED copy

Sell(id, bidder) ==
  /\ book[id] = {}
  /\ book' = [book EXCEPT ![id] = {bidder}]
  /\ UNCHANGED copy

Save == copy' = book /\ UNCHANGED book

Lose == book' = copy /\ UNCHANGED copy

Next ==
  \/ \E id \in Ids : Announce(id)
  \/ \E id \in DOMAIN book, bidder \in Bidders : Sell(id, bidder)
  \/ Save
  \/ Lose

Spec == Init /\ [][Next]_bookVars
=============================================================================
