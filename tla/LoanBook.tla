------------------------------ MODULE LoanBook ------------------------------
(***************************************************************************)
(* What the lending contracts promise together, said without capacity      *)
(* counters, escrow, requests or offers: a book of loans in which every    *)
(* loan is opened once, by two different parties, ends at most once, with  *)
(* one outcome that is never rewritten, and in which what a borrower has   *)
(* open plus what it has defaulted on never passes the limit.              *)
(***************************************************************************)
EXTENDS Integers, Sequences

CONSTANTS Parties, Limit

VARIABLES
  book,     \* loans in the order they were opened
  exposure  \* borrower -> principal it has open or has defaulted on

bookVars == <<book, exposure>>

Init == book = <<>> /\ exposure = [p \in Parties |-> 0]

Open(b, l, principal) ==
  /\ b # l
  /\ principal > 0 /\ exposure[b] + principal <= Limit
  /\ book' = Append(book, [borrower |-> b, lender |-> l,
                           principal |-> principal, phase |-> "OPEN"])
  /\ exposure' = [exposure EXCEPT ![b] = @ + principal]

\* A repaid loan frees its principal, a defaulted one never does.
Repay(id, outcome) ==
  /\ book[id].phase = "OPEN"
  /\ book' = [book EXCEPT ![id].phase = outcome]
  /\ exposure' = [exposure EXCEPT ![book[id].borrower] = @ - book[id].principal]

Default(id) ==
  /\ book[id].phase = "OPEN"
  /\ book' = [book EXCEPT ![id].phase = "DEFAULT"]
  /\ UNCHANGED exposure

Next ==
  \/ \E b, l \in Parties, principal \in 1 .. Limit : Open(b, l, principal)
  \/ \E id \in DOMAIN book :
       \/ \E outcome \in {"ON_TIME", "LATE"} : Repay(id, outcome)
       \/ Default(id)

Spec == Init /\ [][Next]_bookVars
=============================================================================
