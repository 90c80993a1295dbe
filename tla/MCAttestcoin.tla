---------------------------- MODULE MCAttestcoin ----------------------------
(***************************************************************************)
(* Instances of AttestcoinService for TLC: two source transactions of one  *)
(* block and one of another, so that a block does not tell them apart.     *)
(***************************************************************************)
EXTENDS AttestcoinService, TLC

CallSymmetry == Permutations(Calls)

Claim(tx, b, type) == [sourceTx |-> tx, borrower |-> b, eventType |-> type]

\* Claims that differ in the transaction alone, and in all there is.
MCClaims ==
  {Claim("t1", "b1", "INFLOW"), Claim("t2", "b1", "INFLOW"),
   Claim("t1", "b2", "INFLOW"), Claim("t3", "b1", "REPAYMENT")}

MCSourceBlock == [t \in SourceTxs |-> IF t = "t3" THEN 2 ELSE 1]
=============================================================================
