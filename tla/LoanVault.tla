----------------------------- MODULE LoanVault -----------------------------
(***************************************************************************)
(* contracts/core/LoanVault.sol: the loans, the collateral behind them and *)
(* how they end. Loan ids count from 1, so the mapping is a sequence and   *)
(* nextLoanId its length plus one. originateLoan is only ever called by    *)
(* the marketplace's acceptOffer, in its transaction.                      *)
(***************************************************************************)
EXTENDS CapacityManager, RepaymentRegistry

VARIABLE loans

LoanStatus == {"ACTIVE", "REPAID", "DEFAULTED"}

Loan ==
  [borrower : Users, lender : Users, principal : Nat, aprBps : Nat,
   startTime : Nat, duration : Nat, collateralAmount : Nat,
   repaidAmount : Nat, status : LoanStatus]

VaultTypeOK == loans \in Seq(Loan)

VaultInit == loans = <<>>

LoansOf(status) == {id \in DOMAIN loans : loans[id].status = status}
-----------------------------------------------------------------------------
\* Interest accrues on the full principal, whatever was already repaid, and
\* is rounded down.
InterestAt(loan, time) ==
  (loan.principal * loan.aprBps * (time - loan.startTime)) \div (BPS_DENOMINATOR * YEAR)

GrossOwed(loan) == loan.principal + InterestAt(loan, now)

\* Faulty variant: interest is left out.
OwedWithoutInterest(loan) ==
  IF loan.repaidAmount >= loan.principal THEN 0 ELSE loan.principal - loan.repaidAmount

TotalOwed(loan) ==
  IF loan.repaidAmount >= GrossOwed(loan) THEN 0 ELSE GrossOwed(loan) - loan.repaidAmount

DueTime(loan) == loan.startTime + loan.duration

\* Faulty variant: the grace period is counted twice.
PastGraceTwice(loan) == now > DueTime(loan) + 2 * DEFAULT_GRACE_PERIOD

PastGrace(loan) == now > DueTime(loan) + DEFAULT_GRACE_PERIOD
-----------------------------------------------------------------------------
\* bal: the balances once the marketplace has passed on value, which must be
\* the principal and the collateral.
OriginateLoan(bal, value, b, lender, principal, apr, duration, collateral) ==
  /\ principal # 0
  /\ duration # 0 /\ duration <= MAX_LOAN_DURATION
  /\ apr <= MAX_APR_BPS
  /\ value = principal + collateral
  /\ ReserveCapacity(b, principal)
  /\ loans' = Append(loans,
       [borrower |-> b, lender |-> lender, principal |-> principal,
        aprBps |-> apr, startTime |-> now, duration |-> duration,
        collateralAmount |-> collateral, repaidAmount |-> 0,
        status |-> "ACTIVE"])
  /\ CanTransfer(bal, "VAULT", b, principal)
  /\ balance' = Transfer(bal, "VAULT", b, principal)

\* A payment of at least what is owed ends the loan: collateral and excess go
\* back to the borrower, the debt to the lender, the outcome into the history.
RepayInFull(id, value) ==
  LET loan     == loans[id]
      owed     == TotalOwed(loan)
      excess   == value - owed
      received == Transfer(balance, loan.borrower, "VAULT", value)
      returned == Transfer(received, "VAULT", loan.borrower, loan.collateralAmount)
      paid     == Transfer(returned, "VAULT", loan.lender, owed)
  IN  /\ value <= balance[loan.borrower] /\ value >= owed
      /\ loans' = [loans EXCEPT ![id].repaidAmount = @ + owed,
                                ![id].status = "REPAID"]
      /\ ReleaseCapacity(loan.borrower, loan.principal)
      /\ CanTransfer(received, "VAULT", loan.borrower, loan.collateralAmount)
      /\ CanTransfer(returned, "VAULT", loan.lender, owed)
      /\ excess > 0 => CanTransfer(paid, "VAULT", loan.borrower, excess)
      /\ balance' = Transfer(paid, "VAULT", loan.borrower, excess)
      /\ RecordRepayment(id, loan.borrower, owed,
           IF now <= DueTime(loan) THEN "ON_TIME" ELSE "LATE")

\* Faulty variants: a payment of all that is owed counts as a partial one; the
\* payment is not credited to the loan.
RepayAllInPart(id, value) ==
  LET loan     == loans[id]
      received == Transfer(balance, loan.borrower, "VAULT", value)
  IN  /\ value <= balance[loan.borrower] /\ value <= TotalOwed(loan)
      /\ loans' = [loans EXCEPT ![id].repaidAmount = @ + value]
      /\ CanTransfer(received, "VAULT", loan.lender, value)
      /\ balance' = Transfer(received, "VAULT", loan.lender, value)
      /\ UNCHANGED <<capacityVars, repaymentVars>>

RepayUncredited(id, value) ==
  LET loan     == loans[id]
      received == Transfer(balance, loan.borrower, "VAULT", value)
  IN  /\ value <= balance[loan.borrower] /\ value < TotalOwed(loan)
      /\ CanTransfer(received, "VAULT", loan.lender, value)
      /\ balance' = Transfer(received, "VAULT", loan.lender, value)
      /\ UNCHANGED <<capacityVars, repaymentVars, loans>>

\* A payment of less than is owed goes straight to the lender.
RepayInPart(id, value) ==
  LET loan     == loans[id]
      received == Transfer(balance, loan.borrower, "VAULT", value)
  IN  /\ value <= balance[loan.borrower] /\ value < TotalOwed(loan)
      /\ loans' = [loans EXCEPT ![id].repaidAmount = @ + value]
      /\ CanTransfer(received, "VAULT", loan.lender, value)
      /\ balance' = Transfer(received, "VAULT", loan.lender, value)
      /\ UNCHANGED <<capacityVars, repaymentVars>>

RepayLoan(caller, id, value) ==
  /\ loans[id].borrower = caller
  /\ loans[id].status = "ACTIVE"
  /\ value # 0
  /\ RepayInFull(id, value) \/ RepayInPart(id, value)

\* Faulty variant: the collateral is not seized.
DefaultWithoutSeizure(id) ==
  LET loan == loans[id]
  IN  /\ loan.status = "ACTIVE" /\ PastGrace(loan)
      /\ loans' = [loans EXCEPT ![id].status = "DEFAULTED"]
      /\ LockDefaultedCapacity(loan.borrower, loan.principal)
      /\ RecordRepayment(id, loan.borrower, 0, "DEFAULT")
      /\ UNCHANGED balance

\* Anyone may declare the default; the collateral goes to the lender.
DeclareDefault(id) ==
  LET loan == loans[id]
  IN  /\ loan.status = "ACTIVE"
      /\ PastGrace(loan)
      /\ loans' = [loans EXCEPT ![id].status = "DEFAULTED"]
      /\ LockDefaultedCapacity(loan.borrower, loan.principal)
      /\ CanTransfer(balance, "VAULT", loan.lender, loan.collateralAmount)
      /\ balance' = Transfer(balance, "VAULT", loan.lender, loan.collateralAmount)
      /\ RecordRepayment(id, loan.borrower, 0, "DEFAULT")
=============================================================================
