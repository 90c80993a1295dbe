-------------------------- MODULE CapacityManager --------------------------
(***************************************************************************)
(* contracts/core/CapacityManager.sol: how much of a borrower's credit is  *)
(* drawn by active loans and how much is locked for good by defaulted      *)
(* ones. Only the vault and the marketplace are authorized callers         *)
(* (ignition/modules/PrivateCredit.ts), and only the vault makes calls     *)
(* that change state: the operators below are steps of its transactions.   *)
(***************************************************************************)
EXTENDS EligibilityRegistry

VARIABLES usedCapacity, defaultedLockedCapacity

capacityVars == <<usedCapacity, defaultedLockedCapacity>>

CapacityTypeOK ==
  /\ usedCapacity \in [Users -> Nat]
  /\ defaultedLockedCapacity \in [Users -> Nat]

CapacityInit ==
  /\ usedCapacity = [b \in Users |-> 0]
  /\ defaultedLockedCapacity = [b \in Users |-> 0]

\* Everything that counts against a borrower's credit.
TotalConsumedCapacity(b) == usedCapacity[b] + defaultedLockedCapacity[b]

\* Faulty variant: capacity locked by a default is offered again.
AvailableIgnoringDefaults(b) ==
  IF IsEligibilityValid(b) /\ usedCapacity[b] < eligibilities[b].maxActiveCredit
  THEN eligibilities[b].maxActiveCredit - usedCapacity[b]
  ELSE 0

\* A borrower whose new terms are below what it has already drawn has none left.
AvailableCapacity(b) ==
  IF /\ IsEligibilityValid(b)
     /\ TotalConsumedCapacity(b) < eligibilities[b].maxActiveCredit
  THEN eligibilities[b].maxActiveCredit - TotalConsumedCapacity(b)
  ELSE 0

CanBorrow(b, amount) == amount > 0 /\ AvailableCapacity(b) >= amount

\* Faulty variant: the terms the request was checked against are not checked
\* again when the loan is drawn.
ReserveUnchecked(b, amount) ==
  /\ amount # 0
  /\ usedCapacity' = [usedCapacity EXCEPT ![b] = @ + amount]
  /\ UNCHANGED defaultedLockedCapacity

ReserveCapacity(b, amount) ==
  /\ amount # 0
  /\ IsEligibilityValid(b)
  /\ amount <= AvailableCapacity(b)
  /\ usedCapacity' = [usedCapacity EXCEPT ![b] = @ + amount]
  /\ UNCHANGED defaultedLockedCapacity

\* Faulty variant: terms that have expired since cannot be released either.
ReleaseIfValid(b, amount) ==
  /\ amount # 0 /\ amount <= usedCapacity[b] /\ IsEligibilityValid(b)
  /\ usedCapacity' = [usedCapacity EXCEPT ![b] = @ - amount]
  /\ UNCHANGED defaultedLockedCapacity

ReleaseCapacity(b, amount) ==
  /\ amount # 0 /\ amount <= usedCapacity[b]
  /\ usedCapacity' = [usedCapacity EXCEPT ![b] = @ - amount]
  /\ UNCHANGED defaultedLockedCapacity

\* Faulty variants: the defaulted principal moves the wrong way, or still counts
\* as used.
LockSwapped(b, amount) ==
  /\ amount # 0 /\ amount <= usedCapacity[b]
  /\ usedCapacity' = [usedCapacity EXCEPT ![b] = @ + amount]
  /\ defaultedLockedCapacity' = [defaultedLockedCapacity EXCEPT ![b] = @ - amount]

LockStillUsed(b, amount) ==
  /\ amount # 0 /\ amount <= usedCapacity[b]
  /\ defaultedLockedCapacity' = [defaultedLockedCapacity EXCEPT ![b] = @ + amount]
  /\ UNCHANGED usedCapacity

LockDefaultedCapacity(b, amount) ==
  /\ amount # 0 /\ amount <= usedCapacity[b]
  /\ usedCapacity' = [usedCapacity EXCEPT ![b] = @ - amount]
  /\ defaultedLockedCapacity' = [defaultedLockedCapacity EXCEPT ![b] = @ + amount]
=============================================================================
