------------------------------- MODULE Chain -------------------------------
(***************************************************************************)
(* What the contracts use of the chain they run on: a clock, which never   *)
(* moves back, and the native currency. A transaction runs alone and       *)
(* either takes full effect or none, so each is one step; every transfer   *)
(* in it must succeed, since the contracts revert when one does not.       *)
(***************************************************************************)
EXTENDS Integers

CONSTANTS
  Users,      \* accounts other than the protocol's contracts
  Rejecting,  \* those that are contracts refusing to be paid
  Contracts   \* the protocol's contracts that hold money

ASSUME Accounts ==
  /\ Rejecting \subseteq Users
  /\ Users \cap Contracts = {}

VARIABLES
  now,     \* block.timestamp
  balance  \* account -> its native currency

ChainTypeOK ==
  /\ now \in Nat
  /\ balance \in [Users \cup Contracts -> Nat]

Tick == now' = now + 1

\* The balances bal after a payment, and whether the payment succeeds: the
\* payer has the amount and the payee accepts it. A payment of zero is still
\* a call, which a rejecting payee still fails.
Transfer(bal, from, to, amount) ==
  [bal EXCEPT ![from] = @ - amount, ![to] = @ + amount]

CanTransfer(bal, from, to, amount) ==
  amount <= bal[from] /\ to \notin Rejecting
=============================================================================
