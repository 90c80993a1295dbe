--------------------------- MODULE MCOnboarding ---------------------------
(***************************************************************************)
(* Instances of Onboarding for TLC: the source chain's transactions, and   *)
(* the commitments registrations are based on.                             *)
(***************************************************************************)
EXTENDS Onboarding

CONSTANTS b1, b2  \* the borrowers

Moves(token, from, to, value) ==
  [token |-> token, from |-> from, to |-> to, value |-> value]
Sent(from, to, transfers) ==
  [from |-> from, to |-> to, succeeded |-> TRUE, transfers |-> transfers]
At(height, tx) ==
  [chainKey |-> "key", blockHeight |-> height, transaction |-> tx]

\* b1 pays b2 with the token itself: b1's repayment or b2's inflow.
Payment == Sent(b1, "USDC", <<Moves("USDC", b1, b2, 1)>>)

\* A batch: nothing to b1 first, then another token to b1, then one to b2.
Batch ==
  Sent(Owner, "batch",
       <<Moves("USDC", Owner, b1, 0), Moves("DAI", Owner, b1, 2), Moves("USDC", Owner, b2, 1)>>)

\* Nobody's evidence: b2's first transfer was not sent by the signer, though the
\* second one was, and b1 did not pay the account it called.
Relayed == Sent(b1, "batch", <<Moves("USDC", b2, b2, 1), Moves("USDC", b1, b2, 2)>>)

Failed == [Payment EXCEPT !.succeeded = FALSE, !.to = "batch"]

MCInclusions == {At(1, Payment), At(2, Batch), At(3, Relayed), At(3, Failed)}
MCInclusionsOfBatch == {At(2, Batch)}

MCEvidence == SUBSET VerifiedEvidence \cup {DeployerEvidence}

MCTarget == [p \in Processes |-> CASE p = "f1" -> b1 [] p = "f2" -> b2 [] OTHER -> b1]
MCOnboardingTerms == [tier |-> "LOW", credit |-> 3, ltv |-> 2]
MCGrants == {[tier |-> "LOW", credit |-> 3, ltv |-> 2], [tier |-> "HIGH", credit |-> 2, ltv |-> 1]}
=============================================================================
