------------------------ MODULE EligibilityRegistry ------------------------
(***************************************************************************)
(* contracts/core/EligibilityRegistry.sol: the credit terms each borrower  *)
(* currently has. One registrar writes them, a new registration replaces   *)
(* the previous one, and a record stops counting when it expires or is     *)
(* revoked. A component: its actions are composed into a next-state        *)
(* relation by the modules that extend it.                                 *)
(***************************************************************************)
EXTENDS PolicyConstants, Chain

CONSTANTS
  Owner,       \* the Ownable owner of the registry
  Registrars,  \* accounts the owner may appoint: USCVerifier, the deployer
  Evidence,    \* what a registration is based on
  NoEvidence   \* a zero policy version, commitment or context

VARIABLES
  registrar,
  eligibilities,  \* borrower -> its latest registration
  nonces          \* borrower -> how many registrations it has had

registryVars == <<registrar, eligibilities, nonces>>

Eligibility ==
  [riskTier : RiskTier, maxActiveCredit : Nat, maxLtvBps : Nat,
   validUntil : Nat, evidence : Evidence \cup {NoEvidence},
   nonce : Nat, active : BOOLEAN]

\* What the mapping holds for a borrower who was never registered.
NoEligibility ==
  [riskTier |-> "LOW", maxActiveCredit |-> 0, maxLtvBps |-> 0,
   validUntil |-> 0, evidence |-> NoEvidence, nonce |-> 0, active |-> FALSE]

RegistryTypeOK ==
  /\ registrar \in Registrars
  /\ eligibilities \in [Users -> Eligibility]
  /\ nonces \in [Users -> Nat]

RegistryInit ==
  /\ registrar \in Registrars
  /\ eligibilities = [b \in Users |-> NoEligibility]
  /\ nonces = [b \in Users |-> 0]
-----------------------------------------------------------------------------
IsEligibilityValid(b) ==
  eligibilities[b].active /\ now < eligibilities[b].validUntil

SetRegistrar(caller, r) ==
  /\ caller = Owner
  /\ registrar' = r
  /\ UNCHANGED <<eligibilities, nonces>>

RegisterEligibility(caller, b, tier, credit, ltv, until, evidence) ==
  /\ caller = registrar
  /\ credit # 0 /\ ltv <= BPS_DENOMINATOR /\ until > now
  /\ evidence # NoEvidence
  /\ credit <= TierMaxCredit[tier] /\ ltv <= TierMaxLtvBps[tier]
  /\ nonces' = [nonces EXCEPT ![b] = @ + 1]
  /\ eligibilities' = [eligibilities EXCEPT ![b] =
       [riskTier |-> tier, maxActiveCredit |-> credit, maxLtvBps |-> ltv,
        validUntil |-> until, evidence |-> evidence,
        nonce |-> nonces[b] + 1, active |-> TRUE]]
  /\ UNCHANGED registrar

\* The registrar or the owner withdraws a borrower's terms; nothing else of
\* the record changes.
RevokeEligibility(caller, b) ==
  /\ caller \in {registrar, Owner}
  /\ eligibilities' = [eligibilities EXCEPT ![b].active = FALSE]
  /\ UNCHANGED <<registrar, nonces>>
=============================================================================
