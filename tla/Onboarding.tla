----------------------------- MODULE Onboarding -----------------------------
(***************************************************************************)
(* How borrowers get their credit terms: from evidence, through USCVerifier,*)
(* or from the deployer, who takes the registrar's place for a while. The  *)
(* backend's faucet (backend/src/routes/loans.routes.ts) and the seeding   *)
(* script (scripts/seed-demo.mjs) do so in several transactions with the   *)
(* owner's key, each awaited; requests interleave, and any call can fail.  *)
(***************************************************************************)
EXTENDS USCVerifier

CONSTANTS
  FaucetRequests,  \* POST /faucet/:address
  SeedRuns,        \* runs of the seeding script
  Target,          \* process -> the account it onboards
  LOW_BALANCE, TOP_UP,        \* 10 and 25 tCTC
  OnboardingTerms,            \* LOW tier, 5000 tCTC, 6500 basis points
  OnboardingLifetime,         \* 90 days
  DeployerEvidence,           \* the made-up commitment
  Faults,                     \* may calls to the chain fail?
  InitialWallet

CONSTANTS
  Applicants, Grants, Lifetimes,  \* registrations from evidence
  MaxTime, MaxNonce               \* bounds that keep an instance finite

Processes == FaucetRequests \cup SeedRuns

ASSUME Onboarded ==
  /\ Owner \in Users \ Rejecting
  /\ {"USCVerifier", Owner} \subseteq Registrars
  /\ FaucetRequests \cap SeedRuns = {}
  /\ Target \in [Processes -> Users]
  /\ LOW_BALANCE \in Nat /\ TOP_UP \in Nat /\ InitialWallet \in Nat
  /\ OnboardingTerms \in [tier : RiskTier, credit : Nat \ {0}, ltv : Nat]
  /\ OnboardingTerms.credit <= TierMaxCredit[OnboardingTerms.tier]
  /\ OnboardingTerms.ltv <= TierMaxLtvBps[OnboardingTerms.tier]
  /\ OnboardingLifetime \in Nat \ {0}
  /\ DeployerEvidence \in Evidence /\ Faults \in BOOLEAN
  /\ Applicants \subseteq Users /\ Lifetimes \subseteq Nat
  /\ Grants \subseteq [tier : RiskTier, credit : Nat, ltv : Nat]

\* The precompile proves each transaction at one place of its chain.
ASSUME OneInclusion ==
  \A i, j \in Inclusions :
    i.chainKey = j.chainKey /\ i.transaction = j.transaction => i = j

\* It proves a transaction's place and transfers; accounts are Users there too.
ASSUME Provable ==
  \A i \in Inclusions :
    /\ i = [chainKey |-> i.chainKey, blockHeight |-> i.blockHeight,
            transaction |-> i.transaction]
    /\ i.chainKey \in ChainKeys /\ i.blockHeight \in Nat
    /\ \A n \in DOMAIN i.transaction.transfers :
         /\ n \in Nat
         /\ i.transaction.transfers[n].from \in Users
         /\ i.transaction.transfers[n].value \in Nat

VARIABLE stage  \* process -> the call it waits for, or how it ended

vars == <<now, balance, registryVars, verifierVars, stage>>

Ended == {"answered", "refused", "failed"}
Stage == {"start", "fund", "check", "takeover", "register", "registerSelf", "restore"} \cup Ended

TypeOK ==
  /\ ChainTypeOK
  /\ RegistryTypeOK
  /\ VerifierTypeOK
  /\ stage \in [Processes -> Stage]

Init ==
  /\ now = 0
  /\ balance = [a \in Users \cup Contracts |-> IF a \in Users THEN InitialWallet ELSE 0]
  /\ RegistryInit /\ registrar = "USCVerifier"
  /\ VerifierInit
  /\ stage = [p \in Processes |-> "start"]
-----------------------------------------------------------------------------
(* One awaited call each. GoTo is the rest of the handler up to its next   *)
(* call; a call that takes effect may still fail for the caller.           *)

GoTo(p, next) ==
  \/ stage' = [stage EXCEPT ![p] = next]
  \/ Faults /\ stage' = [stage EXCEPT ![p] = "failed"]

ReadBalance(p) ==
  /\ stage[p] = "start"
  /\ GoTo(p, IF balance[Target[p]] < LOW_BALANCE THEN "fund" ELSE "check")
  /\ UNCHANGED <<now, balance, registryVars, verifierVars>>

\* By now the target may have been funded by somebody else.
Fund(p) ==
  /\ stage[p] = "fund"
  /\ IF CanTransfer(balance, Owner, Target[p], TOP_UP)
     THEN /\ balance' = Transfer(balance, Owner, Target[p], TOP_UP)
          /\ GoTo(p, "check")
     ELSE /\ stage' = [stage EXCEPT ![p] = "refused"]
          /\ UNCHANGED balance
  /\ UNCHANGED <<now, registryVars, verifierVars>>

\* Faulty variant: a failed read counts as a valid eligibility.
CheckTrusting(p) ==
  /\ stage[p] = "check"
  /\ \/ GoTo(p, IF IsEligibilityValid(Target[p]) THEN "answered" ELSE "takeover")
     \/ p \in FaucetRequests /\ Faults /\ stage' = [stage EXCEPT ![p] = "answered"]
  /\ UNCHANGED <<now, balance, registryVars, verifierVars>>

\* The faucet takes a failed read for an eligibility that is not valid.
Check(p) ==
  /\ stage[p] = "check"
  /\ \/ GoTo(p, IF IsEligibilityValid(Target[p]) THEN "answered" ELSE "takeover")
     \/ p \in FaucetRequests /\ Faults /\ stage' = [stage EXCEPT ![p] = "takeover"]
  /\ UNCHANGED <<now, balance, registryVars, verifierVars>>

TakeOver(p) ==
  /\ stage[p] = "takeover"
  /\ SetRegistrar(Owner, Owner)
  /\ GoTo(p, "register")
  /\ UNCHANGED <<now, balance, verifierVars>>

\* The owner registers account a; the registry refuses once another process
\* has given the registrar's place back.
RegisterAs(p, a, next) ==
  IF registrar = Owner
  THEN /\ RegisterEligibility(Owner, a, OnboardingTerms.tier, OnboardingTerms.credit,
                              OnboardingTerms.ltv, now + OnboardingLifetime, DeployerEvidence)
       /\ GoTo(p, next)
  ELSE /\ stage' = [stage EXCEPT ![p] = "refused"]
       /\ UNCHANGED registryVars

Register(p) ==
  /\ stage[p] = "register"
  /\ RegisterAs(p, Target[p], IF p \in SeedRuns THEN "registerSelf" ELSE "restore")
  /\ UNCHANGED <<now, balance, verifierVars>>

\* The seeding script then registers the deployer too.
RegisterSelf(p) ==
  /\ stage[p] = "registerSelf"
  /\ RegisterAs(p, Owner, "restore")
  /\ UNCHANGED <<now, balance, verifierVars>>

\* Faulty variant: the request ends without giving the place back.
RestoreNothing(p) ==
  /\ stage[p] = "restore"
  /\ GoTo(p, "answered")
  /\ UNCHANGED <<now, balance, registryVars, verifierVars>>

Restore(p) ==
  /\ stage[p] = "restore"
  /\ SetRegistrar(Owner, "USCVerifier")
  /\ GoTo(p, "answered")
  /\ UNCHANGED <<now, balance, verifierVars>>

\* A call fails without effect, or the server or script stops.
Fail(p) ==
  /\ Faults /\ stage[p] \notin Ended
  /\ stage' = [stage EXCEPT ![p] = "failed"]
  /\ UNCHANGED <<now, balance, registryVars, verifierVars>>

Proceed(p) ==
  \/ ReadBalance(p) \/ Fund(p) \/ Check(p) \/ TakeOver(p)
  \/ Register(p) \/ RegisterSelf(p) \/ Restore(p)
-----------------------------------------------------------------------------
(* Everybody else.                                                         *)

PassTime ==
  /\ now < MaxTime
  /\ Tick
  /\ UNCHANGED <<balance, registryVars, verifierVars, stage>>

ConfigureSource ==
  /\ \/ \E chainId \in SourceChainIds, token \in SourceTokens :
          \/ SetSourceToken(chainId, token)
          \/ \E enabled \in BOOLEAN : ConfigureSourceToken(chainId, token, enabled)
     \/ \E key \in ChainKeys :
          \/ SetSourceChainKey(key)
          \/ \E enabled \in BOOLEAN : ConfigureSourceChainKey(key, enabled)
  /\ UNCHANGED <<now, balance, registryVars, stage>>

ProveEvidence ==
  /\ \E type \in EvidenceType, b \in Applicants, inclusion \in Inclusions :
        VerifyEvidence(type, b, inclusion)
  /\ UNCHANGED <<now, balance, registryVars, stage>>

UseEvidence ==
  /\ \E b \in Applicants, grant \in Grants, life \in Lifetimes,
        evidence \in SUBSET verifiedEvidence :
        /\ nonces[b] < MaxNonce
        /\ RegisterEligibilityFromEvidence(b, grant.tier, grant.credit, grant.ltv,
                                           now + life, evidence)
  /\ UNCHANGED <<now, balance, stage>>

Revoke ==
  /\ \E b \in Applicants : RevokeEligibility(Owner, b)
  /\ UNCHANGED <<now, balance, verifierVars, stage>>

Next ==
  \/ PassTime \/ ConfigureSource \/ ProveEvidence \/ UseEvidence \/ Revoke
  \/ \E p \in Processes : Proceed(p) \/ Fail(p)

Spec == Init /\ [][Next]_vars

\* Handlers and the script run on: every call is answered or fails.
FairSpec == Spec /\ \A p \in Processes : WF_vars(Proceed(p))
-----------------------------------------------------------------------------
\* What is recorded happened: a successful transaction, at the recorded place
\* of a source chain, moved the amount from the recorded sender - to the
\* borrower if it is an inflow, out of the borrower's account otherwise.
EvidenceShowsTransfer ==
  \A e \in verifiedEvidence :
    /\ [chainKey |-> e.chainKey, blockHeight |-> e.blockHeight,
        transaction |-> e.transaction] \in Inclusions
    /\ e.transaction.succeeded /\ e.amount > 0
    /\ \E i \in DOMAIN e.transaction.transfers :
         LET transfer == e.transaction.transfers[i]
         IN  /\ transfer.from = e.sender /\ transfer.value = e.amount
             /\ IF e.evidenceType = "INFLOW"
                THEN transfer.to = e.borrower /\ e.sender = e.transaction.from
                ELSE transfer.from = e.borrower

\* What source transactions can truly be said to show: that a borrower was
\* paid by the signer, or paid somebody. A source is a transaction of a chain.
TrueClaims ==
  UNION {
    LET source == <<i.chainKey, i.transaction>>
        paid == {t \in Range(i.transaction.transfers) : t.value > 0}
    IN  {[source |-> source, kind |-> "INFLOW", about |-> t.to,
          sender |-> t.from, amount |-> t.value]
            : t \in {u \in paid : u.from = i.transaction.from}}
        \cup {[source |-> source, kind |-> "REPAYMENT", about |-> t.from,
               sender |-> t.from, amount |-> t.value] : t \in paid}
    : i \in {j \in Inclusions : j.transaction.succeeded}}

Claim(e) ==
  [source |-> <<e.chainKey, e.transaction>>, kind |-> e.evidenceType,
   about |-> e.borrower, sender |-> e.sender, amount |-> e.amount]
ClaimsOf(evidence) == {Claim(e) : e \in evidence}

\* The event with the nonce of a borrower's record tells that the record came
\* from evidence, and which.
FromEvidence(b) ==
  \E i \in DOMAIN registrations :
    registrations[i].borrower = b /\ registrations[i].nonce = eligibilities[b].nonce

\* What a borrower's terms rest on: revoked ones on nothing.
Basis(b) ==
  IF ~eligibilities[b].active THEN NoEvidence
  ELSE IF FromEvidence(b) THEN ClaimsOf(eligibilities[b].evidence)
  ELSE DeployerEvidence

\* The verifier's and the registry's state seen as a ledger. What was spent is
\* what the registrations were based on, not what the verifier has flagged.
Ledger == INSTANCE EvidenceLedger WITH
  Borrowers <- Users, Claims <- TrueClaims, Nothing <- NoEvidence, Word <- DeployerEvidence,
  entered <- ClaimsOf(verifiedEvidence),
  spent <- ClaimsOf(UNION {registrations[i].evidence : i \in DOMAIN registrations}),
  standing <- [b \in Users |-> Basis(b)]

\* Proofs replayed, evidence used again, terms replaced, revoked or given by the
\* deployer in between: a source transaction proves one true thing about one
\* borrower, for one grant of terms, and terms rest on nothing else.
KeepsEvidenceLedger == Ledger!Spec

\* No source transaction supports two registrations, of one borrower or of
\* two, whatever expires, is revoked or is replaced in between.
EvidenceSupportsOneRegistration ==
  \A i, j \in DOMAIN registrations : i # j =>
    ~\E d \in registrations[i].evidence, e \in registrations[j].evidence :
       d.chainKey = e.chainKey /\ d.transaction = e.transaction

\* Evidence-based registration is shut off only by a process that still has
\* to give the place back, or that failed before it could: overlapping
\* processes that all end in an orderly way leave USCVerifier in place.
RegistrarAccountedFor ==
  registrar # "USCVerifier" =>
    \E p \in Processes : stage[p] \in {"register", "registerSelf", "restore", "failed"}

\* A successful answer is true: this process or another has registered the
\* account.
AnswersAreTrue ==
  \A p \in Processes : stage[p] = "answered" => nonces[Target[p]] > 0

\* However takeovers overlap, the registrar's place returns to USCVerifier for
\* good, unless a process fails.
RegistrarReturns ==
  \/ <>[](registrar = "USCVerifier")
  \/ <>(\E p \in Processes : stage[p] = "failed")

\* USCVerifier.sol:128 "Verify one source-chain transaction and record its
\* Transfer semantics."
RecordedTokenWasTransferred ==
  \A e \in verifiedEvidence :
    \E i \in DOMAIN e.transaction.transfers :
      LET transfer == e.transaction.transfers[i]
      IN  transfer.token = e.token /\ transfer.from = e.sender /\ transfer.value = e.amount
=============================================================================
