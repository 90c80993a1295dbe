-------------------------- MODULE OnboardingProofs --------------------------
(***************************************************************************)
(* Theorems about Onboarding. The invariant has two halves: what the       *)
(* processes do with the registrar's place and the registry's records      *)
(* (ProcessesOK), and what the verifier records and spends (VerifierOK).   *)
(* Only a registration from evidence touches both.                         *)
(***************************************************************************)
EXTENDS Onboarding, SequenceTheorems, WellFoundedInduction, TLAPS

\* Every set of natural numbers that is not empty has a least element.
LEMMA NatWellFounded == IsWellFoundedOn({ss \in Nat \X Nat : ss[1] < ss[2]}, Nat)
BY NatLessThanWellFounded, Zenon DEF OpToRel

LEMMA MinIsIn ==
  ASSUME NEW S, S \subseteq Nat, S # {}
  PROVE  Min(S) \in S
<1> DEFINE R == {ss \in Nat \X Nat : ss[1] < ss[2]}
<1>1. PICK x \in S : \A y \in S : ~ (<<y, x>> \in R)
  <2> HIDE DEF R
  <2>1. IsWellFoundedOn(R, Nat)
    BY NatWellFounded DEF R
  <2> QED
    BY <2>1, WFMin
<1>2. \A y \in S : x <= y
  <2> TAKE y \in S
  <2>1. x \in Nat /\ y \in Nat /\ ~ (<<y, x>> \in R)
    BY <1>1
  <2> QED
    BY <2>1
<1> QED
  BY <1>1, <1>2 DEF Min
-----------------------------------------------------------------------------
(* The registry's records.                                                 *)

\* What registrations here are based on.
BasedOn == (SUBSET VerifiedEvidence) \cup {NoEvidence, DeployerEvidence}

Record ==
  [riskTier : RiskTier, maxActiveCredit : Nat, maxLtvBps : Nat, validUntil : Nat,
   evidence : BasedOn, nonce : Nat, active : BOOLEAN]

\* A record counts only if somebody was registered.
RecordsOK ==
  /\ now \in Nat
  /\ nonces \in [Users -> Nat]
  /\ eligibilities \in [Users -> Record]
  /\ \A b \in Users : eligibilities[b].active => nonces[b] > 0

\* A registration leaves records of the right kind and adds to the nonces.
LEMMA RegisterKeeps ==
  ASSUME RecordsOK, now' = now, NEW caller, NEW b \in Users,
         NEW tier \in RiskTier, NEW credit \in Nat, NEW ltv \in Nat, NEW until \in Nat,
         NEW evidence \in BasedOn,
         RegisterEligibility(caller, b, tier, credit, ltv, until, evidence)
  PROVE  /\ RecordsOK'
         /\ registrar' = registrar /\ caller = registrar
         /\ nonces'[b] > 0
         /\ \A a \in Users : nonces[a] > 0 => nonces'[a] > 0
<1> DEFINE new == [riskTier |-> tier, maxActiveCredit |-> credit, maxLtvBps |-> ltv,
                   validUntil |-> until, evidence |-> evidence,
                   nonce |-> nonces[b] + 1, active |-> TRUE]
<1>1. /\ nonces' = [nonces EXCEPT ![b] = @ + 1]
      /\ eligibilities' = [eligibilities EXCEPT ![b] = new]
      /\ registrar' = registrar /\ caller = registrar
  BY DEF RegisterEligibility
<1>2. new \in Record
  BY DEF RecordsOK, Record
<1> HIDE DEF new
<1>3. /\ nonces' \in [Users -> Nat] /\ nonces'[b] > 0
      /\ \A a \in Users : nonces[a] > 0 => nonces'[a] > 0
  BY <1>1 DEF RecordsOK
<1>4. eligibilities' \in [Users -> Record]
  BY <1>1, <1>2 DEF RecordsOK
<1>5. ASSUME NEW a \in Users, eligibilities'[a].active
      PROVE  nonces'[a] > 0
  <2>1. CASE a = b
    BY <1>3, <2>1
  <2>2. CASE a # b
    <3>1. eligibilities'[a] = eligibilities[a]
      BY <1>1, <2>2 DEF RecordsOK
    <3> QED
      BY <1>3, <1>5, <3>1 DEF RecordsOK
  <2> QED
    BY <2>1, <2>2
<1> QED
  BY <1>1, <1>3, <1>4, <1>5 DEF RecordsOK

\* A revocation takes away, and counts nothing.
LEMMA RevokeKeeps ==
  ASSUME RecordsOK, now' = now, NEW b \in Users, RevokeEligibility(Owner, b)
  PROVE  RecordsOK' /\ registrar' = registrar /\ nonces' = nonces
<1> DEFINE new == [eligibilities[b] EXCEPT !.active = FALSE]
<1>1. /\ eligibilities' = [eligibilities EXCEPT ![b] = new]
      /\ registrar' = registrar /\ nonces' = nonces
  BY DEF RevokeEligibility
<1>2. new \in Record /\ ~new.active
  BY DEF RecordsOK, Record
<1> HIDE DEF new
<1>3. eligibilities' \in [Users -> Record]
  BY <1>1, <1>2 DEF RecordsOK
<1>4. ASSUME NEW a \in Users, eligibilities'[a].active
      PROVE  nonces'[a] > 0
  <2>1. a # b /\ eligibilities'[a] = eligibilities[a]
    BY <1>1, <1>2, <1>4 DEF RecordsOK
  <2> QED
    BY <1>1, <1>4, <2>1 DEF RecordsOK
<1> QED
  BY <1>1, <1>3, <1>4 DEF RecordsOK
-----------------------------------------------------------------------------
(* The processes.                                                          *)

\* Where a process still has the registrar's place, or lost it for good.
Holding == {"register", "registerSelf", "restore", "failed"}

\* From its registration on, a process' account is registered.
AnswerOK(p) ==
  stage[p] \in {"registerSelf", "restore", "answered"} => nonces[Target[p]] > 0

ProcessesOK ==
  /\ RecordsOK
  /\ balance \in [Users \cup Contracts -> Nat]
  /\ registrar \in {"USCVerifier", Owner}
  /\ stage \in [Processes -> Stage]
  /\ RegistrarAccountedFor
  /\ \A p \in Processes : AnswerOK(p)

\* A call moves its process alone, to next or, if it fails, to failed.
LEMMA GoToStage ==
  ASSUME stage \in [Processes -> Stage], NEW p \in Processes, NEW next \in Stage,
         GoTo(p, next)
  PROVE  /\ stage' \in [Processes -> Stage]
         /\ stage'[p] \in {next, "failed"}
         /\ \A q \in Processes : q # p => stage'[q] = stage[q]
<1>1. "failed" \in Stage
  BY DEF Stage, Ended
<1>2. stage' = [stage EXCEPT ![p] = next] \/ stage' = [stage EXCEPT ![p] = "failed"]
  BY DEF GoTo
<1> QED
  BY <1>1, <1>2

\* A step of process p keeps the invariant if it keeps what concerns p, and
\* takes the place over or gives it up only together with p's stage.
LEMMA StepOfProcess ==
  ASSUME ProcessesOK, NEW p \in Processes,
         RecordsOK', balance' \in [Users \cup Contracts -> Nat],
         \A a \in Users : nonces[a] > 0 => nonces'[a] > 0,
         registrar' \in {"USCVerifier", Owner},
         stage' \in [Processes -> Stage],
         \A q \in Processes : q # p => stage'[q] = stage[q],
         AnswerOK(p)',
         \/ registrar' = "USCVerifier"
         \/ stage'[p] \in Holding
         \/ registrar' = registrar /\ stage[p] \notin Holding
  PROVE  ProcessesOK'
<1>1. RegistrarAccountedFor'
  <2> SUFFICES ASSUME registrar' # "USCVerifier"
               PROVE  \E q \in Processes : stage'[q] \in Holding
    BY DEF RegistrarAccountedFor, Holding
  <2>1. CASE stage'[p] \in Holding
    BY <2>1
  <2>2. CASE registrar' = registrar /\ stage[p] \notin Holding
    <3>1. PICK q \in Processes : stage[q] \in Holding
      BY <2>2 DEF ProcessesOK, RegistrarAccountedFor, Holding
    <3>2. q # p
      BY <2>2, <3>1
    <3> QED
      BY <3>1, <3>2
  <2> QED
    BY <2>1, <2>2
<1>2. ASSUME NEW q \in Processes
      PROVE  AnswerOK(q)'
  <2>1. CASE q = p
    BY <2>1
  <2>2. CASE q # p
    <3>1. stage'[q] = stage[q] /\ Target[q] \in Users
      BY <2>2, Onboarded
    <3> QED
      BY <3>1 DEF ProcessesOK, AnswerOK
  <2> QED
    BY <2>1, <2>2
<1> QED
  BY <1>1, <1>2 DEF ProcessesOK

\* Steps that call nothing that writes.
LEMMA ReadKeeps ==
  ASSUME ProcessesOK, NEW p \in Processes,
         ReadBalance(p) \/ Check(p) \/ Fail(p)
  PROVE  ProcessesOK'
<1>1. UNCHANGED <<now, balance, registrar, eligibilities, nonces>>
  BY DEF ReadBalance, Check, Fail, registryVars
<1>2. RecordsOK' /\ balance' \in [Users \cup Contracts -> Nat]
      /\ registrar' \in {"USCVerifier", Owner}
      /\ \A a \in Users : nonces[a] > 0 => nonces'[a] > 0
  BY <1>1 DEF ProcessesOK, RecordsOK
<1>3. /\ stage' \in [Processes -> Stage]
      /\ \A q \in Processes : q # p => stage'[q] = stage[q]
      /\ \/ stage'[p] = "failed"
         \/ stage[p] \notin Holding /\ stage'[p] \in {"fund", "check", "takeover"}
         \/ stage[p] \notin Holding /\ stage'[p] = "answered" /\ IsEligibilityValid(Target[p])
  <2>0. stage \in [Processes -> Stage]
    BY DEF ProcessesOK
  <2>1. CASE ReadBalance(p)
    <3>1. PICK next \in {"fund", "check"} : GoTo(p, next)
      BY <2>1 DEF ReadBalance
    <3> QED
      BY <2>0, <2>1, <3>1, GoToStage DEF ReadBalance, Stage, Ended, Holding
  <2>2. CASE Check(p)
    <3>1. CASE stage' = [stage EXCEPT ![p] = "takeover"]
      BY <2>0, <2>2, <3>1 DEF Check, Stage, Holding
    <3>2. CASE GoTo(p, "answered") /\ IsEligibilityValid(Target[p])
      BY <2>0, <2>2, <3>2, GoToStage DEF Check, Stage, Ended, Holding
    <3>3. CASE GoTo(p, "takeover")
      BY <2>0, <2>2, <3>3, GoToStage DEF Check, Stage, Ended, Holding
    <3> QED
      BY <2>2, <3>1, <3>2, <3>3 DEF Check
  <2>3. CASE Fail(p)
    BY <2>0, <2>3 DEF Fail, Stage, Ended
  <2> QED
    BY <2>1, <2>2, <2>3
<1>4. AnswerOK(p)'
  <2>1. IsEligibilityValid(Target[p]) => nonces'[Target[p]] > 0
    BY <1>1, Onboarded DEF IsEligibilityValid, ProcessesOK, RecordsOK
  <2> QED
    BY <1>3, <2>1 DEF AnswerOK
<1>5. stage'[p] \in Holding \/ (registrar' = registrar /\ stage[p] \notin Holding)
  BY <1>1, <1>3 DEF Holding
<1> QED
  BY <1>2, <1>3, <1>4, <1>5, StepOfProcess

\* The owner pays, or cannot.
LEMMA FundKeeps ==
  ASSUME ProcessesOK, NEW p \in Processes, Fund(p)
  PROVE  ProcessesOK'
<1>1. UNCHANGED <<now, registrar, eligibilities, nonces>>
  BY DEF Fund, registryVars
<1>2. RecordsOK' /\ registrar' \in {"USCVerifier", Owner}
      /\ \A a \in Users : nonces[a] > 0 => nonces'[a] > 0
  BY <1>1 DEF ProcessesOK, RecordsOK
<1>3. balance' \in [Users \cup Contracts -> Nat]
  <2>1. CASE UNCHANGED balance
    BY <2>1 DEF ProcessesOK
  <2>2. CASE /\ CanTransfer(balance, Owner, Target[p], TOP_UP)
             /\ balance' = Transfer(balance, Owner, Target[p], TOP_UP)
    <3>1. /\ Owner \in Users \cup Contracts /\ Target[p] \in Users \cup Contracts
          /\ TOP_UP \in Nat /\ TOP_UP <= balance[Owner]
          /\ balance \in [Users \cup Contracts -> Nat]
      BY <2>2, Onboarded DEF CanTransfer, ProcessesOK
    <3> QED
      BY <2>2, <3>1 DEF Transfer
  <2> QED
    BY <2>1, <2>2 DEF Fund
<1>4. /\ stage' \in [Processes -> Stage]
      /\ \A q \in Processes : q # p => stage'[q] = stage[q]
      /\ stage[p] \notin Holding /\ stage'[p] \in {"failed", "check", "refused"}
  <2>0. stage \in [Processes -> Stage] /\ stage[p] \notin Holding
    BY DEF ProcessesOK, Fund, Holding
  <2>1. CASE GoTo(p, "check")
    BY <2>0, <2>1, GoToStage DEF Stage
  <2>2. CASE stage' = [stage EXCEPT ![p] = "refused"]
    BY <2>0, <2>2 DEF Stage, Ended
  <2> QED
    BY <2>0, <2>1, <2>2 DEF Fund
<1>5. AnswerOK(p)'
  BY <1>4 DEF AnswerOK
<1> QED
  BY <1>1, <1>2, <1>3, <1>4, <1>5, StepOfProcess

\* The place is taken over, or given back, together with the process' stage.
LEMMA HandOverKeeps ==
  ASSUME ProcessesOK, NEW p \in Processes, TakeOver(p) \/ Restore(p)
  PROVE  ProcessesOK'
<1>1. UNCHANGED <<now, balance, eligibilities, nonces>>
  BY DEF TakeOver, Restore, SetRegistrar
<1>2. /\ RecordsOK' /\ balance' \in [Users \cup Contracts -> Nat]
      /\ \A a \in Users : nonces[a] > 0 => nonces'[a] > 0
  BY <1>1 DEF ProcessesOK, RecordsOK
<1>0. stage \in [Processes -> Stage]
  BY DEF ProcessesOK
<1>3. CASE TakeOver(p)
  <2>1. registrar' = Owner
    BY <1>3 DEF TakeOver, SetRegistrar
  <2>2. /\ stage' \in [Processes -> Stage]
        /\ \A q \in Processes : q # p => stage'[q] = stage[q]
        /\ stage'[p] \in {"register", "failed"}
    BY <1>0, <1>3, GoToStage DEF TakeOver, Stage
  <2>3. AnswerOK(p)'
    BY <2>2 DEF AnswerOK
  <2>4. stage'[p] \in Holding
    BY <2>2 DEF Holding
  <2> QED
    BY <1>2, <2>1, <2>2, <2>3, <2>4, StepOfProcess
<1>4. CASE Restore(p)
  <2>1. registrar' = "USCVerifier"
    BY <1>4 DEF Restore, SetRegistrar
  <2>2. /\ stage' \in [Processes -> Stage]
        /\ \A q \in Processes : q # p => stage'[q] = stage[q]
        /\ stage[p] = "restore"
    BY <1>0, <1>4, GoToStage DEF Restore, Stage, Ended
  <2>3. AnswerOK(p)'
    BY <1>1, <2>2 DEF AnswerOK, ProcessesOK
  <2> QED
    BY <1>2, <2>1, <2>2, <2>3, StepOfProcess
<1> QED
  BY <1>3, <1>4

\* The owner registers an account, or is refused because another process has
\* given the place back.
LEMMA RegisterAsKeeps ==
  ASSUME ProcessesOK, NEW p \in Processes, NEW a \in Users,
         NEW next \in {"registerSelf", "restore"},
         RegisterAs(p, a, next), UNCHANGED <<now, balance>>,
         a = Target[p] \/ nonces[Target[p]] > 0
  PROVE  ProcessesOK'
<1>0. /\ stage \in [Processes -> Stage] /\ next \in Stage /\ Target[p] \in Users
      /\ balance' \in [Users \cup Contracts -> Nat]
  BY Onboarded DEF ProcessesOK, Stage
<1>1. CASE registrar = Owner
  <2>1. /\ RegisterEligibility(Owner, a, OnboardingTerms.tier, OnboardingTerms.credit,
                               OnboardingTerms.ltv, now + OnboardingLifetime, DeployerEvidence)
        /\ GoTo(p, next)
    BY <1>1 DEF RegisterAs
  <2>2. /\ OnboardingTerms.tier \in RiskTier /\ OnboardingTerms.credit \in Nat
        /\ OnboardingTerms.ltv \in Nat /\ DeployerEvidence \in BasedOn
        /\ now + OnboardingLifetime \in Nat
    BY Onboarded DEF BasedOn, ProcessesOK, RecordsOK
  <2>3. /\ RecordsOK' /\ registrar' = registrar /\ nonces'[a] > 0
        /\ \A b \in Users : nonces[b] > 0 => nonces'[b] > 0
    BY <2>1, <2>2, RegisterKeeps DEF ProcessesOK
  <2>4. /\ stage' \in [Processes -> Stage]
        /\ \A q \in Processes : q # p => stage'[q] = stage[q]
        /\ stage'[p] \in Holding
    BY <1>0, <2>1, GoToStage DEF Holding
  <2>5. AnswerOK(p)'
    BY <1>0, <2>3 DEF AnswerOK
  <2>6. registrar' \in {"USCVerifier", Owner}
    BY <1>1, <2>3
  <2> QED
    BY <1>0, <2>3, <2>4, <2>5, <2>6, StepOfProcess
<1>2. CASE registrar # Owner
  <2>1. UNCHANGED <<registrar, eligibilities, nonces>>
        /\ stage' = [stage EXCEPT ![p] = "refused"]
    BY <1>2 DEF RegisterAs, registryVars
  <2>2. /\ RecordsOK' /\ registrar' = "USCVerifier"
        /\ \A b \in Users : nonces[b] > 0 => nonces'[b] > 0
    BY <1>2, <2>1 DEF ProcessesOK, RecordsOK
  <2>3. /\ stage' \in [Processes -> Stage]
        /\ \A q \in Processes : q # p => stage'[q] = stage[q]
        /\ stage'[p] = "refused"
    BY <1>0, <2>1 DEF Stage, Ended
  <2>4. AnswerOK(p)'
    BY <2>3 DEF AnswerOK
  <2> QED
    BY <1>0, <2>2, <2>3, <2>4, StepOfProcess
<1> QED
  BY <1>1, <1>2

LEMMA ProceedKeeps ==
  ASSUME ProcessesOK, NEW p \in Processes, Proceed(p) \/ Fail(p)
  PROVE  ProcessesOK'
<1>1. CASE Register(p)
  <2>1. /\ Target[p] \in Users /\ UNCHANGED <<now, balance>>
        /\ \E next \in {"registerSelf", "restore"} : RegisterAs(p, Target[p], next)
    BY <1>1, Onboarded DEF Register
  <2> QED
    BY <2>1, RegisterAsKeeps
<1>2. CASE RegisterSelf(p)
  <2>1. /\ Owner \in Users /\ UNCHANGED <<now, balance>> /\ RegisterAs(p, Owner, "restore")
    BY <1>2, Onboarded DEF RegisterSelf
  <2>2. nonces[Target[p]] > 0
    BY <1>2 DEF RegisterSelf, ProcessesOK, AnswerOK
  <2> QED
    BY <2>1, <2>2, RegisterAsKeeps
<1> QED
  BY <1>1, <1>2, ReadKeeps, FundKeeps, HandOverKeeps DEF Proceed

\* Everybody else leaves the stages alone; only revocations and registrations
\* from evidence touch the registry, and neither touches the place.
LEMMA OthersKeep ==
  ASSUME ProcessesOK, RecordsOK', UNCHANGED <<balance, registrar, stage>>,
         \A a \in Users : nonces[a] > 0 => nonces'[a] > 0
  PROVE  ProcessesOK'
<1>1. RegistrarAccountedFor'
  BY DEF ProcessesOK, RegistrarAccountedFor
<1>2. ASSUME NEW p \in Processes
      PROVE  AnswerOK(p)'
  BY Onboarded DEF ProcessesOK, AnswerOK
<1> QED
  BY <1>1, <1>2 DEF ProcessesOK
-----------------------------------------------------------------------------
(* The verifier.                                                           *)

\* Where the transaction is that evidence e is about.
Place(e) ==
  [chainKey |-> e.chainKey, blockHeight |-> e.blockHeight, transaction |-> e.transaction]

\* One piece of evidence shows a transfer: what EvidenceShowsTransfer says of all.
Shows(e) ==
  /\ Place(e) \in Inclusions
  /\ e.transaction.succeeded /\ e.amount > 0
  /\ \E i \in DOMAIN e.transaction.transfers :
       LET transfer == e.transaction.transfers[i]
       IN  /\ transfer.from = e.sender /\ transfer.value = e.amount
           /\ IF e.evidenceType = "INFLOW"
              THEN transfer.to = e.borrower /\ e.sender = e.transaction.from
              ELSE transfer.from = e.borrower

\* A source transaction proves one thing: one borrower, one kind of payment,
\* one amount, however often and about whomever its proof is submitted.
OneClaimPerTransaction ==
  \A d, e \in verifiedEvidence :
    d.chainKey = e.chainKey /\ d.transaction = e.transaction => d = e

\* Evidence is spent exactly by the registrations it led to, each by one.
SpentByRegistrations ==
  /\ evidenceUsedForEligibility = UNION {registrations[i].evidence : i \in DOMAIN registrations}
  /\ \A i, j \in DOMAIN registrations :
       i # j => registrations[i].evidence \cap registrations[j].evidence = {}

VerifierOK ==
  /\ VerifierTypeOK
  /\ sourceToken # Unset => sourceChainId \in SourceChainIds
  /\ \A e \in verifiedEvidence : Place(e) \in processedQueries /\ Shows(e)
  /\ OneClaimPerTransaction
  /\ SpentByRegistrations

\* What the verifier records of an inclusion it accepts.
LEMMA EvidenceOfShows ==
  ASSUME NEW type \in EvidenceType, NEW b \in Users, NEW inclusion \in Inclusions,
         sourceToken \in SourceTokens, sourceChainId \in SourceChainIds,
         inclusion.transaction.succeeded,
         Matches(type, b, inclusion.transaction) # {},
         NEW e, e = EvidenceOf(type, b, inclusion),
         type = "INFLOW" => e.sender = inclusion.transaction.from
  PROVE  e \in VerifiedEvidence /\ Place(e) = inclusion /\ Shows(e)
<1>1. PICK i \in DOMAIN inclusion.transaction.transfers :
        /\ i = Min(Matches(type, b, inclusion.transaction))
        /\ Concerns(type, b, inclusion.transaction, inclusion.transaction.transfers[i])
  <2>1. Matches(type, b, inclusion.transaction) \subseteq Nat
    BY Provable DEF Matches
  <2>2. Min(Matches(type, b, inclusion.transaction)) \in Matches(type, b, inclusion.transaction)
    BY <2>1, MinIsIn
  <2> QED
    BY <2>2 DEF Matches
<1>2. PICK transfer : transfer = inclusion.transaction.transfers[i]
  OBVIOUS
<1>3. e = [sourceChainId |-> sourceChainId, chainKey |-> inclusion.chainKey,
           blockHeight |-> inclusion.blockHeight, transaction |-> inclusion.transaction,
           borrower |-> b, evidenceType |-> type, token |-> sourceToken,
           sender |-> transfer.from, amount |-> transfer.value]
  BY <1>1, <1>2 DEF EvidenceOf
<1>4. transfer.from \in Users /\ transfer.value \in Nat
  BY <1>2, Provable
<1>5. e \in VerifiedEvidence
  BY <1>3, <1>4, Provable DEF VerifiedEvidence, Transactions
<1>6. Place(e) = inclusion
  BY <1>3, Provable DEF Place
<1>7. /\ transfer.value > 0
      /\ IF type = "INFLOW" THEN transfer.to = b ELSE transfer.from = b
  BY <1>1, <1>2, <1>4 DEF Concerns
<1>8. Shows(e)
  <2>1. e.transaction.succeeded /\ e.amount > 0
    BY <1>3, <1>7
  <2>2. /\ e.transaction = inclusion.transaction /\ e.sender = transfer.from
        /\ e.amount = transfer.value /\ e.borrower = b /\ e.evidenceType = type
    BY <1>3
  <2> QED
    BY <1>2, <1>6, <1>7, <2>1, <2>2 DEF Shows
<1> QED
  BY <1>5, <1>6, <1>8

\* The owner's configuration touches neither evidence nor registrations.
LEMMA ConfigureKeeps ==
  ASSUME VerifierOK, ConfigureSource
  PROVE  VerifierOK'
<1>1. UNCHANGED <<processedQueries, verifiedEvidence, evidenceUsedForEligibility, registrations>>
  BY DEF ConfigureSource, SetSourceToken, SetSourceChainKey, ConfigureSourceToken,
         ConfigureSourceChainKey, evidenceVars, usageVars
<1>2. /\ sourceToken' \in SourceTokens \cup {Unset}
      /\ sourceChainId' \in SourceChainIds \cup {Unset}
      /\ sourceChainKey' \in ChainKeys \cup {Unset}
      /\ supportedSourceTokens' \subseteq SourceChainIds \X SourceTokens
      /\ supportedSourceChainKeys' \subseteq ChainKeys
      /\ sourceToken' # Unset => sourceChainId' \in SourceChainIds
  <2>0. /\ sourceToken \in SourceTokens \cup {Unset}
        /\ sourceChainId \in SourceChainIds \cup {Unset}
        /\ sourceChainKey \in ChainKeys \cup {Unset}
        /\ supportedSourceTokens \subseteq SourceChainIds \X SourceTokens
        /\ supportedSourceChainKeys \subseteq ChainKeys
        /\ sourceToken # Unset => sourceChainId \in SourceChainIds
    BY DEF VerifierOK, VerifierTypeOK
  <2>1. CASE \E chainId \in SourceChainIds, token \in SourceTokens : SetSourceToken(chainId, token)
    BY <2>0, <2>1 DEF SetSourceToken
  <2>2. CASE \E chainId \in SourceChainIds, token \in SourceTokens, enabled \in BOOLEAN :
               ConfigureSourceToken(chainId, token, enabled)
    BY <2>0, <2>2 DEF ConfigureSourceToken
  <2>3. CASE \E key \in ChainKeys : SetSourceChainKey(key)
    BY <2>0, <2>3 DEF SetSourceChainKey
  <2>4. CASE \E key \in ChainKeys, enabled \in BOOLEAN : ConfigureSourceChainKey(key, enabled)
    BY <2>0, <2>4 DEF ConfigureSourceChainKey
  <2> QED
    BY <2>1, <2>2, <2>3, <2>4 DEF ConfigureSource
<1> QED
  BY <1>1, <1>2 DEF VerifierOK, VerifierTypeOK, OneClaimPerTransaction, SpentByRegistrations

\* A proof accepted adds evidence of a transaction that had proved nothing yet.
LEMMA ProveKeeps ==
  ASSUME VerifierOK, ProveEvidence
  PROVE  VerifierOK'
<1>1. PICK type \in EvidenceType, b \in Users, inclusion \in Inclusions :
        VerifyEvidence(type, b, inclusion)
  BY Onboarded DEF ProveEvidence
<1>2. PICK e : e = EvidenceOf(type, b, inclusion)
  OBVIOUS
<1>3. /\ UNCHANGED <<sourceToken, sourceChainId, sourceChainKey, supportedSourceTokens,
                     supportedSourceChainKeys, evidenceUsedForEligibility, registrations>>
      /\ processedQueries' = processedQueries \cup {inclusion}
      /\ verifiedEvidence' = verifiedEvidence \cup {e}
      /\ inclusion \notin processedQueries
  BY <1>1, <1>2 DEF VerifyEvidence, sourceVars, usageVars
<1>4. e \in VerifiedEvidence /\ Place(e) = inclusion /\ Shows(e)
  <2>1. /\ sourceToken \in SourceTokens /\ sourceChainId \in SourceChainIds
        /\ inclusion.transaction.succeeded
        /\ Matches(type, b, inclusion.transaction) # {}
        /\ type = "INFLOW" => e.sender = inclusion.transaction.from
    BY <1>1, <1>2 DEF VerifyEvidence, VerifierOK, VerifierTypeOK
  <2> QED
    BY <1>2, <2>1, EvidenceOfShows
<1>5. ASSUME NEW d \in verifiedEvidence, d.chainKey = e.chainKey, d.transaction = e.transaction
      PROVE  FALSE
  <2>1. Place(d) \in processedQueries /\ Place(d) \in Inclusions
    BY DEF VerifierOK, Shows
  <2>2. /\ Place(d).chainKey = inclusion.chainKey
        /\ Place(d).transaction = inclusion.transaction
    BY <1>4, <1>5 DEF Place
  <2> QED
    BY <1>3, <2>1, <2>2, OneInclusion
<1>6. OneClaimPerTransaction'
  BY <1>3, <1>5 DEF VerifierOK, OneClaimPerTransaction
<1>7. \A d \in verifiedEvidence' : Place(d) \in processedQueries' /\ Shows(d)
  BY <1>3, <1>4 DEF VerifierOK
<1>8. VerifierTypeOK'
  <2>1. registrations' \in Seq([borrower : Users, nonce : Nat, evidence : SUBSET verifiedEvidence'])
    <3>1. PICK S : S = [borrower : Users, nonce : Nat, evidence : SUBSET verifiedEvidence]
      OBVIOUS
    <3>2. PICK T : T = [borrower : Users, nonce : Nat,
                        evidence : SUBSET (verifiedEvidence \cup {e})]
      OBVIOUS
    <3>3. S \subseteq T
      BY <3>1, <3>2
    <3>4. registrations \in Seq(S)
      BY <3>1 DEF VerifierOK, VerifierTypeOK
    <3>5. registrations \in Seq(T)
      BY <3>3, <3>4, SeqMonotonic
    <3> QED
      BY <1>3, <3>2, <3>5
  <2> QED
    BY <1>3, <1>4, <2>1 DEF VerifierOK, VerifierTypeOK
<1> QED
  BY <1>3, <1>6, <1>7, <1>8 DEF VerifierOK, SpentByRegistrations
-----------------------------------------------------------------------------
(* Registration from evidence, which joins the halves.                     *)

\* The registry's half: evidence recorded is something to base a record on.
LEMMA UseKeepsProcesses ==
  ASSUME ProcessesOK, VerifierOK, UseEvidence
  PROVE  ProcessesOK'
<1>1. PICK b \in Users, grant \in Grants, life \in Nat, evidence \in SUBSET verifiedEvidence :
        RegisterEligibility("USCVerifier", b, grant.tier, grant.credit, grant.ltv,
                            now + life, evidence)
  BY Onboarded DEF UseEvidence, RegisterEligibilityFromEvidence
<1>2. UNCHANGED <<now, balance, stage>>
  BY DEF UseEvidence
<1>3. /\ grant.tier \in RiskTier /\ grant.credit \in Nat /\ grant.ltv \in Nat
      /\ now + life \in Nat
  BY Onboarded DEF ProcessesOK, RecordsOK
<1>4. evidence \in BasedOn
  BY DEF VerifierOK, VerifierTypeOK, BasedOn
<1>5. RecordsOK' /\ registrar' = registrar
      /\ \A a \in Users : nonces[a] > 0 => nonces'[a] > 0
  BY <1>1, <1>2, <1>3, <1>4, RegisterKeeps DEF ProcessesOK
<1> QED
  BY <1>2, <1>5, OthersKeep

\* The verifier's half: what is spent had not been, and one registration more
\* accounts for it.
LEMMA UseKeepsVerifier ==
  ASSUME ProcessesOK, VerifierOK, UseEvidence
  PROVE  VerifierOK'
<1>1. PICK b \in Users, evidence \in SUBSET verifiedEvidence :
        /\ evidence \cap evidenceUsedForEligibility = {}
        /\ evidenceUsedForEligibility' = evidenceUsedForEligibility \cup evidence
        /\ registrations' = Append(registrations,
             [borrower |-> b, nonce |-> nonces[b] + 1, evidence |-> evidence])
        /\ UNCHANGED <<sourceVars, evidenceVars>>
  BY Onboarded DEF UseEvidence, RegisterEligibilityFromEvidence
<1>2. UNCHANGED <<sourceToken, sourceChainId, sourceChainKey, supportedSourceTokens,
                  supportedSourceChainKeys, processedQueries, verifiedEvidence>>
  BY <1>1 DEF sourceVars, evidenceVars
<1>3. PICK S : S = [borrower : Users, nonce : Nat, evidence : SUBSET verifiedEvidence]
  OBVIOUS
<1>4. PICK r : r = [borrower |-> b, nonce |-> nonces[b] + 1, evidence |-> evidence]
  OBVIOUS
<1>5. r \in S /\ r.evidence = evidence
  BY <1>3, <1>4 DEF ProcessesOK, RecordsOK
<1>6. registrations \in Seq(S) /\ registrations' = Append(registrations, r)
  BY <1>1, <1>3, <1>4 DEF VerifierOK, VerifierTypeOK
<1>7. /\ registrations' \in Seq(S)
      /\ Len(registrations) \in Nat
      /\ DOMAIN registrations = 1..Len(registrations)
      /\ DOMAIN registrations' = 1..(Len(registrations) + 1)
      /\ \A i \in DOMAIN registrations : registrations'[i] = registrations[i]
      /\ registrations'[Len(registrations) + 1] = r
  BY <1>5, <1>6, AppendProperties, LenProperties
<1>8. VerifierTypeOK'
  <2>1. registrations' \in Seq([borrower : Users, nonce : Nat, evidence : SUBSET verifiedEvidence'])
    BY <1>2, <1>3, <1>7
  <2> QED
    BY <1>1, <1>2, <2>1 DEF VerifierOK, VerifierTypeOK
<1>9. evidenceUsedForEligibility' =
        UNION {registrations'[i].evidence : i \in DOMAIN registrations'}
  <2>1. ASSUME NEW x
        PROVE  (\E i \in DOMAIN registrations' : x \in registrations'[i].evidence)
               <=> (\E i \in DOMAIN registrations : x \in registrations[i].evidence) \/ x \in evidence
    BY <1>5, <1>7
  <2>2. ASSUME NEW x
        PROVE  x \in evidenceUsedForEligibility'
               <=> (\E i \in DOMAIN registrations : x \in registrations[i].evidence) \/ x \in evidence
    BY <1>1 DEF VerifierOK, SpentByRegistrations
  <2> QED
    BY <2>1, <2>2
<1>10. ASSUME NEW i \in DOMAIN registrations', NEW j \in DOMAIN registrations', i # j
       PROVE  registrations'[i].evidence \cap registrations'[j].evidence = {}
  <2>1. ASSUME NEW k \in DOMAIN registrations
        PROVE  registrations[k].evidence \cap evidence = {}
    BY <1>1 DEF VerifierOK, SpentByRegistrations
  <2>2. CASE i \in DOMAIN registrations /\ j \in DOMAIN registrations
    BY <1>7, <1>10, <2>2 DEF VerifierOK, SpentByRegistrations
  <2>3. CASE i = Len(registrations) + 1
    <3>1. j \in DOMAIN registrations
      BY <1>7, <1>10, <2>3
    <3> QED
      BY <1>5, <1>7, <2>1, <2>3, <3>1
  <2>4. CASE j = Len(registrations) + 1
    <3>1. i \in DOMAIN registrations
      BY <1>7, <1>10, <2>4
    <3> QED
      BY <1>5, <1>7, <2>1, <2>4, <3>1
  <2> QED
    BY <1>7, <2>2, <2>3, <2>4
<1>11. SpentByRegistrations'
  BY <1>9, <1>10 DEF SpentByRegistrations
<1> QED
  BY <1>2, <1>8, <1>11 DEF VerifierOK, OneClaimPerTransaction
-----------------------------------------------------------------------------
(* Every step.                                                             *)

IInv == ProcessesOK /\ VerifierOK

LEMMA UnchangedVerifier ==
  ASSUME VerifierOK, UNCHANGED verifierVars
  PROVE  VerifierOK'
<1>1. UNCHANGED <<sourceToken, sourceChainId, sourceChainKey, supportedSourceTokens,
                  supportedSourceChainKeys, processedQueries, verifiedEvidence,
                  evidenceUsedForEligibility, registrations>>
  BY DEF verifierVars, sourceVars, evidenceVars, usageVars
<1> QED
  BY <1>1 DEF VerifierOK, VerifierTypeOK, OneClaimPerTransaction, SpentByRegistrations

LEMMA UnchangedProcesses ==
  ASSUME ProcessesOK, UNCHANGED <<balance, registryVars, stage>>, now' \in Nat
  PROVE  ProcessesOK'
<1>1. UNCHANGED <<balance, registrar, eligibilities, nonces, stage>>
  BY DEF registryVars
<1>2. RecordsOK'
  BY <1>1 DEF ProcessesOK, RecordsOK
<1>3. \A a \in Users : nonces[a] > 0 => nonces'[a] > 0
  BY <1>1
<1> QED
  BY <1>1, <1>2, <1>3, OthersKeep

LEMMA InitOK == Init => IInv
<1> SUFFICES ASSUME Init
             PROVE  IInv
  OBVIOUS
<1>1. RecordsOK
  <2>1. NoEligibility \in Record /\ NoEligibility.active = FALSE
    BY DEF NoEligibility, Record, RiskTier, BasedOn
  <2>2. /\ eligibilities = [b \in Users |-> NoEligibility]
        /\ nonces = [b \in Users |-> 0] /\ now = 0
    BY DEF Init, RegistryInit
  <2> HIDE DEF NoEligibility
  <2> QED
    BY <2>1, <2>2 DEF RecordsOK
<1>2. ProcessesOK
  <2>1. /\ stage = [p \in Processes |-> "start"] /\ registrar = "USCVerifier"
        /\ balance = [a \in Users \cup Contracts |-> IF a \in Users THEN InitialWallet ELSE 0]
    BY DEF Init
  <2> QED
    BY <1>1, <2>1, Onboarded DEF ProcessesOK, Stage, RegistrarAccountedFor, AnswerOK
<1>3. VerifierOK
  <2>1. /\ sourceToken = Unset /\ sourceChainId = Unset /\ sourceChainKey = Unset
        /\ supportedSourceTokens = {} /\ supportedSourceChainKeys = {}
        /\ processedQueries = {} /\ verifiedEvidence = {}
        /\ evidenceUsedForEligibility = {} /\ registrations = <<>>
    BY DEF Init, VerifierInit
  <2>2. PICK S : S = [borrower : Users, nonce : Nat, evidence : SUBSET verifiedEvidence]
    OBVIOUS
  <2>3. registrations \in Seq(S) /\ DOMAIN registrations = {}
    BY <2>1, EmptySeq
  <2>4. VerifierTypeOK
    BY <2>1, <2>2, <2>3 DEF VerifierTypeOK
  <2>5. OneClaimPerTransaction /\ SpentByRegistrations
    BY <2>1, <2>3 DEF OneClaimPerTransaction, SpentByRegistrations
  <2> QED
    BY <2>1, <2>4, <2>5 DEF VerifierOK
<1> QED
  BY <1>2, <1>3 DEF IInv

LEMMA NextKeeps == IInv /\ [Next]_vars => IInv'
<1> SUFFICES ASSUME ProcessesOK, VerifierOK, [Next]_vars
             PROVE  ProcessesOK' /\ VerifierOK'
  BY DEF IInv
<1>0. now \in Nat
  BY DEF ProcessesOK, RecordsOK
<1>1. CASE PassTime
  <2>1. now' \in Nat /\ UNCHANGED <<balance, registryVars, stage>> /\ UNCHANGED verifierVars
    BY <1>0, <1>1 DEF PassTime, Tick
  <2> QED
    BY <2>1, UnchangedProcesses, UnchangedVerifier
<1>2. CASE ConfigureSource
  <2>1. now' \in Nat /\ UNCHANGED <<balance, registryVars, stage>>
    BY <1>0, <1>2 DEF ConfigureSource
  <2> QED
    BY <1>2, <2>1, UnchangedProcesses, ConfigureKeeps
<1>3. CASE ProveEvidence
  <2>1. now' \in Nat /\ UNCHANGED <<balance, registryVars, stage>>
    BY <1>0, <1>3 DEF ProveEvidence
  <2> QED
    BY <1>3, <2>1, UnchangedProcesses, ProveKeeps
<1>4. CASE UseEvidence
  BY <1>4, UseKeepsProcesses, UseKeepsVerifier
<1>5. CASE Revoke
  <2>1. PICK b \in Users : RevokeEligibility(Owner, b)
    BY <1>5, Onboarded DEF Revoke
  <2>2. UNCHANGED <<now, balance, stage>> /\ UNCHANGED verifierVars
    BY <1>5 DEF Revoke
  <2>3. RecordsOK' /\ registrar' = registrar /\ nonces' = nonces
    BY <2>1, <2>2, RevokeKeeps DEF ProcessesOK
  <2> QED
    BY <2>2, <2>3, OthersKeep, UnchangedVerifier
<1>6. CASE \E p \in Processes : Proceed(p) \/ Fail(p)
  <2>1. PICK p \in Processes : Proceed(p) \/ Fail(p)
    BY <1>6
  <2>2. UNCHANGED verifierVars
    BY <2>1 DEF Proceed, ReadBalance, Fund, Check, TakeOver, Register, RegisterSelf, Restore, Fail
  <2> QED
    BY <2>1, <2>2, ProceedKeeps, UnchangedVerifier
<1>7. CASE UNCHANGED vars
  <2>1. now' \in Nat /\ UNCHANGED <<balance, registryVars, stage>> /\ UNCHANGED verifierVars
    BY <1>0, <1>7 DEF vars
  <2> QED
    BY <2>1, UnchangedProcesses, UnchangedVerifier
<1> QED
  BY <1>1, <1>2, <1>3, <1>4, <1>5, <1>6, <1>7 DEF Next

LEMMA AlwaysIInv == Spec => []IInv
BY InitOK, NextKeeps, PTL DEF Spec
-----------------------------------------------------------------------------
\* The state keeps its types, if what an evidence root stands for includes the
\* sets of verified evidence: then what USCVerifier hands the registry is fit
\* to be recorded.
THEOREM TypeCorrect ==
  ASSUME SUBSET VerifiedEvidence \subseteq Evidence
  PROVE  Spec => []TypeOK
<1>1. IInv => TypeOK
  <2> SUFFICES ASSUME IInv
               PROVE  TypeOK
    OBVIOUS
  <2>1. Record \subseteq Eligibility
    BY Onboarded DEF Record, Eligibility, BasedOn
  <2>2. RegistryTypeOK
    BY <2>1, Onboarded DEF IInv, ProcessesOK, RecordsOK, RegistryTypeOK
  <2>3. ChainTypeOK /\ VerifierTypeOK /\ stage \in [Processes -> Stage]
    BY DEF IInv, ProcessesOK, RecordsOK, VerifierOK, ChainTypeOK
  <2> QED
    BY <2>2, <2>3 DEF TypeOK
<1> QED
  BY <1>1, AlwaysIInv, PTL

\* Whatever proofs are submitted, about whomever and however often, a source
\* transaction proves one thing.
THEOREM OneClaim == Spec => []OneClaimPerTransaction
<1>1. IInv => OneClaimPerTransaction
  BY DEF IInv, VerifierOK
<1> QED
  BY <1>1, AlwaysIInv, PTL

\* Every recorded piece of evidence shows a transfer that happened, at the place
\* and between the accounts the record names.
THEOREM EvidenceIsTrue == Spec => []EvidenceShowsTransfer
<1>1. IInv => EvidenceShowsTransfer
  BY DEF IInv, VerifierOK, EvidenceShowsTransfer, Shows, Place
<1> QED
  BY <1>1, AlwaysIInv, PTL

\* No source transaction supports two registrations, however long the history.
THEOREM EvidenceUsedOnce == Spec => []EvidenceSupportsOneRegistration
<1>1. IInv => EvidenceSupportsOneRegistration
  <2> SUFFICES ASSUME IInv,
                      NEW i \in DOMAIN registrations, NEW j \in DOMAIN registrations, i # j,
                      NEW d \in registrations[i].evidence, NEW e \in registrations[j].evidence,
                      d.chainKey = e.chainKey, d.transaction = e.transaction
               PROVE  FALSE
    BY DEF EvidenceSupportsOneRegistration
  <2>1. d \in evidenceUsedForEligibility /\ e \in evidenceUsedForEligibility
    BY DEF IInv, VerifierOK, SpentByRegistrations
  <2>2. d \in verifiedEvidence /\ e \in verifiedEvidence
    BY <2>1 DEF IInv, VerifierOK, VerifierTypeOK
  <2>3. d = e
    BY <2>2 DEF IInv, VerifierOK, OneClaimPerTransaction
  <2> QED
    BY <2>3 DEF IInv, VerifierOK, SpentByRegistrations
<1> QED
  BY <1>1, AlwaysIInv, PTL

\* However many faucet requests and seeding runs overlap, evidence-based
\* registration is shut off only by one that has yet to give the registrar's
\* place back or that failed.
THEOREM RegistrarKept == Spec => []RegistrarAccountedFor
<1>1. IInv => RegistrarAccountedFor
  BY DEF IInv, ProcessesOK
<1> QED
  BY <1>1, AlwaysIInv, PTL

\* A process that answers with success leaves its account registered at least
\* once, whoever else takes the place over meanwhile.
THEOREM AnswersTrue == Spec => []AnswersAreTrue
<1>1. IInv => AnswersAreTrue
  BY DEF IInv, ProcessesOK, AnswerOK, AnswersAreTrue
<1> QED
  BY <1>1, AlwaysIInv, PTL
-----------------------------------------------------------------------------
(* Onboarding implements EvidenceLedger.                                   *)

\* The refinement mapping of Onboarding's Ledger, by name.
SpentEvidence == UNION {registrations[i].evidence : i \in DOMAIN registrations}
Entered == ClaimsOf(verifiedEvidence)
Spent == ClaimsOf(SpentEvidence)
Standing == [b \in Users |-> Basis(b)]

\* A borrower's record has the latest nonce, and no event has a later one.
FreshNonces ==
  /\ \A b \in Users : eligibilities[b].nonce = nonces[b]
  /\ \A i \in DOMAIN registrations :
       registrations[i].nonce <= nonces[registrations[i].borrower]

\* Borrower b gets a new record, with the next nonce; nobody else does.
Registered(b, evidence) ==
  /\ nonces' = [nonces EXCEPT ![b] = @ + 1]
  /\ eligibilities'[b].active = TRUE /\ eligibilities'[b].evidence = evidence
  /\ eligibilities'[b].nonce = nonces[b] + 1
  /\ \A a \in Users \ {b} : eligibilities'[a] = eligibilities[a]

LEMMA RegisterEffect ==
  ASSUME RecordsOK, NEW caller, NEW b \in Users, NEW tier, NEW credit, NEW ltv,
         NEW until, NEW evidence,
         RegisterEligibility(caller, b, tier, credit, ltv, until, evidence)
  PROVE  Registered(b, evidence)
<1> DEFINE new == [riskTier |-> tier, maxActiveCredit |-> credit, maxLtvBps |-> ltv,
                   validUntil |-> until, evidence |-> evidence,
                   nonce |-> nonces[b] + 1, active |-> TRUE]
<1>1. /\ nonces' = [nonces EXCEPT ![b] = @ + 1]
      /\ eligibilities' = [eligibilities EXCEPT ![b] = new]
  BY DEF RegisterEligibility
<1>2. new.active = TRUE /\ new.evidence = evidence /\ new.nonce = nonces[b] + 1
  OBVIOUS
<1> HIDE DEF new
<1> QED
  BY <1>1, <1>2 DEF RecordsOK, Registered

LEMMA RegistrationTypes ==
  ASSUME VerifierOK
  PROVE  /\ Len(registrations) \in Nat /\ DOMAIN registrations = 1 .. Len(registrations)
         /\ \A i \in DOMAIN registrations :
              /\ registrations[i].borrower \in Users /\ registrations[i].nonce \in Nat
              /\ registrations[i].evidence \subseteq verifiedEvidence
<1>1. PICK S : S = [borrower : Users, nonce : Nat, evidence : SUBSET verifiedEvidence]
  OBVIOUS
<1>2. registrations \in Seq(S)
  BY <1>1 DEF VerifierOK, VerifierTypeOK
<1>3. /\ Len(registrations) \in Nat /\ DOMAIN registrations = 1 .. Len(registrations)
      /\ \A i \in DOMAIN registrations : registrations[i] \in S
  BY <1>2, ElementOfSeq, LenProperties
<1> QED
  BY <1>1, <1>3

\* What a registration from evidence does, in both halves.
Supported(b, evidence) ==
  /\ evidence # {} /\ evidence \subseteq verifiedEvidence
  /\ \A e \in evidence : e.borrower = b
  /\ evidence \cap SpentEvidence = {}
  /\ Registered(b, evidence)
  /\ verifiedEvidence' = verifiedEvidence
  /\ DOMAIN registrations' = DOMAIN registrations \cup {Len(registrations) + 1}
  /\ Len(registrations) + 1 \notin DOMAIN registrations
  /\ \A i \in DOMAIN registrations : registrations'[i] = registrations[i]
  /\ registrations'[Len(registrations) + 1] =
       [borrower |-> b, nonce |-> nonces[b] + 1, evidence |-> evidence]

LEMMA UseEffect ==
  ASSUME IInv, UseEvidence
  PROVE  \E b \in Users, evidence \in SUBSET verifiedEvidence : Supported(b, evidence)
<1>1. PICK b \in Users, grant \in Grants, life \in Lifetimes, evidence \in SUBSET verifiedEvidence :
        RegisterEligibilityFromEvidence(b, grant.tier, grant.credit, grant.ltv,
                                        now + life, evidence)
  BY Onboarded DEF UseEvidence
<1> DEFINE n == Len(registrations) + 1
           r == [borrower |-> b, nonce |-> nonces[b] + 1, evidence |-> evidence]
<1>2. /\ evidence # {} /\ \A e \in evidence : e.borrower = b
      /\ evidence \cap SpentEvidence = {}
      /\ verifiedEvidence' = verifiedEvidence
      /\ registrations' = Append(registrations, r)
  BY <1>1 DEF RegisterEligibilityFromEvidence, evidenceVars, IInv, VerifierOK,
              SpentByRegistrations, SpentEvidence
<1>3. Registered(b, evidence)
  BY <1>1, RegisterEffect DEF RegisterEligibilityFromEvidence, IInv, ProcessesOK
<1>4. PICK S : S = [borrower : Users, nonce : Nat, evidence : SUBSET verifiedEvidence]
  OBVIOUS
<1>5. registrations \in Seq(S) /\ r \in S
  BY <1>4 DEF IInv, VerifierOK, VerifierTypeOK, ProcessesOK, RecordsOK
<1> HIDE DEF r
<1>6. /\ Len(registrations) \in Nat
      /\ DOMAIN registrations = 1 .. Len(registrations)
      /\ DOMAIN registrations' = 1 .. n
      /\ \A i \in DOMAIN registrations : registrations'[i] = registrations[i]
      /\ registrations'[n] = r
  BY <1>2, <1>5, AppendProperties, LenProperties
<1>7. DOMAIN registrations' = DOMAIN registrations \cup {n} /\ n \notin DOMAIN registrations
  BY <1>6
<1> QED
  BY <1>2, <1>3, <1>6, <1>7 DEF Supported, r

\* Apart from proofs and registrations from evidence, a step revokes one record,
\* or the owner registers one account, or neither ledger nor records change.
LEMMA LedgerSteps ==
  ASSUME IInv, [Next]_vars
  PROVE  \/ ProveEvidence /\ UNCHANGED <<registrations, eligibilities, nonces>>
         \/ UseEvidence
         \/ /\ UNCHANGED <<verifiedEvidence, registrations>>
            /\ \/ UNCHANGED <<eligibilities, nonces>>
               \/ \E b \in Users : RevokeEligibility(Owner, b)
               \/ \E b \in Users : Registered(b, DeployerEvidence)
<1>1. ASSUME UNCHANGED verifierVars
      PROVE  UNCHANGED <<verifiedEvidence, registrations>>
  BY <1>1 DEF verifierVars, evidenceVars, usageVars
<1>2. CASE PassTime \/ UNCHANGED vars
  BY <1>1, <1>2 DEF PassTime, vars, registryVars
<1>3. CASE ConfigureSource
  BY <1>3 DEF ConfigureSource, SetSourceToken, ConfigureSourceToken, SetSourceChainKey,
              ConfigureSourceChainKey, evidenceVars, usageVars, registryVars
<1>4. CASE ProveEvidence
  BY <1>4 DEF ProveEvidence, VerifyEvidence, usageVars, registryVars
<1>5. CASE Revoke
  BY <1>1, <1>5, Onboarded DEF Revoke
<1>6. ASSUME NEW p \in Processes, Proceed(p) \/ Fail(p)
      PROVE  /\ UNCHANGED verifierVars
             /\ \/ UNCHANGED <<eligibilities, nonces>>
                \/ \E b \in Users : Registered(b, DeployerEvidence)
  <2>1. UNCHANGED verifierVars
    BY <1>6 DEF Proceed, ReadBalance, Fund, Check, TakeOver, Register, RegisterSelf, Restore, Fail
  <2>2. ASSUME NEW a \in Users, NEW next, RegisterAs(p, a, next)
        PROVE  UNCHANGED <<eligibilities, nonces>> \/ Registered(a, DeployerEvidence)
    BY <2>2, RegisterEffect DEF RegisterAs, registryVars, IInv, ProcessesOK
  <2>3. CASE Register(p)
    BY <2>1, <2>2, <2>3, Onboarded DEF Register
  <2>4. CASE RegisterSelf(p)
    BY <2>1, <2>2, <2>4, Onboarded DEF RegisterSelf
  <2>5. CASE ~ (Register(p) \/ RegisterSelf(p))
    BY <1>6, <2>1, <2>5 DEF Proceed, ReadBalance, Fund, Check, TakeOver, Restore, Fail,
                            registryVars, SetRegistrar
  <2> QED
    BY <2>3, <2>4, <2>5
<1> QED
  BY <1>1, <1>2, <1>3, <1>4, <1>5, <1>6 DEF Next

LEMMA FreshInit == Init => FreshNonces
<1> SUFFICES ASSUME Init PROVE FreshNonces
  OBVIOUS
<1>1. /\ registrations = <<>> /\ nonces = [b \in Users |-> 0]
      /\ eligibilities = [b \in Users |-> NoEligibility]
  BY DEF Init, VerifierInit, RegistryInit
<1>2. DOMAIN registrations = {} /\ NoEligibility.nonce = 0
  BY <1>1 DEF NoEligibility
<1> QED
  BY <1>1, <1>2 DEF FreshNonces

LEMMA FreshNext == IInv /\ FreshNonces /\ [Next]_vars => FreshNonces'
<1> SUFFICES ASSUME IInv, FreshNonces, [Next]_vars PROVE FreshNonces'
  OBVIOUS
<1>0. /\ nonces \in [Users -> Nat]
      /\ \A i \in DOMAIN registrations :
           registrations[i].borrower \in Users /\ registrations[i].nonce \in Nat
  BY RegistrationTypes DEF IInv, ProcessesOK, RecordsOK
<1>1. CASE UNCHANGED <<registrations, eligibilities, nonces>>
  BY <1>1 DEF FreshNonces
<1>2. CASE UNCHANGED registrations /\ \E b \in Users : RevokeEligibility(Owner, b)
  <2>1. PICK b \in Users : RevokeEligibility(Owner, b)
    BY <1>2
  <2>2. /\ nonces' = nonces
        /\ \A a \in Users : eligibilities'[a].nonce = eligibilities[a].nonce
    BY <2>1 DEF RevokeEligibility, IInv, ProcessesOK, RecordsOK, Record
  <2> QED
    BY <1>2, <2>2 DEF FreshNonces
<1>3. ASSUME NEW b \in Users, NEW evidence, Registered(b, evidence), UNCHANGED registrations
      PROVE  FreshNonces'
  BY <1>0, <1>3 DEF FreshNonces, Registered
<1>4. ASSUME NEW b \in Users, NEW evidence, Supported(b, evidence)
      PROVE  FreshNonces'
  <2>1. /\ \A i \in DOMAIN registrations : registrations'[i] = registrations[i]
        /\ DOMAIN registrations' = DOMAIN registrations \cup {Len(registrations) + 1}
        /\ registrations'[Len(registrations) + 1].borrower = b
        /\ registrations'[Len(registrations) + 1].nonce = nonces[b] + 1
        /\ Registered(b, evidence)
    BY <1>4 DEF Supported
  <2>2. nonces'[b] = nonces[b] + 1 /\ \A a \in Users \ {b} : nonces'[a] = nonces[a]
    BY <1>0, <2>1 DEF Registered
  <2>3. \A i \in DOMAIN registrations : registrations'[i].nonce <= nonces'[registrations'[i].borrower]
    BY <1>0, <2>1, <2>2 DEF FreshNonces
  <2>4. \A a \in Users : eligibilities'[a].nonce = nonces'[a]
    BY <1>0, <2>1, <2>2 DEF FreshNonces, Registered
  <2> QED
    BY <1>0, <2>1, <2>2, <2>3, <2>4 DEF FreshNonces
<1> QED
  BY <1>1, <1>2, <1>3, <1>4, LedgerSteps, UseEffect

\* Registrations keep what records other than b's rest on, and an event of b's
\* with its new nonce is only there if the step wrote it.
LEMMA OthersStand ==
  ASSUME IInv, NEW b \in Users, NEW evidence, Registered(b, evidence),
         NEW a \in Users \ {b},
         FromEvidence(a)' <=> FromEvidence(a)
  PROVE  Basis(a)' = Basis(a)
BY DEF Registered, Basis, ClaimsOf, Claim

\* A borrower's claims are as good as its evidence: different evidence makes
\* different claims, as no two pieces share a source.
LEMMA ClaimsApart ==
  ASSUME IInv, NEW S, S \subseteq verifiedEvidence, NEW T, T \subseteq verifiedEvidence,
         S \cap T = {}
  PROVE  ClaimsOf(S) \cap ClaimsOf(T) = {}
<1> SUFFICES ASSUME NEW d \in S, NEW e \in T, Claim(d) = Claim(e) PROVE FALSE
  BY DEF ClaimsOf
<1>1. Claim(d).source = <<d.chainKey, d.transaction>>
  BY DEF Claim
<1>2. Claim(e).source = <<e.chainKey, e.transaction>>
  BY DEF Claim
<1>3. d.chainKey = e.chainKey /\ d.transaction = e.transaction
  BY <1>1, <1>2
<1> QED
  BY <1>3 DEF IInv, VerifierOK, OneClaimPerTransaction

LEMMA LedgerInit == Init => Ledger!Init
<1> SUFFICES ASSUME Init
             PROVE  Entered = {} /\ Spent = {} /\ Standing = [b \in Users |-> NoEvidence]
  BY DEF Ledger!Init, Entered, Spent, SpentEvidence, Standing
<1>1. /\ registrations = <<>> /\ verifiedEvidence = {}
      /\ eligibilities = [b \in Users |-> NoEligibility]
  BY DEF Init, VerifierInit, RegistryInit
<1>2. DOMAIN registrations = {} /\ NoEligibility.active = FALSE
  BY <1>1 DEF NoEligibility
<1>3. Entered = {} /\ Spent = {}
  BY <1>1, <1>2 DEF Entered, Spent, SpentEvidence, ClaimsOf
<1>4. \A b \in Users : Basis(b) = NoEvidence
  BY <1>1, <1>2 DEF Basis
<1> QED
  BY <1>3, <1>4 DEF Standing

\* Evidence that shows a transfer makes a true claim.
LEMMA ShownIsTrue ==
  ASSUME NEW e \in VerifiedEvidence, Shows(e)
  PROVE  Claim(e) \in TrueClaims
<1>1. PICK i \in Inclusions : i = Place(e)
  BY DEF Shows
<1>2. i.chainKey = e.chainKey /\ i.transaction = e.transaction
  BY <1>1 DEF Place
<1>3. PICK n \in DOMAIN i.transaction.transfers :
        LET transfer == i.transaction.transfers[n]
        IN  /\ transfer.from = e.sender /\ transfer.value = e.amount
            /\ IF e.evidenceType = "INFLOW"
               THEN transfer.to = e.borrower /\ e.sender = i.transaction.from
               ELSE transfer.from = e.borrower
  BY <1>2 DEF Shows
<1> DEFINE t == i.transaction.transfers[n]
           source == <<i.chainKey, i.transaction>>
           paid == {u \in Range(i.transaction.transfers) : u.value > 0}
           inflows == {[source |-> source, kind |-> "INFLOW", about |-> u.to,
                        sender |-> u.from, amount |-> u.value]
                          : u \in {v \in paid : v.from = i.transaction.from}}
           repayments == {[source |-> source, kind |-> "REPAYMENT", about |-> u.from,
                           sender |-> u.from, amount |-> u.value] : u \in paid}
<1>4. t \in paid
  <2>1. t \in Range(i.transaction.transfers)
    BY DEF Range
  <2>2. t.value > 0
    BY <1>3 DEF Shows
  <2> QED
    BY <2>1, <2>2
<1>5. Claim(e) = [source |-> source, kind |-> e.evidenceType, about |-> e.borrower,
                  sender |-> t.from, amount |-> t.value]
  BY <1>2, <1>3 DEF Claim
<1> HIDE DEF t, source, paid
<1>6. Claim(e) \in inflows \cup repayments
  <2>1. e.evidenceType \in {"INFLOW", "REPAYMENT"}
    BY DEF VerifiedEvidence, EvidenceType
  <2>2. CASE e.evidenceType = "INFLOW"
    BY <1>3, <1>4, <1>5, <2>2 DEF t
  <2>3. CASE e.evidenceType = "REPAYMENT"
    BY <1>3, <1>4, <1>5, <2>3 DEF t
  <2> QED
    BY <2>1, <2>2, <2>3
<1>7. i.transaction.succeeded
  BY <1>2 DEF Shows
<1> QED
  BY <1>6, <1>7 DEF TrueClaims, source, paid

LEMMA LedgerEnter ==
  ASSUME IInv, ProveEvidence, UNCHANGED <<registrations, eligibilities, nonces>>
  PROVE  Ledger!Next
<1>1. PICK type \in EvidenceType, b \in Users, inclusion \in Inclusions :
        VerifyEvidence(type, b, inclusion)
  BY Onboarded DEF ProveEvidence
<1>2. PICK e : e = EvidenceOf(type, b, inclusion)
  OBVIOUS
<1>3. verifiedEvidence' = verifiedEvidence \cup {e} /\ inclusion \notin processedQueries
  BY <1>1, <1>2 DEF VerifyEvidence
<1>4. e \in VerifiedEvidence /\ Place(e) = inclusion /\ Shows(e)
  <2>1. /\ sourceToken \in SourceTokens /\ sourceChainId \in SourceChainIds
        /\ inclusion.transaction.succeeded
        /\ Matches(type, b, inclusion.transaction) # {}
        /\ type = "INFLOW" => e.sender = inclusion.transaction.from
    BY <1>1, <1>2 DEF VerifyEvidence, IInv, VerifierOK, VerifierTypeOK
  <2> QED
    BY <1>2, <2>1, EvidenceOfShows
<1>5. Claim(e) \in TrueClaims
  BY <1>4, ShownIsTrue
<1>6. \A c \in Entered : c.source # Claim(e).source
  <2> SUFFICES ASSUME NEW d \in verifiedEvidence, Claim(d).source = Claim(e).source
               PROVE  FALSE
    BY DEF Entered, ClaimsOf
  <2>1. d.chainKey = e.chainKey /\ d.transaction = e.transaction
    BY DEF Claim
  <2>2. Place(d) \in processedQueries /\ Place(d) \in Inclusions
    BY DEF IInv, VerifierOK, Shows
  <2>3. Place(d).chainKey = inclusion.chainKey /\ Place(d).transaction = inclusion.transaction
    BY <1>4, <2>1 DEF Place
  <2> QED
    BY <1>3, <2>2, <2>3, OneInclusion
<1>7. Entered' = Entered \cup {Claim(e)} /\ Spent' = Spent
  BY <1>3 DEF Entered, Spent, SpentEvidence, ClaimsOf, Claim
<1>8. Standing' = Standing
  BY DEF Standing, Basis, FromEvidence, ClaimsOf, Claim
<1>9. Ledger!Enter(Claim(e))
  BY <1>6, <1>7, <1>8 DEF Ledger!Enter, Entered, Spent, SpentEvidence, Standing
<1> QED
  BY <1>5, <1>9 DEF Ledger!Next

LEMMA LedgerGrant ==
  ASSUME IInv, FreshNonces, NEW b \in Users, NEW evidence, Supported(b, evidence)
  PROVE  Ledger!Next
<1> DEFINE n == Len(registrations) + 1
<1>1. /\ evidence # {} /\ evidence \subseteq verifiedEvidence
      /\ \A e \in evidence : e.borrower = b
      /\ evidence \cap SpentEvidence = {}
      /\ Registered(b, evidence) /\ verifiedEvidence' = verifiedEvidence
      /\ DOMAIN registrations' = DOMAIN registrations \cup {n} /\ n \notin DOMAIN registrations
      /\ \A i \in DOMAIN registrations : registrations'[i] = registrations[i]
      /\ registrations'[n] = [borrower |-> b, nonce |-> nonces[b] + 1, evidence |-> evidence]
  BY DEF Supported
<1> HIDE DEF n
<1>2. /\ ClaimsOf(evidence) # {} /\ ClaimsOf(evidence) \subseteq Entered
      /\ \A c \in ClaimsOf(evidence) : c.about = b
  <2>1. \A e \in evidence : Claim(e).about = b
    BY <1>1 DEF Claim
  <2> QED
    BY <1>1, <2>1 DEF ClaimsOf, Entered
<1>3. ClaimsOf(evidence) \cap Spent = {}
  <2>1. SpentEvidence \subseteq verifiedEvidence
    BY RegistrationTypes DEF IInv, SpentEvidence
  <2> QED
    BY <1>1, <2>1, ClaimsApart DEF Spent
<1>4. SpentEvidence' = SpentEvidence \cup evidence
  <2>1. ASSUME NEW x
        PROVE  (\E i \in DOMAIN registrations' : x \in registrations'[i].evidence)
               <=> (\E i \in DOMAIN registrations : x \in registrations[i].evidence) \/ x \in evidence
    BY <1>1
  <2> QED
    BY <2>1 DEF SpentEvidence
<1>5. Spent' = Spent \cup ClaimsOf(evidence) /\ Entered' = Entered
  BY <1>1, <1>4 DEF Spent, Entered, ClaimsOf, Claim
<1>6. Basis(b)' = ClaimsOf(evidence)
  <2>1. FromEvidence(b)'
    BY <1>1 DEF FromEvidence, Registered
  <2> QED
    BY <1>1, <2>1 DEF Basis, Registered, ClaimsOf, Claim
<1>7. ASSUME NEW a \in Users \ {b} PROVE Basis(a)' = Basis(a)
  <2>1. eligibilities'[a] = eligibilities[a]
    BY <1>1 DEF Registered
  <2>2. FromEvidence(a)' <=> FromEvidence(a)
    BY <1>1, <2>1 DEF FromEvidence
  <2> QED
    BY <1>1, <2>2, OthersStand
<1>8. Standing' = [Standing EXCEPT ![b] = ClaimsOf(evidence)]
  BY <1>6, <1>7 DEF Standing
<1>9. Ledger!Grant(b, ClaimsOf(evidence))
  BY <1>2, <1>3, <1>5, <1>8 DEF Ledger!Grant, Entered, Spent, SpentEvidence, Standing
<1> QED
  BY <1>2, <1>9 DEF Ledger!Next, Entered

LEMMA LedgerVouch ==
  ASSUME IInv, FreshNonces, UNCHANGED <<verifiedEvidence, registrations>>,
         NEW b \in Users, Registered(b, DeployerEvidence)
  PROVE  Ledger!Next
<1>1. Entered' = Entered /\ Spent' = Spent
  BY DEF Entered, Spent, SpentEvidence, ClaimsOf, Claim
<1>2. Basis(b)' = DeployerEvidence
  <2>1. ASSUME NEW i \in DOMAIN registrations, registrations[i].borrower = b
        PROVE  registrations[i].nonce # nonces[b] + 1
    <3>1. nonces[b] \in Nat /\ registrations[i].nonce \in Nat
      BY RegistrationTypes DEF IInv, ProcessesOK, RecordsOK
    <3> QED
      BY <2>1, <3>1 DEF FreshNonces
  <2>2. ~FromEvidence(b)'
    BY <2>1 DEF FromEvidence, Registered
  <2> QED
    BY <2>2 DEF Basis, Registered
<1>3. ASSUME NEW a \in Users \ {b} PROVE Basis(a)' = Basis(a)
  <2>1. eligibilities'[a] = eligibilities[a]
    BY DEF Registered
  <2>2. FromEvidence(a)' <=> FromEvidence(a)
    BY <2>1 DEF FromEvidence
  <2> QED
    BY <2>2, OthersStand
<1>4. Standing' = [Standing EXCEPT ![b] = DeployerEvidence]
  BY <1>2, <1>3 DEF Standing
<1>5. Ledger!Vouch(b)
  BY <1>1, <1>4 DEF Ledger!Vouch, Entered, Spent, SpentEvidence, Standing
<1> QED
  BY <1>5 DEF Ledger!Next

LEMMA LedgerWithdraw ==
  ASSUME IInv, UNCHANGED <<verifiedEvidence, registrations>>,
         NEW b \in Users, RevokeEligibility(Owner, b)
  PROVE  Ledger!Next
<1>1. Entered' = Entered /\ Spent' = Spent
  BY DEF Entered, Spent, SpentEvidence, ClaimsOf, Claim
<1>2. /\ eligibilities'[b].active = FALSE
      /\ \A a \in Users \ {b} : eligibilities'[a] = eligibilities[a]
  BY DEF RevokeEligibility, IInv, ProcessesOK, RecordsOK, Record
<1>3. Basis(b)' = NoEvidence
  BY <1>2 DEF Basis
<1>4. \A a \in Users \ {b} : Basis(a)' = Basis(a)
  BY <1>2 DEF Basis, FromEvidence, ClaimsOf, Claim
<1>5. Standing' = [Standing EXCEPT ![b] = NoEvidence]
  BY <1>3, <1>4 DEF Standing
<1>6. Ledger!Withdraw(b)
  BY <1>1, <1>5 DEF Ledger!Withdraw, Entered, Spent, SpentEvidence, Standing
<1> QED
  BY <1>6 DEF Ledger!Next

LEMMA LedgerNext ==
  IInv /\ FreshNonces /\ [Next]_vars => [Ledger!Next]_(Ledger!ledgerVars)
<1> SUFFICES ASSUME IInv, FreshNonces, [Next]_vars
             PROVE  Ledger!Next \/ UNCHANGED <<Entered, Spent, Standing>>
  BY DEF Ledger!ledgerVars, Entered, Spent, SpentEvidence, Standing
<1>1. CASE UNCHANGED <<verifiedEvidence, registrations, eligibilities, nonces>>
  BY <1>1 DEF Entered, Spent, SpentEvidence, Standing, Basis, FromEvidence, ClaimsOf, Claim
<1> QED
  BY <1>1, LedgerSteps, UseEffect, LedgerEnter, LedgerGrant, LedgerVouch, LedgerWithdraw

\* The verifier, the registry and the processes that take the registrar's place
\* keep the ledger's promise: every step enters one true claim of a new source,
\* grants one borrower terms for claims of its own never used before, records
\* the deployer's word for one, withdraws one's terms, or leaves the ledger alone.
THEOREM ImplementsEvidenceLedger == Spec => KeepsEvidenceLedger
<1>1. Spec => Ledger!Init
  BY LedgerInit DEF Spec
<1>2. Spec => [][Ledger!Next]_(Ledger!ledgerVars)
  BY LedgerNext, FreshInit, FreshNext, AlwaysIInv, PTL DEF Spec
<1> QED
  BY <1>1, <1>2 DEF KeepsEvidenceLedger, Ledger!Spec
=============================================================================
