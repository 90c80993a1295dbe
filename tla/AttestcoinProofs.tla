-------------------------- MODULE AttestcoinProofs --------------------------
(***************************************************************************)
(* Theorems about AttestcoinService, for every set of borrowers, source    *)
(* transactions, claims and calls, with or without faults, and every bound *)
(***************************************************************************)
EXTENDS AttestcoinService, SequenceTheorems, TLAPS

LEMMA ServiceTypes ==
  ASSUME TypeOK
  PROVE  /\ requests \in Seq(VerificationRequest) /\ Len(requests) \in Nat
         /\ DOMAIN requests = 1 .. Len(requests)
         /\ \A r \in DOMAIN requests : requests[r] \in VerificationRequest
         /\ DOMAIN job = DOMAIN requests
BY ElementOfSeq, LenProperties DEF TypeOK

LEMMA SubmissionTypes ==
  ASSUME TypeOK
  PROVE  /\ sent \in Seq(Submission) /\ Len(sent) \in Nat /\ DOMAIN sent = 1 .. Len(sent)
         /\ \A i \in DOMAIN sent : sent[i] \in Submission
BY ElementOfSeq, LenProperties DEF TypeOK
-----------------------------------------------------------------------------
(* What steps do to sequences.                                             *)

\* Request r is changed alone, and becomes new.
Changed(r, new) ==
  /\ requests' \in Seq(VerificationRequest) /\ Len(requests') = Len(requests)
  /\ DOMAIN requests' = DOMAIN requests
  /\ requests'[r] = new
  /\ \A i \in DOMAIN requests \ {r} : requests'[i] = requests[i]

LEMMA ChangeEffect ==
  ASSUME TypeOK, NEW r \in DOMAIN requests, NEW new \in VerificationRequest,
         requests' = [requests EXCEPT ![r] = new]
  PROVE  Changed(r, new)
<1>1. requests' \in Seq(VerificationRequest) /\ Len(requests') = Len(requests)
      /\ \A i \in DOMAIN requests : requests'[i] = IF i = r THEN new ELSE requests[i]
  BY ServiceTypes, ExceptSeq
<1>2. DOMAIN requests' = DOMAIN requests
  OBVIOUS
<1> QED
  BY <1>1, <1>2 DEF Changed

\* What a failure writes into request r.
Failed(r) == [requests[r] EXCEPT !.status = "FAILED"]

LEMMA FailEffect ==
  ASSUME TypeOK, NEW r \in DOMAIN requests,
         requests' = [requests EXCEPT ![r].status = "FAILED"]
  PROVE  Changed(r, Failed(r)) /\ Failed(r) \in VerificationRequest
<1>1. Failed(r) \in VerificationRequest
  BY ServiceTypes DEF Failed, VerificationRequest, Status
<1>2. requests' = [requests EXCEPT ![r] = Failed(r)]
  BY ServiceTypes DEF Failed, VerificationRequest
<1> QED
  BY <1>1, <1>2, ChangeEffect

LEMMA JobEffect ==
  ASSUME TypeOK, NEW r \in DOMAIN requests,
         NEW next \in {"getTransaction", "getProof", "ended"},
         job' = [job EXCEPT ![r] = next]
  PROVE  /\ job' \in Seq({"getTransaction", "getProof", "ended"}) /\ Len(job') = Len(job)
         /\ DOMAIN job' = DOMAIN requests
         /\ \A i \in DOMAIN requests : job'[i] = IF i = r THEN next ELSE job[i]
<1> DEFINE S == {"getTransaction", "getProof", "ended"}
<1>1. job \in Seq(S) /\ r \in 1 .. Len(job) /\ DOMAIN requests = 1 .. Len(job) /\ next \in S
  BY ServiceTypes, LenProperties DEF TypeOK
<1> HIDE DEF S
<1>2. /\ [job EXCEPT ![r] = next] \in Seq(S) /\ Len([job EXCEPT ![r] = next]) = Len(job)
      /\ \A j \in 1 .. Len(job) : [job EXCEPT ![r] = next][j] = IF j = r THEN next ELSE job[j]
  BY <1>1, ExceptSeq
<1>3. DOMAIN job' = DOMAIN requests
  BY ServiceTypes
<1> QED
  BY <1>1, <1>2, <1>3 DEF S

\* The request a claim starts.
New(claim) ==
  [borrower |-> claim.borrower, eventType |-> claim.eventType,
   txHash |-> claim.sourceTx, status |-> "VERIFIED", sourceBlock |-> None,
   hasProof |-> FALSE, feature |-> None]

LEMMA CreateEffect ==
  ASSUME TypeOK, NEW claim \in Claims, CreateVerificationRequest(claim)
  PROVE  /\ requests' \in Seq(VerificationRequest)
         /\ job' \in Seq({"getTransaction", "getProof", "ended"})
         /\ Len(requests') = Len(requests) + 1 /\ Len(job') = Len(requests')
         /\ DOMAIN requests' = DOMAIN requests \cup {Len(requests) + 1}
         /\ Len(requests) + 1 \notin DOMAIN requests
         /\ \A r \in DOMAIN requests : requests'[r] = requests[r] /\ job'[r] = job[r]
         /\ requests'[Len(requests) + 1] = New(claim)
         /\ nodes' = nodes \cup {[borrower |-> claim.borrower, uscEvidenceId |-> None]}
         /\ claim.borrower \in Borrowers
         /\ UNCHANGED <<calls, prepared, sent>>
<1> DEFINE S == {"getTransaction", "getProof", "ended"}
<1>1. /\ claim.borrower \in Borrowers /\ claim.sourceTx \in SourceTxs
      /\ claim.eventType \in EventType
  BY ServiceInputs DEF EventType
<1>2. New(claim) \in VerificationRequest
  BY <1>1 DEF New, VerificationRequest, Status
<1>3. /\ requests' = Append(requests, New(claim)) /\ job' = Append(job, "getTransaction")
      /\ nodes' = nodes \cup {[borrower |-> claim.borrower, uscEvidenceId |-> None]}
      /\ UNCHANGED <<calls, prepared, sent>>
  BY DEF CreateVerificationRequest, New
<1>4. /\ job \in Seq(S) /\ Len(job) = Len(requests) /\ "getTransaction" \in S
      /\ requests \in Seq(VerificationRequest) /\ Len(requests) \in Nat
      /\ DOMAIN requests = 1 .. Len(requests)
  BY ServiceTypes DEF TypeOK
<1> HIDE DEF S
<1>5. /\ requests' \in Seq(VerificationRequest) /\ Len(requests') = Len(requests) + 1
      /\ requests'[Len(requests) + 1] = New(claim)
      /\ \A r \in 1 .. Len(requests) : requests'[r] = requests[r]
  BY <1>2, <1>3, <1>4, AppendProperties
<1>6. /\ job' \in Seq(S) /\ Len(job') = Len(requests) + 1
      /\ \A r \in 1 .. Len(requests) : job'[r] = job[r]
  BY <1>3, <1>4, AppendProperties
<1>7. DOMAIN requests' = 1 .. Len(requests) + 1
  BY <1>4, <1>5, LenProperties
<1> QED
  BY <1>1, <1>3, <1>4, <1>5, <1>6, <1>7 DEF S

\* Call c is changed alone, and becomes new.
Moved(c, new) ==
  /\ calls' \in [Calls -> Call \cup {Idle}]
  /\ calls'[c] = new
  /\ \A d \in Calls \ {c} : calls'[d] = calls[d]

LEMMA CallTypes ==
  ASSUME TypeOK, NEW c \in Calls, calls[c] # Idle
  PROVE  /\ calls[c] \in Call /\ calls[c].request \in DOMAIN requests
         /\ calls[c].request \in Nat /\ calls[c].tx \in Nat /\ calls[c].evidence \in EvidenceId
         /\ calls[c].stage \in {"network", "receipt", "evidence"}
BY DEF TypeOK, Call

LEMMA IdleStage == Idle.stage = "idle"
BY DEF Idle

LEMMA EndEffect ==
  ASSUME TypeOK, NEW c \in Calls, EndCall(c)
  PROVE  Moved(c, Idle)
BY DEF TypeOK, EndCall, Moved

\* The next stage of call c.
At(c, stage) == [calls[c] EXCEPT !.stage = stage]

LEMMA StageEffect ==
  ASSUME TypeOK, NEW c \in Calls, calls[c] # Idle, NEW stage \in {"receipt", "evidence"},
         calls' = [calls EXCEPT ![c].stage = stage]
  PROVE  /\ Moved(c, At(c, stage))
         /\ At(c, stage).stage = stage /\ At(c, stage).request = calls[c].request
         /\ At(c, stage).tx = calls[c].tx /\ At(c, stage).evidence = calls[c].evidence
<1>1. calls[c] \in Call
  BY CallTypes
<1>2. At(c, stage) \in Call
  BY <1>1 DEF At, Call
<1>3. /\ At(c, stage).stage = stage /\ At(c, stage).request = calls[c].request
      /\ At(c, stage).tx = calls[c].tx /\ At(c, stage).evidence = calls[c].evidence
  BY <1>1 DEF At, Call
<1>4. calls' = [calls EXCEPT ![c] = At(c, stage)]
  BY DEF At
<1> QED
  BY <1>2, <1>3, <1>4 DEF TypeOK, Moved

\* Transaction i is mined, with this result.
Mined(i, result) ==
  /\ sent' \in Seq(Submission) /\ DOMAIN sent' = DOMAIN sent
  /\ sent'[i] = [sent[i] EXCEPT !.state = result]
  /\ \A j \in DOMAIN sent \ {i} : sent'[j] = sent[j]

LEMMA MineEffect ==
  ASSUME TypeOK, NEW i \in DOMAIN sent, Mine(i)
  PROVE  /\ sent[i].state = "PENDING"
         /\ \E result \in {"SUCCESS", "REVERTED"} : Mined(i, result)
         /\ UNCHANGED serviceVars
<1>1. PICK result \in {"SUCCESS", "REVERTED"} : sent' = [sent EXCEPT ![i].state = result]
  BY DEF Mine
<1> DEFINE new == [sent[i] EXCEPT !.state = result]
<1>2. sent \in Seq(Submission) /\ sent[i] \in Submission /\ i \in 1 .. Len(sent)
  BY SubmissionTypes
<1>3. new \in Submission
  BY <1>2 DEF Submission
<1>4. sent' = [sent EXCEPT ![i] = new]
  BY <1>1
<1> HIDE DEF new
<1>5. /\ sent' \in Seq(Submission)
      /\ \A j \in 1 .. Len(sent) : sent'[j] = IF j = i THEN new ELSE sent[j]
  BY <1>2, <1>3, <1>4, ExceptSeq
<1>6. DOMAIN sent' = DOMAIN sent
  BY <1>4
<1>7. Mined(i, result)
  BY <1>2, <1>5, <1>6, SubmissionTypes DEF Mined, new
<1> QED
  BY <1>1, <1>7 DEF Mine

LEMMA SendEffect ==
  ASSUME TypeOK, NEW r \in DOMAIN requests, NEW from \in Borrowers,
         PrepareVerification(r, from)
  PROVE  /\ sent' \in Seq(Submission)
         /\ DOMAIN sent \subseteq DOMAIN sent'
         /\ \A i \in DOMAIN sent : sent'[i] = sent[i]
         /\ UNCHANGED serviceVars
<1> DEFINE new == [from |-> from, evidence |-> EvidenceOf(requests[r]), state |-> "PENDING"]
<1>1. EvidenceOf(requests[r]) \in EvidenceId
  BY ServiceTypes DEF EvidenceOf, EvidenceId, VerificationRequest
<1>2. new \in Submission
  BY <1>1 DEF Submission
<1>3. sent' = Append(sent, new) /\ UNCHANGED serviceVars
  BY DEF PrepareVerification
<1> HIDE DEF new
<1>4. /\ sent' \in Seq(Submission) /\ Len(sent') = Len(sent) + 1
      /\ \A i \in 1 .. Len(sent) : sent'[i] = sent[i]
  BY <1>2, <1>3, SubmissionTypes, AppendProperties
<1>5. DOMAIN sent' = 1 .. Len(sent')
  BY <1>4, LenProperties
<1> QED
  BY <1>3, <1>4, <1>5, SubmissionTypes
-----------------------------------------------------------------------------
(* Terms.                                                                  *)

\* Whatever the score, the terms are those of one tier or a rejection.
LEMMA TermsTypes ==
  ASSUME NEW score, TermsOf(score).tier # "REJECTED"
  PROVE  /\ TermsOf(score) \in [tier : RiskTier, credit : Nat, ltv : Nat]
         /\ TermsOf(score).credit <= TierMaxCredit[TermsOf(score).tier]
         /\ TermsOf(score).ltv <= TierMaxLtvBps[TermsOf(score).tier]
<1> DEFINE low      == [tier |-> "LOW", credit |-> 10000, ltv |-> 6500]
           medium   == [tier |-> "MEDIUM", credit |-> 5000, ltv |-> 5000]
           high     == [tier |-> "HIGH", credit |-> 2000, ltv |-> 3500]
<1>1. TermsOf(score) \in {low, medium, high}
  BY DEF TermsOf
<1>2. /\ TierMaxCredit["LOW"] = 10000 /\ TierMaxLtvBps["LOW"] = 6500
      /\ TierMaxCredit["MEDIUM"] = 5000 /\ TierMaxLtvBps["MEDIUM"] = 5000
      /\ TierMaxCredit["HIGH"] = 2000 /\ TierMaxLtvBps["HIGH"] = 3500
  BY DeployedLimits DEF TierMaxCredit, TierMaxLtvBps, RiskTier
<1> QED
  BY <1>1, <1>2 DEF RiskTier

\* The points of a set of features are between 0 and 100, and a payment more
\* never lowers them.
LEMMA ScoreBounds ==
  ASSUME NEW i \in Nat, NEW r \in Nat, NEW o \in Nat
  PROVE  /\ Score(i, r, o) \in 0 .. 100
         /\ Score(i, r, o) <= Score(i + 1, r, o) /\ Score(i, r, o) <= Score(i, r + 1, o)
BY DEF Score
-----------------------------------------------------------------------------
(* What the job and a completion do.                                       *)

\* A step of request r's job leaves its claim alone, and ends the job at most.
JobStep(r, new) ==
  /\ Changed(r, new)
  /\ new.borrower = requests[r].borrower /\ new.eventType = requests[r].eventType
  /\ new.feature = requests[r].feature
  /\ job[r] # "ended"
  /\ job' \in Seq({"getTransaction", "getProof", "ended"}) /\ Len(job') = Len(job)
  /\ \A i \in DOMAIN requests \ {r} : job'[i] = job[i]
  /\ new.hasProof => requests[r].hasProof \/ job'[r] = "ended"
  /\ new.status \in {"PROOF_READY", "SUBMITTING"} => job'[r] = "ended" /\ new.hasProof
  /\ UNCHANGED <<calls, nodes, prepared, sent>>

LEMMA JobStepEffect ==
  ASSUME TypeOK, NEW r \in DOMAIN requests, PrepareProof(r)
  PROVE  \E new : JobStep(r, new)
<1>1. requests[r] \in VerificationRequest
  BY ServiceTypes
<1>2. CASE FailJob(r)
  <2>1. Changed(r, Failed(r))
    BY <1>2, FailEffect DEF FailJob
  <2>2. /\ Failed(r).borrower = requests[r].borrower
        /\ Failed(r).eventType = requests[r].eventType
        /\ Failed(r).feature = requests[r].feature
        /\ Failed(r).hasProof = requests[r].hasProof /\ Failed(r).status = "FAILED"
    BY <1>1 DEF Failed, VerificationRequest
  <2>3. /\ job[r] # "ended" /\ job' = [job EXCEPT ![r] = "ended"]
        /\ UNCHANGED <<calls, nodes, prepared, sent>>
    BY <1>2 DEF FailJob
  <2>4. JobStep(r, Failed(r))
    BY <2>1, <2>2, <2>3, JobEffect DEF JobStep
  <2> QED
    BY <2>4
<1>3. CASE FoundTransaction(r)
  <2> DEFINE new == [requests[r] EXCEPT !.status = "PROOF_GENERATING",
                                        !.sourceBlock = SourceBlock[requests[r].txHash]]
  <2>1. SourceBlock[requests[r].txHash] \in Nat
    BY <1>1, ServiceInputs DEF VerificationRequest
  <2>2. new \in VerificationRequest
    BY <1>1, <2>1 DEF VerificationRequest, Status
  <2>3. /\ new.borrower = requests[r].borrower /\ new.eventType = requests[r].eventType
        /\ new.feature = requests[r].feature
        /\ new.hasProof = requests[r].hasProof /\ new.status = "PROOF_GENERATING"
    BY <1>1 DEF VerificationRequest
  <2>4. /\ job[r] = "getTransaction" /\ job' = [job EXCEPT ![r] = "getProof"]
        /\ requests' = [requests EXCEPT ![r] = new]
        /\ UNCHANGED <<calls, nodes, prepared, sent>>
    BY <1>3 DEF FoundTransaction
  <2> HIDE DEF new
  <2>5. JobStep(r, new)
    BY <2>2, <2>3, <2>4, JobEffect, ChangeEffect DEF JobStep
  <2> QED
    BY <2>5
<1>4. CASE GotProof(r)
  <2> DEFINE new == [requests[r] EXCEPT !.status = "PROOF_READY", !.hasProof = TRUE]
  <2>1. new \in VerificationRequest
    BY <1>1 DEF VerificationRequest, Status
  <2>2. /\ new.borrower = requests[r].borrower /\ new.eventType = requests[r].eventType
        /\ new.feature = requests[r].feature /\ new.hasProof = TRUE
    BY <1>1 DEF VerificationRequest
  <2>3. /\ job[r] = "getProof" /\ job' = [job EXCEPT ![r] = "ended"]
        /\ requests' = [requests EXCEPT ![r] = new]
        /\ UNCHANGED <<calls, nodes, prepared, sent>>
    BY <1>4 DEF GotProof
  <2> HIDE DEF new
  <2>4. JobStep(r, new)
    BY <2>1, <2>2, <2>3, JobEffect, ChangeEffect DEF JobStep
  <2> QED
    BY <2>4
<1> QED
  BY <1>2, <1>3, <1>4 DEF PrepareProof

\* What no step of a completion touches of its request.
SameClaim(new, old) ==
  /\ new.borrower = old.borrower /\ new.eventType = old.eventType
  /\ new.sourceBlock = old.sourceBlock /\ new.hasProof = old.hasProof

LEMMA FailRequestEffect ==
  ASSUME TypeOK, NEW c \in Calls, calls[c] # Idle, FailRequest(c)
  PROVE  LET r == calls[c].request
         IN  /\ Changed(r, Failed(r)) /\ Moved(c, Idle)
             /\ SameClaim(Failed(r), requests[r])
             /\ Failed(r).feature = requests[r].feature /\ Failed(r).status = "FAILED"
<1> DEFINE r == calls[c].request
<1>1. r \in DOMAIN requests /\ requests[r] \in VerificationRequest
  BY CallTypes, ServiceTypes
<1>2. Changed(r, Failed(r)) /\ Moved(c, Idle)
  BY <1>1, FailEffect, EndEffect DEF FailRequest
<1>3. /\ SameClaim(Failed(r), requests[r])
      /\ Failed(r).feature = requests[r].feature /\ Failed(r).status = "FAILED"
  BY <1>1 DEF Failed, SameClaim, VerificationRequest
<1> QED
  BY <1>2, <1>3

\* The status read after the first await lets a completion on, or ends it.
LEMMA CheckedNetworkEffect ==
  ASSUME TypeOK, NEW c \in Calls, calls[c] # Idle, CheckedNetwork(c)
  PROVE  LET r == calls[c].request
         IN  /\ UNCHANGED <<job, nodes, prepared, sent>>
             /\ \/ Moved(c, Idle) /\ UNCHANGED requests
                \/ /\ Completable(r)
                   /\ Moved(c, At(c, "receipt"))
                   /\ \E new : /\ Changed(r, new) /\ SameClaim(new, requests[r])
                               /\ new.feature = requests[r].feature
<1> DEFINE r == calls[c].request
           new == [requests[r] EXCEPT !.status = "SUBMITTING"]
<1>1. r \in DOMAIN requests /\ requests[r] \in VerificationRequest
  BY CallTypes, ServiceTypes
<1>2. /\ new \in VerificationRequest /\ SameClaim(new, requests[r])
      /\ new.feature = requests[r].feature
  BY <1>1 DEF SameClaim, VerificationRequest, Status
<1>3. CASE ~Completable(r)
  BY <1>3, EndEffect DEF CheckedNetwork
<1>4. CASE Completable(r)
  <2>1. /\ requests' = [requests EXCEPT ![r] = new]
        /\ calls' = [calls EXCEPT ![c].stage = "receipt"]
        /\ UNCHANGED <<job, nodes, prepared, sent>>
    BY <1>4 DEF CheckedNetwork
  <2> HIDE DEF new
  <2>2. Changed(r, new) /\ Moved(c, At(c, "receipt"))
    BY <1>1, <1>2, <2>1, ChangeEffect, StageEffect
  <2> QED
    BY <1>2, <1>4, <2>1, <2>2
<1> QED
  BY <1>3, <1>4

LEMMA CheckedReceiptEffect ==
  ASSUME TypeOK, NEW c \in Calls, calls[c] # Idle, CheckedReceipt(c)
  PROVE  /\ calls[c].stage = "receipt" /\ UNCHANGED <<job, nodes, prepared, sent>>
         /\ \/ /\ ReceiptConfirms(calls[c])
               /\ Moved(c, At(c, "evidence")) /\ UNCHANGED requests
            \/ FailRequest(c)
BY StageEffect DEF CheckedReceipt

\* What CheckedEvidence makes of call c's evidence.
FeatureOf(c) ==
  [evidenceId |-> calls[c].evidence, sourceTxHash |-> requests[calls[c].request].txHash,
   sourceBlock |-> SourceBlock[calls[c].evidence.sourceTx]]

LEMMA CheckedEvidenceEffect ==
  ASSUME TypeOK, NEW c \in Calls, calls[c] # Idle, CheckedEvidence(c)
  PROVE  LET r == calls[c].request
         IN  /\ calls[c].stage = "evidence" /\ UNCHANGED <<job, prepared, sent>>
             /\ Moved(c, Idle)
             /\ \E new : /\ Changed(r, new) /\ SameClaim(new, requests[r])
                         /\ new.feature = FeatureOf(c) /\ new.status = "VERIFIED"
             /\ nodes' = nodes \cup {[borrower |-> requests[r].borrower,
                                      uscEvidenceId |-> calls[c].evidence]}
<1> DEFINE r == calls[c].request
           new == [requests[r] EXCEPT !.feature = FeatureOf(c), !.status = "VERIFIED"]
<1>1. /\ r \in DOMAIN requests /\ requests[r] \in VerificationRequest
      /\ calls[c].evidence \in EvidenceId
  BY CallTypes, ServiceTypes
<1>2. SourceBlock[calls[c].evidence.sourceTx] \in Nat /\ requests[r].txHash \in SourceTxs
  BY <1>1, ServiceInputs DEF EvidenceId, VerificationRequest
<1>3. FeatureOf(c) \in Feature
  BY <1>1, <1>2 DEF FeatureOf, Feature
<1>4. /\ new \in VerificationRequest /\ SameClaim(new, requests[r])
      /\ new.feature = FeatureOf(c) /\ new.status = "VERIFIED"
  BY <1>1, <1>3 DEF SameClaim, VerificationRequest, Status
<1>5. /\ requests' = [requests EXCEPT ![r] = new] /\ EndCall(c)
      /\ calls[c].stage = "evidence" /\ UNCHANGED <<job, prepared, sent>>
      /\ nodes' = nodes \cup {[borrower |-> requests[r].borrower,
                               uscEvidenceId |-> calls[c].evidence]}
  BY DEF CheckedEvidence, FeatureOf
<1> HIDE DEF new
<1>6. Changed(r, new) /\ Moved(c, Idle)
  BY <1>1, <1>4, <1>5, ChangeEffect, EndEffect
<1> QED
  BY <1>4, <1>5, <1>6
-----------------------------------------------------------------------------
(* Type correctness.                                                       *)

LEMMA InitType == Init => TypeOK
BY EmptySeq DEF Init, TypeOK, Call

LEMMA CreateType ==
  ASSUME TypeOK, NEW claim \in Claims, CreateVerificationRequest(claim)
  PROVE  TypeOK'
<1>1. nodes' \subseteq Node
  BY CreateEffect DEF TypeOK, Node
<1> QED
  BY <1>1, CreateEffect DEF TypeOK

LEMMA JobType ==
  ASSUME TypeOK, NEW r \in DOMAIN requests, PrepareProof(r)
  PROVE  TypeOK'
<1>1. PICK new : JobStep(r, new)
  BY JobStepEffect
<1> QED
  BY <1>1 DEF TypeOK, JobStep, Changed

LEMMA CompletionType ==
  ASSUME TypeOK, NEW c \in Calls, calls[c] # Idle,
         CompleteVerification(c) \/ LoseCompletion(c)
  PROVE  TypeOK'
<1> DEFINE r == calls[c].request
<1>1. /\ r \in DOMAIN requests /\ requests[r] \in VerificationRequest
      /\ calls[c].evidence \in EvidenceId /\ r \in Nat /\ calls[c].tx \in Nat
  BY CallTypes, ServiceTypes
<1>2. ASSUME NEW new, Changed(r, new) \/ UNCHANGED requests,
             NEW next, Moved(c, next),
             next = Idle \/ next = At(c, "receipt") \/ next = At(c, "evidence"),
             UNCHANGED <<job, prepared, sent>>, nodes' \subseteq Node
      PROVE  TypeOK'
  <2>1. /\ requests' \in Seq(VerificationRequest) /\ Len(requests') = Len(requests)
        /\ DOMAIN requests' = DOMAIN requests
    BY <1>2 DEF TypeOK, Changed
  <2>2. next # Idle => next.request = r
    BY <1>2, CallTypes DEF At, Call
  <2>3. \A d \in Calls : calls'[d] # Idle => calls'[d].request \in DOMAIN requests
    BY <1>1, <1>2, <2>2 DEF Moved, TypeOK
  <2>4. calls' \in [Calls -> Call \cup {Idle}]
    BY <1>2 DEF Moved
  <2> QED
    BY <1>2, <2>1, <2>3, <2>4 DEF TypeOK
<1>3. CASE LoseCompletion(c)
  BY <1>2, <1>3, EndEffect DEF LoseCompletion, TypeOK
<1>4. CASE WrongNetwork(c)
  BY <1>2, <1>4, FailRequestEffect DEF WrongNetwork, TypeOK
<1>5. CASE CheckedNetwork(c)
  BY <1>2, <1>5, CheckedNetworkEffect DEF TypeOK
<1>6. CASE CheckedReceipt(c)
  BY <1>2, <1>6, CheckedReceiptEffect, FailRequestEffect DEF TypeOK
<1>7. CASE CheckedEvidence(c)
  <2>1. nodes' \subseteq Node
    BY <1>1, <1>7, CheckedEvidenceEffect DEF TypeOK, Node, VerificationRequest
  <2> QED
    BY <1>2, <1>7, <2>1, CheckedEvidenceEffect
<1> QED
  BY <1>3, <1>4, <1>5, <1>6, <1>7 DEF CompleteVerification

\* What prepareEligibility adds.
LEMMA PrepareEffect ==
  ASSUME TypeOK, NEW b \in Borrowers, NEW S, PrepareEligibility(b, S)
  PROVE  \E p \in Registration :
           /\ prepared' = prepared \cup {p}
           /\ \A evidence \in p.evidence :
                \E n \in nodes : /\ n.borrower = p.borrower /\ n.uscEvidenceId # None
                                 /\ n.uscEvidenceId = evidence
           /\ p.terms.credit <= TierMaxCredit[p.terms.tier]
           /\ p.terms.ltv <= TierMaxLtvBps[p.terms.tier]
           /\ UNCHANGED <<requests, job, calls, nodes, sent>>
<1> DEFINE evidence == {n.uscEvidenceId : n \in S}
           terms    == Evaluate(evidence)
           p        == [borrower |-> b, evidence |-> evidence, terms |-> terms]
<1>1. /\ S \subseteq Usable(b) /\ terms.tier # "REJECTED"
      /\ prepared' = prepared \cup {p}
      /\ UNCHANGED <<requests, job, calls, nodes, sent>>
  BY DEF PrepareEligibility
<1>2. \E score : terms = TermsOf(score)
  BY DEF Evaluate
<1> HIDE DEF terms
<1>3. /\ terms \in [tier : RiskTier, credit : Nat, ltv : Nat]
      /\ terms.credit <= TierMaxCredit[terms.tier]
      /\ terms.ltv <= TierMaxLtvBps[terms.tier]
  BY <1>1, <1>2, TermsTypes
<1>4. \A e \in evidence : \E n \in nodes : /\ n.borrower = b /\ n.uscEvidenceId # None
                                           /\ n.uscEvidenceId = e
  BY <1>1 DEF Usable
<1>5. evidence \subseteq EvidenceId
  BY <1>4 DEF TypeOK, Node
<1> HIDE DEF evidence
<1>6. p \in Registration
  BY <1>3, <1>5 DEF Registration
<1> QED
  BY <1>1, <1>3, <1>4, <1>6

\* A new call names a request and a transaction that are there.
LEMMA StartEffect ==
  ASSUME TypeOK, NEW c \in Calls, NEW r \in DOMAIN requests, NEW i \in DOMAIN sent,
         NEW evidence \in {sent[i].evidence, EvidenceOf(requests[r])},
         StartCompletion(c, r, i, evidence)
  PROVE  /\ Moved(c, [stage |-> "network", request |-> r, tx |-> i, evidence |-> evidence])
         /\ UNCHANGED <<requests, job, nodes, prepared, sent>>
<1>1. requests[r] \in VerificationRequest /\ sent[i] \in Submission /\ r \in Nat /\ i \in Nat
  BY ServiceTypes, SubmissionTypes
<1>2. evidence \in EvidenceId
  BY <1>1 DEF EvidenceOf, EvidenceId, VerificationRequest, Submission
<1>3. [stage |-> "network", request |-> r, tx |-> i, evidence |-> evidence] \in Call
  BY <1>1, <1>2 DEF Call
<1> QED
  BY <1>3 DEF StartCompletion, Moved, TypeOK

LEMMA RestartType == TypeOK /\ Restart => TypeOK'
BY EmptySeq DEF TypeOK, Restart

LEMMA NextType == TypeOK /\ [Next]_vars => TypeOK'
<1> SUFFICES ASSUME TypeOK, [Next]_vars PROVE TypeOK'
  OBVIOUS
<1>1. ASSUME NEW claim \in Claims, CreateVerificationRequest(claim) PROVE TypeOK'
  BY <1>1, CreateType
<1>2. ASSUME NEW r \in DOMAIN requests, PrepareProof(r) PROVE TypeOK'
  BY <1>2, JobType
<1>3. ASSUME NEW r \in DOMAIN requests, NEW from \in Borrowers, PrepareVerification(r, from)
      PROVE  TypeOK'
  BY <1>3, SendEffect DEF TypeOK, serviceVars
<1>4. ASSUME NEW i \in DOMAIN sent, Mine(i) PROVE TypeOK'
  BY <1>4, MineEffect DEF TypeOK, Mined, serviceVars
<1>5. ASSUME NEW c \in Calls, NEW r \in DOMAIN requests, NEW i \in DOMAIN sent,
             NEW evidence \in {sent[i].evidence, EvidenceOf(requests[r])},
             StartCompletion(c, r, i, evidence)
      PROVE  TypeOK'
  <2> DEFINE new == [stage |-> "network", request |-> r, tx |-> i, evidence |-> evidence]
  <2>1. Moved(c, new) /\ UNCHANGED <<requests, job, nodes, prepared, sent>>
    BY <1>5, StartEffect
  <2>2. new.request = r
    OBVIOUS
  <2> HIDE DEF new
  <2>3. \A d \in Calls : calls'[d] # Idle => calls'[d].request \in DOMAIN requests
    BY <2>1, <2>2 DEF Moved, TypeOK
  <2> QED
    BY <2>1, <2>3 DEF Moved, TypeOK
<1>6. ASSUME NEW c \in Calls, calls[c] # Idle, CompleteVerification(c) \/ LoseCompletion(c)
      PROVE  TypeOK'
  BY <1>6, CompletionType
<1>7. ASSUME NEW b \in Borrowers, NEW S, PrepareEligibility(b, S) PROVE TypeOK'
  BY <1>7, PrepareEffect DEF TypeOK
<1>8. CASE Restart
  BY <1>8, RestartType
<1>9. CASE UNCHANGED vars
  BY <1>9 DEF vars, serviceVars, TypeOK
<1> QED
  BY <1>1, <1>2, <1>3, <1>4, <1>5, <1>6, <1>7, <1>8, <1>9 DEF Next, LoseCompletion

\* Every variable of the service keeps its type: a call under way names a
\* request that exists, and what is prepared is evidence with terms.
THEOREM TypeCorrect == Spec => []TypeOK
BY InitType, NextType, PTL DEF Spec
-----------------------------------------------------------------------------
(* The invariant behind the properties: what a completion relies on after  *)
(* each of its awaits, however many run at once.                           *)

\* Evidence is recorded on chain for request r, of its kind and block.
Confirmed(r, evidence) ==
  /\ Proven(requests[r].borrower, evidence)
  /\ evidence.eventType = requests[r].eventType
  /\ SourceBlock[evidence.sourceTx] = requests[r].sourceBlock

\* Once the status was checked the job is over, so nothing compared with the
\* receipt later changes.
CallOK(c) ==
  calls[c] # Idle =>
    /\ calls[c].tx \in DOMAIN sent
    /\ calls[c].stage \in {"receipt", "evidence"} => AfterJob(calls[c].request)
    /\ calls[c].stage = "evidence" => Confirmed(calls[c].request, calls[c].evidence)

RequestOK(r) ==
  /\ requests[r].hasProof \/ Completable(r) => AfterJob(r)
  /\ requests[r].feature # None =>
       /\ AfterJob(r)
       /\ Confirmed(r, requests[r].feature.evidenceId)
       /\ requests[r].feature.sourceBlock = requests[r].sourceBlock

NodeOK(n) == n.uscEvidenceId # None => Proven(n.borrower, n.uscEvidenceId)

PreparedOK(p) ==
  /\ \A evidence \in p.evidence : Proven(p.borrower, evidence)
  /\ p.terms.credit <= TierMaxCredit[p.terms.tier]
  /\ p.terms.ltv <= TierMaxLtvBps[p.terms.tier]

IInv ==
  /\ TypeOK
  /\ \A r \in DOMAIN requests : RequestOK(r)
  /\ \A c \in Calls : CallOK(c)
  /\ \A n \in nodes : NodeOK(n)
  /\ \A p \in prepared : PreparedOK(p)

\* The invariant gives the properties.
LEMMA IInvGives == IInv => FeatureBacked /\ PreparedIsProven /\ CompletedAfterJob /\ PreparedWithinTier
<1> SUFFICES ASSUME IInv
             PROVE  FeatureBacked /\ PreparedIsProven /\ CompletedAfterJob /\ PreparedWithinTier
  OBVIOUS
<1>1. FeatureBacked
  BY DEF IInv, RequestOK, FeatureBacked, Confirmed
<1>2. PreparedIsProven
  BY DEF IInv, PreparedOK, PreparedIsProven
<1>3. CompletedAfterJob
  BY IdleStage DEF IInv, RequestOK, CallOK, CompletedAfterJob, Completable, AfterJob
<1>4. PreparedWithinTier
  BY DEF IInv, PreparedOK, PreparedWithinTier
<1> QED
  BY <1>1, <1>2, <1>3, <1>4

\* What every step but a restart keeps.
KeptRequest(r) ==
  /\ r \in DOMAIN requests'
  /\ requests'[r].borrower = requests[r].borrower
  /\ requests'[r].eventType = requests[r].eventType
  /\ AfterJob(r) => AfterJob(r)' /\ requests'[r].sourceBlock = requests[r].sourceBlock

KeptSent ==
  \A i \in DOMAIN sent : /\ i \in DOMAIN sent'
                         /\ sent[i].state = "SUCCESS" => sent'[i] = sent[i]

LEMMA ProvenKept ==
  ASSUME KeptSent, NEW b, NEW evidence, Proven(b, evidence)
  PROVE  Proven(b, evidence)'
<1>1. PICK i \in DOMAIN sent :
        /\ sent[i] = [from |-> b, evidence |-> evidence, state |-> "SUCCESS"]
        /\ evidence.borrower = b
  BY DEF Proven
<1>2. i \in DOMAIN sent' /\ sent'[i] = sent[i]
  BY <1>1 DEF KeptSent
<1> QED
  BY <1>1, <1>2 DEF Proven

LEMMA ConfirmedKept ==
  ASSUME KeptSent, NEW r, NEW evidence, KeptRequest(r), AfterJob(r), Confirmed(r, evidence)
  PROVE  Confirmed(r, evidence)'
BY ProvenKept DEF Confirmed, KeptRequest

LEMMA CallKept ==
  ASSUME TypeOK, KeptSent, NEW c \in Calls, CallOK(c), calls'[c] = calls[c],
         calls[c] # Idle => KeptRequest(calls[c].request)
  PROVE  CallOK(c)'
<1> SUFFICES ASSUME calls[c] # Idle PROVE CallOK(c)'
  BY DEF CallOK
<1>1. calls[c].tx \in DOMAIN sent'
  BY DEF CallOK, KeptSent
<1>2. calls[c].stage \in {"receipt", "evidence"} => AfterJob(calls[c].request)
  BY DEF CallOK
<1>3. PICK r : r = calls[c].request
  OBVIOUS
<1>4. calls[c].stage \in {"receipt", "evidence"} => AfterJob(r)'
  BY <1>2, <1>3 DEF KeptRequest
<1>5. PICK e : e = calls[c].evidence
  OBVIOUS
<1>6. calls[c].stage = "evidence" => Confirmed(r, e)'
  BY <1>2, <1>3, <1>5, ConfirmedKept DEF CallOK
<1> QED
  BY <1>1, <1>3, <1>4, <1>5, <1>6 DEF CallOK, AfterJob, Confirmed, Proven

LEMMA FeatureKept ==
  ASSUME KeptSent, NEW r, KeptRequest(r), RequestOK(r),
         requests'[r].feature = requests[r].feature, requests[r].feature # None
  PROVE  /\ AfterJob(r)'
         /\ Confirmed(r, requests[r].feature.evidenceId)'
         /\ requests'[r].feature.sourceBlock = requests'[r].sourceBlock
BY ConfirmedKept DEF RequestOK, KeptRequest

\* A step that keeps requests and transactions has to care for what it adds.
LEMMA Assemble ==
  ASSUME IInv, TypeOK', KeptSent,
         \A r \in DOMAIN requests : KeptRequest(r),
         \A r \in DOMAIN requests' : RequestOK(r)',
         \A c \in Calls : calls'[c] = calls[c] \/ CallOK(c)',
         \A n \in nodes' : n \in nodes \/ NodeOK(n)',
         \A p \in prepared' : p \in prepared \/ PreparedOK(p)'
  PROVE  IInv'
<1>1. \A c \in Calls : CallOK(c)'
  <2> SUFFICES ASSUME NEW c \in Calls, calls'[c] = calls[c] PROVE CallOK(c)'
    OBVIOUS
  <2>1. calls[c] # Idle => KeptRequest(calls[c].request)
    BY CallTypes DEF IInv
  <2> QED
    BY <2>1, CallKept DEF IInv
<1>2. \A n \in nodes' : NodeOK(n)'
  BY ProvenKept DEF IInv, NodeOK
<1>3. \A p \in prepared' : PreparedOK(p)'
  BY ProvenKept DEF IInv, PreparedOK
<1> QED
  BY <1>1, <1>2, <1>3 DEF IInv

LEMMA RequestsUntouched ==
  ASSUME IInv, KeptSent, UNCHANGED <<requests, job>>
  PROVE  /\ \A r \in DOMAIN requests : KeptRequest(r)
         /\ \A r \in DOMAIN requests' : RequestOK(r)'
<1>1. \A r \in DOMAIN requests : KeptRequest(r)
  BY DEF KeptRequest, AfterJob
<1>2. ASSUME NEW r \in DOMAIN requests PROVE RequestOK(r)'
  <2>1. RequestOK(r) /\ KeptRequest(r)
    BY <1>1 DEF IInv
  <2>2. (requests[r].hasProof \/ Completable(r) => AfterJob(r))'
    BY <2>1 DEF RequestOK, Completable, AfterJob
  <2>3. requests[r].feature # None =>
          /\ AfterJob(r)' /\ Confirmed(r, requests[r].feature.evidenceId)'
          /\ requests'[r].feature.sourceBlock = requests'[r].sourceBlock
    BY <2>1, FeatureKept
  <2> QED
    BY <2>2, <2>3 DEF RequestOK
<1> QED
  BY <1>1, <1>2

\* A completion changes one request, whose claim and job stay what they are.
LEMMA RequestTouched ==
  ASSUME IInv, TypeOK', KeptSent, NEW r \in DOMAIN requests, NEW new, Changed(r, new),
         SameClaim(new, requests[r]), job' = job,
         new.status \in {"PROOF_READY", "SUBMITTING"} => AfterJob(r),
         \/ new.feature = requests[r].feature
         \/ /\ AfterJob(r) /\ Confirmed(r, new.feature.evidenceId)
            /\ new.feature.sourceBlock = requests[r].sourceBlock
  PROVE  /\ \A i \in DOMAIN requests : KeptRequest(i)
         /\ \A i \in DOMAIN requests' : RequestOK(i)'
<1>1. /\ DOMAIN requests' = DOMAIN requests /\ requests'[r] = new
      /\ \A i \in DOMAIN requests \ {r} : requests'[i] = requests[i]
  BY DEF Changed
<1>2. \A i \in DOMAIN requests : KeptRequest(i)
  BY <1>1 DEF KeptRequest, SameClaim, AfterJob
<1>3. ASSUME NEW i \in DOMAIN requests, i # r PROVE RequestOK(i)'
  <2>1. RequestOK(i) /\ KeptRequest(i) /\ requests'[i] = requests[i]
    BY <1>1, <1>2, <1>3 DEF IInv
  <2>2. (requests[i].hasProof \/ Completable(i) => AfterJob(i))'
    BY <2>1 DEF RequestOK, Completable, AfterJob
  <2>3. requests[i].feature # None =>
          /\ AfterJob(i)' /\ Confirmed(i, requests[i].feature.evidenceId)'
          /\ requests'[i].feature.sourceBlock = requests'[i].sourceBlock
    BY <2>1, FeatureKept
  <2> QED
    BY <2>1, <2>2, <2>3 DEF RequestOK
<1>4. RequestOK(r)'
  <2>1. RequestOK(r) /\ KeptRequest(r)
    BY <1>2 DEF IInv
  <2>2. (requests[r].hasProof \/ Completable(r) => AfterJob(r))'
    BY <1>1, <2>1 DEF RequestOK, KeptRequest, Completable, AfterJob, SameClaim
  <2>3. CASE new.feature = requests[r].feature
    <3>1. requests[r].feature # None =>
            /\ AfterJob(r)' /\ Confirmed(r, requests[r].feature.evidenceId)'
            /\ requests'[r].feature.sourceBlock = requests'[r].sourceBlock
      BY <1>1, <2>1, <2>3, FeatureKept
    <3> QED
      BY <1>1, <2>2, <2>3, <3>1 DEF RequestOK
  <2>4. CASE /\ AfterJob(r) /\ Confirmed(r, new.feature.evidenceId)
             /\ new.feature.sourceBlock = requests[r].sourceBlock
    <3>1. AfterJob(r)' /\ requests'[r].sourceBlock = requests[r].sourceBlock
      BY <2>1, <2>4 DEF KeptRequest
    <3>2. PICK e : e = new.feature.evidenceId
      OBVIOUS
    <3>3. Confirmed(r, e)'
      BY <2>1, <2>4, <3>2, ConfirmedKept
    <3> QED
      BY <1>1, <2>2, <2>4, <3>1, <3>2, <3>3 DEF RequestOK, Confirmed, Proven
  <2> QED
    BY <2>3, <2>4
<1> QED
  BY <1>1, <1>2, <1>3, <1>4
-----------------------------------------------------------------------------
(* Every step keeps the invariant.                                         *)

LEMMA CreateKeeps ==
  ASSUME IInv, NEW claim \in Claims, CreateVerificationRequest(claim)
  PROVE  IInv'
<1>1. TypeOK /\ TypeOK'
  BY CreateType DEF IInv
<1>0. PICK n : n = Len(requests) + 1
  OBVIOUS
<1>2. /\ DOMAIN requests' = DOMAIN requests \cup {n}
      /\ \A r \in DOMAIN requests : requests'[r] = requests[r] /\ job'[r] = job[r]
      /\ requests'[n] = New(claim) /\ n \notin DOMAIN requests
      /\ nodes' = nodes \cup {[borrower |-> claim.borrower, uscEvidenceId |-> None]}
      /\ UNCHANGED <<calls, prepared, sent>>
  BY <1>1, <1>0, CreateEffect
<1>3. KeptSent /\ \A r \in DOMAIN requests : KeptRequest(r)
  BY <1>2 DEF KeptSent, KeptRequest, AfterJob
<1>4. ASSUME NEW r \in DOMAIN requests PROVE RequestOK(r)'
  <2>1. RequestOK(r) /\ KeptRequest(r) /\ requests'[r] = requests[r] /\ job'[r] = job[r]
    BY <1>2, <1>3 DEF IInv
  <2>2. requests[r].feature # None =>
          /\ AfterJob(r)' /\ Confirmed(r, requests[r].feature.evidenceId)'
          /\ requests'[r].feature.sourceBlock = requests'[r].sourceBlock
    BY <1>3, <2>1, FeatureKept
  <2> QED
    BY <2>1, <2>2 DEF RequestOK, Completable, AfterJob
<1>5. RequestOK(n)'
  BY <1>2 DEF New, RequestOK, Completable
<1> QED
  BY <1>1, <1>2, <1>3, <1>4, <1>5, Assemble DEF NodeOK

LEMMA JobKeeps ==
  ASSUME IInv, NEW r \in DOMAIN requests, PrepareProof(r)
  PROVE  IInv'
<1>1. TypeOK /\ TypeOK'
  BY JobType DEF IInv
<1>2. PICK new : JobStep(r, new)
  BY <1>1, JobStepEffect
<1>3. /\ DOMAIN requests' = DOMAIN requests /\ requests'[r] = new
      /\ \A i \in DOMAIN requests \ {r} : requests'[i] = requests[i] /\ job'[i] = job[i]
      /\ UNCHANGED <<calls, nodes, prepared, sent>>
  BY <1>2 DEF JobStep, Changed
<1>4. RequestOK(r) /\ ~AfterJob(r)
  BY <1>2 DEF IInv, JobStep, AfterJob
<1>5. KeptSent /\ \A i \in DOMAIN requests : KeptRequest(i)
  BY <1>2, <1>3, <1>4 DEF KeptSent, KeptRequest, AfterJob, JobStep
<1>6. RequestOK(r)'
  <2>1. requests[r].hasProof = FALSE \/ ~requests[r].hasProof
    BY <1>4 DEF RequestOK
  <2>2. new.feature = None
    BY <1>2, <1>4 DEF RequestOK, JobStep
  <2>3. new.hasProof \/ new.status \in {"PROOF_READY", "SUBMITTING"} =>
          job'[r] = "ended" /\ new.hasProof
    BY <1>2, <2>1 DEF JobStep
  <2> QED
    BY <1>3, <2>2, <2>3 DEF RequestOK, Completable, AfterJob
<1>7. ASSUME NEW i \in DOMAIN requests, i # r PROVE RequestOK(i)'
  <2>1. RequestOK(i) /\ KeptRequest(i) /\ requests'[i] = requests[i] /\ job'[i] = job[i]
    BY <1>3, <1>5, <1>7 DEF IInv
  <2>2. requests[i].feature # None =>
          /\ AfterJob(i)' /\ Confirmed(i, requests[i].feature.evidenceId)'
          /\ requests'[i].feature.sourceBlock = requests'[i].sourceBlock
    BY <1>5, <2>1, FeatureKept
  <2> QED
    BY <2>1, <2>2 DEF RequestOK, Completable, AfterJob
<1> QED
  BY <1>1, <1>3, <1>5, <1>6, <1>7, Assemble

LEMMA SendKeeps ==
  ASSUME IInv, NEW r \in DOMAIN requests, NEW from \in Borrowers, PrepareVerification(r, from)
  PROVE  IInv'
<1>1. TypeOK /\ TypeOK'
  BY SendEffect DEF IInv, TypeOK, serviceVars
<1>2. KeptSent /\ UNCHANGED serviceVars
  BY <1>1, SendEffect DEF KeptSent
<1> QED
  BY <1>1, <1>2, RequestsUntouched, Assemble DEF serviceVars

LEMMA MineKeeps ==
  ASSUME IInv, NEW i \in DOMAIN sent, Mine(i)
  PROVE  IInv'
<1>1. TypeOK /\ TypeOK'
  BY MineEffect DEF IInv, TypeOK, Mined, serviceVars
<1>2. KeptSent /\ UNCHANGED serviceVars
  BY <1>1, MineEffect DEF KeptSent, Mined
<1> QED
  BY <1>1, <1>2, RequestsUntouched, Assemble DEF serviceVars

LEMMA StartKeeps ==
  ASSUME IInv, NEW c \in Calls, NEW r \in DOMAIN requests, NEW i \in DOMAIN sent,
         NEW evidence \in {sent[i].evidence, EvidenceOf(requests[r])},
         StartCompletion(c, r, i, evidence), TypeOK'
  PROVE  IInv'
<1> DEFINE new == [stage |-> "network", request |-> r, tx |-> i, evidence |-> evidence]
<1>1. Moved(c, new) /\ UNCHANGED <<requests, job, nodes, prepared, sent>>
  BY StartEffect DEF IInv
<1>2. KeptSent
  BY <1>1 DEF KeptSent
<1>3. CallOK(c)'
  BY <1>1 DEF CallOK, Moved
<1> QED
  BY <1>1, <1>2, <1>3, RequestsUntouched, Assemble DEF Moved

\* A receipt that passes the checks is the verifier's record of the evidence.
LEMMA ReceiptProves ==
  ASSUME TypeOK, NEW c \in Calls, calls[c] # Idle, calls[c].tx \in DOMAIN sent,
         ReceiptConfirms(calls[c])
  PROVE  Confirmed(calls[c].request, calls[c].evidence)
<1> DEFINE receipt == sent[calls[c].tx]
           request == requests[calls[c].request]
<1>1. receipt \in Submission
  BY SubmissionTypes
<1>2. /\ receipt.state = "SUCCESS" /\ receipt.from = request.borrower
      /\ receipt.evidence = calls[c].evidence
      /\ calls[c].evidence.borrower = request.borrower
      /\ calls[c].evidence.eventType = request.eventType
      /\ SourceBlock[calls[c].evidence.sourceTx] = request.sourceBlock
  BY DEF ReceiptConfirms
<1>3. receipt = [from |-> request.borrower, evidence |-> calls[c].evidence,
                 state |-> "SUCCESS"]
  BY <1>1, <1>2 DEF Submission
<1> QED
  BY <1>2, <1>3 DEF Confirmed, Proven

LEMMA CompletionKeeps ==
  ASSUME IInv, NEW c \in Calls, calls[c] # Idle,
         CompleteVerification(c) \/ LoseCompletion(c)
  PROVE  IInv'
<1>1. /\ TypeOK /\ TypeOK' /\ CallOK(c)
      /\ calls[c].request \in DOMAIN requests
  BY CompletionType, CallTypes DEF IInv
<1>2. PICK r \in DOMAIN requests : r = calls[c].request
  BY <1>1
<1>3. RequestOK(r)
  BY DEF IInv
<1>4. ASSUME Moved(c, Idle), UNCHANGED <<job, nodes, prepared, sent>>,
             Changed(r, Failed(r)), SameClaim(Failed(r), requests[r]),
             Failed(r).feature = requests[r].feature, Failed(r).status = "FAILED"
      PROVE  IInv'
  <2>1. KeptSent
    BY <1>4 DEF KeptSent
  <2>2. CallOK(c)'
    BY <1>4 DEF Moved, CallOK
  <2> QED
    BY <1>1, <1>4, <2>1, <2>2, RequestTouched, Assemble DEF Moved
<1>5. CASE LoseCompletion(c)
  <2>1. Moved(c, Idle) /\ UNCHANGED <<requests, job, nodes, prepared, sent>>
    BY <1>1, <1>5, EndEffect DEF LoseCompletion
  <2>2. KeptSent /\ CallOK(c)'
    BY <2>1 DEF KeptSent, Moved, CallOK
  <2> QED
    BY <1>1, <2>1, <2>2, RequestsUntouched, Assemble DEF Moved
<1>6. CASE WrongNetwork(c)
  BY <1>1, <1>2, <1>4, <1>6, FailRequestEffect DEF WrongNetwork
<1>7. CASE CheckedNetwork(c)
  <2>1. /\ UNCHANGED <<job, nodes, prepared, sent>>
        /\ \/ Moved(c, Idle) /\ UNCHANGED requests
           \/ /\ Completable(r) /\ Moved(c, At(c, "receipt"))
              /\ \E new : /\ Changed(r, new) /\ SameClaim(new, requests[r])
                          /\ new.feature = requests[r].feature
    BY <1>1, <1>2, <1>7, CheckedNetworkEffect
  <2>2. KeptSent
    BY <2>1 DEF KeptSent
  <2>3. CASE Moved(c, Idle) /\ UNCHANGED requests
    <3>1. CallOK(c)'
      BY <2>3 DEF Moved, CallOK
    <3> QED
      BY <1>1, <2>1, <2>2, <2>3, <3>1, RequestsUntouched, Assemble DEF Moved
  <2>4. ASSUME NEW new, Completable(r), Moved(c, At(c, "receipt")),
               Changed(r, new), SameClaim(new, requests[r]), new.feature = requests[r].feature
        PROVE  IInv'
    <3>1. AfterJob(r)
      BY <1>3, <2>4 DEF RequestOK
    <3>2. /\ \A i \in DOMAIN requests : KeptRequest(i)
          /\ \A i \in DOMAIN requests' : RequestOK(i)'
      BY <1>1, <2>1, <2>2, <2>4, <3>1, RequestTouched
    <3>3. /\ calls'[c].stage = "receipt" /\ calls'[c].request = r
          /\ calls'[c].tx = calls[c].tx
      BY <1>1, <1>2, <2>4, CallTypes DEF Moved, At, Call
    <3>4. AfterJob(r)'
      BY <3>1, <3>2 DEF KeptRequest
    <3>5. CallOK(c)'
      BY <1>1, <2>1, <3>3, <3>4 DEF CallOK, AfterJob
    <3> QED
      BY <1>1, <2>1, <2>2, <2>4, <3>2, <3>5, Assemble DEF Moved
  <2> QED
    BY <2>1, <2>3, <2>4
<1>8. CASE CheckedReceipt(c)
  <2>1. CASE FailRequest(c)
    BY <1>1, <1>2, <1>4, <1>8, <2>1, CheckedReceiptEffect, FailRequestEffect
  <2>2. CASE /\ ReceiptConfirms(calls[c])
             /\ Moved(c, At(c, "evidence")) /\ UNCHANGED requests
    <3>1. calls[c].stage = "receipt" /\ UNCHANGED <<job, nodes, prepared, sent>>
      BY <1>1, <1>8, CheckedReceiptEffect
    <3>2. KeptSent
      BY <3>1 DEF KeptSent
    <3>3. PICK e : e = calls[c].evidence
      OBVIOUS
    <3>4. AfterJob(r) /\ Confirmed(r, e)
      BY <1>1, <1>2, <2>2, <3>1, <3>3, ReceiptProves DEF CallOK
    <3>5. /\ \A i \in DOMAIN requests : KeptRequest(i)
          /\ \A i \in DOMAIN requests' : RequestOK(i)'
      BY <2>2, <3>1, <3>2, RequestsUntouched
    <3>6. AfterJob(r)' /\ Confirmed(r, e)'
      BY <3>2, <3>4, <3>5, ConfirmedKept DEF KeptRequest
    <3>7. /\ calls'[c].request = r /\ calls'[c].tx = calls[c].tx
          /\ calls'[c].evidence = e
      BY <1>1, <1>2, <2>2, <3>3, CallTypes DEF Moved, At, Call
    <3>8. CallOK(c)'
      BY <1>1, <3>1, <3>6, <3>7 DEF CallOK, AfterJob, Confirmed, Proven
    <3> QED
      BY <1>1, <2>2, <3>1, <3>2, <3>5, <3>8, Assemble DEF Moved
  <2> QED
    BY <1>1, <1>8, <2>1, <2>2, CheckedReceiptEffect
<1>9. CASE CheckedEvidence(c)
  <2>1. /\ calls[c].stage = "evidence" /\ UNCHANGED <<job, prepared, sent>>
        /\ Moved(c, Idle)
        /\ nodes' = nodes \cup {[borrower |-> requests[r].borrower,
                                 uscEvidenceId |-> calls[c].evidence]}
    BY <1>1, <1>2, <1>9, CheckedEvidenceEffect
  <2>2. PICK new : /\ Changed(r, new) /\ SameClaim(new, requests[r])
                   /\ new.feature = FeatureOf(c) /\ new.status = "VERIFIED"
    BY <1>1, <1>2, <1>9, CheckedEvidenceEffect
  <2>3. AfterJob(r) /\ Confirmed(r, calls[c].evidence)
    BY <1>1, <1>2, <2>1 DEF CallOK
  <2>4. KeptSent
    BY <2>1 DEF KeptSent
  <2>5. /\ new.feature.evidenceId = calls[c].evidence
        /\ new.feature.sourceBlock = requests[r].sourceBlock
    BY <2>2, <2>3 DEF FeatureOf, Confirmed
  <2>6. /\ \A i \in DOMAIN requests : KeptRequest(i)
        /\ \A i \in DOMAIN requests' : RequestOK(i)'
    BY <1>1, <2>1, <2>2, <2>3, <2>4, <2>5, RequestTouched
  <2>7. CallOK(c)'
    BY <2>1 DEF Moved, CallOK
  <2>8. \A n \in nodes' : n \in nodes \/ NodeOK(n)'
    BY <2>1, <2>3, <2>4, ProvenKept DEF NodeOK, Confirmed
  <2> QED
    BY <1>1, <2>1, <2>4, <2>6, <2>7, <2>8, Assemble DEF Moved
<1> QED
  BY <1>5, <1>6, <1>7, <1>8, <1>9 DEF CompleteVerification

LEMMA PrepareKeeps ==
  ASSUME IInv, NEW b \in Borrowers, NEW S, PrepareEligibility(b, S)
  PROVE  IInv'
<1>1. TypeOK /\ TypeOK'
  BY PrepareEffect DEF IInv, TypeOK
<1>2. PICK p \in Registration :
           /\ prepared' = prepared \cup {p}
           /\ \A evidence \in p.evidence :
                \E n \in nodes : /\ n.borrower = p.borrower /\ n.uscEvidenceId # None
                                 /\ n.uscEvidenceId = evidence
           /\ p.terms.credit <= TierMaxCredit[p.terms.tier]
           /\ p.terms.ltv <= TierMaxLtvBps[p.terms.tier]
           /\ UNCHANGED <<requests, job, calls, nodes, sent>>
  BY <1>1, PrepareEffect
<1>3. KeptSent
  BY <1>2 DEF KeptSent
<1>4. PreparedOK(p)
  BY <1>2 DEF PreparedOK, IInv, NodeOK
<1>5. PreparedOK(p)'
  BY <1>2, <1>4 DEF PreparedOK, Proven
<1> QED
  BY <1>1, <1>2, <1>3, <1>5, RequestsUntouched, Assemble

\* After a restart there is no request and no call to be right about.
LEMMA RestartKeeps == IInv /\ Restart => IInv'
<1> SUFFICES ASSUME IInv, Restart PROVE IInv'
  OBVIOUS
<1>1. TypeOK'
  BY RestartType DEF IInv
<1>2. /\ DOMAIN requests' = {} /\ nodes' \subseteq nodes
      /\ \A c \in Calls : calls'[c] = Idle
      /\ UNCHANGED <<prepared, sent>>
  BY DEF Restart
<1>3. /\ \A n \in nodes' : NodeOK(n)'
      /\ \A p \in prepared' : PreparedOK(p)'
  BY <1>2 DEF IInv, NodeOK, PreparedOK, Proven
<1> QED
  BY <1>1, <1>2, <1>3 DEF IInv, CallOK

LEMMA InitIInv == Init => IInv
BY InitType DEF Init, IInv, CallOK

LEMMA NextIInv == IInv /\ [Next]_vars => IInv'
<1> SUFFICES ASSUME IInv, [Next]_vars PROVE IInv'
  OBVIOUS
<1>1. ASSUME NEW claim \in Claims, CreateVerificationRequest(claim) PROVE IInv'
  BY <1>1, CreateKeeps
<1>2. ASSUME NEW r \in DOMAIN requests, PrepareProof(r) PROVE IInv'
  BY <1>2, JobKeeps
<1>3. ASSUME NEW r \in DOMAIN requests, NEW from \in Borrowers, PrepareVerification(r, from)
      PROVE  IInv'
  BY <1>3, SendKeeps
<1>4. ASSUME NEW i \in DOMAIN sent, Mine(i) PROVE IInv'
  BY <1>4, MineKeeps
<1>5. ASSUME NEW c \in Calls, NEW r \in DOMAIN requests, NEW i \in DOMAIN sent,
             NEW evidence \in {sent[i].evidence, EvidenceOf(requests[r])},
             StartCompletion(c, r, i, evidence)
      PROVE  IInv'
  <2>1. TypeOK'
    BY NextType DEF IInv
  <2> QED
    BY <1>5, <2>1, StartKeeps
<1>6. ASSUME NEW c \in Calls, calls[c] # Idle, CompleteVerification(c) \/ LoseCompletion(c)
      PROVE  IInv'
  BY <1>6, CompletionKeeps
<1>7. ASSUME NEW b \in Borrowers, NEW S, PrepareEligibility(b, S) PROVE IInv'
  BY <1>7, PrepareKeeps
<1>8. CASE Restart
  BY <1>8, RestartKeeps
<1>9. CASE UNCHANGED vars
  <2>1. TypeOK' /\ KeptSent /\ UNCHANGED <<requests, job, calls, nodes, prepared>>
    BY <1>9, NextType DEF vars, serviceVars, IInv, KeptSent
  <2> QED
    BY <2>1, RequestsUntouched, Assemble
<1> QED
  BY <1>1, <1>2, <1>3, <1>4, <1>5, <1>6, <1>7, <1>8, <1>9 DEF Next, LoseCompletion

LEMMA AlwaysIInv == Spec => []IInv
BY InitIInv, NextIInv, PTL DEF Spec

\* However completions overlap and whatever a restart forgets, a feature is
\* evidence the verifier recorded for the request's borrower, kind and block.
THEOREM FeaturesAreBacked == Spec => []FeatureBacked
BY AlwaysIInv, IInvGives, PTL

\* A registration is only ever prepared from evidence recorded on chain for
\* its borrower, though the graph holds nodes nothing was proved about.
THEOREM OnlyProvenIsPrepared == Spec => []PreparedIsProven
BY AlwaysIInv, IInvGives, PTL

\* A completion past its status check never meets a proof job that still runs,
\* and a request that was ever completed has none.
THEOREM CompletionsFollowJobs == Spec => []CompletedAfterJob
BY AlwaysIInv, IInvGives, PTL

\* The policy's terms never exceed the contract's limits for their tier,
\* whatever evidence they are earned with.
THEOREM TermsWithinTier == Spec => []PreparedWithinTier
BY AlwaysIInv, IInvGives, PTL
=============================================================================
