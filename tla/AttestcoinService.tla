------------------------- MODULE AttestcoinService -------------------------
(***************************************************************************)
(* backend/src/services/AttestcoinService.ts, with EvidenceNormalizer.ts,  *)
(* SnapshotService.ts and AssessmentService.ts: the life of verification   *)
(* requests. A background job prepares the proof of a request; a borrower  *)
(* sends it to USCVerifier and reports the transaction; the backend checks *)
(* the report against the chain and mints an evidence node, which an       *)
(* assessment may then use. Requests live in memory, nodes in the database *)
(* file: a restart forgets the first and goes back to an older graph.      *)
(*                                                                         *)
(* The code between two awaits is one action. Evidence is identified by    *)
(* what its id hashes, a Creditcoin transaction by its position in sent.   *)
(* RPC answers are checked in the code's order only where the order can be *)
(* told from the outside: every failed check of a report has one effect.   *)
(***************************************************************************)
EXTENDS PolicyEngine, Sequences

CONSTANTS
  Borrowers,
  SourceTxs,      \* transactions of the source chain
  SourceBlock,    \* source transaction -> its block
  Claims,         \* what verification is requested of
  Calls,          \* completeVerification calls that may be under way
  Faults,         \* may the RPC endpoints fail?
  None,           \* an undefined field
  MaxRequests, MaxSent  \* bounds that keep an instance finite

ASSUME ServiceInputs ==
  /\ SourceBlock \in [SourceTxs -> Nat]
  /\ Claims \subseteq
       [sourceTx : SourceTxs, borrower : Borrowers, eventType : {"INFLOW", "REPAYMENT"}]
  /\ Faults \in BOOLEAN
  /\ None \notin Borrowers \cup SourceTxs

VARIABLES
  requests,  \* the service's Map; ids count from 1 here
  job,       \* request -> what its prepareProof waits for
  calls,     \* call -> what it was asked and waits for
  nodes,     \* EVIDENCE nodes of the graph
  prepared,  \* registrations prepared: borrower, evidence and terms
  sent       \* verifyEvidence transactions sent to Creditcoin, in order

serviceVars == <<requests, job, calls, nodes, prepared>>
vars == <<serviceVars, sent>>

EventType == {"INFLOW", "REPAYMENT"}
Status == {"PROOF_GENERATING", "PROOF_READY", "SUBMITTING", "VERIFIED", "FAILED"}
EvidenceId == [sourceTx : SourceTxs, borrower : Borrowers, eventType : EventType]

Feature == [evidenceId : EvidenceId, sourceTxHash : SourceTxs, sourceBlock : Nat]

VerificationRequest ==
  [borrower : Borrowers, eventType : EventType, txHash : SourceTxs, status : Status,
   sourceBlock : Nat \cup {None}, hasProof : BOOLEAN, feature : Feature \cup {None}]

\* uscEvidenceId is None in the node createVerificationRequest mints.
Node == [borrower : Borrowers, uscEvidenceId : EvidenceId \cup {None}]

Submission ==
  [from : Borrowers, evidence : EvidenceId, state : {"PENDING", "SUCCESS", "REVERTED"}]

Registration ==
  [borrower : Borrowers, evidence : SUBSET EvidenceId,
   terms : [tier : RiskTier, credit : Nat, ltv : Nat]]

Idle == [stage |-> "idle"]
Call ==
  [stage : {"network", "receipt", "evidence"}, request : Nat, tx : Nat, evidence : EvidenceId]

TypeOK ==
  /\ requests \in Seq(VerificationRequest)
  /\ job \in Seq({"getTransaction", "getProof", "ended"})
  /\ Len(job) = Len(requests)
  /\ calls \in [Calls -> Call \cup {Idle}]
  /\ \A c \in Calls : calls[c] # Idle => calls[c].request \in DOMAIN requests
  /\ nodes \subseteq Node
  /\ prepared \subseteq Registration
  /\ sent \in Seq(Submission)

\* The seed's evidence nodes are like those createVerificationRequest mints.
Init ==
  /\ requests = <<>> /\ job = <<>>
  /\ calls = [c \in Calls |-> Idle]
  /\ nodes = {} /\ prepared = {}
  /\ sent = <<>>
-----------------------------------------------------------------------------
(* Requests and the job that prepares their proof.                         *)

\* Faulty variant: the job runs on a request that was never stored.
CreateUnstored(claim) ==
  /\ job' = Append(job, "getTransaction")
  /\ nodes' = nodes \cup {[borrower |-> claim.borrower, uscEvidenceId |-> None]}
  /\ UNCHANGED <<requests, calls, prepared, sent>>

\* The request is stored as VERIFIED, with a node to match, before anything
\* was verified; the job it starts stops at its first await.
CreateVerificationRequest(claim) ==
  /\ requests' = Append(requests,
       [borrower |-> claim.borrower, eventType |-> claim.eventType,
        txHash |-> claim.sourceTx, status |-> "VERIFIED", sourceBlock |-> None,
        hasProof |-> FALSE, feature |-> None])
  /\ job' = Append(job, "getTransaction")
  /\ nodes' = nodes \cup {[borrower |-> claim.borrower, uscEvidenceId |-> None]}
  /\ UNCHANGED <<calls, prepared, sent>>

\* Whatever else has happened to the request, the job overwrites its status.
FailJob(r) ==
  /\ job[r] # "ended"
  /\ requests' = [requests EXCEPT ![r].status = "FAILED"]
  /\ job' = [job EXCEPT ![r] = "ended"]
  /\ UNCHANGED <<calls, nodes, prepared, sent>>

FoundTransaction(r) ==
  /\ job[r] = "getTransaction"
  /\ requests' = [requests EXCEPT ![r].status = "PROOF_GENERATING",
                                  ![r].sourceBlock = SourceBlock[requests[r].txHash]]
  /\ job' = [job EXCEPT ![r] = "getProof"]
  /\ UNCHANGED <<calls, nodes, prepared, sent>>

\* Attestation is awaited with a timeout, then the proof.
GotProof(r) ==
  /\ job[r] = "getProof"
  /\ requests' = [requests EXCEPT ![r].status = "PROOF_READY", ![r].hasProof = TRUE]
  /\ job' = [job EXCEPT ![r] = "ended"]
  /\ UNCHANGED <<calls, nodes, prepared, sent>>

PrepareProof(r) == FoundTransaction(r) \/ GotProof(r) \/ FailJob(r)

EvidenceOf(request) ==
  [sourceTx |-> request.txHash, borrower |-> request.borrower, eventType |-> request.eventType]
-----------------------------------------------------------------------------
(* external: the borrower's wallet and USCVerifier.                        *)

\* prepareVerification gives anyone who asks the transaction to send, while
\* the request is PROOF_READY; any account may send it.
PrepareVerification(r, from) ==
  /\ requests[r].status = "PROOF_READY" /\ requests[r].hasProof
  /\ sent' = Append(sent, [from |-> from, evidence |-> EvidenceOf(requests[r]),
                           state |-> "PENDING"])
  /\ UNCHANGED serviceVars

\* The verifier accepts one claim per source transaction.
Recorded(tx) ==
  \E i \in DOMAIN sent : sent[i].state = "SUCCESS" /\ sent[i].evidence.sourceTx = tx

Mine(i) ==
  /\ sent[i].state = "PENDING"
  /\ \/ ~Recorded(sent[i].evidence.sourceTx) /\ sent' = [sent EXCEPT ![i].state = "SUCCESS"]
     \/ sent' = [sent EXCEPT ![i].state = "REVERTED"]
  /\ UNCHANGED serviceVars
-----------------------------------------------------------------------------
(* completeVerification, from one await to the next.                       *)

StartCompletion(c, r, tx, evidence) ==
  /\ calls[c] = Idle
  /\ calls' = [calls EXCEPT ![c] =
       [stage |-> "network", request |-> r, tx |-> tx, evidence |-> evidence]]
  /\ UNCHANGED <<requests, job, nodes, prepared, sent>>

EndCall(c) == calls' = [calls EXCEPT ![c] = Idle]

FailRequest(c) ==
  /\ requests' = [requests EXCEPT ![calls[c].request].status = "FAILED"]
  /\ EndCall(c)

\* The provider turns out to be connected to another chain; the request fails
\* whatever its status, even while its proof job runs and will overwrite that.
WrongNetwork(c) ==
  /\ Faults /\ calls[c].stage = "network"
  /\ FailRequest(c)
  /\ UNCHANGED <<job, nodes, prepared, sent>>

\* Faulty variant: only a failed request is refused.
CompletableUnlessFailed(r) == requests[r].status # "FAILED"

Completable(r) == requests[r].status \in {"PROOF_READY", "SUBMITTING"}

\* The status is read only now, after the await.
CheckedNetwork(c) ==
  /\ calls[c].stage = "network"
  /\ IF Completable(calls[c].request)
     THEN /\ requests' = [requests EXCEPT ![calls[c].request].status = "SUBMITTING"]
          /\ calls' = [calls EXCEPT ![c].stage = "receipt"]
     ELSE EndCall(c) /\ UNCHANGED requests
  /\ UNCHANGED <<job, nodes, prepared, sent>>

\* Faulty variant: the event's kind and block are not compared.
ReceiptOfBorrower(call) ==
  /\ sent[call.tx].state = "SUCCESS"
  /\ sent[call.tx].from = requests[call.request].borrower
  /\ sent[call.tx].evidence = call.evidence

\* The receipt is of a successful transaction the borrower sent, and its event
\* names the evidence reported, of the request's borrower, kind and block. The
\* source transaction itself is not compared.
ReceiptConfirms(call) ==
  LET request == requests[call.request]
      receipt == sent[call.tx]
  IN  /\ receipt.state = "SUCCESS"
      /\ receipt.from = request.borrower
      /\ receipt.evidence = call.evidence
      /\ receipt.evidence.borrower = request.borrower
      /\ receipt.evidence.eventType = request.eventType
      /\ SourceBlock[receipt.evidence.sourceTx] = request.sourceBlock

CheckedReceipt(c) ==
  /\ calls[c].stage = "receipt"
  /\ IF ReceiptConfirms(calls[c])
     THEN calls' = [calls EXCEPT ![c].stage = "evidence"] /\ UNCHANGED requests
     ELSE FailRequest(c)
  /\ UNCHANGED <<job, nodes, prepared, sent>>

\* The verifier's record agrees with the event it emitted, so the checks of
\* it pass; the evidence becomes a node, one per evidence id.
CheckedEvidence(c) ==
  LET call    == calls[c]
      request == requests[call.request]
      feature == [evidenceId |-> call.evidence, sourceTxHash |-> request.txHash,
                  sourceBlock |-> SourceBlock[call.evidence.sourceTx]]
  IN  /\ call.stage = "evidence"
      /\ requests' = [requests EXCEPT ![call.request].feature = feature,
                                      ![call.request].status = "VERIFIED"]
      /\ nodes' = nodes \cup {[borrower |-> request.borrower, uscEvidenceId |-> call.evidence]}
      /\ EndCall(c)
      /\ UNCHANGED <<job, prepared, sent>>

\* An RPC call fails: the report is lost and the request keeps its status.
LoseCompletion(c) ==
  /\ Faults /\ calls[c] # Idle
  /\ EndCall(c)
  /\ UNCHANGED <<requests, job, nodes, prepared, sent>>

CompleteVerification(c) ==
  WrongNetwork(c) \/ CheckedNetwork(c) \/ CheckedReceipt(c) \/ CheckedEvidence(c)
-----------------------------------------------------------------------------
\* Faulty variant: it does not matter whose evidence it is.
UsableByAnyone(b) == {n \in nodes : n.uscEvidenceId # None}

\* What getVerifiedEvidence lets pass: of this borrower, with an on-chain
\* identity; every node says it is verified.
Usable(b) == {n \in nodes : n.borrower = b /\ n.uscEvidenceId # None}

\* Nothing is prepared for a borrower the policy rejects.
PrepareEligibility(b, S) ==
  LET evidence == {n.uscEvidenceId : n \in S}
      terms    == Evaluate(evidence)
  IN  /\ S # {} /\ S \subseteq Usable(b)
      /\ terms.tier # "REJECTED"
      /\ prepared' = prepared \cup {[borrower |-> b, evidence |-> evidence, terms |-> terms]}
      /\ UNCHANGED <<requests, job, calls, nodes, sent>>

\* The process dies and starts again. Nodes are only ever added, so the graph
\* the file gives back is a part of the one in memory.
Restart ==
  /\ requests' = <<>> /\ job' = <<>>
  /\ calls' = [c \in Calls |-> Idle]
  /\ nodes' \in SUBSET nodes
  /\ UNCHANGED <<prepared, sent>>
-----------------------------------------------------------------------------
Next ==
  \/ \E claim \in Claims :
        Len(requests) < MaxRequests /\ CreateVerificationRequest(claim)
  \/ \E r \in DOMAIN requests : PrepareProof(r)
  \/ \E r \in DOMAIN requests, from \in Borrowers :
        Len(sent) < MaxSent /\ PrepareVerification(r, from)
  \/ \E i \in DOMAIN sent : Mine(i)
  \/ \E c \in Calls, r \in DOMAIN requests, i \in DOMAIN sent :
        \E evidence \in {sent[i].evidence, EvidenceOf(requests[r])} :
          StartCompletion(c, r, i, evidence)
  \/ \E c \in Calls : calls[c] # Idle /\ CompleteVerification(c)
  \/ \E c \in Calls : LoseCompletion(c)
  \/ \E b \in Borrowers : \E S \in SUBSET nodes : PrepareEligibility(b, S)
  \/ Restart

Spec == Init /\ [][Next]_vars
-----------------------------------------------------------------------------
(* Properties.                                                             *)

\* The verifier recorded this evidence of b in a transaction b sent.
Proven(b, evidence) ==
  \E i \in DOMAIN sent :
    sent[i] = [from |-> b, evidence |-> evidence, state |-> "SUCCESS"] /\ evidence.borrower = b

\* However completions of a request overlap and reports mix up transactions, a
\* feature stands for evidence the verifier recorded for that borrower, of the
\* kind asked for and from the block of the request's source transaction.
FeatureBacked ==
  \A r \in DOMAIN requests :
    LET request == requests[r] IN
    request.feature # None =>
      /\ Proven(request.borrower, request.feature.evidenceId)
      /\ request.feature.evidenceId.eventType = request.eventType
      /\ request.feature.sourceBlock = request.sourceBlock

\* Every set of evidence prepareEligibility lets through consists of evidence
\* recorded on chain for that borrower, although the graph also holds nodes
\* that say they are verified and are not.
PreparedIsProven ==
  \A p \in prepared : \A evidence \in p.evidence : Proven(p.borrower, evidence)

AfterJob(r) == job[r] = "ended" /\ requests[r].hasProof

\* A completion that is past its status check, and a request that was ever
\* completed, have a proof job that ended with a proof: the job overwrites
\* neither SUBMITTING, nor the outcome of the checks that follow. It may
\* overwrite the FAILED of a wrong network, which is written before that check.
CompletedAfterJob ==
  /\ \A c \in Calls : calls[c].stage \in {"receipt", "evidence"} => AfterJob(calls[c].request)
  /\ \A r \in DOMAIN requests :
       requests[r].status = "SUBMITTING" \/ requests[r].feature # None => AfterJob(r)

\* What live-guards.cjs:20 says of the backend: nothing is confirmed without
\* the chain's confirmation. createVerificationRequest does it.
VerifiedMeansConfirmed ==
  \A r \in DOMAIN requests : requests[r].status = "VERIFIED" => requests[r].feature # None

\* Whatever is prepared the registry accepts: the limits written out in the
\* backend's policy stay within those written out in the contract.
PreparedWithinTier ==
  \A p \in prepared :
    /\ p.terms.credit <= TierMaxCredit[p.terms.tier]
    /\ p.terms.ltv <= TierMaxLtvBps[p.terms.tier]
=============================================================================
