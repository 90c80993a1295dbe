---------------------------- MODULE USCVerifier ----------------------------
(***************************************************************************)
(* contracts/usc/USCVerifier.sol: turns a transaction proved to be on a    *)
(* source chain into evidence about a borrower, once, and evidence into a  *)
(* registration of credit terms, once. A component, composed with those    *)
(* who take the registrar's place in the module Onboarding.                *)
(*                                                                         *)
(* Hashes are modelled by what they are computed from. A proof either      *)
(* shows a member of Inclusions or is refused; decoding is not modelled,   *)
(* so a transaction is a record whose transfers are its well-formed        *)
(* Transfer logs, in order.                                                *)
(***************************************************************************)
EXTENDS EligibilityRegistry, Sequences, FiniteSetsExt

CONSTANTS
  SourceTokens, SourceChainIds, ChainKeys,
  Unset,       \* a zero token, chain id or chain key
  Inclusions   \* external: [chainKey, blockHeight, transaction] that can be proved

VARIABLES
  sourceToken, sourceChainId, sourceChainKey,
  supportedSourceTokens,     \* pairs <<source chain, token>>
  supportedSourceChainKeys,
  processedQueries,          \* the inclusions already used
  verifiedEvidence,          \* the set of evidence recorded, identified by EvidenceId
  evidenceUsedForEligibility,
  registrations              \* the EligibilityRegisteredFromEvidence events, in order

sourceVars ==
  <<sourceToken, sourceChainId, sourceChainKey, supportedSourceTokens, supportedSourceChainKeys>>
evidenceVars == <<processedQueries, verifiedEvidence>>
usageVars == <<evidenceUsedForEligibility, registrations>>
verifierVars == <<sourceVars, evidenceVars, usageVars>>

EvidenceType == {"INFLOW", "REPAYMENT"}
Transactions == {inclusion.transaction : inclusion \in Inclusions}

VerifiedEvidence ==
  [sourceChainId : SourceChainIds, chainKey : ChainKeys, blockHeight : Nat,
   transaction : Transactions, borrower : Users, evidenceType : EvidenceType,
   token : SourceTokens, sender : Users, amount : Nat]

\* What evidenceId hashes, the contract's own address aside.
EvidenceId(e) ==
  <<e.sourceChainId, e.chainKey, e.transaction, e.borrower, e.evidenceType>>

VerifierTypeOK ==
  /\ sourceToken \in SourceTokens \cup {Unset}
  /\ sourceChainId \in SourceChainIds \cup {Unset}
  /\ sourceChainKey \in ChainKeys \cup {Unset}
  /\ supportedSourceTokens \subseteq SourceChainIds \X SourceTokens
  /\ supportedSourceChainKeys \subseteq ChainKeys
  /\ processedQueries \subseteq Inclusions
  /\ verifiedEvidence \subseteq VerifiedEvidence
  /\ evidenceUsedForEligibility \subseteq verifiedEvidence
  /\ registrations \in Seq([borrower : Users, nonce : Nat,
                            evidence : SUBSET verifiedEvidence])

VerifierInit ==
  /\ sourceToken = Unset /\ sourceChainId = Unset /\ sourceChainKey = Unset
  /\ supportedSourceTokens = {} /\ supportedSourceChainKeys = {}
  /\ processedQueries = {} /\ verifiedEvidence = {}
  /\ evidenceUsedForEligibility = {} /\ registrations = <<>>
-----------------------------------------------------------------------------
(* The owner's configuration. Enabling the first token or key also makes   *)
(* it the primary one; disabling never changes the primary one.            *)

SetSourceToken(chainId, token) ==
  /\ sourceToken' = token /\ sourceChainId' = chainId
  /\ supportedSourceTokens' = supportedSourceTokens \cup {<<chainId, token>>}
  /\ UNCHANGED <<sourceChainKey, supportedSourceChainKeys, evidenceVars, usageVars>>

SetSourceChainKey(key) ==
  /\ sourceChainKey' = key
  /\ supportedSourceChainKeys' = supportedSourceChainKeys \cup {key}
  /\ UNCHANGED <<sourceToken, sourceChainId, supportedSourceTokens, evidenceVars, usageVars>>

\* Faulty variant: the first token enabled becomes primary without its chain.
ConfigureTokenOnly(chainId, token, enabled) ==
  /\ supportedSourceTokens' = IF enabled THEN supportedSourceTokens \cup {<<chainId, token>>}
                                         ELSE supportedSourceTokens \ {<<chainId, token>>}
  /\ sourceToken' = IF enabled /\ sourceToken = Unset THEN token ELSE sourceToken
  /\ UNCHANGED <<sourceChainId, sourceChainKey, supportedSourceChainKeys, evidenceVars, usageVars>>

ConfigureSourceToken(chainId, token, enabled) ==
  /\ supportedSourceTokens' = IF enabled THEN supportedSourceTokens \cup {<<chainId, token>>}
                                         ELSE supportedSourceTokens \ {<<chainId, token>>}
  /\ IF enabled /\ sourceToken = Unset
     THEN sourceToken' = token /\ sourceChainId' = chainId
     ELSE UNCHANGED <<sourceToken, sourceChainId>>
  /\ UNCHANGED <<sourceChainKey, supportedSourceChainKeys, evidenceVars, usageVars>>

ConfigureSourceChainKey(key, enabled) ==
  /\ supportedSourceChainKeys' = IF enabled THEN supportedSourceChainKeys \cup {key}
                                            ELSE supportedSourceChainKeys \ {key}
  /\ sourceChainKey' = IF enabled /\ sourceChainKey = Unset THEN key ELSE sourceChainKey
  /\ UNCHANGED <<sourceToken, sourceChainId, supportedSourceTokens, evidenceVars, usageVars>>
-----------------------------------------------------------------------------
AcceptedToken(token) ==
  token = sourceToken \/ <<sourceChainId, token>> \in supportedSourceTokens

\* Faulty variant: money that left the borrower counts as repayment wherever
\* it went, and so does money that came in.
ConcernsLoosely(type, borrower, tx, log) ==
  /\ AcceptedToken(log.token) /\ log.value # 0
  /\ borrower \in {log.from, log.to}

\* The logs the scan does not skip: money coming to the borrower, or going
\* from the borrower to the account the transaction called (to anyone if it
\* called the token itself).
Concerns(type, borrower, tx, log) ==
  /\ AcceptedToken(log.token) /\ log.value # 0
  /\ IF type = "INFLOW" THEN log.to = borrower
     ELSE log.from = borrower /\ (log.to = tx.to \/ tx.to = log.token)

Matches(type, borrower, tx) ==
  {i \in DOMAIN tx.transfers : Concerns(type, borrower, tx, tx.transfers[i])}

\* What verifyEvidence records of the first matching transfer. The token is
\* the primary one, whichever accepted token was transferred.
EvidenceOf(type, borrower, inclusion) ==
  LET tx == inclusion.transaction
      transfer == tx.transfers[Min(Matches(type, borrower, tx))]
  IN  [sourceChainId |-> sourceChainId, chainKey |-> inclusion.chainKey,
       blockHeight |-> inclusion.blockHeight, transaction |-> tx, borrower |-> borrower, evidenceType |-> type,
       token |-> sourceToken, sender |-> transfer.from, amount |-> transfer.value]

\* Faulty variant: only the evidence id protects against a second use.
VerifyAgain(type, borrower, inclusion) ==
  LET tx == inclusion.transaction
      evidence == EvidenceOf(type, borrower, inclusion)
  IN  /\ sourceToken # Unset
      /\ inclusion.chainKey \in supportedSourceChainKeys \cup {sourceChainKey}
      /\ inclusion \in Inclusions
      /\ tx.succeeded /\ Matches(type, borrower, tx) # {}
      /\ type = "INFLOW" => evidence.sender = tx.from
      /\ \A e \in verifiedEvidence : EvidenceId(e) # EvidenceId(evidence)
      /\ processedQueries' = processedQueries \cup {inclusion}
      /\ verifiedEvidence' = verifiedEvidence \cup {evidence}
      /\ UNCHANGED <<sourceVars, usageVars>>

\* Anyone may submit a proof, about any borrower. An inflow must have been
\* sent by the transaction's signer: if the first match was not, the call
\* fails, whatever follows in the transaction.
VerifyEvidence(type, borrower, inclusion) ==
  LET tx == inclusion.transaction
      evidence == EvidenceOf(type, borrower, inclusion)
  IN  /\ sourceToken # Unset
      /\ inclusion.chainKey \in supportedSourceChainKeys \cup {sourceChainKey}
      /\ inclusion \notin processedQueries
      /\ inclusion \in Inclusions
      /\ tx.succeeded
      /\ Matches(type, borrower, tx) # {}
      /\ type = "INFLOW" => evidence.sender = tx.from
      /\ \A e \in verifiedEvidence : EvidenceId(e) # EvidenceId(evidence)
      /\ processedQueries' = processedQueries \cup {inclusion}
      /\ verifiedEvidence' = verifiedEvidence \cup {evidence}
      /\ UNCHANGED <<sourceVars, usageVars>>

\* Faulty variant: the evidence is not spent.
RegisterUnspent(b, tier, credit, ltv, until, evidence) ==
  /\ evidence # {} /\ evidence \subseteq {e \in verifiedEvidence : e.borrower = b}
  /\ RegisterEligibility("USCVerifier", b, tier, credit, ltv, until, evidence)
  /\ registrations' = Append(registrations,
       [borrower |-> b, nonce |-> nonces[b] + 1, evidence |-> evidence])
  /\ UNCHANGED <<sourceVars, evidenceVars, evidenceUsedForEligibility>>

\* Anyone may ask for the registration. The list of evidence ids must ascend,
\* so it is a set. The registry's refusal undoes the spending.
RegisterEligibilityFromEvidence(b, tier, credit, ltv, until, evidence) ==
  /\ evidence # {}
  /\ credit # 0 /\ ltv <= BPS_DENOMINATOR /\ until > now
  /\ evidence \subseteq {e \in verifiedEvidence : e.borrower = b}
  /\ evidence \cap evidenceUsedForEligibility = {}
  /\ evidenceUsedForEligibility' = evidenceUsedForEligibility \cup evidence
  /\ RegisterEligibility("USCVerifier", b, tier, credit, ltv, until, evidence)
  /\ registrations' = Append(registrations,
       [borrower |-> b, nonce |-> nonces[b] + 1, evidence |-> evidence])
  /\ UNCHANGED <<sourceVars, evidenceVars>>
=============================================================================
