# PrivateCredit Graph: models, checks and proofs

PrivateCredit Graph lends native currency on a Creditcoin chain. Solidity
contracts (`contracts/`) hold the money and the rules; an Express backend
(`backend/src/`) prepares transactions, follows source-chain evidence and keeps
a graph for the React frontend (`frontend/`). This directory holds TLA+ models
of the parts whose behaviour over many steps is hard to test, the TLC runs that
check them and theorems TLAPS proves about them.

## 1. The system

| Part | State | Operations | Talks to |
|---|---|---|---|
| `EligibilityRegistry.sol` | borrower -> credit terms, nonce; the registrar | register, revoke, replace the registrar | read by capacity manager, marketplace, artefact registry; written by `USCVerifier` or the deployer |
| `CapacityManager.sol` | used and default-locked principal per borrower | reserve, release, lock | called by the vault; reads the registry |
| `RepaymentRegistry.sol` | one record per ended loan, list per borrower | record | called by the vault |
| `LoanVault.sol` | loans, collateral | originate, repay (part or full), declare default | called by the marketplace and by anyone; pays borrowers and lenders |
| `LoanMarketplace.sol` | requests, offers, their deposits | create, cancel, offer, withdraw, accept | reads registry and capacity; calls the vault |
| `DebtAuctionManager.sol` | auctions, highest bids, loan -> auction | create, bid, settle | nothing: the vault keeps its address and never calls it |
| `USCVerifier.sol`, `EvmV1Decoder.sol` | verified evidence, what was used | verify a proved transfer, register from evidence | proof precompile, registry |
| `ArtefactRegistry.sol` | committed artefacts | commit, verify | reads the registry |
| `loans.routes.ts` (faucet), `seed-demo.mjs` | nothing of their own | fund an account, take the registrar's place over, register, give it back | registry, as the deployer, one transaction per await |
| `AttestcoinService.ts` | verification requests in memory | create, prepare the proof in the background, prepare the transaction, complete | source chain, proof builder, `USCVerifier`, graph |
| `EvidenceNormalizer.ts`, `SnapshotService.ts`, `AssessmentService.ts`, `PolicyEngine.ts` | evidence nodes of the graph | mint, freeze a set, score, prepare a registration | graph |
| `Database.ts` | graph, off-chain auctions and audit log in memory, and a JSON file | set, record, debounced flush, read at start | the file system |
| `GraphStore.ts` | nodes and edges, kept in `Database`, where `AttestcoinService` and `EvidenceNormalizer` draw evidence too | copy what the chain says of a wallet, answer its graph | the chain through RPC, `Database`, `EventStream` |
| `auctions.routes.ts` | off-chain auctions, kept in `Database` | create, bid (which settles), list | `Database`, `GraphStore`, `EventStream` |
| `EventStream.ts`, `LoansView.tsx` | connected browsers; the list one of them shows | broadcast; reload on an event | each other, over a connection that may break |

What is hard here:

* **Order.** A loan depends on an eligibility read long before: it can expire,
  be revoked or be replaced between request, acceptance, repayment and default.
  Offers on one request race each other, the borrower's cancellation and their
  own withdrawal. Repayment and default race after the grace period.
* **Two books for one fact.** Vault, capacity manager, repayment registry and
  the balance of two contracts all describe the same loans, and are changed by
  different calls of one transaction.
* **All or nothing.** A payee that refuses payment undoes the transaction that
  pays it, so one account can hold a loan or an auction open.
* **Nobody acts by itself.** Defaults and settlements happen when somebody sends
  the transaction.
* **Awaits in the backend.** Registrar takeovers, proof jobs, graph
  synchronisation and debounced writes interleave and can be cut short.

`PROJECT.json` lists these hazards at their lines, with the properties that
cover each or the reason none does yet.

### What makes each part correct

* Registry: terms never exceed their tier; expired or revoked terms never count.
* Capacity: the counters are exactly the active and defaulted principal; the
  sum never passes the limit; closing a loan never depends on current terms.
* Repayment registry: one record per ended loan, saying what happened.
* Vault: collateral of active loans is always there; a full repayment pays the
  lender exactly principal and interest; no loan is stuck by bookkeeping.
* Marketplace: deposits of pending offers are always there; one accepted offer
  per funded request; loans follow their offer.
* Auctions: one running auction per loan; every bid is held, refunded or paid
  out exactly once; price and winner are final at the end.
* Verifier: one source transaction proves one thing once, and supports one
  registration.
* Faucet and seeding script: the registrar's place is given back; a successful
  answer is true.
* Verification requests: a feature, and every set of evidence offered for
  registration, is backed by the verifier's record.
* Database: a restart reads one whole earlier state; what was answered is saved once
  writes pause, unless a flush fails or the process dies first.
* Graph: badges, evidence, loans and requests hang on the wallet they belong to, and no loan
  or request is drawn with a status the chain never gave it. Edges may lead nowhere: evidence
  is joined to its wallet before anybody draws that.
* Off-chain auctions: the first bid is the sale; list, graph and log agree on it; a browser
  that has heard of every update and had its last answer shows it.
* Artefacts are bound to the current eligibility. (Not modelled.)

## 2. Modules

| Module | Models |
|---|---|
| `PolicyConstants` | `PolicyConstants.sol`, as parameters with their assumptions |
| `Chain` | external: the clock and native payments |
| `EligibilityRegistry`, `CapacityManager`, `RepaymentRegistry`, `LoanVault`, `LoanMarketplace` | the contract of that name: its mappings are variables, its functions actions or steps of the caller's action |
| `PrivateCredit` | the deployed composition: `Init`, `Next`, fairness and all properties |
| `LoanBook` | abstract: what the lending contracts promise, without counters, escrow or offers |
| `MCPrivateCredit` | instances of `PrivateCredit` for TLC |
| `SumTheorems` | what a sum over a finite set becomes when one item changes, joins or leaves: lemmas for the proofs about money and capacity |
| `PrivateCreditProofs` | theorems about `PrivateCredit`: types |
| `PrivateCreditLoanProofs` | theorems about `PrivateCredit`: terms, debts and history of loans, and the capacity counters |
| `PrivateCreditMarketProofs` | theorems about `PrivateCredit`: offers, agreement, that it implements `LoanBook`, and where the money is |
| `DebtAuctionManager` | that contract, its composition with accounts and time, and its properties |
| `AuctionHouse` | abstract: what the auction contract promises, without clock, escrow or failing settlements |
| `DebtAuctionProofs` | theorems about `DebtAuctionManager`, among them that it implements `AuctionHouse` |
| `USCVerifier` | that contract, as a component on top of `EligibilityRegistry` |
| `Onboarding` | `USCVerifier` and the registry composed with those who take the registrar's place: faucet requests and runs of the seeding script, one action per awaited call |
| `EvidenceLedger` | abstract: what verifier, registry and those who act as registrar promise together, without proofs, flags, nonces or a registrar |
| `OnboardingProofs` | theorems about `Onboarding`, among them that it implements `EvidenceLedger` |
| `PolicyEngine` | that rule: points, tiers and their terms, on top of `PolicyConstants` |
| `AttestcoinService` | that service with `EvidenceNormalizer`, `SnapshotService`, `AssessmentService` and `PolicyEngine`: requests, proof jobs, completions and restarts, one action per stretch between awaits; the borrowers' wallets and the verifier as external actions |
| `AttestcoinProofs` | theorems about `AttestcoinService` |
| `Database` | that file: data in memory, the debounced flush in two steps, failing flushes, what a restart reads |
| `GraphStore` | the synchronisation of a wallet's graph, one action per awaited call, on top of `Database`; the evidence `AttestcoinService` and `EvidenceNormalizer` draw beside it (`MintEvidence`, `NormalizeAndStore`); the chain as external actions |
| `AuctionDesk` | the off-chain auction routes, the event stream and the list in a browser with its requests, which are read, written out, shown or failed one by one, on top of `Database` |
| `Backend` | the process: graph requests, evidence and auction handlers interleaved on one database that is flushed and restarted; all their properties |
| `SaleBook` | abstract: what the off-chain auctions promise, without handlers, timers, a flush in two steps or one that fails |
| `BackendProofs` | theorems about `Backend`, among them that it implements `SaleBook` |
| `MCOnboarding`, `MCAttestcoin`, `MCBackend` | instances of `Onboarding`, `AttestcoinService` and `Backend` for TLC |

How state and actions correspond to the code:

* A transaction runs alone, so a public function is one action, including every
  call it makes: `AcceptOffer` contains `OriginateLoan`, which contains
  `ReserveCapacity`; `RepayInFull` contains `ReleaseCapacity` and
  `RecordRepayment`. A revert anywhere means the whole action is disabled.
* Payments are applied in the contract's order by `Transfer`; each must succeed
  (`CanTransfer`): the payer has the amount and the payee accepts it. Accounts in
  `Rejecting` are contracts that refuse to be paid, a call with zero included.
* Ids count from 1, so `loans`, `requests`, `offers` and `auctions` are sequences.
  An id that names nothing reads as zeroes in Solidity; each function then
  reverts in its first checks, so ids range over existing ones.
* `registerEligibility`'s policy version, commitment and context matter only by
  being non-zero: they are one value `evidence`, or `NoEvidence`.
* Hashes are what they are computed from: `queryId` is the inclusion itself,
  `evidenceId` the tuple `EvidenceId`. A proof shows a member of `Inclusions` or is
  refused by the precompile; decoding is not modelled, and a transaction is the
  sequence of its well-formed transfer logs, so the scan's order is kept.
* A backend handler is a process: `stage` (or `job`, `calls`) is the await it stands
  at. A call may fail without effect (`Fail`, `LoseCompletion`), or take effect and
  fail for the caller (`GoTo`); a stopped server is a process that never goes on.
* The failed checks of one stretch of `completeVerification` all end in FAILED, so
  they are one disjunct (`CheckedReceipt`). Nodes say `verified` always; what tells
  them apart is `uscEvidenceId`, absent in those minted with the request.
* In the backend a handler without an await is one action (`CreateAuction`, `Bid`); what
  it writes is one `Commit`, which arms the timer anew. `FlushSync` is two steps because
  the process can die between writing and renaming; no other code runs in between, so
  every `Commit` asks for a timer that is not `flushing`. How long a timer or an
  attestation takes is left open.
* A graph request reads the answer to its call in the step that follows it. Nodes are
  only ever added, so reading it earlier would show nothing else that matters here: an
  older status of a loan is one the loan had (`NodesTruthful` allows it).
* A node stands for its status. Nodes are identified by kind and owner or number, edges by
  the nodes they join; off-chain auctions by loan and millisecond, as in the code.
* A restart of `AttestcoinService` empties the requests and leaves any part of the evidence
  nodes. That is coarser than `Database`, which it stands for: nodes are only added.
* `current` and `late` in `AuctionDesk` are history: they say whether a browser has missed
  an update, and never guard a step of the code.
* `GET /api/auctions` takes references to the objects of the list, awaits the chain and only then
  writes them out. Bids change those objects, so `ReadAuctions` keeps references and
  `AnswerFetch` reads through them; an object that another takes the place of in the list
  stays with the answer that refers to it (`Detached`).
* A bidder is stored in lower case, or as 'unknown', in the list and as sent in the node:
  `Recorded` is that conversion, and `NoBidder` is a bid that names nobody.
* Not carried: creation times and the request's `collateralAmount`, which no
  function reads; an auction's borrower, principal and collateral, likewise; the
  `Pausable` checks, since no contract exposes a way to pause.
* `Faulty variant` operators model nothing. They are plausible mistakes; replacing
  the real operator by one must break a property.

## 3. Runs

Basis points are quarters in the lending instances (`BPS_DENOMINATOR = 4`) and a
year is one unit of time, so interest and minimum collateral round as in the code.

| Run | Question | Bounds |
|---|---|---|
| `market` | Do competing offers fund a request once, and loans follow the offer? | two accounts that both borrow and lend, two requests, two offers, two durations, one amount, collateral 0 or 1, terms that expire at time 1 |
| `servicing` | Do counters, history and money agree through repayment, default, revocation and renewal? Do the contracts implement `LoanBook`? Does every loan end? | one borrower, one ordinary and one rejecting lender, two loans, two registrations of two tiers, four instants: enough to default, be registered again and borrow up to the limit; with fairness |
| `ltv_comment` | Does the stated collateral ratio hold? No. | terms with ratio zero |
| `auctions` | Is every bid held, refunded or paid out once? Does the contract implement `AuctionHouse`? Does every auction end? | three accounts, one of them rejecting; two loans, two auctions; bids 0, 19, 20, 21 around the point where five per cent rounds to nothing; reserve 0 or 20; with fairness |
| `evidence` | Does a source transaction prove one thing and support one registration? Does it all implement `EvidenceLedger`? | two borrowers, both kinds, two tokens reconfigured at any time; four transactions: a plain payment, a batch of three transfers, one nobody may use, a failed one; two registrations per borrower that expire, are revoked and race a faucet request |
| `handoff` | Does the registrar's place come back? Are answers true? | two faucet requests for two accounts and one run of the script, every call of which may fail; with fairness |
| `evidence_token` | Is the recorded token the one that was transferred? No. | one batch, two accepted tokens |
| `attestcoin` | Are features and prepared evidence backed by the chain, across restarts? | two requests out of four claims that differ in transaction, in kind and block, or in borrower; one transaction sent by anyone; two overlapping completions, each with the evidence asked for or the one emitted; every call may fail; any number of restarts; the deployed limits |
| `synthetic_verified` | Does VERIFIED mean confirmed? No. | as `attestcoin` |
| `graph` | Is what is drawn joined to its owner, true and complete, in memory and on disk? | two requests at once for two wallets, which share two loans, one of them repaid since it was seeded, one that may be created and repaid; a borrow request of a third wallet, which no graph request draws; a seed of a loan, an eligibility and evidence of one wallet; evidence of the other, drawn before or after it is; RPC calls that fail; one failed flush or restart |
| `desk` | Is a sale final and saved, does the backend implement `SaleBook`, and when is a browser out of date? | two auctions of one loan, bids that name a bidder in capitals or nobody, two milliseconds, a log of two entries, one browser with two requests under way, any of which may fail, one failed flush or restart; the seed's graph of one wallet, to which auctions are linked; with fairness |
| `loan_node` | Does a loan's node track the loan? No. | one loan that is repaid, one borrow request, one graph request at a time, nothing fails |

Bounds are the constants `MaxTime`, `MaxNonce`, `MaxRequests`, `MaxOffers`,
`MaxAuctions`, `MaxSent`, `MaxFaults`, `MaxFetches`, `MaxMillis`; they appear only in guards. `MaxAudit` is the code's 500, made small enough to be reached. Two loans and two
offers are enough for every property above to be violated by a mistake in one
of them: each compares two items at most, and every mutant in `PROJECT.json` is
caught within these bounds. Auction instances stop when time and auctions run
out, onboarding when every process has ended, the browser's list when its auctions
are sold, so those runs do not check deadlock; the lending instances never stop.

### Properties worth reading first

* `WalletsMatchBooks`: every account's balance follows from the loans and offers
  alone. It catches any payment that is missing, doubled or misdirected.
* `CapacityMatchesLoans`, `HistoryMatchesLoans`: two other contracts agree with
  the vault after every transaction.
* `ExitsStayOpen`: no bookkeeping stands in the way of repaying, declaring a
  default or withdrawing, whatever became of the eligibility.
* `DrawsWithinTerms`: terms are valid and sufficient when a loan is drawn.
* `KeepsLoanBook`: a refinement. An active loan maps to `OPEN`, an ended one to
  the outcome in the repayment registry, `exposure` to used plus locked capacity.
* `KeepsAuctionHouse`: a refinement. An auction maps to a lot that closes when its end
  passes, so time closes lots; an account's balance maps to its owner's funds, and the
  contract's own balance to nothing: that bids are held and returned is what is shown.
  In particular a debt is never sold below its reserve, nor without a buyer.
* `KeepsEvidenceLedger`: a refinement. Recorded evidence maps to claims about borrowers,
  and terms to the claims they rest on: found by the nonce of the registration event, since
  the registry's record alone does not tell the deployer's word from evidence. Spent claims
  are those of all registrations so far, not those the verifier has flagged. Submitting
  a proof again is no step of the ledger, so one source transaction proves one thing.

* `EvidenceSupportsOneRegistration`: whatever expires, is revoked or replaced, and
  whoever is named, no source transaction supports two registrations.
* `RegistrarAccountedFor`, `RegistrarReturns`: only a process that failed or still
  has to act keeps `USCVerifier` out. A failure after the takeover does keep it out
  for good: the code has no recovery.
* `PreparedIsProven`: although the graph holds nodes that call themselves verified,
  what is prepared for registration was recorded on chain for that borrower.
* `FeatureBacked`: overlapping completions with mixed-up transactions never produce
  a feature of another borrower, kind or block. The source transaction itself may
  differ from the request's, and the status may end as FAILED: the code compares
  only the block, and a second completion may fail after the first succeeded.

* `CompletedAfterJob`: once a completion has passed its status check, the proof job of its
  request is over, so it overwrites neither SUBMITTING nor the outcome. Before that check a
  wrong network writes FAILED (`AttestcoinService.ts:250`) even while the job runs, and the job
  then overwrites it: the code does that, the model too, and the property does not deny it.
* `NothingDangling`, `NodesTruthful`: of the graph in memory and of the
  one a restart would read, however requests overlap, fail half way or die. Nothing
  mends a half-drawn node later, because a node found is left alone. The one edge that may
  lack an end is that of claimed evidence (`AttestcoinService.ts:141`), whose wallet is drawn
  only when its graph is asked for or its evidence is completed; a request has drawn its wallet
  by the time it is answered.
* `SyncCollects`: a request draws every loan of its wallet that it was told of, unless an
  RPC call fails. It does not say that the graph of the wallet shows it: a loan's second
  party gets no edge, since the node is there already.
* `KeepsSaleBook`: a refinement. An auction maps to who bought it, the book to memory and
  its copy to what a restart would read: a flush saves all sales or none, however it ends,
  and a restart is the only thing that undoes one.
* `AuctionsAgree`: list, nodes and log tell the same sales across racing bids, a log that
  drops entries, failing flushes and restarts. Of the buyer the list has the lower case of what
  the node has, or 'unknown' where the node has nobody.
* `QuietViewsCurrent`: there are four ways for a browser at rest to be out of date: an event
  lost or sent while it was not connected, a restart that took back unsaved updates (no event
  tells of it, and the view ignores CONNECTED), an answer that arrived after that of a later
  request, and a last request that failed, for which an empty list is shown. Each is needed:
  left out of `current` and `late`, any one of them makes the property fail in `desk`.

### Fairness

`FairSpec` assumes that time passes and that `declareDefault` (or
`settleAuction`) is sent while it stays possible. No component does this; both
functions are open to everyone and the lender gains by them. Nothing is assumed
of repayment, withdrawal or acceptance. A lender in `Rejecting` is excluded:
its loans and auctions do stay open for ever, which is how the code behaves.
For `Onboarding`, `FairSpec` assumes that a handler that can go on does: each awaited
call is answered or throws, and nothing else blocks it. For `Backend` it assumes that the event loop runs the flush
timer once writes pause for 200 ms. Failed flushes, restarts and broken connections are never assumed, nor excluded.

### Disagreements with the documentation

1. `LoanMarketplace.sol:172` says the collateral ratio is 10000 - `maxLtvBps`.
   The check is skipped for `maxLtvBps = 0`, which the registry accepts (`ltv_comment`).
2. `USCVerifier.sol:128` promises to record the transfer; the token recorded is the
   primary one whichever accepted token moved (`evidence_token`).
3. `live-guards.cjs:20` says there is no synthetic confirmation path; a new request
   is stored as VERIFIED with a fixed transaction hash (`synthetic_verified`).
4. `demo_script.md:31` says a loan's node tracks the loan's status; a node found is never
   refreshed (`loan_node`).

Two more are plain from the code and need no run: `README.md:44` calls the recovery auction
a Dutch auction and the contract asks for more with every bid; and
`IEligibilityRegistry.sol:17` says eligibilities are registered through `USCVerifier`,
while the faucet and the script register as the deployer.

## 4. Proofs

The theorems hold for every set of accounts, inputs and bounds that satisfy the
assumptions on the constants, named where they are declared. TLC evaluates the
same assumptions in every run.

| Theorem | Inductive argument |
|---|---|
| `TypeCorrect` (lending) | `TypeOK` is inductive. Each action has a lemma; balances stay natural because `TransferType` needs only that the payer can afford the payment. |
| `ExposureIsBounded`, `DrawsAreWithinTerms` | Consequences of one accepting step: it is the only one that adds to used capacity, and `CanBorrow` bounds what it adds. Every other step keeps the sum or lowers it. |
| `ActiveLoansStillOwe` | Not inductive: interest grows with time, so "something is owed now" must be known for all later times. `LoansUnderway` says that what was repaid is below the debt at some moment that has passed, and `InterestGrows` (from `DivMonotone`) carries it forward. |
| `HistoryIsTrue` | `HistoryMatchesLoans` with `TypeOK` and `LoansUnderway`: a loan ends once because a record's loan is no longer active, and a repaid loan owed something. |
| `CapacityIsCounted` | `CapacityMatchesLoans` with `TypeOK`, over `SumChange` (below): a transaction touches at most one loan (`Touches`), so each counter and the sum of the loans behind it move by the same amount, or by nothing. |
| `FundingIsSound` | `FundedByOneOffer` with `TypeOK`: accepting needs an open request and closes it in the same step. |
| `LoansAreAgreed` | The conjunct missing from `LoansCarryOutOffers` is that every offer, accepted or not, was made within its request: `OffersWithinRequests`. |
| `ImplementsLoanBook` | Initial states map to initial states; an accepting step opens a loan of the book, a repayment pays or closes it, a default ends it, and the rest are stutters. Uses `TypeOK`, `ExposureBounded`, `OffersWithinRequests` and `HistoryMatchesLoans`. |
| `EscrowIsCovered`, `WalletsAreBooked` | One invariant, `Solvent`: the two escrows and every wallet are what deposits, collateral and gains add up to. Neither theorem stands alone, because each payment has two ends. A transaction changes one offer or one loan, so at most one term of each sum. |
| `ExitsAreNeverRefused` | The guards of `Default` and `Repay` are written out (`CanDefault`, `CanRepay`) and shown to be all that those steps ask for (`DefaultIsGuarded`, `RepayIsGuarded`). They hold because one loan's part of a sum is at most the sum (`SumCovers`): the vault has its collateral, the capacity counter its principal. Besides the theorems above it needs `LoansPaidOut`: every borrower was paid once, and so accepts payments. |
| `TypeCorrect` (auctions) | `TypeOK` is inductive. |
| `OneAuction` | `LatestOnly`: the auction a loan's entry names is its latest, and every earlier one is settled. Creation needs the named one settled. |
| `NeverBelowReserve` | `SoldAtReserve` with `NoBidWithoutBidder`: an auction that ended with a winner sold at or above the reserve, and one nobody bid in has price zero and settles without a winner. No run checks it alone: `KeepsAuctionHouse` does, and its proof needs it. |
| `ImplementsAuctionHouse` | Creation offers a lot, a bid is a bid, settlement sells or passes in, and time closes every lot whose end it passes, perhaps none. Uses `TypeOK`; `LatestOnly`, so that no earlier lot of the debt is unsold; `SoldAtReserve` and `NoBidWithoutBidder`, so that a bid meets the reserve even when it is the second and the reserve was zero (`BidMeetsReserve`), and a settlement sells exactly if there is a leader. |
| `PriceIsFinal` | from `TypeOK`: only a bid changes price and bidder, and its guard compares with the end time, which no step changes. |
| `MoneyIsAccounted` | `Accounted` with `TypeOK`: what is held, staked and earned are three sums over auctions; a bid replaces one term and refunds the earlier one, a settlement moves one term from held to earned. Uses `NoBidWithoutBidder`, since an auction without bidder must count for nothing. |
| `NobodyIsRefused` | as `ExitsAreNeverRefused`: `CanBid` and `CanSettle` hold because a running auction's bid is part of what the contract holds (`BackedBid`). |
| `TypeCorrect` (requests) | `IInv` is `TypeOK` with four parts: `RequestOK` (a request with a proof, or one that may be completed, has a job that ended with it; a feature is confirmed by a transaction that succeeded), `CallOK` (a completion past the status check works on a request whose job has ended, and past the receipt check on confirmed evidence), `NodeOK` (an evidence node with an on-chain identity is proven) and `PreparedOK`. |
| `FeaturesAreBacked`, `CompletionsFollowJobs` | `RequestOK` with `CallOK`: a job that ended with a proof stays so, and only such a request passes the status check; between the receipt check and the write only the status of a request can change, because its job has ended; a transaction that succeeded stays so. |
| `OnlyProvenIsPrepared` | `NodeOK`: a restart only removes nodes, and the verifier's record outlives the backend. |
| `TermsWithinTier` | Every value of `TermsOf` is within `DeployedLimits`. No run checks it: it is a table against a table, and the theorem covers every set of evidence. |
| `TypeCorrect` (onboarding), `RegistrarKept`, `AnswersTrue` | `ProcessesOK`: with `RegistrarAccountedFor` and the types, an account whose process is past its registration has a positive nonce (`AnswerOK`). Nonces never fall, so nobody else's takeover or revocation undoes an answer; and a process leaves `Holding` only by giving the place back. |
| `OneClaim`, `EvidenceIsTrue` | `VerifierOK` (of which `OneClaimPerTransaction`, the statement of `OneClaim`, is a part; a run checks it within `KeepsEvidenceLedger`): the inclusion each piece of evidence was read from is among the processed ones and shows it (`Shows`), and a processed inclusion is never accepted again. A transaction has one place on its chain (the assumption `OneInclusion`, what the precompile promises), so one inclusion is one transaction. That the transfer chosen is one of those that match needs `MinIsIn`, by well-foundedness of the natural numbers. |
| `ImplementsEvidenceLedger` | `IInv` with `FreshNonces`: no registration event has a nonce its borrower has not reached, so a record the deployer writes is never taken for that of an earlier event. `ShownIsTrue` makes what a proof shows a true claim, and `ClaimsApart` says that two pieces of evidence never make one claim, so claims not flagged are claims not spent. |
| `EvidenceUsedOnce` | Not inductive: `SpentByRegistrations` adds that what is marked used is exactly the union of what the registrations were based on, and that these sets are disjoint. |
| `NothingIsUnsaved`, `NothingEverDangles` | `StoreOK`: whatever is said of the data in memory is said of `Loaded(file)` too, what a restart would read. A flush makes the second the first, a restart the first the second, and a handler only adds to the drawing (`Grows`). An edge to a wallet that is not drawn is added for claimed evidence only, and `SyncsOK` says that a request past its first call has drawn its wallet. |
| `NodesAreTruthful` | `ChainOK`: the same of both databases, and a status on the chain changes once and away from its first value, so a node drawn earlier shows the first status or the present one. |
| `SyncCollectsAll` | `SyncsOK`: a request at its n-th loan has drawn every earlier one of its wallet. Nodes are never taken away while a request is under way, since a restart ends the requests. |
| `SalesAreFinal`, `ImplementsSaleBook` | `DeskOK`: the sales in the file stand in memory. A bid finds an auction already in memory, and a creation cannot overwrite a sale because `SoldBefore` says a sale happened after the millisecond its auction is named for. The refinement needs `StoreOK` besides: what a flush leaves, `Loaded(file')`, is the old copy or all of memory. `SaleIsFinal`, the statement of `SalesAreFinal`, says it without the abstract book; a run checks it within `KeepsSaleBook`. |
| `QuietViewsAreCurrent` | `ViewsOK`: a browser that has heard every update waits for the list as it is, or knows that the answer it will end with is late (`GoodView`). It speaks of the last request under way, because a later answer replaces an earlier one. What an answer will say is its written part and the objects it refers to, read at that moment (`Tells`); `Refers` keeps those in the list, so that a bid changes both alike. |
| `TypeCorrect` (backend) | All of these together are `IInv`. |
| `AuctionsAlwaysAgree` | `AllAgree`, on top of `IInv`, says of memory and of `Loaded(file)` that the nodes are those of the list, with its statuses and the buyers it `Recorded` (`AuctionsDrawn`) and that the log tells only of sales in the list, of none twice (`SalesLogged`). The property alone is not inductive: a log entry for an auction that is not in the list would be a second sale once it is created, so entries must name auctions of the list. An event that is added moves the others up by at most one place (`LogMovesUp`). |

Two facts are hypotheses of theorems rather than assumptions of a module, because TLC
cannot evaluate them: the type correctness of `Onboarding` asks that an evidence root may
stand for any set of verified evidence, and the theorems about `Backend` that `NoFile`, which
stands for an absent file, is no database (`NoFileIsNoData`). Both describe how a value
is represented, not what the code does. The assumption `Provable` says that what the
precompile can prove is a place on a source chain and the transfers of its transaction;
`Seeded` says that the data a first start begins with draws only what the chain has, and `NoAnswer`
that the marks of a request without an answer are no lists of auctions.

The lemmas named `...Effect` say what an action does to loans, capacity and
records, once, so that each invariant is proved from them and not from the
bodies of the actions.

Sums are `SumFunctionOnSet` of the community modules, defined by recursion over a set.
The library's induction principles take an operator, which the provers cannot instantiate, so
`SumTheorems` argues by a smallest counterexample instead: among the subsets of a finite set for
which a claim fails there is one that contains no other (`SmallestSet`, by well-foundedness).
That shows that the recursive function behind the sum exists and is unique, hence unfolds as
it is defined (`SumUnfold`), and that any element may be taken out first (`SumTakeOut`). From
that it gets the type of a sum, that equal terms give equal sums, that a sum of natural
numbers is at least each of its terms (`SumCovers`) and what a change of one term makes of a
sum (`SumChange`), on which every step of the invariants about money and capacity rests.

Only model-checked:

* `ENABLED`, which `ExitsStayOpen` and `NobodyHeldUp` are stated with, is beyond the prover.
  What they are about is proved as `ExitsAreNeverRefused` and `NobodyIsRefused`; that a
  step whose guards hold can be taken is left to TLC.
* `EveryLoanEnds`, `AuctionsEnd`, `RegistrarReturns` and `WritesAreSaved` are liveness under
  fairness.

Every other property of a run that is to pass is stated by a theorem.

## 5. Not modelled, and why

* Generated code: `src/types/ethers-contracts/` (14,409 of the 20,049 lines of the
  implementation) is what a tool writes from the contracts' interfaces. It is not modelled,
  and neither are the deployment records.
* `EvmV1Decoder` decodes bytes and keeps no state.
* `ArtefactRegistry` compares the nonce and validity of the committer's own eligibility in
  the transaction that commits, so everything one could state of it repeats that guard.
* The frontend except the list of auctions: forms and rendering, with transactions sent
  by a wallet. The view also listens for `LOAN_ACTION`, which nothing broadcasts.
* In the lending model: the owner's setters other than `setRegistrar` (the deployment's
  wiring is fixed), `uint256` overflow (Solidity reverts, and amounts are far from
  2^256), and payees that call back in the middle of a transaction.
* In onboarding: the counter `borrowerEvidenceNonces`, which nothing reads; the demo
  transactions the script sends after the registrar is back; a transaction mined after
  its sender gave up, which looks like an answer that was lost.
* In `AttestcoinService`: amounts and texts of features, and the hash that commits to a set
  of evidence. In the graph: balances and texts.
* In `GraphStore`, the pieces of evidence of a wallet count as two nodes, claimed and verified:
  each request mints a node of its own with an edge of its own, and nothing stated tells
  them apart. `AttestcoinService` has them one by one, without edges.
* The on-chain auctions in the list of `GET /api/auctions`, which it only reads.
* Amounts of bids. A bidder that is there but no string throws at `auctions.routes.ts:137`, after
  line 136 has changed `highestBid` in memory with no flush to follow; nothing else that is
  kept has changed by then, so in the model such a bid is none.
* A bid in the millisecond its auction was created in: `Bid` asks for a later one, since the id
  has to reach the bidder first. The code does not check it, and with such a bid a second auction
  of that loan in that millisecond would replace a sale.
* What else makes the view load its list: the user's own loan transactions,
  bids and faucet requests (`LoansView.tsx:125`, `204`, `224`) and a change of account. That only asks once more.

What would add most from here: a vault and marketplace whose payees may call back, refining
`PrivateCredit`'s atomic transactions; and `DebtAuctionManager` composed with the vault, which
today share nothing but a loan's number.
