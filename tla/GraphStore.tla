----------------------------- MODULE GraphStore -----------------------------
(***************************************************************************)
(* backend/src/services/GraphStore.ts: every request for the graph of a    *)
(* wallet first copies what the chain says of that wallet into the         *)
(* database, one RPC call after the other. The code between two awaits is  *)
(* one action, with the answer of the call it waited for read in it: a     *)
(* node that is there is not refreshed, so an older answer shows no more   *)
(* than a chain that changes right afterwards. Balances are left out.      *)
(*                                                                         *)
(* Loans and borrow requests are treated alike: a kind, a number, a status *)
(* and the wallets it concerns. A node is identified by <<kind, owner or   *)
(* number>> and stands for its status; an edge by the nodes it joins.      *)
(*                                                                         *)
(* AttestcoinService draws evidence in the same database. The evidence of  *)
(* a wallet is all alike: one node stands for what was drawn when a        *)
(* verification was asked for, one for what was verified in the end.       *)
(***************************************************************************)
EXTENDS Database

CONSTANTS
  Wallets,
  Claimants,   \* wallets evidence is submitted for, and whose eligibility changes
  Syncs,       \* requests for a graph that may be under way together
  RpcFaults,   \* may RPC calls fail?
  Parties,     \* Parties[kind][i]: the wallets a loan or borrow request concerns
  LastStatus,  \* how loans end (REPAID, DEFAULTED) and requests (FUNDED, CANCELLED)
  ChainStart   \* loans, requests and eligibilities when the backend starts

Kind == {"loan", "request"}
FirstStatus == [loan |-> "ACTIVE", request |-> "OPEN"]

ASSUME GraphInputs ==
  /\ RpcFaults \in BOOLEAN /\ Claimants \subseteq Wallets
  /\ \A kind \in Kind : Parties[kind] \in Seq(SUBSET Wallets)
  /\ ChainStart = [loan |-> ChainStart.loan, request |-> ChainStart.request,
                   eligible |-> ChainStart.eligible]
  /\ \A kind \in Kind : ChainStart[kind] \in Seq({FirstStatus[kind]} \cup LastStatus[kind])
  /\ ChainStart.eligible \subseteq Wallets

VARIABLES
  chain,  \* [loan, request: statuses by number, eligible: wallets that are]
  syncs   \* graph request -> the call it waits for

graphVars == <<chain, syncs>>

Stage == {"balance", "eligible", "terms", "count", "item"}
Idle == [stage |-> "idle"]
Sync == [stage : Stage, wallet : Wallets, kind : Kind, next : Nat, count : Nat]

GraphInit == chain = ChainStart /\ syncs = [s \in Syncs |-> Idle]
-----------------------------------------------------------------------------
(* external: the contracts, as far as the graph reads them.                *)

CreateOnChain(kind) ==
  /\ Len(chain[kind]) < Len(Parties[kind])
  /\ chain' = [chain EXCEPT ![kind] = Append(@, FirstStatus[kind])]

EndOnChain(kind) ==
  \E i \in DOMAIN chain[kind], status \in LastStatus[kind] :
    /\ chain[kind][i] = FirstStatus[kind]
    /\ chain' = [chain EXCEPT ![kind][i] = status]

ChangeEligibility ==
  \E w \in Claimants :
    chain' = [chain EXCEPT !.eligible = IF w \in @ THEN @ \ {w} ELSE @ \cup {w}]

ChainStep ==
  /\ \/ \E kind \in Kind : CreateOnChain(kind) \/ EndOnChain(kind)
     \/ ChangeEligibility
  /\ UNCHANGED <<databaseVars, syncs>>
-----------------------------------------------------------------------------
(* syncOnChainGraphForWallet, from one await to the next.                  *)

StartSync(s, w) ==
  /\ syncs[s] = Idle
  /\ syncs' = [syncs EXCEPT ![s] = [stage |-> "balance", wallet |-> w, kind |-> "loan",
                                    next |-> 1, count |-> 0]]
  /\ NoWrite /\ UNCHANGED chain

\* The root node is added once; later its balance alone is refreshed.
AddWallet(w) ==
  IF <<"wallet", w>> \in DOMAIN data.nodes
  THEN NoWrite ELSE Commit(SetNode(data, <<"wallet", w>>, "unknown"))

GotBalance(s) ==
  /\ syncs[s].stage = "balance"
  /\ AddWallet(syncs[s].wallet)
  /\ syncs' = [syncs EXCEPT ![s].stage = "eligible"]
  /\ UNCHANGED chain

\* A call that fails is taken for "not eligible".
GotEligible(s) ==
  /\ syncs[s].stage = "eligible"
  /\ \/ /\ syncs[s].wallet \in chain.eligible
        /\ syncs' = [syncs EXCEPT ![s].stage = "terms"]
     \/ /\ syncs[s].wallet \notin chain.eligible \/ RpcFaults
        /\ syncs' = [syncs EXCEPT ![s].stage = "count"]
  /\ NoWrite /\ UNCHANGED chain

\* Faulty variant: the mark is put on the badge's node.
MarkBadge(w) ==
  Commit(SetEdge(SetNode(data, <<"elig", w>>, "eligible"), <<"wallet", w>>, <<"elig", w>>))

\* The badge and its edge, and the mark on the wallet's node; neither is ever
\* taken back.
MarkEligible(w) ==
  IF <<"elig", w>> \in DOMAIN data.nodes /\ data.nodes[<<"wallet", w>>] = "eligible"
  THEN NoWrite
  ELSE LET badged == SetEdge(SetNode(data, <<"elig", w>>, "registered"),
                             <<"wallet", w>>, <<"elig", w>>)
       IN  Commit(SetNode(badged, <<"wallet", w>>, "eligible"))

GotTerms(s) ==
  /\ syncs[s].stage = "terms"
  /\ MarkEligible(syncs[s].wallet)
  /\ syncs' = [syncs EXCEPT ![s].stage = "count"]
  /\ UNCHANGED chain

\* The loans come first, then the requests, then the answer.
AfterKind(sync) ==
  IF sync.kind = "loan"
  THEN [sync EXCEPT !.kind = "request", !.stage = "count", !.next = 1, !.count = 0] ELSE Idle

\* A call that fails is taken for "none".
GotCount(s) ==
  /\ syncs[s].stage = "count"
  /\ \E count \in {Len(chain[syncs[s].kind])} \cup (IF RpcFaults THEN {0} ELSE {}) :
       syncs' = [syncs EXCEPT ![s] =
         IF count = 0 THEN AfterKind(@)
         ELSE [@ EXCEPT !.stage = "item", !.count = count]]
  /\ NoWrite /\ UNCHANGED chain

AfterItem(sync) ==
  IF sync.next = sync.count THEN AfterKind(sync) ELSE [sync EXCEPT !.next = @ + 1]

\* Faulty variant: the node is numbered from zero.
AddItemShifted(kind, i, w) ==
  IF w \in Parties[kind][i]
  THEN Commit(SetEdge(SetNode(data, <<kind, i + 1>>, chain[kind][i]), <<"wallet", w>>, <<kind, i + 1>>))
  ELSE NoWrite

\* Faulty variant: the node is added before an await, its edge after it.
AddItemUnlinked(kind, i, w) ==
  IF w \in Parties[kind][i] /\ <<kind, i>> \notin DOMAIN data.nodes
  THEN Commit(SetNode(data, <<kind, i>>, chain[kind][i])) ELSE NoWrite

\* A loan or request of the wallet gets a node and an edge, unless it has a
\* node already: then neither its status nor an edge to this wallet is added.
AddItem(kind, i, w) ==
  IF w \in Parties[kind][i] /\ <<kind, i>> \notin DOMAIN data.nodes
  THEN Commit(SetEdge(SetNode(data, <<kind, i>>, chain[kind][i]), <<"wallet", w>>, <<kind, i>>))
  ELSE NoWrite

\* Faulty variant: a loan that cannot be read is passed over.
GotItemOrNot(s) ==
  /\ syncs[s].stage = "item"
  /\ \/ RpcFaults /\ NoWrite
     \/ AddItem(syncs[s].kind, syncs[s].next, syncs[s].wallet)
  /\ syncs' = [syncs EXCEPT ![s] = AfterItem(@)]
  /\ UNCHANGED chain

GotItem(s) ==
  /\ syncs[s].stage = "item"
  /\ AddItem(syncs[s].kind, syncs[s].next, syncs[s].wallet)
  /\ syncs' = [syncs EXCEPT ![s] = AfterItem(@)]
  /\ UNCHANGED chain

\* Any other call that fails ends the synchronisation where it is; the graph
\* is answered all the same.
AbortSync(s) ==
  /\ RpcFaults /\ syncs[s].stage \in {"terms", "item"}
  /\ syncs' = [syncs EXCEPT ![s] = Idle]
  /\ NoWrite /\ UNCHANGED chain

SyncStep(s) ==
  GotBalance(s) \/ GotEligible(s) \/ GotTerms(s) \/ GotCount(s) \/ GotItem(s) \/ AbortSync(s)

-----------------------------------------------------------------------------
(* What AttestcoinService and EvidenceNormalizer draw.                     *)

\* createVerificationRequest draws the evidence and its edge to the wallet of
\* the borrower, whether that is drawn or not.
MintEvidence(w) ==
  /\ Commit(SetEdge(SetNode(data, <<"claimed", w>>, "VERIFIED"), <<"claimed", w>>, <<"wallet", w>>))
  /\ UNCHANGED graphVars

\* normalizeAndStore, for a verification that was completed, adds the wallet.
NormalizeAndStore(w) ==
  LET wallet == <<"wallet", w>>
      rooted == IF wallet \in DOMAIN data.nodes THEN data ELSE SetNode(data, wallet, "unknown")
  IN  /\ <<"claimed", w>> \in DOMAIN data.nodes
      /\ Commit(SetEdge(SetNode(rooted, <<"verified", w>>, "VERIFIED"), <<"verified", w>>, wallet))
      /\ UNCHANGED graphVars
-----------------------------------------------------------------------------
\* What getGraphForBorrower finds: the nodes an edge joins to the wallet's.
GraphOf(d, w) ==
  LET wallet == <<"wallet", w>>
  IN  DOMAIN d.nodes \cap ({wallet} \cup UNION {{e[1], e[2]} : e \in {x \in d.edges : wallet \in {x[1], x[2]}}})
=============================================================================
