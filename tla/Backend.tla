------------------------------ MODULE Backend -------------------------------
(***************************************************************************)
(* The backend process: requests for graphs and handlers of off-chain      *)
(* auctions interleave on one database, which is flushed behind their back *)
(* and read again when the process is restarted.                           *)
(***************************************************************************)
EXTENDS GraphStore, AuctionDesk

vars == <<databaseVars, graphVars, deskVars>>

NodeId ==
  ({"wallet", "elig", "claimed", "verified"} \X Wallets) \cup (Kind \X Nat) \cup ({"auction"} \X AuctionId)

NodeOf(id) ==
  CASE id[1] = "wallet" -> {"unknown", "eligible"}
    [] id[1] = "elig" -> {"registered"}
    [] id[1] \in {"claimed", "verified"} -> {"VERIFIED"}
    [] id[1] \in Kind -> {FirstStatus[id[1]]} \cup LastStatus[id[1]]
    [] OTHER -> AuctionNode

DataOK(d) ==
  /\ \A id \in DOMAIN d.nodes : id \in NodeId /\ d.nodes[id] \in NodeOf(id)
  /\ d.edges \subseteq NodeId \X NodeId
  /\ d.auctions \in Auctions
  /\ d.audit \in Seq({"AUCTION_CREATED", "AUCTION_SETTLED"} \X AuctionId)
  /\ Len(d.audit) <= MaxAudit

\* An edge e of database d joins two nodes, but for that of claimed evidence to
\* a wallet not drawn yet.
Joined(d, e) ==
  /\ e[1] \in DOMAIN d.nodes
  /\ \/ e[2] \in DOMAIN d.nodes
     \/ e[1][1] = "claimed" /\ e[2] = <<"wallet", e[1][2]>>

\* A badge and evidence hang on the wallet of their owner, a loan or request on
\* that of a party.
Hangs(d, id) ==
  /\ id[1] \in {"elig", "claimed", "verified"} => id \in GraphOf(d, id[2])
  /\ id[1] \in Kind => \E w \in Parties[id[1]][id[2]] : id \in GraphOf(d, w)

Linked(d) ==
  /\ \A e \in d.edges : Joined(d, e)
  /\ \A id \in DOMAIN d.nodes : Hangs(d, id)

\* The seed draws what the chain has when the backend starts.
ASSUME Seeded ==
  /\ Seed = [nodes |-> Seed.nodes, edges |-> Seed.edges, auctions |-> NoAuctions,
             audit |-> <<>>]
  /\ DOMAIN Seed.nodes # {} /\ NoFile # Seed
  /\ DataOK(Seed) /\ Linked(Seed)
  /\ \A id \in DOMAIN Seed.nodes : id[1] # "auction"
  /\ \A id \in DOMAIN Seed.nodes : id[1] \in Kind =>
       /\ id[2] \in DOMAIN ChainStart[id[1]]
       /\ Seed.nodes[id] \in {FirstStatus[id[1]], ChainStart[id[1]][id[2]]}

TypeOK ==
  /\ DataOK(data) /\ (file # NoFile => DataOK(file))
  /\ timer \in {"off", "armed", "flushing"} /\ flushFailed \in BOOLEAN
  /\ faults \in 0 .. MaxFaults
  /\ \A kind \in Kind : chain[kind] \in Seq({FirstStatus[kind]} \cup LastStatus[kind])
  /\ chain.eligible \subseteq Wallets
  /\ syncs \in [Syncs -> Sync \cup {Idle}]
  /\ millis \in 0 .. MaxMillis /\ created \in 0 .. MaxAuctions
  /\ views \in [Views -> View]

Init == DatabaseInit /\ GraphInit /\ DeskInit
-----------------------------------------------------------------------------
\* Requests under way die with the process.
Restart ==
  /\ RestartDatabase /\ LoseBackend
  /\ syncs' = [s \in Syncs |-> Idle]
  /\ UNCHANGED <<chain, millis, created>>

Flush == (FlushSync \/ FailFlush) /\ UNCHANGED <<graphVars, deskVars>>

Graph ==
  \/ ChainStep
  \/ \E s \in Syncs, w \in Wallets : StartSync(s, w)
  \/ \E s \in Syncs : syncs[s] # Idle /\ SyncStep(s)
  \/ \E w \in Claimants : MintEvidence(w) \/ NormalizeAndStore(w)

Desk ==
  \/ \E loan \in AuctionLoans : created < MaxAuctions /\ CreateAuction(loan)
  \/ \E id \in DOMAIN data.auctions, b \in Named : Bid(id, b)
  \/ PassMillis /\ UNCHANGED databaseVars
  \/ \E v \in Views : ViewStep(v)

Next ==
  \/ Graph /\ UNCHANGED deskVars
  \/ Desk /\ UNCHANGED graphVars
  \/ Flush
  \/ Restart

Spec == Init /\ [][Next]_vars

\* The event loop runs the timer once writes pause for 200 ms, which they do
\* here because the auctions are bounded.
FairSpec == Spec /\ WF_vars(FlushSync /\ UNCHANGED <<graphVars, deskVars>>)
-----------------------------------------------------------------------------
(* Properties. What holds of the data holds of what a restart would read.  *)

Stored == {data, Loaded(file)}

\* However requests overlap, fail half way or die with the process, badges,
\* evidence, loans and requests hang on the wallet they belong to, so that some
\* graph shows them: nothing mends a node without its edge, since a later
\* request finds the node and leaves it alone. No edge lacks an end but one of
\* evidence claimed for a wallet not drawn yet, and none that a graph is
\* answered with does: a request past its first call has drawn its wallet.
NothingDangling ==
  /\ \A d \in Stored : Linked(d)
  /\ \A s \in Syncs : syncs[s] # Idle /\ syncs[s].stage # "balance" =>
       <<"wallet", syncs[s].wallet>> \in DOMAIN data.nodes

\* A loan or request that is drawn exists on the chain, and one drawn as ended
\* ended that way.
NodesTruthful ==
  \A d \in Stored : \A id \in DOMAIN d.nodes : id[1] \in Kind =>
    /\ id[2] \in DOMAIN chain[id[1]]
    /\ d.nodes[id] \in {FirstStatus[id[1]], chain[id[1]][id[2]]}

\* A request that has come to the last loan, or borrow request, it was told of
\* has drawn all of its wallet's, whoever else drew at the same time and
\* however the chain grew meanwhile.
SyncCollects ==
  [][\A s \in Syncs :
       syncs[s].stage = "item" /\ syncs[s].next = syncs[s].count /\ GotItem(s) =>
         \A i \in 1 .. syncs[s].count :
           syncs[s].wallet \in Parties[syncs[s].kind][i] =>
             <<syncs[s].kind, i>> \in DOMAIN data'.nodes]_vars

\* What demo_script.md:31 says of a loan's node: it tracks the status of the
\* loan. A request that has just read the loan leaves its node as it was.
LoanNodesTrackVault ==
  [][\A s \in Syncs :
       syncs[s].stage = "item" /\ GotItem(s)
         /\ syncs[s].wallet \in Parties[syncs[s].kind][syncs[s].next] =>
         LET id == <<syncs[s].kind, syncs[s].next>>
         IN  data'.nodes[id] = chain[id[1]][id[2]]]_vars

\* The list of auctions, their nodes in the graph and the audit log agree, in
\* memory and after a restart: on the auctions there are, on their status, on
\* the buyer - in lower case or 'unknown' in the list, as named in the node -
\* and on one sale of each that is sold, unless the log was full.
AuctionsAgree ==
  \A d \in Stored :
    /\ {id \in DOMAIN d.nodes : id[1] = "auction"} = {"auction"} \X DOMAIN d.auctions
    /\ \A id \in DOMAIN d.auctions :
         LET auction == d.auctions[id]
             node    == d.nodes[<<"auction", id>>]
             sales   == {i \in DOMAIN d.audit : d.audit[i] = <<"AUCTION_SETTLED", id>>}
         IN  /\ node.status = auction.status
             /\ auction.status = "ACTIVE" => auction.bidder = NoBidder /\ node.bidder = NoBidder
             /\ auction.status = "SETTLED" => auction.bidder = Recorded(node.bidder)
             /\ Cardinality(sales) <= 1
             /\ sales # {} => auction.status = "SETTLED"
             /\ auction.status = "SETTLED" /\ sales = {} => Len(d.audit) = MaxAudit

\* Who bought each auction of a database.
BuyersIn(d) ==
  [id \in DOMAIN d.auctions |->
     IF d.auctions[id].status = "ACTIVE" THEN {} ELSE {d.auctions[id].bidder}]

Sales == INSTANCE SaleBook WITH
  Ids <- AuctionId, Bidders <- Buyers, book <- BuyersIn(data), copy <- BuyersIn(Loaded(file))

\* An auction is sold once and to the first who bids, whatever bids race it; a
\* flush saves every sale or none, and a restart brings back those of one flush,
\* neither older than the file nor torn.
KeepsSaleBook == Sales!Spec

\* While no flush is pending and the last one did not fail, a restart would
\* lose nothing.
NothingUnsaved == timer = "off" /\ ~flushFailed => data = Loaded(file)

\* Once writes pause, what was answered is saved, unless a flush fails or the
\* process dies first.
WritesAreSaved ==
  \A n \in 0 .. MaxFaults :
    faults = n /\ timer # "off" ~> data = Loaded(file) \/ faults # n

Quiet(v) == views[v].events = 0 /\ views[v].fetches = <<>>

\* A view that has nothing to wait for shows the auctions as they are, with four
\* exceptions: an event was lost or sent while it was not connected; a restart
\* took back updates that were not saved, of which no event tells; a late answer
\* overtook its last one; or the request that ended last failed.
QuietViewsCurrent ==
  \A v \in Views : Quiet(v) /\ views[v].current => views[v].shown = data.auctions
=============================================================================
