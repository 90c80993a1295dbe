---------------------------- MODULE BackendProofs ----------------------------
(***************************************************************************)
(* Theorems about Backend. What is wanted of the data must hold of the     *)
(* file's contents as well, because a restart may bring them back at any   *)
(* moment; so every part of the invariant that is about data speaks of     *)
(* both. Handlers only add to the drawing (Grows), which is what the parts *)
(* about requests under way rest on. The auctions are kept in three places *)
(* (the list, its nodes, the log), and their agreement is shown last.      *)
(***************************************************************************)
EXTENDS Backend, SequenceTheorems, FiniteSetTheorems, TLAPS

\* The constant that stands for "no file" is no database.
NoFileIsNoData ==
  \A nodes, edges, auctions, audit :
    NoFile # [nodes |-> nodes, edges |-> edges, auctions |-> auctions, audit |-> audit]

\* d is a database the backend can have written.
IsData(d) ==
  /\ d = [nodes |-> d.nodes, edges |-> d.edges, auctions |-> d.auctions, audit |-> d.audit]
  /\ DOMAIN d.nodes # {}
  /\ DataOK(d)

Sound(d) == IsData(d) /\ Linked(d)

\* From database d to database e, nothing drawn is taken away.
Grows(d, e) ==
  /\ DOMAIN d.nodes \subseteq DOMAIN e.nodes /\ d.edges \subseteq e.edges
  /\ \A id \in DOMAIN d.nodes : id[1] \in Kind => e.nodes[id] = d.nodes[id]

LEMMA GrowsOn ==
  ASSUME NEW d, NEW e, NEW f, Grows(d, e), Grows(e, f)
  PROVE  Grows(d, f)
BY DEF Grows

\* A graph loses nothing when the drawing grows.
LEMMA GraphGrows ==
  ASSUME NEW d, NEW e, Grows(d, e), NEW w
  PROVE  GraphOf(d, w) \subseteq GraphOf(e, w)
BY Zenon DEF Grows, GraphOf

\* So what is joined stays joined, and what hangs on a wallet stays there.
LEMMA LinksGrow ==
  ASSUME NEW d, NEW e, Grows(d, e), Linked(d),
         \A x \in e.edges : x \notin d.edges => Joined(e, x),
         \A id \in DOMAIN e.nodes : id \notin DOMAIN d.nodes => Hangs(e, id)
  PROVE  Linked(e)
<1>1. ASSUME NEW x \in d.edges
      PROVE  Joined(e, x)
  BY DEF Linked, Joined, Grows
<1>2. ASSUME NEW id \in DOMAIN d.nodes
      PROVE  Hangs(e, id)
  BY GraphGrows DEF Linked, Hangs
<1> QED
  BY <1>1, <1>2 DEF Linked

\* A node is in the graph of a wallet that an edge joins it to.
LEMMA EdgeShows ==
  ASSUME NEW d, NEW w, NEW id \in DOMAIN d.nodes, NEW source, NEW target,
         <<source, target>> \in d.edges,
         \/ source = <<"wallet", w>> /\ target = id
         \/ source = id /\ target = <<"wallet", w>>
  PROVE  id \in GraphOf(d, w)
<1>1. PICK x \in d.edges : x = <<source, target>> /\ x[1] = source /\ x[2] = target
  OBVIOUS
<1>2. <<"wallet", w>> \in {x[1], x[2]} /\ id \in {x[1], x[2]}
  BY <1>1
<1> QED
  BY <1>2, Zenon DEF GraphOf

\* What each write makes of a database.
LEMMA SetNodeIs ==
  ASSUME NEW d, IsData(d), NEW id, NEW node
  PROVE  SetNode(d, id, node) =
           [nodes |-> Put(d.nodes, id, node), edges |-> d.edges,
            auctions |-> d.auctions, audit |-> d.audit]
BY DEF SetNode, IsData

LEMMA SetEdgeIs ==
  ASSUME NEW d, IsData(d), NEW source, NEW target
  PROVE  SetEdge(d, source, target) =
           [nodes |-> d.nodes, edges |-> d.edges \cup {<<source, target>>},
            auctions |-> d.auctions, audit |-> d.audit]
BY DEF SetEdge, IsData

LEMMA SetAuctionIs ==
  ASSUME NEW d, IsData(d), NEW id, NEW auction
  PROVE  SetAuction(d, id, auction) =
           [nodes |-> d.nodes, edges |-> d.edges,
            auctions |-> Put(d.auctions, id, auction), audit |-> d.audit]
BY DEF SetAuction, IsData

\* The kinds of nodes are told apart by the first component of their names.
LEMMA Nodes ==
  /\ \A w \in Wallets, kind \in {"wallet", "elig", "claimed", "verified"} :
       /\ <<kind, w>> \in NodeId /\ kind \notin Kind
       /\ NodeOf(<<kind, w>>) =
            CASE kind = "wallet" -> {"unknown", "eligible"}
              [] kind = "elig" -> {"registered"}
              [] OTHER -> {"VERIFIED"}
  /\ \A kind \in Kind, i \in Nat :
       /\ <<kind, i>> \in NodeId
       /\ NodeOf(<<kind, i>>) = {FirstStatus[kind]} \cup LastStatus[kind]
  /\ \A id \in AuctionId :
       /\ <<"auction", id>> \in NodeId /\ <<"auction", id>>[1] \notin Kind
       /\ NodeOf(<<"auction", id>>) = AuctionNode
<1>1. ASSUME NEW w \in Wallets, NEW kind \in {"wallet", "elig", "claimed", "verified"}
      PROVE  /\ <<kind, w>> \in NodeId /\ kind \notin Kind
             /\ NodeOf(<<kind, w>>) =
                  CASE kind = "wallet" -> {"unknown", "eligible"}
                    [] kind = "elig" -> {"registered"}
                    [] OTHER -> {"VERIFIED"}
  <2>1. <<kind, w>>[1] = kind
    OBVIOUS
  <2> QED
    BY <2>1 DEF NodeId, NodeOf, Kind
<1>2. ASSUME NEW kind \in Kind, NEW i \in Nat
      PROVE  /\ <<kind, i>> \in NodeId
             /\ NodeOf(<<kind, i>>) = {FirstStatus[kind]} \cup LastStatus[kind]
  BY DEF NodeId, NodeOf, Kind
<1>3. ASSUME NEW id \in AuctionId
      PROVE  /\ <<"auction", id>> \in NodeId /\ <<"auction", id>>[1] \notin Kind
             /\ NodeOf(<<"auction", id>>) = AuctionNode
  BY DEF NodeId, NodeOf, Kind
<1> QED
  BY <1>1, <1>2, <1>3

\* A node that hangs on nothing, or is there, may be written at any time, unless
\* it is a loan or request.
LEMMA SetNodeSound ==
  ASSUME NEW d, Sound(d), NEW id \in NodeId, NEW node \in NodeOf(id),
         id[1] \in {"wallet", "auction"},
         NEW e, e = SetNode(d, id, node)
  PROVE  /\ Sound(e) /\ Grows(d, e)
         /\ DOMAIN e.nodes = DOMAIN d.nodes \cup {id}
         /\ e.auctions = d.auctions
<1>1. /\ e = [nodes |-> Put(d.nodes, id, node), edges |-> d.edges,
              auctions |-> d.auctions, audit |-> d.audit]
  BY SetNodeIs DEF Sound
<1>2. /\ e = [nodes |-> e.nodes, edges |-> e.edges, auctions |-> e.auctions, audit |-> e.audit]
      /\ e.nodes = Put(d.nodes, id, node) /\ e.edges = d.edges
      /\ e.auctions = d.auctions /\ e.audit = d.audit
  BY <1>1
<1>3. /\ DOMAIN e.nodes = DOMAIN d.nodes \cup {id}
      /\ e.nodes[id] = node
      /\ \A i \in DOMAIN d.nodes : i # id => e.nodes[i] = d.nodes[i]
  BY <1>2 DEF Put
<1>0. id[1] \notin Kind
  BY DEF Kind
<1>4. Grows(d, e)
  BY <1>0, <1>2, <1>3 DEF Grows
<1>5. IsData(e)
  BY <1>2, <1>3 DEF Sound, IsData, DataOK
<1>6. Hangs(e, id)
  BY <1>0 DEF Hangs
<1>7. Linked(e)
  BY <1>2, <1>3, <1>4, <1>6, LinksGrow DEF Sound
<1> QED
  BY <1>2, <1>3, <1>4, <1>5, <1>7 DEF Sound

\* An edge may be drawn between nodes that are there.
LEMMA SetEdgeSound ==
  ASSUME NEW d, Sound(d), NEW source, NEW target,
         source \in DOMAIN d.nodes, target \in DOMAIN d.nodes,
         NEW e, e = SetEdge(d, source, target)
  PROVE  /\ Sound(e) /\ Grows(d, e)
         /\ DOMAIN e.nodes = DOMAIN d.nodes
         /\ e.auctions = d.auctions
<1>1. e = [nodes |-> d.nodes, edges |-> d.edges \cup {<<source, target>>},
           auctions |-> d.auctions, audit |-> d.audit]
  BY SetEdgeIs DEF Sound
<1>2. /\ e = [nodes |-> e.nodes, edges |-> e.edges, auctions |-> e.auctions, audit |-> e.audit]
      /\ e.nodes = d.nodes /\ e.edges = d.edges \cup {<<source, target>>}
      /\ e.auctions = d.auctions /\ e.audit = d.audit
  BY <1>1
<1>4. Grows(d, e)
  BY <1>2 DEF Grows
<1>5. IsData(e)
  <2>1. source \in NodeId /\ target \in NodeId
    BY DEF Sound, IsData, DataOK
  <2> QED
    BY <1>2, <2>1 DEF Sound, IsData, DataOK
<1>6. Joined(e, <<source, target>>)
  BY <1>2 DEF Joined
<1>7. Linked(e)
  BY <1>2, <1>4, <1>6, LinksGrow DEF Sound
<1> QED
  BY <1>2, <1>4, <1>5, <1>7 DEF Sound

\* A node is drawn together with the edge it hangs on.
LEMMA DrawLinked ==
  ASSUME NEW d, Sound(d), NEW id \in NodeId, NEW node \in NodeOf(id),
         id[1] \in Kind => id \notin DOMAIN d.nodes,
         NEW source \in NodeId, NEW target \in NodeId,
         NEW e, e = SetEdge(SetNode(d, id, node), source, target),
         Joined(e, <<source, target>>), Hangs(e, id)
  PROVE  /\ Sound(e) /\ Grows(d, e)
         /\ DOMAIN e.nodes = DOMAIN d.nodes \cup {id}
         /\ e.nodes[id] = node
         /\ e.auctions = d.auctions
<1>1. SetNode(d, id, node) = [nodes |-> Put(d.nodes, id, node), edges |-> d.edges,
                              auctions |-> d.auctions, audit |-> d.audit]
  BY SetNodeIs DEF Sound
<1>2. e = [nodes |-> Put(d.nodes, id, node), edges |-> d.edges \cup {<<source, target>>},
           auctions |-> d.auctions, audit |-> d.audit]
  <2>1. PICK c : c = SetNode(d, id, node)
    OBVIOUS
  <2>2. PICK nodes : nodes = Put(d.nodes, id, node)
    OBVIOUS
  <2>3. /\ c = [nodes |-> nodes, edges |-> d.edges, auctions |-> d.auctions, audit |-> d.audit]
        /\ e = SetEdge(c, source, target)
    BY <1>1, <2>1, <2>2
  <2> QED
    BY <2>2, <2>3 DEF SetEdge
<1>3. /\ e = [nodes |-> e.nodes, edges |-> e.edges, auctions |-> e.auctions, audit |-> e.audit]
      /\ e.nodes = Put(d.nodes, id, node) /\ e.edges = d.edges \cup {<<source, target>>}
      /\ e.auctions = d.auctions /\ e.audit = d.audit
  BY <1>2
<1>4. /\ DOMAIN e.nodes = DOMAIN d.nodes \cup {id}
      /\ e.nodes[id] = node
      /\ \A j \in DOMAIN d.nodes : j # id => e.nodes[j] = d.nodes[j]
  BY <1>3 DEF Put
<1>5. Grows(d, e)
  BY <1>3, <1>4 DEF Grows
<1>6. IsData(e)
  <2>1. ASSUME NEW j \in DOMAIN e.nodes
        PROVE  j \in NodeId /\ e.nodes[j] \in NodeOf(j)
    <3>1. CASE j = id
      BY <1>4, <3>1
    <3>2. CASE j # id
      BY <1>4, <3>2 DEF Sound, IsData, DataOK
    <3> QED
      BY <3>1, <3>2
  <2>2. e.edges \subseteq NodeId \X NodeId
    BY <1>3 DEF Sound, IsData, DataOK
  <2> QED
    BY <1>3, <1>4, <2>1, <2>2 DEF Sound, IsData, DataOK
<1>7. Linked(e)
  BY <1>3, <1>4, <1>5, LinksGrow DEF Sound
<1> QED
  BY <1>3, <1>4, <1>5, <1>6, <1>7 DEF Sound

\* What the edge joins, once both are drawn.
LEMMA DrawnEdge ==
  ASSUME NEW d, IsData(d), NEW id, NEW node, NEW source, NEW target,
         NEW e, e = SetEdge(SetNode(d, id, node), source, target)
  PROVE  DOMAIN e.nodes = DOMAIN d.nodes \cup {id} /\ <<source, target>> \in e.edges
<1>1. e = [nodes |-> Put(d.nodes, id, node), edges |-> d.edges \cup {<<source, target>>},
           auctions |-> d.auctions, audit |-> d.audit]
  BY SetNodeIs DEF SetEdge
<1> QED
  BY <1>1 DEF Put

\* A badge hangs on the wallet of its owner, which is there.
LEMMA DrawBadge ==
  ASSUME NEW d, Sound(d), NEW w \in Wallets,
         NEW wallet \in DOMAIN d.nodes, wallet = <<"wallet", w>>,
         NEW id, id = <<"elig", w>>, NEW node \in NodeOf(id),
         NEW e, e = SetEdge(SetNode(d, id, node), wallet, id)
  PROVE  /\ Sound(e) /\ Grows(d, e)
         /\ DOMAIN e.nodes = DOMAIN d.nodes \cup {id}
         /\ e.auctions = d.auctions
<1>1. /\ id \in NodeId /\ wallet \in NodeId
      /\ id[1] = "elig" /\ id[2] = w /\ id[1] \notin Kind
  BY Nodes
<1>2. DOMAIN e.nodes = DOMAIN d.nodes \cup {id} /\ <<wallet, id>> \in e.edges
  BY DrawnEdge DEF Sound
<1>3. id \in GraphOf(e, w)
  BY <1>2, EdgeShows
<1>4. Hangs(e, id)
  BY <1>1, <1>3 DEF Hangs
<1>5. Joined(e, <<wallet, id>>)
  BY <1>2 DEF Joined
<1> QED
  BY <1>1, <1>4, <1>5, DrawLinked

\* So does evidence; what is claimed does not need the wallet.
LEMMA DrawEvidence ==
  ASSUME NEW d, Sound(d), NEW w \in Wallets, NEW wallet, wallet = <<"wallet", w>>,
         NEW kind \in {"claimed", "verified"},
         NEW id, id = <<kind, w>>, NEW node \in NodeOf(id),
         kind = "claimed" \/ wallet \in DOMAIN d.nodes,
         NEW e, e = SetEdge(SetNode(d, id, node), id, wallet)
  PROVE  /\ Sound(e) /\ Grows(d, e)
         /\ DOMAIN e.nodes = DOMAIN d.nodes \cup {id}
         /\ e.auctions = d.auctions
<1>1. /\ id \in NodeId /\ wallet \in NodeId
      /\ id[1] = kind /\ id[2] = w /\ id[1] \notin Kind
  BY Nodes
<1>2. DOMAIN e.nodes = DOMAIN d.nodes \cup {id} /\ <<id, wallet>> \in e.edges
  BY DrawnEdge DEF Sound
<1>3. id \in GraphOf(e, w)
  BY <1>2, EdgeShows
<1>4. Hangs(e, id)
  BY <1>1, <1>3 DEF Hangs
<1>5. Joined(e, <<id, wallet>>)
  <2>1. <<id, wallet>>[1] = id /\ <<id, wallet>>[2] = wallet
    OBVIOUS
  <2> QED
    BY <1>1, <1>2, <2>1 DEF Joined
<1> QED
  BY <1>1, <1>4, <1>5, DrawLinked

\* A loan or request is drawn together with its edge to a party.
LEMMA DrawItem ==
  ASSUME NEW d, Sound(d), NEW kind \in Kind, NEW i \in Nat,
         NEW node \in {FirstStatus[kind]} \cup LastStatus[kind],
         NEW w \in Parties[kind][i], <<"wallet", w>> \in DOMAIN d.nodes,
         <<kind, i>> \notin DOMAIN d.nodes,
         NEW e, e = SetEdge(SetNode(d, <<kind, i>>, node), <<"wallet", w>>, <<kind, i>>)
  PROVE  /\ Sound(e) /\ Grows(d, e)
         /\ DOMAIN e.nodes = DOMAIN d.nodes \cup {<<kind, i>>}
         /\ e.nodes[<<kind, i>>] = node
         /\ e.auctions = d.auctions
<1>1. PICK id, wallet : id = <<kind, i>> /\ wallet = <<"wallet", w>>
  OBVIOUS
<1>2. /\ id \in NodeId /\ wallet \in NodeId /\ id[1] = kind /\ id[2] = i /\ node \in NodeOf(id)
  BY <1>1, Nodes DEF Sound, IsData, DataOK
<1>3. DOMAIN e.nodes = DOMAIN d.nodes \cup {id} /\ <<wallet, id>> \in e.edges
  BY <1>1, DrawnEdge DEF Sound
<1>4. id \in GraphOf(e, w)
  BY <1>1, <1>3, EdgeShows
<1>5. Hangs(e, id)
  BY <1>2, <1>4 DEF Hangs, Kind
<1>6. Joined(e, <<wallet, id>>)
  <2>1. <<wallet, id>>[1] = wallet /\ <<wallet, id>>[2] = id
    OBVIOUS
  <2> QED
    BY <1>1, <1>3, <2>1 DEF Joined
<1>7. e = SetEdge(SetNode(d, id, node), wallet, id) /\ id \notin DOMAIN d.nodes
  BY <1>1
<1> QED
  BY <1>1, <1>2, <1>5, <1>6, <1>7, DrawLinked

\* Auctions and the audit log are no part of the drawing.
LEMMA SameDrawing ==
  ASSUME NEW d, Sound(d), NEW e, IsData(e), e.nodes = d.nodes, e.edges = d.edges
  PROVE  Sound(e) /\ Grows(d, e)
<1>1. Grows(d, e)
  BY DEF Grows
<1>2. Linked(e)
  BY <1>1, LinksGrow DEF Sound
<1> QED
  BY <1>1, <1>2 DEF Sound

LEMMA PutAuction ==
  ASSUME NEW auctions \in Auctions, NEW id \in AuctionId, NEW auction \in Auction
  PROVE  /\ Put(auctions, id, auction) \in Auctions
         /\ DOMAIN Put(auctions, id, auction) = DOMAIN auctions \cup {id}
         /\ Put(auctions, id, auction)[id] = auction
         /\ \A i \in DOMAIN auctions : i # id => Put(auctions, id, auction)[i] = auctions[i]
<1>1. PICK S \in SUBSET AuctionId : auctions \in [S -> Auction]
  BY DEF Auctions
<1>2. Put(auctions, id, auction) \in [S \cup {id} -> Auction]
  BY <1>1 DEF Put
<1>3. S \cup {id} \in SUBSET AuctionId
  BY <1>1
<1>4. Put(auctions, id, auction) \in Auctions
  BY <1>2, <1>3, Zenon DEF Auctions
<1> QED
  BY <1>4 DEF Put

LEMMA SetAuctionSound ==
  ASSUME NEW d, Sound(d), NEW id \in AuctionId, NEW auction \in Auction,
         NEW e, e = SetAuction(d, id, auction)
  PROVE  /\ Sound(e) /\ Grows(d, e) /\ e.nodes = d.nodes
         /\ e.auctions = Put(d.auctions, id, auction)
<1>1. e = [nodes |-> d.nodes, edges |-> d.edges,
           auctions |-> Put(d.auctions, id, auction), audit |-> d.audit]
  BY SetAuctionIs DEF Sound
<1>2. /\ e = [nodes |-> e.nodes, edges |-> e.edges, auctions |-> e.auctions, audit |-> e.audit]
      /\ e.nodes = d.nodes /\ e.edges = d.edges
      /\ e.auctions = Put(d.auctions, id, auction) /\ e.audit = d.audit
  BY <1>1
<1>3. e.auctions \in Auctions
  <2>1. d.auctions \in Auctions
    BY DEF Sound, IsData, DataOK
  <2>2. Put(d.auctions, id, auction) \in Auctions
    BY <2>1, PutAuction
  <2> QED
    BY <1>2, <2>2
<1>4. IsData(e)
  BY <1>2, <1>3 DEF Sound, IsData, DataOK
<1> QED
  BY <1>2, <1>4, SameDrawing

\* The log never outgrows its bound.
LEMMA AuditSound ==
  ASSUME NEW d, Sound(d), NEW event \in {"AUCTION_CREATED", "AUCTION_SETTLED"} \X AuctionId,
         NEW e, e = RecordAuditEvent(d, event)
  PROVE  /\ Sound(e) /\ Grows(d, e) /\ e.nodes = d.nodes
         /\ e.auctions = d.auctions
<1> DEFINE Event == {"AUCTION_CREATED", "AUCTION_SETTLED"} \X AuctionId
<1>1. PICK log : log = Append(d.audit, event)
  OBVIOUS
<1>2. d.audit \in Seq(Event) /\ Len(d.audit) <= MaxAudit /\ MaxAudit \in Nat \ {0}
  BY DatabaseInputs DEF Sound, IsData, DataOK
<1> HIDE DEF Event
<1>3. event \in Event
  BY DEF Event
<1>4. log \in Seq(Event) /\ Len(log) = Len(d.audit) + 1 /\ Len(d.audit) \in Nat
  BY <1>1, <1>2, <1>3, AppendProperties, LenProperties
<1>5. PICK kept : kept = IF Len(log) > MaxAudit
                         THEN SubSeq(log, Len(log) - MaxAudit + 1, Len(log)) ELSE log
  OBVIOUS
<1>6. kept \in Seq(Event) /\ Len(kept) <= MaxAudit
  <2>1. CASE Len(log) > MaxAudit
    <3>1. Len(log) = MaxAudit + 1 /\ kept = SubSeq(log, 2, MaxAudit + 1)
      BY <1>2, <1>4, <1>5, <2>1
    <3>2. \A i \in 2 .. MaxAudit + 1 : log[i] \in Event
      BY <1>2, <1>4, <3>1, ElementOfSeq
    <3>3. /\ SubSeq(log, 2, MaxAudit + 1) \in Seq(Event)
          /\ Len(SubSeq(log, 2, MaxAudit + 1)) =
               IF 2 <= MaxAudit + 1 THEN (MaxAudit + 1) - 2 + 1 ELSE 0
      BY <1>2, <3>2, SubSeqProperties
    <3> QED
      BY <1>2, <3>1, <3>3
  <2>2. CASE ~ (Len(log) > MaxAudit)
    BY <1>2, <1>4, <1>5, <2>2
  <2> QED
    BY <2>1, <2>2
<1>7. e = [nodes |-> d.nodes, edges |-> d.edges, auctions |-> d.auctions, audit |-> kept]
  BY <1>1, <1>5 DEF RecordAuditEvent, Sound, IsData
<1>8. /\ e = [nodes |-> e.nodes, edges |-> e.edges, auctions |-> e.auctions, audit |-> e.audit]
      /\ e.nodes = d.nodes /\ e.edges = d.edges /\ e.auctions = d.auctions /\ e.audit = kept
  BY <1>7
<1>9. IsData(e)
  BY <1>6, <1>8 DEF Sound, IsData, DataOK, Event
<1> QED
  BY <1>8, <1>9, SameDrawing
-----------------------------------------------------------------------------
(* The store: memory, the file and the flush between them.                 *)

StoreOK ==
  /\ Sound(data) /\ Sound(Loaded(file))
  /\ file # NoFile => IsData(file)
  /\ timer \in {"off", "armed", "flushing"} /\ flushFailed \in BOOLEAN
  /\ faults \in 0 .. MaxFaults
  /\ NothingUnsaved

LEMMA CommitKeeps ==
  ASSUME StoreOK, NEW d, Sound(d), Commit(d)
  PROVE  StoreOK' /\ data' = d /\ file' = file
BY DEF Commit, StoreOK, NothingUnsaved

LEMMA StoreUnchanged ==
  ASSUME StoreOK, UNCHANGED databaseVars
  PROVE  StoreOK' /\ data' = data /\ file' = file
BY DEF databaseVars, StoreOK, NothingUnsaved

\* A flush, whether or not it fails, leaves the file as it was or complete.
LEMMA FlushKeeps ==
  ASSUME NoFileIsNoData, StoreOK, FlushSync \/ FailFlush
  PROVE  /\ StoreOK' /\ data' = data
         /\ Loaded(file') = Loaded(file) \/ Loaded(file') = data
<1>1. CASE WriteTemp
  BY <1>1 DEF WriteTemp, StoreOK, NothingUnsaved
<1>2. CASE RenameTemp
  <2>1. IsData(data) /\ data # NoFile
    BY DEF StoreOK, Sound, IsData, NoFileIsNoData
  <2>2. Loaded(data) = data
    BY <2>1 DEF Loaded, IsData
  <2>3. /\ file' = data /\ data' = data /\ timer' = "off" /\ flushFailed' = FALSE
        /\ faults' = faults
    BY <1>2 DEF RenameTemp
  <2>4. Loaded(file') = data
    BY <2>2, <2>3
  <2> QED
    BY <2>1, <2>3, <2>4 DEF StoreOK, NothingUnsaved
<1>3. CASE FailFlush
  <2>1. faults' \in 0 .. MaxFaults
    BY <1>3, DatabaseInputs DEF FailFlush, StoreOK
  <2> QED
    BY <1>3, <2>1 DEF FailFlush, StoreOK, NothingUnsaved
<1> QED
  BY <1>1, <1>2, <1>3 DEF FlushSync

LEMMA RestartKeeps ==
  ASSUME StoreOK, RestartDatabase
  PROVE  StoreOK' /\ data' = Loaded(file) /\ file' = file
<1>1. faults' \in 0 .. MaxFaults
  BY DatabaseInputs DEF RestartDatabase, StoreOK
<1> QED
  BY <1>1 DEF RestartDatabase, StoreOK, NothingUnsaved
-----------------------------------------------------------------------------
(* What is drawn and what the chain says.                                  *)

\* What NodesTruthful says of one database.
Truthful(d) ==
  \A id \in DOMAIN d.nodes : id[1] \in Kind =>
    /\ id[2] \in DOMAIN chain[id[1]]
    /\ d.nodes[id] \in {FirstStatus[id[1]], chain[id[1]][id[2]]}

\* No loan or request is drawn in database e that is not drawn in d.
NoNewItems(d, e) == \A id \in DOMAIN e.nodes : id[1] \in Kind => id \in DOMAIN d.nodes

ChainOK ==
  /\ chain = [loan |-> chain.loan, request |-> chain.request, eligible |-> chain.eligible]
  /\ \A kind \in Kind : chain[kind] \in Seq({FirstStatus[kind]} \cup LastStatus[kind])
  /\ chain.eligible \subseteq Wallets
  /\ Truthful(data) /\ Truthful(Loaded(file))

LEMMA TruthfulStays ==
  ASSUME NEW d, NEW e, Truthful(d), Grows(d, e), NoNewItems(d, e)
  PROVE  Truthful(e)
BY DEF Truthful, Grows, NoNewItems

\* The chain never takes anything back, and a status changes once.
LEMMA ChainGoesOn ==
  ASSUME ChainOK, \E kind \in Kind : CreateOnChain(kind) \/ EndOnChain(kind)
  PROVE  /\ chain' = [loan |-> chain.loan, request |-> chain.request,
                      eligible |-> chain.eligible]'
         /\ chain'.eligible = chain.eligible
         /\ \A kind \in Kind :
              /\ chain'[kind] \in Seq({FirstStatus[kind]} \cup LastStatus[kind])
              /\ Len(chain[kind]) \in Nat /\ Len(chain[kind]) <= Len(chain'[kind])
              /\ \A i \in DOMAIN chain[kind] :
                   /\ i \in DOMAIN chain'[kind]
                   /\ chain'[kind][i] = chain[kind][i] \/ chain[kind][i] = FirstStatus[kind]
<1>1. PICK k \in Kind : CreateOnChain(k) \/ EndOnChain(k)
  OBVIOUS
<1>2. PICK S : S = {FirstStatus[k]} \cup LastStatus[k]
  OBVIOUS
<1>3. chain[k] \in Seq(S)
  BY <1>2 DEF ChainOK
<1>4. PICK new : /\ chain' = [chain EXCEPT ![k] = new]
                 /\ new \in Seq(S) /\ Len(chain[k]) \in Nat /\ Len(chain[k]) <= Len(new)
                 /\ \A i \in DOMAIN chain[k] :
                      i \in DOMAIN new /\ (new[i] = chain[k][i] \/ chain[k][i] = FirstStatus[k])
  <2>1. CASE CreateOnChain(k)
    <3>1. FirstStatus[k] \in S /\ chain' = [chain EXCEPT ![k] = Append(chain[k], FirstStatus[k])]
      BY <1>2, <2>1 DEF CreateOnChain
    <3>2. PICK n : n = Append(chain[k], FirstStatus[k])
      OBVIOUS
    <3>3. /\ n \in Seq(S) /\ Len(chain[k]) \in Nat /\ Len(n) = Len(chain[k]) + 1
          /\ \A i \in 1 .. Len(chain[k]) : n[i] = chain[k][i]
      BY <1>3, <3>1, <3>2, AppendProperties, LenProperties
    <3>4. DOMAIN n = 1 .. Len(n) /\ DOMAIN chain[k] = 1 .. Len(chain[k])
      BY <1>3, <3>3, LenProperties
    <3>5. chain' = [chain EXCEPT ![k] = n]
      BY <3>1, <3>2
    <3>6. \A i \in DOMAIN chain[k] : i \in DOMAIN n /\ n[i] = chain[k][i]
      BY <3>3, <3>4
    <3> WITNESS n
    <3> QED
      BY <3>3, <3>5, <3>6
  <2>2. CASE EndOnChain(k)
    <3>1. PICK i \in DOMAIN chain[k], status \in LastStatus[k] :
            /\ chain[k][i] = FirstStatus[k]
            /\ chain' = [chain EXCEPT ![k][i] = status]
      BY <2>2 DEF EndOnChain
    <3>2. status \in S /\ i \in 1 .. Len(chain[k])
      BY <1>2, <1>3, <3>1, LenProperties
    <3>3. /\ [chain[k] EXCEPT ![i] = status] \in Seq(S)
          /\ Len([chain[k] EXCEPT ![i] = status]) = Len(chain[k])
          /\ \A j \in 1 .. Len(chain[k]) :
               [chain[k] EXCEPT ![i] = status][j] = IF j = i THEN status ELSE chain[k][j]
      BY <1>3, <3>2, ExceptSeq
    <3>4. PICK n : n = [chain[k] EXCEPT ![i] = status]
      OBVIOUS
    <3>5. /\ n \in Seq(S) /\ Len(n) = Len(chain[k])
          /\ \A j \in 1 .. Len(chain[k]) : n[j] = chain[k][j] \/ chain[k][j] = FirstStatus[k]
      BY <3>1, <3>3, <3>4
    <3>6. /\ DOMAIN n = 1 .. Len(n) /\ DOMAIN chain[k] = 1 .. Len(chain[k])
          /\ Len(chain[k]) \in Nat
      BY <1>3, <3>5, LenProperties
    <3>7. chain' = [chain EXCEPT ![k] = n]
      BY <3>1, <3>4
    <3>8. \A j \in DOMAIN chain[k] :
            j \in DOMAIN n /\ (n[j] = chain[k][j] \/ chain[k][j] = FirstStatus[k])
      BY <3>5, <3>6
    <3> WITNESS n
    <3> QED
      BY <3>5, <3>6, <3>7, <3>8
  <2> QED
    BY <1>1, <2>1, <2>2
<1>5. /\ chain' = [loan |-> chain.loan, request |-> chain.request,
                   eligible |-> chain.eligible]'
      /\ chain'.eligible = chain.eligible
      /\ chain'[k] = new /\ \A kind \in Kind : kind # k => chain'[kind] = chain[kind]
  <2>1. k = "loan" \/ k = "request"
    BY DEF Kind
  <2> QED
    BY <1>4, <2>1 DEF ChainOK, Kind
<1>6. ASSUME NEW kind \in Kind
      PROVE  /\ chain'[kind] \in Seq({FirstStatus[kind]} \cup LastStatus[kind])
             /\ Len(chain[kind]) \in Nat /\ Len(chain[kind]) <= Len(chain'[kind])
             /\ \A i \in DOMAIN chain[kind] :
                  /\ i \in DOMAIN chain'[kind]
                  /\ chain'[kind][i] = chain[kind][i] \/ chain[kind][i] = FirstStatus[kind]
  <2>1. CASE kind = k
    BY <1>2, <1>4, <1>5, <2>1
  <2>2. CASE kind # k
    <3>1. chain[kind] \in Seq({FirstStatus[kind]} \cup LastStatus[kind])
      BY DEF ChainOK
    <3>2. Len(chain[kind]) \in Nat
      BY <3>1, LenProperties
    <3> QED
      BY <1>5, <2>2, <3>1, <3>2
  <2> QED
    BY <2>1, <2>2
<1> QED
  BY <1>5, <1>6

LEMMA ChainStepKeeps ==
  ASSUME ChainOK, ChainStep
  PROVE  /\ ChainOK'
         /\ \A kind \in Kind : /\ Len(chain[kind]) \in Nat /\ Len(chain'[kind]) \in Nat
                               /\ Len(chain[kind]) <= Len(chain'[kind])
<1>0. UNCHANGED <<data, file>>
  BY DEF ChainStep, databaseVars
<1>1. CASE \E kind \in Kind : CreateOnChain(kind) \/ EndOnChain(kind)
  <2>1. /\ chain' = [loan |-> chain.loan, request |-> chain.request,
                     eligible |-> chain.eligible]'
        /\ chain'.eligible = chain.eligible
        /\ \A kind \in Kind :
             /\ chain'[kind] \in Seq({FirstStatus[kind]} \cup LastStatus[kind])
             /\ Len(chain[kind]) \in Nat /\ Len(chain[kind]) <= Len(chain'[kind])
             /\ \A i \in DOMAIN chain[kind] :
                  /\ i \in DOMAIN chain'[kind]
                  /\ chain'[kind][i] = chain[kind][i] \/ chain[kind][i] = FirstStatus[kind]
    BY <1>1, ChainGoesOn
  <2>2. \A kind \in Kind : Len(chain'[kind]) \in Nat
    BY <2>1, LenProperties
  <2>3. ASSUME NEW d, Truthful(d)
        PROVE  Truthful(d)'
    <3> SUFFICES ASSUME NEW id \in DOMAIN d.nodes, id[1] \in Kind
                 PROVE  /\ id[2] \in DOMAIN chain'[id[1]]
                        /\ d.nodes[id] \in {FirstStatus[id[1]], chain'[id[1]][id[2]]}
      BY DEF Truthful
    <3>1. /\ id[2] \in DOMAIN chain[id[1]]
          /\ d.nodes[id] \in {FirstStatus[id[1]], chain[id[1]][id[2]]}
      BY <2>3 DEF Truthful
    <3> QED
      BY <2>1, <3>1
  <2>4. PICK d, f : d = data /\ f = Loaded(file)
    OBVIOUS
  <2>5. Truthful(d) /\ Truthful(f) /\ data' = d /\ Loaded(file)' = f
    BY <1>0, <2>4 DEF ChainOK
  <2>6. Truthful(d)' /\ Truthful(f)'
    BY <2>3, <2>5
  <2>7. Truthful(data)' /\ Truthful(Loaded(file))'
    BY <2>5, <2>6 DEF Truthful
  <2> QED
    BY <2>1, <2>2, <2>7 DEF ChainOK
<1>2. CASE ChangeEligibility
  <2>1. PICK w \in Wallets :
          chain' = [chain EXCEPT !.eligible = IF w \in @ THEN @ \ {w} ELSE @ \cup {w}]
    BY <1>2, GraphInputs DEF ChangeEligibility
  <2>2. /\ chain' = [loan |-> chain.loan, request |-> chain.request,
                     eligible |-> chain.eligible]'
        /\ \A kind \in Kind : chain'[kind] = chain[kind]
        /\ chain'.eligible \subseteq Wallets
    BY <2>1 DEF ChainOK, Kind
  <2>3. \A kind \in Kind : Len(chain[kind]) \in Nat
    BY LenProperties DEF ChainOK
  <2>4. Truthful(data)' /\ Truthful(Loaded(file))'
    BY <1>0, <2>2 DEF ChainOK, Truthful
  <2> QED
    BY <2>2, <2>3, <2>4 DEF ChainOK
<1> QED
  BY <1>1, <1>2 DEF ChainStep

\* With the chain left alone, what is drawn stays true if what is new is no
\* loan or request, or true itself; the file's contents are old or memory's.
LEMMA ChainUnchanged ==
  ASSUME ChainOK, UNCHANGED chain, Truthful(data)',
         Loaded(file') = Loaded(file) \/ Loaded(file') = data \/ file' = file
  PROVE  ChainOK'
<1>1. Truthful(Loaded(file))'
  BY DEF ChainOK, Truthful
<1> QED
  BY <1>1 DEF ChainOK
-----------------------------------------------------------------------------
(* Requests for a graph.                                                   *)

\* What request x has drawn by now, and what it may still ask for.
SyncGood(x) ==
  /\ x.stage \in {"balance", "eligible", "terms", "count"} => x.next = 1
  /\ x.stage \in {"eligible", "terms", "count", "item"} =>
       <<"wallet", x.wallet>> \in DOMAIN data.nodes
  /\ x.stage = "item" =>
       /\ 1 <= x.next /\ x.next <= x.count /\ x.count <= Len(chain[x.kind])
       /\ \A i \in 1 .. x.next - 1 :
            x.wallet \in Parties[x.kind][i] => <<x.kind, i>> \in DOMAIN data.nodes

SyncsOK ==
  /\ syncs \in [Syncs -> Sync \cup {Idle}]
  /\ \A s \in Syncs : SyncGood(syncs[s])

ChainLonger ==
  \A kind \in Kind : /\ Len(chain[kind]) \in Nat /\ Len(chain'[kind]) \in Nat
                     /\ Len(chain[kind]) <= Len(chain'[kind])

\* A request is not harmed by others' writes.
LEMMA SyncGoodStays ==
  ASSUME NEW x \in Sync \cup {Idle}, SyncGood(x),
         DOMAIN data.nodes \subseteq DOMAIN data'.nodes, ChainLonger
  PROVE  SyncGood(x)'
<1>1. x.stage = "item" => x.kind \in Kind /\ x.count \in Nat
  BY DEF Sync, Idle
<1> QED
  BY <1>1 DEF SyncGood, ChainLonger

LEMMA SyncsStay ==
  ASSUME SyncsOK, UNCHANGED syncs,
         DOMAIN data.nodes \subseteq DOMAIN data'.nodes, ChainLonger
  PROVE  SyncsOK'
<1>1. ASSUME NEW s \in Syncs
      PROVE  SyncGood(syncs[s])'
  <2>1. PICK x \in Sync \cup {Idle} : x = syncs[s]
    BY DEF SyncsOK
  <2>2. SyncGood(x)
    BY <2>1 DEF SyncsOK
  <2>3. SyncGood(x)'
    BY <2>2, SyncGoodStays
  <2> QED
    BY <2>1, <2>3 DEF SyncGood
<1> QED
  BY <1>1 DEF SyncsOK

LEMMA OneSync ==
  ASSUME SyncsOK, NEW s \in Syncs, NEW x \in Sync \cup {Idle},
         syncs' = [syncs EXCEPT ![s] = x], SyncGood(x)',
         DOMAIN data.nodes \subseteq DOMAIN data'.nodes, ChainLonger
  PROVE  SyncsOK'
<1>1. ASSUME NEW t \in Syncs
      PROVE  SyncGood(syncs[t])'
  <2>1. CASE t = s
    <3>1. syncs'[t] = x
      BY <2>1 DEF SyncsOK
    <3> QED
      BY <3>1 DEF SyncGood
  <2>2. CASE t # s
    <3>1. PICK y \in Sync \cup {Idle} : y = syncs[t] /\ y = syncs'[t]
      BY <2>2 DEF SyncsOK
    <3>2. SyncGood(y)
      BY <3>1 DEF SyncsOK
    <3>3. SyncGood(y)'
      BY <3>2, SyncGoodStays
    <3> QED
      BY <3>1, <3>3 DEF SyncGood
  <2> QED
    BY <2>1, <2>2
<1> QED
  BY <1>1 DEF SyncsOK

\* A request's step keeps the store in order, adds to the drawing only what is
\* true, and concerns no auction.
Written ==
  /\ StoreOK' /\ ChainOK' /\ file' = file
  /\ Grows(data, data') /\ data'.auctions = data.auctions

LEMMA CommitWritten ==
  ASSUME StoreOK, ChainOK, UNCHANGED chain,
         NEW d, Commit(d), Sound(d), Grows(data, d), d.auctions = data.auctions, Truthful(d)
  PROVE  Written /\ data' = d
<1>1. StoreOK' /\ data' = d /\ file' = file
  BY CommitKeeps
<1>2. Truthful(data)'
  BY <1>1 DEF Truthful
<1>3. ChainOK'
  BY <1>1, <1>2, ChainUnchanged
<1> QED
  BY <1>1, <1>3 DEF Written

LEMMA NothingWritten ==
  ASSUME StoreOK, ChainOK, UNCHANGED chain, NoWrite
  PROVE  Written /\ data' = data
<1>1. UNCHANGED databaseVars
  BY DEF NoWrite
<1>2. StoreOK' /\ data' = data /\ file' = file
  BY <1>1, StoreUnchanged
<1>3. Truthful(data)'
  BY <1>2 DEF ChainOK, Truthful
<1>4. ChainOK'
  BY <1>2, <1>3, ChainUnchanged
<1>5. Grows(data, data)
  BY DEF Grows
<1> QED
  BY <1>2, <1>4, <1>5 DEF Written

\* What is drawn is true if it is no loan or request.
LEMMA DrawingStaysTrue ==
  ASSUME NEW d, NEW e, Truthful(d), Grows(d, e), NEW S,
         DOMAIN e.nodes = DOMAIN d.nodes \cup S, \A id \in S : id[1] \notin Kind
  PROVE  Truthful(e)
BY TruthfulStays DEF NoNewItems

LEMMA AddWalletWritten ==
  ASSUME StoreOK, ChainOK, UNCHANGED chain, NEW w \in Wallets, AddWallet(w)
  PROVE  Written /\ <<"wallet", w>> \in DOMAIN data'.nodes
<1>1. CASE <<"wallet", w>> \in DOMAIN data.nodes
  <2>1. NoWrite
    BY <1>1 DEF AddWallet
  <2> QED
    BY <1>1, <2>1, NothingWritten
<1>2. CASE <<"wallet", w>> \notin DOMAIN data.nodes
  <2>1. PICK d : d = data
    OBVIOUS
  <2>2. PICK e : e = SetNode(d, <<"wallet", w>>, "unknown")
    OBVIOUS
  <2>3. Commit(e)
    BY <1>2, <2>1, <2>2 DEF AddWallet
  <2>4. Sound(d) /\ Truthful(d)
    BY <2>1 DEF StoreOK, ChainOK
  <2>5. PICK id \in NodeId : /\ id = <<"wallet", w>> /\ "unknown" \in NodeOf(id)
                             /\ id[1] = "wallet" /\ id[1] \notin Kind
    BY Nodes
  <2>6. /\ Sound(e) /\ Grows(d, e) /\ e.auctions = d.auctions
        /\ DOMAIN e.nodes = DOMAIN d.nodes \cup {id}
    BY <2>2, <2>4, <2>5, SetNodeSound
  <2>8. Truthful(e)
    BY <2>4, <2>5, <2>6, DrawingStaysTrue
  <2>9. Written /\ data' = e
    BY <2>1, <2>3, <2>6, <2>8, CommitWritten
  <2> QED
    BY <2>5, <2>6, <2>9
<1> QED
  BY <1>1, <1>2

LEMMA MarkEligibleWritten ==
  ASSUME StoreOK, ChainOK, UNCHANGED chain, NEW w \in Wallets,
         <<"wallet", w>> \in DOMAIN data.nodes, MarkEligible(w)
  PROVE  Written
<1>1. CASE NoWrite
  BY <1>1, NothingWritten
<1>2. CASE ~NoWrite
  <2>1. PICK d : d = data
    OBVIOUS
  <2>2. PICK wallet, badge : wallet = <<"wallet", w>> /\ badge = <<"elig", w>>
    OBVIOUS
  <2>3. /\ wallet \in NodeId /\ "eligible" \in NodeOf(wallet) /\ wallet[1] = "wallet"
        /\ "registered" \in NodeOf(badge) /\ wallet[1] \notin Kind /\ badge[1] \notin Kind
    BY <2>2, Nodes
  <2>4. PICK b : b = SetEdge(SetNode(d, badge, "registered"), wallet, badge)
    OBVIOUS
  <2>5. PICK e : e = SetNode(b, wallet, "eligible")
    OBVIOUS
  <2>6. Commit(e)
    BY <1>2, <2>1, <2>2, <2>4, <2>5 DEF MarkEligible
  <2>7. Sound(d) /\ Truthful(d) /\ <<"wallet", w>> \in DOMAIN d.nodes
    BY <2>1 DEF StoreOK, ChainOK
  <2>8. /\ Sound(b) /\ Grows(d, b) /\ b.auctions = d.auctions
        /\ DOMAIN b.nodes = DOMAIN d.nodes \cup {badge}
    <3>1. wallet \in DOMAIN d.nodes
      BY <2>2, <2>7
    <3> QED
      BY <2>2, <2>3, <2>4, <2>7, <3>1, DrawBadge
  <2>9. /\ Sound(e) /\ Grows(b, e) /\ e.auctions = b.auctions
        /\ DOMAIN e.nodes = DOMAIN b.nodes \cup {wallet}
    BY <2>3, <2>5, <2>8, SetNodeSound
  <2>10. Grows(d, e)
    BY <2>8, <2>9, GrowsOn
  <2>11. Truthful(e)
    <3>1. Truthful(b)
      BY <2>3, <2>7, <2>8, DrawingStaysTrue
    <3> QED
      BY <2>3, <2>9, <3>1, DrawingStaysTrue
  <2> QED
    BY <2>1, <2>6, <2>8, <2>9, <2>10, <2>11, CommitWritten
<1> QED
  BY <1>1, <1>2

\* What AttestcoinService draws beside the requests for graphs.
LEMMA MintWritten ==
  ASSUME StoreOK, ChainOK, NEW w \in Wallets, MintEvidence(w)
  PROVE  Written /\ UNCHANGED graphVars
<1>1. PICK d : d = data
  OBVIOUS
<1>2. PICK wallet, node : wallet = <<"wallet", w>> /\ node = <<"claimed", w>>
  OBVIOUS
<1>3. PICK e : e = SetEdge(SetNode(d, node, "VERIFIED"), node, wallet)
  OBVIOUS
<1>4. Commit(e) /\ UNCHANGED graphVars
  BY <1>1, <1>2, <1>3 DEF MintEvidence
<1>5. "VERIFIED" \in NodeOf(node) /\ node[1] \notin Kind
  BY <1>2, Nodes
<1>6. Sound(d) /\ Truthful(d)
  BY <1>1 DEF StoreOK, ChainOK
<1>7. /\ Sound(e) /\ Grows(d, e) /\ e.auctions = d.auctions
      /\ DOMAIN e.nodes = DOMAIN d.nodes \cup {node}
  <2>1. PICK kind \in {"claimed", "verified"} : kind = "claimed" /\ node = <<kind, w>>
    BY <1>2
  <2> QED
    BY <1>2, <1>3, <1>5, <1>6, <2>1, DrawEvidence
<1>8. Truthful(e)
  BY <1>5, <1>6, <1>7, DrawingStaysTrue
<1> QED
  BY <1>1, <1>4, <1>7, <1>8, CommitWritten DEF graphVars

LEMMA NormalizeWritten ==
  ASSUME StoreOK, ChainOK, NEW w \in Wallets, NormalizeAndStore(w)
  PROVE  Written /\ UNCHANGED graphVars
<1>1. PICK d : d = data
  OBVIOUS
<1>2. PICK wallet, node : wallet = <<"wallet", w>> /\ node = <<"verified", w>>
  OBVIOUS
<1>3. PICK b : b = IF wallet \in DOMAIN d.nodes THEN d ELSE SetNode(d, wallet, "unknown")
  OBVIOUS
<1>4. PICK e : e = SetEdge(SetNode(b, node, "VERIFIED"), node, wallet)
  OBVIOUS
<1>5. Commit(e) /\ UNCHANGED graphVars
  BY <1>1, <1>2, <1>3, <1>4 DEF NormalizeAndStore
<1>6. /\ wallet \in NodeId /\ "unknown" \in NodeOf(wallet) /\ wallet[1] = "wallet"
      /\ "VERIFIED" \in NodeOf(node) /\ wallet[1] \notin Kind /\ node[1] \notin Kind
  BY <1>2, Nodes
<1>7. Sound(d) /\ Truthful(d)
  BY <1>1 DEF StoreOK, ChainOK
<1>8. /\ Sound(b) /\ Grows(d, b) /\ b.auctions = d.auctions
      /\ DOMAIN b.nodes = DOMAIN d.nodes \cup {wallet}
  <2>1. CASE wallet \in DOMAIN d.nodes
    BY <1>3, <1>7, <2>1 DEF Grows
  <2>2. CASE wallet \notin DOMAIN d.nodes
    BY <1>3, <1>6, <1>7, <2>2, SetNodeSound
  <2> QED
    BY <2>1, <2>2
<1>9. /\ Sound(e) /\ Grows(b, e) /\ e.auctions = b.auctions
      /\ DOMAIN e.nodes = DOMAIN b.nodes \cup {node}
  <2>1. PICK kind \in {"claimed", "verified"} : kind = "verified" /\ node = <<kind, w>>
    BY <1>2
  <2>2. wallet \in DOMAIN b.nodes
    BY <1>3, <1>8
  <2> QED
    BY <1>2, <1>4, <1>6, <1>8, <2>1, <2>2, DrawEvidence
<1>10. Grows(d, e)
  BY <1>8, <1>9, GrowsOn
<1>11. Truthful(e)
  <2>1. Truthful(b)
    BY <1>6, <1>7, <1>8, DrawingStaysTrue
  <2> QED
    BY <1>6, <1>9, <2>1, DrawingStaysTrue
<1> QED
  BY <1>1, <1>5, <1>8, <1>9, <1>10, <1>11, CommitWritten DEF graphVars

LEMMA AddItemWritten ==
  ASSUME StoreOK, ChainOK, UNCHANGED chain,
         NEW kind \in Kind, NEW i \in DOMAIN chain[kind], NEW w \in Wallets,
         <<"wallet", w>> \in DOMAIN data.nodes, AddItem(kind, i, w)
  PROVE  Written /\ (w \in Parties[kind][i] => <<kind, i>> \in DOMAIN data'.nodes)
<1>1. CASE ~ (w \in Parties[kind][i] /\ <<kind, i>> \notin DOMAIN data.nodes)
  <2>1. NoWrite
    BY <1>1 DEF AddItem
  <2> QED
    BY <1>1, <2>1, NothingWritten
<1>2. CASE w \in Parties[kind][i] /\ <<kind, i>> \notin DOMAIN data.nodes
  <2>1. PICK d, node : d = data /\ node = chain[kind][i]
    OBVIOUS
  <2>2. PICK e : e = SetEdge(SetNode(d, <<kind, i>>, node), <<"wallet", w>>, <<kind, i>>)
    OBVIOUS
  <2>3. Commit(e)
    BY <1>2, <2>1, <2>2 DEF AddItem
  <2>4. Sound(d) /\ Truthful(d)
    BY <2>1 DEF StoreOK, ChainOK
  <2>5. i \in Nat /\ node \in {FirstStatus[kind]} \cup LastStatus[kind]
    <3>1. chain[kind] \in Seq({FirstStatus[kind]} \cup LastStatus[kind])
      BY DEF ChainOK
    <3>2. Len(chain[kind]) \in Nat /\ i \in 1 .. Len(chain[kind])
      BY <3>1, LenProperties
    <3> QED
      BY <2>1, <3>1, <3>2, ElementOfSeq
  <2>6. /\ Sound(e) /\ Grows(d, e)
        /\ DOMAIN e.nodes = DOMAIN d.nodes \cup {<<kind, i>>}
        /\ e.nodes[<<kind, i>>] = node /\ e.auctions = d.auctions
    BY <1>2, <2>1, <2>2, <2>4, <2>5, DrawItem
  <2>7. Truthful(e)
    <3> SUFFICES ASSUME NEW id \in DOMAIN e.nodes, id[1] \in Kind
                 PROVE  /\ id[2] \in DOMAIN chain[id[1]]
                        /\ e.nodes[id] \in {FirstStatus[id[1]], chain[id[1]][id[2]]}
      BY DEF Truthful
    <3>1. CASE id \in DOMAIN d.nodes
      BY <2>4, <2>6, <3>1 DEF Truthful, Grows
    <3>2. CASE id = <<kind, i>>
      <4>1. id[1] = kind /\ id[2] = i
        BY <3>2
      <4> QED
        BY <2>1, <2>6, <3>2, <4>1
    <3> QED
      BY <2>6, <3>1, <3>2
  <2>8. Written /\ data' = e
    BY <2>1, <2>3, <2>6, <2>7, CommitWritten
  <2> QED
    BY <2>6, <2>8
<1> QED
  BY <1>1, <1>2

LEMMA SameChain ==
  ASSUME ChainOK, UNCHANGED chain
  PROVE  ChainLonger
BY LenProperties DEF ChainOK, ChainLonger

\* What holds of a request that has something to wait for.
LEMMA Asking ==
  ASSUME SyncsOK, NEW s \in Syncs, syncs[s].stage \in Stage
  PROVE  /\ syncs[s] \in Sync /\ SyncGood(syncs[s])
         /\ syncs[s] = [stage |-> syncs[s].stage, wallet |-> syncs[s].wallet,
                        kind |-> syncs[s].kind, next |-> syncs[s].next, count |-> syncs[s].count]
<1>1. Idle.stage \notin Stage
  BY DEF Idle, Stage
<1>2. syncs[s] \in Sync
  BY <1>1 DEF SyncsOK
<1> QED
  BY <1>2 DEF SyncsOK, Sync

\* The request's new state, if it is one of Sync or Idle, is all that changes.
LEMMA SyncMoves ==
  ASSUME ChainOK, SyncsOK, UNCHANGED chain, Written, NEW s \in Syncs,
         NEW x \in Sync \cup {Idle}, syncs' = [syncs EXCEPT ![s] = x], SyncGood(x)'
  PROVE  SyncsOK'
<1>1. DOMAIN data.nodes \subseteq DOMAIN data'.nodes
  BY DEF Written, Grows
<1> QED
  BY <1>1, OneSync, SameChain

LEMMA IdleIsGood == SyncGood(Idle)' /\ Idle \in Sync \cup {Idle}
BY DEF SyncGood, Idle

LEMMA StartSyncKeeps ==
  ASSUME StoreOK, ChainOK, SyncsOK, NEW s \in Syncs, NEW w \in Wallets, StartSync(s, w)
  PROVE  Written /\ SyncsOK'
<1>1. PICK x : x = [stage |-> "balance", wallet |-> w, kind |-> "loan", next |-> 1, count |-> 0]
  OBVIOUS
<1>2. /\ syncs' = [syncs EXCEPT ![s] = x] /\ UNCHANGED chain /\ NoWrite
  BY <1>1 DEF StartSync
<1>3. x \in Sync
  BY <1>1 DEF Sync, Stage, Kind
<1>4. SyncGood(x)'
  BY <1>1 DEF SyncGood
<1> QED
  BY <1>2, <1>3, <1>4, NothingWritten, SyncMoves

\* After the last loan the request asks for the borrow requests, then ends.
LEMMA AfterKindIsGood ==
  ASSUME NEW y \in Sync, <<"wallet", y.wallet>> \in DOMAIN data'.nodes,
         NEW x, x = AfterKind(y)
  PROVE  x \in Sync \cup {Idle} /\ SyncGood(x)'
<1>1. CASE y.kind = "loan"
  <2>1. x = [stage |-> "count", wallet |-> y.wallet, kind |-> "request", next |-> 1, count |-> 0]
    BY <1>1 DEF AfterKind, Sync
  <2> QED
    BY <2>1 DEF Sync, Stage, Kind, SyncGood
<1>2. CASE y.kind # "loan"
  <2>1. x = Idle
    BY <1>2 DEF AfterKind
  <2> QED
    BY <2>1, IdleIsGood
<1> QED
  BY <1>1, <1>2

LEMMA GotBalanceKeeps ==
  ASSUME StoreOK, ChainOK, SyncsOK, NEW s \in Syncs, GotBalance(s)
  PROVE  Written /\ SyncsOK'
<1>1. syncs[s].stage = "balance" /\ UNCHANGED chain /\ AddWallet(syncs[s].wallet)
  BY DEF GotBalance
<1>2. PICK y \in Sync : y = syncs[s] /\ SyncGood(y)
  BY <1>1, Asking DEF Stage
<1>3. PICK x : x = [y EXCEPT !.stage = "eligible"]
  OBVIOUS
<1>4. Written /\ <<"wallet", y.wallet>> \in DOMAIN data'.nodes
  BY <1>1, <1>2, AddWalletWritten DEF Sync
<1>5. x \in Sync /\ x.stage = "eligible" /\ x.next = 1 /\ x.wallet = y.wallet
  BY <1>1, <1>2, <1>3 DEF Sync, Stage, SyncGood
<1>6. SyncGood(x)'
  BY <1>4, <1>5 DEF SyncGood
<1>7. syncs' = [syncs EXCEPT ![s] = x]
  BY <1>2, <1>3 DEF GotBalance
<1> QED
  BY <1>1, <1>4, <1>5, <1>6, <1>7, SyncMoves

LEMMA GotEligibleKeeps ==
  ASSUME StoreOK, ChainOK, SyncsOK, NEW s \in Syncs, GotEligible(s)
  PROVE  Written /\ SyncsOK'
<1>1. syncs[s].stage = "eligible" /\ UNCHANGED chain /\ NoWrite
  BY DEF GotEligible
<1>2. PICK y \in Sync : y = syncs[s] /\ SyncGood(y)
  BY <1>1, Asking DEF Stage
<1>3. Written /\ data' = data
  BY <1>1, NothingWritten
<1>4. PICK stage \in {"terms", "count"} : syncs' = [syncs EXCEPT ![s].stage = stage]
  BY DEF GotEligible
<1>5. PICK x : x = [y EXCEPT !.stage = stage]
  OBVIOUS
<1>6. x \in Sync /\ x.stage = stage /\ x.next = 1 /\ x.wallet = y.wallet
  BY <1>1, <1>2, <1>5 DEF Sync, Stage, SyncGood
<1>7. <<"wallet", y.wallet>> \in DOMAIN data.nodes
  BY <1>1, <1>2 DEF SyncGood
<1>8. SyncGood(x)'
  BY <1>3, <1>6, <1>7 DEF SyncGood
<1>9. syncs' = [syncs EXCEPT ![s] = x]
  BY <1>2, <1>4, <1>5
<1> QED
  BY <1>1, <1>3, <1>6, <1>8, <1>9, SyncMoves

LEMMA GotTermsKeeps ==
  ASSUME StoreOK, ChainOK, SyncsOK, NEW s \in Syncs, GotTerms(s)
  PROVE  Written /\ SyncsOK'
<1>1. syncs[s].stage = "terms" /\ UNCHANGED chain /\ MarkEligible(syncs[s].wallet)
  BY DEF GotTerms
<1>2. PICK y \in Sync : y = syncs[s] /\ SyncGood(y)
  BY <1>1, Asking DEF Stage
<1>3. <<"wallet", y.wallet>> \in DOMAIN data.nodes /\ y.wallet \in Wallets
  BY <1>1, <1>2 DEF SyncGood, Sync
<1>4. Written
  BY <1>1, <1>2, <1>3, MarkEligibleWritten
<1>5. PICK x : x = [y EXCEPT !.stage = "count"]
  OBVIOUS
<1>6. x \in Sync /\ x.stage = "count" /\ x.next = 1 /\ x.wallet = y.wallet
  BY <1>1, <1>2, <1>5 DEF Sync, Stage, SyncGood
<1>7. SyncGood(x)'
  BY <1>3, <1>4, <1>6 DEF SyncGood, Written, Grows
<1>8. syncs' = [syncs EXCEPT ![s] = x]
  BY <1>2, <1>5 DEF GotTerms
<1> QED
  BY <1>1, <1>4, <1>6, <1>7, <1>8, SyncMoves

LEMMA GotCountKeeps ==
  ASSUME StoreOK, ChainOK, SyncsOK, NEW s \in Syncs, GotCount(s)
  PROVE  Written /\ SyncsOK'
<1>1. syncs[s].stage = "count" /\ UNCHANGED chain /\ NoWrite
  BY DEF GotCount
<1>2. PICK y \in Sync : y = syncs[s] /\ SyncGood(y)
  BY <1>1, Asking DEF Stage
<1>3. Written /\ data' = data
  BY <1>1, NothingWritten
<1>4. <<"wallet", y.wallet>> \in DOMAIN data.nodes /\ y.next = 1
  BY <1>1, <1>2 DEF SyncGood
<1>5. PICK count : /\ count \in {Len(chain[y.kind]), 0}
                   /\ syncs' = [syncs EXCEPT ![s] =
                        IF count = 0 THEN AfterKind(y) ELSE [y EXCEPT !.stage = "item", !.count = count]]
  <2>1. PICK count \in {Len(chain[y.kind])} \cup (IF RpcFaults THEN {0} ELSE {}) :
          syncs' = [syncs EXCEPT ![s] =
            IF count = 0 THEN AfterKind(@) ELSE [@ EXCEPT !.stage = "item", !.count = count]]
    BY <1>2, Zenon DEF GotCount
  <2>2. syncs' = [syncs EXCEPT ![s] =
          IF count = 0 THEN AfterKind(y) ELSE [y EXCEPT !.stage = "item", !.count = count]]
    BY <1>2, <2>1
  <2>3. count \in {Len(chain[y.kind]), 0}
    BY <1>2, <2>1
  <2> QED
    BY <2>2, <2>3, Zenon
<1>6. CASE count = 0
  <2>1. PICK x : x = AfterKind(y)
    OBVIOUS
  <2>2. x \in Sync \cup {Idle} /\ SyncGood(x)'
    BY <1>3, <1>4, <2>1, AfterKindIsGood
  <2>3. syncs' = [syncs EXCEPT ![s] = x]
    BY <1>5, <1>6, <2>1
  <2> QED
    BY <1>1, <1>3, <2>2, <2>3, SyncMoves
<1>7. CASE count # 0
  <2>1. PICK x : x = [y EXCEPT !.stage = "item", !.count = count]
    OBVIOUS
  <2>2. count = Len(chain[y.kind]) /\ count \in Nat /\ y.kind \in Kind
    <3>1. y.kind \in Kind
      BY DEF Sync
    <3> QED
      BY <1>5, <1>7, <3>1, LenProperties DEF ChainOK
  <2>3. /\ x \in Sync /\ x.stage = "item" /\ x.next = 1 /\ x.count = count
        /\ x.wallet = y.wallet /\ x.kind = y.kind
    BY <1>4, <2>1, <2>2 DEF Sync, Stage
  <2>4. SyncGood(x)'
    <3>1. /\ 1 <= x.next /\ x.next <= x.count /\ x.count <= Len(chain'[x.kind])
      BY <1>1, <1>7, <2>2, <2>3
    <3>2. 1 .. x.next - 1 = {}
      BY <2>3
    <3>3. <<"wallet", x.wallet>> \in DOMAIN data'.nodes
      BY <1>3, <1>4, <2>3
    <3> QED
      BY <2>3, <3>1, <3>2, <3>3 DEF SyncGood
  <2>5. syncs' = [syncs EXCEPT ![s] = x]
    BY <1>5, <1>7, <2>1
  <2> QED
    BY <1>1, <1>3, <2>3, <2>4, <2>5, SyncMoves
<1> QED
  BY <1>6, <1>7

\* A loan or request the call was about is drawn after it, if it is the
\* wallet's.
LEMMA GotItemDraws ==
  ASSUME StoreOK, ChainOK, SyncsOK, NEW s \in Syncs, GotItem(s), syncs[s].stage = "item"
  PROVE  /\ Written
         /\ \A i \in 1 .. syncs[s].next :
              syncs[s].wallet \in Parties[syncs[s].kind][i] =>
                <<syncs[s].kind, i>> \in DOMAIN data'.nodes
<1>1. UNCHANGED chain /\ AddItem(syncs[s].kind, syncs[s].next, syncs[s].wallet)
  BY DEF GotItem
<1>2. PICK y \in Sync : y = syncs[s] /\ SyncGood(y)
  BY Asking DEF Stage
<1>3. /\ y.kind \in Kind /\ y.wallet \in Wallets /\ y.next \in Nat /\ y.count \in Nat
  BY DEF Sync
<1>4. /\ 1 <= y.next /\ y.next <= y.count /\ y.count <= Len(chain[y.kind])
      /\ <<"wallet", y.wallet>> \in DOMAIN data.nodes
      /\ \A i \in 1 .. y.next - 1 :
           y.wallet \in Parties[y.kind][i] => <<y.kind, i>> \in DOMAIN data.nodes
  BY <1>2 DEF SyncGood
<1>5. y.next \in DOMAIN chain[y.kind]
  <2>1. DOMAIN chain[y.kind] = 1 .. Len(chain[y.kind]) /\ Len(chain[y.kind]) \in Nat
    BY <1>3, LenProperties DEF ChainOK
  <2> QED
    BY <1>3, <1>4, <2>1
<1>6. /\ Written
      /\ y.wallet \in Parties[y.kind][y.next] => <<y.kind, y.next>> \in DOMAIN data'.nodes
  BY <1>1, <1>2, <1>3, <1>4, <1>5, AddItemWritten
<1>7. ASSUME NEW i \in 1 .. y.next, y.wallet \in Parties[y.kind][i]
      PROVE  <<y.kind, i>> \in DOMAIN data'.nodes
  <2>1. CASE i = y.next
    BY <1>6, <1>7, <2>1
  <2>2. CASE i # y.next
    <3>1. i \in 1 .. y.next - 1
      BY <1>3, <2>2
    <3> QED
      BY <1>4, <1>6, <1>7, <3>1 DEF Written, Grows
  <2> QED
    BY <2>1, <2>2
<1> QED
  BY <1>2, <1>6, <1>7

LEMMA GotItemKeeps ==
  ASSUME StoreOK, ChainOK, SyncsOK, NEW s \in Syncs, GotItem(s)
  PROVE  Written /\ SyncsOK'
<1>1. syncs[s].stage = "item" /\ UNCHANGED chain
  BY DEF GotItem
<1>2. PICK y \in Sync : y = syncs[s] /\ SyncGood(y)
  BY <1>1, Asking DEF Stage
<1>3. /\ Written
      /\ \A i \in 1 .. y.next :
           y.wallet \in Parties[y.kind][i] => <<y.kind, i>> \in DOMAIN data'.nodes
  BY <1>1, <1>2, GotItemDraws
<1>4. /\ 1 <= y.next /\ y.next <= y.count /\ y.count <= Len(chain[y.kind])
      /\ <<"wallet", y.wallet>> \in DOMAIN data'.nodes
      /\ y.next \in Nat /\ y.count \in Nat
  BY <1>1, <1>2, <1>3 DEF SyncGood, Sync, Written, Grows
<1>5. PICK x : x = AfterItem(y)
  OBVIOUS
<1>6. x \in Sync \cup {Idle} /\ SyncGood(x)'
  <2>1. CASE y.next = y.count
    <3>1. x = AfterKind(y)
      BY <1>5, <2>1 DEF AfterItem
    <3> QED
      BY <1>4, <3>1, AfterKindIsGood
  <2>2. CASE y.next # y.count
    <3>1. x = [y EXCEPT !.next = @ + 1]
      BY <1>5, <2>2 DEF AfterItem
    <3>2. /\ x \in Sync /\ x.stage = "item" /\ x.next = y.next + 1 /\ x.count = y.count
          /\ x.wallet = y.wallet /\ x.kind = y.kind
      BY <1>1, <1>2, <1>4, <3>1 DEF Sync
    <3>3. /\ 1 <= x.next /\ x.next <= x.count /\ x.count <= Len(chain'[x.kind])
          /\ x.next - 1 = y.next
      BY <1>1, <1>4, <2>2, <3>2
    <3> QED
      BY <1>3, <1>4, <3>2, <3>3 DEF SyncGood
  <2> QED
    BY <2>1, <2>2
<1>7. syncs' = [syncs EXCEPT ![s] = x]
  BY <1>2, <1>5 DEF GotItem
<1> QED
  BY <1>1, <1>3, <1>6, <1>7, SyncMoves

LEMMA SyncStepKeeps ==
  ASSUME StoreOK, ChainOK, SyncsOK, NEW s \in Syncs, SyncStep(s)
  PROVE  Written /\ SyncsOK'
<1>1. CASE AbortSync(s)
  <2>1. syncs' = [syncs EXCEPT ![s] = Idle] /\ UNCHANGED chain /\ NoWrite
    BY <1>1 DEF AbortSync
  <2> QED
    BY <2>1, NothingWritten, IdleIsGood, SyncMoves
<1> QED
  BY <1>1, GotBalanceKeeps, GotEligibleKeeps, GotTermsKeeps, GotCountKeeps, GotItemKeeps
  DEF SyncStep
-----------------------------------------------------------------------------
(* Views.                                                                  *)

\* What an answer will say, if the objects it still refers to stay as they are.
Text(f, auctions) ==
  [id \in DOMAIN f.answer \cup f.refs |->
     IF id \in f.refs THEN auctions[id] ELSE f.answer[id]]

\* A request refers to objects of the list only, and only if its answer is begun.
Refers(f, auctions) ==
  f.refs \subseteq DOMAIN auctions /\ (f.refs # {} => f.answer \in Auctions)

\* Request f will show the list as it is, unless it is late or fails.
Tells(f, auctions) ==
  f.late \/ f.answer \in {Unanswered, Failed} \/ Text(f, auctions) = auctions

\* A view that heard all it was told of waits for the list as it is; if it waits
\* for nothing, it shows the list as it is, unless it is known not to.
GoodView(x, auctions) ==
  x.events = 0 =>
    IF x.fetches = <<>> THEN x.current => x.shown = auctions
    ELSE Tells(x.fetches[Len(x.fetches)], auctions)

ViewOK(x, auctions) ==
  /\ x \in View
  /\ \A i \in 1 .. Len(x.fetches) : Refers(x.fetches[i], auctions)
  /\ GoodView(x, auctions)

ViewsOK ==
  /\ views \in [Views -> View]
  /\ \A v \in Views : ViewOK(views[v], data.auctions)

LEMMA SeqOf ==
  ASSUME NEW S, NEW n \in Nat, NEW f \in [1 .. n -> S]
  PROVE  f \in Seq(S) /\ Len(f) = n
<1>1. f \in Seq(S)
  BY SeqDef
<1>2. DOMAIN f = 1 .. n /\ DOMAIN f = 1 .. Len(f) /\ Len(f) \in Nat
  BY <1>1, LenProperties
<1> QED
  BY <1>1, <1>2

LEMMA FetchesOf ==
  ASSUME NEW x \in View
  PROVE  /\ x.fetches \in Seq(Fetch) /\ Len(x.fetches) \in Nat
         /\ DOMAIN x.fetches = 1 .. Len(x.fetches)
         /\ \A i \in 1 .. Len(x.fetches) : x.fetches[i] \in Fetch
         /\ x.fetches = <<>> <=> Len(x.fetches) = 0
<1>1. x.fetches \in Seq(Fetch)
  BY DEF View
<1>2. /\ Len(x.fetches) \in Nat /\ DOMAIN x.fetches = 1 .. Len(x.fetches)
      /\ \A i \in 1 .. Len(x.fetches) : x.fetches[i] \in Fetch
  BY <1>1, LenProperties, ElementOfSeq
<1>3. x.fetches = <<>> <=> Len(x.fetches) = 0
  BY <1>1, EmptySeq
<1> QED
  BY <1>1, <1>2, <1>3

\* A change of every request of a view leaves as many.
LEMMA MapFetches ==
  ASSUME NEW x \in View, NEW g, g = [i \in DOMAIN x.fetches |-> g[i]],
         \A i \in 1 .. Len(x.fetches) : g[i] \in Fetch
  PROVE  g \in Seq(Fetch) /\ Len(g) = Len(x.fetches) /\ (g = <<>> <=> x.fetches = <<>>)
<1>1. PICK n \in Nat : /\ n = Len(x.fetches) /\ DOMAIN x.fetches = 1 .. n
                       /\ x.fetches = <<>> <=> n = 0
  BY FetchesOf
<1>2. g \in [1 .. n -> Fetch]
  BY <1>1
<1>3. g \in Seq(Fetch) /\ Len(g) = n
  BY <1>2, SeqOf
<1>4. g = <<>> <=> Len(g) = 0
  BY <1>3, EmptySeq
<1> QED
  BY <1>1, <1>3, <1>4

\* A view that misses an update is not taken for current, nor is an answer that
\* is begun.
LEMMA MissedIsGood ==
  ASSUME NEW x \in View, NEW y, y = Missed(x), NEW auctions,
         \A i \in 1 .. Len(x.fetches) : Refers(x.fetches[i], auctions)
  PROVE  ViewOK(y, auctions)
<1>1. PICK f : f = [i \in DOMAIN x.fetches |->
                      IF x.fetches[i].answer = Unanswered THEN x.fetches[i]
                      ELSE [x.fetches[i] EXCEPT !.late = TRUE]]
  OBVIOUS
<1>2. PICK n \in Nat : /\ n = Len(x.fetches) /\ DOMAIN x.fetches = 1 .. n
                       /\ \A i \in 1 .. n : x.fetches[i] \in Fetch
                       /\ x.fetches = <<>> <=> n = 0
  BY FetchesOf
<1>3. ASSUME NEW i \in 1 .. n
      PROVE  f[i] \in Fetch /\ Tells(f[i], auctions) /\ Refers(f[i], auctions)
  <2>1. PICK a \in Fetch : a = x.fetches[i] /\ Refers(a, auctions)
    BY <1>2
  <2>2. f[i] = IF a.answer = Unanswered THEN a ELSE [a EXCEPT !.late = TRUE]
    BY <1>1, <1>2, <2>1
  <2>3. f[i] \in Fetch /\ f[i].answer = a.answer /\ f[i].refs = a.refs
    BY <2>2 DEF Fetch
  <2>4. f[i].late \/ f[i].answer = Unanswered
    BY <2>2 DEF Fetch
  <2> QED
    BY <2>1, <2>3, <2>4 DEF Tells, Refers
<1>4. f = [i \in DOMAIN x.fetches |-> f[i]]
  BY <1>1
<1>5. y = [live |-> x.live, events |-> x.events, fetches |-> f, shown |-> x.shown,
           current |-> FALSE]
  BY <1>1 DEF Missed, View
<1>6. f \in Seq(Fetch) /\ Len(f) = n /\ (f = <<>> <=> x.fetches = <<>>)
  BY <1>2, <1>3, <1>4, MapFetches
<1>7. y \in View /\ y.fetches = f /\ y.current = FALSE
  BY <1>5, <1>6 DEF View
<1>8. y.fetches # <<>> => n \in 1 .. n
  BY <1>2, <1>6, <1>7
<1> QED
  BY <1>3, <1>6, <1>7, <1>8 DEF ViewOK, GoodView

LEMMA WrittenOutIs ==
  ASSUME data.auctions \in Auctions, NEW f, f.answer \in Auctions,
         NEW refs, refs \subseteq DOMAIN data.auctions
  PROVE  WrittenOut(f, refs) \in Auctions
<1>1. PICK S \in SUBSET AuctionId : data.auctions \in [S -> Auction]
  BY DEF Auctions
<1>2. PICK T \in SUBSET AuctionId : f.answer \in [T -> Auction]
  BY DEF Auctions
<1>3. WrittenOut(f, refs) \in [T \cup refs -> Auction]
  BY <1>1, <1>2 DEF WrittenOut
<1>4. T \cup refs \in SUBSET AuctionId
  BY <1>1, <1>2
<1> QED
  BY <1>3, <1>4, Zenon DEF Auctions

\* What an answer keeps when objects are replaced in the list.
LEMMA DetachedIs ==
  ASSUME data.auctions \in Auctions, NEW f \in Fetch, Refers(f, data.auctions),
         NEW replaced, NEW auctions, DOMAIN data.auctions \subseteq DOMAIN auctions,
         NEW g, g = Detached(f, replaced)
  PROVE  g \in Fetch /\ Refers(g, auctions)
<1>1. PICK old : old = f.refs \cap replaced
  OBVIOUS
<1>2. CASE old = {}
  <2>1. g = f
    BY <1>1, <1>2 DEF Detached
  <2> QED
    BY <2>1 DEF Refers
<1>3. CASE old # {}
  <2>1. PICK answer : answer = WrittenOut(f, old)
    OBVIOUS
  <2>2. f.answer \in Auctions /\ old \subseteq DOMAIN data.auctions
    BY <1>1, <1>3 DEF Refers
  <2>3. answer \in Auctions
    BY <2>1, <2>2, WrittenOutIs
  <2>5. g = [answer |-> answer, refs |-> f.refs \ old, late |-> f.late]
    BY <1>1, <1>3, <2>1 DEF Detached
  <2>6. g \in Fetch /\ g.answer = answer /\ g.refs = f.refs \ old
    BY <2>3, <2>5 DEF Fetch
  <2> QED
    BY <2>3, <2>6 DEF Refers
<1> QED
  BY <1>2, <1>3

\* Every live view hears of an update; the others miss it.
LEMMA BroadcastKeeps ==
  ASSUME data.auctions \in Auctions,
         views \in [Views -> View], \A v \in Views : ViewOK(views[v], data.auctions),
         NEW replaced, Broadcast(replaced),
         NEW auctions, DOMAIN data.auctions \subseteq DOMAIN auctions
  PROVE  /\ views' \in [Views -> View]
         /\ \A v \in Views : ViewOK(views'[v], auctions)
<1>1. ASSUME NEW v \in Views
      PROVE  ViewOK(views'[v], auctions)
  <2>1. PICK x \in View : x = views[v] /\ ViewOK(x, data.auctions)
    OBVIOUS
  <2>2. PICK f : f = [i \in DOMAIN x.fetches |-> Detached(x.fetches[i], replaced)]
    OBVIOUS
  <2>3. PICK z : z = [x EXCEPT !.fetches = f]
    OBVIOUS
  <2>4. views'[v] = IF z.live THEN [z EXCEPT !.events = @ + 1] ELSE Missed(z)
    <3>1. z = [views[v] EXCEPT !.fetches = [i \in DOMAIN @ |-> Detached(@[i], replaced)]]
      BY <2>1, <2>2, <2>3
    <3>2. views'[v] =
            LET view == [views[v] EXCEPT !.fetches = [i \in DOMAIN @ |-> Detached(@[i], replaced)]]
            IN  IF view.live THEN [view EXCEPT !.events = @ + 1] ELSE Missed(view)
      BY Zenon DEF Broadcast
    <3> QED
      BY <3>1, <3>2, Zenon
  <2>5. \A i \in 1 .. Len(x.fetches) : f[i] \in Fetch /\ Refers(f[i], auctions)
    <3> SUFFICES ASSUME NEW i \in 1 .. Len(x.fetches)
                 PROVE  f[i] \in Fetch /\ Refers(f[i], auctions)
      OBVIOUS
    <3>1. PICK a \in Fetch : a = x.fetches[i] /\ Refers(a, data.auctions)
      BY <2>1, FetchesOf DEF ViewOK
    <3>2. f[i] = Detached(a, replaced)
      BY <2>2, <3>1, FetchesOf
    <3> QED
      BY <3>1, <3>2, DetachedIs
  <2>6. /\ z = [live |-> x.live, events |-> x.events, fetches |-> f, shown |-> x.shown,
                current |-> x.current]
        /\ f = [i \in DOMAIN x.fetches |-> f[i]]
    BY <2>2, <2>3 DEF View
  <2>7. z \in View /\ z.fetches = f /\ Len(f) = Len(x.fetches)
    <3>1. \A i \in 1 .. Len(x.fetches) : f[i] \in Fetch
      BY <2>5
    <3>2. f \in Seq(Fetch) /\ Len(f) = Len(x.fetches)
      BY <2>6, <3>1, MapFetches
    <3> QED
      BY <2>6, <3>2 DEF View
  <2>8. \A i \in 1 .. Len(z.fetches) : Refers(z.fetches[i], auctions)
    BY <2>5, <2>7
  <2>9. CASE z.live
    <3>1. PICK y : y = [z EXCEPT !.events = @ + 1]
      OBVIOUS
    <3>2. y = [live |-> z.live, events |-> z.events + 1, fetches |-> z.fetches,
               shown |-> z.shown, current |-> z.current]
      BY <2>7, <3>1 DEF View
    <3>3. y \in View /\ y.events = z.events + 1 /\ z.events \in Nat /\ y.fetches = z.fetches
      BY <2>7, <3>2 DEF View
    <3>4. y.events # 0 /\ views'[v] = y
      BY <2>4, <2>9, <3>1, <3>3
    <3> QED
      BY <2>8, <3>3, <3>4 DEF ViewOK, GoodView
  <2>10. CASE ~z.live
    <3>1. views'[v] = Missed(z)
      BY <2>4, <2>10
    <3> QED
      BY <2>7, <2>8, <3>1, MissedIsGood
  <2> QED
    BY <2>9, <2>10
<1>2. views' = [v \in Views |-> views'[v]]
  BY Zenon DEF Broadcast
<1> QED
  BY <1>1, <1>2 DEF ViewOK

\* After a restart, a view may only be taken for current if the auctions are
\* still the same.
LEMMA LoseBackendKeeps ==
  ASSUME ViewsOK, LoseBackend
  PROVE  ViewsOK'
<1>1. ASSUME NEW v \in Views
      PROVE  ViewOK(views'[v], data'.auctions)
  <2>1. PICK x \in View : x = views[v] /\ ViewOK(x, data.auctions)
    BY DEF ViewsOK
  <2>2. PICK f : f = [i \in DOMAIN x.fetches |-> Dropped(x.fetches[i])]
    OBVIOUS
  <2>3. PICK z : z = [x EXCEPT !.live = FALSE, !.fetches = f]
    OBVIOUS
  <2>4. views'[v] = IF data'.auctions = data.auctions THEN z ELSE Missed(z)
    <3>1. z = [views[v] EXCEPT !.live = FALSE, !.fetches = [i \in DOMAIN @ |-> Dropped(@[i])]]
      BY <2>1, <2>2, <2>3
    <3>2. views'[v] =
            LET view == [views[v] EXCEPT !.live = FALSE,
                                         !.fetches = [i \in DOMAIN @ |-> Dropped(@[i])]]
            IN  IF data'.auctions = data.auctions THEN view ELSE Missed(view)
      BY Zenon DEF LoseBackend
    <3> QED
      BY <3>1, <3>2, Zenon
  <2>5. ASSUME NEW i \in 1 .. Len(x.fetches)
        PROVE  /\ f[i] \in Fetch /\ f[i].refs = {}
               /\ f[i].answer = Failed \/ f[i] = x.fetches[i]
    <3>1. PICK a \in Fetch : a = x.fetches[i] /\ i \in DOMAIN x.fetches
      BY FetchesOf
    <3>2. f[i] = Dropped(a)
      BY <2>2, <3>1
    <3> QED
      BY <3>1, <3>2 DEF Fetch, Dropped
  <2>6. /\ z = [live |-> FALSE, events |-> x.events, fetches |-> f, shown |-> x.shown,
                current |-> x.current]
        /\ f = [i \in DOMAIN x.fetches |-> f[i]]
    BY <2>2, <2>3 DEF View
  <2>7. /\ z \in View /\ z.fetches = f /\ Len(f) = Len(x.fetches)
        /\ z.fetches = <<>> <=> x.fetches = <<>>
        /\ z.events = x.events /\ z.shown = x.shown /\ z.current = x.current
    <3>1. /\ f \in Seq(Fetch) /\ Len(f) = Len(x.fetches)
          /\ f = <<>> <=> x.fetches = <<>>
      BY <2>5, <2>6, MapFetches
    <3> QED
      BY <2>6, <3>1 DEF View
  <2>8. \A i \in 1 .. Len(z.fetches) : Refers(z.fetches[i], data'.auctions)
    BY <2>5, <2>7 DEF Refers
  <2>9. CASE data'.auctions = data.auctions
    <3>1. GoodView(z, data.auctions)
      <4> SUFFICES ASSUME x.events = 0, x.fetches # <<>>
                   PROVE  Tells(f[Len(f)], data.auctions)
        BY <2>1, <2>7 DEF ViewOK, GoodView
      <4>1. Tells(x.fetches[Len(x.fetches)], data.auctions)
        BY <2>1 DEF ViewOK, GoodView
      <4>2. Len(x.fetches) \in 1 .. Len(x.fetches)
        BY FetchesOf
      <4>3. f[Len(f)].answer = Failed \/ f[Len(f)] = x.fetches[Len(x.fetches)]
        BY <2>5, <2>7, <4>2
      <4> QED
        BY <4>1, <4>3 DEF Tells
    <3> QED
      BY <2>4, <2>7, <2>8, <2>9, <3>1 DEF ViewOK
  <2>10. CASE data'.auctions # data.auctions
    <3>1. views'[v] = Missed(z)
      BY <2>4, <2>10
    <3> QED
      BY <2>7, <2>8, <3>1, MissedIsGood
  <2> QED
    BY <2>9, <2>10
<1>2. views' = [v \in Views |-> views'[v]]
  BY Zenon DEF LoseBackend
<1> QED
  BY <1>1, <1>2 DEF ViewOK, ViewsOK

LEMMA ReloadIsGood ==
  ASSUME NEW x, NEW auctions, ViewOK(x, auctions), x.events > 0,
         NEW y, y = [live |-> x.live, events |-> x.events - 1,
                     fetches |-> Append(x.fetches, Sent),
                     shown |-> x.shown, current |-> x.current]
  PROVE  ViewOK(y, auctions)
<1>1. PICK new : new = Sent
  OBVIOUS
<1>2. new \in Fetch /\ Tells(new, auctions) /\ Refers(new, auctions)
  BY <1>1 DEF Fetch, Sent, Tells, Refers
<1>3. /\ x \in View /\ x.fetches \in Seq(Fetch) /\ Len(x.fetches) \in Nat /\ x.events \in Nat
  BY FetchesOf DEF View, ViewOK
<1>4. PICK f : f = Append(x.fetches, new)
  OBVIOUS
<1>5. /\ f \in Seq(Fetch) /\ f # <<>> /\ Len(f) = Len(x.fetches) + 1 /\ f[Len(f)] = new
      /\ \A i \in 1 .. Len(x.fetches) : f[i] = x.fetches[i]
  BY <1>2, <1>3, <1>4, AppendProperties
<1>6. x.events - 1 \in Nat
  BY <1>3
<1>7. y \in View /\ y.fetches = f
  BY <1>1, <1>3, <1>4, <1>5, <1>6 DEF View
<1>8. ASSUME NEW i \in 1 .. Len(f)
      PROVE  Refers(f[i], auctions)
  <2>1. i = Len(f) \/ i \in 1 .. Len(x.fetches)
    BY <1>3, <1>5
  <2> QED
    BY <1>2, <1>5, <2>1 DEF ViewOK
<1> QED
  BY <1>2, <1>5, <1>7, <1>8 DEF ViewOK, GoodView

\* One request goes on.
LEMMA OneFetch ==
  ASSUME NEW x, NEW auctions, ViewOK(x, auctions), NEW i \in DOMAIN x.fetches,
         NEW new \in Fetch, Refers(new, auctions),
         Tells(x.fetches[i], auctions) => Tells(new, auctions),
         NEW y, y = [live |-> x.live, events |-> x.events,
                     fetches |-> [x.fetches EXCEPT ![i] = new],
                     shown |-> x.shown, current |-> x.current]
  PROVE  ViewOK(y, auctions)
<1>1. /\ x \in View /\ x.fetches \in Seq(Fetch) /\ Len(x.fetches) \in Nat
      /\ i \in 1 .. Len(x.fetches)
  BY FetchesOf DEF ViewOK
<1>2. PICK f : f = [x.fetches EXCEPT ![i] = new]
  OBVIOUS
<1>3. /\ f \in Seq(Fetch) /\ Len(f) = Len(x.fetches)
      /\ \A j \in 1 .. Len(x.fetches) : f[j] = IF j = i THEN new ELSE x.fetches[j]
  BY <1>1, <1>2, ExceptSeq
<1>4. /\ y \in View /\ y.fetches = f /\ y.events = x.events /\ y.fetches # <<>>
      /\ x.fetches # <<>>
  <2>1. y \in View /\ y.fetches = f /\ y.events = x.events
    BY <1>1, <1>2, <1>3 DEF View
  <2> QED
    BY <1>1, <1>3, <2>1, FetchesOf
<1>5. \A j \in 1 .. Len(f) : Refers(f[j], auctions)
  BY <1>3 DEF ViewOK
<1>6. ASSUME y.events = 0
      PROVE  Tells(f[Len(f)], auctions)
  <2>1. Tells(x.fetches[Len(x.fetches)], auctions)
    BY <1>4, <1>6 DEF ViewOK, GoodView
  <2>2. f[Len(f)] = IF i = Len(f) THEN new ELSE x.fetches[Len(x.fetches)]
    BY <1>1, <1>3
  <2> QED
    BY <1>3, <2>1, <2>2
<1> QED
  BY <1>4, <1>5, <1>6 DEF ViewOK, GoodView

\* A request that reads the list will show it as it is.
LEMMA ReadIsGood ==
  ASSUME NEW auctions \in Auctions, NEW f \in Fetch, NoAuctions \in Auctions,
         NEW new, new = [answer |-> NoAuctions, refs |-> DOMAIN auctions, late |-> f.late]
  PROVE  new \in Fetch /\ Refers(new, auctions) /\ Tells(new, auctions)
<1>1. PICK S \in SUBSET AuctionId : auctions \in [S -> Auction]
  BY DEF Auctions
<1>2. PICK none \in Auctions : none = NoAuctions /\ DOMAIN none = {}
  BY DEF NoAuctions
<1>3. new = [answer |-> none, refs |-> S, late |-> f.late]
  BY <1>1, <1>2
<1>4. new \in Fetch /\ new.answer = none /\ new.refs = S
  BY <1>3 DEF Fetch
<1>5. Text(new, auctions) = [id \in S |-> auctions[id]]
  BY <1>2, <1>4 DEF Text
<1>6. [id \in S |-> auctions[id]] = auctions
  BY <1>1
<1> QED
  BY <1>1, <1>4, <1>5, <1>6 DEF Refers, Tells

\* What it writes out is what it would show.
LEMMA AnswerIsGood ==
  ASSUME data.auctions \in Auctions, NEW f \in Fetch, Refers(f, data.auctions), f.refs # {},
         NEW new, new = [answer |-> WrittenOut(f, f.refs), refs |-> {}, late |-> f.late]
  PROVE  /\ new \in Fetch /\ Refers(new, data.auctions)
         /\ Tells(f, data.auctions) => Tells(new, data.auctions)
<1>1. PICK answer : answer = WrittenOut(f, f.refs)
  OBVIOUS
<1>2. f.answer \in Auctions /\ answer \in Auctions
  BY <1>1, WrittenOutIs DEF Refers
<1>3. new = [answer |-> answer, refs |-> {}, late |-> f.late]
  BY <1>1
<1>4. new \in Fetch /\ new.answer = answer /\ new.refs = {} /\ new.late = f.late
  BY <1>2, <1>3 DEF Fetch
<1>5. answer = Text(f, data.auctions)
  BY <1>1 DEF WrittenOut, Text
<1>6. Text(new, data.auctions) = answer
  <2>1. PICK S \in SUBSET AuctionId : answer \in [S -> Auction]
    BY <1>2 DEF Auctions
  <2>2. Text(new, data.auctions) = [id \in S |-> answer[id]]
    BY <1>4, <2>1 DEF Text
  <2> QED
    BY <2>1, <2>2
<1> QED
  BY <1>2, <1>4, <1>5, <1>6, NoAnswer DEF Refers, Tells

\* A request ends: the list it brought is shown, or another that is not taken
\* for current.
LEMMA EndIsGood ==
  ASSUME NEW x, NEW auctions, ViewOK(x, auctions), NEW i \in DOMAIN x.fetches,
         NEW shown \in Auctions, NEW current \in BOOLEAN,
         current => /\ ~x.fetches[i].late
                    /\ Tells(x.fetches[i], auctions) => shown = auctions,
         NEW y, y = [live |-> x.live, events |-> x.events,
                     fetches |-> Without(x.fetches, i),
                     shown |-> shown, current |-> current]
  PROVE  ViewOK(y, auctions)
<1>1. PICK n \in Nat : /\ n = Len(x.fetches) /\ i \in 1 .. n /\ x \in View
                       /\ \A j \in 1 .. n : x.fetches[j] \in Fetch /\ Refers(x.fetches[j], auctions)
  BY FetchesOf DEF ViewOK
<1>2. PICK f : f = [j \in 1 .. n - 1 |->
                     IF j < i THEN [x.fetches[j] EXCEPT !.late = TRUE] ELSE x.fetches[j + 1]]
  OBVIOUS
<1>3. ASSUME NEW j \in 1 .. n - 1
      PROVE  /\ f[j] \in Fetch /\ Refers(f[j], auctions)
             /\ IF j < i THEN f[j].late ELSE f[j] = x.fetches[j + 1]
  <2>1. PICK a \in Fetch, b \in Fetch :
          a = x.fetches[j] /\ b = x.fetches[j + 1] /\ Refers(a, auctions) /\ Refers(b, auctions)
    BY <1>1
  <2>2. CASE j < i
    <3>1. f[j] = [a EXCEPT !.late = TRUE]
      BY <1>2, <2>1, <2>2
    <3>2. f[j] \in Fetch /\ f[j].late /\ f[j].answer = a.answer /\ f[j].refs = a.refs
      BY <3>1 DEF Fetch
    <3> QED
      BY <2>1, <2>2, <3>2 DEF Refers
  <2>3. CASE ~ (j < i)
    BY <1>2, <2>1, <2>3
  <2> QED
    BY <2>2, <2>3
<1>4. f \in Seq(Fetch) /\ Len(f) = n - 1
  <2>1. n - 1 \in Nat /\ f = [j \in 1 .. n - 1 |-> f[j]]
    BY <1>1, <1>2
  <2>2. f \in [1 .. n - 1 -> Fetch]
    BY <1>3, <2>1
  <2> QED
    BY <2>1, <2>2, SeqOf
<1>5. Without(x.fetches, i) = f
  BY <1>1, <1>2 DEF Without
<1>6. /\ y \in View /\ y.fetches = f /\ y.events = x.events /\ y.shown = shown
      /\ y.current = current
  BY <1>1, <1>4, <1>5 DEF View
<1>7. \A j \in 1 .. Len(f) : Refers(f[j], auctions)
  BY <1>3, <1>4
<1>8. SUFFICES ASSUME y.events = 0
               PROVE  GoodView(y, auctions)
  BY <1>6, <1>7 DEF GoodView, ViewOK
<1>9. Tells(x.fetches[n], auctions)
  <2>1. x.fetches # <<>>
    BY <1>1, FetchesOf
  <2> QED
    BY <1>1, <1>6, <1>8, <2>1 DEF ViewOK, GoodView
<1>10. y.fetches = <<>> <=> n = 1
  <2>1. y.fetches = <<>> <=> Len(f) = 0
    BY <1>4, <1>6, FetchesOf
  <2> QED
    BY <1>1, <1>4, <2>1
<1>11. CASE n = 1
  <2>1. y.fetches = <<>> /\ i = n
    BY <1>1, <1>10, <1>11
  <2>2. y.current => y.shown = auctions
    BY <1>6, <1>9, <2>1
  <2> QED
    BY <2>1, <2>2 DEF GoodView
<1>12. CASE n # 1
  <2>1. /\ y.fetches # <<>> /\ n - 1 \in 1 .. n - 1 /\ Len(y.fetches) = n - 1
    BY <1>1, <1>4, <1>6, <1>10, <1>12
  <2>2. Tells(f[n - 1], auctions)
    <3>1. CASE n - 1 < i
      BY <1>3, <2>1, <3>1 DEF Tells
    <3>2. CASE ~ (n - 1 < i)
      <4>1. f[n - 1] = x.fetches[n]
        BY <1>1, <1>3, <2>1, <3>2
      <4> QED
        BY <1>9, <4>1
    <3> QED
      BY <3>1, <3>2
  <2> QED
    BY <1>6, <2>1, <2>2 DEF GoodView
<1> QED
  BY <1>11, <1>12

\* The connection comes and goes.
LEMMA ConnectIsGood ==
  ASSUME NEW x, NEW auctions, ViewOK(x, auctions), NEW live \in BOOLEAN,
         NEW y, y = [live |-> live, events |-> x.events, fetches |-> x.fetches,
                     shown |-> x.shown, current |-> x.current]
  PROVE  ViewOK(y, auctions)
<1>1. /\ y \in View /\ y.events = x.events /\ y.fetches = x.fetches /\ y.shown = x.shown
      /\ y.current = x.current
  BY DEF View, ViewOK
<1> QED
  BY <1>1 DEF GoodView, ViewOK

LEMMA LoseIsGood ==
  ASSUME NEW x, NEW auctions, ViewOK(x, auctions), x.events > 0,
         NEW z, z = [live |-> x.live, events |-> x.events - 1, fetches |-> x.fetches,
                     shown |-> x.shown, current |-> x.current]
  PROVE  ViewOK(Missed(z), auctions)
<1>1. z \in View /\ z.fetches = x.fetches
  <2>1. x.events \in Nat /\ x.events - 1 \in Nat
    BY DEF View, ViewOK
  <2> QED
    BY <2>1 DEF View, ViewOK
<1>2. \A i \in 1 .. Len(z.fetches) : Refers(z.fetches[i], auctions)
  BY <1>1 DEF ViewOK
<1> QED
  BY <1>1, <1>2, MissedIsGood

LEMMA OneView ==
  ASSUME ViewsOK, NEW v \in Views, NEW y, ViewOK(y, data.auctions),
         views' = [views EXCEPT ![v] = y], data'.auctions = data.auctions
  PROVE  ViewsOK'
<1>1. views' \in [Views -> View]
  BY DEF ViewsOK, ViewOK
<1>2. ASSUME NEW u \in Views
      PROVE  ViewOK(views'[u], data.auctions)
  BY DEF ViewsOK
<1> QED
  BY <1>1, <1>2 DEF ViewsOK, ViewOK

LEMMA ViewsStay ==
  ASSUME ViewsOK, UNCHANGED views, data'.auctions = data.auctions
  PROVE  ViewsOK'
BY DEF ViewsOK, ViewOK

LEMMA NoAuctionsYet == NoAuctions \in Auctions
<1>1. NoAuctions \in [{} -> Auction]
  BY DEF NoAuctions
<1>2. {} \in SUBSET AuctionId
  OBVIOUS
<1> QED
  BY <1>1, <1>2, Zenon DEF Auctions

\* What a request does next is one of these.
LEMMA FetchStepKeeps ==
  ASSUME ViewsOK, NEW v \in Views, NEW auctions \in Auctions, auctions = data.auctions,
         NEW x \in View, x = views[v], ViewOK(x, auctions),
         NEW i \in DOMAIN x.fetches,
         ReadAuctions(v, i) \/ AnswerFetch(v, i) \/ ShowAnswer(v, i) \/ FailFetch(v, i)
  PROVE  \E y : ViewOK(y, auctions) /\ views' = [views EXCEPT ![v] = y]
<1>0. views \in [Views -> View]
  BY DEF ViewsOK
<1>1. PICK f \in Fetch : f = x.fetches[i] /\ f = views[v].fetches[i] /\ Refers(f, auctions)
  BY FetchesOf DEF ViewOK
<1>2. x = [live |-> x.live, events |-> x.events, fetches |-> x.fetches, shown |-> x.shown,
           current |-> x.current]
  BY DEF View
<1>3. ASSUME NEW new \in Fetch, Refers(new, auctions), Tells(f, auctions) => Tells(new, auctions),
             views' = [views EXCEPT ![v].fetches[i] = new]
      PROVE  \E y : ViewOK(y, auctions) /\ views' = [views EXCEPT ![v] = y]
  <2>1. PICK y : y = [x EXCEPT !.fetches = [x.fetches EXCEPT ![i] = new]]
    OBVIOUS
  <2>2. y = [live |-> x.live, events |-> x.events, fetches |-> [x.fetches EXCEPT ![i] = new],
             shown |-> x.shown, current |-> x.current]
    BY <2>1 DEF View
  <2>3. views' = [views EXCEPT ![v] = y]
    BY <1>0, <1>3, <2>1
  <2>4. ViewOK(y, auctions)
    BY <1>1, <1>3, <2>2, OneFetch
  <2> QED
    BY <2>3, <2>4
<1>4. CASE ReadAuctions(v, i)
  <2>1. PICK new : new = [answer |-> NoAuctions, refs |-> DOMAIN auctions, late |-> f.late]
    OBVIOUS
  <2>2. new \in Fetch /\ Refers(new, auctions) /\ Tells(new, auctions)
    BY <2>1, ReadIsGood, NoAuctionsYet
  <2>3. views' = [views EXCEPT ![v].fetches[i] = new]
    BY <1>1, <1>4, <2>1 DEF ReadAuctions
  <2> QED
    BY <1>3, <2>2, <2>3
<1>5. CASE AnswerFetch(v, i)
  <2>1. PICK new : new = [answer |-> WrittenOut(f, f.refs), refs |-> {}, late |-> f.late]
    OBVIOUS
  <2>2. /\ new \in Fetch /\ Refers(new, auctions)
        /\ Tells(f, auctions) => Tells(new, auctions)
    BY <1>1, <1>5, <2>1, AnswerIsGood DEF AnswerFetch
  <2>3. views' = [views EXCEPT ![v].fetches[i] = new]
    BY <1>1, <1>5, <2>1 DEF AnswerFetch
  <2> QED
    BY <1>3, <2>2, <2>3
<1>6. ASSUME NEW shown \in Auctions, NEW current \in BOOLEAN,
             current => ~f.late /\ (Tells(f, auctions) => shown = auctions),
             views' = [views EXCEPT ![v].shown = shown, ![v].current = current,
                                    ![v].fetches = Without(@, i)]
      PROVE  \E y : ViewOK(y, auctions) /\ views' = [views EXCEPT ![v] = y]
  <2>1. PICK y : y = [x EXCEPT !.shown = shown, !.current = current,
                               !.fetches = Without(x.fetches, i)]
    OBVIOUS
  <2>2. y = [live |-> x.live, events |-> x.events, fetches |-> Without(x.fetches, i),
             shown |-> shown, current |-> current]
    BY <2>1 DEF View
  <2>3. views' = [views EXCEPT ![v] = y]
    BY <1>0, <1>6, <2>1
  <2>4. ViewOK(y, auctions)
    BY <1>1, <1>6, <2>2, EndIsGood
  <2> QED
    BY <2>3, <2>4
<1>7. CASE ShowAnswer(v, i)
  <2>1. PICK shown \in Auctions, current \in BOOLEAN :
          /\ shown = f.answer /\ current = ~f.late /\ f.refs = {}
          /\ f.answer \notin {Unanswered, Failed}
    BY <1>1, <1>7 DEF ShowAnswer, Fetch
  <2>2. ASSUME current
        PROVE  ~f.late /\ (Tells(f, auctions) => shown = auctions)
    <3>1. PICK S \in SUBSET AuctionId : shown \in [S -> Auction]
      BY DEF Auctions
    <3>2. Text(f, auctions) = [id \in S |-> shown[id]]
      BY <2>1, <3>1 DEF Text
    <3>3. Text(f, auctions) = shown
      BY <3>1, <3>2
    <3> QED
      BY <2>1, <2>2, <3>3 DEF Tells
  <2>3. views' = [views EXCEPT ![v].shown = shown, ![v].current = current,
                               ![v].fetches = Without(@, i)]
    BY <1>1, <1>7, <2>1 DEF ShowAnswer
  <2>4. current => ~f.late /\ (Tells(f, auctions) => shown = auctions)
    BY <2>2
  <2> QED
    BY <1>6, <2>3, <2>4, Zenon
<1>8. CASE FailFetch(v, i)
  <2>1. views' = [views EXCEPT ![v].shown = NoAuctions, ![v].current = FALSE,
                               ![v].fetches = Without(@, i)]
    BY <1>8 DEF FailFetch
  <2>2. PICK shown \in Auctions, current \in BOOLEAN : shown = NoAuctions /\ current = FALSE
    BY NoAuctionsYet
  <2>3. current => ~f.late /\ (Tells(f, auctions) => shown = auctions)
    BY <2>2
  <2>4. views' = [views EXCEPT ![v].shown = shown, ![v].current = current,
                               ![v].fetches = Without(@, i)]
    BY <2>1, <2>2
  <2> QED
    BY <1>6, <2>3, <2>4, Zenon
<1> QED
  BY <1>4, <1>5, <1>7, <1>8

LEMMA ViewStepKeeps ==
  ASSUME StoreOK, ViewsOK, NEW v \in Views, ViewStep(v)
  PROVE  ViewsOK' /\ UNCHANGED <<databaseVars, millis, created>>
<1>0. /\ views \in [Views -> View] /\ data.auctions \in Auctions
      /\ ViewOK(views[v], data.auctions) /\ views[v] \in View
  BY DEF ViewsOK, StoreOK, Sound, IsData, DataOK
<1>1. PICK x \in View, auctions \in Auctions :
        x = views[v] /\ auctions = data.auctions /\ ViewOK(x, auctions)
  BY <1>0
<1>2. UNCHANGED <<databaseVars, millis, created>>
  BY DEF ViewStep, Reload, ReadAuctions, AnswerFetch, NoWrite, ShowAnswer, FailFetch,
         Disconnect, LoseEvent, Reconnect
<1>3. data'.auctions = data.auctions
  BY <1>2 DEF databaseVars
<1>4. \E y : ViewOK(y, auctions) /\ views' = [views EXCEPT ![v] = y]
  <2>1. CASE Reload(v)
    <3>1. PICK y : y = [x EXCEPT !.events = @ - 1, !.fetches = Append(@, Sent)]
      OBVIOUS
    <3>2. y = [live |-> x.live, events |-> x.events - 1, fetches |-> Append(x.fetches, Sent),
               shown |-> x.shown, current |-> x.current]
      BY <3>1 DEF View
    <3>3. x.events > 0 /\ views' = [views EXCEPT ![v] = y]
      BY <1>0, <1>1, <2>1, <3>1 DEF Reload
    <3> QED
      BY <1>1, <3>2, <3>3, ReloadIsGood
  <2>2. CASE \E i \in DOMAIN views[v].fetches :
               ReadAuctions(v, i) \/ AnswerFetch(v, i) \/ ShowAnswer(v, i) \/ FailFetch(v, i)
    BY <1>1, <2>2, FetchStepKeeps
  <2>3. ASSUME NEW live \in BOOLEAN, views' = [views EXCEPT ![v].live = live]
        PROVE  \E y : ViewOK(y, auctions) /\ views' = [views EXCEPT ![v] = y]
    <3>1. PICK y : y = [x EXCEPT !.live = live]
      OBVIOUS
    <3>2. y = [live |-> live, events |-> x.events, fetches |-> x.fetches,
               shown |-> x.shown, current |-> x.current]
      BY <3>1 DEF View
    <3>3. views' = [views EXCEPT ![v] = y]
      BY <1>0, <1>1, <2>3, <3>1
    <3> QED
      BY <1>1, <3>2, <3>3, ConnectIsGood
  <2>4. CASE Disconnect(v) \/ Reconnect(v)
    BY <2>3, <2>4 DEF Disconnect, Reconnect
  <2>5. CASE LoseEvent(v)
    <3>1. PICK z : z = [x EXCEPT !.events = @ - 1]
      OBVIOUS
    <3>2. z = [live |-> x.live, events |-> x.events - 1, fetches |-> x.fetches,
               shown |-> x.shown, current |-> x.current]
      BY <3>1 DEF View
    <3>3. x.events > 0 /\ views' = [views EXCEPT ![v] = Missed(z)]
      <4>1. z = [views[v] EXCEPT !.events = @ - 1]
        BY <1>1, <3>1
      <4>2. views[v].events > 0
        BY <2>5 DEF LoseEvent
      <4>3. views' = [views EXCEPT ![v] = Missed([views[v] EXCEPT !.events = @ - 1])]
        BY <2>5, Zenon DEF LoseEvent
      <4>4. views' = [views EXCEPT ![v] = Missed(z)]
        BY <4>1, <4>3, Zenon
      <4> QED
        BY <1>1, <4>2, <4>4
    <3> QED
      BY <1>1, <3>2, <3>3, LoseIsGood
  <2> QED
    BY <2>1, <2>2, <2>4, <2>5 DEF ViewStep
<1>5. PICK y : ViewOK(y, data.auctions) /\ views' = [views EXCEPT ![v] = y]
  BY <1>1, <1>4
<1>6. ViewsOK'
  BY <1>3, <1>5, OneView, Zenon
<1> QED
  BY <1>2, <1>6
-----------------------------------------------------------------------------
(* Auctions.                                                               *)

\* Every sale was made after the millisecond its auction is named for.
SoldBefore(auctions) ==
  \A id \in DOMAIN auctions : auctions[id].status = "SETTLED" => id[2] < millis

\* From the auctions a to the auctions b, every sale stands.
SalesStand(a, b) ==
  \A id \in DOMAIN a : a[id].status = "SETTLED" => id \in DOMAIN b /\ b[id] = a[id]

DeskOK ==
  /\ millis \in 0 .. MaxMillis /\ created \in 0 .. MaxAuctions
  /\ SoldBefore(data.auctions)
  /\ SalesStand(Loaded(file).auctions, data.auctions)

\* What the desk writes next to an auction: its node, an edge, an audit event.
LEMMA CreateWrites ==
  ASSUME NEW d, Sound(d), NEW id \in AuctionId, NEW auction \in Auction \cap AuctionNode, NEW loan,
         NEW listed, listed = SetNode(SetAuction(d, id, auction), <<"auction", id>>, auction),
         NEW linked, linked = IF <<"loan", loan>> \in DOMAIN d.nodes
                              THEN SetEdge(listed, <<"loan", loan>>, <<"auction", id>>)
                              ELSE listed,
         NEW e, e = RecordAuditEvent(linked, <<"AUCTION_CREATED", id>>)
  PROVE  /\ Sound(e) /\ Grows(d, e) /\ NoNewItems(d, e)
         /\ e.auctions = Put(d.auctions, id, auction)
<1>1. PICK a : a = SetAuction(d, id, auction)
  OBVIOUS
<1>2. /\ Sound(a) /\ Grows(d, a) /\ a.nodes = d.nodes
      /\ a.auctions = Put(d.auctions, id, auction)
  BY <1>1, SetAuctionSound
<1>3. PICK node : /\ node = <<"auction", id>> /\ node \in NodeId /\ node[1] \notin Kind
                  /\ node[1] = "auction" /\ auction \in NodeOf(node)
  BY Nodes
<1>4. /\ Sound(listed) /\ Grows(a, listed) /\ listed.auctions = a.auctions
      /\ DOMAIN listed.nodes = DOMAIN a.nodes \cup {node}
  BY <1>1, <1>2, <1>3, SetNodeSound
<1>5. /\ Sound(linked) /\ Grows(listed, linked) /\ linked.auctions = a.auctions
      /\ DOMAIN linked.nodes = DOMAIN d.nodes \cup {node}
  <2>1. CASE <<"loan", loan>> \in DOMAIN d.nodes
    <3>1. PICK source : source = <<"loan", loan>>
      OBVIOUS
    <3>2. linked = SetEdge(listed, source, node)
      BY <1>3, <2>1, <3>1
    <3>3. source \in DOMAIN listed.nodes /\ node \in DOMAIN listed.nodes
      BY <1>2, <1>4, <2>1, <3>1
    <3>4. /\ Sound(linked) /\ Grows(listed, linked) /\ DOMAIN linked.nodes = DOMAIN listed.nodes
          /\ linked.auctions = listed.auctions
      BY <1>4, <3>2, <3>3, SetEdgeSound
    <3> QED
      BY <1>2, <1>4, <3>4
  <2>2. CASE <<"loan", loan>> \notin DOMAIN d.nodes
    <3>1. linked = listed
      BY <2>2
    <3>2. Grows(listed, listed)
      BY DEF Grows
    <3> QED
      BY <1>2, <1>4, <3>1, <3>2
  <2> QED
    BY <2>1, <2>2
<1>6. /\ Sound(e) /\ Grows(linked, e) /\ e.nodes = linked.nodes /\ e.auctions = linked.auctions
  <2>1. PICK event \in {"AUCTION_CREATED", "AUCTION_SETTLED"} \X AuctionId :
          event = <<"AUCTION_CREATED", id>>
    OBVIOUS
  <2> QED
    BY <1>5, <2>1, AuditSound
<1>7. Grows(d, e)
  BY <1>2, <1>4, <1>5, <1>6, GrowsOn
<1>8. NoNewItems(d, e)
  BY <1>3, <1>5, <1>6 DEF NoNewItems
<1> QED
  BY <1>2, <1>5, <1>6, <1>7, <1>8

LEMMA SettleWrites ==
  ASSUME NEW d, Sound(d), NEW id \in AuctionId, NEW bidder \in Named,
         NEW auction \in Auction, auction = [status |-> "SETTLED", bidder |-> Recorded(bidder)],
         NEW e, e = Settled(d, id, bidder)
  PROVE  /\ Sound(e) /\ Grows(d, e) /\ NoNewItems(d, e)
         /\ e.auctions = Put(d.auctions, id, auction)
<1>1. PICK sold : sold = SetAuction(d, id, auction)
  OBVIOUS
<1>2. /\ Sound(sold) /\ Grows(d, sold) /\ sold.nodes = d.nodes
      /\ sold.auctions = Put(d.auctions, id, auction)
  BY <1>1, SetAuctionSound
<1>3. PICK node, drawn :
        /\ node = <<"auction", id>> /\ node \in NodeId /\ node[1] \notin Kind
        /\ node[1] = "auction" /\ drawn \in NodeOf(node)
        /\ drawn = [status |-> "SETTLED", bidder |-> bidder]
  <2>1. [status |-> "SETTLED", bidder |-> bidder] \in AuctionNode
    BY DEF AuctionNode
  <2> QED
    BY <2>1, Nodes
<1>4. PICK marked : marked = IF node \in DOMAIN d.nodes THEN SetNode(sold, node, drawn) ELSE sold
  OBVIOUS
<1>5. /\ Sound(marked) /\ Grows(sold, marked) /\ marked.auctions = sold.auctions
      /\ DOMAIN marked.nodes \subseteq DOMAIN d.nodes \cup {node}
  <2>1. CASE node \in DOMAIN d.nodes
    <3>1. marked = SetNode(sold, node, drawn)
      BY <1>4, <2>1
    <3>2. /\ Sound(marked) /\ Grows(sold, marked) /\ marked.auctions = sold.auctions
          /\ DOMAIN marked.nodes = DOMAIN sold.nodes \cup {node}
      BY <1>2, <1>3, <3>1, SetNodeSound
    <3> QED
      BY <1>2, <3>2
  <2>2. CASE node \notin DOMAIN d.nodes
    <3>1. marked = sold
      BY <1>4, <2>2
    <3>2. Grows(sold, sold)
      BY DEF Grows
    <3> QED
      BY <1>2, <3>1, <3>2
  <2> QED
    BY <2>1, <2>2
<1>6. /\ Sound(e) /\ Grows(marked, e) /\ e.nodes = marked.nodes /\ e.auctions = marked.auctions
  <2>1. PICK event \in {"AUCTION_CREATED", "AUCTION_SETTLED"} \X AuctionId :
          event = <<"AUCTION_SETTLED", id>>
    OBVIOUS
  <2>2. e = RecordAuditEvent(marked, event)
    BY <1>1, <1>3, <1>4, <2>1 DEF Settled
  <2> QED
    BY <1>5, <2>2, AuditSound
<1>7. Grows(d, e)
  BY <1>2, <1>5, <1>6, GrowsOn
<1>8. NoNewItems(d, e)
  BY <1>3, <1>5, <1>6 DEF NoNewItems
<1> QED
  BY <1>2, <1>5, <1>6, <1>7, <1>8

\* A handler of the desk: it commits e, which differs in one auction that was
\* not sold, and every view is told.
LEMMA DeskCommits ==
  ASSUME StoreOK, ChainOK, SyncsOK, ViewsOK, DeskOK,
         UNCHANGED <<chain, syncs, millis>>, created' \in 0 .. MaxAuctions,
         NEW replaced, Broadcast(replaced),
         NEW e, Commit(e), Sound(e), Grows(data, e), NoNewItems(data, e),
         NEW id \in AuctionId, NEW auction \in Auction,
         e.auctions = Put(data.auctions, id, auction),
         id \in DOMAIN data.auctions => data.auctions[id].status # "SETTLED" \/ ~(id[2] < millis),
         auction.status = "SETTLED" => id[2] < millis
  PROVE  /\ StoreOK' /\ ChainOK' /\ SyncsOK' /\ ViewsOK' /\ DeskOK'
         /\ file' = file /\ SalesStand(data.auctions, data'.auctions)
<1>1. StoreOK' /\ data' = e /\ file' = file
  BY CommitKeeps
<1>2. ChainOK'
  <2>1. Truthful(e)
    BY TruthfulStays DEF ChainOK
  <2>2. Truthful(data)'
    BY <1>1, <2>1 DEF Truthful
  <2> QED
    BY <1>1, <2>2, ChainUnchanged
<1>3. SyncsOK'
  BY <1>1, SyncsStay, SameChain DEF Grows
<1>5. PICK a, b : a = data.auctions /\ b = e.auctions
  OBVIOUS
<1>6. a \in Auctions /\ b = Put(a, id, auction)
  BY <1>5 DEF StoreOK, Sound, IsData, DataOK
<1>7. /\ DOMAIN b = DOMAIN a \cup {id} /\ b[id] = auction
      /\ \A i \in DOMAIN a : i # id => b[i] = a[i]
  BY <1>6, PutAuction
<1>4. ViewsOK'
  <2>1. DOMAIN a \subseteq DOMAIN b /\ data'.auctions = b
    BY <1>1, <1>5, <1>7
  <2>2. views' \in [Views -> View] /\ \A v \in Views : ViewOK(views'[v], b)
    BY <1>5, <1>6, <2>1, BroadcastKeeps DEF ViewsOK
  <2> QED
    BY <2>1, <2>2 DEF ViewsOK, ViewOK
<1>8. SalesStand(a, b)
  BY <1>5, <1>7 DEF SalesStand, DeskOK, SoldBefore
<1>9. SoldBefore(b)
  BY <1>5, <1>7 DEF DeskOK, SoldBefore
<1>10. SalesStand(Loaded(file).auctions, b)
  <2>1. SalesStand(Loaded(file).auctions, a)
    BY <1>5 DEF DeskOK
  <2> QED
    BY <1>8, <2>1 DEF SalesStand
<1>11. DeskOK'
  <2>1. data'.auctions = b /\ Loaded(file)' = Loaded(file)
    BY <1>1, <1>5
  <2> QED
    BY <1>9, <1>10, <2>1 DEF DeskOK, SoldBefore
<1> QED
  BY <1>1, <1>2, <1>3, <1>4, <1>5, <1>8, <1>11

LEMMA CreateKeeps ==
  ASSUME StoreOK, ChainOK, SyncsOK, ViewsOK, DeskOK, UNCHANGED <<chain, syncs>>,
         NEW loan \in AuctionLoans, created < MaxAuctions, CreateAuction(loan)
  PROVE  /\ StoreOK' /\ ChainOK' /\ SyncsOK' /\ ViewsOK' /\ DeskOK'
         /\ file' = file /\ SalesStand(data.auctions, data'.auctions)
<1>1. PICK id, auction, d : /\ id = <<loan, millis>>
                            /\ auction = [status |-> "ACTIVE", bidder |-> NoBidder]
                            /\ d = data
  OBVIOUS
<1>2. PICK listed : listed = SetNode(SetAuction(d, id, auction), <<"auction", id>>, auction)
  OBVIOUS
<1>3. PICK linked : linked = IF <<"loan", loan>> \in DOMAIN d.nodes
                             THEN SetEdge(listed, <<"loan", loan>>, <<"auction", id>>)
                             ELSE listed
  OBVIOUS
<1>4. PICK e : e = RecordAuditEvent(linked, <<"AUCTION_CREATED", id>>)
  OBVIOUS
<1>5. Commit(e) /\ Broadcast({id}) /\ created' = created + 1 /\ UNCHANGED millis
  BY <1>1, <1>2, <1>3, <1>4 DEF CreateAuction
<1>6. /\ id \in AuctionId /\ ~(id[2] < millis)
      /\ auction \in Auction \cap AuctionNode /\ auction.status = "ACTIVE"
  <2>1. millis \in 0 .. MaxMillis
    BY DEF DeskOK
  <2> QED
    BY <1>1, <2>1, DeskInputs DEF AuctionId, Auction, AuctionNode, Named
<1>7. Sound(d)
  BY <1>1 DEF StoreOK
<1>8. /\ Sound(e) /\ Grows(d, e) /\ NoNewItems(d, e) /\ e.auctions = Put(d.auctions, id, auction)
  BY <1>2, <1>3, <1>4, <1>6, <1>7, CreateWrites
<1>9. created' \in 0 .. MaxAuctions
  BY <1>5, DeskInputs DEF DeskOK
<1> QED
  BY <1>1, <1>5, <1>6, <1>8, <1>9, DeskCommits

LEMMA BidKeeps ==
  ASSUME StoreOK, ChainOK, SyncsOK, ViewsOK, DeskOK, UNCHANGED <<chain, syncs>>,
         NEW id, NEW bidder \in Named, Bid(id, bidder)
  PROVE  /\ StoreOK' /\ ChainOK' /\ SyncsOK' /\ ViewsOK' /\ DeskOK'
         /\ file' = file /\ SalesStand(data.auctions, data'.auctions)
<1>1. PICK auction, d :
        auction = [status |-> "SETTLED", bidder |-> Recorded(bidder)] /\ d = data
  OBVIOUS
<1>2. PICK e : e = Settled(d, id, bidder)
  OBVIOUS
<1>3. /\ Commit(e) /\ Broadcast({}) /\ UNCHANGED <<millis, created>> /\ id[2] < millis
      /\ id \in DOMAIN data.auctions /\ data.auctions[id].status = "ACTIVE"
  BY <1>1, <1>2 DEF Bid, Open
<1>4. Sound(d) /\ created' \in 0 .. MaxAuctions
  BY <1>1, <1>3 DEF StoreOK, DeskOK
<1>5. id \in AuctionId
  <2>1. PICK a \in Auctions : a = data.auctions
    BY <1>1, <1>4 DEF Sound, IsData, DataOK
  <2>2. PICK S \in SUBSET AuctionId : a \in [S -> Auction]
    BY DEF Auctions
  <2> QED
    BY <1>3, <2>1, <2>2
<1>6. auction \in Auction /\ auction.status = "SETTLED"
  BY <1>1 DEF Auction, Buyers
<1>7. /\ Sound(e) /\ Grows(d, e) /\ NoNewItems(d, e) /\ e.auctions = Put(d.auctions, id, auction)
  BY <1>1, <1>2, <1>4, <1>5, <1>6, SettleWrites
<1> QED
  BY <1>1, <1>3, <1>4, <1>5, <1>6, <1>7, DeskCommits
-----------------------------------------------------------------------------
(* Every step.                                                             *)

IInv == StoreOK /\ ChainOK /\ SyncsOK /\ ViewsOK /\ DeskOK

\* A step keeps the invariant, undoes no sale except by going back to the
\* file's contents, and leaves the file as it was or with all of memory's data.
Keeps ==
  /\ IInv'
  /\ SalesStand(data.auctions, data'.auctions) \/ data' = Loaded(file)
  /\ Loaded(file') = Loaded(file) \/ Loaded(file') = data

LEMMA DeskUnchanged ==
  ASSUME DeskOK, UNCHANGED <<millis, created>>, data'.auctions = data.auctions,
         Loaded(file') = Loaded(file) \/ Loaded(file') = data
  PROVE  DeskOK' /\ SalesStand(data.auctions, data'.auctions)
<1>1. SalesStand(data.auctions, data.auctions)
  BY DEF SalesStand
<1>2. SoldBefore(data.auctions)'
  BY DEF DeskOK, SoldBefore
<1>3. SalesStand(Loaded(file').auctions, data'.auctions)
  <2>1. CASE Loaded(file') = Loaded(file)
    BY <2>1 DEF DeskOK
  <2>2. CASE Loaded(file') = data
    BY <1>1, <2>2
  <2> QED
    BY <2>1, <2>2
<1> QED
  BY <1>1, <1>2, <1>3 DEF DeskOK

LEMMA GraphKeeps ==
  ASSUME IInv, Graph, UNCHANGED deskVars
  PROVE  Keeps
<1>0. /\ StoreOK /\ ChainOK /\ SyncsOK /\ ViewsOK /\ DeskOK
      /\ UNCHANGED <<millis, created, views>>
  BY DEF IInv, deskVars
<1>1. CASE ChainStep
  <2>1. UNCHANGED <<databaseVars, syncs>> /\ ChainOK' /\ ChainLonger
    BY <1>0, <1>1, ChainStepKeeps DEF ChainStep, ChainLonger
  <2>2. StoreOK' /\ data' = data /\ file' = file
    BY <1>0, <2>1, StoreUnchanged
  <2>3. SyncsOK' /\ ViewsOK' /\ DeskOK' /\ SalesStand(data.auctions, data'.auctions)
    BY <1>0, <2>1, <2>2, SyncsStay, ViewsStay, DeskUnchanged
  <2> QED
    BY <2>1, <2>2, <2>3 DEF Keeps, IInv
<1>2. CASE ~ChainStep
  <2>1. Written /\ SyncsOK'
    <3>1. CASE \E w \in Claimants : MintEvidence(w) \/ NormalizeAndStore(w)
      <4>1. Written /\ UNCHANGED graphVars
        BY <1>0, <3>1, GraphInputs, MintWritten, NormalizeWritten
      <4>2. UNCHANGED <<chain, syncs>> /\ DOMAIN data.nodes \subseteq DOMAIN data'.nodes
        BY <4>1 DEF graphVars, Written, Grows
      <4> QED
        BY <1>0, <4>1, <4>2, SyncsStay, SameChain
    <3> QED
      BY <1>0, <1>2, <3>1, StartSyncKeeps, SyncStepKeeps DEF Graph
  <2>2. /\ StoreOK' /\ ChainOK' /\ file' = file /\ data'.auctions = data.auctions
    BY <2>1 DEF Written
  <2>3. ViewsOK' /\ DeskOK' /\ SalesStand(data.auctions, data'.auctions)
    BY <1>0, <2>2, ViewsStay, DeskUnchanged
  <2> QED
    BY <2>1, <2>2, <2>3 DEF Keeps, IInv
<1> QED
  BY <1>1, <1>2

LEMMA DeskKeeps ==
  ASSUME IInv, Desk, UNCHANGED graphVars
  PROVE  Keeps
<1>0. /\ StoreOK /\ ChainOK /\ SyncsOK /\ ViewsOK /\ DeskOK
      /\ UNCHANGED <<chain, syncs>>
  BY DEF IInv, graphVars
<1>1. CASE \E loan \in AuctionLoans : created < MaxAuctions /\ CreateAuction(loan)
  BY <1>0, <1>1, CreateKeeps DEF Keeps, IInv
<1>2. CASE \E id \in DOMAIN data.auctions, b \in Named : Bid(id, b)
  BY <1>0, <1>2, BidKeeps DEF Keeps, IInv
<1>3. CASE UNCHANGED databaseVars /\ PassMillis
  <2>1. StoreOK' /\ data' = data /\ file' = file
    BY <1>0, <1>3, StoreUnchanged
  <2>2. Truthful(data)'
    BY <1>0, <2>1 DEF ChainOK, Truthful
  <2>3. ChainOK' /\ SyncsOK' /\ ViewsOK'
    BY <1>0, <1>3, <2>1, <2>2, ChainUnchanged, SyncsStay, SameChain, ViewsStay DEF PassMillis
  <2>4. millis' = millis + 1 /\ millis' \in 0 .. MaxMillis /\ created' = created
    BY <1>0, <1>3, DeskInputs DEF PassMillis, DeskOK
  <2>5. SoldBefore(data.auctions)'
    <3> SUFFICES ASSUME NEW id \in DOMAIN data.auctions, data.auctions[id].status = "SETTLED"
                 PROVE  id[2] < millis + 1
      BY <2>1, <2>4 DEF SoldBefore
    <3>1. id[2] < millis /\ id \in AuctionId
      <4>1. PICK a \in Auctions : a = data.auctions
        BY <1>0 DEF StoreOK, Sound, IsData, DataOK
      <4>2. PICK S \in SUBSET AuctionId : a \in [S -> Auction]
        BY DEF Auctions
      <4> QED
        BY <1>0, <4>1, <4>2 DEF DeskOK, SoldBefore
    <3>2. id[2] \in Int /\ millis \in Int
      BY <1>0, <3>1 DEF AuctionId, DeskOK
    <3> QED
      BY <3>1, <3>2
  <2>6. DeskOK' /\ SalesStand(data.auctions, data'.auctions)
    BY <1>0, <2>1, <2>4, <2>5 DEF DeskOK, SalesStand
  <2> QED
    BY <2>1, <2>3, <2>6 DEF Keeps, IInv
<1>4. CASE \E v \in Views : ViewStep(v)
  <2>1. ViewsOK' /\ UNCHANGED <<databaseVars, millis, created>>
    BY <1>0, <1>4, ViewStepKeeps
  <2>2. StoreOK' /\ data' = data /\ file' = file
    BY <1>0, <2>1, StoreUnchanged
  <2>3. Truthful(data)'
    BY <1>0, <2>2 DEF ChainOK, Truthful
  <2>4. ChainOK' /\ SyncsOK'
    BY <1>0, <2>2, <2>3, ChainUnchanged, SyncsStay, SameChain
  <2>5. DeskOK' /\ SalesStand(data.auctions, data'.auctions)
    BY <1>0, <2>1, <2>2, DeskUnchanged
  <2> QED
    BY <2>1, <2>2, <2>4, <2>5 DEF Keeps, IInv
<1> QED
  BY <1>1, <1>2, <1>3, <1>4 DEF Desk

LEMMA FlushStepKeeps ==
  ASSUME NoFileIsNoData, IInv, Flush
  PROVE  Keeps
<1>0. /\ StoreOK /\ ChainOK /\ SyncsOK /\ ViewsOK /\ DeskOK
      /\ UNCHANGED <<chain, syncs, millis, created, views>>
  BY DEF IInv, Flush, graphVars, deskVars
<1>1. /\ StoreOK' /\ data' = data
      /\ Loaded(file') = Loaded(file) \/ Loaded(file') = data
  BY <1>0, FlushKeeps DEF Flush
<1>2. Truthful(data)'
  BY <1>0, <1>1 DEF ChainOK, Truthful
<1>3. ChainOK' /\ SyncsOK' /\ ViewsOK' /\ DeskOK' /\ SalesStand(data.auctions, data'.auctions)
  BY <1>0, <1>1, <1>2, ChainUnchanged, SyncsStay, SameChain, ViewsStay, DeskUnchanged
<1> QED
  BY <1>1, <1>3 DEF Keeps, IInv

LEMMA RestartStepKeeps ==
  ASSUME IInv, Restart
  PROVE  Keeps
<1>0. /\ StoreOK /\ ChainOK /\ SyncsOK /\ ViewsOK /\ DeskOK
      /\ UNCHANGED <<chain, millis, created>> /\ LoseBackend
      /\ syncs' = [s \in Syncs |-> Idle]
  BY DEF IInv, Restart
<1>1. StoreOK' /\ data' = Loaded(file) /\ file' = file
  BY <1>0, RestartKeeps DEF Restart
<1>2. Truthful(data)'
  BY <1>0, <1>1 DEF ChainOK, Truthful
<1>3. ChainOK'
  BY <1>0, <1>1, <1>2, ChainUnchanged
<1>4. SyncsOK'
  BY <1>0, IdleIsGood DEF SyncsOK, SyncGood
<1>5. ViewsOK'
  BY <1>0, LoseBackendKeeps
<1>6. DeskOK'
  <2>1. PICK a : a = Loaded(file).auctions
    OBVIOUS
  <2>2. SoldBefore(a) /\ SalesStand(a, a)
    BY <1>0, <2>1 DEF DeskOK, SoldBefore, SalesStand
  <2>3. data'.auctions = a /\ Loaded(file').auctions = a
    BY <1>1, <2>1
  <2> QED
    BY <1>0, <2>2, <2>3 DEF DeskOK, SoldBefore
<1> QED
  BY <1>1, <1>3, <1>4, <1>5, <1>6 DEF Keeps, IInv

LEMMA StutterKeeps ==
  ASSUME IInv, UNCHANGED vars
  PROVE  Keeps
<1>1. UNCHANGED <<data, file, timer, flushFailed, faults, chain, syncs, millis, created, views>>
  BY DEF vars, databaseVars, graphVars, deskVars
<1>2. IInv'
  BY <1>1 DEF IInv, StoreOK, NothingUnsaved, ChainOK, Truthful, SyncsOK, SyncGood, ViewsOK,
              ViewOK, DeskOK, SoldBefore
<1> QED
  BY <1>1, <1>2 DEF Keeps, SalesStand

LEMMA NextKeeps ==
  ASSUME NoFileIsNoData, IInv, [Next]_vars
  PROVE  Keeps
BY GraphKeeps, DeskKeeps, FlushStepKeeps, RestartStepKeeps, StutterKeeps DEF Next

LEMMA InitOK == Init => IInv
<1> SUFFICES ASSUME Init
             PROVE  IInv
  OBVIOUS
<1>1. /\ file = NoFile /\ data = Seed /\ Loaded(file) = Seed
      /\ timer = "off" /\ flushFailed = FALSE /\ faults = 0
      /\ chain = ChainStart /\ syncs = [s \in Syncs |-> Idle]
      /\ millis = 0 /\ created = 0
      /\ views = [v \in Views |-> [live |-> TRUE, events |-> 0, fetches |-> <<Sent>>,
                                   shown |-> NoAuctions, current |-> TRUE]]
  BY DEF Init, DatabaseInit, GraphInit, DeskInit, Loaded
<1>2. Sound(Seed) /\ DOMAIN Seed.auctions = {}
  <2>1. /\ Seed.auctions = NoAuctions /\ Seed.audit = <<>>
        /\ Seed = [nodes |-> Seed.nodes, edges |-> Seed.edges, auctions |-> NoAuctions,
                   audit |-> <<>>]
    BY Seeded
  <2>2. DOMAIN NoAuctions = {}
    BY DEF NoAuctions
  <2>3. IsData(Seed)
    BY <2>1, Seeded DEF IsData
  <2>4. Sound(Seed)
    BY <2>3, Seeded DEF Sound
  <2>5. ASSUME NEW a, a = NoAuctions
        PROVE  DOMAIN a = {}
    BY <2>2, <2>5
  <2>6. DOMAIN Seed.auctions = {}
    <3>1. Seed.auctions = NoAuctions
      BY <2>1
    <3> HIDE DEF NoAuctions
    <3> QED
      BY <3>1, <2>5, Zenon
  <2> QED
    BY <2>4, <2>6
<1>3. StoreOK
  <2>1. Sound(data) /\ Sound(Loaded(file)) /\ data = Loaded(file)
    BY <1>1, <1>2, Zenon
  <2>2. /\ file = NoFile /\ timer = "off" /\ flushFailed = FALSE /\ faults = 0
    BY <1>1
  <2>3. faults \in 0 .. MaxFaults
    BY <2>2, DatabaseInputs
  <2> QED
    BY <2>1, <2>2, <2>3 DEF StoreOK, NothingUnsaved
<1>4. ChainOK
  BY <1>1, Seeded, GraphInputs DEF ChainOK, Truthful
<1>5. SyncsOK
  BY <1>1 DEF SyncsOK, SyncGood, Idle
<1>6. ViewsOK
  <2>1. PICK x : x = [live |-> TRUE, events |-> 0, fetches |-> <<Sent>>, shown |-> NoAuctions,
                      current |-> TRUE]
    OBVIOUS
  <2>2. PICK f : f = <<Sent>>
    OBVIOUS
  <2>3. f \in Seq(Fetch) /\ Len(f) = 1 /\ f[1] = Sent /\ f # <<>>
    BY <2>2 DEF Sent, Fetch
  <2>4. x \in View /\ x.events = 0 /\ x.fetches = f
    BY <2>1, <2>2, <2>3, NoAuctionsYet DEF View
  <2>5. Refers(Sent, data.auctions) /\ Tells(Sent, data.auctions)
    BY DEF Refers, Tells, Sent
  <2>6. GoodView(x, data.auctions)
    BY <2>3, <2>4, <2>5 DEF GoodView
  <2>7. ASSUME NEW i \in 1 .. Len(x.fetches)
        PROVE  Refers(x.fetches[i], data.auctions)
    <3>1. x.fetches[i] = Sent
      <4>1. x.fetches = f
        BY <2>4
      <4>2. i = 1
        <5>1. i \in 1 .. Len(f)
          BY <2>7, <4>1
        <5> QED
          BY <2>3, <5>1
      <4> QED
        BY <2>3, <4>1, <4>2
    <3> QED
      BY <2>5, <3>1
  <2>8. ViewOK(x, data.auctions)
    BY <2>4, <2>6, <2>7 DEF ViewOK
  <2>9. views = [v \in Views |-> x]
    BY <1>1, <2>1
  <2> QED
    BY <2>4, <2>8, <2>9 DEF ViewsOK
<1>7. DeskOK
  BY <1>1, <1>2, DeskInputs DEF DeskOK, SoldBefore, SalesStand
<1> QED
  BY <1>3, <1>4, <1>5, <1>6, <1>7 DEF IInv

LEMMA AlwaysIInv ==
  ASSUME NoFileIsNoData
  PROVE  Spec => []IInv
<1>1. IInv /\ [Next]_vars => IInv'
  BY NextKeeps DEF Keeps
<1> QED
  BY <1>1, InitOK, PTL DEF Spec
-----------------------------------------------------------------------------
\* The state keeps its types: every database in memory or in the file is one,
\* its audit log within its bound.
THEOREM TypeCorrect ==
  ASSUME NoFileIsNoData
  PROVE  Spec => []TypeOK
<1>1. IInv => TypeOK
  <2> SUFFICES ASSUME IInv
               PROVE  TypeOK
    OBVIOUS
  <2>1. DataOK(data) /\ (file # NoFile => DataOK(file))
    BY DEF IInv, StoreOK, Sound, IsData
  <2> QED
    BY <2>1 DEF IInv, StoreOK, ChainOK, SyncsOK, ViewsOK, DeskOK, TypeOK
<1> QED
  BY <1>1, AlwaysIInv, PTL

\* However requests overlap, fail half way or die with the process, in memory
\* and in what a restart brings back, every badge, evidence, loan and request
\* hangs on its wallet; no edge lacks an end but one of evidence claimed for a
\* wallet not drawn yet, and none does in the graph a request is answered with.
THEOREM NothingEverDangles ==
  ASSUME NoFileIsNoData
  PROVE  Spec => []NothingDangling
<1>1. IInv => NothingDangling
  <2> SUFFICES ASSUME IInv
               PROVE  NothingDangling
    OBVIOUS
  <2>1. \A d \in Stored : Linked(d)
    BY DEF IInv, StoreOK, Sound, Stored
  <2>2. ASSUME NEW s \in Syncs, syncs[s] # Idle, syncs[s].stage # "balance"
        PROVE  <<"wallet", syncs[s].wallet>> \in DOMAIN data.nodes
    <3>1. syncs[s] \in Sync /\ SyncGood(syncs[s])
      BY <2>2 DEF IInv, SyncsOK
    <3>2. syncs[s].stage \in {"eligible", "terms", "count", "item"}
      BY <2>2, <3>1 DEF Sync, Stage
    <3> QED
      BY <3>1, <3>2 DEF SyncGood
  <2> QED
    BY <2>1, <2>2 DEF NothingDangling
<1> QED
  BY <1>1, AlwaysIInv, PTL

\* Whatever is drawn of a loan or request is or was so on the chain.
THEOREM NodesAreTruthful ==
  ASSUME NoFileIsNoData
  PROVE  Spec => []NodesTruthful
<1>1. IInv => NodesTruthful
  BY DEF IInv, ChainOK, Truthful, NodesTruthful, Stored
<1> QED
  BY <1>1, AlwaysIInv, PTL

\* A request that comes to its last loan or borrow request has drawn all of its
\* wallet's, for any number of loans and of requests under way.
THEOREM SyncCollectsAll ==
  ASSUME NoFileIsNoData
  PROVE  Spec => SyncCollects
<1> DEFINE Collects ==
      \A s \in Syncs :
        syncs[s].stage = "item" /\ syncs[s].next = syncs[s].count /\ GotItem(s) =>
          \A i \in 1 .. syncs[s].count :
            syncs[s].wallet \in Parties[syncs[s].kind][i] =>
              <<syncs[s].kind, i>> \in DOMAIN data'.nodes
<1>1. IInv => Collects
  BY GotItemDraws DEF IInv
<1>2. IInv /\ [Next]_vars => [Collects]_vars
  BY <1>1
<1> QED
  BY <1>2, AlwaysIInv, PTL DEF Spec, SyncCollects

\* While no flush is pending and the last did not fail, a restart loses nothing.
THEOREM NothingIsUnsaved ==
  ASSUME NoFileIsNoData
  PROVE  Spec => []NothingUnsaved
<1>1. IInv => NothingUnsaved
  BY DEF IInv, StoreOK
<1> QED
  BY <1>1, AlwaysIInv, PTL

\* An auction is sold once: the first bid stands, whatever bids race it, and
\* once the file knows of it no restart or failing flush undoes it.
SaleIsFinal ==
  [][/\ \A id \in DOMAIN data.auctions :
          data.auctions[id].status = "SETTLED" =>
            \/ id \in DOMAIN data'.auctions /\ data'.auctions[id] = data.auctions[id]
            \/ data' = Loaded(file)
     /\ \A id \in DOMAIN Loaded(file).auctions :
          Loaded(file).auctions[id].status = "SETTLED" =>
            /\ id \in DOMAIN Loaded(file').auctions
            /\ Loaded(file').auctions[id] = Loaded(file).auctions[id]]_vars

\* However many auctions, bids, flushes and restarts, a sale stands, except that
\* a restart forgets those the file does not know of.
THEOREM SalesAreFinal ==
  ASSUME NoFileIsNoData
  PROVE  Spec => SaleIsFinal
<1> DEFINE Final ==
      /\ \A id \in DOMAIN data.auctions :
           data.auctions[id].status = "SETTLED" =>
             \/ id \in DOMAIN data'.auctions /\ data'.auctions[id] = data.auctions[id]
             \/ data' = Loaded(file)
      /\ \A id \in DOMAIN Loaded(file).auctions :
           Loaded(file).auctions[id].status = "SETTLED" =>
             /\ id \in DOMAIN Loaded(file').auctions
             /\ Loaded(file').auctions[id] = Loaded(file).auctions[id]
<1>1. IInv /\ Keeps => Final
  <2> SUFFICES ASSUME IInv, Keeps
               PROVE  Final
    OBVIOUS
  <2>1. SalesStand(Loaded(file).auctions, data.auctions)
    BY DEF IInv, DeskOK
  <2>2. SalesStand(Loaded(file).auctions, Loaded(file').auctions)
    BY <2>1 DEF Keeps, SalesStand
  <2> QED
    BY <2>2 DEF Keeps, SalesStand
<1>2. IInv /\ [Next]_vars => [Final]_vars
  BY <1>1, NextKeeps
<1> QED
  BY <1>2, AlwaysIInv, PTL DEF Spec, SaleIsFinal

\* A view that waits for nothing shows the auctions as they are, unless it was
\* not told of an update, a restart took some back unsaved, a late answer
\* overtook its last one or its last request failed.
THEOREM QuietViewsAreCurrent ==
  ASSUME NoFileIsNoData
  PROVE  Spec => []QuietViewsCurrent
<1>1. IInv => QuietViewsCurrent
  BY DEF IInv, ViewsOK, ViewOK, GoodView, QuietViewsCurrent, Quiet
<1> QED
  BY <1>1, AlwaysIInv, PTL
-----------------------------------------------------------------------------
(* The auctions, their nodes and the audit log.                            *)

\* d has all of a database's fields.
Shaped(d) ==
  d = [nodes |-> d.nodes, edges |-> d.edges, auctions |-> d.auctions, audit |-> d.audit]

\* The node tells the same of an auction as the list.
Same(auction, node) ==
  /\ node.status = auction.status
  /\ auction.status = "ACTIVE" => auction.bidder = NoBidder /\ node.bidder = NoBidder
  /\ auction.status = "SETTLED" => auction.bidder = Recorded(node.bidder)

\* The nodes of auctions are those of the list, and tell the same.
AuctionsDrawn(d) ==
  /\ \A id \in DOMAIN d.nodes : id[1] = "auction" => id \in {"auction"} \X DOMAIN d.auctions
  /\ \A a \in DOMAIN d.auctions :
       /\ <<"auction", a>> \in DOMAIN d.nodes
       /\ Same(d.auctions[a], d.nodes[<<"auction", a>>])

SoldIn(d) == {a \in DOMAIN d.auctions : d.auctions[a].status = "SETTLED"}

\* The log tells of no sale but those of the list, of none twice and, until it
\* is full, of all of them.
SalesLogged(d) ==
  /\ \A i \in DOMAIN d.audit : d.audit[i][1] = "AUCTION_SETTLED" => d.audit[i][2] \in SoldIn(d)
  /\ \A i, j \in DOMAIN d.audit :
       d.audit[i][1] = "AUCTION_SETTLED" /\ d.audit[i] = d.audit[j] => i = j
  /\ \A a \in SoldIn(d) :
       Len(d.audit) # MaxAudit => \E i \in DOMAIN d.audit : d.audit[i] = <<"AUCTION_SETTLED", a>>

Agrees(d) == AuctionsDrawn(d) /\ SalesLogged(d)

\* A write to another node, or of an edge, concerns no auction.
LEMMA OtherNodeAgrees ==
  ASSUME NEW d, Shaped(d), Agrees(d), NEW id, id[1] # "auction", NEW node,
         NEW e, e = SetNode(d, id, node)
  PROVE  Shaped(e) /\ Agrees(e)
<1>1. e = [nodes |-> Put(d.nodes, id, node), edges |-> d.edges,
           auctions |-> d.auctions, audit |-> d.audit]
  BY DEF SetNode, Shaped
<1>2. /\ Shaped(e) /\ e.nodes = Put(d.nodes, id, node)
      /\ e.auctions = d.auctions /\ e.audit = d.audit
  BY <1>1 DEF Shaped
<1>3. /\ DOMAIN e.nodes = DOMAIN d.nodes \cup {id}
      /\ \A i \in DOMAIN d.nodes : i # id => e.nodes[i] = d.nodes[i]
  BY <1>2 DEF Put
<1>4. AuctionsDrawn(e)
  <2>1. \A i \in DOMAIN e.nodes : i[1] = "auction" => i \in {"auction"} \X DOMAIN e.auctions
    BY <1>2, <1>3 DEF Agrees, AuctionsDrawn
  <2>2. ASSUME NEW a \in DOMAIN e.auctions
        PROVE  /\ <<"auction", a>> \in DOMAIN e.nodes
               /\ Same(e.auctions[a], e.nodes[<<"auction", a>>])
    <3>1. <<"auction", a>> # id
      OBVIOUS
    <3> QED
      BY <1>2, <1>3, <3>1 DEF Agrees, AuctionsDrawn
  <2> QED
    BY <2>1, <2>2 DEF AuctionsDrawn
<1>5. SalesLogged(e)
  <2>1. SoldIn(e) = SoldIn(d)
    BY <1>2 DEF SoldIn
  <2> QED
    BY <1>2, <2>1 DEF Agrees, SalesLogged
<1> QED
  BY <1>2, <1>4, <1>5 DEF Agrees

LEMMA EdgeAgrees ==
  ASSUME NEW d, Shaped(d), Agrees(d), NEW source, NEW target,
         NEW e, e = SetEdge(d, source, target)
  PROVE  Shaped(e) /\ Agrees(e)
<1>1. e = [nodes |-> d.nodes, edges |-> d.edges \cup {<<source, target>>},
           auctions |-> d.auctions, audit |-> d.audit]
  BY DEF SetEdge, Shaped
<1>2. Shaped(e) /\ e.nodes = d.nodes /\ e.auctions = d.auctions /\ e.audit = d.audit
  BY <1>1 DEF Shaped
<1> QED
  BY <1>2 DEF Agrees, AuctionsDrawn, SalesLogged, SoldIn

\* What the log becomes: its events move up by k, and only when it was full.
MovedUp(log, event, kept, k) ==
  /\ Len(kept) + k = Len(log) + 1
  /\ k = 1 => Len(kept) = MaxAudit
  /\ k = 0 => Len(log) # MaxAudit
  /\ \A i \in 1 .. Len(kept) :
       IF i + k = Len(log) + 1 THEN kept[i] = event
       ELSE i + k \in 1 .. Len(log) /\ kept[i] = log[i + k]

\* The log after another event.
Kept(log, event) ==
  LET longer == Append(log, event)
  IN  IF Len(longer) > MaxAudit
      THEN SubSeq(longer, Len(longer) - MaxAudit + 1, Len(longer)) ELSE longer

LEMMA LogMovesUp ==
  ASSUME NEW Event, NEW log \in Seq(Event), Len(log) <= MaxAudit, NEW event \in Event
  PROVE  /\ Kept(log, event) \in Seq(Event)
         /\ \E k \in {0, 1} : MovedUp(log, event, Kept(log, event), k)
<1>longer. PICK longer : longer = Append(log, event)
  OBVIOUS
<1>kept. PICK kept : kept = Kept(log, event)
  OBVIOUS
<1>0. kept = IF Len(longer) > MaxAudit
             THEN SubSeq(longer, Len(longer) - MaxAudit + 1, Len(longer)) ELSE longer
  BY <1>longer, <1>kept DEF Kept
<1>1. MaxAudit \in Nat \ {0} /\ Len(log) \in Nat
  BY DatabaseInputs, LenProperties
<1>2. /\ longer \in Seq(Event) /\ Len(longer) = Len(log) + 1
      /\ longer[Len(log) + 1] = event
      /\ \A i \in 1 .. Len(log) : longer[i] = log[i]
  BY <1>1, <1>longer, AppendProperties
<1>3. CASE Len(log) # MaxAudit
  <2>1. kept = longer
    BY <1>0, <1>1, <1>2, <1>3
  <2>2. MovedUp(log, event, kept, 0)
    BY <1>1, <1>2, <1>3, <2>1 DEF MovedUp
  <2> QED
    BY <1>2, <1>kept, <2>1, <2>2
<1>4. CASE Len(log) = MaxAudit
  <2>1. kept = SubSeq(longer, 2, MaxAudit + 1)
    BY <1>0, <1>1, <1>2, <1>4
  <2>2. \A i \in 2 .. MaxAudit + 1 : longer[i] \in Event
    BY <1>1, <1>2, <1>4, ElementOfSeq
  <2>3. /\ kept \in Seq(Event) /\ Len(kept) = MaxAudit
        /\ \A i \in 1 .. MaxAudit : kept[i] = longer[i + 1]
    <3>1. kept \in Seq(Event)
      BY <1>1, <2>1, <2>2, SubSeqProperties
    <3>2. Len(kept) = MaxAudit
      BY <1>1, <1>2, <1>4, <2>1
    <3>3. \A i \in 1 .. MaxAudit : kept[i] = longer[i + 1]
      BY <1>1, <1>2, <1>4, <2>1
    <3> QED
      BY <3>1, <3>2, <3>3
  <2>4. MovedUp(log, event, kept, 1)
    BY <1>1, <1>2, <1>4, <2>3 DEF MovedUp
  <2> QED
    BY <1>kept, <2>3, <2>4
<1> QED
  BY <1>3, <1>4

\* An auction that was not sold is written in its three places: created, or
\* sold by this very write.
LEMMA WriteAgrees ==
  ASSUME NEW d, Sound(d), Agrees(d), NEW id \in AuctionId, id \notin SoldIn(d),
         NEW auction, NEW drawn, Same(auction, drawn), NEW what,
         \/ what = "AUCTION_CREATED" /\ auction.status # "SETTLED"
         \/ what = "AUCTION_SETTLED" /\ auction.status = "SETTLED",
         NEW c, Shaped(c), c.nodes = Put(d.nodes, <<"auction", id>>, drawn),
         c.auctions = Put(d.auctions, id, auction), c.audit = d.audit,
         NEW e, e = RecordAuditEvent(c, <<what, id>>)
  PROVE  Shaped(e) /\ Agrees(e)
<1>1. PICK log, event : log = d.audit /\ event = <<what, id>>
  OBVIOUS
<1>2. PICK kept : kept = Kept(log, event)
  OBVIOUS
<1>3. /\ Shaped(e) /\ e.nodes = c.nodes /\ e.auctions = c.auctions /\ e.audit = kept
  <2>1. e = [nodes |-> c.nodes, edges |-> c.edges, auctions |-> c.auctions, audit |-> kept]
    BY <1>1, <1>2 DEF RecordAuditEvent, Shaped, Kept
  <2> QED
    BY <2>1 DEF Shaped
<1>4. /\ DOMAIN e.auctions = DOMAIN d.auctions \cup {id} /\ e.auctions[id] = auction
      /\ \A a \in DOMAIN d.auctions : a # id => e.auctions[a] = d.auctions[a]
  BY <1>3 DEF Put
<1>5. PICK node : node = <<"auction", id>>
  OBVIOUS
<1>6. /\ DOMAIN e.nodes = DOMAIN d.nodes \cup {node} /\ e.nodes[node] = drawn
      /\ \A i \in DOMAIN d.nodes : i # node => e.nodes[i] = d.nodes[i]
  BY <1>3, <1>5 DEF Put
<1>7. AuctionsDrawn(e)
  <2>1. ASSUME NEW i \in DOMAIN e.nodes, i[1] = "auction"
        PROVE  i \in {"auction"} \X DOMAIN e.auctions
    BY <1>4, <1>5, <1>6, <2>1 DEF Agrees, AuctionsDrawn
  <2>2. ASSUME NEW a \in DOMAIN e.auctions
        PROVE  /\ <<"auction", a>> \in DOMAIN e.nodes
               /\ Same(e.auctions[a], e.nodes[<<"auction", a>>])
    <3>1. CASE a = id
      BY <1>4, <1>5, <1>6, <3>1
    <3>2. CASE a # id
      <4>1. <<"auction", a>> # node /\ a \in DOMAIN d.auctions
        BY <1>4, <1>5, <3>2
      <4> QED
        BY <1>4, <1>6, <3>2, <4>1 DEF Agrees, AuctionsDrawn
    <3> QED
      BY <3>1, <3>2
  <2> QED
    BY <2>1, <2>2 DEF AuctionsDrawn
<1>8. SoldIn(d) \subseteq SoldIn(e)
      /\ (\A a \in SoldIn(e) : a = id \/ a \in SoldIn(d))
      /\ (id \in SoldIn(e) <=> auction.status = "SETTLED")
  BY <1>4 DEF SoldIn
<1> DEFINE Event == {"AUCTION_CREATED", "AUCTION_SETTLED"} \X AuctionId
<1>10. log \in Seq(Event) /\ Len(log) <= MaxAudit /\ event \in Event
  BY <1>1 DEF Sound, IsData, DataOK
<1> HIDE DEF Event
<1>moves. kept \in Seq(Event) /\ \E k \in {0, 1} : MovedUp(log, event, kept, k)
  BY <1>2, <1>10, LogMovesUp
<1>moved. PICK k \in {0, 1} : kept \in Seq(Event) /\ MovedUp(log, event, kept, k)
  BY <1>moves
<1>11. /\ Len(kept) + k = Len(log) + 1
       /\ k = 1 => Len(kept) = MaxAudit
       /\ k = 0 => Len(log) # MaxAudit
       /\ \A i \in 1 .. Len(kept) :
            IF i + k = Len(log) + 1 THEN kept[i] = event
            ELSE i + k \in 1 .. Len(log) /\ kept[i] = log[i + k]
  BY <1>moved DEF MovedUp
<1>12. /\ DOMAIN kept = 1 .. Len(kept) /\ Len(kept) \in Nat
       /\ DOMAIN log = 1 .. Len(log) /\ Len(log) \in Nat
  BY <1>10, <1>moved, LenProperties
<1>13. /\ \A i \in DOMAIN log : log[i][1] = "AUCTION_SETTLED" => log[i][2] \in SoldIn(d)
       /\ \A i, j \in DOMAIN log : log[i][1] = "AUCTION_SETTLED" /\ log[i] = log[j] => i = j
       /\ \A a \in SoldIn(d) :
            Len(log) # MaxAudit => \E i \in DOMAIN log : log[i] = <<"AUCTION_SETTLED", a>>
  BY <1>1 DEF Agrees, SalesLogged
<1>14. ASSUME NEW i \in DOMAIN kept, kept[i][1] = "AUCTION_SETTLED"
       PROVE  kept[i][2] \in SoldIn(e)
  <2>1. CASE i + k = Len(log) + 1
    <3>1. kept[i] = event
      BY <1>11, <1>12, <2>1
    <3>2. event[1] = what /\ event[2] = id
      BY <1>1
    <3> QED
      BY <1>8, <1>14, <3>1, <3>2
  <2>2. CASE i + k # Len(log) + 1
    <3>1. i + k \in DOMAIN log /\ log[i + k] = kept[i]
      BY <1>11, <1>12, <2>2
    <3> QED
      BY <1>8, <1>13, <1>14, <3>1
  <2> QED
    BY <2>1, <2>2
<1>15. ASSUME NEW i \in DOMAIN kept, NEW j \in DOMAIN kept, kept[i] = kept[j],
              kept[i][1] = "AUCTION_SETTLED", i + k = Len(log) + 1
       PROVE  i = j
  <2>1. CASE j + k = Len(log) + 1
    BY <1>11, <1>12, <1>15, <2>1
  <2>2. CASE j + k # Len(log) + 1
    <3>1. j + k \in DOMAIN log /\ log[j + k] = event
      BY <1>11, <1>12, <1>15, <2>2
    <3>2. event[1] = "AUCTION_SETTLED" /\ event[2] = id
      BY <1>1, <1>11, <1>12, <1>15
    <3> QED
      BY <1>13, <3>1, <3>2
  <2> QED
    BY <2>1, <2>2
<1>16. ASSUME NEW i \in DOMAIN kept, NEW j \in DOMAIN kept, kept[i] = kept[j],
              kept[i][1] = "AUCTION_SETTLED"
       PROVE  i = j
  <2>1. CASE i + k = Len(log) + 1 \/ j + k = Len(log) + 1
    BY <1>15, <1>16, <2>1
  <2>2. CASE i + k # Len(log) + 1 /\ j + k # Len(log) + 1
    <3>1. /\ i + k \in DOMAIN log /\ j + k \in DOMAIN log
          /\ log[i + k] = kept[i] /\ log[j + k] = kept[j]
      BY <1>11, <1>12, <2>2
    <3>2. i + k = j + k
      BY <1>13, <1>16, <3>1
    <3> QED
      BY <1>12, <3>2
  <2> QED
    BY <2>1, <2>2
<1>17. ASSUME NEW a \in SoldIn(e), Len(kept) # MaxAudit
       PROVE  \E i \in DOMAIN kept : kept[i] = <<"AUCTION_SETTLED", a>>
  <2>1. k = 0 /\ Len(kept) = Len(log) + 1 /\ Len(log) # MaxAudit
    <3>1. k = 0
      BY <1>11, <1>17, Zenon
    <3> QED
      BY <1>11, <1>12, <3>1
  <2>2. CASE a = id
    <3>1. event = <<"AUCTION_SETTLED", a>>
      BY <1>1, <1>8, <2>2
    <3>2. Len(kept) \in DOMAIN kept /\ kept[Len(kept)] = event
      BY <1>11, <1>12, <2>1
    <3> QED
      BY <3>1, <3>2
  <2>3. CASE a # id
    <3>1. PICK i \in DOMAIN log : log[i] = <<"AUCTION_SETTLED", a>>
      BY <1>8, <1>13, <2>1, <2>3
    <3>2. i \in DOMAIN kept /\ kept[i] = log[i]
      BY <1>11, <1>12, <2>1
    <3> QED
      BY <3>1, <3>2
  <2> QED
    BY <2>2, <2>3
<1>18. SalesLogged(e)
  BY <1>3, <1>14, <1>16, <1>17 DEF SalesLogged
<1> QED
  BY <1>3, <1>7, <1>18 DEF Agrees

\* What a request writes is no auction.
LEMMA RequestAgrees ==
  ASSUME IInv, Agrees(data), NEW s \in Syncs, syncs[s] # Idle, SyncStep(s)
  PROVE  Agrees(data')
<1>1. Shaped(data) /\ syncs[s] \in Sync
  BY DEF IInv, StoreOK, Sound, IsData, SyncsOK, Shaped
<1>2. PICK w, kind, i : w = syncs[s].wallet /\ kind = syncs[s].kind /\ i = syncs[s].next
  OBVIOUS
<1>3. kind # "auction"
  BY <1>1, <1>2 DEF Sync, Kind
<1>4. CASE NoWrite
  BY <1>4 DEF NoWrite, databaseVars
<1>5. CASE AddWallet(w) /\ ~NoWrite
  <2>1. PICK e : e = SetNode(data, <<"wallet", w>>, "unknown")
    OBVIOUS
  <2>2. Agrees(e)
    BY <1>1, <2>1, OtherNodeAgrees
  <2>3. data' = e
    BY <1>5, <2>1 DEF AddWallet, Commit
  <2> QED
    BY <2>2, <2>3
<1>6. CASE MarkEligible(w) /\ ~NoWrite
  <2>1. PICK b : b = SetNode(data, <<"elig", w>>, "registered")
    OBVIOUS
  <2>2. PICK c : c = SetEdge(b, <<"wallet", w>>, <<"elig", w>>)
    OBVIOUS
  <2>3. PICK e : e = SetNode(c, <<"wallet", w>>, "eligible")
    OBVIOUS
  <2>4. Shaped(b) /\ Agrees(b)
    BY <1>1, <2>1, OtherNodeAgrees
  <2>5. Shaped(c) /\ Agrees(c)
    BY <2>2, <2>4, EdgeAgrees
  <2>6. Agrees(e)
    BY <2>3, <2>5, OtherNodeAgrees
  <2>7. data' = e
    BY <1>6, <2>1, <2>2, <2>3 DEF MarkEligible, Commit
  <2> QED
    BY <2>6, <2>7
<1>7. CASE AddItem(kind, i, w) /\ ~NoWrite
  <2>1. PICK id, wallet, node :
          id = <<kind, i>> /\ wallet = <<"wallet", w>> /\ node = chain[kind][i]
    OBVIOUS
  <2>2. PICK c : c = SetNode(data, id, node)
    OBVIOUS
  <2>3. PICK e : e = SetEdge(c, wallet, id)
    OBVIOUS
  <2>4. Shaped(c) /\ Agrees(c)
    BY <1>1, <1>3, <2>1, <2>2, OtherNodeAgrees
  <2>5. Agrees(e)
    BY <2>3, <2>4, EdgeAgrees
  <2>6. data' = e
    BY <1>7, <2>1, <2>2, <2>3 DEF AddItem, Commit
  <2> QED
    BY <2>5, <2>6
<1>8. NoWrite \/ AddWallet(w) \/ MarkEligible(w) \/ AddItem(kind, i, w)
  <2>1. CASE GotBalance(s)
    BY <1>2, <2>1 DEF GotBalance
  <2>2. CASE GotTerms(s)
    BY <1>2, <2>2 DEF GotTerms
  <2>3. CASE GotItem(s)
    BY <1>2, <2>3 DEF GotItem
  <2>4. CASE GotEligible(s)
    BY <2>4, Zenon DEF GotEligible
  <2>5. CASE GotCount(s)
    BY <2>5, Zenon DEF GotCount
  <2>6. CASE AbortSync(s)
    BY <2>6, Zenon DEF AbortSync
  <2> QED
    BY <2>1, <2>2, <2>3, <2>4, <2>5, <2>6 DEF SyncStep
<1> QED
  BY <1>4, <1>5, <1>6, <1>7, <1>8

\* Nor is evidence.
LEMMA EvidenceAgrees ==
  ASSUME Shaped(data), Agrees(data), NEW w, MintEvidence(w) \/ NormalizeAndStore(w)
  PROVE  Agrees(data')
<1>1. PICK wallet : wallet = <<"wallet", w>> /\ wallet[1] # "auction"
  <2>1. <<"wallet", w>>[1] = "wallet"
    OBVIOUS
  <2> QED
    BY <2>1
<1>2. PICK kind, node, b :
        /\ kind \in {"claimed", "verified"} /\ node = <<kind, w>> /\ node[1] # "auction"
        /\ b = data \/ b = SetNode(data, wallet, "unknown")
        /\ data' = SetEdge(SetNode(b, node, "VERIFIED"), node, wallet)
  <2>1. CASE MintEvidence(w)
    <3>1. PICK kind, node, b : kind = "claimed" /\ node = <<kind, w>> /\ b = data
      OBVIOUS
    <3>2. data' = SetEdge(SetNode(b, node, "VERIFIED"), node, wallet)
      BY <1>1, <2>1, <3>1 DEF MintEvidence, Commit
    <3> QED
      BY <3>1, <3>2
  <2>2. CASE NormalizeAndStore(w)
    <3>1. PICK kind, node, b :
            /\ kind = "verified" /\ node = <<kind, w>>
            /\ b = IF wallet \in DOMAIN data.nodes THEN data ELSE SetNode(data, wallet, "unknown")
      OBVIOUS
    <3>2. data' = SetEdge(SetNode(b, node, "VERIFIED"), node, wallet)
      BY <1>1, <2>2, <3>1 DEF NormalizeAndStore, Commit
    <3> QED
      BY <3>1, <3>2
  <2> QED
    BY <2>1, <2>2
<1>3. Shaped(b) /\ Agrees(b)
  BY <1>1, <1>2, OtherNodeAgrees
<1>4. PICK c : c = SetNode(b, node, "VERIFIED")
  OBVIOUS
<1>5. Shaped(c) /\ Agrees(c)
  BY <1>2, <1>3, <1>4, OtherNodeAgrees
<1>6. data' = SetEdge(c, node, wallet)
  BY <1>2, <1>4
<1> QED
  BY <1>5, <1>6, EdgeAgrees

LEMMA CreateAgrees ==
  ASSUME IInv, Agrees(data), NEW loan \in AuctionLoans, CreateAuction(loan)
  PROVE  Agrees(data')
<1>1. PICK id, auction, d : /\ id = <<loan, millis>>
                            /\ auction = [status |-> "ACTIVE", bidder |-> NoBidder]
                            /\ d = data
  OBVIOUS
<1>2. PICK a : a = SetAuction(d, id, auction)
  OBVIOUS
<1>3. PICK listed : listed = SetNode(a, <<"auction", id>>, auction)
  OBVIOUS
<1>4. PICK c : c = IF <<"loan", loan>> \in DOMAIN d.nodes
                   THEN SetEdge(listed, <<"loan", loan>>, <<"auction", id>>) ELSE listed
  OBVIOUS
<1>5. PICK e : e = RecordAuditEvent(c, <<"AUCTION_CREATED", id>>)
  OBVIOUS
<1>6. data' = e
  BY <1>1, <1>2, <1>3, <1>4, <1>5 DEF CreateAuction, Commit
<1>7. Sound(d) /\ Shaped(d) /\ Agrees(d)
  BY <1>1 DEF IInv, StoreOK, Sound, IsData, Shaped
<1>8. id \in AuctionId /\ auction.status # "SETTLED" /\ Same(auction, auction)
  BY <1>1 DEF IInv, DeskOK, AuctionId, Same
\* A sale of that name was made before this millisecond.
<1>9. id \notin SoldIn(d)
  BY <1>1 DEF IInv, DeskOK, SoldBefore, SoldIn
<1>10. /\ Shaped(c) /\ c.nodes = Put(d.nodes, <<"auction", id>>, auction)
       /\ c.auctions = Put(d.auctions, id, auction) /\ c.audit = d.audit
  <2>1. a = [nodes |-> d.nodes, edges |-> d.edges,
             auctions |-> Put(d.auctions, id, auction), audit |-> d.audit]
    BY <1>2, <1>7 DEF SetAuction, Shaped
  <2>2. listed = [nodes |-> Put(d.nodes, <<"auction", id>>, auction), edges |-> d.edges,
                  auctions |-> Put(d.auctions, id, auction), audit |-> d.audit]
    BY <1>3, <2>1 DEF SetNode
  <2>3. CASE c = listed
    BY <2>2, <2>3 DEF Shaped
  <2>4. CASE c # listed
    <3>1. c = SetEdge(listed, <<"loan", loan>>, <<"auction", id>>)
      BY <1>4, <2>4
    <3>2. c = [nodes |-> Put(d.nodes, <<"auction", id>>, auction),
               edges |-> d.edges \cup {<<<<"loan", loan>>, <<"auction", id>>>>},
               auctions |-> Put(d.auctions, id, auction), audit |-> d.audit]
      BY <2>2, <3>1 DEF SetEdge
    <3> QED
      BY <3>2 DEF Shaped
  <2> QED
    BY <2>3, <2>4
<1> QED
  BY <1>5, <1>6, <1>7, <1>8, <1>9, <1>10, WriteAgrees

LEMMA BidAgrees ==
  ASSUME IInv, Agrees(data), NEW id, NEW bidder, Bid(id, bidder)
  PROVE  Agrees(data')
<1>1. PICK auction, drawn, d : /\ auction = [status |-> "SETTLED", bidder |-> Recorded(bidder)]
                               /\ drawn = [status |-> "SETTLED", bidder |-> bidder]
                               /\ d = data
  OBVIOUS
<1>2. PICK sold : sold = SetAuction(d, id, auction)
  OBVIOUS
<1>3. PICK c : c = SetNode(sold, <<"auction", id>>, drawn)
  OBVIOUS
<1>4. PICK e : e = RecordAuditEvent(c, <<"AUCTION_SETTLED", id>>)
  OBVIOUS
<1>5. Sound(d) /\ Shaped(d) /\ Agrees(d)
  BY <1>1 DEF IInv, StoreOK, Sound, IsData, Shaped
<1>6. /\ id \in DOMAIN d.auctions /\ id \notin SoldIn(d) /\ auction.status = "SETTLED"
      /\ Same(auction, drawn)
  BY <1>1 DEF Bid, Open, SoldIn, Same
<1>7. id \in AuctionId
  <2>1. PICK all \in Auctions : all = d.auctions
    BY <1>5 DEF Sound, IsData, DataOK
  <2>2. PICK S \in SUBSET AuctionId : all \in [S -> Auction]
    BY DEF Auctions
  <2> QED
    BY <1>6, <2>1, <2>2
<1>8. data' = e
  <2>1. <<"auction", id>> \in DOMAIN d.nodes
    BY <1>5, <1>6 DEF Agrees, AuctionsDrawn
  <2>2. Settled(d, id, bidder) = e
    BY <1>1, <1>2, <1>3, <1>4, <2>1 DEF Settled
  <2> QED
    BY <1>1, <2>2 DEF Bid, Commit
<1>9. /\ Shaped(c) /\ c.nodes = Put(d.nodes, <<"auction", id>>, drawn)
      /\ c.auctions = Put(d.auctions, id, auction) /\ c.audit = d.audit
  <2>1. sold = [nodes |-> d.nodes, edges |-> d.edges,
                auctions |-> Put(d.auctions, id, auction), audit |-> d.audit]
    BY <1>2, <1>5 DEF SetAuction, Shaped
  <2>2. c = [nodes |-> Put(d.nodes, <<"auction", id>>, drawn), edges |-> d.edges,
             auctions |-> Put(d.auctions, id, auction), audit |-> d.audit]
    BY <1>3, <2>1 DEF SetNode
  <2> QED
    BY <2>2 DEF Shaped
<1> QED
  BY <1>4, <1>5, <1>6, <1>7, <1>8, <1>9, WriteAgrees

\* Both memory and what a restart would read.
AllAgree == Agrees(data) /\ Agrees(Loaded(file))

LEMMA StepAgrees ==
  ASSUME NoFileIsNoData, IInv, AllAgree, [Next]_vars
  PROVE  AllAgree'
<1>1. Loaded(file') = Loaded(file) \/ Loaded(file') = data
  BY NextKeeps DEF Keeps
<1>2. Agrees(data) /\ Agrees(Loaded(file))
  BY DEF AllAgree
<1>3. Agrees(data')
  <2>1. CASE data' = data
    BY <1>2, <2>1
  <2>2. CASE Restart
    BY <1>2, <2>2 DEF Restart, RestartDatabase
  <2>3. CASE \E s \in Syncs : syncs[s] # Idle /\ SyncStep(s)
    BY <1>2, <2>3, RequestAgrees
  <2>4. CASE \E loan \in AuctionLoans : created < MaxAuctions /\ CreateAuction(loan)
    BY <1>2, <2>4, CreateAgrees
  <2>5. CASE \E id \in DOMAIN data.auctions, b \in Named : Bid(id, b)
    BY <1>2, <2>5, BidAgrees
  <2>6. CASE Graph
    <3>1. CASE ChainStep \/ \E s \in Syncs, w \in Wallets : StartSync(s, w)
      BY <2>1, <3>1 DEF ChainStep, StartSync, NoWrite, databaseVars
    <3>2. CASE \E w \in Claimants : MintEvidence(w) \/ NormalizeAndStore(w)
      <4>1. Shaped(data)
        BY DEF IInv, StoreOK, Sound, IsData, Shaped
      <4> QED
        BY <1>2, <3>2, <4>1, EvidenceAgrees
    <3> QED
      BY <2>3, <2>6, <3>1, <3>2 DEF Graph
  <2>7. CASE Desk
    <3>1. CASE PassMillis /\ UNCHANGED databaseVars
      BY <2>1, <3>1 DEF databaseVars
    <3>2. CASE \E v \in Views : ViewStep(v)
      <4>1. PICK v \in Views : ViewStep(v)
        BY <3>2
      <4>2. UNCHANGED databaseVars
        <5>1. CASE Reload(v) \/ Disconnect(v) \/ Reconnect(v) \/ LoseEvent(v)
          BY <5>1 DEF Reload, Disconnect, Reconnect, LoseEvent
        <5>2. CASE \E i \in DOMAIN views[v].fetches :
                     ReadAuctions(v, i) \/ AnswerFetch(v, i) \/ ShowAnswer(v, i) \/ FailFetch(v, i)
          BY <5>2 DEF ReadAuctions, AnswerFetch, ShowAnswer, FailFetch, NoWrite
        <5> QED
          BY <4>1, <5>1, <5>2 DEF ViewStep
      <4> QED
        BY <2>1, <4>2 DEF databaseVars
    <3> QED
      BY <2>4, <2>5, <2>7, <3>1, <3>2 DEF Desk
  <2>8. CASE Flush \/ UNCHANGED vars
    BY <2>1, <2>8 DEF Flush, FlushSync, WriteTemp, RenameTemp, FailFlush, vars, databaseVars
  <2> QED
    BY <2>2, <2>6, <2>7, <2>8 DEF Next
<1> QED
  BY <1>1, <1>2, <1>3 DEF AllAgree

LEMMA SeedAgrees == Init => AllAgree
<1>1. Agrees(Seed)
  <2>1. Seed.auctions = NoAuctions /\ Seed.audit = <<>>
    BY Seeded
  <2>2. DOMAIN Seed.auctions = {} /\ DOMAIN Seed.audit = {}
    <3>1. DOMAIN NoAuctions = {} /\ DOMAIN <<>> = {}
      BY DEF NoAuctions
    <3>2. ASSUME NEW a, a = NoAuctions
          PROVE  DOMAIN a = {}
      BY <3>1, <3>2
    <3> HIDE DEF NoAuctions
    <3> QED
      BY <2>1, <3>1, <3>2, Zenon
  <2>3. AuctionsDrawn(Seed)
    BY <2>2, Seeded DEF AuctionsDrawn
  <2>4. SalesLogged(Seed)
    BY <2>2 DEF SalesLogged, SoldIn
  <2> QED
    BY <2>3, <2>4 DEF Agrees
<1>2. Init => data = Seed /\ Loaded(file) = Seed
  BY DEF Init, DatabaseInit, Loaded
<1> QED
  BY <1>1, <1>2 DEF AllAgree
-----------------------------------------------------------------------------
\* The list of auctions, their nodes and the audit log agree, in memory and in
\* what a restart brings back: no auction without its node, in the same state
\* and with the buyer the list has in lower case or as 'unknown', no sale logged
\* twice or before it was made, none unlogged while the log has room. Restarts,
\* failed flushes and a log that drops its oldest event do not change that.
THEOREM AuctionsAlwaysAgree ==
  ASSUME NoFileIsNoData
  PROVE  Spec => []AuctionsAgree
<1>1. ASSUME NEW d, Agrees(d)
      PROVE  {id \in DOMAIN d.nodes : id[1] = "auction"} = {"auction"} \X DOMAIN d.auctions
  BY <1>1 DEF Agrees, AuctionsDrawn
<1>2. ASSUME NEW d, Agrees(d), NEW id \in DOMAIN d.auctions,
             NEW bids, bids = {i \in DOMAIN d.audit : d.audit[i] = <<"AUCTION_SETTLED", id>>}
      PROVE  /\ Cardinality(bids) <= 1
             /\ bids # {} => d.auctions[id].status = "SETTLED"
             /\ d.auctions[id].status = "SETTLED" /\ bids = {} => Len(d.audit) = MaxAudit
  <2>1. \A i, j \in bids : i = j
    BY <1>2 DEF Agrees, SalesLogged
  <2>2. Cardinality(bids) <= 1
    <3>1. CASE bids = {}
      BY <3>1, FS_EmptySet
    <3>2. CASE bids # {}
      <4>1. PICK i \in bids : TRUE
        BY <3>2
      <4>2. bids = {i}
        BY <2>1, <4>1
      <4>3. Cardinality(bids) = 1
        BY <4>2, FS_Singleton, Zenon
      <4> QED
        BY <4>3
    <3> QED
      BY <3>1, <3>2
  <2>3. bids # {} => d.auctions[id].status = "SETTLED"
    BY <1>2 DEF Agrees, SalesLogged, SoldIn
  <2>4. d.auctions[id].status = "SETTLED" /\ bids = {} => Len(d.audit) = MaxAudit
    BY <1>2 DEF Agrees, SalesLogged, SoldIn
  <2> QED
    BY <2>2, <2>3, <2>4
<1>3. AllAgree => AuctionsAgree
  <2> SUFFICES ASSUME AllAgree, NEW d \in Stored
               PROVE  /\ {id \in DOMAIN d.nodes : id[1] = "auction"} = {"auction"} \X DOMAIN d.auctions
                      /\ \A id \in DOMAIN d.auctions :
                           /\ Same(d.auctions[id], d.nodes[<<"auction", id>>])
                           /\ LET bids == {i \in DOMAIN d.audit : d.audit[i] = <<"AUCTION_SETTLED", id>>}
                              IN  /\ Cardinality(bids) <= 1
                                  /\ bids # {} => d.auctions[id].status = "SETTLED"
                                  /\ d.auctions[id].status = "SETTLED" /\ bids = {} =>
                                       Len(d.audit) = MaxAudit
    BY DEF AuctionsAgree, Same
  <2>1. Agrees(d)
    BY DEF AllAgree, Stored
  <2>2. ASSUME NEW id \in DOMAIN d.auctions
        PROVE  /\ Same(d.auctions[id], d.nodes[<<"auction", id>>])
               /\ LET bids == {i \in DOMAIN d.audit : d.audit[i] = <<"AUCTION_SETTLED", id>>}
                  IN  /\ Cardinality(bids) <= 1
                      /\ bids # {} => d.auctions[id].status = "SETTLED"
                      /\ d.auctions[id].status = "SETTLED" /\ bids = {} =>
                           Len(d.audit) = MaxAudit
    <3>1. Same(d.auctions[id], d.nodes[<<"auction", id>>])
      BY <2>1 DEF Agrees, AuctionsDrawn
    <3>2. PICK bids : bids = {i \in DOMAIN d.audit : d.audit[i] = <<"AUCTION_SETTLED", id>>}
      OBVIOUS
    <3>3. /\ Cardinality(bids) <= 1
          /\ bids # {} => d.auctions[id].status = "SETTLED"
          /\ d.auctions[id].status = "SETTLED" /\ bids = {} => Len(d.audit) = MaxAudit
      BY <1>2, <2>1, <3>2
    <3> QED
      BY <3>1, <3>2, <3>3, Zenon
  <2>3. {id \in DOMAIN d.nodes : id[1] = "auction"} = {"auction"} \X DOMAIN d.auctions
    BY <1>1, <2>1
  <2> QED
    BY <2>2, <2>3, Zenon
<1> QED
  BY <1>3, AlwaysIInv, SeedAgrees, StepAgrees, PTL DEF Spec
-----------------------------------------------------------------------------
(* The auctions keep the promise of SaleBook.                              *)

\* Creation puts an auction in the list that nobody bought, in place of none or
\* of one that nobody bought.
LEMMA CreateLists ==
  ASSUME IInv, NEW loan \in AuctionLoans, CreateAuction(loan)
  PROVE  /\ file' = file
         /\ \E id \in AuctionId, auction \in Auction :
              /\ auction.status = "ACTIVE"
              /\ id \in DOMAIN data.auctions => data.auctions[id].status # "SETTLED"
              /\ data'.auctions = Put(data.auctions, id, auction)
<1>1. PICK id, auction, d : /\ id = <<loan, millis>>
                            /\ auction = [status |-> "ACTIVE", bidder |-> NoBidder]
                            /\ d = data
  OBVIOUS
<1>2. PICK listed : listed = SetNode(SetAuction(d, id, auction), <<"auction", id>>, auction)
  OBVIOUS
<1>3. PICK linked : linked = IF <<"loan", loan>> \in DOMAIN d.nodes
                             THEN SetEdge(listed, <<"loan", loan>>, <<"auction", id>>)
                             ELSE listed
  OBVIOUS
<1>4. PICK e : e = RecordAuditEvent(linked, <<"AUCTION_CREATED", id>>)
  OBVIOUS
<1>5. data' = e /\ file' = file
  BY <1>1, <1>2, <1>3, <1>4 DEF CreateAuction, Commit
<1>6. /\ id \in AuctionId /\ ~(id[2] < millis)
      /\ auction \in Auction \cap AuctionNode /\ auction.status = "ACTIVE"
  <2>1. millis \in 0 .. MaxMillis
    BY DEF IInv, DeskOK
  <2> QED
    BY <1>1, <2>1, DeskInputs DEF AuctionId, Auction, AuctionNode, Named
<1>7. Sound(d)
  BY <1>1 DEF IInv, StoreOK
<1>8. e.auctions = Put(d.auctions, id, auction)
  BY <1>2, <1>3, <1>4, <1>6, <1>7, CreateWrites
<1>9. id \in DOMAIN data.auctions => data.auctions[id].status # "SETTLED"
  BY <1>6 DEF IInv, DeskOK, SoldBefore
<1> QED
  BY <1>1, <1>5, <1>6, <1>8, <1>9

\* A bid sells an auction nobody bought.
LEMMA BidLists ==
  ASSUME IInv, NEW id \in DOMAIN data.auctions, NEW bidder \in Named, Bid(id, bidder)
  PROVE  /\ file' = file
         /\ id \in AuctionId /\ data.auctions[id].status = "ACTIVE"
         /\ \E auction \in Auction :
              /\ auction.status = "SETTLED" /\ auction.bidder = Recorded(bidder)
              /\ data'.auctions = Put(data.auctions, id, auction)
<1>1. PICK auction, d :
        auction = [status |-> "SETTLED", bidder |-> Recorded(bidder)] /\ d = data
  OBVIOUS
<1>2. PICK e : e = Settled(d, id, bidder)
  OBVIOUS
<1>3. data' = e /\ file' = file /\ data.auctions[id].status = "ACTIVE"
  BY <1>1, <1>2 DEF Bid, Open, Commit
<1>4. Sound(d)
  BY <1>1 DEF IInv, StoreOK
<1>5. id \in AuctionId
  <2>1. PICK a \in Auctions : a = data.auctions
    BY <1>1, <1>4 DEF Sound, IsData, DataOK
  <2>2. PICK S \in SUBSET AuctionId : a \in [S -> Auction]
    BY DEF Auctions
  <2> QED
    BY <2>1, <2>2
<1>6. auction \in Auction /\ auction.status = "SETTLED" /\ auction.bidder = Recorded(bidder)
  BY <1>1 DEF Auction, Buyers
<1>7. e.auctions = Put(d.auctions, id, auction)
  BY <1>1, <1>2, <1>4, <1>5, <1>6, SettleWrites
<1> QED
  BY <1>1, <1>3, <1>5, <1>6, <1>7

\* What a new or changed auction makes of the buyers.
LEMMA BuyersAfter ==
  ASSUME NEW d, NEW a \in Auctions, a = d.auctions, NEW id \in AuctionId, NEW auction \in Auction,
         NEW e, e.auctions = Put(a, id, auction),
         NEW buyers, buyers = IF auction.status = "ACTIVE" THEN {} ELSE {auction.bidder}
  PROVE  BuyersIn(e) = Put(BuyersIn(d), id, buyers)
<1>1. PICK b : b = e.auctions /\ b = Put(a, id, auction)
  OBVIOUS
<1>2. /\ DOMAIN b = DOMAIN a \cup {id} /\ b[id] = auction
      /\ \A i \in DOMAIN a : i # id => b[i] = a[i]
  <2>1. /\ DOMAIN Put(a, id, auction) = DOMAIN a \cup {id} /\ Put(a, id, auction)[id] = auction
        /\ \A i \in DOMAIN a : i # id => Put(a, id, auction)[i] = a[i]
    BY PutAuction, Zenon
  <2> QED
    BY <1>1, <2>1
<1>3. /\ DOMAIN BuyersIn(d) = DOMAIN a
      /\ \A i \in DOMAIN a :
           BuyersIn(d)[i] = IF a[i].status = "ACTIVE" THEN {} ELSE {a[i].bidder}
  BY DEF BuyersIn
<1>4. BuyersIn(e) = [i \in DOMAIN b |-> IF b[i].status = "ACTIVE" THEN {} ELSE {b[i].bidder}]
  BY <1>1 DEF BuyersIn
<1>5. PICK now, next : now = BuyersIn(d) /\ next = BuyersIn(e)
  OBVIOUS
<1>6. /\ DOMAIN next = DOMAIN now \cup {id} /\ next[id] = buyers
      /\ \A i \in DOMAIN now : i # id => next[i] = now[i]
  <2>1. DOMAIN next = DOMAIN b
    BY <1>4, <1>5
  <2>2. \A i \in DOMAIN b :
          next[i] = IF b[i].status = "ACTIVE" THEN {} ELSE {b[i].bidder}
    BY <1>4, <1>5
  <2>3. next[id] = buyers
    BY <1>2, <2>2
  <2>4. DOMAIN next = DOMAIN now \cup {id}
    BY <1>2, <1>3, <1>5, <2>1
  <2>5. ASSUME NEW i \in DOMAIN now, i # id
        PROVE  next[i] = now[i]
    <3>1. i \in DOMAIN a /\ i \in DOMAIN b /\ b[i] = a[i]
      BY <1>2, <1>3, <1>5, <2>5
    <3>2. now[i] = IF a[i].status = "ACTIVE" THEN {} ELSE {a[i].bidder}
      BY <1>3, <1>5, <3>1
    <3>3. next[i] = IF b[i].status = "ACTIVE" THEN {} ELSE {b[i].bidder}
      BY <2>2, <3>1
    <3> QED
      BY <3>1, <3>2, <3>3
  <2> QED
    BY <2>3, <2>4, <2>5
<1>7. next = [i \in DOMAIN next |-> next[i]]
  BY <1>4, <1>5
<1> QED
  BY <1>5, <1>6, <1>7 DEF Put

LEMMA SameBuyers ==
  ASSUME NEW d, NEW e, e.auctions = d.auctions
  PROVE  BuyersIn(e) = BuyersIn(d)
BY DEF BuyersIn

LEMMA CreateAnnounces ==
  ASSUME IInv, NEW loan \in AuctionLoans, CreateAuction(loan)
  PROVE  Sales!Next
<1>1. PICK id \in AuctionId, auction \in Auction :
        /\ auction.status = "ACTIVE"
        /\ id \in DOMAIN data.auctions => data.auctions[id].status # "SETTLED"
        /\ data'.auctions = Put(data.auctions, id, auction)
  BY CreateLists
<1>2. data.auctions \in Auctions /\ file' = file
  BY CreateLists DEF IInv, StoreOK, Sound, IsData, DataOK
<1>3. BuyersIn(data') = Put(BuyersIn(data), id, {})
  <2>1. PICK d, e, a : d = data /\ e = data' /\ a = d.auctions
    OBVIOUS
  <2>2. a \in Auctions /\ e.auctions = Put(a, id, auction)
    BY <1>1, <1>2, <2>1
  <2> QED
    BY <1>1, <2>1, <2>2, BuyersAfter
<1>4. id \in DOMAIN BuyersIn(data) => BuyersIn(data)[id] = {}
  <2>1. PICK S \in SUBSET AuctionId : data.auctions \in [S -> Auction]
    BY <1>2 DEF Auctions
  <2> QED
    BY <1>1, <2>1 DEF BuyersIn, Auction
<1>5. Sales!Announce(id)
  BY <1>2, <1>3, <1>4 DEF Sales!Announce, Put
<1> QED
  BY <1>5 DEF Sales!Next

LEMMA BidSells ==
  ASSUME IInv, NEW id \in DOMAIN data.auctions, NEW bidder \in Named, Bid(id, bidder)
  PROVE  Sales!Next
<1>1. PICK auction \in Auction :
        /\ auction.status = "SETTLED" /\ auction.bidder = Recorded(bidder)
        /\ data'.auctions = Put(data.auctions, id, auction)
  BY BidLists
<1>2. /\ data.auctions \in Auctions /\ file' = file /\ id \in AuctionId
      /\ data.auctions[id].status = "ACTIVE"
  BY BidLists DEF IInv, StoreOK, Sound, IsData, DataOK
<1>3. id \in DOMAIN BuyersIn(data) /\ BuyersIn(data)[id] = {}
  BY <1>2 DEF BuyersIn
<1>4. BuyersIn(data') = Put(BuyersIn(data), id, {Recorded(bidder)})
  <2>1. PICK d, e, a : d = data /\ e = data' /\ a = d.auctions
    OBVIOUS
  <2>2. a \in Auctions /\ e.auctions = Put(a, id, auction)
    BY <1>1, <1>2, <2>1
  <2> QED
    BY <1>1, <1>2, <2>1, <2>2, BuyersAfter
<1>5. BuyersIn(data') = [BuyersIn(data) EXCEPT ![id] = {Recorded(bidder)}]
  BY <1>3, <1>4 DEF BuyersIn, Put
<1>6. Recorded(bidder) \in Buyers /\ Sales!Sell(id, Recorded(bidder))
  BY <1>2, <1>3, <1>5 DEF Sales!Sell, Buyers
<1> QED
  BY <1>3, <1>6 DEF Sales!Next

\* Copying the whole book, or failing to; and losing it.
LEMMA FlushSaves ==
  ASSUME NoFileIsNoData, IInv, Flush
  PROVE  [Sales!Next]_(Sales!bookVars)
<1>1. data' = data /\ (Loaded(file') = Loaded(file) \/ Loaded(file') = data)
  BY FlushKeeps DEF IInv, Flush
<1> QED
  BY <1>1 DEF Sales!Next, Sales!Save, Sales!bookVars

LEMMA RestartLoses ==
  ASSUME IInv, Restart
  PROVE  Sales!Next
<1>1. data' = Loaded(file) /\ file' = file
  BY RestartKeeps DEF IInv, Restart
<1> QED
  BY <1>1 DEF Sales!Next, Sales!Lose

\* A request for a graph writes no auction.
LEMMA GraphSellsNothing ==
  ASSUME IInv, Graph
  PROVE  UNCHANGED Sales!bookVars
<1>1. data'.auctions = data.auctions /\ file' = file
  <2>1. CASE ChainStep
    BY <2>1 DEF ChainStep, databaseVars
  <2>2. CASE ~ChainStep
    <3>1. Written
      BY <2>2, GraphInputs, StartSyncKeeps, SyncStepKeeps, MintWritten, NormalizeWritten
      DEF Graph, IInv
    <3> QED
      BY <3>1 DEF Written
  <2> QED
    BY <2>1, <2>2
<1>2. BuyersIn(data') = BuyersIn(data)
  BY <1>1, SameBuyers
<1> QED
  BY <1>1, <1>2 DEF Sales!bookVars

LEMMA SalesNext ==
  ASSUME NoFileIsNoData, IInv, [Next]_vars
  PROVE  [Sales!Next]_(Sales!bookVars)
<1>1. CASE Graph
  BY <1>1, GraphSellsNothing
<1>2. CASE Desk
  <2>1. CASE \/ PassMillis /\ UNCHANGED databaseVars
             \/ \E v \in Views : ViewStep(v)
    <3>1. data' = data /\ file' = file
      BY <2>1 DEF databaseVars, ViewStep, Reload, Disconnect, Reconnect, LoseEvent,
                  ReadAuctions, AnswerFetch, ShowAnswer, FailFetch, NoWrite
    <3> QED
      BY <3>1 DEF Sales!bookVars
  <2> QED
    BY <1>2, <2>1, CreateAnnounces, BidSells DEF Desk
<1>3. CASE UNCHANGED vars
  BY <1>3 DEF vars, databaseVars, Sales!bookVars
<1> QED
  BY <1>1, <1>2, <1>3, FlushSaves, RestartLoses DEF Next

LEMMA SalesInit == Init => Sales!Init
<1> SUFFICES ASSUME Init PROVE Sales!Init
  OBVIOUS
<1>1. data = Seed /\ Loaded(file) = Seed
  BY DEF Init, DatabaseInit, Loaded
<1>2. DOMAIN Seed.auctions = {}
  <2>1. Seed.auctions = NoAuctions
    BY Seeded
  <2>2. DOMAIN NoAuctions = {}
    BY DEF NoAuctions
  <2> HIDE DEF NoAuctions
  <2> QED
    BY <2>1, <2>2, Zenon
<1>3. BuyersIn(Seed) = [id \in {} |-> {}]
  BY <1>2 DEF BuyersIn
<1> QED
  BY <1>1, <1>3 DEF Sales!Init

\* The backend's auctions are a book of sales with a copy: one buyer for each,
\* the first who bid; a restart brings back one whole flush, and nothing else
\* undoes a sale.
THEOREM ImplementsSaleBook ==
  ASSUME NoFileIsNoData
  PROVE  Spec => KeepsSaleBook
<1>1. IInv /\ [Next]_vars => [Sales!Next]_(Sales!bookVars)
  BY SalesNext
<1>2. Spec => [][Sales!Next]_(Sales!bookVars)
  BY <1>1, AlwaysIInv, PTL DEF Spec
<1>3. Spec => Sales!Init
  BY SalesInit, PTL DEF Spec
<1> QED
  BY <1>2, <1>3 DEF KeepsSaleBook, Sales!Spec
=============================================================================
