---------------------------- MODULE AuctionDesk -----------------------------
(***************************************************************************)
(* backend/src/routes/auctions.routes.ts with EventStream.ts, and the view *)
(* that follows them, frontend/src/views/LoansView.tsx: auctions kept by   *)
(* the backend alone. A handler runs to its end without an await, so it is *)
(* one action. A view reloads the list for every AUCTION_UPDATED it hears; *)
(* its requests may fail, and their answers may overtake each other.       *)
(***************************************************************************)
EXTENDS Database

CONSTANTS
  AuctionLoans,   \* loan ids auctions are created for; not checked by the code
  Bidders,        \* what a request to bid may name as the bidder
  LowerCase,      \* LowerCase[b]: that name in lower case
  NoBidder,       \* nobody is named: null, empty or missing
  Views,          \* browsers that show the list
  Unanswered,     \* a request whose answer the backend has not begun
  Failed,         \* a request the backend will never answer
  MaxMillis,      \* bound on the clock
  MaxFetches,     \* requests of a view under way together
  MaxAuctions     \* bound on the auctions created

ASSUME DeskInputs == MaxMillis \in Nat /\ MaxFetches \in Nat /\ MaxAuctions \in Nat

VARIABLES
  millis,   \* Date.now()
  created,  \* auctions created so far
  views     \* view -> its connection, events heard, requests and list shown

deskVars == <<millis, created, views>>

\* An id is made of the loan and the millisecond.
AuctionId == AuctionLoans \X (0 .. MaxMillis)
NoAuctions == [id \in {} |-> 0]

\* highestBidder of the list: the bidder named, in lower case, or 'unknown'.
Named == Bidders \cup {NoBidder}
Recorded(bidder) == IF bidder = NoBidder THEN "unknown" ELSE LowerCase[bidder]
Buyers == {Recorded(bidder) : bidder \in Named}

\* The list's entry of an auction, and its node, which keeps the bidder as named.
Auction == [status : {"ACTIVE", "SETTLED"}, bidder : Buyers \cup {NoBidder}]
AuctionNode == [status : {"ACTIVE", "SETTLED"}, bidder : Named]
Auctions == UNION {[S -> Auction] : S \in SUBSET AuctionId}

\* refs: the objects of the list that an answer is to hold, not written out yet.
Fetch == [answer : Auctions \cup {Unanswered, Failed}, refs : SUBSET AuctionId, late : BOOLEAN]
Sent == [answer |-> Unanswered, refs |-> {}, late |-> FALSE]

ASSUME NoAnswer == Unanswered \notin Auctions /\ Failed \notin Auctions

\* current is no part of the code: no update is known that the list shown
\* misses. late: the same of an answer, negated.
View == [live : BOOLEAN, events : Nat, fetches : Seq(Fetch), shown : Auctions, current : BOOLEAN]

\* A view loads the list when it is opened.
DeskInit ==
  /\ millis = 0 /\ created = 0
  /\ views = [v \in Views |-> [live |-> TRUE, events |-> 0, fetches |-> <<Sent>>,
                               shown |-> NoAuctions, current |-> TRUE]]
-----------------------------------------------------------------------------
\* external: a change that a view is not told of need not be in the answers
\* that are begun.
Missed(view) ==
  [view EXCEPT !.current = FALSE,
     !.fetches = [i \in DOMAIN @ |-> IF @[i].answer = Unanswered THEN @[i]
                                     ELSE [@[i] EXCEPT !.late = TRUE]]]

\* The part of an answer that is written out, with the objects of refs as they
\* are by now.
WrittenOut(fetch, refs) ==
  [id \in DOMAIN fetch.answer \cup refs |->
     IF id \in refs THEN data.auctions[id] ELSE fetch.answer[id]]

\* An answer keeps an object that is replaced in the list.
Detached(fetch, replaced) ==
  LET old == fetch.refs \cap replaced
  IN  IF old = {} THEN fetch
      ELSE [answer |-> WrittenOut(fetch, old), refs |-> fetch.refs \ old, late |-> fetch.late]

\* Faulty variant: no event is sent.
BroadcastNothing(replaced) == UNCHANGED views

\* eventStream.broadcast('AUCTION_UPDATED', ...), by a handler that put new
\* objects in the place of the replaced ones.
Broadcast(replaced) ==
  views' = [v \in Views |->
    LET view == [views[v] EXCEPT !.fetches =
                   [i \in DOMAIN @ |-> Detached(@[i], replaced)]]
    IN  IF view.live THEN [view EXCEPT !.events = @ + 1] ELSE Missed(view)]

\* POST /api/auctions: nothing is asked of the loan, not even that it exists;
\* the same loan and millisecond replace an auction.
CreateAuction(loan) ==
  LET id      == <<loan, millis>>
      auction == [status |-> "ACTIVE", bidder |-> NoBidder]
      listed  == SetNode(SetAuction(data, id, auction), <<"auction", id>>, auction)
      linked  == IF <<"loan", loan>> \in DOMAIN data.nodes
                 THEN SetEdge(listed, <<"loan", loan>>, <<"auction", id>>) ELSE listed
  IN  /\ Commit(RecordAuditEvent(linked, <<"AUCTION_CREATED", id>>))
      /\ Broadcast({id})
      /\ created' = created + 1
      /\ UNCHANGED millis

Open(id) == id \in DOMAIN data.auctions /\ data.auctions[id].status = "ACTIVE"

\* Faulty variant: the node is not told.
SettledUnseen(d, id, bidder) ==
  RecordAuditEvent(SetAuction(d, id, [status |-> "SETTLED", bidder |-> Recorded(bidder)]),
                   <<"AUCTION_SETTLED", id>>)

Settled(d, id, bidder) ==
  LET sold   == SetAuction(d, id, [status |-> "SETTLED", bidder |-> Recorded(bidder)])
      marked == IF <<"auction", id>> \in DOMAIN d.nodes
                THEN SetNode(sold, <<"auction", id>>, [status |-> "SETTLED", bidder |-> bidder])
                ELSE sold
  IN  RecordAuditEvent(marked, <<"AUCTION_SETTLED", id>>)

\* POST /api/auctions/:id/bid: any bid settles, on the object the list has. A
\* bidder that is there but no string throws before anything kept here changes.
\* An id takes longer than the millisecond it is made of to reach a bidder.
Bid(id, bidder) ==
  /\ Open(id) /\ id[2] < millis
  /\ Commit(Settled(data, id, bidder))
  /\ Broadcast({})
  /\ UNCHANGED <<millis, created>>

PassMillis == millis < MaxMillis /\ millis' = millis + 1 /\ UNCHANGED <<created, views>>
-----------------------------------------------------------------------------
(* external: the list of auctions in a browser.                            *)

\* loadData, for each event heard. It also runs after what the user did in the
\* view, which is left out: that only asks once more.
Reload(v) ==
  /\ views[v].events > 0 /\ Len(views[v].fetches) < MaxFetches
  /\ views' = [views EXCEPT ![v].events = @ - 1, ![v].fetches = Append(@, Sent)]
  /\ UNCHANGED <<databaseVars, millis, created>>

\* GET /api/auctions takes the objects of the list, then awaits the chain.
ReadAuctions(v, i) ==
  /\ views[v].fetches[i].answer = Unanswered
  /\ views' = [views EXCEPT ![v].fetches[i] =
                 [answer |-> NoAuctions, refs |-> DOMAIN data.auctions, late |-> @.late]]
  /\ NoWrite /\ UNCHANGED <<millis, created>>

\* res.json: bids since the read are in the answer, auctions created since are
\* not.
AnswerFetch(v, i) ==
  LET fetch == views[v].fetches[i] IN
  /\ fetch.refs # {}
  /\ views' = [views EXCEPT ![v].fetches[i] =
                 [answer |-> WrittenOut(fetch, fetch.refs), refs |-> {}, late |-> fetch.late]]
  /\ NoWrite /\ UNCHANGED <<millis, created>>

\* Request i has ended; those sent before and still under way are late.
Without(fetches, i) ==
  [j \in 1 .. Len(fetches) - 1 |->
     IF j < i THEN [fetches[j] EXCEPT !.late = TRUE] ELSE fetches[j + 1]]

\* Answers are shown in the order they arrive.
ShowAnswer(v, i) ==
  LET fetch == views[v].fetches[i] IN
  /\ fetch.answer \notin {Unanswered, Failed} /\ fetch.refs = {}
  /\ views' = [views EXCEPT ![v].shown = fetch.answer, ![v].current = ~fetch.late,
                            ![v].fetches = Without(@, i)]
  /\ UNCHANGED <<databaseVars, millis, created>>

\* Whatever fails, at whatever point, an empty list is shown.
FailFetch(v, i) ==
  /\ views' = [views EXCEPT ![v].shown = NoAuctions, ![v].current = FALSE,
                            ![v].fetches = Without(@, i)]
  /\ UNCHANGED <<databaseVars, millis, created>>

Disconnect(v) ==
  /\ views[v].live
  /\ views' = [views EXCEPT ![v].live = FALSE]
  /\ UNCHANGED <<databaseVars, millis, created>>

\* Events under way on a connection that broke may be lost.
LoseEvent(v) ==
  LET view == [views[v] EXCEPT !.events = @ - 1] IN
  /\ ~views[v].live /\ views[v].events > 0
  /\ views' = [views EXCEPT ![v] = Missed(view)]
  /\ UNCHANGED <<databaseVars, millis, created>>

\* EventSource connects again by itself; the view ignores CONNECTED.
Reconnect(v) ==
  /\ ~views[v].live
  /\ views' = [views EXCEPT ![v].live = TRUE]
  /\ UNCHANGED <<databaseVars, millis, created>>

\* A request that is not answered will fail.
Dropped(fetch) ==
  IF fetch.answer = Unanswered \/ fetch.refs # {}
  THEN [answer |-> Failed, refs |-> {}, late |-> fetch.late] ELSE fetch

\* The backend is gone: connections break and requests are dropped. No event
\* tells of the updates that were not saved.
LoseBackend ==
  views' = [v \in Views |->
    LET view == [views[v] EXCEPT !.live = FALSE,
                                 !.fetches = [i \in DOMAIN @ |-> Dropped(@[i])]]
    IN  IF data'.auctions = data.auctions THEN view ELSE Missed(view)]

ViewStep(v) ==
  \/ Reload(v) \/ Disconnect(v) \/ LoseEvent(v) \/ Reconnect(v)
  \/ \E i \in DOMAIN views[v].fetches :
       ReadAuctions(v, i) \/ AnswerFetch(v, i) \/ ShowAnswer(v, i) \/ FailFetch(v, i)
=============================================================================
