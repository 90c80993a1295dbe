----------------------------- MODULE MCBackend ------------------------------
(***************************************************************************)
(* Instances of Backend for TLC. The seed draws loan 1 of wallet w1 and w2,*)
(* the eligibility of w1, which the chain has when the backend starts, and *)
(* evidence of w1.                                                         *)
(***************************************************************************)
EXTENDS Backend, TLC

SyncSymmetry == Permutations(Syncs)

MCSeed ==
  [nodes |-> [id \in {<<"wallet", "w1">>, <<"elig", "w1">>, <<"claimed", "w1">>, <<"loan", 1>>} |->
                CASE id[1] = "wallet" -> "eligible"
                  [] id[1] = "elig" -> "registered"
                  [] id[1] = "claimed" -> "VERIFIED"
                  [] OTHER -> "ACTIVE"],
   edges |-> {<<<<"wallet", "w1">>, <<"elig", "w1">>>>, <<<<"wallet", "w1">>, <<"loan", 1>>>>,
              <<<<"claimed", "w1">>, <<"wallet", "w1">>>>},
   auctions |-> NoAuctions, audit |-> <<>>]

\* The borrow request is of a third wallet. Loan 1 was repaid since it was
\* seeded; loan 2 may be created, drawn and repaid.
MCParties == [loan |-> <<{"w1", "w2"}, {"w1", "w2"}>>, request |-> <<{}>>]
MCChainStart == [loan |-> <<"REPAID">>, request |-> <<"OPEN">>, eligible |-> {"w1"}]

\* One loan, and a borrow request of w2.
MCNodeParties == [loan |-> <<{"w1", "w2"}>>, request |-> <<{"w2"}>>]
MCNodeChainStart == [loan |-> <<"ACTIVE">>, request |-> <<"OPEN">>, eligible |-> {"w1"}]

\* Nothing stated tells the ways of ending apart.
MCLastStatus == [loan |-> {"REPAID"}, request |-> {}]

MCLowerCase == [b \in Bidders |-> "0xb1"]

\* The auctions do not depend on the chain: one loan, long repaid.
MCDeskParties == [loan |-> <<{"w1"}>>, request |-> <<>>]
MCDeskChainStart == [loan |-> <<"REPAID">>, request |-> <<>>, eligible |-> {}]
=============================================================================
