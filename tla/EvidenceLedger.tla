--------------------------- MODULE EvidenceLedger ---------------------------
(***************************************************************************)
(* What the verifier, the registry and those who take the registrar's      *)
(* place promise together, said without proofs, configuration, flags,      *)
(* nonces, clocks or a registrar: a ledger of claims about borrowers. Only *)
(* true claims are entered, one for each source transaction; a claim       *)
(* supports one grant of terms, to the borrower it is about; and terms     *)
(* rest on claims spent for them, or on the deployer's word.               *)
(***************************************************************************)
EXTENDS Integers

CONSTANTS
  Borrowers,
  Claims,    \* the true ones: [source, kind, about, sender, amount]
  Nothing,   \* what the terms of a borrower without terms rest on
  Word       \* the deployer's word

VARIABLES
  entered,  \* the claims on record
  spent,    \* those a grant of terms was ever based on
  standing  \* borrower -> what its terms rest on

ledgerVars == <<entered, spent, standing>>

Init ==
  /\ entered = {} /\ spent = {}
  /\ standing = [b \in Borrowers |-> Nothing]

Enter(claim) ==
  /\ \A c \in entered : c.source # claim.source
  /\ entered' = entered \cup {claim}
  /\ UNCHANGED <<spent, standing>>

\* New terms replace the old ones; what those were based on stays spent.
Grant(b, basis) ==
  /\ basis # {} /\ basis \cap spent = {}
  /\ \A c \in basis : c.about = b
  /\ spent' = spent \cup basis
  /\ standing' = [standing EXCEPT ![b] = basis]
  /\ UNCHANGED entered

Vouch(b) ==
  /\ standing' = [standing EXCEPT ![b] = Word]
  /\ UNCHANGED <<entered, spent>>

Withdraw(b) ==
  /\ standing' = [standing EXCEPT ![b] = Nothing]
  /\ UNCHANGED <<entered, spent>>

Next ==
  \/ \E claim \in Claims : Enter(claim)
  \/ \E b \in Borrowers :
       \/ \E basis \in SUBSET entered : Grant(b, basis)
       \/ Vouch(b)
       \/ Withdraw(b)

Spec == Init /\ [][Next]_ledgerVars
=============================================================================
