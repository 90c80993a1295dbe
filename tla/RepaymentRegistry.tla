------------------------- MODULE RepaymentRegistry -------------------------
(***************************************************************************)
(* contracts/core/RepaymentRegistry.sol: the permanent credit history, one *)
(* record for each loan that was closed. The vault is the one recorder.    *)
(***************************************************************************)
EXTENDS Chain, Sequences

VARIABLES
  records,            \* loan id -> record, for the loans that have one
  borrowerRepayments  \* borrower -> its recorded loan ids, oldest first

repaymentVars == <<records, borrowerRepayments>>

RepaymentOutcome == {"ON_TIME", "LATE", "DEFAULT"}

RepaymentRecord ==
  [borrower : Users, amount : Nat, timestamp : Nat, outcome : RepaymentOutcome]

RepaymentTypeOK ==
  /\ DOMAIN records \subseteq Nat
  /\ records \in [DOMAIN records -> RepaymentRecord]
  /\ borrowerRepayments \in [Users -> Seq(Nat)]

RepaymentInit ==
  /\ records = [id \in {} |-> {}]
  /\ borrowerRepayments = [b \in Users |-> <<>>]

\* A second record for the same loan is refused (AlreadyRecorded), and with
\* it the transaction that asked for it.
RecordRepayment(id, borrower, amount, outcome) ==
  /\ id \notin DOMAIN records
  /\ records' = [i \in DOMAIN records \cup {id} |->
       IF i = id
       THEN [borrower |-> borrower, amount |-> amount,
             timestamp |-> now, outcome |-> outcome]
       ELSE records[i]]
  /\ borrowerRepayments' = [borrowerRepayments EXCEPT ![borrower] = Append(@, id)]
=============================================================================
