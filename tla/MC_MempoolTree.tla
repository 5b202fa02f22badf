--------------------------- MODULE MC_MempoolTree ---------------------------
(***************************************************************************)
(* Six transactions, no two in conflict, with fees 1, 2, 3, 3, 4 and 5:    *)
(* enough nodes for a double rotation, and a chain that can sit at a node  *)
(* with two children, at its successor, or be left behind there.           *)
(***************************************************************************)
EXTENDS MempoolTree

mcFee == [f1 |-> 1, f2 |-> 2, f3a |-> 3, f3b |-> 3, f4 |-> 4, f5 |-> 5]
mcTx == DOMAIN mcFee
mcOutpoint == mcTx
mcTxId == [t \in mcTx |-> t]
mcIns == [t \in mcTx |-> <<t>>]
mcInputValue == [t \in mcTx |-> mcFee[t] + 1]
mcOutValues == [t \in mcTx |-> <<1>>]
mcOutputValue == [t \in mcTx |-> 1]
mcMinFee == [t \in mcTx |-> 1]
mcAuthentic == [t \in mcTx |-> TRUE]

=============================================================================
