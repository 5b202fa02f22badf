----------------------------- MODULE MC_Mempool -----------------------------
(***************************************************************************)
(* A pool fed with transaction objects over four outputs:                  *)
(*   a   spends o1,                                                        *)
(*   b   spends o2 and o1, in conflict with a at its second input,         *)
(*   c   spends o3 and o4, with the fee of a,                              *)
(*   a2  has the TXID of a and claims another value for o1, which TXID     *)
(*       does not cover (core/transaction_test.go builds such an object),  *)
(*   e   names o3 twice.                                                   *)
(***************************************************************************)
EXTENDS Mempool

CONSTANTS o1, o2, o3, o4

mcTx == {"a", "a2", "b", "c", "e"}
mcOutpoint == {o1, o2, o3, o4}
mcTxId == [t \in mcTx |-> IF t = "a2" THEN "a" ELSE t]
mcIns == [t \in mcTx |-> CASE t \in {"a", "a2"} -> <<o1>>
                           [] t = "b" -> <<o2, o1>>
                           [] t = "c" -> <<o3, o4>>
                           [] t = "e" -> <<o3, o3>>]
mcInputValue == [t \in mcTx |-> CASE t = "a" -> 4 [] t = "a2" -> 6
                                  [] t = "b" -> 7 [] t = "c" -> 5
                                  [] t = "e" -> 6]
mcOutValues == [t \in mcTx |-> CASE t \in {"a", "a2"} -> <<2>> [] t = "c" -> <<1, 2>>
                                 [] OTHER -> <<3>>]
mcOutputValue == [t \in mcTx |-> CASE t \in {"a", "a2"} -> 2 [] OTHER -> 3]
mcMinFee == [t \in mcTx |-> IF t \in {"a", "a2"} THEN 2 ELSE 1]
mcAuthentic == [t \in mcTx |-> t # "a2"]

=============================================================================
