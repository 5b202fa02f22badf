------------------------------ MODULE MC_Stores ------------------------------
(***************************************************************************)
(* Two bits to a byte, three page numbers, two bytes to a page.            *)
(*   A  a coinbase with three outputs: a vector of two bytes, not full,    *)
(*   B  two outputs, the first spent already when it is inserted,          *)
(*   D  one output, spent: InsertTX turns it down.                         *)
(*   b  a block of three pages, exactly as many as there are numbers, or,  *)
(*      with a shorter signature, of two, the second not full,             *)
(*   u  undo data of two full pages, in two versions,                      *)
(*   o  a block that needs four pages, or one.                             *)
(***************************************************************************)
EXTENDS Stores

CONSTANTS A, B, D  \* model values, so that they compare with page keys

mcTxid == {A, B, D}
mcOut(v, u) == [value |-> v, isNotSpent |-> u]
mcOutputs == A :> <<mcOut(5, TRUE), mcOut(6, TRUE), mcOut(7, TRUE)>>
          @@ B :> <<mcOut(8, FALSE), mcOut(9, TRUE)>>
          @@ D :> <<mcOut(4, FALSE)>>
mcCoinbaseOf == [t \in mcTxid |-> t = A]
mcHeightOf == [t \in mcTxid |-> IF t = A THEN 1 ELSE 0]

mcPagedKey == {"b", "u", "o"}
mcContents == [b |-> {<<1, 2, 3, 4, 5>>, <<6, 7, 8>>},
               u |-> {<<1, 1, 1, 1>>, <<2, 2, 2, 2>>},
               o |-> {<<6, 6, 7, 7, 8, 8, 9>>, <<9>>}]

=============================================================================
