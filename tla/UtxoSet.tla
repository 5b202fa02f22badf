------------------------------ MODULE UtxoSet ------------------------------
(***************************************************************************)
(* What InsertBlock promises about the chainstate ("confirming block as    *)
(* valid will remove UTXOs used in this block and add the new UTXOs        *)
(* created in this block", core/blockchain.go): a valid block is applied   *)
(* at once and as a whole.                                                 *)
(***************************************************************************)
EXTENDS Blocks

CONSTANT InitialUtxo

VARIABLE utxo  \* the unspent outputs

Init == utxo = InitialUtxo

Apply(b) ==
  /\ ValidateBlock(b, utxo)
  /\ utxo' = (utxo \ Refers(b)) \cup Creates(b)

Next == \E b \in Block : Apply(b)

Spec == Init /\ [][Next]_utxo

=============================================================================
