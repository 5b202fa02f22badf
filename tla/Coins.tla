-------------------------------- MODULE Coins --------------------------------
(***************************************************************************)
(* What db/chainstate.go promises: a map from TXIDs to the outputs left    *)
(* unspent, with a batch of records that appear together.                  *)
(***************************************************************************)
EXTENDS CoinRecords

CONSTANTS
  Txid,    \* the transactions
  Record   \* Record[t]: the record of t when it is inserted

VARIABLES
  coins,  \* the records, durable
  batch   \* the records in the batch, lost with the process

Only(t) == [i \in {t} |-> Record[t]]

Init == coins = NoRecords /\ batch = NoRecords

\* A transaction with nothing to spend is turned down (ErrSpentTX).
InsertTX(t) ==
  /\ Record[t].unspent # {}
  /\ coins' = Overlay(coins, Only(t))
  /\ UNCHANGED batch

InsertBatchTX(t) ==
  /\ Record[t].unspent # {}
  /\ batch' = Overlay(batch, Only(t))
  /\ UNCHANGED coins

WriteBatchTX == coins' = Overlay(coins, batch) /\ batch' = NoRecords

RemoveTX(t) == coins' = WithoutRecord(coins, t) /\ UNCHANGED batch

Spend(o) == coins' = RemoveUtxo(coins, o) /\ UNCHANGED batch

Lose == batch' = NoRecords /\ UNCHANGED coins

Next ==
  \/ \E t \in Txid : InsertTX(t) \/ InsertBatchTX(t) \/ RemoveTX(t)
  \/ \E o \in UnspentIn(coins) : Spend(o)
  \/ WriteBatchTX
  \/ Lose

Spec == Init /\ [][Next]_<<coins, batch>>

=============================================================================
