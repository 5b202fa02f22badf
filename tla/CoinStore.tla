------------------------------ MODULE CoinStore ------------------------------
(***************************************************************************)
(* db/chainstate.go, every operation, over the database wrapper and the    *)
(* metadata of core/transaction.go and core/txmetadata_reader.go.  Keys    *)
(* are TXIDs, values are metadata.  Coins says what it promises.           *)
(***************************************************************************)
EXTENDS DBwrapper, Metadata, FiniteSets

CONSTANTS
  Txid,        \* the transactions inserted
  Outputs,     \* Outputs[t]: their outputs, [value, isNotSpent], in order
  CoinbaseOf,  \* CoinbaseOf[t]: t.IsCoinbase
  HeightOf     \* HeightOf[t]: t.BlockHeight

ASSUME CoinStoreAssumption ==
  /\ Outputs \in [Txid -> Seq([value : Nat, isNotSpent : BOOLEAN])]
  /\ CoinbaseOf \in [Txid -> BOOLEAN]
  /\ HeightOf \in [Txid -> Nat]

VARIABLE byBatch  \* history: the TXIDs whose record was last written by a batch

coinVars == <<dbVars, byBatch>>

MetadataOf(t) ==
  SerializeTXMetadata([isCoinbase |-> CoinbaseOf[t], height |-> HeightOf[t],
                       outs |-> Outputs[t]])

IsSpent(t) == \A i \in DOMAIN Outputs[t] : ~Outputs[t][i].isNotSpent

InsertTX(t) ==
  /\ open
  /\ ~IsSpent(t)
  /\ Insert(t, MetadataOf(t))
  /\ byBatch' = byBatch \ {t}

InsertBatchTX(t) ==
  /\ open
  /\ ~IsSpent(t)
  /\ PutInBatch(t, MetadataOf(t))
  /\ UNCHANGED byBatch

WriteBatchTX ==
  /\ open
  /\ byBatch' = byBatch \cup DOMAIN currentBatch
  /\ WriteBatch

RemoveTX(t) ==
  /\ open
  /\ byBatch' = byBatch \ {t}
  /\ Delete(t)

(***************************************************************************)
(* Reading a record.  The results are those for a record that is legible.  *)
(***************************************************************************)
Meta(t) == Get(t).data

\* GetUtxo: the output found, in a set, or {} for "not found".
GetUtxo(t, vout) ==
  IF t \notin DOMAIN store THEN {} ELSE
    LET outs == ReadOutputs(Meta(t))
    IN  {outs[i] : i \in {j \in DOMAIN outs : outs[j].vout = vout}}

\* Mutant: the bound is the length of the other result of ReadBitVector, the
\* outputs still unspent.
UtxoExists_CountsUnspent(t, vout) ==
  CASE t \notin DOMAIN store -> "false"
    [] t \in DOMAIN store /\ Len(Vouts(Meta(t))) < vout -> "false"
    [] t \in DOMAIN store /\ Meta(t).noOfOutputs = vout -> "panics"
    [] OTHER -> IF BitIsSet(Meta(t), vout) THEN "true" ELSE "false"

\* The check passes for vout = len(bitvec), which is out of its range.
UtxoExists(t, vout) ==
  CASE t \notin DOMAIN store -> "false"
    [] t \in DOMAIN store /\ Meta(t).noOfOutputs < vout -> "false"
    [] t \in DOMAIN store /\ Meta(t).noOfOutputs = vout -> "panics"
    [] OTHER -> IF BitIsSet(Meta(t), vout) THEN "true" ELSE "false"

GetNoOfUTXOs(t) == Len(Vouts(Meta(t)))

(***************************************************************************)
(* RemoveUtxo, where it returns true.                                      *)
(***************************************************************************)
\* The last unspent output takes the record with it.
RemoveLastUtxo(t, vout) ==
  /\ open
  /\ t \in DOMAIN store /\ Legible(t)
  /\ Vouts(Meta(t)) = <<vout>>
  /\ Delete(t)
  /\ byBatch' = byBatch \ {t}

\* Mutant: the outputs left are put one after the other, not at their vout.
FakeTransaction_Compacted(m, vout) ==
  LET outs == SelectSeq(ReadOutputs(m), LAMBDA o : o.vout # vout)
  IN  [isCoinbase |-> FALSE, height |-> 0,
       outs |-> [i \in 1 .. m.noOfOutputs |->
                   IF i \in DOMAIN outs THEN [value |-> outs[i].value, isNotSpent |-> TRUE]
                   ELSE [value |-> 0, isNotSpent |-> FALSE]]]

\* The new transaction the rest of the record is serialized from: what is still
\* unspent at its place, spent dummies elsewhere.
FakeTransaction(m, vout) ==
  LET outs == ReadOutputs(m)
      Kept(i) == {j \in DOMAIN outs : outs[j].vout = i - 1 /\ outs[j].vout # vout}
  IN  [isCoinbase |-> FALSE, height |-> 0,
       outs |-> [i \in 1 .. m.noOfOutputs |->
                   IF Kept(i) # {}
                   THEN [value |-> outs[CHOOSE j \in Kept(i) : TRUE].value, isNotSpent |-> TRUE]
                   ELSE [value |-> 0, isNotSpent |-> FALSE]]]

RemoveOneUtxo(t, vout) ==
  /\ open
  /\ t \in DOMAIN store /\ Legible(t)
  /\ vout < Meta(t).noOfOutputs
  /\ BitIsSet(Meta(t), vout)
  /\ Vouts(Meta(t)) # <<vout>>
  /\ Insert(t, SerializeTXMetadata(FakeTransaction(Meta(t), vout)))
  /\ byBatch' = byBatch \ {t}

\* The reader takes noise for lengths, runs out of the record and panics.
ReadNoise(t) ==
  /\ t \in DOMAIN store /\ ~Legible(t)
  /\ Lost
  /\ UNCHANGED byBatch

CoinStep ==
  \/ \E t \in Txid : InsertTX(t)
  \/ \E t \in Txid : InsertBatchTX(t)
  \/ WriteBatchTX
  \/ \E t \in Txid : RemoveTX(t)
  \/ \E t \in Txid : \E vout \in 0 .. Len(Outputs[t]) : RemoveLastUtxo(t, vout)
  \/ \E t \in Txid : \E vout \in 0 .. Len(Outputs[t]) : RemoveOneUtxo(t, vout)
  \/ \E t \in Txid : ReadNoise(t)

-----------------------------------------------------------------------------
Stored == DOMAIN store \cap Txid
Records == {t \in Stored : WillBeLegible(t)}

\* A record is noise exactly if the database obfuscates and the record was last
\* written by a batch: PutInBatch does not obfuscate, Get does.  Everything else
\* stays legible, across restarts too.
LegibleUnlessBatched ==
  \A t \in Stored : WillBeLegible(t) <=> ~(isObfuscated /\ t \in byBatch)

\* Whatever was spent before and in whatever order, an output that GetUtxo finds
\* has the value it was created with (ReadOutputs pairs values with vouts by
\* their order, RemoveUtxo writes them anew), and GetNoOfUTXOs counts it.
ValueKept ==
  \A t \in Records :
    /\ \A vout \in 0 .. Len(Outputs[t]) : \A o \in GetUtxo(t, vout) :
         o.value = Outputs[t][vout + 1].value
    /\ GetNoOfUTXOs(t) > 0
    /\ GetNoOfUTXOs(t) <= Cardinality({i \in DOMAIN Outputs[t] : Outputs[t][i].isNotSpent})

\* UtxoExists, which reads the vector of bits, tells what GetUtxo finds, which
\* searches the outputs read, whatever was spent before and in whatever order.
\* (For the output after the last one UtxoExists gives no answer: see there.)
UtxoExistsAgrees ==
  \A t \in Records : \A vout \in (0 .. Len(Outputs[t]) + 1) \ {Len(Outputs[t])} :
    UtxoExists(t, vout) = IF GetUtxo(t, vout) # {} THEN "true" ELSE "false"

\* What a caller reads out of the metadata m.
RecordIn(m) == [stamp |-> 2 * m.height + (IF m.isCoinbase THEN 1 ELSE 0),
                unspent |-> {Vouts(m)[i] : i \in DOMAIN Vouts(m)}]

ReadCoins == [t \in Records |-> RecordIn(Meta(t))]
ReadBatch == [t \in DOMAIN currentBatch |-> RecordIn(currentBatch[t].data)]

C == INSTANCE Coins WITH coins <- ReadCoins, batch <- ReadBatch,
                         Record <- [t \in Txid |-> RecordIn(MetadataOf(t))]

\* Every operation that leaves all records legible is the operation of Coins of
\* that name, on what can be read: packing, spends in any order, restarts and
\* obfuscation do not show.
StepsLikeCoins ==
  Records' = Stored' =>
    /\ C!Next \/ UNCHANGED <<ReadCoins, ReadBatch>>
    /\ \A t \in Txid : /\ InsertTX(t) => C!InsertTX(t)
                       /\ InsertBatchTX(t) => C!InsertBatchTX(t)
                       /\ RemoveTX(t) => C!RemoveTX(t)
    /\ \A t \in Txid : \A vout \in 0 .. Len(Outputs[t]) :
         RemoveLastUtxo(t, vout) \/ RemoveOneUtxo(t, vout) =>
           <<t, vout>> \in C!UnspentIn(ReadCoins) /\ C!Spend(<<t, vout>>)
    /\ WriteBatchTX => C!WriteBatchTX

ImplementsCoins == [][StepsLikeCoins]_coinVars

=============================================================================
