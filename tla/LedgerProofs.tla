---------------------------- MODULE LedgerProofs ----------------------------
(***************************************************************************)
(* What InsertBlock keeps, for all transactions, blocks and initial        *)
(* records, wherever the process dies and whichever write fails.           *)
(*                                                                         *)
(* The chainstate part of the invariant, ChainInv, says what the call      *)
(* under way has done so far: the block was valid for the outputs unspent  *)
(* when it was accepted, and the chainstate has lost since what the inputs *)
(* passed so far refer to and nothing else.  The pool's part is that of    *)
(* MempoolProofs: every step of the ledger is one of the pool, for which   *)
(* the chainstate is outside.                                              *)
(***************************************************************************)
EXTENDS Ledger, WellFoundedInduction, TLAPS

PoolThms == INSTANCE MempoolProofs WITH unspent <- Unspent

-----------------------------------------------------------------------------
\* The unspent outputs of cs are the pairs of a TXID and a vout its record lists.
LEMMA UnspentInPairs ==
  ASSUME NEW cs, NEW o
  PROVE  o \in UnspentIn(cs) <=>
           \E i \in DOMAIN cs : \E v \in cs[i].unspent : o = <<i, v>>
  BY DEF UnspentIn

\* The same for a pair.
LEMMA PairInUnspentIn ==
  ASSUME NEW cs, NEW i, NEW v
  PROVE  <<i, v>> \in UnspentIn(cs) <=> i \in DOMAIN cs /\ v \in cs[i].unspent
  BY UnspentInPairs

\* What RemoveUtxo (db/chainstate.go) leaves of each record.
LEMMA RemoveUtxoRecords ==
  ASSUME NEW cs, NEW o \in UnspentIn(cs)
  PROVE  /\ DOMAIN RemoveUtxo(cs, o) \subseteq DOMAIN cs
         /\ DOMAIN cs \subseteq DOMAIN RemoveUtxo(cs, o) \cup {o[1]}
         /\ \A i \in DOMAIN RemoveUtxo(cs, o) :
              IF i = o[1]
              THEN /\ RemoveUtxo(cs, o)[i] = [stamp |-> 0, unspent |-> cs[i].unspent \ {o[2]}]
                   /\ cs[i].unspent # {o[2]}
              ELSE RemoveUtxo(cs, o)[i] = cs[i]
         /\ o[1] \notin DOMAIN RemoveUtxo(cs, o) => cs[o[1]].unspent = {o[2]}
  <1>1. PICK i \in DOMAIN cs : \E v \in cs[i].unspent : o = <<i, v>>
    BY UnspentInPairs
  <1>2. CASE cs[o[1]].unspent = {o[2]}
    BY <1>1, <1>2 DEF RemoveUtxo, WithoutRecord
  <1>3. CASE cs[o[1]].unspent # {o[2]}
    BY <1>1, <1>3 DEF RemoveUtxo
  <1> QED  BY <1>2, <1>3

\* RemoveUtxo removes one unspent output and no other.
LEMMA RemoveUtxoUnspent ==
  ASSUME NEW cs, NEW o \in UnspentIn(cs)
  PROVE  UnspentIn(RemoveUtxo(cs, o)) = UnspentIn(cs) \ {o}
  <1> DEFINE new == RemoveUtxo(cs, o)
  <1>1. PICK j \in DOMAIN cs : \E w \in cs[j].unspent : o = <<j, w>>
    BY UnspentInPairs
  <1>2. \A i, v : <<i, v>> \in UnspentIn(new) <=> <<i, v>> \in UnspentIn(cs) /\ <<i, v>> # o
    <2> TAKE i, v
    <2>1. /\ <<i, v>> \in UnspentIn(new) <=> i \in DOMAIN new /\ v \in new[i].unspent
          /\ <<i, v>> \in UnspentIn(cs) <=> i \in DOMAIN cs /\ v \in cs[i].unspent
      BY PairInUnspentIn
    <2>2. CASE i = o[1]
      <3>1. <<i, v>> = o <=> v = o[2]
        BY <1>1, <2>2
      <3>2. i \in DOMAIN new => new[i].unspent = cs[i].unspent \ {o[2]}
        BY <2>2, RemoveUtxoRecords
      <3>3. i \notin DOMAIN new => cs[i].unspent = {o[2]}
        BY <2>2, RemoveUtxoRecords
      <3>4. DOMAIN new \subseteq DOMAIN cs
        BY RemoveUtxoRecords
      <3> QED  BY <2>1, <3>1, <3>2, <3>3, <3>4
    <2>3. CASE i # o[1]
      <3>1. <<i, v>> # o
        BY <2>3
      <3>2. i \in DOMAIN new <=> i \in DOMAIN cs
        BY <2>3, RemoveUtxoRecords
      <3>3. i \in DOMAIN new => new[i] = cs[i]
        BY <2>3, RemoveUtxoRecords
      <3> QED  BY <2>1, <3>1, <3>2, <3>3
    <2> QED  BY <2>2, <2>3
  <1> HIDE DEF new
  <1>3. UnspentIn(new) \subseteq UnspentIn(cs) \ {o}
    BY <1>2, UnspentInPairs
  <1>4. UnspentIn(cs) \ {o} \subseteq UnspentIn(new)
    BY <1>2, UnspentInPairs
  <1> QED  BY <1>3, <1>4 DEF new

\* Writing a batch adds the outputs of its records and takes away those of the
\* records it replaces, no other.
LEMMA OverlayUnspent ==
  ASSUME NEW cs, NEW b
  PROVE  UnspentIn(Overlay(cs, b)) =
           UnspentIn(b) \cup {o \in UnspentIn(cs) : o[1] \notin DOMAIN b}
  <1> DEFINE new == Overlay(cs, b)
             old == {o \in UnspentIn(cs) : o[1] \notin DOMAIN b}
  <1>1. /\ DOMAIN new = DOMAIN cs \cup DOMAIN b
        /\ \A i \in DOMAIN b : new[i] = b[i]
        /\ \A i \in DOMAIN cs \ DOMAIN b : new[i] = cs[i]
    BY DEF Overlay
  <1> HIDE DEF new
  <1>2. ASSUME NEW o \in UnspentIn(new)
        PROVE  o \in UnspentIn(b) \cup old
    BY <1>1, <1>2, UnspentInPairs
  <1>3. ASSUME NEW o \in UnspentIn(b)
        PROVE  o \in UnspentIn(new)
    BY <1>1, <1>3, UnspentInPairs
  <1>4. ASSUME NEW o \in old
        PROVE  o \in UnspentIn(new)
    BY <1>1, <1>4, UnspentInPairs
  <1> QED  BY <1>2, <1>3, <1>4 DEF new

-----------------------------------------------------------------------------
\* What the call under way has removed from the chainstate so far.
Removed ==
  {o \in Outpoint :
     \E i \in DOMAIN Txs[blk] : \E k \in DOMAIN Ins[Txs[blk][i]] :
       /\ o = Ins[Txs[blk][i]][k]
       /\ i < txi \/ (i = txi /\ k <= inp)}

\* How far a call has come, and what it has stored by then.
Position ==
  /\ pc # "idle" => alive /\ blk \in HeaderAnswers
  /\ pc \in {"undo", "index", "confirm"} => blk \in blockData
  /\ pc \in {"index", "confirm"} => blk \in DOMAIN undo
  /\ pc = "confirm" =>
       /\ txi <= Len(Txs[blk]) + 1
       /\ InBlock => inp <= Len(Ins[CurTx])
  /\ pc = "evict" => txi >= 2

\* The block of the call was valid when it was accepted, and the chainstate
\* differs from what it was by what has been removed, all of which was there.
Accepted ==
  /\ pc \notin {"idle", "evict"} => ValidateBlock(blk, before)
  /\ pc \in {"store", "undo", "index"} => before = Unspent
  /\ pc = "confirm" => Removed \subseteq before /\ Unspent = before \ Removed

\* A record holds outputs of the transaction it is filed under; one in the
\* batch holds them all, and is of a block that is stored.
RecordsFit ==
  /\ Unspent \subseteq Outpoint
  /\ \A t \in Tx : TxId[t] \in DOMAIN coins =>
       coins[TxId[t]].unspent \subseteq 0 .. NOut(t) - 1
  /\ \A i \in DOMAIN batch :
       /\ batch[i].unspent # {}
       /\ \E b \in blockData : i \in IdsOf(b)
  /\ \A t \in Tx : TxId[t] \in DOMAIN batch => batch[TxId[t]].unspent = 0 .. NOut(t) - 1

\* The transactions of the block before the current one are in the batch.
Batched ==
  pc = "confirm" =>
    \A i \in DOMAIN Txs[blk] : i < txi => TxId[Txs[blk][i]] \in DOMAIN batch

\* Unless a call failed, nothing else is.
BatchIsOfBlock ==
  failed \/ \A i \in DOMAIN batch : pc = "confirm" /\ i \in IdsOf(blk)

\* The undo records of a block are for what it spends.
UndoIsOfBlock ==
  \A b \in DOMAIN undo : {u.out : u \in undo[b]} = Spends(b)

ChainInv ==
  /\ ChainTypeOK
  /\ Position
  /\ Accepted
  /\ RecordsFit
  /\ Batched
  /\ BatchIsOfBlock
  /\ UndoIsOfBlock
  /\ NoEmptyRecord
  /\ IndexedIsStored
  /\ LostIsRecoverable
  /\ CreatedByConfirmed

-----------------------------------------------------------------------------
\* The transactions of a block, and the sequences they carry.
LEMMA BlockTypes ==
  ASSUME NEW b \in Block
  PROVE  /\ Txs[b] \in Seq(Tx)
         /\ Len(Txs[b]) \in Nat \ {0}
         /\ DOMAIN Txs[b] = 1 .. Len(Txs[b])
         /\ \A i \in DOMAIN Txs[b] : Txs[b][i] \in Tx
         /\ TxsOf(b) \subseteq Tx
  <1>1. Txs[b] \in Seq(Tx) \ {<<>>}
    BY BlocksAssumption
  <1>2. \A i \in DOMAIN Txs[b] : Txs[b][i] \in Tx
    BY <1>1
  <1> QED  BY <1>1, <1>2 DEF TxsOf

\* The sequences of a transaction, and the record made of it.
LEMMA TxTypes ==
  ASSUME NEW t \in Tx
  PROVE  /\ Ins[t] \in Seq(Outpoint)
         /\ Len(Ins[t]) \in Nat
         /\ DOMAIN Ins[t] = 1 .. Len(Ins[t])
         /\ \A k \in DOMAIN Ins[t] : Ins[t][k] \in Outpoint
         /\ NOut(t) \in Nat
         /\ InputSet(t) \subseteq Outpoint
         /\ Metadata(t) \in [stamp : Nat, unspent : SUBSET Nat]
         /\ Metadata(t).unspent = 0 .. NOut(t) - 1
  <1>1. Ins[t] \in Seq(Outpoint)
    BY TransactionAssumption
  <1>2. OutValues[t] \in Seq(0 .. Uint64 - 1)
    BY TransactionAssumption
  <1>3. NOut(t) \in Nat
    BY <1>2 DEF NOut
  <1>4. BlockHeight[t] \in Nat
    BY BlocksAssumption
  <1>5. 2 * BlockHeight[t] + (IF IsCoinbase[t] THEN 1 ELSE 0) \in Nat
    BY <1>4
  <1> QED  BY <1>1, <1>3, <1>5 DEF InputSet, Metadata

\* Objects with one TXID have the same inputs and as many outputs.
LEMMA SameId ==
  ASSUME NEW s \in Tx, NEW t \in Tx, TxId[s] = TxId[t]
  PROVE  InputSet(s) = InputSet(t) /\ NOut(s) = NOut(t) /\ Ins[s] = Ins[t]
  BY TransactionAssumption DEF InputSet, NOut

\* What a valid block spends is unspent (ValidateBlockTx).
LEMMA ValidSpends ==
  ASSUME NEW b \in Block, NEW u, ValidateBlock(b, u)
  PROVE  /\ \A i \in Regular(Txs[b]) : InputsDistinct(Txs[b][i]) /\ InputSet(Txs[b][i]) \subseteq u
         /\ \A i, j \in Regular(Txs[b]) :
              i # j => InputSet(Txs[b][i]) \cap InputSet(Txs[b][j]) = {}
         /\ Spends(b) \subseteq u
  <1>1. Regular(Txs[b]) \subseteq Nat
    BY BlockTypes DEF Regular
  <1>2. \A i \in Regular(Txs[b]) :
          /\ ValidateTransaction(Txs[b][i], u)
          /\ ~\E j \in Regular(Txs[b]) :
               j < i /\ InputSet(Txs[b][j]) \cap InputSet(Txs[b][i]) # {}
    BY DEF ValidateBlock, Offending
  <1>3. \A i \in Regular(Txs[b]) : InputsDistinct(Txs[b][i]) /\ InputSet(Txs[b][i]) \subseteq u
    BY <1>2 DEF ValidateTransaction
  <1>4. ASSUME NEW i \in Regular(Txs[b]), NEW j \in Regular(Txs[b]), i # j
        PROVE  InputSet(Txs[b][i]) \cap InputSet(Txs[b][j]) = {}
    <2>1. CASE j < i
      BY <1>2, <2>1
    <2>2. CASE i < j
      BY <1>2, <2>2
    <2> QED  BY <1>1, <1>4, <2>1, <2>2
  <1> QED  BY <1>3, <1>4 DEF Spends

\* The places of a block: the first and the regular ones.
LEMMA Places ==
  ASSUME NEW b \in Block
  PROVE  /\ DOMAIN Txs[b] = {1} \cup Regular(Txs[b])
         /\ Regular(Txs[b]) \subseteq DOMAIN Txs[b] \ {1}
         /\ Spends(b) \subseteq Outpoint
  <1>1. DOMAIN Txs[b] = {1} \cup Regular(Txs[b]) /\ Regular(Txs[b]) \subseteq DOMAIN Txs[b] \ {1}
    BY BlockTypes DEF Regular
  <1> QED  BY <1>1, BlockTypes, TxTypes DEF Spends

\* A call starts, and ends, with nothing removed.
LEMMA InitChain == Init => ChainInv
  <1> SUFFICES ASSUME Init  PROVE ChainInv
    OBVIOUS
  <1> USE DEF Init, NoCall, NoRecords
  <1>1. ChainTypeOK
    <2>1. IsRecords(coins) /\ IsRecords(batch)
      BY LedgerAssumption DEF IsRecords, Ids
    <2>2. blk \in Block
      BY LedgerAssumption
    <2>3. confirmed \in [Block -> Nat] /\ failed \in BOOLEAN
      OBVIOUS
    <2> QED  BY <2>1, <2>2, <2>3 DEF ChainTypeOK
  <1>2. Position /\ Accepted /\ Batched /\ BatchIsOfBlock /\ UndoIsOfBlock
    BY DEF Position, Accepted, Batched, BatchIsOfBlock, UndoIsOfBlock
  <1>3. RecordsFit
    BY LedgerAssumption DEF RecordsFit, Unspent
  <1>4. NoEmptyRecord
    BY LedgerAssumption DEF NoEmptyRecord
  <1>5. IndexedIsStored /\ CreatedByConfirmed
    BY DEF IndexedIsStored, CreatedByConfirmed
  <1>6. LostIsRecoverable
    BY DEF LostIsRecoverable, Known, Unspent
  <1> QED  BY <1>1, <1>2, <1>3, <1>4, <1>5, <1>6 DEF ChainInv

\* A step that leaves records, stores, batch and call alone.
LEMMA PoolStepKeepsChain ==
  ASSUME ChainInv, UNCHANGED ledgerVars, pc # "idle" => alive'
  PROVE  ChainInv'
  <1> USE DEF ledgerVars, diskVars, posVars, histVars
  <1>1. UNCHANGED <<coins, blockData, undo, index, batch, pc, blk, txi, inp, before,
                    confirmed, failed>>
    OBVIOUS
  <1>2. Unspent' = Unspent /\ Removed' = Removed /\ Known' = Known
    BY <1>1 DEF Unspent, Removed, Known
  <1>3. ChainTypeOK'
    BY <1>1 DEF ChainInv, ChainTypeOK, IsRecords
  <1>4. Position'
    BY <1>1 DEF ChainInv, Position, InBlock, CurTx
  <1>5. Accepted' /\ RecordsFit' /\ Batched' /\ BatchIsOfBlock' /\ UndoIsOfBlock'
    BY <1>1, <1>2 DEF ChainInv, Accepted, RecordsFit, Batched, BatchIsOfBlock, UndoIsOfBlock
  <1>6. NoEmptyRecord' /\ IndexedIsStored' /\ LostIsRecoverable' /\ CreatedByConfirmed'
    BY <1>1, <1>2 DEF ChainInv, NoEmptyRecord, IndexedIsStored, LostIsRecoverable,
         CreatedByConfirmed
  <1> QED  BY <1>3, <1>4, <1>5, <1>6 DEF ChainInv

\* A step that leaves records, stores and history alone keeps what is said of
\* them.
LEMMA StoresKeep ==
  ASSUME ChainInv, UNCHANGED <<coins, blockData, undo, index, confirmed, failed>>
  PROVE  /\ UndoIsOfBlock' /\ NoEmptyRecord' /\ IndexedIsStored'
         /\ LostIsRecoverable' /\ CreatedByConfirmed'
         /\ Unspent' = Unspent
  <1>1. Unspent' = Unspent /\ Known' = Known
    BY DEF Unspent, Known
  <1> QED
    BY <1>1 DEF ChainInv, UndoIsOfBlock, NoEmptyRecord, IndexedIsStored, LostIsRecoverable,
         CreatedByConfirmed

\* AcceptBlock: the block is valid for what is unspent now.
LEMMA AcceptBlockKeeps ==
  ASSUME ChainInv, NEW b \in Block, AcceptBlock(b)
  PROVE  ChainInv'
  <1> USE DEF AcceptBlock, Idle, diskVars, histVars
  <1>1. /\ UndoIsOfBlock' /\ NoEmptyRecord' /\ IndexedIsStored'
        /\ LostIsRecoverable' /\ CreatedByConfirmed'
        /\ Unspent' = Unspent
    BY StoresKeep
  <1>2. ChainTypeOK'
    BY DEF ChainInv, ChainTypeOK, IsRecords, RecordsFit
  <1>3. Position' /\ Batched'
    BY DEF Position, Batched, poolVars
  <1>4. Accepted'
    BY <1>1 DEF Accepted
  <1>5. RecordsFit' /\ BatchIsOfBlock'
    BY <1>1 DEF ChainInv, RecordsFit, BatchIsOfBlock
  <1> QED  BY <1>1, <1>2, <1>3, <1>4, <1>5 DEF ChainInv

\* A call that ends, with an error or without, and a process that dies: records
\* and stores stay as they are.
LEMMA CallEndsKeeps ==
  ASSUME ChainInv, CallEnds, UNCHANGED <<coins, diskVars, blk, confirmed>>,
         \/ batch' = NoRecords /\ failed' = failed
         \/ batch' = batch /\ failed' = TRUE
         \/ batch' = batch /\ failed' = failed /\ pc = "evict"
  PROVE  ChainInv'
  <1> USE DEF CallEnds, diskVars
  <1>1. Unspent' = Unspent /\ Known' = Known
    BY DEF Unspent, Known
  <1>2. ChainTypeOK'
    <2>1. failed' \in BOOLEAN
      BY DEF ChainInv, ChainTypeOK
    <2>2. IsRecords(batch')
      BY DEF ChainInv, ChainTypeOK, IsRecords, NoRecords
    <2> QED  BY <2>1, <2>2 DEF ChainInv, ChainTypeOK, IsRecords
  <1>3. Position' /\ Batched' /\ Accepted'
    BY DEF Position, Batched, Accepted
  <1>4. RecordsFit'
    BY <1>1 DEF ChainInv, RecordsFit, NoRecords
  <1>5. BatchIsOfBlock'
    BY DEF ChainInv, BatchIsOfBlock, NoRecords
  <1>6. UndoIsOfBlock' /\ NoEmptyRecord' /\ IndexedIsStored' /\ LostIsRecoverable'
    BY <1>1 DEF ChainInv, UndoIsOfBlock, NoEmptyRecord, IndexedIsStored, LostIsRecoverable
  <1>7. CreatedByConfirmed'
    BY DEF ChainInv, CreatedByConfirmed
  <1> QED  BY <1>2, <1>3, <1>4, <1>5, <1>6, <1>7 DEF ChainInv

\* WriteBlock, its first write: the block's data.
LEMMA StoreDataKeeps ==
  ASSUME ChainInv, StoreData
  PROVE  ChainInv'
  <1> USE DEF StoreData, diskVars, posVars, histVars, poolVars
  <1>1. Unspent' = Unspent /\ Known' = Known /\ Removed' = Removed
    BY DEF Unspent, Known, Removed
  <1>2. ChainTypeOK'
    BY DEF ChainInv, ChainTypeOK, IsRecords
  <1>3. Position' /\ Batched' /\ Accepted'
    BY <1>1 DEF ChainInv, Position, Batched, Accepted
  <1>4. RecordsFit' /\ BatchIsOfBlock'
    BY <1>1 DEF ChainInv, RecordsFit, BatchIsOfBlock
  <1>5. UndoIsOfBlock' /\ NoEmptyRecord' /\ IndexedIsStored' /\ LostIsRecoverable'
    BY <1>1 DEF ChainInv, UndoIsOfBlock, NoEmptyRecord, IndexedIsStored, LostIsRecoverable
  <1>6. CreatedByConfirmed'
    BY DEF ChainInv, CreatedByConfirmed
  <1> QED  BY <1>2, <1>3, <1>4, <1>5, <1>6 DEF ChainInv

\* GetUndoData finds a record for every output the block spends.
LEMMA UndoDataTypes ==
  ASSUME ChainInv, StoreUndo
  PROVE  /\ UndoData(blk) \subseteq [out : Outpoint, stamp : Nat]
         /\ {u.out : u \in UndoData(blk)} = Spends(blk)
  <1>1. blk \in Block /\ Spends(blk) \subseteq Unspent
    BY ValidSpends DEF StoreUndo, ChainInv, ChainTypeOK, Accepted
  <1>2. ASSUME NEW o \in Spends(blk)
        PROVE  o \in Outpoint /\ coins[o[1]].stamp \in Nat
    <2>1. PICK i \in DOMAIN coins : \E v \in coins[i].unspent : o = <<i, v>>
      BY <1>1, UnspentInPairs DEF Unspent
    <2>2. coins[i] \in [stamp : Nat, unspent : SUBSET Nat]
      BY DEF ChainInv, ChainTypeOK, IsRecords
    <2> QED  BY <1>1, <2>1, <2>2, Places
  <1>3. {u.out : u \in UndoData(blk)} = Spends(blk)
    <2>1. ASSUME NEW o \in Spends(blk)
          PROVE  \E u \in UndoData(blk) : u.out = o
      <3>1. [out |-> o, stamp |-> coins[o[1]].stamp] \in UndoData(blk)
        BY DEF UndoData
      <3> QED  BY <3>1
    <2>2. \A u \in UndoData(blk) : u.out \in Spends(blk)
      BY DEF UndoData
    <2> QED  BY <2>1, <2>2
  <1> QED  BY <1>2, <1>3 DEF UndoData

\* WriteBlock, its second write: the undo records, which replace those of an
\* earlier attempt at the same block and are for the same outputs.
LEMMA StoreUndoKeeps ==
  ASSUME ChainInv, StoreUndo
  PROVE  ChainInv'
  <1> USE DEF StoreUndo, diskVars, posVars, histVars, poolVars
  <1>1. Unspent' = Unspent /\ Known' = Known /\ Removed' = Removed
    BY DEF Unspent, Known, Removed
  <1>2. /\ DOMAIN undo' = DOMAIN undo \cup {blk}
        /\ undo'[blk] = UndoData(blk)
        /\ \A b \in DOMAIN undo \ {blk} : undo'[b] = undo[b]
        /\ blk \in Block /\ blk \in blockData
    BY DEF ChainInv, ChainTypeOK, Position
  <1>3. /\ undo'[blk] \subseteq [out : Outpoint, stamp : Nat]
        /\ {u.out : u \in undo'[blk]} = Spends(blk)
    BY <1>2, UndoDataTypes
  <1>4. ChainTypeOK'
    <2>1. IsRecords(coins)' /\ IsRecords(batch)'
      BY DEF ChainInv, ChainTypeOK, IsRecords
    <2>2. DOMAIN undo' \subseteq Block /\ \A b \in DOMAIN undo' : undo'[b] \subseteq [out : Outpoint, stamp : Nat]
      BY <1>2, <1>3 DEF ChainInv, ChainTypeOK
    <2> QED  BY <2>1, <2>2 DEF ChainInv, ChainTypeOK
  <1>5. Position' /\ Batched' /\ Accepted'
    BY <1>1, <1>2 DEF ChainInv, Position, Batched, Accepted
  <1>6. RecordsFit' /\ BatchIsOfBlock'
    BY <1>1 DEF ChainInv, RecordsFit, BatchIsOfBlock
  <1>7. UndoIsOfBlock'
    BY <1>2, <1>3 DEF ChainInv, UndoIsOfBlock
  <1>8. NoEmptyRecord' /\ IndexedIsStored' /\ CreatedByConfirmed'
    BY <1>2 DEF ChainInv, NoEmptyRecord, IndexedIsStored, CreatedByConfirmed
  <1>9. LostIsRecoverable'
    <2> SUFFICES ASSUME NEW o \in Known \ Unspent,
                        \A b \in blockData : o \notin FirstRefersTo(b)
                 PROVE  \E b \in DOMAIN undo' : \E u \in undo'[b] : u.out = o
      BY <1>1 DEF LostIsRecoverable, FirstRefersTo
    <2>1. PICK b \in DOMAIN undo : o \in {u.out : u \in undo[b]}
      BY DEF ChainInv, LostIsRecoverable
    <2>2. o \in {u.out : u \in undo'[b]}
      BY <1>2, <1>3, <2>1 DEF ChainInv, UndoIsOfBlock
    <2> QED  BY <1>2, <2>1, <2>2
  <1> QED  BY <1>4, <1>5, <1>6, <1>7, <1>8, <1>9 DEF ChainInv

\* WriteBlock, its third write: the index record.
LEMMA StoreIndexKeeps ==
  ASSUME ChainInv, StoreIndex
  PROVE  ChainInv'
  <1> USE DEF StoreIndex, diskVars, posVars, histVars, poolVars
  <1>1. Unspent' = Unspent /\ Known' = Known
    BY DEF Unspent, Known
  <1>2. blk \in Block /\ blk' = blk
    BY DEF ChainInv, ChainTypeOK
  <1>3. Removed' = {}
    <2> SUFFICES ASSUME NEW i \in DOMAIN Txs[blk], NEW k \in DOMAIN Ins[Txs[blk][i]]
                 PROVE  ~(i < 1 \/ (i = 1 /\ k <= 0))
      BY DEF Removed
    <2> QED  BY <1>2, BlockTypes, TxTypes
  <1>4. ChainTypeOK'
    BY DEF ChainInv, ChainTypeOK, IsRecords
  <1>5. Position'
    BY <1>2, BlockTypes, TxTypes DEF ChainInv, Position, InBlock, CurTx
  <1>6. Batched'
    BY <1>2, BlockTypes DEF Batched
  <1>7. Accepted'
    BY <1>1, <1>3 DEF ChainInv, Accepted
  <1>8. RecordsFit' /\ BatchIsOfBlock'
    BY <1>1 DEF ChainInv, RecordsFit, BatchIsOfBlock
  <1>9. UndoIsOfBlock' /\ NoEmptyRecord' /\ LostIsRecoverable' /\ CreatedByConfirmed'
    BY <1>1 DEF ChainInv, UndoIsOfBlock, NoEmptyRecord, LostIsRecoverable, CreatedByConfirmed
  <1>10. IndexedIsStored'
    BY DEF ChainInv, IndexedIsStored, Position
  <1> QED  BY <1>4, <1>5, <1>6, <1>7, <1>8, <1>9, <1>10 DEF ChainInv

\* cleanUpInputs: one more output is removed.
LEMMA CleanUpInputFacts ==
  ASSUME ChainInv, CleanUpInput
  PROVE  /\ blk \in Block /\ blk' = blk /\ txi \in DOMAIN Txs[blk] /\ CurTx \in Tx
         /\ inp + 1 \in DOMAIN Ins[CurTx]
         /\ NextInput \in InputSet(CurTx)
         /\ Unspent' = Unspent \ {NextInput}
         /\ Removed' = Removed \cup {NextInput}
  <1>1. blk \in Block /\ txi \in Nat \ {0} /\ inp \in Nat /\ pc = "confirm"
    BY DEF ChainInv, ChainTypeOK, CleanUpInput, AtSpend
  <1>2. txi \in DOMAIN Txs[blk] /\ CurTx \in Tx
    BY <1>1, BlockTypes DEF CleanUpInput, AtSpend, InBlock, CurTx
  <1>3. inp + 1 \in DOMAIN Ins[CurTx]
    BY <1>1, <1>2, TxTypes DEF CleanUpInput, AtSpend
  <1>4. NextInput \in InputSet(CurTx) /\ NextInput \in Outpoint
    BY <1>2, <1>3, TxTypes DEF NextInput, InputSet
  <1>5. Unspent' = Unspent \ {NextInput}
    BY RemoveUtxoUnspent DEF CleanUpInput, Unspent
  <1>6. blk' = blk /\ txi' = txi /\ inp' = inp + 1
    BY DEF CleanUpInput
  <1>7. ASSUME NEW i \in DOMAIN Txs[blk], NEW k \in DOMAIN Ins[Txs[blk][i]]
        PROVE  (i < txi \/ (i = txi /\ k <= inp + 1)) <=>
                 \/ i < txi \/ (i = txi /\ k <= inp)
                 \/ i = txi /\ k = inp + 1
    <2>1. i \in Nat /\ Txs[blk][i] \in Tx
      BY <1>1, BlockTypes
    <2>2. k \in Nat
      BY <2>1, TxTypes
    <2> QED  BY <1>1, <2>1, <2>2
  <1>8. Removed' =
          {o \in Outpoint :
             \E i \in DOMAIN Txs[blk] : \E k \in DOMAIN Ins[Txs[blk][i]] :
               /\ o = Ins[Txs[blk][i]][k]
               /\ i < txi \/ (i = txi /\ k <= inp + 1)}
    BY <1>6 DEF Removed
  <1>9. Removed' \subseteq Removed \cup {NextInput}
    BY <1>7, <1>8 DEF Removed, NextInput, CurTx
  <1>10. Removed \subseteq Removed'
    BY <1>7, <1>8 DEF Removed
  <1>11. NextInput \in Removed'
    BY <1>2, <1>3, <1>4, <1>7, <1>8 DEF NextInput, CurTx
  <1> QED  BY <1>1, <1>2, <1>3, <1>4, <1>5, <1>6, <1>9, <1>10, <1>11

\* It is covered by the undo records of the block, or the first transaction
\* refers to it.
LEMMA CleanUpInputKeeps ==
  ASSUME ChainInv, CleanUpInput
  PROVE  ChainInv'
  <1> DEFINE o == NextInput
  <1>1. /\ blk \in Block /\ blk' = blk /\ txi \in DOMAIN Txs[blk] /\ CurTx \in Tx
        /\ inp + 1 \in DOMAIN Ins[CurTx]
        /\ NextInput \in InputSet(CurTx)
        /\ Unspent' = Unspent \ {o}
        /\ Removed' = Removed \cup {o}
    BY CleanUpInputFacts
  <1>2. /\ pc = "confirm" /\ o \in Unspent
        /\ coins' = RemoveUtxo(coins, o)
        /\ inp' = inp + 1
        /\ UNCHANGED <<blockData, undo, index, batch, pc, blk, txi, before, confirmed, failed,
                       alive>>
    BY DEF CleanUpInput, AtSpend, diskVars, histVars, poolVars
  <1>3. /\ DOMAIN coins' \subseteq DOMAIN coins
        /\ \A i \in DOMAIN coins' :
             IF i = o[1]
             THEN /\ coins'[i] = [stamp |-> 0, unspent |-> coins[i].unspent \ {o[2]}]
                  /\ coins[i].unspent # {o[2]}
             ELSE coins'[i] = coins[i]
    BY <1>2, RemoveUtxoRecords DEF Unspent
  <1>4. \A i \in DOMAIN coins : coins[i] \in [stamp : Nat, unspent : SUBSET Nat]
    BY DEF ChainInv, ChainTypeOK, IsRecords
  <1> HIDE DEF o
  <1>5. ChainTypeOK'
    <2>1. IsRecords(coins)'
      BY <1>3, <1>4 DEF ChainInv, ChainTypeOK, IsRecords
    <2>2. IsRecords(batch)'
      BY <1>2 DEF ChainInv, ChainTypeOK, IsRecords
    <2>3. inp' \in Nat
      BY <1>2 DEF ChainInv, ChainTypeOK
    <2> QED  BY <1>2, <2>1, <2>2, <2>3 DEF ChainInv, ChainTypeOK
  <1>6. Position'
    <2>1. inp' <= Len(Ins[CurTx])
      BY <1>1, <1>2, TxTypes
    <2> QED  BY <1>2, <2>1 DEF ChainInv, Position, InBlock, CurTx
  <1>7. Accepted'
    BY <1>1, <1>2 DEF ChainInv, Accepted
  <1>8. RecordsFit'
    <2>1. \A i \in DOMAIN coins' : coins'[i].unspent \subseteq coins[i].unspent
      BY <1>3, <1>4
    <2> QED  BY <1>1, <1>2, <1>3, <2>1 DEF ChainInv, RecordsFit
  <1>9. Batched' /\ BatchIsOfBlock' /\ UndoIsOfBlock' /\ IndexedIsStored'
    BY <1>2 DEF ChainInv, Batched, BatchIsOfBlock, UndoIsOfBlock, IndexedIsStored
  <1>10. NoEmptyRecord'
    BY <1>3, <1>4 DEF ChainInv, NoEmptyRecord
  <1>11. CreatedByConfirmed'
    BY <1>2, <1>3 DEF ChainInv, CreatedByConfirmed
  <1>12. LostIsRecoverable'
    <2>1. Known' = Known
      BY <1>2 DEF Known
    <2>2. blk \in DOMAIN undo /\ blk \in blockData
      BY <1>2 DEF ChainInv, Position
    <2>3. (\E u \in undo[blk] : u.out = o) \/ o \in FirstRefersTo(blk)
      <3>1. CASE txi = 1
        BY <1>1, <3>1 DEF FirstRefersTo, CurTx, o
      <3>2. CASE txi \in Regular(Txs[blk])
        <4>1. o \in Spends(blk)
          BY <1>1, <3>2 DEF Spends, CurTx, o
        <4> QED  BY <2>2, <4>1 DEF ChainInv, UndoIsOfBlock
      <3> QED  BY <1>1, <3>1, <3>2, Places
    <2> QED  BY <1>1, <1>2, <2>1, <2>2, <2>3 DEF ChainInv, LostIsRecoverable, FirstRefersTo
  <1> QED  BY <1>5, <1>6, <1>7, <1>8, <1>9, <1>10, <1>11, <1>12 DEF ChainInv

\* InsertBatchTX: the outputs of one more transaction are in the batch.
LEMMA InsertBatchTXFacts ==
  ASSUME ChainInv, InsertBatchTX
  PROVE  /\ blk \in Block /\ txi \in DOMAIN Txs[blk] /\ CurTx \in Tx
         /\ DOMAIN batch' = DOMAIN batch \cup {TxId[CurTx]}
         /\ batch'[TxId[CurTx]] = Metadata(CurTx)
         /\ \A i \in DOMAIN batch \ {TxId[CurTx]} : batch'[i] = batch[i]
         /\ pc = "confirm" /\ txi' = txi + 1 /\ inp' = 0 /\ NOut(CurTx) > 0
         /\ UNCHANGED <<coins, blockData, undo, index, pc, blk, before, confirmed, failed, alive>>
         /\ Unspent' = Unspent
         /\ Removed' = Removed
  <1>1. blk \in Block /\ txi \in Nat \ {0} /\ inp \in Nat /\ pc = "confirm"
    BY DEF ChainInv, ChainTypeOK, InsertBatchTX, AtPut
  <1>2. txi \in DOMAIN Txs[blk] /\ CurTx \in Tx
    BY <1>1, BlockTypes DEF InsertBatchTX, AtPut, InBlock, CurTx
  <1>3. inp = Len(Ins[CurTx])
    BY DEF InsertBatchTX, AtPut
  <1>4. /\ txi' = txi + 1 /\ inp' = 0 /\ NOut(CurTx) > 0
        /\ UNCHANGED <<coins, blockData, undo, index, pc, blk, before, confirmed, failed, alive>>
    BY DEF InsertBatchTX, diskVars, histVars, poolVars
  <1>5. ASSUME NEW i \in DOMAIN Txs[blk], NEW k \in DOMAIN Ins[Txs[blk][i]]
        PROVE  (i < txi + 1 \/ (i = txi + 1 /\ k <= 0)) <=> (i < txi \/ (i = txi /\ k <= inp))
    <2>1. i \in Nat /\ Txs[blk][i] \in Tx
      BY <1>1, BlockTypes
    <2>2. k \in Nat \ {0} /\ k <= Len(Ins[Txs[blk][i]])
      BY <2>1, TxTypes
    <2>3. i = txi => k <= inp
      BY <1>3, <2>2 DEF CurTx
    <2> QED  BY <1>1, <2>1, <2>2, <2>3
  <1>6. Removed' =
          {o \in Outpoint :
             \E i \in DOMAIN Txs[blk] : \E k \in DOMAIN Ins[Txs[blk][i]] :
               /\ o = Ins[Txs[blk][i]][k]
               /\ i < txi + 1 \/ (i = txi + 1 /\ k <= 0)}
    BY <1>4 DEF Removed
  <1>7. Removed' = Removed
    BY <1>5, <1>6 DEF Removed
  <1>8. Unspent' = Unspent
    BY <1>4 DEF Unspent
  <1> QED  BY <1>1, <1>2, <1>4, <1>7, <1>8 DEF InsertBatchTX

\* It is a transaction of the block, so the batch stays the block's.
LEMMA InsertBatchTXKeeps ==
  ASSUME ChainInv, InsertBatchTX
  PROVE  ChainInv'
  <1>1. /\ blk \in Block /\ txi \in DOMAIN Txs[blk] /\ CurTx \in Tx
        /\ DOMAIN batch' = DOMAIN batch \cup {TxId[CurTx]}
        /\ batch'[TxId[CurTx]] = Metadata(CurTx)
        /\ \A i \in DOMAIN batch \ {TxId[CurTx]} : batch'[i] = batch[i]
        /\ pc = "confirm" /\ txi' = txi + 1 /\ inp' = 0 /\ NOut(CurTx) > 0
        /\ UNCHANGED <<coins, blockData, undo, index, pc, blk, before, confirmed, failed, alive>>
        /\ Unspent' = Unspent
        /\ Removed' = Removed
    BY InsertBatchTXFacts
  <1>2. /\ Metadata(CurTx) \in [stamp : Nat, unspent : SUBSET Nat]
        /\ Metadata(CurTx).unspent = 0 .. NOut(CurTx) - 1
        /\ NOut(CurTx) \in Nat
    BY <1>1, TxTypes
  <1>3. TxId[CurTx] \in IdsOf(blk)
    BY <1>1 DEF IdsOf, TxsOf, CurTx
  <1>4. txi \in Nat /\ txi <= Len(Txs[blk]) /\ Len(Txs[blk]) \in Nat
    BY <1>1, BlockTypes
  <1>5. ChainTypeOK'
    <2>1. IsRecords(coins)'
      BY <1>1 DEF ChainInv, ChainTypeOK, IsRecords
    <2>2. IsRecords(batch)'
      BY <1>1, <1>2 DEF ChainInv, ChainTypeOK, IsRecords, Ids, TxIds
    <2>3. txi' \in Nat \ {0} /\ inp' \in Nat
      BY <1>1, <1>4
    <2> QED  BY <1>1, <2>1, <2>2, <2>3 DEF ChainInv, ChainTypeOK
  <1>6. Position'
    <2>1. InBlock' => inp' <= Len(Ins[CurTx])'
      <3> SUFFICES ASSUME txi + 1 <= Len(Txs[blk])
                   PROVE  0 <= Len(Ins[Txs[blk][txi + 1]])
        BY <1>1 DEF InBlock, CurTx
      <3>1. Txs[blk][txi + 1] \in Tx
        BY <1>1, <1>4, BlockTypes
      <3> QED  BY <3>1, TxTypes
    <2> QED  BY <1>1, <1>4, <2>1 DEF ChainInv, Position
  <1>7. Accepted' /\ UndoIsOfBlock' /\ NoEmptyRecord' /\ IndexedIsStored' /\ CreatedByConfirmed'
    BY <1>1 DEF ChainInv, Accepted, UndoIsOfBlock, NoEmptyRecord, IndexedIsStored,
         CreatedByConfirmed
  <1>8. RecordsFit'
    <2>1. \A i \in DOMAIN batch' : batch'[i].unspent # {} /\ \E b \in blockData' : i \in IdsOf(b)
      <3>1. 0 \in Metadata(CurTx).unspent
        BY <1>1, <1>2
      <3>2. blk \in blockData
        BY <1>1 DEF ChainInv, Position
      <3> QED  BY <1>1, <1>3, <3>1, <3>2 DEF ChainInv, RecordsFit
    <2>2. \A t \in Tx : TxId[t] \in DOMAIN batch' => batch'[TxId[t]].unspent = 0 .. NOut(t) - 1
      BY <1>1, <1>2, SameId DEF ChainInv, RecordsFit
    <2> QED  BY <1>1, <2>1, <2>2 DEF ChainInv, RecordsFit
  <1>9. Batched'
    BY <1>1, <1>4, BlockTypes DEF ChainInv, Batched, CurTx
  <1>10. BatchIsOfBlock'
    BY <1>1, <1>3 DEF ChainInv, BatchIsOfBlock
  <1>11. LostIsRecoverable'
    <2>1. Known' = Known
      BY <1>1 DEF Known
    <2> QED  BY <1>1, <2>1 DEF ChainInv, LostIsRecoverable, FirstRefersTo
  <1> QED  BY <1>5, <1>6, <1>7, <1>8, <1>9, <1>10, <1>11 DEF ChainInv

\* WriteBatchTX: every output the block creates is unspent, and whatever was
\* still is; nothing else is, unless an earlier call left its batch behind.
LEMMA WriteBatchTXFacts ==
  ASSUME ChainInv, WriteBatchTX
  PROVE  /\ blk \in Block /\ pc = "confirm" /\ pc' = "evict"
         /\ \A i \in DOMAIN Txs[blk] : i < txi
         /\ coins' = Overlay(coins, batch)
         /\ batch' = NoRecords
         /\ confirmed' = [confirmed EXCEPT ![blk] = @ + 1]
         /\ txi' = 2
         /\ UNCHANGED <<blockData, undo, index, blk, inp, before, failed, alive>>
         /\ Unspent' = Unspent \cup UnspentIn(batch)
         /\ Creates(blk) \subseteq UnspentIn(batch)
         /\ failed \/ UnspentIn(batch) = Creates(blk)
         /\ UnspentIn(batch) \subseteq UNION {Creates(b) : b \in blockData}
  <1>1. blk \in Block /\ pc = "confirm" /\ txi \in Nat
    BY DEF ChainInv, ChainTypeOK, WriteBatchTX, AtFlush
  <1>2. /\ pc' = "evict" /\ txi' = 2
        /\ coins' = Overlay(coins, batch)
        /\ batch' = NoRecords
        /\ confirmed' = [confirmed EXCEPT ![blk] = @ + 1]
        /\ UNCHANGED <<blockData, undo, index, blk, inp, before, failed, alive>>
    BY DEF WriteBatchTX, diskVars, poolVars
  <1>3. \A i \in DOMAIN Txs[blk] : i < txi
    BY <1>1, BlockTypes DEF WriteBatchTX, AtFlush, InBlock
  <1>4. \A t \in TxsOf(blk) : TxId[t] \in DOMAIN batch
    BY <1>1, <1>3 DEF TxsOf, ChainInv, Batched
  <1>5. Creates(blk) \subseteq UnspentIn(batch)
    <2> SUFFICES ASSUME NEW t \in TxsOf(blk), NEW v \in 0 .. NOut(t) - 1
                 PROVE  <<TxId[t], v>> \in UnspentIn(batch)
      BY DEF Creates, OutputsOf
    <2>1. t \in Tx
      BY <1>1, BlockTypes
    <2>2. batch[TxId[t]].unspent = 0 .. NOut(t) - 1
      BY <1>4, <2>1 DEF ChainInv, RecordsFit
    <2> QED  BY <1>4, <2>2, PairInUnspentIn
  <1>6. failed \/ UnspentIn(batch) \subseteq Creates(blk)
    <2> SUFFICES ASSUME ~failed, NEW o \in UnspentIn(batch)
                 PROVE  o \in Creates(blk)
      OBVIOUS
    <2>1. PICK i \in DOMAIN batch : \E v \in batch[i].unspent : o = <<i, v>>
      BY UnspentInPairs
    <2>2. PICK t \in TxsOf(blk) : TxId[t] = i
      BY DEF ChainInv, BatchIsOfBlock, IdsOf
    <2>3. t \in Tx
      BY <1>1, BlockTypes
    <2>4. batch[i].unspent = 0 .. NOut(t) - 1
      BY <2>2, <2>3 DEF ChainInv, RecordsFit
    <2> QED  BY <2>1, <2>2, <2>4 DEF Creates, OutputsOf
  <1>7. Unspent' = Unspent \cup UnspentIn(batch)
    <2>1. Unspent' = UnspentIn(batch) \cup {o \in Unspent : o[1] \notin DOMAIN batch}
      BY <1>2, OverlayUnspent DEF Unspent
    <2>2. ASSUME NEW o \in Unspent, o[1] \in DOMAIN batch
          PROVE  o \in UnspentIn(batch)
      <3>1. PICK i \in DOMAIN coins : \E v \in coins[i].unspent : o = <<i, v>>
        BY UnspentInPairs DEF Unspent
      <3>2. i \in DOMAIN batch
        BY <2>2, <3>1
      <3>3. PICK b \in Block : i \in IdsOf(b)
        BY <3>2 DEF ChainInv, ChainTypeOK, RecordsFit
      <3>4. PICK t \in TxsOf(b) : TxId[t] = i
        BY <3>3 DEF IdsOf
      <3>5. t \in Tx
        BY BlockTypes
      <3>6. coins[i].unspent \subseteq batch[i].unspent
        BY <3>1, <3>2, <3>4, <3>5 DEF ChainInv, RecordsFit
      <3> QED  BY <3>1, <3>2, <3>6, PairInUnspentIn
    <2> QED  BY <2>1, <2>2
  <1>8. ASSUME NEW o \in UnspentIn(batch)
        PROVE  \E b \in blockData : o \in Creates(b)
    <2>1. PICK i \in DOMAIN batch : \E v \in batch[i].unspent : o = <<i, v>>
      BY UnspentInPairs
    <2>2. PICK b \in blockData : i \in IdsOf(b)
      BY DEF ChainInv, RecordsFit
    <2>3. PICK t \in TxsOf(b) : TxId[t] = i
      BY <2>2 DEF IdsOf
    <2>4. t \in Tx
      BY <2>2, <2>3, BlockTypes DEF ChainInv, ChainTypeOK
    <2>5. o \in OutputsOf(t)
      BY <2>1, <2>3, <2>4 DEF ChainInv, RecordsFit, OutputsOf
    <2> QED  BY <2>2, <2>3, <2>5 DEF Creates
  <1> QED  BY <1>1, <1>2, <1>3, <1>5, <1>6, <1>7, <1>8

\* The last write of a call confirms the block.
LEMMA WriteBatchTXKeeps ==
  ASSUME ChainInv, WriteBatchTX
  PROVE  ChainInv'
  <1>1. /\ blk \in Block /\ pc = "confirm" /\ pc' = "evict"
        /\ coins' = Overlay(coins, batch)
        /\ batch' = NoRecords
        /\ confirmed' = [confirmed EXCEPT ![blk] = @ + 1]
        /\ txi' = 2
        /\ UNCHANGED <<blockData, undo, index, blk, inp, before, failed, alive>>
        /\ Unspent' = Unspent \cup UnspentIn(batch)
        /\ Creates(blk) \subseteq UnspentIn(batch)
    BY WriteBatchTXFacts
  <1>2. /\ DOMAIN coins' = DOMAIN coins \cup DOMAIN batch
        /\ \A i \in DOMAIN batch : coins'[i] = batch[i]
        /\ \A i \in DOMAIN coins \ DOMAIN batch : coins'[i] = coins[i]
    BY <1>1 DEF Overlay
  <1>3. DOMAIN batch' = {}
    BY <1>1 DEF NoRecords
  <1>4. /\ confirmed' \in [Block -> Nat]
        /\ confirmed'[blk] > 0
        /\ \A b \in Block \ {blk} : confirmed'[b] = confirmed[b]
    BY <1>1 DEF ChainInv, ChainTypeOK
  <1>5. ChainTypeOK'
    <2>1. IsRecords(coins)'
      BY <1>2 DEF ChainInv, ChainTypeOK, IsRecords
    <2>2. IsRecords(batch)'
      BY <1>3 DEF IsRecords
    <2> QED  BY <1>1, <1>4, <2>1, <2>2 DEF ChainInv, ChainTypeOK
  <1>6. Position' /\ Accepted' /\ Batched'
    BY <1>1 DEF ChainInv, Position, Accepted, Batched
  <1>7. RecordsFit'
    <2>1. Unspent' \subseteq Outpoint
      <3>1. UnspentIn(batch) \subseteq UNION {Creates(b) : b \in Block}
        BY WriteBatchTXFacts DEF ChainInv, ChainTypeOK
      <3>2. UnspentIn(batch) \subseteq Outpoint
        BY <3>1, LedgerAssumption
      <3> QED  BY <1>1, <3>2 DEF ChainInv, RecordsFit
    <2>2. \A t \in Tx : TxId[t] \in DOMAIN coins' =>
            coins'[TxId[t]].unspent \subseteq 0 .. NOut(t) - 1
      BY <1>2 DEF ChainInv, RecordsFit
    <2> QED  BY <1>3, <2>1, <2>2 DEF RecordsFit
  <1>8. BatchIsOfBlock' /\ UndoIsOfBlock' /\ IndexedIsStored'
    BY <1>1, <1>3 DEF ChainInv, BatchIsOfBlock, UndoIsOfBlock, IndexedIsStored
  <1>9. NoEmptyRecord'
    BY <1>2 DEF ChainInv, NoEmptyRecord, RecordsFit
  <1>10. LostIsRecoverable'
    <2>1. Known' \subseteq Known \cup Creates(blk)
      BY <1>4 DEF Known
    <2>2. Known' \ Unspent' \subseteq Known \ Unspent
      BY <1>1, <2>1
    <2> QED  BY <1>1, <2>2 DEF ChainInv, LostIsRecoverable, FirstRefersTo
  <1>11. CreatedByConfirmed'
    <2> SUFFICES ASSUME ~failed, NEW i \in DOMAIN coins' \ DOMAIN InitialCoins
                 PROVE  \E b \in Block : confirmed'[b] > 0 /\ i \in IdsOf(b)
      BY <1>1 DEF CreatedByConfirmed
    <2>1. CASE i \in DOMAIN batch
      BY <1>1, <1>4, <2>1 DEF ChainInv, BatchIsOfBlock
    <2>2. CASE i \notin DOMAIN batch
      BY <1>1, <1>2, <1>4, <2>2 DEF ChainInv, CreatedByConfirmed
    <2> QED  BY <2>1, <2>2
  <1> QED  BY <1>5, <1>6, <1>7, <1>8, <1>9, <1>10, <1>11 DEF ChainInv

\* RemoveBlock: its steps change only the place in the block.
LEMMA EvictKeeps ==
  ASSUME ChainInv, EvictPooled \/ EvictAbsent
  PROVE  ChainInv'
  <1>1. /\ pc = "evict" /\ txi' = txi + 1
        /\ UNCHANGED <<coins, blockData, undo, index, batch, pc, blk, inp, before,
                       confirmed, failed, alive>>
    BY DEF EvictPooled, EvictAbsent, diskVars, histVars, poolVars, Pool!RemoveTX
  <1>2. /\ UndoIsOfBlock' /\ NoEmptyRecord' /\ IndexedIsStored'
        /\ LostIsRecoverable' /\ CreatedByConfirmed'
        /\ Unspent' = Unspent
    BY <1>1, StoresKeep
  <1>3. ChainTypeOK'
    BY <1>1 DEF ChainInv, ChainTypeOK, IsRecords
  <1>4. Position' /\ Accepted' /\ Batched'
    BY <1>1 DEF ChainInv, ChainTypeOK, Position, Accepted, Batched
  <1>5. RecordsFit' /\ BatchIsOfBlock'
    BY <1>1, <1>2 DEF ChainInv, RecordsFit, BatchIsOfBlock
  <1> QED  BY <1>2, <1>3, <1>4, <1>5 DEF ChainInv

\* Every step of the ledger keeps the chainstate's part of the invariant.
LEMMA NextChain ==
  ASSUME ChainInv, [Next]_vars
  PROVE  ChainInv'
  <1> USE DEF ledgerVars, diskVars, posVars, histVars, poolVars
  <1>1. ASSUME NEW t \in Tx, AddTX(t)
        PROVE  ChainInv'
    BY <1>1, PoolStepKeepsChain DEF AddTX, Idle
  <1>2. ASSUME NEW b \in Block, AcceptBlock(b)
        PROVE  ChainInv'
    BY <1>2, AcceptBlockKeeps
  <1>3. ASSUME NEW b \in Block, RejectBlock(b)
        PROVE  ChainInv'
    BY <1>3, PoolStepKeepsChain DEF RejectBlock, Idle
  <1>4. ASSUME Die
        PROVE  ChainInv'
    BY <1>4, CallEndsKeeps DEF Die
  <1>5. ASSUME ReturnError
        PROVE  ChainInv'
    BY <1>5, CallEndsKeeps DEF ReturnError
  <1>6. CASE Advance
    <2>1. CASE Return
      BY <2>1, CallEndsKeeps DEF Return
    <2> QED
      BY <1>5, <1>6, <2>1, StoreDataKeeps, StoreUndoKeeps, StoreIndexKeeps, CleanUpInputKeeps,
         InsertBatchTXKeeps, WriteBatchTXKeeps, EvictKeeps
      DEF Advance, CleanUpFails, InsertBatchFails
  <1>7. CASE Restart
    BY <1>7, PoolStepKeepsChain DEF Restart
  <1>8. CASE UNCHANGED vars
    BY <1>8, PoolStepKeepsChain DEF vars, ChainInv, Position
  <1> QED
    BY <1>1, <1>2, <1>3, <1>4, <1>5, <1>6, <1>7, <1>8 DEF Next, HeaderOverflows, WriteFails, ProcessDies

-----------------------------------------------------------------------------
(***************************************************************************)
(* The pool.                                                               *)
(***************************************************************************)
\* A set of natural numbers has its minimum as a member.
LEMMA MinIsMember ==
  ASSUME NEW S \in SUBSET Nat, S # {}
  PROVE  Min(S) \in S
  <1> DEFINE R == {p \in Nat \X Nat : p[1] < p[2]}
  <1>1. IsWellFoundedOn(R, Nat)
    BY NatLessThanWellFounded DEF OpToRel
  <1>2. PICK x \in S : \A y \in S : <<y, x>> \notin R
    <2> HIDE DEF R
    <2> QED  BY <1>1, WFMin
  <1>3. ASSUME NEW y \in S
        PROVE  x <= y
    <2>1. <<y, x>> \in Nat \X Nat /\ <<y, x>>[1] = y /\ <<y, x>>[2] = x
      OBVIOUS
    <2>2. ~(y < x)
      BY <1>2, <2>1
    <2> QED  BY <2>2
  <1> QED  BY <1>3 DEF Min

\* The transaction ValidateBlockTx stops at is one of the block.
LEMMA OffendingIsTx ==
  ASSUME NEW b \in Block, NEW u, Offending(Txs[b], u) # {}
  PROVE  Txs[b][Min(Offending(Txs[b], u))] \in Tx
  <1>1. Offending(Txs[b], u) \subseteq Regular(Txs[b])
    BY DEF Offending
  <1>2. Offending(Txs[b], u) \in SUBSET Nat
    BY <1>1, BlockTypes DEF Regular
  <1>3. Min(Offending(Txs[b], u)) \in DOMAIN Txs[b]
    BY <1>1, <1>2, MinIsMember, Places
  <1> QED  BY <1>3, BlockTypes

\* Every step of the ledger is a step of the pool's own specification, in which
\* the chainstate may change in any way.
LEMMA PoolStep ==
  ASSUME ChainInv, [Next]_vars
  PROVE  [Pool!Next]_Pool!vars
  <1> USE DEF ledgerVars, diskVars, posVars, histVars, poolVars
  <1>1. Unspent' \in SUBSET Outpoint
    BY NextChain DEF ChainInv, RecordsFit
  <1>2. ASSUME UNCHANGED poolVars
        PROVE  Pool!ChainstateChanges
    BY <1>1, <1>2 DEF Pool!ChainstateChanges, Pool!poolVars
  <1>3. ASSUME alive, Die
        PROVE  Pool!ProcessDies
    BY <1>3 DEF Die, Pool!ProcessDies, Unspent
  <1>4. ASSUME NEW t \in Tx, AddTX(t)
        PROVE  \E s \in Tx : Pool!AddTX(s)
    BY <1>4 DEF AddTX
  <1>5. ASSUME NEW b \in Block, RejectBlock(b)
        PROVE  \E s \in Tx : Pool!RemoveTX(s)
    BY <1>5, OffendingIsTx DEF RejectBlock
  <1>6. ASSUME EvictPooled
        PROVE  \E s \in Tx : Pool!RemoveTX(s)
    <2>1. blk \in Block /\ txi \in DOMAIN Txs[blk]
      BY <1>6, BlockTypes DEF EvictPooled, InBlock, ChainInv, ChainTypeOK
    <2>2. CurTx \in Tx
      BY <2>1, BlockTypes DEF CurTx
    <2> QED  BY <1>6, <2>2 DEF EvictPooled
  <1>7. CASE Restart
    <2>1. Pool!Restart
      BY <1>7 DEF Restart, Pool!Restart, Pool!poolVars, Unspent
    <2> QED  BY <2>1 DEF Pool!Next
  <1>8. CASE UNCHANGED vars
    <2>1. UNCHANGED poolVars
      BY <1>8 DEF vars
    <2> QED  BY <1>2, <2>1 DEF Pool!Next
  <1>9. CASE Advance
    <2>1. EvictPooled \/ UNCHANGED poolVars
      BY <1>9 DEF Advance, StoreData, StoreUndo, StoreIndex, CleanUpInput, InsertBatchTX,
           CleanUpFails, InsertBatchFails, ReturnError, WriteBatchTX, EvictAbsent, Return
    <2> QED  BY <1>2, <1>6, <2>1 DEF Pool!Next
  <1>10. CASE \E b \in Block : AcceptBlock(b) \/ HeaderOverflows(b)
    <2>1. (alive /\ Die) \/ UNCHANGED poolVars
      BY <1>10 DEF AcceptBlock, HeaderOverflows, Idle
    <2> QED  BY <1>2, <1>3, <2>1 DEF Pool!Next
  <1>11. CASE WriteFails \/ ProcessDies
    <2>1. (alive /\ Die) \/ UNCHANGED poolVars
      BY <1>11 DEF WriteFails, ReturnError, ProcessDies
    <2> QED  BY <1>2, <1>3, <2>1 DEF Pool!Next
  <1> QED
    BY <1>4, <1>5, <1>7, <1>8, <1>9, <1>10, <1>11 DEF Next, Pool!Next

\* The pool's assumption is the ledger's, and so are its actions and invariant.
LEMMA PoolAssumption == PoolThms!TransactionAssumption
  <1>1. ASSUME NEW t, NEW n
        PROVE  PoolThms!RunningTotal(t, n) = RunningTotal(t, n)
    BY DEF PoolThms!RunningTotal, PoolThms!SumFunctionOnSet, PoolThms!FoldFunctionOnSet,
           PoolThms!MapThenFoldSet, RunningTotal, SumFunctionOnSet, FoldFunctionOnSet, MapThenFoldSet
  <1> QED  BY <1>1, TransactionAssumption DEF PoolThms!TransactionAssumption

\* PoolThms repeats the definitions of Pool, so its steps and its typing are the
\* same.
LEMMA SamePool ==
  /\ [Pool!Next]_Pool!vars => [PoolThms!Next]_PoolThms!vars
  /\ PoolThms!TypeOK <=> Pool!TypeOK
  <1> USE DEF Pool!TxIds, PoolThms!TxIds, Pool!TxRecords, PoolThms!TxRecords,
        Pool!EmptyTree, PoolThms!EmptyTree, Pool!poolVars, PoolThms!poolVars
  <1>1. ASSUME NEW t
        PROVE  /\ Pool!InputSet(t) = PoolThms!InputSet(t)
               /\ Pool!TxRecord(t) = PoolThms!TxRecord(t)
               /\ Pool!GetFees(t) = PoolThms!GetFees(t)
               /\ Pool!InputsDistinct(t) <=> PoolThms!InputsDistinct(t)
    BY DEF Pool!InputSet, PoolThms!InputSet, Pool!TxRecord, PoolThms!TxRecord,
           Pool!GetFees, PoolThms!GetFees, Pool!InputsDistinct, PoolThms!InputsDistinct
  <1>2. ASSUME NEW t
        PROVE  Pool!OutputsPass(t) <=> PoolThms!OutputsPass(t)
    BY DEF Pool!OutputsPass, PoolThms!OutputsPass, Pool!ValueIsValid, PoolThms!ValueIsValid,
           Pool!RunningTotal, PoolThms!RunningTotal, Pool!SumFunctionOnSet,
           PoolThms!SumFunctionOnSet, Pool!FoldFunctionOnSet, PoolThms!FoldFunctionOnSet,
           Pool!MapThenFoldSet, PoolThms!MapThenFoldSet
  <1>3. ASSUME NEW t \in Tx
        PROVE  Pool!AddTX(t) <=> PoolThms!AddTX(t)
    BY <1>1, <1>2 DEF Pool!AddTX, PoolThms!AddTX, Pool!IndexTX, PoolThms!IndexTX,
         Pool!ValidateTransaction, PoolThms!ValidateTransaction
  <1>4. ASSUME NEW t \in Tx
        PROVE  Pool!RemoveTX(t) <=> PoolThms!RemoveTX(t)
    BY <1>1 DEF Pool!RemoveTX, PoolThms!RemoveTX, Pool!UnindexTX, PoolThms!UnindexTX,
         Pool!RemoveRecord, PoolThms!RemoveRecord
  <1>5. [Pool!Next]_Pool!vars => [PoolThms!Next]_PoolThms!vars
    BY <1>3, <1>4 DEF Pool!Next, PoolThms!Next, Pool!vars, PoolThms!vars,
         Pool!ProcessDies, PoolThms!ProcessDies, Pool!Restart, PoolThms!Restart,
         Pool!ChainstateChanges, PoolThms!ChainstateChanges
  <1>6. PoolThms!TypeOK <=> Pool!TypeOK
    BY DEF Pool!TypeOK, PoolThms!TypeOK
  <1> QED  BY <1>5, <1>6

-----------------------------------------------------------------------------
IInv == ChainInv /\ PoolThms!IInv

\* The ledger starts with an empty pool, and no call.
LEMMA InitIInv == Init => IInv
  <1> SUFFICES ASSUME Init  PROVE IInv
    OBVIOUS
  <1>1. ChainInv
    BY InitChain
  <1>2. PoolThms!Init
    BY <1>1 DEF ChainInv, RecordsFit, Init, PoolThms!Init, Pool!EmptyPool,
         PoolThms!EmptyPool, Pool!EmptyTree, PoolThms!EmptyTree, Pool!TxRecords,
         PoolThms!TxRecords, Pool!TxIds, PoolThms!TxIds
  <1>3. PoolThms!IInv
    BY <1>2, PoolAssumption, PoolThms!InitIInv
  <1> QED  BY <1>1, <1>3 DEF IInv

\* Every step keeps the invariant.
LEMMA NextIInv == IInv /\ [Next]_vars => IInv'
  <1> SUFFICES ASSUME IInv, [Next]_vars  PROVE IInv'
    OBVIOUS
  <1>1. ChainInv'
    BY NextChain DEF IInv
  <1>2. [PoolThms!Next]_PoolThms!vars
    BY PoolStep, SamePool DEF IInv
  <1>3. PoolThms!IInv'
    BY <1>2, PoolAssumption, PoolThms!NextIInv DEF IInv
  <1> QED  BY <1>1, <1>3 DEF IInv

\* What the invariant says of the properties.
LEMMA IInvImplies == IInv => TypeOK /\ SpendSucceeds
  <1> SUFFICES ASSUME IInv  PROVE TypeOK /\ SpendSucceeds
    OBVIOUS
  <1>1. TypeOK
    BY SamePool DEF IInv, ChainInv, PoolThms!IInv, TypeOK
  <1>2. ASSUME AtSpend, txi \in Regular(Txs[blk]), NextInput \notin FirstRefersTo(blk)
        PROVE  NextInput \in Unspent
    <2>1. /\ blk \in Block /\ txi \in Nat /\ inp \in Nat /\ pc = "confirm"
          /\ ValidateBlock(blk, before)
          /\ Unspent = before \ Removed
      BY <1>2 DEF IInv, ChainInv, ChainTypeOK, Accepted, AtSpend
    <2>2. CurTx \in Tx /\ txi \in DOMAIN Txs[blk]
      BY <1>2, <2>1, Places, BlockTypes DEF CurTx
    <2>3. inp + 1 \in DOMAIN Ins[CurTx]
      BY <1>2, <2>1, <2>2, TxTypes DEF AtSpend
    <2>4. NextInput \in InputSet(CurTx)
      BY <2>3 DEF NextInput, InputSet
    <2>5. NextInput \in before
      BY <1>2, <2>1, <2>4, ValidSpends DEF CurTx
    <2>6. ASSUME NEW i \in DOMAIN Txs[blk], NEW k \in DOMAIN Ins[Txs[blk][i]],
                 NextInput = Ins[Txs[blk][i]][k],
                 i < txi \/ (i = txi /\ k <= inp)
          PROVE  FALSE
      <3>1. NextInput \in InputSet(Txs[blk][i])
        BY <2>6 DEF InputSet
      <3>2. CASE i = 1
        BY <1>2, <3>1, <3>2 DEF FirstRefersTo
      <3>3. CASE i \in Regular(Txs[blk]) /\ i # txi
        BY <1>2, <2>1, <2>4, <3>1, <3>3, ValidSpends DEF CurTx
      <3>4. CASE i = txi
        <4>1. InputsDistinct(CurTx)
          BY <1>2, <2>1, ValidSpends DEF CurTx
        <4>2. k = inp + 1
          BY <2>3, <2>6, <3>4, <4>1 DEF InputsDistinct, NextInput, CurTx
        <4> QED  BY <2>1, <2>6, <3>4, <4>2
      <3> QED  BY <2>1, <3>2, <3>3, <3>4, Places
    <2>7. NextInput \notin Removed
      BY <2>6 DEF Removed
    <2> QED  BY <2>1, <2>5, <2>7
  <1> QED  BY <1>1, <1>2 DEF SpendSucceeds

\* The conjunction of what follows, in every reachable state.
THEOREM LedgerInvariant == Spec => []IInv
  BY InitIInv, NextIInv, PTL DEF Spec

\* Every variable of the ledger and of the pool keeps its type.
THEOREM LedgerTypeOK == Spec => []TypeOK
  BY LedgerInvariant, IInvImplies, PTL

\* No record of the chainstate is empty, so GetUtxo and UtxoExists may take a
\* record for an output left.
THEOREM LedgerNoEmptyRecord == Spec => []NoEmptyRecord
  BY LedgerInvariant, PTL DEF IInv, ChainInv

\* Wherever the process dies, a block the index lists has its undo records and
\* its data stored.
THEOREM LedgerIndexedIsStored == Spec => []IndexedIsStored
  BY LedgerInvariant, PTL DEF IInv, ChainInv

\* Wherever the process dies, an output that is gone has an undo record, or went
\* with the unchecked first transaction of a stored block.
THEOREM LedgerLostIsRecoverable == Spec => []LostIsRecoverable
  BY LedgerInvariant, PTL DEF IInv, ChainInv

\* Unless a call failed, no output of an unconfirmed block is ever unspent.
THEOREM LedgerCreatedByConfirmed == Spec => []CreatedByConfirmed
  BY LedgerInvariant, PTL DEF IInv, ChainInv

\* cleanUpInputs finds what ValidateBlockTx found, whatever blocks and
\* interruptions came before.
THEOREM LedgerSpendSucceeds == Spec => []SpendSucceeds
  BY LedgerInvariant, IInvImplies, PTL

\* The ledger uses the pool as Mempool says it may be used: what is proved of
\* the pool on its own holds of the pool within the ledger.
THEOREM LedgerUsesPool == Spec => Pool!Spec
  <1>1. Init => Pool!Init
    BY InitChain DEF ChainInv, RecordsFit, Init, Pool!Init
  <1>2. IInv /\ [Next]_vars => [Pool!Next]_Pool!vars
    BY PoolStep DEF IInv
  <1> QED  BY <1>1, <1>2, LedgerInvariant, PTL DEF Spec, Pool!Spec

=============================================================================
