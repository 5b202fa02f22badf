------------------------------- MODULE Ledger -------------------------------
(***************************************************************************)
(* core/blockchain.go InsertBlock, with everything it calls: validation    *)
(* (core/block.go), the three stores of WriteBlock (db/block_storage.go,   *)
(* db/block_index.go), ConfirmAsValid on the chainstate (db/chainstate.go, *)
(* over the writes and the batch of db/dbwrapper.go) and the mempool.      *)
(*                                                                         *)
(* The code is sequential; pc, txi and inp say how far the call has come,  *)
(* so that the process can die, or a write fail, between any two durable   *)
(* writes.  A write that returned survives the death of the process; the   *)
(* batch, the chain in memory and the pool do not.                         *)
(*                                                                         *)
(* Every block is offered at height 1, on the genesis node: CreateBlockchain*)
(* starts there, and InsertBlock never appends to bc.chain, so no other    *)
(* height reaches the code below its link check.                           *)
(*                                                                         *)
(* ValidateBlockHeader calls itself before it answers: HeaderAnswers, the  *)
(* blocks for which it does answer, is {} in the code as it is.  For the   *)
(* blocks in HeaderAnswers it keeps to its contract, for the sake of all   *)
(* that stands behind it.                                                  *)
(***************************************************************************)
EXTENDS Blocks, CoinRecords

CONSTANTS
  InitialValue,   \* InitialValue[o]: value of an output there at first
  InitialCoins,   \* chainstate records present at first
  HeaderAnswers,  \* the blocks ValidateBlockHeader answers for: see above
  CanCrash,       \* the process may die
  CanFail,        \* a database write may return an error
  MaxConfirms,    \* bound: MaxConfirms[b] is how often b is confirmed
  MaxCopies       \* bound: see Mempool

\* Ids are hashes: a record of the initial chainstate under the TXID of an
\* offered transaction holds outputs of that transaction.
ASSUME LedgerAssumption ==
  /\ Block # {}
  /\ HeaderAnswers \subseteq Block
  /\ CanCrash \in BOOLEAN /\ CanFail \in BOOLEAN
  /\ MaxConfirms \in [Block -> Nat]
  /\ \A b \in Block : Creates(b) \subseteq Outpoint
  /\ UnspentIn(InitialCoins) \subseteq Outpoint
  /\ \A i \in DOMAIN InitialCoins :
       /\ InitialCoins[i] \in [stamp : Nat, unspent : (SUBSET Nat) \ {{}}]
       /\ \A t \in Tx : TxId[t] = i => InitialCoins[i].unspent \subseteq 0 .. NOut(t) - 1

VARIABLES
  coins,      \* chainstate: TXID -> [stamp, unspent], stamp = 2*height + coinbase
  blockData,  \* blocks whose data is stored
  undo,       \* block -> its undo records
  index,      \* blocks with an index record
  batch,      \* chainstate currentBatch: TXID -> record
  pc,         \* where the current InsertBlock is
  blk,        \* the block it inserts
  txi,        \* place of the transaction it is at
  inp,        \* inputs of that transaction already removed
  before,     \* history: the unspent outputs when blk was accepted
  confirmed,  \* history: block -> times it was confirmed
  failed,     \* history: an InsertBlock returned an error after WriteBlock began
  txmap, outsReferenced, internalTree,  \* the pool
  alive       \* the process runs

diskVars == <<blockData, undo, index>>
posVars == <<blk, txi, inp>>
poolVars == <<txmap, outsReferenced, internalTree, alive>>
histVars == <<confirmed, failed>>
ledgerVars == <<coins, diskVars, batch, pc, posVars, before, histVars>>
vars == <<ledgerVars, poolVars>>

Unspent == UnspentIn(coins)

\* The unspent outputs as they were before the block under way touched them.
Utxo == IF pc = "confirm" THEN before ELSE Unspent

Pool == INSTANCE Mempool WITH unspent <- Unspent

\* No InsertBlock is under way: its loop variables are gone.
NoCall == pc = "idle" /\ txi = 1 /\ inp = 0 /\ before = {}

Init ==
  /\ coins = InitialCoins
  /\ blockData = {} /\ index = {}
  /\ undo = NoRecords
  /\ batch = NoRecords
  /\ blk = CHOOSE b \in Block : TRUE
  /\ NoCall
  /\ confirmed = [b \in Block |-> 0]
  /\ failed = FALSE
  /\ Pool!EmptyPool
  /\ alive = TRUE

Idle == alive /\ pc = "idle"

AddTX(t) == Idle /\ UNCHANGED ledgerVars /\ Pool!AddTX(t)

(***************************************************************************)
(* Validation.                                                             *)
(***************************************************************************)
\* InsertBlock up to WriteBlock.
AcceptBlock(b) ==
  /\ Idle
  /\ b \in HeaderAnswers
  /\ confirmed[b] < MaxConfirms[b]
  /\ Linked[b]
  /\ ValidateBlock(b, Unspent)
  /\ blk' = b
  /\ pc' = "store"
  /\ before' = Unspent
  /\ UNCHANGED <<coins, diskVars, batch, txi, inp, histVars, poolVars>>

\* ValidateBlockTx stops at the first offending transaction and takes it out
\* of the pool.  Merkle root and header are looked at later.
RejectBlock(b) ==
  /\ Idle
  /\ Linked[b]
  /\ Offending(Txs[b], Unspent) # {}
  /\ UNCHANGED ledgerVars
  /\ Pool!RemoveTX(Txs[b][Min(Offending(Txs[b], Unspent))])

\* The call ends.
CallEnds == pc' = "idle" /\ txi' = 1 /\ inp' = 0 /\ before' = {}

Die ==
  /\ alive' = FALSE
  /\ CallEnds
  /\ batch' = NoRecords
  /\ txmap' = [i \in {} |-> 0]
  /\ outsReferenced' = {}
  /\ internalTree' = Pool!EmptyTree
  /\ UNCHANGED <<coins, diskVars, blk, histVars>>

\* The header check of an otherwise valid block exhausts the stack.
HeaderOverflows(b) ==
  /\ Idle
  /\ b \notin HeaderAnswers
  /\ Linked[b]
  /\ ValidateBlock(b, Unspent)
  /\ Die

(***************************************************************************)
(* WriteBlock.                                                             *)
(***************************************************************************)
\* Mutant: the undo record is forgotten.
StoreData_NoUndo ==
  /\ pc = "store"
  /\ blockData' = blockData \cup {blk}
  /\ pc' = "index"
  /\ UNCHANGED <<coins, undo, index, batch, posVars, before, histVars, poolVars>>

StoreData ==
  /\ pc = "store"
  /\ blockData' = blockData \cup {blk}
  /\ pc' = "undo"
  /\ UNCHANGED <<coins, undo, index, batch, posVars, before, histVars, poolVars>>

\* Mutant: starts one transaction too late.
UndoData_SkipsTwo(b) ==
  {[out |-> o, stamp |-> coins[o[1]].stamp]
     : o \in UNION {InputSet(Txs[b][i]) : i \in Regular(Txs[b]) \ {2}}}

\* GetUndoData: one record for every output spent, with the stamp of the
\* transaction that created it.
UndoData(b) == {[out |-> o, stamp |-> coins[o[1]].stamp] : o \in Spends(b)}

StoreUndo ==
  /\ pc = "undo"
  /\ undo' = [b \in DOMAIN undo \cup {blk} |->
                IF b = blk THEN UndoData(blk) ELSE undo[b]]
  /\ pc' = "index"
  /\ UNCHANGED <<coins, blockData, index, batch, posVars, before, histVars, poolVars>>

StoreIndex ==
  /\ pc = "index"
  /\ index' = index \cup {blk}
  /\ pc' = "confirm"
  /\ txi' = 1 /\ inp' = 0
  /\ UNCHANGED <<coins, blockData, undo, batch, blk, before, histVars, poolVars>>

(***************************************************************************)
(* ConfirmAsValid: for every transaction, the coinbase included, its       *)
(* inputs are removed from the chainstate one by one and its outputs put   *)
(* in the batch; the batch is written at the end.                          *)
(***************************************************************************)
CurTx == Txs[blk][txi]
InBlock == txi <= Len(Txs[blk])
AtSpend == pc = "confirm" /\ InBlock /\ inp < Len(Ins[CurTx])
AtPut == pc = "confirm" /\ InBlock /\ inp = Len(Ins[CurTx])
AtFlush == pc = "confirm" /\ ~InBlock
NextInput == Ins[CurTx][inp + 1]

CleanUpInput ==
  /\ AtSpend
  /\ NextInput \in Unspent
  /\ coins' = RemoveUtxo(coins, NextInput)
  /\ inp' = inp + 1
  /\ UNCHANGED <<diskVars, batch, pc, blk, txi, before, histVars, poolVars>>

\* The record InsertBatchTX puts in the batch (SerializeTXMetadata).
Metadata(t) ==
  [stamp |-> 2 * BlockHeight[t] + (IF IsCoinbase[t] THEN 1 ELSE 0),
   unspent |-> 0 .. NOut(t) - 1]

\* Mutant: the record is written at once.
InsertBatchTX_WritesThrough ==
  /\ AtPut
  /\ NOut(CurTx) > 0
  /\ coins' = [i \in DOMAIN coins \cup {TxId[CurTx]} |->
                 IF i = TxId[CurTx] THEN Metadata(CurTx) ELSE coins[i]]
  /\ txi' = txi + 1
  /\ inp' = 0
  /\ UNCHANGED <<batch, diskVars, pc, blk, before, histVars, poolVars>>

\* Mutant: the outputs of the coinbase are forgotten.
InsertBatchTX_NoCoinbase ==
  /\ AtPut
  /\ NOut(CurTx) > 0
  /\ batch' = [i \in DOMAIN batch \cup (IF txi = 1 THEN {} ELSE {TxId[CurTx]}) |->
                 IF i = TxId[CurTx] THEN Metadata(CurTx) ELSE batch[i]]
  /\ txi' = txi + 1
  /\ inp' = 0
  /\ UNCHANGED <<coins, diskVars, pc, blk, before, histVars, poolVars>>

InsertBatchTX ==
  /\ AtPut
  /\ NOut(CurTx) > 0
  /\ batch' = [i \in DOMAIN batch \cup {TxId[CurTx]} |->
                 IF i = TxId[CurTx] THEN Metadata(CurTx) ELSE batch[i]]
  /\ txi' = txi + 1
  /\ inp' = 0
  /\ UNCHANGED <<coins, diskVars, pc, blk, before, histVars, poolVars>>

\* InsertBlock returns an error from where it is; what it did stays done.
ReturnError ==
  /\ CallEnds
  /\ failed' = TRUE
  /\ UNCHANGED <<coins, diskVars, batch, blk, confirmed, poolVars>>

\* ErrNonExistentUTXO.
CleanUpFails == AtSpend /\ NextInput \notin Unspent /\ ReturnError

\* ErrSpentTX: a transaction without outputs counts as spent.
InsertBatchFails == AtPut /\ NOut(CurTx) = 0 /\ ReturnError

\* A database write of WriteBlock or ConfirmAsValid fails.
WriteFails ==
  /\ CanFail
  /\ pc \in {"store", "undo", "index"} \/ AtSpend \/ AtFlush
  /\ ReturnError

\* Mutant: RemoveBlock starts one place early.
WriteBatchTX_FromZero ==
  /\ AtFlush
  /\ coins' = Overlay(coins, batch)
  /\ batch' = NoRecords
  /\ confirmed' = [confirmed EXCEPT ![blk] = @ + 1]
  /\ pc' = "evict"
  /\ txi' = 0
  /\ UNCHANGED <<diskVars, blk, inp, before, failed, poolVars>>

\* Mutant: the batch is not reset after it was written.
WriteBatchTX_KeepsBatch ==
  /\ AtFlush
  /\ coins' = Overlay(coins, batch)
  /\ confirmed' = [confirmed EXCEPT ![blk] = @ + 1]
  /\ pc' = "evict"
  /\ txi' = 2
  /\ UNCHANGED <<diskVars, batch, blk, inp, before, failed, poolVars>>

\* Mutant: RemoveBlock skips one transaction too many.
WriteBatchTX_SkipsTwo ==
  /\ AtFlush
  /\ coins' = Overlay(coins, batch)
  /\ batch' = NoRecords
  /\ confirmed' = [confirmed EXCEPT ![blk] = @ + 1]
  /\ pc' = "evict"
  /\ txi' = 3
  /\ UNCHANGED <<diskVars, blk, inp, before, failed, poolVars>>

WriteBatchTX ==
  /\ AtFlush
  /\ coins' = Overlay(coins, batch)
  /\ batch' = NoRecords
  /\ confirmed' = [confirmed EXCEPT ![blk] = @ + 1]
  /\ pc' = "evict"
  /\ txi' = 2
  /\ UNCHANGED <<diskVars, blk, inp, before, failed, poolVars>>

(***************************************************************************)
(* mempool.RemoveBlock: every transaction but the first, if it is pooled.  *)
(***************************************************************************)
EvictPooled ==
  /\ pc = "evict" /\ InBlock
  /\ txi' = txi + 1
  /\ UNCHANGED <<coins, diskVars, batch, pc, blk, inp, before, histVars>>
  /\ Pool!RemoveTX(CurTx)

EvictAbsent ==
  /\ pc = "evict" /\ InBlock
  /\ TxId[CurTx] \notin DOMAIN txmap
  /\ txi' = txi + 1
  /\ UNCHANGED <<coins, diskVars, batch, pc, blk, inp, before, histVars, poolVars>>

Return ==
  /\ pc = "evict" /\ ~InBlock
  /\ CallEnds
  /\ UNCHANGED <<coins, diskVars, batch, blk, histVars, poolVars>>

(***************************************************************************)
(* The process.                                                            *)
(***************************************************************************)
ProcessDies == CanCrash /\ alive /\ Die

Restart ==
  /\ ~alive
  /\ alive' = TRUE
  /\ UNCHANGED <<ledgerVars, txmap, outsReferenced, internalTree>>

\* The steps of an InsertBlock under way.
Advance ==
  \/ StoreData
  \/ StoreUndo
  \/ StoreIndex
  \/ CleanUpInput
  \/ InsertBatchTX
  \/ CleanUpFails
  \/ InsertBatchFails
  \/ WriteBatchTX
  \/ EvictPooled
  \/ EvictAbsent
  \/ Return

Next ==
  \/ \E t \in Tx : AddTX(t)
  \/ \E b \in Block : AcceptBlock(b)
  \/ \E b \in Block : RejectBlock(b)
  \/ \E b \in Block : HeaderOverflows(b)
  \/ Advance
  \/ WriteFails
  \/ ProcessDies
  \/ Restart

Spec == Init /\ [][Next]_vars

\* The call runs on the caller's goroutine: nothing but its own steps can keep
\* it from going on.
FairSpec == Spec /\ WF_vars(Advance)

-----------------------------------------------------------------------------
Ids == TxIds \cup DOMAIN InitialCoins
IsRecords(r) ==
  /\ DOMAIN r \subseteq Ids
  /\ \A i \in DOMAIN r : r[i] \in [stamp : Nat, unspent : SUBSET Nat]

ChainTypeOK ==
  /\ IsRecords(coins) /\ IsRecords(batch)
  /\ blockData \subseteq Block
  /\ index \subseteq Block
  /\ DOMAIN undo \subseteq Block
  /\ \A b \in DOMAIN undo : undo[b] \subseteq [out : Outpoint, stamp : Nat]
  /\ pc \in {"idle", "store", "undo", "index", "confirm", "evict"}
  /\ blk \in Block /\ txi \in Nat \ {0} /\ inp \in Nat
  /\ before \subseteq Outpoint
  /\ confirmed \in [Block -> Nat]
  /\ failed \in BOOLEAN

TypeOK == ChainTypeOK /\ Pool!TypeOK

\* The outputs that are, or once were, unspent.
Known == UnspentIn(InitialCoins) \cup UNION {Creates(b) : b \in {c \in Block : confirmed[c] > 0}}

\* GetUtxo, RemoveUtxo and UtxoExists take a record for a transaction with
\* something left to spend: no order of spends leaves an empty one behind.
NoEmptyRecord == \A i \in DOMAIN coins : coins[i].unspent # {}

\* Whenever the process dies or a write fails, a block the index lists has its
\* data and its undo records stored (the order of the writes in WriteBlock).
IndexedIsStored == index \subseteq DOMAIN undo /\ DOMAIN undo \subseteq blockData

\* What the first transaction of b refers to.  Nothing checks it, but
\* ConfirmAsValid removes it and GetUndoData leaves it out.
FirstRefersTo(b) == InputSet(Txs[b][1])

\* An output that is gone from the chainstate has an undo record in the store,
\* even if the block that spent it was interrupted: WriteBlock comes first.
\* (Unless the first transaction of a stored block took it: see above.)
LostIsRecoverable ==
  \A o \in Known \ Unspent :
    \/ \E b \in DOMAIN undo : \E u \in undo[b] : u.out = o
    \/ \E b \in blockData : o \in FirstRefersTo(b)

\* What ValidateBlockTx found unspent is still there when cleanUpInputs gets to
\* it, inputs of one transaction and of one block being removed in turn, unless
\* the first transaction of the block refers to it too.
SpendSucceeds ==
  AtSpend /\ txi \in Regular(Txs[blk]) /\ NextInput \notin FirstRefersTo(blk)
    => NextInput \in Unspent

\* Unless a call failed, the chainstate holds outputs of confirmed blocks only,
\* whenever the process dies: the outputs of a block appear with its last write,
\* or not at all.  (A failed call leaves its batch to the next block.)
CreatedByConfirmed ==
  failed \/ \A i \in DOMAIN coins \ DOMAIN InitialCoins :
              \E b \in Block : confirmed[b] > 0 /\ i \in IdsOf(b)

(***************************************************************************)
(* What was confirmed, counted.                                            *)
(***************************************************************************)
\* The places where block b refers to the output o.
References(b, o) ==
  UNION {{<<i, k>> : k \in {n \in DOMAIN Ins[Txs[b][i]] : Ins[Txs[b][i]][n] = o}}
           : i \in DOMAIN Txs[b]}

\* What one confirmation of b adds: references to o, outputs o made (a block that
\* holds a transaction twice puts one record in the batch), and the transaction
\* of TXID id, if ValidateBlockTx and RemoveBlock look at it.
SpendsOf == [b \in Block |-> [o \in Outpoint |-> Cardinality(References(b, o))]]
MakesOf == [b \in Block |-> [o \in Outpoint |-> IF o \in Creates(b) THEN 1 ELSE 0]]
HoldsOf ==
  [b \in Block |-> [id \in TxIds |->
     IF \E i \in Regular(Txs[b]) : TxId[Txs[b][i]] = id THEN 1 ELSE 0]]

\* The sum over all confirmations so far of what one of them adds.
PerConfirmation(f, x) == SumFunctionOnSet([b \in Block |-> confirmed[b] * f[b][x]], Block)

TimesSpent(o) == PerConfirmation(SpendsOf, o)
TimesMade(o) == PerConfirmation(MakesOf, o) + (IF o \in UnspentIn(InitialCoins) THEN 1 ELSE 0)
TimesConfirmed(id) == PerConfirmation(HoldsOf, id)

\* Unless a call failed, no output is spent by confirmed blocks more often than
\* it was made, one time being kept for an output that is unspent: over all
\* blocks, all inputs of a block, and all the times a block was inserted.  (A
\* coinbase of a TXID already spent makes its outputs once more, and so may
\* everything confirmed since: nothing in the code stands in the way.)
NoDoubleSpend ==
  failed \/ \A o \in Outpoint :
              TimesSpent(o) + (IF o \in Utxo THEN 1 ELSE 0) <= TimesMade(o)

OutValue(o) ==
  IF o \in DOMAIN InitialValue THEN InitialValue[o]
  ELSE OutValues[CHOOSE t \in Tx : TxId[t] = o[1]][o[2] + 1]
Value(outs) == SumFunctionOnSet([o \in outs |-> OutValue(o)], outs)

\* Every output there can be.
EveryOutput == UnspentIn(InitialCoins) \cup UNION {OutputsOf(t) : t \in Tx}

\* An input is authentic if it equals the stored output, its value included: an
\* authentic transaction claims what its inputs are worth.
ASSUME ValueAssumption ==
  /\ IsFiniteSet(Block)
  /\ IsFiniteSet(UnspentIn(InitialCoins))
  /\ InitialValue \in [UnspentIn(InitialCoins) -> Nat]
  /\ \A t \in Tx : \A o \in OutputsOf(t) \cap DOMAIN InitialValue :
       InitialValue[o] = OutValues[t][o[2] + 1]
  /\ \A t \in Tx :
       Authentic[t] /\ InputsDistinct(t) /\ InputSet(t) \subseteq EveryOutput
         => InputValue[t] = Value(InputSet(t)) % Uint64

\* b holds a transaction whose outputs add up to more than a uint64 holds: the
\* check on the running total lets one pass that makes the total wrap, and the
\* outputs of a coinbase are only added up.
Wraps(b) ==
  \E i \in DOMAIN Txs[b] :
    SumFunctionOnSet(OutValues[Txs[b][i]], DOMAIN OutValues[Txs[b][i]]) >= Uint64

\* Unless a call failed, or a block got through whose outputs wrap, the value in
\* the chainstate exceeds what was there at first by no more than the
\* subsidies of the blocks confirmed: fees are not paid out twice, and an
\* interrupted block creates nothing (ValidateCoinbase, ValidateTransaction).
SupplyBounded ==
  \/ failed
  \/ \E b \in Block : confirmed[b] > 0 /\ Wraps(b)
  \/ Value(Unspent) <=
       Value(UnspentIn(InitialCoins))
       + BlockSubsidy(OfferedAt) * SumFunctionOnSet(confirmed, Block)

\* Unless a call failed, between two calls a transaction is pooled only if each
\* of its inputs was made more often than the transaction was confirmed: RemoveBlock
\* takes out what a block confirmed, and AddTX takes it again only if all it spends
\* was made anew.  (A failed call leaves its coinbase in the batch: written with
\* the next block, it is made without a block confirmed that makes it.)
ConfirmedLeavesPool ==
  failed \/ (pc = "idle" =>
    \A t \in Tx : TxId[t] \in DOMAIN txmap =>
      \A o \in InputSet(t) : TimesConfirmed(TxId[t]) < TimesMade(o))

\* The block under way is left in the middle of ConfirmAsValid: some of what it
\* refers to is gone, and none of what it creates is there.
LeftHalfway ==
  /\ pc = "confirm" /\ pc' = "idle"
  /\ confirmed' = confirmed
  /\ Utxo' \subseteq Utxo
  /\ Utxo \ Utxo' \subseteq Refers(blk)

\* What the batch may hold of calls that failed: outputs of blocks stored then.
LeftInBatch == IF failed THEN UNION {Creates(b) : b \in blockData} ELSE {}

\* Block b, valid for the unspent outputs, is applied to them as a whole, the
\* inputs of its first transaction included.
AppliedAsAWhole(b) ==
  LET applied == (Utxo \ Refers(b)) \cup Creates(b)
  IN  /\ ValidateBlock(b, Utxo)
      /\ Refers(b) \subseteq Utxo
      /\ confirmed' = [confirmed EXCEPT ![b] = @ + 1]
      /\ applied \subseteq Utxo'
      /\ Utxo' \ applied \subseteq LeftInBatch

\* Whatever fails and wherever the process dies, the unspent outputs change in
\* two ways only: a valid block is applied to them at once and as a whole, or a
\* call left half way has taken away some of what its block refers to.  What a
\* failed call left in the batch appears with a later block, and is no more than
\* the outputs of blocks stored by then.
AppliesAtOnce ==
  [][\/ Utxo' = Utxo /\ confirmed' = confirmed
     \/ LeftHalfway
     \/ \E b \in Block : AppliedAsAWhole(b)]_vars

Atomic == INSTANCE UtxoSet WITH utxo <- Utxo, InitialUtxo <- UnspentIn(InitialCoins)

\* If the process lives and writes succeed, InsertBlock applies valid blocks to
\* the set of unspent outputs at once and as a whole, for blocks whose first
\* transaction has no input, or inputs that are there and that no other
\* transaction of the block has, and whose transactions all have outputs (for
\* others the call fails half way: see CoinbaseConfirms and InsertBatchFails;
\* what happens then AppliesAtOnce says).
ImplementsUtxoSet == Atomic!Spec

\* If the process lives and writes succeed, a block that passed ValidateBlock
\* is confirmed by the time InsertBlock returns (for blocks as in
\* ImplementsUtxoSet).
AcceptedIsConfirmed ==
  \A b \in Block : \A n \in 0 .. MaxConfirms[b] - 1 :
    (pc = "store" /\ blk = b /\ confirmed[b] = n) ~> (pc = "idle" /\ confirmed[b] = n + 1)

-----------------------------------------------------------------------------
\* "a second iteration is necessary to prevent removing the UTXOs of
\* transactions in an invalid block", "by this point, all the TX in the block
\* are valid": between two calls, an output that is gone was spent by a block
\* that was confirmed.
AllOrNothing ==
  pc = "idle" =>
    \A o \in Known \ Unspent : \E b \in Block : confirmed[b] > 0 /\ o \in Spends(b)

\* "2*height (+ 1 if coinbase output) of block in which the UTXO was created":
\* the undo record of an output that was there at first has its stamp.
UndoHasStamp ==
  \A b \in DOMAIN undo : \A u \in undo[b] :
    u.out[1] \in DOMAIN InitialCoins => u.stamp = InitialCoins[u.out[1]].stamp

\* "Coinbase should be added to chainstate after confirming the block as valid":
\* confirming a block finds the inputs it removes for the coinbase.
CoinbaseConfirms == AtSpend /\ txi = 1 => NextInput \in Unspent

=============================================================================
