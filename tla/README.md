# Verification of plairo

plairo is a simplified implementation of the Bitcoin blockchain in Go: a
chainstate of unspent outputs, blocks with a store of their own, and a pool of
unconfirmed transactions. This directory holds TLA+ modules translated from its
source, the TLC configurations that check them, and theorems about them that
TLAPS checks. Paths below are relative to the root of the repository.

The program is sequential: there is no goroutine, lock or RPC anywhere, and
`main` is empty. What makes it hard is durability (five kinds of writes to four
databases, made one after the other), errors in the middle of a block, and data
structures that must agree with each other over long sequences of calls.

## 1. Inventory

| Component | State it keeps | Operations | Correct when |
| --- | --- | --- | --- |
| Mempool, `core/mempool.go` | `txmap` (TXID to fee), `outsReferenced`, `internalTree`; memory only | `AddTX`, `RemoveTX`, `RemoveBlock`, `GetMaxTXs` | the three structures agree; no two pooled transactions spend one output; what is confirmed leaves it; the best paid are offered first |
| Fee tree, `core/mempool.go`, `utils/num.go` | nodes with key, height, two subtrees, chain of equal fees | `insert`, `removeRecord`, `getMaxElements`, rotations | a balanced search tree; whatever was inserted is found |
| Transactions, `core/transaction.go`, `core/transaction_output.go` | immutable once built | `ValidateTransaction`, `GetFees`, `cleanUpInputs`, `SerializeTXMetadata`, signing | a valid one spends outputs that exist, each once, for no more than they hold |
| Blocks, `core/block.go` | header and transactions | `ValidateBlock`, `ValidateBlockTx`, `ValidateCoinbase`, `ConfirmAsValid`, `GetUndoData` | valid blocks apply; the coinbase takes subsidy and fees at most |
| Mining and retargeting, `core/block.go` | header and transactions of the block in hand; the headers of the chain | `MineBlock`, `GetTargetForBlock` | what is mined is accepted; every header is tried before the block is given up; it ends |
| Block insertion, `core/blockchain.go` | `chain`, `forks`; memory only | `CreateBlockchain`, `InsertBlock` | a block is applied as a whole or not at all |
| Chainstate, `db/chainstate.go` | a record per transaction with an unspent output; durable | `GetUtxo`, `RemoveUtxo`, `InsertBatchTX`, `WriteBatchTX`, `UtxoExists` | nothing is spent more often than it was made; records go with their last output |
| Block, undo and index stores, `db/block_storage.go`, `db/block_index.go` | block data, undo records, index records; durable | `WriteBlock`, `GetBlockData`, `GetUndoData` | what the index lists can be read and undone |
| Database wrapper, `db/dbwrapper.go` | LevelDB, obfuscation key, `currentBatch` | `Insert`, `Get`, `PutInBatch`, `WriteBatch`, `PageInsert`, `PageGet` | what is written is what is read |
| Metadata reader, `core/txmetadata_reader.go` | none | vector of unspent outputs, offsets | agrees with `SerializeTXMetadata` |
| Targets, `utils/target.go` and `GetTargetForBlock` | none | compact target, retargeting | rounding and bounds |
| Hashes, merkle root, keys, serializers, `utils/` | none | pure functions | |

How they interact. `InsertBlock` is where everything meets. It validates the
block against the chainstate (`ValidateBlockTx` takes an offending transaction
out of the pool), stores it (`WriteBlock`: data, then undo records, then index
record, each in a database of its own), confirms it (`ConfirmAsValid`: for each
transaction the inputs are removed from the chainstate by writes of their own,
and the outputs put in a batch; the batch is written at the end), and takes its
transactions out of the pool (`RemoveBlock`). The pool validates against the
chainstate when a transaction is added, and never again.

What is hard here: a death of the process or a failed write between any two of
these writes; state left behind by an `InsertBlock` that returned an error; the
pool that must follow the blocks; objects that share a TXID but not their
content; a tree whose stored heights and chains outlive the operations they were
made by. `PROJECT.json` lists these hazards, each at its line.

## 2. Modules

| Module | Models | State |
| --- | --- | --- |
| `Transaction` | `ValidateTransaction`, `GetFees`, `txRecord` | constants: a transaction is a member of `Tx` |
| `Mempool` | `MemPool` as its callers see it | `txmap`, `outsReferenced`, `internalTree` as a count per record, `alive`, and the chainstate as `unspent` |
| `MempoolProofs` | theorems about `Mempool` | |
| `LedgerProofs` | theorems about `Ledger` that hold whatever is offered, dies or fails; the pool inside it | |
| `LedgerHistoryProofs` | theorems about `Ledger` over several blocks: what was confirmed, counted; how a block applies; and that it implements `UtxoSet` | |
| `LedgerSupplyProofs` | that `Ledger` creates no value but subsidies | |
| `MiningProofs` | theorems about `Mining` and `Target` | |
| `StoresProofs` | theorems about `Stores` as a database: keys, batches, pages | |
| `CoinStoreProofs` | theorems about the records of the chainstate in `Stores`: bits, values, and that it implements `Coins` | |
| `SumsProofs` | lemmas on sums over finite sets, quotients, powers and loops, for the other proof modules | |
| `MemTree` | the fee tree: insertion, removal, rotations, selection, panics | none: recursive operators on trees |
| `MempoolTree` | `MemPool` with its tree; implements `Mempool` | `root` in place of the count |
| `BlockChecks` | what `core/block.go` computes from a list of transactions: `ValidateBlockTx`, fees, subsidy, coinbase check | constants |
| `Blocks` | the blocks `InsertBlock` is given, and `ValidateBlock` | constants |
| `CoinRecords` | chainstate records as callers see them, and what a removal does to them | none |
| `UtxoSet` | what `InsertBlock` promises: blocks apply at once | `utxo` |
| `Ledger` | `InsertBlock` with all it calls; composes `Blocks` and `Mempool`; implements `UtxoSet` | chainstate, stores, batch, pool, place in the call |
| `DBwrapper` | `db/dbwrapper.go`: handle, obfuscation key, single writes, batch | what LevelDB holds, the handle, its key and its batch |
| `Metadata` | the chainstate record: `SerializeTXMetadata`, `SerializeToOneHot` and the reader | none |
| `Coins` | what `db/chainstate.go` promises, on `CoinRecords` | `coins`, `batch` |
| `CoinStore` | `db/chainstate.go` over `DBwrapper` and `Metadata`; implements `Coins` | that of `DBwrapper` |
| `PageStore` | `PageInsert` and `PageGet`, as the block and undo stores use them | that of `DBwrapper`, and the call under way |
| `Stores` | a database that keeps records or pages, opened, used, lost and opened again; composes `CoinStore` and `PageStore` | `kind` |
| `Target` | `utils/target.go` | none |
| `Mining` | `MineBlock`, `GetTargetForBlock` and their caller, over `BlockChecks` and `Target` | the last header, the block in hand, the pool as a set |
| `MC_Mempool`, `MC_MempoolTree`, `MC_Ledger`, `MC_Stores`, `MC_Mining` | the instances TLC checks | |

Correspondence. One action per operation of the pool. `InsertBlock` is cut where
a durable write ends, because that is where a crash can fall: `AcceptBlock` is
everything up to `WriteBlock`; `StoreData`, `StoreUndo` and `StoreIndex` are its
three writes; `CleanUpInput` is one `RemoveUtxo`; `InsertBatchTX` is one put in
the batch; `WriteBatchTX` the batch write; `EvictPooled` and `EvictAbsent` one
round of the loop of `RemoveBlock`. `pc`, `blk`, `txi` and `inp` say where the
call is. `RejectBlock` is a block turned down by `ValidateBlockTx`, with its
removal from the pool, which comes before merkle root and header are looked at; a
block turned down elsewhere changes nothing and is no
step. `CleanUpFails`, `InsertBatchFails` and `WriteFails` are the error returns:
what was done stays done, the batch included. `ProcessDies` loses the batch, the
pool and the call. `before`, `confirmed`, `failed` and, in `MempoolTree`,
`removed` are history variables: no action reads them, except that `confirmed` carries the bound
`MaxConfirms`.

In `MemTree` a call that dereferences nil or panics with `ErrTxRecNotFound` yields
`Panic`, and `MempoolTree` makes that a death of the process. A tree node keeps
its chain as a sequence of `[rec, tx]`, the node itself first, because the code
replaces `txRec` without `tx` (line 249), and the model has to tell them apart.

`Ledger` uses `CoinRecords`, and `CoinStore` shows that the records the code really
writes are read as those: packed into bits, rewritten at each spend, obfuscated,
and read back by the next process. There the operations of `db/chainstate.go` are the
actions; a read of a record that is noise is a death of the process (`ReadNoise`), since the
reader slices by lengths it takes from the record. In `PageStore` each page of a
`PageInsert` is an action (`InsertPage`, `InsertLastPage`), because each is a write of its own;
`InsertPageFails` is the error return at any page, and `CloseOrDie` may come between any two.
`PageGet` reads without changing anything and is an operator.

In `Mining` one round of the loop of `MineBlock` is one action: `Hit`, `TryNext`,
`BumpTime` or `GoStale`. What comes before the loop is one action too, `StartMining`, or one of
its refusals (`RefuseTx`, with the removal from the pool, and `RefuseBlock`). After
`ErrStaleBlock` and after success the same block may be given to `MineBlock` again.
`tried`, `firstNonce`, `ownStamp` and `calls` are history variables.

Abstractions.
- Hashes are injective: an outpoint `<<TXID, vout>>` stands for `OutputID`. Two
  objects of `Tx` may have one TXID, since the TXID covers the outpoints and the
  outputs but not the value an input claims nor later signatures; the assumption
  of `Transaction` says what follows from an equal TXID.
- `Authentic[t]` stands for "the inputs are equal to the stored outputs and
  unlocked by valid signatures". Values of inputs are totals per transaction, those
  of outputs are single; sums are in `uint64` arithmetic, and `Uint64` is the number of
  values.
- A chainstate record is `[stamp, unspent]`, where `stamp` is
  2 * height + coinbase flag as in the undo records.
- `Linked[b]` stands for the link to the last node, `WellFormed[b]` for the merkle root,
  the length of the header and its timestamp. All blocks are offered at height 1:
  `CreateBlockchain` starts with the genesis node and `InsertBlock` never appends
  to `bc.chain` (it builds `newnode` and drops it), so no other height passes the
  first checks and the fork branch (`core/blockchain.go:84-152`) is not reachable.
- `ValidateBlockHeader` calls itself before it answers (`core/block.go:319`).
  `HeaderAnswers` is the set of blocks for which it does answer; in the code as
  it is that set is empty, and `HeaderOverflows` is all that can happen to a valid
  block. The runs put most blocks in it, so that the rest of `InsertBlock` is
  checked too, as the code would run with a header check that keeps to its
  contract.
- LevelDB is durable per write and atomic per batch. That a read fails for another
  reason than a missing key is left out.
- `obfuscateValue` is XOR, so an entry of `DBwrapper` carries the set of keys it is XORed
  with, and applying one key twice takes it off. An entry is legible if none is left.
- `Stores` has one database, which keeps chainstate records or pages; the code
  has one of each kind at paths of their own, which share nothing. The undo store
  is opened for each call; that is a `CloseOrDie` and an `Open` between two calls.
- The coefficient of a retarget is an exact fraction, the code has a `float64` of 53
  bits: the product, of up to 34 bits, is rounded down from a value that may differ in
  the last bits of the quotient.
- A hash is one of a few numbers, chosen when a header is tried. That is sound
  because no header is tried twice: within a call the pairs of timestamp and nonce
  differ, and a second call has another merkle root.
- Nothing in `src/` calls `MineBlock` or `GetTargetForBlock`, and no constructor sets the
  header of a block. `Mining` gives the caller the obvious part: it builds blocks
  from any list of pooled transactions, gives the header the target of
  `GetTargetForBlock` and any nonce, and extends its chain by valid blocks it mined and by
  headers it receives. The unspent outputs do not change in between.

## 3. Runs

Passing runs.

| Run | Configuration | States | Shows |
| --- | --- | --- | --- |
| `pool` | `MC_Mempool` | 272 | `TypeOK`, `MapInTree`, `TreeMatchesMap`, `OutsReferencedExact`, `NoPooledConflict` |
| `tree` | `MC_MempoolTree` | 3,310 | `SearchOrder`, `HeightsExact`, `OffersHighest`, `ImplementsMempool` |
| `ledger_faults` | `MC_LedgerFaults` | 616,927 | `TypeOK`, `NoEmptyRecord`, `IndexedIsStored`, `LostIsRecoverable`, `NoDoubleSpend`, `ConfirmedLeavesPool`, `SpendSucceeds`, `CreatedByConfirmed`, `SupplyBounded`, `AppliesAtOnce` |
| `ledger_atomic` | `MC_LedgerAtomic` | 15,949 | `NoDoubleSpend`, `ConfirmedLeavesPool`, `ImplementsUtxoSet`, `AcceptedIsConfirmed` |
| `stores` | `MC_Stores` | 38,891 | `TypeOK`, `LegibleUnlessBatched`, `ValueKept`, `UtxoExistsAgrees`, `ReadIsWhole`, `ReadIsPagewise`, `ReadLastWritten`, `ImplementsCoins` |
| `mining` | `MC_Mining` | 272,692 | `TypeOK`, `MinedIsValid`, `TakesItsDue`, `StaleMeansExhausted`, `RetargetRounds`, `RetargetMonotone`, `OwnStampsQuarter`, `MiningEnds` |

Some of these state what the code does where one would expect more, and so
mark the limits of what a caller may rely on: `MinedIsValid` holds for the first call and
a valid first transaction only, `LegibleUnlessBatched` says which records of an
obfuscated chainstate are lost, `NoDoubleSpend` and `ConfirmedLeavesPool` count the times a
block that is inserted again makes its outputs anew, `AppliesAtOnce` allows a call to end half way and to
leave its batch behind, `ReadIsPagewise` allows two versions of a value to be mixed, `ReadLastWritten` allows for the bytes that paging
overwrites, and `OwnStampsQuarter` says that the timestamps of `MineBlock` carry no time.
Section 5 lists the lines.

Runs that end in a counterexample, because the code does not do what it says.

| Run | Property | What happens |
| --- | --- | --- |
| `tree_insert` | `InsertFindsRotation` | fees 1, 2, 3 in this order make `insertAtNode` rotate around a nil node: the two cases on the right side are swapped |
| `tree_remove` | `PooledIsFound` | the search of `removeAtNode` never goes right (the second comparison repeats the first), and panics |
| `tree_offer` | `OffersOnlyPooled` | a removed node with two children keeps its `tx`, which `GetMaxTXs` goes on offering |
| `ledger_minted` | `CoinbaseConfirms` | `ConfirmAsValid` removes the inputs of the coinbase too; the null input of a coinbase from `NewCoinbaseTransaction` is in no chainstate |
| `ledger_half` | `AllOrNothing` | a process that dies between the removals and the batch has spent outputs for a block it never confirmed |
| `ledger_undo` | `UndoHasStamp` | a partial spend rewrites the record without height and coinbase flag; the next undo record has neither |

Bounds, and why they are enough.
- `pool`: five objects over four outputs, with a conflict at a second input, an
  object with a pooled TXID and another claimed value, and one that names an output
  twice. Every property relates at most two objects, and each kind of pair is there.
  `MaxCopies` bounds the nodes of a record; `TreeMatchesMap` shows that a second
  node never comes about where fees agree.
- `tree`: six transactions with fees 1, 2, 3, 3, 4, 5 in every order of insertion
  and removal. That gives trees of depth three and more with both rotations, a chain
  at the root, at an inner node and at a successor, and removals with none, one and
  two children. The chainstate is fixed here: it does not bear on the tree.
- `ledger_faults`: a coinbase record of two outputs from an earlier height, another
  of one, and nine blocks: one that spends the first, one that spends an output of that one, a coinbase
  without input alone (`bc`), a block that spends it (`bs`), one with a conflict
  inside, one whose coinbase takes too much, one whose first transaction refers to outputs that
  regular transactions spend and has no outputs itself, one whose header overflows the stack, and one with the merkle
  root of another. `bc` may be confirmed twice, before and after its output was
  spent, and all others once (`MaxConfirms`); the process may die at any point any number of
  times, and any write may fail. `LeftHalfway` comes about in all three ways: a death, a failed write, and a
  first transaction that took what another spends.
  One of the blocks has a transaction whose outputs add up past `Uint64`; of a ledger that has confirmed
  it, `SupplyBounded` says nothing.
- `ledger_atomic`: nine blocks, no crash and no failing write. `bc` and `bs` may be confirmed twice:
  coinbase, spend, coinbase and spend again, with the spender going into the pool and out of it in between. `b1` and `bv`
  may be confirmed twice as well and never are, since they spend what nothing makes anew. One block
  has a first transaction that takes an output nobody signed for (`bq`).
- `stores`: two bits to a byte, so that a record of three outputs has a vector of two
  bytes, the first not full; every order of spends, inserts, batches and restarts. Two
  bytes to a page and three page numbers: under one key a value that needs all three and a shorter
  one, under another two versions of two full pages, under a third one that needs a fourth
  number and one of a single page. Two obfuscation
  keys, plain and obfuscated databases. No bound is needed on the number of operations.
- `mining`: bytes of 8 values, two nonces, one bump of the timestamp, lists of up to three
  of four transactions (one invalid, two in conflict, one whose fee makes the
  coinbase too high) with room for two in a block, a halving every two blocks, and a
  retarget every two, so that the chain of three blocks (`MaxHeight`) has the first
  retarget and the panic of the second. The genesis targets and the timestamps received reach
  every branch of `ApplyCoeffToTarget`, both limits of the coefficient, a target of zero and
  one that is longer than a hash. TLC's integers have 32 bits, which is why a byte
  has 8 values: products of a mantissa and a power of `Byte` must fit. `MaxTimeBumps` = 1 is
  below the expected time of the first block, as 30 seconds are below two minutes, which
  is what `OwnStampsQuarter` needs. A third call on one block is always refused, so
  calls need no bound.

Where a property says `failed \/ ...`, it holds until an `InsertBlock` has
returned an error after it began to write, and the code gives no more than
that: see the batch that is left behind, in section 5. Deaths of the process are
not excepted. `AppliesAtOnce` has no such exception: it says what a failed call may leave behind.
The refinement and the liveness of `ledger_atomic` are about blocks whose transactions have outputs and whose
coinbase has no input, as the tests of the repository build them, or inputs that are there;
`CoinbaseConfirms` and the listing in section 5 say what happens to others.

Deadlock checking is off in the runs where the system comes to an end:
`ledger_atomic`, `ledger_minted` and `ledger_undo` have no crash, and the bound on confirmations
uses up the blocks; in `mining` a panic ends the process, and `MaxHeight` the chain.

Fairness. `FairSpec` has weak fairness on `Advance`, the steps of an `InsertBlock`
under way. They run on the goroutine of the caller without waiting for anything
but the disk, so if the process lives nothing keeps the next from happening.
There is no fairness on anything a caller chooses, or on failures. `Mining` has weak
fairness on `TryNonce`, the loop of `MineBlock`, for the same reason; nothing is assumed about
the hashes, so `MiningEnds` holds where none meets the target.

Every property of a passing run has a mutant in `PROJECT.json`: an operator
`X_Suffix` beside the `X` it stands in for, with a plausible slip, under which the
same run finds the property violated.

## 4. Theorems

What is proved holds for all values of the constants that satisfy the assumptions: any
transactions, blocks, keys, page sizes, and runs of any length.

| Module | Theorem | Property | Under |
| --- | --- | --- | --- |
| `MempoolProofs` | `PoolTypeOK`, `PoolMapInTree`, `PoolTreeMatchesMap`, `PoolOutsReferencedExact`, `PoolNoConflict` | the invariants of `Mempool` | |
| `LedgerProofs` | `LedgerTypeOK`, `LedgerNoEmptyRecord`, `LedgerIndexedIsStored`, `LedgerLostIsRecoverable`, `LedgerCreatedByConfirmed`, `LedgerSpendSucceeds` | the invariants of `Ledger` that say what one call owes | |
| `LedgerProofs` | `LedgerUsesPool` | `Spec => Pool!Spec`: the ledger uses the pool as `Mempool` allows | |
| `LedgerHistoryProofs` | `LedgerNoDoubleSpend`, `LedgerConfirmedLeavesPool` | what several calls owe one another | |
| `LedgerHistoryProofs` | `LedgerAppliesAtOnce` | what a call may do to the unspent outputs, whatever fails | |
| `LedgerHistoryProofs` | `LedgerImplementsUtxoSet` | `ImplementsUtxoSet`, the refinement | no call is left half way, none has failed |
| `LedgerSupplyProofs` | `LedgerSupplyBounded` | `SupplyBounded` | |
| `MiningProofs` | `MiningTypeOK`, `MiningMinedIsValid`, `MiningTakesItsDue`, `MiningStaleMeansExhausted` | what `MineBlock` does to a block | |
| `MiningProofs` | `MiningOwnStampsQuarter` | `OwnStampsQuarter` | `4 * MaxTimeBumps < ExpectedTime` |
| `MiningProofs` | `MiningRetargetRounds`, `MiningRetargetMonotone` | what a retarget does to a target | `SaneTargets` |
| `StoresProofs` | `StoresTypeOK`, `StoresLegibleUnlessBatched`, `StoresReadIsWhole`, `StoresReadIsPagewise`, `StoresReadLastWritten` | the database and its pages | |
| `CoinStoreProofs` | `StoresValueKept`, `StoresUtxoExistsAgrees` | what a chainstate record says, after any operations | |
| `CoinStoreProofs` | `StoresImplementsCoins` | `ImplementsCoins`, the refinement | |

### The pool

None of the properties is inductive alone. A transaction that passes
the double-spend check has a new TXID: it has an input (a valid one pays a fee, so
it claims some value: `ValidHasInput`), every pooled object with its TXID would refer
to that output (`SameIdSameInputs`), and the double-spend set holds every
output a pooled transaction refers to (`OutsReferencedExact`). The set in turn
stays exact under a removal because the removed transaction shares no output
with another pooled one (`NoPooledConflict`), which holds because the set was
exact at each addition. The tree matches the map because accepted TXIDs are new.
The strengthening `IInv` adds `MapFees`, that every fee in the map is that of an object
with its TXID, needed to know which record a removal looks for.

### The ledger

`ChainInv` is the inductive invariant of a call to `InsertBlock`. The properties speak
of stores and chainstate; what makes them last is where the call is. `Removed` is the set of
outputs the loops of `ConfirmAsValid` have passed. `Accepted` says that the block was valid for
the outputs unspent `before`, and that the chainstate is `before` without `Removed`: so each
further input of a regular transaction is still there (`SpendSucceeds`), as
`ValidateBlockTx` found it there and found no other reference to it. `Position` says which of the three writes are done,
`UndoIsOfBlock` that undo records are for all that the regular transactions of a block spend, whence `LostIsRecoverable`.
`Batched` and `BatchIsOfBlock` say what the last write will write, and `RecordsFit` that a record
never has an output its transaction has not. `LedgerInvariant` adds the invariant of the
pool: each step of `Ledger` is a step of `Mempool` or changes neither pool nor
`unspent` (`PoolStep`), so the theorems of `MempoolProofs` are taken over through an instance and not
proved again.

`HistoryInv` relates chainstate and pool to all blocks confirmed before. That what was spent
stays spent would be false: a block whose transactions have no inputs can be confirmed again and
again, and makes its outputs anew each time (section 5). So the properties count.
`TimesMade(o)` is how often `o` was put in the chainstate, at first or by a confirmation, `TimesSpent(o)` how often
confirmed blocks referred to it, at every place of every transaction, the first included. `CountsFit`: the second
exceeds the first by no more than what is unspent leaves room for. That is inductive because
`cleanUpInputs` finds each output it removes in the chainstate, and removes it: two places of the block cannot refer
to one output and both be passed (`SpentOnce`), so a block that reaches its last write adds one to `TimesSpent`
of outputs that were unspent, and nothing to others. A transaction is confirmed only with all its inputs, so
`TimesConfirmed` of its TXID is at most `TimesSpent` of each input: once `RemoveBlock` has passed it (`ToBeEvicted`),
`AddTX` takes it again only if each input is unspent, hence made once more than spent (`PoolKeepsUp`).
No block and no number of confirmations is excluded. Where a TXID is confirmed once and its inputs are made once,
this is: what is confirmed is never pooled, what is spent never unspent.

The refinement maps `utxo` to `Utxo`: `before` while a call confirms, and the unspent outputs
otherwise. Then the last write is the step `Apply` and all others stutter, but for an error or a death in the middle, which
takes away some of what the block refers to (`LeftHalfway`). `LedgerAppliesAtOnce` says that there is
nothing else, for every first transaction, whatever dies or fails; a batch a failed call left behind is written with a later
block, and holds outputs of stored blocks only. `LedgerImplementsUtxoSet` concludes: a behaviour
without `LeftHalfway` and without a call that failed implements `UtxoSet`. No block is excluded,
and a death elsewhere is not either; one whose first transaction has inputs that are there
applies as a whole like any other.

`SupplyInv` says that the outputs unspent before the call are worth no more than the initial ones
and the subsidies confirmed. The step that matters is the last write: the block
spends what is worth the claimed inputs of its transactions, each output once, its fees
are what the transactions leave of that, and the coinbase takes fees and subsidy once. Sums of `uint64`
wrap, so the proof keeps true sums beside the wrapped ones: where no transaction of the block `Wraps`,
what `ValidateTransaction` compared are the true outputs against no more than the true inputs, and
what the coinbase was held against is no more than the true fees and subsidy. Neither
an assumption on what is offered nor a bound on confirmations is needed: a record that comes back replaces the
one it had.

Sums are `SumFunctionOnSet`, whose definition recurs over an order of the set nobody
knows. `SumsProofs` counts them: a sum is the number of pairs of a place and a number below the
value there (`Units`), so that facts on unions of sets become facts on sums. Induction over subsets uses a set of
subsets in place of a predicate (`FiniteInduction`), since a theorem with an operator
parameter cannot be instantiated by the provers at hand.

### Mining

`IInv` says what a block looks like after one call and after two (`BlockInHand`): a coinbase that
takes its due in front of a list that passed, and behind it, after two calls, the first coinbase,
which no `ValidateTransaction` accepts since it refers to the null output. That is why a third call is always refused. `Loop`
says that `tried` is exactly the set of headers before the current one in the order of the
loop (`Passed`), so that `ErrStaleBlock` comes when all have been tried. `OwnStampsAreShort`: a
timestamp of `MineBlock` is at most `MaxTimeBumps`. `MiningOwnStampsQuarter` needs that four times that is less
than the expected time of the first interval; the code has 30 bumps and two minutes a block, and any interval of two or
more blocks will do.

### Retargets

The three forms of `ApplyCoeffToTarget` are brought into one (`RoundedIs`): each counts a unit of the
product, 1, `Byte` or `Byte * Byte`, and the number the new target stands for (`NumberOf`) is what is left of the product
after dropping the part below a unit (`Kept`). `RoundedBounds` turns that into the distance from the exact
product. `KeptGrows` compares two products in different forms: what is kept of the larger is still no
less than the bound (`ThreeBytes` or `FourBytes`) that the smaller is below. Together with a coefficient that grows with time (`LimitedGrows`) that gives an order of numbers,
and `ExpandGrows` carries it to expanded targets, whose low bytes are cut off where the exponent is small.

The limit is where it could go wrong, because compact forms are compared, not the numbers. A form that is not
above `MaxDifficulty` is also not above it as a number (`NotAbove`, since the
mantissa of `MaxDifficulty` fills its bytes), but one that is above may be a small number with leading
zeros. If a retarget raises the exponent, the mantissa it leaves has no leading zeros (`RoundedIs`), so a
result that is above for the first time is so as a number too (`CappedIsLess`).
What remains is a target above the limit from the start, and only genesis can have one: `SaneTargets` says that it
then exceeds the limit by a factor of four, the most one retarget can take away, and that its exponent has room for a
carry. `MiningSane` is the invariant: every header of the chain has such a target or one that is not above.
A target above the limit by less than that fails `RetargetRounds`: a retarget that quarters it may
leave a form that is still above, and is replaced by a `MaxDifficulty` that is more than the product.
`GenesisTargetBits` is not set in `src/`; any value up to `0x18ffffff` satisfies `SaneTargets`.

### The databases

The proof of `LegibleUnlessBatched` needs that a database has one key in its life
(`HasItsKey`) and that all that is not in a batch is masked with it (`EntriesMasked`). For pages,
`PagesOK` says that every stored page is a page of some value written under its key, at some
number that a byte shortens to the one it is stored under. `CallAt` says of a call at page q
that what it has still to write is as given, but for the first byte, which the page
before overwrote, and that the pages before q are stored: this is what makes
`ReadLastWritten` true at the end. A value that fits is read page by page until one is
shorter than a full one with its mark; `FlattenParts` shows that the parts joined are the value.
`ReadIsWhole` counts lengths: the page the read ends with is the last of some value, and if its number was not
shortened, as many full pages come before it as that value has: what is found has its length, though the pages may come from several values.
A value of more pages than there are numbers is longer than anything that can be read (`FoundPages`).
The values are of any lengths, also under one key, and pages of any size.

### The records of the chainstate

A record is packed: a bit for every output, in bytes from the last one back, and the values of the unspent ones in
a row. `OneHotIsRead` shows that `BitIsSet` reads from the bytes of `SerializeToOneHot` what was put into them, for any number of outputs
and any size of a byte; the loop is followed by what it has packed after i elements (`PackStates`), and adding a power of
two to a number below it sets that bit and no other (`AddBit`). `MarkedLists` says that the places of the unspent outputs are listed
in order and each once, which is what lets `ReadOutputs` pair the values with them
by position. `ReadBack` joins the two. So what is written by `SerializeTXMetadata` is known to a
reader, and `RemoveUtxo`, which reads a record, makes a transaction with dummies out of it and serializes that
(`FakeKeepsTheRest`), keeps every other output at its place with its value.

The inductive invariant `CoinsInv` says that each record, stored or in the batch, encodes the outputs of
its transaction with some of them spent, and at least one unspent. `StoresValueKept` and `StoresUtxoExistsAgrees`
follow from it and `ReadBack`. For the refinement, `coins` is mapped to the
sets of outputs that can be read; every operation has a lemma that says which operation of
`Coins` it is. A batch written to an obfuscated database is excepted in `StepsLikeCoins` by its premise
(`Records' = Stored'`): what it wrote is noise, and no abstract chainstate has that.

### Assumptions

- `TransactionAssumption` gives the constants their types and says that
  objects with one TXID have the same inputs and outputs (the TXID hashes both)
  and, if both are authentic, the same input value; that a transaction without input
  claims nothing, and that a fee is at least 1.
- `BlocksAssumption`: a block has a transaction (`ValidateCoinbase` panics otherwise).
- `LedgerAssumption`: a record of the chainstate at first has an unspent output, and
  outputs that its transaction has.
- `ValueAssumption`: an authentic transaction claims what the outputs it refers to are worth, modulo
  `Uint64`: `utxo.Equal(inp.OutputReferred)` compares the value too, and the claims are
  added up as `uint64`. There are finitely many blocks and initial outputs.
- `MiningAssumption`: `Coinbase` is what `NewCoinbaseTransaction` returns, and the null output is in
  no chainstate. `TargetAssumption`: a byte has at least 4 values, since the
  retarget counts on a byte to hold a factor of four; a target has at least three bytes.
- `CoinStoreAssumption` and `MetadataAssumption` give the outputs of a transaction and the size of a byte their types.
- `SaneTargets` is no assumption of a module but the hypothesis of the two theorems on retargets, see there.
- `PageStoreAssumption` gives page size, page numbers and contents their types. Nothing is said of lengths: the key is the hash
  of a block, which covers the TXIDs but not the signatures (`core/transaction.go:143`), and signatures
  vary in length.
- `StoresAssumption`: a TXID is not a page key; the model keeps both in one store, the code in
  databases of their own.

TLC evaluates each of them in a run.

### Only model-checked

- The tree (`SearchOrder`, `HeightsExact`, `OffersHighest`, `ImplementsMempool`): its operators are
  recursive, and a module that reaches one has no SMT backend. A tree is a record that holds trees, of any depth;
  what a recursive operator does to it would be an induction over trees.
- `AcceptedIsConfirmed` and `MiningEnds`: liveness is out of the prover's reach.

## 5. Further divergences

Met while modelling, part of the model, and not runs of their own.
- `core/block.go:319`: `ValidateBlockHeader` recurses without end for every header
  of 80 bytes with an acceptable timestamp; line 318 reads the bytes of the nonce where the target
  is 4 bytes before. (`HeaderOverflows`)
- `core/mempool.go:357`: `RemoveTX` looks its argument up by TXID and then searches
  the tree with the argument's own fee, which the TXID does not cover. The comment
  at line 193 says the existence of the record "should be guaranteed".
- `core/mempool.go:145-151`: besides the nil dereference, a right-left insertion
  gets a single rotation, which leaves the tree out of balance.
- `db/chainstate.go:40`: `InsertBatchTX` takes a transaction without outputs for a spent
  one; `ValidateTransaction` accepts it. (`InsertBatchFails`)
- `db/dbwrapper.go:87`: a batch that failed, or was begun by a `ConfirmAsValid` that
  returned early, stays and is written with the next block. A coinbase left in it may be written,
  spent, and put again when its own block is offered again. (`LeftInBatch`; the `failed` in `CreatedByConfirmed`,
  `NoDoubleSpend`, `ConfirmedLeavesPool`, `SupplyBounded`)
- `core/blockchain.go:171`: the chain in memory never grows, so a block whose
  coinbase has no input, and which has nothing else, can be inserted again, and makes
  its spent outputs unspent again (`db/chainstate.go:44` writes the record whether or not there was one). Then a
  transaction that spent them can be pooled and confirmed again. The height that
  `NewCoinbaseTransaction` puts in a coinbase would tell the two apart, but nothing
  checks it. (`TimesMade`; `bc` and `bs` in both ledger runs)
- `core/transaction.go:56`: the comment says the height "will be set after adding the
  transaction to a mined block"; nothing sets it for regular transactions.
- `core/block.go:287`: `ValidateCoinbase` panics on a block without transactions;
  `BlocksAssumption` leaves such blocks out.
- `core/transaction.go:271`: the output values are added up before they are checked
  one by one, and the sum may wrap. (`OutputsPass`; `Wraps`)
- `core/block.go:290`: the outputs of the coinbase are only added up: none is checked, and the sum may
  wrap to less than subsidy and fees. The comment at `core/transaction.go:285` says that its value
  not exceeding them is "the only condition" for a coinbase. (`Wraps`)
- `core/block.go:134`: `ConfirmAsValid` removes what the first transaction refers to, and `ValidateBlockTx`
  has skipped it (line 103): whatever stands there, the null output or an output that belongs
  to somebody, without a signature, and also one that a regular transaction of the
  block spends, which then is not found. `GetUndoData` leaves the first transaction out. (`FirstRefersTo`)
- `db/dbwrapper.go:82`: `PutInBatch` does not obfuscate and `Get` does, so in an obfuscated
  database what a batch wrote is read as noise. The chainstate writes all new
  records by batch; `NewBlockIndex` is opened obfuscated, and `InsertTXIndexRecord` has a batch
  mode. (`LegibleUnlessBatched`)
- `db/dbwrapper.go:119`: `append(value[idx:idx+maxPageSize], 0)` writes into the array of `value`:
  the first byte of every page but the first is lost. (`StoredByte`)
- `db/dbwrapper.go:123`: the page number is a byte. With more than 256 pages the first
  ones are overwritten, and `PageGet` returns something of another length, or does not end.
  (`ReadIsWhole`)
- `db/chainstate.go:66`: `UtxoExists` panics when asked for the output after the last one. (`UtxoExists`;
  `UtxoExistsAgrees` is about all other outputs)
- `db/chainstate.go:61`: an error other than a missing key leaves `txmeta` empty, and the
  reader panics on it.
- `core/block.go:173`: under "initializing the nonce", the timestamp is set to 0 and the
  nonce is not: a header carries no time, and the nonces below the one it came with
  are not tried at timestamp 0. (`StaleMeansExhausted`, `OwnStampsQuarter`)
- `core/block.go:175`: `ValidateBlockTx` skips the first place for the coinbase, which is not
  there yet when `MineBlock` calls it. (`MinedIsValid`)
- `core/block.go:187`: a second `MineBlock` on one block counts the first coinbase as a
  transaction with a fee; its input claims `0xffffffff` (`core/transaction.go:71`). The block
  has two coinbases then and does not validate; a third call is refused.
- `core/block.go:179`: the coinbase is not counted: a block may have one transaction more
  than `MaxNumberOfTXsInBlock`, and validation does not look at the number.
- `core/block.go:365`: the second retarget looks up a header the chain does not have and
  panics. (`TargetPanics`) `GenesisTargetBits` is never set, and a target of 0 cannot be met.
- `core/block.go:65`: `NewBlock` leaves `header` nil, and `MineBlock` writes to it first.
- `utils/target.go:91`: compact targets are compared as numbers. That is right for all that
  `ApplyCoeffToTarget` makes out of targets not above `MaxDifficulty`. A target with leading zero bytes in
  its mantissa, or one above the limit by less than a factor of four, which only genesis could have, is
  replaced by a `MaxDifficulty` that is higher than the product. (`SaneTargets`)

## 6. Plan

The modules were built in this order: the pool and its tree, the ledger over the pool, the databases, mining; and for
each the abstract specification, the runs, and then the proofs. All invariants but those of the
tree are proved, and two of the three refinements. What could follow is the tree as a set of nodes with links in place of a nested record, so that search order becomes a relation
   an invariant can state without recursion, and `ImplementsMempool` from it.

Related small questions share a module instance and a run, so that a run is one
question asked of the system.

## 7. Not modelled, and why

- Cryptography, hashing, merkle roots, encodings of keys and transactions: pure
  functions whose only role here is that equal hashes mean equal content.
- The fork branch of `InsertBlock`: unreachable, as section 2 says.
- The channel `GetMaxTXs` sends on: `MaxElements` is what it sends, in order.
- `InsertTXIndexRecord` and `WriteBatchBI` of the block index: nothing calls them, and there
  is no function that reads an index record.
- The layout of numbers, scripts and magic bytes in records, blocks and undo data.
- `core/block_header_reader.go`: slices of a byte array.
- `params/`, `main.go`: constants, and an empty main.
