------------------------------- MODULE Blocks -------------------------------
(***************************************************************************)
(* core/block.go: the blocks InsertBlock is given, and the checks made on  *)
(* them before anything is changed.  A block is a member of Block; its     *)
(* content is given by constants.  An outpoint is a pair <<TXID, vout>>.   *)
(*                                                                         *)
(* What hashing decides is abstracted to Linked, the block links to the    *)
(* last node of the chain, and WellFormed, its merkle root is that of its  *)
(* transactions, its header has 80 bytes and no future timestamp.          *)
(***************************************************************************)
EXTENDS BlockChecks

CONSTANTS
  Block,        \* the blocks offered
  Txs,          \* Txs[b]: allBlockTx, the coinbase first
  IsCoinbase,   \* IsCoinbase[t]: built by NewCoinbaseTransaction
  BlockHeight,  \* BlockHeight[t]: the height t carries, 0 unless it IsCoinbase
  OfferedAt,    \* the height the blocks are offered for
  Linked,       \* Linked[b]: see above
  WellFormed    \* WellFormed[b]: see above

ASSUME BlocksAssumption ==
  /\ Txs \in [Block -> Seq(Tx) \ {<<>>}]
  /\ IsCoinbase \in [Tx -> BOOLEAN]
  /\ BlockHeight \in [Tx -> Nat]
  /\ OfferedAt \in Nat \ {0}
  /\ Linked \in [Block -> BOOLEAN]
  /\ WellFormed \in [Block -> BOOLEAN]

TxsOf(b) == {Txs[b][i] : i \in DOMAIN Txs[b]}
IdsOf(b) == {TxId[t] : t \in TxsOf(b)}

NOut(t) == Len(OutValues[t])
OutputsOf(t) == {<<TxId[t], v>> : v \in 0 .. NOut(t) - 1}

\* The outputs the regular transactions of b spend, those all its transactions
\* refer to, and those b creates.
Spends(b) == UNION {InputSet(Txs[b][i]) : i \in Regular(Txs[b])}
Refers(b) == UNION {InputSet(t) : t \in TxsOf(b)}
Creates(b) == UNION {OutputsOf(t) : t \in TxsOf(b)}

\* ValidateBlock, but for the header.
ValidateBlock(b, unspent) ==
  /\ WellFormed[b]
  /\ Offending(Txs[b], unspent) = {}
  /\ ValidateCoinbase(Txs[b], OfferedAt)

=============================================================================
