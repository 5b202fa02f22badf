----------------------------- MODULE BlockChecks -----------------------------
(***************************************************************************)
(* core/block.go: what is computed from the list of transactions of a      *)
(* block, allBlockTx, whether it comes from a miner or is being mined: the *)
(* checks on it, its fees, and the subsidy its coinbase may take.          *)
(***************************************************************************)
EXTENDS Transaction

CONSTANTS
  InitialBlockSubsidy,     \* params.InitialBlockSubsidy
  SubsidyHalvingInterval   \* params.SubsidyHalvingInterval

ASSUME BlockChecksAssumption ==
  /\ InitialBlockSubsidy \in Nat
  /\ SubsidyHalvingInterval \in Nat \ {0}

\* The places of the transactions other than the coinbase.
Regular(txs) == 2 .. Len(txs)

\* Mutant: the dedup map of ValidateBlockTx is left out.
Offending_NoDedup(txs, unspent) ==
  {i \in Regular(txs) : ~ValidateTransaction(txs[i], unspent)}

\* The places where ValidateBlockTx stops: an invalid transaction, or one that
\* refers to an output an earlier one of the block refers to.
Offending(txs, unspent) ==
  {i \in Regular(txs) :
     \/ ~ValidateTransaction(txs[i], unspent)
     \/ \E j \in Regular(txs) :
          j < i /\ InputSet(txs[j]) \cap InputSet(txs[i]) # {}}

GetBlockFees(txs, containsCB) ==
  SumFunctionOnSet([i \in DOMAIN txs |-> GetFees(txs[i])],
                   IF containsCB THEN Regular(txs) ELSE DOMAIN txs) % Uint64

\* The subsidy halves at every multiple of the interval.
BlockSubsidy(height) ==
  InitialBlockSubsidy \div 2 ^ (height \div SubsidyHalvingInterval)

\* Mutant: the coinbase is not compared with anything.
ValidateCoinbase_None(txs, height) == TRUE

ValidateCoinbase(txs, height) ==
  OutputValue[txs[1]] <= (BlockSubsidy(height) + GetBlockFees(txs, TRUE)) % Uint64

=============================================================================
