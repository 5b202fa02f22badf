---------------------------- MODULE Transaction ----------------------------
(***************************************************************************)
(* core/transaction.go and core/transaction_output.go: what the pool and   *)
(* the block code read of a transaction, and the check they all rely on,   *)
(* ValidateTransaction.                                                    *)
(*                                                                         *)
(* A transaction is a member of Tx.  Its content is immutable once built,  *)
(* so it is given by constants.  Two members of Tx may share a TXID:       *)
(* Serialize hashes the outpoints an input refers to and the outputs, but  *)
(* neither the value an input claims for the output it spends nor a        *)
(* signature added after NewTransaction.                                   *)
(*                                                                         *)
(* Abstractions.  An outpoint stands for ParentTXID, Vout and OutputID     *)
(* (the hash of the two).  The values of the inputs are given as their     *)
(* total.  All submitted transactions carry a non-empty ScriptSig on every *)
(* input.                                                                  *)
(***************************************************************************)
EXTENDS Integers, Sequences, FiniteSetsExt

CONSTANTS
  Tx,              \* the transaction objects
  Outpoint,        \* the outputs an input may refer to
  TxId,            \* TxId[t]: t.TXID
  Ins,             \* Ins[t]: the outpoints of t.inputs, in order
  InputValue,      \* InputValue[t]: sum of OutputReferred.Value, as t claims it
  OutValues,       \* OutValues[t]: the values of t.outputs, in order
  OutputValue,     \* OutputValue[t]: their sum, as a uint64
  MinFee,          \* MinFee[t]: GetMinimumFees(), the length of the encoding
  Authentic,       \* Authentic[t]: inputs equal the stored outputs and are
                   \*   unlocked by valid signatures
  MaxValidAmount,  \* params.MaxValidAmount
  Uint64           \* number of values of a uint64, 2^64 in the code

InputSet(t) == {Ins[t][i] : i \in DOMAIN Ins[t]}

\* The sum of the first n output values, as the loops over t.outputs form it.
RunningTotal(t, n) == SumFunctionOnSet(OutValues[t], 1 .. n) % Uint64

(***************************************************************************)
(* generateTXID hashes Serialize(), which covers the outpoints and the     *)
(* outputs: equal TXIDs mean equal outpoints and equal outputs.  The value *)
(* of an authentic input is that of the output it names, hence authentic   *)
(* objects with one TXID claim the same input value.                       *)
(***************************************************************************)
ASSUME TransactionAssumption ==
  /\ Uint64 \in Nat \ {0}
  /\ MaxValidAmount \in Nat
  /\ Ins \in [Tx -> Seq(Outpoint)]
  /\ InputValue \in [Tx -> 0 .. Uint64 - 1]
  /\ OutValues \in [Tx -> Seq(0 .. Uint64 - 1)]
  /\ OutputValue \in [Tx -> 0 .. Uint64 - 1]
  /\ \A t \in Tx : OutputValue[t] = RunningTotal(t, Len(OutValues[t]))
  /\ MinFee \in [Tx -> Nat \ {0}]
  /\ Authentic \in [Tx -> BOOLEAN]
  /\ \A t \in Tx : Ins[t] = <<>> => InputValue[t] = 0
  /\ \A s, t \in Tx : TxId[s] = TxId[t] =>
       /\ Ins[s] = Ins[t]
       /\ OutValues[s] = OutValues[t]
       /\ Authentic[s] /\ Authentic[t] => InputValue[s] = InputValue[t]

TxIds == {TxId[t] : t \in Tx}

\* GetFees: unsigned subtraction of the claimed totals.
GetFees(t) == (InputValue[t] - OutputValue[t]) % Uint64

\* core/mempool.go, type txRecord: what the pool files a transaction under.
TxRecord(t) == [fee |-> GetFees(t), txid |-> TxId[t]]

ValueIsValid(v) == v <= MaxValidAmount

\* No two inputs of t refer to the same output.
InputsDistinct(t) ==
  \A i, j \in DOMAIN Ins[t] : Ins[t][i] = Ins[t][j] => i = j

\* The check on the output values is made on what has been added up so far.
OutputsPass(t) == \A n \in DOMAIN OutValues[t] : ValueIsValid(RunningTotal(t, n))

\* ValidateTransaction returns nil, given the unspent outputs of the chainstate.
ValidateTransaction(t, unspent) ==
  /\ InputsDistinct(t)
  /\ InputSet(t) \subseteq unspent
  /\ Authentic[t]
  /\ OutputsPass(t)
  /\ InputValue[t] >= OutputValue[t] + MinFee[t]

=============================================================================
