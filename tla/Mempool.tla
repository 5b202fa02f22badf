------------------------------ MODULE Mempool ------------------------------
(***************************************************************************)
(* core/mempool.go, type MemPool: the pool of unconfirmed transactions as  *)
(* its callers see it.  internalTree counts here the nodes of the tree     *)
(* that hold a record; MempoolTree has the tree itself and implements this *)
(* module.                                                                 *)
(*                                                                         *)
(* A call that returns an error leaves everything as it was and is no step.*)
(* A panic in the tree, like any crash, ends the process and its memory:   *)
(* both are ProcessDies.                                                   *)
(***************************************************************************)
EXTENDS Transaction

CONSTANT MaxCopies  \* bound: nodes a record may have in the tree

VARIABLES
  unspent,         \* the outputs the chainstate holds (durable, not the pool's)
  txmap,           \* TXID -> fee of every pooled transaction
  outsReferenced,  \* the outputs referred to by pooled transactions
  internalTree,    \* record -> number of its nodes in the fee tree
  alive            \* the process runs

poolVars == <<txmap, outsReferenced, internalTree>>
vars == <<unspent, txmap, outsReferenced, internalTree, alive>>

TxRecords == [fee : 0 .. Uint64 - 1, txid : TxIds]
EmptyTree == [r \in TxRecords |-> 0]

\* The state package initialisation gives the pool.
EmptyPool ==
  /\ txmap = [i \in {} |-> 0]
  /\ outsReferenced = {}
  /\ internalTree = EmptyTree

Init ==
  /\ unspent \in SUBSET Outpoint
  /\ EmptyPool
  /\ alive = TRUE

\* The index entry and tree record a successful AddTX makes.
IndexTX(t) ==
  /\ txmap' = [i \in DOMAIN txmap \cup {TxId[t]} |->
                 IF i = TxId[t] THEN GetFees(t) ELSE txmap[i]]
  /\ internalTree[TxRecord(t)] < MaxCopies
  /\ internalTree' = [internalTree EXCEPT ![TxRecord(t)] = @ + 1]

\* Mutant: the double-spend check is left to ValidateTransaction.
AddTX_NoDoubleSpendCheck(t) ==
  /\ alive
  /\ ValidateTransaction(t, unspent)
  /\ outsReferenced' = outsReferenced \cup InputSet(t)
  /\ IndexTX(t)
  /\ UNCHANGED <<unspent, alive>>

AddTX(t) ==
  /\ alive
  /\ ValidateTransaction(t, unspent)
  /\ InputSet(t) \cap outsReferenced = {}
  /\ outsReferenced' = outsReferenced \cup InputSet(t)
  /\ IndexTX(t)
  /\ UNCHANGED <<unspent, alive>>

\* What RemoveTX does to the map, for an object with a pooled TXID.
UnindexTX(t) ==
  /\ TxId[t] \in DOMAIN txmap
  /\ txmap' = [i \in DOMAIN txmap \ {TxId[t]} |-> txmap[i]]

\* Mutant: counts a removal whether or not the record was found.
RemoveRecord_Unchecked(r) == internalTree' = [internalTree EXCEPT ![r] = @ - 1]

\* removeRecord when it finds the record, and when it runs off the tree
\* without finding it, which it does not report (it may also panic).
RemoveRecord(r) ==
  \/ internalTree[r] > 0 /\ internalTree' = [internalTree EXCEPT ![r] = @ - 1]
  \/ internalTree[r] = 0 /\ UNCHANGED internalTree

\* Mutant: the record is left in the tree.
RemoveTX_KeepsRecord(t) ==
  /\ alive
  /\ UnindexTX(t)
  /\ outsReferenced' = outsReferenced \ InputSet(t)
  /\ UNCHANGED <<unspent, internalTree, alive>>

\* Mutant: the index entry is left in the map.
RemoveTX_KeepsIndex(t) ==
  /\ alive
  /\ TxId[t] \in DOMAIN txmap
  /\ RemoveRecord(TxRecord(t))
  /\ outsReferenced' = outsReferenced \ InputSet(t)
  /\ UNCHANGED <<unspent, txmap, alive>>

\* Mutant: the outputs stay marked.
RemoveTX_KeepsMarks(t) ==
  /\ alive
  /\ UnindexTX(t)
  /\ RemoveRecord(TxRecord(t))
  /\ UNCHANGED <<unspent, outsReferenced, alive>>

\* The argument need not be the object that was added: any object with a
\* pooled TXID passes the map check, and its own fee is looked for.
RemoveTX(t) ==
  /\ alive
  /\ UnindexTX(t)
  /\ RemoveRecord(TxRecord(t))
  /\ outsReferenced' = outsReferenced \ InputSet(t)
  /\ UNCHANGED <<unspent, alive>>

ProcessDies ==
  /\ alive
  /\ alive' = FALSE
  /\ txmap' = [i \in {} |-> 0]
  /\ outsReferenced' = {}
  /\ internalTree' = EmptyTree
  /\ UNCHANGED unspent

Restart ==
  /\ ~alive
  /\ alive' = TRUE
  /\ UNCHANGED <<unspent, poolVars>>

\* Blocks spend and create outputs; the pool is not told.
ChainstateChanges ==
  /\ unspent' \in SUBSET Outpoint
  /\ UNCHANGED <<poolVars, alive>>

Next ==
  \/ \E t \in Tx : AddTX(t)
  \/ \E t \in Tx : RemoveTX(t)
  \/ ProcessDies
  \/ Restart
  \/ ChainstateChanges

Spec == Init /\ [][Next]_vars

-----------------------------------------------------------------------------
Pooled == {t \in Tx : TxId[t] \in DOMAIN txmap}

\* Every variable has its Go type; fees are uint64.
TypeOK ==
  /\ unspent \in SUBSET Outpoint
  /\ DOMAIN txmap \subseteq TxIds
  /\ txmap \in [DOMAIN txmap -> 0 .. Uint64 - 1]
  /\ outsReferenced \in SUBSET Outpoint
  /\ internalTree \in [TxRecords -> Nat]
  /\ alive \in BOOLEAN

\* The objects with TXID i claim the same input value, hence the same fee.  The
\* TXID does not ensure it.
FeesAgree(i) ==
  \A s, t \in Tx : TxId[s] = i /\ TxId[t] = i => GetFees(s) = GetFees(t)

\* Whatever the map lists has its record in the tree, whichever objects the
\* removals were asked with (AddTX, RemoveTX).
MapInTree ==
  \A i \in DOMAIN txmap : internalTree[[fee |-> txmap[i], txid |-> i]] > 0

\* The map and the tree list the same transactions with the same fees, each
\* once, as long as the objects with their TXID agree on the fee: a removal
\* asked with an object of another fee takes the map entry and leaves the record.
TreeMatchesMap ==
  \A r \in TxRecords : FeesAgree(r.txid) =>
    internalTree[r] =
      IF r.txid \in DOMAIN txmap /\ txmap[r.txid] = r.fee THEN 1 ELSE 0

\* The double-spend set is exactly what the pooled transactions refer to: a
\* failed AddTX leaves no mark behind and a removal frees no other mark.
OutsReferencedExact ==
  outsReferenced = UNION {InputSet(t) : t \in Pooled}

\* No two transactions in the pool spend the same output, even though the
\* chainstate changes under the pool.
NoPooledConflict ==
  \A s, t \in Pooled : TxId[s] # TxId[t] => InputSet(s) \cap InputSet(t) = {}

=============================================================================
