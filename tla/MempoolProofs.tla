--------------------------- MODULE MempoolProofs ---------------------------
(***************************************************************************)
(* What the pool keeps, for every set of transaction objects, whatever     *)
(* object a removal is asked with and however the chainstate changes.      *)
(*                                                                         *)
(* The safety properties hold only together: an accepted TXID is new       *)
(* because the double-spend set is exact, and the set stays exact under    *)
(* removals because no two pooled transactions share an output.            *)
(***************************************************************************)
EXTENDS Mempool, TLAPS

\* Every fee in the map was computed from an object of that TXID.
MapFees ==
  \A i \in DOMAIN txmap : \E t \in Tx : TxId[t] = i /\ txmap[i] = GetFees(t)

IInv ==
  /\ TypeOK
  /\ MapFees
  /\ MapInTree
  /\ TreeMatchesMap
  /\ OutsReferencedExact
  /\ NoPooledConflict

\* A fee is a uint64.
LEMMA FeeType == \A t \in Tx : GetFees(t) \in 0 .. Uint64 - 1
  <1> TAKE t \in Tx
  <1>1. /\ InputValue[t] \in Int
        /\ OutputValue[t] \in Int
        /\ Uint64 \in Nat \ {0}
    BY TransactionAssumption
  <1> QED  BY <1>1 DEF GetFees

\* A valid transaction has an input: without one it could not pay its fee.
LEMMA ValidHasInput ==
  ASSUME NEW t \in Tx, NEW u, ValidateTransaction(t, u)
  PROVE  InputSet(t) # {}
  <1>1. /\ InputValue[t] \in Nat
        /\ OutputValue[t] \in Nat
        /\ MinFee[t] \in Nat \ {0}
    BY TransactionAssumption
  <1>2. InputValue[t] # 0
    BY <1>1 DEF ValidateTransaction
  <1>3. Ins[t] # <<>>
    BY <1>2, TransactionAssumption
  <1>4. Ins[t] \in Seq(Outpoint)
    BY TransactionAssumption
  <1>5. 1 \in DOMAIN Ins[t]
    BY <1>3, <1>4
  <1> QED  BY <1>5 DEF InputSet

\* Objects with one TXID refer to the same outputs.
LEMMA SameIdSameInputs ==
  ASSUME NEW s \in Tx, NEW t \in Tx, TxId[s] = TxId[t]
  PROVE  InputSet(s) = InputSet(t)
  BY TransactionAssumption DEF InputSet

\* The inputs of a transaction are outpoints.
LEMMA InputSetType == \A t \in Tx : InputSet(t) \subseteq Outpoint
  <1> TAKE t \in Tx
  <1>1. Ins[t] \in Seq(Outpoint)
    BY TransactionAssumption
  <1> QED  BY <1>1 DEF InputSet

\* The pool starts empty.
LEMMA InitIInv == Init => IInv
  BY DEF Init, EmptyPool, EmptyTree, IInv, TypeOK, MapFees, MapInTree,
         TreeMatchesMap, OutsReferencedExact, NoPooledConflict, Pooled

\* A transaction AddTX accepts is not pooled yet, and conflicts with none.
LEMMA AcceptedIsNew ==
  ASSUME NEW t \in Tx, IInv, ValidateTransaction(t, unspent),
         InputSet(t) \cap outsReferenced = {}
  PROVE  /\ t \notin Pooled
         /\ \A s \in Pooled : InputSet(s) \cap InputSet(t) = {}
  <1>1. \A s \in Pooled : InputSet(s) \subseteq outsReferenced
    BY DEF IInv, OutsReferencedExact
  <1>2. InputSet(t) # {}
    BY ValidHasInput
  <1> QED  BY <1>1, <1>2

\* Records have the fields AddTX and RemoveTX give them.
LEMMA RecordType ==
  ASSUME NEW t \in Tx
  PROVE  TxRecord(t) \in TxRecords
  BY FeeType DEF TxRecord, TxRecords, TxIds

\* What a step of AddTX does to the map and to the set of pooled objects.
LEMMA AddTXFacts ==
  ASSUME NEW t \in Tx, IInv, AddTX(t)
  PROVE  /\ TxId[t] \notin DOMAIN txmap
         /\ DOMAIN txmap' = DOMAIN txmap \cup {TxId[t]}
         /\ txmap'[TxId[t]] = GetFees(t)
         /\ \A i \in DOMAIN txmap : txmap'[i] = txmap[i]
         /\ Pooled' = Pooled \cup {s \in Tx : TxId[s] = TxId[t]}
         /\ \A s \in Pooled : InputSet(s) \cap InputSet(t) = {}
  <1>1. t \notin Pooled /\ \A s \in Pooled : InputSet(s) \cap InputSet(t) = {}
    BY AcceptedIsNew DEF AddTX
  <1>2. TxId[t] \notin DOMAIN txmap
    BY <1>1 DEF Pooled
  <1>3. txmap' = [i \in DOMAIN txmap \cup {TxId[t]} |->
                    IF i = TxId[t] THEN GetFees(t) ELSE txmap[i]]
    BY DEF AddTX, IndexTX
  <1> QED  BY <1>1, <1>2, <1>3 DEF Pooled

\* AddTX keeps the invariant.
LEMMA AddTXKeeps ==
  ASSUME NEW t \in Tx, IInv, AddTX(t)
  PROVE  IInv'
  <1> USE DEF IInv
  <1>1. /\ TxId[t] \notin DOMAIN txmap
        /\ DOMAIN txmap' = DOMAIN txmap \cup {TxId[t]}
        /\ txmap'[TxId[t]] = GetFees(t)
        /\ \A i \in DOMAIN txmap : txmap'[i] = txmap[i]
        /\ Pooled' = Pooled \cup {s \in Tx : TxId[s] = TxId[t]}
        /\ \A s \in Pooled : InputSet(s) \cap InputSet(t) = {}
    BY AddTXFacts
  <1>2. \A s \in Tx : TxId[s] = TxId[t] => InputSet(s) = InputSet(t)
    BY SameIdSameInputs
  <1>3. /\ TxRecord(t) \in TxRecords
        /\ internalTree \in [TxRecords -> Nat]
        /\ internalTree' = [internalTree EXCEPT ![TxRecord(t)] = @ + 1]
    BY RecordType DEF AddTX, IndexTX, TypeOK
  <1>4. TypeOK'
    <2>1. /\ DOMAIN txmap' \subseteq TxIds
          /\ txmap' \in [DOMAIN txmap' -> 0 .. Uint64 - 1]
      <3>1. TxId[t] \in TxIds /\ GetFees(t) \in 0 .. Uint64 - 1
        BY FeeType DEF TxIds
      <3> QED  BY <3>1 DEF TypeOK, AddTX, IndexTX
    <2>2. outsReferenced' \in SUBSET Outpoint
      BY InputSetType DEF TypeOK, AddTX
    <2>3. internalTree' \in [TxRecords -> Nat]
      BY <1>3
    <2> QED  BY <2>1, <2>2, <2>3 DEF TypeOK, AddTX
  <1>5. MapInTree'
    <2> SUFFICES ASSUME NEW i \in DOMAIN txmap'
                 PROVE  internalTree'[[fee |-> txmap'[i], txid |-> i]] > 0
      BY DEF MapInTree
    <2>1. CASE i = TxId[t]
      BY <1>1, <1>3, <2>1 DEF TxRecord
    <2>2. CASE i # TxId[t]
      <3>1. i \in DOMAIN txmap /\ txmap'[i] = txmap[i]
        BY <1>1, <2>2
      <3>2. [fee |-> txmap[i], txid |-> i] \in TxRecords
        BY <3>1 DEF TypeOK, TxRecords
      <3>3. internalTree[[fee |-> txmap[i], txid |-> i]] > 0
        BY <3>1 DEF MapInTree
      <3> QED  BY <1>3, <2>2, <3>1, <3>2, <3>3 DEF TxRecord
    <2> QED  BY <2>1, <2>2
  <1>6. OutsReferencedExact'
    BY <1>1, <1>2 DEF OutsReferencedExact, AddTX
  <1>7. NoPooledConflict'
    BY <1>1, <1>2 DEF NoPooledConflict
  <1>8. MapFees'
    BY <1>1 DEF MapFees
  <1>9. TreeMatchesMap'
    <2> SUFFICES ASSUME NEW r \in TxRecords, FeesAgree(r.txid)
                 PROVE  internalTree'[r] =
                   IF r.txid \in DOMAIN txmap' /\ txmap'[r.txid] = r.fee
                   THEN 1 ELSE 0
      BY DEF TreeMatchesMap
    <2>1. internalTree[r] =
            IF r.txid \in DOMAIN txmap /\ txmap[r.txid] = r.fee THEN 1 ELSE 0
      BY DEF TreeMatchesMap
    <2>2. r = TxRecord(t) <=> r.txid = TxId[t] /\ r.fee = GetFees(t)
      BY DEF TxRecord, TxRecords
    <2>3. CASE r = TxRecord(t)
      BY <1>1, <1>3, <2>1, <2>2, <2>3
    <2>4. CASE r # TxRecord(t)
      BY <1>1, <1>3, <2>1, <2>2, <2>4
    <2> QED  BY <2>3, <2>4
  <1> QED  BY <1>4, <1>5, <1>6, <1>7, <1>8, <1>9

\* What a step of RemoveTX does to the map and to the set of pooled objects.
LEMMA RemoveTXFacts ==
  ASSUME NEW t \in Tx, RemoveTX(t)
  PROVE  /\ t \in Pooled
         /\ DOMAIN txmap' = DOMAIN txmap \ {TxId[t]}
         /\ \A i \in DOMAIN txmap' : txmap'[i] = txmap[i]
         /\ Pooled' = Pooled \ {s \in Tx : TxId[s] = TxId[t]}
  BY DEF RemoveTX, UnindexTX, Pooled

\* RemoveTX keeps the invariant, whichever object with a pooled TXID it gets.
LEMMA RemoveTXKeeps ==
  ASSUME NEW t \in Tx, IInv, RemoveTX(t)
  PROVE  IInv'
  <1> USE DEF IInv
  <1>1. /\ t \in Pooled
        /\ DOMAIN txmap' = DOMAIN txmap \ {TxId[t]}
        /\ \A i \in DOMAIN txmap' : txmap'[i] = txmap[i]
        /\ Pooled' = Pooled \ {s \in Tx : TxId[s] = TxId[t]}
    BY RemoveTXFacts
  <1>2. \A s \in Tx : TxId[s] = TxId[t] => InputSet(s) = InputSet(t)
    BY SameIdSameInputs
  <1>3. /\ TxRecord(t) \in TxRecords
        /\ internalTree \in [TxRecords -> Nat]
        /\ internalTree' \in [TxRecords -> Nat]
        /\ \A r \in TxRecords : r # TxRecord(t) => internalTree'[r] = internalTree[r]
    BY RecordType DEF RemoveTX, RemoveRecord, TypeOK
  <1>4. TypeOK'
    BY <1>1, <1>3 DEF TypeOK, RemoveTX, UnindexTX
  <1>5. MapInTree'
    <2> SUFFICES ASSUME NEW i \in DOMAIN txmap'
                 PROVE  internalTree'[[fee |-> txmap'[i], txid |-> i]] > 0
      BY DEF MapInTree
    <2>1. i \in DOMAIN txmap /\ txmap'[i] = txmap[i] /\ i # TxId[t]
      BY <1>1
    <2>2. [fee |-> txmap[i], txid |-> i] \in TxRecords
      BY <2>1 DEF TypeOK, TxRecords
    <2>3. internalTree[[fee |-> txmap[i], txid |-> i]] > 0
      BY <2>1 DEF MapInTree
    <2> QED  BY <1>3, <2>1, <2>2, <2>3 DEF TxRecord
  <1>6. OutsReferencedExact'
    <2>1. \A s \in Pooled' : InputSet(s) \cap InputSet(t) = {}
      BY <1>1 DEF NoPooledConflict, Pooled
    <2>2. UNION {InputSet(s) : s \in Pooled}
            = InputSet(t) \cup UNION {InputSet(s) : s \in Pooled'}
      BY <1>1, <1>2
    <2> QED  BY <2>1, <2>2 DEF OutsReferencedExact, RemoveTX
  <1>7. NoPooledConflict'
    BY <1>1 DEF NoPooledConflict
  <1>8. MapFees'
    BY <1>1 DEF MapFees
  <1>9. TreeMatchesMap'
    <2> SUFFICES ASSUME NEW r \in TxRecords, FeesAgree(r.txid)
                 PROVE  internalTree'[r] =
                   IF r.txid \in DOMAIN txmap' /\ txmap'[r.txid] = r.fee
                   THEN 1 ELSE 0
      BY DEF TreeMatchesMap
    <2>1. internalTree[r] =
            IF r.txid \in DOMAIN txmap /\ txmap[r.txid] = r.fee THEN 1 ELSE 0
      BY DEF TreeMatchesMap
    <2>2. r = TxRecord(t) <=> r.txid = TxId[t] /\ r.fee = GetFees(t)
      BY DEF TxRecord, TxRecords
    <2>3. RemoveRecord(TxRecord(t))
      BY DEF RemoveTX
    <2>4. r.txid = TxId[t] => r = TxRecord(t) \/ internalTree[r] = 0
      <3> SUFFICES ASSUME r.txid = TxId[t]
                   PROVE  r = TxRecord(t) \/ internalTree[r] = 0
        OBVIOUS
      <3>1. txmap[TxId[t]] = GetFees(t)
        BY <1>1 DEF MapFees, FeesAgree, Pooled
      <3> QED  BY <2>1, <2>2, <3>1
    <2>5. CASE r.txid = TxId[t]
      <3>1. internalTree'[r] = 0
        <4>1. CASE internalTree[r] = 0
          BY <1>3, <2>3, <4>1 DEF RemoveRecord
        <4>2. CASE internalTree[r] # 0
          <5>1. r = TxRecord(t) /\ internalTree[r] = 1
            BY <2>1, <2>4, <2>5, <4>2
          <5> QED  BY <1>3, <2>3, <5>1 DEF RemoveRecord
        <4> QED  BY <4>1, <4>2
      <3> QED  BY <1>1, <2>5, <3>1
    <2>6. CASE r.txid # TxId[t]
      <3>1. internalTree'[r] = internalTree[r]
        BY <1>3, <2>2, <2>6
      <3>2. r.txid \in DOMAIN txmap' <=> r.txid \in DOMAIN txmap
        BY <1>1, <2>6
      <3>3. r.txid \in DOMAIN txmap' => txmap'[r.txid] = txmap[r.txid]
        BY <1>1
      <3> QED  BY <2>1, <3>1, <3>2, <3>3
    <2> QED  BY <2>5, <2>6
  <1> QED  BY <1>4, <1>5, <1>6, <1>7, <1>8, <1>9

\* A crash keeps the invariant: it empties everything the pool has.
LEMMA ProcessDiesKeeps ==
  ASSUME IInv, ProcessDies
  PROVE  IInv'
  BY DEF ProcessDies, EmptyTree, IInv, TypeOK, MapFees, MapInTree,
         TreeMatchesMap, OutsReferencedExact, NoPooledConflict, Pooled

\* A step that leaves the pool alone keeps the invariant.
LEMMA OutsideKeeps ==
  ASSUME IInv, Restart \/ ChainstateChanges \/ UNCHANGED vars
  PROVE  IInv' /\ UNCHANGED poolVars
  <1> USE DEF IInv
  <1>1. UNCHANGED poolVars
    BY DEF Restart, ChainstateChanges, vars, poolVars
  <1>2. TypeOK'
    BY <1>1 DEF Restart, ChainstateChanges, vars, poolVars, TypeOK
  <1>3. MapFees' /\ MapInTree' /\ TreeMatchesMap'
    BY <1>1 DEF poolVars, MapFees, MapInTree, TreeMatchesMap
  <1>4. OutsReferencedExact' /\ NoPooledConflict'
    BY <1>1 DEF poolVars, OutsReferencedExact, NoPooledConflict, Pooled
  <1> QED  BY <1>1, <1>2, <1>3, <1>4

\* Every step keeps the invariant.
LEMMA NextIInv == IInv /\ [Next]_vars => IInv'
  <1> SUFFICES ASSUME IInv, [Next]_vars
               PROVE  IInv'
    OBVIOUS
  <1>1. CASE \E t \in Tx : AddTX(t)
    BY <1>1, AddTXKeeps
  <1>2. CASE \E t \in Tx : RemoveTX(t)
    BY <1>2, RemoveTXKeeps
  <1>3. CASE ProcessDies
    BY <1>3, ProcessDiesKeeps
  <1>4. CASE Restart \/ ChainstateChanges \/ UNCHANGED vars
    BY <1>4, OutsideKeeps
  <1> QED  BY <1>1, <1>2, <1>3, <1>4 DEF Next

\* The conjunction of what follows, in every reachable state.
THEOREM PoolInvariant == Spec => []IInv
  BY InitIInv, NextIInv, PTL DEF Spec

\* Every variable keeps its Go type: no fee leaves the range of a uint64.
THEOREM PoolTypeOK == Spec => []TypeOK
  BY PoolInvariant, PTL DEF IInv

\* A transaction the index map lists is in the fee tree.
THEOREM PoolMapInTree == Spec => []MapInTree
  BY PoolInvariant, PTL DEF IInv

\* The index map and the fee tree list the same transactions with the same
\* fees, each once, wherever the objects of one TXID agree on their fee.
THEOREM PoolTreeMatchesMap == Spec => []TreeMatchesMap
  BY PoolInvariant, PTL DEF IInv

\* The double-spend set is always exactly what the pooled transactions spend.
THEOREM PoolOutsReferencedExact == Spec => []OutsReferencedExact
  BY PoolInvariant, PTL DEF IInv

\* No output is ever spent by two pooled transactions.
THEOREM PoolNoConflict == Spec => []NoPooledConflict
  BY PoolInvariant, PTL DEF IInv

=============================================================================
