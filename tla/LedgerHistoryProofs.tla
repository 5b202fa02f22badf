------------------------ MODULE LedgerHistoryProofs ------------------------
(***************************************************************************)
(* What the chainstate and the pool owe to the blocks confirmed before.    *)
(*                                                                         *)
(* No output is spent more often than it was made: ConfirmAsValid removes  *)
(* what a block refers to reference by reference, and each has to be there *)
(* (SpentOnce), so a block that reaches its last write refers to each      *)
(* output once, and to outputs unspent before.  That what was spent stays  *)
(* spent would be false: a block whose transactions have no inputs may be  *)
(* confirmed again, and makes its outputs again.  So may be all that was   *)
(* confirmed since; the counts keep up with that, and the pool, which      *)
(* takes only what spends unspent outputs, keeps up with the counts.       *)
(*                                                                         *)
(* Then, what a step can do to the unspent outputs: nothing, apply a valid *)
(* block as a whole, or take away some of what the block of a call refers  *)
(* to, at the end of a call that fails.  Until the last write the abstract *)
(* set is the one the block was validated with, so the inputs removed one  *)
(* by one do not show.  A behaviour without calls that fail is one of      *)
(* UtxoSet.                                                                *)
(***************************************************************************)
EXTENDS LedgerProofs, SumsProofs

IsConfirmed(b) == confirmed[b] > 0

\* The places of the block under way that ConfirmAsValid has passed, and what
\* each refers to.
Passed ==
  UNION {{<<i, k>> : k \in {n \in DOMAIN Ins[Txs[blk][i]] : i < txi \/ (i = txi /\ n <= inp)}}
           : i \in DOMAIN Txs[blk]}
RefersTo(p) == Ins[Txs[blk][p[1]]][p[2]]

\* No two of them refer to the same output.
SpentOnce ==
  pc = "confirm" => \A p, q \in Passed : RefersTo(p) = RefersTo(q) => p = q

\* NoDoubleSpend, without its exception.
CountsFit ==
  \A o \in Outpoint : TimesSpent(o) + (IF o \in Utxo THEN 1 ELSE 0) <= TimesMade(o)

\* RemoveBlock has yet to come to a transaction of that TXID.
ToBeEvicted(id) ==
  pc = "evict" /\ \E j \in Regular(Txs[blk]) : j >= txi /\ TxId[Txs[blk][j]] = id

\* What is pooled is about to be evicted, or may have been confirmed, but not as
\* often as each of its inputs was made.
PoolKeepsUp ==
  \A t \in Tx : TxId[t] \in DOMAIN txmap =>
    \/ ToBeEvicted(TxId[t])
    \/ \A o \in InputSet(t) : TimesConfirmed(TxId[t]) < TimesMade(o)

HistoryInv == SpentOnce /\ (failed \/ (CountsFit /\ PoolKeepsUp))

-----------------------------------------------------------------------------
\* At the last write, every input of the block has been removed.
LEMMA InputsAreRemoved ==
  ASSUME ChainInv, WriteBatchTX, NEW t \in TxsOf(blk)
  PROVE  InputSet(t) \subseteq Removed
  <1>1. blk \in Block /\ \A i \in DOMAIN Txs[blk] : i < txi
    BY WriteBatchTXFacts
  <1>2. PICK i \in DOMAIN Txs[blk] : t = Txs[blk][i]
    BY DEF TxsOf
  <1>3. InputSet(t) \subseteq Outpoint
    BY <1>1, <1>2, BlockTypes, TxTypes
  <1> QED  BY <1>1, <1>2, <1>3 DEF Removed, InputSet

\* And the passed places are all there are.
LEMMA AllPassed ==
  ASSUME ChainInv, WriteBatchTX
  PROVE  /\ Removed = Refers(blk)
         /\ \A o : References(blk, o) = {p \in Passed : RefersTo(p) = o}
  <1>1. blk \in Block /\ \A i \in DOMAIN Txs[blk] : i < txi
    BY WriteBatchTXFacts
  <1>2. Refers(blk) \subseteq Removed
    BY InputsAreRemoved DEF Refers
  <1>3. Removed \subseteq Refers(blk)
    BY DEF Removed, Refers, TxsOf, InputSet
  <1>4. ASSUME NEW o
        PROVE  References(blk, o) = {p \in Passed : RefersTo(p) = o}
    BY <1>1 DEF References, Passed, RefersTo
  <1> QED  BY <1>2, <1>3, <1>4

\* A passed place refers to something removed.
LEMMA PassedAreRemoved ==
  ASSUME ChainInv, NEW p \in Passed
  PROVE  RefersTo(p) \in Removed
  <1>1. PICK i \in DOMAIN Txs[blk] : \E k \in DOMAIN Ins[Txs[blk][i]] :
          p = <<i, k>> /\ (i < txi \/ (i = txi /\ k <= inp))
    BY DEF Passed
  <1>2. blk \in Block
    BY DEF ChainInv, ChainTypeOK
  <1>3. PICK k \in DOMAIN Ins[Txs[blk][i]] :
          p = <<i, k>> /\ (i < txi \/ (i = txi /\ k <= inp))
    BY <1>1
  <1>4. RefersTo(p) = Ins[Txs[blk][i]][k] /\ RefersTo(p) \in Outpoint
    BY <1>2, <1>3, BlockTypes, TxTypes DEF RefersTo
  <1> QED  BY <1>3, <1>4 DEF Removed

\* Every step keeps it so: cleanUpInputs finds what it removes, which is none of
\* what was removed before.
LEMMA SpentOnceSteps ==
  ASSUME ChainInv, SpentOnce, [Next]_vars
  PROVE  SpentOnce'
  <1> USE DEF diskVars, posVars, histVars, ledgerVars
  <1>1. ASSUME UNCHANGED <<pc, blk, txi, inp>>
        PROVE  SpentOnce'
    BY <1>1 DEF SpentOnce, Passed, RefersTo
  <1>2. ASSUME pc' # "confirm"
        PROVE  SpentOnce'
    BY <1>2 DEF SpentOnce
  <1>3. blk \in Block /\ txi \in Nat \ {0} /\ inp \in Nat
    BY DEF ChainInv, ChainTypeOK
  <1>4. CASE StoreIndex
    <2>1. ASSUME NEW i \in DOMAIN Txs[blk], NEW k \in DOMAIN Ins[Txs[blk][i]]
          PROVE  ~(i < 1 \/ (i = 1 /\ k <= 0))
      BY <1>3, BlockTypes, TxTypes
    <2>2. Passed' = {}
      BY <1>4, <2>1 DEF StoreIndex, Passed
    <2> QED  BY <2>2 DEF SpentOnce
  <1>5. CASE CleanUpInput
    <2> DEFINE new == <<txi, inp + 1>>
    <2>1. /\ pc = "confirm" /\ blk' = blk /\ txi' = txi /\ inp' = inp + 1
          /\ NextInput \in Unspent /\ RefersTo(new) = NextInput
      BY <1>5 DEF CleanUpInput, AtSpend, RefersTo, NextInput, CurTx
    <2>2. ASSUME NEW p \in Passed
          PROVE  RefersTo(p) # NextInput
      BY <2>1, PassedAreRemoved DEF ChainInv, Accepted
    <2>3. ASSUME NEW i \in DOMAIN Txs[blk], NEW k \in DOMAIN Ins[Txs[blk][i]],
                 i < txi \/ (i = txi /\ k <= inp + 1)
          PROVE  (i < txi \/ (i = txi /\ k <= inp)) \/ (i = txi /\ k = inp + 1)
      <3>1. i \in Nat /\ Txs[blk][i] \in Tx
        BY <1>3, BlockTypes
      <3>2. k \in Nat
        BY <3>1, TxTypes
      <3> QED  BY <1>3, <2>3, <3>1, <3>2
    <2>4. Passed' \subseteq Passed \cup {new}
      BY <2>1, <2>3 DEF Passed
    <2>5. \A p : RefersTo(p)' = RefersTo(p)
      BY <2>1 DEF RefersTo
    <2> HIDE DEF new
    <2> QED  BY <2>1, <2>2, <2>4, <2>5 DEF SpentOnce
  <1>6. CASE InsertBatchTX
    <2>1. pc = "confirm" /\ blk' = blk /\ txi' = txi + 1 /\ inp' = 0 /\ inp = Len(Ins[CurTx])
      BY <1>6 DEF InsertBatchTX, AtPut
    <2>2. ASSUME NEW i \in DOMAIN Txs[blk], NEW k \in DOMAIN Ins[Txs[blk][i]],
                 i < txi + 1 \/ (i = txi + 1 /\ k <= 0)
          PROVE  i < txi \/ (i = txi /\ k <= inp)
      <3>1. i \in Nat /\ Txs[blk][i] \in Tx
        BY <1>3, BlockTypes
      <3>2. k \in Nat \ {0} /\ k <= Len(Ins[Txs[blk][i]])
        BY <3>1, TxTypes
      <3> QED  BY <1>3, <2>1, <2>2, <3>1, <3>2 DEF CurTx
    <2>3. Passed' \subseteq Passed
      BY <2>1, <2>2 DEF Passed
    <2>4. \A p : RefersTo(p)' = RefersTo(p)
      BY <2>1 DEF RefersTo
    <2> QED  BY <2>1, <2>3, <2>4 DEF SpentOnce
  <1>7. CASE Advance
    BY <1>2, <1>4, <1>5, <1>6, <1>7
    DEF Advance, StoreData, StoreUndo, CleanUpFails, InsertBatchFails, ReturnError, CallEnds,
        WriteBatchTX, EvictPooled, EvictAbsent, Return
  <1>8. CASE \E b \in Block : AcceptBlock(b) \/ HeaderOverflows(b)
    BY <1>2, <1>8 DEF AcceptBlock, HeaderOverflows, Die, CallEnds
  <1>9. CASE WriteFails \/ ProcessDies
    BY <1>2, <1>9 DEF WriteFails, ReturnError, ProcessDies, Die, CallEnds
  <1>10. CASE \/ \E t \in Tx : AddTX(t)
              \/ \E b \in Block : RejectBlock(b)
              \/ Restart
              \/ UNCHANGED vars
    BY <1>1, <1>10 DEF AddTX, RejectBlock, Restart, vars
  <1> QED  BY <1>7, <1>8, <1>9, <1>10 DEF Next

-----------------------------------------------------------------------------
(***************************************************************************)
(* Counting.                                                               *)
(***************************************************************************)
\* A block has finitely many places, so it refers to an output so many times.
LEMMA CountTypes ==
  ASSUME NEW b \in Block
  PROVE  /\ \A o \in Outpoint :
              /\ IsFiniteSet(References(b, o))
              /\ SpendsOf[b][o] = Cardinality(References(b, o)) /\ SpendsOf[b][o] \in Nat
              /\ MakesOf[b][o] = (IF o \in Creates(b) THEN 1 ELSE 0)
         /\ \A id \in TxIds : HoldsOf[b][id] \in {0, 1}
  <1> SUFFICES ASSUME NEW o \in Outpoint
               PROVE  IsFiniteSet(References(b, o))
    BY FS_CardinalityType DEF SpendsOf, MakesOf, HoldsOf
  <1> DEFINE P == DOMAIN Txs[b]
             Q(i) == {i} \X DOMAIN Ins[Txs[b][i]]
             all == UNION {Q(i) : i \in P}
  <1>1. IsFiniteSet(P)
    <2>1. Len(Txs[b]) \in Int /\ 1 \in Int /\ P = 1 .. Len(Txs[b])
      BY BlockTypes
    <2> QED  BY <2>1, FS_Interval
  <1>2. ASSUME NEW i \in P
        PROVE  IsFiniteSet(Q(i))
    <2>1. Txs[b][i] \in Tx
      BY BlockTypes
    <2>2. /\ Len(Ins[Txs[b][i]]) \in Int /\ 1 \in Int
          /\ DOMAIN Ins[Txs[b][i]] = 1 .. Len(Ins[Txs[b][i]])
      BY <2>1, TxTypes
    <2>3. IsFiniteSet(DOMAIN Ins[Txs[b][i]])
      BY <2>2, FS_Interval
    <2> QED  BY <2>3, FS_Singleton, FS_Product
  <1> HIDE DEF Q, P
  <1>3. IsFiniteSet({Q(i) : i \in P})
    <2> DEFINE h == [i \in P |-> Q(i)]
               img == {Q(i) : i \in P}
    <2>1. h \in Surjection(P, img)
      BY DEF Surjection
    <2> HIDE DEF h, img
    <2>2. IsFiniteSet(img)
      BY <1>1, <2>1, FS_Surjection
    <2> QED  BY <2>2 DEF img
  <1>4. IsFiniteSet(all)
    BY <1>2, <1>3, FS_UNION
  <1>5. References(b, o) \subseteq all
    BY DEF References, Q, P
  <1> QED  BY <1>4, <1>5, FS_Subset

\* The sums over all confirmations are numbers.
LEMMA PerConfirmationType ==
  ASSUME ChainInv, NEW f, NEW x, \A b \in Block : f[b][x] \in Nat
  PROVE  PerConfirmation(f, x) \in Nat
  <1> DEFINE g == [b \in Block |-> confirmed[b] * f[b][x]]
  <1>1. \A b \in Block : g[b] \in Nat
    BY DEF ChainInv, ChainTypeOK
  <1> HIDE DEF g
  <1>2. SumFunctionOnSet(g, Block) \in Nat
    BY <1>1, ValueAssumption, SumType
  <1> QED  BY <1>2 DEF PerConfirmation, g

\* What the properties count.
LEMMA TimesTypes ==
  ASSUME ChainInv
  PROVE  /\ \A o \in Outpoint : TimesSpent(o) \in Nat /\ TimesMade(o) \in Nat
         /\ \A id \in TxIds : TimesConfirmed(id) \in Nat
  <1>1. ASSUME NEW o \in Outpoint
        PROVE  TimesSpent(o) \in Nat /\ TimesMade(o) \in Nat
    <2>1. \A b \in Block : SpendsOf[b][o] \in Nat /\ MakesOf[b][o] \in Nat
      BY CountTypes
    <2>2. PerConfirmation(SpendsOf, o) \in Nat /\ PerConfirmation(MakesOf, o) \in Nat
      BY <2>1, PerConfirmationType
    <2> QED  BY <2>2 DEF TimesSpent, TimesMade
  <1>2. ASSUME NEW id \in TxIds
        PROVE  TimesConfirmed(id) \in Nat
    <2>1. \A b \in Block : HoldsOf[b][id] \in Nat
      BY CountTypes
    <2> QED  BY <2>1, PerConfirmationType DEF TimesConfirmed
  <1> QED  BY <1>1, <1>2

\* One confirmation more adds what its block adds.
LEMMA OneConfirmationMore ==
  ASSUME ChainInv, WriteBatchTX, NEW f, NEW x, \A b \in Block : f[b][x] \in Nat
  PROVE  PerConfirmation(f, x)' = PerConfirmation(f, x) + f[blk][x]
  <1> DEFINE rest == Block \ {blk}
             g == [b \in Block |-> confirmed[b] * f[b][x]]
             h == [b \in Block |-> confirmed'[b] * f[b][x]]
             old == SumFunctionOnSet(g, rest)
             new == SumFunctionOnSet(h, rest)
  <1>1. blk \in Block /\ confirmed' = [confirmed EXCEPT ![blk] = @ + 1]
    BY WriteBatchTXFacts
  <1>2. confirmed \in [Block -> Nat]
    BY DEF ChainInv, ChainTypeOK
  <1>3. /\ \A b \in Block : confirmed[b] \in Nat /\ confirmed'[b] \in Nat
        /\ \A b \in rest : confirmed'[b] = confirmed[b]
        /\ confirmed'[blk] = confirmed[blk] + 1
    BY <1>1, <1>2
  <1>4. /\ \A b \in Block : g[b] \in Nat /\ h[b] \in Nat
        /\ \A b \in rest : h[b] = g[b]
    BY <1>3
  <1>5. h[blk] = g[blk] + f[blk][x]
    <2>1. g[blk] = confirmed[blk] * f[blk][x] /\ h[blk] = (confirmed[blk] + 1) * f[blk][x]
      BY <1>1, <1>3
    <2>2. confirmed[blk] \in Nat /\ f[blk][x] \in Nat
      BY <1>1, <1>3
    <2>3. \A m, n \in Nat : (m + 1) * n = m * n + n
      OBVIOUS
    <2> QED  BY <2>1, <2>2, <2>3
  <1>6. IsFiniteSet(rest) /\ rest \cup {blk} = Block /\ blk \notin rest
    BY <1>1, ValueAssumption, FS_Subset
  <1>7. PerConfirmation(f, x) = SumFunctionOnSet(g, Block)
        /\ PerConfirmation(f, x)' = SumFunctionOnSet(h, Block)
    BY DEF PerConfirmation
  <1> HIDE DEF rest, g, h
  <1>8. /\ SumFunctionOnSet(g, Block) = old + g[blk]
        /\ SumFunctionOnSet(h, Block) = new + h[blk]
    BY <1>4, <1>6, SumAdd
  <1>9. \A b \in rest : g[b] \in Nat /\ g[b] = h[b]
    BY <1>4, <1>6
  <1>10. old = new /\ old \in Nat
    BY <1>6, <1>9, SumSameValues, SumType
  <1> HIDE DEF old, new
  <1>11. g[blk] \in Nat /\ h[blk] \in Nat /\ f[blk][x] \in Nat
    BY <1>1, <1>4
  <1> QED  BY <1>5, <1>7, <1>8, <1>10, <1>11

\* The same for what the properties count.
LEMMA TimesRise ==
  ASSUME ChainInv, WriteBatchTX
  PROVE  /\ \A o \in Outpoint :
              /\ TimesSpent(o)' = TimesSpent(o) + SpendsOf[blk][o]
              /\ TimesMade(o)' = TimesMade(o) + MakesOf[blk][o]
         /\ \A id \in TxIds : TimesConfirmed(id)' = TimesConfirmed(id) + HoldsOf[blk][id]
  <1>1. blk \in Block
    BY WriteBatchTXFacts
  <1>2. ASSUME NEW o \in Outpoint
        PROVE  /\ TimesSpent(o)' = TimesSpent(o) + SpendsOf[blk][o]
               /\ TimesMade(o)' = TimesMade(o) + MakesOf[blk][o]
    <2>1. \A b \in Block : SpendsOf[b][o] \in Nat /\ MakesOf[b][o] \in Nat
      BY CountTypes
    <2>2. PerConfirmation(SpendsOf, o) \in Nat /\ PerConfirmation(MakesOf, o) \in Nat
      BY <2>1, PerConfirmationType
    <2>3. /\ PerConfirmation(SpendsOf, o)' = PerConfirmation(SpendsOf, o) + SpendsOf[blk][o]
          /\ PerConfirmation(MakesOf, o)' = PerConfirmation(MakesOf, o) + MakesOf[blk][o]
      BY <2>1, OneConfirmationMore
    <2>4. /\ TimesSpent(o) = PerConfirmation(SpendsOf, o)
          /\ TimesSpent(o)' = PerConfirmation(SpendsOf, o)'
          /\ TimesMade(o) = PerConfirmation(MakesOf, o)
                              + (IF o \in UnspentIn(InitialCoins) THEN 1 ELSE 0)
          /\ TimesMade(o)' = PerConfirmation(MakesOf, o)'
                              + (IF o \in UnspentIn(InitialCoins) THEN 1 ELSE 0)
      BY DEF TimesSpent, TimesMade
    <2>5. SpendsOf[blk][o] \in Nat /\ MakesOf[blk][o] \in Nat
      BY <1>1, <2>1
    <2> QED  BY <2>2, <2>3, <2>4, <2>5
  <1>3. ASSUME NEW id \in TxIds
        PROVE  TimesConfirmed(id)' = TimesConfirmed(id) + HoldsOf[blk][id]
    <2>1. \A b \in Block : HoldsOf[b][id] \in Nat
      BY CountTypes
    <2> QED  BY <2>1, OneConfirmationMore DEF TimesConfirmed
  <1> QED  BY <1>2, <1>3

\* Without a confirmation the counts stay.
LEMMA TimesStay ==
  ASSUME confirmed' = confirmed
  PROVE  /\ \A o : TimesSpent(o)' = TimesSpent(o) /\ TimesMade(o)' = TimesMade(o)
         /\ \A id : TimesConfirmed(id)' = TimesConfirmed(id)
  BY DEF TimesSpent, TimesMade, TimesConfirmed, PerConfirmation

\* A block at its last write refers once to what was removed, and to nothing else.
LEMMA RefersOnce ==
  ASSUME ChainInv, SpentOnce, WriteBatchTX, NEW o \in Outpoint
  PROVE  SpendsOf[blk][o] = (IF o \in Removed THEN 1 ELSE 0)
  <1>1. blk \in Block /\ pc = "confirm"
    BY WriteBatchTXFacts
  <1>2. References(blk, o) = {p \in Passed : RefersTo(p) = o}
    BY AllPassed
  <1>3. SpendsOf[blk][o] = Cardinality(References(blk, o))
    BY <1>1, CountTypes
  <1>4. CASE o \in Removed
    <2>1. PICK p : p \in References(blk, o)
      <3>1. PICK i \in DOMAIN Txs[blk] : \E k \in DOMAIN Ins[Txs[blk][i]] : o = Ins[Txs[blk][i]][k]
        BY <1>4 DEF Removed
      <3>2. PICK k \in DOMAIN Ins[Txs[blk][i]] : o = Ins[Txs[blk][i]][k]
        BY <3>1
      <3>3. <<i, k>> \in References(blk, o)
        BY <3>2 DEF References
      <3> QED  BY <3>3
    <2>2. References(blk, o) = {p}
      BY <1>1, <1>2, <2>1 DEF SpentOnce
    <2> QED  BY <1>3, <1>4, <2>2, FS_Singleton
  <1>5. CASE o \notin Removed
    <2>1. References(blk, o) = {}
      BY <1>2, <1>5, PassedAreRemoved
    <2> QED  BY <1>3, <1>5, <2>1, FS_EmptySet
  <1> QED  BY <1>4, <1>5

\* A transaction is confirmed at most as often as each of its inputs is spent.
LEMMA ConfirmedSpends ==
  ASSUME ChainInv, NEW t \in Tx, NEW o \in InputSet(t)
  PROVE  TimesConfirmed(TxId[t]) <= TimesSpent(o)
  <1> DEFINE id == TxId[t]
             g == [b \in Block |-> confirmed[b] * HoldsOf[b][id]]
             h == [b \in Block |-> confirmed[b] * SpendsOf[b][o]]
  <1>1. o \in Outpoint /\ id \in TxIds
    BY TxTypes DEF TxIds
  <1>2. ASSUME NEW b \in Block
        PROVE  HoldsOf[b][id] <= SpendsOf[b][o]
    <2>1. SpendsOf[b][o] = Cardinality(References(b, o)) /\ IsFiniteSet(References(b, o))
      BY <1>1, CountTypes
    <2>2. Cardinality(References(b, o)) \in Nat
      BY <2>1, FS_CardinalityType
    <2>3. CASE \E i \in Regular(Txs[b]) : TxId[Txs[b][i]] = id
      <3>1. PICK i \in Regular(Txs[b]) : TxId[Txs[b][i]] = id
        BY <2>3
      <3>2. i \in DOMAIN Txs[b] /\ Txs[b][i] \in Tx
        BY Places, BlockTypes
      <3>3. o \in InputSet(Txs[b][i])
        BY <3>1, <3>2, SameId
      <3>4. PICK k \in DOMAIN Ins[Txs[b][i]] : Ins[Txs[b][i]][k] = o
        BY <3>3 DEF InputSet
      <3>5. <<i, k>> \in References(b, o)
        BY <3>2, <3>4 DEF References
      <3>6. Cardinality(References(b, o)) # 0
        BY <2>1, <3>5, FS_EmptySet
      <3>7. HoldsOf[b][id] = 1
        BY <1>1, <2>3 DEF HoldsOf
      <3> QED  BY <2>1, <2>2, <3>6, <3>7
    <2>4. CASE ~\E i \in Regular(Txs[b]) : TxId[Txs[b][i]] = id
      <3>1. HoldsOf[b][id] = 0
        BY <1>1, <2>4 DEF HoldsOf
      <3> QED  BY <2>1, <2>2, <3>1
    <2> QED  BY <2>3, <2>4
  <1>3. \A b \in Block : g[b] \in Nat /\ h[b] \in Nat /\ g[b] <= h[b]
    <2> TAKE b \in Block
    <2>1. confirmed[b] \in Nat /\ HoldsOf[b][id] \in Nat /\ SpendsOf[b][o] \in Nat
      BY <1>1, CountTypes DEF ChainInv, ChainTypeOK
    <2>2. \A c, m, n \in Nat : m <= n => c * m \in Nat /\ c * n \in Nat /\ c * m <= c * n
      BY ProductGrows
    <2>3. g[b] = confirmed[b] * HoldsOf[b][id] /\ h[b] = confirmed[b] * SpendsOf[b][o]
      OBVIOUS
    <2> HIDE DEF g, h, id
    <2> QED  BY <1>2, <2>1, <2>2, <2>3
  <1> HIDE DEF g, h
  <1>4. SumFunctionOnSet(g, Block) <= SumFunctionOnSet(h, Block)
    BY <1>3, ValueAssumption, SumMonotone
  <1> QED  BY <1>4 DEF TimesConfirmed, TimesSpent, PerConfirmation, g, h

\* The steps that confirm nothing leave the unspent outputs as they are, but for
\* the end of a call that was taking away what its block refers to.
LEMMA OtherSteps ==
  ASSUME ChainInv, [Next]_vars, ~WriteBatchTX
  PROVE  /\ confirmed' = confirmed
         /\ Utxo' = Utxo \/ (pc = "confirm" /\ pc' = "idle" /\ Utxo' = Unspent)
         /\ Utxo' \subseteq Utxo
         /\ failed => failed'
  <1> DEFINE Rest ==
        /\ confirmed' = confirmed
        /\ Utxo' = Utxo \/ (pc = "confirm" /\ pc' = "idle" /\ Utxo' = Unspent)
        /\ Utxo' \subseteq Utxo
        /\ failed => failed'
  <1> SUFFICES Rest
    OBVIOUS
  <1>1. pc = "confirm" => Unspent \subseteq before
    BY DEF ChainInv, Accepted
  <1>2. coins' = coins => Unspent' = Unspent
    BY DEF Unspent
  <1>3. ASSUME coins' = coins, confirmed' = confirmed, failed => failed', CallEnds
        PROVE  Rest
    BY <1>1, <1>2, <1>3 DEF CallEnds, Utxo
  <1>4. ASSUME UNCHANGED ledgerVars
        PROVE  Rest
    BY <1>2, <1>4 DEF Utxo, ledgerVars, posVars, histVars
  <1>5. CASE \E b \in Block : AcceptBlock(b)
    BY <1>2, <1>5 DEF AcceptBlock, Utxo, Idle, histVars
  <1>6. ASSUME Die
        PROVE  Rest
    BY <1>3, <1>6 DEF Die, histVars
  <1>7. ASSUME ReturnError
        PROVE  Rest
    BY <1>3, <1>7 DEF ReturnError
  <1>8. CASE Advance
    <2>1. CASE StoreData \/ StoreUndo
      BY <1>2, <2>1 DEF StoreData, StoreUndo, Utxo, posVars, histVars
    <2>2. CASE StoreIndex
      BY <1>2, <2>2 DEF StoreIndex, Utxo, histVars, ChainInv, Accepted
    <2>3. CASE CleanUpInput
      BY <2>3 DEF CleanUpInput, AtSpend, Utxo, histVars
    <2>4. CASE InsertBatchTX
      BY <1>2, <2>4 DEF InsertBatchTX, AtPut, Utxo, histVars
    <2>5. CASE EvictPooled \/ EvictAbsent
      BY <1>2, <2>5 DEF EvictPooled, EvictAbsent, Utxo, histVars
    <2>6. CASE Return
      BY <1>3, <2>6 DEF Return, histVars
    <2> QED
      BY <1>7, <1>8, <2>1, <2>2, <2>3, <2>4, <2>5, <2>6 DEF Advance, CleanUpFails, InsertBatchFails
  <1> HIDE DEF Rest
  <1> QED
    BY <1>4, <1>5, <1>6, <1>7, <1>8 DEF Next, AddTX, RejectBlock, HeaderOverflows, WriteFails,
         ProcessDies, Restart, vars

\* AddTX takes a transaction that has inputs, all of them unspent.
LEMMA AddTXFacts ==
  ASSUME NEW t \in Tx, AddTX(t)
  PROVE  /\ pc = "idle" /\ pc' = "idle" /\ confirmed' = confirmed
         /\ DOMAIN txmap' = DOMAIN txmap \cup {TxId[t]}
         /\ InputSet(t) # {} /\ InputSet(t) \subseteq Unspent
  <1>1. Pool!ValidateTransaction(t, Unspent) /\ Pool!IndexTX(t)
    BY DEF AddTX, Pool!AddTX
  <1>2. InputSet(t) \subseteq Unspent
    BY <1>1 DEF Pool!ValidateTransaction, Pool!InputSet, InputSet
  <1>3. InputValue[t] # 0
    <2>1. OutputValue[t] \in Nat /\ MinFee[t] \in Nat \ {0}
      BY TransactionAssumption
    <2> QED  BY <1>1, <2>1 DEF Pool!ValidateTransaction
  <1>4. Ins[t] # <<>> /\ Ins[t] \in Seq(Outpoint)
    BY <1>3, TransactionAssumption
  <1>5. 1 \in DOMAIN Ins[t]
    BY <1>4
  <1>6. DOMAIN txmap' = DOMAIN txmap \cup {TxId[t]}
    BY <1>1 DEF Pool!IndexTX
  <1> QED  BY <1>2, <1>5, <1>6 DEF AddTX, Idle, InputSet, ledgerVars, histVars

\* What a step does to the set of pooled TXIDs, and to the eviction under way.
LEMMA PooledIds ==
  ASSUME ChainInv, [Next]_vars, ~WriteBatchTX
  PROVE  \/ \E t \in Tx : AddTX(t)
         \/ DOMAIN txmap' = {}
         \/ pc # "evict" /\ DOMAIN txmap' \subseteq DOMAIN txmap
         \/ UNCHANGED <<pc, blk, txi, txmap>>
         \/ /\ pc = "evict" /\ UNCHANGED <<pc, blk>> /\ txi' = txi + 1
            /\ DOMAIN txmap' \subseteq DOMAIN txmap \ {TxId[CurTx]}
         \/ pc = "evict" /\ txi > Len(Txs[blk]) /\ txmap' = txmap
  <1>1. CASE \E b \in Block : RejectBlock(b)
    <2>1. UNCHANGED <<pc, blk, txi>> /\ pc = "idle"
      BY <1>1 DEF RejectBlock, Idle, ledgerVars, posVars
    <2>2. DOMAIN txmap' \subseteq DOMAIN txmap
      BY <1>1 DEF RejectBlock, Pool!RemoveTX, Pool!UnindexTX
    <2> QED  BY <2>1, <2>2
  <1>2. CASE \E b \in Block : AcceptBlock(b)
    BY <1>2 DEF AcceptBlock, Idle, poolVars
  <1>3. ASSUME Die
        PROVE  DOMAIN txmap' = {}
    BY <1>3 DEF Die
  <1>4. CASE Advance \/ WriteFails
    <2>1. CASE EvictPooled
      BY <2>1 DEF EvictPooled, Pool!RemoveTX, Pool!UnindexTX
    <2>2. CASE EvictAbsent
      BY <2>2 DEF EvictAbsent, poolVars
    <2>3. CASE Return
      <3>1. blk \in Block /\ txi \in Nat
        BY DEF ChainInv, ChainTypeOK
      <3> QED  BY <2>3, <3>1, BlockTypes DEF Return, InBlock, poolVars
    <2>4. CASE \/ StoreData \/ StoreUndo \/ StoreIndex \/ CleanUpInput \/ InsertBatchTX
               \/ CleanUpFails \/ InsertBatchFails \/ WriteFails
      BY <2>4 DEF StoreData, StoreUndo, StoreIndex, CleanUpInput, InsertBatchTX, CleanUpFails,
           InsertBatchFails, WriteFails, ReturnError, AtSpend, AtPut, AtFlush, poolVars
    <2> QED  BY <1>4, <2>1, <2>2, <2>3, <2>4 DEF Advance
  <1>5. CASE Restart \/ UNCHANGED vars
    BY <1>5 DEF Restart, vars, ledgerVars, posVars, poolVars
  <1> QED
    BY <1>1, <1>2, <1>3, <1>4, <1>5 DEF Next, HeaderOverflows, ProcessDies

\* The last write spends once what was unspent, and makes what it creates.
LEMMA WriteBatchTXCounts ==
  ASSUME ChainInv, SpentOnce, CountsFit, WriteBatchTX, ~failed
  PROVE  CountsFit'
  <1>1. /\ blk \in Block /\ pc = "confirm" /\ pc' = "evict"
        /\ Unspent' = Unspent \cup Creates(blk)
        /\ Removed \subseteq before /\ Unspent = before \ Removed
    BY WriteBatchTXFacts DEF ChainInv, Accepted
  <1>2. Utxo = before /\ Utxo' = (before \ Removed) \cup Creates(blk)
    BY <1>1 DEF Utxo
  <1> SUFFICES ASSUME NEW o \in Outpoint
               PROVE  TimesSpent(o)' + (IF o \in Utxo' THEN 1 ELSE 0) <= TimesMade(o)'
    BY DEF CountsFit
  <1>3. TimesSpent(o) + (IF o \in Utxo THEN 1 ELSE 0) <= TimesMade(o)
    BY DEF CountsFit
  <1>4. /\ TimesSpent(o)' = TimesSpent(o) + (IF o \in Removed THEN 1 ELSE 0)
        /\ TimesMade(o)' = TimesMade(o) + (IF o \in Creates(blk) THEN 1 ELSE 0)
    BY <1>1, TimesRise, RefersOnce, CountTypes
  <1>5. TimesSpent(o) \in Nat /\ TimesMade(o) \in Nat
    BY TimesTypes
  <1>6. CASE o \in Removed
    BY <1>1, <1>2, <1>3, <1>4, <1>5, <1>6
  <1>7. CASE o \notin Removed
    BY <1>1, <1>2, <1>3, <1>4, <1>5, <1>7
  <1> QED  BY <1>6, <1>7

\* Whatever the step, the counts fit.
LEMMA CountSteps ==
  ASSUME ChainInv, SpentOnce, failed \/ CountsFit, [Next]_vars
  PROVE  failed' \/ CountsFit'
  <1>1. CASE WriteBatchTX
    <2>1. failed' = failed
      BY <1>1, WriteBatchTXFacts
    <2> QED  BY <1>1, <2>1, WriteBatchTXCounts
  <1>2. CASE ~WriteBatchTX
    <2>1. confirmed' = confirmed /\ Utxo' \subseteq Utxo /\ (failed => failed')
      BY <1>2, OtherSteps
    <2>2. ASSUME CountsFit, NEW o \in Outpoint
          PROVE  TimesSpent(o)' + (IF o \in Utxo' THEN 1 ELSE 0) <= TimesMade(o)'
      <3>1. TimesSpent(o)' = TimesSpent(o) /\ TimesMade(o)' = TimesMade(o)
        BY <2>1, TimesStay
      <3>2. TimesSpent(o) + (IF o \in Utxo THEN 1 ELSE 0) <= TimesMade(o)
        BY <2>2 DEF CountsFit
      <3>3. TimesSpent(o) \in Nat /\ TimesMade(o) \in Nat
        BY TimesTypes
      <3> QED  BY <2>1, <3>1, <3>2, <3>3
    <2>3. CountsFit => CountsFit'
      BY <2>2 DEF CountsFit
    <2> QED  BY <2>1, <2>3
  <1> QED  BY <1>1, <1>2

-----------------------------------------------------------------------------
(***************************************************************************)
(* The pool.                                                               *)
(***************************************************************************)
\* The last write: what it confirms is about to be evicted, if it is pooled.
LEMMA WriteBatchTXPool ==
  ASSUME ChainInv, PoolKeepsUp, WriteBatchTX
  PROVE  PoolKeepsUp'
  <1>1. /\ blk \in Block /\ pc = "confirm" /\ pc' = "evict" /\ txi' = 2 /\ blk' = blk
        /\ txmap' = txmap
    BY WriteBatchTXFacts DEF WriteBatchTX, poolVars
  <1> SUFFICES ASSUME NEW t \in Tx, TxId[t] \in DOMAIN txmap, ~ToBeEvicted(TxId[t])',
                      NEW o \in InputSet(t)
               PROVE  TimesConfirmed(TxId[t])' < TimesMade(o)'
    BY <1>1 DEF PoolKeepsUp
  <1>2. TimesConfirmed(TxId[t]) < TimesMade(o)
    BY <1>1 DEF PoolKeepsUp, ToBeEvicted
  <1>3. TxId[t] \in TxIds /\ o \in Outpoint
    BY TxTypes DEF TxIds
  <1>4. HoldsOf[blk][TxId[t]] = 0
    <2>1. \A j \in Regular(Txs[blk]) : j >= 2 /\ TxId[Txs[blk][j]] # TxId[t]
      BY <1>1, BlockTypes DEF ToBeEvicted, Regular
    <2> QED  BY <1>1, <1>3, <2>1 DEF HoldsOf
  <1>5. MakesOf[blk][o] \in Nat
    BY <1>1, <1>3, CountTypes
  <1>6. /\ TimesConfirmed(TxId[t]) \in Nat /\ TimesMade(o) \in Nat
        /\ TimesConfirmed(TxId[t])' = TimesConfirmed(TxId[t]) + HoldsOf[blk][TxId[t]]
        /\ TimesMade(o)' = TimesMade(o) + MakesOf[blk][o]
    BY <1>3, TimesTypes, TimesRise
  <1> QED  BY <1>2, <1>4, <1>5, <1>6

\* Whatever the step, the pool keeps up: what AddTX takes spends outputs made more
\* often than they were spent.
LEMMA PoolSteps ==
  ASSUME ChainInv, CountsFit, PoolKeepsUp, [Next]_vars
  PROVE  PoolKeepsUp'
  <1>1. CASE WriteBatchTX
    BY <1>1, WriteBatchTXPool
  <1>2. CASE ~WriteBatchTX
    <2>1. confirmed' = confirmed
      BY <1>2, OtherSteps
    <2>2. /\ \A o : TimesMade(o)' = TimesMade(o)
          /\ \A id : TimesConfirmed(id)' = TimesConfirmed(id)
      BY <2>1, TimesStay
    <2>3. CASE \E t \in Tx : AddTX(t)
      <3>1. PICK s \in Tx : AddTX(s)
        BY <2>3
      <3>2. /\ pc = "idle" /\ DOMAIN txmap' = DOMAIN txmap \cup {TxId[s]}
            /\ InputSet(s) \subseteq Unspent
        BY <3>1, AddTXFacts
      <3>3. ASSUME NEW o \in InputSet(s)
            PROVE  TimesConfirmed(TxId[s]) < TimesMade(o)
        <4>1. o \in Outpoint /\ TxId[s] \in TxIds /\ o \in Utxo
          BY <3>2, TxTypes DEF TxIds, Utxo
        <4>2. TimesSpent(o) + 1 <= TimesMade(o)
          BY <4>1 DEF CountsFit
        <4>3. TimesConfirmed(TxId[s]) <= TimesSpent(o)
          BY ConfirmedSpends
        <4>4. TimesSpent(o) \in Nat /\ TimesMade(o) \in Nat /\ TimesConfirmed(TxId[s]) \in Nat
          BY <4>1, TimesTypes
        <4> QED  BY <4>2, <4>3, <4>4
      <3>4. ASSUME NEW t \in Tx, TxId[t] \in DOMAIN txmap', NEW o \in InputSet(t)
            PROVE  TimesConfirmed(TxId[t]) < TimesMade(o)
        <4>1. CASE TxId[t] = TxId[s]
          BY <3>3, <4>1, SameId
        <4>2. CASE TxId[t] # TxId[s]
          BY <3>2, <3>4, <4>2 DEF PoolKeepsUp, ToBeEvicted
        <4> QED  BY <4>1, <4>2
      <3> QED  BY <2>2, <3>4 DEF PoolKeepsUp
    <2>4. CASE \/ DOMAIN txmap' = {}
               \/ pc # "evict" /\ DOMAIN txmap' \subseteq DOMAIN txmap
               \/ UNCHANGED <<pc, blk, txi, txmap>>
      BY <2>2, <2>4 DEF PoolKeepsUp, ToBeEvicted
    <2>5. CASE /\ pc = "evict" /\ UNCHANGED <<pc, blk>> /\ txi' = txi + 1
               /\ DOMAIN txmap' \subseteq DOMAIN txmap \ {TxId[CurTx]}
      <3>1. ASSUME NEW t \in Tx, TxId[t] \in DOMAIN txmap', ToBeEvicted(TxId[t])
            PROVE  ToBeEvicted(TxId[t])'
        <4>1. PICK j \in Regular(Txs[blk]) : j >= txi /\ TxId[Txs[blk][j]] = TxId[t]
          BY <3>1 DEF ToBeEvicted
        <4>2. j # txi
          BY <2>5, <3>1, <4>1 DEF CurTx
        <4>3. j \in Nat /\ txi \in Nat
          BY BlockTypes DEF Regular, ChainInv, ChainTypeOK
        <4>4. j >= txi + 1
          BY <4>1, <4>2, <4>3
        <4> QED  BY <2>5, <4>1, <4>4 DEF ToBeEvicted
      <3> QED  BY <2>2, <2>5, <3>1 DEF PoolKeepsUp
    <2>6. CASE pc = "evict" /\ txi > Len(Txs[blk]) /\ txmap' = txmap
      <3>1. \A id : ~ToBeEvicted(id)
        <4>1. blk \in Block /\ txi \in Nat
          BY DEF ChainInv, ChainTypeOK
        <4>2. \A j \in Regular(Txs[blk]) : j \in Nat /\ j <= Len(Txs[blk]) /\ Len(Txs[blk]) \in Nat
          BY <4>1, BlockTypes DEF Regular
        <4> QED  BY <2>6, <4>1, <4>2 DEF ToBeEvicted
      <3> QED  BY <2>2, <2>6, <3>1 DEF PoolKeepsUp
    <2> QED  BY <1>2, <2>3, <2>4, <2>5, <2>6, PooledIds
  <1> QED  BY <1>1, <1>2

-----------------------------------------------------------------------------
\* At first nothing is confirmed, so nothing is spent.
LEMMA InitHistory == Init => HistoryInv
  <1> SUFFICES ASSUME Init  PROVE HistoryInv
    OBVIOUS
  <1>1. ChainInv
    BY InitChain
  <1>2. Utxo = UnspentIn(InitialCoins) /\ pc = "idle" /\ DOMAIN txmap = {}
    BY DEF Init, NoCall, Utxo, Unspent, Pool!EmptyPool
  <1>3. ASSUME NEW o \in Outpoint
        PROVE  TimesSpent(o) = 0
    <2> DEFINE g == [b \in Block |-> confirmed[b] * SpendsOf[b][o]]
    <2>1. \A b \in Block : g[b] = 0
      BY CountTypes DEF Init
    <2> HIDE DEF g
    <2>2. \A b \in Block : g[b] \in Nat
      BY <2>1
    <2>3. Units(g, Block) = {}
      BY <2>1 DEF Units
    <2>4. SumFunctionOnSet(g, Block) = 0
      BY <2>2, <2>3, ValueAssumption, SumCountsUnits, FS_EmptySet
    <2> QED  BY <2>4 DEF TimesSpent, PerConfirmation, g
  <1>4. ASSUME NEW o \in Outpoint
        PROVE  TimesSpent(o) + (IF o \in Utxo THEN 1 ELSE 0) <= TimesMade(o)
    <2>1. \A b \in Block : MakesOf[b][o] \in Nat
      BY CountTypes
    <2>2. PerConfirmation(MakesOf, o) \in Nat
      BY <1>1, <2>1, PerConfirmationType
    <2> QED  BY <1>2, <1>3, <2>2 DEF TimesMade
  <1> QED  BY <1>2, <1>4 DEF HistoryInv, SpentOnce, CountsFit, PoolKeepsUp

\* Every step keeps the history.
LEMMA NextHistory ==
  ASSUME ChainInv, HistoryInv, [Next]_vars
  PROVE  HistoryInv'
  <1>1. SpentOnce'
    BY SpentOnceSteps DEF HistoryInv
  <1>2. failed' \/ CountsFit'
    BY CountSteps DEF HistoryInv
  <1>3. failed => failed'
    BY OtherSteps, WriteBatchTXFacts
  <1>4. failed' \/ PoolKeepsUp'
    BY <1>3, PoolSteps DEF HistoryInv
  <1> QED  BY <1>1, <1>2, <1>4 DEF HistoryInv

\* In every reachable state what is confirmed was counted right, and the pool
\* keeps up with it.
THEOREM LedgerHistory == Spec => [](ChainInv /\ HistoryInv)
  <1>1. Init => ChainInv /\ HistoryInv
    BY InitChain, InitHistory
  <1>2. ChainInv /\ HistoryInv /\ [Next]_vars => (ChainInv /\ HistoryInv)'
    BY NextChain, NextHistory
  <1> QED  BY <1>1, <1>2, PTL DEF Spec

\* Unless a call failed, no output is spent by confirmed blocks more often than
\* it was made, one time being kept for an output that is unspent: whatever the
\* blocks, however often each is inserted, wherever the process dies.
THEOREM LedgerNoDoubleSpend == Spec => []NoDoubleSpend
  <1>1. HistoryInv => NoDoubleSpend
    BY DEF HistoryInv, CountsFit, NoDoubleSpend
  <1> QED  BY <1>1, LedgerHistory, PTL

\* Unless a call failed, between two calls a transaction is pooled only if each
\* of its inputs was made more often than the transaction was confirmed.
THEOREM LedgerConfirmedLeavesPool == Spec => []ConfirmedLeavesPool
  <1>1. HistoryInv => ConfirmedLeavesPool
    BY DEF HistoryInv, PoolKeepsUp, ToBeEvicted, ConfirmedLeavesPool
  <1> QED  BY <1>1, LedgerHistory, PTL

-----------------------------------------------------------------------------
(***************************************************************************)
(* What a step does to the unspent outputs.                                *)
(***************************************************************************)
\* The last write applies the block.
LEMMA FlushApplies ==
  ASSUME ChainInv, WriteBatchTX
  PROVE  blk \in Block /\ AppliedAsAWhole(blk)
  <1>1. /\ blk \in Block /\ pc = "confirm" /\ pc' = "evict"
        /\ confirmed' = [confirmed EXCEPT ![blk] = @ + 1]
        /\ Unspent' = Unspent \cup UnspentIn(batch)
        /\ Creates(blk) \subseteq UnspentIn(batch)
        /\ failed \/ UnspentIn(batch) = Creates(blk)
        /\ UnspentIn(batch) \subseteq UNION {Creates(b) : b \in blockData}
    BY WriteBatchTXFacts
  <1>2. /\ ValidateBlock(blk, before)
        /\ Removed \subseteq before /\ Unspent = before \ Removed
    BY <1>1 DEF ChainInv, Accepted
  <1>3. Removed = Refers(blk)
    BY AllPassed
  <1>4. Utxo = before /\ Utxo' = (Utxo \ Refers(blk)) \cup UnspentIn(batch)
    BY <1>1, <1>2, <1>3 DEF Utxo
  <1>5. UnspentIn(batch) \ Creates(blk) \subseteq LeftInBatch
    BY <1>1 DEF LeftInBatch
  <1> QED  BY <1>1, <1>2, <1>3, <1>4, <1>5 DEF AppliedAsAWhole

\* A call that ends in the middle has taken away part of what it refers to.
LEMMA BrokenOff ==
  ASSUME ChainInv, confirmed' = confirmed, pc = "confirm", pc' = "idle", Utxo' = Unspent
  PROVE  LeftHalfway
  <1>1. Utxo = before /\ Unspent = before \ Removed
    BY DEF Utxo, ChainInv, Accepted
  <1>2. Removed \subseteq Refers(blk)
    BY DEF Removed, Refers, TxsOf, InputSet
  <1> QED  BY <1>1, <1>2 DEF LeftHalfway

\* Whatever fails and wherever the process dies, a valid block is applied to the
\* unspent outputs at once and as a whole, or a call left half way has taken away
\* some of what its block refers to: for all blocks, the first transaction of
\* which may refer to anything, and all that fails.
THEOREM LedgerAppliesAtOnce == Spec => AppliesAtOnce
  <1>1. ASSUME ChainInv, [Next]_vars
        PROVE  \/ Utxo' = Utxo /\ confirmed' = confirmed
               \/ LeftHalfway
               \/ \E b \in Block : AppliedAsAWhole(b)
    <2>1. CASE WriteBatchTX
      BY <1>1, <2>1, FlushApplies
    <2>2. CASE ~WriteBatchTX
      BY <1>1, <2>2, OtherSteps, BrokenOff
    <2> QED  BY <2>1, <2>2
  <1> QED  BY <1>1, LedgerHistory, PTL DEF Spec, AppliesAtOnce

\* The checks on a block are the same in the abstract specification.
LEMMA SameValidity ==
  ASSUME NEW b \in Block, NEW u
  PROVE  /\ ValidateBlock(b, u) <=> Atomic!ValidateBlock(b, u)
         /\ Refers(b) = Atomic!Refers(b)
         /\ Creates(b) = Atomic!Creates(b)
  <1>1. ASSUME NEW t
        PROVE  InputSet(t) = Atomic!InputSet(t)
    BY DEF InputSet, Atomic!InputSet
  <1>2. ASSUME NEW t, NEW n
        PROVE  RunningTotal(t, n) = Atomic!RunningTotal(t, n)
    BY DEF RunningTotal, SumFunctionOnSet, FoldFunctionOnSet, MapThenFoldSet, Atomic!RunningTotal,
           Atomic!SumFunctionOnSet, Atomic!FoldFunctionOnSet, Atomic!MapThenFoldSet
  <1>3. ASSUME NEW t
        PROVE  ValidateTransaction(t, u) <=> Atomic!ValidateTransaction(t, u)
    BY <1>1, <1>2 DEF ValidateTransaction, InputsDistinct, OutputsPass, ValueIsValid,
         Atomic!ValidateTransaction, Atomic!InputsDistinct, Atomic!OutputsPass,
         Atomic!ValueIsValid
  <1>4. Offending(Txs[b], u) = Atomic!Offending(Txs[b], u)
    BY <1>1, <1>3 DEF Offending, Atomic!Offending, Regular, Atomic!Regular
  <1>5. GetBlockFees(Txs[b], TRUE) = Atomic!GetBlockFees(Txs[b], TRUE)
    BY DEF GetBlockFees, GetFees, Regular, SumFunctionOnSet, FoldFunctionOnSet, MapThenFoldSet,
           Atomic!GetBlockFees, Atomic!GetFees, Atomic!Regular, Atomic!SumFunctionOnSet,
           Atomic!FoldFunctionOnSet, Atomic!MapThenFoldSet
  <1>6. ValidateCoinbase(Txs[b], OfferedAt) <=> Atomic!ValidateCoinbase(Txs[b], OfferedAt)
    BY <1>5 DEF ValidateCoinbase, BlockSubsidy, Atomic!ValidateCoinbase, Atomic!BlockSubsidy
  <1>7. Refers(b) = Atomic!Refers(b)
    BY <1>1 DEF Refers, Atomic!Refers, TxsOf, Atomic!TxsOf
  <1>8. Creates(b) = Atomic!Creates(b)
    BY DEF Creates, Atomic!Creates, TxsOf, Atomic!TxsOf, OutputsOf, Atomic!OutputsOf, NOut,
           Atomic!NOut
  <1> QED
    BY <1>4, <1>6, <1>7, <1>8 DEF ValidateBlock, Atomic!ValidateBlock

\* A behaviour in which no call is left half way, and none failed before, is one
\* of the abstract specification: a valid block is applied at once and as a whole.
\* Nothing is assumed of blocks or of what may fail; what is left to say of the
\* other behaviours LedgerAppliesAtOnce says.
THEOREM LedgerImplementsUtxoSet ==
  Spec /\ [][~LeftHalfway]_vars /\ []~failed => ImplementsUtxoSet
  <1>1. Init => Atomic!Init
    BY DEF Init, NoCall, Atomic!Init, Unspent, Utxo
  <1>2. ASSUME NEW b \in Block, AppliedAsAWhole(b), ~failed
        PROVE  Atomic!Apply(b)
    <2>1. ValidateBlock(b, Utxo) /\ Utxo' = (Utxo \ Refers(b)) \cup Creates(b)
      BY <1>2 DEF AppliedAsAWhole, LeftInBatch
    <2> QED  BY <2>1, SameValidity DEF Atomic!Apply
  <1>3. ASSUME [\/ Utxo' = Utxo /\ confirmed' = confirmed
                \/ LeftHalfway
                \/ \E b \in Block : AppliedAsAWhole(b)]_vars,
               [~LeftHalfway]_vars, ~failed
        PROVE  [Atomic!Next]_Utxo
    <2>1. vars' = vars => Utxo' = Utxo
      BY DEF vars, ledgerVars, Utxo, Unspent
    <2> QED  BY <1>2, <1>3, <2>1 DEF Atomic!Next
  <1> QED
    BY <1>1, <1>3, LedgerAppliesAtOnce, PTL
    DEF Spec, AppliesAtOnce, ImplementsUtxoSet, Atomic!Spec

=============================================================================
