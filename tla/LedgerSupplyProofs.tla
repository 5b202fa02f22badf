------------------------- MODULE LedgerSupplyProofs -------------------------
(***************************************************************************)
(* What the outputs in the chainstate are worth.  A valid block creates no *)
(* more than it spends and the subsidy: its fees are what its transactions *)
(* leave of their inputs, and its coinbase takes those fees once.  The     *)
(* chainstate only loses outputs until the last write of a call, which     *)
(* comes after all that the block spends is gone.                          *)
(***************************************************************************)
EXTENDS LedgerHistoryProofs

OutputTotal(t) == SumFunctionOnSet(OutValues[t], DOMAIN OutValues[t])

SupplyBound ==
  Value(UnspentIn(InitialCoins))
  + BlockSubsidy(OfferedAt) * SumFunctionOnSet(confirmed, Block)

SomeWraps == \E b \in Block : IsConfirmed(b) /\ Wraps(b)

\* The unspent outputs as they were before the block under way touched them
\* obey the bound.
UtxoIsWorth ==
  /\ IsFiniteSet(Utxo)
  /\ Utxo \subseteq EveryOutput
  /\ SomeWraps \/ Value(Utxo) <= SupplyBound

SupplyInv == failed \/ UtxoIsWorth

-----------------------------------------------------------------------------
\* An output that can be is worth what the transaction that makes it says,
\* whichever object of that TXID is asked.
LEMMA OutValueOf ==
  ASSUME NEW t \in Tx, NEW v \in 0 .. NOut(t) - 1
  PROVE  /\ OutValue(<<TxId[t], v>>) = OutValues[t][v + 1]
         /\ OutValue(<<TxId[t], v>>) \in 0 .. Uint64 - 1
  <1> DEFINE o == <<TxId[t], v>>
             s == CHOOSE s \in Tx : TxId[s] = o[1]
  <1>1. OutValues[t] \in Seq(0 .. Uint64 - 1) /\ NOut(t) \in Nat
    BY TransactionAssumption, TxTypes
  <1>2. v + 1 \in DOMAIN OutValues[t]
    BY <1>1 DEF NOut
  <1>3. OutValues[t][v + 1] \in 0 .. Uint64 - 1
    <2> DEFINE W == 0 .. Uint64 - 1
    <2>1. OutValues[t] \in Seq(W)
      BY <1>1
    <2> HIDE DEF W
    <2>2. OutValues[t][v + 1] \in W
      BY <1>2, <2>1
    <2> QED  BY <2>2 DEF W
  <1>4. CASE o \in DOMAIN InitialValue
    <2>1. o \in OutputsOf(t)
      BY DEF OutputsOf
    <2>2. InitialValue[o] = OutValues[t][v + 1]
      BY <1>4, <2>1, ValueAssumption
    <2> QED  BY <1>3, <1>4, <2>2 DEF OutValue
  <1>5. CASE o \notin DOMAIN InitialValue
    <2>1. s \in Tx /\ TxId[s] = TxId[t]
      OBVIOUS
    <2>2. OutValues[s] = OutValues[t]
      BY <2>1, TransactionAssumption
    <2> QED  BY <1>3, <1>5, <2>2 DEF OutValue
  <1> QED  BY <1>4, <1>5

\* Every output that can be has a value.
LEMMA OutValueType ==
  ASSUME NEW o \in EveryOutput
  PROVE  OutValue(o) \in Nat
  <1>1. CASE o \in UnspentIn(InitialCoins)
    BY <1>1, ValueAssumption DEF OutValue
  <1>2. CASE o \in UNION {OutputsOf(t) : t \in Tx}
    <2>1. PICK t \in Tx : o \in OutputsOf(t)
      BY <1>2
    <2>2. PICK v \in 0 .. NOut(t) - 1 : o = <<TxId[t], v>>
      BY <2>1 DEF OutputsOf
    <2>3. OutValue(o) \in 0 .. Uint64 - 1
      BY <2>2, OutValueOf
    <2> QED  BY <2>3, TransactionAssumption
  <1> QED  BY <1>1, <1>2 DEF EveryOutput

\* The value of a finite set of outputs.
LEMMA ValueType ==
  ASSUME NEW S \in SUBSET EveryOutput, IsFiniteSet(S)
  PROVE  Value(S) \in Nat
  BY OutValueType, SumType DEF Value

\* Fewer outputs are not worth more.
LEMMA ValueMonotone ==
  ASSUME NEW T \in SUBSET EveryOutput, IsFiniteSet(T), NEW S \in SUBSET T
  PROVE  Value(S) <= Value(T)
  <1> DEFINE f == [o \in S |-> OutValue(o)]
             g == [o \in T |-> OutValue(o)]
  <1>1. /\ \A o \in S : f[o] \in Nat /\ f[o] <= g[o]
        /\ \A o \in T : g[o] \in Nat
    BY OutValueType
  <1> HIDE DEF f, g
  <1>2. SumFunctionOnSet(f, S) <= SumFunctionOnSet(g, T)
    BY <1>1, SumMonotone
  <1> QED  BY <1>2 DEF Value, f, g

\* Two sets are worth no more than both, and as much if they are disjoint.
LEMMA ValueUnion ==
  ASSUME NEW S \in SUBSET EveryOutput, NEW T \in SUBSET EveryOutput,
         IsFiniteSet(S), IsFiniteSet(T)
  PROVE  /\ Value(S \cup T) <= Value(S) + Value(T)
         /\ S \cap T = {} => Value(S \cup T) = Value(S) + Value(T)
  <1> DEFINE f == [o \in S \cup T |-> OutValue(o)]
             g == [o \in S |-> OutValue(o)]
             h == [o \in T |-> OutValue(o)]
  <1>1. /\ \A o \in S \cup T : f[o] \in Nat
        /\ \A o \in S : g[o] \in Nat /\ g[o] = f[o]
        /\ \A o \in T : h[o] \in Nat /\ h[o] = f[o]
    BY OutValueType
  <1>2. /\ Value(S \cup T) = SumFunctionOnSet(f, S \cup T)
        /\ Value(S) = SumFunctionOnSet(g, S)
        /\ Value(T) = SumFunctionOnSet(h, T)
    BY DEF Value
  <1> HIDE DEF f, g, h
  <1>3. SumFunctionOnSet(g, S) = SumFunctionOnSet(f, S)
    BY <1>1, SumSameValues
  <1>4. SumFunctionOnSet(h, T) = SumFunctionOnSet(f, T)
    BY <1>1, SumSameValues
  <1> QED  BY <1>1, <1>2, <1>3, <1>4, SumUnion

\* The same for a family of sets, one for every place.
LEMMA ValueOfFamily ==
  ASSUME NEW P, IsFiniteSet(P), NEW F,
         \A i \in P : F[i] \subseteq EveryOutput /\ IsFiniteSet(F[i])
  PROVE  LET all == UNION {F[i] : i \in P}
             sum == SumFunctionOnSet([i \in P |-> Value(F[i])], P)
         IN  /\ IsFiniteSet(all) /\ all \subseteq EveryOutput
             /\ Value(all) <= sum
             /\ (\A i, j \in P : i # j => F[i] \cap F[j] = {}) => Value(all) = sum
  <1> DEFINE val == [i \in P |-> Value(F[i])]
             all(T) == UNION {F[i] : i \in T}
             Apart == \A i, j \in P : i # j => F[i] \cap F[j] = {}
             G == {T \in SUBSET P :
                     /\ IsFiniteSet(all(T)) /\ all(T) \subseteq EveryOutput
                     /\ Value(all(T)) <= SumFunctionOnSet(val, T)
                     /\ Apart => Value(all(T)) = SumFunctionOnSet(val, T)}
  <1>1. \A i \in P : val[i] \in Nat /\ val[i] = Value(F[i])
    BY ValueType
  <1>2. {} \in G
    <2>1. all({}) = {}
      OBVIOUS
    <2>2. Value({}) = 0
      BY SumEmpty DEF Value
    <2> QED  BY <2>1, <2>2, SumEmpty, FS_EmptySet
  <1>3. ASSUME NEW T \in G, T \subseteq P, NEW x \in P \ T
        PROVE  T \cup {x} \in G
    <2>1. all(T \cup {x}) = all(T) \cup F[x]
      OBVIOUS
    <2>2. /\ IsFiniteSet(all(T)) /\ all(T) \subseteq EveryOutput
          /\ Value(all(T)) <= SumFunctionOnSet(val, T)
          /\ Apart => Value(all(T)) = SumFunctionOnSet(val, T)
          /\ IsFiniteSet(F[x]) /\ F[x] \subseteq EveryOutput
      BY <1>3
    <2>3. Apart => all(T) \cap F[x] = {}
      BY <1>3
    <2>4. IsFiniteSet(T)
      BY <1>3, FS_Subset
    <2>5. val[x] = Value(F[x]) /\ \A y \in T \cup {x} : val[y] \in Nat
      BY <1>1, <1>3
    <2> HIDE DEF val, all, Apart
    <2>6. SumFunctionOnSet(val, T \cup {x}) = SumFunctionOnSet(val, T) + val[x]
      BY <1>3, <2>4, <2>5, SumAdd
    <2>7. /\ Value(all(T) \cup F[x]) <= Value(all(T)) + Value(F[x])
          /\ all(T) \cap F[x] = {} => Value(all(T) \cup F[x]) = Value(all(T)) + Value(F[x])
      BY <2>2, ValueUnion
    <2>8. IsFiniteSet(all(T) \cup F[x]) /\ all(T) \cup F[x] \subseteq EveryOutput
      BY <2>2, FS_Union
    <2>9. /\ Value(all(T)) \in Nat /\ Value(F[x]) \in Nat
          /\ Value(all(T) \cup F[x]) \in Nat /\ SumFunctionOnSet(val, T) \in Nat
      BY <2>2, <2>4, <2>5, <2>8, ValueType, SumType
    <2> DEFINE new == T \cup {x}
    <2>10. IsFiniteSet(all(new)) /\ all(new) \subseteq EveryOutput
      BY <2>1, <2>8
    <2>11. Value(all(new)) <= SumFunctionOnSet(val, new)
      BY <2>1, <2>2, <2>5, <2>6, <2>7, <2>9
    <2>12. Apart => Value(all(new)) = SumFunctionOnSet(val, new)
      BY <2>1, <2>2, <2>3, <2>5, <2>6, <2>7
    <2>13. new \in SUBSET P
      BY <1>3
    <2> HIDE DEF new
    <2>14. new \in G
      BY <2>10, <2>11, <2>12, <2>13
    <2> QED  BY <2>14 DEF new
  <1>4. P \in G
    <2> HIDE DEF G
    <2> QED  BY <1>2, <1>3, FiniteInduction
  <1> QED  BY <1>4

-----------------------------------------------------------------------------
\* The outputs of a transaction are worth what they add up to.
LEMMA ValueOfOutputs ==
  ASSUME NEW t \in Tx
  PROVE  /\ IsFiniteSet(OutputsOf(t)) /\ OutputsOf(t) \subseteq EveryOutput
         /\ OutputTotal(t) \in Nat
         /\ Value(OutputsOf(t)) = OutputTotal(t)
         /\ OutputTotal(t) < Uint64 => OutputValue[t] = OutputTotal(t)
  <1> DEFINE n == NOut(t)
             P == 1 .. n
             f == OutValues[t]
             g == [o \in OutputsOf(t) |-> OutValue(o)]
             h == [i \in P |-> <<TxId[t], i - 1>>]
  <1>1. f \in Seq(0 .. Uint64 - 1) /\ n \in Nat /\ DOMAIN f = P /\ Len(f) = n
    BY TransactionAssumption, TxTypes DEF NOut
  <1>2. \A i \in P : i - 1 \in 0 .. n - 1 /\ (i - 1) + 1 = i
    BY <1>1
  <1>3. \A i \in P : f[i] = OutValue(h[i]) /\ OutValue(h[i]) \in 0 .. Uint64 - 1
    BY <1>2, OutValueOf
  <1>4. \A i \in P : h[i] \in OutputsOf(t)
    BY <1>2 DEF OutputsOf
  <1>5. \A o \in OutputsOf(t) : \E i \in P : h[i] = o
    <2> SUFFICES ASSUME NEW v \in 0 .. n - 1
                 PROVE  \E i \in P : h[i] = <<TxId[t], v>>
      BY DEF OutputsOf
    <2>1. v + 1 \in P /\ (v + 1) - 1 = v
      BY <1>1
    <2> QED  BY <2>1
  <1>6. \A i, j \in P : h[i] = h[j] => i = j
    BY <1>1
  <1>7. h \in [P -> OutputsOf(t)]
    BY <1>4
  <1>8. IsFiniteSet(P)
    BY <1>1, FS_Interval
  <1>9. \A i \in P : g[h[i]] = f[i] /\ f[i] \in Nat
    BY <1>3, <1>4, TransactionAssumption
  <1>10. \A o \in OutputsOf(t) : g[o] \in Nat
    <2> HIDE DEF P, f, g, h
    <2> QED  BY <1>5, <1>9
  <1>11. Value(OutputsOf(t)) = SumFunctionOnSet(g, OutputsOf(t)) /\ OutputTotal(t) = SumFunctionOnSet(f, P)
    BY <1>1 DEF Value, OutputTotal
  <1>12. OutputValue[t] = SumFunctionOnSet(f, P) % Uint64
    BY <1>1, TransactionAssumption DEF RunningTotal
  <1>13. OutputsOf(t) \subseteq EveryOutput
    BY DEF EveryOutput
  <1> HIDE DEF n, P, f, g, h
  <1>14. h \in Bijection(P, OutputsOf(t))
    BY <1>5, <1>6, <1>7 DEF Bijection, Injection, Surjection, IsInjective
  <1>15. SumFunctionOnSet(f, P) = SumFunctionOnSet(g, OutputsOf(t))
    BY <1>8, <1>9, <1>10, <1>14, SumReindexed
  <1>16. IsFiniteSet(OutputsOf(t))
    BY <1>8, <1>14, FS_Bijection DEF ExistsBijection
  <1>17. SumFunctionOnSet(f, P) \in Nat
    BY <1>8, <1>9, SumType
  <1>18. OutputTotal(t) < Uint64 => OutputValue[t] = OutputTotal(t)
    <2>1. Uint64 \in Nat \ {0}
      BY TransactionAssumption
    <2>2. \A a \in Nat : a < Uint64 => a % Uint64 = a
      BY <2>1
    <2> QED  BY <1>11, <1>12, <1>17, <2>2
  <1> QED  BY <1>11, <1>13, <1>15, <1>16, <1>17, <1>18

\* The outputs that a block creates are worth no more than its transactions say
\* in total, if that total does not wrap in any of them.
LEMMA ValueOfCreates ==
  ASSUME NEW b \in Block, ~Wraps(b)
  PROVE  /\ IsFiniteSet(Creates(b)) /\ Creates(b) \subseteq EveryOutput
         /\ Value(Creates(b)) <=
              SumFunctionOnSet([i \in DOMAIN Txs[b] |-> OutputValue[Txs[b][i]]], DOMAIN Txs[b])
  <1> DEFINE P == DOMAIN Txs[b]
             F == [i \in P |-> OutputsOf(Txs[b][i])]
             val == [i \in P |-> Value(F[i])]
             ov == [i \in P |-> OutputValue[Txs[b][i]]]
  <1>1. IsFiniteSet(P) /\ \A i \in P : Txs[b][i] \in Tx
    <2>1. Len(Txs[b]) \in Int /\ 1 \in Int /\ P = 1 .. Len(Txs[b])
      BY BlockTypes
    <2>2. IsFiniteSet(P)
      BY <2>1, FS_Interval
    <2> QED  BY <2>2, BlockTypes
  <1>2. \A i \in P : F[i] \subseteq EveryOutput /\ IsFiniteSet(F[i])
    BY <1>1, ValueOfOutputs
  <1>3. \A i \in P : val[i] \in Nat /\ ov[i] = val[i]
    <2> TAKE i \in P
    <2>1. OutputTotal(Txs[b][i]) \in Nat /\ ~(OutputTotal(Txs[b][i]) >= Uint64)
      BY <1>1, ValueOfOutputs DEF Wraps, OutputTotal
    <2>2. OutputTotal(Txs[b][i]) < Uint64
      BY <2>1, TransactionAssumption
    <2> QED  BY <1>1, <2>1, <2>2, ValueOfOutputs
  <1>4. UNION {F[i] : i \in P} = Creates(b)
    BY DEF Creates, TxsOf
  <1> HIDE DEF P, F
  <1>5. /\ IsFiniteSet(Creates(b)) /\ Creates(b) \subseteq EveryOutput
        /\ Value(Creates(b)) <= SumFunctionOnSet(val, P)
    BY <1>1, <1>2, <1>4, ValueOfFamily
  <1> HIDE DEF val, ov
  <1>6. SumFunctionOnSet(val, P) = SumFunctionOnSet(ov, P)
    BY <1>1, <1>3, SumSameValues
  <1> QED  BY <1>5, <1>6 DEF P, ov

\* The fee of a valid transaction is what it leaves of its inputs, and those are
\* worth at least what it claims of them.
LEMMA ValidFee ==
  ASSUME NEW t \in Tx, NEW u \in SUBSET EveryOutput, IsFiniteSet(u), ValidateTransaction(t, u)
  PROVE  /\ GetFees(t) \in Nat
         /\ GetFees(t) + OutputValue[t] = InputValue[t]
         /\ IsFiniteSet(InputSet(t)) /\ InputSet(t) \subseteq EveryOutput
         /\ Value(InputSet(t)) \in Nat
         /\ InputValue[t] <= Value(InputSet(t))
  <1>1. /\ InputValue[t] \in Nat /\ InputValue[t] < Uint64
        /\ OutputValue[t] \in Nat /\ MinFee[t] \in Nat /\ Uint64 \in Nat \ {0}
    BY TransactionAssumption
  <1>2. /\ InputValue[t] >= OutputValue[t] + MinFee[t]
        /\ InputSet(t) \subseteq u /\ InputsDistinct(t) /\ Authentic[t]
    BY DEF ValidateTransaction
  <1>3. \A a \in Nat : a < Uint64 => a % Uint64 = a
    BY <1>1
  <1>4. InputValue[t] - OutputValue[t] \in Nat /\ InputValue[t] - OutputValue[t] < Uint64
    BY <1>1, <1>2
  <1>5. GetFees(t) = InputValue[t] - OutputValue[t]
    BY <1>3, <1>4 DEF GetFees
  <1>6. IsFiniteSet(InputSet(t)) /\ InputSet(t) \subseteq EveryOutput
    BY <1>2, FS_Subset
  <1>7. Value(InputSet(t)) \in Nat
    BY <1>6, ValueType
  <1>8. InputValue[t] = Value(InputSet(t)) % Uint64
    BY <1>2, <1>6, ValueAssumption
  <1>9. InputValue[t] <= Value(InputSet(t))
    BY <1>1, <1>7, <1>8, RemainderBound
  <1> QED  BY <1>1, <1>4, <1>5, <1>6, <1>7, <1>9

\* The subsidy is a number: shifted away in the end, never negative.
LEMMA SubsidyIsNat == BlockSubsidy(OfferedAt) \in Nat
  <1> DEFINE k == OfferedAt \div SubsidyHalvingInterval
             p == 2 ^ k
  <1>1. k \in Nat
    <2>1. OfferedAt \in Nat
      BY BlocksAssumption
    <2>2. SubsidyHalvingInterval \in Nat \ {0}
      BY BlockChecksAssumption
    <2> QED  BY <2>1, <2>2
  <1> HIDE DEF k
  <1>2. p \in Nat \ {0}
    BY <1>1, PowerOfTwo
  <1> HIDE DEF p
  <1>3. InitialBlockSubsidy \div p \in Nat
    <2>1. InitialBlockSubsidy < (InitialBlockSubsidy + 1) * p
      BY <1>2, BlockChecksAssumption
    <2> QED  BY <1>2, <2>1, BlockChecksAssumption, QuotientBound
  <1> QED  BY <1>3 DEF BlockSubsidy, p, k

\* ValidateBlock: a block creates no more than it spends and the subsidy.
LEMMA ValidBlockBalances ==
  ASSUME NEW b \in Block, NEW u \in SUBSET EveryOutput, IsFiniteSet(u),
         ValidateBlock(b, u), ~Wraps(b)
  PROVE  /\ Spends(b) \subseteq u
         /\ Value(Creates(b)) <= Value(Spends(b)) + BlockSubsidy(OfferedAt)
  <1> DEFINE R == Regular(Txs[b])
             D == DOMAIN Txs[b]
             fee == [i \in D |-> GetFees(Txs[b][i])]
             ov == [i \in D |-> OutputValue[Txs[b][i]]]
             iv == [i \in R |-> InputValue[Txs[b][i]]]
             F == [i \in R |-> InputSet(Txs[b][i])]
             val == [i \in R |-> Value(F[i])]
             both == [i \in R |-> fee[i] + ov[i]]
  <1>1. /\ \A i \in R : InputSet(Txs[b][i]) \subseteq u
        /\ \A i, j \in R : i # j => InputSet(Txs[b][i]) \cap InputSet(Txs[b][j]) = {}
        /\ Spends(b) \subseteq u
    BY ValidSpends
  <1>2. /\ D = R \cup {1} /\ 1 \notin R
        /\ \A i \in D : Txs[b][i] \in Tx
    BY Places, BlockTypes
  <1>3. IsFiniteSet(D) /\ IsFiniteSet(R)
    <2>1. IsFiniteSet(D)
      BY BlockTypes, FS_Interval
    <2> QED  BY <1>2, <2>1, FS_Subset
  <1>4. \A i \in R : ValidateTransaction(Txs[b][i], u)
    BY DEF ValidateBlock, Offending
  <1>5. \A i \in R : /\ fee[i] \in Nat
                     /\ fee[i] + ov[i] = iv[i]
                     /\ F[i] \subseteq EveryOutput /\ IsFiniteSet(F[i])
                     /\ val[i] \in Nat
                     /\ iv[i] <= val[i]
    BY <1>2, <1>4, ValidFee
  <1>6. \A i \in D : ov[i] \in Nat
    BY <1>2, TransactionAssumption
  <1>7. UNION {F[i] : i \in R} = Spends(b)
    BY DEF Spends
  <1>8. \A i, j \in R : i # j => F[i] \cap F[j] = {}
    BY <1>1
  <1>9. ov[1] <= (BlockSubsidy(OfferedAt) + (SumFunctionOnSet(fee, R) % Uint64)) % Uint64
    <2>1. OutputValue[Txs[b][1]] <= (BlockSubsidy(OfferedAt) + GetBlockFees(Txs[b], TRUE)) % Uint64
      BY DEF ValidateBlock, ValidateCoinbase
    <2>2. GetBlockFees(Txs[b], TRUE) = SumFunctionOnSet(fee, R) % Uint64
      BY DEF GetBlockFees
    <2>3. ov[1] = OutputValue[Txs[b][1]]
      BY <1>2
    <2> QED  BY <2>1, <2>2, <2>3
  <1>10. Value(Creates(b)) <= SumFunctionOnSet(ov, D) /\ Value(Creates(b)) \in Nat
    BY ValueOfCreates, ValueType
  <1> HIDE DEF R, D, fee, ov, F
  <1>11. Value(Spends(b)) = SumFunctionOnSet(val, R)
    BY <1>3, <1>5, <1>7, <1>8, ValueOfFamily
  <1>12. \A i \in R : both[i] = iv[i] /\ both[i] \in Nat /\ ov[i] \in Nat
    BY <1>2, <1>5, <1>6
  <1>13. SumFunctionOnSet(both, R) = SumFunctionOnSet(fee, R) + SumFunctionOnSet(ov, R)
    BY <1>3, <1>5, <1>12, SumPlus
  <1> HIDE DEF iv, val, both
  <1>14. SumFunctionOnSet(both, R) <= SumFunctionOnSet(val, R)
    BY <1>3, <1>5, <1>12, SumMonotone
  <1>15. SumFunctionOnSet(ov, D) = SumFunctionOnSet(ov, R) + ov[1]
    BY <1>2, <1>3, <1>6, SumAdd
  <1> DEFINE fees == SumFunctionOnSet(fee, R)
             outs == SumFunctionOnSet(ov, R)
             spent == SumFunctionOnSet(val, R)
             sub == BlockSubsidy(OfferedAt)
  <1>16. /\ fees \in Nat /\ outs \in Nat /\ spent \in Nat /\ sub \in Nat /\ ov[1] \in Nat
         /\ SumFunctionOnSet(ov, D) \in Nat
    BY <1>2, <1>3, <1>5, <1>6, <1>12, SumType, SubsidyIsNat
  <1>17. ov[1] <= sub + fees
    <2> DEFINE low == fees % Uint64
               cap == (sub + low) % Uint64
    <2>1. low \in Nat /\ low <= fees
      BY <1>16, RemainderBound, TransactionAssumption
    <2>2. cap \in Nat /\ cap <= sub + low
      <3>1. sub + low \in Nat
        BY <1>16, <2>1
      <3> HIDE DEF low, sub
      <3> QED  BY <3>1, RemainderBound, TransactionAssumption
    <2>3. ov[1] <= cap
      BY <1>9
    <2> HIDE DEF low, cap, fees, sub
    <2> QED  BY <1>16, <2>1, <2>2, <2>3
  <1>18. fees + outs <= spent
    BY <1>13, <1>14
  <1>19. Value(Creates(b)) <= outs + ov[1]
    BY <1>10, <1>15
  <1>20. Value(Creates(b)) <= spent + sub
    <2> HIDE DEF fees, outs, spent, sub
    <2> QED  BY <1>10, <1>16, <1>17, <1>18, <1>19
  <1> QED  BY <1>1, <1>11, <1>20

-----------------------------------------------------------------------------
\* The confirmations so far, added up.
LEMMA ConfirmationsType ==
  ASSUME ChainInv
  PROVE  /\ confirmed \in [Block -> Nat]
         /\ SumFunctionOnSet(confirmed, Block) \in Nat
         /\ SupplyBound \in Nat
  <1>1. confirmed \in [Block -> Nat]
    BY DEF ChainInv, ChainTypeOK
  <1>2. SumFunctionOnSet(confirmed, Block) \in Nat
    BY <1>1, ValueAssumption, SumType
  <1>3. Value(UnspentIn(InitialCoins)) \in Nat
    BY ValueAssumption, ValueType DEF EveryOutput
  <1> QED  BY <1>1, <1>2, <1>3, SubsidyIsNat DEF SupplyBound

\* One confirmation more raises the bound by a subsidy.
LEMMA BoundRises ==
  ASSUME ChainInv, WriteBatchTX
  PROVE  SupplyBound' = SupplyBound + BlockSubsidy(OfferedAt)
  <1> DEFINE rest == Block \ {blk}
             old == SumFunctionOnSet(confirmed, rest)
             new == SumFunctionOnSet(confirmed', rest)
             sub == BlockSubsidy(OfferedAt)
             init == Value(UnspentIn(InitialCoins))
  <1>1. blk \in Block /\ confirmed' = [confirmed EXCEPT ![blk] = @ + 1]
    BY WriteBatchTXFacts
  <1>2. confirmed \in [Block -> Nat]
    BY ConfirmationsType
  <1>3. /\ \A b \in Block : confirmed[b] \in Nat /\ confirmed'[b] \in Nat
        /\ \A b \in rest : confirmed'[b] = confirmed[b]
        /\ confirmed'[blk] = confirmed[blk] + 1
    BY <1>1, <1>2
  <1>4. IsFiniteSet(rest)
    BY ValueAssumption, FS_Subset
  <1>5. rest \cup {blk} = Block /\ blk \notin rest
    BY <1>1
  <1> HIDE DEF rest
  <1>6. /\ SumFunctionOnSet(confirmed, Block) = old + confirmed[blk]
        /\ SumFunctionOnSet(confirmed', Block) = new + confirmed'[blk]
    BY <1>3, <1>4, <1>5, SumAdd
  <1>7. \A b \in rest : confirmed[b] \in Nat /\ confirmed[b] = confirmed'[b]
    BY <1>3, <1>5
  <1>8. old = new /\ old \in Nat
    BY <1>4, <1>7, SumSameValues, SumType
  <1>9. SumFunctionOnSet(confirmed', Block) = SumFunctionOnSet(confirmed, Block) + 1
    BY <1>1, <1>3, <1>6, <1>8
  <1>10. sub \in Nat /\ SumFunctionOnSet(confirmed, Block) \in Nat /\ init \in Nat
    BY ConfirmationsType, SubsidyIsNat, ValueAssumption, ValueType DEF EveryOutput
  <1>11. SupplyBound' = init + sub * SumFunctionOnSet(confirmed', Block)
    BY DEF SupplyBound
  <1>12. SupplyBound = init + sub * SumFunctionOnSet(confirmed, Block)
    BY DEF SupplyBound
  <1> HIDE DEF sub, init
  <1>13. SupplyBound' = SupplyBound + sub
    BY <1>9, <1>10, <1>11, <1>12
  <1> QED  BY <1>13 DEF sub

\* The chainstate holds part of what is worth as much as the bound allows.
LEMMA SupplyInvImplies ==
  ASSUME ChainInv, SupplyInv
  PROVE  SupplyBounded
  <1>1. CASE UtxoIsWorth /\ ~SomeWraps
    <2>1. Unspent \subseteq Utxo
      BY DEF ChainInv, Accepted, Utxo
    <2>2. Utxo \in SUBSET EveryOutput /\ IsFiniteSet(Utxo) /\ Value(Utxo) <= SupplyBound
      BY <1>1 DEF UtxoIsWorth
    <2>3. Value(Unspent) <= Value(Utxo)
      BY <2>1, <2>2, ValueMonotone
    <2>4. Value(Unspent) \in Nat /\ Value(Utxo) \in Nat /\ SupplyBound \in Nat
      BY <2>1, <2>2, ValueType, ConfirmationsType, FS_Subset
    <2>5. Value(Unspent) <= SupplyBound
      BY <2>2, <2>3, <2>4
    <2> QED  BY <2>5 DEF SupplyBounded, SupplyBound
  <1> QED  BY <1>1 DEF SupplyInv, UtxoIsWorth, SomeWraps, IsConfirmed, SupplyBounded

\* At first the chainstate is worth what it is worth at first.
LEMMA InitSupply == Init => SupplyInv
  <1> SUFFICES ASSUME Init  PROVE SupplyInv
    OBVIOUS
  <1>1. Utxo = UnspentIn(InitialCoins)
    BY DEF Init, NoCall, Utxo, Unspent
  <1>2. SupplyBound >= Value(UnspentIn(InitialCoins))
    <2> DEFINE sum == SumFunctionOnSet(confirmed, Block)
               sub == BlockSubsidy(OfferedAt)
               init == Value(UnspentIn(InitialCoins))
    <2>1. sum \in Nat /\ sub \in Nat /\ init \in Nat
      BY InitChain, ConfirmationsType, SubsidyIsNat, ValueAssumption, ValueType DEF EveryOutput
    <2>2. SupplyBound = init + sub * sum
      BY DEF SupplyBound
    <2> HIDE DEF sum, sub, init
    <2>3. sub * sum \in Nat
      BY <2>1
    <2>4. SupplyBound >= init
      BY <2>1, <2>2, <2>3
    <2> QED  BY <2>4 DEF init
  <1>3. Value(UnspentIn(InitialCoins)) \in Nat /\ SupplyBound \in Nat
    BY InitChain, ConfirmationsType, ValueAssumption, ValueType DEF EveryOutput
  <1> QED  BY <1>1, <1>2, <1>3, ValueAssumption DEF SupplyInv, UtxoIsWorth, EveryOutput

\* The last write: all the block spends is gone, and what it creates appears.
LEMMA WriteBatchTXSupply ==
  ASSUME ChainInv, UtxoIsWorth, WriteBatchTX, ~failed
  PROVE  UtxoIsWorth'
  <1>1. /\ blk \in Block /\ pc = "confirm" /\ pc' = "evict"
        /\ confirmed' = [confirmed EXCEPT ![blk] = @ + 1]
        /\ Unspent' = Unspent \cup Creates(blk)
        /\ Removed \subseteq before /\ Unspent = before \ Removed
        /\ ValidateBlock(blk, before)
    BY WriteBatchTXFacts DEF ChainInv, Accepted
  <1>2. Utxo = before /\ Utxo' = Unspent'
    BY <1>1 DEF Utxo
  <1>3. IsFiniteSet(before) /\ before \in SUBSET EveryOutput
    BY <1>2 DEF UtxoIsWorth
  <1>4. Spends(blk) \subseteq Removed
    <2>1. \A i \in Regular(Txs[blk]) : Txs[blk][i] \in TxsOf(blk)
      BY <1>1, Places DEF TxsOf
    <2> QED  BY <2>1, InputsAreRemoved DEF Spends
  <1>5. IsFiniteSet(Creates(blk)) /\ Creates(blk) \in SUBSET EveryOutput
    <2> DEFINE P == DOMAIN Txs[blk]
               F == [i \in P |-> OutputsOf(Txs[blk][i])]
    <2>1. \A i \in P : F[i] \subseteq EveryOutput /\ IsFiniteSet(F[i])
      BY <1>1, BlockTypes, ValueOfOutputs
    <2>2. IsFiniteSet(P)
      <3>1. Len(Txs[blk]) \in Int /\ 1 \in Int /\ P = 1 .. Len(Txs[blk])
        BY <1>1, BlockTypes
      <3> QED  BY <3>1, FS_Interval
    <2>3. UNION {F[i] : i \in P} = Creates(blk)
      BY DEF Creates, TxsOf
    <2> HIDE DEF P, F
    <2>4. IsFiniteSet(UNION {F[i] : i \in P}) /\ UNION {F[i] : i \in P} \subseteq EveryOutput
      BY <2>1, <2>2, ValueOfFamily
    <2> QED  BY <2>3, <2>4
  <1>6. IsFiniteSet(Unspent') /\ Unspent' \subseteq EveryOutput
    <2>1. IsFiniteSet(Unspent)
      BY <1>1, <1>3, FS_Subset
    <2> QED  BY <1>1, <1>3, <1>5, <2>1, FS_Union
  <1>7. confirmed'[blk] > 0 /\ \A b \in Block : confirmed[b] > 0 => confirmed'[b] > 0
    <2>1. confirmed \in [Block -> Nat]
      BY ConfirmationsType
    <2>2. confirmed'[blk] = confirmed[blk] + 1 /\ \A b \in Block \ {blk} : confirmed'[b] = confirmed[b]
      BY <1>1, <2>1
    <2> QED  BY <1>1, <2>1, <2>2
  <1>8. ASSUME ~SomeWraps'
        PROVE  Value(Unspent') <= SupplyBound'
    <2> DEFINE sub == BlockSubsidy(OfferedAt)
               left == before \ Spends(blk)
    <2>1. ~Wraps(blk) /\ ~SomeWraps
      BY <1>1, <1>7, <1>8 DEF SomeWraps, IsConfirmed
    <2>2. Value(before) <= SupplyBound
      BY <1>2, <2>1 DEF UtxoIsWorth
    <2>3. Spends(blk) \subseteq before /\ Value(Creates(blk)) <= Value(Spends(blk)) + sub
      BY <1>1, <1>3, <2>1, ValidBlockBalances
    <2>4. /\ IsFiniteSet(left) /\ left \in SUBSET EveryOutput
          /\ IsFiniteSet(Spends(blk)) /\ Spends(blk) \in SUBSET EveryOutput
          /\ left \cap Spends(blk) = {} /\ left \cup Spends(blk) = before
      BY <1>3, <2>3, FS_Subset
    <2> HIDE DEF left
    <2>5. Value(before) = Value(left) + Value(Spends(blk))
      BY <2>4, ValueUnion
    <2>6. Unspent' \subseteq left \cup Creates(blk)
      BY <1>1, <1>4 DEF left
    <2>7. IsFiniteSet(left \cup Creates(blk)) /\ left \cup Creates(blk) \in SUBSET EveryOutput
      BY <1>5, <2>4, FS_Union
    <2>8. Value(Unspent') <= Value(left \cup Creates(blk))
      BY <2>6, <2>7, ValueMonotone
    <2>9. Value(left \cup Creates(blk)) <= Value(left) + Value(Creates(blk))
      BY <1>5, <2>4, ValueUnion
    <2>10. SupplyBound' = SupplyBound + sub
      BY BoundRises
    <2>11. /\ Value(left) \in Nat /\ Value(Creates(blk)) \in Nat /\ Value(Spends(blk)) \in Nat
           /\ Value(left \cup Creates(blk)) \in Nat /\ Value(Unspent') \in Nat
           /\ SupplyBound \in Nat /\ sub \in Nat
      BY <1>5, <1>6, <2>4, <2>7, ValueType, ConfirmationsType, SubsidyIsNat
    <2> HIDE DEF sub
    <2> QED  BY <2>2, <2>3, <2>5, <2>8, <2>9, <2>10, <2>11
  <1> QED  BY <1>2, <1>6, <1>8 DEF UtxoIsWorth

\* The other steps create nothing and confirm nothing.
LEMMA NextSupply ==
  ASSUME ChainInv, SupplyInv, [Next]_vars
  PROVE  SupplyInv'
  <1>1. failed => failed'
    BY OtherSteps, WriteBatchTXFacts
  <1>2. CASE WriteBatchTX /\ ~failed
    BY <1>2, WriteBatchTXSupply DEF SupplyInv
  <1>3. CASE ~WriteBatchTX /\ ~failed
    <2>1. UtxoIsWorth /\ confirmed' = confirmed /\ Utxo' \subseteq Utxo
      BY <1>3, OtherSteps DEF SupplyInv
    <2>2. Utxo \in SUBSET EveryOutput /\ IsFiniteSet(Utxo)
      BY <2>1 DEF UtxoIsWorth
    <2>3. (SomeWraps' <=> SomeWraps) /\ SupplyBound' = SupplyBound
      BY <2>1 DEF SomeWraps, IsConfirmed, SupplyBound
    <2>4. Value(Utxo') <= Value(Utxo)
      BY <2>1, <2>2, ValueMonotone
    <2>5. IsFiniteSet(Utxo') /\ Utxo' \in SUBSET EveryOutput
      BY <2>1, <2>2, FS_Subset
    <2>6. Value(Utxo') \in Nat /\ Value(Utxo) \in Nat /\ SupplyBound \in Nat
      BY <2>2, <2>5, ValueType, ConfirmationsType
    <2>7. Value(Utxo) <= SupplyBound => Value(Utxo') <= SupplyBound'
      BY <2>3, <2>4, <2>6
    <2> QED  BY <2>1, <2>3, <2>5, <2>7 DEF SupplyInv, UtxoIsWorth
  <1> QED  BY <1>1, <1>2, <1>3 DEF SupplyInv

\* The value in the chainstate exceeds what was there at first by no more than
\* the subsidies of the blocks confirmed (SupplyBounded), however often a block
\* is offered, wherever the process dies and whatever is in the blocks.
THEOREM LedgerSupplyBounded == Spec => []SupplyBounded
  <1>1. Init => ChainInv /\ SupplyInv
    BY InitChain, InitSupply
  <1>2. ChainInv /\ SupplyInv /\ [Next]_vars => (ChainInv /\ SupplyInv)'
    BY NextChain, NextSupply
  <1>3. ChainInv /\ SupplyInv => SupplyBounded
    BY SupplyInvImplies
  <1> QED  BY <1>1, <1>2, <1>3, PTL DEF Spec

=============================================================================
