---------------------------- MODULE MiningProofs ----------------------------
(***************************************************************************)
(* What MineBlock keeps, for all transactions, parameters and hashes,      *)
(* however often it is called on one block.                                *)
(*                                                                         *)
(* The invariant says what a block looks like after one call and after     *)
(* two (BlockInHand), and what the loop has tried so far (Loop).           *)
(*                                                                         *)
(* The second half is about retargets: what ApplyCoeffToTarget rounds, in  *)
(* which of its forms, and that no header ever has a target from which the *)
(* comparison with MaxDifficulty would mislead (Sane).                     *)
(***************************************************************************)
EXTENDS Mining, SumsProofs

\* The transactions that come after the one MineBlock did not look at.
RestPasses ==
  \A i \in 3 .. Len(txs) :
    /\ ValidateTransaction(txs[i], Unspent)
    /\ \A j \in 3 .. i - 1 : InputSet(txs[j]) \cap InputSet(txs[i]) = {}

\* After a call that began to mine: a coinbase stands first, in front of a list
\* that passed.  After two, another coinbase stands behind it.
Begun ==
  /\ calls \in {1, 2}
  /\ Len(txs) >= 1
  /\ IsMined(txs[1])
  /\ OutputValue[txs[1]] = (BlockSubsidy(height + 1) + GetBlockFees(txs, TRUE)) % Uint64
  /\ RestPasses
  /\ calls = 2 => Len(txs) >= 2 /\ IsMined(txs[2])

BlockInHand ==
  /\ pc \in {"idle", "new"} => calls = 0
  /\ pc \notin {"idle", "dead"} => height < MaxHeight /\ header.bits = GetTargetForBlock
  /\ pc \in {"mining", "mined", "stale"} => Begun

\* The headers before the one the loop is at, in the order it tries them.
Passed ==
  {a \in (0 .. MaxTimeBumps) \X Nonce :
     /\ a[1] > 0 \/ a[2] >= firstNonce
     /\ a[1] < header.timestamp \/ (a[1] = header.timestamp /\ a[2] < header.nonce)}

Loop ==
  /\ pc = "mining" =>
       /\ timeBumps = header.timestamp
       /\ header.timestamp = 0 => header.nonce >= firstNonce
       /\ tried = Passed
  /\ StaleMeansExhausted

OwnStampsAreShort == ownStamp => lastHeader.timestamp <= MaxTimeBumps

IInv == TypeOK /\ BlockInHand /\ Loop /\ OwnStampsAreShort

-----------------------------------------------------------------------------
\* The numbers of values of some bytes.
LEMMA ByteNumbers ==
  /\ Byte \in Nat /\ Byte >= 4
  /\ ThreeBytes \in Nat /\ ThreeBytes > 0
  /\ ThreeBytes = Byte * (Byte * Byte)
  /\ FourBytes = Byte * ThreeBytes
  /\ Byte * Byte \in Nat \ {0}
  BY TargetAssumption DEF ThreeBytes, FourBytes

\* "limiting coefficient": a retarget changes the target by four at most.
LEMMA LimitedType ==
  ASSUME NEW num \in Int, NEW den \in Nat \ {0}
  PROVE  \E c1 \in Nat, c2 \in Nat \ {0} :
           Limited(num, den) = <<c1, c2>> /\ c1 <= 4 * c2 /\ c2 <= 4 * c1
  <1>1. CASE num > 4 * den
    BY <1>1 DEF Limited
  <1>2. CASE 4 * num < den
    BY <1>2 DEF Limited
  <1>3. CASE ~(num > 4 * den) /\ ~(4 * num < den)
    <2>1. Limited(num, den) = <<num, den>>
      BY <1>3 DEF Limited
    <2>2. num \in Nat /\ num <= 4 * den /\ den <= 4 * num
      BY <1>3
    <2> QED  BY <2>1, <2>2
  <1> QED  BY <1>1, <1>2, <1>3

\* ApplyCoeffToTarget makes a compact target out of one: the mantissa fits into
\* three bytes again, whatever became of it.
LEMMA TargetType ==
  ASSUME NEW num \in Int, NEW den \in Nat \ {0}, NEW prev \in Bits
  PROVE  ApplyCoeffToTarget(num, den, prev) \in Bits
  <1>1. PICK c1 \in Nat, c2 \in Nat \ {0} :
          Limited(num, den) = <<c1, c2>> /\ c1 <= 4 * c2
    BY LimitedType
  <1> DEFINE mant == prev.mant
             most == Byte * (Byte * ThreeBytes) - 1
             new == Scaled(Limited(num, den), prev.mant)
  <1>2. mant \in 0 .. ThreeBytes - 1 /\ prev.exp \in 0 .. Byte - 1
    BY DEF Bits
  <1>3. new = (mant * Byte * c1) \div c2
    BY <1>1 DEF Scaled
  <1>4. new \in 0 .. mant * Byte * 4
    <2>1. mant * Byte \in Nat
      BY <1>2, ByteNumbers
    <2> DEFINE m == mant * Byte
    <2> HIDE DEF m, mant
    <2>2. m \in Nat
      BY <2>1 DEF m
    <2>3. m * c1 \in Nat /\ m * 4 \in Nat
      BY <2>2
    <2>4. m * c1 <= m * (4 * c2)
      BY <1>1, <2>2
    <2>5. m * (4 * c2) = (m * 4) * c2
      BY <2>2
    <2>6. m * c1 <= (m * 4) * c2
      BY <2>4, <2>5
    <2>7. m * c1 < (m * 4 + 1) * c2
      <3>1. (m * 4 + 1) * c2 = (m * 4) * c2 + c2
        BY <2>2
      <3> QED  BY <2>3, <2>6, <3>1
    <2>8. (m * c1) \div c2 \in 0 .. m * 4
      BY <2>3, <2>7, QuotientBound
    <2> QED  BY <1>3, <2>8 DEF m
  <1> HIDE DEF new
  <1>5. mant * Byte * 4 <= most
    <2>1. mant * Byte \in Nat /\ mant * Byte <= (ThreeBytes - 1) * Byte
      BY <1>2, ByteNumbers
    <2>2. mant * Byte * 4 <= (ThreeBytes - 1) * Byte * 4
      BY <2>1, ByteNumbers
    <2>3. (ThreeBytes - 1) * Byte \in Nat
      BY ByteNumbers
    <2>4. (ThreeBytes - 1) * Byte * 4 <= (ThreeBytes - 1) * Byte * Byte
      BY <2>3, ByteNumbers
    <2>5. (ThreeBytes - 1) * Byte * Byte = Byte * (Byte * ThreeBytes) - Byte * Byte
      BY ByteNumbers
    <2> QED  BY <2>1, <2>2, <2>3, <2>4, <2>5, ByteNumbers
  <1>6. new \in Nat /\ new <= most
    BY <1>2, <1>4, <1>5, ByteNumbers
  <1> DEFINE res == IF new >= FourBytes
                    THEN [exp |-> (prev.exp + 1) % Byte, mant |-> new \div (Byte * Byte)]
                    ELSE IF new % Byte = 0 \/ new >= ThreeBytes \/ prev.exp = 0
                    THEN [exp |-> prev.exp, mant |-> new \div Byte]
                    ELSE [exp |-> prev.exp - 1, mant |-> new]
  <1>7. res \in Bits
    <2>1. CASE new >= FourBytes
      <3>1. (prev.exp + 1) % Byte \in 0 .. Byte - 1
        BY <1>2, ByteNumbers
      <3>2. new \div (Byte * Byte) \in 0 .. ThreeBytes - 1
        <4> DEFINE sq == Byte * Byte
        <4>1. sq \in Nat \ {0} /\ most = ThreeBytes * sq - 1
          BY ByteNumbers
        <4> HIDE DEF sq, most
        <4>2. new \in Int /\ new < ThreeBytes * sq
          BY <1>6, <4>1, ByteNumbers
        <4>3. new \div sq \in 0 .. ThreeBytes - 1
          <5>1. ThreeBytes - 1 \in Nat /\ new < ((ThreeBytes - 1) + 1) * sq
            BY <4>2, ByteNumbers
          <5> QED  BY <1>6, <4>1, <5>1, QuotientBound
        <4> QED  BY <4>3 DEF sq
      <3> QED  BY <2>1, <3>1, <3>2 DEF Bits
    <2>2. CASE ~(new >= FourBytes) /\ (new % Byte = 0 \/ new >= ThreeBytes \/ prev.exp = 0)
      <3>1. new <= ThreeBytes * Byte - 1
        BY <1>6, <2>2, ByteNumbers
      <3>2. new \div Byte \in 0 .. ThreeBytes - 1
        BY <1>6, <3>1, ByteNumbers
      <3> QED  BY <1>2, <2>2, <3>2 DEF Bits
    <2>3. CASE ~(new >= FourBytes) /\ ~(new % Byte = 0 \/ new >= ThreeBytes \/ prev.exp = 0)
      <3>1. new \in 0 .. ThreeBytes - 1 /\ prev.exp - 1 \in 0 .. Byte - 1
        BY <1>2, <1>6, <2>3, ByteNumbers
      <3> QED  BY <2>3, <3>1 DEF Bits
    <2> QED  BY <2>1, <2>2, <2>3
  <1> HIDE DEF res
  <1>8. Capped(res) \in Bits
    BY <1>7, TargetAssumption DEF Capped
  <1> QED  BY <1>8 DEF ApplyCoeffToTarget, res, new

-----------------------------------------------------------------------------
\* The subsidy is a number: shifted away in the end, never negative.
LEMMA SubsidyType ==
  ASSUME NEW h \in Nat
  PROVE  BlockSubsidy(h) \in Nat
  <1> DEFINE k == h \div SubsidyHalvingInterval
             p == 2 ^ k
  <1>1. k \in Nat
    BY BlockChecksAssumption
  <1> HIDE DEF k
  <1>2. p \in Nat \ {0}
    BY <1>1, PowerOfTwo
  <1> HIDE DEF p
  <1>3. InitialBlockSubsidy \div p \in Nat
    <2>1. InitialBlockSubsidy < (InitialBlockSubsidy + 1) * p
      BY <1>2, BlockChecksAssumption
    <2> QED  BY <1>2, <2>1, BlockChecksAssumption, QuotientBound
  <1> QED  BY <1>3 DEF BlockSubsidy, p, k

\* GetFees is a uint64.
LEMMA FeeType ==
  ASSUME NEW t \in Tx
  PROVE  GetFees(t) \in 0 .. Uint64 - 1
  <1>1. InputValue[t] \in Int /\ OutputValue[t] \in Int /\ Uint64 \in Nat \ {0}
    BY TransactionAssumption
  <1> QED  BY <1>1 DEF GetFees

\* The fees of a block, with the coinbase left out, are those of the list it was
\* put in front of.
LEMMA FeesOfPrepended ==
  ASSUME NEW l \in Seq(Tx), NEW c \in Tx
  PROVE  /\ GetBlockFees(<<c>> \o l, TRUE) = GetBlockFees(l, FALSE)
         /\ GetBlockFees(l, FALSE) \in 0 .. Uint64 - 1
  <1> DEFINE n == Len(l)
             new == <<c>> \o l
             f == [i \in DOMAIN l |-> GetFees(l[i])]
             g == [i \in DOMAIN new |-> GetFees(new[i])]
             h == [i \in 1 .. n |-> i + 1]
  <1>1. n \in Nat /\ DOMAIN l = 1 .. n /\ \A i \in 1 .. n : l[i] \in Tx
    OBVIOUS
  <1>2. new \in Seq(Tx) /\ Len(new) = n + 1 /\ DOMAIN new = 1 .. n + 1
    OBVIOUS
  <1>3. \A i \in 1 .. n : new[i + 1] = l[i]
    OBVIOUS
  <1> HIDE DEF n, new
  <1>4. h \in Bijection(1 .. n, 2 .. n + 1)
    <2>1. \A y \in 2 .. n + 1 : y - 1 \in 1 .. n /\ h[y - 1] = y
      BY <1>1
    <2>2. h \in [1 .. n -> 2 .. n + 1]
      BY <1>1
    <2>3. \A x, y \in 1 .. n : h[x] = h[y] => x = y
      BY <1>1
    <2> HIDE DEF h
    <2> QED  BY <2>1, <2>2, <2>3 DEF Bijection, Injection, Surjection, IsInjective
  <1>5. /\ \A i \in 1 .. n : f[i] \in Nat /\ f[i] = g[h[i]]
        /\ \A i \in 2 .. n + 1 : g[i] \in Nat
    <2>1. \A i \in 1 .. n : f[i] = GetFees(l[i]) /\ g[i + 1] = GetFees(l[i])
      BY <1>1, <1>2, <1>3
    <2>2. \A i \in 1 .. n : GetFees(l[i]) \in Nat
      <3>1. Uint64 \in Nat
        BY TransactionAssumption
      <3>2. ASSUME NEW i \in 1 .. n
            PROVE  GetFees(l[i]) \in 0 .. Uint64 - 1
        BY <1>1, FeeType
      <3> QED  BY <3>1, <3>2
    <2>3. \A i \in 2 .. n + 1 : i - 1 \in 1 .. n /\ (i - 1) + 1 = i
      BY <1>1
    <2> HIDE DEF f, g
    <2>4. \A i \in 2 .. n + 1 : g[i] \in Nat
      BY <2>1, <2>2, <2>3
    <2> QED  BY <2>1, <2>2, <2>4
  <1>6. IsFiniteSet(1 .. n)
    BY <1>1, FS_Interval
  <1> HIDE DEF f, g, h
  <1>7. SumFunctionOnSet(f, 1 .. n) = SumFunctionOnSet(g, 2 .. n + 1)
    <2>1. /\ \A i \in 1 .. n : f[i] = g[h[i]]
          /\ \A i \in 2 .. n + 1 : g[i] \in Nat
      BY <1>5
    <2> DEFINE S == 1 .. n
               T == 2 .. n + 1
    <2>2. /\ IsFiniteSet(S) /\ h \in Bijection(S, T)
          /\ \A x \in S : f[x] = g[h[x]]
          /\ \A y \in T : g[y] \in Nat
      BY <1>4, <1>6, <2>1
    <2> HIDE DEF S, T
    <2>3. SumFunctionOnSet(f, S) = SumFunctionOnSet(g, T)
      BY <2>2, SumReindexed
    <2> QED  BY <2>3 DEF S, T
  <1>8. SumFunctionOnSet(f, 1 .. n) \in Nat
    BY <1>5, <1>6, SumType
  <1>9. /\ GetBlockFees(l, FALSE) = SumFunctionOnSet(f, 1 .. n) % Uint64
        /\ GetBlockFees(new, TRUE) = SumFunctionOnSet(g, 2 .. n + 1) % Uint64
    BY <1>1, <1>2 DEF GetBlockFees, Regular, f, g
  <1>10. SumFunctionOnSet(f, 1 .. n) % Uint64 \in 0 .. Uint64 - 1
    BY <1>8, TransactionAssumption
  <1> QED  BY <1>7, <1>9, <1>10 DEF new

\* What a coinbase of NewCoinbaseTransaction takes, and what it refers to.
LEMMA CoinbaseOf ==
  ASSUME NEW v \in 0 .. MaxValidAmount, NEW h \in 1 .. MaxHeight, v < Uint64
  PROVE  /\ Coinbase[<<v, h>>] \in Tx
         /\ IsMined(Coinbase[<<v, h>>])
         /\ OutputValue[Coinbase[<<v, h>>]] = v
  <1> DEFINE t == Coinbase[<<v, h>>]
  <1>1. t \in Tx /\ IsMined(t) /\ OutValues[t] = <<v>>
    BY MiningAssumption
  <1> HIDE DEF t
  <1>2. OutputValue[t] = SumFunctionOnSet(<<v>>, 1 .. 1) % Uint64
    BY <1>1, TransactionAssumption DEF RunningTotal
  <1>3. SumFunctionOnSet(<<v>>, {} \cup {1}) = SumFunctionOnSet(<<v>>, {}) + v
    <2> DEFINE f == <<v>>
    <2>1. f[1] = v /\ v \in Nat
      BY TransactionAssumption
    <2> HIDE DEF f
    <2>2. IsFiniteSet({}) /\ 1 \notin {} /\ \A y \in {} \cup {1} : f[y] \in Nat
      BY <2>1, FS_EmptySet
    <2>3. SumFunctionOnSet(f, {} \cup {1}) = SumFunctionOnSet(f, {}) + f[1]
      BY <2>2, SumAdd
    <2> QED  BY <2>1, <2>3 DEF f
  <1>4. {} \cup {1} = 1 .. 1
    OBVIOUS
  <1>5. SumFunctionOnSet(<<v>>, 1 .. 1) = v
    BY <1>3, <1>4, SumEmpty, TransactionAssumption
  <1>6. v % Uint64 = v
    <2>1. v \in Nat /\ Uint64 \in Nat \ {0}
      BY TransactionAssumption
    <2> QED  BY <2>1
  <1> QED  BY <1>1, <1>2, <1>5, <1>6 DEF t

\* A transaction that refers to the null output of a coinbase is not valid.
LEMMA MinedIsNotValid ==
  ASSUME NEW t, IsMined(t)
  PROVE  InputSet(t) = {NullOutpoint} /\ ~ValidateTransaction(t, Unspent)
  <1>1. InputSet(t) = {NullOutpoint}
    BY DEF IsMined, InputSet
  <1> QED  BY <1>1, MiningAssumption DEF ValidateTransaction

-----------------------------------------------------------------------------
\* The target of the next block has its compact form.
LEMMA NextTargetType ==
  ASSUME TypeOK
  PROVE  GetTargetForBlock \in Bits
  <1>1. lastHeader.bits \in Bits /\ lastHeader.timestamp \in Nat
    BY DEF TypeOK
  <1>2. lastHeader.timestamp - FirstStamp \in Int
    BY <1>1, MiningAssumption DEF FirstStamp
  <1>3. ExpectedTime \in Nat \ {0}
    BY MiningAssumption DEF ExpectedTime
  <1>4. BitsFor(lastHeader.timestamp) \in Bits
    BY <1>1, <1>2, <1>3, TargetType DEF BitsFor
  <1> QED  BY <1>1, <1>4 DEF GetTargetForBlock

\* Genesis: a chain of one header, and no block in hand.
LEMMA InitInv == Init => IInv
  <1> SUFFICES ASSUME Init  PROVE IInv
    OBVIOUS
  <1>1. PICK b \in GenesisBits : lastHeader = Header(0, 0, b)
    BY DEF Init
  <1>2. b \in Bits
    BY <1>1, MiningAssumption
  <1>3. 0 \in Nonce /\ 0 \in 0 .. MaxTimeBumps /\ 0 \in 0 .. MaxHeight
    BY MiningAssumption DEF Nonce
  <1>4. /\ pc = "idle" /\ txs = <<>> /\ header = Header(0, 0, b)
        /\ timeBumps = 0 /\ firstNonce = 0 /\ tried = {} /\ calls = 0
        /\ height = 0 /\ ownStamp = FALSE /\ pooled = Pooled
    BY <1>1 DEF Init, NoBlock, Header
  <1>5. TypeOK
    <2>1. lastHeader \in [timestamp : Nat, nonce : Nonce, bits : Bits]
      BY <1>1, <1>2, <1>3 DEF Header
    <2>2. header \in [timestamp : 0 .. MaxTimeBumps, nonce : Nonce, bits : Bits]
      BY <1>2, <1>3, <1>4 DEF Header
    <2>3. ownStamp \in BOOLEAN
      BY <1>4
    <2>4. txs \in Seq(Tx) /\ calls \in 0 .. 2 /\ tried \subseteq (0 .. MaxTimeBumps) \X Nonce
      BY <1>4
    <2>5. /\ height \in 0 .. MaxHeight /\ pooled \subseteq Pooled
          /\ timeBumps \in 0 .. MaxTimeBumps /\ firstNonce \in Nonce
          /\ pc \in {"idle", "new", "mining", "mined", "stale", "refused", "dead"}
      BY <1>3, <1>4
    <2> QED  BY <2>1, <2>2, <2>3, <2>4, <2>5 DEF TypeOK
  <1> QED  BY <1>4, <1>5 DEF IInv, BlockInHand, Loop, StaleMeansExhausted, OwnStampsAreShort

\* A new block has any nonce, the target of GetTargetForBlock, and no coinbase.
LEMMA NewBlockInv ==
  ASSUME IInv, NEW list \in Seq(Tx), NEW n \in Nonce, NewBlock(list, n)
  PROVE  IInv'
  <1>1. GetTargetForBlock \in Bits
    BY NextTargetType DEF IInv
  <1>2. 0 \in 0 .. MaxTimeBumps
    BY MiningAssumption
  <1>3. /\ pc = "idle" /\ height < MaxHeight
        /\ pc' = "new" /\ txs' = list /\ header' = Header(0, n, GetTargetForBlock)
        /\ UNCHANGED <<height, lastHeader, ownStamp, pooled, timeBumps, firstNonce,
                       tried, calls>>
    BY DEF NewBlock, chainVars, loopVars
  <1>4. TypeOK'
    BY <1>1, <1>2, <1>3 DEF IInv, TypeOK, Header
  <1>5. GetTargetForBlock' = GetTargetForBlock
    BY <1>3 DEF GetTargetForBlock, AtRetarget, BitsFor, FirstStamp, IsFirstRetarget
  <1>6. BlockInHand'
    BY <1>3, <1>5 DEF IInv, BlockInHand, Header
  <1> QED  BY <1>3, <1>4, <1>6 DEF IInv, Loop, StaleMeansExhausted, OwnStampsAreShort

\* A longer chain, and no block in hand.
LEMMA ExtendInv ==
  ASSUME IInv, height < MaxHeight,
         NEW h \in [timestamp : Nat, nonce : Nonce, bits : Bits], NEW own \in BOOLEAN,
         own => h.timestamp <= MaxTimeBumps, Extend(h, own)
  PROVE  IInv'
  <1>1. /\ height' = height + 1 /\ lastHeader' = h /\ ownStamp' = own
        /\ pc' = "idle" /\ txs' = <<>> /\ header' = Header(0, 0, h.bits)
        /\ timeBumps' = 0 /\ firstNonce' = 0 /\ tried' = {} /\ calls' = 0
        /\ pooled' = pooled
    BY DEF Extend, DropBlock
  <1>2. 0 \in Nonce /\ 0 \in 0 .. MaxTimeBumps /\ height + 1 \in 0 .. MaxHeight
    BY MiningAssumption DEF Nonce, IInv, TypeOK
  <1>3. TypeOK'
    BY <1>1, <1>2 DEF IInv, TypeOK, Header
  <1> QED  BY <1>1, <1>3 DEF IInv, BlockInHand, Loop, StaleMeansExhausted, OwnStampsAreShort

\* The chain takes in a valid block that was mined.
LEMMA AdoptInv ==
  ASSUME IInv, Adopt
  PROVE  IInv'
  <1>1. height < MaxHeight /\ Extend(header, TRUE)
    BY DEF IInv, BlockInHand, Adopt
  <1>2. /\ header \in [timestamp : Nat, nonce : Nonce, bits : Bits]
        /\ header.timestamp <= MaxTimeBumps
    BY MiningAssumption DEF IInv, TypeOK
  <1> QED  BY <1>1, <1>2, ExtendInv

\* The chain takes in a header of another miner.
LEMMA ReceiveHeaderInv ==
  ASSUME IInv, NEW ts \in Stamps, ReceiveHeader(ts)
  PROVE  IInv'
  <1>1. height < MaxHeight /\ Extend(Header(ts, 0, GetTargetForBlock), FALSE)
    BY DEF ReceiveHeader
  <1>2. Header(ts, 0, GetTargetForBlock) \in [timestamp : Nat, nonce : Nonce, bits : Bits]
    BY NextTargetType, MiningAssumption DEF IInv, Header, Nonce
  <1> QED  BY <1>1, <1>2, ExtendInv

\* The caller gives the block up.
LEMMA AbandonInv ==
  ASSUME IInv, Abandon
  PROVE  IInv'
  <1>1. /\ pc' = "idle" /\ txs' = <<>> /\ header' = Header(0, 0, lastHeader.bits)
        /\ timeBumps' = 0 /\ firstNonce' = 0 /\ tried' = {} /\ calls' = 0
        /\ UNCHANGED <<height, lastHeader, ownStamp, pooled>>
    BY DEF Abandon, DropBlock, chainVars
  <1>2. 0 \in Nonce /\ 0 \in 0 .. MaxTimeBumps
    BY MiningAssumption DEF Nonce
  <1>3. TypeOK'
    BY <1>1, <1>2 DEF IInv, TypeOK, Header
  <1> QED  BY <1>1, <1>3 DEF IInv, BlockInHand, Loop, StaleMeansExhausted, OwnStampsAreShort

\* A panic: nothing changes but that the process is gone.
LEMMA DiesInv ==
  ASSUME IInv, TargetPanics \/ ExpandDies
  PROVE  IInv'
  <1>1. /\ pc' = "dead"
        /\ UNCHANGED <<height, lastHeader, ownStamp, pooled, txs, header, timeBumps,
                       firstNonce, tried, calls>>
    BY DEF TargetPanics, ExpandDies, chainVars, loopVars
  <1>2. TypeOK'
    BY <1>1 DEF IInv, TypeOK
  <1> QED  BY <1>1, <1>2 DEF IInv, BlockInHand, Loop, StaleMeansExhausted, OwnStampsAreShort

\* A call that refuses the block leaves the block as it is, but for the timestamp.
LEMMA RefuseInv ==
  ASSUME IInv, CanCall, Refuse, pooled' \subseteq pooled
  PROVE  IInv'
  <1>1. /\ pc' = "refused" /\ header' = Restamped
        /\ UNCHANGED <<height, lastHeader, ownStamp, txs, timeBumps, firstNonce, tried, calls>>
    BY DEF Refuse, chainVars, loopVars
  <1>2. 0 \in 0 .. MaxTimeBumps
    BY MiningAssumption
  <1>3. TypeOK'
    BY <1>1, <1>2 DEF IInv, TypeOK, Restamped
  <1>4. GetTargetForBlock' = GetTargetForBlock /\ header'.bits = header.bits
    BY <1>1 DEF GetTargetForBlock, AtRetarget, BitsFor, FirstStamp, IsFirstRetarget,
                Restamped, IInv, TypeOK
  <1>5. BlockInHand'
    BY <1>1, <1>4 DEF IInv, BlockInHand, CanCall
  <1> QED  BY <1>1, <1>3, <1>5 DEF IInv, Loop, StaleMeansExhausted, OwnStampsAreShort

\* ValidateBlockTx refuses the block, and the pool loses a transaction.
LEMMA RefuseTxInv ==
  ASSUME IInv, RefuseTx
  PROVE  IInv'
  BY RefuseInv DEF RefuseTx

\* Any other refusal of MineBlock.
LEMMA RefuseBlockInv ==
  ASSUME IInv, RefuseBlock
  PROVE  IInv'
  BY RefuseInv DEF RefuseBlock

\* A call that begins to mine: on a block that was mined once already the second
\* transaction now is the first coinbase, and a block that was mined twice is
\* never accepted for it.
LEMMA StartMiningInv ==
  ASSUME IInv, StartMining
  PROVE  IInv'
  <1> DEFINE v == CoinbaseValue
             c == Coinbase[<<v, height + 1>>]
  <1>1. /\ CanCall /\ Rejected = {} /\ v <= MaxValidAmount
        /\ txs' = <<c>> \o txs /\ header' = Restamped /\ firstNonce' = header.nonce
        /\ timeBumps' = 0 /\ tried' = {} /\ calls' = calls + 1 /\ pc' = "mining"
        /\ UNCHANGED <<height, lastHeader, ownStamp, pooled>>
    BY DEF StartMining, ValueIsValid, chainVars
  <1>2. TypeOK /\ BlockInHand
    BY DEF IInv
  <1>3. pc \in {"new", "mined", "stale"}
    BY <1>1 DEF CanCall
  <1>4. txs \in Seq(Tx) /\ height \in Nat /\ height + 1 \in 1 .. MaxHeight
    <2>1. height < MaxHeight
      BY <1>2, <1>3 DEF BlockInHand
    <2> QED  BY <1>2, <2>1, MiningAssumption DEF TypeOK
  <1>5. v \in 0 .. MaxValidAmount /\ v < Uint64
    <2>1. BlockSubsidy(height + 1) \in Nat /\ GetBlockFees(txs, FALSE) \in Nat
      <3>1. c \in Tx \/ Tx = {} \/ \E t : t \in Tx
        OBVIOUS
      <3>2. height + 1 \in Nat /\ 0 .. Uint64 - 1 \subseteq Nat
        BY <1>4, TransactionAssumption
      <3>3. \E t : t \in Tx
        <4>1. <<0, height + 1>> \in (0 .. MaxValidAmount) \X (1 .. MaxHeight)
          BY <1>4, TransactionAssumption
        <4> QED  BY <4>1, MiningAssumption
      <3> QED  BY <1>4, <3>2, <3>3, SubsidyType, FeesOfPrepended
    <2>2. Uint64 \in Nat \ {0} /\ MaxValidAmount \in Nat
      BY TransactionAssumption
    <2>3. v \in 0 .. Uint64 - 1
      <3> DEFINE a == BlockSubsidy(height + 1)
                 b == GetBlockFees(txs, FALSE)
      <3>1. v = (a + b) % Uint64
        BY DEF CoinbaseValue
      <3> HIDE DEF v, a, b
      <3>2. a \in Nat /\ b \in Nat
        BY <2>1 DEF a, b
      <3>3. (a + b) % Uint64 \in 0 .. Uint64 - 1
        BY <2>2, <3>2
      <3> QED  BY <3>1, <3>3
    <2> HIDE DEF v
    <2> QED  BY <1>1, <2>2, <2>3
  <1>6. c \in Tx /\ IsMined(c) /\ OutputValue[c] = v
    BY <1>4, <1>5, CoinbaseOf
  <1>7. v = (BlockSubsidy(height + 1) + GetBlockFees(<<c>> \o txs, TRUE)) % Uint64
    BY <1>4, <1>6, FeesOfPrepended DEF CoinbaseValue
  <1> HIDE DEF v, c
  <1>8. /\ Len(txs') = Len(txs) + 1 /\ Len(txs) \in Nat /\ txs'[1] = c /\ txs' \in Seq(Tx)
        /\ \A i \in 2 .. Len(txs') : txs'[i] = txs[i - 1]
    BY <1>1, <1>4, <1>6
  <1>9. pc = "new" => calls = 0
    BY <1>2 DEF BlockInHand
  <1>10. pc # "new" => Begun /\ calls = 1
    <2>1. SUFFICES ASSUME pc # "new"  PROVE Begun /\ calls = 1
      OBVIOUS
    <2>2. Begun
      BY <1>2, <1>3, <2>1 DEF BlockInHand
    <2>3. ASSUME calls = 2  PROVE FALSE
      <3>1. Len(txs) >= 2 /\ IsMined(txs[2])
        BY <2>2, <2>3 DEF Begun
      <3>2. ~ValidateTransaction(txs[2], Unspent)
        BY <3>1, MinedIsNotValid
      <3>3. 2 \in Regular(txs)
        BY <1>4, <3>1 DEF Regular
      <3> QED  BY <1>1, <3>2, <3>3 DEF Rejected, Offending
    <2> QED  BY <2>2, <2>3 DEF Begun
  <1>11. \A i \in Regular(txs) :
           /\ ValidateTransaction(txs[i], Unspent)
           /\ \A j \in Regular(txs) : j < i => InputSet(txs[j]) \cap InputSet(txs[i]) = {}
    BY <1>1 DEF Rejected, Offending
  <1>12. RestPasses'
    <2>1. ASSUME NEW i \in 3 .. Len(txs')
          PROVE  /\ ValidateTransaction(txs'[i], Unspent)
                 /\ \A j \in 3 .. i - 1 : InputSet(txs'[j]) \cap InputSet(txs'[i]) = {}
      <3>1. i - 1 \in Regular(txs) /\ txs'[i] = txs[i - 1]
        BY <1>8 DEF Regular
      <3>2. ASSUME NEW j \in 3 .. i - 1
            PROVE  InputSet(txs'[j]) \cap InputSet(txs'[i]) = {}
        <4>1. j - 1 \in Regular(txs) /\ txs'[j] = txs[j - 1] /\ j - 1 < i - 1
          BY <1>8 DEF Regular
        <4> QED  BY <1>11, <3>1, <4>1
      <3> QED  BY <1>11, <3>1, <3>2
    <2> QED  BY <2>1 DEF RestPasses
  <1>13. calls' \in {1, 2} /\ (calls' = 2 => Len(txs') >= 2 /\ IsMined(txs'[2]))
    <2>1. CASE pc = "new"
      BY <1>1, <1>9, <2>1
    <2>2. CASE pc # "new"
      <3>1. calls' = 2 /\ Len(txs) >= 1 /\ IsMined(txs[1])
        BY <1>1, <1>10, <2>2 DEF Begun
      <3>2. txs'[2] = txs[1]
        BY <1>8, <3>1
      <3> QED  BY <1>8, <3>1, <3>2
    <2> QED  BY <2>1, <2>2
  <1>14. Begun'
    <2>1. IsMined(txs'[1])
      BY <1>6, <1>8
    <2>2. OutputValue[txs'[1]] = (BlockSubsidy(height + 1) + GetBlockFees(txs', TRUE)) % Uint64
      BY <1>1, <1>6, <1>7, <1>8
    <2>3. Len(txs') >= 1
      BY <1>8
    <2>4. /\ IsMined(txs[1])'
          /\ (OutputValue[txs[1]]
                = (BlockSubsidy(height + 1) + GetBlockFees(txs, TRUE)) % Uint64)'
      BY <1>1, <2>1, <2>2
    <2>5. (calls = 2 => Len(txs) >= 2 /\ IsMined(txs[2]))'
      BY <1>13
    <2> QED  BY <1>12, <1>13, <2>3, <2>4, <2>5 DEF Begun
  <1>15. GetTargetForBlock' = GetTargetForBlock /\ header'.bits = header.bits
    BY <1>1, <1>2 DEF GetTargetForBlock, AtRetarget, BitsFor, FirstStamp, IsFirstRetarget,
                      Restamped, TypeOK
  <1>16. TypeOK'
    <2>1. 0 \in 0 .. MaxTimeBumps
      BY MiningAssumption
    <2>2. header' \in [timestamp : 0 .. MaxTimeBumps, nonce : Nonce, bits : Bits]
      BY <1>1, <1>2, <2>1 DEF Restamped, TypeOK
    <2>3. calls' \in 0 .. 2
      BY <1>13
    <2> QED  BY <1>1, <1>2, <1>8, <2>1, <2>2, <2>3 DEF TypeOK
  <1>17. BlockInHand'
    BY <1>1, <1>2, <1>3, <1>14, <1>15 DEF BlockInHand
  <1>18. Loop'
    <2>1. header'.timestamp = 0 /\ header'.nonce = header.nonce
      BY <1>1, <1>2 DEF Restamped, TypeOK
    <2>2. Passed' = {}
      <3>1. header.nonce \in Int /\ Nonce \subseteq Int
        BY <1>2, MiningAssumption DEF TypeOK, Nonce
      <3>2. ASSUME NEW a \in (0 .. MaxTimeBumps) \X Nonce
            PROVE  ~(/\ a[1] > 0 \/ a[2] >= header.nonce
                     /\ a[1] < 0 \/ (a[1] = 0 /\ a[2] < header.nonce))
        <4>1. a[1] \in 0 .. MaxTimeBumps /\ a[2] \in Int
          BY <3>1
        <4> QED  BY <3>1, <4>1
      <3> QED  BY <1>1, <2>1, <3>2 DEF Passed, Nonce
    <2>3. header.nonce >= header.nonce
      BY <1>2, MiningAssumption DEF TypeOK, Nonce
    <2> QED  BY <1>1, <2>1, <2>2, <2>3 DEF Loop, StaleMeansExhausted
  <1> QED  BY <1>1, <1>16, <1>17, <1>18 DEF IInv, OwnStampsAreShort

\* A hash meets the target: the block is mined.
LEMMA HitInv ==
  ASSUME IInv, NEW hash, Hit(hash)
  PROVE  IInv'
  <1>1. /\ pc = "mining" /\ pc' = "mined"
        /\ UNCHANGED <<height, lastHeader, ownStamp, pooled, txs, header, timeBumps,
                       firstNonce, tried, calls>>
    BY DEF Hit, chainVars, loopVars
  <1>2. TypeOK'
    BY <1>1 DEF IInv, TypeOK
  <1>3. GetTargetForBlock' = GetTargetForBlock
    BY <1>1 DEF GetTargetForBlock, AtRetarget, BitsFor, FirstStamp, IsFirstRetarget
  <1>4. Begun' <=> Begun
    BY <1>1 DEF Begun, RestPasses
  <1>5. BlockInHand'
    BY <1>1, <1>3, <1>4 DEF IInv, BlockInHand
  <1> QED  BY <1>1, <1>2, <1>5 DEF IInv, Loop, StaleMeansExhausted, OwnStampsAreShort

\* What a miss leaves alone, whatever comes next.
LEMMA MissKeeps ==
  ASSUME IInv, NEW hash, Miss(hash), pc' \in {"mining", "stale"},
         header' \in [timestamp : 0 .. MaxTimeBumps, nonce : Nonce, bits : Bits],
         header'.bits = header.bits, timeBumps' \in 0 .. MaxTimeBumps
  PROVE  /\ TypeOK' /\ BlockInHand' /\ OwnStampsAreShort'
         /\ tried' = Passed \cup {<<header.timestamp, header.nonce>>}
         /\ firstNonce' = firstNonce
         /\ timeBumps = header.timestamp
         /\ header.timestamp = 0 => header.nonce >= firstNonce
         /\ header.timestamp \in 0 .. MaxTimeBumps /\ header.nonce \in Nonce
         /\ firstNonce \in Nonce
  <1>1. /\ pc = "mining" /\ tried' = tried \cup {<<header.timestamp, header.nonce>>}
        /\ UNCHANGED <<height, lastHeader, ownStamp, pooled, txs, firstNonce, calls>>
    BY DEF Miss, chainVars
  <1>2. /\ tried = Passed /\ timeBumps = header.timestamp
        /\ header.timestamp = 0 => header.nonce >= firstNonce
    BY <1>1 DEF IInv, Loop
  <1>3. header.timestamp \in 0 .. MaxTimeBumps /\ header.nonce \in Nonce /\ firstNonce \in Nonce
    BY DEF IInv, TypeOK
  <1>4. tried' \subseteq (0 .. MaxTimeBumps) \X Nonce
    BY <1>1, <1>2, <1>3 DEF Passed
  <1>5. TypeOK'
    BY <1>1, <1>4 DEF IInv, TypeOK
  <1>6. GetTargetForBlock' = GetTargetForBlock
    BY <1>1 DEF GetTargetForBlock, AtRetarget, BitsFor, FirstStamp, IsFirstRetarget
  <1>7. Begun' <=> Begun
    BY <1>1 DEF Begun, RestPasses
  <1>8. BlockInHand'
    BY <1>1, <1>6, <1>7 DEF IInv, BlockInHand
  <1> QED  BY <1>1, <1>2, <1>3, <1>5, <1>8 DEF IInv, OwnStampsAreShort

\* The next nonce, or none.
LEMMA NonceStep ==
  ASSUME NEW n \in Nonce
  PROVE  IF n = Nonces - 1 THEN (n + 1) % Nonces = 0 ELSE (n + 1) % Nonces = n + 1
  <1>1. Nonces \in Nat \ {0} /\ n \in Nat /\ n <= Nonces - 1
    BY MiningAssumption DEF Nonce
  <1> QED  BY <1>1

\* A miss with a nonce left: the next round has the next nonce.
LEMMA TryNextInv ==
  ASSUME IInv, NEW hash, TryNext(hash)
  PROVE  IInv'
  <1>1. /\ Miss(hash) /\ NextNonce # 0
        /\ header' = [header EXCEPT !.nonce = NextNonce]
        /\ pc' = pc /\ timeBumps' = timeBumps /\ pc = "mining"
    BY DEF TryNext, Miss
  <1>2. TypeOK /\ header.nonce \in Nonce
    BY DEF IInv, TypeOK
  <1>3. NextNonce = header.nonce + 1 /\ header.nonce # Nonces - 1
    BY <1>1, <1>2, NonceStep DEF NextNonce
  <1>4. NextNonce \in Nonce
    BY <1>2, <1>3, MiningAssumption DEF Nonce
  <1>5. /\ header' \in [timestamp : 0 .. MaxTimeBumps, nonce : Nonce, bits : Bits]
        /\ header'.bits = header.bits /\ header'.timestamp = header.timestamp
        /\ header'.nonce = header.nonce + 1 /\ timeBumps' \in 0 .. MaxTimeBumps
    BY <1>1, <1>2, <1>3, <1>4 DEF TypeOK
  <1>6. /\ TypeOK' /\ BlockInHand' /\ OwnStampsAreShort'
        /\ tried' = Passed \cup {<<header.timestamp, header.nonce>>}
        /\ firstNonce' = firstNonce
        /\ timeBumps = header.timestamp
        /\ header.timestamp = 0 => header.nonce >= firstNonce
        /\ header.timestamp \in 0 .. MaxTimeBumps /\ header.nonce \in Nonce
        /\ firstNonce \in Nonce
    BY <1>1, <1>5, MissKeeps
  <1>7. Passed' = Passed \cup {<<header.timestamp, header.nonce>>}
    <2>1. /\ \A n \in Nonce : n \in Int
          /\ \A ts \in 0 .. MaxTimeBumps : ts \in Int
      BY MiningAssumption DEF Nonce
    <2>2. ASSUME NEW a \in (0 .. MaxTimeBumps) \X Nonce
          PROVE  a \in Passed' <=> a \in Passed \/ a = <<header.timestamp, header.nonce>>
      <3>1. /\ a = <<a[1], a[2]>>
            /\ a[1] \in Int /\ a[2] \in Int
        BY <2>1
      <3>2. a \in Passed' <=>
              /\ a[1] > 0 \/ a[2] >= firstNonce
              /\ \/ a[1] < header.timestamp
                 \/ a[1] = header.timestamp /\ a[2] < header.nonce + 1
        BY <1>5, <1>6 DEF Passed
      <3>3. a \in Passed <=>
              /\ a[1] > 0 \/ a[2] >= firstNonce
              /\ \/ a[1] < header.timestamp
                 \/ a[1] = header.timestamp /\ a[2] < header.nonce
        BY DEF Passed
      <3>4. a = <<header.timestamp, header.nonce>> <=>
              a[1] = header.timestamp /\ a[2] = header.nonce
        BY <3>1
      <3>5. header.timestamp \in Int /\ header.nonce \in Int /\ firstNonce \in Int
        BY <1>6, <2>1
      <3> HIDE DEF Passed
      <3> QED  BY <1>6, <3>1, <3>2, <3>3, <3>4, <3>5
    <2>3. Passed' \subseteq (0 .. MaxTimeBumps) \X Nonce
      BY DEF Passed, Nonce
    <2>4. Passed \cup {<<header.timestamp, header.nonce>>} \subseteq (0 .. MaxTimeBumps) \X Nonce
      BY <1>6 DEF Passed
    <2> QED  BY <2>2, <2>3, <2>4
  <1>8. header'.timestamp = 0 => header'.nonce >= firstNonce'
    BY <1>5, <1>6, MiningAssumption DEF Nonce
  <1>9. Loop'
    BY <1>1, <1>5, <1>6, <1>7, <1>8 DEF Loop, StaleMeansExhausted
  <1> QED  BY <1>6, <1>9 DEF IInv

\* After the last nonce of a timestamp, all of that timestamp have been tried.
LEMMA PassedStamp ==
  ASSUME IInv, header.nonce = Nonces - 1, header.timestamp = 0 => header.nonce >= firstNonce
  PROVE  Passed \cup {<<header.timestamp, header.nonce>>} =
           {a \in (0 .. MaxTimeBumps) \X Nonce :
              (a[1] > 0 \/ a[2] >= firstNonce) /\ a[1] <= header.timestamp}
  <1> DEFINE all == {a \in (0 .. MaxTimeBumps) \X Nonce :
                       (a[1] > 0 \/ a[2] >= firstNonce) /\ a[1] <= header.timestamp}
             here == <<header.timestamp, header.nonce>>
  <1>1. /\ header.timestamp \in 0 .. MaxTimeBumps /\ header.nonce \in Nonce
        /\ firstNonce \in Nonce
    BY DEF IInv, TypeOK
  <1>2. /\ MaxTimeBumps \in Int /\ Nonces \in Int
        /\ \A n \in Nonce : n \in Int /\ n <= Nonces - 1
    BY MiningAssumption DEF Nonce
  <1>3. ASSUME NEW a \in (0 .. MaxTimeBumps) \X Nonce
        PROVE  a \in all <=> a \in Passed \/ a = here
    <2>1. /\ a = <<a[1], a[2]>>
          /\ a[1] \in Int /\ a[2] \in Int /\ a[2] <= Nonces - 1
      BY <1>2
    <2>2. a[1] >= 0
      BY <1>2
    <2>3. a = here <=> a[1] = header.timestamp /\ a[2] = header.nonce
      BY <2>1
    <2>4. a \in all <=> (a[1] > 0 \/ a[2] >= firstNonce) /\ a[1] <= header.timestamp
      OBVIOUS
    <2>5. a \in Passed <=>
            /\ a[1] > 0 \/ a[2] >= firstNonce
            /\ \/ a[1] < header.timestamp
               \/ a[1] = header.timestamp /\ a[2] < header.nonce
      BY DEF Passed
    <2>6. header.timestamp \in Int /\ header.nonce \in Int /\ firstNonce \in Int
          /\ header.timestamp >= 0
      BY <1>1, <1>2
    <2> HIDE DEF all, here, Passed
    <2> QED  BY <1>2, <2>1, <2>2, <2>3, <2>4, <2>5, <2>6
  <1>4. all \subseteq (0 .. MaxTimeBumps) \X Nonce
    OBVIOUS
  <1>5. Passed \cup {here} \subseteq (0 .. MaxTimeBumps) \X Nonce
    BY <1>1 DEF Passed
  <1> HIDE DEF all, here
  <1>6. all = Passed \cup {here}
    BY <1>3, <1>4, <1>5
  <1> QED  BY <1>6 DEF all, here

\* A miss on the last nonce: the timestamp moves on, and nonces begin anew.
LEMMA BumpTimeInv ==
  ASSUME IInv, NEW hash, BumpTime(hash)
  PROVE  IInv'
  <1>1. /\ Miss(hash) /\ NextNonce = 0 /\ timeBumps < MaxTimeBumps
        /\ header' = [header EXCEPT !.nonce = 0, !.timestamp = @ + 1]
        /\ timeBumps' = timeBumps + 1 /\ pc' = pc /\ pc = "mining"
    BY DEF BumpTime, Miss
  <1>2. /\ TypeOK /\ header.nonce \in Nonce /\ timeBumps = header.timestamp
        /\ header.timestamp = 0 => header.nonce >= firstNonce
    BY <1>1 DEF IInv, TypeOK, Loop
  <1>3. header.nonce = Nonces - 1
    <2>1. header.nonce + 1 # 0
      BY <1>2, MiningAssumption DEF Nonce
    <2> QED  BY <1>1, <1>2, <2>1, NonceStep DEF NextNonce
  <1>4. 0 \in Nonce /\ timeBumps + 1 \in 0 .. MaxTimeBumps
    BY <1>1, <1>2, MiningAssumption DEF Nonce, TypeOK
  <1>5. /\ header' \in [timestamp : 0 .. MaxTimeBumps, nonce : Nonce, bits : Bits]
        /\ header'.bits = header.bits /\ header'.timestamp = header.timestamp + 1
        /\ header'.nonce = 0
    BY <1>1, <1>2, <1>4 DEF TypeOK
  <1>6. /\ TypeOK' /\ BlockInHand' /\ OwnStampsAreShort'
        /\ tried' = Passed \cup {<<header.timestamp, header.nonce>>}
        /\ firstNonce' = firstNonce /\ header.timestamp \in 0 .. MaxTimeBumps
    BY <1>1, <1>4, <1>5, MissKeeps
  <1>7. tried' = {a \in (0 .. MaxTimeBumps) \X Nonce :
                    (a[1] > 0 \/ a[2] >= firstNonce) /\ a[1] <= header.timestamp}
    BY <1>2, <1>3, <1>6, PassedStamp
  <1>8. ASSUME NEW a \in (0 .. MaxTimeBumps) \X Nonce
        PROVE  a[1] <= header.timestamp <=>
                 \/ a[1] < header'.timestamp
                 \/ a[1] = header'.timestamp /\ a[2] < header'.nonce
    <2>1. a[1] \in Int /\ a[2] \in Int /\ a[2] >= 0 /\ header.timestamp \in Int
      BY <1>6, MiningAssumption DEF Nonce
    <2> QED  BY <1>5, <2>1
  <1>9. tried' = Passed'
    BY <1>6, <1>7, <1>8 DEF Passed, Nonce
  <1>10. Loop'
    BY <1>1, <1>2, <1>5, <1>6, <1>9 DEF Loop, StaleMeansExhausted
  <1> QED  BY <1>6, <1>10 DEF IInv

\* A miss on the last nonce of the last timestamp: every header has been tried.
LEMMA GoStaleInv ==
  ASSUME IInv, NEW hash, GoStale(hash)
  PROVE  IInv'
  <1>1. /\ Miss(hash) /\ NextNonce = 0 /\ timeBumps >= MaxTimeBumps
        /\ header' = [header EXCEPT !.nonce = 0]
        /\ timeBumps' = timeBumps /\ pc' = "stale" /\ pc = "mining"
    BY DEF GoStale, Miss
  <1>2. /\ TypeOK /\ header.nonce \in Nonce /\ timeBumps = header.timestamp
        /\ header.timestamp = 0 => header.nonce >= firstNonce
    BY <1>1 DEF IInv, TypeOK, Loop
  <1>3. header.nonce = Nonces - 1
    <2>1. header.nonce + 1 # 0
      BY <1>2, MiningAssumption DEF Nonce
    <2> QED  BY <1>1, <1>2, <2>1, NonceStep DEF NextNonce
  <1>4. 0 \in Nonce /\ timeBumps = MaxTimeBumps
    BY <1>1, <1>2, MiningAssumption DEF Nonce, TypeOK
  <1>5. /\ header' \in [timestamp : 0 .. MaxTimeBumps, nonce : Nonce, bits : Bits]
        /\ header'.bits = header.bits /\ timeBumps' \in 0 .. MaxTimeBumps
    BY <1>1, <1>2, <1>4 DEF TypeOK
  <1>6. /\ TypeOK' /\ BlockInHand' /\ OwnStampsAreShort'
        /\ tried' = Passed \cup {<<header.timestamp, header.nonce>>}
        /\ firstNonce' = firstNonce
    BY <1>1, <1>5, MissKeeps
  <1>7. tried' = {a \in (0 .. MaxTimeBumps) \X Nonce :
                    (a[1] > 0 \/ a[2] >= firstNonce) /\ a[1] <= header.timestamp}
    BY <1>2, <1>3, <1>6, PassedStamp
  <1>8. \A a \in (0 .. MaxTimeBumps) \X Nonce : a[1] <= header.timestamp
    BY <1>2, <1>4, MiningAssumption
  <1>9. tried' = {a \in (0 .. MaxTimeBumps) \X Nonce : a[1] > 0 \/ a[2] >= firstNonce'}
    BY <1>6, <1>7, <1>8
  <1>10. Loop'
    BY <1>1, <1>9 DEF Loop, StaleMeansExhausted, Nonce
  <1> QED  BY <1>6, <1>10 DEF IInv

-----------------------------------------------------------------------------
\* IInv is an inductive invariant of the miner.
THEOREM MiningInvariant == Spec => []IInv
  <1>1. IInv /\ [Next]_vars => IInv'
    <2> SUFFICES ASSUME IInv, [Next]_vars  PROVE IInv'
      OBVIOUS
    <2>1. ASSUME NEW list \in {l \in Lists : IsInjective(l)}, NEW n \in Nonce,
                 NewBlock(list, n)
          PROVE  IInv'
      <3>1. PICK k \in 0 .. MaxNumberOfTXsInBlock + 1 : list \in [1 .. k -> pooled]
        BY DEF Lists
      <3>2. pooled \subseteq Tx
        BY MiningAssumption DEF IInv, TypeOK
      <3>3. k \in Nat
        BY MiningAssumption
      <3>4. list \in Seq(Tx)
        BY <3>1, <3>2, <3>3
      <3> QED  BY <2>1, <3>4, NewBlockInv
    <2>2. CASE TargetPanics
      BY <2>2, DiesInv
    <2>3. CASE Adopt
      BY <2>3, AdoptInv
    <2>4. ASSUME NEW ts \in Stamps, ReceiveHeader(ts)
          PROVE  IInv'
      BY <2>4, ReceiveHeaderInv
    <2>5. CASE Abandon
      BY <2>5, AbandonInv
    <2>6. CASE RefuseTx
      BY <2>6, RefuseTxInv
    <2>7. CASE RefuseBlock
      BY <2>7, RefuseBlockInv
    <2>8. CASE StartMining
      BY <2>8, StartMiningInv
    <2>9. CASE TryNonce
      BY <2>9, HitInv, TryNextInv, BumpTimeInv, GoStaleInv, DiesInv DEF TryNonce
    <2>10. CASE UNCHANGED vars
      BY <2>10 DEF vars, chainVars, loopVars, IInv, TypeOK, BlockInHand, Begun, RestPasses,
                   Loop, Passed, StaleMeansExhausted, OwnStampsAreShort, GetTargetForBlock,
                   AtRetarget, BitsFor, FirstStamp, IsFirstRetarget
    <2> QED  BY <2>1, <2>2, <2>3, <2>4, <2>5, <2>6, <2>7, <2>8, <2>9, <2>10 DEF Next
  <1> QED  BY InitInv, <1>1, PTL DEF Spec

\* TypeOK holds for all parameters; in it, that no block is mined a third time.
THEOREM MiningTypeOK == Spec => []TypeOK
  BY MiningInvariant, PTL DEF IInv

\* Which of the mined blocks a validator accepts (MinedIsValid): MineBlock
\* validates a list without its coinbase by rules made for one that has it.
THEOREM MiningMinedIsValid == Spec => []MinedIsValid
  <1>1. ASSUME IInv, pc = "mined"
        PROVE  Offending(txs, Unspent) = {} <=> calls = 1 /\ FirstPasses
    <2>1. Begun /\ txs \in Seq(Tx)
      BY <1>1 DEF IInv, TypeOK, BlockInHand
    <2>2. Len(txs) \in Nat /\ Len(txs) >= 1
      BY <2>1 DEF Begun
    <2>3. CASE calls = 2
      <3>1. 2 \in Regular(txs) /\ ~ValidateTransaction(txs[2], Unspent)
        BY <2>1, <2>2, <2>3, MinedIsNotValid DEF Begun, Regular
      <3> QED  BY <2>3, <3>1 DEF Offending
    <2>4. ASSUME calls = 1, Offending(txs, Unspent) = {}, Len(txs) # 1
          PROVE  /\ ValidateTransaction(txs[2], Unspent)
                 /\ \A i \in 3 .. Len(txs) : InputSet(txs[2]) \cap InputSet(txs[i]) = {}
      <3>1. 2 \in Regular(txs)
        <4>1. \A n \in Nat : n >= 1 /\ n # 1 => 2 \in 2 .. n
          OBVIOUS
        <4> QED  BY <2>2, <2>4, <4>1, Zenon DEF Regular
      <3>2. \A i \in 3 .. Len(txs) : i \in Regular(txs) /\ 2 < i
        BY <2>2 DEF Regular
      <3> QED  BY <2>4, <3>1, <3>2 DEF Offending
    <2>5. ASSUME calls = 1, FirstPasses, NEW i \in Offending(txs, Unspent)
          PROVE  FALSE
      <3>1. i \in 2 .. Len(txs)
        BY DEF Offending, Regular
      <3>2. /\ ValidateTransaction(txs[2], Unspent)
            /\ \A k \in 3 .. Len(txs) : InputSet(txs[2]) \cap InputSet(txs[k]) = {}
        BY <2>2, <2>5, <3>1 DEF FirstPasses
      <3>3. CASE i = 2
        BY <2>2, <3>2, <3>3 DEF Offending, Regular
      <3>4. CASE i # 2
        <4>1. i \in 3 .. Len(txs)
          BY <2>2, <3>1, <3>4
        <4>2. /\ ValidateTransaction(txs[i], Unspent)
              /\ \A j \in 3 .. i - 1 : InputSet(txs[j]) \cap InputSet(txs[i]) = {}
          BY <2>1, <4>1 DEF Begun, RestPasses
        <4>3. PICK j \in 2 .. Len(txs) : j < i /\ InputSet(txs[j]) \cap InputSet(txs[i]) # {}
          BY <4>2 DEF Offending, Regular
        <4>4. j = 2 \/ j \in 3 .. i - 1
          BY <2>2, <4>1, <4>3
        <4> QED  BY <3>2, <4>1, <4>2, <4>3, <4>4
      <3> QED  BY <3>3, <3>4
    <2> QED  BY <2>1, <2>3, <2>4, <2>5 DEF Begun, FirstPasses
  <1>2. IInv => MinedIsValid
    BY <1>1 DEF MinedIsValid
  <1> QED  BY <1>2, MiningInvariant, PTL

\* Miner and validator agree on what the coinbase may take, across halvings and
\* on a second call, though one computes it from the last block and the list and
\* the other from the new block and its place in it.
THEOREM MiningTakesItsDue == Spec => []TakesItsDue
  <1>1. IInv => TakesItsDue
    BY DEF IInv, BlockInHand, Begun, TakesItsDue
  <1> QED  BY <1>1, MiningInvariant, PTL

\* MineBlock gives a block up when it has tried every header it may make, from
\* the nonce it was given on.
THEOREM MiningStaleMeansExhausted == Spec => []StaleMeansExhausted
  <1>1. IInv => StaleMeansExhausted
    BY DEF IInv, Loop
  <1> QED  BY <1>1, MiningInvariant, PTL

\* The timestamps of MineBlock carry no time: 30 bumps are less than a quarter
\* of the time an interval of blocks is expected to take.
THEOREM MiningOwnStampsQuarter ==
  ASSUME 4 * MaxTimeBumps < ExpectedTime
  PROVE  Spec => []OwnStampsQuarter
  <1>1. ASSUME IInv, Retargeted, ownStamp
        PROVE  header.bits = ApplyCoeffToTarget(1, 4, lastHeader.bits)
    <2>1. AtRetarget /\ pc \notin {"idle", "dead"}
      BY <1>1 DEF Retargeted
    <2>2. header.bits = BitsFor(lastHeader.timestamp)
      BY <1>1, <2>1 DEF IInv, BlockInHand, GetTargetForBlock
    <2>3. lastHeader.timestamp \in Nat /\ lastHeader.timestamp <= MaxTimeBumps
      BY <1>1 DEF IInv, TypeOK, OwnStampsAreShort
    <2>4. FirstStamp \in Nat /\ ExpectedTime \in Nat \ {0} /\ MaxTimeBumps \in Nat
      BY MiningAssumption DEF FirstStamp, ExpectedTime
    <2>5. 4 * (lastHeader.timestamp - FirstStamp) < ExpectedTime
      BY <2>3, <2>4
    <2>6. Limited(lastHeader.timestamp - FirstStamp, ExpectedTime) = <<1, 4>>
      BY <2>3, <2>4, <2>5 DEF Limited
    <2>7. Limited(1, 4) = <<1, 4>>
      BY DEF Limited
    <2> QED  BY <2>2, <2>6, <2>7 DEF BitsFor, ApplyCoeffToTarget
  <1>2. IInv => OwnStampsQuarter
    BY <1>1 DEF OwnStampsQuarter
  <1> QED  BY <1>2, MiningInvariant, PTL

-----------------------------------------------------------------------------
\* A quotient and what is left over.
LEMMA Floor ==
  ASSUME NEW a \in Nat, NEW c \in Nat \ {0}
  PROVE  /\ a \div c \in Nat
         /\ (a \div c) * c \in Nat
         /\ (a \div c) * c <= a /\ a < (a \div c) * c + c
  <1> DEFINE n == a + 1
  <1>1. a < n * c
    <2>1. n * c >= n * 1
      BY ProductGrows
    <2> QED  BY <2>1
  <1>2. /\ a \div c \in 0 .. n - 1 /\ (a \div c) * c \in Nat
        /\ a - (a \div c) * c \in 0 .. c - 1
    <2>1. n \in Nat
      OBVIOUS
    <2> HIDE DEF n
    <2> QED  BY <1>1, <2>1, DivisionBounds
  <1> DEFINE d == a \div c
             k == d * c
  <1> HIDE DEF d, k
  <1>3. k \in Nat /\ a - k \in 0 .. c - 1
    BY <1>2 DEF k, d
  <1>4. k <= a /\ a < k + c
    BY <1>3
  <1> QED  BY <1>2, <1>4 DEF k, d

\* Of two products with one factor the other factors tell which is larger.
LEMMA SameFactor ==
  ASSUME NEW a \in Int, NEW b \in Int, NEW c \in Nat \ {0}
  PROVE  /\ a <= b <=> a * c <= b * c
         /\ a < b <=> a * c < b * c
  OBVIOUS

\* The powers of a byte.
LEMMA PowersOfByte ==
  /\ PowerOfByte[0] = 1
  /\ \A n \in 0 .. Byte - 1 : PowerOfByte[n] \in Nat \ {0}
  /\ \A n \in 0 .. Byte - 2 : PowerOfByte[n + 1] = Byte * PowerOfByte[n]
  <1> DEFINE T == Nat \ {0}
             top == Byte - 1
             Body(f) == [n \in 0 .. top |-> IF n = 0 THEN 1 ELSE Byte * f[n - 1]]
             step == [x \in T \X (1 .. top) |-> Byte * x[1]]
  <1>1. top \in Nat /\ Byte \in Nat \ {0} /\ top + 1 = Byte
    BY ByteNumbers
  <1>2. \E f : f = Body(f)
    <2>1. \A s \in T : \A i \in 1 .. top : step[<<s, i>>] = Byte * s /\ Byte * s \in T
      BY <1>1
    <2>2. IsBody(step, T, top)
      BY <2>1 DEF IsBody
    <2> HIDE DEF step, T
    <2>3. 1 \in T
      BY DEF T
    <2>4. PICK h \in [0 .. top -> T] : IsRun(h, 1, top, step)
      BY <1>1, <2>2, <2>3, LoopStates
    <2>5. h[0] = 1 /\ \A i \in 1 .. top : h[i] = Byte * h[i - 1]
      <3>1. h[0] = 1 /\ \A i \in 1 .. top : h[i] = step[<<h[i - 1], i>>]
        BY <2>4 DEF IsRun
      <3>2. \A i \in 1 .. top : h[i - 1] \in T
        BY <1>1, <2>4
      <3> QED  BY <2>1, <3>1, <3>2
    <2>6. \A n \in 0 .. top : h[n] = IF n = 0 THEN 1 ELSE Byte * h[n - 1]
      BY <1>1, <2>5
    <2> HIDE DEF top
    <2>7. h = Body(h)
      BY <2>4, <2>6
    <2> QED  BY <2>7
  <1>3. PowerOfByte = Body(PowerOfByte)
    <2>1. PowerOfByte = CHOOSE f : f = Body(f)
      BY DEF PowerOfByte
    <2> HIDE DEF Body
    <2> QED  BY <1>2, <2>1
  <1>4. /\ PowerOfByte[0] = 1
        /\ \A n \in 1 .. top : PowerOfByte[n] = Byte * PowerOfByte[n - 1]
    <2>1. \A n \in 0 .. top : PowerOfByte[n] = Body(PowerOfByte)[n]
      <3> HIDE DEF Body
      <3> QED  BY <1>3
    <2>2. 0 \in 0 .. top /\ \A n \in 1 .. top : n \in 0 .. top /\ n # 0
      BY <1>1
    <2> HIDE DEF top
    <2> QED  BY <2>1, <2>2
  <1> DEFINE G == {n \in Nat : n <= top => PowerOfByte[n] \in T}
  <1>5. \A n \in Nat : n \in G
    <2>1. 0 \in G
      BY <1>4
    <2>2. ASSUME NEW n \in Nat, n \in G, n + 1 <= top
          PROVE  PowerOfByte[n + 1] \in T
      <3>1. PowerOfByte[n] \in T /\ n + 1 \in 1 .. top /\ (n + 1) - 1 = n
        BY <1>1, <2>2
      <3>2. PowerOfByte[n + 1] = Byte * PowerOfByte[n]
        BY <1>4, <3>1
      <3> QED  BY <1>1, <3>1, <3>2
    <2>3. \A n \in Nat : n \in G => n + 1 \in G
      BY <2>2
    <2> HIDE DEF G
    <2> QED  BY <2>1, <2>3, NumberInduction
  <1>6. \A n \in 0 .. Byte - 2 : PowerOfByte[n + 1] = Byte * PowerOfByte[n]
    <2> TAKE n \in 0 .. Byte - 2
    <2>1. n + 1 \in 1 .. top /\ (n + 1) - 1 = n
      BY <1>1
    <2> QED  BY <1>4, <2>1
  <1> QED  BY <1>1, <1>4, <1>5, <1>6

\* A higher power is a multiple of a byte times a lower one.
LEMMA PowerGap ==
  ASSUME NEW m \in 0 .. Byte - 1, NEW n \in 0 .. Byte - 1, m < n
  PROVE  \E q \in Nat \ {0} : PowerOfByte[n] = Byte * (q * PowerOfByte[m])
  <1> DEFINE p == PowerOfByte[m]
             G == {i \in Nat : m + 1 + i <= Byte - 1 =>
                     \E q \in Nat \ {0} : PowerOfByte[m + 1 + i] = Byte * (q * p)}
  <1>1. p \in Nat \ {0} /\ Byte \in Nat \ {0} /\ m \in Nat /\ n \in Nat
    BY PowersOfByte, ByteNumbers
  <1>2. 0 \in G
    <2> SUFFICES ASSUME m + 1 <= Byte - 1
                 PROVE  \E q \in Nat \ {0} : PowerOfByte[m + 1] = Byte * (q * p)
      BY <1>1
    <2>1. m \in 0 .. Byte - 2
      BY <1>1
    <2>2. PowerOfByte[m + 1] = Byte * (1 * p) /\ 1 \in Nat \ {0}
      BY <1>1, <2>1, PowersOfByte
    <2> QED  BY <2>2
  <1>3. ASSUME NEW i \in Nat, i \in G, m + 1 + (i + 1) <= Byte - 1
        PROVE  \E q \in Nat \ {0} : PowerOfByte[m + 1 + (i + 1)] = Byte * (q * p)
    <2> DEFINE k == m + 1 + i
    <2>1. k \in 0 .. Byte - 2 /\ m + 1 + (i + 1) = k + 1 /\ m + 1 + i <= Byte - 1
      BY <1>1, <1>3
    <2>2. PICK q \in Nat \ {0} : PowerOfByte[k] = Byte * (q * p)
      BY <1>3, <2>1
    <2> HIDE DEF k, p
    <2>3. PowerOfByte[k + 1] = Byte * (Byte * (q * p))
      BY <2>1, <2>2, PowersOfByte
    <2>4. Byte * (q * p) = (Byte * q) * p /\ Byte * q \in Nat \ {0}
      BY <1>1
    <2> QED  BY <2>1, <2>3, <2>4
  <1>4. \A i \in Nat : i \in G
    <2>1. \A i \in Nat : i \in G => i + 1 \in G
      BY <1>3
    <2> HIDE DEF G
    <2> QED  BY <1>2, <2>1, NumberInduction
  <1> DEFINE i == (n - m) - 1
  <1>5. i \in Nat /\ m + 1 + i = n
    BY <1>1
  <1>6. i \in G /\ n <= Byte - 1
    BY <1>4, <1>5
  <1> HIDE DEF i
  <1> QED  BY <1>5, <1>6

-----------------------------------------------------------------------------
\* What one unit of the new mantissa is worth, counted in the last bytes of the
\* product it is made of, and how much of the product it keeps.
Unit(new, e) ==
  IF new >= FourBytes THEN Byte * Byte
  ELSE IF new % Byte = 0 \/ new >= ThreeBytes \/ e = 0 THEN Byte ELSE 1

Kept(new, e) == (new \div Unit(new, e)) * Unit(new, e)

\* The form ApplyCoeffToTarget chooses, and the number it stands for.
Rounded(new, e) ==
  IF new >= FourBytes
  THEN [exp |-> (e + 1) % Byte, mant |-> new \div (Byte * Byte)]
  ELSE IF new % Byte = 0 \/ new >= ThreeBytes \/ e = 0
  THEN [exp |-> e, mant |-> new \div Byte]
  ELSE [exp |-> e - 1, mant |-> new]

NumberOf(b) == b.mant * PowerOfByte[b.exp]

\* Squares and cubes of a byte.
LEMMA ByteSquare ==
  /\ Byte * Byte \in Nat \ {0} /\ Byte \in Nat \ {0} /\ Byte >= 4
  /\ ThreeBytes = Byte * (Byte * Byte) /\ ThreeBytes = (Byte * Byte) * Byte
  /\ FourBytes = (Byte * Byte) * (Byte * Byte) /\ FourBytes = ThreeBytes * Byte
  /\ ThreeBytes \in Nat /\ FourBytes \in Nat /\ ThreeBytes <= FourBytes
  <1>1. Byte * ThreeBytes >= 1 * ThreeBytes
    BY ByteNumbers, ProductGrows
  <1> QED  BY <1>1, ByteNumbers DEF ThreeBytes, FourBytes

\* The three forms in one: the mantissa counts units, the number it stands for is
\* what is kept, and of three bytes or more two are in the mantissa.
LEMMA RoundedIs ==
  ASSUME NEW new \in Nat, NEW e \in 0 .. Byte - 2
  PROVE  LET r == Rounded(new, e)
             u == Unit(new, e)
         IN  /\ u \in Nat \ {0} /\ r.mant = new \div u
             /\ r.mant \in Nat /\ r.exp \in 0 .. Byte - 1
             /\ Byte * PowerOfByte[r.exp] = u * PowerOfByte[e]
             /\ r.exp > e => r.mant >= Byte * Byte
             /\ r.mant >= Byte * Byte \/ e = 0 \/ Kept(new, e) = new
             /\ Kept(new, e) \in Nat /\ Kept(new, e) <= new /\ new < Kept(new, e) + u
  <1> DEFINE r == Rounded(new, e)
             u == Unit(new, e)
             B == Byte
             P == PowerOfByte
  <1>1. e \in Nat /\ e + 1 < B /\ B \in Nat \ {0} /\ P[e] \in Nat \ {0}
    BY PowersOfByte, ByteSquare
  <1>2. u \in Nat \ {0}
    BY ByteSquare DEF Unit
  <1>3. /\ Kept(new, e) \in Nat /\ Kept(new, e) <= new /\ new < Kept(new, e) + u
        /\ new \div u \in Nat
    <2>1. Kept(new, e) = (new \div u) * u
      BY DEF Kept
    <2> HIDE DEF u
    <2> QED  BY <1>2, <2>1, Floor
  <1>4. CASE new >= FourBytes
    <2>1. u = B * B
      BY <1>4 DEF Unit
    <2>2. r = [exp |-> (e + 1) % B, mant |-> new \div (B * B)]
      BY <1>4 DEF Rounded
    <2>3. (e + 1) % B = e + 1
      BY <1>1
    <2>4. r.exp = e + 1 /\ r.mant = new \div u
      BY <2>1, <2>2, <2>3
    <2>5. P[e + 1] = B * P[e]
      BY PowersOfByte
    <2>6. B * P[r.exp] = u * P[e]
      BY <1>1, <2>1, <2>4, <2>5
    <2>7. r.mant >= B * B
      <3> DEFINE sq == B * B
                 q == new \div sq
      <3>1. sq \in Nat \ {0} /\ sq * sq <= new /\ r.mant = q
        BY <1>4, <2>1, <2>4, ByteSquare
      <3> HIDE DEF q, sq
      <3>2. q \in Nat /\ new < q * sq + sq
        BY <3>1, Floor DEF q
      <3>3. (q + 1) * sq = q * sq + sq
        BY <3>1, <3>2
      <3>4. sq * sq < (q + 1) * sq
        BY <3>1, <3>2, <3>3
      <3>5. sq < q + 1
        BY <3>1, <3>2, <3>4, SameFactor
      <3> QED  BY <3>1, <3>2, <3>5 DEF sq
    <2> HIDE DEF r, u
    <2> QED  BY <1>1, <1>2, <1>3, <2>4, <2>6, <2>7 DEF r, u
  <1>5. CASE ~(new >= FourBytes) /\ (new % Byte = 0 \/ new >= ThreeBytes \/ e = 0)
    <2>1. u = B
      BY <1>5 DEF Unit
    <2>2. r = [exp |-> e, mant |-> new \div B]
      BY <1>5 DEF Rounded
    <2>3. r.exp = e /\ r.mant = new \div u
      BY <2>1, <2>2
    <2>4. B * P[r.exp] = u * P[e]
      BY <1>1, <2>1, <2>3
    <2> DEFINE q == new \div B
    <2>5. r.mant = q /\ Kept(new, e) = q * B
      BY <2>1, <2>3 DEF Kept
    <2>6. CASE e = 0
      <3> HIDE DEF r, u
      <3> QED  BY <1>1, <1>2, <1>3, <2>3, <2>4, <2>6 DEF r, u
    <2>7. CASE new % B = 0
      <3>1. new = q * B + (new % B)
        BY <1>1
      <3>2. q * B \in Nat
        BY <1>1, Floor
      <3>3. Kept(new, e) = new
        <4> DEFINE k == q * B
        <4> HIDE DEF k
        <4>1. new = k + (new % B) /\ k \in Nat /\ Kept(new, e) = k
          BY <2>5, <3>1, <3>2 DEF k
        <4> QED  BY <2>7, <4>1
      <3> HIDE DEF r, u
      <3> QED  BY <1>1, <1>2, <1>3, <2>3, <2>4, <3>3 DEF r, u
    <2>8. CASE new >= ThreeBytes
      <3> HIDE DEF q
      <3>1. q \in Nat /\ new < q * B + B
        BY <1>1, Floor DEF q
      <3> DEFINE sq == B * B
      <3>2. sq \in Nat /\ sq * B <= new
        BY <2>8, ByteSquare
      <3> HIDE DEF sq
      <3>3. (q + 1) * B = q * B + B
        BY <1>1, <3>1
      <3>4. sq * B < (q + 1) * B
        BY <1>1, <3>1, <3>2, <3>3
      <3>5. sq < q + 1
        BY <1>1, <3>1, <3>2, <3>4, SameFactor
      <3>6. r.mant >= B * B
        BY <2>5, <3>1, <3>2, <3>5 DEF sq
      <3> HIDE DEF r, u
      <3> QED  BY <1>1, <1>2, <1>3, <2>3, <2>4, <3>6 DEF r, u
    <2> QED  BY <1>5, <2>6, <2>7, <2>8
  <1>6. CASE ~(new >= FourBytes) /\ ~(new % Byte = 0 \/ new >= ThreeBytes \/ e = 0)
    <2>1. u = 1
      BY <1>6 DEF Unit
    <2>2. r = [exp |-> e - 1, mant |-> new]
      BY <1>6 DEF Rounded
    <2>3. new \div 1 = new /\ new * 1 = new
      OBVIOUS
    <2>4. r.exp = e - 1 /\ r.mant = new \div u /\ Kept(new, e) = new
      BY <2>1, <2>2, <2>3 DEF Kept
    <2>5. e - 1 \in 0 .. Byte - 2 /\ (e - 1) + 1 = e
      BY <1>1, <1>6
    <2>6. P[e] = B * P[e - 1]
      BY <2>5, PowersOfByte
    <2>7. B * P[r.exp] = u * P[e]
      BY <1>1, <2>1, <2>4, <2>6
    <2>8. r.mant \in Nat /\ ~(r.exp > e) /\ r.exp \in 0 .. Byte - 1
      BY <1>1, <2>2, <2>5
    <2> HIDE DEF r, u
    <2> QED  BY <1>1, <1>2, <1>3, <2>4, <2>7, <2>8 DEF r, u
  <1> QED  BY <1>4, <1>5, <1>6

\* What is kept of a larger product is not less.
LEMMA KeptGrows ==
  ASSUME NEW a \in Nat, NEW b \in Nat, a <= b, NEW e \in 0 .. Byte - 2
  PROVE  Kept(a, e) <= Kept(b, e)
  <1> DEFINE u == Unit(a, e)
             v == Unit(b, e)
             p == a \div u
             q == b \div v
  <1>1. /\ u \in Nat \ {0} /\ Kept(a, e) \in Nat /\ Kept(a, e) <= a
        /\ v \in Nat \ {0} /\ Kept(b, e) \in Nat /\ Kept(b, e) <= b /\ b < Kept(b, e) + v
    BY RoundedIs
  <1>2. CASE Kept(b, e) = b
    BY <1>1, <1>2
  <1>3. CASE u = v
    <2>1. Kept(a, e) = p * u /\ Kept(b, e) = q * u
      BY <1>3 DEF Kept
    <2>2. p \in Nat /\ q \in Nat /\ p * u <= a /\ b < q * u + u
      BY <1>1, <1>3, Floor
    <2> HIDE DEF p, q, u, v
    <2>3. (q + 1) * u = q * u + u /\ p * u \in Nat
      BY <1>1, <2>2
    <2>4. p * u < (q + 1) * u
      BY <1>1, <2>1, <2>2, <2>3
    <2>5. p < q + 1
      BY <1>1, <2>2, <2>4, SameFactor
    <2>6. p * u <= q * u
      BY <1>1, <2>2, <2>5, ProductGrows
    <2> QED  BY <2>1, <2>6
  <1>4. CASE Kept(b, e) # b /\ u # v
    <2>1. q >= Byte * Byte \/ e = 0
      <3>1. Rounded(b, e).mant = q /\ (Rounded(b, e).mant >= Byte * Byte \/ e = 0 \/ Kept(b, e) = b)
        BY RoundedIs
      <3> QED  BY <1>4, <3>1
    <2>2. q \in Nat /\ Kept(b, e) = q * v
      BY <1>1, Floor DEF Kept
    <2>3. CASE b >= FourBytes
      <3>1. v = Byte * Byte /\ a < FourBytes
        <4>1. v = Byte * Byte
          BY <2>3 DEF Unit
        <4>2. a >= FourBytes => u = Byte * Byte
          BY DEF Unit
        <4> QED  BY <1>4, <4>1, <4>2, ByteSquare
      <3>2. q >= Byte * Byte
        <4>1. Rounded(b, e).mant = q /\ Rounded(b, e).exp = (e + 1) % Byte
          BY <2>3, RoundedIs DEF Rounded
        <4>2. (e + 1) % Byte = e + 1
          BY ByteSquare
        <4> QED  BY <4>1, <4>2, RoundedIs
      <3>3. q * v >= (Byte * Byte) * (Byte * Byte)
        <4> DEFINE sq == Byte * Byte
        <4>1. sq \in Nat \ {0} /\ v = sq /\ sq <= q
          BY <3>1, <3>2, ByteSquare
        <4> HIDE DEF sq, q, v
        <4>2. sq * v <= q * v
          BY <1>1, <2>2, <4>1, ProductGrows
        <4> QED  BY <4>1, <4>2 DEF sq
      <3>4. q * v >= FourBytes
        BY <3>3, ByteSquare
      <3> QED  BY <1>1, <2>2, <3>1, <3>4, ByteSquare
    <2>4. CASE b < FourBytes
      <3>1. v = Byte /\ u = 1
        <4>1. a < FourBytes
          BY <2>4, ByteSquare
        <4>2. v \in {Byte, 1} /\ u \in {Byte, 1}
          BY <2>4, <4>1, ByteSquare DEF Unit
        <4>3. v # 1
          <5>1. b \div 1 = b /\ b * 1 = b
            OBVIOUS
          <5> QED  BY <1>4, <5>1 DEF Kept
        <4> QED  BY <1>4, <4>2, <4>3
      <3>2. e # 0 /\ a < ThreeBytes
        <4>1. Byte # 1 /\ a < FourBytes
          BY <2>4, ByteSquare
        <4> QED  BY <3>1, <4>1, ByteSquare DEF Unit
      <3>3. q * Byte >= (Byte * Byte) * Byte
        <4> DEFINE sq == Byte * Byte
        <4>1. sq \in Nat \ {0} /\ sq <= q
          BY <2>1, <3>2, ByteSquare
        <4> HIDE DEF sq, q
        <4>2. sq * Byte <= q * Byte
          BY <2>2, <4>1, ByteSquare, ProductGrows
        <4> QED  BY <4>2 DEF sq
      <3>4. q * v >= ThreeBytes
        BY <3>1, <3>3, ByteSquare
      <3> QED  BY <1>1, <2>2, <3>2, <3>4, ByteSquare
    <2> QED  BY <2>3, <2>4, ByteSquare
  <1> QED  BY <1>2, <1>3, <1>4

\* The result is what the product comes to in units of the new mantissa: exact
\* stands for the target times the coefficient c1 / c2, over c2.
LEMMA RoundedBounds ==
  ASSUME NEW m \in Nat, NEW e \in 0 .. Byte - 2, NEW c1 \in Nat, NEW c2 \in Nat \ {0}
  PROVE  LET new == (m * Byte * c1) \div c2
             r == Rounded(new, e)
             exact == (m * c1) * PowerOfByte[e]
         IN  /\ new \in Nat
             /\ NumberOf(r) * c2 <= exact
             /\ exact < (NumberOf(r) + PowerOfByte[r.exp]) * c2
             /\ \/ r.mant >= Byte * Byte \/ e = 0
                \/ (exact - NumberOf(r) * c2) * Byte < c2 * PowerOfByte[e]
  <1> DEFINE x == m * c1
             new == (m * Byte * c1) \div c2
             r == Rounded(new, e)
             u == Unit(new, e)
             k == Kept(new, e)
             p == PowerOfByte[e]
             pr == PowerOfByte[r.exp]
             N == r.mant * pr
             B == Byte
  <1>1. x \in Nat /\ p \in Nat \ {0} /\ B \in Nat \ {0} /\ m * Byte * c1 = x * B
    BY PowersOfByte, ByteSquare
  <1>2. new \in Nat /\ new * c2 <= x * B /\ x * B < new * c2 + c2
    <2> DEFINE a == m * Byte * c1
    <2>1. a = x * B /\ a \in Nat /\ new = a \div c2
      BY <1>1
    <2> HIDE DEF a, x, new
    <2>2. (a \div c2) \in Nat /\ (a \div c2) * c2 <= a /\ a < (a \div c2) * c2 + c2
      BY <2>1, Floor
    <2> QED  BY <2>1, <2>2
  <1> HIDE DEF new
  <1>3. /\ u \in Nat \ {0} /\ r.mant = new \div u /\ r.mant \in Nat
        /\ r.exp \in 0 .. Byte - 1 /\ B * pr = u * p
        /\ r.mant >= B * B \/ e = 0 \/ k = new
        /\ k \in Nat /\ k <= new /\ new < k + u
    BY <1>2, RoundedIs
  <1>4. pr \in Nat \ {0} /\ k = r.mant * u
    BY <1>3, PowersOfByte DEF Kept
  <1>5. NumberOf(r) = N
    BY DEF NumberOf
  <1> DEFINE q == r.mant
  <1> HIDE DEF r, u, k, p, pr, x, B
  <1>6. q \in Nat /\ N \in Nat /\ B * N = k * p
    <2>1. B * (q * pr) = q * (B * pr) /\ q * (u * p) = (q * u) * p
      BY <1>1, <1>3, <1>4
    <2> QED  BY <1>3, <1>4, <2>1
  <1> HIDE DEF q, N
  <1>7. B * (N * c2) = (k * c2) * p
    <2>1. B * (N * c2) = (B * N) * c2 /\ (k * p) * c2 = (k * c2) * p
      BY <1>1, <1>3, <1>6
    <2> QED  BY <1>6, <2>1
  <1>8. B * (x * p) = (x * B) * p
    BY <1>1
  <1>9. N * c2 <= x * p
    <2>1. k * c2 <= new * c2 /\ k * c2 \in Nat /\ new * c2 \in Nat
      BY <1>2, <1>3, ProductGrows
    <2>2. k * c2 <= x * B /\ x * B \in Nat
      BY <1>1, <1>2, <2>1
    <2>3. (k * c2) * p <= (x * B) * p
      BY <1>1, <2>1, <2>2, ProductGrows
    <2>4. (N * c2) * B <= (x * p) * B /\ N * c2 \in Nat /\ x * p \in Nat
      BY <1>1, <1>6, <1>7, <1>8, <2>3
    <2> QED  BY <1>1, <2>4, SameFactor
  <1>10. x * p < (N + pr) * c2
    <2>1. (new + 1) * c2 <= (k + u) * c2 /\ (new + 1) * c2 = new * c2 + c2
      BY <1>2, <1>3, ProductGrows
    <2>2. x * B < (k + u) * c2 /\ x * B \in Nat /\ (k + u) * c2 \in Nat /\ new * c2 \in Nat
      BY <1>1, <1>2, <1>3, <2>1
    <2>3. (x * B) * p < ((k + u) * c2) * p
      BY <1>1, <2>2, SameFactor
    <2>4. ((k + u) * c2) * p = (k * p + u * p) * c2
      BY <1>1, <1>3
    <2>5. (k * p + u * p) * c2 = (B * N + B * pr) * c2
      BY <1>3, <1>6
    <2>6. (B * N + B * pr) * c2 = ((N + pr) * c2) * B
      BY <1>1, <1>4, <1>6
    <2>7. (x * p) * B < ((N + pr) * c2) * B
      BY <1>1, <1>8, <2>3, <2>4, <2>5, <2>6
    <2> DEFINE a == x * p
               b == (N + pr) * c2
    <2>8. a \in Int /\ b \in Int
      BY <1>1, <1>4, <1>6
    <2> HIDE DEF a, b
    <2>9. a < b
      BY <1>1, <2>7, <2>8, SameFactor DEF a, b
    <2> QED  BY <2>9 DEF a, b
  <1>11. ASSUME k = new
         PROVE  (x * p - N * c2) * B < c2 * p
    <2>1. x * B < (k + 1) * c2
      <3>1. (k + 1) * c2 = k * c2 + c2
        BY <1>3, ProductGrows
      <3> QED  BY <1>2, <1>11, <3>1
    <2>2. x * B \in Nat /\ (k + 1) * c2 \in Nat
      BY <1>1, <1>3
    <2>3. (x * B) * p < ((k + 1) * c2) * p
      BY <1>1, <2>1, <2>2, SameFactor
    <2>4. ((k + 1) * c2) * p = (k * c2) * p + c2 * p
      BY <1>1, <1>3
    <2>5. B * (x * p) < B * (N * c2) + c2 * p
      BY <1>7, <1>8, <2>3, <2>4
    <2> DEFINE a == x * p
               b == N * c2
               d == c2 * p
    <2>6. a \in Nat /\ b \in Nat /\ d \in Nat
      BY <1>1, <1>6
    <2> HIDE DEF a, b, d
    <2>7. B * a < B * b + d
      BY <2>5 DEF a, b, d
    <2>8. (a - b) * B = B * a - B * b
      BY <1>1, <2>6
    <2>9. B * a \in Nat /\ B * b \in Nat
      BY <1>1, <2>6
    <2> DEFINE f == B * a
               g == B * b
    <2> HIDE DEF f, g
    <2>10. f < g + d /\ f \in Nat /\ g \in Nat
      BY <2>7, <2>9 DEF f, g
    <2>11. f - g < d
      BY <2>6, <2>10
    <2> QED  BY <2>8, <2>11 DEF a, b, d, f, g
  <1>12. q >= B * B \/ e = 0 \/ (x * p - N * c2) * B < c2 * p
    BY <1>3, <1>11 DEF q
  <1> QED
    BY <1>2, <1>5, <1>9, <1>10, <1>12 DEF x, new, r, p, pr, B, q

-----------------------------------------------------------------------------
\* The compact form b is over MaxDifficulty in the order of compact forms.
Above(b) ==
  \/ b.exp > MaxDifficulty.exp
  \/ b.exp = MaxDifficulty.exp /\ b.mant > MaxDifficulty.mant

\* MaxDifficulty is 0x18ffffff: its first mantissa byte is not zero.  A target
\* genesis is given is over it in its compact form only if it is also far over it
\* as a number.
Sane(b) ==
  \/ ~Above(b)
  \/ b.exp < Byte - 1 /\ NumberOf(b) >= 4 * NumberOf(MaxDifficulty)

SaneTargets ==
  /\ MaxDifficulty.mant >= Byte * Byte
  /\ \A g \in GenesisBits : Sane(g)

\* A form that is not above is less as a number, by one in its last byte at least.
LEMMA NotAbove ==
  ASSUME MaxDifficulty.mant >= Byte * Byte, NEW b \in Bits, ~Above(b), b # MaxDifficulty
  PROVE  NumberOf(b) + PowerOfByte[b.exp] <= NumberOf(MaxDifficulty)
  <1> DEFINE M == MaxDifficulty
             p == PowerOfByte[b.exp]
             pM == PowerOfByte[M.exp]
             sq == Byte * Byte
  <1>1. /\ b.exp \in 0 .. Byte - 1 /\ b.mant \in Nat /\ b.mant + 1 <= ThreeBytes
        /\ M.exp \in 0 .. Byte - 1 /\ M.mant \in Nat /\ M \in Bits
    BY TargetAssumption, ByteSquare DEF Bits
  <1>2. p \in Nat \ {0} /\ pM \in Nat \ {0} /\ sq \in Nat \ {0} /\ Byte \in Nat \ {0}
    BY <1>1, PowersOfByte, ByteSquare
  <1>3. NumberOf(b) + p = (b.mant + 1) * p
    BY <1>1, <1>2 DEF NumberOf
  <1>4. CASE b.exp = M.exp
    <2>1. b.mant # M.mant
      BY <1>1, <1>4 DEF Bits
    <2>2. b.mant + 1 <= M.mant
      BY <1>1, <1>4, <2>1 DEF Above
    <2>3. (b.mant + 1) * p <= M.mant * p
      BY <1>1, <1>2, <2>2, ProductGrows
    <2> QED  BY <1>3, <1>4, <2>3 DEF NumberOf
  <1>5. CASE b.exp # M.exp
    <2>1. b.exp < M.exp
      BY <1>1, <1>5 DEF Above
    <2>2. PICK q \in Nat \ {0} : pM = Byte * (q * p)
      BY <1>1, <2>1, PowerGap
    <2> DEFINE mM == M.mant
               mb == b.mant + 1
    <2>3. mM \in Nat /\ sq <= mM /\ mb \in Nat /\ mb <= sq * Byte
      BY <1>1, ByteSquare
    <2> HIDE DEF mM, mb, p, pM, sq
    <2>4. 1 * p <= q * p /\ q * p \in Nat
      BY <1>2, ProductGrows
    <2>5. mb * p <= (sq * Byte) * p
      BY <1>2, <2>3, ProductGrows
    <2>6. (sq * Byte) * p = p * (sq * Byte) /\ (q * p) * (sq * Byte) = sq * (Byte * (q * p))
      BY <1>2
    <2>7. p * (sq * Byte) <= (q * p) * (sq * Byte)
      BY <1>2, <2>4, ProductGrows
    <2>8. sq * pM <= mM * pM
      BY <1>2, <2>3, ProductGrows
    <2>9. mb * p <= mM * pM
      <3>1. mb * p \in Nat /\ sq * pM \in Nat /\ mM * pM \in Nat
        BY <1>2, <2>3
      <3>2. mb * p <= sq * pM
        BY <2>2, <2>5, <2>6, <2>7, <1>2, <2>3, <2>4
      <3> QED  BY <2>8, <3>1, <3>2
    <2> QED  BY <1>3, <2>9 DEF NumberOf, mM, mb, p, pM
  <1> QED  BY <1>4, <1>5

\* A form that is above is more as a number, if its mantissa fills its bytes.
LEMMA IsAbove ==
  ASSUME NEW b, b.mant \in Nat, b.exp \in 0 .. Byte - 1, Above(b),
         b.exp > MaxDifficulty.exp => b.mant >= Byte * Byte
  PROVE  NumberOf(b) >= NumberOf(MaxDifficulty)
  <1> DEFINE M == MaxDifficulty
             p == PowerOfByte[b.exp]
             pM == PowerOfByte[M.exp]
             mM == M.mant
             mb == b.mant
             sq == Byte * Byte
  <1>1. M.exp \in 0 .. Byte - 1 /\ mM \in Nat /\ mM <= sq * Byte /\ mb \in Nat
    BY TargetAssumption, ByteSquare DEF Bits
  <1>2. p \in Nat \ {0} /\ pM \in Nat \ {0} /\ sq \in Nat \ {0} /\ Byte \in Nat \ {0}
    BY <1>1, PowersOfByte, ByteSquare
  <1>3. CASE b.exp = M.exp
    <2>1. mM <= mb
      BY <1>1, <1>3 DEF Above
    <2>2. mM * p <= mb * p
      BY <1>1, <1>2, <2>1, ProductGrows
    <2> QED  BY <1>3, <2>2 DEF NumberOf
  <1>4. CASE b.exp > M.exp
    <2>1. PICK q \in Nat \ {0} : p = Byte * (q * pM)
      BY <1>1, <1>4, PowerGap
    <2>2. sq <= mb
      BY <1>4
    <2> HIDE DEF mM, mb, p, pM, sq
    <2>3. 1 * pM <= q * pM /\ q * pM \in Nat
      BY <1>2, ProductGrows
    <2>4. mM * pM <= (sq * Byte) * pM
      BY <1>1, <1>2, ProductGrows
    <2>5. (sq * Byte) * pM = pM * (sq * Byte) /\ (q * pM) * (sq * Byte) = sq * (Byte * (q * pM))
      BY <1>2
    <2>6. pM * (sq * Byte) <= (q * pM) * (sq * Byte)
      BY <1>2, <2>3, ProductGrows
    <2>7. sq * p <= mb * p
      BY <1>1, <1>2, <2>2, ProductGrows
    <2>8. mM * pM <= mb * p
      <3>1. mM * pM \in Nat /\ sq * p \in Nat /\ mb * p \in Nat
        BY <1>1, <1>2
      <3>2. mM * pM <= sq * p
        BY <1>1, <1>2, <2>1, <2>3, <2>4, <2>5, <2>6
      <3> QED  BY <2>7, <3>1, <3>2
    <2> QED  BY <2>8 DEF NumberOf, mM, mb, p, pM
  <1> QED  BY <1>1, <1>3, <1>4 DEF Above

\* A target far over MaxDifficulty stays over it, or becomes it, with a quarter
\* of the time expected.
LEMMA FarAbove ==
  ASSUME SaneTargets, NEW prev \in Bits, Above(prev), Sane(prev),
         NEW c1 \in Nat, NEW c2 \in Nat \ {0}, c2 <= 4 * c1
  PROVE  NumberOf(MaxDifficulty) * c2 <= (prev.mant * c1) * PowerOfByte[prev.exp]
  <1> DEFINE n == NumberOf(prev)
             nM == NumberOf(MaxDifficulty)
             m == prev.mant
             p == PowerOfByte[prev.exp]
  <1>1. m \in Nat /\ p \in Nat /\ nM \in Nat /\ n = m * p
    BY TargetAssumption, PowersOfByte, ByteSquare DEF Bits, NumberOf
  <1>2. 4 * nM <= n
    BY DEF Sane
  <1> HIDE DEF n, nM, m, p
  <1>3. n \in Nat
    BY <1>1
  <1>4. nM * c2 <= nM * (4 * c1)
    <2>1. c2 * nM <= (4 * c1) * nM
      BY <1>1, ProductGrows
    <2>2. c2 * nM = nM * c2 /\ (4 * c1) * nM = nM * (4 * c1)
      BY <1>1
    <2> QED  BY <2>1, <2>2
  <1>5. (4 * nM) * c1 <= n * c1
    BY <1>1, <1>2, <1>3, ProductGrows
  <1>6. nM * (4 * c1) = (4 * nM) * c1 /\ n * c1 = (m * c1) * p
    BY <1>1
  <1>7. nM * c2 \in Nat /\ (4 * nM) * c1 \in Nat /\ n * c1 \in Nat
    BY <1>1, <1>3
  <1> QED  BY <1>4, <1>5, <1>6, <1>7 DEF nM, m, p

\* A limited coefficient is a quarter at least.
LEMMA QuarterAtLeast ==
  ASSUME NEW num \in Int, NEW den \in Nat \ {0}, NEW c1, NEW c2,
         Limited(num, den) = <<c1, c2>>
  PROVE  c2 <= 4 * c1
  <1>1. PICK a1 \in Nat, a2 \in Nat \ {0} : Limited(num, den) = <<a1, a2>> /\ a2 <= 4 * a1
    BY LimitedType
  <1> QED  BY <1>1

\* What ApplyCoeffToTarget makes of a target, by its coefficient c1 / c2.
LEMMA AppliedIs ==
  ASSUME NEW num \in Int, NEW den \in Nat \ {0}, NEW prev \in Bits,
         NEW c1, NEW c2, Limited(num, den) = <<c1, c2>>
  PROVE  LET r == Rounded((prev.mant * Byte * c1) \div c2, prev.exp)
         IN  ApplyCoeffToTarget(num, den, prev) = IF Above(r) THEN MaxDifficulty ELSE r
  <1>1. Scaled(Limited(num, den), prev.mant) = (prev.mant * Byte * c1) \div c2
    BY DEF Scaled
  <1> QED  BY <1>1 DEF ApplyCoeffToTarget, Rounded, Capped, Above

\* A retarget leaves a sane target.
LEMMA AppliedIsSane ==
  ASSUME NEW num \in Int, NEW den \in Nat \ {0}, NEW prev \in Bits
  PROVE  Sane(ApplyCoeffToTarget(num, den, prev))
  <1>1. PICK c1 \in Nat, c2 \in Nat \ {0} : Limited(num, den) = <<c1, c2>>
    BY LimitedType
  <1>2. ~Above(MaxDifficulty)
    BY TargetAssumption DEF Above, Bits
  <1> QED  BY <1>1, <1>2, AppliedIs DEF Sane

\* There is room for one more in the exponent of a sane target.
LEMMA SaneExponent ==
  ASSUME NEW prev \in Bits, Sane(prev)
  PROVE  prev.exp \in 0 .. Byte - 2 /\ prev.mant \in Nat
  BY TargetAssumption DEF Sane, Above, Bits

\* A retarget that comes out over MaxDifficulty would be more than it as a number.
LEMMA CappedIsLess ==
  ASSUME SaneTargets, NEW prev \in Bits, Sane(prev), NEW new \in Nat,
         ~Above(prev), Above(Rounded(new, prev.exp))
  PROVE  NumberOf(MaxDifficulty) <= NumberOf(Rounded(new, prev.exp))
  <1> DEFINE r == Rounded(new, prev.exp)
  <1>1. /\ r.mant \in Nat /\ r.exp \in 0 .. Byte - 1
        /\ r.exp > prev.exp => r.mant >= Byte * Byte
    BY SaneExponent, RoundedIs
  <1>2. prev.exp <= MaxDifficulty.exp
    BY TargetAssumption DEF Above, Bits
  <1>3. r.exp > MaxDifficulty.exp => r.exp > prev.exp
    BY <1>1, <1>2, TargetAssumption DEF Bits
  <1> HIDE DEF r
  <1>4. NumberOf(r) >= NumberOf(MaxDifficulty)
    BY <1>1, <1>3, IsAbove DEF r
  <1>5. NumberOf(r) \in Nat /\ NumberOf(MaxDifficulty) \in Nat
    BY <1>1, PowersOfByte, TargetAssumption, ByteSquare DEF NumberOf, Bits
  <1> QED  BY <1>4, <1>5 DEF r

\* A retarget multiplies by the limited coefficient and rounds down.
LEMMA AppliedRounds ==
  ASSUME SaneTargets, NEW num \in Int, NEW den \in Nat \ {0}, NEW prev \in Bits, Sane(prev),
         NEW c1 \in Nat, NEW c2 \in Nat \ {0}, Limited(num, den) = <<c1, c2>>
  PROVE  LET b == ApplyCoeffToTarget(num, den, prev)
             exact == (prev.mant * c1) * PowerOfByte[prev.exp]
         IN  /\ NumberOf(b) * c2 <= exact
             /\ b = MaxDifficulty \/ exact < (NumberOf(b) + PowerOfByte[b.exp]) * c2
             /\ \/ b.mant >= Byte * Byte \/ prev.exp = 0
                \/ (exact - NumberOf(b) * c2) * Byte < c2 * PowerOfByte[prev.exp]
  <1> DEFINE M == MaxDifficulty
             new == (prev.mant * Byte * c1) \div c2
             r == Rounded(new, prev.exp)
             b == ApplyCoeffToTarget(num, den, prev)
             exact == (prev.mant * c1) * PowerOfByte[prev.exp]
  <1>1. prev.exp \in 0 .. Byte - 2 /\ prev.mant \in Nat /\ c2 <= 4 * c1
    BY SaneExponent, QuarterAtLeast
  <1>2. b = IF Above(r) THEN M ELSE r
    BY AppliedIs
  <1>3. /\ new \in Nat
        /\ NumberOf(r) * c2 <= exact
        /\ exact < (NumberOf(r) + PowerOfByte[r.exp]) * c2
        /\ \/ r.mant >= Byte * Byte \/ prev.exp = 0
           \/ (exact - NumberOf(r) * c2) * Byte < c2 * PowerOfByte[prev.exp]
    BY <1>1, RoundedBounds
  <1>4. CASE ~Above(r)
    <2>1. b = r
      BY <1>2, <1>4
    <2> HIDE DEF b, r, exact, new
    <2> QED  BY <1>3, <2>1 DEF b, exact
  <1>5. CASE Above(r)
    <2>1. b = M /\ M.mant >= Byte * Byte
      BY <1>2, <1>5 DEF SaneTargets
    <2>2. NumberOf(M) * c2 <= exact
      <3>1. CASE Above(prev)
        BY <1>1, <3>1, FarAbove
      <3>2. CASE ~Above(prev)
        <4>1. NumberOf(M) <= NumberOf(r)
          BY <1>3, <1>5, <3>2, CappedIsLess
        <4>2. NumberOf(M) \in Nat /\ NumberOf(r) \in Nat
          <5>1. r.mant \in Nat /\ r.exp \in 0 .. Byte - 1
            BY <1>1, <1>3, RoundedIs
          <5> HIDE DEF r
          <5> QED
            BY <5>1, PowersOfByte, TargetAssumption, ByteSquare DEF NumberOf, Bits
        <4> DEFINE nM == NumberOf(M)
                   n == NumberOf(r)
        <4>3. exact \in Nat
          <5>1. PowerOfByte[prev.exp] \in Nat
            <6>1. prev.exp \in 0 .. Byte - 1
              BY <1>1, ByteSquare
            <6> QED  BY <6>1, PowersOfByte
          <5> QED  BY <1>1, <5>1
        <4> HIDE DEF nM, n, exact
        <4>4. nM * c2 <= n * c2 /\ nM * c2 \in Nat /\ n * c2 \in Nat
          BY <4>1, <4>2, ProductGrows DEF nM, n
        <4> QED  BY <1>3, <4>3, <4>4 DEF nM, n
      <3> QED  BY <3>1, <3>2
    <2> HIDE DEF b, r, exact
    <2> QED  BY <2>1, <2>2 DEF b, exact
  <1> QED  BY <1>4, <1>5

-----------------------------------------------------------------------------
\* The coefficient grows with the time the interval took.
LEMMA LimitedGrows ==
  ASSUME NEW x \in Int, NEW y \in Int, x <= y, NEW den \in Nat \ {0},
         NEW c1 \in Nat, NEW c2 \in Nat \ {0}, Limited(x, den) = <<c1, c2>>,
         NEW d1 \in Nat, NEW d2 \in Nat \ {0}, Limited(y, den) = <<d1, d2>>
  PROVE  c1 * d2 <= d1 * c2
  <1>1. CASE x > 4 * den
    BY <1>1 DEF Limited
  <1>2. CASE 4 * x < den
    <2>1. c1 = 1 /\ c2 = 4
      BY <1>2 DEF Limited
    <2>2. d2 <= 4 * d1
      BY QuarterAtLeast
    <2> QED  BY <2>1, <2>2
  <1>3. CASE ~(x > 4 * den) /\ ~(4 * x < den)
    <2>1. c1 = x /\ c2 = den
      BY <1>3 DEF Limited
    <2>2. CASE y > 4 * den
      BY <1>3, <2>1, <2>2 DEF Limited
    <2>3. CASE ~(y > 4 * den)
      <3>1. d1 = y /\ d2 = den
        BY <1>3, <2>3 DEF Limited
      <3>2. c1 * den <= d1 * den
        BY <2>1, <3>1, ProductGrows
      <3> QED  BY <2>1, <3>1, <3>2
    <2> QED  BY <2>2, <2>3
  <1> QED  BY <1>1, <1>2, <1>3

\* And the product with it.
LEMMA QuotientGrows ==
  ASSUME NEW x \in Nat, NEW c1 \in Nat, NEW c2 \in Nat \ {0}, NEW d1 \in Nat,
         NEW d2 \in Nat \ {0}, c1 * d2 <= d1 * c2
  PROVE  (x * c1) \div c2 <= (x * d1) \div d2
  <1> DEFINE a == (x * c1) \div c2
             b == (x * d1) \div d2
             y == x * c1
             z == x * d1
  <1>1. y \in Nat /\ z \in Nat
    OBVIOUS
  <1>2. a \in Nat /\ a * c2 <= y /\ b \in Nat /\ z < b * d2 + d2
    <2>1. a = y \div c2 /\ b = z \div d2
      OBVIOUS
    <2> HIDE DEF y, z, a, b
    <2> QED  BY <1>1, <2>1, Floor
  <1>3. y * d2 <= z * c2
    <2>1. (c1 * d2) * x <= (d1 * c2) * x
      BY ProductGrows
    <2>2. (c1 * d2) * x = y * d2 /\ (d1 * c2) * x = z * c2
      OBVIOUS
    <2> QED  BY <2>1, <2>2
  <1> HIDE DEF a, b, y, z
  <1>4. (a * c2) * d2 <= y * d2
    BY <1>1, <1>2, ProductGrows
  <1>5. z * c2 < ((b + 1) * d2) * c2
    <2>1. (b + 1) * d2 = b * d2 + d2
      BY <1>2
    <2>2. z < (b + 1) * d2 /\ (b + 1) * d2 \in Nat
      BY <1>2, <2>1
    <2> QED  BY <1>1, <2>2, SameFactor
  <1>6. (a * c2) * d2 < ((b + 1) * d2) * c2
    <2>1. (a * c2) * d2 \in Nat /\ y * d2 \in Nat /\ z * c2 \in Nat
          /\ ((b + 1) * d2) * c2 \in Nat
      BY <1>1, <1>2
    <2> QED  BY <1>3, <1>4, <1>5, <2>1
  <1>7. a < b + 1
    <2> DEFINE e == c2 * d2
    <2>1. e \in Nat \ {0} /\ (a * c2) * d2 = a * e /\ ((b + 1) * d2) * c2 = (b + 1) * e
      BY <1>2
    <2> HIDE DEF e
    <2> QED  BY <1>2, <1>6, <2>1, SameFactor
  <1>8. a <= b
    BY <1>2, <1>7
  <1> QED  BY <1>8 DEF a, b

\* So a longer interval does not give a lower number.
LEMMA AppliedGrows ==
  ASSUME SaneTargets, NEW prev \in Bits, Sane(prev), NEW den \in Nat \ {0},
         NEW x \in Int, NEW y \in Int, x <= y
  PROVE  NumberOf(ApplyCoeffToTarget(x, den, prev)) <= NumberOf(ApplyCoeffToTarget(y, den, prev))
  <1>1. PICK c1 \in Nat, c2 \in Nat \ {0} : Limited(x, den) = <<c1, c2>> /\ c2 <= 4 * c1
    BY LimitedType
  <1>2. PICK d1 \in Nat, d2 \in Nat \ {0} : Limited(y, den) = <<d1, d2>> /\ d2 <= 4 * d1
    BY LimitedType
  <1> DEFINE M == MaxDifficulty
             m == prev.mant * Byte
             e == prev.exp
             new == (m * c1) \div c2
             news == (m * d1) \div d2
             r == Rounded(new, e)
             s == Rounded(news, e)
             b == ApplyCoeffToTarget(x, den, prev)
             bs == ApplyCoeffToTarget(y, den, prev)
  <1>3. e \in 0 .. Byte - 2 /\ prev.mant \in Nat /\ m \in Nat
    BY SaneExponent, ByteSquare
  <1>4. new \in Nat /\ news \in Nat /\ new <= news
    <2>1. m * c1 \in Nat /\ m * d1 \in Nat
      BY <1>3
    <2>2. new \in Nat /\ news \in Nat
      BY <2>1, Floor
    <2>3. c1 * d2 <= d1 * c2
      BY <1>1, <1>2, LimitedGrows
    <2> HIDE DEF m
    <2> QED  BY <1>3, <2>2, <2>3, QuotientGrows
  <1>5. b = (IF Above(r) THEN M ELSE r) /\ bs = (IF Above(s) THEN M ELSE s)
    BY <1>1, <1>2, AppliedIs
  <1>6. b \in Bits /\ bs \in Bits /\ M \in Bits
    BY TargetType, TargetAssumption
  <1> HIDE DEF new, news, b, bs, m
  <1>7. NumberOf(r) <= NumberOf(s) /\ NumberOf(r) \in Nat /\ NumberOf(s) \in Nat
    <2> DEFINE p == PowerOfByte[e]
               pr == PowerOfByte[r.exp]
               ps == PowerOfByte[s.exp]
               u == Unit(new, e)
               us == Unit(news, e)
    <2>1. Kept(new, e) <= Kept(news, e) /\ Kept(new, e) \in Nat /\ Kept(news, e) \in Nat
      BY <1>3, <1>4, KeptGrows, RoundedIs
    <2>2. /\ r.mant \in Nat /\ r.mant = new \div u /\ u \in Nat /\ r.exp \in 0 .. Byte - 1
          /\ s.mant \in Nat /\ s.mant = news \div us /\ us \in Nat /\ s.exp \in 0 .. Byte - 1
          /\ Byte * pr = u * p /\ Byte * ps = us * p
      BY <1>3, <1>4, RoundedIs
    <2>3. Kept(new, e) = r.mant * u /\ Kept(news, e) = s.mant * us
      BY <2>2 DEF Kept
    <2>4. p \in Nat \ {0} /\ pr \in Nat \ {0} /\ ps \in Nat \ {0} /\ Byte \in Nat \ {0}
      BY <1>3, <2>2, PowersOfByte, ByteSquare
    <2>5. NumberOf(r) = r.mant * pr /\ NumberOf(s) = s.mant * ps
      BY DEF NumberOf
    <2> DEFINE q == r.mant
               qs == s.mant
    <2> HIDE DEF r, s, p, pr, ps, u, us, q, qs
    <2>6. (q * u) * p <= (qs * us) * p
      BY <2>1, <2>3, <2>4, ProductGrows DEF q, qs
    <2>7. (q * u) * p = (q * pr) * Byte /\ (qs * us) * p = (qs * ps) * Byte
      <3>1. (q * u) * p = q * (u * p) /\ (qs * us) * p = qs * (us * p)
        BY <2>2, <2>4 DEF q, qs
      <3>2. q * (Byte * pr) = (q * pr) * Byte /\ qs * (Byte * ps) = (qs * ps) * Byte
        BY <2>2, <2>4 DEF q, qs
      <3> QED  BY <2>2, <3>1, <3>2
    <2>8. q * pr \in Nat /\ qs * ps \in Nat
      BY <2>2, <2>4 DEF q, qs
    <2> DEFINE n == q * pr
               ns == qs * ps
    <2> HIDE DEF n, ns
    <2>9. n * Byte <= ns * Byte /\ n \in Nat /\ ns \in Nat
      BY <2>6, <2>7, <2>8 DEF n, ns
    <2>10. n <= ns
      BY <2>4, <2>9, SameFactor
    <2> QED  BY <2>5, <2>9, <2>10 DEF n, ns, q, qs
  <1>8. NumberOf(M) \in Nat /\ \A f \in Bits : NumberOf(f) \in Nat /\ PowerOfByte[f.exp] \in Nat
    BY <1>6, PowersOfByte, ByteSquare DEF NumberOf, Bits
  <1>9. ASSUME NEW f \in Bits, ~Above(f)
        PROVE  NumberOf(f) <= NumberOf(M)
    <2>1. CASE f = M
      BY <1>8, <2>1
    <2>2. CASE f # M
      <3>1. NumberOf(f) + PowerOfByte[f.exp] <= NumberOf(M)
        BY <1>9, <2>2, NotAbove DEF SaneTargets
      <3> QED  BY <1>8, <3>1
    <2> QED  BY <2>1, <2>2
  <1>10. ~Above(M)
    BY <1>6 DEF Above, Bits
  <1> HIDE DEF r, s
  <1>11. CASE Above(s)
    <2>1. bs = M /\ NumberOf(b) <= NumberOf(M)
      BY <1>5, <1>6, <1>9, <1>10, <1>11
    <2> QED  BY <2>1 DEF b, bs
  <1>12. CASE ~Above(s) /\ ~Above(r)
    <2>1. bs = s /\ b = r
      BY <1>5, <1>12
    <2> QED  BY <1>7, <2>1 DEF b, bs
  <1>13. CASE ~Above(s) /\ Above(r) /\ ~Above(prev)
    <2>1. bs = s /\ b = M
      BY <1>5, <1>13
    <2>2. NumberOf(M) <= NumberOf(r)
      BY <1>4, <1>13, CappedIsLess DEF r
    <2> QED  BY <1>7, <1>8, <2>1, <2>2 DEF b, bs
  <1>14. CASE ~Above(s) /\ Above(prev)
    <2>1. bs = s /\ s \in Bits
      BY <1>5, <1>6, <1>14
    <2>2. s = M
      <3>1. SUFFICES ASSUME s # M  PROVE FALSE
        OBVIOUS
      <3> DEFINE n == NumberOf(s) + PowerOfByte[s.exp]
                 nM == NumberOf(M)
                 exact == (prev.mant * d1) * PowerOfByte[e]
      <3>2. n <= nM
        BY <1>14, <2>1, <3>1, NotAbove DEF SaneTargets
      <3>3. exact < n * d2
        BY <1>3, RoundedBounds DEF s, news, m
      <3>4. nM * d2 <= exact
        BY <1>2, <1>14, FarAbove
      <3>5. n \in Nat /\ nM \in Nat /\ exact \in Nat
        <4>1. PowerOfByte[e] \in Nat
          <5>1. e \in 0 .. Byte - 1
            BY <1>3, ByteSquare
          <5> QED  BY <5>1, PowersOfByte
        <4> QED  BY <1>3, <1>8, <2>1, <4>1
      <3> HIDE DEF n, nM, exact
      <3>6. n * d2 <= nM * d2 /\ n * d2 \in Nat /\ nM * d2 \in Nat
        BY <3>2, <3>5, ProductGrows
      <3> QED  BY <3>3, <3>4, <3>5, <3>6
    <2>3. NumberOf(b) <= NumberOf(M)
      <3>1. ~Above(b)
        BY <1>5, <1>10
      <3> QED  BY <1>6, <1>9, <3>1
    <2> QED  BY <2>1, <2>2, <2>3 DEF b, bs
  <1> QED  BY <1>11, <1>12, <1>13, <1>14


-----------------------------------------------------------------------------
\* The expanded target is the number a compact form stands for, over the third
\* power of a byte and rounded down: below that power its bytes are cut off.
LEMMA ExpandIs ==
  ASSUME NEW b \in Bits
  PROVE  LET c == PowerOfByte[3]
         IN  /\ c \in Nat \ {0} /\ ExpandBits(b) \in Nat /\ NumberOf(b) \in Nat
             /\ ExpandBits(b) * c <= NumberOf(b)
             /\ NumberOf(b) < ExpandBits(b) * c + c
  <1> DEFINE m == b.mant
             e == b.exp
             P == PowerOfByte
             c == PowerOfByte[3]
  <1>1. m \in Nat /\ e \in 0 .. Byte - 1 /\ Byte \in Nat \ {0} /\ Byte >= 4
    BY ByteSquare DEF Bits
  <1>2. \A n \in 0 .. Byte - 1 : P[n] \in Nat \ {0}
    BY PowersOfByte
  <1>3. 3 \in 0 .. Byte - 1 /\ c \in Nat \ {0} /\ P[e] \in Nat \ {0}
    BY <1>1, <1>2
  <1>4. NumberOf(b) = m * P[e] /\ NumberOf(b) \in Nat
    BY <1>1, <1>3 DEF NumberOf
  <1>5. ASSUME NEW n \in Nat, n + 1 <= Byte - 1
        PROVE  P[n + 1] = Byte * P[n]
    <2>1. n \in 0 .. Byte - 2
      BY <1>1, <1>5
    <2> QED  BY <2>1, PowersOfByte
  <1>6. P[0] = 1 /\ P[1] = Byte /\ P[2] = Byte * Byte /\ c = Byte * (Byte * Byte)
    <2>1. P[0] = 1
      BY PowersOfByte
    <2>2. P[0 + 1] = Byte * P[0] /\ P[1 + 1] = Byte * P[1] /\ P[2 + 1] = Byte * P[2]
      BY <1>1, <1>5
    <2> QED  BY <1>1, <2>1, <2>2
  <1>7. CASE e >= 3
    <2> DEFINE k == e - 3
    <2>1. k \in Nat /\ e = k + 3 /\ k \in 0 .. Byte - 1 /\ k + 3 <= Byte - 1
      BY <1>1, <1>7
    <2>2. ExpandBits(b) = m * P[k]
      BY <1>7 DEF ExpandBits
    <2> HIDE DEF k
    <2>3. P[k] \in Nat
      BY <1>2, <2>1
    <2>4. P[e] = P[k] * c
      <3>1. P[k + 1] = Byte * P[k]
        BY <1>1, <1>5, <2>1
      <3>2. P[(k + 1) + 1] = Byte * P[k + 1]
        BY <1>1, <1>5, <2>1
      <3>3. P[(k + 2) + 1] = Byte * P[k + 2]
        BY <1>1, <1>5, <2>1
      <3>4. (k + 1) + 1 = k + 2 /\ (k + 2) + 1 = e
        BY <2>1
      <3>5. P[e] = Byte * (Byte * (Byte * P[k]))
        BY <3>1, <3>2, <3>3, <3>4
      <3>6. Byte * (Byte * (Byte * P[k])) = P[k] * (Byte * (Byte * Byte))
        BY <1>1, <2>3
      <3> QED  BY <1>6, <3>5, <3>6
    <2> DEFINE p == P[k]
               x == m * p
    <2>5. NumberOf(b) = x * c /\ x \in Nat /\ ExpandBits(b) = x
      <3>1. m * (p * c) = (m * p) * c
        BY <1>1, <1>3, <2>3
      <3> QED  BY <1>1, <1>4, <2>2, <2>3, <2>4, <3>1
    <2> HIDE DEF x, c
    <2>6. x * c \in Nat /\ x * c <= x * c /\ x * c < x * c + c
      BY <1>3, <2>5
    <2> QED  BY <1>3, <1>4, <2>5, <2>6 DEF c
  <1>8. CASE ~(e >= 3)
    <2> DEFINE k == 3 - e
               q == P[k]
               x == m \div q
    <2>1. e \in {0, 1, 2} /\ k \in 0 .. Byte - 1
      BY <1>1, <1>8
    <2>2. ExpandBits(b) = x
      BY <1>8 DEF ExpandBits
    <2>3. q \in Nat \ {0}
      BY <1>2, <2>1
    <2>4. c = q * P[e]
      BY <1>1, <1>6, <2>1
    <2> DEFINE p == P[e]
    <2> HIDE DEF q, p, m
    <2>5. x \in Nat /\ x * q \in Nat /\ x * q <= m /\ m < x * q + q
      BY <1>1, <2>3, Floor
    <2> HIDE DEF x
    <2>6. p \in Nat \ {0} /\ m \in Nat
      BY <1>1, <1>3 DEF p
    <2>7. (x * q) * p <= m * p
      BY <2>5, <2>6, SameFactor
    <2>8. m * p < (x * q + q) * p
      <3>1. x * q + q \in Nat
        BY <2>3, <2>5
      <3> QED  BY <2>5, <2>6, <3>1, SameFactor
    <2>9. (x * q) * p = x * (q * p) /\ (x * q + q) * p = x * (q * p) + q * p
      BY <2>3, <2>5, <2>6
    <2> QED  BY <1>3, <1>4, <2>2, <2>4, <2>5, <2>7, <2>8, <2>9 DEF p, m
  <1> QED  BY <1>7, <1>8

\* A larger number does not expand to a smaller target.
LEMMA ExpandGrows ==
  ASSUME NEW a \in Bits, NEW b \in Bits, NumberOf(a) <= NumberOf(b)
  PROVE  ExpandBits(a) <= ExpandBits(b)
  <1> DEFINE c == PowerOfByte[3]
             x == ExpandBits(a)
             y == ExpandBits(b)
             n == NumberOf(a)
             k == NumberOf(b)
  <1>1. /\ c \in Nat \ {0} /\ x \in Nat /\ y \in Nat /\ n \in Nat /\ k \in Nat
        /\ x * c <= n /\ k < y * c + c /\ n <= k
    BY ExpandIs
  <1> HIDE DEF c, x, y, n, k
  <1>2. (y + 1) * c = y * c + c /\ x * c \in Nat /\ (y + 1) * c \in Nat
    BY <1>1
  <1>3. x * c < (y + 1) * c
    BY <1>1, <1>2
  <1>4. x < y + 1
    BY <1>1, <1>3, SameFactor
  <1> QED  BY <1>1, <1>4 DEF x, y

-----------------------------------------------------------------------------
\* The time an interval took, and the time it should take.
LEMMA RetargetTimes ==
  /\ \A ts \in Nat : ts - FirstStamp \in Int
  /\ ExpectedTime \in Nat \ {0}
  BY MiningAssumption DEF FirstStamp, ExpectedTime

\* The target of the next block is as sane as the last.
LEMMA NextTargetIsSane ==
  ASSUME TypeOK, Sane(lastHeader.bits)
  PROVE  Sane(GetTargetForBlock)
  <1>1. lastHeader.bits \in Bits /\ lastHeader.timestamp \in Nat
    BY DEF TypeOK
  <1>2. Sane(BitsFor(lastHeader.timestamp))
    BY <1>1, RetargetTimes, AppliedIsSane DEF BitsFor
  <1> QED  BY <1>2 DEF GetTargetForBlock

\* No header has a target that is above MaxDifficulty only in its compact form.
LEMMA MiningSane ==
  ASSUME SaneTargets
  PROVE  Spec => [](IInv /\ Sane(lastHeader.bits))
  <1>1. Init => Sane(lastHeader.bits)
    BY DEF Init, Header, SaneTargets
  <1>2. IInv /\ Sane(lastHeader.bits) /\ [Next]_vars => Sane(lastHeader.bits)'
    <2> SUFFICES ASSUME IInv, Sane(lastHeader.bits), [Next]_vars
                 PROVE  Sane(lastHeader.bits')
      BY DEF Sane, Above, NumberOf
    <2>1. Sane(GetTargetForBlock)
      BY NextTargetIsSane DEF IInv
    <2>2. CASE Adopt
      <3>1. lastHeader' = header /\ header.bits = GetTargetForBlock
        BY <2>2 DEF Adopt, Extend, IInv, BlockInHand
      <3> QED  BY <2>1, <3>1
    <2>3. ASSUME NEW ts \in Stamps, ReceiveHeader(ts)
          PROVE  Sane(lastHeader.bits')
      <3>1. lastHeader'.bits = GetTargetForBlock
        BY <2>3 DEF ReceiveHeader, Extend, Header
      <3> QED  BY <2>1, <3>1
    <2>4. CASE lastHeader' = lastHeader
      BY <2>4
    <2>5. Adopt \/ (\E ts \in Stamps : ReceiveHeader(ts)) \/ lastHeader' = lastHeader
      BY DEF Next, NewBlock, TargetPanics, Abandon, RefuseTx, RefuseBlock, Refuse, StartMining,
             TryNonce, Hit, Miss, TryNext, BumpTime, GoStale, ExpandDies, vars, chainVars
    <2> QED  BY <2>2, <2>3, <2>4, <2>5
  <1> QED  BY <1>1, <1>2, MiningInvariant, PTL DEF Spec

\* The target of a block at a retarget.
LEMMA RetargetedBits ==
  ASSUME IInv, Retargeted
  PROVE  /\ header.bits = BitsFor(lastHeader.timestamp)
         /\ lastHeader.bits \in Bits /\ lastHeader.timestamp \in Nat /\ header.bits \in Bits
  BY DEF Retargeted, IInv, TypeOK, BlockInHand, GetTargetForBlock

\* A retarget multiplies the target by the limited coefficient and rounds down,
\* by less than one in the last byte of the form ApplyCoeffToTarget has chosen,
\* and by less than one in the byte added for precision if it kept that byte.
\* MaxDifficulty as a limit, which compares compact forms, does not lift a target.
THEOREM MiningRetargetRounds ==
  ASSUME SaneTargets
  PROVE  Spec => []RetargetRounds
  <1>1. ASSUME IInv, Sane(lastHeader.bits), Retargeted
        PROVE  LET b == header.bits
                   prev == lastHeader.bits
                   exact == prev.mant * Coeff[1] * PowerOfByte[prev.exp]
                   lost == exact - b.mant * Coeff[2] * PowerOfByte[b.exp]
               IN  /\ lost >= 0
                   /\ b = MaxDifficulty \/ lost < Coeff[2] * PowerOfByte[b.exp]
                   /\ \/ b.mant >= Byte * Byte \/ prev.exp = 0
                      \/ lost * Byte < Coeff[2] * PowerOfByte[prev.exp]
    <2> DEFINE b == header.bits
               prev == lastHeader.bits
               num == lastHeader.timestamp - FirstStamp
               p == PowerOfByte[prev.exp]
               pb == PowerOfByte[b.exp]
    <2>1. /\ b = ApplyCoeffToTarget(num, ExpectedTime, prev)
          /\ prev \in Bits /\ b \in Bits /\ lastHeader.timestamp \in Nat
      BY <1>1, RetargetedBits DEF BitsFor
    <2>2. num \in Int /\ ExpectedTime \in Nat \ {0}
      BY <2>1, RetargetTimes
    <2>3. PICK c1 \in Nat, c2 \in Nat \ {0} : Limited(num, ExpectedTime) = <<c1, c2>>
      BY <2>2, LimitedType
    <2>4. Coeff[1] = c1 /\ Coeff[2] = c2
      BY <2>3 DEF Coeff
    <2> DEFINE exact == (prev.mant * c1) * p
               n == NumberOf(b)
    <2> HIDE DEF num
    <2>5. /\ n * c2 <= exact
          /\ b = MaxDifficulty \/ exact < (n + pb) * c2
          /\ \/ b.mant >= Byte * Byte \/ prev.exp = 0
             \/ (exact - n * c2) * Byte < c2 * p
      BY <1>1, <2>1, <2>2, <2>3, AppliedRounds
    <2>6. /\ p \in Nat /\ pb \in Nat /\ prev.mant \in Nat /\ b.mant \in Nat
      BY <2>1, PowersOfByte, ByteSquare DEF Bits
    <2>7. n = b.mant * pb
      BY DEF NumberOf
    <2>8. b.mant * c2 * pb = n * c2 /\ n \in Nat /\ exact \in Nat
      <3> DEFINE mb == b.mant
      <3>1. mb \in Nat
        BY <2>6
      <3> HIDE DEF mb, pb, p, n
      <3>2. mb * c2 * pb = (mb * pb) * c2 /\ mb * pb \in Nat
        BY <2>6, <3>1
      <3>3. exact \in Nat
        BY <2>6
      <3> QED  BY <2>7, <3>2, <3>3 DEF mb
    <2> DEFINE lost == exact - n * c2
    <2>9. /\ lost >= 0
          /\ b = MaxDifficulty \/ lost < c2 * pb
      <3> HIDE DEF n, pb, exact, b
      <3>1. n * c2 \in Nat /\ (n + pb) * c2 = n * c2 + c2 * pb /\ c2 * pb \in Nat
        BY <2>6, <2>8
      <3> DEFINE nc == n * c2
                 d == c2 * pb
      <3> HIDE DEF nc, d
      <3>2. nc \in Nat /\ d \in Nat /\ nc <= exact /\ (b = MaxDifficulty \/ exact < nc + d)
        BY <2>5, <3>1 DEF nc, d
      <3>3. exact - nc >= 0 /\ (b = MaxDifficulty \/ exact - nc < d)
        BY <2>8, <3>2
      <3> QED  BY <3>3 DEF nc, d
    <2>10. exact = prev.mant * Coeff[1] * PowerOfByte[prev.exp]
      BY <2>4
    <2>11. lost = exact - b.mant * Coeff[2] * PowerOfByte[b.exp]
      BY <2>4, <2>8
    <2>12. \/ b.mant >= Byte * Byte \/ prev.exp = 0
           \/ lost * Byte < c2 * p
      BY <2>5
    <2> HIDE DEF lost, exact, n
    <2> QED  BY <2>4, <2>9, <2>10, <2>11, <2>12
  <1>2. IInv /\ Sane(lastHeader.bits) => RetargetRounds
    BY <1>1 DEF RetargetRounds
  <1> QED  BY <1>2, MiningSane, PTL

\* The longer the interval took, the higher the new target: neither the change of
\* form, nor the dropped bytes, nor the limit turn the order around.
THEOREM MiningRetargetMonotone ==
  ASSUME SaneTargets
  PROVE  Spec => []RetargetMonotone
  <1>1. ASSUME IInv, Sane(lastHeader.bits), Retargeted,
               NEW ts \in Stamps, ts <= lastHeader.timestamp
        PROVE  ExpandBits(BitsFor(ts)) <= ExpandBits(header.bits)
    <2> DEFINE prev == lastHeader.bits
               x == ts - FirstStamp
               y == lastHeader.timestamp - FirstStamp
               a == ApplyCoeffToTarget(x, ExpectedTime, prev)
               b == ApplyCoeffToTarget(y, ExpectedTime, prev)
    <2>1. /\ header.bits = b /\ BitsFor(ts) = a
          /\ prev \in Bits /\ lastHeader.timestamp \in Nat
      BY <1>1, RetargetedBits DEF BitsFor
    <2>2. ts \in Nat /\ FirstStamp \in Int
      BY MiningAssumption DEF FirstStamp
    <2>3. x \in Int /\ y \in Int /\ x <= y /\ ExpectedTime \in Nat \ {0}
      BY <1>1, <2>1, <2>2, RetargetTimes
    <2> HIDE DEF x, y
    <2>4. NumberOf(a) <= NumberOf(b)
      BY <1>1, <2>1, <2>3, AppliedGrows
    <2>5. a \in Bits /\ b \in Bits
      BY <2>1, <2>3, TargetType
    <2> HIDE DEF a, b
    <2>6. ExpandBits(a) <= ExpandBits(b)
      BY <2>4, <2>5, ExpandGrows
    <2> QED  BY <2>1, <2>6
  <1>2. IInv /\ Sane(lastHeader.bits) => RetargetMonotone
    BY <1>1 DEF RetargetMonotone
  <1> QED  BY <1>2, MiningSane, PTL

=============================================================================
