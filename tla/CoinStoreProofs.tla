--------------------------- MODULE CoinStoreProofs ---------------------------
(***************************************************************************)
(* What a caller reads out of the chainstate, for all transactions and     *)
(* sizes, after any inserts, batches, spends and restarts: the outputs     *)
(* left unspent, with the values they were created with.  The abstract     *)
(* chainstate of Coins is implemented.                                     *)
(***************************************************************************)
EXTENDS StoresProofs

Output == [value : Nat, isNotSpent : BOOLEAN]

\* Bit j of a.
HasBit(a, j) == (a \div 2 ^ j) % 2 = 1

-----------------------------------------------------------------------------
\* A power of two is a multiple of twice every one below it.
LEMMA PowerFactor ==
  ASSUME NEW j \in Nat, NEW k \in Nat, j < k
  PROVE  \E q \in Nat : 2 ^ k = 2 ^ j * (2 * q)
  <1> DEFINE p == 2 ^ j
             G == {i \in Nat : \E q \in Nat : 2 ^ (j + 1 + i) = p * (2 * q)}
  <1>1. p \in Nat \ {0}
    BY PowerOfTwo
  <1>2. 0 \in G
    <2>1. 2 ^ (j + 1) = 2 * p
      BY NextPowerOfTwo
    <2> HIDE DEF p
    <2>2. j + 1 + 0 = j + 1 /\ 2 * p = p * (2 * 1)
      BY <1>1
    <2> QED  BY <2>1, <2>2
  <1>3. ASSUME NEW i \in Nat, i \in G
        PROVE  i + 1 \in G
    <2>1. PICK q \in Nat : 2 ^ (j + 1 + i) = p * (2 * q)
      BY <1>3
    <2> DEFINE n == j + 1 + i
    <2>2. n \in Nat /\ j + 1 + (i + 1) = n + 1
      OBVIOUS
    <2>3. 2 ^ (n + 1) = 2 * 2 ^ n
      BY <2>2, NextPowerOfTwo
    <2> HIDE DEF p, n
    <2>4. 2 * (p * (2 * q)) = p * (2 * (2 * q)) /\ 2 * q \in Nat
      BY <1>1
    <2>5. 2 ^ n = p * (2 * q)
      BY <2>1 DEF n
    <2>6. 2 ^ (n + 1) = p * (2 * (2 * q))
      BY <2>3, <2>4, <2>5
    <2>7. 2 ^ (j + 1 + (i + 1)) = p * (2 * (2 * q))
      BY <2>2, <2>6
    <2> QED  BY <2>4, <2>7
  <1>4. k - j - 1 \in G
    <2>1. k - j - 1 \in Nat
      OBVIOUS
    <2> HIDE DEF G
    <2> QED  BY <1>2, <1>3, <2>1, NumberInduction
  <1>5. j + 1 + (k - j - 1) = k
    OBVIOUS
  <1> QED  BY <1>4, <1>5

\* Adding the power of two k to a number below it sets bit k and no other.
LEMMA AddBit ==
  ASSUME NEW k \in Nat, NEW a \in Nat, a < 2 ^ k
  PROVE  /\ ~HasBit(a, k) /\ HasBit(a + 2 ^ k, k)
         /\ \A j \in 0 .. k - 1 : HasBit(a + 2 ^ k, j) <=> HasBit(a, j)
         /\ a + 2 ^ k \in Nat /\ a + 2 ^ k < 2 ^ (k + 1) /\ a < 2 ^ (k + 1)
  <1> DEFINE p == 2 ^ k
  <1>1. p \in Nat \ {0} /\ 2 ^ (k + 1) = 2 * p
    BY PowerOfTwo, NextPowerOfTwo
  <1>2. ~HasBit(a, k) /\ HasBit(a + p, k)
    <2> HIDE DEF p
    <2>1. 0 * p = 0 /\ 1 * p = p
      BY <1>1
    <2>2. a \div p = 0
      BY <1>1, <2>1, Division DEF p
    <2>3. (a + p) \div p = 1
      <3>1. a + p \in Nat /\ 1 * p <= a + p /\ a + p < 1 * p + p
        BY <1>1, <2>1 DEF p
      <3> QED  BY <1>1, <3>1, Division
    <2> QED  BY <2>2, <2>3 DEF HasBit, p
  <1>3. ASSUME NEW j \in 0 .. k - 1
        PROVE  HasBit(a + p, j) <=> HasBit(a, j)
    <2> DEFINE b == 2 ^ j
               d == a \div b
               r == a % b
    <2>1. b \in Nat \ {0}
      BY PowerOfTwo
    <2>2. PICK q \in Nat : p = b * (2 * q)
      <3>1. j \in Nat /\ j < k
        OBVIOUS
      <3> QED  BY <3>1, PowerFactor
    <2> HIDE DEF p, b
    <2>3. d \in Int /\ r \in 0 .. b - 1 /\ a = d * b + r
      BY <2>1
    <2>4. d \in Nat
      <3>1. a < (a + 1) * b
        BY <2>1
      <3> QED  BY <2>1, <3>1, QuotientBound
    <2> HIDE DEF d, r
    <2>5. /\ (d + 2 * q) * b = d * b + b * (2 * q)
          /\ d * b \in Nat /\ b * (2 * q) \in Nat /\ d + 2 * q \in Nat
      BY <2>1, <2>4
    <2> DEFINE x == d * b
               y == b * (2 * q)
               z == (d + 2 * q) * b
    <2>6. a = x + r /\ p = y /\ z = x + y /\ x \in Nat /\ y \in Nat
      BY <2>2, <2>3, <2>5
    <2> HIDE DEF x, y, z
    <2>7. a + p \in Nat /\ z <= a + p /\ a + p < z + b
      BY <2>1, <2>3, <2>6
    <2>8. (a + p) \div b = d + 2 * q
      BY <2>1, <2>5, <2>7, Division DEF z
    <2>9. (d + 2 * q) % 2 = d % 2
      BY <2>4
    <2> QED  BY <2>8, <2>9 DEF HasBit, b, d
  <1>4. a + p \in Nat /\ a + p < 2 * p /\ a < 2 * p
    <2> HIDE DEF p
    <2> QED  BY <1>1 DEF p
  <1> QED  BY <1>1, <1>2, <1>3, <1>4

\* Zero has no bits.
LEMMA NoBits ==
  ASSUME NEW j \in Nat
  PROVE  ~HasBit(0, j)
  <1> DEFINE p == 2 ^ j
  <1>1. p \in Nat \ {0}
    BY PowerOfTwo
  <1> HIDE DEF p
  <1>2. 0 \div p = 0
    BY <1>1
  <1>3. ~((0 \div p) % 2 = 1)
    BY <1>2
  <1> QED  BY <1>3 DEF HasBit, p

-----------------------------------------------------------------------------
\* s lists the elements of S, a set of numbers, in ascending order.
Lists(s, S) ==
  /\ s \in Seq(Nat)
  /\ \A i \in 1 .. Len(s) : s[i] \in S
  /\ \A i \in 1 .. Len(s) : \A j \in 1 .. Len(s) : i < j => s[i] < s[j]
  /\ \A x \in S : \E i \in 1 .. Len(s) : s[i] = x

\* A larger number goes to the end of the list.
LEMMA ListsAppend ==
  ASSUME NEW S, NEW s, Lists(s, S), NEW x \in Nat, \A y \in S : y < x
  PROVE  Lists(Append(s, x), S \cup {x})
  <1> DEFINE t == Append(s, x)
             n == Len(s)
  <1>1. /\ s \in Seq(Nat) /\ n \in Nat
        /\ \A i \in 1 .. n : s[i] \in S
        /\ \A i \in 1 .. n : \A j \in 1 .. n : i < j => s[i] < s[j]
        /\ \A y \in S : \E i \in 1 .. n : s[i] = y
    BY DEF Lists
  <1>2. t \in Seq(Nat) /\ Len(t) = n + 1 /\ t[n + 1] = x /\ \A i \in 1 .. n : t[i] = s[i]
    BY <1>1
  <1> HIDE DEF t, n
  <1>3. \A i \in 1 .. n + 1 : i \in 1 .. n \/ i = n + 1
    BY <1>1
  <1>4. \A i \in 1 .. n + 1 : t[i] \in S \cup {x}
    BY <1>1, <1>2, <1>3
  <1>5. ASSUME NEW i \in 1 .. n + 1, NEW j \in 1 .. n + 1, i < j
        PROVE  t[i] < t[j]
    <2>1. i \in 1 .. n
      BY <1>1, <1>5
    <2>2. CASE j \in 1 .. n
      BY <1>1, <1>2, <1>5, <2>1, <2>2
    <2>3. CASE j = n + 1
      BY <1>1, <1>2, <2>1, <2>3
    <2> QED  BY <1>3, <2>2, <2>3
  <1>6. ASSUME NEW y \in S \cup {x}
        PROVE  \E i \in 1 .. n + 1 : t[i] = y
    <2>1. CASE y = x
      <3>1. n + 1 \in 1 .. n + 1
        BY <1>1
      <3> QED  BY <1>2, <2>1, <3>1
    <2>2. CASE y \in S
      <3>1. PICK i \in 1 .. n : s[i] = y
        BY <1>1, <2>2
      <3>2. i \in 1 .. n + 1
        BY <1>1
      <3> QED  BY <1>2, <3>1, <3>2
    <2> QED  BY <2>1, <2>2
  <1> QED  BY <1>2, <1>4, <1>5, <1>6 DEF Lists, t

\* A list is as long as the set is large.
LEMMA ListsLength ==
  ASSUME NEW S, NEW s, Lists(s, S)
  PROVE  IsFiniteSet(S) /\ Cardinality(S) = Len(s)
  <1> DEFINE n == Len(s)
  <1>1. /\ s \in [1 .. n -> S] /\ n \in Nat
        /\ \A y \in S : \E i \in 1 .. n : s[i] = y
    BY DEF Lists
  <1>2. ASSUME NEW i \in 1 .. n, NEW j \in 1 .. n, s[i] = s[j]
        PROVE  i = j
    <2>1. s[i] \in Nat
      BY <1>1 DEF Lists
    <2>2. ~(i < j) /\ ~(j < i)
      BY <1>2, <2>1 DEF Lists
    <2> QED  BY <1>1, <2>2
  <1> HIDE DEF n
  <1>3. s \in Bijection(1 .. n, S)
    BY <1>1, <1>2 DEF Bijection, Injection, Surjection, IsInjective
  <1>4. IsFiniteSet(1 .. n) /\ Cardinality(1 .. n) = n
    <2>1. IF 1 > n THEN n = 0 ELSE n = n - 1 + 1
      BY <1>1
    <2> QED  BY <1>1, <2>1, FS_Interval
  <1> QED  BY <1>3, <1>4, FS_Bijection DEF ExistsBijection, n

\* What the loops of SerializeTXMetadata and ReadBitVector collect: the places
\* of the outputs that are marked, in order.
LEMMA MarkedLists ==
  ASSUME NEW vec \in Seq(BOOLEAN)
  PROVE  Lists(Marked(vec), {i \in 1 .. Len(vec) : vec[i]})
  <1> DEFINE n == Len(vec)
             Body(h) == [i \in 0 .. n |->
                           IF i = 0 THEN <<>>
                           ELSE IF vec[i] THEN Append(h[i - 1], i) ELSE h[i - 1]]
             upTo == CHOOSE h : h = Body(h)
             S(i) == {j \in 1 .. i : vec[j]}
             step == [x \in Seq(Nat) \X Nat |->
                        IF vec[x[2]] THEN Append(x[1], x[2]) ELSE x[1]]
  <1>1. Marked(vec) = upTo[n]
    BY DEF Marked
  <1>2. n \in Nat
    OBVIOUS
  <1>3. \E h : h = Body(h)
    <2>1. \A s \in Seq(Nat) : \A i \in 1 .. n :
            step[<<s, i>>] = IF vec[i] THEN Append(s, i) ELSE s
      OBVIOUS
    <2>2. ASSUME NEW s \in Seq(Nat), NEW i \in 1 .. n
          PROVE  step[<<s, i>>] \in Seq(Nat)
      <3>1. i \in Nat
        BY <1>2
      <3>2. Append(s, i) \in Seq(Nat)
        BY <3>1
      <3> QED  BY <2>1, <3>2
    <2> DEFINE T == Seq(Nat)
               none == <<>>
    <2>3. none \in T
      OBVIOUS
    <2> HIDE DEF step, n, T, none
    <2>4. PICK h \in [0 .. n -> T] : IsRun(h, none, n, step)
      <3>1. IsBody(step, T, n)
        BY <2>2 DEF T, IsBody
      <3> QED  BY <1>2, <2>3, <3>1, LoopStates
    <2>5. \A i \in 1 .. n : h[i] = IF vec[i] THEN Append(h[i - 1], i) ELSE h[i - 1]
      <3>1. \A i \in 1 .. n : i - 1 \in 0 .. n
        BY <1>2
      <3>2. \A i \in 1 .. n : h[i - 1] \in Seq(Nat)
        BY <3>1 DEF T
      <3> QED  BY <2>1, <2>4, <3>2 DEF IsRun
    <2>6. ASSUME NEW i \in 0 .. n
          PROVE  h[i] = Body(h)[i]
      <3>1. CASE i = 0
        BY <2>4, <3>1 DEF none, IsRun
      <3>2. CASE i # 0
        <4>1. i \in 1 .. n
          BY <1>2, <3>2
        <4> QED  BY <2>5, <3>2, <4>1
      <3> QED  BY <3>1, <3>2
    <2>7. h = [i \in 0 .. n |-> h[i]]
      OBVIOUS
    <2>8. h = Body(h)
      BY <2>6, <2>7
    <2> QED  BY <2>8
  <1>4. upTo = Body(upTo)
    <2> HIDE DEF Body
    <2> QED  BY <1>3
  <1> HIDE DEF upTo
  <1>5. upTo[0] = <<>> /\ \A i \in 1 .. n :
          upTo[i] = IF vec[i] THEN Append(upTo[i - 1], i) ELSE upTo[i - 1]
    <2>1. \A i \in 0 .. n : upTo[i] = Body(upTo)[i]
      <3> HIDE DEF Body
      <3> QED  BY <1>4
    <2>2. 0 \in 0 .. n /\ \A i \in 1 .. n : i \in 0 .. n /\ i # 0
      BY <1>2
    <2> HIDE DEF n
    <2> QED  BY <2>1, <2>2
  <1> HIDE DEF Body, n
  <1> DEFINE G == {i \in Nat : i <= n => Lists(upTo[i], S(i))}
  <1>6. 0 \in G
    <2>1. <<>> \in Seq(Nat) /\ Len(<<>>) = 0 /\ S(0) = {} /\ 1 .. 0 = {}
      OBVIOUS
    <2> QED  BY <1>5, <2>1 DEF Lists
  <1>7. ASSUME NEW i \in Nat, i \in G
        PROVE  i + 1 \in G
    <2> SUFFICES ASSUME i + 1 <= n  PROVE Lists(upTo[i + 1], S(i + 1))
      OBVIOUS
    <2>1. Lists(upTo[i], S(i)) /\ i + 1 \in 1 .. n /\ (i + 1) - 1 = i
      BY <1>2, <1>7
    <2>2. CASE vec[i + 1]
      <3>1. S(i + 1) = S(i) \cup {i + 1}
        BY <2>2
      <3>2. \A y \in S(i) : y < i + 1
        OBVIOUS
      <3>3. upTo[i + 1] = Append(upTo[i], i + 1)
        BY <1>5, <2>1, <2>2
      <3> HIDE DEF S
      <3> QED  BY <2>1, <3>1, <3>2, <3>3, ListsAppend
    <2>3. CASE ~vec[i + 1]
      <3>1. S(i + 1) = S(i)
        BY <2>3
      <3>2. upTo[i + 1] = upTo[i]
        BY <1>5, <2>1, <2>3
      <3> QED  BY <2>1, <3>1, <3>2
    <2> QED  BY <2>2, <2>3
  <1>8. n \in G
    <2> HIDE DEF G
    <2> QED  BY <1>2, <1>6, <1>7, NumberInduction
  <1> QED  BY <1>1, <1>2, <1>8 DEF n

-----------------------------------------------------------------------------
\* One round of the loop of SerializeToOneHot, for the element val.
Pack(s, val) ==
  IF s.bit = ByteSize - 1
  THEN [res |-> [s.res EXCEPT ![s.pos] = s.tempb + (IF val THEN 2 ^ s.bit ELSE 0)],
        tempb |-> 0, bit |-> 0, pos |-> s.pos - 1]
  ELSE [s EXCEPT !.tempb = s.tempb + (IF val THEN 2 ^ s.bit ELSE 0), !.bit = @ + 1]

PackState(n) == [res : [1 .. n -> Nat], tempb : Nat, bit : 0 .. ByteSize - 1, pos : Int]

StartPacking(n) == [res |-> [j \in 1 .. n |-> 0], tempb |-> 0, bit |-> 0, pos |-> n]

\* A round leads from one state to one.
LEMMA PackType ==
  ASSUME NEW n \in Nat, NEW s \in PackState(n), NEW val \in BOOLEAN
  PROVE  Pack(s, val) \in PackState(n)
  <1> DEFINE b == s.tempb + (IF val THEN 2 ^ s.bit ELSE 0)
  <1>1. /\ s = [res |-> s.res, tempb |-> s.tempb, bit |-> s.bit, pos |-> s.pos]
        /\ s.res \in [1 .. n -> Nat] /\ s.tempb \in Nat
        /\ s.bit \in 0 .. ByteSize - 1 /\ s.pos \in Int
    BY DEF PackState
  <1>2. b \in Nat
    <2>1. s.bit \in Nat
      BY <1>1, MetadataAssumption
    <2> DEFINE p == 2 ^ s.bit
    <2>2. p \in Nat
      BY <2>1, PowerOfTwo
    <2> HIDE DEF p
    <2> QED  BY <1>1, <2>2 DEF p
  <1>3. 0 \in 0 .. ByteSize - 1 /\ ByteSize \in Nat \ {0}
    BY MetadataAssumption
  <1>4. Pack(s, val) = IF s.bit = ByteSize - 1
                       THEN [res |-> [s.res EXCEPT ![s.pos] = b],
                             tempb |-> 0, bit |-> 0, pos |-> s.pos - 1]
                       ELSE [s EXCEPT !.tempb = b, !.bit = @ + 1]
    BY DEF Pack
  <1> HIDE DEF b
  <1>5. CASE s.bit = ByteSize - 1
    <2>1. [s.res EXCEPT ![s.pos] = b] \in [1 .. n -> Nat]
      BY <1>1, <1>2
    <2>2. s.pos - 1 \in Int
      BY <1>1
    <2> QED  BY <1>3, <1>4, <1>5, <2>1, <2>2 DEF PackState
  <1>6. CASE s.bit # ByteSize - 1
    <2>1. s.bit + 1 \in 0 .. ByteSize - 1
      BY <1>1, <1>3, <1>6
    <2> DEFINE t == [s EXCEPT !.tempb = b, !.bit = @ + 1]
    <2>2. t \in PackState(n)
      BY <1>2, <2>1 DEF PackState
    <2> QED  BY <1>4, <1>6, <2>2
  <1> QED  BY <1>5, <1>6

\* The loop of SerializeToOneHot has a state after every element, and what is
\* returned is made of the last one.
LEMMA PackStates ==
  ASSUME NEW data \in Seq(BOOLEAN), NoOfBytes(Len(data)) \in Nat
  PROVE  \E h \in [0 .. Len(data) -> PackState(NoOfBytes(Len(data)))] :
           /\ h[0] = StartPacking(NoOfBytes(Len(data)))
           /\ \A i \in 1 .. Len(data) : h[i] = Pack(h[i - 1], data[i])
           /\ SerializeToOneHot(data) =
                LET end == h[Len(data)]
                IN  IF end.tempb = 0 THEN end.res
                    ELSE [end.res EXCEPT ![end.pos] = end.tempb]
  <1> DEFINE n == Len(data)
             N == NoOfBytes(Len(data))
             T == PackState(N)
             Body(h) == [i \in 0 .. n |->
                           IF i = 0 THEN StartPacking(N) ELSE Pack(h[i - 1], data[i])]
             packed == CHOOSE h : h = Body(h)
             step == [x \in T \X (1 .. n) |-> Pack(x[1], data[x[2]])]
             start == StartPacking(N)
  <1>1. n \in Nat /\ N \in Nat /\ \A i \in 1 .. n : data[i] \in BOOLEAN
    OBVIOUS
  <1>2. SerializeToOneHot(data) =
          IF packed[n].tempb = 0 THEN packed[n].res
          ELSE [packed[n].res EXCEPT ![packed[n].pos] = packed[n].tempb]
    BY DEF SerializeToOneHot, StartPacking, Pack
  <1>3. start \in T
    <2>1. 0 \in 0 .. ByteSize - 1
      BY MetadataAssumption
    <2>2. [j \in 1 .. N |-> 0] \in [1 .. N -> Nat]
      OBVIOUS
    <2> HIDE DEF N
    <2> QED  BY <1>1, <2>1, <2>2 DEF StartPacking, PackState
  <1> HIDE DEF n, N, T
  <1>4. IsBody(step, T, n)
    <2>1. ASSUME NEW s \in T, NEW i \in 1 .. n
          PROVE  step[<<s, i>>] \in T
      <3>1. step[<<s, i>>] = Pack(s, data[i])
        OBVIOUS
      <3> QED  BY <1>1, <3>1, PackType DEF T
    <2> QED  BY <2>1 DEF IsBody
  <1>5. ASSUME NEW h \in [0 .. n -> T], NEW i \in 1 .. n
        PROVE  i - 1 \in 0 .. n /\ h[i - 1] \in T
               /\ step[<<h[i - 1], i>>] = Pack(h[i - 1], data[i])
    BY <1>1
  <1> HIDE DEF step
  <1>6. \E h \in [0 .. n -> T] : h = Body(h)
    <2> HIDE DEF start
    <2>1. PICK h \in [0 .. n -> T] : IsRun(h, start, n, step)
      BY <1>1, <1>3, <1>4, LoopStates
    <2>2. ASSUME NEW i \in 0 .. n
          PROVE  h[i] = Body(h)[i]
      <3>1. CASE i = 0
        BY <2>1, <3>1 DEF IsRun, start
      <3>2. CASE i # 0
        <4>1. i \in 1 .. n
          BY <1>1, <3>2
        <4>2. h[i] = Pack(h[i - 1], data[i])
          BY <1>5, <2>1, <4>1 DEF IsRun
        <4> QED  BY <3>2, <4>2
      <3> QED  BY <3>1, <3>2
    <2>3. h = [i \in 0 .. n |-> h[i]]
      OBVIOUS
    <2>4. h = Body(h)
      BY <2>2, <2>3
    <2> QED  BY <2>4
  <1>7. packed = Body(packed)
    <2> HIDE DEF Body
    <2> QED  BY <1>6
  <1> HIDE DEF packed
  <1>8. \A i \in 0 .. n : packed[i] = Body(packed)[i]
    <2> HIDE DEF Body
    <2> QED  BY <1>7
  <1>9. packed[0] = start /\ \A i \in 1 .. n : packed[i] = Pack(packed[i - 1], data[i])
    <2>1. 0 \in 0 .. n /\ \A i \in 1 .. n : i \in 0 .. n /\ i # 0
      BY <1>1
    <2> QED  BY <1>8, <2>1
  <1>10. packed \in [0 .. n -> T]
    <2> DEFINE G == {i \in Nat : i <= n => packed[i] \in T}
    <2>1. 0 \in G
      BY <1>3, <1>9
    <2>2. ASSUME NEW i \in Nat, i \in G
          PROVE  i + 1 \in G
      <3> SUFFICES ASSUME i + 1 <= n  PROVE packed[i + 1] \in T
        OBVIOUS
      <3>1. i + 1 \in 1 .. n /\ (i + 1) - 1 = i /\ packed[i] \in T
        BY <1>1, <2>2
      <3>2. packed[i + 1] = Pack(packed[i], data[i + 1])
        BY <1>9, <3>1
      <3> QED  BY <1>1, <3>1, <3>2, PackType DEF T
    <2>3. \A i \in Nat : i \in G
      <3> HIDE DEF G
      <3> QED  BY <2>1, <2>2, NumberInduction
    <2>4. \A i \in 0 .. n : packed[i] \in T
      BY <1>1, <2>3
    <2>5. packed = [i \in 0 .. n |-> packed[i]]
      <3>1. Body(packed) = [i \in 0 .. n |-> Body(packed)[i]]
        OBVIOUS
      <3> HIDE DEF Body
      <3> QED  BY <1>7, <3>1
    <2> QED  BY <2>4, <2>5
  <1> QED  BY <1>2, <1>9, <1>10 DEF n, N, T

\* The number of bytes of a vector of n bits.
LEMMA BytesOf ==
  ASSUME NEW n \in Nat
  PROVE  /\ NoOfBytes(n) \in Nat
         /\ \A k \in Nat : k * ByteSize <= n => k <= NoOfBytes(n)
         /\ \A q \in Nat : \A r \in 0 .. ByteSize - 1 :
              n = q * ByteSize + r => NoOfBytes(n) = IF r = 0 THEN q ELSE q + 1
  <1> DEFINE c == ByteSize
             N == NoOfBytes(n)
             x == n + c - 1
  <1>1. c \in Nat \ {0} /\ x \in Nat /\ N = x \div c
    BY MetadataAssumption DEF NoOfBytes
  <1>2. N \in Nat
    <2>1. x < (x + 1) * c
      <3> HIDE DEF x, c
      <3> QED  BY <1>1
    <2> HIDE DEF x, c, N
    <2> QED  BY <1>1, <2>1, QuotientBound
  <1>3. ASSUME NEW k \in Nat, k * c <= n
        PROVE  k <= N
    <2> DEFINE r == x % c
    <2>1. r \in 0 .. c - 1 /\ x = N * c + r
      <3> HIDE DEF x, c, N
      <3> QED  BY <1>1
    <2>2. n <= N * c
      BY <1>1, <1>2, <2>1
    <2> HIDE DEF x, c, N, r
    <2>3. SUFFICES ASSUME N + 1 <= k  PROVE FALSE
      BY <1>2
    <2>4. (N + 1) * c <= k * c /\ (N + 1) * c = N * c + c /\ N * c \in Nat /\ k * c \in Nat
      BY <1>1, <1>2, <2>3, ProductGrows
    <2> DEFINE y == N * c
               z == k * c
    <2>5. y \in Nat /\ z \in Nat /\ y + c <= z /\ z <= n /\ n <= y
      BY <1>3, <2>2, <2>4
    <2> HIDE DEF y, z
    <2> QED  BY <1>1, <2>5
  <1>4. ASSUME NEW q \in Nat, NEW r \in 0 .. c - 1, n = q * c + r
        PROVE  N = IF r = 0 THEN q ELSE q + 1
    <2> DEFINE y == q * c
    <2>1. y \in Nat /\ n = y + r /\ x = y + r + c - 1 /\ (q + 1) * c = y + c
      BY <1>1, <1>4
    <2>2. CASE r = 0
      <3>1. y <= x /\ x < y + c
        <4> HIDE DEF x, c, y
        <4> QED  BY <1>1, <2>1, <2>2
      <3> HIDE DEF x, c, N
      <3> QED  BY <1>1, <2>2, <3>1, Division
    <2>3. CASE r # 0
      <3>1. (q + 1) * c <= x /\ x < (q + 1) * c + c
        <4> DEFINE z == (q + 1) * c
        <4>1. z = y + c
          BY <2>1
        <4> HIDE DEF x, c, y, z
        <4>2. z <= x /\ x < z + c
          BY <1>1, <2>1, <2>3, <4>1
        <4> QED  BY <4>2 DEF z
      <3>2. q + 1 \in Nat
        OBVIOUS
      <3> DEFINE k == q + 1
      <3> HIDE DEF x, c, N, k
      <3>3. x \div c = k
        BY <1>1, <3>1, <3>2, Division DEF k
      <3> QED  BY <1>1, <2>3, <3>3 DEF k
    <2> QED  BY <2>2, <2>3
  <1> QED  BY <1>2, <1>3, <1>4

\* After q whole bytes and r bits more: the bytes are at the end of the result,
\* the first of them last, and the bits in tempb.
PackedAt(s, data, q, r) ==
  LET N == NoOfBytes(Len(data))
  IN  /\ s \in PackState(N) /\ q \in Nat /\ s.bit = r /\ s.pos = N - q
      /\ s.tempb < 2 ^ r
      /\ \A j \in 0 .. r - 1 : HasBit(s.tempb, j) <=> data[q * ByteSize + j + 1]
      /\ \A p \in 0 .. q - 1 : \A j \in 0 .. ByteSize - 1 :
           HasBit(s.res[N - p], j) <=> data[p * ByteSize + j + 1]
      /\ \A p \in 1 .. N - q : s.res[p] = 0

\* A round of the loop packs one bit more.
LEMMA PackStep ==
  ASSUME NEW data \in Seq(BOOLEAN), NEW s, NEW q \in Nat, NEW r \in 0 .. ByteSize - 1,
         PackedAt(s, data, q, r), q * ByteSize + r + 1 <= Len(data)
  PROVE  LET t == Pack(s, data[q * ByteSize + r + 1])
         IN  IF r = ByteSize - 1 THEN PackedAt(t, data, q + 1, 0)
                                 ELSE PackedAt(t, data, q, r + 1)
  <1> DEFINE N == NoOfBytes(Len(data))
             i == q * ByteSize + r + 1
             b == s.tempb + (IF data[i] THEN 2 ^ r ELSE 0)
             t == Pack(s, data[i])
  <1>1. /\ s \in PackState(N) /\ s.bit = r /\ s.pos = N - q
        /\ s.tempb < 2 ^ r
        /\ \A j \in 0 .. r - 1 : HasBit(s.tempb, j) <=> data[q * ByteSize + j + 1]
        /\ \A p \in 0 .. q - 1 : \A j \in 0 .. ByteSize - 1 :
             HasBit(s.res[N - p], j) <=> data[p * ByteSize + j + 1]
        /\ \A p \in 1 .. N - q : s.res[p] = 0
    BY DEF PackedAt
  <1>2. N \in Nat /\ ByteSize \in Nat \ {0} /\ r \in Nat /\ q * ByteSize \in Nat
    BY BytesOf, MetadataAssumption
  <1>3. s.tempb \in Nat /\ s.res \in [1 .. N -> Nat]
    BY <1>1 DEF PackState
  <1>4. i \in 1 .. Len(data) /\ data[i] \in BOOLEAN
    <2>1. i \in Nat \ {0}
      BY <1>2
    <2> HIDE DEF i
    <2>2. i \in 1 .. Len(data)
      BY <2>1 DEF i
    <2> QED  BY <2>2
  <1>5. t \in PackState(N)
    BY <1>1, <1>2, <1>4, PackType
  <1> DEFINE R == r + 1
  <1>6. /\ b \in Nat /\ b < 2 ^ R
        /\ HasBit(b, r) <=> data[i]
        /\ \A j \in 0 .. r - 1 : HasBit(b, j) <=> HasBit(s.tempb, j)
    <2> DEFINE a == s.tempb
               p == 2 ^ r
    <2>1. /\ ~HasBit(a, r) /\ HasBit(a + p, r)
          /\ \A j \in 0 .. r - 1 : HasBit(a + p, j) <=> HasBit(a, j)
          /\ a + p \in Nat /\ a + p < 2 ^ R /\ a < 2 ^ R
      <3>1. a \in Nat /\ r \in Nat /\ a < 2 ^ r
        BY <1>1, <1>2, <1>3
      <3> HIDE DEF a
      <3> QED  BY <3>1, AddBit
    <2>2. b = IF data[i] THEN a + p ELSE a
      <3>1. a + 0 = a
        BY <1>3
      <3> QED  BY <3>1
    <2> HIDE DEF a, b, p, R
    <2>3. a \in Nat
      BY <1>3 DEF a
    <2> QED  BY <2>1, <2>2, <2>3 DEF a
  <1>7. \A j \in 0 .. R - 1 : HasBit(b, j) <=> data[q * ByteSize + j + 1]
    <2>1. \A j \in 0 .. R - 1 : j \in 0 .. r - 1 \/ j = r
      BY <1>2
    <2> HIDE DEF R, b
    <2> QED  BY <1>1, <1>6, <2>1
  <1>8. t = IF r = ByteSize - 1
            THEN [res |-> [s.res EXCEPT ![s.pos] = b],
                  tempb |-> 0, bit |-> 0, pos |-> s.pos - 1]
            ELSE [s EXCEPT !.tempb = b, !.bit = @ + 1]
    BY <1>1 DEF Pack
  <1>9. CASE r = ByteSize - 1
    <2>1. q + 1 <= N
      <3>1. (q + 1) * ByteSize = i
        BY <1>2, <1>9
      <3> QED  BY <1>4, <3>1, BytesOf
    <2> HIDE DEF i, b, N
    <2>2. s.pos \in 1 .. N /\ s.pos = N - q
      BY <1>1, <1>2, <2>1
    <2> DEFINE res == [s.res EXCEPT ![s.pos] = b]
    <2>3. t.res = res /\ t.tempb = 0 /\ t.bit = 0 /\ t.pos = s.pos - 1
      BY <1>8, <1>9
    <2>4. /\ res[N - q] = b
          /\ \A p \in 1 .. N : p # N - q => res[p] = s.res[p]
      BY <1>3, <2>2
    <2> HIDE DEF t, res
    <2>5. t.pos = N - (q + 1) /\ q + 1 \in Nat
      BY <1>2, <2>2, <2>3
    <2>6. t.tempb < 2 ^ 0
      BY <2>3, NextPowerOfTwo
    <2>7. ASSUME NEW p \in 0 .. (q + 1) - 1, NEW j \in 0 .. ByteSize - 1
          PROVE  HasBit(t.res[N - p], j) <=> data[p * ByteSize + j + 1]
      <3>1. CASE p = q
        <4>1. j \in 0 .. R - 1
          BY <1>2, <1>9
        <4>2. HasBit(b, j) <=> data[q * ByteSize + j + 1]
          BY <1>7, <4>1
        <4>3. t.res[N - p] = b
          BY <2>3, <2>4, <3>1
        <4> QED  BY <3>1, <4>2, <4>3
      <3>2. CASE p # q
        <4>1. p \in 0 .. q - 1 /\ N - p \in 1 .. N /\ N - p # N - q
          BY <1>2, <2>1, <3>2
        <4> QED  BY <1>1, <2>3, <2>4, <4>1
      <3> QED  BY <3>1, <3>2
    <2>8. ASSUME NEW p \in 1 .. N - (q + 1)
          PROVE  t.res[p] = 0
      <3>1. p \in 1 .. N - q /\ p \in 1 .. N /\ p # N - q
        BY <1>2
      <3> QED  BY <1>1, <2>3, <2>4, <3>1
    <2>9. \A j \in 0 .. 0 - 1 : HasBit(t.tempb, j) <=> data[(q + 1) * ByteSize + j + 1]
      OBVIOUS
    <2>10. PackedAt(t, data, q + 1, 0)
      BY <1>5, <2>3, <2>5, <2>6, <2>7, <2>8, <2>9 DEF PackedAt, N
    <2> QED  BY <1>9, <2>10 DEF t, i
  <1>10. CASE r # ByteSize - 1
    <2> HIDE DEF i, b, N
    <2>1. t.res = s.res /\ t.tempb = b /\ t.bit = r + 1 /\ t.pos = s.pos
      <3>1. DOMAIN s = {"res", "tempb", "bit", "pos"}
        BY <1>1 DEF PackState
      <3> HIDE DEF t
      <3> QED  BY <1>1, <1>8, <1>10, <3>1
    <2> HIDE DEF t
    <2>2. PackedAt(t, data, q, R)
      BY <1>1, <1>5, <1>6, <1>7, <2>1 DEF PackedAt, N
    <2> QED  BY <1>10, <2>2 DEF t, i
  <1> QED  BY <1>9, <1>10

\* SerializeToOneHot: every bit of the vector is found where ReadBitVector looks
\* for it.
LEMMA OneHotIsRead ==
  ASSUME NEW data \in Seq(BOOLEAN), NEW v \in 0 .. Len(data) - 1
  PROVE  HasBit(SerializeToOneHot(data)[NoOfBytes(Len(data)) - v \div ByteSize],
                v % ByteSize) <=> data[v + 1]
  <1> DEFINE n == Len(data)
             N == NoOfBytes(n)
             c == ByteSize
  <1>1. n \in Nat /\ N \in Nat /\ c \in Nat \ {0}
    BY BytesOf, MetadataAssumption
  <1>2. PICK h \in [0 .. n -> PackState(N)] :
          /\ h[0] = StartPacking(N)
          /\ \A i \in 1 .. n : h[i] = Pack(h[i - 1], data[i])
          /\ SerializeToOneHot(data) =
               IF h[n].tempb = 0 THEN h[n].res ELSE [h[n].res EXCEPT ![h[n].pos] = h[n].tempb]
    BY <1>1, PackStates
  <1> DEFINE G == {i \in Nat : i <= n =>
                     \E q \in Nat : \E r \in 0 .. c - 1 :
                       i = q * c + r /\ PackedAt(h[i], data, q, r)}
  <1>3. 0 \in G
    <2>1. h[0] \in PackState(N) /\ h[0] = StartPacking(N)
      BY <1>1, <1>2
    <2>2. h[0].bit = 0 /\ h[0].pos = N - 0 /\ h[0].tempb < 2 ^ 0 /\ N - 0 = N
          /\ \A p \in 1 .. N : h[0].res[p] = 0
      <3>1. 0 < 2 ^ 0
        BY NextPowerOfTwo
      <3> QED  BY <1>1, <2>1, <3>1 DEF StartPacking
    <2>3. PackedAt(h[0], data, 0, 0)
      <3>1. 0 .. 0 - 1 = {} /\ 0 \in Nat
        OBVIOUS
      <3> QED  BY <2>1, <2>2, <3>1 DEF PackedAt
    <2>4. 0 = 0 * c + 0 /\ 0 \in 0 .. c - 1
      BY <1>1
    <2> QED  BY <2>3, <2>4
  <1>4. ASSUME NEW i \in Nat, i \in G
        PROVE  i + 1 \in G
    <2> SUFFICES ASSUME i + 1 <= n
                 PROVE  \E q \in Nat : \E r \in 0 .. c - 1 :
                          i + 1 = q * c + r /\ PackedAt(h[i + 1], data, q, r)
      OBVIOUS
    <2>1. PICK q \in Nat, r \in 0 .. c - 1 : i = q * c + r /\ PackedAt(h[i], data, q, r)
      BY <1>1, <1>4
    <2>2. i + 1 \in 1 .. n /\ (i + 1) - 1 = i /\ q * c + r + 1 = i + 1
      BY <1>1, <2>1
    <2>3. h[i + 1] = Pack(h[i], data[q * c + r + 1])
      BY <1>2, <2>2
    <2>4. IF r = c - 1 THEN PackedAt(h[i + 1], data, q + 1, 0)
                       ELSE PackedAt(h[i + 1], data, q, r + 1)
      <3>1. q * c + r + 1 <= n
        BY <2>2
      <3> QED  BY <2>1, <2>3, <3>1, PackStep
    <2>5. CASE r = c - 1
      <3>1. i + 1 = (q + 1) * c + 0 /\ 0 \in 0 .. c - 1 /\ q + 1 \in Nat
        BY <1>1, <2>2, <2>5
      <3> QED  BY <2>4, <2>5, <3>1
    <2>6. CASE r # c - 1
      <3>1. i + 1 = q * c + (r + 1) /\ r + 1 \in 0 .. c - 1
        <4>1. q * c \in Nat
          BY <1>1
        <4> QED  BY <1>1, <2>2, <2>6, <4>1
      <3> QED  BY <2>4, <2>6, <3>1
    <2> QED  BY <2>5, <2>6
  <1>5. PICK q \in Nat, r \in 0 .. c - 1 : n = q * c + r /\ PackedAt(h[n], data, q, r)
    <2>1. n \in G
      <3> HIDE DEF G
      <3> QED  BY <1>1, <1>3, <1>4, NumberInduction
    <2> QED  BY <1>1, <2>1
  <1>6. N = IF r = 0 THEN q ELSE q + 1
    BY <1>1, <1>5, BytesOf
  <1> DEFINE p == v \div c
             j == v % c
             one == SerializeToOneHot(data)
  <1>7. p \in 0 .. q /\ j \in 0 .. c - 1 /\ v = p * c + j /\ v \in Nat /\ v < n
    <2>1. v \in Nat /\ v < n
      BY <1>1
    <2> HIDE DEF c, n
    <2>2. j \in 0 .. c - 1 /\ v = p * c + j
      BY <1>1, <2>1
    <2>3. v < (q + 1) * c
      <3>1. (q + 1) * c = q * c + c /\ q * c \in Nat
        BY <1>1
      <3> DEFINE y == q * c
      <3> HIDE DEF y
      <3>2. n = y + r /\ (q + 1) * c = y + c /\ y \in Nat
        BY <1>5, <3>1 DEF y
      <3> QED  BY <1>1, <2>1, <3>2
    <2> QED  BY <1>1, <2>1, <2>2, <2>3, QuotientBound
  <1> DEFINE s == h[n]
  <1>8. s \in PackState(N)
    BY <1>1, <1>2
  <1>9. /\ s.bit = r /\ s.pos = N - q
        /\ s.tempb < 2 ^ r
        /\ \A k \in 0 .. r - 1 : HasBit(s.tempb, k) <=> data[q * c + k + 1]
        /\ \A k \in 0 .. q - 1 : \A l \in 0 .. c - 1 :
             HasBit(s.res[N - k], l) <=> data[k * c + l + 1]
        /\ \A k \in 1 .. N - q : s.res[k] = 0
    BY <1>5 DEF PackedAt
  <1>10. s.tempb \in Nat /\ s.res \in [1 .. N -> Nat]
    BY <1>8 DEF PackState
  <1>11. one = IF s.tempb = 0 THEN s.res ELSE [s.res EXCEPT ![s.pos] = s.tempb]
    BY <1>2
  <1> HIDE DEF one, s, p, j, n, N
  <1>12. CASE p # q
    <2>1. p \in 0 .. q - 1 /\ N - p # N - q
      BY <1>1, <1>7, <1>12
    <2>2. one[N - p] = s.res[N - p]
      BY <1>9, <1>10, <1>11, <2>1
    <2>3. HasBit(one[N - p], j) <=> data[p * c + j + 1]
      BY <1>7, <1>9, <2>1, <2>2
    <2> QED  BY <1>7, <2>3 DEF one, p, j, n, N
  <1>13. CASE p = q
    <2>1. j < r
      <3> DEFINE y == q * c
      <3>1. y \in Nat /\ v = y + j /\ n = y + r
        BY <1>1, <1>5, <1>7, <1>13
      <3> HIDE DEF y
      <3> QED  BY <1>1, <1>7, <3>1
    <2>2. r # 0 /\ N = q + 1 /\ N - p = 1 /\ s.pos = 1 /\ j \in 0 .. r - 1
      BY <1>1, <1>6, <1>7, <1>9, <1>13, <2>1
    <2>3. one[1] = s.tempb
      <3>1. 1 \in 1 .. N - q /\ 1 \in 1 .. N
        BY <1>1, <2>2
      <3>2. s.res[1] = 0
        BY <1>9, <3>1
      <3> QED  BY <1>10, <1>11, <2>2, <3>1, <3>2
    <2>4. HasBit(one[N - p], j) <=> data[p * c + j + 1]
      BY <1>9, <1>13, <2>2, <2>3
    <2> QED  BY <1>7, <2>4 DEF one, p, j, n, N
  <1> QED  BY <1>12, <1>13

-----------------------------------------------------------------------------
\* The places of the outputs of outs that are not spent.
Unspent(outs) == {i \in 1 .. Len(outs) : outs[i].isNotSpent}

\* m is what SerializeTXMetadata makes of the outputs outs: their number, their
\* bits, and the values of those not spent in the order of their places.
Encodes(m, outs) ==
  /\ m.noOfOutputs = Len(outs)
  /\ \A v \in 0 .. Len(outs) - 1 : BitIsSet(m, v) <=> outs[v + 1].isNotSpent
  /\ \E s : /\ Lists(s, Unspent(outs))
            /\ Vouts(m) = [i \in 1 .. Len(s) |-> s[i] - 1]
            /\ m.values = [i \in 1 .. Len(s) |-> outs[s[i]].value]

\* What was written is what is read.
LEMMA SerializeEncodes ==
  ASSUME NEW t, t.outs \in Seq(Output)
  PROVE  /\ Encodes(SerializeTXMetadata(t), t.outs)
         /\ SerializeTXMetadata(t).isCoinbase = t.isCoinbase
         /\ SerializeTXMetadata(t).height = t.height
  <1> DEFINE outs == t.outs
             n == Len(outs)
             vec == [i \in 1 .. n |-> outs[i].isNotSpent]
             s == Marked(vec)
             m == SerializeTXMetadata(t)
  <1>1. /\ n \in Nat /\ DOMAIN outs = 1 .. n
        /\ \A i \in 1 .. n : outs[i] \in Output /\ outs[i].isNotSpent \in BOOLEAN
    <2>1. outs \in Seq(Output)
      OBVIOUS
    <2> HIDE DEF outs
    <2>2. n \in Nat /\ DOMAIN outs = 1 .. n /\ \A i \in 1 .. n : outs[i] \in Output
      BY <2>1
    <2>3. \A o \in Output : o.isNotSpent \in BOOLEAN
      BY DEF Output
    <2> QED  BY <2>2, <2>3
  <1>2. vec \in Seq(BOOLEAN) /\ Len(vec) = n /\ \A i \in 1 .. n : vec[i] = outs[i].isNotSpent
    BY <1>1
  <1>3. /\ m.noOfOutputs = n /\ m.vector = SerializeToOneHot(vec)
        /\ m.values = [i \in DOMAIN s |-> outs[s[i]].value]
        /\ m.isCoinbase = t.isCoinbase /\ m.height = t.height
    BY <1>1 DEF SerializeTXMetadata
  <1>4. Lists(s, Unspent(outs))
    <2> HIDE DEF vec
    <2>1. {i \in 1 .. Len(vec) : vec[i]} = Unspent(outs)
      BY <1>2 DEF Unspent
    <2> QED  BY <1>2, <2>1, MarkedLists
  <1> HIDE DEF outs, n, m
  <1>5. ASSUME NEW v \in 0 .. n - 1
        PROVE  BitIsSet(m, v) <=> vec[v + 1]
    <2>1. HasBit(SerializeToOneHot(vec)[NoOfBytes(n) - v \div ByteSize], v % ByteSize)
            <=> vec[v + 1]
      <3> HIDE DEF vec
      <3> QED  BY <1>2, OneHotIsRead
    <2> HIDE DEF vec
    <2> QED  BY <1>3, <2>1 DEF BitIsSet, HasBit
  <1>6. Vouts(m) = [i \in DOMAIN s |-> s[i] - 1]
    <2> DEFINE read == [i \in 1 .. m.noOfOutputs |-> BitIsSet(m, i - 1)]
    <2>1. \A i \in 1 .. n : i - 1 \in 0 .. n - 1 /\ (i - 1) + 1 = i
      BY <1>1
    <2>2. \A i \in 1 .. n : BitIsSet(m, i - 1) \in BOOLEAN /\ vec[i] \in BOOLEAN
      BY <1>1 DEF BitIsSet
    <2>3. \A i \in 1 .. n : BitIsSet(m, i - 1) = vec[i]
      <3> HIDE DEF vec
      <3> QED  BY <1>5, <2>1, <2>2
    <2>4. read = vec
      <3>1. vec = [i \in 1 .. n |-> vec[i]]
        OBVIOUS
      <3> HIDE DEF vec
      <3> QED  BY <1>3, <2>3, <3>1
    <2> HIDE DEF vec, read
    <2>5. Vouts(m) = [i \in DOMAIN Marked(read) |-> Marked(read)[i] - 1]
      BY DEF Vouts, read
    <2> QED  BY <2>4, <2>5
  <1>7. DOMAIN s = 1 .. Len(s)
    <2> HIDE DEF s
    <2> QED  BY <1>4 DEF Lists
  <1>8. \A v \in 0 .. n - 1 : BitIsSet(m, v) <=> outs[v + 1].isNotSpent
    <2>1. \A v \in 0 .. n - 1 : v + 1 \in 1 .. n
      BY <1>1
    <2> HIDE DEF vec
    <2> QED  BY <1>2, <1>5, <2>1
  <1> HIDE DEF s
  <1> QED  BY <1>3, <1>4, <1>6, <1>7, <1>8 DEF Encodes, outs, n, m

-----------------------------------------------------------------------------
\* The vouts a reader finds, and those there are.
VoutsFound(m) == {Vouts(m)[i] : i \in DOMAIN Vouts(m)}
VoutsOf(outs) == {i - 1 : i \in Unspent(outs)}

\* The outputs found are those listed in s, with their values in outs.
FoundAre(found, s, outs) ==
  /\ Lists(s, Unspent(outs))
  /\ DOMAIN found = 1 .. Len(s)
  /\ \A i \in 1 .. Len(s) : found[i] = [vout |-> s[i] - 1, value |-> outs[s[i]].value]

\* What ReadBitVector and ReadOutputs find: the unspent outputs, each with its
\* own value.
LEMMA ReadBack ==
  ASSUME NEW outs \in Seq(Output), NEW m, Encodes(m, outs)
  PROVE  /\ \E s : /\ FoundAre(ReadOutputs(m), s, outs)
                   /\ Vouts(m) = [i \in 1 .. Len(s) |-> s[i] - 1]
         /\ Len(Vouts(m)) = Cardinality(Unspent(outs)) /\ IsFiniteSet(Unspent(outs))
         /\ VoutsFound(m) = VoutsOf(outs)
  <1>1. PICK s : /\ Lists(s, Unspent(outs))
                 /\ Vouts(m) = [i \in 1 .. Len(s) |-> s[i] - 1]
                 /\ m.values = [i \in 1 .. Len(s) |-> outs[s[i]].value]
    BY DEF Encodes
  <1>2. Len(s) \in Nat
    BY <1>1 DEF Lists
  <1>3. DOMAIN Vouts(m) = 1 .. Len(s) /\ \A i \in 1 .. Len(s) : Vouts(m)[i] = s[i] - 1
    BY <1>1
  <1>4. \A i \in 1 .. Len(s) : m.values[i] = outs[s[i]].value
    BY <1>1
  <1>5. /\ DOMAIN ReadOutputs(m) = 1 .. Len(s)
        /\ \A i \in 1 .. Len(s) :
             ReadOutputs(m)[i] = [vout |-> s[i] - 1, value |-> outs[s[i]].value]
    BY <1>3, <1>4 DEF ReadOutputs
  <1>6. Len(Vouts(m)) = Len(s)
    <2>1. \A i \in 1 .. Len(s) : s[i] - 1 \in Int
      BY <1>1 DEF Lists
    <2> DEFINE n == Len(s)
    <2>2. Vouts(m) \in [1 .. n -> Int]
      BY <1>1, <2>1
    <2> HIDE DEF n
    <2> QED  BY <1>2, <2>2, FunctionIsSeq DEF n
  <1>7. VoutsFound(m) = VoutsOf(outs)
    <2>1. \A i \in 1 .. Len(s) : s[i] \in Unspent(outs)
      BY <1>1 DEF Lists
    <2>2. \A x \in Unspent(outs) : \E i \in 1 .. Len(s) : s[i] = x
      BY <1>1 DEF Lists
    <2> DEFINE U == Unspent(outs)
               D == 1 .. Len(s)
               V == Vouts(m)
    <2>3. DOMAIN V = D /\ \A i \in D : V[i] = s[i] - 1
      BY <1>3
    <2> HIDE DEF U, D, V
    <2>4. \A i \in D : V[i] \in {x - 1 : x \in U}
      BY <2>1, <2>3 DEF U, D
    <2>5. ASSUME NEW x \in U
          PROVE  x - 1 \in {V[i] : i \in D}
      <3>1. PICK i \in D : s[i] = x
        BY <2>2 DEF U, D
      <3>2. V[i] = x - 1
        BY <2>3, <3>1
      <3> QED  BY <3>2
    <2>6. {V[i] : i \in D} = {x - 1 : x \in U}
      BY <2>4, <2>5
    <2> QED  BY <2>3, <2>6 DEF U, V, VoutsFound, VoutsOf
  <1>8. FoundAre(ReadOutputs(m), s, outs)
    BY <1>1, <1>5 DEF FoundAre
  <1> QED  BY <1>1, <1>6, <1>7, <1>8, ListsLength DEF FoundAre

\* A record holds nothing but the one output vout exactly if the reader finds
\* only that.
LEMMA OnlyOneLeft ==
  ASSUME NEW outs \in Seq(Output), NEW m, Encodes(m, outs), NEW vout \in Nat
  PROVE  Vouts(m) = <<vout>> <=> Unspent(outs) = {vout + 1}
  <1>1. PICK s : Lists(s, Unspent(outs)) /\ Vouts(m) = [i \in 1 .. Len(s) |-> s[i] - 1]
    BY ReadBack DEF FoundAre
  <1>2. Len(s) \in Nat /\ Len(Vouts(m)) = Len(s)
    <2>1. Len(Vouts(m)) = Cardinality(Unspent(outs)) /\ Cardinality(Unspent(outs)) = Len(s)
      BY <1>1, ReadBack, ListsLength
    <2> QED  BY <1>1, <2>1 DEF Lists
  <1>3. /\ \A i \in 1 .. Len(s) : s[i] \in Nat /\ s[i] \in Unspent(outs)
        /\ \A x \in Unspent(outs) : \E i \in 1 .. Len(s) : s[i] = x
    BY <1>1 DEF Lists
  <1>4. \A i \in 1 .. Len(s) : Vouts(m)[i] = s[i] - 1
    BY <1>1
  <1>5. ASSUME Vouts(m) = <<vout>>
        PROVE  Unspent(outs) = {vout + 1}
    <2>1. Len(s) = 1
      BY <1>2, <1>5
    <2>2. s[1] - 1 = vout /\ s[1] \in Nat
      BY <1>3, <1>4, <1>5, <2>1
    <2>3. s[1] = vout + 1 /\ 1 .. Len(s) = {1}
      BY <2>1, <2>2
    <2> QED  BY <1>3, <2>3
  <1>6. ASSUME Unspent(outs) = {vout + 1}
        PROVE  Vouts(m) = <<vout>>
    <2>1. Len(s) = 1
      BY <1>1, <1>6, ListsLength, FS_Singleton
    <2>2. s[1] = vout + 1
      BY <1>3, <1>6, <2>1
    <2>3. 1 .. 1 = {1} /\ s[1] - 1 = vout
      BY <2>2
    <2>4. Vouts(m) = [i \in {1} |-> s[i] - 1]
      BY <1>1, <2>1, <2>3
    <2>5. Vouts(m) = [i \in {1} |-> vout]
      BY <2>3, <2>4
    <2>6. <<vout>> = [i \in 1 .. 1 |-> vout]
      OBVIOUS
    <2> QED  BY <2>3, <2>5, <2>6
  <1> QED  BY <1>5, <1>6

\* GetUtxo finds an output exactly if it is not spent, and with its own value.
LEMMA FoundUtxo ==
  ASSUME NEW t \in DOMAIN store, NEW outs \in Seq(Output), Encodes(Meta(t), outs),
         NEW vout \in Nat
  PROVE  GetUtxo(t, vout) = IF vout + 1 \in Unspent(outs)
                            THEN {[vout |-> vout, value |-> outs[vout + 1].value]} ELSE {}
  <1> DEFINE m == Meta(t)
             found == ReadOutputs(m)
  <1>0. PICK s : FoundAre(found, s, outs)
    <2>1. Encodes(m, outs)
      OBVIOUS
    <2> HIDE DEF m
    <2> QED  BY <2>1, ReadBack
  <1>1. /\ Lists(s, Unspent(outs))
        /\ DOMAIN found = 1 .. Len(s)
        /\ \A i \in 1 .. Len(s) : found[i] = [vout |-> s[i] - 1, value |-> outs[s[i]].value]
    BY <1>0 DEF FoundAre
  <1>2. GetUtxo(t, vout) = {found[i] : i \in {j \in DOMAIN found : found[j].vout = vout}}
    BY DEF GetUtxo
  <1>3. /\ \A i \in 1 .. Len(s) : s[i] \in Nat /\ s[i] \in Unspent(outs)
        /\ \A x \in Unspent(outs) : \E i \in 1 .. Len(s) : s[i] = x
    BY <1>1 DEF Lists
  <1> HIDE DEF found
  <1>4. \A i \in 1 .. Len(s) : found[i].vout = vout <=> s[i] = vout + 1
    <2>1. \A i \in 1 .. Len(s) : found[i].vout = s[i] - 1
      BY <1>1
    <2>2. \A i \in 1 .. Len(s) : s[i] - 1 = vout <=> s[i] = vout + 1
      BY <1>3
    <2> QED  BY <2>1, <2>2
  <1>5. CASE vout + 1 \in Unspent(outs)
    <2> DEFINE o == [vout |-> vout, value |-> outs[vout + 1].value]
    <2>1. PICK i \in 1 .. Len(s) : s[i] = vout + 1
      BY <1>3, <1>5
    <2>2. \A k \in 1 .. Len(s) : s[k] = vout + 1 => found[k] = o
      <3>1. vout + 1 - 1 = vout
        OBVIOUS
      <3> QED  BY <1>1, <3>1
    <2> HIDE DEF o
    <2>3. {found[k] : k \in {j \in DOMAIN found : found[j].vout = vout}} = {o}
      BY <1>1, <1>4, <2>1, <2>2
    <2> QED  BY <1>2, <1>5, <2>3 DEF o
  <1>6. CASE vout + 1 \notin Unspent(outs)
    <2>1. {j \in DOMAIN found : found[j].vout = vout} = {}
      BY <1>1, <1>3, <1>4, <1>6
    <2> QED  BY <1>2, <1>6, <2>1
  <1> QED  BY <1>5, <1>6

\* The transaction RemoveUtxo writes in place of a record has the other unspent
\* outputs at their places, with their values.
LEMMA FakeKeepsTheRest ==
  ASSUME NEW outs \in Seq(Output), NEW m, Encodes(m, outs), NEW vout \in Nat,
         vout + 1 \in Unspent(outs)
  PROVE  LET fake == FakeTransaction(m, vout).outs
         IN  /\ fake \in Seq(Output) /\ Len(fake) = Len(outs)
             /\ Unspent(fake) = Unspent(outs) \ {vout + 1}
             /\ \A i \in Unspent(fake) : fake[i].value = outs[i].value
  <1> DEFINE fake == FakeTransaction(m, vout).outs
             found == ReadOutputs(m)
             n == Len(outs)
             Kept(i) == {j \in DOMAIN found : found[j].vout = i - 1 /\ found[j].vout # vout}
             there == [i \in 1 .. n |->
                         IF Kept(i) # {}
                         THEN [value |-> found[CHOOSE j \in Kept(i) : TRUE].value,
                               isNotSpent |-> TRUE]
                         ELSE [value |-> 0, isNotSpent |-> FALSE]]
  <1>0. PICK s : FoundAre(found, s, outs)
    BY ReadBack
  <1>1. /\ Lists(s, Unspent(outs))
        /\ DOMAIN found = 1 .. Len(s)
        /\ \A i \in 1 .. Len(s) : found[i] = [vout |-> s[i] - 1, value |-> outs[s[i]].value]
    BY <1>0 DEF FoundAre
  <1>2. n \in Nat /\ m.noOfOutputs = n
    BY DEF Encodes
  <1>3. fake = there
    BY <1>2 DEF FakeTransaction
  <1>4. /\ \A i \in 1 .. Len(s) : s[i] \in Nat /\ s[i] \in Unspent(outs)
        /\ \A x \in Unspent(outs) : \E i \in 1 .. Len(s) : s[i] = x
    BY <1>1 DEF Lists
  <1>5. \A i \in Unspent(outs) : i \in 1 .. n /\ i \in Nat /\ outs[i].value \in Nat
    <2>1. \A i \in 1 .. n : outs[i] \in Output
      OBVIOUS
    <2>2. \A o \in Output : o.value \in Nat
      BY DEF Output
    <2> QED  BY <1>2, <2>1, <2>2 DEF Unspent
  <1> HIDE DEF found, fake
  <1>6. ASSUME NEW i \in 1 .. n, i \in Unspent(outs), i # vout + 1
        PROVE  there[i] = [value |-> outs[i].value, isNotSpent |-> TRUE]
    <2>1. PICK j \in 1 .. Len(s) : s[j] = i
      BY <1>4, <1>6
    <2>2. j \in Kept(i)
      <3>1. found[j].vout = i - 1 /\ i - 1 # vout
        BY <1>1, <1>2, <1>6, <2>1
      <3> QED  BY <1>1, <3>1
    <2>3. ASSUME NEW k \in Kept(i)
          PROVE  found[k].value = outs[i].value
      <3>1. k \in 1 .. Len(s) /\ found[k].vout = i - 1
        BY <1>1
      <3>2. s[k] - 1 = i - 1 /\ s[k] \in Nat
        BY <1>1, <1>4, <3>1
      <3>3. s[k] = i
        BY <1>2, <3>2
      <3> QED  BY <1>1, <3>1, <3>3
    <2> DEFINE k == CHOOSE x \in Kept(i) : TRUE
    <2>4. k \in Kept(i)
      BY <2>2
    <2>5. there[i] = [value |-> found[k].value, isNotSpent |-> TRUE]
      BY <2>2
    <2> HIDE DEF k, Kept, there
    <2> QED  BY <2>3, <2>4, <2>5
  <1>7. ASSUME NEW i \in 1 .. n, i \notin Unspent(outs) \/ i = vout + 1
        PROVE  there[i] = [value |-> 0, isNotSpent |-> FALSE]
    <2>1. Kept(i) = {}
      <3> SUFFICES ASSUME NEW j \in Kept(i)  PROVE FALSE
        OBVIOUS
      <3>1. j \in 1 .. Len(s) /\ found[j].vout = i - 1 /\ found[j].vout # vout
        BY <1>1
      <3>2. s[j] - 1 = i - 1 /\ s[j] \in Nat /\ s[j] \in Unspent(outs) /\ i - 1 # vout
        BY <1>1, <1>4, <3>1
      <3>3. s[j] = i /\ i # vout + 1
        BY <1>2, <3>2
      <3> QED  BY <1>7, <3>2, <3>3
    <2> QED  BY <2>1
  <1>8. ASSUME NEW i \in 1 .. n
        PROVE  there[i] \in Output
    <2> HIDE DEF there
    <2> DEFINE Out(x, b) == [value |-> x, isNotSpent |-> b]
    <2>3. \A x \in Nat : \A b \in BOOLEAN : Out(x, b) \in Output
      BY DEF Output
    <2>1. CASE i \in Unspent(outs) /\ i # vout + 1
      <3>1. there[i] = Out(outs[i].value, TRUE) /\ outs[i].value \in Nat
        BY <1>5, <1>6, <2>1
      <3> HIDE DEF Out
      <3> QED  BY <2>3, <3>1
    <2>2. CASE ~(i \in Unspent(outs) /\ i # vout + 1)
      <3>1. there[i] = Out(0, FALSE) /\ 0 \in Nat
        BY <1>7, <2>2
      <3> HIDE DEF Out
      <3> QED  BY <2>3, <3>1
    <2> QED  BY <2>1, <2>2
  <1>9. fake \in Seq(Output) /\ Len(fake) = n
    <2>1. there \in [1 .. n -> Output]
      <3>1. there = [i \in 1 .. n |-> there[i]]
        OBVIOUS
      <3> HIDE DEF there
      <3> QED  BY <1>8, <3>1
    <2> HIDE DEF there, n
    <2> QED  BY <1>2, <1>3, <2>1, FunctionIsSeq
  <1>10. \A i \in 1 .. n :
           /\ fake[i].isNotSpent <=> i \in Unspent(outs) /\ i # vout + 1
           /\ fake[i].isNotSpent => fake[i].value = outs[i].value
    <2> SUFFICES ASSUME NEW i \in 1 .. n
                 PROVE  /\ fake[i].isNotSpent <=> i \in Unspent(outs) /\ i # vout + 1
                        /\ fake[i].isNotSpent => fake[i].value = outs[i].value
      OBVIOUS
    <2> HIDE DEF there
    <2>1. CASE i \in Unspent(outs) /\ i # vout + 1
      <3>1. fake[i] = [value |-> outs[i].value, isNotSpent |-> TRUE]
        BY <1>3, <1>6, <2>1
      <3>2. fake[i].isNotSpent = TRUE /\ fake[i].value = outs[i].value
        BY <3>1
      <3> QED  BY <2>1, <3>2
    <2>2. CASE ~(i \in Unspent(outs) /\ i # vout + 1)
      <3>1. fake[i] = [value |-> 0, isNotSpent |-> FALSE]
        BY <1>3, <1>7, <2>2
      <3>2. fake[i].isNotSpent = FALSE
        BY <3>1
      <3> QED  BY <2>2, <3>2
    <2> QED  BY <2>1, <2>2
  <1>11. Unspent(fake) = {i \in 1 .. n : fake[i].isNotSpent}
    BY <1>9 DEF Unspent
  <1>12. Unspent(fake) = Unspent(outs) \ {vout + 1}
    BY <1>5, <1>10, <1>11
  <1>13. \A i \in Unspent(fake) : fake[i].value = outs[i].value
    BY <1>10, <1>11
  <1> QED  BY <1>9, <1>12, <1>13 DEF fake

-----------------------------------------------------------------------------
\* outs are the outputs of t after some of them were spent, but not all.
LeftOf(t, outs) ==
  /\ outs \in Seq(Output) /\ Len(outs) = Len(Outputs[t])
  /\ Unspent(outs) # {} /\ Unspent(outs) \subseteq Unspent(Outputs[t])
  /\ \A i \in Unspent(outs) : outs[i].value = Outputs[t][i].value

\* The metadata m is that of such outputs.
Holds(t, m) == \E outs : LeftOf(t, outs) /\ Encodes(m, outs)

\* Every record of a chainstate, stored or in the batch, legible or not, was
\* made of what is left of its transaction.
RecordsOK ==
  kind = "chainstate" =>
    /\ \A t \in DOMAIN store : Holds(t, store[t].data)
    /\ \A t \in DOMAIN currentBatch : Holds(t, currentBatch[t].data)

CoinsInv == EntriesInv /\ RecordsOK

\* What Get returns is what was written, if it can be read at all.
LEMMA MetaIs ==
  ASSUME EntriesInv, NEW t \in DOMAIN store
  PROVE  Meta(t) = store[t].data
  <1> DEFINE e == store[t]
  <1>1. e = [data |-> e.data, mask |-> IF t \in byBatch THEN {} ELSE storedKey]
    BY DEF EntriesInv, EntriesMasked
  <1> HIDE DEF e
  <1>2. ObfuscateValue(e).data = e.data
    BY <1>1 DEF ObfuscateValue
  <1> QED  BY <1>2 DEF Meta, Get, e

\* A transaction that is not spent holds its outputs.
LEMMA InsertedHolds ==
  ASSUME NEW t \in Txid, ~IsSpent(t)
  PROVE  Holds(t, MetadataOf(t)) /\ Encodes(MetadataOf(t), Outputs[t])
         /\ LeftOf(t, Outputs[t])
  <1> DEFINE outs == Outputs[t]
  <1>1. outs \in Seq(Output)
    BY CoinStoreAssumption DEF Output
  <1>2. Encodes(MetadataOf(t), outs)
    <2> DEFINE x == [isCoinbase |-> CoinbaseOf[t], height |-> HeightOf[t], outs |-> outs]
    <2>1. x.outs = outs
      OBVIOUS
    <2>2. MetadataOf(t) = SerializeTXMetadata(x)
      BY DEF MetadataOf
    <2> HIDE DEF x
    <2> QED  BY <1>1, <2>1, <2>2, SerializeEncodes
  <1>3. Unspent(outs) # {}
    <2>1. PICK i \in DOMAIN outs : outs[i].isNotSpent
      BY DEF IsSpent
    <2>2. DOMAIN outs = 1 .. Len(outs)
      BY <1>1
    <2> HIDE DEF outs
    <2> QED  BY <2>1, <2>2 DEF Unspent
  <1>4. LeftOf(t, outs)
    BY <1>1, <1>3 DEF LeftOf
  <1> QED  BY <1>2, <1>4 DEF Holds

\* After RemoveUtxo a record holds the rest.
LEMMA RestHolds ==
  ASSUME NEW t, NEW m, NEW vout \in Nat, NEW outs, LeftOf(t, outs), Encodes(m, outs),
         vout < m.noOfOutputs, BitIsSet(m, vout), Vouts(m) # <<vout>>
  PROVE  LET fake == FakeTransaction(m, vout)
         IN  /\ Holds(t, SerializeTXMetadata(fake))
             /\ Encodes(SerializeTXMetadata(fake), fake.outs)
             /\ fake.outs \in Seq(Output)
             /\ Unspent(fake.outs) = Unspent(outs) \ {vout + 1}
             /\ vout + 1 \in Unspent(outs)
  <1> DEFINE fake == FakeTransaction(m, vout)
  <1>1. outs \in Seq(Output) /\ m.noOfOutputs = Len(outs) /\ Len(outs) \in Nat
    BY DEF LeftOf, Encodes
  <1>2. vout + 1 \in Unspent(outs)
    <2>1. vout \in 0 .. Len(outs) - 1 /\ vout + 1 \in 1 .. Len(outs)
      BY <1>1
    <2> QED  BY <2>1 DEF Encodes, Unspent
  <1>3. /\ fake.outs \in Seq(Output) /\ Len(fake.outs) = Len(outs)
        /\ Unspent(fake.outs) = Unspent(outs) \ {vout + 1}
        /\ \A i \in Unspent(fake.outs) : fake.outs[i].value = outs[i].value
    BY <1>1, <1>2, FakeKeepsTheRest
  <1> HIDE DEF fake
  <1>4. Encodes(SerializeTXMetadata(fake), fake.outs)
    BY <1>3, SerializeEncodes
  <1>5. Unspent(fake.outs) # {}
    <2>1. Unspent(outs) # {vout + 1}
      BY <1>1, OnlyOneLeft
    <2> QED  BY <1>2, <1>3, <2>1
  <1>6. LeftOf(t, fake.outs)
    BY <1>3, <1>5 DEF LeftOf
  <1> QED  BY <1>2, <1>3, <1>4, <1>6 DEF Holds, fake

\* A record that is inserted, in place of another or not.
LEMMA InsertRecords ==
  ASSUME CoinsInv, NEW t, NEW m, Holds(t, m), Insert(t, m), kind' = kind
  PROVE  RecordsOK'
  <1>1. /\ DOMAIN store' = DOMAIN store \cup {t}
        /\ store'[t] = [data |-> m, mask |-> mask]
        /\ \A j \in DOMAIN store \ {t} : store'[j] = store[j]
        /\ UNCHANGED currentBatch
    BY InsertFacts DEF CoinsInv, EntriesInv, TypeOK
  <1>2. \A u \in DOMAIN store' : u = t \/ u \in DOMAIN store \ {t}
    BY <1>1
  <1>3. store'[t].data = m
    BY <1>1
  <1> HIDE DEF Insert
  <1>4. ASSUME kind = "chainstate", NEW u \in DOMAIN store'
        PROVE  Holds(u, store'[u].data)
    BY <1>1, <1>2, <1>3, <1>4 DEF CoinsInv, RecordsOK
  <1>5. ASSUME kind = "chainstate", NEW u \in DOMAIN currentBatch'
        PROVE  Holds(u, currentBatch'[u].data)
    <2>1. u \in DOMAIN currentBatch /\ currentBatch'[u] = currentBatch[u]
      BY <1>1, <1>5
    <2> QED  BY <1>5, <2>1 DEF CoinsInv, RecordsOK
  <1> QED  BY <1>4, <1>5 DEF RecordsOK

\* A record that is deleted.
LEMMA DeleteRecords ==
  ASSUME CoinsInv, NEW t, Delete(t), kind' = kind
  PROVE  RecordsOK'
  <1>1. /\ DOMAIN store' = DOMAIN store \ {t}
        /\ \A j \in DOMAIN store \ {t} : store'[j] = store[j]
        /\ currentBatch' = currentBatch
    BY DEF Delete
  <1> QED  BY <1>1 DEF CoinsInv, RecordsOK

\* Nothing stored changes, and no batch begins.
LEMMA KeptRecords ==
  ASSUME CoinsInv, UNCHANGED <<store, kind>>,
         currentBatch' = currentBatch \/ DOMAIN currentBatch' = {}
  PROVE  RecordsOK'
  BY DEF CoinsInv, RecordsOK

\* The operations of the chainstate make every record of what is left of its
\* transaction.
LEMMA ChainstateRecords ==
  ASSUME CoinsInv, UseChainstate
  PROVE  RecordsOK'
  <1>1. kind = "chainstate" /\ kind' = kind
    BY DEF UseChainstate
  <1>2. ASSUME NEW t \in Txid, InsertTX(t)
        PROVE  RecordsOK'
    <2>1. ~IsSpent(t) /\ Insert(t, MetadataOf(t))
      BY <1>2 DEF InsertTX
    <2> QED  BY <1>1, <2>1, InsertedHolds, InsertRecords
  <1>3. ASSUME NEW t \in Txid, InsertBatchTX(t)
        PROVE  RecordsOK'
    <2>1. /\ DOMAIN currentBatch' = DOMAIN currentBatch \cup {t}
          /\ currentBatch'[t] = [data |-> MetadataOf(t), mask |-> {}]
          /\ \A k \in DOMAIN currentBatch \ {t} : currentBatch'[k] = currentBatch[k]
          /\ store' = store
      BY <1>3 DEF InsertBatchTX, PutInBatch, With
    <2>2. Holds(t, currentBatch'[t].data)
      <3>1. currentBatch'[t].data = MetadataOf(t)
        BY <2>1
      <3> QED  BY <1>3, <3>1, InsertedHolds DEF InsertBatchTX
    <2>3. \A u \in DOMAIN currentBatch' : Holds(u, currentBatch'[u].data)
      <3>1. ASSUME NEW u \in DOMAIN currentBatch', u # t
            PROVE  Holds(u, currentBatch'[u].data)
        BY <1>1, <2>1, <3>1 DEF CoinsInv, RecordsOK
      <3> QED  BY <2>2, <3>1
    <2> QED  BY <1>1, <2>1, <2>3 DEF CoinsInv, RecordsOK
  <1>4. CASE WriteBatchTX
    <2>1. /\ DOMAIN store' = DOMAIN store \cup DOMAIN currentBatch
          /\ \A k \in DOMAIN currentBatch : store'[k] = currentBatch[k]
          /\ \A k \in DOMAIN store \ DOMAIN currentBatch : store'[k] = store[k]
          /\ DOMAIN currentBatch' = {}
      BY <1>4 DEF WriteBatchTX, WriteBatch, NoEntries
    <2> QED  BY <1>1, <2>1 DEF CoinsInv, RecordsOK
  <1>5. ASSUME NEW t \in Txid, RemoveTX(t)
        PROVE  RecordsOK'
    BY <1>1, <1>5, DeleteRecords DEF RemoveTX
  <1>6. ASSUME NEW t \in Txid, NEW vout, RemoveLastUtxo(t, vout)
        PROVE  RecordsOK'
    BY <1>1, <1>6, DeleteRecords DEF RemoveLastUtxo
  <1>7. ASSUME NEW t \in Txid, NEW vout \in 0 .. Len(Outputs[t]), RemoveOneUtxo(t, vout)
        PROVE  RecordsOK'
    <2>1. /\ t \in DOMAIN store /\ vout \in Nat
          /\ vout < Meta(t).noOfOutputs /\ BitIsSet(Meta(t), vout)
          /\ Vouts(Meta(t)) # <<vout>>
          /\ Insert(t, SerializeTXMetadata(FakeTransaction(Meta(t), vout)))
      BY <1>7 DEF RemoveOneUtxo
    <2>2. PICK outs : LeftOf(t, outs) /\ Encodes(Meta(t), outs)
      BY <1>1, <2>1, MetaIs DEF CoinsInv, RecordsOK, Holds
    <2>3. Holds(t, SerializeTXMetadata(FakeTransaction(Meta(t), vout)))
      BY <2>1, <2>2, RestHolds
    <2> QED  BY <1>1, <2>1, <2>3, InsertRecords
  <1>8. ASSUME NEW t \in Txid, ReadNoise(t)
        PROVE  RecordsOK'
    BY <1>1, <1>8, KeptRecords DEF ReadNoise, Lost, NoEntries
  <1> QED
    BY <1>2, <1>3, <1>4, <1>5, <1>6, <1>7, <1>8 DEF UseChainstate, CoinStep

\* A new database has no records, and every step keeps those there are.
LEMMA CoinsInductive == Spec => []CoinsInv
  <1>1. Init => RecordsOK
    BY DEF Init, InitDB, NoEntries, RecordsOK
  <1>2. IInv /\ RecordsOK /\ [Next]_vars => RecordsOK'
    <2> SUFFICES ASSUME IInv, RecordsOK, [Next]_vars  PROVE RecordsOK'
      OBVIOUS
    <2>1. CoinsInv
      BY DEF CoinsInv, IInv
    <2>2. CASE Open
      BY <2>1, <2>2, KeptRecords DEF Open, NewDBwrapper
    <2>3. CASE CloseOrDie
      BY <2>1, <2>3, KeptRecords DEF CloseOrDie, Lost, NoEntries
    <2>4. CASE UseChainstate
      BY <2>1, <2>4, ChainstateRecords
    <2>5. CASE UsePages
      BY <2>5 DEF UsePages, RecordsOK
    <2>6. CASE UNCHANGED vars
      BY <2>1, <2>6, KeptRecords DEF vars, coinVars, dbVars
    <2> QED  BY <2>2, <2>3, <2>4, <2>5, <2>6 DEF Next
  <1>3. IInv /\ RecordsOK => CoinsInv
    BY DEF IInv, CoinsInv
  <1> QED  BY <1>1, <1>2, <1>3, Inductive, PTL DEF Spec

-----------------------------------------------------------------------------
\* What is read of a record that can be read.
LEMMA RecordIs ==
  ASSUME CoinsInv, NEW t \in Stored
  PROVE  /\ kind = "chainstate" /\ t \in DOMAIN store /\ t \in Txid
         /\ Meta(t) = store[t].data
         /\ \E outs : LeftOf(t, outs) /\ Encodes(Meta(t), outs)
  <1>1. t \in DOMAIN store /\ t \in Txid
    BY DEF Stored
  <1>2. kind = "chainstate"
    <2>1. CASE kind = "pages"
      <3>1. t \in PagedKey \X (0 .. PageNumbers - 1)
        BY <1>1, <2>1 DEF CoinsInv, EntriesInv, TypeOK, IsEntries
      <3> QED  BY <1>1, <3>1, StoresAssumption
    <2> QED  BY <2>1 DEF CoinsInv, EntriesInv, TypeOK
  <1>3. Meta(t) = store[t].data
    BY <1>1, MetaIs DEF CoinsInv
  <1> QED  BY <1>1, <1>2, <1>3 DEF CoinsInv, RecordsOK, Holds

\* Chainstate: the value that GetUtxo finds for an output is the one it was created
\* with, whatever was spent before, and GetNoOfUTXOs counts no output too many.
THEOREM StoresValueKept == Spec => []ValueKept
  <1>1. CoinsInv => ValueKept
    <2> SUFFICES ASSUME CoinsInv, NEW t \in Records
                 PROVE  /\ \A vout \in 0 .. Len(Outputs[t]) : \A o \in GetUtxo(t, vout) :
                             o.value = Outputs[t][vout + 1].value
                        /\ GetNoOfUTXOs(t) > 0
                        /\ GetNoOfUTXOs(t) <=
                             Cardinality({i \in DOMAIN Outputs[t] : Outputs[t][i].isNotSpent})
      BY DEF ValueKept
    <2>1. t \in DOMAIN store /\ t \in Txid
      BY RecordIs DEF Records
    <2>2. PICK outs : LeftOf(t, outs) /\ Encodes(Meta(t), outs)
      BY RecordIs DEF Records
    <2>3. /\ outs \in Seq(Output) /\ Len(outs) = Len(Outputs[t])
          /\ Unspent(outs) # {} /\ Unspent(outs) \subseteq Unspent(Outputs[t])
          /\ \A i \in Unspent(outs) : outs[i].value = Outputs[t][i].value
      BY <2>2 DEF LeftOf
    <2>4. ASSUME NEW vout \in 0 .. Len(Outputs[t]), NEW o \in GetUtxo(t, vout)
          PROVE  o.value = Outputs[t][vout + 1].value
      <3>1. vout \in Nat
        OBVIOUS
      <3>2. GetUtxo(t, vout) = IF vout + 1 \in Unspent(outs)
                               THEN {[vout |-> vout, value |-> outs[vout + 1].value]} ELSE {}
        BY <2>1, <2>2, <2>3, <3>1, FoundUtxo
      <3>3. vout + 1 \in Unspent(outs) /\ o.value = outs[vout + 1].value
        BY <3>2
      <3> QED  BY <2>3, <3>3
    <2>5. /\ GetNoOfUTXOs(t) = Cardinality(Unspent(outs))
          /\ IsFiniteSet(Unspent(outs))
      BY <2>2, <2>3, ReadBack DEF GetNoOfUTXOs
    <2>6. /\ Unspent(Outputs[t]) = {i \in DOMAIN Outputs[t] : Outputs[t][i].isNotSpent}
          /\ IsFiniteSet(Unspent(Outputs[t]))
      <3>1. Outputs[t] \in Seq(Output)
        BY <2>1, CoinStoreAssumption DEF Output
      <3>2. DOMAIN Outputs[t] = 1 .. Len(Outputs[t]) /\ Len(Outputs[t]) \in Nat
        BY <3>1
      <3>3. IsFiniteSet(1 .. Len(Outputs[t]))
        BY <3>2, FS_Interval
      <3>4. Unspent(Outputs[t]) \subseteq 1 .. Len(Outputs[t])
        BY DEF Unspent
      <3> QED  BY <3>2, <3>3, <3>4, FS_Subset DEF Unspent
    <2>7. /\ Cardinality(Unspent(outs)) <= Cardinality(Unspent(Outputs[t]))
          /\ Cardinality(Unspent(outs)) \in Nat /\ Cardinality(Unspent(outs)) # 0
      BY <2>3, <2>5, <2>6, FS_Subset, FS_EmptySet, FS_CardinalityType
    <2> QED  BY <2>4, <2>5, <2>6, <2>7
  <1> QED  BY <1>1, CoinsInductive, PTL

\* Chainstate: UtxoExists tells what GetUtxo finds, for every output but the one
\* after the last.
THEOREM StoresUtxoExistsAgrees == Spec => []UtxoExistsAgrees
  <1>1. CoinsInv => UtxoExistsAgrees
    <2> SUFFICES ASSUME CoinsInv, NEW t \in Records,
                        NEW vout \in (0 .. Len(Outputs[t]) + 1) \ {Len(Outputs[t])}
                 PROVE  UtxoExists(t, vout) = IF GetUtxo(t, vout) # {} THEN "true" ELSE "false"
      BY DEF UtxoExistsAgrees
    <2>1. t \in DOMAIN store /\ t \in Txid
      BY RecordIs DEF Records
    <2>2. PICK outs : LeftOf(t, outs) /\ Encodes(Meta(t), outs)
      BY RecordIs DEF Records
    <2>3. /\ outs \in Seq(Output) /\ Len(outs) = Len(Outputs[t]) /\ Len(outs) \in Nat
          /\ vout \in Nat
      BY <2>2 DEF LeftOf
    <2>4. GetUtxo(t, vout) # {} <=> vout + 1 \in Unspent(outs)
      <3>1. GetUtxo(t, vout) = IF vout + 1 \in Unspent(outs)
                               THEN {[vout |-> vout, value |-> outs[vout + 1].value]} ELSE {}
        BY <2>1, <2>2, <2>3, FoundUtxo
      <3> QED  BY <3>1
    <2>5. Meta(t).noOfOutputs = Len(outs)
      BY <2>2 DEF Encodes
    <2>6. CASE Len(outs) < vout
      BY <2>1, <2>3, <2>4, <2>5, <2>6 DEF UtxoExists, Unspent
    <2>7. CASE vout < Len(outs)
      <3>1. vout \in 0 .. Len(outs) - 1 /\ vout + 1 \in 1 .. Len(outs)
        BY <2>3, <2>7
      <3>2. BitIsSet(Meta(t), vout) <=> vout + 1 \in Unspent(outs)
        BY <2>2, <3>1 DEF Encodes, Unspent
      <3>3. UtxoExists(t, vout) = IF BitIsSet(Meta(t), vout) THEN "true" ELSE "false"
        BY <2>1, <2>3, <2>5, <2>7 DEF UtxoExists
      <3> QED  BY <2>3, <2>4, <2>7, <3>2, <3>3
    <2> QED  BY <2>3, <2>6, <2>7
  <1> QED  BY <1>1, CoinsInductive, PTL

-----------------------------------------------------------------------------
\* The records that can be read, as functions of what is stored.
LEMMA CoinsAre ==
  EntriesInv =>
    ReadCoins = [t \in Records |-> RecordIn(store[t].data)] /\ Records \subseteq Stored
  <1> SUFFICES ASSUME EntriesInv
               PROVE  /\ ReadCoins = [t \in Records |-> RecordIn(store[t].data)]
                      /\ Records \subseteq Stored
    OBVIOUS
  <1>1. Records \subseteq Stored
    BY DEF Records
  <1>2. \A t \in Records : Meta(t) = store[t].data
    BY <1>1, MetaIs DEF Stored
  <1> HIDE DEF RecordIn
  <1> QED  BY <1>1, <1>2 DEF ReadCoins

\* A step changes only the records of the transactions D, and every record can be
\* read after it.
OnlyThose(D) ==
  /\ storedKey' = storedKey \/ DOMAIN store' = {}
  /\ Records' = Stored'
  /\ \A u \in DOMAIN store \cup DOMAIN store' : u \notin D =>
       u \in DOMAIN store /\ u \in DOMAIN store' /\ store'[u] = store[u]

\* Then those who can be read before it, other than D, are those after it, and
\* they are the same.
LEMMA OthersStay ==
  ASSUME NEW D, OnlyThose(D), EntriesInv, EntriesInv'
  PROVE  /\ Records' \ D = Records \ D
         /\ \A u \in Records' \ D : ReadCoins'[u] = ReadCoins[u]
         /\ \A u \in Records' : ReadCoins'[u] = RecordIn(store'[u].data)
         /\ DOMAIN ReadCoins' = Records' /\ DOMAIN ReadCoins = Records
         /\ ReadCoins' = [u \in Records' |-> ReadCoins'[u]]
  <1>1. ReadCoins = [t \in Records |-> RecordIn(store[t].data)] /\ Records \subseteq Stored
    BY CoinsAre
  <1>2. (ReadCoins = [t \in Records |-> RecordIn(store[t].data)] /\ Records \subseteq Stored)'
    BY CoinsAre, PTL
  <1>3. /\ \A u : WillBeLegible(u) <=> store[u].mask = storedKey
        /\ \A u : WillBeLegible(u)' <=> store'[u].mask = storedKey'
    BY DEF WillBeLegible, EntriesInv, TypeOK
  <1>4. ASSUME NEW u \in Records', u \notin D
        PROVE  u \in Records /\ store'[u] = store[u]
    BY <1>2, <1>3, <1>4 DEF OnlyThose, Records, Stored
  <1>6. ASSUME NEW u \in Records, u \notin D
        PROVE  u \in Records'
    BY <1>1, <1>3, <1>6 DEF OnlyThose, Records, Stored
  <1> HIDE DEF ReadCoins, Records, RecordIn
  <1>5. ReadCoins' = [t \in Records' |-> RecordIn(store'[t].data)]
    BY <1>2 DEF RecordIn, Vouts, BitIsSet, NoOfBytes
  <1> QED  BY <1>1, <1>4, <1>5, <1>6

\* If that was none, nothing has changed.
LEMMA SameCoins ==
  ASSUME OnlyThose({}), CoinsInv, CoinsInv'
  PROVE  ReadCoins' = ReadCoins
  <1>1. /\ Records' = Records /\ \A u \in Records' : ReadCoins'[u] = ReadCoins[u]
        /\ ReadCoins' = [u \in Records' |-> ReadCoins'[u]]
    BY OthersStay DEF CoinsInv
  <1>2. ReadCoins = [u \in Records |-> RecordIn(store[u].data)]
    BY CoinsAre DEF CoinsInv
  <1> HIDE DEF ReadCoins, Records, RecordIn
  <1>3. ReadCoins = [u \in Records |-> ReadCoins[u]]
    BY <1>2
  <1> QED  BY <1>1, <1>3

\* The record of a transaction that is not spent has its unspent outputs.
LEMMA RecordOf ==
  ASSUME NEW m, NEW outs \in Seq(Output), Encodes(m, outs)
  PROVE  /\ RecordIn(m).unspent = VoutsOf(outs)
         /\ RecordIn(m).unspent = {} <=> Unspent(outs) = {}
  <1>1. VoutsFound(m) = VoutsOf(outs)
    BY ReadBack
  <1>2. RecordIn(m).unspent = VoutsFound(m)
    BY DEF RecordIn, VoutsFound
  <1> QED  BY <1>1, <1>2 DEF VoutsOf

\* The batch is read as it is written.
LEMMA BatchStays ==
  ASSUME currentBatch' = currentBatch
  PROVE  ReadBatch' = ReadBatch
  BY DEF ReadBatch, RecordIn, Vouts, BitIsSet, NoOfBytes

\* Where all records can be read afterwards, inserting one is inserting it.
LEMMA InsertTXImplements ==
  ASSUME CoinsInv, CoinsInv', Records' = Stored', NEW t \in Txid, InsertTX(t)
  PROVE  C!InsertTX(t)
  <1> DEFINE rec == RecordIn(MetadataOf(t))
             only == [i \in {t} |-> rec]
  <1>1. /\ DOMAIN store' = DOMAIN store \cup {t}
        /\ store'[t] = [data |-> MetadataOf(t), mask |-> mask]
        /\ \A j \in DOMAIN store \ {t} : store'[j] = store[j]
        /\ UNCHANGED <<isObfuscated, open, storedKey, mask, currentBatch>>
    BY InsertFacts DEF InsertTX, CoinsInv, EntriesInv, TypeOK
  <1>2. OnlyThose({t})
    BY <1>1 DEF OnlyThose
  <1>3. t \in Records' /\ store'[t].data = MetadataOf(t)
    BY <1>1 DEF Stored
  <1>4. /\ Records' \ {t} = Records \ {t}
        /\ \A u \in Records' \ {t} : ReadCoins'[u] = ReadCoins[u]
        /\ ReadCoins'[t] = rec
        /\ DOMAIN ReadCoins = Records
        /\ ReadCoins' = [u \in Records' |-> ReadCoins'[u]]
    BY <1>2, <1>3, OthersStay DEF CoinsInv
  <1>5. rec.unspent # {}
    <2>1. LeftOf(t, Outputs[t]) /\ Encodes(MetadataOf(t), Outputs[t])
      BY InsertedHolds DEF InsertTX
    <2> QED  BY <2>1, RecordOf DEF LeftOf
  <1>6. C!Only(t) = only /\ [u \in Txid |-> RecordIn(MetadataOf(u))][t] = rec
    BY DEF C!Only
  <1> HIDE DEF rec, ReadCoins, Records
  <1>7. C!Overlay(ReadCoins, only) =
          [u \in Records \cup {t} |-> IF u \in {t} THEN rec ELSE ReadCoins[u]]
    BY <1>4 DEF C!Overlay
  <1>8. Records' = Records \cup {t}
    BY <1>3, <1>4
  <1>9. ReadCoins' = [u \in Records \cup {t} |-> IF u \in {t} THEN rec ELSE ReadCoins[u]]
    BY <1>4, <1>8
  <1>10. ReadCoins' = C!Overlay(ReadCoins, C!Only(t))
    BY <1>6, <1>7, <1>9
  <1>11. ReadBatch' = ReadBatch
    BY <1>1, BatchStays
  <1> QED  BY <1>5, <1>6, <1>10, <1>11 DEF C!InsertTX

\* Putting one into the batch is that.
LEMMA InsertBatchTXImplements ==
  ASSUME CoinsInv, CoinsInv', Records' = Stored', NEW t \in Txid, InsertBatchTX(t)
  PROVE  C!InsertBatchTX(t)
  <1> DEFINE rec == RecordIn(MetadataOf(t))
             only == [i \in {t} |-> rec]
  <1>1. /\ DOMAIN currentBatch' = DOMAIN currentBatch \cup {t}
        /\ currentBatch'[t] = [data |-> MetadataOf(t), mask |-> {}]
        /\ \A k \in DOMAIN currentBatch \ {t} : currentBatch'[k] = currentBatch[k]
        /\ UNCHANGED <<isObfuscated, open, storedKey, mask, store>>
    BY DEF InsertBatchTX, PutInBatch, With
  <1>2. OnlyThose({})
    BY <1>1 DEF OnlyThose
  <1>3. ReadCoins' = ReadCoins
    BY <1>2, SameCoins
  <1>4. rec.unspent # {}
    <2>1. LeftOf(t, Outputs[t]) /\ Encodes(MetadataOf(t), Outputs[t])
      BY InsertedHolds DEF InsertBatchTX
    <2> QED  BY <2>1, RecordOf DEF LeftOf
  <1>5. C!Only(t) = only /\ [u \in Txid |-> RecordIn(MetadataOf(u))][t] = rec
    BY DEF C!Only
  <1>6. ReadBatch' = [u \in DOMAIN currentBatch' |-> RecordIn(currentBatch'[u].data)]
    BY DEF ReadBatch, RecordIn, Vouts, BitIsSet, NoOfBytes
  <1>7. currentBatch'[t].data = MetadataOf(t)
    BY <1>1
  <1>8. ReadBatch = [u \in DOMAIN currentBatch |-> RecordIn(currentBatch[u].data)]
    BY DEF ReadBatch
  <1> HIDE DEF rec, RecordIn, ReadBatch
  <1>9. C!Overlay(ReadBatch, only) =
          [u \in DOMAIN currentBatch \cup {t} |-> IF u \in {t} THEN rec ELSE ReadBatch[u]]
    BY <1>8 DEF C!Overlay
  <1>10. \A u \in DOMAIN currentBatch' :
           RecordIn(currentBatch'[u].data) = IF u \in {t} THEN rec ELSE ReadBatch[u]
    BY <1>1, <1>7, <1>8 DEF rec
  <1>11. ReadBatch' = C!Overlay(ReadBatch, C!Only(t))
    BY <1>1, <1>5, <1>6, <1>9, <1>10
  <1> QED  BY <1>3, <1>4, <1>5, <1>11 DEF C!InsertBatchTX

\* Deleting a record.
LEMMA DeleteImplements ==
  ASSUME CoinsInv, CoinsInv', Records' = Stored', NEW t, Delete(t)
  PROVE  ReadCoins' = C!WithoutRecord(ReadCoins, t) /\ ReadBatch' = ReadBatch
  <1>1. /\ DOMAIN store' = DOMAIN store \ {t}
        /\ \A j \in DOMAIN store \ {t} : store'[j] = store[j]
        /\ UNCHANGED <<isObfuscated, open, storedKey, mask, currentBatch>>
    BY DEF Delete
  <1>2. OnlyThose({t})
    BY <1>1 DEF OnlyThose
  <1>3. t \notin Records'
    BY <1>1 DEF Stored
  <1>4. /\ Records' \ {t} = Records \ {t}
        /\ \A u \in Records' \ {t} : ReadCoins'[u] = ReadCoins[u]
        /\ DOMAIN ReadCoins = Records
        /\ ReadCoins' = [u \in Records' |-> ReadCoins'[u]]
    BY <1>2, OthersStay DEF CoinsInv
  <1> HIDE DEF ReadCoins, Records
  <1>5. Records' = DOMAIN ReadCoins \ {t}
    BY <1>3, <1>4
  <1>6. ReadCoins' = [u \in DOMAIN ReadCoins \ {t} |-> ReadCoins[u]]
    BY <1>3, <1>4, <1>5
  <1> QED  BY <1>1, <1>6, BatchStays DEF C!WithoutRecord

\* Writing the batch.
LEMMA WriteBatchTXImplements ==
  ASSUME CoinsInv, CoinsInv', Records' = Stored', WriteBatchTX
  PROVE  C!WriteBatchTX
  <1> DEFINE D == DOMAIN currentBatch
  <1>1. /\ DOMAIN store' = DOMAIN store \cup D
        /\ \A k \in D : store'[k] = currentBatch[k]
        /\ \A k \in DOMAIN store \ D : store'[k] = store[k]
        /\ currentBatch' = NoEntries
        /\ UNCHANGED <<isObfuscated, open, storedKey, mask>>
    BY DEF WriteBatchTX, WriteBatch
  <1>2. OnlyThose(D)
    BY <1>1 DEF OnlyThose
  <1>3. D \subseteq Records'
    BY <1>1 DEF CoinsInv, EntriesInv, TypeOK, IsEntries, Stored
  <1>4. /\ Records' \ D = Records \ D
        /\ \A u \in Records' \ D : ReadCoins'[u] = ReadCoins[u]
        /\ \A u \in Records' : ReadCoins'[u] = RecordIn(store'[u].data)
        /\ DOMAIN ReadCoins = Records
        /\ ReadCoins' = [u \in Records' |-> ReadCoins'[u]]
    BY <1>2, OthersStay DEF CoinsInv
  <1>5. DOMAIN ReadBatch = D /\ \A u \in D : ReadBatch[u] = RecordIn(currentBatch[u].data)
    BY DEF ReadBatch
  <1>6. ReadBatch' = C!NoRecords
    <2>1. DOMAIN currentBatch' = {}
      BY <1>1 DEF NoEntries
    <2> QED  BY <2>1 DEF ReadBatch, C!NoRecords
  <1> HIDE DEF D, ReadCoins, Records, RecordIn, ReadBatch
  <1>7. \A u \in D : ReadCoins'[u] = ReadBatch[u]
    BY <1>1, <1>3, <1>4, <1>5
  <1>8. Records' = Records \cup D
    BY <1>3, <1>4
  <1>9. ReadCoins' = [u \in Records \cup D |-> IF u \in D THEN ReadBatch[u] ELSE ReadCoins[u]]
    BY <1>4, <1>7, <1>8
  <1> QED  BY <1>4, <1>5, <1>6, <1>9 DEF C!WriteBatchTX, C!Overlay

\* What a caller reads out of a record that RemoveUtxo can read.
LEMMA LegibleRecord ==
  ASSUME CoinsInv, NEW t \in Txid, open, t \in DOMAIN store, Legible(t)
  PROVE  /\ t \in Records /\ ReadCoins[t] = RecordIn(Meta(t))
         /\ \E outs : LeftOf(t, outs) /\ Encodes(Meta(t), outs)
                      /\ ReadCoins[t].unspent = VoutsOf(outs)
  <1>1. store[t].mask = mask
    <2>1. Get(t).mask = (store[t].mask \ mask) \cup (mask \ store[t].mask)
      <3>1. store[t] = [data |-> store[t].data, mask |-> IF t \in byBatch THEN {} ELSE storedKey]
        BY DEF CoinsInv, EntriesInv, EntriesMasked
      <3> QED  BY <3>1 DEF Get, ObfuscateValue
    <2> QED  BY <2>1 DEF Legible
  <1>2. t \in Stored /\ t \in Records
    BY <1>1 DEF Stored, Records, WillBeLegible
  <1>3. PICK outs : LeftOf(t, outs) /\ Encodes(Meta(t), outs)
    BY <1>2, RecordIs
  <1>4. ReadCoins[t] = RecordIn(Meta(t))
    BY <1>2 DEF ReadCoins
  <1>5. RecordIn(Meta(t)).unspent = VoutsOf(outs)
    BY <1>3, RecordOf DEF LeftOf
  <1> QED  BY <1>2, <1>3, <1>4, <1>5

\* Spending an output: the last one takes the record with it.
LEMMA RemoveLastUtxoImplements ==
  ASSUME CoinsInv, CoinsInv', Records' = Stored', NEW t \in Txid, NEW vout \in Nat,
         RemoveLastUtxo(t, vout)
  PROVE  <<t, vout>> \in C!UnspentIn(ReadCoins) /\ C!Spend(<<t, vout>>)
  <1>1. open /\ t \in DOMAIN store /\ Legible(t) /\ Vouts(Meta(t)) = <<vout>> /\ Delete(t)
    BY DEF RemoveLastUtxo
  <1>2. PICK outs : LeftOf(t, outs) /\ Encodes(Meta(t), outs)
                    /\ ReadCoins[t].unspent = VoutsOf(outs)
    BY <1>1, LegibleRecord
  <1>3. t \in DOMAIN ReadCoins
    BY <1>1, LegibleRecord DEF ReadCoins
  <1>4. Unspent(outs) = {vout + 1}
    BY <1>1, <1>2, OnlyOneLeft DEF LeftOf
  <1>5. ReadCoins[t].unspent = {vout}
    <2>1. VoutsOf(outs) = {i - 1 : i \in {vout + 1}}
      BY <1>4 DEF VoutsOf
    <2>2. (vout + 1) - 1 = vout
      OBVIOUS
    <2> QED  BY <1>2, <2>1, <2>2
  <1>6. ReadCoins' = C!WithoutRecord(ReadCoins, t) /\ ReadBatch' = ReadBatch
    BY <1>1, DeleteImplements
  <1> HIDE DEF ReadCoins, ReadBatch
  <1>7. <<t, vout>>[1] = t /\ <<t, vout>>[2] = vout
    OBVIOUS
  <1>8. C!RemoveUtxo(ReadCoins, <<t, vout>>) = C!WithoutRecord(ReadCoins, t)
    BY <1>5, <1>7 DEF C!RemoveUtxo
  <1>9. <<t, vout>> \in C!UnspentIn(ReadCoins)
    BY <1>3, <1>5 DEF C!UnspentIn
  <1> QED  BY <1>6, <1>8, <1>9 DEF C!Spend

\* Any other one leaves the rest, in a record without height and coinbase flag.
LEMMA RemoveOneUtxoImplements ==
  ASSUME CoinsInv, CoinsInv', Records' = Stored', NEW t \in Txid, NEW vout \in Nat,
         RemoveOneUtxo(t, vout)
  PROVE  <<t, vout>> \in C!UnspentIn(ReadCoins) /\ C!Spend(<<t, vout>>)
  <1> DEFINE fake == FakeTransaction(Meta(t), vout)
             m == SerializeTXMetadata(fake)
             was == ReadCoins[t].unspent
             rest == [stamp |-> 0, unspent |-> was \ {vout}]
  <1>1. /\ open /\ t \in DOMAIN store /\ Legible(t) /\ Vouts(Meta(t)) # <<vout>>
        /\ vout < Meta(t).noOfOutputs /\ BitIsSet(Meta(t), vout) /\ Insert(t, m)
    BY DEF RemoveOneUtxo
  <1>2. PICK outs : LeftOf(t, outs) /\ Encodes(Meta(t), outs) /\ was = VoutsOf(outs)
    BY <1>1, LegibleRecord
  <1>3. t \in DOMAIN ReadCoins
    BY <1>1, LegibleRecord DEF ReadCoins
  <1>4. /\ Encodes(m, fake.outs) /\ fake.outs \in Seq(Output)
        /\ Unspent(fake.outs) = Unspent(outs) \ {vout + 1} /\ vout + 1 \in Unspent(outs)
    BY <1>1, <1>2, RestHolds
  <1>5. m.isCoinbase = FALSE /\ m.height = 0
    <2>1. fake.isCoinbase = FALSE /\ fake.height = 0
      BY DEF FakeTransaction
    <2> HIDE DEF fake
    <2> QED  BY <1>4, <2>1, SerializeEncodes
  <1>6. vout \in was /\ VoutsOf(fake.outs) = was \ {vout}
    <2>1. Unspent(outs) \subseteq Nat
      BY <1>2 DEF LeftOf, Unspent
    <2> HIDE DEF fake, was
    <2>2. vout \in was
      BY <1>2, <1>4 DEF VoutsOf
    <2>3. \A x \in Unspent(outs) : x # vout + 1 <=> x - 1 # vout
      BY <2>1
    <2> QED  BY <1>2, <1>4, <2>2, <2>3 DEF VoutsOf
  <1>7. RecordIn(m) = rest
    <2>1. RecordIn(m).unspent = VoutsOf(fake.outs)
      BY <1>4, RecordOf
    <2> HIDE DEF m, fake, was
    <2>2. RecordIn(m) = [stamp |-> 0, unspent |-> RecordIn(m).unspent]
      BY <1>5 DEF RecordIn
    <2> QED  BY <1>6, <2>1, <2>2
  <1> HIDE DEF m, fake, was
  <1>8. /\ DOMAIN store' = DOMAIN store \cup {t}
        /\ store'[t] = [data |-> m, mask |-> mask]
        /\ \A j \in DOMAIN store \ {t} : store'[j] = store[j]
        /\ UNCHANGED <<isObfuscated, open, storedKey, mask, currentBatch>>
    BY <1>1, InsertFacts DEF CoinsInv, EntriesInv, TypeOK
  <1>9. OnlyThose({t})
    BY <1>8 DEF OnlyThose
  <1>10. t \in Records' /\ store'[t].data = m
    BY <1>8 DEF Stored
  <1>11. /\ Records' \ {t} = Records \ {t}
         /\ \A u \in Records' \ {t} : ReadCoins'[u] = ReadCoins[u]
         /\ ReadCoins'[t] = rest
         /\ DOMAIN ReadCoins = Records
         /\ ReadCoins' = [u \in Records' |-> ReadCoins'[u]]
    BY <1>7, <1>9, <1>10, OthersStay DEF CoinsInv
  <1>12. ReadBatch' = ReadBatch
    BY <1>8, BatchStays
  <1> HIDE DEF ReadCoins, ReadBatch, Records, rest
  <1>13. Records' = DOMAIN ReadCoins
    BY <1>3, <1>10, <1>11
  <1>14. ReadCoins' = [u \in DOMAIN ReadCoins |-> IF u = t THEN rest ELSE ReadCoins[u]]
    BY <1>11, <1>13
  <1>15. <<t, vout>>[1] = t /\ <<t, vout>>[2] = vout
    OBVIOUS
  <1>16. was # {vout}
    <2>1. VoutsOf(fake.outs) # {}
      <3>1. Unspent(outs) # {vout + 1}
        BY <1>1, <1>2, OnlyOneLeft DEF LeftOf
      <3> QED  BY <1>4, <3>1 DEF VoutsOf
    <2> QED  BY <1>6, <2>1
  <1>17. C!RemoveUtxo(ReadCoins, <<t, vout>>) = [ReadCoins EXCEPT ![t] = rest]
    BY <1>15, <1>16 DEF C!RemoveUtxo, was, rest
  <1>18. ReadCoins' = C!RemoveUtxo(ReadCoins, <<t, vout>>)
    <2>1. [ReadCoins EXCEPT ![t] = rest] =
            [u \in DOMAIN ReadCoins |-> IF u = t THEN rest ELSE ReadCoins[u]]
      BY <1>3
    <2> QED  BY <1>14, <1>17, <2>1
  <1>19. <<t, vout>> \in C!UnspentIn(ReadCoins)
    BY <1>3, <1>6 DEF C!UnspentIn, was
  <1> QED  BY <1>12, <1>18, <1>19 DEF C!Spend

\* A database of blocks has no records.
LEMMA NoCoinsInPages ==
  CoinsInv /\ kind = "pages" => ReadCoins = C!NoRecords /\ ReadBatch = C!NoRecords
  <1> SUFFICES ASSUME CoinsInv, kind = "pages"
               PROVE  ReadCoins = C!NoRecords /\ ReadBatch = C!NoRecords
    OBVIOUS
  <1>1. Records = {}
    BY RecordIs DEF Records
  <1>2. DOMAIN currentBatch = {}
    BY DEF CoinsInv, EntriesInv, OfOneKind
  <1> QED  BY <1>1, <1>2 DEF ReadCoins, ReadBatch, C!NoRecords

\* Losing the process, and opening the database again, leave what is stored.
LEMMA RestartImplements ==
  ASSUME CoinsInv, CoinsInv', Records' = Stored', Lost \/ Open
  PROVE  C!Lose \/ UNCHANGED <<ReadCoins, ReadBatch>>
  <1>1. store' = store
    BY DEF Lost, Open, NewDBwrapper
  <1>2. storedKey' = storedKey \/ DOMAIN store' = {}
    <2>1. CASE Lost
      BY <2>1 DEF Lost
    <2>2. CASE Open
      <3>1. /\ ~isObfuscated => storedKey' = {}
            /\ isObfuscated /\ storedKey # {} => storedKey' = storedKey
        BY <2>2 DEF Open, NewDBwrapper
      <3>2. isObfuscated \in BOOLEAN
        BY DEF CoinsInv, EntriesInv, TypeOK
      <3>3. /\ ~isObfuscated => storedKey = {}
            /\ isObfuscated => storedKey # {} \/ DOMAIN store = {}
        BY DEF CoinsInv, EntriesInv, HasItsKey
      <3> QED  BY <1>1, <3>1, <3>2, <3>3
    <2> QED  BY <2>1, <2>2
  <1>3. ReadCoins' = ReadCoins
    <2>1. OnlyThose({})
      BY <1>1, <1>2 DEF OnlyThose
    <2> QED  BY <2>1, SameCoins
  <1>4. CASE Open
    <2>1. ReadBatch' = ReadBatch
      BY <1>4, BatchStays DEF Open, NewDBwrapper
    <2> QED  BY <1>3, <2>1
  <1>5. CASE Lost
    <2>1. DOMAIN currentBatch' = {}
      BY <1>5 DEF Lost, NoEntries
    <2>2. ReadBatch' = C!NoRecords
      BY <2>1 DEF ReadBatch, C!NoRecords
    <2> QED  BY <1>3, <2>2 DEF C!Lose
  <1> QED  BY <1>4, <1>5

\* Chainstate: packing outputs into bits, spending them in any order, restarts and
\* obfuscation do not show to a caller who can read every record: the operations
\* are those of Coins.
THEOREM StoresImplementsCoins == Spec => ImplementsCoins
  <1>1. CoinsInv /\ CoinsInv' /\ [Next]_vars => [StepsLikeCoins]_coinVars
    <2> SUFFICES ASSUME CoinsInv, CoinsInv', [Next]_vars, ~UNCHANGED coinVars, Records' = Stored'
                 PROVE  StepsLikeCoins
      BY DEF StepsLikeCoins
    <2>1. /\ \A t \in Txid : InsertTX(t) => C!InsertTX(t)
          /\ \A t \in Txid : InsertBatchTX(t) => C!InsertBatchTX(t)
          /\ \A t \in Txid : RemoveTX(t) => C!RemoveTX(t)
          /\ WriteBatchTX => C!WriteBatchTX
      <3>1. \A t \in Txid : RemoveTX(t) => C!RemoveTX(t)
        BY DeleteImplements DEF RemoveTX, C!RemoveTX
      <3> QED
        BY <3>1, InsertTXImplements, InsertBatchTXImplements, WriteBatchTXImplements
    <2>2. ASSUME NEW t \in Txid, NEW vout \in 0 .. Len(Outputs[t]),
                 RemoveLastUtxo(t, vout) \/ RemoveOneUtxo(t, vout)
          PROVE  <<t, vout>> \in C!UnspentIn(ReadCoins) /\ C!Spend(<<t, vout>>)
      <3>1. vout \in Nat
        OBVIOUS
      <3> QED  BY <2>2, <3>1, RemoveLastUtxoImplements, RemoveOneUtxoImplements
    <2>3. C!Next \/ UNCHANGED <<ReadCoins, ReadBatch>>
      <3>1. CASE Open \/ CloseOrDie
        BY <3>1, RestartImplements DEF CloseOrDie, C!Next
      <3>2. CASE UseChainstate
        <4>1. CASE \E t \in Txid : InsertTX(t) \/ InsertBatchTX(t) \/ RemoveTX(t)
          BY <2>1, <4>1 DEF C!Next
        <4>2. CASE WriteBatchTX
          BY <2>1, <4>2 DEF C!Next
        <4>3. CASE \E t \in Txid : \E vout \in 0 .. Len(Outputs[t]) :
                     RemoveLastUtxo(t, vout) \/ RemoveOneUtxo(t, vout)
          BY <2>2, <4>3 DEF C!Next
        <4>4. CASE \E t \in Txid : ReadNoise(t)
          BY <4>4, RestartImplements DEF ReadNoise, C!Next
        <4> QED  BY <3>2, <4>1, <4>2, <4>3, <4>4 DEF UseChainstate, CoinStep
      <3>3. CASE UsePages
        <4>1. kind = "pages" /\ kind' = "pages"
          BY <3>3 DEF UsePages
        <4>2. ReadCoins = C!NoRecords /\ ReadBatch = C!NoRecords
          BY <4>1, NoCoinsInPages
        <4>3. (CoinsInv /\ kind = "pages" => ReadCoins = C!NoRecords /\ ReadBatch = C!NoRecords)'
          BY NoCoinsInPages, PTL
        <4>4. ReadCoins' = C!NoRecords /\ ReadBatch' = C!NoRecords
          BY <4>1, <4>3 DEF C!NoRecords
        <4> QED  BY <4>2, <4>4
      <3> QED  BY <3>1, <3>2, <3>3 DEF Next, vars
    <2> QED  BY <2>1, <2>2, <2>3 DEF StepsLikeCoins
  <1> QED  BY <1>1, CoinsInductive, PTL DEF Spec, ImplementsCoins

=============================================================================
