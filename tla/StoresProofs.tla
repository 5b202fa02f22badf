---------------------------- MODULE StoresProofs ----------------------------
(***************************************************************************)
(* What a database of package db keeps, for all keys, values and sizes,    *)
(* whatever is written to it and whenever the process dies or a write      *)
(* fails: which entries the next reader can read.                          *)
(***************************************************************************)
EXTENDS Stores, SumsProofs, SequenceTheorems

\* A database keeps one kind of thing, and only a chainstate is written by
\* batches.
OfOneKind ==
  /\ kind = "chainstate" => call = None /\ lastWritten = [k \in PagedKey |-> None]
  /\ kind = "pages" => byBatch = {} /\ DOMAIN currentBatch = {}

\* A database that obfuscates has its key from its first opening on, a plain one
\* never has one.
HasItsKey ==
  /\ ~isObfuscated => storedKey = {}
  /\ isObfuscated => storedKey # {} \/ (~open /\ DOMAIN store = {})

\* The entries of a batch are plain, and stay so when the batch is written; all
\* others are obfuscated by the one key of the database.
EntriesMasked ==
  /\ \A k \in DOMAIN currentBatch :
       currentBatch[k] = [data |-> currentBatch[k].data, mask |-> {}]
  /\ \A k \in DOMAIN store :
       store[k] = [data |-> store[k].data, mask |-> IF k \in byBatch THEN {} ELSE storedKey]

\* The value c has a page q, and one after it.
HasPage(c, q) == q = 0 \/ q * MaxPageSize < Len(c)
Continues(c, q) == q * MaxPageSize + MaxPageSize < Len(c)

\* d is what PageInsert stores of the value c as its page q.
IsPage(d, q, c) ==
  /\ d \in Seq(Nat)
  /\ Len(d) = IF Continues(c, q) THEN MaxPageSize + 1 ELSE Len(c) - q * MaxPageSize
  /\ \A i \in 1 .. MaxPageSize :
       q * MaxPageSize + i <= Len(c) => d[i] = StoredByte(c, q * MaxPageSize + i)

PageStored(k, q, c) ==
  <<k, q>> \in DOMAIN store /\ IsPage(store[<<k, q>>].data, q, c)

\* Every stored page is a page of some value of its key, whose number a byte
\* shortens to the one it is stored under.
PagesOK ==
  kind = "pages" =>
    \A k \in PagedKey : \A n \in 0 .. PageNumbers - 1 : <<k, n>> \in DOMAIN store =>
      \E q \in Nat : \E c \in Contents[k] :
        HasPage(c, q) /\ n = q % PageNumbers /\ IsPage(store[<<k, n>>].data, q, c)

\* The PageInsert under way is at page q: what it has still to write is as it
\* was given, but for the byte the page before q put over the first one; its key
\* has no finished value, and the pages before q are stored.
CallAt(q) ==
  /\ HasPage(call.given, q)
  /\ call.idx = q * MaxPageSize /\ call.page = q % PageNumbers
  /\ call.given \in Contents[call.key] /\ Len(call.value) = Len(call.given)
  /\ \A i \in 1 .. Len(call.given) : i > call.idx =>
       call.value[i] = IF i = call.idx + 1 /\ q > 0 THEN 0 ELSE call.given[i]
  /\ lastWritten[call.key] = None
  /\ Fits(call.given) => \A p \in Nat : p < q => PageStored(call.key, p, call.given)

CallOK ==
  call # None =>
    /\ call \in [key : PagedKey, value : Seq(Nat), idx : Nat, page : 0 .. PageNumbers - 1,
                 given : Seq(Nat)]
    /\ \E q \in Nat : CallAt(q)

\* Of a value that was written to its end, every page is stored.
WrittenOK ==
  /\ lastWritten \in [PagedKey -> {None} \cup Seq(Nat)]
  /\ \A k \in PagedKey : lastWritten[k] # None /\ Fits(lastWritten[k]) =>
       /\ lastWritten[k] \in Contents[k]
       /\ \A q \in Nat : HasPage(lastWritten[k], q) => PageStored(k, q, lastWritten[k])

EntriesInv == TypeOK /\ OfOneKind /\ HasItsKey /\ EntriesMasked
IInv == EntriesInv /\ PagesOK /\ CallOK /\ WrittenOK

-----------------------------------------------------------------------------
\* What Insert (db/dbwrapper.go) stores is masked by the key of the handle.
LEMMA InsertFacts ==
  ASSUME NEW k, NEW v, Insert(k, v), mask \in SUBSET ObfKey
  PROVE  /\ DOMAIN store' = DOMAIN store \cup {k}
         /\ store'[k] = [data |-> v, mask |-> mask]
         /\ \A j \in DOMAIN store \ {k} : store'[j] = store[j]
         /\ UNCHANGED <<isObfuscated, open, storedKey, mask, currentBatch>>
  <1>1. ObfuscateValue([data |-> v, mask |-> {}]) = [data |-> v, mask |-> mask]
    BY DEF ObfuscateValue
  <1> QED  BY <1>1 DEF Insert, With

\* The operations of the chainstate that insert one record.
LEMMA InsertKeeps ==
  ASSUME EntriesInv, open, kind = "chainstate", NEW t \in Txid, NEW v, Insert(t, v),
         byBatch' = byBatch \ {t}, UNCHANGED <<call, lastWritten, kind>>
  PROVE  EntriesInv'
  <1>1. /\ DOMAIN store' = DOMAIN store \cup {t}
        /\ store'[t] = [data |-> v, mask |-> mask]
        /\ \A j \in DOMAIN store \ {t} : store'[j] = store[j]
        /\ UNCHANGED <<isObfuscated, open, storedKey, mask, currentBatch>>
    BY InsertFacts DEF EntriesInv, TypeOK
  <1> HIDE DEF Insert
  <1>2. TypeOK'
    <2>1. IsEntries(store, Txid)'
      BY <1>1 DEF EntriesInv, TypeOK, IsEntries
    <2>2. \A k \in DOMAIN store' : store'[k].mask \in {{}, storedKey'}
      BY <1>1 DEF EntriesInv, TypeOK
    <2> QED  BY <1>1, <2>1, <2>2 DEF EntriesInv, TypeOK, IsEntries
  <1>3. OfOneKind' /\ HasItsKey'
    BY <1>1 DEF EntriesInv, OfOneKind, HasItsKey
  <1>4. EntriesMasked'
    BY <1>1 DEF EntriesInv, TypeOK, EntriesMasked
  <1> QED  BY <1>2, <1>3, <1>4 DEF EntriesInv

\* The operations of the chainstate that delete one record.
LEMMA DeleteKeeps ==
  ASSUME EntriesInv, open, kind = "chainstate", NEW t, Delete(t),
         byBatch' = byBatch \ {t}, UNCHANGED <<call, lastWritten, kind>>
  PROVE  EntriesInv'
  <1>1. /\ DOMAIN store' = DOMAIN store \ {t}
        /\ \A j \in DOMAIN store \ {t} : store'[j] = store[j]
        /\ UNCHANGED <<isObfuscated, open, storedKey, mask, currentBatch>>
    BY DEF Delete
  <1>2. TypeOK'
    BY <1>1 DEF EntriesInv, TypeOK, IsEntries
  <1>3. OfOneKind' /\ HasItsKey' /\ EntriesMasked'
    BY <1>1 DEF EntriesInv, OfOneKind, HasItsKey, EntriesMasked
  <1> QED  BY <1>2, <1>3 DEF EntriesInv

\* Closing the database, or the end of the process: what is stored stays.
LEMMA LostKeeps ==
  ASSUME EntriesInv, Lost, call' = None, UNCHANGED <<byBatch, lastWritten, kind>>
  PROVE  EntriesInv'
  <1> USE DEF Lost, NoEntries
  <1>1. TypeOK'
    BY DEF EntriesInv, TypeOK, IsEntries
  <1>2. OfOneKind' /\ HasItsKey' /\ EntriesMasked'
    BY DEF EntriesInv, OfOneKind, HasItsKey, EntriesMasked
  <1> QED  BY <1>1, <1>2 DEF EntriesInv

\* NewDBwrapper uses the key it finds, and makes one up only for a database that
\* is empty.
LEMMA OpenKeeps ==
  ASSUME EntriesInv, Open
  PROVE  EntriesInv'
  <1> USE DEF Open, NewDBwrapper, pageVars
  <1>1. /\ storedKey' \in SUBSET ObfKey /\ mask' = storedKey' /\ open'
        /\ storedKey # {} => storedKey' = storedKey
        /\ isObfuscated => storedKey' # {}
        /\ ~isObfuscated => storedKey' = {}
    BY DEF EntriesInv, TypeOK, HasItsKey
  <1>2. storedKey' = storedKey \/ DOMAIN store = {}
    BY <1>1 DEF EntriesInv, HasItsKey
  <1>3. TypeOK'
    BY <1>1, <1>2 DEF EntriesInv, TypeOK, IsEntries
  <1>4. OfOneKind' /\ HasItsKey'
    BY <1>1, <1>2 DEF EntriesInv, OfOneKind, HasItsKey
  <1>5. EntriesMasked'
    BY <1>1, <1>2 DEF EntriesInv, EntriesMasked
  <1> QED  BY <1>3, <1>4, <1>5 DEF EntriesInv

\* PutInBatch stores nothing yet.
LEMMA InsertBatchTXKeeps ==
  ASSUME EntriesInv, kind = "chainstate", NEW t \in Txid, InsertBatchTX(t),
         UNCHANGED <<pageVars, kind>>
  PROVE  EntriesInv'
  <1>1. /\ DOMAIN currentBatch' = DOMAIN currentBatch \cup {t}
        /\ currentBatch'[t] = [data |-> MetadataOf(t), mask |-> {}]
        /\ \A k \in DOMAIN currentBatch \ {t} : currentBatch'[k] = currentBatch[k]
        /\ UNCHANGED <<isObfuscated, open, storedKey, mask, store, byBatch>>
        /\ open
    BY DEF InsertBatchTX, PutInBatch, With
  <1>2. TypeOK'
    <2>1. IsEntries(currentBatch, Txid)'
      BY <1>1 DEF EntriesInv, TypeOK, IsEntries
    <2> QED  BY <1>1, <2>1 DEF EntriesInv, TypeOK, IsEntries, pageVars
  <1>3. OfOneKind' /\ HasItsKey'
    BY <1>1 DEF EntriesInv, OfOneKind, HasItsKey, pageVars
  <1>4. EntriesMasked'
    <2>1. ASSUME NEW k \in DOMAIN currentBatch'
          PROVE  currentBatch'[k] = [data |-> currentBatch'[k].data, mask |-> {}]
      <3>1. CASE k = t
        BY <1>1, <3>1
      <3>2. CASE k # t
        BY <1>1, <2>1, <3>2 DEF EntriesInv, EntriesMasked
      <3> QED  BY <3>1, <3>2
    <2> QED  BY <1>1, <2>1 DEF EntriesInv, EntriesMasked
  <1> QED  BY <1>2, <1>3, <1>4 DEF EntriesInv

\* WriteBatch stores the entries of the batch as they are.
LEMMA WriteBatchTXKeeps ==
  ASSUME EntriesInv, kind = "chainstate", WriteBatchTX, UNCHANGED <<pageVars, kind>>
  PROVE  EntriesInv'
  <1>1. /\ DOMAIN store' = DOMAIN store \cup DOMAIN currentBatch
        /\ \A k \in DOMAIN currentBatch : store'[k] = currentBatch[k]
        /\ \A k \in DOMAIN store \ DOMAIN currentBatch : store'[k] = store[k]
        /\ DOMAIN currentBatch' = {} /\ currentBatch' = NoEntries
        /\ byBatch' = byBatch \cup DOMAIN currentBatch
        /\ UNCHANGED <<isObfuscated, open, storedKey, mask>>
        /\ open
    BY DEF WriteBatchTX, WriteBatch, NoEntries
  <1>2. TypeOK'
    <2>1. IsEntries(store, Txid)'
      BY <1>1 DEF EntriesInv, TypeOK, IsEntries
    <2>2. \A k \in DOMAIN store' : store'[k].mask \in {{}, storedKey'}
      BY <1>1 DEF EntriesInv, TypeOK, EntriesMasked
    <2>3. IsEntries(currentBatch, Txid)' /\ byBatch' \subseteq Txid
      BY <1>1 DEF EntriesInv, TypeOK, IsEntries
    <2> QED  BY <1>1, <2>1, <2>2, <2>3 DEF EntriesInv, TypeOK, pageVars
  <1>3. OfOneKind' /\ HasItsKey'
    BY <1>1 DEF EntriesInv, OfOneKind, HasItsKey, pageVars
  <1>4. EntriesMasked'
    BY <1>1 DEF EntriesInv, EntriesMasked
  <1> QED  BY <1>2, <1>3, <1>4 DEF EntriesInv

\* The chainstate's operations.
LEMMA ChainstateKeeps ==
  ASSUME EntriesInv, UseChainstate
  PROVE  EntriesInv'
  <1>1. kind = "chainstate" /\ call = None /\ UNCHANGED <<call, lastWritten, kind>>
    BY DEF UseChainstate, EntriesInv, OfOneKind, pageVars
  <1>2. ASSUME NEW t \in Txid, InsertTX(t)
        PROVE  EntriesInv'
    BY <1>1, <1>2, InsertKeeps DEF InsertTX
  <1>3. ASSUME NEW t \in Txid, InsertBatchTX(t)
        PROVE  EntriesInv'
    BY <1>1, <1>3, InsertBatchTXKeeps DEF pageVars
  <1>4. CASE WriteBatchTX
    BY <1>1, <1>4, WriteBatchTXKeeps DEF pageVars
  <1>5. ASSUME NEW t \in Txid, RemoveTX(t)
        PROVE  EntriesInv'
    BY <1>1, <1>5, DeleteKeeps DEF RemoveTX
  <1>6. ASSUME NEW t \in Txid, NEW vout, RemoveLastUtxo(t, vout)
        PROVE  EntriesInv'
    BY <1>1, <1>6, DeleteKeeps DEF RemoveLastUtxo
  <1>7. ASSUME NEW t \in Txid, NEW vout, RemoveOneUtxo(t, vout)
        PROVE  EntriesInv'
    BY <1>1, <1>7, InsertKeeps DEF RemoveOneUtxo
  <1>8. ASSUME NEW t \in Txid, ReadNoise(t)
        PROVE  EntriesInv'
    BY <1>1, <1>8, LostKeeps DEF ReadNoise
  <1> QED
    BY <1>2, <1>3, <1>4, <1>5, <1>6, <1>7, <1>8 DEF UseChainstate, CoinStep

-----------------------------------------------------------------------------
\* A function on 1 .. m is determined by its first value and its steps.
SameSteps(m, f, g) ==
  \A i \in 1 .. m : (i # 1 => f[i - 1] = g[i - 1]) => f[i] = g[i]

\* Sequences of sums that grow by the same steps are equal.
LEMMA StepsDetermine ==
  ASSUME NEW m \in Nat, NEW f, NEW g, SameSteps(m, f, g)
  PROVE  \A i \in 1 .. m : f[i] = g[i]
  <1> DEFINE bad == {i \in 1 .. m : f[i] # g[i]}
             R == {p \in Nat \X Nat : p[1] < p[2]}
  <1>1. SUFFICES ASSUME bad # {}  PROVE FALSE
    OBVIOUS
  <1>2. IsWellFoundedOn(R, Nat)
    BY NatLessThanWellFounded DEF OpToRel
  <1>3. PICK i \in bad : \A j \in bad : <<j, i>> \notin R
    <2>1. bad \subseteq Nat
      OBVIOUS
    <2> HIDE DEF R, bad
    <2> QED  BY <1>1, <1>2, <2>1, WFMin
  <1>4. i \in 1 .. m /\ f[i] # g[i] /\ i # 1
    BY <1>3 DEF SameSteps
  <1>5. i - 1 \in 1 .. m /\ <<i - 1, i>> \in R
    BY <1>4
  <1>6. f[i - 1] = g[i - 1]
    BY <1>3, <1>5
  <1> QED  BY <1>4, <1>6 DEF SameSteps

\* A sequence is a function on 1 .. n.
LEMMA FunctionIsSeq ==
  ASSUME NEW S, NEW n \in Nat, NEW f \in [1 .. n -> S]
  PROVE  f \in Seq(S) /\ Len(f) = n /\ DOMAIN f = 1 .. n
  OBVIOUS

\* FlattenSeq puts its parts one after the other: where all but the last have
\* one length, every element is found by its part and its place there.
LEMMA FlattenParts ==
  ASSUME NEW m \in Nat \ {0}, NEW parts \in [1 .. m -> Seq(Nat)],
         NEW M \in Nat \ {0}, \A i \in 1 .. m - 1 : Len(parts[i]) = M
  PROVE  /\ FlattenSeq(parts) \in Seq(Nat)
         /\ Len(FlattenSeq(parts)) = (m - 1) * M + Len(parts[m])
         /\ \A i \in 1 .. m : \A j \in 1 .. Len(parts[i]) :
              FlattenSeq(parts)[(i - 1) * M + j] = parts[i][j]
  <1> DEFINE start(i) == (i - 1) * M
             p(x) == ((x - 1) \div M) + 1
             size(i) == start(i) + Len(parts[i])
             elem(i, x) == IF x > start(i) THEN parts[i][x - start(i)]
                           ELSE parts[p(x)][x - start(p(x))]
             upTo == [i \in 1 .. m |-> [x \in 1 .. size(i) |-> elem(i, x)]]
             Body(f) == [i \in 1 .. m |->
                           IF i = 1 THEN parts[i] ELSE f[i - 1] \o parts[i]]
             flat == CHOOSE f : f = Body(f)
  <1>1. parts \in Seq(Seq(Nat)) /\ Len(parts) = m
    OBVIOUS
  <1>2. FlattenSeq(parts) = flat[m]
    BY <1>1 DEF FlattenSeq
  <1>3. \A i \in 1 .. m : parts[i] \in Seq(Nat) /\ Len(parts[i]) \in Nat
    OBVIOUS
  <1>4. \A i \in 1 .. m : start(i) \in Nat /\ size(i) \in Nat
    <2> TAKE i \in 1 .. m
    <2>1. i - 1 \in Nat
      OBVIOUS
    <2>2. start(i) \in Nat
      BY <2>1
    <2> HIDE DEF start
    <2> QED  BY <1>3, <2>2
  <1>5. ASSUME NEW i \in 1 .. m, i # 1
        PROVE  /\ i - 1 \in 1 .. m - 1 /\ i - 1 \in 1 .. m
               /\ start(i) = start(i - 1) + M
               /\ size(i - 1) = start(i)
    <2>1. i - 1 \in 1 .. m - 1 /\ i - 1 \in 1 .. m /\ i - 2 \in Nat
      BY <1>5
    <2>2. ((i - 2) + 1) * M = (i - 2) * M + M
      BY <2>1, ProductGrows
    <2>3. (i - 2) + 1 = i - 1 /\ (i - 1) - 1 = i - 2
      BY <2>1
    <2>4. start(i) = start(i - 1) + M
      BY <2>2, <2>3
    <2>5. Len(parts[i - 1]) = M
      BY <2>1
    <2> QED  BY <2>1, <2>4, <2>5
  <1>6. start(1) = 0 /\ size(1) = Len(parts[1])
    <2>1. 0 * M = 0 /\ 1 - 1 = 0 /\ Len(parts[1]) \in Nat
      BY <1>3
    <2>2. start(1) = 0
      BY <2>1
    <2> HIDE DEF start
    <2> QED  BY <2>1, <2>2
  \* The places before part i are on earlier parts.
  <1>7. ASSUME NEW i \in 1 .. m, NEW x \in 1 .. start(i)
        PROVE  p(x) \in 1 .. i - 1 /\ x - start(p(x)) \in 1 .. M
    <2>1. x - 1 \in Nat /\ i - 1 \in Nat /\ x - 1 < (i - 1) * M
      BY <1>4, <1>7
    <2> DEFINE d == (x - 1) \div M
    <2>2. d \in 0 .. (i - 1) - 1 /\ d * M \in Nat /\ (x - 1) - d * M \in 0 .. M - 1
      BY <2>1, DivisionBounds
    <2> HIDE DEF d
    <2>3. d + 1 \in 1 .. i - 1 /\ (d + 1) - 1 = d
      BY <2>1, <2>2
    <2>4. x - d * M \in 1 .. M
      BY <2>1, <2>2
    <2>5. start(d + 1) = d * M
      BY <2>3
    <2> QED  BY <2>3, <2>4, <2>5 DEF d
  \* Those on part i are told by their number.
  <1>8. ASSUME NEW i \in 1 .. m, NEW x \in Nat, start(i) < x, x <= start(i) + M
        PROVE  p(x) = i
    <2>1. i - 1 \in Nat /\ start(i) \in Nat /\ x - 1 \in Nat
      <3>1. i - 1 \in Nat /\ start(i) \in Nat
        BY <1>4
      <3> HIDE DEF start
      <3> QED  BY <1>8, <3>1
    <2>2. (i - 1) * M <= x - 1 /\ x - 1 < (i - 1) * M + M
      BY <1>8, <2>1
    <2>3. (x - 1) \div M = i - 1
      BY <2>1, <2>2, Division
    <2> QED  BY <2>3
  <1> HIDE DEF start, p
  <1>9. ASSUME NEW i \in 1 .. m, NEW x \in 1 .. size(i)
        PROVE  elem(i, x) \in Nat
    <2>1. start(i) \in Nat /\ Len(parts[i]) \in Nat /\ parts[i] \in Seq(Nat)
      BY <1>3, <1>4
    <2>2. CASE x > start(i)
      <3>1. x - start(i) \in 1 .. Len(parts[i])
        BY <2>1, <2>2
      <3>2. parts[i][x - start(i)] \in Nat
        BY <2>1, <3>1, ElementOfSeq
      <3> QED  BY <2>2, <3>2
    <2>3. CASE ~(x > start(i))
      <3>1. x \in 1 .. start(i)
        BY <2>1, <2>3
      <3>2. p(x) \in 1 .. i - 1 /\ x - start(p(x)) \in 1 .. M
        BY <1>7, <3>1
      <3>3. p(x) \in 1 .. m - 1 /\ p(x) \in 1 .. m
        BY <3>2
      <3>4. parts[p(x)] \in Seq(Nat) /\ Len(parts[p(x)]) = M
        BY <1>3, <3>3
      <3>5. parts[p(x)][x - start(p(x))] \in Nat
        BY <3>2, <3>4, ElementOfSeq
      <3> QED  BY <2>3, <3>5
    <2> QED  BY <2>2, <2>3
  <1> HIDE DEF elem, size
  <1>10. ASSUME NEW i \in 1 .. m
         PROVE  /\ upTo[i] \in Seq(Nat) /\ Len(upTo[i]) = size(i)
                /\ \A x \in 1 .. size(i) : upTo[i][x] = elem(i, x)
    <2>1. upTo[i] = [x \in 1 .. size(i) |-> elem(i, x)]
      OBVIOUS
    <2>2. upTo[i] \in [1 .. size(i) -> Nat]
      BY <1>9, <2>1
    <2>3. size(i) \in Nat
      BY <1>4
    <2>4. upTo[i] \in Seq(Nat) /\ Len(upTo[i]) = size(i)
      <3> HIDE DEF upTo
      <3> QED  BY <2>2, <2>3, FunctionIsSeq
    <2> QED  BY <2>1, <2>4
  <1>11. DOMAIN upTo = 1 .. m /\ upTo = [i \in 1 .. m |-> upTo[i]]
    OBVIOUS
  <1> HIDE DEF upTo
  <1>12. upTo[1] = parts[1]
    <2>1. \A x \in 1 .. size(1) : upTo[1][x] = parts[1][x]
      <3> TAKE x \in 1 .. size(1)
      <3>1. upTo[1][x] = elem(1, x)
        BY <1>10
      <3>2. x > start(1) /\ x - start(1) = x
        BY <1>3, <1>6
      <3> QED  BY <3>1, <3>2 DEF elem
    <2>2. /\ upTo[1] \in Seq(Nat) /\ Len(upTo[1]) = size(1)
          /\ parts[1] \in Seq(Nat) /\ Len(parts[1]) = size(1)
      BY <1>3, <1>6, <1>10
    <2> QED  BY <2>1, <2>2, SeqEqual
  <1>13. ASSUME NEW i \in 1 .. m, i # 1
         PROVE  upTo[i] = upTo[i - 1] \o parts[i]
    <2> DEFINE j == i - 1
               both == upTo[j] \o parts[i]
    <2>1. j \in 1 .. m - 1 /\ j \in 1 .. m /\ start(i) = start(j) + M /\ size(j) = start(i)
      BY <1>5, <1>13
    <2> HIDE DEF j
    <2>2. /\ upTo[j] \in Seq(Nat) /\ Len(upTo[j]) = start(i)
          /\ parts[i] \in Seq(Nat) /\ Len(parts[i]) \in Nat
          /\ upTo[i] \in Seq(Nat) /\ Len(upTo[i]) = size(i)
          /\ start(i) \in Nat /\ size(i) = start(i) + Len(parts[i]) /\ start(j) \in Nat
      BY <1>3, <1>4, <1>10, <2>1 DEF size
    <2>3. /\ both \in Seq(Nat) /\ Len(both) = size(i)
          /\ \A x \in 1 .. size(i) :
               both[x] = IF x <= start(i) THEN upTo[j][x] ELSE parts[i][x - start(i)]
      <3>1. /\ both \in Seq(Nat) /\ Len(both) = Len(upTo[j]) + Len(parts[i])
            /\ \A x \in 1 .. Len(upTo[j]) + Len(parts[i]) :
                 both[x] = IF x <= Len(upTo[j]) THEN upTo[j][x]
                           ELSE parts[i][x - Len(upTo[j])]
        BY <2>2, ConcatProperties
      <3> HIDE DEF both
      <3> QED  BY <2>2, <3>1
    <2> HIDE DEF both
    <2>4. ASSUME NEW x \in 1 .. size(i)
          PROVE  upTo[i][x] = both[x]
      <3>1. upTo[i][x] = elem(i, x)
        BY <1>10
      <3>2. CASE x > start(i)
        BY <2>2, <2>3, <3>1, <3>2 DEF elem
      <3>3. CASE x <= start(i)
        <4>1. both[x] = upTo[j][x]
          BY <2>3, <3>3
        <4>2. x \in 1 .. size(j)
          BY <2>1, <2>2, <3>3
        <4>3. upTo[j][x] = elem(j, x)
          BY <1>10, <2>1, <4>2
        <4>4. elem(i, x) = parts[p(x)][x - start(p(x))]
          BY <2>2, <3>3 DEF elem
        <4>5. x > start(j) => p(x) = j
          BY <1>8, <2>1, <2>2, <3>3
        <4>6. elem(j, x) = parts[p(x)][x - start(p(x))]
          BY <4>5 DEF elem
        <4> QED  BY <3>1, <4>1, <4>3, <4>4, <4>6
      <3> QED  BY <2>2, <3>2, <3>3
    <2>5. upTo[i] = both
      BY <2>2, <2>3, <2>4, SeqEqual
    <2> QED  BY <2>5 DEF j, both
  <1>14. upTo = Body(upTo)
    <2>1. \A i \in 1 .. m : upTo[i] = Body(upTo)[i]
      BY <1>12, <1>13
    <2> HIDE DEF Body
    <2>2. DOMAIN Body(upTo) = 1 .. m /\ Body(upTo) = [i \in 1 .. m |-> Body(upTo)[i]]
      BY DEF Body
    <2> QED  BY <1>11, <2>1, <2>2
  <1>15. flat = Body(flat)
    <2> HIDE DEF Body
    <2> QED  BY <1>14
  <1> HIDE DEF flat
  <1>16. \A i \in 1 .. m : flat[i] = upTo[i]
    <2>1. \A i \in 1 .. m : flat[i] = IF i = 1 THEN parts[i] ELSE flat[i - 1] \o parts[i]
      BY <1>15
    <2> HIDE DEF Body
    <2>2. ASSUME NEW i \in 1 .. m, i = 1
          PROVE  flat[i] = upTo[i]
      BY <1>12, <2>1, <2>2
    <2>3. ASSUME NEW i \in 1 .. m, i # 1, flat[i - 1] = upTo[i - 1]
          PROVE  flat[i] = upTo[i]
      BY <1>13, <2>1, <2>3
    <2>4. SameSteps(m, flat, upTo)
      BY <2>2, <2>3 DEF SameSteps
    <2>5. m \in Nat
      OBVIOUS
    <2> QED  BY ONLY <2>4, <2>5, StepsDetermine
  <1>17. FlattenSeq(parts) = upTo[m]
    BY <1>2, <1>16
  <1>18. ASSUME NEW i \in 1 .. m, NEW j \in 1 .. Len(parts[i])
         PROVE  upTo[m][start(i) + j] = parts[i][j]
    <2> DEFINE x == start(i) + j
    <2>1. /\ start(i) \in Nat /\ start(m) \in Nat /\ Len(parts[i]) \in Nat
          /\ Len(parts[m]) \in Nat /\ size(m) = start(m) + Len(parts[m])
      BY <1>3, <1>4 DEF size
    <2>2. x > start(i) /\ x - start(i) = j /\ x \in Nat
      BY <2>1
    <2>3. CASE i = m
      <3>1. x \in 1 .. size(m) /\ m \in 1 .. m
        BY <2>1, <2>3
      <3>2. \A y \in 1 .. size(m) : upTo[m][y] = elem(m, y)
        BY <1>10, <3>1
      <3>3. upTo[m][x] = elem(m, x)
        <4> HIDE DEF x
        <4> QED  BY <3>1, <3>2
      <3> QED  BY <2>2, <2>3, <3>3 DEF elem
    <2>4. CASE i # m
      <3>1. i \in 1 .. m - 1 /\ Len(parts[i]) = M
        BY <2>4
      <3>2. start(i) + M <= start(m)
        <4> DEFINE a == i - 1
                   c == m - 1
        <4>1. a \in Nat /\ c \in Nat /\ a + 1 <= c
          BY <3>1
        <4> HIDE DEF a, c
        <4>2. a * M \in Nat /\ (a + 1) * M = a * M + M
          BY <4>1, ProductGrows
        <4>3. (a + 1) * M <= c * M
          BY <4>1, ProductGrows
        <4> QED  BY <4>2, <4>3 DEF start, a, c
      <3>3. x <= start(m) /\ x <= start(i) + M /\ x \in 1 .. size(m)
        BY <2>1, <3>1, <3>2
      <3> HIDE DEF x
      <3>4. p(x) = i
        BY <1>8, <2>2, <3>3
      <3>5. upTo[m][x] = elem(m, x)
        <4>1. m \in 1 .. m
          OBVIOUS
        <4> QED  BY <1>10, <3>3, <4>1
      <3>6. elem(m, x) = parts[i][j]
        BY <2>1, <2>2, <3>3, <3>4 DEF elem
      <3> QED  BY <3>5, <3>6 DEF x
    <2> QED  BY <2>3, <2>4
  <1>19. upTo[m] \in Seq(Nat) /\ Len(upTo[m]) = start(m) + Len(parts[m])
    BY <1>10 DEF size
  <1> QED  BY <1>17, <1>18, <1>19 DEF start

-----------------------------------------------------------------------------
\* A set of numbers that is not empty has a least one.
LEMMA LeastOf ==
  ASSUME NEW T \in SUBSET Nat, T # {}
  PROVE  Min(T) \in T /\ \A x \in T : Min(T) <= x
  <1> DEFINE R == {p \in Nat \X Nat : p[1] < p[2]}
  <1>1. IsWellFoundedOn(R, Nat)
    BY NatLessThanWellFounded DEF OpToRel
  <1>2. PICK x \in T : \A y \in T : <<y, x>> \notin R
    <2> HIDE DEF R
    <2> QED  BY <1>1, WFMin
  <1>3. \A y \in T : x <= y
    <2> TAKE y \in T
    <2>1. ~(y < x)
      BY <1>2
    <2> QED  BY <2>1
  <1> QED  BY <1>2, <1>3 DEF Min

\* The values are sequences.
LEMMA ContentIs ==
  ASSUME NEW k \in PagedKey, NEW c \in Contents[k]
  PROVE  c \in Seq(Nat) /\ Len(c) \in Nat
  <1>1. c \in Seq(Nat)
    BY PageStoreAssumption
  <1> QED  BY <1>1

\* PageInsert writes as many pages as the value has.
\* PageInsert writes as many pages as the value has.
LEMMA PagesCount ==
  ASSUME NEW c \in Seq(Nat)
  PROVE  /\ NoOfPages(c) \in Nat \ {0}
         /\ \A q \in Nat : HasPage(c, q) <=> q < NoOfPages(c)
  <1> DEFINE L == Len(c)
             M == MaxPageSize
             n == (L + M - 1) \div M
  <1>1. L \in Nat /\ M \in Nat \ {0}
    BY PageStoreAssumption
  <1> HIDE DEF L, M
  <1>2. n \in Int /\ ((L + M - 1) % M) \in 0 .. M - 1 /\ L + M - 1 = n * M + ((L + M - 1) % M)
    BY <1>1
  <1>3. n \in Nat
    <2>1. SUFFICES ASSUME n <= -1  PROVE FALSE
      BY <1>2
    <2>2. n * M <= (-1) * M
      BY <1>1, <1>2, <2>1
    <2> QED  BY <1>1, <1>2, <2>2
  <1> HIDE DEF n
  <1>4. \A q \in Nat : q * M < L <=> q < n
    <2> TAKE q \in Nat
    <2>1. q * M \in Nat /\ n * M \in Nat
      BY <1>1, <1>3
    <2>2. ASSUME q < n  PROVE q * M < L
      <3>1. (q + 1) * M <= n * M /\ (q + 1) * M = q * M + M
        BY <1>1, <1>3, <2>2, ProductGrows
      <3> QED  BY <1>1, <1>2, <2>1, <3>1
    <2>3. ASSUME n <= q  PROVE L <= q * M
      <3>1. n * M <= q * M
        BY <1>1, <1>3, <2>3, ProductGrows
      <3> QED  BY <1>1, <1>2, <2>1, <3>1
    <2> QED  BY <1>1, <1>3, <2>1, <2>2, <2>3
  <1>5. NoOfPages(c) = Max({1, n})
    BY DEF NoOfPages, L, M, n
  <1>6. Max({1, n}) = IF n < 1 THEN 1 ELSE n
    <2> DEFINE top == IF n < 1 THEN 1 ELSE n
    <2>1. top \in {1, n} /\ \A y \in {1, n} : top >= y
      BY <1>3
    <2>2. \A x \in {1, n} : (\A y \in {1, n} : x >= y) => x = top
      BY <1>3
    <2>3. Max({1, n}) \in {1, n} /\ \A y \in {1, n} : Max({1, n}) >= y
      <3> HIDE DEF top
      <3> QED  BY <2>1 DEF Max
    <2> HIDE DEF top
    <2>4. Max({1, n}) = top
      BY <2>2, <2>3
    <2> QED  BY <2>4 DEF top
  <1>7. \A q \in Nat : HasPage(c, q) <=> (q = 0 \/ q < n)
    BY <1>4 DEF HasPage, L, M
  <1> DEFINE p == NoOfPages(c)
  <1>8. p = IF n < 1 THEN 1 ELSE n
    BY <1>5, <1>6
  <1> HIDE DEF p
  <1>9. p \in Nat \ {0} /\ \A q \in Nat : q < p <=> (q = 0 \/ q < n)
    BY <1>3, <1>8
  <1> QED  BY <1>7, <1>9 DEF p

\* A value continues after page q if it has another one.
LEMMA NextPage ==
  ASSUME NEW c \in Seq(Nat), NEW q \in Nat
  PROVE  /\ q * MaxPageSize \in Nat
         /\ (q + 1) * MaxPageSize = q * MaxPageSize + MaxPageSize
         /\ Continues(c, q) <=> HasPage(c, q + 1)
         /\ HasPage(c, q) => q * MaxPageSize <= Len(c)
  <1>1. MaxPageSize \in Nat \ {0} /\ Len(c) \in Nat
    BY PageStoreAssumption
  <1>2. q * MaxPageSize \in Nat /\ (q + 1) * MaxPageSize = q * MaxPageSize + MaxPageSize
    BY <1>1, ProductGrows
  <1>3. 0 * MaxPageSize = 0
    BY <1>1
  <1>4. HasPage(c, q) => q * MaxPageSize <= Len(c)
    BY <1>1, <1>2, <1>3 DEF HasPage
  <1> QED  BY <1>1, <1>2, <1>4 DEF Continues, HasPage

\* Which bytes of page q are lost.
LEMMA StoredByteIs ==
  ASSUME NEW q \in Nat, NEW i \in 1 .. MaxPageSize, NEW c
  PROVE  /\ StoredByte(c, q * MaxPageSize + i) =
              IF i = 1 /\ q > 0 THEN 0 ELSE c[q * MaxPageSize + i]
         /\ PageOf(q * MaxPageSize + i) = q
  <1> DEFINE M == MaxPageSize
             s == q * M
             x == s + i
  <1>1. M \in Nat \ {0} /\ i \in 1 .. M
    BY PageStoreAssumption
  <1> HIDE DEF M
  <1>2. s \in Nat /\ (q > 0 => s >= M) /\ (q = 0 => s = 0)
    <2>1. s \in Nat
      BY <1>1
    <2>2. q > 0 => 1 * M <= q * M
      BY <1>1, ProductGrows
    <2> QED  BY <1>1, <2>1, <2>2
  <1>3. x - 1 \in Nat /\ s <= x - 1 /\ x - 1 < s + M /\ (x - 1) - s = i - 1
    <2> HIDE DEF s
    <2> QED  BY <1>1, <1>2
  <1>4. (x - 1) \div M = q /\ ((x - 1) % M) = (x - 1) - s
    BY <1>1, <1>3, Division
  <1> HIDE DEF s
  <1>5. ((x - 1) % M) = 0 <=> i = 1
    BY <1>1, <1>3, <1>4
  <1>6. x > 1 <=> ~(i = 1 /\ q = 0)
    BY <1>1, <1>2
  <1>7. (x > 1 /\ ((x - 1) % M) = 0) <=> (i = 1 /\ q > 0)
    BY <1>5, <1>6
  <1> HIDE DEF x
  <1>8. PageOf(x) = q
    BY <1>4 DEF PageOf, M
  <1>9. StoredByte(c, x) = IF i = 1 /\ q > 0 THEN 0 ELSE c[x]
    BY <1>7 DEF StoredByte, M
  <1> QED  BY <1>8, <1>9 DEF x, s, M

\* Every place in a value is on one page.
LEMMA PlaceOnPage ==
  ASSUME NEW x \in Nat \ {0}
  PROVE  /\ PageOf(x) \in Nat
         /\ x - PageOf(x) * MaxPageSize \in 1 .. MaxPageSize
         /\ x = PageOf(x) * MaxPageSize + (x - PageOf(x) * MaxPageSize)
  <1> DEFINE M == MaxPageSize
             d == (x - 1) \div M
             r == (x - 1) % M
  <1>1. M \in Nat \ {0} /\ x - 1 \in Nat
    BY PageStoreAssumption
  <1> HIDE DEF M
  <1>2. d \in Int /\ r \in 0 .. M - 1 /\ x - 1 = d * M + r
    BY <1>1
  <1> HIDE DEF d, r
  <1>3. d >= 0
    <2>1. SUFFICES ASSUME d <= -1  PROVE FALSE
      BY <1>2
    <2>2. d * M <= (-1) * M
      BY <1>1, <1>2, <2>1
    <2> QED  BY <1>1, <1>2, <2>2
  <1>4. d \in Nat /\ d * M \in Nat /\ x - d * M = r + 1
    BY <1>1, <1>2, <1>3
  <1>5. x - d * M \in 1 .. M /\ x = d * M + (x - d * M)
    BY <1>1, <1>2, <1>4
  <1>6. PageOf(x) = d
    BY DEF PageOf, d, M
  <1> QED  BY <1>4, <1>5, <1>6 DEF M

\* The number of the next page, as a byte.
LEMMA NextNumber ==
  ASSUME NEW q \in Nat
  PROVE  /\ (q % PageNumbers) \in 0 .. PageNumbers - 1
         /\ (((q % PageNumbers) + 1) % PageNumbers) = ((q + 1) % PageNumbers)
         /\ q < PageNumbers => (q % PageNumbers) = q
  <1> DEFINE P == PageNumbers
  <1>1. P \in Nat \ {0}
    BY PageStoreAssumption
  <1> HIDE DEF P
  <1> DEFINE r == q % P
             d == q \div P
  <1>2. r \in 0 .. P - 1 /\ d \in Nat /\ q = d * P + r
    <2>1. r \in 0 .. P - 1 /\ d \in Int /\ q = d * P + r
      BY <1>1
    <2> HIDE DEF d, r
    <2>2. SUFFICES ASSUME d <= -1  PROVE FALSE
      BY <2>1
    <2>3. d * P <= (-1) * P
      BY <1>1, <2>1, <2>2
    <2> QED  BY <1>1, <2>1, <2>3
  <1> HIDE DEF d, r
  <1>3. d * P \in Nat /\ (d + 1) * P = d * P + P
    BY <1>1, <1>2, ProductGrows
  <1>4. ASSUME r + 1 < P
        PROVE  ((r + 1) % P) = ((q + 1) % P)
    <2>1. d * P <= q + 1 /\ q + 1 < d * P + P /\ (q + 1) - d * P = r + 1 /\ q + 1 \in Nat
      <3> DEFINE e == d * P
      <3>1. e \in Nat /\ q = e + r /\ r \in Nat /\ P \in Nat
        BY <1>1, <1>2, <1>3
      <3> HIDE DEF e
      <3>2. e <= q + 1 /\ q + 1 < e + P /\ (q + 1) - e = r + 1 /\ q + 1 \in Nat
        BY <1>4, <3>1
      <3> QED  BY <3>2 DEF e
    <2>2. ((q + 1) % P) = (q + 1) - d * P
      BY <1>1, <1>2, <2>1, Division
    <2>3. r + 1 \in Nat /\ 0 * P = 0 /\ 0 \in Nat
      BY <1>1, <1>2
    <2>4. ((r + 1) % P) = (r + 1) - 0 * P
      BY <1>1, <1>4, <2>3, Division
    <2>5. ((r + 1) % P) = ((q + 1) % P)
      BY <2>1, <2>2, <2>3, <2>4
    <2> QED  BY <2>5
  <1>5. ASSUME r + 1 = P
        PROVE  ((r + 1) % P) = ((q + 1) % P)
    <2>1. (d + 1) * P = q + 1 /\ d + 1 \in Nat /\ q + 1 \in Nat
      BY <1>2, <1>3, <1>5
    <2>2. ((q + 1) % P) = (q + 1) - (d + 1) * P
      BY <1>1, <2>1, Division
    <2>3. ((q + 1) % P) = 0
      BY <2>1, <2>2
    <2>4. 1 * P = P /\ P \in Nat
      BY <1>1
    <2>5. (P % P) = P - 1 * P
      BY <1>1, <2>4, Division
    <2>6. ((r + 1) % P) = 0
      BY <1>1, <1>5, <2>4, <2>5
    <2> QED  BY <2>3, <2>6
  <1>6. q < P => r = q
    <2>1. SUFFICES ASSUME q < P  PROVE (q % P) = q
      BY DEF r
    <2>2. 0 * P = 0 /\ 0 \in Nat /\ 0 * P <= q /\ q < 0 * P + P
      BY <1>1, <2>1
    <2>3. (q % P) = q - 0 * P
      BY <1>1, <2>2, Division
    <2> QED  BY <2>2, <2>3
  <1>7. ((r + 1) % P) = ((q + 1) % P)
    <2>1. r + 1 < P \/ r + 1 = P
      BY <1>1, <1>2
    <2> QED  BY <1>4, <1>5, <2>1
  <1> QED  BY <1>2, <1>6, <1>7 DEF r, P

-----------------------------------------------------------------------------
\* A slice of a value.
LEMMA Slice ==
  ASSUME NEW v \in Seq(Nat), NEW a \in Nat, NEW n \in Nat, a + n <= Len(v)
  PROVE  /\ SubSeq(v, a + 1, a + n) \in Seq(Nat)
         /\ Len(SubSeq(v, a + 1, a + n)) = n
         /\ \A i \in 1 .. n : SubSeq(v, a + 1, a + n)[i] = v[a + i] /\ v[a + i] \in Nat
  <1> DEFINE from == a + 1
             to == a + n
             sub == SubSeq(v, from, to)
  <1>1. from \in Int /\ to \in Int /\ Len(v) \in Nat
    OBVIOUS
  <1>2. \A j \in from .. to : v[j] \in Nat
    <2> TAKE j \in from .. to
    <2>1. j \in 1 .. Len(v)
      BY <1>1
    <2> QED  BY <2>1, ElementOfSeq
  <1> HIDE DEF from, to
  <1>3. /\ sub \in Seq(Nat) /\ Len(sub) = (IF from <= to THEN to - from + 1 ELSE 0)
        /\ \A i \in 1 .. to - from + 1 : sub[i] = v[from + i - 1]
    BY <1>1, <1>2, SubSeqProperties
  <1> HIDE DEF sub
  <1>4. to - from + 1 = n /\ (from <= to <=> n > 0)
    BY DEF from, to
  <1>5. Len(sub) = n
    BY <1>3, <1>4
  <1>6. ASSUME NEW i \in 1 .. n
        PROVE  sub[i] = v[a + i] /\ v[a + i] \in Nat
    <2>1. from + i - 1 = a + i /\ a + i \in from .. to
      BY DEF from, to
    <2> QED  BY <1>2, <1>3, <1>4, <2>1
  <1> QED  BY <1>3, <1>5, <1>6 DEF sub, from, to

\* What PageInsert cuts off the value at page q is its page q.
LEMMA CutPage ==
  ASSUME call # None, CallOK, NEW q \in Nat, CallAt(q)
  PROVE  /\ Rem > MaxPageSize <=> Continues(call.given, q)
         /\ Rem <= MaxPageSize <=> ~Continues(call.given, q)
         /\ Continues(call.given, q) =>
              IsPage(Append(SubSeq(call.value, call.idx + 1, call.idx + MaxPageSize), 0),
                     q, call.given)
         /\ ~Continues(call.given, q) =>
              IsPage(SubSeq(call.value, call.idx + 1, Len(call.value)),
                     q, call.given)
  <1> DEFINE v == call.value
             g == call.given
             L == Len(g)
             M == MaxPageSize
             s == q * M
  <1>1. /\ g \in Seq(Nat) /\ v \in Seq(Nat) /\ Len(v) = L
        /\ call.idx = s /\ HasPage(g, q)
        /\ \A i \in 1 .. L : i > s => v[i] = IF i = s + 1 /\ q > 0 THEN 0 ELSE g[i]
    BY DEF CallOK, CallAt
  <1>2. L \in Nat /\ M \in Nat \ {0} /\ s \in Nat /\ s <= L
    BY <1>1, NextPage, PageStoreAssumption
  <1>3. Continues(g, q) <=> s + M < L
    BY DEF Continues
  <1>4. Rem = L - s
    BY <1>1 DEF Rem
  <1>5. ASSUME NEW i \in 1 .. M, s + i <= L
        PROVE  v[s + i] = StoredByte(g, s + i)
    <2>1. StoredByte(g, s + i) = IF i = 1 /\ q > 0 THEN 0 ELSE g[s + i]
      BY StoredByteIs
    <2> HIDE DEF s, v, g, L, M
    <2>2. s + i \in 1 .. L /\ s + i > s /\ (s + i = s + 1 <=> i = 1)
      BY <1>2, <1>5
    <2> QED  BY <1>1, <2>1, <2>2
  <1> HIDE DEF v, g, L, M, s
  <1>6. Rem > M <=> Continues(g, q)
    BY <1>2, <1>3, <1>4
  <1>7. Rem <= M <=> ~Continues(g, q)
    BY <1>2, <1>3, <1>4
  <1>8. ASSUME Continues(g, q)
        PROVE  IsPage(Append(SubSeq(v, s + 1, s + M), 0), q, g)
    <2> DEFINE cut == SubSeq(v, s + 1, s + M)
               d == Append(cut, 0)
    <2>1. s + M <= Len(v) /\ M \in Nat
      BY <1>1, <1>2, <1>3, <1>8
    <2>2. cut \in Seq(Nat) /\ Len(cut) = M /\ \A i \in 1 .. M : cut[i] = v[s + i]
      BY <1>1, <1>2, <2>1, Slice
    <2> HIDE DEF cut
    <2>3. d \in Seq(Nat) /\ Len(d) = M + 1 /\ \A i \in 1 .. M : d[i] = cut[i]
      BY <2>2, AppendProperties
    <2> HIDE DEF d
    <2>4. \A i \in 1 .. M : s + i <= L => d[i] = StoredByte(g, s + i)
      BY <1>5, <2>2, <2>3
    <2>5. IsPage(d, q, g)
      BY <1>8, <2>3, <2>4 DEF IsPage, L, M, s
    <2> QED  BY <2>5 DEF d, cut
  <1>9. ASSUME ~Continues(g, q)
        PROVE  IsPage(SubSeq(v, s + 1, Len(v)), q, g)
    <2> DEFINE n == L - s
               d == SubSeq(v, s + 1, s + n)
    <2>1. n \in Nat /\ s + n = Len(v) /\ s + n <= Len(v)
      BY <1>1, <1>2
    <2> HIDE DEF n
    <2>2. d \in Seq(Nat) /\ Len(d) = n /\ \A i \in 1 .. n : d[i] = v[s + i]
      BY <1>1, <1>2, <2>1, Slice
    <2>3. d = SubSeq(v, s + 1, Len(v))
      BY <2>1
    <2> HIDE DEF d
    <2>4. ASSUME NEW i \in 1 .. M, s + i <= L
          PROVE  d[i] = StoredByte(g, s + i)
      <3>1. i \in 1 .. n
        BY <1>2, <2>4 DEF n
      <3> QED  BY <1>5, <2>2, <2>4, <3>1
    <2>5. Len(d) = L - s
      BY <2>2 DEF n
    <2> QED  BY <1>9, <2>2, <2>3, <2>4, <2>5 DEF IsPage, L, M, s
  <1>10. SubSeq(call.value, call.idx + 1, call.idx + MaxPageSize) = SubSeq(v, s + 1, s + M)
         /\ SubSeq(call.value, call.idx + 1, Len(call.value)) = SubSeq(v, s + 1, Len(v))
    BY <1>1 DEF v, M
  <1> QED  BY <1>6, <1>7, <1>8, <1>9, <1>10 DEF M, g

\* Writing one page: what it leaves of the entries.
LEMMA PageWrite ==
  ASSUME EntriesInv, kind = "pages", open, NEW k \in PagedKey,
         NEW n \in 0 .. PageNumbers - 1, NEW d, Insert(<<k, n>>, d),
         UNCHANGED <<byBatch, kind>>, call' # None => call'.page < PageNumbers
  PROVE  /\ EntriesInv'
         /\ DOMAIN store' = DOMAIN store \cup {<<k, n>>}
         /\ store'[<<k, n>>].data = d
         /\ \A j \in DOMAIN store \ {<<k, n>>} : store'[j] = store[j]
  <1>1. /\ DOMAIN store' = DOMAIN store \cup {<<k, n>>}
        /\ store'[<<k, n>>] = [data |-> d, mask |-> mask]
        /\ \A j \in DOMAIN store \ {<<k, n>>} : store'[j] = store[j]
        /\ UNCHANGED <<isObfuscated, open, storedKey, mask, currentBatch>>
    BY InsertFacts DEF EntriesInv, TypeOK
  <1> HIDE DEF Insert
  <1>2. <<k, n>> \in PagedKey \X (0 .. PageNumbers - 1)
    OBVIOUS
  <1>3. TypeOK'
    <2>1. IsEntries(store, PagedKey \X (0 .. PageNumbers - 1))'
      BY <1>1, <1>2 DEF EntriesInv, TypeOK, IsEntries
    <2>2. \A j \in DOMAIN store' : store'[j].mask \in {{}, storedKey'}
      BY <1>1 DEF EntriesInv, TypeOK
    <2> QED  BY <1>1, <2>1, <2>2 DEF EntriesInv, TypeOK, IsEntries
  <1>4. OfOneKind' /\ HasItsKey'
    BY <1>1 DEF EntriesInv, OfOneKind, HasItsKey
  <1>5. EntriesMasked'
    BY <1>1 DEF EntriesInv, TypeOK, OfOneKind, EntriesMasked
  <1> QED  BY <1>1, <1>3, <1>4, <1>5 DEF EntriesInv

\* Writing page q of a value: the pages of it and of the others.
LEMMA PagesAfterWrite ==
  ASSUME PagesOK, kind = "pages", NEW k \in PagedKey, NEW q \in Nat,
         NEW c \in Contents[k], HasPage(c, q), NEW d, IsPage(d, q, c), kind' = kind,
         DOMAIN store' = DOMAIN store \cup {<<k, q % PageNumbers>>},
         store'[<<k, q % PageNumbers>>].data = d,
         \A j \in DOMAIN store \ {<<k, q % PageNumbers>>} : store'[j] = store[j]
  PROVE  /\ PagesOK'
         /\ \A j \in PagedKey \ {k} : \A p, e : PageStored(j, p, e) => PageStored(j, p, e)'
         /\ q < PageNumbers =>
              /\ PageStored(k, q, c)'
              /\ \A p, e : p # q /\ PageStored(k, p, e) => PageStored(k, p, e)'
  <1> DEFINE b == q % PageNumbers
  <1>1. b \in 0 .. PageNumbers - 1 /\ (q < PageNumbers => b = q)
    BY NextNumber
  <1> HIDE DEF b
  <1>2. /\ DOMAIN store' = DOMAIN store \cup {<<k, b>>}
        /\ store'[<<k, b>>].data = d
        /\ \A j \in DOMAIN store \ {<<k, b>>} : store'[j] = store[j]
    BY DEF b
  <1>3. PagesOK'
    <2> SUFFICES ASSUME NEW j \in PagedKey, NEW n \in 0 .. PageNumbers - 1,
                        <<j, n>> \in DOMAIN store'
                 PROVE  \E r \in Nat : \E e \in Contents[j] :
                          /\ HasPage(e, r) /\ n = r % PageNumbers
                          /\ IsPage(store'[<<j, n>>].data, r, e)
      BY DEF PagesOK, HasPage, IsPage, Continues, StoredByte
    <2>1. CASE <<j, n>> = <<k, b>>
      <3>1. j = k /\ n = q % PageNumbers
        BY <2>1 DEF b
      <3> QED  BY <1>2, <2>1, <3>1
    <2>2. CASE <<j, n>> # <<k, b>>
      <3>1. <<j, n>> \in DOMAIN store /\ store'[<<j, n>>] = store[<<j, n>>]
        BY <1>2, <2>2
      <3> QED  BY <3>1 DEF PagesOK
    <2> QED  BY <2>1, <2>2
  <1>4. ASSUME NEW j, NEW p, NEW e, <<j, p>> # <<k, b>>, PageStored(j, p, e)
        PROVE  PageStored(j, p, e)'
    BY <1>2, <1>4 DEF PageStored, IsPage, Continues, StoredByte
  <1>5. ASSUME q < PageNumbers
        PROVE  PageStored(k, q, c)'
    <2>1. <<k, q>> = <<k, b>>
      BY <1>1, <1>5
    <2> QED  BY <1>2, <2>1 DEF PageStored, IsPage, Continues, StoredByte
  <1> QED  BY <1>1, <1>3, <1>4, <1>5

-----------------------------------------------------------------------------
\* A call that starts has everything still to write.
LEMMA PageInsertKeeps ==
  ASSUME IInv, kind = "pages", NEW k \in PagedKey, NEW c \in Contents[k],
         PageInsert(k, c), UNCHANGED <<byBatch, kind>>
  PROVE  IInv'
  <1> DEFINE new == [key |-> k, value |-> c, idx |-> 0, page |-> 0, given |-> c]
  <1>1. /\ call' = new /\ UNCHANGED dbVars /\ open
        /\ lastWritten' = [lastWritten EXCEPT ![k] = None]
    BY DEF PageInsert
  <1>2. c \in Seq(Nat) /\ Len(c) \in Nat
    BY ContentIs
  <1>3. MaxPageSize \in Nat \ {0} /\ PageNumbers \in Nat \ {0}
    BY PageStoreAssumption
  <1>4. (0 % PageNumbers) = 0
    BY <1>3, NextNumber
  <1>5. EntriesInv'
    <2>1. call'.page < PageNumbers
      BY <1>1, <1>3
    <2> QED  BY <1>1, <2>1 DEF IInv, EntriesInv, TypeOK, OfOneKind, HasItsKey,
                               EntriesMasked, IsEntries, dbVars
  <1>6. UNCHANGED <<store, kind>>
    BY <1>1 DEF dbVars
  <1>7. PagesOK'
    BY <1>6 DEF IInv, PagesOK, IsPage
  <1>8. WrittenOK'
    <2>1. lastWritten \in [PagedKey -> {None} \cup Seq(Nat)]
      BY DEF IInv, WrittenOK
    <2>2. /\ lastWritten' \in [PagedKey -> {None} \cup Seq(Nat)]
          /\ lastWritten'[k] = None
          /\ \A j \in PagedKey \ {k} : lastWritten'[j] = lastWritten[j]
      BY <1>1, <2>1
    <2>3. \A j \in PagedKey : lastWritten'[j] # None => lastWritten'[j] = lastWritten[j]
      BY <2>2
    <2> QED  BY <1>6, <2>2, <2>3 DEF IInv, WrittenOK, PageStored, IsPage
  <1>9. CallOK'
    <2>1. new \in [key : PagedKey, value : Seq(Nat), idx : Nat,
                   page : 0 .. PageNumbers - 1, given : Seq(Nat)]
      BY <1>2, <1>3
    <2>2. 0 * MaxPageSize = 0
      BY <1>3
    <2>3. lastWritten'[k] = None
      BY <1>1 DEF IInv, WrittenOK
    <2>4. CallAt(0)'
      BY <1>1, <1>2, <1>4, <2>2, <2>3 DEF CallAt, HasPage
    <2> QED  BY <1>1, <2>1, <2>4 DEF CallOK
  <1> QED  BY <1>5, <1>7, <1>8, <1>9 DEF IInv

\* A call that fails leaves the pages it wrote.
LEMMA InsertPageFailsKeeps ==
  ASSUME IInv, kind = "pages", InsertPageFails, UNCHANGED <<byBatch, kind>>
  PROVE  IInv'
  <1>1. call' = None /\ UNCHANGED <<dbVars, lastWritten, byBatch, kind>>
    BY DEF InsertPageFails
  <1>2. EntriesInv'
    BY <1>1 DEF IInv, EntriesInv, TypeOK, OfOneKind, HasItsKey, EntriesMasked, IsEntries,
                dbVars
  <1>3. PagesOK' /\ WrittenOK'
    BY <1>1 DEF IInv, PagesOK, WrittenOK, PageStored, IsPage, dbVars
  <1>4. CallOK'
    BY <1>1 DEF CallOK
  <1> QED  BY <1>2, <1>3, <1>4 DEF IInv

\* After a page that is continued, the call is at the next one.
LEMMA InsertPageKeeps ==
  ASSUME IInv, kind = "pages", InsertPage, UNCHANGED <<byBatch, kind>>
  PROVE  IInv'
  <1>0. PICK k, g, v : k = call.key /\ g = call.given /\ v = call.value
    OBVIOUS
  <1> DEFINE d == Append(SubSeq(call.value, call.idx + 1, call.idx + MaxPageSize), 0)
  <1>1. call # None /\ CallOK /\ open
    BY DEF InsertPage, IInv, EntriesInv, TypeOK
  <1>2. PICK q \in Nat : CallAt(q)
    BY <1>1 DEF CallOK
  <1>3. /\ call \in [key : PagedKey, value : Seq(Nat), idx : Nat,
                     page : 0 .. PageNumbers - 1, given : Seq(Nat)]
        /\ k \in PagedKey /\ g \in Contents[k] /\ g \in Seq(Nat)
        /\ HasPage(g, q) /\ call.page = q % PageNumbers /\ call.idx = q * MaxPageSize
    BY <1>0, <1>1, <1>2 DEF CallOK, CallAt
  <1>4. Continues(g, q) /\ IsPage(d, q, g)
    BY <1>0, <1>1, <1>2, CutPage DEF InsertPage
  <1>5. /\ Insert(<<k, q % PageNumbers>>, d)
        /\ call' = [call EXCEPT !.value[call.idx + MaxPageSize + 1] = 0,
                                !.page = (@ + 1) % PageNumbers,
                                !.idx = @ + MaxPageSize]
        /\ UNCHANGED lastWritten
    BY <1>0, <1>3 DEF InsertPage, PageKey
  <1> HIDE DEF d
  \* The call that is left.
  <1>6. /\ MaxPageSize \in Nat \ {0} /\ Len(g) \in Nat
        /\ (q + 1) * MaxPageSize = q * MaxPageSize + MaxPageSize
        /\ q * MaxPageSize \in Nat /\ HasPage(g, q + 1)
        /\ q * MaxPageSize + MaxPageSize < Len(g)
    BY <1>3, <1>4, NextPage, PageStoreAssumption DEF Continues
  <1> DEFINE x == call.idx + MaxPageSize + 1
             w == [v EXCEPT ![x] = 0]
  <1>7. /\ v \in Seq(Nat) /\ Len(v) = Len(g) /\ x \in 1 .. Len(v)
        /\ x = (q + 1) * MaxPageSize + 1
    <2>1. v \in Seq(Nat) /\ Len(v) = Len(g)
      BY <1>0, <1>2, <1>3 DEF CallAt
    <2>2. x = q * MaxPageSize + MaxPageSize + 1
      BY <1>3
    <2> DEFINE s == q * MaxPageSize
    <2>3. s \in Nat /\ x = s + MaxPageSize + 1 /\ s + MaxPageSize < Len(g)
      BY <1>6, <2>2
    <2> HIDE DEF s, x
    <2>4. x \in 1 .. Len(g)
      BY <1>6, <2>3
    <2> QED  BY <1>6, <2>1, <2>2, <2>4
  <1>8. /\ w \in Seq(Nat) /\ Len(w) = Len(g)
        /\ \A i \in 1 .. Len(g) : w[i] = IF i = x THEN 0 ELSE v[i]
    <2> HIDE DEF x
    <2> QED  BY <1>7, ExceptSeq
  <1>9. /\ call'.key = k /\ call'.value = w /\ call'.given = g
        /\ call'.page = (q + 1) % PageNumbers /\ call'.idx = (q + 1) * MaxPageSize
        /\ call' \in [key : PagedKey, value : Seq(Nat), idx : Nat,
                      page : 0 .. PageNumbers - 1, given : Seq(Nat)]
    <2>1. (call.page + 1) % PageNumbers = (q + 1) % PageNumbers
          /\ ((q + 1) % PageNumbers) \in 0 .. PageNumbers - 1
      BY <1>3, NextNumber
    <2>2. call.idx + MaxPageSize = (q + 1) * MaxPageSize /\ (q + 1) * MaxPageSize \in Nat
      BY <1>3, <1>6
    <2>3. /\ call'.key = k /\ call'.value = w /\ call'.given = g
          /\ call'.page = (call.page + 1) % PageNumbers
          /\ call'.idx = call.idx + MaxPageSize
      BY <1>0, <1>3, <1>5
    <2>4. call' = [key |-> k, value |-> w, idx |-> call.idx + MaxPageSize,
                   page |-> (call.page + 1) % PageNumbers, given |-> g]
      BY <1>0, <1>3, <1>5
    <2> HIDE DEF w
    <2> QED  BY <1>0, <1>3, <1>8, <2>1, <2>2, <2>3, <2>4
  \* What is stored.
  <1>10. call'.page < PageNumbers
    BY <1>9, PageStoreAssumption
  <1>11. (q % PageNumbers) \in 0 .. PageNumbers - 1
    BY NextNumber
  <1>12. /\ EntriesInv'
         /\ DOMAIN store' = DOMAIN store \cup {<<k, q % PageNumbers>>}
         /\ store'[<<k, q % PageNumbers>>].data = d
         /\ \A j \in DOMAIN store \ {<<k, q % PageNumbers>>} : store'[j] = store[j]
    BY <1>1, <1>3, <1>5, <1>10, <1>11, PageWrite DEF IInv
  <1>13. /\ PagesOK'
         /\ \A j \in PagedKey \ {k} : \A p, e : PageStored(j, p, e) => PageStored(j, p, e)'
         /\ q < PageNumbers =>
              /\ PageStored(k, q, g)'
              /\ \A p, e : p # q /\ PageStored(k, p, e) => PageStored(k, p, e)'
    BY <1>3, <1>4, <1>12, PagesAfterWrite DEF IInv
  <1>14. lastWritten[k] = None
    BY <1>0, <1>2 DEF CallAt
  <1>15. WrittenOK'
    <2>1. lastWritten' \in [PagedKey -> {None} \cup Seq(Nat)]
      BY <1>5 DEF IInv, WrittenOK
    <2>2. ASSUME NEW j \in PagedKey, lastWritten'[j] # None, Fits(lastWritten'[j])
          PROVE  /\ lastWritten'[j] \in Contents[j]
                 /\ \A r \in Nat : HasPage(lastWritten'[j], r) => PageStored(j, r, lastWritten[j])'
      <3>1. j # k /\ lastWritten'[j] = lastWritten[j]
        BY <1>5, <1>14, <2>2
      <3>2. /\ lastWritten[j] \in Contents[j]
            /\ \A r \in Nat : HasPage(lastWritten[j], r) => PageStored(j, r, lastWritten[j])
        BY <2>2, <3>1 DEF IInv, WrittenOK
      <3>3. PICK c : c = lastWritten[j]
        OBVIOUS
      <3>4. \A r \in Nat : HasPage(c, r) => PageStored(j, r, c)'
        BY <1>13, <3>1, <3>2, <3>3
      <3>5. \A r \in Nat : PageStored(j, r, c)' => PageStored(j, r, lastWritten[j])'
        BY <3>1, <3>3 DEF PageStored, IsPage, StoredByte
      <3> QED  BY <3>1, <3>2, <3>3, <3>4, <3>5
    <2> QED  BY <2>1, <2>2 DEF WrittenOK, Fits, HasPage, NoOfPages
  <1>16. CallAt(q + 1)'
    <2>1. \A i \in 1 .. Len(g) : i > (q + 1) * MaxPageSize =>
            w[i] = IF i = (q + 1) * MaxPageSize + 1 /\ q + 1 > 0 THEN 0 ELSE g[i]
      <3> DEFINE s == q * MaxPageSize
                 s1 == (q + 1) * MaxPageSize
      <3>1. s \in Nat /\ s1 = s + MaxPageSize /\ x = s1 + 1
        BY <1>6, <1>7
      <3>2. \A i \in 1 .. Len(g) : i > s =>
              v[i] = IF i = s + 1 /\ q > 0 THEN 0 ELSE g[i]
        BY <1>0, <1>2, <1>3 DEF CallAt
      <3> HIDE DEF s, s1, x, w
      <3>0. SUFFICES ASSUME NEW i \in 1 .. Len(g), i > s1
                   PROVE  w[i] = IF i = s1 + 1 THEN 0 ELSE g[i]
        BY DEF s1
      <3>3. CASE i = x
        BY <1>8, <3>1, <3>3
      <3>4. CASE i # x
        <4>1. i > s /\ i # s + 1 /\ i # s1 + 1
          BY <1>6, <3>0, <3>1, <3>4
        <4>2. v[i] = g[i]
          BY <3>2, <4>1
        <4>3. w[i] = v[i]
          BY <1>8, <3>4
        <4> QED  BY <4>1, <4>2, <4>3
      <3> QED  BY <3>3, <3>4
    <2>2. ASSUME Fits(g), NEW p \in Nat, p < q + 1
          PROVE  PageStored(k, p, g)'
      <3>1. q + 1 < NoOfPages(g) /\ NoOfPages(g) \in Nat /\ NoOfPages(g) <= PageNumbers
        BY <1>3, <1>6, <2>2, PagesCount DEF Fits
      <3>2. q < PageNumbers
        BY <3>1, PageStoreAssumption
      <3>3. CASE p = q
        BY <1>13, <3>2, <3>3
      <3>4. CASE p < q
        <4>1. PageStored(k, p, g)
          BY <1>0, <1>2, <2>2, <3>4 DEF CallAt
        <4> QED  BY <1>13, <3>2, <3>4, <4>1
      <3> QED  BY <2>2, <3>3, <3>4
    <2>3. /\ HasPage(call'.given, q + 1)
          /\ call'.given \in Contents[call'.key] /\ Len(call'.value) = Len(call'.given)
          /\ lastWritten'[call'.key] = None
      BY <1>3, <1>5, <1>6, <1>8, <1>9, <1>14
    <2>4. \A i \in 1 .. Len(call'.given) : i > call'.idx =>
            call'.value[i] = IF i = call'.idx + 1 /\ q + 1 > 0 THEN 0 ELSE call'.given[i]
      BY <1>9, <2>1
    <2>5. Fits(call'.given) =>
            \A p \in Nat : p < q + 1 =>
              <<call'.key, p>> \in DOMAIN store'
              /\ IsPage(store'[<<call'.key, p>>].data, p, call'.given)
      BY <1>9, <2>2 DEF PageStored, IsPage
    <2> QED  BY <1>9, <2>3, <2>4, <2>5
             DEF CallAt, HasPage, PageStored, IsPage, Continues, Fits, NoOfPages, StoredByte
  <1>17. CallOK'
    <2>1. q + 1 \in Nat
      OBVIOUS
    <2>2. \E r \in Nat : CallAt(r)'
      BY <1>16, <2>1
    <2> QED  BY <1>9, <2>2 DEF CallOK
  <1> QED  BY <1>12, <1>13, <1>15, <1>17 DEF IInv

\* After the last page, all pages of the value are stored.
LEMMA InsertLastPageKeeps ==
  ASSUME IInv, kind = "pages", InsertLastPage, UNCHANGED <<byBatch, kind>>
  PROVE  IInv'
  <1>0. PICK k, g : k = call.key /\ g = call.given
    OBVIOUS
  <1> DEFINE d == SubSeq(call.value, call.idx + 1, Len(call.value))
  <1>1. call # None /\ CallOK /\ open
    BY DEF InsertLastPage, IInv, EntriesInv, TypeOK
  <1>2. PICK q \in Nat : CallAt(q)
    BY <1>1 DEF CallOK
  <1>3. /\ k \in PagedKey /\ g \in Contents[k] /\ g \in Seq(Nat)
        /\ HasPage(g, q) /\ call.page = q % PageNumbers /\ lastWritten[k] = None
    BY <1>0, <1>1, <1>2 DEF CallOK, CallAt
  <1>4. ~Continues(g, q) /\ IsPage(d, q, g)
    BY <1>0, <1>1, <1>2, CutPage DEF InsertLastPage
  <1>5. /\ Insert(<<k, q % PageNumbers>>, d)
        /\ call' = None /\ lastWritten' = [lastWritten EXCEPT ![k] = g]
    BY <1>0, <1>3 DEF InsertLastPage, PageKey
  <1> HIDE DEF d
  <1>6. (q % PageNumbers) \in 0 .. PageNumbers - 1
    BY NextNumber
  <1>7. /\ EntriesInv'
        /\ DOMAIN store' = DOMAIN store \cup {<<k, q % PageNumbers>>}
        /\ store'[<<k, q % PageNumbers>>].data = d
        /\ \A j \in DOMAIN store \ {<<k, q % PageNumbers>>} : store'[j] = store[j]
    BY <1>1, <1>3, <1>5, <1>6, PageWrite DEF IInv
  <1>8. /\ PagesOK'
        /\ \A j \in PagedKey \ {k} : \A p, e : PageStored(j, p, e) => PageStored(j, p, e)'
        /\ q < PageNumbers =>
             /\ PageStored(k, q, g)'
             /\ \A p, e : p # q /\ PageStored(k, p, e) => PageStored(k, p, e)'
    BY <1>3, <1>4, <1>7, PagesAfterWrite DEF IInv
  <1>9. /\ lastWritten' \in [PagedKey -> {None} \cup Seq(Nat)]
        /\ lastWritten'[k] = g
        /\ \A j \in PagedKey \ {k} : lastWritten'[j] = lastWritten[j]
    <2>1. lastWritten \in [PagedKey -> {None} \cup Seq(Nat)]
      BY DEF IInv, WrittenOK
    <2> QED  BY <1>3, <1>5, <2>1
  \* Page q is the last one.
  <1>10. ASSUME NEW r \in Nat, HasPage(g, r)
         PROVE  r <= q
    <2>1. ~(q + 1 < NoOfPages(g)) /\ r < NoOfPages(g) /\ NoOfPages(g) \in Nat
      BY <1>3, <1>4, <1>10, NextPage, PagesCount
    <2> QED  BY <2>1
  <1>11. ASSUME Fits(g), NEW r \in Nat, HasPage(g, r)
         PROVE  PageStored(k, r, g)'
    <2>1. q < NoOfPages(g) /\ NoOfPages(g) \in Nat /\ NoOfPages(g) <= PageNumbers
      BY <1>3, <1>11, PagesCount DEF Fits
    <2>2. q < PageNumbers
      BY <2>1, PageStoreAssumption
    <2>3. CASE r = q
      BY <1>8, <2>2, <2>3
    <2>4. CASE r < q
      <3>1. PageStored(k, r, g)
        BY <1>0, <1>2, <1>11, <2>4 DEF CallAt
      <3> QED  BY <1>8, <2>2, <2>4, <3>1
    <2> QED  BY <1>10, <1>11, <2>3, <2>4
  <1>12. WrittenOK'
    <2>1. ASSUME NEW j \in PagedKey, lastWritten'[j] # None, Fits(lastWritten'[j])
          PROVE  /\ lastWritten'[j] \in Contents[j]
                 /\ \A r \in Nat : HasPage(lastWritten'[j], r) => PageStored(j, r, lastWritten[j])'
      <3>1. PICK c : c = lastWritten'[j]
        OBVIOUS
      <3>2. c \in Contents[j] /\ \A r \in Nat : HasPage(c, r) => PageStored(j, r, c)'
        <4>1. CASE j = k
          BY <1>3, <1>9, <1>11, <2>1, <3>1, <4>1
        <4>2. CASE j # k
          <5>1. c = lastWritten[j]
            BY <1>9, <3>1, <4>2
          <5>2. /\ c \in Contents[j]
                /\ \A r \in Nat : HasPage(c, r) => PageStored(j, r, c)
            BY <2>1, <3>1, <5>1 DEF IInv, WrittenOK
          <5> QED  BY <1>8, <4>2, <5>2
        <4> QED  BY <4>1, <4>2
      <3>3. \A r \in Nat : PageStored(j, r, c)' => PageStored(j, r, lastWritten[j])'
        BY <3>1 DEF PageStored, IsPage, StoredByte
      <3> QED  BY <3>1, <3>2, <3>3
    <2> QED  BY <1>9, <2>1 DEF WrittenOK, Fits, HasPage, NoOfPages
  <1>13. CallOK'
    BY <1>5 DEF CallOK
  <1> QED  BY <1>7, <1>8, <1>12, <1>13 DEF IInv

\* What does not write keeps the pages.
LEMMA SameStoreKeeps ==
  ASSUME PagesOK, CallOK, WrittenOK, UNCHANGED <<store, kind, lastWritten>>,
         call' = call \/ call' = None
  PROVE  PagesOK' /\ CallOK' /\ WrittenOK'
  <1>1. PagesOK' /\ WrittenOK'
    BY DEF PagesOK, WrittenOK, PageStored
  <1>2. CASE call' = None
    BY <1>1, <1>2 DEF CallOK
  <1>3. CASE call # None /\ call' = call
    <2>1. PICK q \in Nat : CallAt(q)
      BY <1>3 DEF CallOK
    <2>2. CallAt(q)'
      BY <1>3, <2>1 DEF CallAt, PageStored
    <2>3. \E r \in Nat : CallAt(r)'
      BY <2>2
    <2> QED  BY <1>1, <1>3, <2>3 DEF CallOK
  <1> QED  BY <1>2, <1>3

-----------------------------------------------------------------------------
\* The invariant holds at first.
LEMMA InitIInv == Init => IInv
  <1> SUFFICES ASSUME Init  PROVE IInv
    OBVIOUS
  <1> USE DEF Init, InitDB, InitPages, NoEntries
  <1>1. EntriesInv
    BY DEF EntriesInv, TypeOK, OfOneKind, HasItsKey, EntriesMasked, IsEntries
  <1>2. PagesOK /\ CallOK /\ WrittenOK
    BY DEF PagesOK, CallOK, WrittenOK
  <1> QED  BY <1>1, <1>2 DEF IInv

\* And every step keeps it.
LEMMA NextIInv == IInv /\ [Next]_vars => IInv'
  <1> SUFFICES ASSUME IInv, [Next]_vars  PROVE IInv'
    OBVIOUS
  <1>1. EntriesInv /\ PagesOK /\ CallOK /\ WrittenOK
    BY DEF IInv
  <1>2. CASE Open
    <2>1. EntriesInv' /\ UNCHANGED <<store, pageVars, kind>>
      BY <1>1, <1>2, OpenKeeps DEF Open, NewDBwrapper
    <2> QED  BY <1>1, <2>1, SameStoreKeeps DEF IInv, pageVars
  <1>3. CASE CloseOrDie
    <2>1. /\ EntriesInv' /\ call' = None /\ UNCHANGED <<store, lastWritten, kind>>
      BY <1>1, <1>3, LostKeeps DEF CloseOrDie, Lost
    <2> QED  BY <1>1, <2>1, SameStoreKeeps DEF IInv
  <1>4. CASE UseChainstate
    <2>1. EntriesInv' /\ kind' = "chainstate"
      BY <1>1, <1>4, ChainstateKeeps DEF UseChainstate
    <2>2. call' = None /\ lastWritten' = [k \in PagedKey |-> None]
      BY <2>1 DEF EntriesInv, OfOneKind
    <2>3. PagesOK' /\ CallOK' /\ WrittenOK'
      BY <2>1, <2>2 DEF PagesOK, CallOK, WrittenOK
    <2> QED  BY <2>1, <2>3 DEF IInv
  <1>5. CASE UsePages
    BY <1>5, PageInsertKeeps, InsertPageKeeps, InsertLastPageKeeps, InsertPageFailsKeeps
       DEF UsePages, PageStep
  <1>6. CASE UNCHANGED vars
    <2> USE <1>6 DEF vars, coinVars, dbVars, pageVars
    <2>1. EntriesInv'
      BY <1>1 DEF EntriesInv, TypeOK, OfOneKind, HasItsKey, EntriesMasked, IsEntries
    <2>2. PagesOK' /\ CallOK' /\ WrittenOK'
      BY <1>1, SameStoreKeeps
    <2> QED  BY <2>1, <2>2 DEF IInv
  <1> QED  BY <1>2, <1>3, <1>4, <1>5, <1>6 DEF Next

\* So it always holds.
LEMMA Inductive == Spec => []IInv
  BY InitIInv, NextIInv, PTL DEF Spec

\* Stores: an entry is masked by the key of its database or not at all, a handle
\* works with that key, and a closed one has no key and no batch.
THEOREM StoresTypeOK == Spec => []TypeOK
  <1>1. IInv => TypeOK
    BY DEF IInv, EntriesInv
  <1> QED  BY <1>1, Inductive, PTL

\* Chainstate: in an obfuscated database exactly the records that a batch wrote
\* last come out as noise.
THEOREM StoresLegibleUnlessBatched == Spec => []LegibleUnlessBatched
  <1>1. IInv => LegibleUnlessBatched
    <2> SUFFICES ASSUME IInv, NEW t \in Stored
                 PROVE  WillBeLegible(t) <=> ~(isObfuscated /\ t \in byBatch)
      BY DEF LegibleUnlessBatched
    <2>1. t \in DOMAIN store
      BY DEF Stored
    <2>2. WillBeLegible(t) <=> store[t].mask = storedKey
      BY DEF WillBeLegible, IInv, EntriesInv, TypeOK
    <2>3. isObfuscated <=> storedKey # {}
      BY <2>1 DEF IInv, EntriesInv, HasItsKey, TypeOK
    <2> QED  BY <2>1, <2>2, <2>3 DEF IInv, EntriesInv, EntriesMasked
  <1> QED  BY <1>1, Inductive, PTL

-----------------------------------------------------------------------------
\* Where the chainstate is, PageGet finds nothing.
LEMMA NoPagesInChainstate ==
  ASSUME IInv, kind = "chainstate", NEW k \in PagedKey
  PROVE  PageGet(k) = [result |-> "notFound", data |-> <<>>]
  <1>1. \A n \in 0 .. PageNumbers - 1 : <<k, n>> \notin DOMAIN store
    BY StoresAssumption DEF IInv, EntriesInv, TypeOK, IsEntries
  <1>2. 0 \in Stops(k)
    BY <1>1, PageStoreAssumption DEF Stops
  <1>3. Min(Stops(k)) \in 0 .. PageNumbers - 1
    <2>1. Stops(k) \in SUBSET Nat /\ Stops(k) \subseteq 0 .. PageNumbers - 1
      BY DEF Stops
    <2> QED  BY <1>2, <2>1, LeastOf
  <1>4. <<k, Min(Stops(k))>> \notin DOMAIN store
    BY <1>1, <1>3
  <1> QED  BY <1>2, <1>4 DEF PageGet

\* What Get returns for a page that is stored.
LEMMA GetPageIs ==
  ASSUME IInv, open, kind = "pages", NEW k \in PagedKey, NEW n \in 0 .. PageNumbers - 1,
         <<k, n>> \in DOMAIN store
  PROVE  /\ GetPage(k, n) = store[<<k, n>>].data
         /\ \E q \in Nat : \E c \in Contents[k] :
              HasPage(c, q) /\ n = q % PageNumbers /\ IsPage(GetPage(k, n), q, c)
  <1> DEFINE e == store[<<k, n>>]
  <1>1. e = [data |-> e.data, mask |-> storedKey] /\ mask = storedKey
    BY DEF IInv, EntriesInv, EntriesMasked, OfOneKind, TypeOK
  <1> HIDE DEF e
  <1>2. ObfuscateValue(e) = [data |-> e.data, mask |-> {}]
    BY <1>1 DEF ObfuscateValue
  <1>3. GetPage(k, n) = e.data
    BY <1>2 DEF GetPage, Get, e
  <1> QED  BY <1>3 DEF IInv, PagesOK, e

\* The three things PageGet does: it reads full pages for ever, comes upon a
\* page that is missing, or finds a page that is not full after full ones only,
\* and returns them all, one after the other.
LEMMA PageGetIs ==
  ASSUME IInv, open, kind = "pages", NEW k \in PagedKey
  PROVE  \/ /\ PageGet(k).result = "loops"
            /\ \A n \in 0 .. PageNumbers - 1 :
                 <<k, n>> \in DOMAIN store /\ Len(GetPage(k, n)) = MaxPageSize + 1
         \/ \E last \in 0 .. PageNumbers - 1 :
              /\ \A n \in 0 .. last - 1 :
                   <<k, n>> \in DOMAIN store /\ Len(GetPage(k, n)) = MaxPageSize + 1
              /\ \/ PageGet(k).result = "notFound" /\ <<k, last>> \notin DOMAIN store
                 \/ /\ PageGet(k) = [result |-> "found", data |-> PageGet(k).data]
                    /\ PageGet(k).result = "found"
                    /\ <<k, last>> \in DOMAIN store
                    /\ Len(GetPage(k, last)) # MaxPageSize + 1
                    /\ PageGet(k).data \in Seq(Nat)
                    /\ Len(PageGet(k).data) = last * MaxPageSize + Len(GetPage(k, last))
                    /\ \A n \in 0 .. last :
                         \A i \in 1 .. (IF n < last THEN MaxPageSize
                                        ELSE Len(GetPage(k, last))) :
                           PageGet(k).data[n * MaxPageSize + i] = GetPage(k, n)[i]
  <1> DEFINE M == MaxPageSize
  <1>1. M \in Nat \ {0} /\ PageNumbers \in Nat \ {0}
    BY PageStoreAssumption
  <1>2. CASE Stops(k) = {}
    <2>1. PageGet(k).result = "loops"
      BY <1>2 DEF PageGet
    <2>2. \A n \in 0 .. PageNumbers - 1 :
            <<k, n>> \in DOMAIN store /\ Len(GetPage(k, n)) = MaxPageSize + 1
      BY <1>2 DEF Stops
    <2> QED  BY <2>1, <2>2
  <1>3. CASE Stops(k) # {}
    <2>1. PICK last \in 0 .. PageNumbers - 1 :
            last = Min(Stops(k)) /\ last \in Stops(k) /\ \A x \in Stops(k) : last <= x
      <3>1. Stops(k) \in SUBSET Nat /\ Stops(k) \subseteq 0 .. PageNumbers - 1
        BY DEF Stops
      <3> QED  BY <1>3, <3>1, LeastOf
    <2>2. \A n \in 0 .. last - 1 :
            <<k, n>> \in DOMAIN store /\ Len(GetPage(k, n)) = MaxPageSize + 1
      <3> TAKE n \in 0 .. last - 1
      <3>1. n \in 0 .. PageNumbers - 1 /\ ~(last <= n)
        BY <1>1
      <3>2. n \notin Stops(k)
        BY <2>1, <3>1
      <3> QED  BY <3>1, <3>2 DEF Stops
    <2>3. CASE <<k, last>> \notin DOMAIN store
      <3>1. PageGet(k).result = "notFound"
        BY <1>3, <2>1, <2>3 DEF PageGet
      <3> QED  BY <2>2, <2>3, <3>1
    <2>4. CASE <<k, last>> \in DOMAIN store
      <3> DEFINE Part(n) == IF n < last THEN Front(GetPage(k, n)) ELSE GetPage(k, n)
                 m == last + 1
                 parts == [n \in 1 .. m |-> Part(n - 1)]
                 flat == FlattenSeq(parts)
      <3>1. PageGet(k) = [result |-> "found", data |-> flat]
        BY <1>3, <2>1, <2>4 DEF PageGet
      <3>2. Len(GetPage(k, last)) # MaxPageSize + 1
        BY <2>1, <2>4 DEF Stops
      <3>3. \A n \in 0 .. last : <<k, n>> \in DOMAIN store /\ GetPage(k, n) \in Seq(Nat)
        <4> TAKE n \in 0 .. last
        <4>1. n \in 0 .. last - 1 \/ n = last
          OBVIOUS
        <4>2. <<k, n>> \in DOMAIN store /\ n \in 0 .. PageNumbers - 1
          BY <1>1, <2>2, <2>4, <4>1
        <4> QED  BY <4>2, GetPageIs DEF IsPage
      <3>4. ASSUME NEW n \in 0 .. last - 1
            PROVE  /\ Part(n) \in Seq(Nat) /\ Len(Part(n)) = M
                   /\ \A i \in 1 .. M : Part(n)[i] = GetPage(k, n)[i]
        <4> DEFINE d == GetPage(k, n)
        <4>1. d \in Seq(Nat) /\ Len(d) = M + 1 /\ n < last
          <5>1. n \in 0 .. last /\ n < last
            BY <1>1
          <5> QED  BY <2>2, <3>3, <5>1
        <4>2. Part(n) = SubSeq(d, 0 + 1, 0 + M)
          <5>1. Part(n) = Front(d)
            BY <4>1
          <5> HIDE DEF d, Part
          <5>2. Len(d) - 1 = 0 + M /\ 1 = 0 + 1
            BY <1>1, <4>1
          <5> QED  BY <5>1, <5>2 DEF Front
        <4> HIDE DEF d, Part, M
        <4>3. 0 + M <= Len(d) /\ 0 \in Nat /\ M \in Nat
          BY <1>1, <4>1
        <4>4. /\ Part(n) \in Seq(Nat) /\ Len(Part(n)) = M
              /\ \A i \in 1 .. M : Part(n)[i] = d[0 + i]
          BY <4>1, <4>2, <4>3, Slice
        <4>5. \A i \in 1 .. M : 0 + i = i
          BY <1>1
        <4> QED  BY <4>4, <4>5 DEF d
      <3>5. Part(last) = GetPage(k, last)
        OBVIOUS
      <3> HIDE DEF Part
      <3>6. \A n \in 0 .. last : Part(n) \in Seq(Nat)
        <4> TAKE n \in 0 .. last
        <4>1. n \in 0 .. last - 1 \/ n = last
          OBVIOUS
        <4> QED  BY <3>3, <3>4, <3>5, <4>1
      <3>7. /\ m \in Nat \ {0} /\ parts \in [1 .. m -> Seq(Nat)] /\ m - 1 = last
            /\ \A i \in 1 .. m - 1 : Len(parts[i]) = M
            /\ \A n \in 0 .. last : n + 1 \in 1 .. m /\ (n + 1) - 1 = n
                                    /\ parts[n + 1] = Part(n)
            /\ parts[m] = Part(last)
        <4>1. /\ m \in Nat \ {0} /\ m - 1 = last /\ m \in 1 .. m
              /\ \A i \in 1 .. m : i - 1 \in 0 .. last
              /\ \A i \in 1 .. m - 1 : i \in 1 .. m /\ i - 1 \in 0 .. last - 1
              /\ \A n \in 0 .. last : n + 1 \in 1 .. m /\ (n + 1) - 1 = n
          BY <1>1
        <4> HIDE DEF m
        <4>2. \A i \in 1 .. m : parts[i] = Part(i - 1)
          OBVIOUS
        <4>3. parts \in [1 .. m -> Seq(Nat)]
          BY <3>6, <4>1
        <4> HIDE DEF parts
        <4>4. \A i \in 1 .. m - 1 : Len(parts[i]) = M
          BY <3>4, <4>1, <4>2
        <4>5. \A n \in 0 .. last : parts[n + 1] = Part(n)
          BY <4>1, <4>2
        <4>6. parts[m] = Part(last)
          BY <4>1, <4>2
        <4> QED  BY <4>1, <4>3, <4>4, <4>5, <4>6
      <3> HIDE DEF parts, m
      <3>8. /\ flat \in Seq(Nat)
            /\ Len(flat) = (m - 1) * M + Len(parts[m])
            /\ \A i \in 1 .. m : \A j \in 1 .. Len(parts[i]) :
                 flat[(i - 1) * M + j] = parts[i][j]
        <4>1. /\ m \in Nat \ {0} /\ parts \in [1 .. m -> Seq(Nat)] /\ M \in Nat \ {0}
              /\ \A i \in 1 .. m - 1 : Len(parts[i]) = M
          BY <1>1, <3>7
        <4> HIDE DEF M
        <4> QED  BY ONLY <4>1, FlattenParts
      <3> HIDE DEF flat
      <3>9. Len(flat) = last * M + Len(GetPage(k, last))
        BY <3>5, <3>7, <3>8
      <3>10. ASSUME NEW n \in 0 .. last,
                    NEW i \in 1 .. (IF n < last THEN M ELSE Len(GetPage(k, last)))
             PROVE  flat[n * M + i] = GetPage(k, n)[i]
        <4>1. \A j \in 1 .. Len(Part(n)) : flat[n * M + j] = Part(n)[j]
          <5>1. n + 1 \in 1 .. m /\ (n + 1) - 1 = n /\ parts[n + 1] = Part(n)
            BY <3>7
          <5> QED  BY <3>8, <5>1
        <4>2. CASE n < last
          <5>1. n \in 0 .. last - 1
            BY <4>2
          <5> QED  BY <3>4, <4>1, <4>2, <5>1
        <4>3. CASE n = last
          BY <3>5, <4>1, <4>3
        <4> QED  BY <4>2, <4>3
      <3>11. /\ PageGet(k) = [result |-> "found", data |-> PageGet(k).data]
             /\ PageGet(k).data = flat /\ PageGet(k).result = "found"
        BY <3>1
      <3> QED  BY <2>2, <2>4, <3>2, <3>8, <3>9, <3>10, <3>11
    <2> QED  BY <2>3, <2>4
  <1> QED  BY <1>2, <1>3

\* A page is as long as a full one if the value continues.
LEMMA FullMeansContinued ==
  ASSUME NEW c \in Seq(Nat), NEW q \in Nat, NEW d, HasPage(c, q), IsPage(d, q, c)
  PROVE  /\ Len(d) = MaxPageSize + 1 <=> Continues(c, q)
         /\ Len(d) # MaxPageSize + 1 => NoOfPages(c) = q + 1
         /\ Len(d) # MaxPageSize + 1 => Len(d) = Len(c) - q * MaxPageSize
  <1>1. MaxPageSize \in Nat \ {0} /\ Len(c) \in Nat /\ q * MaxPageSize \in Nat
    BY NextPage, PageStoreAssumption
  <1>2. Len(d) = MaxPageSize + 1 <=> Continues(c, q)
    <2> DEFINE s == q * MaxPageSize
    <2>1. s \in Nat /\ (Continues(c, q) <=> s + MaxPageSize < Len(c))
          /\ Len(d) = IF Continues(c, q) THEN MaxPageSize + 1 ELSE Len(c) - s
      BY <1>1 DEF Continues, IsPage
    <2> HIDE DEF s
    <2> QED  BY <1>1, <2>1
  <1>3. ~Continues(c, q) => NoOfPages(c) = q + 1
    <2>1. ~Continues(c, q) => ~(q + 1 < NoOfPages(c))
      BY NextPage, PagesCount
    <2>2. q < NoOfPages(c) /\ NoOfPages(c) \in Nat
      BY PagesCount
    <2> QED  BY <2>1, <2>2
  <1> QED  BY <1>2, <1>3 DEF IsPage

\* What PageGet finds: the pages up to the first that is not full, which is the
\* last page of some value, under its own number if a byte can number the pages
\* of that value.
LEMMA FoundPages ==
  ASSUME IInv, open, kind = "pages", NEW k \in PagedKey, PageGet(k).result = "found"
  PROVE  /\ PageGet(k) = [result |-> "found", data |-> PageGet(k).data]
         /\ PageGet(k).data \in Seq(Nat)
         /\ \E last \in 0 .. PageNumbers - 1 : \E q \in Nat : \E c \in Contents[k] :
              /\ q % PageNumbers = last /\ NoOfPages(c) = q + 1
              /\ Fits(c) => q = last /\ Len(PageGet(k).data) = Len(c)
              /\ Len(PageGet(k).data) = last * MaxPageSize + Len(GetPage(k, last))
              /\ Len(GetPage(k, last)) \in 0 .. MaxPageSize
              /\ \A n \in 0 .. last :
                   /\ <<k, n>> \in DOMAIN store
                   /\ Len(GetPage(k, n)) = MaxPageSize + 1 <=> n # last
                   /\ \A i \in 1 .. MaxPageSize :
                        n * MaxPageSize + i <= Len(PageGet(k).data) =>
                          PageGet(k).data[n * MaxPageSize + i] = GetPage(k, n)[i]
  <1> DEFINE M == MaxPageSize
             data == PageGet(k).data
  <1>1. M \in Nat \ {0} /\ PageNumbers \in Nat \ {0}
    BY PageStoreAssumption
  <1>2. PICK last \in 0 .. PageNumbers - 1 :
          /\ \A n \in 0 .. last - 1 :
               <<k, n>> \in DOMAIN store /\ Len(GetPage(k, n)) = M + 1
          /\ PageGet(k) = [result |-> "found", data |-> data]
          /\ <<k, last>> \in DOMAIN store
          /\ Len(GetPage(k, last)) # M + 1
          /\ data \in Seq(Nat)
          /\ Len(data) = last * M + Len(GetPage(k, last))
          /\ \A n \in 0 .. last :
               \A i \in 1 .. (IF n < last THEN M ELSE Len(GetPage(k, last))) :
                 data[n * M + i] = GetPage(k, n)[i]
    BY PageGetIs
  <1>3. PICK q \in Nat : \E c \in Contents[k] :
          HasPage(c, q) /\ last = q % PageNumbers /\ IsPage(GetPage(k, last), q, c)
    BY <1>2, GetPageIs
  <1>4. PICK c \in Contents[k] :
          HasPage(c, q) /\ last = q % PageNumbers /\ IsPage(GetPage(k, last), q, c)
    BY <1>3
  <1>5. c \in Seq(Nat) /\ Len(c) \in Nat /\ NoOfPages(c) \in Nat
    BY ContentIs, PagesCount
  <1>6. NoOfPages(c) = q + 1 /\ Len(GetPage(k, last)) = Len(c) - q * M
    BY <1>2, <1>4, <1>5, FullMeansContinued
  <1>7. Fits(c) => q = last
    <2> SUFFICES ASSUME Fits(c)  PROVE q = last
      OBVIOUS
    <2>1. q < PageNumbers
      BY <1>1, <1>5, <1>6 DEF Fits
    <2> QED  BY <1>4, <2>1, NextNumber
  <1> HIDE DEF data
  <1> DEFINE s == q * M
  <1>8. s \in Nat /\ s <= Len(c) /\ (Continues(c, q) <=> s + M < Len(c))
    BY <1>4, <1>5, NextPage DEF Continues
  <1>9. Fits(c) => Len(data) = Len(c)
    <2>1. Fits(c) => Len(data) = s + (Len(c) - s)
      BY <1>2, <1>6, <1>7
    <2> HIDE DEF s
    <2> QED  BY <1>5, <1>8, <2>1
  <1>10. Len(GetPage(k, last)) \in 0 .. M
    <2>1. ~Continues(c, q)
      BY <1>2, <1>4, <1>5, FullMeansContinued
    <2>2. Len(GetPage(k, last)) = Len(c) - s
      BY <1>6
    <2> HIDE DEF s
    <2> QED  BY <1>1, <1>5, <1>8, <2>1, <2>2
  <1>11. ASSUME NEW n \in 0 .. last
         PROVE  /\ <<k, n>> \in DOMAIN store
                /\ Len(GetPage(k, n)) = M + 1 <=> n # last
                /\ \A i \in 1 .. M : n * M + i <= Len(data) =>
                     data[n * M + i] = GetPage(k, n)[i]
    <2>1. n \in 0 .. last - 1 \/ n = last
      OBVIOUS
    <2>2. ASSUME NEW i \in 1 .. M, n * M + i <= Len(data)
          PROVE  i \in 1 .. (IF n < last THEN M ELSE Len(GetPage(k, last)))
      <3>1. CASE n < last
        BY <3>1
      <3>2. CASE n = last
        <4> DEFINE a == n * M
        <4>1. a \in Nat /\ a + i <= a + Len(GetPage(k, last))
          BY <1>1, <1>2, <2>2, <3>2
        <4> HIDE DEF a
        <4> QED  BY <1>10, <3>2, <4>1
      <3> QED  BY <2>1, <3>1, <3>2
    <2>3. <<k, n>> \in DOMAIN store /\ (Len(GetPage(k, n)) = M + 1 <=> n # last)
      BY <1>2, <2>1
    <2> QED  BY <1>2, <2>2, <2>3
  <1> HIDE DEF s
  <1> QED  BY <1>2, <1>4, <1>6, <1>7, <1>9, <1>10, <1>11 DEF data

\* Block storage: what PageGet finds is as long as some value written under the
\* key, if a byte can number the pages of them all, and never as long as one it
\* cannot; and only for such a value does PageGet not end.
THEOREM StoresReadIsWhole == Spec => []ReadIsWhole
  <1>1. IInv => ReadIsWhole
    <2> SUFFICES ASSUME IInv, open, NEW k \in PagedKey
                 PROVE  /\ PageGet(k).result = "loops" => ~AllFit(k)
                        /\ PageGet(k).result = "found" =>
                             /\ AllFit(k) => \E c \in Contents[k] : Len(PageGet(k).data) = Len(c)
                             /\ \A c \in Contents[k] : Len(PageGet(k).data) = Len(c) => Fits(c)
      BY DEF ReadIsWhole
    <2>1. CASE kind = "chainstate"
      <3>1. PageGet(k).result = "notFound"
        BY <2>1, NoPagesInChainstate
      <3> QED  BY <3>1
    <2>2. CASE kind = "pages"
      <3>1. MaxPageSize \in Nat \ {0} /\ PageNumbers \in Nat \ {0}
        BY PageStoreAssumption
      \* A full page under every number: the last number is one of a page after which
      \* a value goes on.
      <3>2. PageGet(k).result = "loops" => ~AllFit(k)
        <4> SUFFICES ASSUME PageGet(k).result = "loops"  PROVE ~AllFit(k)
          OBVIOUS
        <4> DEFINE n == PageNumbers - 1
        <4>1. n \in 0 .. PageNumbers - 1
          BY <3>1
        <4>2. <<k, n>> \in DOMAIN store /\ Len(GetPage(k, n)) = MaxPageSize + 1
          BY <2>2, <4>1, PageGetIs
        <4>3. PICK q \in Nat : \E c \in Contents[k] :
                HasPage(c, q) /\ n = q % PageNumbers /\ IsPage(GetPage(k, n), q, c)
          BY <2>2, <4>1, <4>2, GetPageIs
        <4>4. PICK c \in Contents[k] :
                HasPage(c, q) /\ n = q % PageNumbers /\ IsPage(GetPage(k, n), q, c)
          BY <4>3
        <4>5. c \in Seq(Nat) /\ NoOfPages(c) \in Nat
          BY ContentIs, PagesCount
        <4>6. q + 1 < NoOfPages(c)
          BY <4>2, <4>4, <4>5, FullMeansContinued, NextPage, PagesCount
        <4>7. ASSUME Fits(c)  PROVE FALSE
          <5>1. q < PageNumbers /\ q + 1 < PageNumbers
            BY <3>1, <4>5, <4>6, <4>7 DEF Fits
          <5>2. q = n
            BY <4>4, <5>1, NextNumber
          <5> QED  BY <3>1, <5>1, <5>2
        <4> QED  BY <4>7 DEF AllFit
      <3>3. ASSUME PageGet(k).result = "found", AllFit(k)
            PROVE  \E c \in Contents[k] : Len(PageGet(k).data) = Len(c)
        BY <2>2, <3>3, FoundPages DEF AllFit
      \* What is found has no more pages than there are numbers.
      <3>4. ASSUME PageGet(k).result = "found", NEW c \in Contents[k],
                   Len(PageGet(k).data) = Len(c)
            PROVE  Fits(c)
        <4>1. PICK last \in 0 .. PageNumbers - 1 :
                /\ Len(PageGet(k).data) = last * MaxPageSize + Len(GetPage(k, last))
                /\ Len(GetPage(k, last)) \in 0 .. MaxPageSize
          BY <2>2, <3>4, FoundPages
        <4>2. /\ (last + 1) * MaxPageSize <= PageNumbers * MaxPageSize
              /\ (last + 1) * MaxPageSize = last * MaxPageSize + MaxPageSize
              /\ last * MaxPageSize \in Nat /\ PageNumbers * MaxPageSize \in Nat
          <5>1. last \in Nat /\ last + 1 \in Nat /\ last + 1 <= PageNumbers
            BY <3>1
          <5> QED  BY <3>1, <5>1, ProductGrows
        <4>3. c \in Seq(Nat) /\ Len(c) \in Nat /\ NoOfPages(c) \in Nat
          BY ContentIs, PagesCount
        <4> DEFINE a == last * MaxPageSize
                   b == PageNumbers * MaxPageSize
                   e == Len(GetPage(k, last))
        <4>4. /\ a \in Nat /\ b \in Nat /\ a + MaxPageSize <= b
              /\ Len(c) = a + e /\ e \in 0 .. MaxPageSize
          BY <3>4, <4>1, <4>2
        <4> HIDE DEF a, b, e
        <4>5. Len(c) <= b
          BY <3>1, <4>3, <4>4
        <4>6. ~HasPage(c, PageNumbers)
          BY <3>1, <4>3, <4>4, <4>5 DEF HasPage, b
        <4>7. ~(PageNumbers < NoOfPages(c))
          BY <3>1, <4>3, <4>6, PagesCount
        <4> QED  BY <3>1, <4>3, <4>7 DEF Fits
      <3> QED  BY <3>2, <3>3, <3>4
    <2> QED  BY <2>1, <2>2 DEF IInv, EntriesInv, TypeOK
  <1> QED  BY <1>1, Inductive, PTL

\* Block storage: every page of what PageGet finds comes from one value that was
\* written under the key.
THEOREM StoresReadIsPagewise == Spec => []ReadIsPagewise
  <1>1. IInv => ReadIsPagewise
    <2> SUFFICES ASSUME IInv, open, NEW k \in PagedKey, AllFit(k),
                        PageGet(k).result = "found", NEW y \in DOMAIN PageGet(k).data
                 PROVE  \E c \in Contents[k] :
                          \A x \in {j \in DOMAIN PageGet(k).data : PageOf(j) = PageOf(y)} :
                            x <= Len(c) /\ PageGet(k).data[x] = StoredByte(c, x)
      BY DEF ReadIsPagewise
    <2> DEFINE M == MaxPageSize
               data == PageGet(k).data
               n == PageOf(y)
    <2>1. kind = "pages"
      <3>1. kind # "chainstate"
        BY NoPagesInChainstate
      <3> QED  BY <3>1 DEF IInv, EntriesInv, TypeOK
    <2>2. M \in Nat \ {0} /\ PageNumbers \in Nat \ {0}
      BY PageStoreAssumption
    <2>3. data \in Seq(Nat)
      BY <2>1, FoundPages
    <2>4. PICK last \in 0 .. PageNumbers - 1 :
            /\ Len(data) = last * M + Len(GetPage(k, last))
            /\ Len(GetPage(k, last)) \in 0 .. M
            /\ \A r \in 0 .. last :
                 /\ <<k, r>> \in DOMAIN store
                 /\ Len(GetPage(k, r)) = M + 1 <=> r # last
                 /\ \A i \in 1 .. M : r * M + i <= Len(data) =>
                      data[r * M + i] = GetPage(k, r)[i]
      BY <2>1, FoundPages
    \* A byte that is found, and its place on its page.
    <2>5. ASSUME NEW x \in DOMAIN data, PageOf(x) = n
          PROVE  /\ n \in Nat /\ x - n * M \in 1 .. M /\ x = n * M + (x - n * M)
                 /\ x \in Nat \ {0} /\ x <= Len(data)
      <3>1. x \in Nat \ {0} /\ x <= Len(data)
        BY <2>3
      <3> QED  BY <2>5, <3>1, PlaceOnPage
    <2> HIDE DEF data
    <2>6. n \in 0 .. last
      <3>1. n \in Nat /\ y - n * M \in 1 .. M /\ y = n * M + (y - n * M) /\ y <= Len(data)
        BY <2>5 DEF data
      <3> HIDE DEF n
      <3>2. SUFFICES ASSUME last + 1 <= n  PROVE FALSE
        BY <3>1
      <3>3. /\ (last + 1) * M <= n * M /\ (last + 1) * M = last * M + M
            /\ last * M \in Nat /\ n * M \in Nat
        BY <2>2, <3>1, <3>2, ProductGrows
      <3> DEFINE a == last * M
                 b == n * M
                 e == Len(GetPage(k, last))
      <3>4. /\ a \in Nat /\ b \in Nat /\ a + M <= b /\ y - b \in 1 .. M /\ y = b + (y - b)
            /\ y <= a + e /\ e \in 0 .. M
        BY <2>4, <3>1, <3>3
      <3> HIDE DEF a, b, e
      <3>5. y \in Int
        BY <2>5 DEF data, n
      <3> QED  BY <2>2, <3>4, <3>5
    <2>7. PICK q \in Nat : \E c \in Contents[k] :
            HasPage(c, q) /\ n = q % PageNumbers /\ IsPage(GetPage(k, n), q, c)
      <3>1. n \in 0 .. PageNumbers - 1 /\ <<k, n>> \in DOMAIN store
        BY <2>2, <2>4, <2>6
      <3> HIDE DEF n
      <3> QED  BY <2>1, <3>1, GetPageIs
    <2>8. PICK c \in Contents[k] :
            HasPage(c, q) /\ n = q % PageNumbers /\ IsPage(GetPage(k, n), q, c)
      BY <2>7
    <2>9. c \in Seq(Nat) /\ Len(c) \in Nat /\ NoOfPages(c) \in Nat
      BY ContentIs, PagesCount
    <2>10. q = n
      <3>1. q < NoOfPages(c) /\ NoOfPages(c) <= PageNumbers
        BY <2>8, <2>9, PagesCount DEF AllFit, Fits
      <3>2. q < PageNumbers
        BY <2>2, <2>9, <3>1
      <3> QED  BY <2>8, <3>2, NextNumber
    <2>11. ASSUME NEW x \in DOMAIN data, PageOf(x) = n
           PROVE  x <= Len(c) /\ data[x] = StoredByte(c, x)
      <3> DEFINE i == x - n * M
      <3>1. n \in Nat /\ i \in 1 .. M /\ x = n * M + i /\ x \in Nat \ {0} /\ x <= Len(data)
        BY <2>5, <2>11 DEF data
      <3> HIDE DEF i
      <3>2. data[x] = GetPage(k, n)[i]
        BY <2>4, <2>6, <3>1
      <3>3. x <= Len(c)
        <4> DEFINE s == n * M
        <4>1. s \in Nat /\ s <= Len(c) /\ (Continues(c, n) <=> s + M < Len(c))
          BY <2>8, <2>9, <2>10, <3>1, NextPage DEF Continues
        <4>2. Len(GetPage(k, n)) = IF Continues(c, n) THEN M + 1 ELSE Len(c) - s
          BY <2>8, <2>10 DEF IsPage
        <4>3. CASE n # last
          <5>1. Len(GetPage(k, n)) = M + 1
            BY <2>4, <2>6, <4>3
          <5>2. x = s + i
            BY <3>1
          <5> HIDE DEF s, n
          <5>3. s + M <= Len(c)
            BY <2>2, <2>9, <4>1, <4>2, <5>1
          <5> QED  BY <2>2, <2>9, <3>1, <4>1, <5>2, <5>3
        <4>4. CASE n = last
          <5>1. Len(GetPage(k, n)) # M + 1 /\ Len(data) = s + Len(GetPage(k, n))
            BY <2>4, <2>6, <4>4
          <5> HIDE DEF s, n
          <5>2. Len(data) = Len(c)
            BY <2>2, <2>9, <4>1, <4>2, <5>1
          <5> QED  BY <3>1, <5>2
        <4> QED  BY <4>3, <4>4
      <3>4. GetPage(k, n)[i] = StoredByte(c, x)
        BY <2>8, <2>10, <3>1, <3>3 DEF IsPage
      <3> QED  BY <3>2, <3>3, <3>4
    <2> QED  BY <2>11 DEF data
  <1> QED  BY <1>1, Inductive, PTL

\* Block storage: what PageInsert wrote to the end is what PageGet finds from
\* then on, but for the first bytes of its pages after the first.
THEOREM StoresReadLastWritten == Spec => []ReadLastWritten
  <1>1. IInv => ReadLastWritten
    <2> SUFFICES ASSUME IInv, open, NEW k \in PagedKey, lastWritten[k] # None,
                        Fits(lastWritten[k])
                 PROVE  PageGet(k) =
                          [result |-> "found",
                           data |-> [i \in DOMAIN lastWritten[k] |->
                                       StoredByte(lastWritten[k], i)]]
      BY DEF ReadLastWritten
    <2> DEFINE w == lastWritten[k]
    <2>1. kind = "pages"
      BY DEF IInv, EntriesInv, OfOneKind, TypeOK
    <2>2. w \in Contents[k] /\ Fits(w) /\ \A q \in Nat : HasPage(w, q) => PageStored(k, q, w)
      BY DEF IInv, WrittenOK
    <2> HIDE DEF w
    <2>3. /\ MaxPageSize \in Nat \ {0} /\ PageNumbers \in Nat \ {0}
          /\ w \in Seq(Nat) /\ Len(w) \in Nat
          /\ NoOfPages(w) \in Nat \ {0} /\ NoOfPages(w) <= PageNumbers
      BY <2>2, ContentIs, PagesCount, PageStoreAssumption DEF Fits
    <2> DEFINE m == NoOfPages(w) - 1
    <2>4. ASSUME NEW n \in 0 .. m
          PROVE  /\ <<k, n>> \in DOMAIN store /\ n \in 0 .. PageNumbers - 1
                 /\ n \in Nat /\ HasPage(w, n) /\ IsPage(GetPage(k, n), n, w)
                 /\ Len(GetPage(k, n)) = MaxPageSize + 1 <=> n # m
      <3>1. n \in Nat /\ n \in 0 .. PageNumbers - 1 /\ n < NoOfPages(w)
        BY <2>3
      <3>2. HasPage(w, n)
        BY <2>3, <3>1, PagesCount
      <3>3. <<k, n>> \in DOMAIN store /\ IsPage(store[<<k, n>>].data, n, w)
        BY <2>2, <3>1, <3>2 DEF PageStored
      <3>4. IsPage(GetPage(k, n), n, w)
        BY <2>1, <3>1, <3>3, GetPageIs
      <3>5. Len(GetPage(k, n)) = MaxPageSize + 1 <=> n + 1 < NoOfPages(w)
        <4>1. Len(GetPage(k, n)) = MaxPageSize + 1 <=> Continues(w, n)
          BY <2>3, <3>1, <3>2, <3>4, FullMeansContinued
        <4>2. Continues(w, n) <=> HasPage(w, n + 1)
          BY <2>3, <3>1, NextPage
        <4>3. HasPage(w, n + 1) <=> n + 1 < NoOfPages(w)
          BY <2>3, <3>1, PagesCount
        <4> QED  BY <4>1, <4>2, <4>3
      <3> QED  BY <2>3, <3>1, <3>2, <3>3, <3>4, <3>5
    <2>5. m \in Nat /\ m \in 0 .. m
      BY <2>3
    <2> HIDE DEF m
    \* PageGet comes to the last page.
    <2>6. PageGet(k).result = "found"
      <3>1. PageGet(k).result # "loops"
        BY <2>1, <2>4, <2>5, PageGetIs
      <3>2. ASSUME NEW last \in 0 .. PageNumbers - 1,
                   \A r \in 0 .. last - 1 : Len(GetPage(k, r)) = MaxPageSize + 1,
                   <<k, last>> \notin DOMAIN store
            PROVE  FALSE
        <4>1. ~(last <= m)
          BY <2>4, <2>5, <3>2
        <4>2. m \in 0 .. last - 1
          BY <2>5, <4>1
        <4> QED  BY <2>4, <2>5, <3>2, <4>2
      <3> QED  BY <2>1, <3>1, <3>2, PageGetIs
    <2> DEFINE data == PageGet(k).data
    <2>7. PageGet(k) = [result |-> "found", data |-> data] /\ data \in Seq(Nat)
      BY <2>1, <2>6, FoundPages
    <2>8. PICK last \in 0 .. PageNumbers - 1 :
            /\ Len(data) = last * MaxPageSize + Len(GetPage(k, last))
            /\ \A n \in 0 .. last :
                 /\ <<k, n>> \in DOMAIN store
                 /\ Len(GetPage(k, n)) = MaxPageSize + 1 <=> n # last
                 /\ \A i \in 1 .. MaxPageSize : n * MaxPageSize + i <= Len(data) =>
                      data[n * MaxPageSize + i] = GetPage(k, n)[i]
      BY <2>1, <2>6, FoundPages
    <2> HIDE DEF data
    <2>9. last = m
      <3>1. CASE last < m
        <4>1. last \in 0 .. m /\ last \in 0 .. last
          BY <2>5, <3>1
        <4> QED  BY <2>4, <2>8, <3>1, <4>1
      <3>2. CASE m < last
        <4>1. m \in 0 .. last
          BY <2>5, <3>2
        <4> QED  BY <2>4, <2>5, <2>8, <3>2, <4>1
      <3> QED  BY <2>5, <3>1, <3>2
    <2>10. Len(data) = Len(w)
      <3> DEFINE s == m * MaxPageSize
      <3>1. s \in Nat
        BY <2>3, <2>5
      <3>2. Len(GetPage(k, m)) = Len(w) - s
        BY <2>3, <2>4, <2>5, FullMeansContinued
      <3>3. Len(data) = s + Len(GetPage(k, m))
        BY <2>8, <2>9
      <3> HIDE DEF s
      <3> QED  BY <2>3, <3>1, <3>2, <3>3
    <2>11. ASSUME NEW x \in 1 .. Len(w)
           PROVE  data[x] = StoredByte(w, x)
      <3> DEFINE n == PageOf(x)
                 i == x - n * MaxPageSize
      <3>1. n \in Nat /\ i \in 1 .. MaxPageSize /\ x = n * MaxPageSize + i
            /\ x \in Nat \ {0} /\ x <= Len(w)
        <4>1. x \in Nat \ {0} /\ x <= Len(w)
          BY <2>3
        <4> QED  BY <4>1, PlaceOnPage
      <3> HIDE DEF n, i
      <3>2. n \in 0 .. m
        <4>1. n * MaxPageSize < Len(w)
          <5> DEFINE s == n * MaxPageSize
          <5>1. s \in Nat /\ x = s + i
            BY <2>3, <3>1
          <5> HIDE DEF s
          <5>2. s < Len(w)
            BY <2>3, <3>1, <5>1
          <5> QED  BY <5>2 DEF s
        <4>2. n < NoOfPages(w)
          BY <2>3, <3>1, <4>1, PagesCount DEF HasPage
        <4> QED  BY <2>3, <3>1, <4>2 DEF m
      <3>3. data[x] = GetPage(k, n)[i]
        BY <2>8, <2>9, <2>10, <3>1, <3>2
      <3>4. GetPage(k, n)[i] = StoredByte(w, x)
        BY <2>4, <3>1, <3>2 DEF IsPage
      <3> QED  BY <3>3, <3>4
    <2>12. data = [i \in DOMAIN w |-> StoredByte(w, i)]
      <3>1. data \in [1 .. Len(w) -> Nat] /\ DOMAIN w = 1 .. Len(w)
        BY <2>3, <2>7, <2>10, LenProperties
      <3>2. data = [i \in 1 .. Len(w) |-> data[i]]
        BY <3>1
      <3>3. data = [i \in 1 .. Len(w) |-> StoredByte(w, i)]
        BY <2>11, <3>2
      <3> QED  BY <3>1, <3>3
    <2> QED  BY <2>7, <2>12 DEF w
  <1> QED  BY <1>1, Inductive, PTL

=============================================================================
