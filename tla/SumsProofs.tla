----------------------------- MODULE SumsProofs -----------------------------
(***************************************************************************)
(* Sums of natural numbers over finite sets.  The community modules define *)
(* SumFunctionOnSet by recursion over an order of the set that is not      *)
(* known; what is shown here does not depend on it.  A sum is the number   *)
(* of units it is made of, the pairs of a place and a number below the     *)
(* value there, so that facts about sums are facts about finite sets.  The *)
(* last lemmas are about quotients, powers of two and loops.               *)
(***************************************************************************)
EXTENDS Integers, FiniteSets, Functions, FiniteSetTheorems, TLAPS

Units(f, S) == {p \in S \X Nat : p[2] < f[p[1]]}

\* Induction over the subsets of a finite set, with a set G of subsets in place
\* of a predicate: what holds for {}, and for one element more, holds for all.
LEMMA FiniteInduction ==
  ASSUME NEW S, IsFiniteSet(S), NEW G, {} \in G,
         \A T \in G : T \subseteq S => \A x \in S \ T : T \cup {x} \in G
  PROVE  S \in G
  <1> DEFINE bad == (SUBSET S) \ G
             R == StrictSubsetOrdering(S)
  <1>1. SUFFICES ASSUME bad # {}  PROVE FALSE
    OBVIOUS
  <1>2. IsWellFoundedOn(R, SUBSET S)
    BY FS_StrictSubsetOrderingWellFounded, FS_FiniteSubsetsOfFinite
  <1>3. PICK T \in bad : \A U \in bad : <<U, T>> \notin R
    <2> HIDE DEF R
    <2> QED  BY <1>1, <1>2, WFMin
  <1>4. PICK x : x \in T
    BY <1>3
  <1>5. <<T \ {x}, T>> \in R
    BY <1>3, <1>4 DEF StrictSubsetOrdering
  <1>6. T \ {x} \in G
    BY <1>3, <1>5
  <1>7. (T \ {x}) \cup {x} = T
    BY <1>4
  <1> QED  BY <1>3, <1>4, <1>6, <1>7

\* One place more brings as many units more as its value says.
LEMMA UnitsAdd ==
  ASSUME NEW f, NEW S, NEW x, x \notin S, f[x] \in Nat, IsFiniteSet(Units(f, S))
  PROVE  /\ IsFiniteSet(Units(f, S \cup {x}))
         /\ Cardinality(Units(f, S \cup {x})) = Cardinality(Units(f, S)) + f[x]
  <1> DEFINE new == {x} \X (0 .. f[x] - 1)
  <1>1. Units(f, S \cup {x}) = Units(f, S) \cup new
    BY DEF Units
  <1>2. Units(f, S) \cap new = {}
    BY DEF Units
  <1>3. IsFiniteSet(new) /\ Cardinality(new) = f[x]
    <2>1. IsFiniteSet({x}) /\ Cardinality({x}) = 1
      BY FS_Singleton
    <2>2. IsFiniteSet(0 .. f[x] - 1) /\ Cardinality(0 .. f[x] - 1) = f[x]
      <3> DEFINE last == f[x] - 1
      <3>1. last \in Int
        OBVIOUS
      <3> HIDE DEF last
      <3>2. /\ IsFiniteSet(0 .. last)
            /\ Cardinality(0 .. last) = IF 0 > last THEN 0 ELSE last - 0 + 1
        BY <3>1, FS_Interval
      <3> QED  BY <3>2 DEF last
    <2>3. /\ IsFiniteSet(new)
          /\ Cardinality(new) = Cardinality({x}) * Cardinality(0 .. f[x] - 1)
      BY <2>1, <2>2, FS_Product
    <2> QED  BY <2>1, <2>2, <2>3
  <1> HIDE DEF new
  <1>4. /\ IsFiniteSet(Units(f, S) \cup new)
        /\ Cardinality(Units(f, S) \cup new)
             = Cardinality(Units(f, S)) + Cardinality(new) - Cardinality(Units(f, S) \cap new)
    BY <1>3, FS_Union
  <1>5. Cardinality(Units(f, S)) \in Nat /\ Cardinality({}) = 0
    BY FS_CardinalityType, FS_EmptySet
  <1>6. Cardinality(Units(f, S) \cap new) = 0
    BY <1>2, <1>5
  <1>7. Cardinality(Units(f, S) \cup new) = Cardinality(Units(f, S)) + f[x]
    BY <1>3, <1>4, <1>5, <1>6
  <1> QED  BY <1>1, <1>4, <1>7

\* There are finitely many units.
LEMMA UnitsFinite ==
  ASSUME NEW f, NEW S, IsFiniteSet(S), \A x \in S : f[x] \in Nat
  PROVE  IsFiniteSet(Units(f, S))
  <1> DEFINE G == {T \in SUBSET S : IsFiniteSet(Units(f, T))}
  <1>1. {} \in G
    <2>1. Units(f, {}) = {}
      BY DEF Units
    <2> QED  BY <2>1, FS_EmptySet
  <1>2. \A T \in G : T \subseteq S => \A x \in S \ T : T \cup {x} \in G
    BY UnitsAdd
  <1>3. S \in G
    <2> HIDE DEF G
    <2> QED  BY <1>1, <1>2, FiniteInduction
  <1> QED  BY <1>3

\* The sum is the number of units: what the recursion of MapThenFoldSet computes.
LEMMA SumCountsUnits ==
  ASSUME NEW f, NEW S, IsFiniteSet(S), \A x \in S : f[x] \in Nat
  PROVE  SumFunctionOnSet(f, S) = Cardinality(Units(f, S))
  <1> DEFINE Body(h) == [s \in SUBSET S |->
                           IF s = {} THEN 0
                           ELSE f[CHOOSE x \in s : TRUE] + h[s \ {CHOOSE x \in s : TRUE}]]
             iter == CHOOSE h : h = Body(h)
             count == [s \in SUBSET S |-> Cardinality(Units(f, s))]
  <1>1. SumFunctionOnSet(f, S) = iter[S]
    BY DEF SumFunctionOnSet, FoldFunctionOnSet, MapThenFoldSet
  <1>2. ASSUME NEW s \in SUBSET S, s # {}
        PROVE  \E x \in s : /\ x = CHOOSE y \in s : TRUE
                            /\ count[s] = f[x] + count[s \ {x}]
    <2> DEFINE x == CHOOSE y \in s : TRUE
    <2>1. x \in s
      BY <1>2
    <2> HIDE DEF x
    <2>2. IsFiniteSet(s \ {x})
      BY <2>1, FS_Subset
    <2>3. IsFiniteSet(Units(f, s \ {x}))
      BY <2>2, UnitsFinite
    <2>4. (s \ {x}) \cup {x} = s
      BY <2>1
    <2>5. Cardinality(Units(f, s)) = Cardinality(Units(f, s \ {x})) + f[x]
      BY <2>1, <2>3, <2>4, UnitsAdd
    <2>6. Cardinality(Units(f, s \ {x})) \in Nat
      BY <2>3, FS_CardinalityType
    <2>7. count[s] = f[x] + count[s \ {x}]
      BY <2>1, <2>5, <2>6
    <2> QED  BY <2>1, <2>7 DEF x
  <1>3. count[{}] = 0
    <2>1. Units(f, {}) = {}
      BY DEF Units
    <2> QED  BY <2>1, FS_EmptySet
  <1>4. count = Body(count)
    <2> HIDE DEF count
    <2>1. \A s \in SUBSET S : count[s] = Body(count)[s]
      BY <1>2, <1>3
    <2>2. count = [s \in SUBSET S |-> count[s]]
      BY DEF count
    <2> QED  BY <2>1, <2>2
  <1>5. iter = Body(iter)
    <2> HIDE DEF Body, count
    <2> QED  BY <1>4
  <1> HIDE DEF iter
  <1>6. \A s \in SUBSET S :
          iter[s] = IF s = {} THEN 0
                    ELSE f[CHOOSE x \in s : TRUE] + iter[s \ {CHOOSE x \in s : TRUE}]
    BY <1>5
  <1> DEFINE bad == {s \in SUBSET S : iter[s] # count[s]}
             R == StrictSubsetOrdering(S)
  <1>7. bad = {}
    <2>1. SUFFICES ASSUME bad # {}  PROVE FALSE
      OBVIOUS
    <2>2. IsWellFoundedOn(R, SUBSET S)
      BY FS_StrictSubsetOrderingWellFounded, FS_FiniteSubsetsOfFinite
    <2>3. PICK s \in bad : \A u \in bad : <<u, s>> \notin R
      <3> HIDE DEF R
      <3> QED  BY <2>1, <2>2, WFMin
    <2>4. s # {}
      BY <1>3, <1>6, <2>3
    <2>5. PICK x \in s : /\ x = CHOOSE y \in s : TRUE
                         /\ count[s] = f[x] + count[s \ {x}]
      BY <1>2, <2>3, <2>4
    <2>6. <<s \ {x}, s>> \in R
      BY <2>3, <2>5 DEF StrictSubsetOrdering
    <2>7. s \ {x} \notin bad
      BY <2>3, <2>6
    <2>8. iter[s] = f[x] + iter[s \ {x}]
      BY <1>6, <2>3, <2>4, <2>5
    <2> QED  BY <2>3, <2>5, <2>7, <2>8
  <1> QED  BY <1>1, <1>7

-----------------------------------------------------------------------------
\* A sum of natural numbers is one.
LEMMA SumType ==
  ASSUME NEW f, NEW S, IsFiniteSet(S), \A x \in S : f[x] \in Nat
  PROVE  SumFunctionOnSet(f, S) \in Nat
  BY SumCountsUnits, UnitsFinite, FS_CardinalityType

\* The empty sum.
LEMMA SumEmpty ==
  ASSUME NEW f
  PROVE  SumFunctionOnSet(f, {}) = 0
  <1>1. Units(f, {}) = {}
    BY DEF Units
  <1> QED  BY <1>1, SumCountsUnits, FS_EmptySet

\* A sum does not depend on the order: any element may be taken as the last.
LEMMA SumAdd ==
  ASSUME NEW f, NEW S, IsFiniteSet(S), NEW x, x \notin S,
         \A y \in S \cup {x} : f[y] \in Nat
  PROVE  SumFunctionOnSet(f, S \cup {x}) = SumFunctionOnSet(f, S) + f[x]
  <1>1. IsFiniteSet(S \cup {x})
    BY FS_AddElement
  <1>2. /\ SumFunctionOnSet(f, S) = Cardinality(Units(f, S))
        /\ SumFunctionOnSet(f, S \cup {x}) = Cardinality(Units(f, S \cup {x}))
    BY <1>1, SumCountsUnits
  <1>3. IsFiniteSet(Units(f, S)) /\ f[x] \in Nat
    BY UnitsFinite
  <1>4. Cardinality(Units(f, S \cup {x})) = Cardinality(Units(f, S)) + f[x]
    BY <1>3, UnitsAdd
  <1> QED  BY <1>2, <1>4

\* A sum over a subset, of values that are no larger, is no larger.
LEMMA SumMonotone ==
  ASSUME NEW f, NEW g, NEW S, NEW T, IsFiniteSet(T), S \subseteq T,
         \A x \in S : f[x] \in Nat, \A x \in T : g[x] \in Nat,
         \A x \in S : f[x] <= g[x]
  PROVE  SumFunctionOnSet(f, S) <= SumFunctionOnSet(g, T)
  <1>1. IsFiniteSet(S)
    BY FS_Subset
  <1>2. Units(f, S) \subseteq Units(g, T)
    BY DEF Units
  <1>3. Cardinality(Units(f, S)) <= Cardinality(Units(g, T))
    BY <1>2, UnitsFinite, FS_Subset
  <1> QED  BY <1>1, <1>3, SumCountsUnits

\* A sum depends on the values at the places it goes over only.
LEMMA SumSameValues ==
  ASSUME NEW f, NEW g, NEW S, IsFiniteSet(S),
         \A x \in S : f[x] \in Nat /\ f[x] = g[x]
  PROVE  SumFunctionOnSet(f, S) = SumFunctionOnSet(g, S)
  <1>1. Units(f, S) = Units(g, S)
    BY DEF Units
  <1> QED  BY <1>1, SumCountsUnits

\* A sum over places that are numbered anew.
LEMMA SumReindexed ==
  ASSUME NEW f, NEW g, NEW S, NEW T, IsFiniteSet(S), NEW h \in Bijection(S, T),
         \A y \in T : g[y] \in Nat, \A x \in S : f[x] = g[h[x]]
  PROVE  SumFunctionOnSet(f, S) = SumFunctionOnSet(g, T)
  <1>1. /\ h \in [S -> T]
        /\ \A x, y \in S : h[x] = h[y] => x = y
        /\ \A y \in T : \E x \in S : h[x] = y
    BY DEF Bijection, Injection, Surjection, IsInjective
  <1>2. IsFiniteSet(T)
    BY FS_Bijection DEF ExistsBijection
  <1>3. \A x \in S : f[x] \in Nat
    BY <1>1
  <1>4. IsFiniteSet(Units(f, S))
    BY <1>3, UnitsFinite
  <1> DEFINE H == [p \in Units(f, S) |-> <<h[p[1]], p[2]>>]
  <1>5. H \in Bijection(Units(f, S), Units(g, T))
    <2>1. H \in [Units(f, S) -> Units(g, T)]
      BY <1>1 DEF Units
    <2>2. ASSUME NEW p \in Units(f, S), NEW q \in Units(f, S), H[p] = H[q]
          PROVE  p = q
      BY <1>1, <2>2 DEF Units
    <2>3. ASSUME NEW q \in Units(g, T)
          PROVE  \E p \in Units(f, S) : H[p] = q
      <3>1. PICK x \in S : h[x] = q[1]
        BY <1>1 DEF Units
      <3>2. <<x, q[2]>> \in Units(f, S)
        BY <3>1 DEF Units
      <3>3. q = <<q[1], q[2]>>
        BY DEF Units
      <3> QED  BY <3>1, <3>2, <3>3
    <2> QED  BY <2>1, <2>2, <2>3 DEF Bijection, Injection, Surjection, IsInjective
  <1>6. Cardinality(Units(g, T)) = Cardinality(Units(f, S))
    BY <1>4, <1>5, FS_Bijection DEF ExistsBijection
  <1> QED  BY <1>2, <1>3, <1>6, SumCountsUnits

\* A sum over two sets is no larger than the two sums, and equal to them if the
\* sets have nothing in common.
LEMMA SumUnion ==
  ASSUME NEW f, NEW S, NEW T, IsFiniteSet(S), IsFiniteSet(T),
         \A x \in S \cup T : f[x] \in Nat
  PROVE  /\ SumFunctionOnSet(f, S \cup T)
              <= SumFunctionOnSet(f, S) + SumFunctionOnSet(f, T)
         /\ S \cap T = {} =>
              SumFunctionOnSet(f, S \cup T)
                = SumFunctionOnSet(f, S) + SumFunctionOnSet(f, T)
  <1>1. IsFiniteSet(S \cup T)
    BY FS_Union
  <1>2. Units(f, S \cup T) = Units(f, S) \cup Units(f, T)
    BY DEF Units
  <1>3. Units(f, S) \cap Units(f, T) = Units(f, S \cap T)
    BY DEF Units
  <1>4. IsFiniteSet(Units(f, S)) /\ IsFiniteSet(Units(f, T))
    BY UnitsFinite
  <1>5. IsFiniteSet(Units(f, S \cap T))
    BY <1>3, <1>4, FS_Intersection
  <1>6. Units(f, {}) = {} /\ Cardinality({}) = 0
    BY FS_EmptySet DEF Units
  <1>7. /\ Cardinality(Units(f, S)) \in Nat
        /\ Cardinality(Units(f, T)) \in Nat
        /\ Cardinality(Units(f, S \cap T)) \in Nat
    BY <1>4, <1>5, FS_CardinalityType
  <1>8. Cardinality(Units(f, S \cup T)) = Cardinality(Units(f, S))
          + Cardinality(Units(f, T)) - Cardinality(Units(f, S \cap T))
    <2>1. Cardinality(Units(f, S) \cup Units(f, T)) = Cardinality(Units(f, S))
            + Cardinality(Units(f, T)) - Cardinality(Units(f, S) \cap Units(f, T))
      BY <1>4, FS_Union
    <2> QED  BY <1>2, <1>3, <2>1
  <1> QED  BY <1>1, <1>6, <1>7, <1>8, SumCountsUnits

\* Adding the values at every place adds the sums.
LEMMA SumPlus ==
  ASSUME NEW f, NEW g, NEW S, IsFiniteSet(S),
         \A x \in S : f[x] \in Nat /\ g[x] \in Nat
  PROVE  SumFunctionOnSet([x \in S |-> f[x] + g[x]], S)
           = SumFunctionOnSet(f, S) + SumFunctionOnSet(g, S)
  <1> DEFINE both == [x \in S |-> f[x] + g[x]]
             G == {T \in SUBSET S : SumFunctionOnSet(both, T)
                                      = SumFunctionOnSet(f, T) + SumFunctionOnSet(g, T)}
  <1>1. {} \in G
    BY SumEmpty
  <1>2. ASSUME NEW T \in G, T \subseteq S, NEW x \in S \ T
        PROVE  T \cup {x} \in G
    <2>1. IsFiniteSet(T)
      BY <1>2, FS_Subset
    <2>2. \A y \in T \cup {x} : both[y] \in Nat /\ both[y] = f[y] + g[y]
      BY <1>2
    <2> HIDE DEF both
    <2>3. /\ SumFunctionOnSet(both, T \cup {x}) = SumFunctionOnSet(both, T) + both[x]
          /\ SumFunctionOnSet(f, T \cup {x}) = SumFunctionOnSet(f, T) + f[x]
          /\ SumFunctionOnSet(g, T \cup {x}) = SumFunctionOnSet(g, T) + g[x]
      BY <1>2, <2>1, <2>2, SumAdd
    <2>4. SumFunctionOnSet(f, T) \in Nat /\ SumFunctionOnSet(g, T) \in Nat
      BY <1>2, <2>1, SumType
    <2> QED  BY <1>2, <2>2, <2>3, <2>4
  <1>3. S \in G
    <2> HIDE DEF G
    <2> QED  BY <1>1, <1>2, FiniteInduction
  <1> QED  BY <1>3

-----------------------------------------------------------------------------
\* A product grows with its factors.
LEMMA ProductGrows ==
  ASSUME NEW a \in Nat, NEW b \in Nat, NEW c \in Nat, a <= b
  PROVE  a * c \in Nat /\ a * c <= b * c /\ (a + 1) * c = a * c + c
  <1>1. b = a + (b - a) /\ b - a \in Nat
    OBVIOUS
  <1> DEFINE d == b - a
  <1> HIDE DEF d
  <1>2. d \in Nat /\ b = a + d
    BY <1>1 DEF d
  <1>3. d * c \in Nat /\ a * c \in Nat
    BY <1>2
  <1>4. (a + d) * c = a * c + d * c
    BY <1>2
  <1>5. (a + 1) * c = a * c + c
    OBVIOUS
  <1> QED  BY <1>2, <1>3, <1>4, <1>5

\* A number between two multiples of c that follow each other.
LEMMA Division ==
  ASSUME NEW a \in Nat, NEW c \in Nat \ {0}, NEW x \in Nat, a * c <= x, x < a * c + c
  PROVE  x \div c = a /\ (x % c) = x - a * c
  <1> DEFINE d == x \div c
             r == x % c
  <1>1. d \in Int /\ r \in 0 .. c - 1 /\ x = d * c + r
    OBVIOUS
  <1> HIDE DEF d, r
  <1>2. d >= 0
    <2>1. SUFFICES ASSUME d <= -1  PROVE FALSE
      BY <1>1
    <2>2. d * c <= (-1) * c
      BY <1>1, <2>1
    <2> QED  BY <1>1, <2>2
  <1>3. d <= a
    <2>1. SUFFICES ASSUME d >= a + 1  PROVE FALSE
      BY <1>1
    <2>2. (a + 1) * c <= d * c /\ (a + 1) * c = a * c + c
      BY <1>1, <1>2, <2>1, ProductGrows
    <2>3. d * c \in Nat /\ a * c \in Nat
      BY <1>1, <1>2
    <2> QED  BY <1>1, <2>2, <2>3
  <1>4. a <= d
    <2>1. SUFFICES ASSUME a >= d + 1  PROVE FALSE
      BY <1>1
    <2>2. (d + 1) * c <= a * c /\ (d + 1) * c = d * c + c
      BY <1>1, <1>2, <2>1, ProductGrows
    <2>3. d * c \in Nat /\ a * c \in Nat
      BY <1>1, <1>2
    <2> QED  BY <1>1, <2>2, <2>3
  <1>5. d = a
    BY <1>1, <1>3, <1>4
  <1>6. a * c \in Nat
    OBVIOUS
  <1>7. r = x - a * c
    BY <1>1, <1>5, <1>6
  <1> QED  BY <1>5, <1>7 DEF d, r

\* A number below n multiples of c: which of them it follows, and how far.
LEMMA DivisionBounds ==
  ASSUME NEW n \in Nat, NEW c \in Nat \ {0}, NEW x \in Nat, x < n * c
  PROVE  /\ x \div c \in 0 .. n - 1
         /\ (x \div c) * c \in Nat
         /\ x - (x \div c) * c \in 0 .. c - 1
  <1> DEFINE d == x \div c
             r == x % c
  <1>1. d \in Int /\ r \in 0 .. c - 1 /\ x = d * c + r
    OBVIOUS
  <1> HIDE DEF d, r
  <1>2. d >= 0
    <2>1. SUFFICES ASSUME d <= -1  PROVE FALSE
      BY <1>1
    <2>2. d * c <= (-1) * c
      BY <1>1, <2>1
    <2> QED  BY <1>1, <2>2
  <1>3. d * c \in Nat /\ n * c \in Nat
    BY <1>1, <1>2
  <1>4. d < n
    <2>1. SUFFICES ASSUME n <= d  PROVE FALSE
      BY <1>1
    <2>2. n * c <= d * c
      BY <1>1, <1>2, <2>1, ProductGrows
    <2> QED  BY <1>1, <1>3, <2>2
  <1>5. x - d * c = r
    BY <1>1, <1>3
  <1>6. d \in 0 .. n - 1
    BY <1>1, <1>2, <1>4
  <1> QED  BY <1>1, <1>3, <1>5, <1>6 DEF d

\* A bound on a quotient from one on the dividend.
LEMMA QuotientBound ==
  ASSUME NEW a \in Nat, NEW c \in Nat \ {0}, NEW q \in Nat, a < (q + 1) * c
  PROVE  a \div c \in 0 .. q
  <1> DEFINE d == a \div c
             r == a % c
  <1>1. d \in Int /\ r \in 0 .. c - 1 /\ a = c * d + r
    OBVIOUS
  <1> HIDE DEF d, r
  <1>2. d >= 0
    <2>1. SUFFICES ASSUME d <= -1  PROVE FALSE
      BY <1>1
    <2>2. c * d <= c * (-1)
      BY <1>1, <2>1
    <2> QED  BY <1>1, <2>2
  <1>3. d <= q
    <2>1. SUFFICES ASSUME d >= q + 1  PROVE FALSE
      BY <1>1
    <2>2. c * d >= c * (q + 1)
      BY <1>1, <2>1
    <2>3. c * (q + 1) = (q + 1) * c
      OBVIOUS
    <2>4. a >= (q + 1) * c
      BY <1>1, <2>2, <2>3
    <2> QED  BY <2>4
  <1> QED  BY <1>1, <1>2, <1>3 DEF d

\* A remainder is no larger than what it is the remainder of.
LEMMA RemainderBound ==
  ASSUME NEW a \in Nat, NEW c \in Nat \ {0}
  PROVE  (a % c) \in Nat /\ (a % c) <= a
  <1> DEFINE d == a \div c
             r == a % c
  <1>1. d \in Int /\ r \in 0 .. c - 1 /\ a = c * d + r
    OBVIOUS
  <1> HIDE DEF d, r
  <1>2. d >= 0
    <2>1. SUFFICES ASSUME d <= -1  PROVE FALSE
      BY <1>1
    <2>2. c * d <= c * (-1)
      BY <1>1, <2>1
    <2> QED  BY <1>1, <2>2
  <1>3. c * d >= 0
    BY <1>1, <1>2
  <1>4. r \in Nat /\ r <= a
    BY <1>1, <1>3
  <1> QED  BY <1>4 DEF r

\* A power of two is the number of subsets of a set.
LEMMA PowerOfTwo ==
  ASSUME NEW k \in Nat
  PROVE  2 ^ k \in Nat \ {0}
  <1>1. IsFiniteSet(1 .. k) /\ Cardinality(1 .. k) = k
    BY FS_Interval
  <1>2. IsFiniteSet(SUBSET (1 .. k)) /\ Cardinality(SUBSET (1 .. k)) = 2 ^ k
    BY <1>1, FS_SUBSET
  <1> QED  BY <1>2, FS_CardinalityType, FS_EmptySet

\* Powers of two follow each other.
LEMMA NextPowerOfTwo ==
  ASSUME NEW k \in Nat
  PROVE  2 ^ (k + 1) = 2 * 2 ^ k /\ 2 ^ 0 = 1
  <1> DEFINE old == SUBSET (1 .. k)
             new == {s \cup {k + 1} : s \in old}
             f == [s \in old |-> s \cup {k + 1}]
  <1>1. \A i \in Nat : IsFiniteSet(SUBSET (1 .. i)) /\ Cardinality(SUBSET (1 .. i)) = 2 ^ i
    <2> SUFFICES ASSUME NEW i \in Nat
                 PROVE  IsFiniteSet(SUBSET (1 .. i)) /\ Cardinality(SUBSET (1 .. i)) = 2 ^ i
      OBVIOUS
    <2>1. IsFiniteSet(1 .. i) /\ Cardinality(1 .. i) = i
      BY FS_Interval
    <2> QED  BY <2>1, FS_SUBSET
  <1>2. SUBSET (1 .. k + 1) = old \cup new
    <2>1. ASSUME NEW s \in SUBSET (1 .. k + 1)
          PROVE  s \in old \cup new
      <3>1. CASE k + 1 \in s
        <4>1. s \ {k + 1} \in old /\ s = (s \ {k + 1}) \cup {k + 1}
          BY <3>1
        <4> QED  BY <4>1
      <3>2. CASE k + 1 \notin s
        BY <3>2
      <3> QED  BY <3>1, <3>2
    <2>2. 1 .. k \subseteq 1 .. k + 1 /\ k + 1 \in 1 .. k + 1
      OBVIOUS
    <2>3. old \subseteq SUBSET (1 .. k + 1) /\ new \subseteq SUBSET (1 .. k + 1)
      BY <2>2
    <2> QED  BY <2>1, <2>3
  <1>3. old \cap new = {}
    OBVIOUS
  <1>4. f \in Bijection(old, new)
    <2>1. f \in [old -> new] /\ \A t \in new : \E s \in old : f[s] = t
      OBVIOUS
    <2>2. ASSUME NEW s \in old, NEW t \in old, f[s] = f[t]
          PROVE  s = t
      <3>1. k + 1 \notin s /\ k + 1 \notin t
        OBVIOUS
      <3>2. s = f[s] \ {k + 1} /\ t = f[t] \ {k + 1}
        BY <3>1
      <3> QED  BY <2>2, <3>2
    <2> HIDE DEF f, old, new
    <2> QED  BY <2>1, <2>2 DEF Bijection, Injection, Surjection, IsInjective
  <1> HIDE DEF old, new, f
  <1>5. IsFiniteSet(old) /\ Cardinality(old) = 2 ^ k
    BY <1>1 DEF old
  <1>6. IsFiniteSet(new) /\ Cardinality(new) = 2 ^ k
    BY <1>4, <1>5, FS_Bijection DEF ExistsBijection
  <1>7. Cardinality(old \cup new)
          = Cardinality(old) + Cardinality(new) - Cardinality(old \cap new)
    BY <1>5, <1>6, FS_Union
  <1>8. Cardinality({}) = 0 /\ Cardinality(old) \in Nat
    BY <1>5, FS_EmptySet, FS_CardinalityType
  <1>9. 2 ^ (k + 1) = 2 * 2 ^ k
    <2>1. Cardinality(SUBSET (1 .. k + 1)) = 2 ^ (k + 1)
      <3>1. k + 1 \in Nat
        OBVIOUS
      <3> QED  BY <1>1, <3>1
    <2> DEFINE c == Cardinality(old)
    <2>2. c \in Nat /\ Cardinality(new) = c /\ Cardinality(old \cup new) = c + c - 0
      BY <1>3, <1>5, <1>6, <1>7, <1>8
    <2>3. 2 ^ (k + 1) = c + c /\ c = 2 ^ k
      <3>1. c + c - 0 = c + c
        BY <2>2
      <3>2. Cardinality(SUBSET (1 .. k + 1)) = Cardinality(old \cup new)
        BY <1>2
      <3> QED  BY <1>5, <2>1, <2>2, <3>1, <3>2
    <2> HIDE DEF c
    <2>4. c + c = 2 * c
      BY <2>2
    <2> QED  BY <2>3, <2>4
  <1>10. 2 ^ 0 = 1
    <2>1. SUBSET (1 .. 0) = {{}}
      OBVIOUS
    <2>2. Cardinality({{}}) = 1 /\ 0 \in Nat
      BY FS_Singleton
    <2> QED  BY <1>1, <2>1, <2>2
  <1> QED  BY <1>9, <1>10

-----------------------------------------------------------------------------
\* Induction over the natural numbers, with a set in place of a predicate.
LEMMA NumberInduction ==
  ASSUME NEW G, 0 \in G, \A i \in Nat : i \in G => i + 1 \in G
  PROVE  \A i \in Nat : i \in G
  <1> DEFINE bad == Nat \ G
             R == {p \in Nat \X Nat : p[1] < p[2]}
  <1>1. SUFFICES ASSUME bad # {}  PROVE FALSE
    OBVIOUS
  <1>2. IsWellFoundedOn(R, Nat)
    BY NatLessThanWellFounded DEF OpToRel
  <1>3. PICK i \in bad : \A j \in bad : <<j, i>> \notin R
    <2> HIDE DEF R
    <2> QED  BY <1>1, <1>2, WFMin
  <1>4. i \in Nat /\ i \notin G /\ i # 0
    BY <1>3
  <1>5. i - 1 \in Nat /\ <<i - 1, i>> \in R /\ (i - 1) + 1 = i
    BY <1>4
  <1>6. i - 1 \in G
    BY <1>3, <1>5
  <1> QED  BY <1>4, <1>5, <1>6

\* The body of a loop over n places: a function of the state of the loop and of
\* the place it is at.
IsBody(step, T, n) == \A s \in T : \A i \in 1 .. n : step[<<s, i>>] \in T

\* h is the state after every place.
IsRun(h, base, n, step) ==
  h[0] = base /\ \A i \in 1 .. n : h[i] = step[<<h[i - 1], i>>]

\* A loop has a state after every place.
LEMMA LoopStates ==
  ASSUME NEW T, NEW base \in T, NEW n \in Nat, NEW step, IsBody(step, T, n)
  PROVE  \E h \in [0 .. n -> T] : IsRun(h, base, n, step)
  <1> USE DEF IsBody, IsRun
  <1> DEFINE G == {k \in Nat : k <= n => \E h \in [0 .. k -> T] :
                     h[0] = base /\ \A i \in 1 .. k : h[i] = step[<<h[i - 1], i>>]}
  <1>1. 0 \in G
    <2> DEFINE h == [i \in 0 .. 0 |-> base]
    <2>1. h \in [0 .. 0 -> T] /\ h[0] = base /\ \A i \in 1 .. 0 : h[i] = step[<<h[i - 1], i>>]
      OBVIOUS
    <2> QED  BY <2>1
  <1>2. ASSUME NEW k \in Nat, k \in G
        PROVE  k + 1 \in G
    <2> SUFFICES ASSUME k + 1 <= n
                 PROVE  \E h \in [0 .. k + 1 -> T] :
                          h[0] = base /\ \A i \in 1 .. k + 1 : h[i] = step[<<h[i - 1], i>>]
      OBVIOUS
    <2>1. PICK h \in [0 .. k -> T] :
            h[0] = base /\ \A i \in 1 .. k : h[i] = step[<<h[i - 1], i>>]
      BY <1>2
    <2> DEFINE g == [i \in 0 .. k + 1 |-> IF i = k + 1 THEN step[<<h[k], k + 1>>] ELSE h[i]]
    <2>2. step[<<h[k], k + 1>>] \in T
      BY <2>1
    <2>3. g \in [0 .. k + 1 -> T]
      BY <2>1, <2>2
    <2>4. \A i \in 0 .. k : g[i] = h[i]
      OBVIOUS
    <2>5. g[k + 1] = step[<<h[k], k + 1>>]
      OBVIOUS
    <2> HIDE DEF g
    <2>6. ASSUME NEW i \in 1 .. k + 1
          PROVE  g[i] = step[<<g[i - 1], i>>]
      <3>1. CASE i = k + 1
        BY <2>4, <2>5, <3>1
      <3>2. CASE i \in 1 .. k
        BY <2>1, <2>4, <3>2
      <3> QED  BY <3>1, <3>2
    <2> QED  BY <2>1, <2>3, <2>4, <2>6
  <1>3. n \in G
    <2> HIDE DEF G
    <2> QED  BY <1>1, <1>2, NumberInduction
  <1> QED  BY <1>3

=============================================================================
