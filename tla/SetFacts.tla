------------------------------ MODULE SetFacts ------------------------------
(***************************************************************************)
(* Finite sets of numbers and sums over finite sets: the facts that the      *)
(* proofs of several modules need.                                           *)
(***************************************************************************)
EXTENDS FiniteSetsExt, FiniteSetTheorems, FunctionTheorems, WellFoundedInduction, TLAPS

\* A family of subsets of a finite set has a member that is not in it any more
\* without any one of its elements.
LEMMA SubsetMin ==
  ASSUME NEW S, IsFiniteSet(S), NEW B \in SUBSET (SUBSET S), B # {}
  PROVE  \E T \in B : \A x \in T : T \ {x} \notin B
<1> DEFINE R == StrictSubsetOrdering(S)
<1>1. IsWellFoundedOn(R, FiniteSubsetsOf(S))
  BY FS_StrictSubsetOrderingWellFounded
<1>2. B \subseteq FiniteSubsetsOf(S)
  BY FS_Subset DEF FiniteSubsetsOf
<1> HIDE DEF R
<1>3. PICK T \in B : \A U \in B : ~(<<U, T>> \in R)
  BY <1>1, <1>2, WFMin
<1>4. ASSUME NEW x \in T PROVE T \ {x} \notin B
  <2>1. T \ {x} \in SUBSET S /\ T \in SUBSET S
    BY <1>3
  <2>2. <<T \ {x}, T>> \in R
    BY <2>1 DEF R, StrictSubsetOrdering
  <2> QED
    BY <1>3, <2>2
<1> QED
  BY <1>3, <1>4

\* A family of subsets of a finite set that has the empty set and grows by any
\* element has the whole set.
LEMMA Grows ==
  ASSUME NEW S, IsFiniteSet(S), NEW G \in SUBSET (SUBSET S), {} \in G,
         \A T \in G : \A x \in S \ T : T \cup {x} \in G
  PROVE  S \in G
<1> DEFINE B == (SUBSET S) \ G
<1>1. ASSUME B # {} PROVE FALSE
  <2> HIDE DEF B
  <2>1. B \in SUBSET (SUBSET S)
    BY DEF B
  <2>2. PICK T \in B : \A x \in T : T \ {x} \notin B
    BY <1>1, <2>1, SubsetMin
  <2>3. T # {} /\ T \in SUBSET S /\ T \notin G
    BY <2>2 DEF B
  <2>4. PICK x \in T : TRUE
    BY <2>3
  <2>5. T \ {x} \in G /\ x \in S \ (T \ {x})
    BY <2>2, <2>3, <2>4 DEF B
  <2>6. (T \ {x}) \cup {x} \in G /\ (T \ {x}) \cup {x} = T
    BY <2>4, <2>5
  <2> QED
    BY <2>3, <2>6
<1> QED
  BY <1>1

\* A set of naturals with 0 and the successors of its elements has them all.
LEMMA NatGrows ==
  ASSUME NEW G \in SUBSET Nat, 0 \in G, \A n \in G : n + 1 \in G
  PROVE  \A n \in Nat : n \in G
<1> DEFINE B == Nat \ G
           R == OpToRel(<, Nat)
<1>1. ASSUME B # {} PROVE FALSE
  <2>1. IsWellFoundedOn(R, Nat) /\ B \subseteq Nat
    BY NatLessThanWellFounded
  <2> HIDE DEF B, R
  <2>2. PICK n \in B : \A k \in B : ~(<<k, n>> \in R)
    BY <1>1, <2>1, WFMin
  <2>3. n \in Nat /\ n # 0
    BY <2>2 DEF B
  <2>4. n - 1 \in Nat /\ <<n - 1, n>> \in R
    BY <2>3 DEF R, OpToRel
  <2>5. n - 1 \in G
    BY <2>2, <2>4 DEF B
  <2>6. (n - 1) + 1 \in G /\ (n - 1) + 1 = n
    BY <2>3, <2>5
  <2> QED
    BY <2>2, <2>6 DEF B
<1> QED
  BY <1>1

\* A finite set of naturals has a largest element.
LEMMA MaxIs ==
  ASSUME NEW S \in SUBSET Nat, IsFiniteSet(S), S # {}
  PROVE  Max(S) \in S /\ \A y \in S : y <= Max(S)
<1> DEFINE G == {T \in SUBSET S : T = {} \/ \E x \in T : \A y \in T : x >= y}
<1>1. ASSUME NEW T \in G, NEW z \in S \ T PROVE T \cup {z} \in G
  <2>1. CASE T = {}
    BY <2>1
  <2>2. CASE T # {}
    <3>1. PICK x \in T : \A y \in T : x >= y
      BY <2>2
    <3>2. CASE x >= z
      BY <3>1, <3>2
    <3>3. CASE z >= x
      <4>1. \A y \in T \cup {z} : z >= y
        BY <3>1, <3>3
      <4> QED
        BY <4>1
    <3> QED
      BY <3>1, <3>2, <3>3
  <2> QED
    BY <2>1, <2>2
<1>2. S \in G
  <2> HIDE DEF G
  <2>1. G \in SUBSET (SUBSET S) /\ {} \in G
    BY DEF G
  <2> QED
    BY <1>1, <2>1, Grows
<1>3. \E x \in S : \A y \in S : x >= y
  BY <1>2
<1> QED
  BY <1>3 DEF Max

\* A set of naturals has a smallest element.
LEMMA MinIs ==
  ASSUME NEW S \in SUBSET Nat, S # {}
  PROVE  Min(S) \in S /\ \A y \in S : Min(S) <= y
<1> DEFINE R == OpToRel(<, Nat)
<1>1. IsWellFoundedOn(R, Nat) /\ S \subseteq Nat
  BY NatLessThanWellFounded
<1> HIDE DEF R
<1>2. PICK x \in S : \A y \in S : ~(<<y, x>> \in R)
  BY <1>1, WFMin
<1>3. ASSUME NEW y \in S, y < x PROVE FALSE
  BY <1>2, <1>3, <1>1 DEF R, OpToRel
<1>4. \A y \in S : x <= y
  BY <1>1, <1>3
<1> QED
  BY <1>4 DEF Min

\* The lesser of two integers.
LEMMA MinOfTwo ==
  ASSUME NEW a \in Int, NEW b \in Int
  PROVE  Min({a, b}) = IF a <= b THEN a ELSE b
<1>1. \E x \in {a, b} : \A y \in {a, b} : x <= y
  <2>1. CASE a <= b
    BY <2>1
  <2>2. CASE b <= a
    BY <2>2
  <2> QED
    BY <2>1, <2>2
<1>2. Min({a, b}) \in {a, b} /\ \A y \in {a, b} : Min({a, b}) <= y
  BY <1>1 DEF Min
<1> QED
  BY <1>2

\* The larger of two integers.
LEMMA MaxOfTwo ==
  ASSUME NEW a \in Int, NEW b \in Int
  PROVE  Max({a, b}) = IF a >= b THEN a ELSE b
<1>1. \E x \in {a, b} : \A y \in {a, b} : x >= y
  <2>1. CASE a >= b
    BY <2>1
  <2>2. CASE b >= a
    BY <2>2
  <2> QED
    BY <2>1, <2>2
<1>2. Max({a, b}) \in {a, b} /\ \A y \in {a, b} : Max({a, b}) >= y
  BY <1>1 DEF Max
<1> QED
  BY <1>2

\* Any element of a set, as the folds choose it, and the sums of a function
\* over the subsets of a set, as the folds define them.
Elt(s) == CHOOSE x \in s : TRUE
Sums(h, m, S) ==
    /\ h = [s \in SUBSET S |-> h[s]] /\ h[{}] = 0
    /\ \A s \in SUBSET S : s # {} => h[s] = m[Elt(s)] + h[s \ {Elt(s)}]
Sum(m, S) == MapThenSumSet(LAMBDA x : m[x], S)

LEMMA EltOf == \A s : s # {} => Elt(s) \in s
  BY DEF Elt

\* Sums of functions that agree where they are summed are the same.
LEMMA SumsUnique ==
  ASSUME NEW S, NEW T \in SUBSET S, IsFiniteSet(S),
         NEW m, NEW n, \A x \in T : m[x] = n[x],
         NEW g, NEW h, Sums(g, m, T), Sums(h, n, S), NEW t \in SUBSET T
  PROVE  g[t] = h[t]
<1> DEFINE B == {s \in SUBSET T : g[s] # h[s]}
<1>1. ASSUME B # {} PROVE FALSE
  <2>1. IsFiniteSet(T) /\ B \in SUBSET (SUBSET T)
    BY FS_Subset
  <2> HIDE DEF B
  <2>2. PICK s \in B : \A x \in s : s \ {x} \notin B
    BY <1>1, <2>1, SubsetMin
  <2>3. s \in SUBSET T /\ s \in SUBSET S /\ g[s] # h[s]
    BY <2>2 DEF B
  <2>4. s # {}
    BY <2>3 DEF Sums
  <2> DEFINE x == Elt(s)
  <2>5. x \in s /\ g[s] = m[x] + g[s \ {x}]
    BY <2>3, <2>4, EltOf DEF Sums
  <2>6. h[s] = n[x] + h[s \ {x}]
    BY <2>3, <2>4 DEF Sums
  <2> HIDE DEF x
  <2>7. g[s \ {x}] = h[s \ {x}] /\ m[x] = n[x]
    BY <2>2, <2>3, <2>5 DEF B
  <2> QED
    BY <2>3, <2>5, <2>6, <2>7
<1> QED
  BY <1>1

\* A set of numbers that has 0 and the sums of its elements has those of families.
LEMMA SumsWithin ==
  ASSUME NEW S, IsFiniteSet(S), NEW m, NEW N, 0 \in N, \A i, j \in N : i + j \in N,
         \A x \in S : m[x] \in N
  PROVE  \E h \in [SUBSET S -> N] : Sums(h, m, S)
<1> DEFINE Upto(n) == {s \in SUBSET S : Cardinality(s) <= n}
           Good(h, n) == \A s \in Upto(n) :
               h[s] = IF s = {} THEN 0 ELSE m[Elt(s)] + h[s \ {Elt(s)}]
           G == {n \in Nat : \E h \in [Upto(n) -> N] : Good(h, n)}
<1>1. \A s \in SUBSET S : IsFiniteSet(s) /\ Cardinality(s) \in Nat
  BY FS_Subset, FS_CardinalityType
<1>2. \A s \in SUBSET S : (Cardinality(s) = 0 <=> s = {})
  BY <1>1, FS_EmptySet
<1>3. \A s \in SUBSET S : s # {} => /\ Elt(s) \in s /\ s \ {Elt(s)} \in SUBSET S
                                    /\ Cardinality(s \ {Elt(s)}) = Cardinality(s) - 1
  BY <1>1, EltOf, FS_RemoveElement
<1>4. 0 \in G
  <2> DEFINE h == [s \in Upto(0) |-> 0]
  <2>1. \A s \in Upto(0) : s = {}
    BY <1>1, <1>2
  <2>2. h \in [Upto(0) -> N] /\ Good(h, 0)
    BY <2>1
  <2> QED
    BY <2>2
<1>5. ASSUME NEW n \in G PROVE n + 1 \in G
  <2>1. PICK h \in [Upto(n) -> N] : Good(h, n)
    BY <1>5
  <2> DEFINE k == [s \in Upto(n + 1) |->
                     IF s \in Upto(n) THEN h[s] ELSE m[Elt(s)] + h[s \ {Elt(s)}]]
  <2>2. ASSUME NEW s \in Upto(n + 1), s # {}
        PROVE  Elt(s) \in S /\ s \ {Elt(s)} \in Upto(n) /\ s \ {Elt(s)} \in Upto(n + 1)
    <3>1. Cardinality(s \ {Elt(s)}) = Cardinality(s) - 1 /\ Cardinality(s) \in Nat
          /\ n \in Nat /\ Cardinality(s) <= n + 1
      BY <1>1, <1>3, <1>5, <2>2
    <3> QED
      BY <1>3, <2>2, <3>1
  <2>3. \A s \in Upto(n + 1) : s \notin Upto(n) => s # {}
    BY <1>2, <1>5
  <2>4. k \in [Upto(n + 1) -> N]
    <3>1. ASSUME NEW s \in Upto(n + 1) PROVE k[s] \in N
      BY <2>1, <2>2, <2>3
    <3> QED
      BY <3>1
  <2>5. ASSUME NEW s \in Upto(n + 1)
        PROVE  k[s] = IF s = {} THEN 0 ELSE m[Elt(s)] + k[s \ {Elt(s)}]
    <3>1. CASE s \in Upto(n)
      <4>1. h[s] = IF s = {} THEN 0 ELSE m[Elt(s)] + h[s \ {Elt(s)}]
        BY <2>1, <3>1
      <4> QED
        BY <2>2, <3>1, <4>1
    <3>2. CASE s \notin Upto(n)
      BY <2>2, <2>3, <3>2
    <3> QED
      BY <3>1, <3>2
  <2>6. Good(k, n + 1)
    BY <2>5
  <2> HIDE DEF k, Upto, Good
  <2>7. n + 1 \in Nat
    BY <1>5
  <2> QED
    BY <2>4, <2>6, <2>7
<1>6. Cardinality(S) \in G
  <2> HIDE DEF G
  <2>1. G \in SUBSET Nat
    BY DEF G
  <2>2. \A n \in Nat : n \in G
    BY <1>4, <1>5, <2>1, NatGrows
  <2> QED
    BY <1>1, <2>2
<1>7. PICK h \in [Upto(Cardinality(S)) -> N] : Good(h, Cardinality(S))
  BY <1>6
<1>8. Upto(Cardinality(S)) = SUBSET S
  BY FS_Subset
<1>9. h \in [SUBSET S -> N]
  BY <1>7, <1>8
<1>10. h = [s \in SUBSET S |-> IF s = {} THEN 0 ELSE m[Elt(s)] + h[s \ {Elt(s)}]]
  BY <1>7, <1>8, <1>9
<1> QED
  BY <1>9, <1>10 DEF Sums

\* Naturals have natural sums, integers have integer sums.
LEMMA SumsExist ==
  ASSUME NEW S, IsFiniteSet(S), NEW m, \A x \in S : m[x] \in Nat
  PROVE  \E h \in [SUBSET S -> Nat] : Sums(h, m, S)
<1>1. 0 \in Nat /\ \A i, j \in Nat : i + j \in Nat
  OBVIOUS
<1> QED
  BY <1>1, SumsWithin

LEMMA IntSums ==
  ASSUME NEW S, IsFiniteSet(S), NEW m, \A x \in S : m[x] \in Int
  PROVE  \E h \in [SUBSET S -> Int] : Sums(h, m, S)
<1>1. 0 \in Int /\ \A i, j \in Int : i + j \in Int
  OBVIOUS
<1> QED
  BY <1>1, SumsWithin

\* A fold is the sum it defines.
LEMMA SumIs ==
  ASSUME NEW S, IsFiniteSet(S), NEW m, NEW h, Sums(h, m, S)
  PROVE  Sum(m, S) = h[S]
<1>1. h = [s \in SUBSET S |-> IF s = {} THEN 0 ELSE m[Elt(s)] + h[s \ {Elt(s)}]]
  <2>1. ASSUME NEW s \in SUBSET S
        PROVE  h[s] = IF s = {} THEN 0 ELSE m[Elt(s)] + h[s \ {Elt(s)}]
    BY <2>1 DEF Sums
  <2> QED
    BY <2>1 DEF Sums
<1>2. ASSUME NEW g,
             g = [s \in SUBSET S |-> IF s = {} THEN 0 ELSE m[Elt(s)] + g[s \ {Elt(s)}]]
      PROVE  g[S] = h[S]
  <2>1. Sums(g, m, S)
    BY <1>2 DEF Sums
  <2> HIDE DEF Sums
  <2> QED
    BY <2>1, SumsUnique
<1> QED
  BY <1>1, <1>2 DEF Sum, MapThenSumSet, MapThenFoldSet, Elt

\* The sums over all subsets of a set are one function.
LEMMA SumAt ==
  ASSUME NEW S, IsFiniteSet(S), NEW m, \A x \in S : m[x] \in Int,
         NEW h, Sums(h, m, S), NEW T \in SUBSET S
  PROVE  Sum(m, T) = h[T]
<1>1. IsFiniteSet(T) /\ \A x \in T : m[x] \in Int
  BY FS_Subset
<1>2. PICK g \in [SUBSET T -> Int] : Sums(g, m, T)
  BY <1>1, IntSums
<1>3. Sum(m, T) = g[T]
  BY <1>1, <1>2, SumIs
<1>4. T \in SUBSET T /\ \A x \in T : m[x] = m[x]
  OBVIOUS
<1>5. g[T] = h[T]
  BY <1>2, <1>4, SumsUnique
<1> QED
  BY <1>3, <1>5

LEMMA SumNat ==
  ASSUME NEW S, IsFiniteSet(S), NEW m, \A x \in S : m[x] \in Nat
  PROVE  Sum(m, S) \in Nat
<1>1. PICK h \in [SUBSET S -> Nat] : Sums(h, m, S)
  BY SumsExist
<1> QED
  BY <1>1, SumIs

LEMMA SumInt ==
  ASSUME NEW S, IsFiniteSet(S), NEW m, \A x \in S : m[x] \in Int
  PROVE  Sum(m, S) \in Int
<1>1. PICK h \in [SUBSET S -> Int] : Sums(h, m, S)
  BY IntSums
<1> QED
  BY <1>1, SumIs

LEMMA SumEmpty ==
  ASSUME NEW m PROVE Sum(m, {}) = 0
<1>1. IsFiniteSet({}) /\ \A x \in {} : m[x] \in Int
  BY FS_EmptySet
<1>2. PICK h \in [SUBSET {} -> Int] : Sums(h, m, {})
  BY <1>1, IntSums
<1> QED
  BY <1>1, <1>2, SumIs DEF Sums

\* Functions that agree on a set have the same sum over it.
LEMMA SumSame ==
  ASSUME NEW S, IsFiniteSet(S), NEW m, \A x \in S : m[x] \in Int,
         NEW n, \A x \in S : m[x] = n[x]
  PROVE  Sum(m, S) = Sum(n, S)
<1>1. PICK h \in [SUBSET S -> Int] : Sums(h, m, S)
  BY IntSums
<1>2. \A x \in S : n[x] \in Int
  OBVIOUS
<1>3. PICK g \in [SUBSET S -> Int] : Sums(g, n, S)
  BY <1>2, IntSums
<1>4. S \in SUBSET S
  OBVIOUS
<1>5. h[S] = g[S]
  BY <1>1, <1>3, <1>4, SumsUnique
<1> QED
  BY <1>1, <1>3, <1>5, SumIs

\* The order of the summands does not matter.
LEMMA SumLess ==
  ASSUME NEW S, IsFiniteSet(S), NEW m, \A x \in S : m[x] \in Int, NEW x \in S
  PROVE  Sum(m, S) = m[x] + Sum(m, S \ {x})
<1>1. PICK h \in [SUBSET S -> Int] : Sums(h, m, S)
  BY IntSums
<1> DEFINE B == {T \in SUBSET S : \E y \in T : h[T] # m[y] + h[T \ {y}]}
<1>2. ASSUME B # {} PROVE FALSE
  <2>1. B \in SUBSET (SUBSET S)
    OBVIOUS
  <2> HIDE DEF B
  <2>2. PICK T \in B : \A y \in T : T \ {y} \notin B
    BY <1>2, <2>1, SubsetMin
  <2>3. T \in SUBSET S
    BY <2>2 DEF B
  <2>4. PICK y \in T : h[T] # m[y] + h[T \ {y}]
    BY <2>2 DEF B
  <2> DEFINE z == Elt(T)
  <2>5. z \in T /\ h[T] = m[z] + h[T \ {z}]
    BY <1>1, <2>3, <2>4, EltOf DEF Sums
  <2> HIDE DEF z
  <2>6. y # z
    BY <2>4, <2>5
  <2>7. h[T \ {z}] = m[y] + h[(T \ {z}) \ {y}]
    BY <2>2, <2>3, <2>4, <2>5, <2>6 DEF B
  <2>8. h[T \ {y}] = m[z] + h[(T \ {y}) \ {z}]
    BY <2>2, <2>3, <2>4, <2>5, <2>6 DEF B
  <2>9. (T \ {y}) \ {z} = (T \ {z}) \ {y} /\ (T \ {z}) \ {y} \in SUBSET S
    BY <2>3
  <2>10. m[y] \in Int /\ m[z] \in Int /\ h[(T \ {z}) \ {y}] \in Int
    BY <1>1, <2>3, <2>4, <2>5, <2>9
  <2>11. h[T] = m[z] + (m[y] + h[(T \ {z}) \ {y}])
    BY <2>5, <2>7
  <2>12. h[T \ {y}] = m[z] + h[(T \ {z}) \ {y}]
    BY <2>8, <2>9
  <2>13. \A i, j, k \in Int : i + (j + k) = j + (i + k)
    OBVIOUS
  <2>14. m[z] + (m[y] + h[(T \ {z}) \ {y}]) = m[y] + (m[z] + h[(T \ {z}) \ {y}])
    BY <2>10, <2>13
  <2> QED
    BY <2>4, <2>11, <2>12, <2>14
<1>3. S \in SUBSET S /\ S \ {x} \in SUBSET S
  OBVIOUS
<1>4. h[S] = m[x] + h[S \ {x}]
  BY <1>2, <1>3
<1>5. Sum(m, S) = h[S]
  BY <1>1, <1>3, SumAt
<1>6. Sum(m, S \ {x}) = h[S \ {x}]
  BY <1>1, <1>3, SumAt
<1> QED
  BY <1>4, <1>5, <1>6

LEMMA SumAdd ==
  ASSUME NEW S, IsFiniteSet(S), NEW x, x \notin S,
         NEW m, \A y \in S \cup {x} : m[y] \in Int
  PROVE  Sum(m, S \cup {x}) = m[x] + Sum(m, S)
<1>1. IsFiniteSet(S \cup {x}) /\ x \in S \cup {x} /\ (S \cup {x}) \ {x} = S
  BY FS_AddElement
<1> QED
  BY <1>1, SumLess

\* The sum over two sets that share nothing.
LEMMA SumUnion ==
  ASSUME NEW S, IsFiniteSet(S), NEW T, IsFiniteSet(T), S \cap T = {},
         NEW m, \A x \in S \cup T : m[x] \in Int
  PROVE  Sum(m, S \cup T) = Sum(m, S) + Sum(m, T)
<1> DEFINE G == {A \in SUBSET S : Sum(m, A \cup T) = Sum(m, A) + Sum(m, T)}
<1>1. Sum(m, T) \in Int
  BY SumInt
<1>2. {} \in G
  <2>1. Sum(m, {}) = 0 /\ {} \cup T = T
    BY SumEmpty
  <2> QED
    BY <1>1, <2>1
<1>3. ASSUME NEW A \in G, NEW x \in S \ A PROVE A \cup {x} \in G
  <2>1. IsFiniteSet(A) /\ IsFiniteSet(A \cup T) /\ x \notin A \cup T
    BY <1>3, FS_Subset, FS_Union
  <2>2. /\ \A y \in A \cup {x} : m[y] \in Int
        /\ \A y \in (A \cup T) \cup {x} : m[y] \in Int
    BY <1>3
  <2>3. Sum(m, A \cup {x}) = m[x] + Sum(m, A)
    BY <1>3, <2>1, <2>2, SumAdd
  <2>4. Sum(m, (A \cup T) \cup {x}) = m[x] + Sum(m, A \cup T)
    BY <2>1, <2>2, SumAdd
  <2>5. (A \cup T) \cup {x} = (A \cup {x}) \cup T
    OBVIOUS
  <2>6. Sum(m, A) \in Int /\ m[x] \in Int /\ Sum(m, A \cup T) = Sum(m, A) + Sum(m, T)
    BY <1>3, <2>1, <2>2, SumInt
  <2>7. m[x] + (Sum(m, A) + Sum(m, T)) = (m[x] + Sum(m, A)) + Sum(m, T)
    BY <1>1, <2>6
  <2>8. Sum(m, (A \cup {x}) \cup T) = Sum(m, A \cup {x}) + Sum(m, T)
    BY <2>3, <2>4, <2>5, <2>6, <2>7
  <2> QED
    BY <1>3, <2>8
<1>4. S \in G
  <2> HIDE DEF G
  <2>1. G \in SUBSET (SUBSET S)
    BY DEF G
  <2> QED
    BY <1>2, <1>3, <2>1, Grows
<1> QED
  BY <1>4

\* A sum is between the sums of its bounds.
LEMMA SumBetween ==
  ASSUME NEW S, IsFiniteSet(S), NEW m, NEW n, NEW k,
         \A x \in S : m[x] \in Int /\ n[x] \in Int /\ k[x] \in Int,
         \A x \in S : -n[x] <= m[x] /\ m[x] <= k[x]
  PROVE  -Sum(n, S) <= Sum(m, S) /\ Sum(m, S) <= Sum(k, S)
<1> DEFINE G == {A \in SUBSET S : -Sum(n, A) <= Sum(m, A) /\ Sum(m, A) <= Sum(k, A)}
<1>1. {} \in G
  <2>1. Sum(m, {}) = 0 /\ Sum(n, {}) = 0 /\ Sum(k, {}) = 0
    BY SumEmpty
  <2> QED
    BY <2>1
<1>2. ASSUME NEW A \in G, NEW x \in S \ A PROVE A \cup {x} \in G
  <2>1. IsFiniteSet(A) /\ x \notin A
    BY <1>2, FS_Subset
  <2>2. \A y \in A \cup {x} : m[y] \in Int /\ n[y] \in Int /\ k[y] \in Int
    BY <1>2
  <2>3. Sum(m, A \cup {x}) = m[x] + Sum(m, A) /\ Sum(m, A) \in Int
    BY <2>1, <2>2, SumAdd, SumInt
  <2>4. Sum(n, A \cup {x}) = n[x] + Sum(n, A) /\ Sum(n, A) \in Int
    BY <2>1, <2>2, SumAdd, SumInt
  <2>5. Sum(k, A \cup {x}) = k[x] + Sum(k, A) /\ Sum(k, A) \in Int
    BY <2>1, <2>2, SumAdd, SumInt
  <2>6. -Sum(n, A) <= Sum(m, A) /\ Sum(m, A) <= Sum(k, A) /\ A \in SUBSET S
    BY <1>2
  <2>7. -n[x] <= m[x] /\ m[x] <= k[x] /\ m[x] \in Int /\ n[x] \in Int /\ k[x] \in Int
    BY <1>2
  <2> HIDE DEF Sum
  <2>8. -Sum(n, A \cup {x}) <= Sum(m, A \cup {x}) /\ Sum(m, A \cup {x}) <= Sum(k, A \cup {x})
    BY <2>3, <2>4, <2>5, <2>6, <2>7
  <2> QED
    BY <1>2, <2>6, <2>8
<1>3. S \in G
  <2> HIDE DEF G
  <2>1. G \in SUBSET (SUBSET S)
    BY DEF G
  <2> QED
    BY <1>1, <1>2, <2>1, Grows
<1> QED
  BY <1>3

\* Naturals over fewer elements add up to no more.
LEMMA SumFewer ==
  ASSUME NEW S, IsFiniteSet(S), NEW m, \A x \in S : m[x] \in Nat, NEW T \in SUBSET S
  PROVE  Sum(m, T) <= Sum(m, S)
<1> DEFINE U == S \ T
<1>1. IsFiniteSet(T) /\ IsFiniteSet(U) /\ T \cap U = {} /\ T \cup U = S
  BY FS_Subset
<1>2. Sum(m, T) \in Nat /\ Sum(m, U) \in Nat
  BY <1>1, SumNat
<1>3. \A x \in T \cup U : m[x] \in Int
  OBVIOUS
<1> HIDE DEF U
<1>4. Sum(m, T \cup U) = Sum(m, T) + Sum(m, U)
  BY <1>1, <1>3, SumUnion
<1>5. Sum(m, T \cup U) = Sum(m, S)
  BY <1>1
<1> QED
  BY <1>2, <1>4, <1>5
=============================================================================
