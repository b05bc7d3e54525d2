----------------------------- MODULE SumsProofs -----------------------------
(***************************************************************************)
(* What is true of sums. They are folds, recursive functions on the        *)
(* subsets of a set, so the lemmas begin with the fact that there is such  *)
(* a function, one size of subsets after another. Instead of by induction, *)
(* which no prover here can use, facts are proved by contradiction: if one *)
(* fails for some subset, it fails for a smallest one (SmallestSet), whose *)
(* subsets without one member are in order.                                *)
(***************************************************************************)
EXTENDS Sums, FiniteSetTheorems, WellFoundedInduction, TLAPS

(* A set of naturals has a least member.                                   *)
LEMMA LeastNatural ==
  ASSUME NEW S, S \subseteq Nat, S # {}
  PROVE  \E s \in S : \A t \in S : s <= t
<1>1. PICK s \in S : \A t \in S : ~ <<t, s>> \in OpToRel(<, Nat)
  BY NatLessThanWellFounded, WFMin
<1>2. \A t \in S : ~ (t < s)
  BY <1>1 DEF OpToRel
<1>. QED
  BY <1>2

(* The member of a set that is added first.                                *)
First(T) == CHOOSE x \in T : TRUE

(* g adds up f on the sets of D.                                           *)
Adds(g, f, D) ==
  g = [T \in D |-> IF T = {} THEN 0 ELSE f[First(T)] + g[T \ {First(T)}]]

(* The subsets of S of at most n members.                                  *)
Small(S, n) == {T \in SUBSET S : Cardinality(T) <= n}

(* Without the first member a set has one less.                            *)
LEMMA SmallerStep ==
  ASSUME NEW S, IsFiniteSet(S), NEW T \in SUBSET S, T # {}
  PROVE  /\ First(T) \in T /\ Cardinality(T \ {First(T)}) = Cardinality(T) - 1
         /\ Cardinality(T) \in Nat \ {0} /\ IsFiniteSet(T)
<1>1. First(T) \in T
  BY DEF First
<1>2. IsFiniteSet(T)
  BY FS_Subset
<1>3. Cardinality(T) \in Nat /\ Cardinality(T) # 0
  BY <1>2, FS_CardinalityType, FS_EmptySet
<1>4. Cardinality(T \ {First(T)}) = Cardinality(T) - 1
  BY <1>1, <1>2, FS_RemoveElement
<1>. QED
  BY <1>1, <1>2, <1>3, <1>4

(* Every f can be added up on the subsets of a finite set.                 *)
LEMMA SumsExist ==
  ASSUME NEW f, NEW S, IsFiniteSet(S), NEW n \in Nat
  PROVE  \E g : Adds(g, f, Small(S, n))
<1>. DEFINE Bad == {k \in Nat : ~ \E g : Adds(g, f, Small(S, k))}
<1>. SUFFICES Bad = {}
  OBVIOUS
<1>. SUFFICES ASSUME Bad # {} PROVE FALSE
  OBVIOUS
<1>1. PICK k \in Bad : \A j \in Bad : k <= j
  BY LeastNatural
<1>2. CASE k = 0
  <2>1. Small(S, 0) = {{}}
    <3>1. ASSUME NEW T \in SUBSET S, T # {} PROVE ~ (Cardinality(T) <= 0)
      <4>1. Cardinality(T) \in Nat \ {0}
        BY <3>1, SmallerStep
      <4>. QED
        BY <4>1
    <3>2. Cardinality({}) = 0 /\ 0 <= 0
      BY FS_EmptySet
    <3>3. \A T \in SUBSET S : Cardinality(T) <= 0 <=> T = {}
      BY <3>1, <3>2
    <3>4. {} \in SUBSET S
      OBVIOUS
    <3>. QED
      BY <3>3, <3>4 DEF Small
  <2>2. Adds([T \in {{}} |-> 0], f, Small(S, 0))
    BY <2>1 DEF Adds
  <2>. QED
    BY <1>2, <2>2
<1>3. CASE k # 0
  <2>1. k - 1 \in Nat /\ k - 1 \notin Bad
    BY <1>1, <1>3
  <2>2. PICK g : Adds(g, f, Small(S, k - 1))
    BY <2>1
  <2>. DEFINE h == [T \in Small(S, k) |-> IF T = {} THEN 0 ELSE f[First(T)] + g[T \ {First(T)}]]
  <2>3. ASSUME NEW T \in Small(S, k), T # {}
        PROVE  /\ T \ {First(T)} \in Small(S, k - 1) /\ T \ {First(T)} \in Small(S, k)
               /\ h[T \ {First(T)}] = g[T \ {First(T)}]
    <3>1. T \ {First(T)} \in Small(S, k - 1)
      BY <2>3, SmallerStep DEF Small
    <3>2. T \ {First(T)} \in Small(S, k)
      <4>1. Cardinality(T \ {First(T)}) \in Int
        BY <2>3, SmallerStep DEF Small
      <4>. QED
        BY <3>1, <4>1 DEF Small
    <3>3. \A U \in Small(S, k - 1) : g[U] = IF U = {} THEN 0 ELSE f[First(U)] + g[U \ {First(U)}]
      BY <2>2 DEF Adds
    <3>. HIDE DEF Small
    <3>. QED
      BY <3>1, <3>2, <3>3
  <2>4. h = [T \in Small(S, k) |-> IF T = {} THEN 0 ELSE f[First(T)] + h[T \ {First(T)}]]
    <3>. HIDE DEF h
    <3>1. h = [T \in Small(S, k) |-> IF T = {} THEN 0 ELSE f[First(T)] + g[T \ {First(T)}]]
      BY DEF h
    <3>. QED
      BY <2>3, <3>1
  <2>5. Adds(h, f, Small(S, k))
    BY <2>4 DEF Adds
  <2>. QED
    BY <2>5
<1>. QED
  BY <1>2, <1>3

(* A property of the finite subsets of S that fails, fails for a smallest  *)
(* one of them.                                                            *)
LEMMA SmallestSet ==
  ASSUME NEW S, IsFiniteSet(S), NEW Bad, Bad \subseteq SUBSET S, Bad # {}
  PROVE  \E T \in Bad : \A x \in T : T \ {x} \notin Bad
<1>. DEFINE Sizes == {Cardinality(T) : T \in Bad}
<1>1. \A T \in Bad : IsFiniteSet(T) /\ Cardinality(T) \in Nat
  BY FS_Subset, FS_CardinalityType
<1>2. PICK n \in Sizes : \A k \in Sizes : n <= k
  <2>1. Sizes \subseteq Nat /\ Sizes # {}
    BY <1>1
  <2>. HIDE DEF Sizes
  <2>. QED
    BY <2>1, LeastNatural
<1>3. PICK T \in Bad : Cardinality(T) = n
  OBVIOUS
<1>4. ASSUME NEW x \in T, T \ {x} \in Bad PROVE FALSE
  <2>1. Cardinality(T \ {x}) = Cardinality(T) - 1
    BY <1>1, FS_RemoveElement
  <2>2. n <= Cardinality(T \ {x}) /\ n \in Nat
    BY <1>1, <1>2, <1>3, <1>4
  <2>. QED
    BY <1>3, <2>1, <2>2
<1>. QED
  BY <1>4

(* What a sum is made of.                                                  *)
LEMMA SumIsMade ==
  ASSUME NEW f, NEW S, IsFiniteSet(S)
  PROVE  \E g : Adds(g, f, SUBSET S) /\ Sum(f, S) = g[S]
<1>. DEFINE g == CHOOSE g : Adds(g, f, SUBSET S)
<1>1. Adds(g, f, SUBSET S)
  <2>1. PICK n \in Nat : n = Cardinality(S)
    BY FS_CardinalityType
  <2>2. Small(S, n) = SUBSET S
    <3>1. ASSUME NEW T \in SUBSET S PROVE Cardinality(T) <= n
      BY <2>1, FS_Subset
    <3>. QED
      BY <3>1 DEF Small
  <2>3. PICK h : Adds(h, f, Small(S, n))
    BY SumsExist
  <2>4. Adds(h, f, SUBSET S)
    BY <2>2, <2>3
  <2>. QED
    BY <2>4
<1>2. Sum(f, S) = g[S]
  BY DEF Sum, MapThenFoldSet, Adds, First
<1>. HIDE DEF g
<1>. QED
  BY <1>1, <1>2

(* Two ways to add up agree where they both do.                            *)
LEMMA SumIsOne ==
  ASSUME NEW f, NEW g, NEW h, NEW S, NEW R, IsFiniteSet(S), R \subseteq S,
         Adds(g, f, SUBSET S), Adds(h, f, SUBSET R)
  PROVE  \A T \in SUBSET R : g[T] = h[T]
<1>. DEFINE Bad == {T \in SUBSET R : g[T] # h[T]}
<1>. SUFFICES ASSUME Bad # {} PROVE FALSE
  OBVIOUS
<1>1. IsFiniteSet(R)
  BY FS_Subset
<1>2. PICK T \in Bad : \A x \in T : T \ {x} \notin Bad
  <2>1. Bad \subseteq SUBSET R
    OBVIOUS
  <2>. HIDE DEF Bad
  <2>. QED
    BY <1>1, <2>1, SmallestSet
<1>3. /\ g[T] = IF T = {} THEN 0 ELSE f[First(T)] + g[T \ {First(T)}]
      /\ h[T] = IF T = {} THEN 0 ELSE f[First(T)] + h[T \ {First(T)}]
  <2>1. T \in SUBSET S /\ T \in SUBSET R
    OBVIOUS
  <2>2. \A U \in SUBSET S : g[U] = IF U = {} THEN 0 ELSE f[First(U)] + g[U \ {First(U)}]
    BY DEF Adds
  <2>3. \A U \in SUBSET R : h[U] = IF U = {} THEN 0 ELSE f[First(U)] + h[U \ {First(U)}]
    BY DEF Adds
  <2>. HIDE DEF Bad
  <2>. QED
    BY <2>1, <2>2, <2>3
<1>4. T # {} => First(T) \in T
  BY DEF First
<1>5. T # {} => g[T \ {First(T)}] = h[T \ {First(T)}]
  BY <1>2, <1>4
<1>6. g[T] = h[T]
  BY <1>3, <1>5
<1>. QED
  BY <1>6

(* The sum of nothing is 0, any other sum one member and the rest.         *)
LEMMA SumUnfolds ==
  ASSUME NEW f, NEW S, IsFiniteSet(S)
  PROVE  /\ S = {} => Sum(f, S) = 0
         /\ S # {} => First(S) \in S /\ Sum(f, S) = f[First(S)] + Sum(f, S \ {First(S)})
<1>1. PICK g : Adds(g, f, SUBSET S) /\ Sum(f, S) = g[S]
  BY SumIsMade
<1>2. g[S] = IF S = {} THEN 0 ELSE f[First(S)] + g[S \ {First(S)}]
  <2>1. \A U \in SUBSET S : g[U] = IF U = {} THEN 0 ELSE f[First(U)] + g[U \ {First(U)}]
    BY <1>1 DEF Adds
  <2>. QED
    BY <2>1
<1>3. ASSUME S # {}
      PROVE  First(S) \in S /\ Sum(f, S \ {First(S)}) = g[S \ {First(S)}]
  <2>. DEFINE R == S \ {First(S)}
  <2>1. First(S) \in S
    BY <1>3 DEF First
  <2>2. IsFiniteSet(R) /\ R \subseteq S
    BY FS_Subset
  <2>. HIDE DEF R
  <2>3. PICK h : Adds(h, f, SUBSET R) /\ Sum(f, R) = h[R]
    BY <2>2, SumIsMade
  <2>4. \A T \in SUBSET R : g[T] = h[T]
    BY <1>1, <2>2, <2>3, SumIsOne
  <2>5. Sum(f, R) = g[R]
    BY <2>3, <2>4
  <2>. QED
    BY <2>1, <2>5 DEF R
<1>. QED
  BY <1>1, <1>2, <1>3

(* Sums of numbers are numbers.                                            *)
LEMMA SumIsNat ==
  ASSUME NEW f, NEW S, IsFiniteSet(S), \A x \in S : f[x] \in Nat
  PROVE  Sum(f, S) \in Nat
<1>. DEFINE Bad == {T \in SUBSET S : Sum(f, T) \notin Nat}
<1>. SUFFICES ASSUME Bad # {} PROVE FALSE
  OBVIOUS
<1>1. PICK T \in Bad : \A x \in T : T \ {x} \notin Bad
  <2>1. Bad \subseteq SUBSET S
    OBVIOUS
  <2>. HIDE DEF Bad
  <2>. QED
    BY <2>1, SmallestSet
<1>2. IsFiniteSet(T)
  BY FS_Subset
<1>3. T = {} => Sum(f, T) = 0
  BY <1>2, SumUnfolds
<1>4. T # {} => First(T) \in T /\ Sum(f, T) = f[First(T)] + Sum(f, T \ {First(T)})
  BY <1>2, SumUnfolds
<1>5. T # {} => f[First(T)] \in Nat /\ Sum(f, T \ {First(T)}) \in Nat
  BY <1>1, <1>4
<1>6. Sum(f, T) \in Nat
  BY <1>3, <1>4, <1>5
<1>. QED
  BY <1>6

(* It does not matter which member is added first.                         *)
LEMMA SumWithout ==
  ASSUME NEW f, NEW S, IsFiniteSet(S), \A x \in S : f[x] \in Nat
  PROVE  \A x \in S : Sum(f, S) = f[x] + Sum(f, S \ {x})
<1>. DEFINE Bad == {T \in SUBSET S : \E x \in T : Sum(f, T) # f[x] + Sum(f, T \ {x})}
<1>. SUFFICES ASSUME Bad # {} PROVE FALSE
  OBVIOUS
<1>1. PICK T \in Bad : \A x \in T : T \ {x} \notin Bad
  <2>1. Bad \subseteq SUBSET S
    OBVIOUS
  <2>. HIDE DEF Bad
  <2>. QED
    BY <2>1, SmallestSet
<1>2. PICK x \in T : Sum(f, T) # f[x] + Sum(f, T \ {x})
  OBVIOUS
<1>. DEFINE y == First(T)
<1>3. T \in SUBSET S /\ IsFiniteSet(T) /\ T # {}
  BY FS_Subset
<1>4. y \in T /\ Sum(f, T) = f[y] + Sum(f, T \ {y})
  BY <1>3, SumUnfolds
<1>5. x # y
  BY <1>2, <1>4
<1>. HIDE DEF y
<1>6. Sum(f, T \ {y}) = f[x] + Sum(f, (T \ {y}) \ {x})
  <2>1. T \ {y} \notin Bad /\ T \ {y} \in SUBSET S /\ x \in T \ {y}
    BY <1>1, <1>4, <1>5
  <2>. QED
    BY <2>1
<1>7. Sum(f, T \ {x}) = f[y] + Sum(f, (T \ {x}) \ {y})
  <2>1. T \ {x} \notin Bad /\ T \ {x} \in SUBSET S /\ y \in T \ {x}
    BY <1>1, <1>2, <1>4, <1>5
  <2>. QED
    BY <2>1
<1>8. (T \ {y}) \ {x} = (T \ {x}) \ {y}
  OBVIOUS
<1>9. f[x] \in Nat /\ f[y] \in Nat /\ Sum(f, (T \ {x}) \ {y}) \in Nat
  <2>1. IsFiniteSet((T \ {x}) \ {y}) /\ \A z \in (T \ {x}) \ {y} : f[z] \in Nat
    BY <1>3, FS_Subset
  <2>. QED
    BY <1>3, <1>4, <2>1, SumIsNat
<1>. HIDE DEF Bad
<1>10. Sum(f, T) = f[x] + Sum(f, T \ {x})
  <2>1. \A a, b, c \in Nat : a + (b + c) = b + (a + c)
    OBVIOUS
  <2>2. f[y] + (f[x] + Sum(f, (T \ {x}) \ {y})) = f[x] + (f[y] + Sum(f, (T \ {x}) \ {y}))
    BY <1>9, <2>1
  <2>. QED
    BY <1>4, <1>6, <1>7, <1>8, <2>2
<1>. QED
  BY <1>2, <1>10

(* Amounts that are at most others add up to at most their sum, and equal  *)
(* ones to the same.                                                       *)
LEMMA SumIsMonotone ==
  ASSUME NEW f, NEW g, NEW S, IsFiniteSet(S),
         \A x \in S : f[x] \in Nat /\ g[x] \in Nat /\ f[x] <= g[x]
  PROVE  Sum(f, S) <= Sum(g, S)
<1>. DEFINE Bad == {T \in SUBSET S : ~ (Sum(f, T) <= Sum(g, T))}
<1>. SUFFICES ASSUME Bad # {} PROVE FALSE
  OBVIOUS
<1>1. PICK T \in Bad : \A x \in T : T \ {x} \notin Bad
  <2>1. Bad \subseteq SUBSET S
    OBVIOUS
  <2>. HIDE DEF Bad
  <2>. QED
    BY <2>1, SmallestSet
<1>2. T \in SUBSET S /\ IsFiniteSet(T)
  BY FS_Subset
<1>3. T = {} => Sum(f, T) = 0 /\ Sum(g, T) = 0
  BY <1>2, SumUnfolds
<1>4. ASSUME T # {} PROVE Sum(f, T) <= Sum(g, T)
  <2>1. PICK x \in T : TRUE
    BY <1>4
  <2>2. Sum(f, T) = f[x] + Sum(f, T \ {x}) /\ Sum(g, T) = g[x] + Sum(g, T \ {x})
    BY <1>2, <2>1, SumWithout
  <2>3. Sum(f, T \ {x}) <= Sum(g, T \ {x})
    BY <1>1, <2>1
  <2>4. Sum(f, T \ {x}) \in Nat /\ Sum(g, T \ {x}) \in Nat
    <3>1. IsFiniteSet(T \ {x}) /\ T \ {x} \subseteq S
      BY <1>2, FS_Subset
    <3>. QED
      BY <3>1, SumIsNat
  <2>5. f[x] \in Nat /\ g[x] \in Nat /\ f[x] <= g[x]
    BY <1>2
  <2>6. \A a, b, c, d \in Nat : a <= b /\ c <= d => a + c <= b + d
    OBVIOUS
  <2>7. f[x] + Sum(f, T \ {x}) <= g[x] + Sum(g, T \ {x})
    BY <2>3, <2>4, <2>5, <2>6
  <2>. QED
    BY <2>2, <2>7
<1>5. Sum(f, T) <= Sum(g, T)
  BY <1>3, <1>4
<1>. QED
  BY <1>5

(* Only the amounts of the members count.                                  *)
LEMMA SumIsOfMembers ==
  ASSUME NEW f, NEW g, NEW S, IsFiniteSet(S), \A x \in S : f[x] \in Nat /\ f[x] = g[x]
  PROVE  Sum(f, S) = Sum(g, S)
<1>1. \A x \in S : /\ f[x] \in Nat /\ g[x] \in Nat
                   /\ f[x] <= g[x] /\ g[x] <= f[x]
  OBVIOUS
<1>2. Sum(f, S) <= Sum(g, S) /\ Sum(g, S) <= Sum(f, S)
  BY <1>1, SumIsMonotone
<1>3. Sum(f, S) \in Nat /\ Sum(g, S) \in Nat
  BY <1>1, SumIsNat
<1>. QED
  BY <1>2, <1>3

(* The sum of a part and the sum of what is left make up the whole.        *)
LEMMA SumOfParts ==
  ASSUME NEW f, NEW S, IsFiniteSet(S), \A x \in S : f[x] \in Nat, NEW R, R \subseteq S
  PROVE  Sum(f, S) = Sum(f, R) + Sum(f, S \ R)
<1>. DEFINE Bad == {T \in SUBSET S : Sum(f, T) # Sum(f, T \cap R) + Sum(f, T \ R)}
<1>. SUFFICES Bad = {}
  <2>1. S \cap R = R
    OBVIOUS
  <2>. QED
    BY <2>1
<1>. SUFFICES ASSUME Bad # {} PROVE FALSE
  OBVIOUS
<1>1. PICK T \in Bad : \A x \in T : T \ {x} \notin Bad
  <2>1. Bad \subseteq SUBSET S
    OBVIOUS
  <2>. HIDE DEF Bad
  <2>. QED
    BY <2>1, SmallestSet
<1>2. T \in SUBSET S /\ IsFiniteSet(T)
  BY FS_Subset
<1>3. \A U \in SUBSET S : Sum(f, U) \in Nat
  BY FS_Subset, SumIsNat
<1>4. CASE T = {}
  <2>1. T \cap R = {} /\ T \ R = {}
    BY <1>4
  <2>2. Sum(f, {}) = 0
    BY <1>2, <1>4, SumUnfolds
  <2>3. Sum(f, T) = Sum(f, T \cap R) + Sum(f, T \ R)
    BY <1>4, <2>1, <2>2
  <2>. QED
    BY <2>3
<1>5. CASE T # {}
  <2>1. PICK x \in T : TRUE
    BY <1>5
  <2>2. Sum(f, T) = f[x] + Sum(f, T \ {x}) /\ f[x] \in Nat
    BY <1>2, <2>1, SumWithout
  <2>3. Sum(f, T \ {x}) = Sum(f, (T \ {x}) \cap R) + Sum(f, (T \ {x}) \ R)
    BY <1>1, <2>1
  <2>. DEFINE A == (T \ {x}) \cap R
              B == (T \ {x}) \ R
  <2>4. Sum(f, A) \in Nat /\ Sum(f, B) \in Nat
    BY <1>2, <1>3
  <2>5. IsFiniteSet(T \cap R) /\ IsFiniteSet(T \ R)
    BY <1>2, FS_Subset
  <2>8. \A a, b, c \in Nat : a + (b + c) = (a + b) + c /\ a + (b + c) = b + (a + c)
    OBVIOUS
  <2>6. CASE x \in R
    <3>1. Sum(f, T \cap R) = f[x] + Sum(f, (T \cap R) \ {x})
      BY <1>2, <2>1, <2>5, <2>6, SumWithout
    <3>2. (T \cap R) \ {x} = A /\ T \ R = B
      BY <2>6
    <3>. HIDE DEF A, B, Bad
    <3>3. f[x] + (Sum(f, A) + Sum(f, B)) = Sum(f, T \cap R) + Sum(f, T \ R)
      <4>1. f[x] + (Sum(f, A) + Sum(f, B)) = (f[x] + Sum(f, A)) + Sum(f, B)
        BY <2>2, <2>4, <2>8
      <4>. QED
        BY <3>1, <3>2, <4>1
    <3>4. Sum(f, T) = Sum(f, T \cap R) + Sum(f, T \ R)
      BY <2>2, <2>3, <3>3 DEF A, B
    <3>. QED
      BY <3>4 DEF Bad
  <2>7. CASE x \notin R
    <3>1. Sum(f, T \ R) = f[x] + Sum(f, (T \ R) \ {x})
      BY <1>2, <2>1, <2>5, <2>7, SumWithout
    <3>2. (T \ R) \ {x} = B /\ T \cap R = A
      BY <2>7
    <3>. HIDE DEF A, B, Bad
    <3>3. f[x] + (Sum(f, A) + Sum(f, B)) = Sum(f, T \cap R) + Sum(f, T \ R)
      <4>1. f[x] + (Sum(f, A) + Sum(f, B)) = Sum(f, A) + (f[x] + Sum(f, B))
        BY <2>2, <2>4, <2>8
      <4>. QED
        BY <3>1, <3>2, <4>1
    <3>4. Sum(f, T) = Sum(f, T \cap R) + Sum(f, T \ R)
      BY <2>2, <2>3, <3>3 DEF A, B
    <3>. QED
      BY <3>4 DEF Bad
  <2>. QED
    BY <2>6, <2>7
<1>. QED
  BY <1>4, <1>5

(* Equal amounts add up to their number times one of them.                 *)
LEMMA SumOfEquals ==
  ASSUME NEW f, NEW S, IsFiniteSet(S), NEW c \in Nat, \A x \in S : f[x] = c
  PROVE  Sum(f, S) = c * Cardinality(S)
<1>. DEFINE Bad == {T \in SUBSET S : Sum(f, T) # c * Cardinality(T)}
<1>. SUFFICES ASSUME Bad # {} PROVE FALSE
  OBVIOUS
<1>1. PICK T \in Bad : \A x \in T : T \ {x} \notin Bad
  <2>1. Bad \subseteq SUBSET S
    OBVIOUS
  <2>. HIDE DEF Bad
  <2>. QED
    BY <2>1, SmallestSet
<1>2. T \in SUBSET S /\ IsFiniteSet(T)
  BY FS_Subset
<1>3. CASE T = {}
  <2>1. Sum(f, T) = 0 /\ Cardinality(T) = 0
    BY <1>2, <1>3, SumUnfolds, FS_EmptySet
  <2>2. Sum(f, T) = c * Cardinality(T)
    BY <2>1
  <2>. QED
    BY <2>2
<1>4. CASE T # {}
  <2>1. PICK x \in T : TRUE
    BY <1>4
  <2>2. Sum(f, T) = c + Sum(f, T \ {x})
    <3>1. \A y \in T : f[y] \in Nat /\ f[y] = c
      BY <1>2
    <3>. QED
      BY <1>2, <2>1, <3>1, SumWithout
  <2>3. Sum(f, T \ {x}) = c * Cardinality(T \ {x})
    BY <1>1, <2>1
  <2>4. Cardinality(T) \in Nat /\ Cardinality(T \ {x}) = Cardinality(T) - 1
    BY <1>2, <2>1, FS_CardinalityType, FS_RemoveElement
  <2>5. \A n \in Nat : c + c * (n - 1) = c * n
    OBVIOUS
  <2>6. Sum(f, T) = c * Cardinality(T)
    BY <2>2, <2>3, <2>4, <2>5
  <2>. QED
    BY <2>6
<1>. QED
  BY <1>3, <1>4

(* What the empty set has, and any set whose subsets without one member    *)
(* have it, all subsets of a finite set have.                              *)
LEMMA AllSubsets ==
  ASSUME NEW S, IsFiniteSet(S), NEW Good, {} \in Good,
         \A T \in SUBSET S : T # {} /\ (\A x \in T : T \ {x} \in Good) => T \in Good
  PROVE  SUBSET S \subseteq Good
<1>. DEFINE Bad == (SUBSET S) \ Good
<1>. SUFFICES ASSUME Bad # {} PROVE FALSE
  OBVIOUS
<1>1. PICK T \in Bad : \A x \in T : T \ {x} \notin Bad
  <2>1. Bad \subseteq SUBSET S
    OBVIOUS
  <2>. HIDE DEF Bad
  <2>. QED
    BY <2>1, SmallestSet
<1>2. T \in SUBSET S /\ T \notin Good /\ \A x \in T : T \ {x} \in SUBSET S
  OBVIOUS
<1>3. T # {} /\ \A x \in T : T \ {x} \in Good
  BY <1>1, <1>2
<1>. QED
  BY <1>2, <1>3

(* A part adds up to no more than the whole, a member is no more than that.*)
LEMMA SumOfLess ==
  ASSUME NEW f, NEW S, IsFiniteSet(S), \A x \in S : f[x] \in Nat
  PROVE  /\ \A R \in SUBSET S : Sum(f, R) <= Sum(f, S) /\ Sum(f, R) \in Nat /\ IsFiniteSet(R)
         /\ \A x \in S : f[x] <= Sum(f, S)
<1>1. ASSUME NEW R \in SUBSET S PROVE Sum(f, R) \in Nat /\ IsFiniteSet(R)
  <2>1. IsFiniteSet(R)
    BY FS_Subset
  <2>. QED
    BY <2>1, SumIsNat
<1>2. ASSUME NEW R \in SUBSET S PROVE Sum(f, R) <= Sum(f, S)
  <2>1. Sum(f, S) = Sum(f, R) + Sum(f, S \ R)
    BY SumOfParts
  <2>2. Sum(f, R) \in Nat /\ Sum(f, S \ R) \in Nat
    BY <1>1
  <2>. QED
    BY <2>1, <2>2
<1>3. ASSUME NEW x \in S PROVE f[x] <= Sum(f, S)
  <2>1. Sum(f, S) = f[x] + Sum(f, S \ {x})
    BY SumWithout
  <2>2. Sum(f, S \ {x}) \in Nat /\ f[x] \in Nat
    BY <1>1
  <2>. QED
    BY <2>1, <2>2
<1>. QED
  BY <1>1, <1>2, <1>3

(* Sets without a common member add up to the sum of their sums.           *)
LEMMA SumOfDisjoint ==
  ASSUME NEW f, NEW A, NEW B, IsFiniteSet(A), IsFiniteSet(B), A \cap B = {},
         \A x \in A \cup B : f[x] \in Nat
  PROVE  Sum(f, A \cup B) = Sum(f, A) + Sum(f, B)
<1>1. IsFiniteSet(A \cup B) /\ A \subseteq A \cup B
  BY FS_Union
<1>2. (A \cup B) \ A = B
  OBVIOUS
<1>. QED
  BY <1>1, <1>2, SumOfParts

(* Multiples with something added to each.                                 *)
LEMMA SumOfAffine ==
  ASSUME NEW f, NEW h, NEW S, IsFiniteSet(S), NEW a \in Nat, NEW c \in Nat,
         \A x \in S : f[x] \in Nat /\ h[x] = a * f[x] + c
  PROVE  Sum(h, S) = a * Sum(f, S) + c * Cardinality(S)
<1>. DEFINE Good == {T \in SUBSET S : Sum(h, T) = a * Sum(f, T) + c * Cardinality(T)}
<1>0. \A T \in SUBSET S : IsFiniteSet(T)
  BY FS_Subset
<1>1. {} \in Good
  <2>1. Sum(h, {}) = 0 /\ Sum(f, {}) = 0 /\ Cardinality({}) = 0
    BY FS_EmptySet, SumUnfolds
  <2>. QED
    BY <2>1
<1>2. ASSUME NEW T \in SUBSET S, T # {}, \A x \in T : T \ {x} \in Good PROVE T \in Good
  <2>1. PICK x \in T : TRUE
    BY <1>2
  <2>2. \A y \in S : h[y] \in Nat
    OBVIOUS
  <2>3. Sum(h, T) = h[x] + Sum(h, T \ {x}) /\ Sum(f, T) = f[x] + Sum(f, T \ {x})
    BY <1>0, <2>1, <2>2, SumWithout
  <2>4. Sum(h, T \ {x}) = a * Sum(f, T \ {x}) + c * Cardinality(T \ {x})
    BY <1>2, <2>1
  <2>5. Cardinality(T) \in Nat /\ Cardinality(T \ {x}) = Cardinality(T) - 1
    BY <1>0, <2>1, FS_CardinalityType, FS_RemoveElement
  <2>6. Sum(f, T \ {x}) \in Nat /\ f[x] \in Nat /\ h[x] = a * f[x] + c
    BY <2>1, SumOfLess
  <2>7. \A u, s, n \in Nat : (a * u + c) + (a * s + c * (n - 1)) = a * (u + s) + c * n
    OBVIOUS
  <2>8. Sum(h, T) = a * Sum(f, T) + c * Cardinality(T)
    BY <2>3, <2>4, <2>5, <2>6, <2>7
  <2>. QED
    BY <2>8
<1>3. SUBSET S \subseteq Good
  <2>. HIDE DEF Good
  <2>. QED
    BY <1>1, <1>2, AllSubsets
<1>. QED
  BY <1>3

(* The members of a set may be given other names.                          *)
LEMMA SumOfImage ==
  ASSUME NEW f, NEW g, NEW h, NEW S, IsFiniteSet(S),
         \A x, y \in S : h[x] = h[y] => x = y,
         \A x \in S : g[x] \in Nat /\ f[h[x]] = g[x]
  PROVE  /\ IsFiniteSet({h[x] : x \in S}) /\ Cardinality({h[x] : x \in S}) = Cardinality(S)
         /\ Sum(f, {h[x] : x \in S}) = Sum(g, S)
<1>. DEFINE Image(T) == {h[x] : x \in T}
            Good == {T \in SUBSET S : /\ IsFiniteSet(Image(T))
                                      /\ Cardinality(Image(T)) = Cardinality(T)
                                      /\ Sum(f, Image(T)) = Sum(g, T)}
<1>1. {} \in Good
  <2>1. Image({}) = {}
    OBVIOUS
  <2>2. Sum(f, {}) = 0 /\ Sum(g, {}) = 0 /\ IsFiniteSet({})
    BY FS_EmptySet, SumUnfolds
  <2>. QED
    BY <2>1, <2>2
<1>2. ASSUME NEW T \in SUBSET S, T # {}, \A x \in T : T \ {x} \in Good PROVE T \in Good
  <2>1. PICK x \in T : TRUE
    BY <1>2
  <2>2. /\ IsFiniteSet(Image(T \ {x})) /\ Sum(f, Image(T \ {x})) = Sum(g, T \ {x})
        /\ Cardinality(Image(T \ {x})) = Cardinality(T \ {x})
    BY <1>2, <2>1
  <2>3. Image(T) = Image(T \ {x}) \cup {h[x]}
    OBVIOUS
  <2>4. h[x] \notin Image(T \ {x})
    OBVIOUS
  <2>5. h[x] \in Image(T) /\ Image(T) \ {h[x]} = Image(T \ {x})
    BY <2>3, <2>4
  <2>6. IsFiniteSet(T)
    BY FS_Subset
  <2>7. \A i \in Image(T) : f[i] \in Nat
    OBVIOUS
  <2>. HIDE DEF Image
  <2>8. IsFiniteSet(Image(T)) /\ Cardinality(Image(T)) = Cardinality(T)
    <3>1. IsFiniteSet(Image(T)) /\ Cardinality(Image(T)) = Cardinality(Image(T \ {x})) + 1
      <4>. DEFINE A == Image(T \ {x})
      <4>1. IsFiniteSet(A) /\ Image(T) = A \cup {h[x]} /\ h[x] \notin A
        BY <2>2, <2>3, <2>4
      <4>. HIDE DEF A
      <4>2. IsFiniteSet(A \cup {h[x]}) /\ Cardinality(A \cup {h[x]}) = Cardinality(A) + 1
        BY <4>1, FS_AddElement
      <4>. QED
        BY <4>1, <4>2 DEF A
    <3>2. Cardinality(T \ {x}) = Cardinality(T) - 1 /\ Cardinality(T) \in Nat
      BY <2>1, <2>6, FS_RemoveElement, FS_CardinalityType
    <3>. QED
      BY <2>2, <3>1, <3>2
  <2>9. Sum(f, Image(T)) = f[h[x]] + Sum(f, Image(T \ {x}))
    BY <2>5, <2>7, <2>8, SumWithout
  <2>10. Sum(g, T) = g[x] + Sum(g, T \ {x})
    BY <2>1, <2>6, SumWithout
  <2>11. Sum(f, Image(T)) = Sum(g, T)
    BY <2>1, <2>2, <2>9, <2>10
  <2>. QED
    BY <2>8, <2>11
<1>3. SUBSET S \subseteq Good
  <2>. HIDE DEF Good
  <2>. QED
    BY <1>1, <1>2, AllSubsets
<1>. QED
  BY <1>3

(* Sets that have no member in common, one after another.                  *)
LEMMA SumOfUnion ==
  ASSUME NEW f, NEW g, NEW C, NEW S, IsFiniteSet(S),
         \A x \in S : /\ IsFiniteSet(C[x]) /\ g[x] = Sum(f, C[x])
                      /\ \A t \in C[x] : f[t] \in Nat,
         \A x, y \in S : x # y => C[x] \cap C[y] = {}
  PROVE  Sum(f, UNION {C[x] : x \in S}) = Sum(g, S) /\ IsFiniteSet(UNION {C[x] : x \in S})
<1>. DEFINE Whole(T) == UNION {C[x] : x \in T}
            Good == {T \in SUBSET S : IsFiniteSet(Whole(T)) /\ Sum(f, Whole(T)) = Sum(g, T)}
<1>1. {} \in Good
  <2>1. Whole({}) = {}
    OBVIOUS
  <2>2. Sum(f, {}) = 0 /\ Sum(g, {}) = 0 /\ IsFiniteSet({})
    BY FS_EmptySet, SumUnfolds
  <2>. QED
    BY <2>1, <2>2
<1>2. ASSUME NEW T \in SUBSET S, T # {}, \A x \in T : T \ {x} \in Good PROVE T \in Good
  <2>1. PICK x \in T : TRUE
    BY <1>2
  <2>2. IsFiniteSet(Whole(T \ {x})) /\ Sum(f, Whole(T \ {x})) = Sum(g, T \ {x})
    BY <1>2, <2>1
  <2>3. Whole(T) = Whole(T \ {x}) \cup C[x]
    OBVIOUS
  <2>4. Whole(T \ {x}) \cap C[x] = {}
    OBVIOUS
  <2>5. IsFiniteSet(C[x]) /\ g[x] = Sum(f, C[x]) /\ x \in S
    OBVIOUS
  <2>6. \A t \in Whole(T \ {x}) \cup C[x] : f[t] \in Nat
    OBVIOUS
  <2>7. IsFiniteSet(T) /\ \A y \in T : g[y] \in Nat
    BY FS_Subset, SumIsNat
  <2>. HIDE DEF Whole
  <2>8. Sum(f, Whole(T)) = Sum(f, Whole(T \ {x})) + Sum(f, C[x]) /\ IsFiniteSet(Whole(T))
    <3>. DEFINE A == Whole(T \ {x})
                B == C[x]
    <3>1. IsFiniteSet(A) /\ IsFiniteSet(B) /\ A \cap B = {} /\ \A t \in A \cup B : f[t] \in Nat
      BY <2>2, <2>4, <2>5, <2>6
    <3>. HIDE DEF A, B
    <3>2. Sum(f, A \cup B) = Sum(f, A) + Sum(f, B) /\ IsFiniteSet(A \cup B)
      BY <3>1, SumOfDisjoint, FS_Union
    <3>. QED
      BY <2>3, <3>2 DEF A, B
  <2>9. Sum(g, T) = g[x] + Sum(g, T \ {x})
    BY <2>1, <2>7, SumWithout
  <2>10. Sum(g, T \ {x}) \in Nat /\ g[x] \in Nat
    BY <2>1, <2>7, SumOfLess
  <2>11. Sum(f, Whole(T)) = Sum(g, T)
    BY <2>2, <2>5, <2>8, <2>9, <2>10
  <2>. QED
    BY <2>8, <2>11
<1>3. SUBSET S \subseteq Good
  <2>. HIDE DEF Good
  <2>. QED
    BY <1>1, <1>2, AllSubsets
<1>. QED
  BY <1>3

(* The sum over one member.                                                *)
LEMMA SumOfOne ==
  ASSUME NEW f, NEW x, f[x] \in Nat
  PROVE  Sum(f, {x}) = f[x]
<1>1. IsFiniteSet({x}) /\ {x} \ {x} = {}
  BY FS_Singleton
<1>2. Sum(f, {x}) = f[x] + Sum(f, {x} \ {x})
  BY <1>1, SumWithout
<1>3. Sum(f, {}) = 0
  BY FS_EmptySet, SumUnfolds
<1> QED BY <1>1, <1>2, <1>3

(* What is made of the members of a finite set is finite.                  *)
LEMMA ImageIsFinite ==
  ASSUME NEW S, IsFiniteSet(S), NEW f
  PROVE  IsFiniteSet({f[x] : x \in S})
<1> DEFINE T == {f[x] : x \in S}
           g == [x \in S |-> f[x]]
<1>1. g \in Surjection(S, T)
  BY DEF Surjection
<1> HIDE DEF g, T
<1>2. IsFiniteSet(T)
  BY <1>1, FS_Surjection
<1> QED BY <1>2 DEF T

(* A sum of integers is one.                                               *)
LEMMA SumIsInt ==
  ASSUME NEW f, NEW S, IsFiniteSet(S), \A x \in S : f[x] \in Int
  PROVE  Sum(f, S) \in Int
<1>. DEFINE Good == {T \in SUBSET S : Sum(f, T) \in Int}
<1>1. {} \in Good
  <2>1. Sum(f, {}) = 0
    BY FS_EmptySet, SumUnfolds
  <2>. QED
    BY <2>1
<1>2. ASSUME NEW T \in SUBSET S, T # {}, \A x \in T : T \ {x} \in Good PROVE T \in Good
  <2>1. IsFiniteSet(T)
    BY FS_Subset
  <2>2. First(T) \in T /\ Sum(f, T) = f[First(T)] + Sum(f, T \ {First(T)})
    BY <1>2, <2>1, SumUnfolds
  <2>3. Sum(f, T \ {First(T)}) \in Int /\ f[First(T)] \in Int
    BY <1>2, <2>2
  <2>. QED
    BY <2>2, <2>3
<1>3. SUBSET S \subseteq Good
  <2>. HIDE DEF Good
  <2>. QED
    BY <1>1, <1>2, AllSubsets
<1>. QED
  BY <1>3

(* A common factor may be left out.                                        *)
LEMMA FactorsCancel ==
  ASSUME NEW d \in Nat \ {0}, NEW i \in Nat, NEW j \in Nat, d * i <= d * j
  PROVE  i <= j
<1> SUFFICES ASSUME j + 1 <= i PROVE d * j < d * i
  OBVIOUS
<1>1. PICK z \in Nat : i = j + 1 + z
  <2>1. i - (j + 1) \in Nat /\ i = j + 1 + (i - (j + 1))
    OBVIOUS
  <2> QED BY <2>1
<1>2. d * i = d * j + d + d * z
  <2>1. \A l, m, o \in Nat : l * (m + 1 + o) = l * m + l + l * o
    OBVIOUS
  <2> QED BY <1>1, <2>1
<1>3. d * j \in Nat /\ d * z \in Nat /\ d \in Nat
  OBVIOUS
<1> QED BY <1>2, <1>3

(* Numbers that are each rounded to multiples of K add up to the rounded   *)
(* sum but for half of K each.                                             *)
LEMMA RoundedAddUp ==
  ASSUME NEW S, IsFiniteSet(S), NEW K \in Nat, NEW lo \in Nat, NEW hi \in Nat, NEW v, NEW w,
         \A x \in S : /\ v[x] \in Nat /\ w[x] \in Nat
                      /\ 2 * (K * v[x]) <= 2 * (hi * w[x]) + K
                      /\ 2 * (lo * w[x]) <= 2 * (K * v[x]) + K
  PROVE  /\ Sum(v, S) \in Nat /\ Sum(w, S) \in Nat /\ Cardinality(S) \in Nat
         /\ 2 * (K * Sum(v, S)) <= 2 * (hi * Sum(w, S)) + K * Cardinality(S)
         /\ 2 * (lo * Sum(w, S)) <= 2 * (K * Sum(v, S)) + K * Cardinality(S)
<1>1. PICK V \in Nat, W \in Nat, n \in Nat : V = Sum(v, S) /\ W = Sum(w, S) /\ n = Cardinality(S)
  <2>1. \A x \in S : v[x] \in Nat /\ w[x] \in Nat
    OBVIOUS
  <2> QED BY <2>1, SumIsNat, FS_CardinalityType
<1>2. PICK a \in Nat, h \in Nat, l \in Nat : a = 2 * K /\ h = 2 * hi /\ l = 2 * lo
  OBVIOUS
<1>3. \A x \in Nat : /\ a * x = 2 * (K * x) /\ h * x = 2 * (hi * x) /\ l * x = 2 * (lo * x)
                     /\ a * x \in Nat /\ h * x \in Nat /\ l * x \in Nat /\ K * x \in Nat
  <2>1. \A i, x \in Nat : (2 * i) * x = 2 * (i * x) /\ i * x \in Nat
    OBVIOUS
  <2>2. \A x \in Nat : (2 * K) * x = 2 * (K * x) /\ K * x \in Nat /\ a * x \in Nat
    BY <2>1
  <2>3. \A x \in Nat : (2 * hi) * x = 2 * (hi * x) /\ h * x \in Nat
    BY <2>1
  <2>4. \A x \in Nat : (2 * lo) * x = 2 * (lo * x) /\ l * x \in Nat
    BY <2>1
  <2> QED BY <1>2, <2>2, <2>3, <2>4
<1>4. PICK low, high, vlow, vhigh :
        /\ low = [x \in S |-> l * w[x] + 0] /\ high = [x \in S |-> h * w[x] + K]
        /\ vlow = [x \in S |-> a * v[x] + 0] /\ vhigh = [x \in S |-> a * v[x] + K]
  OBVIOUS
<1>5. \A x \in S : /\ low[x] \in Nat /\ high[x] \in Nat /\ vlow[x] \in Nat /\ vhigh[x] \in Nat
                   /\ vlow[x] <= high[x] /\ low[x] <= vhigh[x]
  <2> SUFFICES ASSUME NEW x \in S
               PROVE  /\ low[x] \in Nat /\ high[x] \in Nat /\ vlow[x] \in Nat /\ vhigh[x] \in Nat
                      /\ vlow[x] <= high[x] /\ low[x] <= vhigh[x]
    OBVIOUS
  <2>1. /\ a * v[x] \in Nat /\ h * w[x] \in Nat /\ l * w[x] \in Nat
        /\ a * v[x] = 2 * (K * v[x]) /\ h * w[x] = 2 * (hi * w[x]) /\ l * w[x] = 2 * (lo * w[x])
    BY <1>3
  <2>2. a * v[x] <= h * w[x] + K /\ l * w[x] <= a * v[x] + K
    BY <2>1
  <2> QED BY <1>4, <2>1, <2>2
<1>6. Sum(vlow, S) <= Sum(high, S) /\ Sum(low, S) <= Sum(vhigh, S)
  BY <1>5, SumIsMonotone
<1>7. /\ Sum(low, S) = l * W + 0 * n /\ Sum(high, S) = h * W + K * n
      /\ Sum(vlow, S) = a * V + 0 * n /\ Sum(vhigh, S) = a * V + K * n
  <2>1. \A x \in S : w[x] \in Nat /\ low[x] = l * w[x] + 0 /\ high[x] = h * w[x] + K
    BY <1>4
  <2>2. \A x \in S : v[x] \in Nat /\ vlow[x] = a * v[x] + 0 /\ vhigh[x] = a * v[x] + K
    BY <1>4
  <2>3. 0 \in Nat /\ K \in Nat
    OBVIOUS
  <2>4. Sum(low, S) = l * Sum(w, S) + 0 * Cardinality(S)
    BY <1>2, <2>1, <2>3, SumOfAffine
  <2>5. Sum(high, S) = h * Sum(w, S) + K * Cardinality(S)
    BY <1>2, <2>1, <2>3, SumOfAffine
  <2>6. Sum(vlow, S) = a * Sum(v, S) + 0 * Cardinality(S)
    BY <1>2, <2>2, <2>3, SumOfAffine
  <2>7. Sum(vhigh, S) = a * Sum(v, S) + K * Cardinality(S)
    BY <1>2, <2>2, <2>3, SumOfAffine
  <2> QED BY <1>1, <2>4, <2>5, <2>6, <2>7
<1>8. a * V <= h * W + K * n /\ l * W <= a * V + K * n
  <2>1. a * V \in Nat /\ h * W \in Nat /\ l * W \in Nat /\ K * n \in Nat /\ 0 * n = 0
    BY <1>1, <1>3
  <2> QED BY <1>6, <1>7, <2>1
<1>9. a * V = 2 * (K * V) /\ h * W = 2 * (hi * W) /\ l * W = 2 * (lo * W)
  BY <1>1, <1>3
<1> QED BY <1>1, <1>8, <1>9

(* Parts of a whole, each rounded by half a unit at most, add up to it but *)
(* for half a unit each.                                                   *)
LEMMA PartsAddUp ==
  ASSUME NEW S, IsFiniteSet(S), NEW E \in Nat, NEW A \in Nat \ {0}, NEW v, NEW w, Sum(w, S) = A,
         \A x \in S : /\ v[x] \in Nat /\ w[x] \in Nat
                      /\ 2 * (A * v[x]) <= 2 * (E * w[x]) + A
                      /\ 2 * (E * w[x]) <= 2 * (A * v[x]) + A
  PROVE  /\ Sum(v, S) \in Nat /\ Cardinality(S) \in Nat
         /\ 2 * Sum(v, S) <= 2 * E + Cardinality(S)
         /\ 2 * E <= 2 * Sum(v, S) + Cardinality(S)
<1>1. /\ Sum(v, S) \in Nat /\ Cardinality(S) \in Nat
      /\ 2 * (A * Sum(v, S)) <= 2 * (E * A) + A * Cardinality(S)
      /\ 2 * (E * A) <= 2 * (A * Sum(v, S)) + A * Cardinality(S)
  <2>1. A \in Nat
    OBVIOUS
  <2> QED BY <2>1, RoundedAddUp
<1>2. PICK V \in Nat, n \in Nat : V = Sum(v, S) /\ n = Cardinality(S)
  BY <1>1
<1>3. A * (2 * V) <= A * (2 * E + n) /\ A * (2 * E) <= A * (2 * V + n)
  <2>1. \A x, y \in Nat : x * (2 * y) = 2 * (x * y) /\ x * y = y * x /\ x * y \in Nat
    OBVIOUS
  <2>2. \A x, y, z \in Nat : x * (y + z) = x * y + x * z
    OBVIOUS
  <2>3. 2 * V \in Nat /\ 2 * E \in Nat /\ A \in Nat
    BY <1>2
  <2>4. A * (2 * E + n) = A * (2 * E) + A * n /\ A * (2 * V + n) = A * (2 * V) + A * n
    BY <1>2, <2>2, <2>3
  <2>5. A * (2 * V) = 2 * (A * V) /\ A * (2 * E) = 2 * (E * A) /\ A * n \in Nat
        /\ A * V \in Nat /\ E * A \in Nat
    BY <1>2, <2>1, <2>3
  <2> QED BY <1>1, <1>2, <2>4, <2>5
<1>4. 2 * V <= 2 * E + n /\ 2 * E <= 2 * V + n
  <2>1. 2 * V \in Nat /\ 2 * E \in Nat /\ 2 * E + n \in Nat /\ 2 * V + n \in Nat
    BY <1>2
  <2> QED BY <1>3, <2>1, FactorsCancel
<1> QED BY <1>1, <1>2, <1>4
=============================================================================
