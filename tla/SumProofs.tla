------------------------------- MODULE SumProofs -------------------------------
(* Sums over finite sets: what SumFunctionOnSet of the module Functions is.      *)
(* Induction is on sets of natural numbers, so that no theorem takes an operator. *)
EXTENDS Integers, Functions, FiniteSetTheorems, WellFoundedInduction, TLAPS

\* A set of numbers has a smallest one.
LEMMA Smallest ==
    ASSUME NEW T, T \subseteq Nat, T # {}
    PROVE  \E n \in T : \A m \in T : n <= m
<1>1. IsWellFoundedOn(OpToRel(<, Nat), Nat)
  BY NatLessThanWellFounded
<1>2. PICK n \in T : \A m \in T : ~(<<m, n>> \in OpToRel(<, Nat))
  BY <1>1, WFMin
<1>3. \A m \in T : ~(m < n)
  BY <1>2 DEF OpToRel
<1> QED BY <1>3

LEMMA SetInduction ==
    ASSUME NEW T, 0 \in T, \A n \in Nat : n \in T => n + 1 \in T
    PROVE  Nat \subseteq T
<1> SUFFICES ASSUME Nat \ T # {} PROVE FALSE
  OBVIOUS
<1>1. PICK n \in Nat \ T : \A m \in Nat \ T : n <= m
  BY Smallest
<1>2. n # 0 /\ n - 1 \in Nat /\ n - 1 \in T
  BY <1>1
<1> QED BY <1>2

Pick(s) == CHOOSE x \in s : TRUE

\* What the sum of f over s is when h has those over the smaller sets.
NextSum(h, f, s) == IF s = {} THEN 0 ELSE f[Pick(s)] + h[s \ {Pick(s)}]

\* h has the sums of f over all subsets of S.
Sums(h, f, S) == h = [s \in SUBSET S |-> NextSum(h, f, s)]

LEMMA Picked == \A s : s # {} => Pick(s) \in s
  BY DEF Pick

LEMMA SumsExist ==
    ASSUME NEW S, IsFiniteSet(S), NEW f
    PROVE  \E h : Sums(h, f, S)
<1> DEFINE Small(n) == {s \in SUBSET S : Cardinality(s) <= n}
           Exists(n) == \E h : h = [s \in Small(n) |-> NextSum(h, f, s)]
           T == {n \in Nat : Exists(n)}
<1>1. \A s \in SUBSET S : IsFiniteSet(s) /\ Cardinality(s) \in Nat
  BY FS_Subset, FS_CardinalityType
<1>2. 0 \in T
  <2> DEFINE h == [s \in Small(0) |-> 0]
  <2>1. \A s \in Small(0) : s = {}
    BY <1>1, FS_EmptySet
  <2>2. h = [s \in Small(0) |-> NextSum(h, f, s)]
    BY <2>1 DEF NextSum
  <2> QED BY <2>2
<1>3. ASSUME NEW n \in Nat, n \in T PROVE n + 1 \in T
  <2>1. PICK h : h = [s \in Small(n) |-> NextSum(h, f, s)]
    BY <1>3
  <2> DEFINE g == [s \in Small(n + 1) |-> NextSum(h, f, s)]
  <2>2. \A s \in Small(n) : s \in Small(n + 1) /\ g[s] = h[s]
    BY <1>1, <2>1
  <2>3. \A s \in Small(n + 1) : s # {} => s \ {Pick(s)} \in Small(n)
    BY <1>1, Picked, FS_RemoveElement
  <2>4. \A s \in Small(n + 1) : NextSum(g, f, s) = NextSum(h, f, s)
    BY <2>2, <2>3 DEF NextSum
  <2>5. g = [s \in Small(n + 1) |-> NextSum(g, f, s)]
    BY <2>4
  <2>6. Exists(n + 1)
    BY <2>5
  <2> HIDE DEF Exists
  <2> QED BY <2>6
<1>4. Nat \subseteq T
  <2> HIDE DEF T
  <2> QED BY <1>2, <1>3, SetInduction
<1>5. Cardinality(S) \in T
  BY <1>1, <1>4
<1>6. Small(Cardinality(S)) = SUBSET S
  BY <1>1, FS_Subset
<1> QED BY <1>5, <1>6 DEF Sums

LEMMA SumIsSums ==
    ASSUME NEW S, IsFiniteSet(S), NEW f
    PROVE  \E h : Sums(h, f, S) /\ SumFunctionOnSet(f, S) = h[S]
<1> DEFINE h == CHOOSE g : g = [s \in SUBSET S |->
                   IF s = {} THEN 0 ELSE LET x == CHOOSE x \in s : TRUE IN f[x] + g[s \ {x}]]
<1>1. SumFunctionOnSet(f, S) = h[S]
  BY DEF SumFunctionOnSet, FoldFunctionOnSet, MapThenFoldSet
<1>2. h = [s \in SUBSET S |->
             IF s = {} THEN 0 ELSE LET x == CHOOSE x \in s : TRUE IN f[x] + h[s \ {x}]]
  <2>1. PICK e : Sums(e, f, S)
    BY SumsExist
  <2>2. e = [s \in SUBSET S |->
               IF s = {} THEN 0 ELSE LET x == CHOOSE x \in s : TRUE IN f[x] + e[s \ {x}]]
    BY <2>1 DEF Sums, NextSum, Pick
  <2> QED BY <2>2
<1>3. Sums(h, f, S)
  BY <1>2 DEF Sums, NextSum, Pick
<1> QED BY <1>1, <1>3

LEMMA SumsMonotone ==
    ASSUME NEW S, IsFiniteSet(S), NEW f, NEW g, NEW h, NEW k, Sums(h, f, S), Sums(k, g, S),
           \A x \in S : f[x] \in Int /\ g[x] \in Int /\ f[x] <= g[x]
    PROVE  h[S] \in Int /\ k[S] \in Int /\ h[S] <= k[S]
<1> DEFINE Fine(s) == h[s] \in Int /\ k[s] \in Int /\ h[s] <= k[s]
           T == {n \in Nat : \A s \in SUBSET S : Cardinality(s) = n => Fine(s)}
<1>1. \A s \in SUBSET S : IsFiniteSet(s) /\ Cardinality(s) \in Nat
  BY FS_Subset, FS_CardinalityType
<1>2. \A s \in SUBSET S : h[s] = NextSum(h, f, s) /\ k[s] = NextSum(k, g, s)
  BY DEF Sums
<1>3. 0 \in T
  <2>1. \A s \in SUBSET S : Cardinality(s) = 0 => s = {}
    BY <1>1, FS_EmptySet
  <2>2. h[{}] = 0 /\ k[{}] = 0
    BY <1>2 DEF NextSum
  <2>3. \A s \in SUBSET S : Cardinality(s) = 0 => Fine(s)
    BY <2>1, <2>2
  <2> QED BY <2>3
<1>4. ASSUME NEW n \in Nat, n \in T PROVE n + 1 \in T
  <2> SUFFICES ASSUME NEW s \in SUBSET S, Cardinality(s) = n + 1 PROVE Fine(s)
    OBVIOUS
  <2> DEFINE x == Pick(s)
  <2>1. s # {} /\ IsFiniteSet(s)
    BY <1>1, FS_EmptySet
  <2>2. x \in s
    BY <2>1, Picked
  <2>3. Cardinality(s \ {x}) = n
    <3>1. Cardinality(s \ {x}) = Cardinality(s) - 1
      BY <2>1, <2>2, FS_RemoveElement
    <3> QED BY <3>1
  <2>4. Fine(s \ {x})
    BY <1>4, <2>3
  <2>5. h[s] = f[x] + h[s \ {x}] /\ k[s] = g[x] + k[s \ {x}]
    BY <1>2, <2>1 DEF NextSum
  <2> QED BY <2>2, <2>4, <2>5
<1>5. Nat \subseteq T
  <2> HIDE DEF T
  <2> QED BY <1>3, <1>4, SetInduction
<1> QED BY <1>1, <1>5

\* A larger function has a larger sum.
LEMMA SumMonotone ==
    ASSUME NEW S, IsFiniteSet(S), NEW f, NEW g,
           \A x \in S : f[x] \in Int /\ g[x] \in Int /\ f[x] <= g[x]
    PROVE  /\ SumFunctionOnSet(f, S) \in Int /\ SumFunctionOnSet(g, S) \in Int
           /\ SumFunctionOnSet(f, S) <= SumFunctionOnSet(g, S)
<1>1. PICK h : Sums(h, f, S) /\ SumFunctionOnSet(f, S) = h[S]
  BY SumIsSums
<1>2. PICK k : Sums(k, g, S) /\ SumFunctionOnSet(g, S) = k[S]
  BY SumIsSums
<1> QED BY <1>1, <1>2, SumsMonotone

\* A family of subsets that has {} and stays closed when an element joins has all.
LEMMA FiniteInduction ==
    ASSUME NEW S, IsFiniteSet(S), NEW F, {} \in F,
           \A s \in SUBSET S, x \in S : (s \in F /\ x \notin s) => s \cup {x} \in F
    PROVE  S \in F
<1> DEFINE T == {n \in Nat : \A s \in SUBSET S : Cardinality(s) = n => s \in F}
<1>1. \A s \in SUBSET S : IsFiniteSet(s) /\ Cardinality(s) \in Nat
  BY FS_Subset, FS_CardinalityType
<1>2. 0 \in T
  BY <1>1, FS_EmptySet
<1>3. ASSUME NEW n \in Nat, n \in T PROVE n + 1 \in T
  <2> SUFFICES ASSUME NEW s \in SUBSET S, Cardinality(s) = n + 1 PROVE s \in F
    OBVIOUS
  <2>1. s # {} /\ IsFiniteSet(s)
    BY <1>1, FS_EmptySet
  <2>2. PICK x \in s : TRUE
    BY <2>1
  <2>3. Cardinality(s \ {x}) = Cardinality(s) - 1
    BY <2>1, <2>2, FS_RemoveElement
  <2>4. s \ {x} \in F
    BY <1>3, <2>3
  <2>5. (s \ {x}) \cup {x} = s
    BY <2>2
  <2> QED BY <2>2, <2>4, <2>5
<1>4. Nat \subseteq T
  <2> HIDE DEF T
  <2> QED BY <1>2, <1>3, SetInduction
<1> QED BY <1>1, <1>4

\* The tables of sums over two sets agree on what is in both.
LEMMA SumsAgree ==
    ASSUME NEW S, NEW R, IsFiniteSet(S), R \subseteq S, NEW f, NEW g, NEW h, NEW k,
           Sums(h, f, S), Sums(k, g, R), \A x \in R : f[x] = g[x]
    PROVE  h[R] = k[R]
<1> DEFINE T == {n \in Nat : \A s \in SUBSET R : Cardinality(s) = n => h[s] = k[s]}
<1>1. \A s \in SUBSET R : IsFiniteSet(s) /\ Cardinality(s) \in Nat
  BY FS_Subset, FS_CardinalityType
<1>2. \A s \in SUBSET R : h[s] = NextSum(h, f, s) /\ k[s] = NextSum(k, g, s)
  BY DEF Sums
<1>3. 0 \in T
  <2>1. h[{}] = k[{}]
    BY <1>2 DEF NextSum
  <2> QED BY <1>1, <2>1, FS_EmptySet
<1>4. ASSUME NEW n \in Nat, n \in T PROVE n + 1 \in T
  <2> SUFFICES ASSUME NEW s \in SUBSET R, Cardinality(s) = n + 1 PROVE h[s] = k[s]
    OBVIOUS
  <2>1. s # {} /\ IsFiniteSet(s)
    BY <1>1, FS_EmptySet
  <2>2. Pick(s) \in s
    BY <2>1, Picked
  <2>3. Cardinality(s \ {Pick(s)}) = Cardinality(s) - 1
    BY <2>1, <2>2, FS_RemoveElement
  <2>4. h[s \ {Pick(s)}] = k[s \ {Pick(s)}]
    BY <1>4, <2>3
  <2>5. f[Pick(s)] = g[Pick(s)]
    BY <2>2
  <2> QED BY <1>2, <2>1, <2>4, <2>5 DEF NextSum
<1>5. Nat \subseteq T
  <2> HIDE DEF T
  <2> QED BY <1>3, <1>4, SetInduction
<1> QED BY <1>1, <1>5

\* Functions that agree on a set have the same sum over it.
LEMMA SumSame ==
    ASSUME NEW S, IsFiniteSet(S), NEW f, NEW g, \A x \in S : f[x] = g[x]
    PROVE  SumFunctionOnSet(f, S) = SumFunctionOnSet(g, S)
<1>1. PICK h : Sums(h, f, S) /\ SumFunctionOnSet(f, S) = h[S]
  BY SumIsSums
<1>2. PICK k : Sums(k, g, S) /\ SumFunctionOnSet(g, S) = k[S]
  BY SumIsSums
<1> QED BY <1>1, <1>2, SumsAgree

LEMMA SumOverNone ==
    ASSUME NEW f
    PROVE  SumFunctionOnSet(f, {}) = 0
<1>1. PICK h : Sums(h, f, {}) /\ SumFunctionOnSet(f, {}) = h[{}]
  BY SumIsSums, FS_EmptySet
<1>2. h[{}] = NextSum(h, f, {})
  BY <1>1 DEF Sums
<1> QED BY <1>1, <1>2 DEF NextSum

LEMMA SumIsInt ==
    ASSUME NEW S, IsFiniteSet(S), NEW f, \A x \in S : f[x] \in Int
    PROVE  SumFunctionOnSet(f, S) \in Int
  BY SumMonotone

\* The order does not matter: any element can be the last one that is added.
LEMMA SumsRemove ==
    ASSUME NEW S, IsFiniteSet(S), NEW f, NEW h, Sums(h, f, S), \A x \in S : f[x] \in Int
    PROVE  \A s \in SUBSET S : h[s] \in Int /\ \A x \in s : h[s] = f[x] + h[s \ {x}]
<1> DEFINE Fine(s) == h[s] \in Int /\ \A x \in s : h[s] = f[x] + h[s \ {x}]
           T == {n \in Nat : \A s \in SUBSET S : Cardinality(s) <= n => Fine(s)}
<1>1. \A s \in SUBSET S : IsFiniteSet(s) /\ Cardinality(s) \in Nat
  BY FS_Subset, FS_CardinalityType
<1>2. \A s \in SUBSET S : h[s] = NextSum(h, f, s)
  BY DEF Sums
<1>3. 0 \in T
  <2>1. h[{}] = 0
    BY <1>2 DEF NextSum
  <2>2. Fine({})
    BY <2>1
  <2>3. \A s \in SUBSET S : Cardinality(s) <= 0 => s = {}
    BY <1>1, FS_EmptySet
  <2> HIDE DEF Fine
  <2> QED BY <2>2, <2>3
<1>4. ASSUME NEW n \in Nat, n \in T PROVE n + 1 \in T
  <2> SUFFICES ASSUME NEW s \in SUBSET S, Cardinality(s) <= n + 1 PROVE Fine(s)
    OBVIOUS
  <2>e. CASE s = {}
    <3>1. h[{}] = 0
      BY <1>2 DEF NextSum
    <3> QED BY <2>e, <3>1
  <2> SUFFICES ASSUME s # {} PROVE Fine(s)
    BY <2>e
  <2> DEFINE y == Pick(s)
  <2>1. y \in s
    BY Picked
  <2>2. ASSUME NEW x \in s PROVE Cardinality(s \ {x}) <= n
    <3>1. Cardinality(s \ {x}) = Cardinality(s) - 1
      BY <1>1, FS_RemoveElement
    <3> QED BY <3>1, <1>1
  <2>3. \A x \in s : Fine(s \ {x})
    BY <1>4, <2>2
  <2>4. h[s] = f[y] + h[s \ {y}] /\ f[y] \in Int
    BY <1>2, <2>1 DEF NextSum
  <2>5. h[s] \in Int
    <3>1. h[s \ {y}] \in Int
      BY <2>1, <2>3
    <3> QED BY <2>4, <3>1
  <2>6. ASSUME NEW x \in s, x # y PROVE h[s] = f[x] + h[s \ {x}]
    <3>1. (s \ {y}) \ {x} = (s \ {x}) \ {y}
      OBVIOUS
    <3>2. x \in s \ {y} /\ y \in s \ {x}
      BY <2>1, <2>6
    <3>3. h[s \ {y}] = f[x] + h[(s \ {y}) \ {x}]
      BY <2>1, <2>3, <3>2
    <3>4. h[s \ {x}] = f[y] + h[(s \ {x}) \ {y}]
      BY <2>3, <3>2
    <3>5. h[(s \ {x}) \ {y}] \in Int /\ f[x] \in Int
      <4>1. Cardinality((s \ {x}) \ {y}) <= n
        BY <2>2, <1>1, FS_Subset
      <4> QED BY <4>1, <1>4
    <3>6. /\ h[s] = f[y] + (f[x] + h[(s \ {x}) \ {y}])
          /\ f[x] + h[s \ {x}] = f[x] + (f[y] + h[(s \ {x}) \ {y}])
      BY <2>4, <3>1, <3>3, <3>4
    <3>7. \A a, b, c \in Int : a + (b + c) = b + (a + c)
      OBVIOUS
    <3>8. f[y] \in Int /\ f[x] \in Int /\ h[(s \ {x}) \ {y}] \in Int
      BY <2>4, <3>5
    <3> HIDE DEF y, Fine, T
    <3> QED BY <3>6, <3>7, <3>8
  <2> QED BY <2>1, <2>4, <2>5, <2>6
<1>5. Nat \subseteq T
  <2> HIDE DEF T
  <2> QED BY <1>3, <1>4, SetInduction
<1> QED BY <1>1, <1>5

LEMMA SumAdd ==
    ASSUME NEW S, IsFiniteSet(S), NEW x, x \notin S, NEW f, \A y \in S \cup {x} : f[y] \in Int
    PROVE  /\ SumFunctionOnSet(f, S \cup {x}) = f[x] + SumFunctionOnSet(f, S)
           /\ f[x] \in Int /\ SumFunctionOnSet(f, S) \in Int
<1> DEFINE R == S \cup {x}
<1>1. IsFiniteSet(R)
  BY FS_AddElement
<1>2. PICK h : Sums(h, f, R) /\ SumFunctionOnSet(f, R) = h[R]
  BY <1>1, SumIsSums
<1>3. PICK k : Sums(k, f, S) /\ SumFunctionOnSet(f, S) = k[S]
  BY SumIsSums
<1>4. h[S] = k[S]
  BY <1>1, <1>2, <1>3, SumsAgree
<1>5. R \ {x} = S /\ x \in R /\ R \in SUBSET R
  OBVIOUS
<1>6. h[R] = f[x] + h[R \ {x}]
  <2>1. \A y \in R : f[y] \in Int
    OBVIOUS
  <2> HIDE DEF R
  <2> QED BY <1>1, <1>2, <1>5, <2>1, SumsRemove
<1> QED BY <1>2, <1>3, <1>4, <1>5, <1>6, SumIsInt

\* The sum over two sets that have nothing in common.
LEMMA SumUnion ==
    ASSUME NEW A, NEW B, IsFiniteSet(A), IsFiniteSet(B), A \cap B = {},
           NEW f, \A x \in A \cup B : f[x] \in Int
    PROVE  SumFunctionOnSet(f, A \cup B) = SumFunctionOnSet(f, A) + SumFunctionOnSet(f, B)
<1> DEFINE F == {s \in SUBSET B : SumFunctionOnSet(f, A \cup s)
                                   = SumFunctionOnSet(f, A) + SumFunctionOnSet(f, s)}
<1>1. {} \in F
  <2>1. A \cup {} = A
    OBVIOUS
  <2>2. SumFunctionOnSet(f, A) \in Int
    BY SumIsInt
  <2> QED BY <2>1, <2>2, SumOverNone
<1>2. ASSUME NEW s \in SUBSET B, NEW x \in B, s \in F, x \notin s PROVE s \cup {x} \in F
  <2>1. IsFiniteSet(s) /\ IsFiniteSet(A \cup s)
    BY FS_Subset, FS_Union
  <2>2. x \notin A \cup s /\ (A \cup s) \cup {x} = A \cup (s \cup {x})
    BY <1>2
  <2>3. /\ SumFunctionOnSet(f, (A \cup s) \cup {x}) = f[x] + SumFunctionOnSet(f, A \cup s)
        /\ f[x] \in Int
    BY <2>1, <2>2, SumAdd
  <2>4. SumFunctionOnSet(f, s \cup {x}) = f[x] + SumFunctionOnSet(f, s)
    BY <1>2, <2>1, SumAdd
  <2>5. SumFunctionOnSet(f, A) \in Int /\ SumFunctionOnSet(f, s) \in Int
    BY <2>1, SumIsInt
  <2>6. SumFunctionOnSet(f, A \cup s) = SumFunctionOnSet(f, A) + SumFunctionOnSet(f, s)
    BY <1>2
  <2>7. SumFunctionOnSet(f, A \cup (s \cup {x}))
        = SumFunctionOnSet(f, A) + SumFunctionOnSet(f, s \cup {x})
    <3>1. \A a, b, c \in Int : a + (b + c) = b + (a + c)
      OBVIOUS
    <3>2. /\ SumFunctionOnSet(f, A \cup (s \cup {x}))
             = f[x] + (SumFunctionOnSet(f, A) + SumFunctionOnSet(f, s))
          /\ SumFunctionOnSet(f, A) + SumFunctionOnSet(f, s \cup {x})
             = SumFunctionOnSet(f, A) + (f[x] + SumFunctionOnSet(f, s))
      BY <2>2, <2>3, <2>4, <2>6
    <3> QED BY <2>3, <2>5, <3>1, <3>2
  <2> QED BY <2>7
<1>3. B \in F
  <2> HIDE DEF F
  <2> QED BY <1>1, <1>2, FiniteInduction
<1> QED BY <1>3

\* Elements for which the function is zero can be left out.
LEMMA SumZeros ==
    ASSUME NEW S, NEW R, IsFiniteSet(S), R \subseteq S, NEW f,
           \A x \in R : f[x] \in Int, \A x \in S \ R : f[x] = 0
    PROVE  SumFunctionOnSet(f, S) = SumFunctionOnSet(f, R)
<1>1. IsFiniteSet(R) /\ IsFiniteSet(S \ R)
  BY FS_Subset
<1> DEFINE F == {s \in SUBSET (S \ R) : SumFunctionOnSet(f, s) = 0}
<1>2. {} \in F
  BY SumOverNone
<1>3. ASSUME NEW s \in SUBSET (S \ R), NEW x \in S \ R, s \in F, x \notin s
      PROVE  s \cup {x} \in F
  <2>1. IsFiniteSet(s)
    BY <1>1, FS_Subset
  <2>2. \A y \in s \cup {x} : f[y] \in Int
    OBVIOUS
  <2>3. SumFunctionOnSet(f, s \cup {x}) = f[x] + SumFunctionOnSet(f, s)
    BY <1>3, <2>1, <2>2, SumAdd
  <2> QED BY <1>3, <2>3
<1>4. S \ R \in F
  <2> HIDE DEF F
  <2> QED BY <1>1, <1>2, <1>3, FiniteInduction
<1>5. R \cup (S \ R) = S /\ R \cap (S \ R) = {}
  OBVIOUS
<1>6. SumFunctionOnSet(f, R) \in Int
  BY <1>1, SumIsInt
<1> QED BY <1>1, <1>4, <1>5, <1>6, SumUnion

\* The sum of two functions has the sum of their sums.
LEMMA SumPlus ==
    ASSUME NEW S, IsFiniteSet(S), NEW f, NEW g, NEW h,
           \A x \in S : f[x] \in Int /\ g[x] \in Int /\ h[x] = f[x] + g[x]
    PROVE  SumFunctionOnSet(h, S) = SumFunctionOnSet(f, S) + SumFunctionOnSet(g, S)
<1> DEFINE F == {s \in SUBSET S : SumFunctionOnSet(h, s)
                                   = SumFunctionOnSet(f, s) + SumFunctionOnSet(g, s)}
<1>1. {} \in F
  BY SumOverNone
<1>2. ASSUME NEW s \in SUBSET S, NEW x \in S, s \in F, x \notin s PROVE s \cup {x} \in F
  <2>1. IsFiniteSet(s)
    BY FS_Subset
  <2>2. /\ SumFunctionOnSet(f, s \cup {x}) = f[x] + SumFunctionOnSet(f, s)
        /\ f[x] \in Int /\ SumFunctionOnSet(f, s) \in Int
    BY <1>2, <2>1, SumAdd
  <2>3. /\ SumFunctionOnSet(g, s \cup {x}) = g[x] + SumFunctionOnSet(g, s)
        /\ g[x] \in Int /\ SumFunctionOnSet(g, s) \in Int
    BY <1>2, <2>1, SumAdd
  <2>4. SumFunctionOnSet(h, s \cup {x}) = h[x] + SumFunctionOnSet(h, s)
    <3>1. \A y \in s \cup {x} : h[y] \in Int
      OBVIOUS
    <3> QED BY <1>2, <2>1, <3>1, SumAdd
  <2>5. h[x] = f[x] + g[x]
    OBVIOUS
  <2>6. SumFunctionOnSet(h, s) = SumFunctionOnSet(f, s) + SumFunctionOnSet(g, s)
    BY <1>2
  <2>7. SumFunctionOnSet(h, s \cup {x})
        = SumFunctionOnSet(f, s \cup {x}) + SumFunctionOnSet(g, s \cup {x})
    BY <2>2, <2>3, <2>4, <2>5, <2>6
  <2> QED BY <2>7
<1>3. S \in F
  <2> HIDE DEF F
  <2> QED BY <1>1, <1>2, FiniteInduction
<1> QED BY <1>3

\* Renaming the elements, one to one, does not change the sum.
LEMMA SumRenamed ==
    ASSUME NEW S, IsFiniteSet(S), NEW f, NEW g, NEW m,
           \A x, y \in S : m[x] = m[y] => x = y,
           \A x \in S : f[x] \in Int /\ g[m[x]] = f[x]
    PROVE  SumFunctionOnSet(g, {m[x] : x \in S}) = SumFunctionOnSet(f, S)
<1> DEFINE Img(s) == {m[x] : x \in s}
           F == {s \in SUBSET S : IsFiniteSet(Img(s))
                                  /\ SumFunctionOnSet(g, Img(s)) = SumFunctionOnSet(f, s)}
<1>1. {} \in F
  <2>1. Img({}) = {}
    OBVIOUS
  <2> QED BY <2>1, SumOverNone, FS_EmptySet
<1>2. ASSUME NEW s \in SUBSET S, NEW x \in S, s \in F, x \notin s PROVE s \cup {x} \in F
  <2>1. IsFiniteSet(s) /\ IsFiniteSet(Img(s)) /\ SumFunctionOnSet(g, Img(s)) = SumFunctionOnSet(f, s)
    BY <1>2, FS_Subset
  <2>2. Img(s \cup {x}) = Img(s) \cup {m[x]} /\ m[x] \notin Img(s)
    BY <1>2
  <2>3. \A y \in Img(s) \cup {m[x]} : g[y] \in Int
    OBVIOUS
  <2> HIDE DEF Img
  <2>4. SumFunctionOnSet(g, Img(s) \cup {m[x]}) = g[m[x]] + SumFunctionOnSet(g, Img(s))
    BY <2>1, <2>2, <2>3, SumAdd
  <2>5. SumFunctionOnSet(f, s \cup {x}) = f[x] + SumFunctionOnSet(f, s)
    BY <1>2, <2>1, SumAdd
  <2>6. IsFiniteSet(Img(s) \cup {m[x]})
    BY <2>1, FS_AddElement
  <2>7. SumFunctionOnSet(g, Img(s \cup {x})) = SumFunctionOnSet(f, s \cup {x})
    BY <2>1, <2>2, <2>4, <2>5
  <2> QED BY <2>2, <2>6, <2>7
<1>3. S \in F
  <2> HIDE DEF F
  <2> QED BY <1>1, <1>2, FiniteInduction
<1> QED BY <1>3

LEMMA SumNatural ==
    ASSUME NEW S, IsFiniteSet(S), NEW f, \A x \in S : f[x] \in Int /\ f[x] >= 0
    PROVE  SumFunctionOnSet(f, S) \in Int /\ SumFunctionOnSet(f, S) >= 0
<1> DEFINE zero == [x \in S |-> 0]
<1>1. \A x \in S : zero[x] = 0
  OBVIOUS
<1> HIDE DEF zero
<1>2. SumFunctionOnSet(zero, S) = SumFunctionOnSet(zero, {})
  BY <1>1, SumZeros
<1>3. SumFunctionOnSet(zero, S) = 0
  BY <1>2, SumOverNone
<1>4. \A x \in S : zero[x] \in Int /\ f[x] \in Int /\ zero[x] <= f[x]
  BY <1>1
<1>5. /\ SumFunctionOnSet(f, S) \in Int
      /\ SumFunctionOnSet(zero, S) <= SumFunctionOnSet(f, S)
  BY <1>4, SumMonotone
<1> QED BY <1>3, <1>5

\* k has the sums of f when c chooses the element that is added last.
SumsBy(k, f, c, S) ==
    k = [s \in SUBSET S |-> IF s = {} THEN 0 ELSE k[s \ {c[s]}] + f[c[s]]]

\* A sum that takes its elements in an order of its own is the same.
LEMMA SumInOrder ==
    ASSUME NEW S, IsFiniteSet(S), NEW f, \A x \in S : f[x] \in Int,
           NEW c, \A s \in SUBSET S : s # {} => c[s] \in s, NEW k, SumsBy(k, f, c, S)
    PROVE  k[S] = SumFunctionOnSet(f, S)
<1>1. PICK h : Sums(h, f, S) /\ SumFunctionOnSet(f, S) = h[S]
  BY SumIsSums
<1> DEFINE T == {n \in Nat : \A s \in SUBSET S : Cardinality(s) = n => k[s] = h[s]}
<1>2. \A s \in SUBSET S : IsFiniteSet(s) /\ Cardinality(s) \in Nat
  BY FS_Subset, FS_CardinalityType
<1>3. \A s \in SUBSET S : /\ s = {} => h[s] = 0 /\ k[s] = 0
                          /\ s # {} => k[s] = k[s \ {c[s]}] + f[c[s]]
  BY <1>1 DEF Sums, NextSum, SumsBy
<1>4. 0 \in T
  BY <1>2, <1>3, FS_EmptySet
<1>5. ASSUME NEW n \in Nat, n \in T PROVE n + 1 \in T
  <2> SUFFICES ASSUME NEW s \in SUBSET S, Cardinality(s) = n + 1 PROVE k[s] = h[s]
    OBVIOUS
  <2>1. s # {} /\ IsFiniteSet(s)
    BY <1>2, FS_EmptySet
  <2>2. c[s] \in s
    BY <2>1
  <2>3. Cardinality(s \ {c[s]}) = Cardinality(s) - 1
    BY <2>1, <2>2, FS_RemoveElement
  <2>4. k[s \ {c[s]}] = h[s \ {c[s]}]
    BY <1>5, <2>3
  <2>5. h[s] = f[c[s]] + h[s \ {c[s]}] /\ h[s \ {c[s]}] \in Int
    BY <1>1, <2>2, SumsRemove
  <2>6. f[c[s]] \in Int
    BY <2>2
  <2>7. k[s] = k[s \ {c[s]}] + f[c[s]]
    BY <1>3, <2>1
  <2> QED BY <2>4, <2>5, <2>6, <2>7
<1>6. Nat \subseteq T
  <2> HIDE DEF T
  <2> QED BY <1>4, <1>5, SetInduction
<1> QED BY <1>1, <1>2, <1>6
================================================================================
