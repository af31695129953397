----------------------------- MODULE ReportsProofs -----------------------------
(***************************************************************************)
(* The agreements of Reports, for any number of portfolios, funds, rows,   *)
(* days and prices.                                                        *)
(*                                                                         *)
(* The operators of Reports sum over sets of rows that depend on windows   *)
(* and choices of portfolios.  The proofs turn each into one sum over all  *)
(* rows, or all funds, of a function that is zero where a row does not     *)
(* count; two reports agree because these functions do, and sums add up    *)
(* because the functions do at each point.                                 *)
(***************************************************************************)
EXTENDS Reports, SumProofs, TLAPS

--------------------------------------------------------------------------------
(* What the proofs need of the tables.                                          *)

\* Units are bought in positive numbers.
BuysAdd ==
    \A t \in Txn :
        (ledger[t] # None /\ ledger[t].type \in {"BUY", "DIVIDEND_REINVEST"})
            => ledger[t].units > 0

TablesInv ==
    /\ ledger \in [Txn -> Row \cup {None}]
    /\ nav \in [Fund -> [Day -> Nat]]
    /\ BuysAdd

LEMMA TablesStay == Spec => []TablesInv
<1> USE ReportsAssumption
<1>1. Init => TablesInv
  BY DEF Init, TablesInv, BuysAdd, NoPrice
<1>2. TablesInv /\ [Next]_vars => TablesInv'
  <2> SUFFICES ASSUME TablesInv, [Next]_vars PROVE TablesInv'
    OBVIOUS
  <2>1. ASSUME NEW t \in Txn, NEW row \in Row, Trade(t, row) PROVE TablesInv'
    <3>1. row.type \in {"BUY", "DIVIDEND_REINVEST"} => row.units > 0
      BY <2>1 DEF Trade
    <3> QED BY <2>1, <3>1 DEF Trade, TablesInv, BuysAdd
  <2>2. ASSUME NEW t \in Txn, Untrade(t) PROVE TablesInv'
    BY <2>2 DEF Untrade, TablesInv, BuysAdd
  <2>3. ASSUME NEW f \in Fund, NEW d \in PriceDay, NEW price \in Price, PutPrice(f, d, price)
        PROVE  TablesInv'
    <3>1. d \in Day
      BY DEF Day
    <3> QED BY <2>3, <3>1 DEF PutPrice, TablesInv, BuysAdd
  <2>4. CASE UNCHANGED vars
    BY <2>4 DEF vars, TablesInv, BuysAdd
  <2> QED BY <2>1, <2>2, <2>3, <2>4 DEF Next
<1> QED BY <1>1, <1>2, PTL DEF Spec

--------------------------------------------------------------------------------
(* Days.                                                                        *)

LEMMA Days == MaxDay \in Nat \ {0} /\ \A d \in Day : d \in Nat \ {0} /\ d <= MaxDay
<1>1. MaxDay \in Nat \ {0}
  BY ReportsAssumption
<1> QED BY <1>1 DEF Day

LEMMA MinOfDays ==
    ASSUME NEW S, S \subseteq Nat, S # {}
    PROVE  Min(S) \in S /\ \A d \in S : Min(S) <= d
<1>1. \E n \in S : \A m \in S : n <= m
  BY Smallest
<1> QED BY <1>1 DEF Min

LEMMA MaxOfDays ==
    ASSUME NEW S, S \subseteq Day, S # {}
    PROVE  Max(S) \in S /\ \A d \in S : Max(S) >= d
<1> DEFINE T == {MaxDay - d : d \in S}
<1>1. T \subseteq Nat /\ T # {}
  BY Days
<1>2. PICK n \in T : \A m \in T : n <= m
  BY <1>1, Smallest
<1>3. PICK d \in S : n = MaxDay - d
  BY <1>2
<1>4. \A e \in S : d >= e
  <2>1. \A e \in S : MaxDay - d <= MaxDay - e
    BY <1>2, <1>3
  <2> QED BY <2>1, Days
<1> QED BY <1>4 DEF Max

LEMMA LastOfDays ==
    ASSUME NEW S, S \subseteq Day
    PROVE  /\ LastOf(S) \in Day \cup {0}
           /\ LastOf(S) = 0 <=> S = {}
           /\ LastOf(S) # 0 => LastOf(S) \in S
           /\ \A d \in S : d <= LastOf(S)
<1>0. 0 \notin Day
  BY Days
<1>1. CASE S = {}
  BY <1>1 DEF LastOf
<1>2. CASE S # {}
  <2>1. LastOf(S) = Max(S)
    BY <1>2 DEF LastOf
  <2>2. Max(S) \in S /\ \A d \in S : Max(S) >= d
    BY <1>2, MaxOfDays
  <2>3. Max(S) \in Int /\ \A d \in S : d \in Int
    BY <2>2, Days
  <2> QED BY <1>0, <1>2, <2>1, <2>2, <2>3
<1> QED BY <1>1, <1>2

--------------------------------------------------------------------------------
(* Roundings.                                                                   *)

LEMMA Products ==
    /\ \A a, b \in Int : a * b \in Int
    /\ \A a, b, c \in Int : (a + b) * c = a * c + b * c
  OBVIOUS

LEMMA Quotient ==
    ASSUME NEW a \in Int, NEW c \in Nat \ {0}
    PROVE  a \div c \in Int /\ c * (a \div c) <= a /\ a < c * (a \div c) + c
  OBVIOUS

LEMMA RoundUpNear ==
    ASSUME NEW a \in Int, NEW b \in Nat \ {0}
    PROVE  /\ RoundUp(a, b) \in Int
           /\ 2 * (b * RoundUp(a, b)) <= 2 * a + b
           /\ 2 * a < 2 * (b * RoundUp(a, b)) + b
<1> DEFINE q == (2 * a + b) \div (2 * b)
<1>1. q \in Int /\ (2 * b) * q <= 2 * a + b /\ 2 * a + b < (2 * b) * q + 2 * b
  <2>1. 2 * a + b \in Int /\ 2 * b \in Nat \ {0}
    OBVIOUS
  <2> QED BY <2>1, Quotient
<1>2. RoundUp(a, b) = q
  BY DEF RoundUp
<1> HIDE DEF q
<1>3. (2 * b) * q = 2 * (b * q) /\ b * q \in Int
  BY <1>1
<1> QED BY <1>1, <1>2, <1>3

\* A rounding is at most a half off, and less than that on the side of zero.
LEMMA RoundAwayNear ==
    ASSUME NEW a \in Int, NEW b \in Nat \ {0}
    PROVE  /\ RoundAway(a, b) \in Int /\ b * RoundAway(a, b) \in Int
           /\ 2 * (b * RoundAway(a, b)) <= 2 * a + b
           /\ 2 * a <= 2 * (b * RoundAway(a, b)) + b
           /\ a >= 0 => 2 * a < 2 * (b * RoundAway(a, b)) + b
           /\ a < 0 => 2 * (b * RoundAway(a, b)) < 2 * a + b
<1>1. CASE a >= 0
  <2>1. RoundAway(a, b) = RoundUp(a, b)
    BY <1>1 DEF RoundAway
  <2> DEFINE q == RoundUp(a, b)
  <2>2. q \in Int /\ 2 * (b * q) <= 2 * a + b /\ 2 * a < 2 * (b * q) + b
    BY RoundUpNear
  <2>3. b * q \in Int
    BY <2>2, Products
  <2> HIDE DEF q
  <2> QED BY <1>1, <2>1, <2>2, <2>3 DEF q
<1>2. CASE a < 0
  <2> DEFINE q == RoundUp(-a, b)
  <2>1. RoundAway(a, b) = -q
    BY <1>2 DEF RoundAway
  <2>2. q \in Int /\ 2 * (b * q) <= 2 * (-a) + b /\ 2 * (-a) < 2 * (b * q) + b
    BY RoundUpNear
  <2> HIDE DEF q
  <2>3. b * (-q) = -(b * q) /\ b * q \in Int
    BY <2>2
  <2> QED BY <1>2, <2>1, <2>2, <2>3
<1> QED BY <1>1, <1>2

\* The sum of the roundings and the rounding of the sum are at most half as far
\* apart as there are terms.
LEMMA RoundingsAdd ==
    ASSUME NEW S, IsFiniteSet(S), NEW b \in Nat \ {0}, NEW v, NEW r,
           \A x \in S : v[x] \in Int /\ r[x] = RoundAway(v[x], b)
    PROVE  LET gap == SumFunctionOnSet(r, S) - RoundAway(SumFunctionOnSet(v, S), b)
           IN gap \in -(Cardinality(S) \div 2)..(Cardinality(S) \div 2)
<1> DEFINE R(s) == b * SumFunctionOnSet(r, s)
           V(s) == SumFunctionOnSet(v, s)
           N(s) == Cardinality(s) * b
           Fine(s) == /\ R(s) \in Int /\ V(s) \in Int /\ N(s) \in Int
                      /\ 2 * R(s) <= 2 * V(s) + N(s)
                      /\ 2 * V(s) <= 2 * R(s) + N(s)
                      /\ (\E x \in s : v[x] < 0) => 2 * R(s) < 2 * V(s) + N(s)
                      /\ (\E x \in s : v[x] >= 0) => 2 * V(s) < 2 * R(s) + N(s)
           F == {s \in SUBSET S : Fine(s)}
<1>1. \A x \in S : r[x] \in Int /\ v[x] \in Int
  BY RoundAwayNear
<1>2. {} \in F
  <2>1. Fine({})
    BY SumOverNone, FS_EmptySet
  <2> QED BY <2>1
<1>3. ASSUME NEW s \in SUBSET S, NEW x \in S, s \in F, x \notin s PROVE s \cup {x} \in F
  <2>1. IsFiniteSet(s) /\ Cardinality(s) \in Nat
    BY FS_Subset, FS_CardinalityType
  <2>2. SumFunctionOnSet(r, s \cup {x}) = r[x] + SumFunctionOnSet(r, s)
        /\ SumFunctionOnSet(r, s) \in Int
    BY <1>1, <1>3, <2>1, SumAdd
  <2>3. SumFunctionOnSet(v, s \cup {x}) = v[x] + SumFunctionOnSet(v, s)
    BY <1>1, <1>3, <2>1, SumAdd
  <2>4. Cardinality(s \cup {x}) = Cardinality(s) + 1
    BY <1>3, <2>1, FS_AddElement
  <2>5. \A c, d \in Int : b * (c + d) = b * c + b * d /\ (c + 1) * b = c * b + b
    OBVIOUS
  <2>6. R(s \cup {x}) = b * r[x] + R(s) /\ N(s \cup {x}) = N(s) + b
        /\ V(s \cup {x}) = v[x] + V(s)
    <3>1. b * SumFunctionOnSet(r, s \cup {x}) = b * r[x] + b * SumFunctionOnSet(r, s)
      BY <1>1, <2>2, <2>5
    <3>2. Cardinality(s \cup {x}) * b = Cardinality(s) * b + b
      BY <2>1, <2>4, <2>5
    <3> QED BY <2>3, <3>1, <3>2
  <2>7. /\ v[x] \in Int /\ b * r[x] \in Int
        /\ 2 * (b * r[x]) <= 2 * v[x] + b
        /\ 2 * v[x] <= 2 * (b * r[x]) + b
        /\ v[x] >= 0 => 2 * v[x] < 2 * (b * r[x]) + b
        /\ v[x] < 0 => 2 * (b * r[x]) < 2 * v[x] + b
    BY RoundAwayNear
  <2>8. Fine(s)
    BY <1>3
  <2> DEFINE q == b * r[x]
  <2> HIDE DEF R, V, N, q, F
  <2>9. Fine(s \cup {x})
    <3>1. /\ R(s \cup {x}) \in Int /\ V(s \cup {x}) \in Int /\ N(s \cup {x}) \in Int
          /\ 2 * R(s \cup {x}) <= 2 * V(s \cup {x}) + N(s \cup {x})
          /\ 2 * V(s \cup {x}) <= 2 * R(s \cup {x}) + N(s \cup {x})
      BY <2>6, <2>7, <2>8 DEF q
    <3>2. (\E y \in s \cup {x} : v[y] < 0)
            => 2 * R(s \cup {x}) < 2 * V(s \cup {x}) + N(s \cup {x})
      <4>1. CASE v[x] < 0
        BY <2>6, <2>7, <2>8, <4>1 DEF q
      <4>2. CASE \E y \in s : v[y] < 0
        BY <2>6, <2>7, <2>8, <4>2 DEF q
      <4> QED BY <4>1, <4>2
    <3>3. (\E y \in s \cup {x} : v[y] >= 0)
            => 2 * V(s \cup {x}) < 2 * R(s \cup {x}) + N(s \cup {x})
      <4>1. CASE v[x] >= 0
        BY <2>6, <2>7, <2>8, <4>1 DEF q
      <4>2. CASE \E y \in s : v[y] >= 0
        BY <2>6, <2>7, <2>8, <4>2 DEF q
      <4> QED BY <4>1, <4>2
    <3> QED BY <3>1, <3>2, <3>3
  <2> HIDE DEF Fine
  <2> QED BY <2>9 DEF F
<1>4. S \in F
  <2> HIDE DEF F
  <2> QED BY <1>2, <1>3, FiniteInduction
<1>5. Fine(S)
  BY <1>4
<1> DEFINE n == Cardinality(S)
           t == RoundAway(V(S), b)
           g == SumFunctionOnSet(r, S)
<1>6. n \in Nat /\ g \in Int /\ V(S) \in Int
  BY <1>1, <1>5, FS_CardinalityType, SumIsInt
<1>7. /\ t \in Int /\ b * t \in Int
      /\ 2 * (b * t) <= 2 * V(S) + b
      /\ 2 * V(S) <= 2 * (b * t) + b
      /\ V(S) >= 0 => 2 * V(S) < 2 * (b * t) + b
      /\ V(S) < 0 => 2 * (b * t) < 2 * V(S) + b
  BY <1>6, RoundAwayNear
<1>8. V(S) < 0 => \E x \in S : v[x] < 0
  <2> SUFFICES ASSUME \A x \in S : ~(v[x] < 0) PROVE V(S) >= 0
    BY <1>6
  <2>1. \A x \in S : v[x] \in Int /\ v[x] >= 0
    BY <1>1
  <2> QED BY <2>1, SumNatural
<1>9. V(S) >= 0 /\ S # {} => \E x \in S : v[x] >= 0
  <2> SUFFICES ASSUME \A x \in S : ~(v[x] >= 0), S # {} PROVE V(S) < 0
    BY <1>6
  <2>1. \A x \in S : v[x] \in Int /\ v[x] < 0
    BY <1>1
  <2>2. PICK x \in S : TRUE
    OBVIOUS
  <2> DEFINE rest == S \ {x}
             minus == [y \in S |-> -v[y]]
  <2>3. IsFiniteSet(rest) /\ x \notin rest /\ rest \cup {x} = S
    BY <2>2, FS_Subset
  <2>4. V(S) = v[x] + SumFunctionOnSet(v, rest) /\ SumFunctionOnSet(v, rest) \in Int
    <3> HIDE DEF rest
    <3>1. \A y \in rest \cup {x} : v[y] \in Int
      BY <2>1, <2>3
    <3> QED BY <2>3, <3>1, SumAdd
  <2> DEFINE zero == [y \in S |-> 0]
  <2>5. \A y \in rest : v[y] \in Int /\ zero[y] \in Int /\ v[y] <= zero[y]
    BY <2>1
  <2>6. SumFunctionOnSet(v, rest) <= SumFunctionOnSet(zero, rest)
    <3> HIDE DEF rest, zero
    <3> QED BY <2>3, <2>5, SumMonotone
  <2>7. SumFunctionOnSet(zero, rest) = 0
    <3>1. \A y \in rest : zero[y] = 0
      OBVIOUS
    <3> HIDE DEF rest, zero
    <3>2. SumFunctionOnSet(zero, rest) = SumFunctionOnSet(zero, {})
      BY <2>3, <3>1, SumZeros
    <3> QED BY <3>2, SumOverNone
  <2> HIDE DEF V, rest, zero
  <2> QED BY <2>1, <2>2, <2>4, <2>6, <2>7
<1>10. b * (g - t) = b * g - b * t /\ b * g = R(S) /\ b * g \in Int /\ N(S) = n * b
  BY <1>6, <1>7
<1>11. /\ 2 * (b * (g - t)) < (n + 1) * b
       /\ -((n + 1) * b) < 2 * (b * (g - t)) \/ (n = 0 /\ -b <= 2 * (b * (g - t)))
  <2>1. (n + 1) * b = n * b + b /\ n * b \in Int
    BY <1>6
  <2>2. n = 0 => n * b = 0
    OBVIOUS
  <2>3. n # 0 => S # {}
    BY FS_EmptySet
  <2> DEFINE h == b * g
             k == b * t
             nb == n * b
  <2>4. /\ 2 * h <= 2 * V(S) + nb
        /\ 2 * V(S) <= 2 * h + nb
        /\ V(S) < 0 => 2 * h < 2 * V(S) + nb
        /\ V(S) >= 0 /\ n # 0 => 2 * V(S) < 2 * h + nb
    BY <1>5, <1>8, <1>9, <1>10, <2>3
  <2>5. b * (g - t) = h - k /\ h \in Int /\ k \in Int /\ nb \in Int
    BY <1>7, <1>10, <2>1
  <2>6. /\ 2 * k <= 2 * V(S) + b
        /\ 2 * V(S) <= 2 * k + b
        /\ V(S) >= 0 => 2 * V(S) < 2 * k + b
        /\ V(S) < 0 => 2 * k < 2 * V(S) + b
    BY <1>7
  <2> HIDE DEF h, k, nb, n, V, t, g
  <2>7. 2 * (h - k) < nb + b
    BY <1>6, <2>4, <2>5, <2>6
  <2>8. -(nb + b) < 2 * (h - k) \/ (n = 0 /\ -b <= 2 * (h - k))
    BY <1>6, <2>2, <2>4, <2>5, <2>6 DEF nb
  <2> QED BY <2>1, <2>5, <2>7, <2>8 DEF nb
<1> HIDE DEF n, t, g
<1>12. 2 * (g - t) <= n /\ -n <= 2 * (g - t)
  <2>1. \A c, d \in Int : b * c < d * b => c < d
    OBVIOUS
  <2>2. 2 * (b * (g - t)) = b * (2 * (g - t)) /\ -((n + 1) * b) = (-(n + 1)) * b /\ b = 1 * b
    BY <1>6, <1>7
  <2> QED BY <1>6, <1>7, <1>11, <2>1, <2>2
<1>13. g - t \in -(n \div 2)..(n \div 2)
  BY <1>6, <1>7, <1>12
<1> QED BY <1>13 DEF n, t, g

LEMMA QuotientBound ==
    ASSUME NEW m \in Int, NEW e \in Nat \ {0}, NEW k \in Int, e * k <= m
    PROVE  k <= m \div e
<1> DEFINE q == m \div e
<1>1. q \in Int /\ m < e * q + e
  BY Quotient
<1> HIDE DEF q
<1>2. e * q + e = e * (q + 1) /\ e * (q + 1) \in Int /\ e * k \in Int
  BY <1>1
<1>3. e * k < e * (q + 1)
  BY <1>1, <1>2
<1>4. \A c, d \in Int : e * c < e * d => c < d
  OBVIOUS
<1>5. k < q + 1
  BY <1>1, <1>3, <1>4
<1> QED BY <1>1, <1>5 DEF q

\* Numbers that are close have roundings that are.
LEMMA RoundedNear ==
    ASSUME NEW a \in Int, NEW b \in Int, NEW c \in Nat \ {0}, NEW m \in Nat,
           2 * (a - b) <= m, -m <= 2 * (a - b)
    PROVE  RoundAway(a, c) - RoundAway(b, c) \in -(1 + m \div (2 * c))..(1 + m \div (2 * c))
<1> DEFINE g == RoundAway(a, c) h == RoundAway(b, c) x == c * g y == c * h q == m \div (2 * c)
<1>1. g \in Int /\ x \in Int /\ 2 * x <= 2 * a + c /\ 2 * a <= 2 * x + c
  BY RoundAwayNear
<1>2. h \in Int /\ y \in Int /\ 2 * y <= 2 * b + c /\ 2 * b <= 2 * y + c
  BY RoundAwayNear
<1>3. (2 * c) * (g - h - 1) = 2 * x - 2 * y - 2 * c /\ (2 * c) * (h - g - 1) = 2 * y - 2 * x - 2 * c
  <2> HIDE DEF g, h
  <2> QED BY <1>1, <1>2
<1>4. 2 * c \in Nat \ {0} /\ g - h - 1 \in Int /\ h - g - 1 \in Int /\ q \in Int
  BY <1>1, <1>2, Quotient
<1> HIDE DEF g, h, x, y, q
<1>5. 2 * x - 2 * y - 2 * c <= m /\ 2 * y - 2 * x - 2 * c <= m
  BY <1>1, <1>2
<1>6. g - h - 1 <= q /\ h - g - 1 <= q
  BY <1>3, <1>4, <1>5, QuotientBound DEF q
<1> QED BY <1>1, <1>2, <1>4, <1>6 DEF g, h, q

LEMMA HalfOfFewer ==
    ASSUME NEW m \in Nat, NEW n \in Nat, m <= n, NEW g \in -(m \div 2)..(m \div 2)
    PROVE  g \in -(n \div 2)..(n \div 2)
  OBVIOUS

--------------------------------------------------------------------------------
(* The operators of Reports as functions of the two tables.                     *)

NavBy(n, f, d) ==
    LET seen == {e \in {c \in Day : n[f][c] # NoPrice} : e <= d}
    IN IF LastOf(seen) = 0 THEN NoPrice ELSE n[f][LastOf(seen)]

\* The rows of the portfolios S up to day d.
Counts(l, S, d, t) == l[t] # None /\ l[t].pf \in S /\ l[t].day <= d

Signed(r) == IF r.type \in {"SELL", "SWITCH"} THEN -r.units ELSE r.units

CashOf(r) ==
    CASE r.type \in {"BUY", "DIVIDEND_REINVEST"} -> r.units * r.price + r.fees * One
      [] r.type \in {"SELL", "SWITCH"}           -> -(r.units * r.price - r.fees * One)
      [] OTHER                                   -> 0

\* What each row adds to the units of fund f, and to the cash.
UnitsAdded(l, S, f, d) ==
    [t \in Txn |-> IF Counts(l, S, d, t) /\ l[t].fund = f THEN Signed(l[t]) ELSE 0]

CashAdded(l, S, d) == [t \in Txn |-> IF Counts(l, S, d, t) THEN CashOf(l[t]) ELSE 0]

CashAddedOn(l, S, e) ==
    [t \in Txn |-> IF Counts(l, S, e, t) /\ l[t].day = e THEN CashOf(l[t]) ELSE 0]

UnitsBy(l, S, f, d) == SumFunctionOnSet(UnitsAdded(l, S, f, d), Txn)
CashBy(l, S, d)     == SumFunctionOnSet(CashAdded(l, S, d), Txn)
DayCash(l, S, e)    == SumFunctionOnSet(CashAddedOn(l, S, e), Txn)

\* The casts of the days a to d.
Between(a, d)       == {e \in Day : a <= e /\ e <= d}
DayCasts(l, S)      == [e \in Day |-> Cast(DayCash(l, S, e))]
CastSum(l, S, a, d) == SumFunctionOnSet(DayCasts(l, S), Between(a, d))

\* The cash of a window from day a: a cast for the opening and one for each day since.
CastsBy(l, S, a, d) == Cast(CashBy(l, S, a - 1)) + CastSum(l, S, a, d)

\* The cent in millionths of a millionth.
ACent == One * Cent

ValueAdded(l, n, S, d) == [f \in Fund |-> UnitsBy(l, S, f, d) * NavBy(n, f, d)]
ValueBy(l, n, S, d)    == SumFunctionOnSet(ValueAdded(l, n, S, d), Fund)

PointBy(l, n, S, a, d) ==
    LET value    == RoundAway(ValueBy(l, n, S, d), ACent)
        invested == RoundAway(CastsBy(l, S, a, d), Cent)
        pnl      == value - invested
    IN [value |-> value, invested |-> invested, pnl |-> pnl,
        pct |-> IF invested > 0 THEN RoundAway(pnl * 10000, invested) ELSE 0]

LEMMA Scales ==
    /\ One \in Nat \ {0} /\ Cent \in Nat \ {0} /\ ACent \in Nat \ {0}
    /\ Drift \in Nat \ {0} /\ 2 * Drift < ACent
<1>1. \A a, b \in Nat \ {0} : a * b \in Nat \ {0}
  OBVIOUS
<1> QED BY <1>1, ReportsAssumption DEF ACent

LEMMA RowNumbers ==
    ASSUME NEW r \in Row
    PROVE  /\ r.pf \in Portfolio /\ r.fund \in Fund /\ r.type \in TransactionType
           /\ r.units \in Int /\ r.price \in Int /\ r.fees \in Int /\ r.day \in Day /\ r.day \in Int
           /\ Signed(r) \in Int /\ CashOf(r) \in Int
<1>1. /\ r.pf \in Portfolio /\ r.fund \in Fund /\ r.type \in UsedType
      /\ r.units \in Int /\ r.price \in Int /\ r.fees \in Int /\ r.day \in Day
  <2>1. /\ r.pf \in Portfolio /\ r.fund \in Fund /\ r.type \in UsedType
        /\ r.units \in UnitValue /\ r.price \in Paid /\ r.fees \in Fees /\ r.day \in TradeDay
    BY DEF Row
  <2>2. UnitValue \subseteq Int /\ Paid \subseteq Int /\ Fees \subseteq Int /\ TradeDay \subseteq Day
    BY ReportsAssumption DEF Day
  <2> QED BY <2>1, <2>2
<1>2. r.type \in TransactionType /\ r.day \in Int
  BY <1>1, ReportsAssumption DEF Day
<1>3. r.units * r.price \in Int /\ r.fees * One \in Int
  BY <1>1, Products, Scales
<1>4. Signed(r) \in Int
  BY <1>1 DEF Signed
<1>5. CashOf(r) \in Int
  <2> DEFINE paid == r.units * r.price
             charged == r.fees * One
  <2>1. paid \in Int /\ charged \in Int
    BY <1>3
  <2> HIDE DEF paid, charged
  <2>2. paid + charged \in Int /\ -(paid - charged) \in Int
    BY <2>1
  <2> QED BY <2>2 DEF CashOf, paid, charged
<1> QED BY <1>1, <1>2, <1>4, <1>5

LEMMA UnitsInIsSum ==
    ASSUME NEW T \in SUBSET Txn
    PROVE  UnitsIn(T) = SumFunctionOnSet([t \in Txn |-> SignedUnits(t)], T)
  BY DEF UnitsIn, MapThenSumSet, SumFunctionOnSet, FoldFunctionOnSet, MapThenFoldSet

LEMMA CashInIsSum ==
    ASSUME NEW T \in SUBSET Txn
    PROVE  CashIn(T) = SumFunctionOnSet([t \in Txn |-> Cash(t)], T)
  BY DEF CashIn, MapThenSumSet, SumFunctionOnSet, FoldFunctionOnSet, MapThenFoldSet

LEMMA NavShape == \A f \in Fund, d \in Int : NavOnDate(f, d) = NavBy(nav, f, d)
  BY DEF NavOnDate, NavDay, NavBy, PricedDays

LEMMA NavIsNat ==
    ASSUME NEW n \in [Fund -> [Day -> Nat]], NEW f \in Fund, NEW d \in Int
    PROVE  NavBy(n, f, d) \in Nat
<1> DEFINE seen == {e \in {c \in Day : n[f][c] # NoPrice} : e <= d}
<1>1. LastOf(seen) \in Day \cup {0}
  BY LastOfDays
<1> QED BY <1>1 DEF NavBy, NoPrice

LEMMA AddedInts ==
    ASSUME NEW l \in [Txn -> Row \cup {None}], NEW S, NEW d \in Int, NEW t \in Txn
    PROVE  /\ \A f \in Fund : UnitsAdded(l, S, f, d)[t] \in Int
           /\ CashAdded(l, S, d)[t] \in Int /\ CashAddedOn(l, S, d)[t] \in Int
<1>1. CASE l[t] = None
  BY <1>1 DEF UnitsAdded, CashAdded, CashAddedOn, Counts
<1>2. CASE l[t] \in Row
  BY <1>2, RowNumbers DEF UnitsAdded, CashAdded, CashAddedOn
<1> QED BY <1>1, <1>2

LEMMA UnitsByInt ==
    ASSUME NEW l \in [Txn -> Row \cup {None}], NEW S, NEW d \in Int, NEW f \in Fund
    PROVE  UnitsBy(l, S, f, d) \in Int
  BY AddedInts, SumIsInt, ReportsAssumption DEF UnitsBy

LEMMA CashByInt ==
    ASSUME NEW l \in [Txn -> Row \cup {None}], NEW S, NEW d \in Int
    PROVE  CashBy(l, S, d) \in Int /\ DayCash(l, S, d) \in Int
  BY AddedInts, SumIsInt, ReportsAssumption DEF CashBy, DayCash

LEMMA ValueByInt ==
    ASSUME NEW l \in [Txn -> Row \cup {None}], NEW n \in [Fund -> [Day -> Nat]],
           NEW S, NEW d \in Int
    PROVE  /\ \A f \in Fund : ValueAdded(l, n, S, d)[f] \in Int
           /\ ValueBy(l, n, S, d) \in Int
<1>1. ASSUME NEW f \in Fund PROVE ValueAdded(l, n, S, d)[f] \in Int
  <2>1. UnitsBy(l, S, f, d) \in Int /\ NavBy(n, f, d) \in Int
    BY UnitsByInt, NavIsNat
  <2> QED BY <2>1, Products DEF ValueAdded
<1>2. ValueBy(l, n, S, d) \in Int
  BY <1>1, SumIsInt, ReportsAssumption DEF ValueBy
<1> QED BY <1>1, <1>2

\* The units of a set of rows, when it is those of fund f up to day d.
LEMMA UnitsOfRows ==
    TablesInv => \A S \in SUBSET Portfolio, f \in Fund, d \in Int, T \in SUBSET Txn :
        T = {t \in Txn : Counts(ledger, S, d, t) /\ ledger[t].fund = f}
            => SumFunctionOnSet([t \in Txn |-> SignedUnits(t)], T) = UnitsBy(ledger, S, f, d)
<1> SUFFICES ASSUME TablesInv, NEW S \in SUBSET Portfolio, NEW f \in Fund, NEW d \in Int,
                    NEW T \in SUBSET Txn,
                    T = {t \in Txn : Counts(ledger, S, d, t) /\ ledger[t].fund = f}
             PROVE  SumFunctionOnSet([t \in Txn |-> SignedUnits(t)], T) = UnitsBy(ledger, S, f, d)
  OBVIOUS
<1> DEFINE F == [t \in Txn |-> SignedUnits(t)]
           G == UnitsAdded(ledger, S, f, d)
<1>1. IsFiniteSet(T) /\ IsFiniteSet(Txn)
  BY ReportsAssumption, FS_Subset
<1>2. \A t \in T : F[t] = G[t]
  BY DEF UnitsAdded, SignedUnits, Signed
<1>3. \A t \in Txn \ T : G[t] = 0
  BY DEF UnitsAdded
<1>4. \A t \in Txn : G[t] \in Int
  BY AddedInts DEF TablesInv
<1> HIDE DEF F, G
<1>5. SumFunctionOnSet(F, T) = SumFunctionOnSet(G, T)
  BY <1>1, <1>2, SumSame
<1>6. SumFunctionOnSet(G, Txn) = SumFunctionOnSet(G, T)
  BY <1>1, <1>3, <1>4, SumZeros
<1> QED BY <1>5, <1>6 DEF UnitsBy, F, G

\* The cash of a set of rows, when it is those up to day d, or those of day d.
LEMMA CashOfRows ==
    TablesInv => \A S \in SUBSET Portfolio, d \in Int, T \in SUBSET Txn :
        /\ T = {t \in Txn : Counts(ledger, S, d, t)} => CashIn(T) = CashBy(ledger, S, d)
        /\ T = {t \in Txn : Counts(ledger, S, d, t) /\ ledger[t].day = d}
             => CashIn(T) = DayCash(ledger, S, d)
<1> SUFFICES ASSUME TablesInv, NEW S \in SUBSET Portfolio, NEW d \in Int, NEW T \in SUBSET Txn
             PROVE  /\ T = {t \in Txn : Counts(ledger, S, d, t)}
                         => CashIn(T) = CashBy(ledger, S, d)
                    /\ T = {t \in Txn : Counts(ledger, S, d, t) /\ ledger[t].day = d}
                         => CashIn(T) = DayCash(ledger, S, d)
  OBVIOUS
<1> DEFINE F == [t \in Txn |-> Cash(t)]
<1>1. IsFiniteSet(T) /\ IsFiniteSet(Txn)
  BY ReportsAssumption, FS_Subset
<1>2. CashIn(T) = SumFunctionOnSet(F, T)
  BY CashInIsSum
<1>3. ASSUME NEW G, \A t \in Txn : G[t] \in Int, \A t \in T : G[t] = CashOf(ledger[t]),
             \A t \in Txn \ T : G[t] = 0
      PROVE  CashIn(T) = SumFunctionOnSet(G, Txn)
  <2>1. \A t \in T : F[t] = G[t]
    BY <1>3 DEF Cash, CashOf
  <2> HIDE DEF F
  <2>2. SumFunctionOnSet(F, T) = SumFunctionOnSet(G, T)
    BY <1>1, <2>1, SumSame
  <2>3. SumFunctionOnSet(G, Txn) = SumFunctionOnSet(G, T)
    BY <1>1, <1>3, SumZeros
  <2> QED BY <1>2, <2>2, <2>3
<1>4. \A t \in Txn : CashAdded(ledger, S, d)[t] \in Int /\ CashAddedOn(ledger, S, d)[t] \in Int
  BY AddedInts DEF TablesInv
<1>5. ASSUME T = {t \in Txn : Counts(ledger, S, d, t)} PROVE CashIn(T) = CashBy(ledger, S, d)
  <2> DEFINE G == CashAdded(ledger, S, d)
  <2>1. /\ \A t \in T : G[t] = CashOf(ledger[t])
        /\ \A t \in Txn \ T : G[t] = 0
    BY <1>5 DEF CashAdded
  <2> HIDE DEF G
  <2> QED BY <1>3, <1>4, <2>1 DEF CashBy, G
<1>6. ASSUME T = {t \in Txn : Counts(ledger, S, d, t) /\ ledger[t].day = d}
      PROVE  CashIn(T) = DayCash(ledger, S, d)
  <2> DEFINE G == CashAddedOn(ledger, S, d)
  <2>1. /\ \A t \in T : G[t] = CashOf(ledger[t])
        /\ \A t \in Txn \ T : G[t] = 0
    BY <1>6 DEF CashAddedOn
  <2> HIDE DEF G
  <2> QED BY <1>3, <1>4, <2>1 DEF DayCash, G
<1> QED BY <1>5, <1>6

LEMMA UnitsShape ==
    TablesInv => \A S \in SUBSET Portfolio, f \in Fund, a, d \in Int :
        a <= d => UnitsOn(S, f, a, d) = UnitsBy(ledger, S, f, d)
<1> SUFFICES ASSUME TablesInv, NEW S \in SUBSET Portfolio, NEW f \in Fund,
                    NEW a \in Int, NEW d \in Int, a <= d
             PROVE  UnitsOn(S, f, a, d) = UnitsBy(ledger, S, f, d)
  OBVIOUS
<1> DEFINE A == Of(Opening(RowsOf(S), a), f)
           B == Of(Within(RowsOf(S), a, d), f)
           F == [t \in Txn |-> SignedUnits(t)]
<1>1. A \in SUBSET Txn /\ B \in SUBSET Txn /\ A \cup B \in SUBSET Txn
  BY DEF Of, Opening, Before, Within, RowsOf
<1>2. \A t \in Txn : ledger[t] # None => ledger[t].day \in Int
  BY RowNumbers DEF TablesInv
<1>3. A \cap B = {}
  BY <1>2 DEF Of, Opening, Before, Within, RowsOf
<1>4. A \cup B = {t \in Txn : Counts(ledger, S, d, t) /\ ledger[t].fund = f}
  BY <1>2 DEF Of, Opening, Before, Within, RowsOf, Counts
<1>5. \A t \in A \cup B : F[t] \in Int
  <2> SUFFICES ASSUME NEW t \in A \cup B PROVE F[t] \in Int
    OBVIOUS
  <2>1. t \in Txn /\ ledger[t] \in Row
    BY <1>4 DEF TablesInv, Counts
  <2>2. Signed(ledger[t]) \in Int
    BY <2>1, RowNumbers
  <2> QED BY <2>1, <2>2 DEF Signed, SignedUnits
<1>6. UnitsOn(S, f, a, d) = UnitsIn(A) + UnitsIn(B)
  BY DEF UnitsOn
<1> HIDE DEF A, B, F
<1>7. SumFunctionOnSet(F, A \cup B) = SumFunctionOnSet(F, A) + SumFunctionOnSet(F, B)
  BY <1>1, <1>3, <1>5, SumUnion, ReportsAssumption, FS_Subset
<1>8. UnitsIn(A) = SumFunctionOnSet(F, A) /\ UnitsIn(B) = SumFunctionOnSet(F, B)
  BY <1>1, UnitsInIsSum DEF F
<1>9. SumFunctionOnSet(F, A \cup B) = UnitsBy(ledger, S, f, d)
  BY <1>1, <1>4, UnitsOfRows DEF F
<1> QED BY <1>6, <1>7, <1>8, <1>9

LEMMA NoCash == Cast(0) = 0
<1>1. \A b \in Nat \ {0} : b \div (2 * b) = 0
  OBVIOUS
<1> QED BY <1>1, Scales DEF Cast, RoundAway, RoundUp

\* A day without a trade has no cash.
LEMMA NoTrade ==
    ASSUME NEW l, NEW S, NEW e, \A t \in Txn : ~(Counts(l, S, e, t) /\ l[t].day = e)
    PROVE  DayCash(l, S, e) = 0
<1>1. \A t \in Txn : CashAddedOn(l, S, e)[t] = 0
  BY DEF CashAddedOn
<1>2. SumFunctionOnSet(CashAddedOn(l, S, e), Txn) = SumFunctionOnSet(CashAddedOn(l, S, e), {})
  BY <1>1, SumZeros, ReportsAssumption
<1> QED BY <1>2, SumOverNone DEF DayCash

LEMMA CastIsInt == \A x \in Int : Cast(x) \in Int
  BY RoundAwayNear, Scales DEF Cast

LEMMA FiniteDays == IsFiniteSet(Day) /\ \A a, d : IsFiniteSet(Between(a, d))
<1>1. IsFiniteSet(1..MaxDay)
  BY Days, FS_Interval
<1> QED BY <1>1, FS_Subset DEF Day, Between

LEMMA InvestedShape ==
    TablesInv => \A S \in SUBSET Portfolio, a, d \in Int :
        InvestedOn(S, a, d) = RoundAway(CastsBy(ledger, S, a, d), Cent)
<1> SUFFICES ASSUME TablesInv, NEW S \in SUBSET Portfolio, NEW a \in Int, NEW d \in Int
             PROVE  InvestedOn(S, a, d) = RoundAway(CastsBy(ledger, S, a, d), Cent)
  OBVIOUS
<1> DEFINE O == Opening(RowsOf(S), a)
           CashOn(e) == Cast(CashIn(Within(RowsOf(S), e, e)))
           T == TradeDays(S) \cap a..d
           F == [e \in T |-> CashOn(e)]
           G == DayCasts(ledger, S)
           B == Between(a, d)
<1>1. \A t \in Txn : ledger[t] # None => ledger[t].day \in Day /\ ledger[t].day \in Int
  BY RowNumbers DEF TablesInv
<1>2. CashIn(O) = CashBy(ledger, S, a - 1)
  <2>1. O \in SUBSET Txn /\ O = {t \in Txn : Counts(ledger, S, a - 1, t)}
    BY <1>1 DEF Opening, Before, RowsOf, Counts
  <2>2. a - 1 \in Int
    OBVIOUS
  <2> HIDE DEF O
  <2> QED BY <2>1, <2>2, CashOfRows
<1>3. ASSUME NEW e \in Int PROVE CashIn(Within(RowsOf(S), e, e)) = DayCash(ledger, S, e)
  <2> DEFINE W == Within(RowsOf(S), e, e)
  <2>1. W \in SUBSET Txn /\ W = {t \in Txn : Counts(ledger, S, e, t) /\ ledger[t].day = e}
    BY <1>1 DEF Within, RowsOf, Counts
  <2> HIDE DEF W
  <2>2. CashIn(W) = DayCash(ledger, S, e)
    BY <2>1, CashOfRows
  <2> QED BY <2>2 DEF W
<1>4. MapThenSumSet(CashOn, T) = SumFunctionOnSet(F, T)
  <2> HIDE DEF CashOn, T
  <2> QED BY DEF MapThenSumSet, SumFunctionOnSet, FoldFunctionOnSet, MapThenFoldSet
<1>5. T \subseteq B
  BY <1>1 DEF TradeDays, RowsOf, Between
<1>6. \A e \in T : F[e] = G[e]
  BY <1>1, <1>3 DEF DayCasts, TradeDays, RowsOf
<1>7. \A e \in B : G[e] \in Int
  BY CashByInt, CastIsInt, Days DEF DayCasts, Between, TablesInv
<1>8. \A e \in B \ T : G[e] = 0
  <2> SUFFICES ASSUME NEW e \in B \ T PROVE G[e] = 0
    OBVIOUS
  <2>1. e \in Day /\ e \in Int /\ e \in a..d
    BY Days DEF Between
  <2>2. e \notin TradeDays(S)
    BY <2>1
  <2>3. \A t \in Txn : ~(Counts(ledger, S, e, t) /\ ledger[t].day = e)
    BY <2>2 DEF TradeDays, RowsOf, Counts
  <2>4. DayCash(ledger, S, e) = 0
    BY <2>3, NoTrade
  <2> QED BY <2>1, <2>4, NoCash DEF DayCasts
<1>9. InvestedOn(S, a, d) = RoundAway(Cast(CashIn(O)) + MapThenSumSet(CashOn, T), Cent)
  BY DEF InvestedOn
<1>10. IsFiniteSet(B) /\ IsFiniteSet(T)
  BY <1>5, FiniteDays, FS_Subset
<1> HIDE DEF O, CashOn, T, F, G, B
<1>11. SumFunctionOnSet(F, T) = SumFunctionOnSet(G, T)
  BY <1>6, <1>10, SumSame
<1>12. SumFunctionOnSet(G, B) = SumFunctionOnSet(G, T)
  BY <1>5, <1>7, <1>8, <1>10, SumZeros
<1> QED BY <1>2, <1>4, <1>9, <1>11, <1>12 DEF CastsBy, CastSum, G, B

\* A fund that is not traded by day d adds nothing.
LEMMA NotTraded ==
    ASSUME NEW l, NEW S, NEW f, NEW d,
           \A t \in Txn : ~(Counts(l, S, d, t) /\ l[t].fund = f)
    PROVE  UnitsBy(l, S, f, d) = 0
<1>1. \A t \in Txn : UnitsAdded(l, S, f, d)[t] = 0
  BY DEF UnitsAdded
<1>2. SumFunctionOnSet(UnitsAdded(l, S, f, d), Txn)
      = SumFunctionOnSet(UnitsAdded(l, S, f, d), {})
  BY <1>1, SumZeros, ReportsAssumption
<1> QED BY <1>2, SumOverNone DEF UnitsBy

LEMMA ValueShape ==
    TablesInv => \A S \in SUBSET Portfolio, a, d \in Int :
        a <= d => ValueOn(S, a, d) = RoundAway(ValueBy(ledger, nav, S, d), ACent)
<1> SUFFICES ASSUME TablesInv, NEW S \in SUBSET Portfolio, NEW a \in Int, NEW d \in Int, a <= d
             PROVE  ValueOn(S, a, d) = RoundAway(ValueBy(ledger, nav, S, d), ACent)
  OBVIOUS
<1> DEFINE Value(g) == UnitsOn(S, g[1], a, d) * NavOnDate(g[1], d)
           T == TradedFunds(S)
           G == [g \in T |-> Value(g)]
           K == {ledger[t].fund : t \in RowsOf(S)}
           m == [f \in K |-> <<f, None>>]
           V == ValueAdded(ledger, nav, S, d)
<1>1. ValueOn(S, a, d) = RoundAway(SumFunctionOnSet(G, T), ACent)
  <2>1. MapThenSumSet(Value, T) = SumFunctionOnSet(G, T)
    BY DEF MapThenSumSet, SumFunctionOnSet, FoldFunctionOnSet, MapThenFoldSet
  <2> QED BY <2>1 DEF ValueOn, ACent
<1>2. K \subseteq Fund
  <2>1. \A t \in RowsOf(S) : t \in Txn /\ ledger[t] \in Row
    BY DEF RowsOf, TablesInv
  <2> QED BY <2>1, RowNumbers
<1>3. T = {m[f] : f \in K}
  BY DEF TradedFunds
<1>4. IsFiniteSet(K)
  BY <1>2, ReportsAssumption, FS_Subset
<1>5. \A f \in Fund : V[f] \in Int
  BY ValueByInt DEF TablesInv
<1>6. ASSUME NEW f \in K PROVE G[m[f]] = V[f]
  <2>1. m[f] = <<f, None>> /\ m[f] \in T
    BY <1>3
  <2>2. G[m[f]] = UnitsOn(S, f, a, d) * NavOnDate(f, d)
    BY <2>1
  <2>3. UnitsOn(S, f, a, d) = UnitsBy(ledger, S, f, d) /\ NavOnDate(f, d) = NavBy(nav, f, d)
    BY <1>2, UnitsShape, NavShape
  <2> QED BY <1>2, <2>2, <2>3 DEF ValueAdded
<1>7. \A f, g \in K : m[f] = m[g] => f = g
  OBVIOUS
<1>8. \A f \in K : V[f] \in Int
  BY <1>2, <1>5
<1>9. \A f \in Fund \ K : V[f] = 0
  <2> SUFFICES ASSUME NEW f \in Fund \ K PROVE V[f] = 0
    OBVIOUS
  <2>1. \A t \in Txn : ~(Counts(ledger, S, d, t) /\ ledger[t].fund = f)
    BY DEF Counts, RowsOf
  <2>2. UnitsBy(ledger, S, f, d) = 0
    BY <2>1, NotTraded
  <2>3. NavBy(nav, f, d) \in Int
    BY NavIsNat DEF TablesInv
  <2> QED BY <2>2, <2>3 DEF ValueAdded
<1> HIDE DEF G, T, K, m, V
<1>10. SumFunctionOnSet(G, {m[f] : f \in K}) = SumFunctionOnSet(V, K)
  BY <1>4, <1>6, <1>7, <1>8, SumRenamed
<1>11. SumFunctionOnSet(V, Fund) = SumFunctionOnSet(V, K)
  BY <1>2, <1>5, <1>9, SumZeros, ReportsAssumption
<1> QED BY <1>1, <1>3, <1>10, <1>11 DEF ValueBy, V

\* What a point of the chart depends on the start of the chart for is its casts.
LEMMA PointShape ==
    TablesInv => \A S \in SUBSET Portfolio, a, d \in Int :
        a <= d => Point(S, a, d) = PointBy(ledger, nav, S, a, d)
  BY InvestedShape, ValueShape DEF Point, PointBy

--------------------------------------------------------------------------------
(* The windows of the chart.                                                    *)

LEMMA EndIsDay ==
    TablesInv => \A S \in SUBSET Portfolio, to \in Day \cup {None} : EndDay(S, to) \in Day
<1> SUFFICES ASSUME NEW S \in SUBSET Portfolio, NEW to \in Day \cup {None}
             PROVE  EndDay(S, to) \in Day
  OBVIOUS
<1> DEFINE K == {ledger[t].fund : t \in RowsOf(S)}
           latest == LastOf(UNION {PricedDays(f) : f \in K})
<1>1. UNION {PricedDays(f) : f \in K} \subseteq Day
  BY DEF PricedDays
<1>2. latest \in Day \cup {0}
  BY <1>1, LastOfDays
<1>3. Today \in Day
  BY ReportsAssumption DEF Day
<1>4. EndDay(S, to) = IF to # None THEN to ELSE IF latest # 0 THEN latest ELSE Today
  BY DEF EndDay
<1> HIDE DEF latest, K
<1> QED BY <1>2, <1>3, <1>4

LEMMA StartIsInt ==
    TablesInv => \A S \in SUBSET Portfolio, days \in Nat \cup {None}, end \in Day :
        StartDay(S, days, end) \in Int
<1> SUFFICES ASSUME TablesInv, NEW S \in SUBSET Portfolio, NEW days \in Nat \cup {None},
                    NEW end \in Day
             PROVE  StartDay(S, days, end) \in Int
  OBVIOUS
<1> DEFINE D == TradeDays(S)
<1>1. end \in Int
  BY Days
<1>2. CASE days # None
  <2>1. days \in Int
    BY <1>2
  <2>2. Clamp(days, 2, 3650) \in Int
    BY <2>1 DEF Clamp
  <2> QED BY <1>1, <1>2, <2>2 DEF StartDay
<1>3. CASE days = None /\ RowsOf(S) = {}
  BY <1>1, <1>3 DEF StartDay
<1>4. CASE days = None /\ RowsOf(S) # {}
  <2>1. D \subseteq Nat
    <3>1. \A t \in RowsOf(S) : ledger[t] \in Row
      BY DEF RowsOf, TablesInv
    <3> QED BY <3>1, RowNumbers, Days DEF TradeDays
  <2>2. D # {}
    BY <1>4 DEF TradeDays
  <2>3. Min(D) \in D
    BY <2>1, <2>2, MinOfDays
  <2> QED BY <1>4, <2>1, <2>3 DEF StartDay
<1> QED BY <1>2, <1>3, <1>4

LEMMA SeriesShape ==
    TablesInv => \A S \in SUBSET Portfolio, days \in Nat \cup {None}, to \in Day \cup {None} :
        LET start == StartDay(S, days, EndDay(S, to)) IN
        /\ start \in Int /\ DOMAIN Series(S, days, to) = start..EndDay(S, to)
        /\ \A d \in DOMAIN Series(S, days, to) :
             Series(S, days, to)[d] = PointBy(ledger, nav, S, start, d)
<1> SUFFICES ASSUME TablesInv, NEW S \in SUBSET Portfolio, NEW days \in Nat \cup {None},
                    NEW to \in Day \cup {None}
             PROVE  LET start == StartDay(S, days, EndDay(S, to)) IN
                    /\ start \in Int /\ DOMAIN Series(S, days, to) = start..EndDay(S, to)
                    /\ \A d \in DOMAIN Series(S, days, to) :
                         Series(S, days, to)[d] = PointBy(ledger, nav, S, start, d)
  OBVIOUS
<1> DEFINE end   == EndDay(S, to)
           start == StartDay(S, days, end)
<1>1. end \in Int /\ start \in Int
  BY EndIsDay, StartIsInt, Days
<1>2. Series(S, days, to) = [e \in start..end |-> Point(S, start, e)]
  BY DEF Series
<1> HIDE DEF start, end
<1>3. ASSUME NEW d \in start..end PROVE Series(S, days, to)[d] = PointBy(ledger, nav, S, start, d)
  <2>1. d \in Int /\ start <= d
    BY <1>1
  <2>2. Point(S, start, d) = PointBy(ledger, nav, S, start, d)
    BY <1>1, <2>1, PointShape
  <2> QED BY <1>2, <2>2
<1> QED BY <1>1, <1>2, <1>3 DEF start, end

\* The chart of all days starts before any trade.
LEMMA StartOfAll ==
    TablesInv => \A S \in SUBSET Portfolio, to \in Day \cup {None} :
        LET start == StartDay(S, None, EndDay(S, to))
        IN  /\ \A e \in TradeDays(S) : start <= e
            /\ RowsOf(S) = {} => start = EndDay(S, to)
            /\ RowsOf(S) # {} => start \in TradeDays(S)
<1> SUFFICES ASSUME TablesInv, NEW S \in SUBSET Portfolio, NEW to \in Day \cup {None}
             PROVE  LET start == StartDay(S, None, EndDay(S, to))
                    IN  /\ \A e \in TradeDays(S) : start <= e
                        /\ RowsOf(S) = {} => start = EndDay(S, to)
                        /\ RowsOf(S) # {} => start \in TradeDays(S)
  OBVIOUS
<1>1. StartDay(S, None, EndDay(S, to))
      = IF RowsOf(S) = {} THEN EndDay(S, to) ELSE Min(TradeDays(S))
  BY DEF StartDay
<1>2. CASE RowsOf(S) = {}
  BY <1>1, <1>2 DEF TradeDays
<1>3. CASE RowsOf(S) # {}
  <2>1. \A t \in RowsOf(S) : ledger[t] \in Row
    BY DEF RowsOf, TablesInv
  <2>2. TradeDays(S) \subseteq Nat /\ TradeDays(S) # {}
    BY <1>3, <2>1, RowNumbers, Days DEF TradeDays
  <2> QED BY <1>1, <1>3, <2>2, MinOfDays
<1> QED BY <1>2, <1>3

--------------------------------------------------------------------------------
(* The casts of the cash to six decimals.                                       *)

TradedOf(l, S) == {l[t].day : t \in {u \in Txn : l[u] # None /\ l[u].pf \in S}}

LEMMA CastNear ==
    ASSUME NEW x \in Int
    PROVE  /\ Cast(x) \in Int /\ One * Cast(x) \in Int
           /\ 2 * (One * Cast(x)) - 2 * x <= One /\ -One <= 2 * (One * Cast(x)) - 2 * x
<1>1. One \in Nat \ {0}
  BY Scales
<1> DEFINE y == One * RoundAway(x, One)
<1>2. y \in Int /\ 2 * y <= 2 * x + One /\ 2 * x <= 2 * y + One /\ RoundAway(x, One) \in Int
  BY <1>1, RoundAwayNear
<1> HIDE DEF y
<1>3. 2 * y - 2 * x <= One /\ -One <= 2 * y - 2 * x
  BY <1>1, <1>2
<1> QED BY <1>2, <1>3 DEF y, Cast

\* The cash of the days from a on, exactly, and cast day by day: it is half a
\* millionth off for each day of trading, and not at all for a single one.
CastsFine(l, S, a, d) ==
    LET days  == Cardinality(TradedOf(l, S) \cap Between(a, d))
        casts == CastSum(l, S, a, d)
        cash  == CashBy(l, S, d) - CashBy(l, S, a - 1)
    IN /\ casts \in Int /\ days \in Nat
       /\ 2 * (One * casts) - 2 * cash <= One * days
       /\ -(One * days) <= 2 * (One * casts) - 2 * cash
       /\ days = 0 => casts = 0 /\ cash = 0
       /\ days = 1 => casts = Cast(cash)

LEMMA CastsNear ==
    ASSUME NEW l \in [Txn -> Row \cup {None}], NEW S, NEW a \in Int, NEW c \in Int, a - 1 <= c
    PROVE  CastsFine(l, S, a, c)
<1> DEFINE T == {m \in Nat : CastsFine(l, S, a, a - 1 + m)}
           D(m) == TradedOf(l, S) \cap Between(a, a - 1 + m)
<1>1. \A m \in Nat : IsFiniteSet(D(m)) /\ Cardinality(D(m)) \in Nat
  BY FiniteDays, FS_Subset, FS_CardinalityType
<1>2. 0 \in T
  <2>1. Between(a, a - 1 + 0) = {} /\ a - 1 + 0 = a - 1
    BY Days DEF Between
  <2>2. CastSum(l, S, a, a - 1) = 0
    BY <2>1, SumOverNone DEF CastSum
  <2>3. CashBy(l, S, a - 1) \in Int
    BY CashByInt
  <2>4. Cardinality(TradedOf(l, S) \cap Between(a, a - 1)) = 0
    BY <2>1, FS_EmptySet
  <2>5. One * 0 = 0
    BY Scales
  <2> QED BY <2>1, <2>2, <2>3, <2>4, <2>5 DEF CastsFine
<1>3. ASSUME NEW m \in Nat, m \in T PROVE m + 1 \in T
  <2> DEFINE d == a - 1 + m
             e == a - 1 + (m + 1)
             g == DayCasts(l, S)
             x == DayCash(l, S, e)
  <2>1. d \in Int /\ e \in Int /\ e = d + 1 /\ a <= e
    OBVIOUS
  <2>2. CastsFine(l, S, a, d)
    BY <1>3
  <2>3. x \in Int /\ CashBy(l, S, d) \in Int /\ CashBy(l, S, e) \in Int /\ CashBy(l, S, a - 1) \in Int
    <3> HIDE DEF d, e
    <3> QED BY <2>1, CashByInt
  <2>4. CashBy(l, S, e) = CashBy(l, S, d) + x
    <3> DEFINE f == CashAdded(l, S, d) k == CashAddedOn(l, S, e) h == CashAdded(l, S, e)
    <3> HIDE DEF d, e
    <3>1. ASSUME NEW t \in Txn PROVE f[t] \in Int /\ k[t] \in Int /\ h[t] = f[t] + k[t]
      <4>1. f[t] \in Int /\ k[t] \in Int /\ h[t] \in Int
        BY <2>1, AddedInts
      <4>2. l[t] # None => l[t].day \in Int
        BY RowNumbers
      <4>3. \/ h[t] = f[t] /\ k[t] = 0
            \/ h[t] = k[t] /\ f[t] = 0
        BY <2>1, <4>2 DEF CashAdded, CashAddedOn, Counts
      <4> HIDE DEF f, k, h
      <4> QED BY <4>1, <4>3
    <3> HIDE DEF f, k, h
    <3>2. SumFunctionOnSet(h, Txn) = SumFunctionOnSet(f, Txn) + SumFunctionOnSet(k, Txn)
      BY <3>1, SumPlus, ReportsAssumption
    <3> QED BY <3>2 DEF CashBy, DayCash, f, k, h
  <2>5. e \notin TradedOf(l, S) => x = 0
    <3> SUFFICES ASSUME e \notin TradedOf(l, S) PROVE x = 0
      OBVIOUS
    <3> HIDE DEF e
    <3>1. \A t \in Txn : ~(Counts(l, S, e, t) /\ l[t].day = e)
      BY DEF Counts, TradedOf
    <3> QED BY <3>1, NoTrade
  <2>6. TradedOf(l, S) \subseteq Day
    BY RowNumbers DEF TradedOf
  <2>7. \A b \in Day : g[b] \in Int /\ g[b] = Cast(DayCash(l, S, b))
    BY CashByInt, CastIsInt, Days DEF DayCasts
  <2>8. /\ e \notin Between(a, d)
        /\ e \in Day => Between(a, e) = Between(a, d) \cup {e}
        /\ e \notin Day => Between(a, e) = Between(a, d)
    <3> HIDE DEF d, e
    <3> QED BY <2>1, Days DEF Between
  <2>9. e \in Day => CastSum(l, S, a, e) = Cast(x) + CastSum(l, S, a, d)
    <3> SUFFICES ASSUME e \in Day PROVE CastSum(l, S, a, e) = Cast(x) + CastSum(l, S, a, d)
      OBVIOUS
    <3> DEFINE B == Between(a, d)
    <3>1. IsFiniteSet(B) /\ B \subseteq Day
      BY FiniteDays DEF Between
    <3> HIDE DEF d, e, g, B
    <3>2. \A b \in B \cup {e} : g[b] \in Int
      BY <2>7, <3>1
    <3>3. SumFunctionOnSet(g, B \cup {e}) = g[e] + SumFunctionOnSet(g, B)
      BY <2>8, <3>1, <3>2, SumAdd DEF B
    <3> QED BY <2>7, <2>8, <3>3 DEF CastSum, g, B
  <2> DEFINE k == Cardinality(D(m))
             v == CastSum(l, S, a, d)
             u == CashBy(l, S, d) - CashBy(l, S, a - 1)
  <2>10. /\ v \in Int /\ k \in Nat /\ u \in Int
         /\ 2 * (One * v) - 2 * u <= One * k /\ -(One * k) <= 2 * (One * v) - 2 * u
         /\ k = 0 => v = 0 /\ u = 0
         /\ k = 1 => v = Cast(u)
    BY <2>2, <2>3 DEF CastsFine
  <2>11. CashBy(l, S, e) - CashBy(l, S, a - 1) = u + x
    BY <2>3, <2>4
  <2>12. CASE e \in TradedOf(l, S)
    <3>1. e \in Day
      BY <2>6, <2>12
    <3>2. D(m + 1) = D(m) \cup {e} /\ e \notin D(m)
      <4> HIDE DEF d, e
      <4>1. Between(a, e) = Between(a, d) \cup {e} /\ e \notin Between(a, d)
        BY <2>8, <3>1
      <4> QED BY <2>12, <4>1 DEF d, e
    <3>3. Cardinality(D(m + 1)) = k + 1
      <4> HIDE DEF e, D
      <4> QED BY <1>1, <3>2, FS_AddElement
    <3>4. CastSum(l, S, a, e) = Cast(x) + v
      BY <2>9, <3>1
    <3>5. /\ Cast(x) \in Int /\ One * Cast(x) \in Int
          /\ 2 * (One * Cast(x)) - 2 * x <= One /\ -One <= 2 * (One * Cast(x)) - 2 * x
      BY <2>3, CastNear
    <3> DEFINE y == Cast(x)
               z == CastSum(l, S, a, e)
               w == CashBy(l, S, e) - CashBy(l, S, a - 1)
               j == Cardinality(D(m + 1))
    <3>6. One * (y + v) = One * y + One * v /\ One * (k + 1) = One * k + One /\ One * v \in Int
          /\ One * k \in Int
      <4> HIDE DEF v, k
      <4> QED BY <2>10, <3>5, Scales
    <3>7. z = y + v /\ j = k + 1 /\ w = u + x
      BY <2>11, <3>3, <3>4
    <3> HIDE DEF v, k, u, x, y, z, w, j, d, e, D
    <3>8. z \in Int /\ j \in Nat
      BY <2>10, <3>5, <3>7 DEF y
    <3>9. 2 * (One * z) - 2 * w <= One * j /\ -(One * j) <= 2 * (One * z) - 2 * w
      <4> DEFINE oy == One * y  ov == One * v  ok == One * k
      <4>1. /\ oy \in Int /\ ov \in Int /\ ok \in Int /\ One \in Int /\ x \in Int /\ u \in Int
            /\ 2 * oy - 2 * x <= One /\ -One <= 2 * oy - 2 * x
            /\ 2 * ov - 2 * u <= ok /\ -ok <= 2 * ov - 2 * u
        BY <2>3, <2>10, <3>5, <3>6, Scales DEF y
      <4>2. One * z = oy + ov /\ One * j = ok + One /\ w = u + x
        BY <3>6, <3>7
      <4> HIDE DEF oy, ov, ok
      <4> QED BY <4>1, <4>2
    <3>10. j = 1 => z = Cast(w)
      BY <2>3, <2>10, <3>5, <3>7 DEF y
    <3>11. j # 0
      BY <2>10, <3>7
    <3>12. CastsFine(l, S, a, e)
      BY <3>8, <3>9, <3>10, <3>11 DEF CastsFine, z, w, j, D, e
    <3> QED BY <3>12 DEF e
  <2>13. CASE e \notin TradedOf(l, S)
    <3>1. D(m + 1) = D(m)
      <4> HIDE DEF d, e
      <4>1. TradedOf(l, S) \cap Between(a, e) = TradedOf(l, S) \cap Between(a, d)
        BY <2>8, <2>13
      <4> QED BY <4>1 DEF d, e
    <3>2. x = 0 /\ Cast(x) = 0
      BY <2>5, <2>13, NoCash
    <3>3. CastSum(l, S, a, e) = v
      <4>1. CASE e \in Day
        BY <2>9, <2>10, <3>2, <4>1
      <4>2. CASE e \notin Day
        <5> HIDE DEF d, e
        <5> QED BY <2>8, <4>2 DEF CastSum
      <4> QED BY <4>1, <4>2
    <3>4. CashBy(l, S, e) - CashBy(l, S, a - 1) = u
      BY <2>10, <2>11, <3>2
    <3>5. CastsFine(l, S, a, e)
      <4> HIDE DEF v, u, k
      <4>1. Cardinality(TradedOf(l, S) \cap Between(a, e)) = k
        BY <3>1 DEF k
      <4> HIDE DEF d, e, D
      <4> QED BY <2>10, <3>3, <3>4, <4>1 DEF CastsFine
    <3> QED BY <3>5
  <2> QED BY <2>12, <2>13
<1> HIDE DEF T
<1>4. Nat \subseteq T
  BY <1>2, <1>3, SetInduction
<1>5. c - (a - 1) \in Nat /\ a - 1 + (c - (a - 1)) = c
  OBVIOUS
<1> QED BY <1>4, <1>5 DEF T

LEMMA NothingBefore ==
    ASSUME NEW l \in [Txn -> Row \cup {None}], NEW S, NEW d \in Int, d < 1
    PROVE  CashBy(l, S, d) = 0
<1>1. \A t \in Txn : CashAdded(l, S, d)[t] = 0
  BY RowNumbers, Days DEF CashAdded, Counts
<1>2. SumFunctionOnSet(CashAdded(l, S, d), Txn) = SumFunctionOnSet(CashAdded(l, S, d), {})
  BY <1>1, SumZeros, ReportsAssumption
<1> QED BY <1>2, SumOverNone DEF CashBy

\* One cast of what was traded before day a, and the casts of its days.
LEMMA OpeningNear ==
    ASSUME NEW l \in [Txn -> Row \cup {None}], NEW S, NEW a \in Int
    PROVE  LET opened == Cardinality(TradedOf(l, S) \cap Between(1, a - 1))
               cast   == Cast(CashBy(l, S, a - 1))
               casts  == CastSum(l, S, 1, a - 1)
           IN /\ opened \in Nat /\ cast \in Int /\ casts \in Int
              /\ opened <= 1 => casts = cast
              /\ 2 * (casts - cast) <= opened + 1 /\ -(opened + 1) <= 2 * (casts - cast)
              /\ 2 * (One * cast) - 2 * CashBy(l, S, a - 1) <= One * opened
              /\ -(One * opened) <= 2 * (One * cast) - 2 * CashBy(l, S, a - 1)
<1> DEFINE k == Cardinality(TradedOf(l, S) \cap Between(1, a - 1))
           u == CashBy(l, S, a - 1)
           c == CastSum(l, S, 1, a - 1)
           o == Cast(u)
<1>1. u \in Int
  BY CashByInt
<1>2. /\ o \in Int /\ One * o \in Int
      /\ 2 * (One * o) - 2 * u <= One /\ -One <= 2 * (One * o) - 2 * u
  BY <1>1, CastNear
<1>3. /\ c \in Int /\ k \in Nat
      /\ 2 * (One * c) - 2 * u <= One * k /\ -(One * k) <= 2 * (One * c) - 2 * u
      /\ k = 0 => c = 0 /\ u = 0
      /\ k = 1 => c = Cast(u)
  <2>1. CASE a >= 1
    <3>1. a - 1 \in Int /\ 1 \in Int /\ 1 - 1 <= a - 1 /\ 1 - 1 = 0
      BY <2>1
    <3>2. CastsFine(l, S, 1, a - 1)
      BY <3>1, CastsNear
    <3>3. CashBy(l, S, 0) = 0
      BY NothingBefore
    <3> QED BY <1>1, <3>1, <3>2, <3>3 DEF CastsFine
  <2>2. CASE a < 1
    <3>1. Between(1, a - 1) = {}
      BY <2>2, Days DEF Between
    <3>2. u = 0
      BY <2>2, NothingBefore
    <3>3. c = 0 /\ k = 0
      BY <3>1, SumOverNone, FS_EmptySet DEF CastSum
    <3>4. One * 0 = 0
      BY Scales
    <3> QED BY <3>2, <3>3, <3>4
  <2> QED BY <2>1, <2>2
<1> HIDE DEF c, o, k, u
<1>4. One \in Nat \ {0} /\ One * k \in Int /\ One * c \in Int /\ (One <= One * k \/ k = 0)
  <2>1. \A b \in Nat \ {0}, e \in Nat \ {0} : b <= b * e
    OBVIOUS
  <2> QED BY <1>3, <2>1, Scales, Products
<1>5. k <= 1 => c = o
  BY <1>3, NoCash DEF o
<1>6. 2 * (One * o) - 2 * u <= One * k /\ -(One * k) <= 2 * (One * o) - 2 * u
  <2>1. CASE k = 0
    <3>1. \A b, z \in Int : z = 0 => b * z = 0
      OBVIOUS
    <3>2. o = 0 /\ k = 0 /\ One \in Int
      BY <1>3, <1>5, <2>1, Scales
    <3>3. One * k = 0 /\ One * o = 0
      BY ONLY <3>1, <3>2
    <3> QED BY <1>3, <2>1, <3>3
  <2>2. CASE k # 0
    BY <1>1, <1>2, <1>3, <1>4, <2>2
  <2> QED BY <2>1, <2>2
<1>7. 2 * (c - o) <= k + 1 /\ -(k + 1) <= 2 * (c - o)
  <2> DEFINE oc == One * c oo == One * o ok == One * k
  <2>1. One * (2 * (c - o)) = 2 * oc - 2 * oo /\ One * (k + 1) = ok + One
        /\ One * (2 * (o - c)) = 2 * oo - 2 * oc
    <3>1. \A b, x, y \in Int : b * (2 * (x - y)) = 2 * (b * x) - 2 * (b * y) /\ b * (x + 1) = b * x + b
      OBVIOUS
    <3>2. c \in Int /\ o \in Int /\ k \in Int /\ One \in Int
      BY <1>2, <1>3, Scales
    <3> QED BY ONLY <3>1, <3>2
  <2>2. 2 * oc - 2 * oo <= ok + One /\ 2 * oo - 2 * oc <= ok + One
    <3>1. oc \in Int /\ oo \in Int /\ ok \in Int /\ One \in Int
      BY <1>2, <1>3, Scales, Products
    <3>2. /\ 2 * oo - 2 * u <= One /\ -One <= 2 * oo - 2 * u
          /\ 2 * oc - 2 * u <= ok /\ -ok <= 2 * oc - 2 * u
      BY <1>2, <1>3
    <3> HIDE DEF oc, oo, ok
    <3> QED BY ONLY <1>1, <3>1, <3>2
  <2> HIDE DEF oc, oo, ok
  <2>3. \A b \in Nat \ {0} : \A x, y \in Int : b * x <= b * y => x <= y
    OBVIOUS
  <2>4. 2 * (c - o) <= k + 1 /\ 2 * (o - c) <= k + 1
    <3>1. 2 * (c - o) \in Int /\ 2 * (o - c) \in Int /\ k + 1 \in Int /\ One \in Nat \ {0}
      BY <1>2, <1>3, Scales
    <3>2. One * (2 * (c - o)) <= One * (k + 1) /\ One * (2 * (o - c)) <= One * (k + 1)
      BY ONLY <2>1, <2>2
    <3> QED BY ONLY <2>3, <3>1, <3>2
  <2> QED BY <1>2, <1>3, <2>4
<1> QED BY <1>2, <1>3, <1>5, <1>6, <1>7 DEF c, o, k, u

\* The casts of all days up to d are those before day a and those since.
LEMMA CastsSplit ==
    ASSUME NEW l \in [Txn -> Row \cup {None}], NEW S, NEW a \in Int, NEW d \in Int, a <= d
    PROVE  /\ CastSum(l, S, 1, d) = CastSum(l, S, 1, a - 1) + CastSum(l, S, a, d)
           /\ CastSum(l, S, 1, a - 1) \in Int /\ CastSum(l, S, a, d) \in Int
<1> DEFINE A == Between(1, a - 1)
           B == Between(a, d)
           g == DayCasts(l, S)
<1>1. Between(1, d) = A \cup B /\ A \cap B = {} /\ A \cup B \subseteq Day
  BY Days DEF Between
<1>2. IsFiniteSet(A) /\ IsFiniteSet(B)
  BY FiniteDays
<1>3. \A e \in Day : g[e] \in Int
  BY CashByInt, CastIsInt, Days DEF DayCasts
<1> HIDE DEF A, B, g
<1>4. /\ SumFunctionOnSet(g, A \cup B) = SumFunctionOnSet(g, A) + SumFunctionOnSet(g, B)
      /\ SumFunctionOnSet(g, A) \in Int /\ SumFunctionOnSet(g, B) \in Int
  BY <1>1, <1>2, <1>3, SumUnion, SumIsInt
<1> QED BY <1>1, <1>4 DEF CastSum, A, B, g

\* Whatever the ledger and the prices, a day shows the same value in every range of
\* the chart, and the same cash but for the casts of what was traded before the
\* range: aggregateValuationSeries carries that into its opening, and nothing twice.
THEOREM RangesAgree == Spec => []WindowsAgree
<1>1. TablesInv => WindowsAgree
  <2> SUFFICES ASSUME TablesInv, NEW S \in Selections, NEW to \in Day \cup {None},
                      NEW d \in DOMAIN Series(S, None, to), NEW n \in Windows,
                      d >= StartDay(S, n, EndDay(S, to))
               PROVE  LET start     == StartDay(S, n, EndDay(S, to))
                          part      == Series(S, n, to)[d]
                          opened    == Cardinality({e \in TradeDays(S) : e < start})
                          tolerance == IF opened <= 1 THEN 0
                                       ELSE 1 + (opened + 1) \div (2 * Cent)
                      IN /\ part.value = Series(S, None, to)[d].value
                         /\ Near(part.invested, Series(S, None, to)[d].invested, tolerance)
    BY DEF WindowsAgree
  <2> DEFINE end == EndDay(S, to)
             A == StartDay(S, None, end)
             a == StartDay(S, n, end)
             k == Cardinality({e \in TradeDays(S) : e < a})
             l == ledger
  <2>1. S \in SUBSET Portfolio /\ l \in [Txn -> Row \cup {None}]
    BY DEF Selections, TablesInv
  <2>2. n \in Nat
    BY Days DEF Windows
  <2>3. end \in Day /\ end \in Int
    BY <2>1, EndIsDay, Days
  <2>4. A \in Int /\ d \in Int /\ A <= d /\ d <= end /\ Series(S, None, to)[d] = PointBy(l, nav, S, A, d)
    <3>1. /\ A \in Int /\ DOMAIN Series(S, None, to) = A..end
          /\ Series(S, None, to)[d] = PointBy(l, nav, S, A, d)
      BY <2>1, SeriesShape
    <3> HIDE DEF A, end
    <3> QED BY <2>3, <3>1
  <2>5. a \in Int /\ a <= d /\ Series(S, n, to)[d] = PointBy(l, nav, S, a, d)
    <3>1. /\ a \in Int /\ DOMAIN Series(S, n, to) = a..end
          /\ \A e \in DOMAIN Series(S, n, to) : Series(S, n, to)[e] = PointBy(l, nav, S, a, e)
      BY <2>1, <2>2, SeriesShape
    <3>2. d >= a
      OBVIOUS
    <3> HIDE DEF a, end
    <3> QED BY <2>3, <2>4, <3>1, <3>2
  <2>6. TradeDays(S) = TradedOf(l, S) /\ TradeDays(S) \subseteq Day
    BY <2>1, RowNumbers DEF TradeDays, TradedOf, RowsOf
  <2>7. TradedOf(l, S) \cap Between(1, A - 1) = {}
    <3>1. \A e \in TradeDays(S) : A <= e
      BY <2>1, StartOfAll
    <3> HIDE DEF A
    <3> QED BY <2>4, <2>6, <3>1, Days DEF Between
  <2>8. k = Cardinality(TradedOf(l, S) \cap Between(1, a - 1))
    <3> HIDE DEF a
    <3>1. {e \in TradeDays(S) : e < a} = TradedOf(l, S) \cap Between(1, a - 1)
      BY <2>5, <2>6, Days DEF Between
    <3> QED BY <3>1
  <2> DEFINE x == CastsBy(l, S, A, d)
             y == CastsBy(l, S, a, d)
             c == CastSum(l, S, 1, a - 1)
             o == Cast(CashBy(l, S, a - 1))
             w == CastSum(l, S, 1, d)
  <2>9. x = w /\ w \in Int
    <3> HIDE DEF A
    <3>1. CastSum(l, S, 1, A - 1) = Cast(CashBy(l, S, A - 1))
      <4>1. Cardinality(TradedOf(l, S) \cap Between(1, A - 1)) <= 1
        BY <2>7, FS_EmptySet
      <4>2. A \in Int
        BY <2>4
      <4> QED BY <2>1, <4>1, <4>2, OpeningNear
    <3>2. /\ CastSum(l, S, 1, d) = CastSum(l, S, 1, A - 1) + CastSum(l, S, A, d)
          /\ CastSum(l, S, 1, A - 1) \in Int /\ CastSum(l, S, A, d) \in Int
      BY <2>1, <2>4, CastsSplit
    <3> QED BY <3>1, <3>2 DEF CastsBy
  <2>10. y = w + o - c /\ y \in Int /\ o \in Int /\ c \in Int
    <3> HIDE DEF a
    <3>1. o \in Int
      BY <2>1, <2>5, OpeningNear
    <3>2. /\ CastSum(l, S, 1, d) = CastSum(l, S, 1, a - 1) + CastSum(l, S, a, d)
          /\ CastSum(l, S, 1, a - 1) \in Int /\ CastSum(l, S, a, d) \in Int
      <4>1. a \in Int /\ d \in Int /\ a <= d
        BY <2>4, <2>5
      <4> QED BY <2>1, <4>1, CastsSplit
    <3>3. y = o + CastSum(l, S, a, d)
      BY DEF CastsBy
    <3> HIDE DEF o, y
    <3> QED BY <3>1, <3>2, <3>3
  <2>11. k \in Nat /\ (k <= 1 => c = o) /\ 2 * (c - o) <= k + 1 /\ -(k + 1) <= 2 * (c - o)
    <3> HIDE DEF a
    <3> QED BY <2>1, <2>5, <2>8, OpeningNear
  <2>12. Series(S, n, to)[d].value = Series(S, None, to)[d].value
    BY <2>4, <2>5 DEF PointBy
  <2>13. /\ Series(S, n, to)[d].invested = RoundAway(y, Cent)
         /\ Series(S, None, to)[d].invested = RoundAway(x, Cent)
    <3> HIDE DEF a, A
    <3> QED BY <2>4, <2>5 DEF PointBy
  <2> HIDE DEF x, y, c, o, w, k
  <2>14. CASE k <= 1
    <3>1. y = x
      BY <2>9, <2>10, <2>11, <2>14
    <3>2. RoundAway(x, Cent) \in Int
      BY <2>9, Scales, RoundAwayNear
    <3>3. RoundAway(y, Cent) - RoundAway(x, Cent) \in -0..0
      BY <3>1, <3>2
    <3> QED BY <2>12, <2>13, <2>14, <3>3 DEF Near, k
  <2>15. CASE ~(k <= 1)
    <3>1. 2 * (y - x) <= k + 1 /\ -(k + 1) <= 2 * (y - x) /\ k + 1 \in Nat /\ x \in Int
      BY <2>9, <2>10, <2>11
    <3>2. RoundAway(y, Cent) - RoundAway(x, Cent)
            \in -(1 + (k + 1) \div (2 * Cent))..(1 + (k + 1) \div (2 * Cent))
      BY <2>10, <3>1, Scales, RoundedNear
    <3> QED BY <2>12, <2>13, <2>15, <3>2 DEF Near, k
  <2> QED BY <2>14, <2>15
<1> QED BY <1>1, TablesStay, PTL

--------------------------------------------------------------------------------
(* The past.                                                                    *)

\* The first day of the longest window that ends on day d.
FirstDay(d) == d - Clamp(MaxDay, 2, 3650) + 1

LEMMA FirstDays == \A d \in Day : FirstDay(d) \in Int /\ FirstDay(d) <= d
<1> SUFFICES ASSUME NEW d \in Day PROVE FirstDay(d) \in Int /\ FirstDay(d) <= d
  OBVIOUS
<1>1. d \in Int /\ MaxDay \in Nat
  BY Days
<1>2. Clamp(MaxDay, 2, 3650) \in Int /\ Clamp(MaxDay, 2, 3650) >= 2
  BY <1>1 DEF Clamp
<1> QED BY <1>1, <1>2 DEF FirstDay

LEMMA LastPoint ==
    TablesInv => \A S \in SUBSET Portfolio, d \in Day :
        Series(S, MaxDay, d)[d] = PointBy(ledger, nav, S, FirstDay(d), d)
<1> SUFFICES ASSUME TablesInv, NEW S \in SUBSET Portfolio, NEW d \in Day
             PROVE  Series(S, MaxDay, d)[d] = PointBy(ledger, nav, S, FirstDay(d), d)
  OBVIOUS
<1>1. d \in Int /\ MaxDay \in Nat /\ None \notin Int
  BY Days, ReportsAssumption
<1>2. EndDay(S, d) = d
  BY <1>1 DEF EndDay
<1>3. StartDay(S, MaxDay, d) = FirstDay(d)
  BY <1>1 DEF StartDay, FirstDay
<1>4. d \in FirstDay(d)..d
  BY <1>1, FirstDays
<1>5. /\ DOMAIN Series(S, MaxDay, d) = FirstDay(d)..d
      /\ \A e \in DOMAIN Series(S, MaxDay, d) :
           Series(S, MaxDay, d)[e] = PointBy(ledger, nav, S, FirstDay(d), e)
  BY <1>1, <1>2, <1>3, SeriesShape
<1> QED BY <1>4, <1>5

\* Tables that agree up to day d have the same point on it.
LEMMA PointOfPast ==
    ASSUME NEW l, NEW n, NEW k, NEW m, NEW S, NEW a \in Int, NEW d \in Int, a <= d,
           \A t \in Txn : l[t] # k[t] =>
             \A c \in Int : c <= d => (~Counts(l, S, c, t) /\ ~Counts(k, S, c, t)),
           \A f \in Fund, e \in Day : e <= d => n[f][e] = m[f][e]
    PROVE  PointBy(l, n, S, a, d) = PointBy(k, m, S, a, d)
<1>1. \A f \in Fund : NavBy(n, f, d) = NavBy(m, f, d)
  <2> SUFFICES ASSUME NEW f \in Fund PROVE NavBy(n, f, d) = NavBy(m, f, d)
    OBVIOUS
  <2> DEFINE seen == {e \in {c \in Day : n[f][c] # NoPrice} : e <= d}
  <2>1. seen = {e \in {c \in Day : m[f][c] # NoPrice} : e <= d}
    OBVIOUS
  <2>2. seen \subseteq Day
    OBVIOUS
  <2>3. LastOf(seen) # 0 => LastOf(seen) \in seen
    BY <2>2, LastOfDays
  <2>4. LastOf(seen) # 0 => n[f][LastOf(seen)] = m[f][LastOf(seen)]
    BY <2>3
  <2> QED BY <2>1, <2>4 DEF NavBy
<1>a. \A t \in Txn : l[t] # k[t] => (~Counts(l, S, d, t) /\ ~Counts(k, S, d, t))
  OBVIOUS
<1>2. \A f \in Fund : UnitsAdded(l, S, f, d) = UnitsAdded(k, S, f, d)
  <2> SUFFICES ASSUME NEW f \in Fund PROVE UnitsAdded(l, S, f, d) = UnitsAdded(k, S, f, d)
    OBVIOUS
  <2>1. \A t \in Txn :
          (IF Counts(l, S, d, t) /\ l[t].fund = f THEN Signed(l[t]) ELSE 0)
          = (IF Counts(k, S, d, t) /\ k[t].fund = f THEN Signed(k[t]) ELSE 0)
    BY <1>a DEF Counts
  <2> QED BY <2>1 DEF UnitsAdded
<1>3. CashBy(l, S, a - 1) = CashBy(k, S, a - 1)
  <2>1. \A t \in Txn : l[t] # k[t] => (~Counts(l, S, a - 1, t) /\ ~Counts(k, S, a - 1, t))
    <3>1. a - 1 \in Int /\ a - 1 <= d
      OBVIOUS
    <3> QED BY <3>1
  <2>2. \A t \in Txn : (IF Counts(l, S, a - 1, t) THEN CashOf(l[t]) ELSE 0)
                      = (IF Counts(k, S, a - 1, t) THEN CashOf(k[t]) ELSE 0)
    BY <2>1 DEF Counts
  <2> QED BY <2>2 DEF CashBy, CashAdded
<1>5. CastSum(l, S, a, d) = CastSum(k, S, a, d)
  <2> DEFINE g == DayCasts(l, S) h == DayCasts(k, S) B == Between(a, d)
  <2>1. ASSUME NEW e \in B PROVE g[e] = h[e]
    <3>1. e \in Day /\ e \in Int /\ e <= d
      BY Days DEF Between
    <3>2. \A t \in Txn : l[t] # k[t] => (~Counts(l, S, e, t) /\ ~Counts(k, S, e, t))
      BY <3>1
    <3>3. \A t \in Txn : (IF Counts(l, S, e, t) /\ l[t].day = e THEN CashOf(l[t]) ELSE 0)
                        = (IF Counts(k, S, e, t) /\ k[t].day = e THEN CashOf(k[t]) ELSE 0)
      BY <3>2 DEF Counts
    <3>4. DayCash(l, S, e) = DayCash(k, S, e)
      BY <3>3 DEF DayCash, CashAddedOn
    <3> QED BY <3>1, <3>4 DEF DayCasts
  <2>2. IsFiniteSet(B)
    BY FiniteDays
  <2> HIDE DEF g, h, B
  <2>3. SumFunctionOnSet(g, B) = SumFunctionOnSet(h, B)
    BY <2>1, <2>2, SumSame
  <2> QED BY <2>3 DEF CastSum, g, h, B
<1>4. ValueAdded(l, n, S, d) = ValueAdded(k, m, S, d)
  BY <1>1, <1>2 DEF ValueAdded, UnitsBy
<1> QED BY <1>3, <1>4, <1>5 DEF PointBy, ValueBy, CastsBy

\* A trade or a price that is put today leaves the points of the days before it as
\* they were, whatever the tables: the chart never reads ahead of its day.
THEOREM PastStays == Spec => PastIsStable
<1> DEFINE trades == {t \in Txn : ledger'[t] # ledger[t]}
           old    == {ledger[t].day : t \in {u \in trades : ledger[u] # None}}
           new    == {ledger'[t].day : t \in {u \in trades : ledger'[u] # None}}
           prices == {d \in Day : \E f \in Fund : nav'[f][d] # nav[f][d]}
           D      == old \cup new \cup prices
           since  == Min(D)
<1>1. TablesInv' => \A p \in Portfolio, d \in Day :
        Series({p}, MaxDay, d)'[d] = PointBy(ledger', nav', {p}, FirstDay(d), d)
  <2>1. (TablesInv => \A S \in SUBSET Portfolio, d \in Day :
          Series(S, MaxDay, d)[d] = PointBy(ledger, nav, S, FirstDay(d), d))'
    BY LastPoint, PTL
  <2> QED BY <2>1
<1>2. ASSUME TablesInv, TablesInv', vars' # vars,
             NEW p \in Portfolio, NEW d \in 1..since - 1
      PROVE  Series({p}, MaxDay, d)'[d] = Series({p}, MaxDay, d)[d]
  <2>1. D \subseteq Day
    <3>1. \A t \in Txn : ledger[t] # None => ledger[t] \in Row
      BY <1>2 DEF TablesInv
    <3>2. \A t \in Txn : ledger'[t] # None => ledger'[t] \in Row
      BY <1>2 DEF TablesInv
    <3>3. old \subseteq Day
      BY <3>1, RowNumbers
    <3>4. new \subseteq Day
      BY <3>2, RowNumbers
    <3>5. prices \subseteq Day
      OBVIOUS
    <3> HIDE DEF old, new, prices
    <3> QED BY <3>3, <3>4, <3>5
  <2>2. D # {}
    <3> SUFFICES ASSUME D = {} PROVE FALSE
      OBVIOUS
    <3>1. \A t \in Txn : ledger'[t] = ledger[t]
      <4>1. old = {} /\ new = {}
        OBVIOUS
      <4>2. \A t \in trades : ledger[t] = None
        BY <4>1
      <4>3. \A t \in trades : ledger'[t] = None
        BY <4>1
      <4> QED BY <4>2, <4>3
    <3>2. \A f \in Fund : \A e \in Day : nav'[f][e] = nav[f][e]
      OBVIOUS
    <3>3. ledger' = ledger
      BY <3>1, <1>2 DEF TablesInv
    <3>4. nav' = nav
      <4>1. \A f \in Fund : nav'[f] = nav[f]
        BY <3>2, <1>2 DEF TablesInv
      <4> QED BY <4>1, <1>2 DEF TablesInv
    <3> QED BY <3>3, <3>4, <1>2 DEF vars
  <2>3. since \in Day /\ \A e \in D : since <= e
    BY <2>1, <2>2, MinOfDays, Days
  <2>4. d \in Day /\ d < since /\ d \in Int
    <3>1. since \in Nat /\ since <= MaxDay
      BY <2>3, Days
    <3>2. MaxDay \in Nat
      BY Days
    <3> HIDE DEF since
    <3> QED BY <1>2, <3>1, <3>2 DEF Day
  <2>5. \A t \in Txn : ledger'[t] # ledger[t] =>
          \A c \in Int : c <= d => (~Counts(ledger', {p}, c, t) /\ ~Counts(ledger, {p}, c, t))
    <3> SUFFICES ASSUME NEW t \in Txn, ledger'[t] # ledger[t], NEW c \in Int, c <= d
                 PROVE  ~Counts(ledger', {p}, c, t) /\ ~Counts(ledger, {p}, c, t)
      OBVIOUS
    <3>1. ledger[t] # None => ledger[t].day \in D
      OBVIOUS
    <3>2. ledger'[t] # None => ledger'[t].day \in D
      OBVIOUS
    <3>3. \A e \in D : ~(e <= c)
      <4>1. \A e \in D : e \in Nat /\ since <= e
        BY <2>1, <2>3, Days
      <4>2. since \in Nat
        BY <2>3, Days
      <4> HIDE DEF D, since
      <4> QED BY <2>4, <4>1, <4>2
    <3> HIDE DEF D
    <3> QED BY <3>1, <3>2, <3>3 DEF Counts
  <2>6. \A f \in Fund, e \in Day : e <= d => nav'[f][e] = nav[f][e]
    <3> SUFFICES ASSUME NEW f \in Fund, NEW e \in Day, e <= d, nav'[f][e] # nav[f][e]
                 PROVE  FALSE
      OBVIOUS
    <3>1. e \in D
      OBVIOUS
    <3>2. since <= e /\ since \in Nat /\ e \in Nat
      BY <3>1, <2>3, Days
    <3> HIDE DEF since, D
    <3> QED BY <2>4, <3>2
  <2>7. PointBy(ledger', nav', {p}, FirstDay(d), d) = PointBy(ledger, nav, {p}, FirstDay(d), d)
    <3>1. PICK l : l = ledger'
      OBVIOUS
    <3>2. PICK n : n = nav'
      OBVIOUS
    <3>3. PICK k : k = ledger
      OBVIOUS
    <3>4. PICK m : m = nav
      OBVIOUS
    <3>5. PICK S : S = {p}
      OBVIOUS
    <3>6. PICK a \in Int : a = FirstDay(d) /\ a <= d
      BY <2>4, FirstDays
    <3>7. \A t \in Txn : l[t] # k[t] =>
            \A c \in Int : c <= d => (~Counts(l, S, c, t) /\ ~Counts(k, S, c, t))
      BY <2>5, <3>1, <3>3, <3>5
    <3>8. \A f \in Fund, e \in Day : e <= d => n[f][e] = m[f][e]
      BY <2>6, <3>2, <3>4
    <3>9. PointBy(l, n, S, a, d) = PointBy(k, m, S, a, d)
      BY <2>4, <3>6, <3>7, <3>8, PointOfPast
    <3> QED BY <3>1, <3>2, <3>3, <3>4, <3>5, <3>6, <3>9
  <2> QED BY <1>1, <1>2, <2>4, <2>7, LastPoint
<1>3. TablesInv /\ TablesInv' =>
        [\A p \in Portfolio, d \in 1..since - 1 :
            Series({p}, MaxDay, d)'[d] = Series({p}, MaxDay, d)[d]]_vars
  BY <1>2
<1> QED BY <1>3, TablesStay, PTL DEF PastIsStable

--------------------------------------------------------------------------------
(* The end of the chart and the value on the page.                              *)

LEMMA UnitsTotal ==
    TablesInv => \A p \in Portfolio, f \in Fund, d \in Int :
        (\A t \in RowsOf({p}) : ledger[t].day <= d)
            => Units(p, f) = UnitsBy(ledger, {p}, f, d)
<1> SUFFICES ASSUME TablesInv, NEW p \in Portfolio, NEW f \in Fund, NEW d \in Int,
                    \A t \in RowsOf({p}) : ledger[t].day <= d
             PROVE  Units(p, f) = UnitsBy(ledger, {p}, f, d)
  OBVIOUS
<1> DEFINE T == Of(RowsOf({p}), f)
<1>1. T \in SUBSET Txn /\ T = {t \in Txn : Counts(ledger, {p}, d, t) /\ ledger[t].fund = f}
  BY DEF Of, RowsOf, Counts
<1>2. UnitsIn(T) = SumFunctionOnSet([t \in Txn |-> SignedUnits(t)], T)
  BY <1>1, UnitsInIsSum
<1> HIDE DEF T
<1>3. UnitsIn(T) = UnitsBy(ledger, {p}, f, d)
  BY <1>1, <1>2, UnitsOfRows
<1> QED BY <1>3 DEF Units, T

LEMMA HeldTraded ==
    TablesInv => \A p \in Portfolio : \A f \in Held(p) :
        f \in Fund /\ Units(p, f) > 0 /\ f \in {ledger[t].fund : t \in RowsOf({p})}
  BY DEF Held, Of

\* A fund that is held is priced the same on the day of the valuation and at the
\* end of the chart.
LEMMA SamePrice ==
    TablesInv => \A p \in Portfolio : \A f \in Held(p) :
        NavOnDate(f, EndDay({p}, None)) = NavOnDate(f, ValuationDay(p, None))
<1> SUFFICES ASSUME TablesInv, NEW p \in Portfolio, NEW f \in Held(p)
             PROVE  NavOnDate(f, EndDay({p}, None)) = NavOnDate(f, ValuationDay(p, None))
  OBVIOUS
<1> DEFINE K == {ledger[t].fund : t \in RowsOf({p})}
           A == UNION {PricedDays(g) : g \in K}
           B == UNION {PricedDays(g) : g \in Held(p)}
           end == EndDay({p}, None)
           day == ValuationDay(p, None)
<1>1. end = IF LastOf(A) # 0 THEN LastOf(A) ELSE Today
  BY DEF EndDay
<1>2. day = IF LastOf(B) # 0 THEN LastOf(B) ELSE Today
  BY DEF ValuationDay
<1>3. A \subseteq Day /\ B \subseteq Day
  BY DEF PricedDays
<1>4. Held(p) \subseteq K
  BY HeldTraded
<1>5. B \subseteq A
  BY <1>4
<1>6. PricedDays(f) \subseteq B
  OBVIOUS
<1> HIDE DEF A, B, K, end, day
<1>7. CASE LastOf(B) = 0
  <2>1. PricedDays(f) = {}
    BY <1>3, <1>6, <1>7, LastOfDays
  <2>2. NavDay(f, end) = 0 /\ NavDay(f, day) = 0
    BY <2>1 DEF NavDay, LastOf
  <2> QED BY <2>2 DEF NavOnDate, end, day
<1>8. CASE LastOf(B) # 0
  <2>1. LastOf(B) \in B /\ \A e \in B : e <= LastOf(B)
    BY <1>3, <1>8, LastOfDays
  <2>2. \A e \in A : e <= LastOf(A)
    BY <1>3, LastOfDays
  <2>3. LastOf(A) # 0
    BY <1>3, <1>5, <2>1, LastOfDays
  <2>4. day = LastOf(B) /\ end = LastOf(A)
    BY <1>1, <1>2, <1>8, <2>3
  <2>5. \A e \in PricedDays(f) : e <= day /\ e <= end
    BY <1>5, <1>6, <2>1, <2>2, <2>4
  <2>6. {e \in PricedDays(f) : e <= day} = {e \in PricedDays(f) : e <= end}
    BY <2>5
  <2>7. NavDay(f, end) = NavDay(f, day)
    BY <2>6 DEF NavDay
  <2> QED BY <2>7 DEF NavOnDate, end, day
<1> QED BY <1>7, <1>8

LEMMA Rounded ==
    ASSUME NEW a \in Int, a >= 0, NEW b
    PROVE  RoundAway(a, b) = RoundUp(a, b)
  BY DEF RoundAway

\* The cents that round2 can lead to are next to the exact ones.
LEMMA Round2Near ==
    ASSUME NEW x \in Int
    PROVE  /\ RoundUp(x, ACent) \in Round2(x)
           /\ \A c \in Round2(x) :
                /\ c \in Int /\ RoundUp(x, ACent) - c \in -1..1 /\ ACent * c \in Int
                /\ 2 * (ACent * c) <= 2 * x + 2 * Drift + ACent
                /\ 2 * x < 2 * (ACent * c) + ACent + 2 * Drift
<1> DEFINE C == ACent
           lo == RoundUp(x - Drift, C)
           mid == RoundUp(x, C)
           hi == RoundUp(x + Drift, C)
<1>1. C \in Nat \ {0} /\ Drift \in Nat \ {0} /\ 2 * Drift < C
  BY Scales
<1>2. Round2(x) = lo..hi
  BY DEF Round2, ACent
<1>3. lo \in Int /\ 2 * (C * lo) <= 2 * (x - Drift) + C /\ 2 * (x - Drift) < 2 * (C * lo) + C
  BY <1>1, RoundUpNear
<1>4. mid \in Int /\ 2 * (C * mid) <= 2 * x + C /\ 2 * x < 2 * (C * mid) + C
  BY <1>1, RoundUpNear
<1>5. hi \in Int /\ 2 * (C * hi) <= 2 * (x + Drift) + C /\ 2 * (x + Drift) < 2 * (C * hi) + C
  BY <1>1, RoundUpNear
<1> HIDE DEF C, lo, mid, hi
<1>6. \A a, b \in Int : /\ C * a \in Int
                         /\ (C * a < C * b => a < b)
                         /\ (a <= b => C * a <= C * b)
                         /\ C * (a + 1) = C * a + C /\ C * (a + 2) = C * a + 2 * C
  BY <1>1
<1>7. lo <= mid
  <2>1. C * lo \in Int /\ C * mid \in Int /\ C * (mid + 1) = C * mid + C
    BY <1>3, <1>4, <1>6
  <2>2. C * lo < C * (mid + 1)
    BY <1>1, <1>3, <1>4, <2>1
  <2>3. lo < mid + 1
    BY <1>3, <1>4, <1>6, <2>2
  <2> QED BY <1>3, <1>4, <2>3
<1>8. mid <= hi
  <2>1. C * mid \in Int /\ C * hi \in Int /\ C * (hi + 1) = C * hi + C
    BY <1>4, <1>5, <1>6
  <2>2. C * mid < C * (hi + 1)
    BY <1>1, <1>4, <1>5, <2>1
  <2>3. mid < hi + 1
    BY <1>4, <1>5, <1>6, <2>2
  <2> QED BY <1>4, <1>5, <2>3
<1>9. hi < lo + 2
  <2>1. C * lo \in Int /\ C * hi \in Int /\ C * (lo + 2) = C * lo + 2 * C
    BY <1>3, <1>5, <1>6
  <2>2. C * hi < C * (lo + 2)
    BY <1>1, <1>3, <1>5, <2>1
  <2> QED BY <1>3, <1>5, <1>6, <2>2
<1>10. ASSUME NEW c \in lo..hi
       PROVE  /\ c \in Int /\ mid - c \in -1..1 /\ C * c \in Int
              /\ 2 * (C * c) <= 2 * x + 2 * Drift + C
              /\ 2 * x < 2 * (C * c) + C + 2 * Drift
  <2>1. c \in Int /\ mid - c \in -1..1 /\ lo <= c /\ c <= hi
    BY <1>3, <1>4, <1>5, <1>7, <1>8, <1>9
  <2>2. C * lo <= C * c /\ C * c <= C * hi /\ C * c \in Int /\ C * lo \in Int /\ C * hi \in Int
    BY <1>3, <1>5, <1>6, <2>1
  <2> QED BY <1>1, <1>3, <1>5, <2>1, <2>2
<1>11. mid \in lo..hi
  BY <1>3, <1>4, <1>5, <1>7, <1>8
<1> QED BY <1>2, <1>10, <1>11 DEF C, mid

LEMMA TotalShape ==
    \A p \in Portfolio, d \in Int :
        TotalValue(p, d)
          = Round2(SumFunctionOnSet([f \in Fund |-> Units(p, f) * NavOnDate(f, d)], Priced(p, d)))
<1> SUFFICES ASSUME NEW p \in Portfolio, NEW d \in Int
             PROVE  TotalValue(p, d)
                      = Round2(SumFunctionOnSet([f \in Fund |-> Units(p, f) * NavOnDate(f, d)],
                                                Priced(p, d)))
  OBVIOUS
<1> DEFINE Value(f) == Units(p, f) * NavOnDate(f, d)
<1>1. Priced(p, d) \subseteq Fund
  BY DEF Priced, Held
<1>2. MapThenSumSet(Value, Priced(p, d))
      = SumFunctionOnSet([f \in Fund |-> Value(f)], Priced(p, d))
  BY <1>1 DEF MapThenSumSet, SumFunctionOnSet, FoldFunctionOnSet, MapThenFoldSet
<1> QED BY <1>2 DEF TotalValue

\* Whatever the ledger and the prices, the last point of the chart is a value that
\* the page can show, and no other that it can is more than a cent away: anchoring on
\* the funds once traded (aggregateValuationSeries) or on those still held
\* (ValuationService.compute) makes no difference.
THEOREM ChartEnds == Spec => []ChartEndsAtValuation
<1>1. TablesInv => ChartEndsAtValuation
  <2> SUFFICES ASSUME TablesInv, NEW p \in Portfolio,
                      \A t \in RowsOf({p}) : ledger[t].day <= EndDay({p}, None),
                      \A f \in Fund : Units(p, f) >= 0
               PROVE  LET value == Series({p}, None, None)[EndDay({p}, None)].value
                          shown == TotalValue(p, ValuationDay(p, None))
                      IN value \in shown /\ \A total \in shown : Near(value, total, 1)
    BY DEF ChartEndsAtValuation
  <2> DEFINE end == EndDay({p}, None)
             day == ValuationDay(p, None)
             start == StartDay({p}, None, end)
             V == ValueAdded(ledger, nav, {p}, end)
             W == [f \in Fund |-> Units(p, f) * NavOnDate(f, day)]
             R == Priced(p, day)
  <2>1. end \in Day /\ end \in Int
    BY EndIsDay, Days
  <2>2. start \in Int /\ start <= end
    <3>1. start \in Int
      BY <2>1, StartIsInt
    <3>2. CASE RowsOf({p}) = {}
      BY <2>1, <3>2 DEF StartDay
    <3>3. CASE RowsOf({p}) # {}
      <4>1. start \in TradeDays({p})
        BY <3>3, StartOfAll
      <4>2. \A e \in TradeDays({p}) : e <= end
        BY DEF TradeDays
      <4> QED BY <3>1, <4>1, <4>2
    <3> QED BY <3>1, <3>2, <3>3
  <2>3. end \in DOMAIN Series({p}, None, None)
    <3>1. DOMAIN Series({p}, None, None) = start..end
      BY DEF Series
    <3> HIDE DEF start, end
    <3> QED BY <2>1, <2>2, <3>1
  <2>4. Series({p}, None, None)[end].value = RoundAway(SumFunctionOnSet(V, Fund), ACent)
    <3>1. Series({p}, None, None)[end] = PointBy(ledger, nav, {p}, start, end)
      BY <2>3, SeriesShape
    <3> HIDE DEF start
    <3> QED BY <3>1 DEF PointBy, ValueBy
  <2>5. day \in Int
    <3>1. UNION {PricedDays(f) : f \in Held(p)} \subseteq Day
      BY DEF PricedDays
    <3>2. LastOf(UNION {PricedDays(f) : f \in Held(p)}) \in Day \cup {0}
      BY <3>1, LastOfDays
    <3>3. Today \in Int
      BY ReportsAssumption
    <3> QED BY <3>2, <3>3, Days DEF ValuationDay
  <2>6. TotalValue(p, day) = Round2(SumFunctionOnSet(W, R))
    BY <2>5, TotalShape
  <2>7. \A f \in Fund : /\ Units(p, f) = UnitsBy(ledger, {p}, f, end)
                        /\ Units(p, f) \in Int
                        /\ NavOnDate(f, end) = NavBy(nav, f, end) /\ NavOnDate(f, end) \in Nat
    <3> SUFFICES ASSUME NEW f \in Fund
                 PROVE  /\ Units(p, f) = UnitsBy(ledger, {p}, f, end)
                        /\ Units(p, f) \in Int
                        /\ NavOnDate(f, end) = NavBy(nav, f, end) /\ NavOnDate(f, end) \in Nat
      OBVIOUS
    <3> HIDE DEF end
    <3>1. \A t \in RowsOf({p}) : ledger[t].day <= end
      BY DEF end
    <3>2. Units(p, f) = UnitsBy(ledger, {p}, f, end)
      BY <2>1, <3>1, UnitsTotal
    <3>3. UnitsBy(ledger, {p}, f, end) \in Int
      BY <2>1, UnitsByInt DEF TablesInv
    <3>4. NavOnDate(f, end) = NavBy(nav, f, end)
      BY <2>1, NavShape
    <3>5. NavBy(nav, f, end) \in Nat
      BY <2>1, NavIsNat DEF TablesInv
    <3> QED BY <3>2, <3>3, <3>4, <3>5
  <2>8. \A f \in Fund : V[f] = Units(p, f) * NavOnDate(f, end)
    BY <2>7 DEF ValueAdded
  <2>9. \A f \in Fund : V[f] \in Int /\ V[f] >= 0
    <3>1. \A a \in Int, b \in Nat : a >= 0 => a * b \in Int /\ a * b >= 0
      OBVIOUS
    <3> QED BY <2>7, <2>8, <3>1
  <2>10. R \subseteq Fund /\ R \subseteq Held(p)
    BY DEF Priced, Held
  <2>11. \A f \in R : V[f] = W[f]
    BY <2>8, <2>10, SamePrice
  <2>12. \A f \in Fund \ R : V[f] = 0
    <3> SUFFICES ASSUME NEW f \in Fund \ R PROVE V[f] = 0
      OBVIOUS
    <3>1. CASE f \in Held(p)
      <4>1. NavOnDate(f, end) = 0
        BY <3>1, SamePrice DEF Priced, NoPrice
      <4> QED BY <4>1, <2>7, <2>8
    <3>2. CASE f \notin Held(p) /\ Of(RowsOf({p}), f) = {}
      <4>1. \A t \in Txn : ~(Counts(ledger, {p}, end, t) /\ ledger[t].fund = f)
        BY <3>2 DEF Of, RowsOf, Counts
      <4>2. Units(p, f) = 0
        BY <4>1, <2>7, NotTraded
      <4> QED BY <4>2, <2>7, <2>8
    <3>3. CASE f \notin Held(p) /\ Of(RowsOf({p}), f) # {}
      <4>1. ~(Units(p, f) > 0)
        BY <3>3 DEF Held
      <4>2. Units(p, f) = 0
        BY <4>1, <2>7
      <4> QED BY <4>2, <2>7, <2>8
    <3> QED BY <3>1, <3>2, <3>3
  <2> HIDE DEF V, W, R, end, day
  <2>13. IsFiniteSet(Fund) /\ IsFiniteSet(R)
    BY <2>10, ReportsAssumption, FS_Subset
  <2>14. SumFunctionOnSet(V, Fund) = SumFunctionOnSet(V, R)
    BY <2>9, <2>10, <2>12, <2>13, SumZeros
  <2>15. SumFunctionOnSet(V, R) = SumFunctionOnSet(W, R)
    BY <2>11, <2>13, SumSame
  <2>16. SumFunctionOnSet(V, Fund) \in Int /\ SumFunctionOnSet(V, Fund) >= 0
    BY <2>9, <2>13, SumNatural
  <2>17. RoundAway(SumFunctionOnSet(V, Fund), ACent) = RoundUp(SumFunctionOnSet(W, R), ACent)
    BY <2>14, <2>15, <2>16, Rounded
  <2> DEFINE x == SumFunctionOnSet(W, R)
  <2>18. x \in Int
    BY <2>14, <2>15, <2>16
  <2> HIDE DEF x
  <2>19. RoundUp(x, ACent) \in Round2(x) /\ \A c \in Round2(x) : RoundUp(x, ACent) - c \in -1..1
    BY <2>18, Round2Near
  <2> QED BY <2>4, <2>6, <2>17, <2>19 DEF end, day, x, Near
<1> QED BY <1>1, TablesStay, PTL

--------------------------------------------------------------------------------
(* The worker and the backend.                                                  *)

LEMMA UnitsAreInts == TablesInv => \A p \in Portfolio, f \in Fund : Units(p, f) \in Int
<1> SUFFICES ASSUME TablesInv, NEW p \in Portfolio, NEW f \in Fund PROVE Units(p, f) \in Int
  OBVIOUS
<1>1. \A t \in RowsOf({p}) : ledger[t] \in Row
  BY DEF RowsOf, TablesInv
<1>2. \A t \in RowsOf({p}) : ledger[t].day <= MaxDay
  BY <1>1, RowNumbers, Days
<1>3. Units(p, f) = UnitsBy(ledger, {p}, f, MaxDay)
  BY <1>2, UnitsTotal, Days
<1> QED BY <1>3, UnitsByInt, Days DEF TablesInv

\* The average price of the lots is a price: they hold more than no unit.
LEMMA CostIsNat ==
    TablesInv => \A p \in Portfolio, f \in Fund :
        CostBasis(p, f) # None => CostBasis(p, f) \in Int /\ CostBasis(p, f) >= 0
<1> SUFFICES ASSUME TablesInv, NEW p \in Portfolio, NEW f \in Fund, CostBasis(p, f) # None
             PROVE  CostBasis(p, f) \in Int /\ CostBasis(p, f) >= 0
  OBVIOUS
<1> DEFINE lots == {t \in Of(RowsOf({p}), f) : ledger[t].type \in {"BUY", "DIVIDEND_REINVEST"}}
           Spent(t)  == ledger[t].units * ledger[t].price
           Bought(t) == ledger[t].units
           A == [t \in Txn |-> Spent(t)]
           B == [t \in Txn |-> Bought(t)]
<1>1. lots \subseteq Txn
  BY DEF Of, RowsOf
<1> HIDE DEF lots
<1>2. MapThenSumSet(Spent, lots) = SumFunctionOnSet(A, lots)
  BY <1>1 DEF MapThenSumSet, SumFunctionOnSet, FoldFunctionOnSet, MapThenFoldSet
<1>3. MapThenSumSet(Bought, lots) = SumFunctionOnSet(B, lots)
  BY <1>1 DEF MapThenSumSet, SumFunctionOnSet, FoldFunctionOnSet, MapThenFoldSet
<1>4. lots # {} /\ CostBasis(p, f)
                   = RoundAway(MapThenSumSet(Spent, lots), MapThenSumSet(Bought, lots))
  BY DEF CostBasis, lots
<1>5. \A t \in lots : A[t] \in Int /\ A[t] >= 0 /\ B[t] \in Int /\ B[t] > 0
  <2> SUFFICES ASSUME NEW t \in lots
               PROVE  A[t] \in Int /\ A[t] >= 0 /\ B[t] \in Int /\ B[t] > 0
    OBVIOUS
  <2>1. t \in Txn /\ ledger[t] \in Row /\ ledger[t].units > 0
    BY <1>1 DEF lots, Of, RowsOf, TablesInv, BuysAdd
  <2>2. ledger[t].units \in Int /\ ledger[t].price \in Nat
    <3>1. ledger[t].price \in Paid
      BY <2>1 DEF Row
    <3>2. Paid \subseteq Nat
      BY ReportsAssumption
    <3> QED BY <2>1, <3>1, <3>2, RowNumbers
  <2>3. \A a \in Int, b \in Nat : a > 0 => a * b \in Int /\ a * b >= 0
    OBVIOUS
  <2> QED BY <2>1, <2>2, <2>3
<1> HIDE DEF A, B
<1>6. IsFiniteSet(lots)
  BY <1>1, ReportsAssumption, FS_Subset
<1>7. SumFunctionOnSet(A, lots) \in Int /\ SumFunctionOnSet(A, lots) >= 0
  BY <1>5, <1>6, SumNatural
<1>8. SumFunctionOnSet(B, lots) \in Nat \ {0}
  <2>1. PICK t \in lots : TRUE
    BY <1>4
  <2> DEFINE rest == lots \ {t}
  <2>2. IsFiniteSet(rest) /\ t \notin rest /\ rest \cup {t} = lots /\ rest \subseteq lots
    BY <1>6, <2>1, FS_Subset
  <2> HIDE DEF rest
  <2>3. SumFunctionOnSet(B, rest) \in Int /\ SumFunctionOnSet(B, rest) >= 0
    <3>1. \A u \in rest : B[u] \in Int /\ B[u] >= 0
      BY <1>5, <2>2
    <3> QED BY <2>2, <3>1, SumNatural
  <2>4. SumFunctionOnSet(B, rest \cup {t}) = B[t] + SumFunctionOnSet(B, rest)
    <3>1. \A u \in rest \cup {t} : B[u] \in Int
      BY <1>5, <2>2
    <3> QED BY <2>2, <3>1, SumAdd
  <2> QED BY <1>5, <2>1, <2>2, <2>3, <2>4
<1> DEFINE a == SumFunctionOnSet(A, lots)
           b == SumFunctionOnSet(B, lots)
           q == RoundUp(a, b)
<1>9. CostBasis(p, f) = q
  BY <1>2, <1>3, <1>4, <1>7, Rounded
<1>10. q \in Int /\ 2 * a < 2 * (b * q) + b
  BY <1>7, <1>8, RoundUpNear
<1> HIDE DEF a, b, q
<1>11. q >= 0
  <2> SUFFICES ASSUME q < 0 PROVE FALSE
    BY <1>10
  <2>1. a \in Int /\ a >= 0 /\ b \in Nat \ {0}
    BY <1>7, <1>8 DEF a, b
  <2>2. b * q <= -b /\ b * q \in Int
    BY <1>10, <2>1
  <2> QED BY <1>10, <2>1, <2>2
<1> QED BY <1>9, <1>10, <1>11

LEMMA WorkerShape ==
    \A p \in Portfolio, d \in Int :
        /\ WorkerValue(p, d)
             = SumFunctionOnSet([f \in Fund |-> RoundAway(Units(p, f) * NavOnDate(f, d), ACent)],
                                Priced(p, d))
        /\ WorkerCost(p, d)
             = SumFunctionOnSet([f \in Fund |-> RoundAway(Units(p, f) * CostBasis(p, f), ACent)],
                                Priced(p, d) \cap Costed(p))
<1> SUFFICES ASSUME NEW p \in Portfolio, NEW d \in Int
             PROVE  /\ WorkerValue(p, d)
                        = SumFunctionOnSet([f \in Fund |->
                              RoundAway(Units(p, f) * NavOnDate(f, d), ACent)], Priced(p, d))
                    /\ WorkerCost(p, d)
                        = SumFunctionOnSet([f \in Fund |->
                              RoundAway(Units(p, f) * CostBasis(p, f), ACent)],
                              Priced(p, d) \cap Costed(p))
  OBVIOUS
<1> DEFINE Value(f) == RoundAway(Units(p, f) * NavOnDate(f, d), ACent)
           Cost(f)  == RoundAway(Units(p, f) * CostBasis(p, f), ACent)
           R == Priced(p, d)
           C == Priced(p, d) \cap Costed(p)
<1>1. R \subseteq Fund /\ C \subseteq Fund
  BY DEF Priced, Held
<1> HIDE DEF R, C
<1>2. MapThenSumSet(Value, R) = SumFunctionOnSet([f \in Fund |-> Value(f)], R)
  BY <1>1 DEF MapThenSumSet, SumFunctionOnSet, FoldFunctionOnSet, MapThenFoldSet
<1>3. MapThenSumSet(Cost, C) = SumFunctionOnSet([f \in Fund |-> Cost(f)], C)
  BY <1>1 DEF MapThenSumSet, SumFunctionOnSet, FoldFunctionOnSet, MapThenFoldSet
<1> QED BY <1>2, <1>3 DEF WorkerValue, WorkerCost, ACent, R, C

LEMMA TotalCostShape ==
    \A p \in Portfolio :
        TotalCost(p)
          = Round2(SumFunctionOnSet([f \in Fund |-> Units(p, f) * CostBasis(p, f)], Costed(p)))
<1> SUFFICES ASSUME NEW p \in Portfolio
             PROVE  TotalCost(p)
                      = Round2(SumFunctionOnSet([f \in Fund |-> Units(p, f) * CostBasis(p, f)],
                                                Costed(p)))
  OBVIOUS
<1> DEFINE Cost(f) == Units(p, f) * CostBasis(p, f)
<1>1. Costed(p) \subseteq Fund
  BY DEF Costed, Held
<1>2. MapThenSumSet(Cost, Costed(p)) = SumFunctionOnSet([f \in Fund |-> Cost(f)], Costed(p))
  BY <1>1 DEF MapThenSumSet, SumFunctionOnSet, FoldFunctionOnSet, MapThenFoldSet
<1> QED BY <1>2 DEF TotalCost

\* Terms that are each close to another, after a scale, have sums that are.
LEMMA TermsNear ==
    ASSUME NEW S, IsFiniteSet(S), NEW b \in Int, NEW m \in Int, NEW v, NEW r,
           \A x \in S : /\ v[x] \in Int /\ r[x] \in Int
                        /\ 2 * (b * r[x]) - 2 * v[x] <= m /\ -m <= 2 * (b * r[x]) - 2 * v[x]
    PROVE  LET sums == SumFunctionOnSet(r, S)
               all  == SumFunctionOnSet(v, S)
               n    == Cardinality(S)
           IN /\ sums \in Int /\ all \in Int /\ n \in Nat
              /\ 2 * (b * sums) - 2 * all <= n * m
              /\ -(n * m) <= 2 * (b * sums) - 2 * all
<1> DEFINE A(s) == b * SumFunctionOnSet(r, s)
           B(s) == SumFunctionOnSet(v, s)
           C(s) == Cardinality(s) * m
           Fine(s) == /\ A(s) \in Int /\ B(s) \in Int /\ C(s) \in Int
                      /\ 2 * A(s) - 2 * B(s) <= C(s) /\ -C(s) <= 2 * A(s) - 2 * B(s)
           F == {s \in SUBSET S : Fine(s)}
<1>1. {} \in F
  <2>1. A({}) = 0 /\ B({}) = 0 /\ C({}) = 0
    BY SumOverNone, FS_EmptySet
  <2>2. Fine({})
    BY <2>1
  <2> HIDE DEF Fine
  <2> QED BY <2>2
<1>2. ASSUME NEW s \in SUBSET S, NEW k \in S, s \in F, k \notin s PROVE s \cup {k} \in F
  <2>1. IsFiniteSet(s) /\ Cardinality(s) \in Nat
    BY FS_Subset, FS_CardinalityType
  <2>2. SumFunctionOnSet(r, s \cup {k}) = r[k] + SumFunctionOnSet(r, s)
        /\ SumFunctionOnSet(r, s) \in Int
    BY <1>2, <2>1, SumAdd
  <2>3. SumFunctionOnSet(v, s \cup {k}) = v[k] + SumFunctionOnSet(v, s)
    BY <1>2, <2>1, SumAdd
  <2>4. Cardinality(s \cup {k}) = Cardinality(s) + 1
    BY <1>2, <2>1, FS_AddElement
  <2>5. \A c, d \in Int : b * (c + d) = b * c + b * d /\ (c + 1) * m = c * m + m
    OBVIOUS
  <2>6. A(s \cup {k}) = b * r[k] + A(s)
    BY <2>2, <2>5
  <2>7. C(s \cup {k}) = C(s) + m
    BY <2>1, <2>4, <2>5
  <2>8. Fine(s)
    BY <1>2
  <2> DEFINE x == b * r[k]
             y == v[k]
  <2>9. x \in Int /\ y \in Int /\ 2 * x - 2 * y <= m /\ -m <= 2 * x - 2 * y
    BY Products
  <2>10. A(s \cup {k}) = x + A(s) /\ B(s \cup {k}) = y + B(s)
    BY <2>3, <2>6
  <2> HIDE DEF A, B, C, F, x, y
  <2>11. Fine(s \cup {k})
    BY <2>7, <2>8, <2>9, <2>10
  <2> HIDE DEF Fine
  <2> QED BY <2>11 DEF F
<1>3. S \in F
  <2> HIDE DEF F
  <2> QED BY <1>1, <1>2, FiniteInduction
<1>4. Fine(S)
  BY <1>3
<1> QED BY <1>4, SumIsInt, FS_CardinalityType

\* Rounding the terms of a sum that are not negative, or the sum as doubles, differs
\* by half a cent for each term at most, and half a cent for the sum.
LEMMA TermsOrTotal ==
    ASSUME NEW H, IsFiniteSet(H), NEW R, R \subseteq H, R \subseteq Fund, NEW v,
           \A f \in R : v[f] \in Int
    PROVE  \A total \in Round2(SumFunctionOnSet(v, R)) :
               Near(SumFunctionOnSet([f \in Fund |-> RoundAway(v[f], ACent)], R), total,
                    (Cardinality(H) + 1) \div 2)
<1> DEFINE r == [f \in Fund |-> RoundAway(v[f], ACent)]
           C == ACent
           n == Cardinality(R)
           x == SumFunctionOnSet(v, R)
           y == SumFunctionOnSet(r, R)
<1>1. IsFiniteSet(R) /\ n \in Nat /\ Cardinality(H) \in Nat /\ n <= Cardinality(H)
  BY FS_Subset, FS_CardinalityType
<1>2. C \in Nat \ {0} /\ Drift \in Nat \ {0} /\ 2 * Drift < C
  BY Scales
<1>3. ASSUME NEW f \in R
      PROVE  /\ v[f] \in Int /\ r[f] \in Int
             /\ 2 * (C * r[f]) - 2 * v[f] <= C /\ -C <= 2 * (C * r[f]) - 2 * v[f]
  <2> DEFINE a == v[f]
             q == RoundAway(a, C)
  <2>1. a \in Int /\ r[f] = q
    OBVIOUS
  <2> HIDE DEF a, C, r
  <2>2. /\ q \in Int /\ C * q \in Int
        /\ 2 * (C * q) <= 2 * a + C /\ 2 * a <= 2 * (C * q) + C
    BY <1>2, <2>1, RoundAwayNear
  <2> HIDE DEF q
  <2>3. 2 * (C * q) - 2 * a <= C /\ -C <= 2 * (C * q) - 2 * a
    BY <1>2, <2>1, <2>2
  <2> QED BY <2>1, <2>2, <2>3 DEF a
<1> HIDE DEF r, C
<1>4. /\ x \in Int /\ y \in Int
      /\ 2 * (C * y) - 2 * x <= n * C /\ -(n * C) <= 2 * (C * y) - 2 * x
  <2>1. C \in Int
    BY <1>2
  <2> QED BY <1>1, <1>3, <2>1, TermsNear
<1> HIDE DEF n, x, y
<1>5. ASSUME NEW c \in Round2(x) PROVE Near(y, c, (Cardinality(H) + 1) \div 2)
  <2>1. /\ c \in Int /\ C * c \in Int
        /\ 2 * (C * c) <= 2 * x + 2 * Drift + C
        /\ 2 * x < 2 * (C * c) + C + 2 * Drift
    BY <1>4, Round2Near DEF C
  <2>2. /\ C * (2 * (y - c)) = 2 * (C * y) - 2 * (C * c) /\ C * (n + 2) = n * C + 2 * C
        /\ C * (2 * (c - y)) = 2 * (C * c) - 2 * (C * y)
        /\ C * y \in Int /\ n * C \in Int
    BY <1>1, <1>2, <1>4, <2>1
  <2>3. C * (2 * (y - c)) < C * (n + 2) /\ C * (2 * (c - y)) < C * (n + 2)
    <3> DEFINE cc == C * c cy == C * y nc == n * C
    <3>1. cc \in Int /\ cy \in Int /\ nc \in Int /\ C \in Int /\ Drift \in Int
      BY <1>2, <2>1, <2>2
    <3>2. /\ 2 * cy - 2 * x <= nc /\ -nc <= 2 * cy - 2 * x
          /\ 2 * cc <= 2 * x + 2 * Drift + C /\ 2 * x < 2 * cc + C + 2 * Drift
          /\ 2 * Drift < C
      BY <1>2, <1>4, <2>1
    <3> HIDE DEF cc, cy, nc
    <3>3. 2 * cy - 2 * cc < nc + 2 * C /\ 2 * cc - 2 * cy < nc + 2 * C
      BY ONLY <1>4, <3>1, <3>2
    <3> QED BY <2>2, <3>3 DEF cc, cy, nc
  <2>4. \A b \in Nat \ {0} : \A i, j \in Int : b * i < b * j => i < j
    OBVIOUS
  <2>5. 2 * (y - c) < n + 2 /\ 2 * (c - y) < n + 2
    <3>1. 2 * (y - c) \in Int /\ 2 * (c - y) \in Int /\ n + 2 \in Int
      BY <1>1, <1>4, <2>1
    <3> QED BY ONLY <1>2, <2>3, <2>4, <3>1
  <2> DEFINE m == n + 1
             M == Cardinality(H) + 1
             g == y - c
  <2>6. m \in Nat /\ M \in Nat /\ m <= M /\ g \in -(m \div 2)..(m \div 2)
    BY <1>1, <1>4, <2>1, <2>5
  <2> HIDE DEF m, M, g
  <2>7. g \in -(M \div 2)..(M \div 2)
    BY <2>6, HalfOfFewer
  <2> QED BY <2>7 DEF Near, M, g
<1> QED BY <1>5 DEF r, x, y, C

\* Whatever the ledger and the prices, run_valuation and ValuationService.compute
\* agree on the value and the cost of a portfolio, but for the roundings: one
\* rounds each position, the other a total of doubles.
THEOREM WorkerAgrees == Spec => []ValuationsAgree
<1>1. TablesInv => ValuationsAgree
  <2> SUFFICES ASSUME TablesInv, NEW p \in Portfolio, NEW d \in Day
               PROVE  LET slack == (Cardinality(Held(p)) + 1) \div 2 IN
                      /\ \A total \in TotalValue(p, d) : Near(WorkerValue(p, d), total, slack)
                      /\ Priced(p, d) = Held(p) =>
                           \A total \in TotalCost(p) : Near(WorkerCost(p, d), total, slack)
    BY DEF ValuationsAgree
  <2> DEFINE H == Held(p)
             R == Priced(p, d)
             C == Costed(p)
             v == [f \in Fund |-> Units(p, f) * NavOnDate(f, d)]
             c == [f \in Fund |-> Units(p, f) * CostBasis(p, f)]
  <2>1. H \subseteq Fund /\ R \subseteq H /\ C \subseteq H /\ d \in Int
    BY Days DEF Held, Priced, Costed
  <2>2. IsFiniteSet(H)
    BY <2>1, ReportsAssumption, FS_Subset
  <2>3. \A a \in Int, b \in Int : (a > 0 /\ b >= 0) => (a * b \in Int /\ a * b >= 0)
    OBVIOUS
  <2>4. \A f \in H : Units(p, f) \in Int /\ Units(p, f) > 0
    BY <2>1, UnitsAreInts, HeldTraded
  <2>5. \A f \in R : v[f] \in Int /\ v[f] >= 0
    <3> SUFFICES ASSUME NEW f \in R PROVE v[f] \in Int /\ v[f] >= 0
      OBVIOUS
    <3>1. f \in Fund /\ f \in H
      BY <2>1
    <3>2. NavOnDate(f, d) \in Int /\ NavOnDate(f, d) >= 0
      BY <2>1, <3>1, NavShape, NavIsNat DEF TablesInv
    <3>3. v[f] = Units(p, f) * NavOnDate(f, d)
      BY <3>1
    <3> QED BY <2>3, <2>4, <3>1, <3>2, <3>3
  <2>6. \A f \in C : c[f] \in Int /\ c[f] >= 0
    <3> SUFFICES ASSUME NEW f \in C PROVE c[f] \in Int /\ c[f] >= 0
      OBVIOUS
    <3>1. f \in Fund /\ f \in H
      BY <2>1
    <3>2. CostBasis(p, f) \in Int /\ CostBasis(p, f) >= 0
      BY <3>1, CostIsNat DEF Costed
    <3>3. c[f] = Units(p, f) * CostBasis(p, f)
      BY <3>1
    <3> QED BY <2>3, <2>4, <3>1, <3>2, <3>3
  <2>7. /\ WorkerValue(p, d) = SumFunctionOnSet([f \in Fund |-> RoundAway(v[f], ACent)], R)
        /\ WorkerCost(p, d) = SumFunctionOnSet([f \in Fund |-> RoundAway(c[f], ACent)], R \cap C)
    <3>1. [f \in Fund |-> RoundAway(v[f], ACent)]
          = [f \in Fund |-> RoundAway(Units(p, f) * NavOnDate(f, d), ACent)]
      OBVIOUS
    <3>2. [f \in Fund |-> RoundAway(c[f], ACent)]
          = [f \in Fund |-> RoundAway(Units(p, f) * CostBasis(p, f), ACent)]
      OBVIOUS
    <3> QED BY <2>1, <3>1, <3>2, WorkerShape
  <2>8. /\ TotalValue(p, d) = Round2(SumFunctionOnSet(v, R))
        /\ TotalCost(p) = Round2(SumFunctionOnSet(c, C))
    BY <2>1, TotalShape, TotalCostShape
  <2>9. R = H => R \cap C = C
    BY <2>1
  <2>10. R \subseteq Fund /\ C \subseteq Fund
    BY <2>1
  <2> HIDE DEF H, R, C, v, c
  <2> DEFINE slack == (Cardinality(H) + 1) \div 2
  <2>11. \A total \in TotalValue(p, d) : Near(WorkerValue(p, d), total, slack)
    BY <2>1, <2>2, <2>5, <2>7, <2>8, <2>10, TermsOrTotal
  <2>12. R = H => \A total \in TotalCost(p) : Near(WorkerCost(p, d), total, slack)
    BY <2>1, <2>2, <2>6, <2>7, <2>8, <2>9, <2>10, TermsOrTotal
  <2> QED BY <2>11, <2>12 DEF H, R
<1> QED BY <1>1, TablesStay, PTL

--------------------------------------------------------------------------------
(* Choices of portfolios.                                                       *)

LEMMA JoinAdds ==
    ASSUME NEW l \in [Txn -> Row \cup {None}], NEW n \in [Fund -> [Day -> Nat]],
           NEW d \in Int
    PROVE  \A S, Q \in SUBSET Portfolio : S \cap Q = {} =>
             /\ CashBy(l, S \cup Q, d) = CashBy(l, S, d) + CashBy(l, Q, d)
             /\ ValueBy(l, n, S \cup Q, d) = ValueBy(l, n, S, d) + ValueBy(l, n, Q, d)
<1> SUFFICES ASSUME NEW S \in SUBSET Portfolio, NEW Q \in SUBSET Portfolio, S \cap Q = {}
             PROVE  /\ CashBy(l, S \cup Q, d) = CashBy(l, S, d) + CashBy(l, Q, d)
                    /\ ValueBy(l, n, S \cup Q, d) = ValueBy(l, n, S, d) + ValueBy(l, n, Q, d)
  OBVIOUS
<1> DEFINE R == S \cup Q
<1>1. \A t \in Txn : /\ Counts(l, R, d, t) <=> Counts(l, S, d, t) \/ Counts(l, Q, d, t)
                     /\ ~(Counts(l, S, d, t) /\ Counts(l, Q, d, t))
  BY DEF Counts
<1>2. CashBy(l, R, d) = CashBy(l, S, d) + CashBy(l, Q, d)
  <2> DEFINE f == CashAdded(l, S, d) g == CashAdded(l, Q, d) h == CashAdded(l, R, d)
  <2>1. ASSUME NEW t \in Txn PROVE f[t] \in Int /\ g[t] \in Int /\ h[t] = f[t] + g[t]
    <3>1. f[t] \in Int /\ g[t] \in Int
      BY AddedInts
    <3>2. \/ h[t] = f[t] /\ g[t] = 0
          \/ h[t] = g[t] /\ f[t] = 0
      BY <1>1 DEF CashAdded
    <3> HIDE DEF f, g, h
    <3> QED BY <3>1, <3>2
  <2> HIDE DEF f, g, h
  <2>2. SumFunctionOnSet(h, Txn) = SumFunctionOnSet(f, Txn) + SumFunctionOnSet(g, Txn)
    BY <2>1, SumPlus, ReportsAssumption
  <2> QED BY <2>2 DEF CashBy, f, g, h
<1>3. ASSUME NEW e \in Fund
      PROVE  UnitsBy(l, R, e, d) = UnitsBy(l, S, e, d) + UnitsBy(l, Q, e, d)
  <2> DEFINE f == UnitsAdded(l, S, e, d) g == UnitsAdded(l, Q, e, d) h == UnitsAdded(l, R, e, d)
  <2>1. ASSUME NEW t \in Txn PROVE f[t] \in Int /\ g[t] \in Int /\ h[t] = f[t] + g[t]
    <3>1. f[t] \in Int /\ g[t] \in Int
      BY AddedInts
    <3>2. \/ h[t] = f[t] /\ g[t] = 0
          \/ h[t] = g[t] /\ f[t] = 0
      BY <1>1 DEF UnitsAdded
    <3> HIDE DEF f, g, h
    <3> QED BY <3>1, <3>2
  <2> HIDE DEF f, g, h
  <2>2. SumFunctionOnSet(h, Txn) = SumFunctionOnSet(f, Txn) + SumFunctionOnSet(g, Txn)
    BY <2>1, SumPlus, ReportsAssumption
  <2> QED BY <2>2 DEF UnitsBy, f, g, h
<1>4. ValueBy(l, n, R, d) = ValueBy(l, n, S, d) + ValueBy(l, n, Q, d)
  <2> DEFINE f == ValueAdded(l, n, S, d) g == ValueAdded(l, n, Q, d) h == ValueAdded(l, n, R, d)
  <2>1. ASSUME NEW e \in Fund PROVE f[e] \in Int /\ g[e] \in Int /\ h[e] = f[e] + g[e]
    <3>1. f[e] \in Int /\ g[e] \in Int
      BY ValueByInt
    <3>2. UnitsBy(l, S, e, d) \in Int /\ UnitsBy(l, Q, e, d) \in Int /\ NavBy(n, e, d) \in Int
      BY UnitsByInt, NavIsNat
    <3>3. h[e] = (UnitsBy(l, S, e, d) + UnitsBy(l, Q, e, d)) * NavBy(n, e, d)
      BY <1>3 DEF ValueAdded
    <3>4. f[e] = UnitsBy(l, S, e, d) * NavBy(n, e, d) /\ g[e] = UnitsBy(l, Q, e, d) * NavBy(n, e, d)
      BY DEF ValueAdded
    <3> HIDE DEF f, g, h
    <3> QED BY <3>1, <3>2, <3>3, <3>4, Products
  <2> HIDE DEF f, g, h
  <2>2. SumFunctionOnSet(h, Fund) = SumFunctionOnSet(f, Fund) + SumFunctionOnSet(g, Fund)
    BY <2>1, SumPlus, ReportsAssumption
  <2> QED BY <2>2 DEF ValueBy, f, g, h
<1> QED BY <1>2, <1>4

LEMMA NoneIsZero ==
    ASSUME NEW l, NEW n \in [Fund -> [Day -> Nat]], NEW d \in Int
    PROVE  CashBy(l, {}, d) = 0 /\ ValueBy(l, n, {}, d) = 0
<1>1. \A t \in Txn : ~Counts(l, {}, d, t)
  BY DEF Counts
<1>2. CashBy(l, {}, d) = 0
  <2>1. \A t \in Txn : CashAdded(l, {}, d)[t] = 0
    BY <1>1 DEF CashAdded
  <2>2. SumFunctionOnSet(CashAdded(l, {}, d), Txn) = SumFunctionOnSet(CashAdded(l, {}, d), {})
    BY <2>1, SumZeros, ReportsAssumption
  <2> QED BY <2>2, SumOverNone DEF CashBy
<1>3. ValueBy(l, n, {}, d) = 0
  <2>1. ASSUME NEW f \in Fund PROVE ValueAdded(l, n, {}, d)[f] = 0
    <3>1. UnitsBy(l, {}, f, d) = 0
      BY <1>1, NotTraded
    <3>2. NavBy(n, f, d) \in Int
      BY NavIsNat
    <3> QED BY <3>1, <3>2 DEF ValueAdded
  <2>2. SumFunctionOnSet(ValueAdded(l, n, {}, d), Fund)
        = SumFunctionOnSet(ValueAdded(l, n, {}, d), {})
    BY <2>1, SumZeros, ReportsAssumption
  <2> QED BY <2>2, SumOverNone DEF ValueBy
<1> QED BY <1>2, <1>3

\* Before the roundings, portfolios add up exactly.
LEMMA PortfoliosAdd ==
    ASSUME NEW l \in [Txn -> Row \cup {None}], NEW n \in [Fund -> [Day -> Nat]],
           NEW S \in SUBSET Portfolio, NEW d \in Int
    PROVE  /\ ValueBy(l, n, S, d)
                = SumFunctionOnSet([p \in Portfolio |-> ValueBy(l, n, {p}, d)], S)
           /\ CashBy(l, S, d) = SumFunctionOnSet([p \in Portfolio |-> CashBy(l, {p}, d)], S)
<1> DEFINE v == [p \in Portfolio |-> ValueBy(l, n, {p}, d)]
           c == [p \in Portfolio |-> CashBy(l, {p}, d)]
           Fine(s) == /\ ValueBy(l, n, s, d) = SumFunctionOnSet(v, s)
                      /\ CashBy(l, s, d) = SumFunctionOnSet(c, s)
           F == {s \in SUBSET S : Fine(s)}
<1>1. IsFiniteSet(S)
  BY ReportsAssumption, FS_Subset
<1>2. \A p \in S : v[p] = ValueBy(l, n, {p}, d) /\ c[p] = CashBy(l, {p}, d)
  OBVIOUS
<1>3. \A p \in S : v[p] \in Int /\ c[p] \in Int
  BY <1>2, ValueByInt, CashByInt
<1> HIDE DEF v, c
<1>4. {} \in F
  BY NoneIsZero, SumOverNone
<1>5. ASSUME NEW s \in SUBSET S, NEW q \in S, s \in F, q \notin s PROVE s \cup {q} \in F
  <2>1. IsFiniteSet(s)
    BY <1>1, FS_Subset
  <2>2. /\ CashBy(l, s \cup {q}, d) = CashBy(l, s, d) + CashBy(l, {q}, d)
        /\ ValueBy(l, n, s \cup {q}, d) = ValueBy(l, n, s, d) + ValueBy(l, n, {q}, d)
    <3>1. s \in SUBSET Portfolio /\ {q} \in SUBSET Portfolio /\ s \cap {q} = {}
      BY <1>5
    <3>2. \A A, B \in SUBSET Portfolio : A \cap B = {} =>
            /\ CashBy(l, A \cup B, d) = CashBy(l, A, d) + CashBy(l, B, d)
            /\ ValueBy(l, n, A \cup B, d) = ValueBy(l, n, A, d) + ValueBy(l, n, B, d)
      BY JoinAdds
    <3> HIDE DEF F
    <3> QED BY <3>1, <3>2
  <2>3. /\ SumFunctionOnSet(v, s \cup {q}) = v[q] + SumFunctionOnSet(v, s)
        /\ SumFunctionOnSet(v, s) \in Int
    BY <1>3, <1>5, <2>1, SumAdd
  <2>4. /\ SumFunctionOnSet(c, s \cup {q}) = c[q] + SumFunctionOnSet(c, s)
        /\ SumFunctionOnSet(c, s) \in Int
    BY <1>3, <1>5, <2>1, SumAdd
  <2>5. ValueBy(l, n, s, d) = SumFunctionOnSet(v, s) /\ CashBy(l, s, d) = SumFunctionOnSet(c, s)
    BY <1>5
  <2>6. Fine(s \cup {q})
    BY <1>2, <1>3, <2>2, <2>3, <2>4, <2>5
  <2> HIDE DEF Fine
  <2> QED BY <2>6
<1>6. S \in F
  <2> HIDE DEF F
  <2> QED BY <1>1, <1>4, <1>5, FiniteInduction
<1> QED BY <1>6 DEF v, c

\* The casts of a window leave half a millionth for each day of trading.
LEMMA CashNear ==
    ASSUME NEW l \in [Txn -> Row \cup {None}], NEW S, NEW a \in Int, NEW d \in Int, a <= d
    PROVE  LET days == Cardinality(TradedOf(l, S))
               x    == CastsBy(l, S, a, d)
               u    == CashBy(l, S, d)
           IN /\ days \in Nat /\ x \in Int /\ u \in Int
              /\ 2 * (One * x) - 2 * u <= One * days /\ -(One * days) <= 2 * (One * x) - 2 * u
<1> DEFINE T == TradedOf(l, S)
           A == T \cap Between(1, a - 1)
           B == T \cap Between(a, d)
           i == Cardinality(A)
           j == Cardinality(B)
           k == Cardinality(T)
           o == Cast(CashBy(l, S, a - 1))
           c == CastSum(l, S, a, d)
           v == CashBy(l, S, a - 1)
           u == CashBy(l, S, d)
<1>1. T \subseteq Day /\ IsFiniteSet(T)
  <2>1. T \subseteq Day
    BY RowNumbers DEF TradedOf
  <2> HIDE DEF T
  <2> QED BY <2>1, FiniteDays, FS_Subset
<1>2. i \in Nat /\ j \in Nat /\ k \in Nat /\ i + j <= k
  <2> HIDE DEF T
  <2>1. IsFiniteSet(A) /\ IsFiniteSet(B) /\ A \cup B \subseteq T
    BY <1>1, FS_Subset
  <2>2. A \cap B = {}
    BY <1>1, Days DEF Between
  <2> HIDE DEF A, B
  <2>3. Cardinality(A \cup B) = Cardinality(A) + Cardinality(B) - Cardinality(A \cap B)
    BY <2>1, FS_Union
  <2>4. Cardinality(A \cap B) = 0
    BY <2>2, FS_EmptySet
  <2>5. Cardinality(A \cup B) <= Cardinality(T)
    BY <1>1, <2>1, FS_Subset
  <2> QED BY <1>1, <2>1, <2>3, <2>4, <2>5, FS_CardinalityType
<1>3. /\ o \in Int /\ 2 * (One * o) - 2 * v <= One * i /\ -(One * i) <= 2 * (One * o) - 2 * v
  BY OpeningNear
<1>4. /\ c \in Int
      /\ 2 * (One * c) - 2 * (u - v) <= One * j /\ -(One * j) <= 2 * (One * c) - 2 * (u - v)
  <2>1. a - 1 <= d
    OBVIOUS
  <2>2. CastsFine(l, S, a, d)
    BY <2>1, CastsNear
  <2> QED BY <2>2 DEF CastsFine
<1>5. u \in Int /\ v \in Int
  BY CashByInt
<1> HIDE DEF T, A, B, i, j, k, o, c, v, u
<1>6. \A e \in Nat \ {0} : \A x, y, z \in Int : e * (x + y) = e * x + e * y /\ e * x \in Int
                                            /\ (x + y <= z => e * x + e * y <= e * z)
  OBVIOUS
<1>7. /\ One * (o + c) = One * o + One * c /\ One * o \in Int /\ One * c \in Int
      /\ One * i \in Int /\ One * j \in Int /\ One * k \in Int /\ One * i + One * j <= One * k
  <2>1. i \in Int /\ j \in Int /\ k \in Int /\ One \in Nat \ {0}
    BY <1>2, Scales
  <2> QED BY ONLY <1>2, <1>3, <1>4, <1>6, <2>1
<1> DEFINE oo == One * o oc == One * c oi == One * i oj == One * j ok == One * k
<1>8. 2 * (oo + oc) - 2 * u <= ok /\ -ok <= 2 * (oo + oc) - 2 * u
  <2>1. /\ 2 * oo - 2 * v <= oi /\ -oi <= 2 * oo - 2 * v
        /\ 2 * oc - 2 * (u - v) <= oj /\ -oj <= 2 * oc - 2 * (u - v)
        /\ oo \in Int /\ oc \in Int /\ oi \in Int /\ oj \in Int /\ ok \in Int /\ oi + oj <= ok
    BY <1>3, <1>4, <1>7
  <2> HIDE DEF oo, oc, oi, oj, ok
  <2> QED BY ONLY <1>5, <2>1
<1>9. CastsBy(l, S, a, d) = o + c
  BY DEF CastsBy, o, c
<1> QED BY <1>2, <1>3, <1>4, <1>5, <1>7, <1>8, <1>9 DEF k, T, u

\* The cash invested that the chart shows and the exact one, of portfolios that trade on
\* k days at most.
LEMMA InvestedNear ==
    ASSUME NEW l \in [Txn -> Row \cup {None}], NEW S, NEW a \in Int, NEW d \in Int, a <= d,
           NEW k \in Nat, Cardinality(TradedOf(l, S)) <= k
    PROVE  LET y == RoundAway(CastsBy(l, S, a, d), Cent)
               u == CashBy(l, S, d)
               m == One * (Cent + k)
           IN /\ y \in Int /\ u \in Int
              /\ 2 * (ACent * y) - 2 * u <= m /\ -m <= 2 * (ACent * y) - 2 * u
<1> DEFINE x == CastsBy(l, S, a, d)
           y == RoundAway(x, Cent)
           u == CashBy(l, S, d)
           j == Cardinality(TradedOf(l, S))
<1>1. /\ j \in Nat /\ x \in Int /\ u \in Int
      /\ 2 * (One * x) - 2 * u <= One * j /\ -(One * j) <= 2 * (One * x) - 2 * u
  BY CashNear
<1>2. One \in Nat \ {0} /\ Cent \in Nat \ {0} /\ ACent = One * Cent
  BY Scales DEF ACent
<1>a. j <= k
  OBVIOUS
<1> HIDE DEF x, u, j
<1>3. /\ y \in Int /\ Cent * y \in Int
      /\ 2 * (Cent * y) <= 2 * x + Cent /\ 2 * x <= 2 * (Cent * y) + Cent
  BY <1>1, <1>2, RoundAwayNear
<1> HIDE DEF y
<1>4. \A e \in Nat \ {0} : \A p, q \in Int :
        /\ e * p \in Int /\ e * (p + q) = e * p + e * q
        /\ e * (2 * p) = 2 * (e * p)
        /\ (p <= q => e * p <= e * q)
  OBVIOUS
<1> DEFINE oy == One * (Cent * y) ox == One * x oc == One * Cent oj == One * j ok == One * k
<1>5. oy \in Int /\ ox \in Int /\ oc \in Int /\ oj \in Int /\ ok \in Int /\ oj <= ok
  <2>1. Cent * y \in Int /\ x \in Int /\ Cent \in Int /\ j \in Int /\ k \in Int /\ j <= k
    BY <1>1, <1>2, <1>3, <1>a
  <2> QED BY ONLY <1>2, <1>4, <2>1
<1>6. 2 * oy <= 2 * ox + oc /\ 2 * ox <= 2 * oy + oc
  <2> DEFINE z == Cent * y
  <2>1. z \in Int /\ x \in Int /\ Cent \in Int /\ 2 * z <= 2 * x + Cent /\ 2 * x <= 2 * z + Cent
    BY <1>1, <1>2, <1>3
  <2> HIDE DEF z
  <2>2. /\ One * (2 * z) <= One * (2 * x + Cent) /\ One * (2 * x) <= One * (2 * z + Cent)
        /\ One * (2 * x + Cent) = One * (2 * x) + One * Cent
        /\ One * (2 * z + Cent) = One * (2 * z) + One * Cent
    <3>1. 2 * z \in Int /\ 2 * x \in Int /\ 2 * x + Cent \in Int /\ 2 * z + Cent \in Int
      BY <2>1
    <3> QED BY ONLY <1>2, <1>4, <2>1, <3>1
  <2>3. One * (2 * z) = 2 * (One * z) /\ One * (2 * x) = 2 * (One * x)
    BY ONLY <1>2, <1>4, <2>1
  <2> QED BY <2>2, <2>3 DEF z
<1>7. ACent * y = oy /\ One * (Cent + k) = oc + ok
  <2>1. \A e, p, q \in Int : (e * p) * q = e * (p * q) /\ e * (p + q) = e * p + e * q
    OBVIOUS
  <2>2. One \in Int /\ Cent \in Int /\ y \in Int /\ k \in Int
    BY <1>2, <1>3
  <2> QED BY ONLY <1>2, <2>1, <2>2
<1>8. 2 * oy - 2 * u <= oc + ok /\ -(oc + ok) <= 2 * oy - 2 * u
  <2>1. 2 * ox - 2 * u <= oj /\ -oj <= 2 * ox - 2 * u
    BY <1>1
  <2> HIDE DEF oy, ox, oc, oj, ok
  <2> QED BY ONLY <1>1, <1>5, <1>6, <2>1
<1> QED BY <1>1, <1>3, <1>7, <1>8 DEF x, y, u

\* The chart of a choice of portfolios is the sum of theirs, but for half a cent of
\* each, and for the casts of its days of trading, whatever they hold in common:
\* aggregateValuationSeries counts a fund once, with the units of all.
THEOREM ChoicesAdd == Spec => []ChoicesAddUp
<1>1. TablesInv => ChoicesAddUp
  <2> SUFFICES ASSUME TablesInv, NEW S \in Selections, NEW to \in Day
               PROVE  LET Alone(p)    == Series({p}, MaxDay, to)[to]
                          Value(p)    == Alone(p).value
                          Invested(p) == Alone(p).invested
                          both        == Series(S, MaxDay, to)[to]
                          roundings   == (Cardinality(S) + 1) * (Cent + Cardinality(TradeDays(S)))
                      IN /\ Near(both.value, MapThenSumSet(Value, S), Cardinality(S) \div 2)
                         /\ Near(both.invested, MapThenSumSet(Invested, S),
                                 roundings \div (2 * Cent))
    BY DEF ChoicesAddUp
  <2> DEFINE Alone(p)    == Series({p}, MaxDay, to)[to]
             Value(p)    == Alone(p).value
             Invested(p) == Alone(p).invested
             both        == Series(S, MaxDay, to)[to]
             a == FirstDay(to)
             k == Cardinality(TradeDays(S))
             v == [p \in Portfolio |-> ValueBy(ledger, nav, {p}, to)]
             c == [p \in Portfolio |-> CashBy(ledger, {p}, to)]
             x == [p \in Portfolio |-> Value(p)]
             y == [p \in Portfolio |-> Invested(p)]
  <2>1. S \in SUBSET Portfolio /\ IsFiniteSet(S) /\ to \in Int /\ a \in Int /\ a <= to
    BY ReportsAssumption, FS_Subset, Days, FirstDays DEF Selections
  <2>2. MapThenSumSet(Value, S) = SumFunctionOnSet(x, S)
    <3> HIDE DEF Value
    <3> QED BY <2>1 DEF MapThenSumSet, SumFunctionOnSet, FoldFunctionOnSet, MapThenFoldSet
  <2>3. MapThenSumSet(Invested, S) = SumFunctionOnSet(y, S)
    <3> HIDE DEF Invested
    <3> QED BY <2>1 DEF MapThenSumSet, SumFunctionOnSet, FoldFunctionOnSet, MapThenFoldSet
  <2> HIDE DEF a
  <2>4. /\ both.value = RoundAway(ValueBy(ledger, nav, S, to), ACent)
        /\ both.invested = RoundAway(CastsBy(ledger, S, a, to), Cent)
    <3>1. both = PointBy(ledger, nav, S, a, to)
      BY <2>1, LastPoint DEF a
    <3> HIDE DEF both
    <3> QED BY <3>1 DEF PointBy
  <2>a. TradeDays(S) \subseteq Day /\ k \in Nat /\ TradeDays(S) = TradedOf(ledger, S)
        /\ IsFiniteSet(TradeDays(S))
    <3>1. TradeDays(S) \subseteq Day
      BY RowNumbers DEF TradeDays, RowsOf, TablesInv
    <3>2. IsFiniteSet(TradeDays(S))
      BY <3>1, FiniteDays, FS_Subset
    <3>3. k \in Nat
      BY <3>2, FS_CardinalityType
    <3>4. TradeDays(S) = TradedOf(ledger, S)
      BY DEF TradeDays, RowsOf, TradedOf
    <3> QED BY <3>1, <3>2, <3>3, <3>4
  <2> DEFINE m == One * (Cent + k)
  <2>5. \A p \in S : /\ v[p] \in Int /\ x[p] = RoundAway(v[p], ACent)
                     /\ c[p] \in Int /\ y[p] \in Int
                     /\ 2 * (ACent * y[p]) - 2 * c[p] <= m /\ -m <= 2 * (ACent * y[p]) - 2 * c[p]
    <3> SUFFICES ASSUME NEW p \in S
                 PROVE  /\ v[p] \in Int /\ x[p] = RoundAway(v[p], ACent)
                        /\ c[p] \in Int /\ y[p] \in Int
                        /\ 2 * (ACent * y[p]) - 2 * c[p] <= m
                        /\ -m <= 2 * (ACent * y[p]) - 2 * c[p]
      OBVIOUS
    <3>1. p \in Portfolio
      BY <2>1
    <3>2. Alone(p) = PointBy(ledger, nav, {p}, a, to)
      BY <3>1, LastPoint DEF a
    <3>3. /\ Value(p) = RoundAway(ValueBy(ledger, nav, {p}, to), ACent)
          /\ Invested(p) = RoundAway(CastsBy(ledger, {p}, a, to), Cent)
      BY <3>2 DEF PointBy
    <3>4. ValueBy(ledger, nav, {p}, to) \in Int
      BY <2>1, ValueByInt DEF TablesInv
    <3>5. Cardinality(TradedOf(ledger, {p})) <= k
      <4>1. TradedOf(ledger, {p}) \subseteq TradeDays(S)
        BY DEF TradeDays, RowsOf, TradedOf
      <4> QED BY <2>a, <4>1, FS_Subset
    <3> DEFINE z == RoundAway(CastsBy(ledger, {p}, a, to), Cent)
               u == CashBy(ledger, {p}, to)
    <3> HIDE DEF Value, Invested, k
    <3>6. /\ z \in Int /\ u \in Int
          /\ 2 * (ACent * z) - 2 * u <= m /\ -m <= 2 * (ACent * z) - 2 * u
      BY <2>1, <2>a, <3>5, InvestedNear DEF TablesInv
    <3>7. y[p] = z /\ c[p] = u /\ v[p] = ValueBy(ledger, nav, {p}, to) /\ x[p] = Value(p)
      BY <3>1, <3>3
    <3> HIDE DEF m, z, u, y, c, v, x
    <3> QED BY <3>3, <3>4, <3>6, <3>7
  <2>6. /\ ValueBy(ledger, nav, S, to) = SumFunctionOnSet(v, S)
        /\ CashBy(ledger, S, to) = SumFunctionOnSet(c, S)
    BY <2>1, PortfoliosAdd DEF TablesInv
  <2>b. LET z == RoundAway(CastsBy(ledger, S, a, to), Cent)
            u == CashBy(ledger, S, to)
        IN /\ z \in Int /\ u \in Int
           /\ 2 * (ACent * z) - 2 * u <= m /\ -m <= 2 * (ACent * z) - 2 * u
    <3>1. Cardinality(TradedOf(ledger, S)) <= k /\ k \in Nat
      BY <2>a
    <3> HIDE DEF k
    <3> QED BY <2>1, <3>1, InvestedNear DEF TablesInv
  <2> HIDE DEF v, c, x, y, both, Value, Invested, k, m
  <2> DEFINE half == Cardinality(S) \div 2
             X == SumFunctionOnSet(x, S)
             V == RoundAway(SumFunctionOnSet(v, S), ACent)
  <2>7. X - V \in -half..half
    BY <2>1, <2>5, RoundingsAdd, Scales
  <2>8. X \in Int /\ V \in Int
    <3>1. \A p \in S : x[p] \in Int
      BY <2>5, Scales, RoundAwayNear
    <3>2. SumFunctionOnSet(v, S) \in Int
      BY <2>1, <2>5, SumIsInt
    <3> QED BY <2>1, <3>1, <3>2, Scales, SumIsInt, RoundAwayNear
  <2>9. Cardinality(S) \in Nat /\ half \in Nat
    <3>1. Cardinality(S) \in Nat
      BY <2>1, FS_CardinalityType
    <3> QED BY <3>1
  <2>10. Near(both.value, MapThenSumSet(Value, S), half)
    <3>1. both.value = V /\ MapThenSumSet(Value, S) = X
      BY <2>2, <2>4, <2>6
    <3> HIDE DEF V, X, half
    <3>2. V - X \in -half..half
      BY <2>7, <2>8, <2>9
    <3> QED BY <3>1, <3>2 DEF Near
  <2> DEFINE Y == SumFunctionOnSet(y, S)
             U == SumFunctionOnSet(c, S)
             B == both.invested
             n == Cardinality(S)
  <2>11. /\ Y \in Int /\ U \in Int /\ n \in Nat
         /\ 2 * (ACent * Y) - 2 * U <= n * m /\ -(n * m) <= 2 * (ACent * Y) - 2 * U
    <3>1. ACent \in Int /\ m \in Int
      <4>1. One \in Int /\ Cent + k \in Int
        BY <2>a, Scales
      <4> QED BY <4>1, Scales, Products DEF m
    <3> QED BY <2>1, <2>5, <3>1, TermsNear
  <2>12. B \in Int /\ 2 * (ACent * B) - 2 * U <= m /\ -m <= 2 * (ACent * B) - 2 * U
    BY <2>4, <2>6, <2>b
  <2> HIDE DEF Y, U, B, n
  <2> DEFINE r == (n + 1) * (Cent + k)
             e == 2 * Cent
  <2>13. r \in Int /\ e \in Nat \ {0} /\ e * (B - Y) <= r /\ e * (Y - B) <= r
    <3> DEFINE t == Cent + k
               f == B - Y
               g == Y - B
    <3>1. t \in Int /\ One \in Nat \ {0} /\ Cent \in Nat \ {0} /\ m = One * t /\ f \in Int /\ g \in Int
      BY <2>a, <2>11, <2>12, Scales DEF m
    <3>2. 2 * (ACent * B) - 2 * (ACent * Y) <= n * m + m /\ 2 * (ACent * Y) - 2 * (ACent * B) <= n * m + m
      <4> DEFINE b == ACent * B z == ACent * Y nm == n * m
      <4>1. m \in Int
        BY <3>1, Products
      <4>2. b \in Int /\ z \in Int /\ nm \in Int
        BY <2>11, <2>12, <4>1, Scales, Products
      <4>3. 2 * z - 2 * U <= nm /\ -nm <= 2 * z - 2 * U /\ 2 * b - 2 * U <= m /\ -m <= 2 * b - 2 * U
        BY <2>11, <2>12
      <4> HIDE DEF b, z, nm, m
      <4>4. 2 * b - 2 * z <= nm + m /\ 2 * z - 2 * b <= nm + m
        BY ONLY <2>11, <4>1, <4>2, <4>3
      <4> QED BY <4>4 DEF b, z, nm
    <3>3. /\ 2 * (ACent * B) - 2 * (ACent * Y) = One * (e * f)
          /\ 2 * (ACent * Y) - 2 * (ACent * B) = One * (e * g)
          /\ n * m + m = One * r
      <4>1. \A o, q, i, j \in Int : 2 * ((o * q) * i) - 2 * ((o * q) * j) = o * ((2 * q) * (i - j))
        OBVIOUS
      <4>2. \A o, q, i \in Int : q * (o * i) + o * i = o * ((q + 1) * i)
        OBVIOUS
      <4>3. One \in Int /\ Cent \in Int /\ n \in Int /\ ACent = One * Cent
        BY <2>11, <3>1 DEF ACent
      <4>4. n * m + m = One * r
        <5>1. m = One * t /\ r = (n + 1) * t
          BY <3>1
        <5> HIDE DEF m, t, r
        <5> QED BY ONLY <3>1, <4>2, <4>3, <5>1
      <4>5. 2 * (ACent * B) - 2 * (ACent * Y) = One * (e * f)
        BY ONLY <2>11, <2>12, <4>1, <4>3
      <4>6. 2 * (ACent * Y) - 2 * (ACent * B) = One * (e * g)
        BY ONLY <2>11, <2>12, <4>1, <4>3
      <4> QED BY <4>4, <4>5, <4>6
    <3>4. e \in Nat \ {0} /\ r \in Int /\ e * f \in Int /\ e * g \in Int
      <4>1. e \in Nat \ {0}
        BY <3>1
      <4>2. n + 1 \in Int
        BY <2>11
      <4>3. r \in Int
        BY <3>1, <4>2, Products
      <4> HIDE DEF f, g, e
      <4> QED BY <3>1, <4>1, <4>3, Products
    <3>5. One * (e * f) <= One * r /\ One * (e * g) <= One * r
      BY <3>2, <3>3
    <3>6. \A b \in Nat \ {0} : \A i, j \in Int : b * i <= b * j => i <= j
      OBVIOUS
    <3> DEFINE ef == e * f eg == e * g
    <3> HIDE DEF r
    <3>7. ef \in Int /\ eg \in Int /\ One * ef <= One * r /\ One * eg <= One * r
      BY <3>4, <3>5
    <3> HIDE DEF ef, eg
    <3>8. ef <= r /\ eg <= r
      BY ONLY <3>1, <3>4, <3>6, <3>7
    <3> QED BY <3>4, <3>8 DEF ef, eg
  <2>14. Near(both.invested, MapThenSumSet(Invested, S), r \div e)
    <3> DEFINE q == r \div e
    <3>1. B \in Int /\ Y \in Int /\ B - Y \in Int /\ Y - B \in Int
      BY <2>11, <2>12
    <3> HIDE DEF r, e
    <3>2. B - Y <= q /\ Y - B <= q
      BY <2>13, <3>1, QuotientBound
    <3>3. q \in Int
      BY <2>13, Quotient
    <3> HIDE DEF q
    <3>4. B - Y \in -q..q
      BY <3>1, <3>2, <3>3
    <3> QED BY <2>3, <3>4 DEF Near, B, Y, q
  <2> QED BY <2>10, <2>14 DEF half, both, Value, Invested, k, n, r, e
<1> QED BY <1>1, TablesStay, PTL

--------------------------------------------------------------------------------
(* The shares of a template buy.                                                *)

LEMMA LargestOf ==
    ASSUME NEW n \in Nat, NEW S, S \subseteq 1..n, S # {}
    PROVE  Max(S) \in S
<1> DEFINE T == {n - d : d \in S}
<1>a. \A d \in S : d \in Nat /\ d <= n
  OBVIOUS
<1>1. T \subseteq Nat /\ T # {}
  <2>1. \A d \in S : n - d \in Nat
    BY <1>a
  <2> QED BY <2>1
<1>2. PICK m \in T : \A x \in T : m <= x
  BY <1>1, Smallest
<1>3. PICK d \in S : m = n - d
  BY <1>2
<1>4. \A e \in S : d >= e
  <2>1. \A e \in S : n - d <= n - e
    BY <1>2, <1>3
  <2> QED BY <2>1, <1>a
<1> QED BY <1>4 DEF Max

\* The fold from the left of a sequence of numbers is their sum.
LEMMA TotalIsSum ==
    ASSUME NEW s \in Seq(Int)
    PROVE  Total(s) = SumFunctionOnSet(s, DOMAIN s)
<1> DEFINE D == DOMAIN s
           c == [e \in SUBSET D |-> Max(e)]
           k == CHOOSE g : g = [e \in SUBSET D |->
                                  IF e = {} THEN 0 ELSE LET x == Max(e) IN g[e \ {x}] + s[x]]
<1>1. D = 1..Len(s) /\ Len(s) \in Nat /\ IsFiniteSet(D) /\ \A i \in D : s[i] \in Int
  BY FS_Interval
<1>2. Total(s) = k[D]
  BY DEF Total, FoldLeft, MapThenFoldSet
<1>3. \A e \in SUBSET D : e # {} => Max(e) \in e
  BY <1>1, LargestOf
<1>4. k = [e \in SUBSET D |-> IF e = {} THEN 0 ELSE LET x == Max(e) IN k[e \ {x}] + s[x]]
  <2>1. PICK h : Sums(h, s, D)
    BY <1>1, SumsExist
  <2>2. \A e \in SUBSET D : h[e] \in Int /\ \A x \in e : h[e] = s[x] + h[e \ {x}]
    <3> HIDE DEF D, k, c
    <3>1. PICK f : f = s
      OBVIOUS
    <3>2. IsFiniteSet(D) /\ Sums(h, f, D) /\ \A i \in D : f[i] \in Int
      BY <1>1, <2>1, <3>1
    <3>3. \A e \in SUBSET D : h[e] \in Int /\ \A x \in e : h[e] = f[x] + h[e \ {x}]
      BY ONLY <3>2, SumsRemove
    <3> QED BY <3>1, <3>3
  <2>3. h[{}] = 0
    BY <2>1 DEF Sums, NextSum
  <2>4. ASSUME NEW e \in SUBSET D
        PROVE  h[e] = IF e = {} THEN 0 ELSE LET x == Max(e) IN h[e \ {x}] + s[x]
    <3>1. CASE e = {}
      BY <2>3, <3>1
    <3>2. CASE e # {}
      <4>1. Max(e) \in e /\ e \ {Max(e)} \in SUBSET D
        BY <1>3, <3>2
      <4>2. h[e] = s[Max(e)] + h[e \ {Max(e)}] /\ h[e \ {Max(e)}] \in Int /\ s[Max(e)] \in Int
        BY <1>1, <2>2, <4>1
      <4> QED BY <3>2, <4>2
    <3> QED BY <3>1, <3>2
  <2>5. h = [e \in SUBSET D |-> h[e]]
    BY <2>1 DEF Sums
  <2>6. h = [e \in SUBSET D |-> IF e = {} THEN 0 ELSE LET x == Max(e) IN h[e \ {x}] + s[x]]
    BY <2>4, <2>5
  <2> QED BY <2>6
<1>5. SumsBy(k, s, c, D)
  <2> HIDE DEF k
  <2> QED BY <1>4 DEF SumsBy
<1>6. \A e \in SUBSET D : e # {} => c[e] \in e
  BY <1>3
<1> HIDE DEF k, c, D
<1>7. k[D] = SumFunctionOnSet(s, D)
  BY <1>1, <1>5, <1>6, SumInOrder
<1> QED BY <1>2, <1>7 DEF D

LEMMA ItemsAreTemplate ==
    ASSUME NEW items \in Orders
    PROVE  LET N == Cardinality(TemplateFunds)
               w == [k \in 1..N |-> Weight[items[k]]]
           IN /\ N \in Nat \ {0} /\ items \in [1..N -> TemplateFunds]
              /\ \A k \in 1..N : w[k] \in Nat \ {0}
              /\ SumFunctionOnSet(w, 1..N) = WeightSum
              /\ WeightSum \in Nat \ {0}
<1> DEFINE N == Cardinality(TemplateFunds)
           w == [k \in 1..N |-> Weight[items[k]]]
<1>1. IsFiniteSet(TemplateFunds) /\ TemplateFunds # {}
  BY ReportsAssumption, FS_Subset DEF TemplateFunds
<1>2. N \in Nat \ {0}
  BY <1>1, FS_CardinalityType, FS_EmptySet
<1>3. items \in [1..N -> TemplateFunds] /\ IsInjective(items)
  BY DEF Orders
<1>4. \A k \in 1..N : w[k] \in Nat \ {0} /\ Weight[items[k]] = w[k]
  BY <1>3, ReportsAssumption DEF TemplateFunds
<1>5. IsFiniteSet(1..N) /\ Cardinality(1..N) = N
  BY <1>2, FS_Interval
<1>6. items \in Surjection(1..N, TemplateFunds)
  <2>1. items \in Injection(1..N, TemplateFunds)
    BY <1>3 DEF Injection
  <2> QED BY <1>1, <1>5, <2>1, FS_Injection
<1>7. {items[k] : k \in 1..N} = TemplateFunds
  BY <1>3, <1>6 DEF Surjection
<1>8. \A j, k \in 1..N : items[j] = items[k] => j = k
  BY <1>3 DEF IsInjective
<1> HIDE DEF w, N
<1>9. SumFunctionOnSet(Weight, {items[k] : k \in 1..N}) = SumFunctionOnSet(w, 1..N)
  <2>1. PICK D : D = 1..N
    OBVIOUS
  <2>2. \A k \in D : w[k] \in Int /\ Weight[items[k]] = w[k]
    BY <1>4, <2>1
  <2>3. \A j, k \in D : items[j] = items[k] => j = k
    BY <1>8, <2>1
  <2>4. IsFiniteSet(D)
    BY <1>5, <2>1
  <2>5. SumFunctionOnSet(Weight, {items[k] : k \in D}) = SumFunctionOnSet(w, D)
    BY <2>2, <2>3, <2>4, SumRenamed
  <2> QED BY <2>1, <2>5
<1>10. SumFunctionOnSet(w, 1..N) = WeightSum
  BY <1>7, <1>9 DEF WeightSum, SumFunction, TemplateFunds
<1>11. WeightSum \in Nat \ {0}
  <2>1. (1..N - 1) \cup {N} = 1..N /\ N \notin 1..N - 1 /\ IsFiniteSet(1..N - 1)
    BY <1>2, FS_Interval
  <2>2. SumFunctionOnSet(w, (1..N - 1) \cup {N}) = w[N] + SumFunctionOnSet(w, 1..N - 1)
    <3>1. \A k \in (1..N - 1) \cup {N} : w[k] \in Int
      BY <1>4, <2>1
    <3> QED BY <2>1, <3>1, SumAdd
  <2>3. SumFunctionOnSet(w, 1..N - 1) \in Int /\ SumFunctionOnSet(w, 1..N - 1) >= 0
    <3>1. \A k \in 1..N - 1 : w[k] \in Int /\ w[k] >= 0
      BY <1>4, <2>1
    <3> QED BY <2>1, <3>1, SumNatural
  <2>4. w[N] \in Nat \ {0}
    BY <1>2, <1>4
  <2>5. WeightSum = w[N] + SumFunctionOnSet(w, 1..N - 1)
    BY <1>10, <2>1, <2>2, Zenon
  <2> QED BY <2>3, <2>4, <2>5
<1> QED BY <1>2, <1>3, <1>4, <1>10, <1>11 DEF w, N

\* The shares of some of the funds, rounded each, and their part of the amount.
LEMMA SharesNear ==
    ASSUME NEW S, IsFiniteSet(S), NEW w, NEW q, NEW amount \in Int, NEW W \in Nat \ {0},
           \A k \in S : w[k] \in Int /\ q[k] = RoundUp(amount * w[k], W)
    PROVE  /\ \A k \in S : /\ q[k] \in Int
                           /\ 2 * (W * q[k]) - 2 * (amount * w[k]) <= W
                           /\ -W <= 2 * (W * q[k]) - 2 * (amount * w[k])
           /\ 2 * (W * SumFunctionOnSet(q, S)) - 2 * (amount * SumFunctionOnSet(w, S))
                \in -(Cardinality(S) * W)..(Cardinality(S) * W)
<1> DEFINE A(s) == W * SumFunctionOnSet(q, s)
           B(s) == amount * SumFunctionOnSet(w, s)
           C(s) == Cardinality(s) * W
           Fine(s) == /\ A(s) \in Int /\ B(s) \in Int /\ C(s) \in Int
                      /\ 2 * A(s) - 2 * B(s) <= C(s) /\ -C(s) <= 2 * A(s) - 2 * B(s)
           F == {s \in SUBSET S : Fine(s)}
<1>1. ASSUME NEW k \in S
      PROVE  /\ q[k] \in Int /\ W * q[k] \in Int /\ amount * w[k] \in Int
             /\ 2 * (W * q[k]) - 2 * (amount * w[k]) <= W
             /\ -W <= 2 * (W * q[k]) - 2 * (amount * w[k])
  <2> DEFINE a == amount * w[k]
             r == RoundUp(a, W)
  <2>1. a \in Int
    BY Products
  <2>2. q[k] = r
    OBVIOUS
  <2> HIDE DEF a
  <2>3. r \in Int /\ 2 * (W * r) <= 2 * a + W /\ 2 * a < 2 * (W * r) + W
    BY <2>1, RoundUpNear
  <2> HIDE DEF r
  <2>4. W * r \in Int
    BY <2>3, Products
  <2> QED BY <2>1, <2>2, <2>3, <2>4 DEF a
<1>2. {} \in F
  <2>1. A({}) = 0 /\ B({}) = 0 /\ C({}) = 0
    BY SumOverNone, FS_EmptySet
  <2>2. Fine({})
    BY <2>1
  <2> HIDE DEF Fine
  <2> QED BY <2>2
<1>3. ASSUME NEW s \in SUBSET S, NEW k \in S, s \in F, k \notin s PROVE s \cup {k} \in F
  <2>1. IsFiniteSet(s) /\ Cardinality(s) \in Nat
    BY FS_Subset, FS_CardinalityType
  <2>2. SumFunctionOnSet(q, s \cup {k}) = q[k] + SumFunctionOnSet(q, s)
        /\ SumFunctionOnSet(q, s) \in Int
    <3>1. \A j \in s \cup {k} : q[j] \in Int
      BY <1>1
    <3> QED BY <1>3, <2>1, <3>1, SumAdd
  <2>3. SumFunctionOnSet(w, s \cup {k}) = w[k] + SumFunctionOnSet(w, s)
        /\ SumFunctionOnSet(w, s) \in Int
    BY <1>3, <2>1, SumAdd
  <2>4. Cardinality(s \cup {k}) = Cardinality(s) + 1
    BY <1>3, <2>1, FS_AddElement
  <2>5. \A c, d \in Int : /\ W * (c + d) = W * c + W * d /\ (c + 1) * W = c * W + W
                          /\ amount * (c + d) = amount * c + amount * d
    OBVIOUS
  <2>6. A(s \cup {k}) = W * q[k] + A(s)
    BY <1>1, <2>2, <2>5
  <2>7. B(s \cup {k}) = amount * w[k] + B(s)
    BY <2>3, <2>5
  <2>8. C(s \cup {k}) = C(s) + W
    BY <2>1, <2>4, <2>5
  <2>9. Fine(s)
    BY <1>3
  <2> DEFINE x == W * q[k]
             y == amount * w[k]
  <2>10. x \in Int /\ y \in Int /\ 2 * x - 2 * y <= W /\ -W <= 2 * x - 2 * y
    BY <1>1
  <2>11. A(s \cup {k}) = x + A(s) /\ B(s \cup {k}) = y + B(s)
    BY <2>6, <2>7
  <2> HIDE DEF A, B, C, F, x, y
  <2>12. Fine(s \cup {k})
    BY <2>8, <2>9, <2>10, <2>11
  <2> HIDE DEF Fine
  <2> QED BY <2>12 DEF F
<1>4. S \in F
  <2> HIDE DEF F
  <2> QED BY <1>2, <1>3, FiniteInduction
<1>5. Fine(S)
  BY <1>4
<1> QED BY <1>1, <1>5

\* Whatever the weights and the amount, and in whatever order the funds come, the
\* shares of applyTemplateBuy add up to the amount, and each is its part of it but
\* for half a unit per fund; the last takes what the roundings leave.
THEOREM BuySpends == Spec => []BuySpendsAmount
<1>1. BuySpendsAmount
  <2> SUFFICES ASSUME NEW items \in Orders, NEW amount \in Amount
               PROVE  LET shares == Shares(items, amount) IN
                      /\ Total(shares) = amount
                      /\ \A k \in DOMAIN items :
                           Near(2 * shares[k] * WeightSum, 2 * amount * Weight[items[k]],
                                (Cardinality(TemplateFunds) - 1) * WeightSum)
    BY DEF BuySpendsAmount
  <2> DEFINE N == Cardinality(TemplateFunds)
             W == WeightSum
             w == [k \in 1..N |-> Weight[items[k]]]
             share == [k \in DOMAIN items |-> RoundUp(amount * Weight[items[k]], W)]
             front == Front(share)
             last == amount - Total(front)
             shares == Append(front, last)
             R == 1..N - 1
  <2>1. /\ N \in Nat \ {0} /\ items \in [1..N -> TemplateFunds]
        /\ \A k \in 1..N : w[k] \in Nat \ {0}
        /\ SumFunctionOnSet(w, 1..N) = W
        /\ W \in Nat \ {0}
    BY ItemsAreTemplate
  <2>2. amount \in Int
    BY ReportsAssumption
  <2>3. \A k \in 1..N : w[k] = Weight[items[k]] /\ share[k] = RoundUp(amount * w[k], W)
    BY <2>1
  <2>4. share \in Seq(Int) /\ Len(share) = N
    <3>1. \A k \in 1..N : RoundUp(amount * w[k], W) \in Int
      <4> SUFFICES ASSUME NEW k \in 1..N PROVE RoundUp(amount * w[k], W) \in Int
        OBVIOUS
      <4> DEFINE a == amount * w[k]
      <4>1. a \in Int
        BY <2>1, <2>2, Products
      <4> HIDE DEF a
      <4>2. RoundUp(a, W) \in Int
        BY <2>1, <4>1, RoundUpNear
      <4> QED BY <4>2 DEF a
    <3>2. share = [k \in 1..N |-> RoundUp(amount * w[k], W)]
      BY <2>1
    <3> HIDE DEF w, N, W, share
    <3> QED BY <2>1, <3>1, <3>2
  <2>5. Shares(items, amount) = shares
    BY DEF Shares
  <2> HIDE DEF w, N, W, share
  <2>6. /\ front \in Seq(Int) /\ Len(front) = N - 1
        /\ \A k \in R : front[k] = share[k]
    BY <2>1, <2>4 DEF Front
  <2>7. IsFiniteSet(R) /\ Cardinality(R) = N - 1 /\ DOMAIN front = R
        /\ R \cup {N} = 1..N /\ N \notin R
    <3>1. N - 1 \in Nat
      BY <2>1
    <3>2. IsFiniteSet(R) /\ Cardinality(R) = N - 1
      BY <3>1, FS_Interval
    <3>3. DOMAIN front = R
      BY <2>6
    <3>4. R \cup {N} = 1..N /\ N \notin R
      BY <2>1
    <3> QED BY <3>2, <3>3, <3>4
  <2>8. Total(front) = SumFunctionOnSet(front, R) /\ Total(front) \in Int
    <3>1. \A k \in R : front[k] \in Int
      BY <2>6, <2>7
    <3> HIDE DEF front, R
    <3> QED BY <2>6, <2>7, <3>1, TotalIsSum, SumIsInt
  <2> HIDE DEF front
  <2>9. /\ shares \in Seq(Int) /\ Len(shares) = N /\ shares[N] = last /\ last \in Int
        /\ \A k \in R : shares[k] = front[k]
    BY <2>1, <2>2, <2>6, <2>8
  <2> HIDE DEF shares, last
  <2>10. Total(shares) = amount
    <3>1. Total(shares) = SumFunctionOnSet(shares, R \cup {N})
      <4>1. DOMAIN shares = 1..N
        BY <2>9
      <4>2. Total(shares) = SumFunctionOnSet(shares, DOMAIN shares)
        BY <2>9, TotalIsSum
      <4> HIDE DEF R
      <4> QED BY <2>7, <4>1, <4>2
    <3>2. \A k \in R \cup {N} : shares[k] \in Int
      BY <2>7, <2>9
    <3> HIDE DEF R
    <3>3. SumFunctionOnSet(shares, R \cup {N}) = shares[N] + SumFunctionOnSet(shares, R)
      BY <2>7, <3>2, SumAdd
    <3>4. SumFunctionOnSet(shares, R) = SumFunctionOnSet(front, R)
      BY <2>7, <2>9, SumSame
    <3> QED BY <2>2, <2>8, <2>9, <3>1, <3>3, <3>4 DEF last
  <2>11. \A k \in R : w[k] \in Int /\ front[k] = RoundUp(amount * w[k], W)
    BY <2>1, <2>3, <2>6, <2>7
  <2>12. /\ \A k \in R : /\ front[k] \in Int
                         /\ 2 * (W * front[k]) - 2 * (amount * w[k]) <= W
                         /\ -W <= 2 * (W * front[k]) - 2 * (amount * w[k])
         /\ 2 * (W * SumFunctionOnSet(front, R)) - 2 * (amount * SumFunctionOnSet(w, R))
              \in -((N - 1) * W)..((N - 1) * W)
    <3> HIDE DEF R
    <3>1. /\ \A k \in R : /\ front[k] \in Int
                          /\ 2 * (W * front[k]) - 2 * (amount * w[k]) <= W
                          /\ -W <= 2 * (W * front[k]) - 2 * (amount * w[k])
          /\ 2 * (W * SumFunctionOnSet(front, R)) - 2 * (amount * SumFunctionOnSet(w, R))
               \in -(Cardinality(R) * W)..(Cardinality(R) * W)
      <4>1. IsFiniteSet(R) /\ W \in Nat \ {0}
        BY <2>1, <2>7
      <4> QED BY ONLY <4>1, <2>2, <2>11, SharesNear
    <3> QED BY <2>7, <3>1
  <2>13. ASSUME NEW k \in R
         PROVE  Near(2 * shares[k] * W, 2 * amount * w[k], (N - 1) * W)
    <3> DEFINE x == W * front[k]
               y == amount * w[k]
               z == (N - 1) * W
    <3>1. front[k] \in Int /\ w[k] \in Int /\ x \in Int /\ y \in Int /\ z \in Int
      BY <2>1, <2>2, <2>11, <2>12, Products
    <3>2. 2 * front[k] * W = 2 * x /\ 2 * amount * w[k] = 2 * y
      <4>1. \A a, b \in Int : 2 * a * b = 2 * (b * a) /\ 2 * a * b = 2 * (a * b)
        OBVIOUS
      <4>2. front[k] \in Int /\ w[k] \in Int /\ W \in Int /\ amount \in Int
        BY <2>1, <2>2, <3>1
      <4> QED BY ONLY <4>1, <4>2
    <3>3. W <= z
      <4>1. N - 1 \in Nat \ {0}
        BY <2>1
      <4>2. \A a, b \in Nat \ {0} : b <= a * b
        OBVIOUS
      <4> QED BY <2>1, <4>1, <4>2
    <3>4. 2 * x - 2 * y <= W /\ -W <= 2 * x - 2 * y
      BY <2>12
    <3> HIDE DEF x, y, z
    <3>5. 2 * x - 2 * y \in -z..z
      BY <2>1, <3>1, <3>3, <3>4
    <3> QED BY <2>9, <3>2, <3>5 DEF Near, z
  <2>14. Near(2 * shares[N] * W, 2 * amount * w[N], (N - 1) * W)
    <3> DEFINE f == SumFunctionOnSet(front, R)
               v == SumFunctionOnSet(w, R)
    <3>1. f \in Int /\ v \in Int /\ w[N] \in Int
      <4>1. \A k \in R : w[k] \in Int
        BY <2>11
      <4>2. N \in 1..N
        BY <2>1
      <4> HIDE DEF R
      <4> QED BY <2>1, <2>7, <2>8, <4>1, <4>2, SumIsInt
    <3>2. W = w[N] + v
      <4>1. \A k \in R \cup {N} : w[k] \in Int
        BY <2>1, <2>7
      <4> HIDE DEF R
      <4> QED BY <2>1, <2>7, <4>1, SumAdd
    <3>3. shares[N] = amount - f
      BY <2>8, <2>9 DEF last
    <3> HIDE DEF f, v
    <3>4. 2 * (amount - f) * W - 2 * amount * w[N] = -(2 * (W * f) - 2 * (amount * v))
      <4>1. \A a, b, c, d \in Int :
              2 * (a - b) * (c + d) - 2 * a * c = -(2 * ((c + d) * b) - 2 * (a * d))
        OBVIOUS
      <4> QED BY <2>2, <3>1, <3>2, <4>1
    <3> DEFINE g == 2 * (W * f) - 2 * (amount * v)
               z == (N - 1) * W
    <3>5. g \in -z..z /\ z \in Int
      BY <2>1, <2>12 DEF f, v
    <3>6. g \in Int
      BY <2>1, <2>2, <3>1
    <3> HIDE DEF g, z
    <3>7. -g \in -z..z
      BY <3>5, <3>6
    <3> QED BY <3>3, <3>4, <3>7 DEF Near, g, z
  <2>15. \A k \in DOMAIN items :
           Near(2 * shares[k] * W, 2 * amount * Weight[items[k]], (N - 1) * W)
    <3> SUFFICES ASSUME NEW k \in 1..N
                 PROVE  Near(2 * shares[k] * W, 2 * amount * w[k], (N - 1) * W)
      BY <2>1, <2>3
    <3>1. k \in R \/ k = N
      BY <2>7
    <3> HIDE DEF R
    <3> QED BY <2>13, <2>14, <3>1
  <2> QED BY <2>5, <2>10, <2>15 DEF N, W
<1> QED BY <1>1, PTL

--------------------------------------------------------------------------------
(* The search for the latest price.                                             *)

\* h lists the days S in order.
Lists(h, S) ==
    /\ h \in [1..Cardinality(S) -> S]
    /\ \A i, j \in 1..Cardinality(S) : i < j => h[i] < h[j]

LEMMA ListExists ==
    ASSUME NEW S \in SUBSET Day
    PROVE  \E h : Lists(h, S)
<1> DEFINE T == {n \in Nat : \A R \in SUBSET Day : Cardinality(R) = n => \E h : Lists(h, R)}
<1>1. \A R \in SUBSET Day : IsFiniteSet(R) /\ Cardinality(R) \in Nat
  BY FiniteDays, FS_Subset, FS_CardinalityType
<1>2. 0 \in T
  <2> SUFFICES ASSUME NEW R \in SUBSET Day, Cardinality(R) = 0 PROVE \E h : Lists(h, R)
    OBVIOUS
  <2> DEFINE h == [i \in 1..0 |-> CHOOSE x \in R : TRUE]
  <2>1. Lists(h, R)
    BY DEF Lists
  <2> QED BY <2>1
<1>3. ASSUME NEW n \in Nat, n \in T PROVE n + 1 \in T
  <2> SUFFICES ASSUME NEW R \in SUBSET Day, Cardinality(R) = n + 1 PROVE \E h : Lists(h, R)
    OBVIOUS
  <2> DEFINE m == Max(R)
             Q == R \ {m}
  <2>1. IsFiniteSet(R) /\ R # {}
    BY <1>1, FS_EmptySet
  <2>2. m \in R /\ \A d \in R : m >= d
    BY <2>1, MaxOfDays
  <2> HIDE DEF m
  <2>3. Cardinality(Q) = n
    <3>1. Cardinality(Q) = Cardinality(R) - 1
      BY <2>1, <2>2, FS_RemoveElement
    <3> QED BY <3>1
  <2>4. PICK g : Lists(g, Q)
    BY <1>3, <2>3
  <2>5. \A d \in Q : d < m
    BY <2>2, Days
  <2>a. g \in [1..n -> Q] /\ \A i, j \in 1..n : i < j => g[i] < g[j]
    BY <2>3, <2>4 DEF Lists
  <2> DEFINE h == [i \in 1..n + 1 |-> IF i <= n THEN g[i] ELSE m]
  <2>6. h \in [1..n + 1 -> R]
    <3>1. \A i \in 1..n + 1 : i <= n => g[i] \in Q
      <4> HIDE DEF Q
      <4> QED BY <2>a
    <3> QED BY <2>2, <3>1
  <2>7. ASSUME NEW i \in 1..n + 1, NEW j \in 1..n + 1, i < j PROVE h[i] < h[j]
    <3>1. i <= n /\ h[i] = g[i] /\ g[i] \in Q
      <4>1. i \in 1..n
        BY <2>7
      <4> HIDE DEF Q
      <4> QED BY <2>a, <4>1
    <3>2. CASE j <= n
      <4>1. i \in 1..n /\ j \in 1..n /\ h[j] = g[j]
        BY <2>7, <3>1, <3>2
      <4> HIDE DEF h, Q
      <4> QED BY <2>a, <2>7, <3>1, <4>1
    <3>3. CASE j > n
      <4>1. h[j] = m
        BY <3>3
      <4>2. g[i] < m
        BY <2>5, <3>1
      <4> QED BY <3>1, <4>1, <4>2
    <3> QED BY <3>2, <3>3
  <2>8. Lists(h, R)
    BY <2>6, <2>7 DEF Lists
  <2> QED BY <2>8
<1>4. Nat \subseteq T
  <2> HIDE DEF T
  <2> QED BY <1>2, <1>3, SetInduction
<1> QED BY <1>1, <1>4

\* The days of a fund that its history lists.
Listed(f) == {d \in PricedDays(f) : d <= AvailableTo}

LEMMA HistoryLists == \A f \in Fund : Lists(History(f), Listed(f))
<1> SUFFICES ASSUME NEW f \in Fund PROVE Lists(History(f), Listed(f))
  OBVIOUS
<1>1. Listed(f) \in SUBSET Day
  BY DEF Listed, PricedDays
<1>2. PICK h : Lists(h, Listed(f))
  BY <1>1, ListExists
<1> QED BY <1>2 DEF History, Lists, Listed

\* A history lists all of its days.
LEMMA ListedIsAll ==
    ASSUME NEW S \in SUBSET Day, NEW h, Lists(h, S)
    PROVE  /\ Cardinality(S) \in Nat /\ Len(h) = Cardinality(S)
           /\ \A d \in S : \E i \in 1..Cardinality(S) : h[i] = d
           /\ \A i \in 1..Cardinality(S) : h[i] \in S
<1> DEFINE N == Cardinality(S)
<1>1. IsFiniteSet(S) /\ N \in Nat
  BY FiniteDays, FS_Subset, FS_CardinalityType
<1>2. h \in [1..N -> S] /\ \A i, j \in 1..N : i < j => h[i] < h[j]
  BY DEF Lists
<1>3. \A d \in S : d \in Nat
  BY Days
<1> HIDE DEF N
<1>4. \A i \in 1..N : h[i] \in S /\ h[i] \in Int
  BY <1>2, <1>3
<1>5. h \in Injection(1..N, S)
  <2>1. ASSUME NEW i \in 1..N, NEW j \in 1..N, h[i] = h[j] PROVE i = j
    <3>1. ~(i < j) /\ ~(j < i)
      BY <1>2, <1>4, <2>1
    <3> QED BY <3>1
  <2> QED BY <1>2, <2>1 DEF Injection, IsInjective
<1>6. h \in Surjection(1..N, S)
  <2>1. Cardinality(1..N) = N
    BY <1>1, FS_Interval
  <2> QED BY <1>1, <1>5, <2>1, FS_Injection DEF N
<1>7. Len(h) = N
  <2>1. h \in Seq(S)
    BY <1>1, <1>2
  <2> QED BY <1>1, <1>2, <2>1
<1> QED BY <1>1, <1>4, <1>6, <1>7 DEF Surjection, N

\* One step of the search, when g answers for the smaller intervals.
NextSearch(g, h, d, s) ==
    IF s.lo > s.hi THEN s.found
    ELSE LET mid == (s.lo + s.hi) \div 2 IN
         IF h[mid] <= d THEN g[[s EXCEPT !.lo = mid + 1, !.found = h[mid]]]
         ELSE g[[s EXCEPT !.hi = mid - 1]]

LEMMA Middle ==
    ASSUME NEW a \in Int, NEW b \in Int, a <= b
    PROVE  (a + b) \div 2 \in a..b
  OBVIOUS

\* Both halves are smaller.
LEMMA Halves ==
    ASSUME NEW S \in SUBSET Day, NEW h, Lists(h, S), NEW s \in Interval(h), s.lo <= s.hi
    PROVE  LET mid == (s.lo + s.hi) \div 2
               right == [s EXCEPT !.lo = mid + 1, !.found = h[mid]]
               left == [s EXCEPT !.hi = mid - 1]
           IN /\ mid \in s.lo..s.hi /\ mid \in 1..Len(h)
              /\ right = [lo |-> mid + 1, hi |-> s.hi, found |-> h[mid]]
              /\ right \in Interval(h) /\ right.hi - right.lo < s.hi - s.lo
              /\ left = [lo |-> s.lo, hi |-> mid - 1, found |-> s.found]
              /\ left \in Interval(h) /\ left.hi - left.lo < s.hi - s.lo
<1> DEFINE mid == (s.lo + s.hi) \div 2
<1>1. Len(h) \in Nat /\ \A i \in 1..Len(h) : h[i] \in Day
  BY ListedIsAll
<1>2. /\ s.lo \in 1..Len(h) + 1 /\ s.hi \in 0..Len(h) /\ s.found \in 0..MaxDay
      /\ s = [lo |-> s.lo, hi |-> s.hi, found |-> s.found]
  BY DEF Interval
<1>3. s.lo \in Int /\ s.hi \in Int
  BY <1>1, <1>2
<1>4. mid \in s.lo..s.hi
  BY <1>3, Middle
<1> HIDE DEF mid
<1>5. mid \in 1..Len(h)
  BY <1>1, <1>2, <1>4
<1>6. h[mid] \in 0..MaxDay
  <2>1. h[mid] \in Day
    BY <1>1, <1>5
  <2> QED BY <2>1, Days
<1> DEFINE right == [s EXCEPT !.lo = mid + 1, !.found = h[mid]]
           left == [s EXCEPT !.hi = mid - 1]
<1>a. PICK a, b, c : s = [lo |-> a, hi |-> b, found |-> c]
  BY <1>2
<1>7. right = [lo |-> mid + 1, hi |-> s.hi, found |-> h[mid]]
  <2>1. PICK x : x = h[mid]
    OBVIOUS
  <2>2. right = [[[lo |-> a, hi |-> b, found |-> c] EXCEPT !.lo = mid + 1] EXCEPT !.found = x]
    BY <1>a, <2>1
  <2>3. s.hi = b
    BY <1>a
  <2> HIDE DEF right
  <2> QED BY <2>1, <2>2, <2>3
<1>8. left = [lo |-> s.lo, hi |-> mid - 1, found |-> s.found]
  <2>1. left = [[lo |-> a, hi |-> b, found |-> c] EXCEPT !.hi = mid - 1]
    BY <1>a
  <2>2. s.lo = a /\ s.found = c
    BY <1>a
  <2> QED BY <2>1, <2>2
<1>9. right \in Interval(h) /\ right.hi - right.lo < s.hi - s.lo
  <2>1. mid + 1 \in 1..Len(h) + 1 /\ s.hi - (mid + 1) < s.hi - s.lo
    BY <1>1, <1>3, <1>4, <1>5
  <2> HIDE DEF right
  <2> QED BY <1>2, <1>6, <1>7, <2>1 DEF Interval
<1>10. left \in Interval(h) /\ left.hi - left.lo < s.hi - s.lo
  <2>1. mid - 1 \in 0..Len(h) /\ (mid - 1) - s.lo < s.hi - s.lo
    BY <1>1, <1>3, <1>4, <1>5
  <2> HIDE DEF left
  <2> QED BY <1>2, <1>8, <2>1 DEF Interval
<1> HIDE DEF right, left
<1>11. /\ mid \in s.lo..s.hi /\ mid \in 1..Len(h)
       /\ right = [lo |-> mid + 1, hi |-> s.hi, found |-> h[mid]]
       /\ right \in Interval(h) /\ right.hi - right.lo < s.hi - s.lo
       /\ left = [lo |-> s.lo, hi |-> mid - 1, found |-> s.found]
       /\ left \in Interval(h) /\ left.hi - left.lo < s.hi - s.lo
  BY <1>4, <1>5, <1>7, <1>8, <1>9, <1>10
<1> QED BY ONLY <1>11 DEF mid, right, left

LEMMA SearchExists ==
    ASSUME NEW S \in SUBSET Day, NEW h, Lists(h, S), NEW d
    PROVE  \E g : g = [s \in Interval(h) |-> NextSearch(g, h, d, s)]
<1> DEFINE Small(n) == {s \in Interval(h) : s.hi - s.lo < n}
           Exists(n) == \E g : g = [s \in Small(n) |-> NextSearch(g, h, d, s)]
           T == {n \in Nat : Exists(n)}
<1>1. Len(h) \in Nat
  BY ListedIsAll
<1>2. \A s \in Interval(h) : s.lo \in Int /\ s.hi \in Int /\ s.hi - s.lo < Len(h)
  BY <1>1 DEF Interval
<1>3. 0 \in T
  <2> DEFINE g == [s \in Small(0) |-> s.found]
  <2>1. \A s \in Small(0) : s.lo > s.hi
    BY <1>2
  <2>2. g = [s \in Small(0) |-> NextSearch(g, h, d, s)]
    BY <2>1 DEF NextSearch
  <2>3. Exists(0)
    BY <2>2
  <2> HIDE DEF Exists
  <2> QED BY <2>3
<1>4. ASSUME NEW n \in Nat, n \in T PROVE n + 1 \in T
  <2>1. PICK e : e = [s \in Small(n) |-> NextSearch(e, h, d, s)]
    BY <1>4
  <2> DEFINE g == [s \in Small(n + 1) |-> NextSearch(e, h, d, s)]
  <2>2. \A s \in Small(n) : s \in Small(n + 1) /\ g[s] = e[s]
    BY <1>2, <2>1
  <2>3. ASSUME NEW s \in Small(n + 1), s.lo <= s.hi
        PROVE  LET mid == (s.lo + s.hi) \div 2
               IN /\ [s EXCEPT !.lo = mid + 1, !.found = h[mid]] \in Small(n)
                  /\ [s EXCEPT !.hi = mid - 1] \in Small(n)
    <3> DEFINE mid == (s.lo + s.hi) \div 2
               right == [s EXCEPT !.lo = mid + 1, !.found = h[mid]]
               left == [s EXCEPT !.hi = mid - 1]
    <3>1. /\ right \in Interval(h) /\ right.hi - right.lo < s.hi - s.lo
          /\ left \in Interval(h) /\ left.hi - left.lo < s.hi - s.lo
      BY <2>3, Halves
    <3> HIDE DEF right, left
    <3>2. s.hi - s.lo < n + 1 /\ s \in Interval(h)
      OBVIOUS
    <3>3. right \in Small(n) /\ left \in Small(n)
      BY <1>2, <3>1, <3>2
    <3> QED BY <3>3 DEF right, left
  <2>4. \A s \in Small(n + 1) : NextSearch(g, h, d, s) = NextSearch(e, h, d, s)
    <3> SUFFICES ASSUME NEW s \in Small(n + 1)
                 PROVE  NextSearch(g, h, d, s) = NextSearch(e, h, d, s)
      OBVIOUS
    <3>1. CASE s.lo > s.hi
      BY <3>1 DEF NextSearch
    <3>2. CASE ~(s.lo > s.hi)
      <4> DEFINE mid == (s.lo + s.hi) \div 2
                 right == [s EXCEPT !.lo = mid + 1, !.found = h[mid]]
                 left == [s EXCEPT !.hi = mid - 1]
      <4>1. s.lo <= s.hi
        BY <1>2, <3>2
      <4>2. right \in Small(n) /\ left \in Small(n)
        BY <2>3, <4>1
      <4> HIDE DEF g, Small
      <4>3. g[right] = e[right] /\ g[left] = e[left]
        BY <2>2, <4>2
      <4> QED BY <4>3 DEF NextSearch
    <3> QED BY <3>1, <3>2
  <2>5. g = [s \in Small(n + 1) |-> NextSearch(g, h, d, s)]
    BY <2>4
  <2>6. Exists(n + 1)
    BY <2>5
  <2> HIDE DEF Exists
  <2> QED BY <2>6
<1>5. Nat \subseteq T
  <2> HIDE DEF T
  <2> QED BY <1>3, <1>4, SetInduction
<1>6. Len(h) \in T
  BY <1>1, <1>5
<1>7. Small(Len(h)) = Interval(h)
  BY <1>2
<1> QED BY <1>6, <1>7

\* g searches the history h for day d.
Searches(g, h, d) == g = [s \in Interval(h) |-> NextSearch(g, h, d, s)]

\* What the search has found: all days before lo are up to d, all days after hi are
\* later, and the latest of the former is found.
Narrowed(h, d, s) ==
    /\ s \in Interval(h) /\ s.lo <= s.hi + 1
    /\ \A i \in 1..Len(h) : i < s.lo => h[i] <= d
    /\ \A i \in 1..Len(h) : i > s.hi => h[i] > d
    /\ s.found = IF s.lo = 1 THEN 0 ELSE h[s.lo - 1]

\* At the end of the search the latest day up to d is found.
LEMMA SearchEnds ==
    ASSUME NEW S \in SUBSET Day, NEW h, Lists(h, S), NEW d \in Int, NEW s,
           Narrowed(h, d, s), s.lo > s.hi
    PROVE  s.found = LastOf({e \in S : e <= d})
<1> DEFINE R == {e \in S : e <= d}
           N == Len(h)
<1>1. /\ N \in Nat /\ N = Cardinality(S)
      /\ \A e \in S : \E i \in 1..N : h[i] = e
      /\ \A i \in 1..N : h[i] \in S
  BY ListedIsAll
<1>2. \A i, j \in 1..N : i < j => h[i] < h[j]
  BY <1>1 DEF Lists
<1>3. \A e \in S : e \in Int
  BY Days
<1> HIDE DEF N
<1>4. s.lo \in 1..N + 1 /\ s.hi \in 0..N /\ s.lo = s.hi + 1
  <2>1. s.lo \in 1..N + 1 /\ s.hi \in 0..N /\ s.lo <= s.hi + 1
    BY DEF Narrowed, Interval, N
  <2> QED BY <1>1, <2>1
<1>5. /\ \A i \in 1..N : i < s.lo => h[i] <= d
      /\ \A i \in 1..N : i > s.hi => h[i] > d
      /\ s.found = IF s.lo = 1 THEN 0 ELSE h[s.lo - 1]
  BY DEF Narrowed, N
<1>6. \A e \in R : \E i \in 1..N : h[i] = e /\ i < s.lo
  <2> SUFFICES ASSUME NEW e \in R PROVE \E i \in 1..N : h[i] = e /\ i < s.lo
    OBVIOUS
  <2>1. PICK i \in 1..N : h[i] = e
    BY <1>1
  <2>2. ~(i > s.hi)
    BY <1>3, <1>5, <2>1
  <2> QED BY <1>1, <1>4, <2>1, <2>2
<1>7. CASE s.lo = 1
  <2>1. R = {}
    BY <1>6, <1>7
  <2> QED BY <1>5, <1>7, <2>1 DEF LastOf
<1>8. CASE s.lo # 1
  <2>1. s.lo - 1 \in 1..N /\ s.lo - 1 < s.lo
    BY <1>1, <1>4, <1>8
  <2> DEFINE m == h[s.lo - 1]
  <2>2. m \in R
    BY <1>1, <1>5, <2>1
  <2>3. \A e \in R : m >= e
    <3> SUFFICES ASSUME NEW e \in R PROVE m >= e
      OBVIOUS
    <3>1. PICK i \in 1..N : h[i] = e /\ i < s.lo
      BY <1>6
    <3>2. i = s.lo - 1 \/ i < s.lo - 1
      BY <1>4, <3>1
    <3>3. m \in Int /\ e \in Int
      BY <1>3, <2>2
    <3> QED BY <1>2, <2>1, <3>1, <3>2, <3>3
  <2>4. R \in SUBSET Day /\ R # {}
    BY <2>2
  <2> HIDE DEF m, R
  <2>5. Max(R) = m
    <3>1. Max(R) \in R /\ \A e \in R : Max(R) >= e
      BY <2>4, MaxOfDays
    <3>2. m \in Nat /\ Max(R) \in Nat
      BY <2>2, <2>4, <3>1, Days
    <3> QED BY <2>2, <2>3, <3>1, <3>2
  <2> QED BY <1>5, <1>8, <2>4, <2>5 DEF LastOf, m, R
<1> QED BY <1>7, <1>8

\* Each half of the interval keeps what the search has found.
LEMMA SearchNarrows ==
    ASSUME NEW S \in SUBSET Day, NEW h, Lists(h, S), NEW d \in Int, NEW s,
           Narrowed(h, d, s), s.lo <= s.hi
    PROVE  LET mid == (s.lo + s.hi) \div 2
           IN IF h[mid] <= d THEN Narrowed(h, d, [s EXCEPT !.lo = mid + 1, !.found = h[mid]])
                             ELSE Narrowed(h, d, [s EXCEPT !.hi = mid - 1])
<1> DEFINE N == Len(h)
           mid == (s.lo + s.hi) \div 2
           right == [s EXCEPT !.lo = mid + 1, !.found = h[mid]]
           left == [s EXCEPT !.hi = mid - 1]
<1>1. /\ N \in Nat /\ N = Cardinality(S)
      /\ \A i \in 1..N : h[i] \in S
  BY ListedIsAll
<1>2. \A i, j \in 1..N : i < j => h[i] < h[j]
  BY <1>1 DEF Lists
<1>3. \A i \in 1..N : h[i] \in Int
  BY <1>1, Days
<1>4. s \in Interval(h)
  BY DEF Narrowed
<1>5. /\ mid \in s.lo..s.hi /\ mid \in 1..N
      /\ right = [lo |-> mid + 1, hi |-> s.hi, found |-> h[mid]] /\ right \in Interval(h)
      /\ left = [lo |-> s.lo, hi |-> mid - 1, found |-> s.found] /\ left \in Interval(h)
  BY <1>4, Halves
<1>6. s.lo \in 1..N + 1 /\ s.hi \in 0..N
  BY <1>4 DEF Interval
<1> HIDE DEF N, mid, right, left
<1>7. /\ \A i \in 1..N : i < s.lo => h[i] <= d
      /\ \A i \in 1..N : i > s.hi => h[i] > d
      /\ s.found = IF s.lo = 1 THEN 0 ELSE h[s.lo - 1]
  BY DEF Narrowed, N
<1>8. CASE h[mid] <= d
  <2>1. right.lo = mid + 1 /\ right.hi = s.hi /\ right.found = h[mid]
    BY <1>5
  <2>2. mid + 1 <= s.hi + 1 /\ mid + 1 # 1 /\ mid + 1 - 1 = mid
    BY <1>1, <1>5, <1>6
  <2>3. \A i \in 1..N : i < mid + 1 => h[i] <= d
    <3> SUFFICES ASSUME NEW i \in 1..N, i < mid + 1 PROVE h[i] <= d
      OBVIOUS
    <3>1. i = mid \/ i < mid
      BY <1>5
    <3>2. h[i] \in Int /\ h[mid] \in Int
      BY <1>3, <1>5
    <3> QED BY <1>2, <1>5, <1>8, <3>1, <3>2
  <2>4. Narrowed(h, d, right)
    BY <1>5, <1>7, <2>1, <2>2, <2>3 DEF Narrowed, N
  <2> QED BY <1>8, <2>4 DEF right, mid
<1>9. CASE ~(h[mid] <= d)
  <2>1. left.lo = s.lo /\ left.hi = mid - 1 /\ left.found = s.found
    BY <1>5
  <2>2. s.lo <= mid - 1 + 1
    BY <1>1, <1>5, <1>6
  <2>3. \A i \in 1..N : i > mid - 1 => h[i] > d
    <3> SUFFICES ASSUME NEW i \in 1..N, i > mid - 1 PROVE h[i] > d
      OBVIOUS
    <3>1. i = mid \/ mid < i
      BY <1>5
    <3>2. h[i] \in Int /\ h[mid] \in Int
      BY <1>3, <1>5
    <3> QED BY <1>2, <1>5, <1>9, <3>1, <3>2
  <2>4. Narrowed(h, d, left)
    BY <1>5, <1>7, <2>1, <2>2, <2>3 DEF Narrowed, N
  <2> QED BY <1>9, <2>4 DEF left, mid
<1> QED BY <1>8, <1>9 DEF mid

LEMMA SearchFollows ==
    ASSUME NEW S \in SUBSET Day, NEW h, Lists(h, S), NEW d \in Int, NEW g, Searches(g, h, d)
    PROVE  \A s \in Interval(h) : Narrowed(h, d, s) => g[s] = LastOf({e \in S : e <= d})
<1> DEFINE last == LastOf({e \in S : e <= d})
           T == {n \in Nat : \A s \in Interval(h) :
                   Narrowed(h, d, s) /\ s.hi - s.lo < n => g[s] = last}
<1>1. Len(h) \in Nat
  BY ListedIsAll
<1>2. \A s \in Interval(h) : s.lo \in Int /\ s.hi \in Int /\ s.hi - s.lo < Len(h)
  BY <1>1 DEF Interval
<1>3. \A s \in Interval(h) : g[s] = NextSearch(g, h, d, s)
  BY DEF Searches
<1>4. ASSUME NEW s \in Interval(h), Narrowed(h, d, s), s.lo > s.hi PROVE g[s] = last
  <2>1. g[s] = s.found
    BY <1>3, <1>4 DEF NextSearch
  <2> QED BY <1>4, <2>1, SearchEnds
<1> HIDE DEF last
<1>5. 0 \in T
  BY <1>2, <1>4
<1>6. ASSUME NEW n \in Nat, n \in T PROVE n + 1 \in T
  <2> SUFFICES ASSUME NEW s \in Interval(h), Narrowed(h, d, s), s.hi - s.lo < n + 1
               PROVE  g[s] = last
    OBVIOUS
  <2>1. CASE s.lo > s.hi
    BY <1>4, <2>1
  <2>2. CASE ~(s.lo > s.hi)
    <3> DEFINE mid == (s.lo + s.hi) \div 2
               right == [s EXCEPT !.lo = mid + 1, !.found = h[mid]]
               left == [s EXCEPT !.hi = mid - 1]
    <3>1. s.lo <= s.hi
      BY <1>2, <2>2
    <3>2. /\ right \in Interval(h) /\ right.hi - right.lo < s.hi - s.lo
          /\ left \in Interval(h) /\ left.hi - left.lo < s.hi - s.lo
      BY <3>1, Halves
    <3>3. IF h[mid] <= d THEN Narrowed(h, d, right) ELSE Narrowed(h, d, left)
      BY <3>1, SearchNarrows
    <3>4. g[s] = IF h[mid] <= d THEN g[right] ELSE g[left]
      BY <1>3, <2>2 DEF NextSearch
    <3> HIDE DEF right, left, mid
    <3>5. right.hi - right.lo < n /\ left.hi - left.lo < n
      BY <1>2, <3>2
    <3> QED BY <1>6, <3>2, <3>3, <3>4, <3>5
  <2> QED BY <2>1, <2>2
<1>7. Nat \subseteq T
  <2> HIDE DEF T
  <2> QED BY <1>5, <1>6, SetInduction
<1> QED BY <1>1, <1>2, <1>7 DEF last

\* What the binary search returns.
LEMMA Found ==
    ASSUME NEW S \in SUBSET Day, NEW h, Lists(h, S), NEW d \in Int
    PROVE  FindLatest(h, d) = LastOf({e \in S : e <= d})
<1> DEFINE search == CHOOSE g : g = [s \in Interval(h) |-> NextSearch(g, h, d, s)]
           all == [lo |-> 1, hi |-> Len(h), found |-> 0]
<1>1. Searches(search, h, d)
  BY SearchExists DEF Searches
<1>2. FindLatest(h, d) = search[all]
  BY DEF FindLatest, NextSearch
<1> HIDE DEF search
<1>3. all \in Interval(h) /\ Narrowed(h, d, all)
  <2>1. Len(h) \in Nat
    BY ListedIsAll
  <2>2. all \in Interval(h)
    BY <2>1, Days DEF Interval
  <2> QED BY <2>1, <2>2 DEF Narrowed
<1> QED BY <1>1, <1>2, <1>3, SearchFollows

\* The first and the last day on which all funds of the template have a price.
LEMMA Available ==
    ASSUME AllPriced
    PROVE  /\ AvailableFrom \in Day /\ AvailableTo \in Day
           /\ \A f \in TemplateFunds :
                /\ Min(PricedDays(f)) \in PricedDays(f)
                /\ \A d \in PricedDays(f) : Min(PricedDays(f)) <= d
                /\ Max(PricedDays(f)) \in PricedDays(f)
                /\ Min(PricedDays(f)) <= AvailableFrom
                /\ AvailableTo <= Max(PricedDays(f))
           /\ \E f \in TemplateFunds : AvailableFrom = Min(PricedDays(f))
<1> DEFINE first == {Min(PricedDays(f)) : f \in TemplateFunds}
           last == {Max(PricedDays(f)) : f \in TemplateFunds}
<1>1. \A f \in TemplateFunds : PricedDays(f) \in SUBSET Day /\ PricedDays(f) # {}
  BY DEF AllPriced, PricedDays
<1>2. \A f \in TemplateFunds :
        /\ Min(PricedDays(f)) \in PricedDays(f)
        /\ \A d \in PricedDays(f) : Min(PricedDays(f)) <= d
  <2> SUFFICES ASSUME NEW f \in TemplateFunds
               PROVE  /\ Min(PricedDays(f)) \in PricedDays(f)
                      /\ \A d \in PricedDays(f) : Min(PricedDays(f)) <= d
    OBVIOUS
  <2>1. PricedDays(f) \subseteq Nat /\ PricedDays(f) # {}
    BY <1>1, Days
  <2> QED BY <2>1, MinOfDays
<1>3. \A f \in TemplateFunds : Max(PricedDays(f)) \in PricedDays(f)
  BY <1>1, MaxOfDays
<1>4. first \subseteq Day /\ first # {} /\ last \subseteq Day /\ last # {}
  BY <1>1, <1>2, <1>3, ReportsAssumption DEF TemplateFunds
<1>5. AvailableFrom \in first /\ \A d \in first : AvailableFrom >= d
  BY <1>4, MaxOfDays DEF AvailableFrom
<1>6. AvailableTo \in last /\ \A d \in last : AvailableTo <= d
  <2>1. last \subseteq Nat
    BY <1>4, Days
  <2> QED BY <1>4, <2>1, MinOfDays DEF AvailableTo
<1>7. AvailableFrom \in Day /\ AvailableTo \in Day
  BY <1>4, <1>5, <1>6
<1>8. \A f \in TemplateFunds :
        Min(PricedDays(f)) <= AvailableFrom /\ AvailableTo <= Max(PricedDays(f))
  <2> SUFFICES ASSUME NEW f \in TemplateFunds
               PROVE  Min(PricedDays(f)) <= AvailableFrom /\ AvailableTo <= Max(PricedDays(f))
    OBVIOUS
  <2>1. Min(PricedDays(f)) \in Nat /\ AvailableFrom \in Nat
    BY <1>1, <1>2, <1>7, Days
  <2>2. AvailableFrom >= Min(PricedDays(f))
    BY <1>5
  <2>3. AvailableTo <= Max(PricedDays(f))
    BY <1>6
  <2> HIDE DEF first, last
  <2> QED BY <2>1, <2>2, <2>3
<1>9. \E f \in TemplateFunds : AvailableFrom = Min(PricedDays(f))
  BY <1>5
<1> QED BY <1>2, <1>3, <1>7, <1>8, <1>9

LEMMA FoundInHistory ==
    ASSUME NEW f \in TemplateFunds, NEW d \in Int
    PROVE  FindLatest(History(f), d) = LastOf({e \in Listed(f) : e <= d})
<1>1. f \in Fund
  BY ReportsAssumption DEF TemplateFunds
<1>2. Listed(f) \in SUBSET Day
  BY DEF Listed, PricedDays
<1> QED BY <1>1, <1>2, HistoryLists, Found

\* The binary search of the template series finds the latest price on or before the
\* day, for histories of every length.
THEOREM SearchFinds == Spec => []SearchFindsLatest
<1>1. SearchFindsLatest
  <2> SUFFICES ASSUME AllPriced, NEW f \in TemplateFunds, NEW d \in Day
               PROVE  FindLatest(History(f), d) = NavDay(f, Min({d, AvailableTo}))
    BY DEF SearchFindsLatest
  <2>1. d \in Nat /\ AvailableTo \in Nat
    BY Available, Days
  <2>2. PICK m \in Nat : m = Min({d, AvailableTo})
    BY <2>1, MinOfDays
  <2>3. m \in {d, AvailableTo} /\ m <= d /\ m <= AvailableTo
    BY <2>1, <2>2, MinOfDays
  <2>4. \A e \in PricedDays(f) : e \in Nat
    BY Days DEF PricedDays
  <2>5. {e \in Listed(f) : e <= d} = {e \in PricedDays(f) : e <= m}
    BY <2>1, <2>3, <2>4 DEF Listed
  <2>6. FindLatest(History(f), d) = LastOf({e \in Listed(f) : e <= d})
    BY <2>1, FoundInHistory
  <2> QED BY <2>2, <2>5, <2>6 DEF NavDay
<1> QED BY <1>1, PTL

--------------------------------------------------------------------------------
(* The days of a template series.                                               *)

\* A day has a point from the first day with all prices on.
LEMMA CompleteFrom ==
    ASSUME AllPriced, AvailableFrom <= AvailableTo
    PROVE  \A d \in Int : Complete(d) <=> AvailableFrom <= d
<1> SUFFICES ASSUME NEW d \in Int PROVE Complete(d) <=> AvailableFrom <= d
  OBVIOUS
<1>1. /\ AvailableFrom \in Nat /\ AvailableTo \in Nat
      /\ \A f \in TemplateFunds : Min(PricedDays(f)) \in Nat /\ PricedDays(f) \subseteq Nat
  BY Available, Days DEF PricedDays
<1>2. \A f \in TemplateFunds : FindLatest(History(f), d) # 0 <=> Min(PricedDays(f)) <= d
  <2> SUFFICES ASSUME NEW f \in TemplateFunds
               PROVE  FindLatest(History(f), d) # 0 <=> Min(PricedDays(f)) <= d
    OBVIOUS
  <2> DEFINE seen == {e \in Listed(f) : e <= d}
             m == Min(PricedDays(f))
  <2>1. seen \subseteq Day
    BY DEF Listed, PricedDays
  <2>2. FindLatest(History(f), d) # 0 <=> seen # {}
    <3> HIDE DEF seen
    <3>1. LastOf(seen) = 0 <=> seen = {}
      BY <2>1, LastOfDays
    <3>2. FindLatest(History(f), d) = LastOf(seen)
      BY FoundInHistory DEF seen
    <3> QED BY <3>1, <3>2
  <2>3. /\ m \in PricedDays(f) /\ m <= AvailableFrom
        /\ \A e \in PricedDays(f) : m <= e
    BY Available
  <2> HIDE DEF m
  <2>4. m \in Listed(f)
    BY <1>1, <2>3 DEF Listed
  <2>5. ASSUME m <= d PROVE seen # {}
    BY <2>4, <2>5
  <2>6. ASSUME NEW e \in seen PROVE m <= d
    <3>1. e \in PricedDays(f) /\ e <= d
      BY DEF Listed
    <3>2. m \in Nat /\ e \in Nat /\ m <= e
      BY <1>1, <2>3, <3>1
    <3> QED BY <3>1, <3>2
  <2> HIDE DEF seen
  <2> QED BY <2>2, <2>5, <2>6 DEF m
<1>3. \A f \in TemplateFunds : Min(PricedDays(f)) <= AvailableFrom
  BY Available
<1>4. \E f \in TemplateFunds : AvailableFrom = Min(PricedDays(f))
  BY Available
<1>5. ASSUME AvailableFrom <= d, NEW f \in TemplateFunds PROVE Min(PricedDays(f)) <= d
  BY <1>1, <1>3, <1>5
<1> QED BY <1>2, <1>4, <1>5 DEF Complete

\* A fund has no day up to the ceiling just when its first is after it.
LEMMA EmptyHistory ==
    ASSUME AllPriced
    PROVE  \A f \in TemplateFunds : History(f) = <<>> <=> Min(PricedDays(f)) > AvailableTo
<1> SUFFICES ASSUME NEW f \in TemplateFunds
             PROVE  History(f) = <<>> <=> Min(PricedDays(f)) > AvailableTo
  OBVIOUS
<1> DEFINE m == Min(PricedDays(f))
           N == Cardinality(Listed(f))
           h == History(f)
<1>1. Listed(f) \in SUBSET Day /\ Lists(h, Listed(f))
  <2>1. f \in Fund
    BY ReportsAssumption DEF TemplateFunds
  <2> QED BY <2>1, HistoryLists DEF Listed, PricedDays
<1> HIDE DEF h
<1>2. /\ N \in Nat /\ Len(h) = N /\ h \in [1..N -> Listed(f)]
      /\ \A d \in Listed(f) : \E i \in 1..N : h[i] = d
      /\ \A i \in 1..N : h[i] \in Listed(f)
  <2>1. h \in [1..N -> Listed(f)]
    BY <1>1 DEF Lists
  <2> QED BY <1>1, <2>1, ListedIsAll
<1> HIDE DEF N
<1>3. h = <<>> <=> Listed(f) = {}
  <2>1. ASSUME h = <<>> PROVE Listed(f) = {}
    <3>1. N = 0
      BY <1>2, <2>1
    <3> QED BY <1>2, <3>1
  <2>2. ASSUME Listed(f) = {} PROVE h = <<>>
    <3>1. N = 0
      BY <1>2, <2>2
    <3>2. h \in Seq(Listed(f))
      BY <1>2
    <3> QED BY <1>2, <3>1, <3>2
  <2> QED BY <2>1, <2>2
<1>4. m \in PricedDays(f) /\ \A d \in PricedDays(f) : m <= d
  BY Available
<1>5. AvailableTo \in Nat /\ PricedDays(f) \subseteq Nat
  BY Available, Days DEF PricedDays
<1> HIDE DEF m
<1>6. Listed(f) = {} <=> m > AvailableTo
  <2>1. ASSUME m > AvailableTo, NEW d \in Listed(f) PROVE FALSE
    <3>1. d \in PricedDays(f) /\ d <= AvailableTo
      BY DEF Listed
    <3>2. m <= d /\ m \in Nat /\ d \in Nat
      BY <1>4, <1>5, <3>1
    <3> QED BY <1>5, <2>1, <3>1, <3>2
  <2>2. ASSUME ~(m > AvailableTo) PROVE m \in Listed(f)
    BY <1>4, <1>5, <2>2 DEF Listed
  <2> QED BY <2>1, <2>2
<1> QED BY <1>3, <1>6 DEF h, m

LEMMA WindowIsInts ==
    ASSUME AllPriced, AvailableFrom <= AvailableTo,
           NEW n \in {0} \cup Windows, NEW from \in Day \cup {None}, NEW to \in Day \cup {None}
    PROVE  /\ SeriesStart(n, from, to) \in Int
           /\ SeriesEnd(from, to) \in Int /\ SeriesEnd(from, to) <= AvailableTo
<1>1. AvailableFrom \in Nat /\ AvailableTo \in Nat
  BY Available, Days
<1>2. from # None => from \in Nat
  BY Days
<1>3. to # None => to \in Nat
  BY Days
<1>4. SeriesEnd(from, to) \in Int /\ SeriesEnd(from, to) <= AvailableTo
  BY <1>1, <1>2, <1>3 DEF SeriesEnd
<1>5. n \in Int
  BY Days DEF Windows
<1>6. Clamp(n, 2, 3650) \in Int
  BY <1>5 DEF Clamp
<1>7. Max({History(f)[1] : f \in TemplateFunds}) \in Int
  <2> DEFINE firsts == {History(f)[1] : f \in TemplateFunds}
  <2>1. \A f \in TemplateFunds : History(f)[1] \in Day
    <3> SUFFICES ASSUME NEW f \in TemplateFunds PROVE History(f)[1] \in Day
      OBVIOUS
    <3> DEFINE N == Cardinality(Listed(f))
               h == History(f)
    <3>1. Listed(f) \in SUBSET Day /\ Lists(h, Listed(f))
      <4>1. f \in Fund
        BY ReportsAssumption DEF TemplateFunds
      <4> QED BY <4>1, HistoryLists DEF Listed, PricedDays
    <3>2. Min(PricedDays(f)) \in Nat /\ Min(PricedDays(f)) <= AvailableFrom
      BY Available, Days DEF PricedDays
    <3>3. Min(PricedDays(f)) \in Listed(f)
      <4>1. Min(PricedDays(f)) \in PricedDays(f)
        BY Available
      <4> QED BY <1>1, <3>2, <4>1 DEF Listed
    <3> HIDE DEF h
    <3>4. /\ N \in Nat /\ \A d \in Listed(f) : \E i \in 1..N : h[i] = d
          /\ \A i \in 1..N : h[i] \in Listed(f)
      BY <3>1, ListedIsAll
    <3> HIDE DEF N
    <3>5. 1 \in 1..N
      BY <3>3, <3>4
    <3> QED BY <3>1, <3>4, <3>5 DEF h
  <2>2. firsts \subseteq Day /\ firsts # {}
    BY <2>1, ReportsAssumption DEF TemplateFunds
  <2>3. Max(firsts) \in firsts
    BY <2>2, MaxOfDays
  <2> QED BY <2>2, <2>3, Days
<1>8. SeriesStart(n, from, to) \in Int
  BY <1>1, <1>2, <1>6, <1>7 DEF SeriesStart
<1> QED BY <1>4, <1>8

\* Whatever the window, a template's series shows the days of it that the date
\* picker offers, and no other.
THEOREM SeriesMatches == Spec => []SeriesMatchesPicker
<1>1. SeriesMatchesPicker
  <2> SUFFICES ASSUME AllPriced, NEW n \in {0} \cup Windows,
                      NEW from \in Day \cup {None}, NEW to \in Day \cup {None}
               PROVE  LET shown == DOMAIN NavSeries(n, from, to) IN
                      /\ AvailableFrom > AvailableTo => shown = {}
                      /\ AvailableFrom <= AvailableTo => shown =
                           (SeriesStart(n, from, to)..SeriesEnd(from, to))
                             \cap (AvailableFrom..AvailableTo)
    BY DEF SeriesMatchesPicker
  <2>1. DOMAIN NavSeries(n, from, to) = SeriesDays(n, from, to)
    BY DEF NavSeries
  <2>2. AvailableFrom \in Nat /\ AvailableTo \in Nat
    BY Available, Days
  <2>3. ASSUME AvailableFrom > AvailableTo PROVE SeriesDays(n, from, to) = {}
    <3>1. PICK f \in TemplateFunds : AvailableFrom = Min(PricedDays(f))
      BY Available
    <3>2. History(f) = <<>>
      BY <2>3, <3>1, EmptyHistory
    <3> QED BY <3>2 DEF SeriesDays
  <2>4. ASSUME AvailableFrom <= AvailableTo
        PROVE  SeriesDays(n, from, to) =
                 (SeriesStart(n, from, to)..SeriesEnd(from, to)) \cap (AvailableFrom..AvailableTo)
    <3>1. PICK a \in Int, b \in Int :
            a = SeriesStart(n, from, to) /\ b = SeriesEnd(from, to) /\ b <= AvailableTo
      BY <2>4, WindowIsInts
    <3>2. \A f \in TemplateFunds : History(f) # <<>>
      <4> SUFFICES ASSUME NEW f \in TemplateFunds PROVE ~(Min(PricedDays(f)) > AvailableTo)
        BY EmptyHistory
      <4>1. Min(PricedDays(f)) \in Nat /\ Min(PricedDays(f)) <= AvailableFrom
        BY Available, Days DEF PricedDays
      <4> QED BY <2>2, <2>4, <4>1
    <3>3. SeriesDays(n, from, to) = {d \in a..b : Complete(d)}
      BY <3>1, <3>2 DEF SeriesDays
    <3>4. \A d \in a..b : Complete(d) <=> AvailableFrom <= d
      BY <2>4, CompleteFrom
    <3>5. {d \in a..b : Complete(d)} = (a..b) \cap (AvailableFrom..AvailableTo)
      BY <2>2, <3>1, <3>4
    <3> QED BY <3>1, <3>3, <3>5
  <2> QED BY <2>1, <2>3, <2>4
<1> QED BY <1>1, PTL
================================================================================
