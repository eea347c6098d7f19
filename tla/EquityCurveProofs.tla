-------------------------- MODULE EquityCurveProofs --------------------------
(***************************************************************************)
(* What TLAPS proves of the equity curve and the drawdown of a record, for *)
(* every sequence of results however long.  Both are recursive functions,  *)
(* and each fact about them is shown by induction over the set of the      *)
(* lengths it holds for.                                                   *)
(***************************************************************************)
EXTENDS EquityCurve, WellFoundedInduction, TLAPS

-------------------------------------------------------------------------------
(* Induction, and functions defined by it. *)

LEMMA Least ==
  ASSUME NEW T \in SUBSET Nat, T # {}
  PROVE  \E n \in T : \A m \in T : n <= m
<1>1. IsWellFoundedOn(OpToRel(<, Nat), Nat)
  BY NatLessThanWellFounded, Zenon
<1>2. PICK n \in T : \A m \in T : ~ (<<m, n>> \in OpToRel(<, Nat))
  BY <1>1, WFMin, Zenon
<1>3. \A m \in T : ~(m < n)
  BY <1>2 DEF OpToRel
<1> QED
  BY <1>3

LEMMA Induction ==
  ASSUME NEW T, 0 \in T, \A n \in Nat : n \in T => n + 1 \in T
  PROVE  Nat \subseteq T
<1> SUFFICES ASSUME Nat \ T # {} PROVE FALSE
  OBVIOUS
<1>1. PICK n \in Nat \ T : \A m \in Nat \ T : n <= m
  BY Least
<1> QED
  BY <1>1

\* A first value and a step from each value to the next make a function.
Recursive(n, S, first, step) ==
  \E f \in [0..n -> S] : f[0] = first /\ \A i \in 1..n : f[i] = step[<<f[i - 1], i>>]

LEMMA Recursion ==
  ASSUME NEW n \in Nat, NEW S, NEW first \in S, NEW step \in [S \X (1..n) -> S]
  PROVE  Recursive(n, S, first, step)
<1> DEFINE Follows(f, k) == f[0] = first /\ \A i \in 1..k : f[i] = step[<<f[i - 1], i>>]
<1> DEFINE T == {k \in Nat : k <= n => \E f \in [0..k -> S] : Follows(f, k)}
<1>1. 0 \in T
  <2>1. [i \in 0..0 |-> first] \in [0..0 -> S] /\ Follows([i \in 0..0 |-> first], 0)
    OBVIOUS
  <2> QED
    BY <2>1
<1>2. ASSUME NEW k \in Nat, k \in T, k + 1 <= n PROVE \E f \in [0..(k + 1) -> S] : Follows(f, k + 1)
  <2>1. PICK f \in [0..k -> S] : Follows(f, k)
    BY <1>2
  <2> DEFINE last == step[<<f[k], k + 1>>]
  <2> DEFINE g == [i \in 0..(k + 1) |-> IF i <= k THEN f[i] ELSE last]
  <2>2. last \in S
    BY <1>2
  <2>3. g \in [0..(k + 1) -> S]
    BY <2>2
  <2>4. g[0] = first
    BY <2>1
  <2>5. ASSUME NEW i \in 1..(k + 1) PROVE g[i] = step[<<g[i - 1], i>>]
    <3>1. CASE i <= k
      BY <2>1, <3>1
    <3>2. CASE i = k + 1
      <4>1. g[k + 1] = last /\ g[k] = f[k]
        OBVIOUS
      <4>2. i - 1 = k
        BY <3>2
      <4> HIDE DEF g
      <4> QED
        BY <3>2, <4>1, <4>2
    <3> QED
      BY <3>1, <3>2
  <2> HIDE DEF g
  <2> QED
    BY <2>3, <2>4, <2>5
<1>3. n \in T
  <2> HIDE DEF Follows
  <2>1. \A k \in Nat : k \in T => k + 1 \in T
    BY <1>2
  <2> HIDE DEF T
  <2> QED
    BY <1>1, <2>1, Induction
<1> QED
  <2>1. \E f \in [0..n -> S] : Follows(f, n)
    <3> HIDE DEF Follows
    <3> QED
      BY <1>3
  <2> QED
    BY <2>1 DEF Recursive

-------------------------------------------------------------------------------
(* The equity curve. *)

\* Every record has its curve, and the curve is what its definition says.
LEMMA EquityDefined ==
  ASSUME NEW pnls \in Seq(Int)
  PROVE  /\ Equity(pnls) \in [0..Len(pnls) -> Int]
         /\ Equity(pnls)[0] = 0
         /\ \A i \in 1..Len(pnls) : Equity(pnls)[i] = Equity(pnls)[i - 1] + pnls[i]
<1> DEFINE n == Len(pnls)
<1> DEFINE step == [p \in Int \X (1..n) |-> p[1] + pnls[p[2]]]
<1> DEFINE Curved(f) == f = [i \in 0..n |-> IF i = 0 THEN 0 ELSE f[i - 1] + pnls[i]]
<1>1. n \in Nat /\ \A i \in 1..n : pnls[i] \in Int
  OBVIOUS
<1>2. step \in [Int \X (1..n) -> Int]
  BY <1>1
<1>3. PICK f \in [0..n -> Int] :
        f[0] = 0 /\ \A i \in 1..n : f[i] = step[<<f[i - 1], i>>]
  <2> HIDE DEF step, n
  <2>1. 0 \in Int
    OBVIOUS
  <2>2. Recursive(n, Int, 0, step)
    BY <1>1, <1>2, <2>1, Recursion, Zenon
  <2> QED
    BY <2>2 DEF Recursive
<1>4. Curved(f)
  <2>1. ASSUME NEW i \in 1..n PROVE f[i] = f[i - 1] + pnls[i]
    <3>1. f[i - 1] \in Int
      BY <1>1
    <3>2. step[<<f[i - 1], i>>] = f[i - 1] + pnls[i]
      BY <3>1
    <3> QED
      BY <1>3, <3>2
  <2> QED
    BY <1>1, <1>3, <2>1
<1>5. Curved(Equity(pnls))
  BY <1>4 DEF Equity
<1> DEFINE T == {k \in Nat : k <= n => Equity(pnls)[k] \in Int}
<1>6. 0 \in T
  BY <1>1, <1>5
<1>7. ASSUME NEW k \in Nat, k \in T PROVE k + 1 \in T
  BY <1>1, <1>5, <1>7
<1>8. Nat \subseteq T
  <2> HIDE DEF T
  <2> QED
    BY <1>6, <1>7, Induction
<1>9. \A i \in 0..n : Equity(pnls)[i] \in Int
  BY <1>1, <1>8
<1>10. /\ Equity(pnls) \in [0..n -> Int]
       /\ Equity(pnls)[0] = 0
       /\ \A i \in 1..n : Equity(pnls)[i] = Equity(pnls)[i - 1] + pnls[i]
  <2> DEFINE E == Equity(pnls)
  <2>1. E = [i \in 0..n |-> IF i = 0 THEN 0 ELSE E[i - 1] + pnls[i]]
    BY <1>5
  <2> HIDE DEF E
  <2>2. E \in [0..n -> Int]
    <3>1. \A i \in 0..n : E[i] \in Int
      BY <1>9 DEF E
    <3> QED
      BY <2>1, <3>1
  <2>3. E[0] = 0 /\ \A i \in 1..n : E[i] = E[i - 1] + pnls[i]
    BY <1>1, <2>1
  <2> QED
    BY <2>2, <2>3 DEF E
<1> QED
  BY <1>10

\* A prefix of the record has a prefix of the curve.
LEMMA EquityOfPrefix ==
  ASSUME NEW pnls \in Seq(Int), NEW m \in 0..Len(pnls), NEW part \in Seq(Int),
         Len(part) = m, \A i \in 1..m : part[i] = pnls[i]
  PROVE  \A k \in 0..m : Equity(part)[k] = Equity(pnls)[k]
<1> DEFINE T == {k \in Nat : k <= m => Equity(part)[k] = Equity(pnls)[k]}
<1>1. /\ Equity(part)[0] = 0
      /\ \A i \in 1..m : Equity(part)[i] = Equity(part)[i - 1] + part[i]
  BY EquityDefined
<1>2. /\ Equity(pnls)[0] = 0
      /\ \A i \in 1..Len(pnls) : Equity(pnls)[i] = Equity(pnls)[i - 1] + pnls[i]
  BY EquityDefined
<1>3. 0 \in T
  BY <1>1, <1>2
<1>4. ASSUME NEW k \in Nat, k \in T PROVE k + 1 \in T
  <2> SUFFICES ASSUME k + 1 <= m PROVE Equity(part)[k + 1] = Equity(pnls)[k + 1]
    OBVIOUS
  <2>1. k + 1 \in 1..m /\ k + 1 \in 1..Len(pnls) /\ (k + 1) - 1 = k
    OBVIOUS
  <2>2. Equity(part)[k + 1] = Equity(part)[k] + part[k + 1]
    BY <1>1, <2>1
  <2>3. Equity(pnls)[k + 1] = Equity(pnls)[k] + pnls[k + 1]
    BY <1>2, <2>1
  <2>4. Equity(part)[k] = Equity(pnls)[k] /\ part[k + 1] = pnls[k + 1]
    BY <1>4, <2>1
  <2> QED
    BY <2>2, <2>3, <2>4
<1>5. Nat \subseteq T
  <2> HIDE DEF T
  <2> QED
    BY <1>3, <1>4, Induction
<1> QED
  BY <1>5

LEMMA TotalOfPrefix ==
  ASSUME NEW pnls \in Seq(Int), NEW k \in 0..Len(pnls)
  PROVE  Total(SubSeq(pnls, 1, k)) = Equity(pnls)[k]
<1> DEFINE part == SubSeq(pnls, 1, k)
<1>1. part \in Seq(Int) /\ Len(part) = k /\ \A i \in 1..k : part[i] = pnls[i]
  OBVIOUS
<1> HIDE DEF part
<1>2. Equity(part)[k] = Equity(pnls)[k]
  BY <1>1, EquityOfPrefix
<1>3. Total(part) = Equity(pnls)[k]
  BY <1>1, <1>2 DEF Total
<1> QED
  BY <1>3 DEF part

\* The total grows by each result.
LEMMA TotalOfAppend ==
  ASSUME NEW pnls \in Seq(Int), NEW x \in Int
  PROVE  Total(pnls) \in Int /\ Total(Append(pnls, x)) = Total(pnls) + x
<1> DEFINE longer == Append(pnls, x)
<1>1. /\ longer \in Seq(Int) /\ Len(longer) = Len(pnls) + 1 /\ longer[Len(longer)] = x
      /\ \A i \in 1..Len(pnls) : longer[i] = pnls[i]
      /\ Len(pnls) \in Nat
  OBVIOUS
<1> HIDE DEF longer
<1>2. Equity(longer)[Len(longer)] = Equity(longer)[Len(pnls)] + x
  BY <1>1, EquityDefined
<1>3. Equity(pnls)[Len(pnls)] = Equity(longer)[Len(pnls)]
  BY <1>1, EquityOfPrefix
<1>4. Equity(pnls)[Len(pnls)] \in Int
  BY <1>1, EquityDefined
<1>5. Total(longer) = Total(pnls) + x /\ Total(pnls) \in Int
  BY <1>2, <1>3, <1>4 DEF Total
<1> QED
  BY <1>5 DEF longer

LEMMA TotalOfNone == Total(<<>>) = 0
<1>1. <<>> \in Seq(Int) /\ Len(<<>>) = 0
  OBVIOUS
<1> QED
  BY <1>1, EquityDefined DEF Total

-------------------------------------------------------------------------------
(* The drawdown. *)

LEMMA MaxOfTwo == ASSUME NEW a \in Int, NEW b \in Int PROVE Max({a, b}) = IF a >= b THEN a ELSE b
<1>1. PICK m \in {a, b} : m = IF a >= b THEN a ELSE b
  OBVIOUS
<1>2. \A x \in {a, b} : m >= x
  BY <1>1
<1>3. Max({a, b}) \in {a, b} /\ \A x \in {a, b} : Max({a, b}) >= x
  BY <1>2 DEF Max
<1> QED
  BY <1>1, <1>2, <1>3

LEMMA MinOfTwo == ASSUME NEW a \in Int, NEW b \in Int PROVE Min({a, b}) = IF a <= b THEN a ELSE b
<1>1. PICK m \in {a, b} : m = IF a <= b THEN a ELSE b
  OBVIOUS
<1>2. \A x \in {a, b} : m <= x
  BY <1>1
<1>3. Min({a, b}) \in {a, b} /\ \A x \in {a, b} : Min({a, b}) <= x
  BY <1>2 DEF Min
<1> QED
  BY <1>1, <1>2, <1>3

\* A least element of a set of integers is its minimum.
LEMMA MinIs ==
  ASSUME NEW S \in SUBSET Int, NEW m \in S, \A x \in S : m <= x
  PROVE  Min(S) = m
<1>1. Min(S) \in S /\ \A x \in S : Min(S) <= x
  BY DEF Min
<1>2. Min(S) \in Int /\ Min(S) <= m /\ m <= Min(S)
  BY <1>1
<1> QED
  BY <1>2

Accumulator == [eq : Int, peak : Int, mdd : Int]

LEMMA AfterTradeIs ==
  ASSUME NEW acc \in Accumulator, NEW x \in Int
  PROVE  /\ AfterTrade(acc, x) \in Accumulator
         /\ AfterTrade(acc, x).eq = acc.eq + x
         /\ AfterTrade(acc, x).peak = IF acc.peak >= acc.eq + x THEN acc.peak ELSE acc.eq + x
         /\ AfterTrade(acc, x).mdd =
              IF acc.mdd <= (acc.eq + x) - AfterTrade(acc, x).peak
              THEN acc.mdd ELSE (acc.eq + x) - AfterTrade(acc, x).peak
<1> DEFINE eq == acc.eq + x
<1> DEFINE peak == Max({acc.peak, eq})
<1> DEFINE mdd == Min({acc.mdd, eq - peak})
<1>1. eq \in Int /\ acc.peak \in Int /\ acc.mdd \in Int
  BY DEF Accumulator
<1>2. peak = (IF acc.peak >= eq THEN acc.peak ELSE eq) /\ peak \in Int
  <2> HIDE DEF eq
  <2> QED
    BY <1>1, MaxOfTwo
<1>3. mdd = (IF acc.mdd <= eq - peak THEN acc.mdd ELSE eq - peak) /\ mdd \in Int
  <2> HIDE DEF eq, peak
  <2>1. eq - peak \in Int
    BY <1>1, <1>2
  <2> QED
    BY <1>1, <2>1, MinOfTwo
<1>4. AfterTrade(acc, x) = [eq |-> eq, peak |-> peak, mdd |-> mdd]
  BY DEF AfterTrade
<1> HIDE DEF eq, peak, mdd
<1>5. /\ AfterTrade(acc, x) \in Accumulator
      /\ AfterTrade(acc, x).eq = eq /\ AfterTrade(acc, x).peak = peak
      /\ AfterTrade(acc, x).mdd = mdd
  BY <1>1, <1>2, <1>3, <1>4 DEF Accumulator
<1> DEFINE after == AfterTrade(acc, x)
<1>6. /\ after.peak = (IF acc.peak >= eq THEN acc.peak ELSE eq)
      /\ after.mdd = (IF acc.mdd <= eq - after.peak THEN acc.mdd ELSE eq - after.peak)
  BY <1>2, <1>3, <1>5
<1> HIDE DEF after
<1> QED
  BY <1>5, <1>6 DEF eq, after

LEMMA CurveDefined ==
  ASSUME NEW pnls \in Seq(Int)
  PROVE  /\ \A i \in 0..Len(pnls) : Curve(pnls)[i] \in Accumulator
         /\ Curve(pnls)[0] = [eq |-> 0, peak |-> 0, mdd |-> 0]
         /\ \A i \in 1..Len(pnls) : Curve(pnls)[i] = AfterTrade(Curve(pnls)[i - 1], pnls[i])
<1> DEFINE n == Len(pnls)
<1> DEFINE start == [eq |-> 0, peak |-> 0, mdd |-> 0]
<1> DEFINE step == [p \in Accumulator \X (1..n) |-> AfterTrade(p[1], pnls[p[2]])]
<1> DEFINE Curved(f) == f = [i \in 0..n |-> IF i = 0 THEN start ELSE AfterTrade(f[i - 1], pnls[i])]
<1>1. n \in Nat /\ \A i \in 1..n : pnls[i] \in Int
  OBVIOUS
<1>2. start \in Accumulator
  BY DEF Accumulator
<1>3. step \in [Accumulator \X (1..n) -> Accumulator]
  <2>1. \A p \in Accumulator \X (1..n) : AfterTrade(p[1], pnls[p[2]]) \in Accumulator
    BY <1>1, AfterTradeIs
  <2> QED
    BY <2>1
<1>4. PICK f \in [0..n -> Accumulator] :
        f[0] = start /\ \A i \in 1..n : f[i] = step[<<f[i - 1], i>>]
  <2> HIDE DEF step, start, n
  <2>1. Recursive(n, Accumulator, start, step)
    BY <1>1, <1>2, <1>3, Recursion, Zenon
  <2> QED
    BY <2>1 DEF Recursive
<1>5. Curved(f)
  <2>1. ASSUME NEW i \in 1..n PROVE f[i] = AfterTrade(f[i - 1], pnls[i])
    <3>1. f[i - 1] \in Accumulator
      BY <1>1
    <3>2. step[<<f[i - 1], i>>] = AfterTrade(f[i - 1], pnls[i])
      BY <3>1
    <3> QED
      BY <1>4, <3>2
  <2> QED
    BY <1>1, <1>4, <2>1
<1>6. Curved(Curve(pnls))
  BY <1>5 DEF Curve
<1> DEFINE C == Curve(pnls)
<1>7. C[0] = start /\ \A i \in 1..n : C[i] = AfterTrade(C[i - 1], pnls[i])
  <2> HIDE DEF C
  <2>1. C = [i \in 0..n |-> IF i = 0 THEN start ELSE AfterTrade(C[i - 1], pnls[i])]
    BY <1>6 DEF C
  <2> QED
    BY <1>1, <2>1
<1> DEFINE T == {k \in Nat : k <= n => C[k] \in Accumulator}
<1> HIDE DEF C, start
<1>8. 0 \in T
  BY <1>2, <1>7
<1>9. ASSUME NEW k \in Nat, k \in T PROVE k + 1 \in T
  <2> SUFFICES ASSUME k + 1 <= n PROVE C[k + 1] \in Accumulator
    OBVIOUS
  <2>1. C[k] \in Accumulator /\ pnls[k + 1] \in Int
    BY <1>1, <1>9
  <2>2. C[k + 1] = AfterTrade(C[k], pnls[k + 1])
    BY <1>1, <1>7
  <2> QED
    BY <2>1, <2>2, AfterTradeIs
<1>10. Nat \subseteq T
  <2> HIDE DEF T
  <2> QED
    BY <1>8, <1>9, Induction
<1>11. \A i \in 0..n : C[i] \in Accumulator
  BY <1>1, <1>10
<1> QED
  BY <1>7, <1>11 DEF C, start

LEMMA Transitive ==
  ASSUME NEW a \in Int, NEW b \in Int, NEW c \in Int, a <= b, b <= c
  PROVE  a <= c
OBVIOUS

LEMMA FarthestFall ==
  ASSUME NEW m \in Int, NEW e \in Int, NEW p \in Int, NEW a \in Int, m <= e - p, a <= p
  PROVE  m <= e - a
OBVIOUS

\* What the loop over a record has found once it has passed the first k results: where
\* the equity is, how high it has been, and its deepest fall.
Found(acc, E, k) ==
  /\ acc.eq = E[k]
  /\ \E j \in 0..k : acc.peak = E[j]
  /\ \A j \in 0..k : E[j] <= acc.peak
  /\ \E i, j \in 0..k : i <= j /\ acc.mdd = E[j] - E[i]
  /\ \A i, j \in 0..k : i <= j => acc.mdd <= E[j] - E[i]

LEMMA FoundKept ==
  ASSUME NEW n \in Nat, NEW E \in [0..n -> Int], NEW k \in Nat, k + 1 <= n,
         NEW acc \in Accumulator, NEW x \in Int, E[k + 1] = E[k] + x, Found(acc, E, k)
  PROVE  Found(AfterTrade(acc, x), E, k + 1)
<1> DEFINE next == AfterTrade(acc, x)
<1>1. /\ next \in Accumulator
      /\ next.eq = acc.eq + x
      /\ next.peak = IF acc.peak >= next.eq THEN acc.peak ELSE next.eq
      /\ next.mdd = IF acc.mdd <= next.eq - next.peak THEN acc.mdd ELSE next.eq - next.peak
  BY AfterTradeIs
<1> HIDE DEF next
<1>2. /\ next.eq = E[k + 1] /\ next.eq \in Int /\ next.peak \in Int /\ next.mdd \in Int
      /\ acc.peak <= next.peak /\ next.eq <= next.peak
      /\ next.mdd <= acc.mdd /\ next.mdd <= next.eq - next.peak
      /\ acc.mdd \in Int /\ acc.peak \in Int
  <2>1. acc.eq \in Int /\ acc.mdd \in Int /\ acc.peak \in Int
    BY DEF Accumulator
  <2>2. next.eq \in Int /\ next.peak \in Int /\ next.mdd \in Int
    BY <1>1 DEF Accumulator
  <2>3. next.eq = E[k + 1]
    BY <1>1 DEF Found
  <2>4. acc.peak <= next.peak /\ next.eq <= next.peak
    BY <1>1, <2>1, <2>2
  <2>5. next.mdd <= acc.mdd /\ next.mdd <= next.eq - next.peak
    BY <1>1, <2>1, <2>2
  <2> QED
    BY <2>1, <2>2, <2>3, <2>4, <2>5
<1>3. 0..(k + 1) = 0..k \cup {k + 1} /\ 0..(k + 1) \subseteq 0..n
  OBVIOUS
<1>4. \E j \in 0..(k + 1) : next.peak = E[j]
  <2>1. \E j \in 0..k : acc.peak = E[j]
    BY DEF Found
  <2> QED
    BY <1>1, <1>2, <1>3, <2>1
<1>5. ASSUME NEW j \in 0..(k + 1) PROVE E[j] \in Int /\ E[j] <= next.peak
  <2>1. E[j] \in Int
    BY <1>3
  <2>2. CASE j \in 0..k
    <3>1. E[j] <= acc.peak
      BY <2>2 DEF Found
    <3> QED
      BY <1>2, <2>1, <3>1, Transitive
  <2>3. CASE j = k + 1
    BY <1>2, <2>1, <2>3
  <2> QED
    BY <1>3, <2>1, <2>2, <2>3
<1>6. \E i, j \in 0..(k + 1) : i <= j /\ next.mdd = E[j] - E[i]
  <2>1. CASE next.mdd = acc.mdd
    <3>1. \E i, j \in 0..k : i <= j /\ acc.mdd = E[j] - E[i]
      BY DEF Found
    <3> QED
      BY <1>3, <2>1, <3>1
  <2>2. CASE next.mdd = next.eq - next.peak
    <3>1. PICK i \in 0..(k + 1) : next.peak = E[i]
      BY <1>4
    <3>2. k + 1 \in 0..(k + 1) /\ i <= k + 1 /\ next.mdd = E[k + 1] - E[i]
      BY <1>2, <2>2, <3>1
    <3> QED
      BY <3>2
  <2> QED
    BY <1>1, <2>1, <2>2
<1>7. ASSUME NEW i \in 0..(k + 1), NEW j \in 0..(k + 1), i <= j PROVE next.mdd <= E[j] - E[i]
  <2>1. E[i] \in Int /\ E[j] \in Int /\ E[i] <= next.peak
    BY <1>5
  <2>2. CASE j = k + 1
    <3>1. E[j] = next.eq
      BY <1>2, <2>2
    <3> QED
      BY <1>2, <2>1, <3>1, FarthestFall
  <2>3. CASE j \in 0..k
    <3>1. i \in 0..k
      BY <1>7, <2>3
    <3>2. acc.mdd <= E[j] - E[i]
      BY <1>7, <2>3, <3>1 DEF Found
    <3>3. E[j] - E[i] \in Int
      BY <2>1
    <3> QED
      BY <1>2, <3>2, <3>3, Transitive
  <2> QED
    BY <1>3, <2>2, <2>3
<1>8. Found(next, E, k + 1)
  BY <1>2, <1>4, <1>5, <1>6, <1>7 DEF Found
<1> QED
  BY <1>8 DEF next

LEMMA CurveFinds ==
  ASSUME NEW pnls \in Seq(Int), NEW k \in 0..Len(pnls)
  PROVE  Found(Curve(pnls)[k], Equity(pnls), k)
<1> DEFINE n == Len(pnls)
<1> DEFINE E == Equity(pnls)
<1> DEFINE C == Curve(pnls)
<1>1. n \in Nat /\ \A i \in 1..n : pnls[i] \in Int
  OBVIOUS
<1>2. E \in [0..n -> Int] /\ E[0] = 0 /\ \A i \in 1..n : E[i] = E[i - 1] + pnls[i]
  BY EquityDefined
<1>3. /\ \A i \in 0..n : C[i] \in Accumulator
      /\ C[0] = [eq |-> 0, peak |-> 0, mdd |-> 0]
      /\ \A i \in 1..n : C[i] = AfterTrade(C[i - 1], pnls[i])
  BY CurveDefined
<1> DEFINE T == {i \in Nat : i <= n => Found(C[i], E, i)}
<1> HIDE DEF n, E, C
<1>4. 0 \in T
  BY <1>1, <1>2, <1>3 DEF Found
<1>5. ASSUME NEW i \in Nat, i \in T PROVE i + 1 \in T
  <2> SUFFICES ASSUME i + 1 <= n PROVE Found(C[i + 1], E, i + 1)
    OBVIOUS
  <2>1. i + 1 \in 1..n /\ (i + 1) - 1 = i /\ i \in 0..n
    BY <1>1
  <2>2. E[i + 1] = E[i] + pnls[i + 1] /\ C[i + 1] = AfterTrade(C[i], pnls[i + 1])
    BY <1>2, <1>3, <2>1
  <2>3. Found(C[i], E, i) /\ C[i] \in Accumulator /\ pnls[i + 1] \in Int
    BY <1>1, <1>3, <1>5, <2>1
  <2> QED
    BY <1>1, <1>2, <2>2, <2>3, FoundKept
<1>6. Nat \subseteq T
  <2> HIDE DEF T
  <2> QED
    BY <1>4, <1>5, Induction
<1> QED
  BY <1>1, <1>6 DEF n, E, C

\* The drawdown of any record is its deepest fall from a peak, the start included
\* (scorecard).
THEOREM DrawdownOfAnyRecord ==
  ASSUME NEW pnls \in Seq(Int)
  PROVE  LET equity(k) == Total(SubSeq(pnls, 1, k))
             spans == {s \in (0..Len(pnls)) \X (0..Len(pnls)) : s[1] <= s[2]}
         IN  Drawdown(pnls) = Min({equity(s[2]) - equity(s[1]) : s \in spans})
<1> DEFINE n == Len(pnls)
<1> DEFINE E == Equity(pnls)
<1> DEFINE equity(k) == Total(SubSeq(pnls, 1, k))
<1> DEFINE spans == {s \in (0..n) \X (0..n) : s[1] <= s[2]}
<1> DEFINE falls == {equity(s[2]) - equity(s[1]) : s \in spans}
<1> DEFINE mdd == Drawdown(pnls)
<1>1. n \in Nat /\ \A k \in 0..n : equity(k) = E[k] /\ E[k] \in Int
  <2>1. \A k \in 0..n : equity(k) = E[k]
    BY TotalOfPrefix
  <2>2. E \in [0..n -> Int]
    BY EquityDefined
  <2>3. n \in Nat
    OBVIOUS
  <2> HIDE DEF n, E, equity
  <2> QED
    BY <2>1, <2>2, <2>3
<1>2. /\ mdd \in Int
      /\ \E i, j \in 0..n : i <= j /\ mdd = E[j] - E[i]
      /\ \A i, j \in 0..n : i <= j => mdd <= E[j] - E[i]
  <2>1. Found(Curve(pnls)[n], E, n) /\ Curve(pnls)[n] \in Accumulator
    BY <1>1, CurveFinds, CurveDefined
  <2>2. mdd = Curve(pnls)[n].mdd
    BY DEF Drawdown
  <2> HIDE DEF mdd, n, E
  <2> QED
    BY <2>1, <2>2 DEF Found, Accumulator
<1> HIDE DEF n, E, equity, mdd
<1>3. falls \in SUBSET Int
  <2>1. \A s \in spans : equity(s[2]) - equity(s[1]) \in Int
    BY <1>1
  <2> QED
    BY <2>1
<1>4. mdd \in falls
  <2>1. PICK i \in 0..n, j \in 0..n : i <= j /\ mdd = E[j] - E[i]
    BY <1>2
  <2>2. <<i, j>> \in spans /\ mdd = equity(j) - equity(i)
    BY <1>1, <2>1
  <2> QED
    BY <2>2
<1>5. ASSUME NEW x \in falls PROVE mdd <= x
  <2>1. PICK s \in spans : x = equity(s[2]) - equity(s[1])
    BY <1>5
  <2>2. s[1] \in 0..n /\ s[2] \in 0..n /\ s[1] <= s[2]
    OBVIOUS
  <2> QED
    BY <1>1, <1>2, <2>1, <2>2
<1>6. Min(falls) = mdd
  <2> HIDE DEF falls
  <2> QED
    BY <1>3, <1>4, <1>5, MinIs
<1> QED
  BY <1>6 DEF n, equity, mdd
===============================================================================
