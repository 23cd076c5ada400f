---------------------------- MODULE StackProofs ----------------------------
(***************************************************************************)
(* Proofs about InternetChecksum and IpStack.                              *)
(***************************************************************************)
EXTENDS IpStack, SequenceTheorems, WellFoundedInduction, TLAPS

-----------------------------------------------------------------------------
(***************************************************************************)
(* Induction and recursion.  The library's theorems on them take operators *)
(* as parameters; these take sets and functions.                           *)
(***************************************************************************)

\* A set of natural numbers has a least element.
LEMMA LeastExists ==
  ASSUME NEW S, S \subseteq Nat, S # {}
  PROVE  \E x \in S : \A y \in S : ~ (y < x)
<1> DEFINE R == OpToRel(<, Nat)
<1>1. PICK x \in S : \A y \in S : <<y, x>> \notin R
  <2>1. IsWellFoundedOn(R, Nat)
    BY NatLessThanWellFounded, Zenon
  <2> HIDE DEF R
  <2> QED
    BY <2>1, WFMin, Zenon
<1>2. \A y \in S : y < x => <<y, x>> \in R
  BY DEF OpToRel
<1> QED
  BY <1>1, <1>2, Zenon

\* Induction, for a set instead of a predicate.
LEMMA InductiveSet ==
  ASSUME NEW S, 0 \in S, \A m \in Nat : m \in S => m + 1 \in S
  PROVE  \A m \in Nat : m \in S
<1> SUFFICES ASSUME Nat \ S # {} PROVE FALSE
  OBVIOUS
<1>1. PICK x \in Nat \ S : \A y \in Nat \ S : ~ (y < x)
  BY LeastExists, Zenon
<1>2. x # 0 /\ x - 1 \in Nat /\ x - 1 \notin S
  BY <1>1
<1> QED
  BY <1>1, <1>2

\* g is the beginning, up to m, of the sequence that starts at a and goes on
\* by step.
Begins(g, m, T, a, step) ==
  /\ g \in [0..m -> T]
  /\ g[0] = a
  /\ \A j \in 0..(m - 1) : g[j + 1] = step[j][g[j]]

\* f is that sequence.
GoesOn(f, T, a, step) ==
  /\ f \in [Nat -> T]
  /\ f[0] = a
  /\ \A m \in Nat : f[m + 1] = step[m][f[m]]

\* A function is defined by its first value and the step from each to the next.
LEMMA RecursionExists ==
  ASSUME NEW T, NEW a \in T, NEW step \in [Nat -> [T -> T]]
  PROVE  \E f : GoesOn(f, T, a, step)
<1> DEFINE S == {m \in Nat : \E g : Begins(g, m, T, a, step)}
<1>1. 0 \in S
  <2>1. Begins([j \in 0..0 |-> a], 0, T, a, step)
    BY DEF Begins
  <2> QED
    BY <2>1
<1>2. ASSUME NEW m \in Nat, m \in S PROVE m + 1 \in S
  <2>1. PICK g : Begins(g, m, T, a, step)
    BY <1>2
  <2> DEFINE h == [j \in 0..(m + 1) |-> IF j = m + 1 THEN step[m][g[m]] ELSE g[j]]
  <2>2. g[m] \in T /\ step[m][g[m]] \in T
    BY <2>1 DEF Begins
  <2>3. h \in [0..(m + 1) -> T] /\ h[0] = a
    BY <2>1, <2>2 DEF Begins
  <2>4. ASSUME NEW j \in 0..m PROVE h[j + 1] = step[j][h[j]]
    <3>1. CASE j = m
      <4>1. h[m + 1] = step[m][g[m]] /\ h[m] = g[m]
        OBVIOUS
      <4> QED
        BY <3>1, <4>1
    <3>2. CASE j # m
      <4>1. j \in 0..(m - 1) /\ h[j + 1] = g[j + 1] /\ h[j] = g[j]
        BY <3>2
      <4> QED
        BY <2>1, <4>1 DEF Begins
    <3> QED
      BY <3>1, <3>2
  <2> HIDE DEF h
  <2>5. Begins(h, m + 1, T, a, step)
    <3>1. \A j \in 0..((m + 1) - 1) : h[j + 1] = step[j][h[j]]
      BY <2>4
    <3> QED
      BY <2>3, <3>1 DEF Begins
  <2> QED
    BY <2>5
<1> HIDE DEF S
<1>3. \A m \in Nat : m \in S
  BY <1>1, <1>2, InductiveSet
<1> USE DEF S
<1> DEFINE G == [m \in Nat |-> CHOOSE g : Begins(g, m, T, a, step)]
<1>4. \A m \in Nat : Begins(G[m], m, T, a, step)
  BY <1>3
<1> HIDE DEF G
<1>5. ASSUME NEW m \in Nat, NEW p \in Nat, m <= p
      PROVE  G[p][m] = G[m][m]
  <2> DEFINE A == {j \in Nat : j <= m => G[p][j] = G[m][j]}
  <2>1. 0 \in A
    BY <1>4, <1>5 DEF Begins
  <2>2. ASSUME NEW j \in Nat, j \in A PROVE j + 1 \in A
    <3> SUFFICES ASSUME j + 1 <= m PROVE G[p][j + 1] = G[m][j + 1]
      OBVIOUS
    <3>1. G[p][j] = G[m][j] /\ j \in 0..(m - 1) /\ j \in 0..(p - 1)
      BY <1>5, <2>2
    <3> QED
      BY <1>4, <3>1 DEF Begins
  <2> HIDE DEF A
  <2>3. m \in A
    BY <2>1, <2>2, InductiveSet
  <2> QED
    BY <2>3 DEF A
<1> DEFINE f == [m \in Nat |-> G[m][m]]
<1>6. f \in [Nat -> T] /\ f[0] = a
  BY <1>4 DEF Begins
<1>7. ASSUME NEW m \in Nat PROVE f[m + 1] = step[m][f[m]]
  <2>1. G[m + 1][m] = G[m][m]
    BY <1>5
  <2>2. G[m + 1][m + 1] = step[m][G[m + 1][m]]
    <3>1. Begins(G[m + 1], m + 1, T, a, step) /\ m \in 0..((m + 1) - 1)
      BY <1>4
    <3> QED
      BY <3>1 DEF Begins
  <2> QED
    BY <2>1, <2>2
<1>8. GoesOn(f, T, a, step)
  <2> HIDE DEF f
  <2> QED
    BY <1>6, <1>7 DEF GoesOn
<1> QED
  BY <1>8

-----------------------------------------------------------------------------
(***************************************************************************)
(* sum16.                                                                  *)
(***************************************************************************)

\* A remainder modulo 65535.
LEMMA Remainder65535 ==
  ASSUME NEW a \in Nat, NEW r \in Nat, r < 65535
  PROVE  (65535 * a + r) % 65535 = r
BY SMT

\* Multiples of 65535 do not change it.
LEMMA Multiple65535 ==
  ASSUME NEW x \in Nat, NEW q \in Nat
  PROVE  (x + 65535 * q) % 65535 = x % 65535
<1>1. PICK a \in Nat : a = x \div 65535
  BY SMT
<1>2. PICK r \in Nat : r = x % 65535 /\ r < 65535
  BY SMT
<1>3. x = 65535 * a + r
  BY <1>1, <1>2, SMT
<1>4. a + q \in Nat /\ x + 65535 * q = 65535 * (a + q) + r
  BY <1>3, SMT
<1>5. (65535 * (a + q) + r) % 65535 = r
  BY <1>2, <1>4, Remainder65535, SMT
<1> QED
  BY <1>2, <1>4, <1>5, SMT

\* The value the last loop of sum16 ends with.
Folded(s) == IF s = 0 THEN 0 ELSE 1 + ((s - 1) % UINT16_MAX)

\* One iteration of it makes the sum smaller and keeps that value.
LEMMA FoldStep ==
  ASSUME NEW s \in Nat, s \div 65536 # 0
  PROVE  LET r == (s % 65536) + (s \div 65536)
         IN  r \in Nat /\ r < s /\ r > 0 /\ Folded(r) = Folded(s)
<1> DEFINE q == s \div 65536
           m == s % 65536
<1>1. q \in Nat /\ q > 0 /\ m \in Nat /\ s = 65536 * q + m
  BY SMT
<1> HIDE DEF q, m
<1>2. m + q \in Nat /\ m + q < s /\ m + q > 0 /\ m + q - 1 \in Nat
  BY <1>1, SMT
<1>3. s - 1 = (m + q - 1) + 65535 * q
  BY <1>1, SMT
<1>4. (s - 1) % 65535 = (m + q - 1) % 65535
  BY <1>1, <1>2, <1>3, Multiple65535, SMT
<1>5. Folded(m + q) = Folded(s)
  BY <1>1, <1>2, <1>4, SMT DEF Folded, UINT16_MAX
<1> QED
  BY <1>2, <1>5, SMT DEF q, m

\* The last loop of sum16 ends, and with that value (protocols.c:20-22).
LEMMA FoldIs == \A s \in Nat : Fold(s) = Folded(s)
<1> DEFINE Next1(s) == (s % 65536) + (s \div 65536)
           Body(f, s) == IF s \div 65536 = 0 THEN s ELSE f[Next1(s)]
           Eq(f) == f = [s \in Nat |-> Body(f, s)]
           g == [s \in Nat |-> Folded(s)]
<1>1. ASSUME NEW s \in Nat, s \div 65536 = 0 PROVE Folded(s) = s
  <2>1. s < 65536
    BY <1>1, SMT
  <2>2. s # 0 => (s - 1) % 65535 = s - 1
    BY <2>1, SMT
  <2> QED
    BY <2>2, SMT DEF Folded, UINT16_MAX
<1>2. \A s \in Nat : Next1(s) \in Nat
  BY SMT
<1>3. Eq(g)
  <2>1. ASSUME NEW s \in Nat
        PROVE  Folded(s) = IF s \div 65536 = 0 THEN s ELSE g[Next1(s)]
    BY <1>1, <1>2, FoldStep, SMT
  <2> QED
    BY <2>1, SMT
<1>4. Eq(fold)
  <2>1. fold = CHOOSE f : Eq(f)
    BY SMT DEF fold
  <2> HIDE DEF Eq
  <2> QED
    BY <1>3, <2>1, SMT
<1>5. ASSUME NEW s \in Nat
      PROVE  fold[s] = IF s \div 65536 = 0 THEN s ELSE fold[Next1(s)]
  <2>1. fold[s] = Body(fold, s)
    <3> HIDE DEF Body
    <3> QED
      BY <1>4, Zenon
  <2> QED
    BY <2>1, SMT
<1> DEFINE S == {s \in Nat : fold[s] # Folded(s)}
<1>6. S = {}
  <2> SUFFICES ASSUME S # {} PROVE FALSE
    BY SMT
  <2>1. PICK x \in S : \A y \in S : ~ (y < x)
    <3>1. S \subseteq Nat
      BY SMT
    <3> HIDE DEF S
    <3> HIDE DEF Next1, Body, Eq, g
    <3> QED
      BY <3>1, LeastExists, Zenon
  <2>2. x \in Nat /\ fold[x] # Folded(x)
    BY SMT
  <2>3. x \div 65536 # 0
    BY <1>1, <1>5, <2>2, SMT
  <2>4. Next1(x) \in Nat /\ Next1(x) < x /\ Folded(Next1(x)) = Folded(x)
    BY <2>2, <2>3, FoldStep, SMT
  <2>5. fold[Next1(x)] = Folded(Next1(x))
    BY <2>1, <2>4, SMT
  <2>6. fold[x] = fold[Next1(x)]
    BY <1>5, <2>2, <2>3, SMT
  <2> QED
    BY <2>2, <2>4, <2>5, <2>6, SMT
<1> QED
  BY <1>6, SMT DEF Fold

\* f[m] is the sum of the first m words.
PartialSums(f, ws) ==
  /\ f \in [0..Len(ws) -> Nat]
  /\ f[0] = 0
  /\ \A m \in 0..(Len(ws) - 1) : f[m + 1] = f[m] + ws[m + 1]

\* Total(ws) is the last of the partial sums, which exist.
LEMMA TotalDef ==
  ASSUME NEW ws \in Seq(Nat)
  PROVE  \E f : PartialSums(f, ws) /\ Total(ws) = f[Len(ws)]
<1> DEFINE N == Len(ws)
           Body(f, m) == IF m = 0 THEN 0 ELSE f[m - 1] + ws[m]
           Eq(f) == f = [m \in 0..N |-> Body(f, m)]
           Add == [m \in Nat |-> [v \in Nat |-> IF m < N THEN v + ws[m + 1] ELSE v]]
<1>1. N \in Nat /\ \A m \in 1..N : ws[m] \in Nat
  OBVIOUS
<1>2. Add \in [Nat -> [Nat -> Nat]]
  BY <1>1
<1>3. \A m, v \in Nat : m < N => Add[m][v] = v + ws[m + 1]
  BY <1>1
<1> HIDE DEF Add, N
<1>4. PICK h : GoesOn(h, Nat, 0, Add)
  <2>1. 0 \in Nat
    OBVIOUS
  <2> QED
    BY <1>2, <2>1, RecursionExists, Zenon
<1> DEFINE g == [m \in 0..N |-> h[m]]
<1>5. /\ g \in [0..N -> Nat] /\ g[0] = 0
      /\ \A m \in 0..(N - 1) : g[m + 1] = g[m] + ws[m + 1]
  <2>1. h \in [Nat -> Nat] /\ h[0] = 0 /\ \A m \in Nat : h[m + 1] = Add[m][h[m]]
    BY <1>4, Zenon DEF GoesOn
  <2>2. g \in [0..N -> Nat] /\ g[0] = 0
    <3>1. 0 \in 0..N /\ \A m \in 0..N : h[m] \in Nat
      BY <1>1, <2>1
    <3> QED
      BY <2>1, <3>1
  <2>3. ASSUME NEW m \in 0..(N - 1) PROVE g[m + 1] = g[m] + ws[m + 1]
    <3>1. m \in 0..N /\ m + 1 \in 0..N /\ m \in Nat /\ m < N
      BY <1>1
    <3>2. g[m] = h[m] /\ g[m + 1] = h[m + 1] /\ h[m] \in Nat
      BY <2>1, <3>1
    <3>3. h[m + 1] = h[m] + ws[m + 1]
      BY <1>3, <2>1, <3>1, <3>2, Zenon
    <3> QED
      BY <3>2, <3>3
  <2> QED
    BY <2>2, <2>3, Zenon
<1>6. Eq(g)
  <2>1. ASSUME NEW m \in 0..N PROVE g[m] = Body(g, m)
    <3>1. CASE m = 0
      BY <1>5, <3>1
    <3>2. CASE m # 0
      <4>1. m - 1 \in 0..(N - 1) /\ (m - 1) + 1 = m
        BY <1>1, <3>2
      <4> QED
        BY <1>5, <3>2, <4>1, Zenon
    <3> QED
      BY <3>1, <3>2
  <2> HIDE DEF Body
  <2> QED
    BY <1>5, <2>1
<1> DEFINE f == CHOOSE e : Eq(e)
<1>7. Eq(f)
  <2> HIDE DEF Eq
  <2> QED
    BY <1>6, Zenon
<1>8. Total(ws) = f[N]
  BY DEF Total, N
<1> HIDE DEF f, g
<1>9. ASSUME NEW m \in 0..N PROVE f[m] = Body(f, m)
  <2> HIDE DEF Body
  <2> QED
    BY <1>7, Zenon
<1>10. f[0] = 0 /\ \A m \in 0..(N - 1) : f[m + 1] = f[m] + ws[m + 1]
  <2>1. f[0] = 0
    BY <1>1, <1>9
  <2>2. ASSUME NEW m \in 0..(N - 1) PROVE f[m + 1] = f[m] + ws[m + 1]
    <3>1. m + 1 \in 0..N /\ m + 1 # 0 /\ (m + 1) - 1 = m
      BY <1>1
    <3> QED
      BY <1>9, <3>1
  <2> QED
    BY <2>1, <2>2
<1>11. \A m \in 0..N : f[m] \in Nat
  <2> DEFINE S == {m \in Nat : m <= N => f[m] \in Nat}
  <2>1. 0 \in S
    BY <1>10
  <2>2. ASSUME NEW m \in Nat, m \in S PROVE m + 1 \in S
    <3> SUFFICES ASSUME m + 1 <= N PROVE f[m + 1] \in Nat
      OBVIOUS
    <3>1. f[m] \in Nat /\ m \in 0..(N - 1) /\ ws[m + 1] \in Nat
      BY <1>1, <2>2
    <3> QED
      BY <1>10, <3>1
  <2> HIDE DEF S
  <2>3. \A m \in Nat : m \in S
    BY <2>1, <2>2, InductiveSet, SMTT(20)
  <2> QED
    BY <1>1, <2>3 DEF S
<1>12. f \in [0..N -> Nat]
  <2> HIDE DEF Body
  <2> QED
    BY <1>7, <1>11
<1>13. PartialSums(f, ws)
  BY <1>10, <1>12 DEF PartialSums, N
<1> QED
  BY <1>8, <1>13 DEF N

\* The words differ at k at most, and by d.
SameBut(ws, vs, k, d) ==
  /\ Len(vs) = Len(ws)
  /\ \A m \in 1..Len(ws) : m # k => vs[m] = ws[m]
  /\ k \in 1..Len(ws) /\ d = vs[k] - ws[k]

\* Partial sums of words that agree except at k, at and behind k, differ by
\* what the words differ there.
LEMMA PartialSumsDiffer ==
  ASSUME NEW ws \in Seq(Nat), NEW vs \in Seq(Nat), NEW k, NEW d,
         SameBut(ws, vs, k, d),
         NEW f, PartialSums(f, ws), NEW g, PartialSums(g, vs)
  PROVE  g[Len(ws)] = f[Len(ws)] + d
<1> DEFINE N == Len(ws)
           Shift(m) == IF k <= m THEN d ELSE 0
           S == {m \in Nat : m <= N => g[m] = f[m] + Shift(m)}
<1>1. /\ N \in Nat /\ Len(vs) = N
      /\ \A m \in 1..N : ws[m] \in Nat /\ vs[m] \in Nat
  BY SMTT(20) DEF SameBut
<1>2. /\ k \in 1..N /\ d = vs[k] - ws[k]
      /\ \A m \in 1..N : m # k => vs[m] = ws[m]
  BY DEF SameBut
<1>3. d \in Int
  BY <1>1, <1>2
<1>4. /\ \A m \in 0..N : f[m] \in Nat /\ g[m] \in Nat
      /\ f[0] = 0 /\ g[0] = 0
      /\ \A m \in 0..(N - 1) : f[m + 1] = f[m] + ws[m + 1]
      /\ \A m \in 0..(N - 1) : g[m + 1] = g[m] + vs[m + 1]
  BY <1>1, Zenon DEF PartialSums
<1> HIDE DEF N
<1>5. \A m \in Nat : Shift(m) \in Int /\ Shift(0) = 0
  BY <1>2, <1>3
<1>6. 0 \in S
  <2>1. Shift(0) = 0 /\ f[0] = 0 /\ g[0] = 0
    BY <1>4, <1>5, Zenon
  <2> HIDE DEF Shift
  <2> QED
    BY <2>1
<1>7. ASSUME NEW m \in Nat, m \in S PROVE m + 1 \in S
  <2> SUFFICES ASSUME m + 1 <= N PROVE g[m + 1] = f[m + 1] + Shift(m + 1)
    OBVIOUS
  <2>1. /\ m \in 0..(N - 1) /\ m \in 0..N /\ m + 1 \in 1..N
        /\ g[m] = f[m] + Shift(m)
    BY <1>1, <1>7
  <2>2. /\ f[m] \in Nat /\ g[m] \in Nat /\ ws[m + 1] \in Nat /\ vs[m + 1] \in Nat
        /\ f[m + 1] = f[m] + ws[m + 1] /\ g[m + 1] = g[m] + vs[m + 1]
    BY <1>1, <1>4, <2>1, SMTT(20)
  <2>3. vs[m + 1] + Shift(m) = ws[m + 1] + Shift(m + 1)
    <3>1. CASE k = m + 1
      <4>1. Shift(m) = 0 /\ Shift(m + 1) = d /\ d = vs[m + 1] - ws[m + 1]
        BY <1>2, <3>1
      <4> QED
        BY <2>2, <4>1, SMTT(20)
    <3>2. CASE k # m + 1
      <4>1. vs[m + 1] = ws[m + 1] /\ Shift(m + 1) = Shift(m)
        BY <1>1, <1>2, <2>1, <3>2, SMTT(20)
      <4> QED
        BY <4>1
    <3> QED
      BY <3>1, <3>2
  <2>4. PICK x \in Int, y \in Int : x = Shift(m) /\ y = Shift(m + 1)
    BY <1>5
  <2>5. g[m] = f[m] + x /\ vs[m + 1] + x = ws[m + 1] + y
    BY <2>1, <2>3, <2>4
  <2>6. PICK u \in Int, v \in Int, w \in Int :
          u = f[m] /\ v = vs[m + 1] /\ w = ws[m + 1]
    BY <2>2
  <2>7. v + x = w + y /\ g[m + 1] = (u + x) + v /\ f[m + 1] = u + w
    BY <2>2, <2>5, <2>6
  <2>8. (u + x) + v = (u + w) + y
    BY <2>7
  <2>9. g[m + 1] = f[m + 1] + y
    BY <2>7, <2>8
  <2> QED
    BY <2>4, <2>9
<1> HIDE DEF S
<1>8. \A m \in Nat : m \in S
  BY <1>6, <1>7, InductiveSet, Zenon
<1>9. N \in S /\ Shift(N) = d
  BY <1>1, <1>2, <1>8
<1> QED
  BY <1>1, <1>9 DEF S, N

\* The sum is a natural number, at most the largest word times their number.
LEMMA TotalIsNat ==
  ASSUME NEW ws \in Seq(Nat)
  PROVE  Total(ws) \in Nat
<1>1. PICK f : PartialSums(f, ws) /\ Total(ws) = f[Len(ws)]
  BY TotalDef
<1>2. Len(ws) \in 0..Len(ws)
  OBVIOUS
<1> QED
  BY <1>1, <1>2 DEF PartialSums

\* Changing one word changes the sum by as much.
LEMMA TotalChanges ==
  ASSUME NEW ws \in Seq(Nat), NEW vs \in Seq(Nat), Len(vs) = Len(ws),
         NEW k \in 1..Len(ws), \A m \in 1..Len(ws) : m # k => vs[m] = ws[m]
  PROVE  Total(vs) = Total(ws) + (vs[k] - ws[k])
<1>1. PICK f : PartialSums(f, ws) /\ Total(ws) = f[Len(ws)]
  BY TotalDef
<1>2. PICK g : PartialSums(g, vs) /\ Total(vs) = g[Len(vs)]
  BY TotalDef
<1>3. SameBut(ws, vs, k, vs[k] - ws[k])
  BY DEF SameBut
<1>4. g[Len(ws)] = f[Len(ws)] + (vs[k] - ws[k])
  BY <1>1, <1>2, <1>3, PartialSumsDiffer
<1> QED
  BY <1>1, <1>2, <1>4

\* The bounds of a word.
LEMMA WordIs ==
  ASSUME NEW w
  PROVE  w \in Word <=> w \in Nat /\ w <= 65535
<1>1. UINT16_MAX \in Nat
  BY SMT DEF UINT16_MAX
<1>2. w \in Word <=> w \in Nat /\ w <= UINT16_MAX
  BY <1>1, SMT DEF Word
<1> QED
  BY <1>2, SMT DEF UINT16_MAX

\* The folded sum is a word.
LEMMA FoldedIsWord ==
  ASSUME NEW s \in Nat
  PROVE  Folded(s) \in Word
<1>1. CASE s = 0
  <2>1. Folded(s) = 0
    BY <1>1, Zenon DEF Folded
  <2> QED
    BY <2>1, WordIs, SMT
<1>2. CASE s # 0
  <2>1. s - 1 \in Nat
    BY <1>2
  <2>2. PICK r \in Nat : r = (s - 1) % 65535 /\ r < 65535
    BY <2>1, SMT
  <2>3. Folded(s) = 1 + r
    BY <1>2, <2>2, SMT DEF Folded, UINT16_MAX
  <2>4. 1 + r \in Nat /\ 1 + r <= 65535
    BY <2>2, SMT
  <2> QED
    BY <2>3, <2>4, WordIs, SMT
<1> QED
  BY <1>1, <1>2

\* sum16 of protocols.c is the one's complement sum of RFC 1071, for every
\* sequence of words: the loop over the words adds them, and folding the
\* carries leaves the remainder.
THEOREM Sum16IsOnesComplementSum ==
  ASSUME NEW ws \in Seq(Nat)
  PROVE  sum16(ws) = OnesComplementSum(ws)
<1>1. Total(ws) \in Nat
  BY TotalIsNat
<1>2. sum16(ws) = Folded(Total(ws))
  BY <1>1, FoldIs, Zenon DEF sum16
<1> QED
  BY <1>2, Zenon DEF Folded, OnesComplementSum

\* A sequence of words is a sequence of natural numbers.
LEMMA WordsAreNat ==
  ASSUME NEW ws \in Seq(Word)
  PROVE  ws \in Seq(Nat)
<1>1. \A n \in 1..Len(ws) : ws[n] \in Word
  OBVIOUS
<1>2. \A w \in Word : w \in Nat
  BY WordIs
<1> QED
  BY <1>1, <1>2, SMT

\* The 32-bit sum of protocols.c:7-18 never overflows: no datagram is longer
\* than 65535 bytes, and after any number of its words the sum is smaller.
THEOREM SumFitsRegister ==
  ASSUME NEW ws \in Seq(Word), Len(ws) <= 32768, NEW f, PartialSums(f, ws)
  PROVE  \A m \in 0..Len(ws) : f[m] < 4294967296
<1> DEFINE N == Len(ws)
           S == {m \in Nat : m <= N => f[m] <= 65535 * m}
<1>1. /\ N \in Nat /\ N <= 32768
      /\ \A m \in 0..N : f[m] \in Nat
      /\ f[0] = 0 /\ \A m \in 0..(N - 1) : f[m + 1] = f[m] + ws[m + 1]
  BY DEF PartialSums
<1>2. \A m \in 1..N : ws[m] \in Nat /\ ws[m] <= 65535
  BY WordIs, SMT
<1> HIDE DEF N
<1>3. 0 \in S
  BY <1>1, SMT
<1>4. ASSUME NEW m \in Nat, m \in S PROVE m + 1 \in S
  <2> SUFFICES ASSUME m + 1 <= N PROVE f[m + 1] <= 65535 * (m + 1)
    BY SMT
  <2>1. m \in 0..(N - 1) /\ m \in 0..N /\ m + 1 \in 1..N /\ m <= N
    BY <1>1, SMT
  <2>2. PICK x \in Nat, y \in Nat :
          x = f[m] /\ y = ws[m + 1] /\ x <= 65535 * m /\ y <= 65535
    BY <1>1, <1>2, <1>4, <2>1, SMT
  <2>3. f[m + 1] = x + y
    BY <1>1, <2>1, <2>2, SMT
  <2>4. x + y <= 65535 * (m + 1)
    BY <2>2, SMT
  <2> QED
    BY <2>3, <2>4, SMT
<1> HIDE DEF S
<1>5. \A m \in Nat : m \in S
  BY <1>3, <1>4, InductiveSet
<1>6. ASSUME NEW m \in 0..N PROVE f[m] < 4294967296
  <2>1. m \in Nat /\ m <= 32768 /\ m <= N
    BY <1>1, SMT
  <2>2. PICK x \in Nat : x = f[m] /\ x <= 65535 * m
    BY <1>1, <1>5, <2>1, SMT DEF S
  <2>3. x < 4294967296
    BY <2>1, <2>2, SMT
  <2> QED
    BY <2>2, <2>3, SMT
<1> QED
  BY <1>6 DEF N

\* internet_checksum is a word, and zero just for the words a receiver takes:
\* the check of ip.c:45-48 and icmp.c:54-56 is the one of RFC 1071.
THEOREM ChecksumAccepts ==
  ASSUME NEW ws \in Seq(Nat)
  PROVE  internet_checksum(ws) \in Word /\ (internet_checksum(ws) = 0 <=> Intact(ws))
<1>1. Total(ws) \in Nat
  BY TotalIsNat
<1>2. sum16(ws) = Folded(Total(ws)) /\ sum16(ws) = OnesComplementSum(ws)
  BY <1>1, FoldIs, Sum16IsOnesComplementSum, Zenon DEF sum16
<1>3. PICK s \in Word : s = sum16(ws)
  BY <1>1, <1>2, FoldedIsWord, Zenon
<1>4. UINT16_MAX - s \in Word /\ (UINT16_MAX - s = 0 <=> s = UINT16_MAX)
  BY WordIs, SMT DEF UINT16_MAX
<1>5. internet_checksum(ws) = UINT16_MAX - s
  BY <1>3, Zenon DEF internet_checksum
<1>6. Intact(ws) <=> s = UINT16_MAX
  BY <1>2, <1>3, Zenon DEF Intact
<1> QED
  BY <1>4, <1>5, <1>6, Zenon

\* A sum and the complement of its folded value fold to 65535.
LEMMA ComplementFolds ==
  ASSUME NEW s \in Nat
  PROVE  Folded(s + (UINT16_MAX - Folded(s))) = UINT16_MAX
<1>1. CASE s = 0
  <2>1. Folded(s) = 0 /\ s + (UINT16_MAX - 0) = UINT16_MAX
    BY <1>1, SMT DEF Folded, UINT16_MAX
  <2>2. Folded(UINT16_MAX) = UINT16_MAX
    BY SMT DEF Folded, UINT16_MAX
  <2> QED
    BY <2>1, <2>2, Zenon
<1>2. CASE s # 0
  <2>1. s - 1 \in Nat
    BY <1>2
  <2>2. PICK a \in Nat : a = (s - 1) \div 65535
    BY <2>1, SMT
  <2>3. PICK r \in Nat : r = (s - 1) % 65535 /\ r < 65535
    BY <2>1, SMT
  <2>4. s - 1 = 65535 * a + r
    BY <2>1, <2>2, <2>3, SMT
  <2>5. Folded(s) = 1 + r
    BY <1>2, <2>3, SMT DEF Folded, UINT16_MAX
  <2>6. s + (UINT16_MAX - (1 + r)) = 65535 * a + 65535
    BY <2>4, SMT DEF UINT16_MAX
  <2>7. /\ 65535 * a + 65535 \in Nat /\ 65535 * a + 65535 # 0
        /\ (65535 * a + 65535) - 1 = 65535 * a + 65534
    BY SMT
  <2>8. (65535 * a + 65534) % 65535 = 65534
    BY Remainder65535, SMT
  <2>9. Folded(65535 * a + 65535) = UINT16_MAX
    BY <2>7, <2>8, SMT DEF Folded, UINT16_MAX
  <2> QED
    BY <2>5, <2>6, <2>9, SMT
<1> QED
  BY <1>1, <1>2

\* Writing the checksum into a field that is zero makes the words ones that a
\* receiver takes (ip.c:40-44, icmp.c:67-69), also when they all were zero.
THEOREM ChecksumSeals ==
  ASSUME NEW ws \in Seq(Word), NEW k \in 1..Len(ws), ws[k] = 0,
         NEW vs \in Seq(Word), Len(vs) = Len(ws),
         \A m \in 1..Len(ws) : m # k => vs[m] = ws[m],
         vs[k] = internet_checksum(ws)
  PROVE  Intact(vs)
<1>1. ws \in Seq(Nat) /\ vs \in Seq(Nat)
  BY WordsAreNat
<1>2. Total(vs) = Total(ws) + (vs[k] - ws[k])
  BY <1>1, TotalChanges
<1>3. Total(ws) \in Nat /\ Total(vs) \in Nat
  BY <1>1, TotalIsNat
<1>4. vs[k] = UINT16_MAX - Folded(Total(ws))
  BY <1>3, FoldIs, Zenon DEF internet_checksum, sum16
<1>5. PICK t \in Nat, u \in Word : t = Total(ws) /\ u = Folded(t)
  BY <1>3, FoldedIsWord, Zenon
<1>6. Total(vs) = t + ((UINT16_MAX - u) - 0)
  BY <1>2, <1>4, <1>5, Zenon
<1>7. t + ((UINT16_MAX - u) - 0) = t + (UINT16_MAX - u)
  BY WordIs, SMT DEF UINT16_MAX
<1>8. Folded(Total(vs)) = UINT16_MAX
  BY <1>5, <1>6, <1>7, ComplementFolds, Zenon
<1> QED
  BY <1>8, Zenon DEF Folded, Intact, OnesComplementSum

-----------------------------------------------------------------------------
(***************************************************************************)
(* Headers.                                                                *)
(***************************************************************************)

\* The bounds of a byte.
LEMMA ByteIs ==
  ASSUME NEW b
  PROVE  b \in Byte <=> b \in Nat /\ b <= 255
<1>1. UINT8_MAX \in Nat
  BY SMT DEF UINT8_MAX
<1>2. b \in Byte <=> b \in Nat /\ b <= UINT8_MAX
  BY <1>1, SMT DEF Byte
<1> QED
  BY <1>2, SMT DEF UINT8_MAX

\* htons of a word is a word, and undone by htons.
LEMMA HtonsTwice ==
  ASSUME NEW w \in Word
  PROVE  htons(w) \in Word /\ htons(htons(w)) = w
<1>1. w \in Nat /\ w <= 65535
  BY WordIs
<1>2. PICK a \in Nat : a = w \div 256
  BY <1>1, SMT
<1>3. PICK b \in Nat : b = w % 256 /\ b < 256
  BY <1>1, SMT
<1>4. w = 256 * a + b /\ a < 256
  BY <1>1, <1>2, <1>3, SMT
<1>5. htons(w) = b * 256 + a
  BY <1>2, <1>3, SMT DEF htons
<1>6. (b * 256 + a) % 256 = a /\ (b * 256 + a) \div 256 = b
  BY <1>3, <1>4, SMT
<1>7. b * 256 + a \in Nat /\ b * 256 + a <= 65535
  BY <1>3, <1>4, SMT
<1>8. htons(b * 256 + a) = a * 256 + b
  BY <1>6, SMT DEF htons
<1> QED
  BY <1>4, <1>5, <1>7, <1>8, WordIs, SMT

\* The same for the two words of a long.
LEMMA HtonlTwice ==
  ASSUME NEW l \in Long
  PROVE  /\ htonl(l) \in Long /\ htonl(htonl(l)) = l
         /\ l[1] \in Word /\ l[2] \in Word
<1>1. PICK x \in Word, y \in Word : l = <<x, y>>
  BY DEF Long
<1>2. htonl(l) = <<htons(y), htons(x)>>
  BY <1>1 DEF htonl
<1>3. htonl(<<htons(y), htons(x)>>) = <<htons(htons(x)), htons(htons(y))>>
  BY DEF htonl
<1>4. htons(x) \in Word /\ htons(y) \in Word /\ htons(htons(x)) = x /\ htons(htons(y)) = y
  BY HtonsTwice
<1> QED
  BY <1>1, <1>2, <1>3, <1>4 DEF Long

\* The constants the handlers compare with, in both byte orders.
LEMMA EtherTypes ==
  /\ ETH_P_ARP \in Word /\ ETH_P_IP \in Word
  /\ htons(ETH_P_ARP) = 1544 /\ htons(ETH_P_IP) = 8
  /\ ETH_P_ARP = 2054 /\ ETH_P_IP = 2048
BY WordIs, SMT DEF ETH_P_ARP, ETH_P_IP, htons

\* Converting an ARP header changes its opcode and two types only.
LEMMA ArpConverted ==
  ASSUME NEW a \in ArpHeader
  PROVE  LET b == arp_header_ntoh(a) IN
         /\ b \in ArpHeader /\ b.opcode = htons(a.opcode)
         /\ b.src_ip = a.src_ip /\ b.src_mac = a.src_mac
         /\ b.dst_ip = a.dst_ip /\ b.dst_mac = a.dst_mac
<1>1. htons(a.opcode) \in Word /\ htons(a.hw_type) \in Word /\ htons(a.pro_type) \in Word
  BY HtonsTwice DEF ArpHeader
<1> QED
  BY <1>1, Zenon DEF ArpHeader, arp_header_ntoh

\* Converting an IP header twice restores it, and it leaves the protocol and
\* the payload alone.
LEMMA IpConverted ==
  ASSUME NEW h \in IpHeader
  PROVE  LET k == ip_header_ntoh(h) IN
         /\ k \in IpHeader /\ ip_header_ntoh(k) = h
         /\ k.src_addr = htonl(h.src_addr) /\ k.dst_addr = htonl(h.dst_addr)
         /\ k.len = htons(h.len) /\ k.payload = h.payload
         /\ k.ttl_and_protocol = h.ttl_and_protocol /\ k.checksum = h.checksum
<1>1. h.src_addr \in Long /\ h.dst_addr \in Long /\ h.len \in Word
  BY DEF IpHeader
<1>2. /\ htonl(h.src_addr) \in Long /\ htonl(htonl(h.src_addr)) = h.src_addr
      /\ htonl(h.dst_addr) \in Long /\ htonl(htonl(h.dst_addr)) = h.dst_addr
      /\ htons(h.len) \in Word /\ htons(htons(h.len)) = h.len
  BY <1>1, HtonsTwice, HtonlTwice
<1> QED
  BY <1>2, Zenon DEF IpHeader, ip_header_ntoh

\* The words of a header, the sixth of which is its checksum.
LEMMA IpWords ==
  ASSUME NEW h \in IpHeader
  PROVE  ip_words(h) \in Seq(Word) /\ Len(ip_words(h)) = 10 /\ ip_words(h)[6] = h.checksum
<1>1. /\ h.src_addr[1] \in Word /\ h.src_addr[2] \in Word
      /\ h.dst_addr[1] \in Word /\ h.dst_addr[2] \in Word
  BY HtonlTwice DEF IpHeader
<1> QED
  BY <1>1 DEF IpHeader, ip_words

\* The words of an ICMP message, the second of which is its checksum.
LEMMA IcmpWords ==
  ASSUME NEW c \in IcmpMessage
  PROVE  LET ws == icmp_words(c) IN
         /\ ws \in Seq(Word) /\ Len(ws) = 2 + Len(c.data)
         /\ ws[1] = c.type + 256 * c.code /\ ws[2] = c.checksum
         /\ \A m \in 3..(2 + Len(c.data)) : ws[m] = c.data[m - 2]
<1>1. c.type \in Byte /\ c.code \in Byte /\ c.checksum \in Word /\ c.data \in Seq(Word)
  BY DEF IcmpMessage
<1>2. c.type + 256 * c.code \in Word
  BY <1>1, ByteIs, WordIs, SMT
<1> DEFINE pre == <<c.type + 256 * c.code, c.checksum>>
<1>3. pre \in Seq(Word) /\ Len(pre) = 2
  BY <1>1, <1>2
<1> HIDE DEF pre
<1>4. icmp_words(c) = pre \o c.data
  BY DEF icmp_words, pre
<1>5. /\ pre \o c.data \in Seq(Word) /\ Len(pre \o c.data) = 2 + Len(c.data)
      /\ \A m \in 1..(2 + Len(c.data)) :
           (pre \o c.data)[m] = IF m <= 2 THEN pre[m] ELSE c.data[m - 2]
  <2>1. /\ pre \o c.data \in Seq(Word) /\ Len(pre \o c.data) = Len(pre) + Len(c.data)
        /\ \A m \in 1..(Len(pre) + Len(c.data)) :
             (pre \o c.data)[m] = IF m <= Len(pre) THEN pre[m] ELSE c.data[m - Len(pre)]
    BY <1>1, <1>3, ConcatProperties, Zenon
  <2> QED
    BY <1>3, <2>1, Zenon
<1>6. Len(c.data) \in Nat
  BY <1>1
<1>7. (pre \o c.data)[1] = pre[1] /\ (pre \o c.data)[2] = pre[2]
  BY <1>5, <1>6
<1>8. \A m \in 3..(2 + Len(c.data)) : (pre \o c.data)[m] = c.data[m - 2]
  BY <1>5, <1>6
<1> QED
  BY <1>4, <1>5, <1>7, <1>8 DEF pre

\* ip_header_update_checksum leaves a header a receiver takes, and the other
\* fields alone (ip.c:40-44).
LEMMA UpdateSeals ==
  ASSUME NEW h \in IpHeader
  PROVE  LET k == ip_header_update_checksum(h) IN
         /\ k \in IpHeader /\ Intact(ip_words(k))
         /\ k.src_addr = h.src_addr /\ k.dst_addr = h.dst_addr
         /\ k.len = h.len /\ k.payload = h.payload
         /\ k.ttl_and_protocol = h.ttl_and_protocol
<1> DEFINE z == [h EXCEPT !.checksum = 0]
           sum == internet_checksum(ip_words(z))
           k == [h EXCEPT !.checksum = sum]
<1>1. 0 \in Word
  BY WordIs
<1>2. z \in IpHeader /\ z.checksum = 0
  BY <1>1 DEF IpHeader
<1>3. ip_words(z) \in Seq(Word) /\ Len(ip_words(z)) = 10 /\ ip_words(z)[6] = 0
  BY <1>2, IpWords, Zenon
<1>4. sum \in Word
  BY <1>3, WordsAreNat, ChecksumAccepts
<1> HIDE DEF sum
<1>5. /\ k \in IpHeader /\ k.checksum = sum
      /\ k.src_addr = h.src_addr /\ k.dst_addr = h.dst_addr
      /\ k.len = h.len /\ k.payload = h.payload
      /\ k.ttl_and_protocol = h.ttl_and_protocol
  BY <1>4 DEF IpHeader
<1>6. ip_words(k) \in Seq(Word) /\ Len(ip_words(k)) = 10 /\ ip_words(k)[6] = sum
  BY <1>5, IpWords, Zenon
<1>7. \A m \in 1..10 : m # 6 => ip_words(k)[m] = ip_words(z)[m]
  BY DEF ip_words, IpHeader
<1>8. Intact(ip_words(k))
  <2> HIDE DEF z, k
  <2> DEFINE ws == ip_words(z)
             vs == ip_words(k)
  <2>1. /\ ws \in Seq(Word) /\ 6 \in 1..Len(ws) /\ ws[6] = 0
        /\ vs \in Seq(Word) /\ Len(vs) = Len(ws)
        /\ \A m \in 1..Len(ws) : m # 6 => vs[m] = ws[m]
    BY <1>3, <1>6, <1>7
  <2>2. vs[6] = internet_checksum(ws)
    BY <1>6 DEF sum
  <2> HIDE DEF ws, vs
  <2>3. Intact(vs)
    BY <2>1, <2>2, ChecksumSeals, Zenon
  <2> QED
    BY <2>3 DEF vs
<1>9. ip_header_update_checksum(h) = k
  BY Zenon DEF ip_header_update_checksum, sum
<1> QED
  BY <1>5, <1>8, <1>9, Zenon

\* ip_header_check accepts just the intact headers.
LEMMA HeaderCheckIs ==
  ASSUME NEW h \in IpHeader
  PROVE  ip_header_check(h) <=> Intact(ip_words(h))
<1>1. ip_words(h) \in Seq(Nat)
  BY IpWords, WordsAreNat
<1> QED
  BY <1>1, ChecksumAccepts, Zenon DEF ip_header_check

\* A header in host order in front of an ICMP message of the length it says.
Measures(h) ==
  /\ h \in IpHeader /\ h.payload \in IcmpMessage
  /\ (h.len - 20 + 1) \div 2 = 2 + Len(h.payload.data)

\* Its length then covers the words of any message with as much data.
LEMMA WholeMessage ==
  ASSUME NEW h, Measures(h), NEW c \in IcmpMessage, c.data = h.payload.data
  PROVE  payload_words(h, icmp_words(c)) = icmp_words(c)
<1>1. icmp_words(c) \in Seq(Word) /\ Len(icmp_words(c)) = 2 + Len(c.data)
  BY IcmpWords
<1>2. SubSeq(icmp_words(c), 1, Len(icmp_words(c))) = icmp_words(c)
  BY <1>1, SubSeqFull
<1> QED
  BY <1>1, <1>2, Zenon DEF payload_words, Measures

\* icmp_receive accepts just the intact messages.
LEMMA IcmpCheckIs ==
  ASSUME NEW h, Measures(h)
  PROVE  icmp_check(h) <=> Intact(icmp_words(h.payload))
<1>1. h.payload \in IcmpMessage
  BY DEF Measures
<1>2. payload_words(h, icmp_words(h.payload)) = icmp_words(h.payload)
  BY <1>1, WholeMessage, Zenon
<1>3. icmp_words(h.payload) \in Seq(Nat)
  BY <1>1, IcmpWords, WordsAreNat
<1> QED
  BY <1>2, <1>3, ChecksumAccepts, Zenon DEF icmp_check

\* The reply receive_echo_request composes: the addresses are turned around,
\* and code and data are kept under an intact checksum (icmp.c:60-87).
LEMMA EchoReplyIs ==
  ASSUME NEW h, Measures(h)
  PROVE  LET r == echo_reply(h) IN
         /\ r \in IpHeader /\ r.ttl_and_protocol = h.ttl_and_protocol
         /\ r.dst_addr = h.src_addr /\ r.src_addr = htonl(src_ip) /\ r.len = h.len
         /\ r.payload \in IcmpMessage /\ r.payload.type = 0
         /\ r.payload.code = h.payload.code /\ r.payload.data = h.payload.data
         /\ Intact(icmp_words(r.payload))
<1> DEFINE cleared == [h.payload EXCEPT !.type = 0, !.checksum = 0]
           sum == internet_checksum(icmp_words(cleared))
           c == [cleared EXCEPT !.checksum = sum]
           r == [h EXCEPT !.payload = c, !.dst_addr = h.src_addr,
                          !.src_addr = htonl(src_ip)]
<1>1. h \in IpHeader /\ h.payload \in IcmpMessage
  BY DEF Measures
<1>2. 0 \in Word /\ 0 \in Byte
  BY WordIs, ByteIs
<1>3. /\ cleared \in IcmpMessage /\ cleared.type = 0 /\ cleared.checksum = 0
      /\ cleared.code = h.payload.code /\ cleared.data = h.payload.data
  BY <1>1, <1>2, Zenon DEF IcmpMessage
<1> HIDE DEF cleared
<1>4. /\ icmp_words(cleared) \in Seq(Word) /\ Len(icmp_words(cleared)) = 2 + Len(cleared.data)
      /\ icmp_words(cleared)[2] = 0
      /\ icmp_words(cleared)[1] = cleared.type + 256 * cleared.code
      /\ \A m \in 3..(2 + Len(cleared.data)) : icmp_words(cleared)[m] = cleared.data[m - 2]
  BY <1>3, IcmpWords, SMTT(20)
<1>5. sum \in Word
  BY <1>4, WordsAreNat, ChecksumAccepts
<1> HIDE DEF sum
<1>6. /\ c \in IcmpMessage /\ c.type = 0 /\ c.checksum = sum
      /\ c.code = cleared.code /\ c.data = cleared.data
  BY <1>3, <1>5 DEF IcmpMessage
<1> HIDE DEF c
<1>7. /\ icmp_words(c) \in Seq(Word) /\ Len(icmp_words(c)) = 2 + Len(c.data)
      /\ icmp_words(c)[2] = sum
      /\ icmp_words(c)[1] = c.type + 256 * c.code
      /\ \A m \in 3..(2 + Len(c.data)) : icmp_words(c)[m] = c.data[m - 2]
  BY <1>6, IcmpWords
<1>8. Intact(icmp_words(c))
  <2> DEFINE ws == icmp_words(cleared)
             vs == icmp_words(c)
  <2>1. Len(cleared.data) \in Nat
    BY <1>3 DEF IcmpMessage
  <2>2. /\ ws \in Seq(Word) /\ 2 \in 1..Len(ws) /\ ws[2] = 0
        /\ vs \in Seq(Word) /\ Len(vs) = Len(ws)
    BY <1>4, <1>6, <1>7, <2>1
  <2>3. ASSUME NEW m \in 1..Len(ws), m # 2 PROVE vs[m] = ws[m]
    <3>1. CASE m = 1
      BY <1>3, <1>4, <1>6, <1>7, <3>1
    <3>2. CASE m # 1
      <4>1. m \in 3..(2 + Len(cleared.data))
        BY <1>4, <2>1, <2>3, <3>2
      <4> QED
        BY <1>4, <1>6, <1>7, <4>1
    <3> QED
      BY <3>1, <3>2
  <2>4. vs[2] = internet_checksum(ws)
    BY <1>7 DEF sum
  <2> HIDE DEF ws, vs
  <2>5. Intact(vs)
    BY <2>2, <2>3, <2>4, ChecksumSeals, Zenon
  <2> QED
    BY <2>5 DEF vs
<1>9. echo_reply(h) = r
  <2>1. payload_words(h, icmp_words(cleared)) = icmp_words(cleared)
    BY <1>3, WholeMessage, Zenon
  <2> QED
    BY <2>1, Zenon DEF echo_reply, cleared, sum, c
<1>10. src_ip \in Long
  BY StackAssumption
<1>11. htonl(src_ip) \in Long
  BY <1>10, HtonlTwice
<1>12. /\ r \in IpHeader /\ r.ttl_and_protocol = h.ttl_and_protocol
       /\ r.dst_addr = h.src_addr /\ r.src_addr = htonl(src_ip) /\ r.len = h.len
       /\ r.payload = c
  BY <1>1, <1>6, <1>11, Zenon DEF IpHeader
<1> HIDE DEF r
<1> QED
  BY <1>3, <1>6, <1>8, <1>9, <1>12, Zenon

\* What ip_send_packet sends: the header in network order, intact.
LEMMA OutgoingIs ==
  ASSUME NEW h \in IpHeader
  PROVE  LET r == Outgoing(h) IN
         /\ r \in IpHeader /\ Intact(ip_words(r))
         /\ r.src_addr = htonl(h.src_addr) /\ r.dst_addr = htonl(h.dst_addr)
         /\ r.len = htons(h.len) /\ r.payload = h.payload
         /\ r.ttl_and_protocol = h.ttl_and_protocol
<1> DEFINE k == ip_header_ntoh(h)
           r == ip_header_update_checksum(k)
<1>1. /\ k \in IpHeader
      /\ k.src_addr = htonl(h.src_addr) /\ k.dst_addr = htonl(h.dst_addr)
      /\ k.len = htons(h.len) /\ k.payload = h.payload
      /\ k.ttl_and_protocol = h.ttl_and_protocol
  BY IpConverted
<1> HIDE DEF k
<1>2. /\ r \in IpHeader /\ Intact(ip_words(r))
      /\ r.src_addr = k.src_addr /\ r.dst_addr = k.dst_addr
      /\ r.len = k.len /\ r.payload = k.payload
      /\ r.ttl_and_protocol = k.ttl_and_protocol
  BY <1>1, UpdateSeals
<1>3. Outgoing(h) = r
  BY DEF Outgoing, k
<1> HIDE DEF r
<1> QED
  BY <1>1, <1>2, <1>3, Zenon

\* What ip_send composes, in host order (ip.c:22-36, 149-156).
LEMMA ComposedIs ==
  ASSUME NEW a \in Sends
  PROVE  LET h == Composed(a) IN
         /\ h \in IpHeader /\ protocol(h) = a.protocol
         /\ h.src_addr = htonl(src_ip) /\ h.dst_addr = htonl(a.dst)
         /\ h.len = 20 + 2 * Len(a.payload) /\ h.payload = [data |-> a.payload]
<1>1. /\ a.dst \in Long /\ src_ip \in Long /\ a.payload \in Seq(Word) /\ a.protocol \in Byte
      /\ 20 + 2 * Len(a.payload) \in Word
  BY StackAssumption DEF SendArguments
<1>2. htonl(a.dst) \in Long /\ htonl(src_ip) \in Long
  BY <1>1, HtonlTwice
<1>3. PICK n \in Nat : n = 20 + 2 * Len(a.payload) /\ n <= 65535
  BY <1>1, WordIs
<1>4. n % 65536 = n
  <2>1. n <= 65535
    BY <1>3
  <2> QED
    BY <2>1, SMT
<1>5. PICK t \in Nat : t = 64 + 256 * a.protocol /\ t <= 65535 /\ t \div 256 = a.protocol
  <2>1. \A x \in Nat : x <= 255 => /\ 64 + 256 * x \in Nat /\ 64 + 256 * x <= 65535
                                   /\ (64 + 256 * x) \div 256 = x
    BY SMT
  <2>2. a.protocol \in Nat /\ a.protocol <= 255
    BY <1>1, ByteIs
  <2> QED
    BY <2>1, <2>2, SMT
<1>6. t \in Word /\ n \in Word /\ 69 \in Word /\ 7 \in Word /\ 0 \in Word
  <2>1. t <= 65535 /\ n <= 65535
    BY <1>3, <1>5
  <2> QED
    BY <2>1, WordIs, SMT
<1> DEFINE m == 2 * Len(a.payload)
           k == [version_and_tos |-> 69, len |-> n, index |-> 7, flags |-> 0,
                 ttl_and_protocol |-> 64, checksum |-> 0, src_addr |-> <<0, 0>>,
                 dst_addr |-> <<0, 0>>, payload |-> [data |-> <<>>]]
<1>7. n = 20 + m
  BY <1>3
<1>8. k.ttl_and_protocol + 256 * a.protocol = t
  BY <1>5
<1> HIDE DEF m
<1>9. ip_header_alloc(m) = k
  <2>1. (20 + m) % 65536 = n
    BY <1>4, <1>7, SMT
  <2> QED
    BY <2>1, SMT DEF ip_header_alloc
<1>10. k \in IpHeader /\ k.len = n
  <2>1. 64 \in Word /\ <<0, 0>> \in Long /\ <<>> \in Seq(Word)
    BY <1>6, WordIs, SMT DEF Long
  <2> QED
    BY <1>6, <2>1 DEF IpHeader
<1> HIDE DEF k
<1>11. Composed(a) = [k EXCEPT !.ttl_and_protocol = t,
                               !.src_addr = htonl(src_ip), !.dst_addr = htonl(a.dst),
                               !.payload = [data |-> a.payload]]
  BY <1>8, <1>9, Zenon DEF Composed, m
<1>12. /\ Composed(a) \in IpHeader /\ Composed(a).ttl_and_protocol = t
       /\ Composed(a).src_addr = htonl(src_ip) /\ Composed(a).dst_addr = htonl(a.dst)
       /\ Composed(a).len = n /\ Composed(a).payload = [data |-> a.payload]
  <2> DEFINE d == [data |-> a.payload]
  <2>1. d \in [data : Seq(Word)]
    BY <1>1
  <2> HIDE DEF d
  <2>2. Composed(a) = [k EXCEPT !.ttl_and_protocol = t, !.src_addr = htonl(src_ip),
                                !.dst_addr = htonl(a.dst), !.payload = d]
    BY <1>11 DEF d
  <2>3. /\ Composed(a).ttl_and_protocol = t /\ Composed(a).payload = d
        /\ Composed(a).src_addr = htonl(src_ip) /\ Composed(a).dst_addr = htonl(a.dst)
        /\ Composed(a).len = n
    BY <1>10, <2>2, SMTT(20) DEF IpHeader
  <2>4. d \in IcmpMessage \cup TcpSegment \cup [data : Seq(Word)]
    BY <2>1, Zenon
  <2>5. Composed(a) \in IpHeader
    BY <1>2, <1>6, <1>10, <2>2, <2>4, ZenonT(30) DEF IpHeader
  <2> QED
    BY <2>3, <2>5 DEF d
<1> QED
  BY <1>3, <1>5, <1>12 DEF protocol

-----------------------------------------------------------------------------
(***************************************************************************)
(* The handlers.  StackInv says what the buffer may hold when each of them *)
(* runs, whatever reads failed before: for an echo request, the datagram as *)
(* it arrived, its header converted, or the reply.                         *)
(***************************************************************************)

IpHandler == {"ip_receive", "icmp_receive", "tcp_receive", "udp_receive",
              "ip_send_packet"}

BetweenHandlers == {"read", "handle_frame", "ip_receive"}

\* The types in the buffer are those of the frame read last.
BufferType ==
  /\ request = None => buf.ether_type = 0 /\ answers = 0
  /\ request # None => buf.ether_type \in {request.ether_type, htons(request.ether_type)}
  /\ pc = "arp_receive" => buf.ether_type = ETH_P_ARP
  /\ pc \in IpHandler => buf.ether_type = ETH_P_IP
  /\ pc \notin {"read", "exit"} => out = None /\ own = None

\* A request that was answered is a reply now.
ArpStage ==
  /\ buf.payload \in ArpHeader
  /\ answers = 1 => buf.payload.opcode \in {ARP_REPLY, htons(ARP_REPLY)}

\* A message that was answered is an echo reply; one that was not is in the
\* buffer as it arrived, or with its header converted.
IcmpStage(p, q) ==
  LET h == ip_header_ntoh(q) IN
  \/ answers = 1 /\ p.payload \in IcmpMessage /\ p.payload.type = 0 /\ pc # "ip_send_packet"
  \/ answers = 0 /\ p = q /\ pc \in BetweenHandlers
  \/ answers = 0 /\ p = q /\ pc = "icmp_receive" /\ q.payload.type # 8
  \/ answers = 0 /\ p = h /\ pc = "icmp_receive" /\ ip_header_check(q)
  \/ answers = 0 /\ p = h /\ pc \in BetweenHandlers /\ (q.payload.type = 8 => ~ icmp_check(h))
  \/ /\ answers = 0 /\ p = echo_reply(h) /\ pc = "ip_send_packet"
     /\ q.payload.type = 8 /\ ip_header_check(q) /\ icmp_check(h)

IpStage(p, q) ==
  /\ p \in IpHeader /\ p.ttl_and_protocol = q.ttl_and_protocol
  /\ pc = "tcp_receive" => protocol(q) = PROTOCOL_TCP
  /\ protocol(q) = PROTOCOL_TCP => p.payload \in TcpSegment
  /\ protocol(q) = PROTOCOL_ICMP => IcmpStage(p, q)
  /\ protocol(q) # PROTOCOL_ICMP => answers = 0 /\ pc \notin {"icmp_receive", "ip_send_packet"}

\* What the buffer holds of a frame that was read.
Stage ==
  request # None /\ pc # "exit" =>
    /\ Carries(request, ETH_P_ARP) => ArpStage
    /\ Carries(request, ETH_P_IP) => IpStage(buf.payload, request.payload)
    /\ ~ Carries(request, ETH_P_ARP) /\ ~ Carries(request, ETH_P_IP) => answers = 0

StackInv ==
  /\ TypeOK /\ answers \in {0, 1} /\ BufferType /\ Stage
  /\ EchoAnswersRequest /\ RepliesAreIntact /\ SentAsAsked

\* A frame carries one protocol at most.
LEMMA OneType ==
  ASSUME NEW f, f.ether_type \in Word
  PROVE  ~ (Carries(f, ETH_P_ARP) /\ Carries(f, ETH_P_IP))
<1>1. ASSUME NEW t \in Word, Carries(f, t) PROVE f.ether_type = t \/ f.ether_type = htons(t)
  BY <1>1, HtonsTwice DEF Carries
<1>2. ETH_P_ARP \in Word /\ ETH_P_IP \in Word
  BY EtherTypes
<1>3. {ETH_P_ARP, htons(ETH_P_ARP)} \cap {ETH_P_IP, htons(ETH_P_IP)} = {}
  BY EtherTypes, SMT
<1> QED
  BY <1>1, <1>2, <1>3, Zenon

\* What is assumed of a frame.
LEMMA FrameIs ==
  ASSUME NEW f \in Frames
  PROVE  /\ f \in EthHeader /\ f # None /\ f.ether_type \in Word /\ WellFormed(f)
         /\ Carries(f, ETH_P_IP) => f.payload \in IpHeader /\ f.payload.src_addr \in Addresses
         /\ Carries(f, ETH_P_ARP) => f.payload \in ArpHeader
BY StackAssumption DEF EthHeader, WellFormed

\* The header of an ICMP message, converted, says how long it is.
LEMMA RequestMeasures ==
  ASSUME NEW f \in Frames, Carries(f, ETH_P_IP), protocol(f.payload) = PROTOCOL_ICMP
  PROVE  Measures(ip_header_ntoh(f.payload))
<1>1. /\ f.payload \in IpHeader /\ f.payload.payload \in IcmpMessage
      /\ (htons(f.payload.len) - 20 + 1) \div 2 = 2 + Len(f.payload.payload.data)
  BY FrameIs DEF WellFormed
<1>2. /\ ip_header_ntoh(f.payload) \in IpHeader
      /\ ip_header_ntoh(f.payload).len = htons(f.payload.len)
      /\ ip_header_ntoh(f.payload).payload = f.payload.payload
  BY <1>1, IpConverted
<1> QED
  BY <1>1, <1>2, Zenon DEF Measures

\* While a handler of IP runs, the frame read last carries IP.
LEMMA IpRunning ==
  ASSUME StackInv, pc \in IpHandler
  PROVE  /\ request \in Frames /\ Carries(request, ETH_P_IP) /\ ~ Carries(request, ETH_P_ARP)
         /\ IpStage(buf.payload, request.payload)
         /\ buf \in EthHeader /\ buf.payload \in IpHeader /\ buf.ether_type = ETH_P_IP
         /\ out = None /\ own = None
<1>1. buf.ether_type = ETH_P_IP /\ out = None /\ own = None
  BY DEF StackInv, BufferType, IpHandler
<1>2. request # None
  BY <1>1, EtherTypes, SMT DEF StackInv, BufferType
<1>3. request \in Frames
  BY <1>2 DEF StackInv, TypeOK
<1>4. Carries(request, ETH_P_IP)
  BY <1>1, <1>2 DEF StackInv, BufferType, Carries
<1>5. ~ Carries(request, ETH_P_ARP)
  BY <1>3, <1>4, FrameIs, OneType
<1>6. IpStage(buf.payload, request.payload)
  BY <1>2, <1>4 DEF StackInv, Stage, IpHandler
<1> QED
  BY <1>1, <1>3, <1>4, <1>5, <1>6 DEF IpStage, StackInv, TypeOK

\* While arp_receive runs, it carries ARP.
LEMMA ArpRunning ==
  ASSUME StackInv, pc = "arp_receive"
  PROVE  /\ request \in Frames /\ Carries(request, ETH_P_ARP) /\ ~ Carries(request, ETH_P_IP)
         /\ ArpStage /\ buf \in EthHeader /\ out = None /\ own = None
<1>1. buf.ether_type = ETH_P_ARP /\ out = None /\ own = None
  BY DEF StackInv, BufferType
<1>2. request # None
  BY <1>1, EtherTypes, SMT DEF StackInv, BufferType
<1>3. request \in Frames
  BY <1>2 DEF StackInv, TypeOK
<1>4. Carries(request, ETH_P_ARP)
  BY <1>1, <1>2 DEF StackInv, BufferType, Carries
<1>5. ~ Carries(request, ETH_P_IP)
  BY <1>3, <1>4, FrameIs, OneType
<1>6. ArpStage
  BY <1>2, <1>4 DEF StackInv, Stage
<1> QED
  BY <1>1, <1>3, <1>4, <1>5, <1>6 DEF StackInv, TypeOK

\* What the properties say of the frame sent last.
SentWell == EchoAnswersRequest /\ RepliesAreIntact /\ SentAsAsked

\* They hold while nothing is sent ...
LEMMA NothingSent ==
  ASSUME out' = None
  PROVE  SentWell'
BY DEF SentWell, EchoAnswersRequest, RepliesAreIntact, SentAsAsked, EchoSent, PacketSent

\* ... and go on to hold.
LEMMA SentWellKept ==
  ASSUME SentWell, UNCHANGED <<out, own, cache, request>>
  PROVE  SentWell'
BY DEF SentWell, EchoAnswersRequest, RepliesAreIntact, SentAsAsked, EchoSent, PacketSent

\* At first nothing was read.
LEMMA InitStackInv ==
  ASSUME Init
  PROVE  StackInv
<1>1. 0 \in Word
  BY WordIs
<1>2. TypeOK
  BY <1>1 DEF Init, TypeOK, Handler, EthHeader
<1>3. BufferType /\ Stage /\ answers \in {0, 1}
  BY DEF Init, BufferType, Stage, IpHandler
<1>4. SentWell
  BY DEF Init, SentWell, EchoAnswersRequest, RepliesAreIntact, SentAsAsked, EchoSent, PacketSent
<1> QED
  BY <1>2, <1>3, <1>4 DEF StackInv, SentWell

\* Reading a frame: it is in the buffer as it arrived.
LEMMA ReadKeeps ==
  ASSUME StackInv, NEW f \in Frames, Read(f)
  PROVE  StackInv'
<1>1. /\ buf' = eth_header_ntoh(f) /\ pc' = "handle_frame" /\ request' = f
      /\ out' = None /\ answers' = 0 /\ tcp' = None /\ own' = None /\ cache' = cache
  BY DEF Read
<1>2. /\ f \in EthHeader /\ f # None /\ f.ether_type \in Word /\ WellFormed(f)
      /\ Carries(f, ETH_P_IP) => f.payload \in IpHeader
      /\ Carries(f, ETH_P_ARP) => f.payload \in ArpHeader
  BY FrameIs
<1>3. htons(f.ether_type) \in Word
  BY <1>2, HtonsTwice
<1>4. /\ buf' \in EthHeader /\ buf'.payload = f.payload
      /\ buf'.ether_type = htons(f.ether_type)
  BY <1>1, <1>2, <1>3 DEF eth_header_ntoh, EthHeader
<1>5. TypeOK'
  BY <1>1, <1>4 DEF StackInv, TypeOK, Handler
<1>6. BufferType'
  BY <1>1, <1>2, <1>4 DEF BufferType, IpHandler
<1>7. Stage'
  <2>1. Carries(f, ETH_P_ARP) => ArpStage'
    BY <1>1, <1>2, <1>4 DEF ArpStage
  <2>2. Carries(f, ETH_P_IP) => IpStage(f.payload, f.payload)'
    <3>1. IcmpStage(f.payload, f.payload)'
      BY <1>1 DEF IcmpStage, BetweenHandlers
    <3> QED
      BY <1>1, <1>2, <3>1 DEF IpStage, WellFormed
  <2> QED
    BY <1>1, <1>4, <2>1, <2>2 DEF Stage
<1>8. SentWell'
  BY <1>1, NothingSent
<1> QED
  BY <1>1, <1>5, <1>6, <1>7, <1>8 DEF StackInv, SentWell

\* A read that fails: the type is converted, and the rest handled again.
LEMMA ReadFailsKeeps ==
  ASSUME StackInv, ReadFails
  PROVE  StackInv'
<1>1. /\ buf' = eth_header_ntoh(buf) /\ pc = "read" /\ pc' = "handle_frame"
      /\ out' = None /\ tcp' = None /\ own' = None
      /\ cache' = cache /\ request' = request /\ answers' = answers
  BY DEF ReadFails
<1>2. buf \in EthHeader /\ buf.ether_type \in Word
  BY DEF StackInv, TypeOK, EthHeader
<1>3. htons(buf.ether_type) \in Word /\ htons(htons(buf.ether_type)) = buf.ether_type
  BY <1>2, HtonsTwice
<1>4. /\ buf' \in EthHeader /\ buf'.payload = buf.payload
      /\ buf'.ether_type = htons(buf.ether_type)
  BY <1>1, <1>2, <1>3 DEF eth_header_ntoh, EthHeader
<1>5. TypeOK'
  BY <1>1, <1>4 DEF StackInv, TypeOK, Handler
<1>6. BufferType'
  <2>1. CASE request = None
    <3>1. buf.ether_type = 0 /\ answers = 0 /\ htons(0) = 0
      BY <2>1, SMT DEF StackInv, BufferType, htons
    <3> QED
      BY <1>1, <1>4, <2>1, <3>1 DEF BufferType, IpHandler
  <2>2. CASE request # None
    <3>1. request.ether_type \in Word
      BY <2>2, FrameIs DEF StackInv, TypeOK
    <3>2. htons(htons(request.ether_type)) = request.ether_type
      BY <3>1, HtonsTwice
    <3>3. buf'.ether_type \in {request.ether_type, htons(request.ether_type)}
      BY <1>4, <2>2, <3>2 DEF StackInv, BufferType
    <3> QED
      BY <1>1, <2>2, <3>3 DEF BufferType, IpHandler
  <2> QED
    BY <2>1, <2>2
<1>7. Stage'
  <2> SUFFICES ASSUME request # None
               PROVE  /\ Carries(request, ETH_P_ARP) => ArpStage'
                      /\ Carries(request, ETH_P_IP) => IpStage(buf.payload, request.payload)'
                      /\ ~ Carries(request, ETH_P_ARP) /\ ~ Carries(request, ETH_P_IP)
                           => answers' = 0
    BY <1>1 DEF Stage
  <2>1. Carries(request, ETH_P_ARP) => ArpStage'
    BY <1>1, <1>4 DEF StackInv, Stage, ArpStage
  <2>2. ASSUME Carries(request, ETH_P_IP) PROVE IpStage(buf.payload, request.payload)'
    <3>1. IpStage(buf.payload, request.payload)
      BY <1>1, <2>2 DEF StackInv, Stage
    <3>2. IcmpStage(buf.payload, request.payload) => IcmpStage(buf.payload, request.payload)'
      BY <1>1, <1>4 DEF IcmpStage, BetweenHandlers
    <3> QED
      BY <1>1, <1>4, <3>1, <3>2 DEF IpStage
  <2> QED
    BY <1>1, <2>1, <2>2 DEF StackInv, Stage
<1>8. SentWell'
  BY <1>1, NothingSent
<1> QED
  BY <1>1, <1>5, <1>6, <1>7, <1>8 DEF StackInv, SentWell

\* handle_frame goes by the type in the buffer.
LEMMA HandleFrameKeeps ==
  ASSUME StackInv, handle_frame
  PROVE  StackInv'
<1>1. /\ pc = "handle_frame" /\ buf' = buf /\ cache' = cache /\ out' = out
      /\ request' = request /\ answers' = answers /\ tcp' = tcp /\ own' = own
      /\ out = None /\ own = None
  BY DEF handle_frame, StackInv, BufferType
<1>2. \/ buf.ether_type = ETH_P_ARP /\ pc' = "arp_receive"
      \/ buf.ether_type = ETH_P_IP /\ pc' = "ip_receive"
      \/ pc' = "read"
  BY DEF handle_frame
<1>3. TypeOK'
  BY <1>1, <1>2 DEF StackInv, TypeOK, Handler
<1>4. BufferType'
  BY <1>1, <1>2 DEF StackInv, BufferType, IpHandler
<1>5. Stage'
  <2> SUFFICES ASSUME request # None
               PROVE  /\ Carries(request, ETH_P_ARP) => ArpStage'
                      /\ Carries(request, ETH_P_IP) => IpStage(buf.payload, request.payload)'
                      /\ ~ Carries(request, ETH_P_ARP) /\ ~ Carries(request, ETH_P_IP)
                           => answers' = 0
    BY <1>1 DEF Stage
  <2>1. Carries(request, ETH_P_ARP) => ArpStage'
    BY <1>1 DEF StackInv, Stage, ArpStage
  <2>2. ASSUME Carries(request, ETH_P_IP) PROVE IpStage(buf.payload, request.payload)'
    <3>1. IpStage(buf.payload, request.payload)
      BY <1>1, <2>2 DEF StackInv, Stage
    <3>2. ~ Carries(request, ETH_P_ARP)
      BY <2>2, FrameIs, OneType DEF StackInv, TypeOK
    <3>3. pc' \in {"read", "ip_receive"}
      BY <1>2, <3>2, SMTT(20) DEF StackInv, BufferType, Carries
    <3>4. IcmpStage(buf.payload, request.payload) => IcmpStage(buf.payload, request.payload)'
      BY <1>1, <3>3 DEF IcmpStage, BetweenHandlers
    <3> QED
      BY <1>1, <3>1, <3>3, <3>4 DEF IpStage
  <2> QED
    BY <1>1, <2>1, <2>2 DEF StackInv, Stage
<1>6. SentWell'
  BY <1>1, NothingSent
<1> QED
  BY <1>1, <1>3, <1>4, <1>5, <1>6 DEF StackInv, SentWell

\* A handler of IP that sends nothing: it suffices that it leaves a datagram
\* in the buffer that the next handler may find there.
LEMMA QuietIpStep ==
  ASSUME StackInv, pc \in IpHandler, pc' \in (IpHandler \cup {"read"}),
         buf' = [buf EXCEPT !.payload = buf'.payload], buf'.payload \in IpHeader,
         UNCHANGED <<cache, out, request, answers, own>>,
         tcp' \in {None, "dropped", "accepted", "syn"},
         IpStage(buf.payload, request.payload)'
  PROVE  StackInv'
<1>1. /\ request \in Frames /\ Carries(request, ETH_P_IP) /\ ~ Carries(request, ETH_P_ARP)
      /\ buf \in EthHeader /\ buf.ether_type = ETH_P_IP
      /\ out = None /\ own = None
  BY IpRunning
<1>2. buf' \in EthHeader /\ buf'.ether_type = ETH_P_IP
  <2> DEFINE p == buf'.payload
  <2>1. buf' = [buf EXCEPT !.payload = p] /\ p \in IpHeader
    OBVIOUS
  <2> HIDE DEF p
  <2> QED
    BY <1>1, <2>1 DEF EthHeader
<1>3. TypeOK'
  BY <1>2 DEF StackInv, TypeOK, Handler, IpHandler
<1>4. BufferType'
  BY <1>1, <1>2 DEF StackInv, BufferType, IpHandler
<1>5. Stage'
  BY <1>1, <1>2 DEF Stage
<1>6. SentWell'
  BY <1>1, NothingSent
<1> QED
  BY <1>3, <1>4, <1>5, <1>6 DEF StackInv, SentWell

\* The same when the buffer is left as it is.
LEMMA IdleIpStep ==
  ASSUME StackInv, pc \in IpHandler, buf' = buf, pc' = "read",
         UNCHANGED <<cache, out, request, answers, own>>,
         tcp' \in {None, "dropped", "accepted", "syn"},
         protocol(request.payload) = PROTOCOL_ICMP
           => IcmpStage(buf.payload, request.payload)'
  PROVE  StackInv'
<1>1. /\ request \in Frames /\ IpStage(buf.payload, request.payload)
      /\ buf \in EthHeader /\ buf.payload \in IpHeader
  BY IpRunning
<1>2. buf' = [buf EXCEPT !.payload = buf'.payload] /\ buf'.payload \in IpHeader
  BY <1>1 DEF EthHeader
<1>3. IpStage(buf.payload, request.payload)'
  BY <1>1 DEF IpStage
<1> QED
  BY <1>1, <1>2, <1>3, QuietIpStep

\* ip_receive drops a header whose checksum is wrong.
LEMMA IpDroppedKeeps ==
  ASSUME StackInv, IpDropped
  PROVE  StackInv'
<1>1. /\ pc = "ip_receive" /\ buf' = buf /\ pc' = "read"
      /\ UNCHANGED <<cache, out, request, answers, own>> /\ tcp' = tcp
      /\ pc \in IpHandler
  BY DEF IpDropped, IpHandler
<1>2. IpStage(buf.payload, request.payload)
  BY <1>1, IpRunning
<1>3. IcmpStage(buf.payload, request.payload) => IcmpStage(buf.payload, request.payload)'
  BY <1>1 DEF IcmpStage, BetweenHandlers
<1>4. tcp' \in {None, "dropped", "accepted", "syn"}
  BY <1>1 DEF StackInv, TypeOK
<1> QED
  BY <1>1, <1>2, <1>3, <1>4, IdleIpStep DEF IpStage

\* icmp_receive leaves other messages alone.
LEMMA IcmpIgnoredKeeps ==
  ASSUME StackInv, IcmpIgnored
  PROVE  StackInv'
<1>1. /\ pc = "icmp_receive" /\ buf' = buf /\ pc' = "read"
      /\ UNCHANGED <<cache, out, request, answers, own>> /\ tcp' = tcp
      /\ pc \in IpHandler
      /\ ~ icmp_check(buf.payload) \/ buf.payload.payload.type # 8
  BY DEF IcmpIgnored, IpHandler
<1>2. request \in Frames /\ Carries(request, ETH_P_IP) /\ IpStage(buf.payload, request.payload)
  BY <1>1, IpRunning
<1>3. ip_header_ntoh(request.payload).payload = request.payload.payload
  BY <1>2, FrameIs, IpConverted
<1>4. IcmpStage(buf.payload, request.payload) => IcmpStage(buf.payload, request.payload)'
  BY <1>1, <1>3 DEF IcmpStage, BetweenHandlers
<1>5. tcp' \in {None, "dropped", "accepted", "syn"}
  BY <1>1, SMTT(20) DEF StackInv, TypeOK
<1> QED
  BY <1>1, <1>2, <1>4, <1>5, IdleIpStep DEF IpStage

\* tcp_receive drops a segment, and udp_receive does nothing.
LEMMA DroppedKeeps ==
  ASSUME StackInv, TcpDropped \/ udp_receive
  PROVE  StackInv'
<1>1. /\ pc \in {"tcp_receive", "udp_receive"} /\ buf' = buf /\ pc' = "read"
      /\ UNCHANGED <<cache, out, request, answers, own>> /\ pc \in IpHandler
  BY DEF TcpDropped, udp_receive, IpHandler
<1>2. tcp' \in {None, "dropped", "accepted", "syn"}
  BY DEF TcpDropped, udp_receive, StackInv, TypeOK
<1>3. IpStage(buf.payload, request.payload)
  BY <1>1, IpRunning
<1>4. IcmpStage(buf.payload, request.payload) => IcmpStage(buf.payload, request.payload)'
  BY <1>1 DEF IcmpStage, BetweenHandlers
<1> QED
  BY <1>1, <1>2, <1>3, <1>4, IdleIpStep DEF IpStage

\* ip_receive converts the header of a datagram it accepts.
LEMMA IpReceiveKeeps ==
  ASSUME StackInv, ip_receive
  PROVE  StackInv'
<1> DEFINE q == request.payload
           p == ip_header_ntoh(buf.payload)
           h == ip_header_ntoh(q)
<1>1. /\ pc = "ip_receive" /\ ip_header_check(buf.payload)
      /\ buf' = [buf EXCEPT !.payload = p] /\ pc \in IpHandler
      /\ UNCHANGED <<cache, out, request, answers, own>> /\ tcp' = tcp
  BY DEF ip_receive, IpHandler
<1>2. /\ protocol(buf.payload) = PROTOCOL_TCP => pc' = "tcp_receive"
      /\ protocol(buf.payload) = PROTOCOL_ICMP => pc' = "icmp_receive"
      /\ protocol(buf.payload) \notin {PROTOCOL_TCP, PROTOCOL_ICMP}
           => pc' \in {"udp_receive", "read"}
  BY DEF ip_receive, PROTOCOL_TCP, PROTOCOL_ICMP, PROTOCOL_UDP
<1>3. /\ request \in Frames /\ Carries(request, ETH_P_IP)
      /\ IpStage(buf.payload, q) /\ buf.payload \in IpHeader
  BY <1>1, IpRunning
<1>4. /\ p \in IpHeader /\ p.payload = buf.payload.payload
      /\ p.ttl_and_protocol = buf.payload.ttl_and_protocol
      /\ protocol(p) = protocol(buf.payload) /\ protocol(buf.payload) = protocol(q)
  BY <1>3, IpConverted, SMTT(20) DEF IpStage, protocol
<1>5. q \in IpHeader /\ ip_header_ntoh(h) = q /\ h.payload = q.payload
  BY <1>3, FrameIs, IpConverted
<1>6. protocol(h) = protocol(q)
  BY <1>3, FrameIs, IpConverted DEF protocol
<1>7. buf'.payload = p /\ buf' = [buf EXCEPT !.payload = buf'.payload]
  BY <1>1, <1>3, IpRunning DEF EthHeader
<1>8. ASSUME protocol(q) = PROTOCOL_ICMP PROVE IcmpStage(buf.payload, request.payload)'
  <2>1. /\ pc' = "icmp_receive" /\ request' = request /\ answers' = answers
        /\ buf'.payload = p
    BY <1>1, <1>2, <1>4, <1>7, <1>8
  <2>2. IcmpStage(buf.payload, q)
    BY <1>3, <1>8 DEF IpStage
  <2>3. CASE answers = 1
    BY <1>1, <1>4, <2>1, <2>2, <2>3 DEF IcmpStage
  <2>4. CASE answers = 0 /\ buf.payload = q
    BY <1>1, <2>1, <2>4 DEF IcmpStage
  <2>5. CASE answers = 0 /\ buf.payload = h /\ (q.payload.type = 8 => ~ icmp_check(h))
    <3>1. q.payload.type # 8
      BY <1>1, <1>3, <1>5, <1>6, <1>8, <2>5, StaleAssumption
    <3> QED
      BY <1>5, <2>1, <2>5, <3>1 DEF IcmpStage
  <2> QED
    BY <1>1, <2>2, <2>3, <2>4, <2>5 DEF IcmpStage
<1>9. IpStage(buf.payload, request.payload)'
  BY <1>1, <1>2, <1>3, <1>4, <1>7, <1>8 DEF IpStage, PROTOCOL_TCP, PROTOCOL_ICMP
<1>10. pc' \in (IpHandler \cup {"read"})
  BY <1>2 DEF IpHandler
<1>11. tcp' \in {None, "dropped", "accepted", "syn"}
  BY <1>1, SMTT(20) DEF StackInv, TypeOK
<1> HIDE DEF p
<1> QED
  BY <1>1, <1>4, <1>7, <1>9, <1>10, <1>11, QuietIpStep

\* At icmp_receive a message of type 8 is the one that arrived.
LEMMA RequestRunning ==
  ASSUME StackInv, icmp_receive
  PROVE  LET q == request.payload IN
         /\ request \in Frames /\ Carries(request, ETH_P_IP)
         /\ protocol(q) = PROTOCOL_ICMP /\ answers = 0
         /\ buf.payload = ip_header_ntoh(q) /\ q.payload.type = 8
         /\ ip_header_check(q) /\ icmp_check(ip_header_ntoh(q))
<1> DEFINE q == request.payload
<1>1. /\ pc = "icmp_receive" /\ icmp_check(buf.payload) /\ buf.payload.payload.type = 8
      /\ pc \in IpHandler
  BY DEF icmp_receive, IpHandler
<1>2. request \in Frames /\ Carries(request, ETH_P_IP) /\ IpStage(buf.payload, q)
  BY <1>1, IpRunning, SMTT(20)
<1>3. protocol(q) = PROTOCOL_ICMP /\ IcmpStage(buf.payload, q)
  BY <1>1, <1>2 DEF IpStage
<1>4. ip_header_ntoh(q).payload = q.payload
  BY <1>2, FrameIs, IpConverted
<1>5. answers = 0 /\ buf.payload = ip_header_ntoh(q) /\ ip_header_check(q)
  BY <1>1, <1>3 DEF IcmpStage, BetweenHandlers
<1> QED
  BY <1>1, <1>2, <1>3, <1>4, <1>5

\* icmp_receive composes the reply in place.
LEMMA IcmpReceiveKeeps ==
  ASSUME StackInv, icmp_receive
  PROVE  StackInv'
<1> DEFINE q == request.payload
           h == ip_header_ntoh(q)
           r == echo_reply(h)
<1>1. /\ request \in Frames /\ Carries(request, ETH_P_IP)
      /\ protocol(q) = PROTOCOL_ICMP /\ answers = 0
      /\ buf.payload = h /\ q.payload.type = 8
      /\ ip_header_check(q) /\ icmp_check(h)
  BY RequestRunning
<1>2. /\ pc \in IpHandler /\ buf' = [buf EXCEPT !.payload = r] /\ pc' = "ip_send_packet"
      /\ UNCHANGED <<cache, out, request, answers, own>> /\ tcp' = tcp
  BY <1>1, SMTT(20) DEF icmp_receive, IpHandler
<1>3. q \in IpHeader /\ h.ttl_and_protocol = q.ttl_and_protocol
  BY <1>1, FrameIs, IpConverted
<1>4. Measures(h)
  BY <1>1, RequestMeasures
<1>5. r \in IpHeader /\ r.ttl_and_protocol = h.ttl_and_protocol
  BY <1>4, EchoReplyIs
<1>6. buf'.payload = r /\ buf' = [buf EXCEPT !.payload = buf'.payload]
  BY <1>2, IpRunning DEF EthHeader
<1>7. IcmpStage(buf.payload, request.payload)'
  BY <1>1, <1>2, <1>6 DEF IcmpStage
<1> HIDE DEF r
<1>8. IpStage(buf.payload, request.payload)'
  BY <1>1, <1>2, <1>3, <1>5, <1>6, <1>7 DEF IpStage, PROTOCOL_TCP, PROTOCOL_ICMP
<1>9. tcp' \in {None, "dropped", "accepted", "syn"} /\ pc' \in (IpHandler \cup {"read"})
  BY <1>2 DEF StackInv, TypeOK, IpHandler
<1> QED
  BY <1>2, <1>5, <1>6, <1>8, <1>9, QuietIpStep, SMTT(20)

\* tcp_receive converts a segment in place, and it stays a segment.
LEMMA TcpReceiveKeeps ==
  ASSUME StackInv, tcp_receive
  PROVE  StackInv'
<1> DEFINE q == request.payload
           c == buf.payload.payload
           s == tcp_header_ntoh(c)
           p == [buf.payload EXCEPT !.payload = s]
<1>1. /\ pc = "tcp_receive" /\ pc \in IpHandler /\ pc' = "read"
      /\ buf' = [buf EXCEPT !.payload.payload = s]
      /\ UNCHANGED <<cache, out, request, answers, own>>
      /\ tcp' \in {None, "dropped", "accepted", "syn"}
  BY DEF tcp_receive, IpHandler
<1>2. IpStage(buf.payload, q) /\ buf \in EthHeader /\ buf.payload \in IpHeader
  BY <1>1, IpRunning
<1>3. protocol(q) = PROTOCOL_TCP /\ c \in TcpSegment
  BY <1>1, <1>2 DEF IpStage
<1>4. s \in TcpSegment
  <2>1. /\ c.seq_num[1] \in Word /\ c.ack_num[1] \in Word
        /\ c.src_port \in Word /\ c.dst_port \in Word
    BY <1>3, HtonlTwice DEF TcpSegment
  <2>2. /\ htons(c.seq_num[1]) \in Word /\ htons(c.ack_num[1]) \in Word
        /\ htons(c.src_port) \in Word /\ htons(c.dst_port) \in Word /\ 0 \in Word
    BY <2>1, HtonsTwice, WordIs
  <2>3. /\ <<htons(c.seq_num[1]), 0>> \in Long /\ <<htons(c.ack_num[1]), 0>> \in Long
    BY <2>2 DEF Long
  <2> QED
    BY <1>3, <2>2, <2>3, Zenon DEF TcpSegment, tcp_header_ntoh
<1> HIDE DEF s
<1>5. /\ p \in IpHeader /\ p.payload = s
      /\ p.ttl_and_protocol = buf.payload.ttl_and_protocol
  BY <1>2, <1>4 DEF IpHeader
<1>6. buf' = [buf EXCEPT !.payload = buf'.payload] /\ buf'.payload = p
  BY <1>1, <1>2 DEF EthHeader
<1> HIDE DEF p
<1>7. IpStage(buf.payload, request.payload)'
  BY <1>1, <1>2, <1>3, <1>4, <1>5, <1>6, SMTT(20) DEF IpStage, PROTOCOL_TCP, PROTOCOL_ICMP
<1> QED
  BY <1>1, <1>5, <1>6, <1>7, QuietIpStep

\* At ip_send_packet the buffer holds the reply to an intact echo request.
LEMMA ReplyRunning ==
  ASSUME StackInv, pc = "ip_send_packet"
  PROVE  LET q == request.payload
             r == buf.payload
         IN  /\ request \in Frames /\ Carries(request, ETH_P_IP) /\ ~ Carries(request, ETH_P_ARP)
             /\ buf \in EthHeader /\ r \in IpHeader /\ buf.ether_type = ETH_P_IP
             /\ answers = 0 /\ own = None /\ protocol(q) = PROTOCOL_ICMP
             /\ r.ttl_and_protocol = q.ttl_and_protocol
             /\ q.src_addr \in Addresses /\ htonl(r.dst_addr) = q.src_addr
             /\ htonl(r.src_addr) = src_ip /\ htons(r.len) = q.len
             /\ r.payload \in IcmpMessage /\ r.payload.type = 0
             /\ r.payload.code = q.payload.code /\ r.payload.data = q.payload.data
             /\ Intact(icmp_words(r.payload))
             /\ Intact(ip_words(q)) /\ Intact(icmp_words(q.payload))
<1> DEFINE q == request.payload
           r == buf.payload
           h == ip_header_ntoh(q)
<1>1. pc \in IpHandler
  BY DEF IpHandler
<1>2. /\ request \in Frames /\ Carries(request, ETH_P_IP) /\ ~ Carries(request, ETH_P_ARP)
      /\ IpStage(r, q) /\ buf \in EthHeader /\ r \in IpHeader
      /\ buf.ether_type = ETH_P_IP /\ own = None
  BY <1>1, IpRunning
<1>3. protocol(q) = PROTOCOL_ICMP /\ IcmpStage(r, q) /\ r.ttl_and_protocol = q.ttl_and_protocol
  BY <1>2 DEF IpStage
<1>4. answers = 0 /\ r = echo_reply(h) /\ ip_header_check(q) /\ icmp_check(h)
  BY <1>3 DEF IcmpStage, BetweenHandlers
<1>5. q \in IpHeader /\ q.src_addr \in Addresses /\ q.src_addr \in Long /\ q.len \in Word
  BY <1>2, FrameIs DEF IpHeader
<1>6. /\ h.src_addr = htonl(q.src_addr) /\ h.len = htons(q.len) /\ h.payload = q.payload
  BY <1>5, IpConverted
<1>7. Measures(h)
  BY <1>2, <1>3, RequestMeasures
<1>8. Intact(ip_words(q)) /\ Intact(icmp_words(q.payload))
  BY <1>4, <1>5, <1>6, <1>7, HeaderCheckIs, IcmpCheckIs, SMTT(20)
<1>9. /\ r.dst_addr = h.src_addr /\ r.src_addr = htonl(src_ip) /\ r.len = h.len
      /\ r.payload \in IcmpMessage /\ r.payload.type = 0
      /\ r.payload.code = h.payload.code /\ r.payload.data = h.payload.data
      /\ Intact(icmp_words(r.payload))
  BY <1>4, <1>7, EchoReplyIs
<1>10. /\ htonl(htonl(q.src_addr)) = q.src_addr /\ htonl(htonl(src_ip)) = src_ip
       /\ htons(htons(q.len)) = q.len
  BY <1>5, StackAssumption, HtonlTwice, HtonsTwice
<1> QED
  BY <1>2, <1>3, <1>4, <1>5, <1>6, <1>8, <1>9, <1>10, Zenon

\* ip_send_packet sends it, back in network order.
LEMMA IpSendPacketKeeps ==
  ASSUME StackInv, ip_send_packet
  PROVE  StackInv'
<1> DEFINE q == request.payload
           r == buf.payload
           s == Outgoing(r)
<1>1. pc = "ip_send_packet"
  BY SMTT(20) DEF ip_send_packet
<1>2. /\ request \in Frames /\ Carries(request, ETH_P_IP) /\ ~ Carries(request, ETH_P_ARP)
      /\ buf \in EthHeader /\ r \in IpHeader /\ buf.ether_type = ETH_P_IP
      /\ answers = 0 /\ own = None /\ protocol(q) = PROTOCOL_ICMP
      /\ r.ttl_and_protocol = q.ttl_and_protocol
      /\ q.src_addr \in Addresses /\ htonl(r.dst_addr) = q.src_addr
      /\ htonl(r.src_addr) = src_ip /\ htons(r.len) = q.len
      /\ r.payload \in IcmpMessage /\ r.payload.type = 0
      /\ r.payload.code = q.payload.code /\ r.payload.data = q.payload.data
      /\ Intact(icmp_words(r.payload))
      /\ Intact(ip_words(q)) /\ Intact(icmp_words(q.payload))
  BY <1>1, ReplyRunning
<1>3. /\ cache[htonl(r.dst_addr)] # NULL /\ buf' = [buf EXCEPT !.payload = s]
      /\ out' = [dst_mac |-> cache[htonl(r.dst_addr)], ether_type |-> htons(ETH_P_IP),
                 payload |-> s]
      /\ answers' = answers + 1 /\ pc' = "read"
      /\ cache' = cache /\ request' = request /\ tcp' = tcp /\ own' = own
  BY SMTT(20) DEF ip_send_packet, Send
<1>4. /\ s \in IpHeader /\ Intact(ip_words(s))
      /\ s.src_addr = htonl(r.src_addr) /\ s.dst_addr = htonl(r.dst_addr)
      /\ s.len = htons(r.len) /\ s.payload = r.payload
      /\ s.ttl_and_protocol = r.ttl_and_protocol
  BY <1>2, OutgoingIs
<1> HIDE DEF s
<1>5. buf' \in EthHeader /\ buf'.payload = s /\ buf'.ether_type = ETH_P_IP
  BY <1>2, <1>3, <1>4 DEF EthHeader
<1>6. answers' = 1
  BY <1>2, <1>3
<1>7. /\ out'.dst_mac = cache[q.src_addr] /\ out'.payload = s
      /\ out'.ether_type = htons(ETH_P_IP)
  BY <1>2, <1>3
<1>8. TypeOK'
  <2>1. cache[q.src_addr] \in Macs
    BY <1>2, <1>3 DEF StackInv, TypeOK
  <2>2. htons(ETH_P_IP) \in Word
    BY EtherTypes, HtonsTwice
  <2> QED
    BY <1>3, <1>5, <1>6, <1>7, <2>1, <2>2 DEF StackInv, TypeOK, Handler
<1>9. BufferType'
  BY <1>2, FrameIs, <1>3, <1>5, <1>6 DEF StackInv, BufferType, IpHandler
<1>10. Stage'
  <2>1. IcmpStage(buf.payload, request.payload)'
    BY <1>2, <1>3, <1>4, <1>5, <1>6 DEF IcmpStage
  <2>2. IpStage(buf.payload, request.payload)'
    BY <1>2, <1>3, <1>4, <1>5, <2>1 DEF IpStage, PROTOCOL_ICMP, PROTOCOL_TCP
  <2> QED
    BY <1>2, <1>3, <2>2 DEF Stage
<1>11. EchoAnswersRequest'
  BY <1>2, <1>3, <1>4, <1>7, SMTT(20) DEF EchoAnswersRequest
<1>12. RepliesAreIntact'
  BY <1>2, <1>4, <1>7 DEF RepliesAreIntact
<1>13. SentAsAsked'
  BY <1>2, <1>3 DEF SentAsAsked
<1> QED
  BY <1>6, <1>8, <1>9, <1>10, <1>11, <1>12, <1>13 DEF StackInv

\* A broadcast ARP request is no packet.
LEMMA ArpRequestIs ==
  ASSUME NEW a, out' = arp_request(a)
  PROVE  /\ ~ PacketSent' /\ SentWell'
         /\ out'.ether_type \in Word /\ out'.dst_mac \in Macs
<1>1. out'.ether_type = htons(ETH_P_ARP) /\ out'.dst_mac = Broadcast
  BY DEF arp_request
<1>2. ~ PacketSent'
  BY <1>1, EtherTypes, SMT, SMTT(20) DEF PacketSent
<1>3. SentWell'
  BY <1>2 DEF SentWell, EchoAnswersRequest, RepliesAreIntact, SentAsAsked, EchoSent
<1>4. htons(ETH_P_ARP) \in Word /\ Broadcast \in Macs
  BY EtherTypes, HtonsTwice, StackAssumption
<1> QED
  BY <1>1, <1>2, <1>3, <1>4

\* Exiting after a broadcast.
LEMMA ExitKeeps ==
  ASSUME StackInv, NEW a, out' = arp_request(a), pc' = "exit",
         UNCHANGED <<buf, cache, request, answers, tcp>>,
         own' \in Sends \cup {None}
  PROVE  StackInv'
<1>1. out'.ether_type \in Word /\ out'.dst_mac \in Macs /\ SentWell'
  BY ArpRequestIs
<1>2. TypeOK'
  BY <1>1 DEF StackInv, TypeOK, Handler
<1>3. BufferType' /\ Stage'
  BY DEF StackInv, BufferType, Stage, IpHandler
<1> QED
  BY <1>1, <1>2, <1>3 DEF StackInv, SentWell

\* ip_send_packet finds no MAC address.
LEMMA UnresolvedKeeps ==
  ASSUME StackInv, Unresolved
  PROVE  StackInv'
<1> DEFINE a == htonl(buf.payload.dst_addr)
<1>1. /\ out' = arp_request(a) /\ pc' = "exit"
      /\ UNCHANGED <<buf, cache, request, answers, tcp>> /\ own' = own
  BY DEF Unresolved
<1>2. own' \in Sends \cup {None}
  BY <1>1 DEF StackInv, TypeOK
<1> HIDE DEF a
<1> QED
  BY <1>1, <1>2, ExitKeeps

\* ip_send sends what it composed, or broadcasts.
LEMMA IpSendKeeps ==
  ASSUME StackInv, NEW a \in Sends, ip_send(a)
  PROVE  StackInv'
<1> DEFINE h == Composed(a)
           s == Outgoing(h)
<1>1. /\ pc = "read" /\ own' = a /\ UNCHANGED <<buf, cache, request, answers, tcp>>
      /\ \/ /\ cache[htonl(h.dst_addr)] # NULL /\ pc' = pc
            /\ out' = [dst_mac |-> cache[htonl(h.dst_addr)], ether_type |-> htons(ETH_P_IP),
                       payload |-> s]
         \/ out' = arp_request(htonl(h.dst_addr)) /\ pc' = "exit"
  BY DEF ip_send
<1>2. own' \in Sends /\ own' # None
  BY <1>1, StackAssumption
<1>3. CASE out' = arp_request(htonl(h.dst_addr)) /\ pc' = "exit"
  BY <1>1, <1>2, <1>3, ExitKeeps
<1>4. CASE /\ cache[htonl(h.dst_addr)] # NULL /\ pc' = pc
           /\ out' = [dst_mac |-> cache[htonl(h.dst_addr)], ether_type |-> htons(ETH_P_IP),
                      payload |-> s]
  <2>1. /\ h \in IpHeader /\ protocol(h) = a.protocol
        /\ h.src_addr = htonl(src_ip) /\ h.dst_addr = htonl(a.dst)
        /\ h.len = 20 + 2 * Len(a.payload) /\ h.payload = [data |-> a.payload]
    BY ComposedIs, SMTT(20)
  <2> HIDE DEF h
  <2>2. /\ s \in IpHeader /\ Intact(ip_words(s))
        /\ s.src_addr = htonl(h.src_addr) /\ s.dst_addr = htonl(h.dst_addr)
        /\ s.len = htons(h.len) /\ s.payload = h.payload
        /\ s.ttl_and_protocol = h.ttl_and_protocol
    BY <2>1, OutgoingIs
  <2> HIDE DEF s
  <2>3. /\ a.dst \in Addresses /\ a.dst \in Long /\ src_ip \in Long
        /\ a.payload \in Seq(Word)
    BY StackAssumption DEF SendArguments
  <2>4. htonl(htonl(a.dst)) = a.dst /\ htonl(htonl(src_ip)) = src_ip
    BY <2>3, HtonlTwice, SMTT(20)
  <2>5. s.dst_addr = a.dst /\ s.src_addr = src_ip /\ htonl(h.dst_addr) = a.dst
    BY <2>1, <2>2, <2>4, SMTT(20)
  <2>6. h.len \in Word /\ htons(htons(h.len)) = h.len
    BY <2>1, HtonsTwice DEF IpHeader
  <2>7. ip_header_ntoh(s).len = h.len
    BY <2>2, <2>6, IpConverted
  <2>8. payload_words(ip_header_ntoh(s), s.payload.data) = a.payload
    <3>1. s.payload.data = a.payload
      BY <2>1, <2>2
    <3>2. Len(a.payload) \in Nat
      BY <2>3
    <3>3. (h.len - 20 + 1) \div 2 = Len(a.payload)
      <4>1. \A n \in Nat : ((20 + 2 * n) - 20 + 1) \div 2 = n
        BY SMT
      <4> QED
        BY <2>1, <3>2, <4>1, Zenon
    <3>4. SubSeq(a.payload, 1, Len(a.payload)) = a.payload
      BY <2>3, SubSeqFull
    <3> QED
      BY <2>7, <3>1, <3>3, <3>4, Zenon DEF payload_words
  <2>9. htons(s.len) = 20 + 2 * Len(a.payload) /\ protocol(s) = a.protocol
    BY <2>1, <2>2, <2>6 DEF protocol
  <2>10. /\ out'.dst_mac = cache[a.dst] /\ out'.payload = s
         /\ out'.ether_type = htons(ETH_P_IP)
    BY <1>4, <2>5, SMTT(20)
  <2>11. SentAsAsked'
    BY <1>1, <2>2, <2>5, <2>8, <2>9, <2>10, SMTT(20) DEF SentAsAsked
  <2>12. EchoAnswersRequest' /\ RepliesAreIntact'
    BY <1>2, SMTT(20) DEF EchoAnswersRequest, RepliesAreIntact, EchoSent
  <2>13. TypeOK'
    <3>1. cache[a.dst] \in Macs
      BY <1>4, <2>3, <2>5 DEF StackInv, TypeOK
    <3>2. htons(ETH_P_IP) \in Word
      BY EtherTypes, HtonsTwice
    <3> QED
      BY <1>1, <1>2, <1>4, <2>10, <3>1, <3>2, SMTT(20) DEF StackInv, TypeOK
  <2>14. BufferType'
    BY <1>1, <1>4, SMTT(20) DEF StackInv, BufferType, IpHandler
  <2>15. Stage'
    <3>1. pc' = pc /\ buf' = buf /\ request' = request /\ answers' = answers
      BY <1>1, <1>4
    <3> QED
      BY <3>1, Zenon DEF StackInv, Stage, ArpStage, IpStage, IcmpStage
  <2> QED
    BY <1>1, <2>11, <2>12, <2>13, <2>14, <2>15, SMTT(20) DEF StackInv
<1> QED
  BY <1>1, <1>3, <1>4

\* arp_receive records the sender, and turns a request into the reply.
LEMMA ArpReceiveKeeps ==
  ASSUME StackInv, arp_receive
  PROVE  StackInv'
<1> DEFINE a == arp_header_ntoh(buf.payload)
<1>1. /\ pc = "arp_receive" /\ pc' = "read" /\ ArpRecords(a)
      /\ request' = request /\ tcp' = tcp /\ own' = own
      /\ \/ /\ ArpAsksUs(a) /\ buf' = [buf EXCEPT !.payload = arp_reply(a)]
            /\ Send(a.src_mac, ETH_P_ARP, arp_reply(a))
         \/ /\ ~ ArpAsksUs(a) /\ buf' = [buf EXCEPT !.payload = a]
            /\ out' = out /\ answers' = answers
  BY DEF arp_receive
<1>2. /\ request \in Frames /\ Carries(request, ETH_P_ARP) /\ ~ Carries(request, ETH_P_IP)
      /\ ArpStage /\ buf \in EthHeader /\ out = None /\ own = None
  BY <1>1, ArpRunning
<1>3. buf.payload \in ArpHeader /\ buf.payload.opcode \in Word
  BY <1>2 DEF ArpStage, ArpHeader
<1>4. /\ a \in ArpHeader /\ a.opcode = htons(buf.payload.opcode)
      /\ a.src_mac \in Macs /\ a.src_ip \in Addresses
  BY <1>3, ArpConverted DEF ArpHeader
<1>5. cache' \in [Addresses -> Macs \cup {NULL}]
  BY <1>1, <1>4 DEF ArpRecords, StackInv, TypeOK
<1> HIDE DEF a
<1>6. answers = 1 => a.opcode \in {ARP_REPLY, htons(ARP_REPLY)}
  <2>1. ARP_REPLY \in Word
    BY WordIs, SMT DEF ARP_REPLY
  <2>2. htons(htons(ARP_REPLY)) = ARP_REPLY
    BY <2>1, HtonsTwice
  <2> QED
    BY <1>2, <1>4, <2>2 DEF ArpStage
<1>7. CASE ~ ArpAsksUs(a)
  <2>1. buf' = [buf EXCEPT !.payload = a] /\ out' = out /\ answers' = answers
    BY <1>1, <1>7
  <2>2. buf' \in EthHeader /\ buf'.payload = a /\ buf'.ether_type = buf.ether_type
    BY <1>2, <1>4, <2>1 DEF EthHeader
  <2>3. TypeOK'
    BY <1>1, <1>2, <1>5, <2>1, <2>2 DEF StackInv, TypeOK, Handler
  <2>4. BufferType'
    BY <1>1, <1>2, <2>1, <2>2 DEF StackInv, BufferType, IpHandler
  <2>5. Stage'
    <3>1. ArpStage'
      BY <1>4, <1>6, <2>1, <2>2 DEF ArpStage
    <3> QED
      BY <1>1, <1>2, <3>1 DEF Stage
  <2>6. SentWell'
    BY <1>2, <2>1, NothingSent
  <2> QED
    BY <2>1, <2>3, <2>4, <2>5, <2>6 DEF StackInv, SentWell
<1>8. CASE ArpAsksUs(a)
  <2> DEFINE b == [a EXCEPT !.dst_ip = a.src_ip, !.dst_mac = a.src_mac,
                            !.src_ip = src_ip, !.src_mac = mac, !.opcode = ARP_REPLY]
             r == arp_header_ntoh(b)
  <2>1. /\ buf' = [buf EXCEPT !.payload = r] /\ answers' = answers + 1
        /\ out' = [dst_mac |-> a.src_mac, ether_type |-> htons(ETH_P_ARP), payload |-> r]
    BY <1>1, <1>8 DEF Send, arp_reply
  <2>2. ARP_REPLY \in Word /\ src_ip \in Addresses /\ mac \in Macs
    BY WordIs, StackAssumption, SMT DEF ARP_REPLY
  <2>3. b \in ArpHeader /\ b.opcode = ARP_REPLY
    BY <1>4, <2>2, Zenon DEF ArpHeader
  <2> HIDE DEF b
  <2>4. r \in ArpHeader /\ r.opcode = htons(ARP_REPLY)
    BY <2>3, ArpConverted
  <2> HIDE DEF r
  <2>5. buf' \in EthHeader /\ buf'.payload = r /\ buf'.ether_type = buf.ether_type
    BY <1>2, <2>1, <2>4 DEF EthHeader
  <2>6. answers = 0 /\ answers' = 1
    <3>1. a.opcode = ARP_REQUEST
      BY <1>8 DEF ArpAsksUs
    <3>2. ARP_REQUEST # ARP_REPLY /\ ARP_REQUEST # htons(ARP_REPLY)
      BY SMT DEF ARP_REQUEST, ARP_REPLY, htons
    <3> QED
      BY <1>6, <2>1, <3>1, <3>2 DEF StackInv
  <2>7. out'.ether_type \in Word /\ out'.dst_mac \in Macs /\ ~ PacketSent'
    <3>1. htons(ETH_P_ARP) \in Word /\ htons(ETH_P_ARP) # htons(ETH_P_IP)
      BY EtherTypes, HtonsTwice, SMT
    <3> QED
      BY <1>4, <2>1, <3>1 DEF PacketSent
  <2>8. TypeOK'
    BY <1>1, <1>2, <1>5, <2>5, <2>6, <2>7 DEF StackInv, TypeOK, Handler
  <2>9. BufferType'
    BY <1>1, <1>2, <2>5, <2>6, FrameIs, SMTT(20) DEF StackInv, BufferType, IpHandler
  <2>10. Stage'
    <3>1. ArpStage'
      BY <2>4, <2>5, SMTT(20) DEF ArpStage
    <3> QED
      BY <1>1, <1>2, <3>1 DEF Stage
  <2>11. SentWell'
    BY <2>7 DEF SentWell, EchoAnswersRequest, RepliesAreIntact, SentAsAsked, EchoSent
  <2> QED
    BY <2>6, <2>8, <2>9, <2>10, <2>11 DEF StackInv, SentWell
<1> QED
  BY <1>7, <1>8

\* Every step keeps the invariant.
LEMMA StackStep ==
  ASSUME StackInv, [Next]_vars
  PROVE  StackInv'
<1>1. CASE UNCHANGED vars
  <2>1. /\ pc' = pc /\ buf' = buf /\ cache' = cache /\ out' = out
        /\ request' = request /\ answers' = answers /\ tcp' = tcp /\ own' = own
    BY <1>1 DEF vars
  <2>2. TypeOK' /\ (answers \in {0, 1})' /\ BufferType'
    BY <2>1, Zenon DEF StackInv, TypeOK, BufferType
  <2>3. Stage'
    BY <2>1, Zenon DEF StackInv, Stage, ArpStage, IpStage, IcmpStage
  <2>4. (EchoAnswersRequest /\ RepliesAreIntact /\ SentAsAsked)'
    BY <2>1, Zenon DEF StackInv, EchoAnswersRequest, RepliesAreIntact, SentAsAsked,
                       EchoSent, PacketSent
  <2> QED
    BY <2>2, <2>3, <2>4, Zenon DEF StackInv
<1>2. CASE \E f \in Frames : Read(f)
  BY <1>2, ReadKeeps
<1>3. CASE ReadFails
  BY <1>3, ReadFailsKeeps
<1>4. CASE \E a \in Sends : ip_send(a)
  BY <1>4, IpSendKeeps
<1>5. CASE handle_frame
  BY <1>5, HandleFrameKeeps
<1>6. CASE arp_receive
  BY <1>6, ArpReceiveKeeps
<1>7. CASE IpDropped \/ ip_receive
  BY <1>7, IpDroppedKeeps, IpReceiveKeeps
<1>8. CASE IcmpIgnored \/ icmp_receive
  BY <1>8, IcmpIgnoredKeeps, IcmpReceiveKeeps
<1>9. CASE ip_send_packet \/ Unresolved
  BY <1>9, IpSendPacketKeeps, UnresolvedKeeps
<1>10. CASE TcpDropped \/ tcp_receive \/ udp_receive
  BY <1>10, DroppedKeeps, TcpReceiveKeeps
<1>11. CASE Exited
  BY <1>1, <1>11 DEF Exited
<1> QED
  BY <1>1, <1>2, <1>3, <1>4, <1>5, <1>6, <1>7, <1>8, <1>9, <1>10, <1>11, SMTT(20) DEF Next

\* StackInv is inductive.
LEMMA StackInvariant == Spec => []StackInv
<1>1. Init => StackInv
  BY InitStackInv
<1>2. StackInv /\ [Next]_vars => StackInv'
  BY StackStep
<1> QED
  BY <1>1, <1>2, PTL DEF Spec

\* The handlers of main.c:21-58 find in the buffer what they expect, and send
\* frames of the right types to MAC addresses.
THEOREM StackTypeCorrect == Spec => []TypeOK
<1>1. StackInv => TypeOK
  BY DEF StackInv
<1> QED
  BY <1>1, StackInvariant, PTL

\* A frame is answered once at most, however often failed reads hand its
\* buffer to the handlers again (main.c:50-55).
THEOREM AnsweredAtMostOnce == Spec => []AtMostOneAnswer
<1>1. StackInv => AtMostOneAnswer
  BY DEF StackInv, AtMostOneAnswer
<1> QED
  BY <1>1, StackInvariant, PTL

\* Every echo reply answers the request that was read: to its sender, with its
\* code and data, and only if both of its checksums were right
\* (icmp.c:60-119, ip.c:85-148).
THEOREM EchoRepliesAnswer == Spec => []EchoAnswersRequest
<1>1. StackInv => EchoAnswersRequest
  BY DEF StackInv
<1> QED
  BY <1>1, StackInvariant, PTL

\* Both checksums of every echo reply satisfy a receiver (icmp.c:67-69,
\* ip.c:144-145).
THEOREM EchoRepliesAreIntact == Spec => []RepliesAreIntact
<1>1. StackInv => RepliesAreIntact
  BY DEF StackInv
<1> QED
  BY <1>1, StackInvariant, PTL

\* What ip_send is asked to send is what leaves, for every payload whose length
\* fits the field (ip.c:22-36, 124-160).
THEOREM SendsWhatIsAsked == Spec => []SentAsAsked
<1>1. StackInv => SentAsAsked
  BY DEF StackInv
<1> QED
  BY <1>1, StackInvariant, PTL

\* The sum that ip_receive and icmp_receive check is the one of RFC 1071
\* (protocols.c:3-4, 20-22), on whatever a handler finds in the buffer.
THEOREM CheckedSumsAgree == Spec => []SumsAgree
<1>1. ASSUME StackInv PROVE SumsAgree
  <2>1. CASE pc = "ip_receive"
    <3>1. buf.payload \in IpHeader
      BY <1>1, <2>1, IpRunning DEF IpHandler
    <3>2. ip_words(buf.payload) \in Seq(Nat)
      BY <3>1, IpWords, WordsAreNat
    <3> QED
      BY <2>1, <3>2, Sum16IsOnesComplementSum DEF SumsAgree
  <2>2. CASE pc = "icmp_receive"
    <3>1. /\ request \in Frames /\ Carries(request, ETH_P_IP)
          /\ IpStage(buf.payload, request.payload)
      BY <1>1, <2>2, IpRunning DEF IpHandler
    <3>2. protocol(request.payload) = PROTOCOL_ICMP /\ IcmpStage(buf.payload, request.payload)
      BY <2>2, <3>1, SMTT(20) DEF IpStage
    <3>3. /\ request.payload.payload \in IcmpMessage
          /\ ip_header_ntoh(request.payload).payload = request.payload.payload
      BY <3>1, <3>2, FrameIs, IpConverted DEF WellFormed
    <3>4. buf.payload.payload \in IcmpMessage
      BY <2>2, <3>2, <3>3 DEF IcmpStage
    <3>5. icmp_words(buf.payload.payload) \in Seq(Nat)
      BY <3>4, IcmpWords, WordsAreNat
    <3> QED
      BY <2>2, <3>5, Sum16IsOnesComplementSum DEF SumsAgree
  <2> QED
    BY <2>1, <2>2 DEF SumsAgree
<1> QED
  BY <1>1, StackInvariant, PTL
=============================================================================
