-------------------------- MODULE HashmapUseProofs --------------------------
(***************************************************************************)
(* What the callers of Hashmap and of its iterator rely on, for every hash *)
(* function, capacity and sequence of calls: the capacity stays a power of *)
(* two; the size is exact when callers remove only keys that are there,    *)
(* and falls behind by one for each that is not; the table keeps a free    *)
(* slot, every probe ends there at the latest, and growing never calls for *)
(* growing again; and a pass of the iterator returns every entry once.     *)
(***************************************************************************)
EXTENDS HashmapIterator, HashmapProofs, FiniteSetTheorems

-----------------------------------------------------------------------------
(***************************************************************************)
(* Induction and recursion.  The library's theorems on them take operators *)
(* as parameters; these take sets and functions.                           *)
(***************************************************************************)

\* A set of natural numbers has a least element.
LEMMA LeastExists ==
  ASSUME NEW S, S \subseteq Nat, S # {}
  PROVE  \E x \in S : \A y \in S : ~ (y < x)
<1> DEFINE R == OpToRel(<, Nat)
<1>1. PICK x \in S : \A y \in S : <<y, x>> \notin R
  <2>1. IsWellFoundedOn(R, Nat)
    BY NatLessThanWellFounded
  <2> HIDE DEF R
  <2> QED
    BY <2>1, WFMin
<1>2. \A y \in S : y < x => <<y, x>> \in R
  BY DEF OpToRel
<1> QED
  BY <1>1, <1>2

\* Induction, for a set instead of a predicate.
LEMMA InductiveSet ==
  ASSUME NEW S, 0 \in S, \A m \in Nat : m \in S => m + 1 \in S
  PROVE  \A m \in Nat : m \in S
<1> SUFFICES ASSUME Nat \ S # {} PROVE FALSE
  OBVIOUS
<1>1. PICK x \in Nat \ S : \A y \in Nat \ S : ~ (y < x)
  BY LeastExists
<1>2. x # 0 /\ x - 1 \in Nat /\ x - 1 \notin S
  BY <1>1
<1> QED
  BY <1>1, <1>2

\* g is the beginning, up to m, of the sequence that starts at a and goes on
\* by step.
Begins(g, m, T, a, step) ==
  /\ g \in [0..m -> T]
  /\ g[0] = a
  /\ \A j \in 0..(m - 1) : g[j + 1] = step[j][g[j]]

\* f is that sequence.
GoesOn(f, T, a, step) ==
  /\ f \in [Nat -> T]
  /\ f[0] = a
  /\ \A m \in Nat : f[m + 1] = step[m][f[m]]

\* A function is defined by its first value and the step from each to the next.
LEMMA RecursionExists ==
  ASSUME NEW T, NEW a \in T, NEW step \in [Nat -> [T -> T]]
  PROVE  \E f : GoesOn(f, T, a, step)
<1> DEFINE S == {m \in Nat : \E g : Begins(g, m, T, a, step)}
<1>1. 0 \in S
  <2>1. Begins([j \in 0..0 |-> a], 0, T, a, step)
    BY DEF Begins
  <2> QED
    BY <2>1
<1>2. ASSUME NEW m \in Nat, m \in S PROVE m + 1 \in S
  <2>1. PICK g : Begins(g, m, T, a, step)
    BY <1>2
  <2> DEFINE h == [j \in 0..(m + 1) |-> IF j = m + 1 THEN step[m][g[m]] ELSE g[j]]
  <2>2. g[m] \in T /\ step[m][g[m]] \in T
    BY <2>1 DEF Begins
  <2>3. h \in [0..(m + 1) -> T] /\ h[0] = a
    BY <2>1, <2>2 DEF Begins
  <2>4. ASSUME NEW j \in 0..m PROVE h[j + 1] = step[j][h[j]]
    <3>1. CASE j = m
      <4>1. h[m + 1] = step[m][g[m]] /\ h[m] = g[m]
        OBVIOUS
      <4> QED
        BY <3>1, <4>1
    <3>2. CASE j # m
      <4>1. j \in 0..(m - 1) /\ h[j + 1] = g[j + 1] /\ h[j] = g[j]
        BY <3>2
      <4> QED
        BY <2>1, <4>1 DEF Begins
    <3> QED
      BY <3>1, <3>2
  <2> HIDE DEF h
  <2>5. Begins(h, m + 1, T, a, step)
    <3>1. \A j \in 0..((m + 1) - 1) : h[j + 1] = step[j][h[j]]
      BY <2>4
    <3> QED
      BY <2>3, <3>1 DEF Begins
  <2> QED
    BY <2>5
<1> HIDE DEF S
<1>3. \A m \in Nat : m \in S
  BY <1>1, <1>2, InductiveSet
<1> USE DEF S
<1> DEFINE G == [m \in Nat |-> CHOOSE g : Begins(g, m, T, a, step)]
<1>4. \A m \in Nat : Begins(G[m], m, T, a, step)
  BY <1>3
<1> HIDE DEF G
<1>5. ASSUME NEW m \in Nat, NEW p \in Nat, m <= p
      PROVE  G[p][m] = G[m][m]
  <2> DEFINE A == {j \in Nat : j <= m => G[p][j] = G[m][j]}
  <2>1. 0 \in A
    BY <1>4, <1>5 DEF Begins
  <2>2. ASSUME NEW j \in Nat, j \in A PROVE j + 1 \in A
    <3> SUFFICES ASSUME j + 1 <= m PROVE G[p][j + 1] = G[m][j + 1]
      OBVIOUS
    <3>1. G[p][j] = G[m][j] /\ j \in 0..(m - 1) /\ j \in 0..(p - 1)
      BY <1>5, <2>2
    <3> QED
      BY <1>4, <3>1 DEF Begins
  <2> HIDE DEF A
  <2>3. m \in A
    BY <2>1, <2>2, InductiveSet
  <2> QED
    BY <2>3 DEF A
<1> DEFINE f == [m \in Nat |-> G[m][m]]
<1>6. f \in [Nat -> T] /\ f[0] = a
  BY <1>4 DEF Begins
<1>7. ASSUME NEW m \in Nat PROVE f[m + 1] = step[m][f[m]]
  <2>1. G[m + 1][m] = G[m][m]
    BY <1>5
  <2>2. G[m + 1][m + 1] = step[m][G[m + 1][m]]
    <3>1. Begins(G[m + 1], m + 1, T, a, step) /\ m \in 0..((m + 1) - 1)
      BY <1>4
    <3> QED
      BY <3>1 DEF Begins
  <2> QED
    BY <2>1, <2>2
<1>8. GoesOn(f, T, a, step)
  <2> HIDE DEF f
  <2> QED
    BY <1>6, <1>7 DEF GoesOn
<1> QED
  BY <1>8

-----------------------------------------------------------------------------
(***************************************************************************)
(* The capacity.                                                           *)
(***************************************************************************)

\* The recursive definition of pow2 defines a function.
LEMMA Pow2Def ==
  /\ pow2 \in [Nat -> Nat]
  /\ pow2[0] = 1
  /\ \A e \in Nat : pow2[e + 1] = 2 * pow2[e]
<1> DEFINE Double == [e \in Nat |-> [v \in Nat |-> 2 * v]]
           Eq(f) == f = [e \in Nat |-> IF e = 0 THEN 1 ELSE 2 * f[e - 1]]
<1>1. Double \in [Nat -> [Nat -> Nat]] /\ \A e, v \in Nat : Double[e][v] = 2 * v
  OBVIOUS
<1> HIDE DEF Double
<1>2. PICK f : GoesOn(f, Nat, 1, Double)
  <2>1. 1 \in Nat
    OBVIOUS
  <2> QED
    BY <1>1, <2>1, RecursionExists, Zenon
<1>3. f \in [Nat -> Nat] /\ f[0] = 1 /\ \A m \in Nat : f[m + 1] = 2 * f[m]
  BY <1>1, <1>2 DEF GoesOn
<1>4. ASSUME NEW e \in Nat PROVE f[e] = IF e = 0 THEN 1 ELSE 2 * f[e - 1]
  <2>1. CASE e = 0
    BY <1>3, <2>1
  <2>2. CASE e # 0
    <3>1. e - 1 \in Nat /\ (e - 1) + 1 = e
      BY <2>2
    <3> QED
      BY <1>3, <2>2, <3>1
  <2> QED
    BY <2>1, <2>2
<1>5. Eq(f)
  BY <1>3, <1>4
<1>6. Eq(pow2)
  <2>1. pow2 = CHOOSE g : Eq(g)
    BY DEF pow2
  <2> HIDE DEF Eq
  <2> QED
    BY <1>5, <2>1
<1>7. pow2[0] = 1 /\ \A e \in Nat : pow2[e + 1] = 2 * pow2[e]
  <2>1. \A e \in Nat : pow2[e] = IF e = 0 THEN 1 ELSE 2 * pow2[e - 1]
    BY <1>6
  <2>2. ASSUME NEW e \in Nat PROVE pow2[e + 1] = 2 * pow2[e]
    <3>1. e + 1 \in Nat /\ e + 1 # 0 /\ (e + 1) - 1 = e
      OBVIOUS
    <3> QED
      BY <2>1, <3>1
  <2> QED
    BY <2>1, <2>2
<1>8. \A e \in Nat : pow2[e] \in Nat
  <2> DEFINE S == {e \in Nat : pow2[e] \in Nat}
  <2>1. 0 \in S
    BY <1>7
  <2>2. \A e \in Nat : e \in S => e + 1 \in S
    BY <1>7
  <2> HIDE DEF S
  <2>3. \A e \in Nat : e \in S
    BY <2>1, <2>2, InductiveSet
  <2> QED
    BY <2>3 DEF S
<1>9. pow2 \in [Nat -> Nat]
  BY <1>6, <1>8
<1> QED
  BY <1>7, <1>9
-----------------------------------------------------------------------------
(***************************************************************************)
(* The size.                                                               *)
(***************************************************************************)

\* The load factor leaves room: what makes hashmap_indexof end.
NeverFull == Cardinality(Used) < capacity

\* In the loop of hashmap_expand, at most one entry was moved per iteration.
LoopInv == ~ Idle => size <= i /\ 2 * i <= capacity + 1

\* hashmap_put stores nothing in a table that counts 71 per cent of its slots
\* as used.
SizeBounds == TypeOK /\ size <= (71 * capacity) \div 100 + 1 /\ LoopInv

\* By how much the count falls behind.
Lag == Cardinality(Used) - size

\* The used slots can be counted.
LEMMA UsedIsFinite ==
  ASSUME TypeOK
  PROVE  /\ IsFiniteSet(Used)
         /\ Cardinality(Used) \in Nat
<1>1. IsFiniteSet(Index)
  BY FS_Interval DEF Index, TypeOK
<1>2. Used \subseteq Index
  BY DEF Used
<1> QED
  BY <1>1, <1>2, FS_Subset, FS_CardinalityType

\* A load factor of at most 70 per cent is less than 71 per cent.
LEMMA LoadFactorBound ==
  ASSUME NEW s \in Int, NEW c \in Nat, c > 0
  PROVE  /\ (s * 100) \div c <= 70 => s * 100 < 71 * c
         /\ 2 * s <= c => (s * 100) \div c <= 70
<1>1. PICK q \in Int : q = (s * 100) \div c
  OBVIOUS
<1>2. q * c <= s * 100 /\ s * 100 < (q + 1) * c
  BY <1>1
<1>3. q <= 70 => (q + 1) * c <= 71 * c
  BY <1>2
<1>4. q > 70 => 71 * c <= q * c
  BY <1>2
<1> QED
  BY <1>1, <1>2, <1>3, <1>4

\* What is below 71 per cent, rounded down or not.
LEMMA SeventyOnePercent ==
  ASSUME NEW s \in Int, NEW c \in Nat, c >= 4
  PROVE  /\ (71 * c) \div 100 \in Int
         /\ s * 100 <= 71 * c => s <= (71 * c) \div 100
         /\ 2 * s <= c + 1 => s <= (71 * c) \div 100
         /\ 0 <= (71 * c) \div 100
         /\ (71 * c) \div 100 + 1 < c
OBVIOUS

\* Storing adds the slot it ends at to the used ones, and counts it.
LEMMA StoreCounts ==
  ASSUME TypeOK, NEW e \in Entry, Store(e), capacity' = capacity
  PROVE  /\ array' \in [Index -> Slot]
         /\ Lag' = Lag
         /\ size' \in Int
         /\ size' <= size + 1
<1>1. PICK j \in Index :
        /\ array' = [array EXCEPT ![j] = e]
        /\ size' = IF array[j] = Unused THEN size + 1 ELSE size
  BY Zenon DEF Store
<1>2. array' \in [Index -> Slot] /\ e # Unused
  BY <1>1, HashmapAssumption DEF TypeOK, Slot
<1>3. Used' = Used \cup {j}
  BY <1>1, <1>2 DEF Used, TypeOK, Index
<1>4. IsFiniteSet(Used) /\ Cardinality(Used) \in Nat /\ size \in Int
  BY UsedIsFinite DEF TypeOK
<1>5. CASE array[j] = Unused
  <2>1. j \notin Used
    BY <1>5 DEF Used
  <2>2. Cardinality(Used') = Cardinality(Used) + 1
    BY <1>3, <1>4, <2>1, FS_AddElement, Zenon
  <2>3. size' = size + 1
    BY <1>1, <1>5
  <2> QED
    BY <1>2, <1>4, <2>2, <2>3 DEF Lag
<1>6. CASE array[j] # Unused
  <2>1. Used' = Used
    BY <1>3, <1>6 DEF Used
  <2>2. size' = size
    BY <1>1, <1>6
  <2> QED
    BY <1>2, <1>4, <2>1, <2>2 DEF Lag
<1> QED
  BY <1>5, <1>6

\* An empty array has no used slot.
LEMMA EmptyCounts ==
  ASSUME Used = {}, size = 0
  PROVE  Lag = 0
  BY FS_EmptySet DEF Lag

\* hashmap_alloc counts nothing in an empty table.
LEMMA InitSizeBounds == Init => SizeBounds /\ Lag = 0
<1> SUFFICES ASSUME Init PROVE SizeBounds /\ Lag = 0
  OBVIOUS
<1>1. TypeOK /\ Idle
  BY InitLookupInv DEF LookupInv
<1>2. array = [j \in Index |-> Unused] /\ size = 0
  BY DEF Init, hashmap_alloc
<1>3. Lag = 0
  BY <1>2, EmptyCounts DEF Used
<1>4. capacity \in Nat /\ capacity >= 4
  BY <1>1, HashmapAssumption DEF TypeOK
<1>5. size <= (71 * capacity) \div 100 + 1
  BY <1>2, <1>4, SeventyOnePercent
<1> QED
  BY <1>1, <1>3, <1>5 DEF SizeBounds, LoopInv

\* Starting to grow: the new array is empty and twice as large.
LEMMA BeginExpandSize ==
  ASSUME SizeBounds, NEW e \in Slot, BeginExpand(e)
  PROVE  SizeBounds' /\ Lag' = 0 /\ capacity' # capacity
<1>1. /\ old' = array /\ array' = [j \in 0..(2 * capacity - 1) |-> Unused]
      /\ capacity' = 2 * capacity /\ i' = 0 /\ size' = 0 /\ todo' = e
  BY DEF BeginExpand
<1>2. capacity \in Nat /\ capacity >= 4
  BY HashmapAssumption DEF SizeBounds, TypeOK
<1>3. Index' = 0..(2 * capacity - 1) /\ OldIndex' = Index
  BY <1>1, <1>2 DEF Index, OldIndex
<1>4. TypeOK'
  BY <1>1, <1>3, HashmapAssumption DEF SizeBounds, TypeOK, Slot
<1>5. Used' = {}
  BY <1>1, <1>3 DEF Used
<1>6. Cardinality(Used') = 0
  BY <1>5, FS_EmptySet
<1>7. size' <= (71 * capacity') \div 100 + 1
  BY <1>1, <1>2, SeventyOnePercent
<1>8. LoopInv'
  BY <1>1, <1>2 DEF LoopInv
<1> QED
  BY <1>1, <1>2, <1>4, <1>6, <1>7, <1>8 DEF SizeBounds, Lag

\* Removing a key frees the slot its probe ends at, and counts down whether it
\* was used or not.
LEMMA RemoveSize ==
  ASSUME SizeBounds, NEW k \in Keys, hashmap_remove(k)
  PROVE  /\ SizeBounds' /\ capacity' = capacity
         /\ Lag' = IF hashmap_contains_key(k) THEN Lag ELSE Lag + 1
<1>1. PICK j \in Index : /\ hashmap_indexof(k, j)
                         /\ array' = [array EXCEPT ![j] = Unused]
  BY Zenon DEF hashmap_remove
<1>2. /\ size' = size - 1 /\ UNCHANGED <<capacity, old, i, todo>>
      /\ Idle /\ Idle' /\ Index' = Index
  BY DEF hashmap_remove, Idle, Index
<1>3. TypeOK'
  BY <1>1, <1>2 DEF SizeBounds, TypeOK, Slot
<1>4. Used' = Used \ {j}
  BY <1>1, <1>2 DEF Used, SizeBounds, TypeOK
<1>5. /\ IsFiniteSet(Used) /\ Cardinality(Used) \in Nat /\ size \in Int
      /\ capacity \in Nat /\ capacity >= 4
  BY UsedIsFinite, HashmapAssumption DEF SizeBounds, TypeOK
<1>6. SizeBounds'
  <2>1. size' <= (71 * capacity') \div 100 + 1
    BY <1>2, <1>5, SeventyOnePercent DEF SizeBounds
  <2> QED
    BY <1>2, <1>3, <2>1 DEF SizeBounds, LoopInv
<1>7. CASE hashmap_contains_key(k)
  <2>1. PICK l \in Index : hashmap_indexof(k, l) /\ array[l] # Unused
    BY <1>7 DEF hashmap_contains_key, Found
  <2>2. j \in Used
    BY <1>1, <2>1, ProbeIsUnique DEF SizeBounds, Used
  <2>3. Cardinality(Used') = Cardinality(Used) - 1
    BY <1>4, <1>5, <2>2, FS_RemoveElement, Zenon
  <2> QED
    BY <1>2, <1>5, <1>6, <1>7, <2>3 DEF Lag
<1>8. CASE ~ hashmap_contains_key(k)
  <2>1. array[j] = Unused
    <3> SUFFICES ASSUME array[j] # Unused PROVE FALSE
      OBVIOUS
    <3>1. array[j] \in Entry
      BY DEF SizeBounds, TypeOK, Slot
    <3>2. array[j].value \in Values
      BY <3>1 DEF Entry
    <3> QED
      BY <1>1, <1>8, <3>2 DEF hashmap_contains_key, Found
  <2>2. Used' = Used
    BY <1>4, <2>1 DEF Used
  <2> QED
    BY <1>2, <1>5, <1>6, <1>8, <2>2 DEF Lag
<1> QED
  BY <1>7, <1>8

\* A call that removes nothing, or a key that is there, keeps the bounds.  The
\* count falls behind no further, and is exact again once the table is cleared
\* or starts to grow.
LEMMA StepKeepsLag ==
  ASSUME SizeBounds, NextRemovingPresent
  PROVE  /\ SizeBounds'
         /\ Lag' = IF hashmap_clear \/ capacity' # capacity THEN 0 ELSE Lag
<1>0. size \in Int /\ capacity \in Nat /\ capacity >= 4
  BY HashmapAssumption DEF SizeBounds, TypeOK
<1>1. CASE hashmap_clear
  <2>1. /\ Idle' /\ array' = [j \in Index |-> Unused] /\ size' = 0
        /\ Index' = Index /\ UNCHANGED <<capacity, i, todo>>
    BY <1>1 DEF hashmap_clear, Idle, Index
  <2>2. Cardinality(Used') = 0
    <3>1. Used' = {}
      BY <2>1 DEF Used
    <3> QED
      BY <3>1, FS_EmptySet
  <2>3. TypeOK'
    BY <2>1 DEF SizeBounds, TypeOK, Slot
  <2>4. size' <= (71 * capacity') \div 100 + 1
    BY <1>0, <2>1, SeventyOnePercent
  <2> QED
    BY <1>1, <2>1, <2>2, <2>3, <2>4 DEF SizeBounds, LoopInv, Lag
<1> SUFFICES ASSUME ~ hashmap_clear
             PROVE  /\ SizeBounds'
                    /\ Lag' = IF capacity' # capacity THEN 0 ELSE Lag
  BY <1>1
<1>2. ASSUME NEW e \in Entry, hashmap_put(e)
      PROVE  SizeBounds' /\ Lag' = Lag /\ capacity' = capacity
  <2>1. /\ Store(e) /\ ~ MustGrow /\ Idle'
        /\ UNCHANGED <<capacity, old, i, todo>>
    BY <1>2 DEF hashmap_put, Idle
  <2>2. /\ array' \in [Index -> Slot] /\ Lag' = Lag
        /\ size' \in Int /\ size' <= size + 1
    BY <2>1, StoreCounts DEF SizeBounds
  <2>3. size * 100 < 71 * capacity
    BY <1>0, <2>1, LoadFactorBound DEF MustGrow, hashmap_load_factor
  <2>4. size' <= (71 * capacity') \div 100 + 1
    BY <1>0, <2>1, <2>2, <2>3, SeventyOnePercent
  <2>5. TypeOK'
    BY <2>1, <2>2 DEF SizeBounds, TypeOK, Index, Slot
  <2> QED
    BY <2>1, <2>2, <2>4, <2>5 DEF SizeBounds, LoopInv
<1>3. ASSUME NEW e \in Entry, PutExpands(e)
      PROVE  SizeBounds' /\ Lag' = 0 /\ capacity' # capacity
  BY <1>3, BeginExpandSize DEF PutExpands, Slot
<1>4. CASE hashmap_expand
  BY <1>4, BeginExpandSize DEF hashmap_expand, Slot
<1>5. CASE ExpandMoves
  <2>1. /\ ~ Idle /\ ~ Idle' /\ i \in OldIndex /\ old[i] # Unused /\ ~ MustGrow
        /\ Store(old[i]) /\ i' = i + 1 /\ UNCHANGED <<capacity, old, todo>>
    BY <1>5 DEF ExpandMoves, Idle, Moving
  <2>2. old[i] \in Entry /\ i \in Nat /\ 2 * i < capacity /\ size <= i
    BY <2>1 DEF SizeBounds, LoopInv, TypeOK, Slot, OldIndex
  <2>3. /\ array' \in [Index -> Slot] /\ Lag' = Lag
        /\ size' \in Int /\ size' <= size + 1
    BY <2>1, <2>2, StoreCounts DEF SizeBounds
  <2>4. TypeOK'
    BY <2>1, <2>2, <2>3 DEF SizeBounds, TypeOK, Index, OldIndex, Slot
  <2>5. size <= (71 * capacity) \div 100 /\ (71 * capacity) \div 100 \in Int
    BY <1>0, <2>2, SeventyOnePercent
  <2>6. size' <= (71 * capacity') \div 100 + 1
    BY <1>0, <2>1, <2>3, <2>5
  <2>7. LoopInv'
    BY <1>0, <2>1, <2>2, <2>3 DEF LoopInv
  <2> QED
    BY <2>1, <2>3, <2>4, <2>6, <2>7 DEF SizeBounds
<1>6. CASE ExpandSkips
  <2>1. /\ ~ Idle /\ ~ Idle' /\ i \in OldIndex /\ i' = i + 1
        /\ UNCHANGED <<array, capacity, size, old, todo>>
    BY <1>6 DEF ExpandSkips, Idle, Moving
  <2>2. i \in Nat /\ 2 * i < capacity /\ size <= i
    BY <2>1 DEF SizeBounds, LoopInv, TypeOK, OldIndex
  <2>3. TypeOK' /\ Lag' = Lag
    BY <2>1, <2>2 DEF SizeBounds, TypeOK, Index, OldIndex, Slot, Lag, Used
  <2>4. LoopInv'
    BY <1>0, <2>1, <2>2 DEF LoopInv
  <2> QED
    BY <2>1, <2>3, <2>4 DEF SizeBounds
<1>7. CASE ExpandEnds
  <2>1. /\ Idle' /\ i' = 0 /\ todo' = Unused /\ UNCHANGED capacity
        /\ todo \in Slot /\ size <= i /\ 2 * i <= capacity + 1 /\ i \in Nat
    BY <1>7 DEF ExpandEnds, Idle, SizeBounds, TypeOK, LoopInv
  <2>2. CASE todo = Unused
    <3>1. array' = array /\ size' = size
      BY <1>7, <2>2 DEF ExpandEnds
    <3> QED
      BY <2>1, <3>1 DEF SizeBounds, TypeOK, Index, Slot, Lag, Used, LoopInv
  <2>3. CASE todo # Unused
    <3>1. Store(todo) /\ todo \in Entry
      BY <1>7, <2>1, <2>3 DEF ExpandEnds, Slot
    <3>2. /\ array' \in [Index -> Slot] /\ Lag' = Lag
          /\ size' \in Int /\ size' <= size + 1
      BY <2>1, <3>1, StoreCounts DEF SizeBounds
    <3>3. TypeOK'
      BY <2>1, <3>2 DEF SizeBounds, TypeOK, Index, Slot
    <3>4. i <= (71 * capacity) \div 100 /\ (71 * capacity) \div 100 \in Int
      BY <1>0, <2>1, SeventyOnePercent
    <3>5. size' <= (71 * capacity') \div 100 + 1
      BY <1>0, <2>1, <3>2, <3>4
    <3> QED
      BY <2>1, <3>2, <3>3, <3>5 DEF SizeBounds, LoopInv
  <2> QED
    BY <2>2, <2>3
<1>8. ASSUME NEW k \in Keys, hashmap_contains_key(k), hashmap_remove(k)
      PROVE  SizeBounds' /\ Lag' = Lag /\ capacity' = capacity
  BY <1>8, RemoveSize
<1>9. CASE capacity' # capacity
  <2>1. ~ ExpandMoves /\ ~ ExpandSkips /\ ~ ExpandEnds
    BY <1>9 DEF ExpandMoves, ExpandSkips, ExpandEnds
  <2> QED
    BY <1>2, <1>3, <1>4, <1>8, <1>9, <2>1 DEF NextRemovingPresent, Next
<1>10. CASE capacity' = capacity
  <2>1. ~ hashmap_expand
    BY <1>4, <1>10, BeginExpandSize DEF hashmap_expand, Slot
  <2> QED
    BY <1>2, <1>3, <1>5, <1>6, <1>7, <1>8, <1>10, <2>1
       DEF NextRemovingPresent, Next
<1> QED
  BY <1>9, <1>10
\* What holds when callers remove only keys that are there.
SizeInv == SizeBounds /\ SizeCountsUsed

\* Every caller that removes only what is there keeps SizeInv.
LEMMA SizeInvariant == RemovingPresentSpec => []SizeInv
<1>1. TypeOK => (SizeCountsUsed <=> Lag = 0)
  BY UsedIsFinite DEF SizeCountsUsed, Lag, TypeOK
<1>2. Init => SizeInv
  BY <1>1, InitSizeBounds DEF SizeInv, SizeBounds
<1>3. (TypeOK => (SizeCountsUsed <=> Lag = 0))'
  BY <1>1, PTL
<1>4. SizeInv /\ [NextRemovingPresent]_mapVars => SizeInv'
  <2>1. ASSUME SizeInv, NextRemovingPresent PROVE SizeInv'
    <3>1. SizeBounds' /\ Lag' = 0
      BY <1>1, <2>1, StepKeepsLag DEF SizeInv, SizeBounds
    <3> QED
      BY <1>3, <3>1 DEF SizeInv, SizeBounds
  <2>2. ASSUME SizeInv, UNCHANGED mapVars PROVE SizeInv'
    BY <2>2 DEF mapVars, SizeInv, SizeBounds, TypeOK, Index, OldIndex, Slot,
       Idle, SizeCountsUsed, Used, LoopInv
  <2> QED
    BY <2>1, <2>2
<1> QED
  BY <1>2, <1>4, PTL DEF RemovingPresentSpec

\* map->size is the number of elements in use, as long as only keys that are
\* in the table are removed.
THEOREM SizeIsExact == RemovingPresentSpec => []SizeCountsUsed
<1>1. SizeInv => SizeCountsUsed
  BY DEF SizeInv
<1> QED
  BY SizeInvariant, <1>1, PTL

\* The table always has an unused slot, where the probe for an absent key
\* stops.
THEOREM TableIsNeverFull == RemovingPresentSpec => []NeverFull
<1>1. SizeInv => NeverFull
  <2> SUFFICES ASSUME SizeInv PROVE NeverFull
    OBVIOUS
  <2>1. size \in Int /\ capacity \in Nat /\ capacity >= 4
    BY HashmapAssumption DEF SizeInv, SizeBounds, TypeOK
  <2>2. size < capacity
    BY <2>1, SeventyOnePercent DEF SizeInv, SizeBounds
  <2> QED
    BY <2>2 DEF SizeInv, SizeCountsUsed, NeverFull
<1> QED
  BY SizeInvariant, <1>1, PTL

\* The loop of hashmap_expand starts to count anew, so what is counted fits.
LEMMA LoopNeverGrows == SizeBounds => ExpansionNeverNests
<1> SUFFICES ASSUME SizeBounds, ~ Idle, i \in OldIndex
             PROVE  ~ MustGrow
  BY DEF ExpansionNeverNests, Moving
<1>1. /\ size \in Int /\ capacity \in Nat /\ capacity > 0
      /\ i \in Nat /\ size <= i /\ 2 * i < capacity
  BY HashmapAssumption DEF SizeBounds, TypeOK, LoopInv, OldIndex
<1>2. 2 * size <= capacity
  BY <1>1
<1>3. (size * 100) \div capacity <= 70 /\ (size * 100) \div capacity \in Int
  BY <1>1, <1>2, LoadFactorBound
<1> QED
  BY <1>3 DEF MustGrow, hashmap_load_factor

\* The hashmap_put in the loop of hashmap_expand never grows the table again.
THEOREM GrowthNeverNests == RemovingPresentSpec => []ExpansionNeverNests
<1>1. SizeInv => ExpansionNeverNests
  BY LoopNeverGrows DEF SizeInv
<1> QED
  BY SizeInvariant, <1>1, PTL

\* The comment at hashmap.c:15, for every minimal capacity that is a power of
\* two and every requested size: the capacity is one, whether the table was
\* just allocated (hashmap.c:21-46) or has grown (hashmap.c:173-179), so that
\* hash & (capacity - 1) is a remainder.
THEOREM CapacityStaysPowerOfTwo == RemovingPresentSpec => []CapacityIsPowerOfTwo
<1>1. \A e \in Nat : e < pow2[e]
  <2> DEFINE S == {e \in Nat : e < pow2[e]}
  <2>1. 0 \in S
    BY Pow2Def
  <2>2. ASSUME NEW e \in Nat, e \in S PROVE e + 1 \in S
    <3>1. pow2[e + 1] = 2 * pow2[e] /\ pow2[e] \in Nat /\ e < pow2[e]
      BY <2>2, Pow2Def
    <3> QED
      BY <3>1
  <2> HIDE DEF S
  <2>3. \A e \in Nat : e \in S
    BY <2>1, <2>2, InductiveSet
  <2> QED
    BY <2>3 DEF S
<1>2. Init => CapacityIsPowerOfTwo
  <2> SUFFICES ASSUME NEW s \in InitialSizes, hashmap_alloc(s)
               PROVE  IsPowerOfTwo(capacity)
    BY DEF Init, CapacityIsPowerOfTwo
  <2>0. s \in Nat
    BY HashmapAssumption
  <2>1. PICK h \in 0..s :
          /\ highest_bit(s, h)
          /\ capacity = IF h * 2 < MinCapacity THEN MinCapacity ELSE h * 2
    BY DEF hashmap_alloc
  <2>2. PICK e \in 0..s : h = pow2[e] \div 2
    BY <2>1 DEF highest_bit
  <2>3. CASE h * 2 < MinCapacity
    BY <2>1, <2>3, HashmapAssumption
  <2>4. CASE ~ (h * 2 < MinCapacity)
    <3>1. e # 0
      BY <2>2, <2>4, Pow2Def, HashmapAssumption
    <3>2. e - 1 \in Nat /\ (e - 1) + 1 = e /\ e \in Nat
      BY <2>0, <3>1
    <3>3. pow2[e] = 2 * pow2[e - 1] /\ pow2[e - 1] \in Nat
      BY <3>2, Pow2Def
    <3>4. capacity = pow2[e]
      BY <2>0, <2>1, <2>2, <2>4, <3>3
    <3>5. e \in 0..capacity
      BY <1>1, <3>2, <3>3, <3>4
    <3> QED
      BY <3>4, <3>5 DEF IsPowerOfTwo
  <2> QED
    BY <2>3, <2>4
<1>3. ASSUME TypeOK, CapacityIsPowerOfTwo, [NextRemovingPresent]_mapVars
      PROVE  CapacityIsPowerOfTwo'
  <2>1. CASE capacity' = capacity
    BY <1>3, <2>1 DEF CapacityIsPowerOfTwo, IsPowerOfTwo
  <2>2. CASE capacity' = 2 * capacity
    <3>1. PICK e \in 0..capacity : capacity = pow2[e]
      BY <1>3 DEF CapacityIsPowerOfTwo, IsPowerOfTwo
    <3>2. capacity \in Nat /\ capacity >= 4
      BY <1>3, HashmapAssumption DEF TypeOK
    <3>3. e + 1 \in 0..(2 * capacity) /\ e \in Nat
      BY <3>2
    <3>4. 2 * capacity = pow2[e + 1]
      BY <3>1, <3>3, Pow2Def
    <3> QED
      BY <2>2, <3>3, <3>4 DEF CapacityIsPowerOfTwo, IsPowerOfTwo
  <2> QED
    BY <1>3, <2>1, <2>2 DEF NextRemovingPresent, Next, mapVars, hashmap_put,
       PutExpands, hashmap_expand, BeginExpand, ExpandMoves, ExpandSkips,
       ExpandEnds, hashmap_clear, hashmap_remove
<1>4. SizeInv => TypeOK
  BY DEF SizeInv, SizeBounds
<1>5. SizeInv /\ CapacityIsPowerOfTwo /\ [NextRemovingPresent]_mapVars
        => CapacityIsPowerOfTwo'
  BY <1>3, <1>4
<1> QED
  BY <1>2, <1>5, SizeInvariant, PTL DEF RemovingPresentSpec

-----------------------------------------------------------------------------
(***************************************************************************)
(* Probing ends.                                                           *)
(***************************************************************************)

\* Adding a multiple of the capacity and an index gives the index.
LEMMA RemainderOf ==
  ASSUME NEW c \in Nat, c > 0, NEW q \in Nat, NEW j \in 0..(c - 1)
  PROVE  (c * q + j) % c = j
OBVIOUS

\* Quotient and remainder.
LEMMA Division ==
  ASSUME NEW h \in Nat, NEW c \in Nat, c > 0
  PROVE  \E q \in Nat, r \in 0..(c - 1) : h = c * q + r
<1> DEFINE q == h \div c
           r == h % c
<1>1. q \in Nat /\ r \in 0..(c - 1) /\ h = c * q + r
  OBVIOUS
<1> QED
  BY <1>1

\* The probe sequence of a key goes through the whole table.
LEMMA ProbeReaches ==
  ASSUME TypeOK, NEW k \in Keys, NEW j \in Index
  PROVE  \E d \in Index : Probe(k, d) = j
<1>1. PICK h \in Nat : h = Hash[k]
  BY HashmapAssumption
<1>2. PICK c \in Nat : c = capacity /\ c > 0
  BY HashmapAssumption DEF TypeOK
<1>3. PICK q \in Nat, r \in 0..(c - 1) : h = c * q + r
  BY <1>2, Division
<1>4. j \in 0..(c - 1)
  BY <1>2 DEF Index
<1>5. CASE j >= r
  <2>1. j - r \in Index /\ h + (j - r) = c * q + j
    BY <1>2, <1>3, <1>4, <1>5 DEF Index
  <2>2. (c * q + j) % c = j
    BY <1>2, <1>4, RemainderOf
  <2> QED
    BY <1>1, <1>2, <2>1, <2>2 DEF Probe
<1>6. CASE j < r
  <2>1. j - r + c \in Index
    BY <1>2, <1>3, <1>4, <1>6 DEF Index
  <2>2. h + (j - r + c) = c * (q + 1) + j
    <3>1. c * (q + 1) = c * q + c
      OBVIOUS
    <3> QED
      BY <1>3, <1>4, <3>1
  <2>3. (c * (q + 1) + j) % c = j
    BY <1>2, <1>4, RemainderOf
  <2> QED
    BY <1>1, <1>2, <2>1, <2>2, <2>3 DEF Probe
<1> QED
  BY <1>3, <1>4, <1>5, <1>6

\* A table that is not full has an unused slot.
LEMMA UnusedExists ==
  ASSUME TypeOK, NeverFull
  PROVE  \E j \in Index : array[j] = Unused
<1> SUFFICES ASSUME \A j \in Index : array[j] # Unused
             PROVE  FALSE
  OBVIOUS
<1>1. Used = 0..(capacity - 1) /\ capacity \in Nat /\ capacity > 0
  BY HashmapAssumption DEF Used, Index, TypeOK
<1>2. Cardinality(0..(capacity - 1)) = capacity
  BY <1>1, FS_Interval
<1> QED
  BY <1>1, <1>2 DEF NeverFull

\* A probe that meets an unused slot ends.
LEMMA FreeSlotEndsProbes == TypeOK /\ NeverFull => ProbesEnd
<1> SUFFICES ASSUME TypeOK, NeverFull, NEW k \in Keys
             PROVE  \E j \in Index : hashmap_indexof(k, j)
  BY DEF ProbesEnd
<1> DEFINE S == {d \in Index : ~ Collides(k, d)}
<1>2. PICK j \in Index : array[j] = Unused
  BY UnusedExists
<1>3. PICK d \in Index : Probe(k, d) = j
  BY ProbeReaches
<1>4. d \in S
  BY <1>2, <1>3 DEF Collides
<1>5. S \subseteq Nat
  BY DEF Index
<1>6. PICK f \in S : \A e \in S : ~ (e < f)
  BY <1>4, <1>5, LeastExists
<1>7. f \in Index /\ ~ Collides(k, f) /\ \A e \in Index : e < f => Collides(k, e)
  BY <1>6
<1>8. Probe(k, f) \in Index
  <2>1. Hash[k] + f \in Nat /\ capacity \in Nat /\ capacity > 0
    BY <1>7, HashmapAssumption DEF TypeOK, Index
  <2> QED
    BY <2>1 DEF Probe, Index
<1> QED
  BY <1>7, <1>8 DEF hashmap_indexof
\* The loop of hashmap_indexof ends for every key, present or not
\* (hashmap.c:62), whatever the hash function and the capacity, as long as only
\* keys that are present are removed.
THEOREM ProbingEnds == RemovingPresentSpec => []ProbesEnd
<1>1. NeverFull /\ SizeInv => ProbesEnd
  BY FreeSlotEndsProbes DEF SizeInv, SizeBounds
<1> QED
  BY SizeInvariant, TableIsNeverFull, <1>1, PTL

\* So it does for a caller that never removes, like the ARP cache, of which
\* ArpCacheProofs shows that it is one: every lookup under cache_mutex ends, and
\* nobody waits for the mutex because of a full table (hashmap.c:62).
THEOREM AddingProbesEnd == Spec => []ProbesEnd
<1>1. [Next]_mapVars => [NextRemovingPresent]_mapVars
  BY DEF NextRemovingPresent
<1>2. Spec => RemovingPresentSpec
  BY <1>1, PTL DEF Spec, RemovingPresentSpec
<1> QED
  BY ProbingEnds, <1>2, PTL

-----------------------------------------------------------------------------
(***************************************************************************)
(* The iterator, and an owner who may remove keys that are not there.      *)
(***************************************************************************)

\* The loops of hashmap_it_has_next and hashmap_it_next stop at the first used
\* slot or behind the last slot.
LEMMA FirstUsedIsFirst ==
  ASSUME TypeOK, NEW from \in Nat, from <= capacity
  PROVE  /\ FirstUsed(from) \in from..capacity
         /\ FirstUsed(from) = capacity \/ array[FirstUsed(from)] # Unused
         /\ \A l \in from..(FirstUsed(from) - 1) : array[l] = Unused
<1> DEFINE Stops(j) == j = capacity \/ array[j] # Unused
           S == {j \in from..capacity : Stops(j)}
<1>1. capacity \in Nat /\ S \subseteq Nat /\ capacity \in S
  BY DEF TypeOK
<1>2. PICK j \in S : \A l \in S : ~ (l < j)
  <2> HIDE DEF S
  <2> QED
    BY <1>1, LeastExists
<1>3. /\ j \in from..capacity /\ Stops(j)
      /\ \A l \in from..(j - 1) : array[l] = Unused
  BY <1>1, <1>2
<1> QED
  BY <1>3 DEF FirstUsed

\* What the iterator's steps rest on.
ItInv == ItTypeOK /\ SizeBounds /\ Lag = missed /\ EveryEntryOnce

\* The search starts inside the table or right behind it.
LEMMA FromIsIndex ==
  ASSUME ItTypeOK, ~ AtEnd
  PROVE  From \in Nat /\ From <= capacity /\ capacity \in Nat
BY DEF ItTypeOK, TypeOK, AtEnd, From

\* Returning the next entry, or finding none.
LEMMA NextEntryOnce ==
  ASSUME ItTypeOK, EveryEntryOnce, NextEntry
  PROVE  /\ EveryEntryOnce'
         /\ it_map' \in BOOLEAN /\ consumed' \in BOOLEAN /\ changed' \in BOOLEAN
         /\ it_index' \in Nat /\ returned' \in Nat /\ seen' \subseteq Nat
<1> DEFINE j == FirstUsed(From)
<1>1. /\ ~ AtEnd /\ it_index' = j /\ consumed' = (j < capacity) /\ Record(j)
      /\ UNCHANGED <<mapVars, it_map>>
  BY DEF NextEntry
<1>2. From \in Nat /\ From <= capacity /\ capacity \in Nat /\ TypeOK
  BY <1>1, FromIsIndex DEF ItTypeOK
<1>3. /\ j \in From..capacity /\ j \in Nat /\ (j = capacity \/ array[j] # Unused)
      /\ \A l \in From..(j - 1) : array[l] = Unused
  BY <1>2, FirstUsedIsFirst
<1> HIDE DEF j
<1>4. Used' = Used /\ capacity' = capacity
  BY <1>1 DEF mapVars, Used, Index
<1>5. CASE j < capacity
  <2>1. From' = j + 1
    BY <1>1, <1>5 DEF From
  <2>2. {l \in Used : l < j + 1} = {l \in Used : l < From} \cup {j}
    BY <1>2, <1>3, <1>5 DEF Used, Index
  <2>3. CASE changed
    <3>1. UNCHANGED historyVars
      BY <1>1, <2>3 DEF Record
    <3>2. changed' /\ UNCHANGED <<changed, seen, returned>>
      BY <2>3, <3>1 DEF historyVars
    <3> QED
      BY <1>1, <1>3, <3>2 DEF EveryEntryOnce, ItTypeOK
  <2>4. CASE ~ changed
    <3>1. seen' = seen \cup {j} /\ returned' = returned + 1 /\ UNCHANGED changed
      BY <1>1, <1>5, <2>4 DEF Record
    <3>2. seen = {l \in Used : l < From} /\ returned = Cardinality(seen)
      BY <2>4 DEF EveryEntryOnce
    <3>3. IsFiniteSet(seen)
      <4>1. seen \subseteq Used
        BY <3>2
      <4> QED
        BY <1>2, <4>1, UsedIsFinite, FS_Subset
    <3>4. j \notin seen
      BY <1>2, <1>3, <3>2
    <3>5. Cardinality(seen') = Cardinality(seen) + 1
      BY <3>1, <3>3, <3>4, FS_AddElement, Zenon
    <3>6. seen' = {l \in Used' : l < From'}
      BY <1>4, <2>1, <2>2, <3>1, <3>2
    <3>7. returned' = Cardinality(seen')
      BY <3>1, <3>2, <3>5
    <3>8. EveryEntryOnce'
      BY <3>6, <3>7 DEF EveryEntryOnce
    <3> QED
      BY <1>1, <1>3, <3>1, <3>8 DEF ItTypeOK
  <2> QED
    BY <2>3, <2>4 DEF ItTypeOK
<1>6. CASE ~ (j < capacity)
  <2>0. j = capacity
    BY <1>2, <1>3, <1>6
  <2>1. From' = capacity
    <3>1. ~ consumed' /\ it_index' = capacity
      BY <1>1, <1>6, <2>0
    <3> QED
      BY <3>1 DEF From
  <2>2. UNCHANGED historyVars
    BY <1>1, <1>6 DEF Record
  <2>3. {l \in Used : l < capacity} = {l \in Used : l < From}
    BY <1>2, <1>3, <2>0 DEF Used, Index
  <2>4. EveryEntryOnce'
    BY <1>4, <2>1, <2>2, <2>3 DEF EveryEntryOnce, historyVars
  <2> QED
    BY <1>1, <1>3, <2>2, <2>4 DEF ItTypeOK, historyVars
<1> QED
  BY <1>5, <1>6

\* The size and its bounds are about the table only.
LEMMA BoundsKept ==
  ASSUME SizeBounds, UNCHANGED mapVars
  PROVE  SizeBounds' /\ Lag' = Lag /\ Used' = Used
BY DEF mapVars, SizeBounds, TypeOK, Index, OldIndex, Slot, Idle, Used, LoopInv,
   Lag

\* hashmap_it_has_next moves past unused slots only.
LEMMA HasNextOnce ==
  ASSUME ItTypeOK, EveryEntryOnce, ~ AtEnd,
         it_index' = FirstUsed(From), consumed' = FALSE,
         UNCHANGED <<mapVars, historyVars>>
  PROVE  EveryEntryOnce' /\ it_index' \in Nat
<1>1. From \in Nat /\ From <= capacity /\ capacity \in Nat /\ TypeOK
  BY FromIsIndex DEF ItTypeOK
<1>2. PICK j \in From..capacity :
        it_index' = j /\ \A l \in From..(j - 1) : array[l] = Unused
  BY <1>1, FirstUsedIsFirst
<1>3. From' = j
  BY <1>2 DEF From
<1>4. {l \in Used : l < j} = {l \in Used : l < From}
  BY <1>1, <1>2 DEF Used, Index
<1>5. Used' = Used /\ UNCHANGED <<changed, seen, returned>>
  BY DEF mapVars, Used, Index, historyVars
<1> QED
  BY <1>1, <1>2, <1>3, <1>4, <1>5 DEF EveryEntryOnce

\* A pass begins.
LEMMA RestartOnce ==
  ASSUME Restart, TypeOK, UNCHANGED mapVars
  PROVE  /\ EveryEntryOnce'
         /\ consumed' \in BOOLEAN /\ changed' \in BOOLEAN
         /\ it_index' \in Nat /\ returned' \in Nat /\ seen' \subseteq Nat
<1>1. /\ it_index' = 0 /\ consumed' = FALSE
      /\ seen' = {} /\ returned' = 0 /\ changed' = FALSE
  BY DEF Restart
<1>2. From' = 0
  BY <1>1 DEF From
<1>3. Used' = Used /\ Used \subseteq Nat
  BY DEF mapVars, Used, Index
<1>4. {l \in Used' : l < From'} = {}
  <2>1. \A l \in Used' : ~ (l < 0)
    BY <1>3
  <2> QED
    BY <1>2, <2>1, Zenon
<1>5. EveryEntryOnce'
  <2>1. returned' = Cardinality(seen')
    BY <1>1, FS_EmptySet
  <2>2. seen' = {l \in Used' : l < From'}
    BY <1>1, <1>4
  <2> QED
    BY <2>1, <2>2 DEF EveryEntryOnce
<1> QED
  BY <1>1, <1>5

\* The owner's steps disturb the pass and keep count of what was missed.
LEMMA MapStepInv ==
  ASSUME ItInv, MapStep
  PROVE  ItInv'
<1>1. /\ changed' = TRUE /\ seen' = {} /\ returned' = 0
      /\ UNCHANGED <<it_map, it_index, consumed, n>>
  BY DEF MapStep, itVars
<1>2. SizeBounds' /\ Lag' = missed' /\ missed' \in Nat
  <2>1. CASE /\ NextRemovingPresent
             /\ missed' = IF hashmap_clear \/ capacity' # capacity THEN 0
                                                                   ELSE missed
    <3>1. /\ SizeBounds'
          /\ Lag' = IF hashmap_clear \/ capacity' # capacity THEN 0 ELSE Lag
      BY <2>1, StepKeepsLag DEF ItInv
    <3> QED
      BY <2>1, <3>1 DEF ItInv, ItTypeOK
  <2>2. ASSUME NEW k \in Keys, ~ hashmap_contains_key(k), hashmap_remove(k),
               missed' = missed + 1
        PROVE  SizeBounds' /\ Lag' = missed' /\ missed' \in Nat
    BY <2>2, RemoveSize DEF ItInv, ItTypeOK
  <2> QED
    BY <2>1, <2>2 DEF MapStep
<1>3. ItTypeOK'
  BY <1>1, <1>2 DEF ItInv, ItTypeOK, SizeBounds
<1>4. EveryEntryOnce'
  BY <1>1 DEF EveryEntryOnce
<1> QED
  BY <1>2, <1>3, <1>4 DEF ItInv

\* The iterator's steps leave the table alone.
LEMMA IteratorStepInv ==
  ASSUME ItInv, IteratorStep, UNCHANGED missed
  PROVE  ItInv'
<1>0. ItTypeOK /\ EveryEntryOnce /\ SizeBounds /\ TypeOK /\ Lag = missed
  BY DEF ItInv, ItTypeOK
<1> DEFINE Changes ==
      /\ EveryEntryOnce'
      /\ it_map' \in BOOLEAN /\ consumed' \in BOOLEAN /\ changed' \in BOOLEAN
      /\ it_index' \in Nat /\ returned' \in Nat /\ seen' \subseteq Nat
<1>1. SUFFICES UNCHANGED mapVars /\ Changes /\ n' \in 0..MaxSkip \cup {NoSkip}
  <2>1. SizeBounds' /\ Lag' = Lag
    BY <1>0, <1>1, BoundsKept
  <2>2. ItTypeOK'
    BY <1>0, <1>1, <2>1 DEF ItTypeOK, SizeBounds
  <2> QED
    BY <1>0, <1>1, <2>1, <2>2 DEF ItInv
<1>2. CASE hashmap_it_set_map
  BY <1>0, <1>2, RestartOnce DEF hashmap_it_set_map, ItTypeOK
<1>3. CASE hashmap_it_reset
  BY <1>0, <1>3, RestartOnce DEF hashmap_it_reset, ItTypeOK
<1>4. CASE hashmap_it_has_next
  <2>1. /\ ~ AtEnd /\ it_index' = FirstUsed(From) /\ consumed' = FALSE
        /\ UNCHANGED <<mapVars, it_map, n, historyVars>>
    BY <1>4 DEF hashmap_it_has_next
  <2>2. EveryEntryOnce' /\ it_index' \in Nat
    BY <1>0, <2>1, HasNextOnce
  <2>3. UNCHANGED <<changed, seen, returned>>
    BY <2>1 DEF historyVars
  <2> QED
    BY <1>0, <2>1, <2>2, <2>3 DEF ItTypeOK
<1>5. CASE hashmap_it_next
  <2>1. NextEntry /\ UNCHANGED n /\ UNCHANGED mapVars
    BY <1>5 DEF hashmap_it_next, NextEntry
  <2>2. Changes
    BY <1>0, <2>1, NextEntryOnce
  <2> QED
    BY <1>0, <2>1, <2>2 DEF ItTypeOK
<1>6. ASSUME NEW m \in 0..MaxSkip, hashmap_it_skip(m)
      PROVE  UNCHANGED mapVars /\ Changes /\ n' \in 0..MaxSkip \cup {NoSkip}
  <2>1. /\ UNCHANGED <<mapVars, it_map, it_index, consumed, historyVars>>
        /\ n' = m
    BY <1>6 DEF hashmap_it_skip
  <2>2. UNCHANGED <<changed, seen, returned>> /\ Used' = Used /\ From' = From
    BY <1>0, <2>1, BoundsKept DEF historyVars, From
  <2> QED
    BY <1>0, <2>1, <2>2 DEF ItTypeOK, EveryEntryOnce
<1>7. CASE SkipOne
  <2>1. NextEntry /\ n # NoSkip /\ n > 0 /\ n' = n - 1 /\ UNCHANGED mapVars
    BY <1>7 DEF SkipOne, NextEntry
  <2>2. Changes
    BY <1>0, <2>1, NextEntryOnce
  <2>3. n' \in 0..MaxSkip
    BY <1>0, <2>1, IteratorAssumption DEF ItTypeOK
  <2> QED
    BY <2>1, <2>2, <2>3
<1>8. CASE SkipReturns
  <2>1. n' = NoSkip /\ UNCHANGED <<mapVars, it_map, historyVars>>
    BY <1>8 DEF SkipReturns
  <2>2. UNCHANGED <<changed, seen, returned>> /\ Used' = Used
    BY <1>0, <2>1, BoundsKept DEF historyVars
  <2>3. CASE n = 0 \/ AtEnd
    <3>1. UNCHANGED <<it_index, consumed>>
      BY <1>8, <2>3 DEF SkipReturns
    <3>2. From' = From
      BY <3>1 DEF From
    <3> QED
      BY <1>0, <2>1, <2>2, <3>1, <3>2 DEF ItTypeOK, EveryEntryOnce
  <2>4. CASE ~ (n = 0 \/ AtEnd)
    <3>1. ~ AtEnd /\ it_index' = FirstUsed(From) /\ consumed' = FALSE
      BY <1>8, <2>4 DEF SkipReturns
    <3>2. EveryEntryOnce' /\ it_index' \in Nat
      BY <1>0, <2>1, <3>1, HasNextOnce
    <3> QED
      BY <1>0, <2>1, <2>2, <3>1, <3>2 DEF ItTypeOK
  <2> QED
    BY <2>3, <2>4
<1> QED
  BY <1>2, <1>3, <1>4, <1>5, <1>6, <1>7, <1>8 DEF IteratorStep

\* The iterator and the owner of the table keep ItInv.
LEMMA ItInvariant == ItSpec => []ItInv
<1>1. ItInit => ItInv
  <2> SUFFICES ASSUME ItInit PROVE ItInv
    OBVIOUS
  <2>1. /\ it_map = FALSE /\ it_index = 0 /\ consumed = FALSE /\ n = NoSkip
        /\ seen = {} /\ returned = 0 /\ changed = FALSE /\ missed = 0
    BY DEF ItInit
  <2>2. SizeBounds /\ Lag = 0
    BY InitSizeBounds DEF ItInit
  <2>3. ItTypeOK
    BY <2>1, <2>2 DEF ItTypeOK, SizeBounds
  <2>4. EveryEntryOnce
    <3>1. {j \in Used : j < From} = {}
      BY <2>1 DEF From, Used, Index
    <3> QED
      BY <2>1, <3>1, FS_EmptySet DEF EveryEntryOnce
  <2> QED
    BY <2>1, <2>2, <2>3, <2>4 DEF ItInv
<1>2. ItInv /\ [ItNext]_iteratorVars => ItInv'
  <2>1. ASSUME ItInv, UNCHANGED iteratorVars PROVE ItInv'
    <3>1. /\ UNCHANGED mapVars /\ UNCHANGED missed
          /\ UNCHANGED <<it_map, it_index, consumed, n, changed, seen, returned>>
      BY <2>1 DEF iteratorVars, itVars, historyVars
    <3>2. SizeBounds' /\ Lag' = Lag /\ Used' = Used
      BY <2>1, <3>1, BoundsKept DEF ItInv
    <3>3. ItTypeOK'
      BY <2>1, <3>1, <3>2 DEF ItInv, ItTypeOK, SizeBounds
    <3>4. EveryEntryOnce'
      <4>1. From' = From
        BY <3>1 DEF From
      <4> QED
        BY <2>1, <3>1, <3>2, <4>1 DEF ItInv, EveryEntryOnce
    <3> QED
      BY <2>1, <3>1, <3>2, <3>3, <3>4 DEF ItInv
  <2> QED
    BY <2>1, MapStepInv, IteratorStepInv DEF ItNext
<1> QED
  BY <1>1, <1>2, PTL DEF ItSpec

\* Types: in particular the skip count never passes below zero, and the table
\* keeps its type under removals of absent keys.
THEOREM IteratorTypeCorrect == ItSpec => []ItTypeOK
<1>1. ItInv => ItTypeOK
  BY DEF ItInv
<1> QED
  BY ItInvariant, <1>1, PTL

\* However has_next, next, skip and reset are mixed, on a table of any size with
\* any entries, the iterator has returned each entry behind it once and no
\* other, unless the table was changed since the pass began: what arp_destroy
\* needs to free every cell of the cache exactly once (hashmap.c:220-283,
\* arp.c:108-122).
THEOREM PassReturnsEveryEntryOnce == ItSpec => []EveryEntryOnce
<1>1. ItInv => EveryEntryOnce
  BY DEF ItInv
<1> QED
  BY ItInvariant, <1>1, PTL

\* Lookups end even when the size is too small, as long as the entries that are
\* not counted fit into the 29 per cent that the load factor leaves free
\* (hashmap.c:62, 117, 143).
THEOREM ProbingEndsDespiteMisses == ItSpec => []ProbesEndDespiteMisses
<1>1. ItInv => ProbesEndDespiteMisses
  <2> SUFFICES ASSUME ItInv, (71 * capacity) \div 100 + 1 + missed < capacity
               PROVE  ProbesEnd
    BY DEF ProbesEndDespiteMisses
  <2>1. /\ Cardinality(Used) \in Nat /\ size \in Int /\ Lag = missed
        /\ missed \in Nat /\ capacity \in Nat /\ TypeOK
        /\ size <= (71 * capacity) \div 100 + 1
    BY UsedIsFinite DEF ItInv, ItTypeOK, TypeOK, SizeBounds
  <2>2. (71 * capacity) \div 100 \in Int
    BY <2>1
  <2>3. Cardinality(Used) < capacity
    BY <2>1, <2>2 DEF Lag
  <2> QED
    BY <2>1, <2>3, FreeSlotEndsProbes DEF NeverFull
<1> QED
  BY ItInvariant, <1>1, PTL

\* A size that is too small makes hashmap_put grow the table late, but the loop
\* of hashmap_expand still never grows it again (hashmap.c:143, 185).
THEOREM GrowthNeverNestsDespiteMisses == ItSpec => []ExpansionNeverNests
<1>1. ItInv => ExpansionNeverNests
  BY LoopNeverGrows DEF ItInv
<1> QED
  BY ItInvariant, <1>1, PTL
=============================================================================
